--------------------------- MODULE BatcherProofs ---------------------------
(* Proofs about Batcher, for any loaders, any storers and any number of      *)
(* stores.                                                                   *)
EXTENDS Batcher, TLAPS

(* The part of NoWaiterIsForgotten about the loadDone channels. *)
DonesWillClose ==
  \A p \in Loaders : pc[p] = "onDone" =>
    /\ doneOf[p] \in Loaders
    /\ pc[doneOf[p]] \in {"swap", "slept", "check", "finish", "close"}

(* No step of the batcher or of the slow value leaves the types. *)
LEMMA TypingStep ==
  ASSUME TypeOK, [Next]_vars
  PROVE  TypeOK'
<1> USE DEF TypeOK, Pcs, Goto, slowVars, batchVars, loadVars, storeVars
<1>1. ASSUME NEW s \in Storers, StoreValue(s) PROVE TypeOK'
  BY <1>1, MaxStoresAssumption DEF StoreValue
<1>2. ASSUME NEW s \in Storers, StoreGeneration(s) PROVE TypeOK'
  BY <1>2 DEF StoreGeneration
<1>3. ASSUME NEW p \in Loaders, Call(p) PROVE TypeOK'
  BY <1>3 DEF Call
<1>4. ASSUME NEW p \in Loaders, ReadGeneration(p) PROVE TypeOK'
  BY <1>4 DEF ReadGeneration
<1>5. ASSUME NEW p \in Loaders, Join(p) PROVE TypeOK'
  BY <1>5 DEF Join
<1>6. ASSUME NEW p \in Loaders, AwaitDone(p) PROVE TypeOK'
  BY <1>6 DEF AwaitDone
<1>7. ASSUME NEW p \in Loaders, Lead(p) PROVE TypeOK'
  BY <1>7 DEF Lead
<1>8. ASSUME NEW p \in Loaders, SlowRead(p) PROVE TypeOK'
  BY <1>8 DEF SlowRead
<1>9. ASSUME NEW p \in Loaders, SlowLeave(p) PROVE TypeOK'
  BY <1>9 DEF SlowLeave
<1>10. ASSUME NEW p \in Loaders, CheckGeneration(p) PROVE TypeOK'
  BY <1>10 DEF CheckGeneration
<1>11. ASSUME NEW p \in Loaders, Finish(p) PROVE TypeOK'
  BY <1>11 DEF Finish
<1>12. ASSUME NEW p \in Loaders, CloseDone(p) PROVE TypeOK'
  BY <1>12 DEF CloseDone
<1>13. ASSUME NEW p \in Loaders, Answer(p) PROVE TypeOK'
  BY <1>13 DEF Answer
<1>14. ASSUME NEW p \in Loaders, Return(p) PROVE TypeOK'
  BY <1>14 DEF Return
<1>15. CASE UNCHANGED vars
  BY <1>15 DEF vars
<1> QED
  BY <1>1, <1>2, <1>3, <1>4, <1>5, <1>6, <1>7, <1>8, <1>9, <1>10, <1>11,
     <1>12, <1>13, <1>14, <1>15
     DEF Next, LoadStep

(* Numbers only grow, and what is noted of them was reached. *)
LEMMA OrderStep ==
  ASSUME TypeOK, Ordered, [Next]_vars
  PROVE  Ordered'
<1> USE DEF TypeOK, Ordered, Goto, slowVars, batchVars, loadVars, storeVars
<1>1. ASSUME NEW s \in Storers, StoreValue(s) PROVE Ordered'
  BY <1>1 DEF StoreValue
<1>2. ASSUME NEW s \in Storers, StoreGeneration(s) PROVE Ordered'
  BY <1>2 DEF StoreGeneration
<1>3. ASSUME NEW p \in Loaders, Call(p) PROVE Ordered'
  BY <1>3 DEF Call
<1>4. ASSUME NEW p \in Loaders, ReadGeneration(p) PROVE Ordered'
  BY <1>4 DEF ReadGeneration
<1>5. ASSUME NEW p \in Loaders, Join(p) PROVE Ordered'
  BY <1>5 DEF Join
<1>6. ASSUME NEW p \in Loaders, AwaitDone(p) PROVE Ordered'
  BY <1>6 DEF AwaitDone
<1>7. ASSUME NEW p \in Loaders, Lead(p) PROVE Ordered'
  BY <1>7 DEF Lead
<1>8. ASSUME NEW p \in Loaders, SlowRead(p) PROVE Ordered'
  BY <1>8 DEF SlowRead
<1>9. ASSUME NEW p \in Loaders, SlowLeave(p) PROVE Ordered'
  BY <1>9 DEF SlowLeave
<1>10. ASSUME NEW p \in Loaders, CheckGeneration(p) PROVE Ordered'
  BY <1>10 DEF CheckGeneration
<1>11. ASSUME NEW p \in Loaders, Finish(p) PROVE Ordered'
  BY <1>11 DEF Finish
<1>12. ASSUME NEW p \in Loaders, CloseDone(p) PROVE Ordered'
  BY <1>12 DEF CloseDone
<1>13. ASSUME NEW p \in Loaders, Answer(p) PROVE Ordered'
  BY <1>13 DEF Answer
<1>14. ASSUME NEW p \in Loaders, Return(p) PROVE Ordered'
  BY <1>14 DEF Return
<1>15. CASE UNCHANGED vars
  BY <1>15 DEF vars
<1> QED
  BY <1>1, <1>2, <1>3, <1>4, <1>5, <1>6, <1>7, <1>8, <1>9, <1>10, <1>11,
     <1>12, <1>13, <1>14, <1>15
     DEF Next, LoadStep

(* There is one leader at a time, hence one slow read. *)
LEMMA LeaderStep ==
  ASSUME TypeOK, OneLeader, OneSlowLoadAtATime, ListsAreExact, [Next]_vars
  PROVE  OneLeader' /\ OneSlowLoadAtATime'
<1> USE DEF TypeOK, OneLeader, OneSlowLoadAtATime, Leading, Goto, slowVars,
            batchVars, loadVars, storeVars
<1>1. ASSUME NEW s \in Storers, StoreValue(s) PROVE OneLeader' /\ OneSlowLoadAtATime'
  BY <1>1 DEF StoreValue
<1>2. ASSUME NEW s \in Storers, StoreGeneration(s) PROVE OneLeader' /\ OneSlowLoadAtATime'
  BY <1>2 DEF StoreGeneration
<1>3. ASSUME NEW p \in Loaders, Call(p) PROVE OneLeader' /\ OneSlowLoadAtATime'
  BY <1>3 DEF Call
<1>4. ASSUME NEW p \in Loaders, ReadGeneration(p) PROVE OneLeader' /\ OneSlowLoadAtATime'
  BY <1>4 DEF ReadGeneration
<1>5. ASSUME NEW p \in Loaders, Join(p) PROVE OneLeader' /\ OneSlowLoadAtATime'
  BY <1>5 DEF Join
<1>6. ASSUME NEW p \in Loaders, AwaitDone(p) PROVE OneLeader' /\ OneSlowLoadAtATime'
  BY <1>6 DEF AwaitDone
<1>7. ASSUME NEW p \in Loaders, Lead(p) PROVE OneLeader' /\ OneSlowLoadAtATime'
  BY <1>7 DEF Lead
<1>8. ASSUME NEW p \in Loaders, SlowRead(p) PROVE OneLeader' /\ OneSlowLoadAtATime'
  BY <1>8 DEF SlowRead
<1>9. ASSUME NEW p \in Loaders, SlowLeave(p) PROVE OneLeader' /\ OneSlowLoadAtATime'
  BY <1>9 DEF SlowLeave
<1>10. ASSUME NEW p \in Loaders, CheckGeneration(p) PROVE OneLeader' /\ OneSlowLoadAtATime'
  BY <1>10 DEF CheckGeneration
<1>11. ASSUME NEW p \in Loaders, Finish(p) PROVE OneLeader' /\ OneSlowLoadAtATime'
  BY <1>11 DEF Finish
<1>12. ASSUME NEW p \in Loaders, CloseDone(p) PROVE OneLeader' /\ OneSlowLoadAtATime'
  BY <1>12 DEF CloseDone
<1>13. ASSUME NEW p \in Loaders, Answer(p) PROVE OneLeader' /\ OneSlowLoadAtATime'
  BY <1>13 DEF ListsAreExact, Answer
<1>14. ASSUME NEW p \in Loaders, Return(p) PROVE OneLeader' /\ OneSlowLoadAtATime'
  BY <1>14 DEF Return
<1>15. CASE UNCHANGED vars
  BY <1>15 DEF vars
<1> QED
  BY <1>1, <1>2, <1>3, <1>4, <1>5, <1>6, <1>7, <1>8, <1>9, <1>10, <1>11,
     <1>12, <1>13, <1>14, <1>15
     DEF Next, LoadStep

(* A goroutine that waits stays on one list until it is answered. *)
LEMMA ListsStep ==
  ASSUME TypeOK, OneLeader, ListsAreExact, [Next]_vars
  PROVE  ListsAreExact'
<1> USE DEF TypeOK, OneLeader, Leading, ListsAreExact, Goto, slowVars,
            batchVars, loadVars, storeVars
<1>1. ASSUME NEW s \in Storers, StoreValue(s) PROVE ListsAreExact'
  BY <1>1 DEF StoreValue
<1>2. ASSUME NEW s \in Storers, StoreGeneration(s) PROVE ListsAreExact'
  BY <1>2 DEF StoreGeneration
<1>3. ASSUME NEW p \in Loaders, Call(p) PROVE ListsAreExact'
  BY <1>3 DEF Call
<1>4. ASSUME NEW p \in Loaders, ReadGeneration(p) PROVE ListsAreExact'
  BY <1>4 DEF ReadGeneration
<1>5. ASSUME NEW p \in Loaders, Join(p) PROVE ListsAreExact'
  BY <1>5 DEF Join
<1>6. ASSUME NEW p \in Loaders, AwaitDone(p) PROVE ListsAreExact'
  BY <1>6 DEF AwaitDone
<1>7. ASSUME NEW p \in Loaders, Lead(p) PROVE ListsAreExact'
  BY <1>7 DEF Lead
<1>8. ASSUME NEW p \in Loaders, SlowRead(p) PROVE ListsAreExact'
  BY <1>8 DEF SlowRead
<1>9. ASSUME NEW p \in Loaders, SlowLeave(p) PROVE ListsAreExact'
  BY <1>9 DEF SlowLeave
<1>10. ASSUME NEW p \in Loaders, CheckGeneration(p) PROVE ListsAreExact'
  BY <1>10 DEF CheckGeneration
<1>11. ASSUME NEW p \in Loaders, Finish(p) PROVE ListsAreExact'
  BY <1>11 DEF Finish
<1>12. ASSUME NEW p \in Loaders, CloseDone(p) PROVE ListsAreExact'
  BY <1>12 DEF CloseDone
<1>13. ASSUME NEW p \in Loaders, Answer(p) PROVE ListsAreExact'
  BY <1>13 DEF Answer
<1>14. ASSUME NEW p \in Loaders, Return(p) PROVE ListsAreExact'
  BY <1>14 DEF Return
<1>15. CASE UNCHANGED vars
  BY <1>15 DEF vars
<1> QED
  BY <1>1, <1>2, <1>3, <1>4, <1>5, <1>6, <1>7, <1>8, <1>9, <1>10, <1>11,
     <1>12, <1>13, <1>14, <1>15
     DEF Next, LoadStep

(* What is read stays new enough for everyone it may be handed to. *)
LEMMA FreshStep ==
  ASSUME TypeOK, Ordered, ListsAreExact, ResultsAreFresh, [Next]_vars
  PROVE  ResultsAreFresh'
<1> USE DEF TypeOK, Ordered, HasRead, HasGeneration, MayBeValid,
            ResultsAreFresh, Goto, slowVars, batchVars, loadVars, storeVars
<1>1. ASSUME NEW s \in Storers, StoreValue(s) PROVE ResultsAreFresh'
  BY <1>1 DEF StoreValue
<1>2. ASSUME NEW s \in Storers, StoreGeneration(s) PROVE ResultsAreFresh'
  BY <1>2 DEF StoreGeneration
<1>3. ASSUME NEW p \in Loaders, Call(p) PROVE ResultsAreFresh'
  BY <1>3 DEF Call
<1>4. ASSUME NEW p \in Loaders, ReadGeneration(p) PROVE ResultsAreFresh'
  BY <1>4 DEF ReadGeneration
<1>5. ASSUME NEW p \in Loaders, Join(p) PROVE ResultsAreFresh'
  BY <1>5 DEF Join
<1>6. ASSUME NEW p \in Loaders, AwaitDone(p) PROVE ResultsAreFresh'
  BY <1>6 DEF AwaitDone
<1>7. ASSUME NEW p \in Loaders, Lead(p) PROVE ResultsAreFresh'
  BY <1>7 DEF Lead
<1>8. ASSUME NEW p \in Loaders, SlowRead(p) PROVE ResultsAreFresh'
  BY <1>8 DEF SlowRead
<1>9. ASSUME NEW p \in Loaders, SlowLeave(p) PROVE ResultsAreFresh'
  BY <1>9 DEF SlowLeave
<1>10. ASSUME NEW p \in Loaders, CheckGeneration(p) PROVE ResultsAreFresh'
  BY <1>10 DEF CheckGeneration
<1>11. ASSUME NEW p \in Loaders, Finish(p) PROVE ResultsAreFresh'
  BY <1>11, SMTT(30) DEF Finish
<1>12. ASSUME NEW p \in Loaders, CloseDone(p) PROVE ResultsAreFresh'
  BY <1>12 DEF CloseDone
<1>13. ASSUME NEW p \in Loaders, Answer(p) PROVE ResultsAreFresh'
  BY <1>13 DEF Answer
<1>14. ASSUME NEW p \in Loaders, Return(p) PROVE ResultsAreFresh'
  BY <1>14 DEF Return
<1>15. CASE UNCHANGED vars
  BY <1>15 DEF vars
<1> QED
  BY <1>1, <1>2, <1>3, <1>4, <1>5, <1>6, <1>7, <1>8, <1>9, <1>10, <1>11,
     <1>12, <1>13, <1>14, <1>15
     DEF Next, LoadStep

(* A result that is handed over is new enough for the one who gets it. *)
LEMMA ReadStep ==
  ASSUME TypeOK, Ordered, ListsAreExact, ResultsAreFresh, NoStaleRead, [Next]_vars
  PROVE  NoStaleRead'
<1> USE DEF NoStaleRead, TypeOK, Ordered, HasRead, HasGeneration,
            MayBeValid, ResultsAreFresh, Goto, slowVars, batchVars,
            loadVars, storeVars
<1>1. ASSUME NEW s \in Storers, StoreValue(s) PROVE NoStaleRead'
  BY <1>1 DEF StoreValue
<1>2. ASSUME NEW s \in Storers, StoreGeneration(s) PROVE NoStaleRead'
  BY <1>2 DEF StoreGeneration
<1>3. ASSUME NEW p \in Loaders, Call(p) PROVE NoStaleRead'
  BY <1>3 DEF Call
<1>4. ASSUME NEW p \in Loaders, ReadGeneration(p) PROVE NoStaleRead'
  BY <1>4 DEF ReadGeneration
<1>5. ASSUME NEW p \in Loaders, Join(p) PROVE NoStaleRead'
  BY <1>5 DEF Join
<1>6. ASSUME NEW p \in Loaders, AwaitDone(p) PROVE NoStaleRead'
  BY <1>6 DEF AwaitDone
<1>7. ASSUME NEW p \in Loaders, Lead(p) PROVE NoStaleRead'
  BY <1>7 DEF Lead
<1>8. ASSUME NEW p \in Loaders, SlowRead(p) PROVE NoStaleRead'
  BY <1>8 DEF SlowRead
<1>9. ASSUME NEW p \in Loaders, SlowLeave(p) PROVE NoStaleRead'
  BY <1>9 DEF SlowLeave
<1>10. ASSUME NEW p \in Loaders, CheckGeneration(p) PROVE NoStaleRead'
  BY <1>10 DEF CheckGeneration
<1>11. ASSUME NEW p \in Loaders, Finish(p) PROVE NoStaleRead'
  BY <1>11 DEF Finish
<1>12. ASSUME NEW p \in Loaders, CloseDone(p) PROVE NoStaleRead'
  BY <1>12 DEF CloseDone
<1>13. ASSUME NEW p \in Loaders, Answer(p) PROVE NoStaleRead'
  <2>1. ASSUME NEW q \in Loaders, q \in taken[p] \cup {p}, valid[p], myGen[q] = myGen[p]
        PROVE  val[p] >= floor[q]
    <3>1. pc[p] = "answer" /\ pc[q] \in {"waiting", "answer"}
      BY <1>13, <2>1 DEF Answer, ListsAreExact
    <3> QED
      BY <2>1, <3>1
  <2>2. \A q \in Loaders : ~(q \in taken[p] \cup {p} /\ valid[p] /\ myGen[q] = myGen[p])
                                 /\ pc'[q] = "returned"
          => pc[q] = "returned" /\ val'[q] = val[q]
    BY <1>13 DEF Answer
  <2>3. \A q \in Loaders : q \in taken[p] \cup {p} /\ valid[p] /\ myGen[q] = myGen[p] => val'[q] = val[p]
    BY <1>13 DEF Answer
  <2>4. floor' = floor
    BY <1>13 DEF Answer
  <2> QED
    BY <2>1, <2>2, <2>3, <2>4
<1>14. ASSUME NEW p \in Loaders, Return(p) PROVE NoStaleRead'
  BY <1>14 DEF Return
<1>15. CASE UNCHANGED vars
  BY <1>15 DEF vars
<1> QED
  BY <1>1, <1>2, <1>3, <1>4, <1>5, <1>6, <1>7, <1>8, <1>9, <1>10, <1>11,
     <1>12, <1>13, <1>14, <1>15
     DEF Next, LoadStep

(* A loadDone channel that is waited on is not yet closed. *)
LEMMA DoneStep ==
  ASSUME TypeOK, OneLeader, ListsAreExact, NoWaiterIsForgotten, [Next]_vars
  PROVE  DonesWillClose'
<1> USE DEF TypeOK, OneLeader, Leading, ListsAreExact, NoWaiterIsForgotten,
            DonesWillClose, Goto, slowVars, batchVars, loadVars, storeVars
<1>1. ASSUME NEW s \in Storers, StoreValue(s) PROVE DonesWillClose'
  BY <1>1 DEF StoreValue
<1>2. ASSUME NEW s \in Storers, StoreGeneration(s) PROVE DonesWillClose'
  BY <1>2 DEF StoreGeneration
<1>3. ASSUME NEW p \in Loaders, Call(p) PROVE DonesWillClose'
  BY <1>3 DEF Call
<1>4. ASSUME NEW p \in Loaders, ReadGeneration(p) PROVE DonesWillClose'
  BY <1>4 DEF ReadGeneration
<1>5. ASSUME NEW p \in Loaders, Join(p) PROVE DonesWillClose'
  BY <1>5 DEF Join
<1>6. ASSUME NEW p \in Loaders, AwaitDone(p) PROVE DonesWillClose'
  BY <1>6 DEF AwaitDone
<1>7. ASSUME NEW p \in Loaders, Lead(p) PROVE DonesWillClose'
  BY <1>7 DEF Lead
<1>8. ASSUME NEW p \in Loaders, SlowRead(p) PROVE DonesWillClose'
  BY <1>8 DEF SlowRead
<1>9. ASSUME NEW p \in Loaders, SlowLeave(p) PROVE DonesWillClose'
  BY <1>9 DEF SlowLeave
<1>10. ASSUME NEW p \in Loaders, CheckGeneration(p) PROVE DonesWillClose'
  BY <1>10 DEF CheckGeneration
<1>11. ASSUME NEW p \in Loaders, Finish(p) PROVE DonesWillClose'
  BY <1>11 DEF Finish
<1>12. ASSUME NEW p \in Loaders, CloseDone(p) PROVE DonesWillClose'
  BY <1>12 DEF CloseDone
<1>13. ASSUME NEW p \in Loaders, Answer(p) PROVE DonesWillClose'
  BY <1>13 DEF Answer
<1>14. ASSUME NEW p \in Loaders, Return(p) PROVE DonesWillClose'
  BY <1>14 DEF Return
<1>15. CASE UNCHANGED vars
  BY <1>15 DEF vars
<1> QED
  BY <1>1, <1>2, <1>3, <1>4, <1>5, <1>6, <1>7, <1>8, <1>9, <1>10, <1>11,
     <1>12, <1>13, <1>14, <1>15
     DEF Next, LoadStep

(* A goroutine that waits is where the lists say, and nowhere else. *)
LEMMA WaitersAreListed ==
  ASSUME TypeOK', ListsAreExact', DonesWillClose'
  PROVE  NoWaiterIsForgotten'
<1> SUFFICES ASSUME NEW p \in Loaders, pc'[p] = "waiting"
             PROVE  \/ p \in waiters' /\ loading' /\ \A q \in Loaders : p \notin taken'[q]
                    \/ p \notin waiters' /\ \E q \in Loaders :
                         /\ pc'[q] \in {"close", "answer"}
                         /\ {r \in Loaders : p \in taken'[r]} = {q}
  BY DEF NoWaiterIsForgotten, DonesWillClose
<1>1. CASE p \in waiters'
  BY <1>1 DEF ListsAreExact
<1>2. CASE p \notin waiters'
  <2>1. PICK q \in Loaders : p \in taken'[q]
    BY <1>2 DEF ListsAreExact
  <2>2. {r \in Loaders : p \in taken'[r]} = {q}
    BY <2>1 DEF ListsAreExact
  <2> QED
    BY <1>2, <2>1, <2>2 DEF ListsAreExact
<1> QED
  BY <1>1, <1>2

(* The strengthening holds at the start. *)
LEMMA InitIInv == Init => IInv
<1> SUFFICES ASSUME Init PROVE IInv
  OBVIOUS
<1> USE DEF Init
<1>1. TypeOK
  <2>1. value \in 0..MaxStores /\ {storeGen, loadGen, complete} \subseteq Nat
    BY MaxStoresAssumption
  <2>2. /\ myGen \in [Loaders -> Nat] /\ val \in [Loaders -> Nat]
        /\ floor \in [Loaders -> Nat] /\ wrote \in [Storers -> Nat]
    OBVIOUS
  <2>3. valid \in [Loaders -> BOOLEAN] /\ taken \in [Loaders -> SUBSET Loaders]
    OBVIOUS
  <2>4. pc \in [Loaders -> Pcs] /\ storePc \in [Storers -> {"idle", "add"}]
    BY DEF Pcs
  <2>5. doneOf \in [Loaders -> Loaders \cup {NoLeader}] /\ leader \in Loaders \cup {NoLeader}
    OBVIOUS
  <2> QED
    BY <2>1, <2>2, <2>3, <2>4, <2>5 DEF TypeOK
<1>2. Ordered
  BY DEF Ordered
<1>3. OneLeader /\ OneSlowLoadAtATime
  BY DEF OneLeader, OneSlowLoadAtATime, Leading
<1>4. ListsAreExact /\ NoWaiterIsForgotten
  BY DEF ListsAreExact, NoWaiterIsForgotten
<1>5. ResultsAreFresh /\ NoStaleRead
  BY DEF ResultsAreFresh, HasRead, NoStaleRead
<1> QED
  BY <1>1, <1>2, <1>3, <1>4, <1>5 DEF IInv

(* One lemma for each part that a step may disturb. *)
LEMMA IInvStep == IInv /\ [Next]_vars => IInv'
<1> SUFFICES ASSUME IInv, [Next]_vars PROVE IInv'
  OBVIOUS
<1>1. TypeOK' /\ Ordered'
  BY TypingStep, OrderStep DEF IInv
<1>2. OneLeader' /\ OneSlowLoadAtATime'
  BY LeaderStep DEF IInv
<1>3. ListsAreExact'
  BY ListsStep DEF IInv
<1>4. NoWaiterIsForgotten'
  BY <1>1, <1>3, DoneStep, WaitersAreListed DEF IInv
<1>5. ResultsAreFresh' /\ NoStaleRead'
  BY FreshStep, ReadStep DEF IInv
<1> QED
  BY <1>1, <1>2, <1>3, <1>4, <1>5 DEF IInv

-----------------------------------------------------------------------------
(* The inductive invariant of the batcher holds of every behaviour. *)
THEOREM BatcherInvariance == Spec => []IInv
<1>1. Init => IInv
  BY InitIInv
<1>2. IInv /\ [Next]_vars => IInv'
  BY IInvStep
<1> QED
  BY <1>1, <1>2, PTL DEF Spec

(* "Load must return a value no older than the last Store at the time Load   *)
(* was called" (batcher.Value): for any number of loaders and of storers,   *)
(* whichever load a call joins.                                             *)
THEOREM LoadIsNeverStale == Spec => []NoStaleRead
<1>1. IInv => NoStaleRead
  BY DEF IInv
<1> QED
  BY <1>1, BatcherInvariance, PTL

(* "No more than one call of Load at a time": the slow value never panics. *)
THEOREM SlowLoadsNeverOverlap == Spec => []OneSlowLoadAtATime
<1>1. IInv => OneSlowLoadAtATime
  BY DEF IInv
<1> QED
  BY <1>1, BatcherInvariance, PTL

(* Whoever waits is on the list of one leader that is yet to answer, or       *)
(* blocked on a channel that is yet to be closed.                            *)
THEOREM WaitersAreAnswered == Spec => []NoWaiterIsForgotten
<1>1. IInv => NoWaiterIsForgotten
  BY DEF IInv
<1> QED
  BY <1>1, BatcherInvariance, PTL
=============================================================================
