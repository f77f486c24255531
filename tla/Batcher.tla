------------------------------ MODULE Batcher ------------------------------
(***************************************************************************)
(* batcher/batcher.go over batcher/slow/value.go: many goroutines share    *)
(* one slow read.  The value is represented by the number of the Store     *)
(* that wrote it.  A loadDone channel is named by the goroutine that made  *)
(* it: it closes the one before it makes the next.                         *)
(***************************************************************************)
EXTENDS Naturals, FiniteSets

CONSTANTS
  Loaders,    \* goroutines that call Batcher.Load
  Storers,    \* goroutines that call slow.Value.Store
  NoLeader,   \* no goroutine
  MaxStores   \* bound: calls of Store

ASSUME NoLeaderAssumption == NoLeader \notin Loaders
ASSUME MaxStoresAssumption == MaxStores \in Nat

VARIABLES
  value,       \* slow.Value.value: the number of the last Store to write it
  storeGen,    \* slow.Value.storeGen
  readRunning, \* slow.Value.readRunning
  panicked,    \* "another load is running"
  loading, loadGen, waiters,
  leader,      \* names loadDone
  pc, myGen, val, valid,
  taken,       \* the waiters a leader has taken, to be answered
  doneOf,      \* the loadDone a goroutine is blocked on
  storePc, wrote,
  floor,       \* history: the last Store complete when the Load was called
  complete     \* history: the highest Store that has returned

slowVars  == <<value, storeGen, readRunning, panicked>>
batchVars == <<loading, loadGen, waiters, leader>>
loadVars  == <<pc, myGen, val, valid, taken, doneOf, floor>>
storeVars == <<storePc, wrote, complete>>
vars == <<slowVars, batchVars, loadVars, storeVars>>

Pcs == {"idle", "gen", "lock", "waiting", "onDone", "swap", "slept",
        "check", "finish", "close", "answer", "returned"}

Init ==
  /\ value = 0 /\ storeGen = 0 /\ readRunning = FALSE /\ panicked = FALSE
  /\ loading = FALSE /\ loadGen = 0 /\ waiters = {} /\ leader = NoLeader
  /\ pc = [p \in Loaders |-> "idle"]
  /\ myGen = [p \in Loaders |-> 0]
  /\ val = [p \in Loaders |-> 0]
  /\ valid = [p \in Loaders |-> FALSE]
  /\ taken = [p \in Loaders |-> {}]
  /\ doneOf = [p \in Loaders |-> NoLeader]
  /\ floor = [p \in Loaders |-> 0]
  /\ storePc = [s \in Storers |-> "idle"]
  /\ wrote = [s \in Storers |-> 0]
  /\ complete = 0

Goto(p, from, to) == pc[p] = from /\ pc' = [pc EXCEPT ![p] = to]

-----------------------------------------------------------------------------
(* slow.Value.Store: the value under the mutex, then the generation. *)
StoreValue(s) ==
  /\ storePc[s] = "idle"
  /\ value < MaxStores
  /\ value' = value + 1
  /\ wrote' = [wrote EXCEPT ![s] = value']
  /\ storePc' = [storePc EXCEPT ![s] = "add"]
  /\ UNCHANGED <<storeGen, readRunning, panicked, batchVars, loadVars, complete>>

StoreGeneration(s) ==
  /\ storePc[s] = "add"
  /\ storeGen' = storeGen + 1
  /\ complete' = IF wrote[s] > complete THEN wrote[s] ELSE complete
  /\ wrote' = [wrote EXCEPT ![s] = 0]
  /\ storePc' = [storePc EXCEPT ![s] = "idle"]
  /\ UNCHANGED <<value, readRunning, panicked, batchVars, loadVars>>

-----------------------------------------------------------------------------
(* Batcher.Load *)
Call(p) ==
  /\ Goto(p, "idle", "gen")
  /\ floor' = [floor EXCEPT ![p] = complete]
  /\ UNCHANGED <<slowVars, batchVars, myGen, val, valid, taken, doneOf, storeVars>>

ReadGenerationOfLoad(p) ==  \* mutant: the running load is asked, not the value
  /\ Goto(p, "gen", "lock")
  /\ myGen' = [myGen EXCEPT ![p] = IF loading THEN loadGen ELSE storeGen]
  /\ UNCHANGED <<slowVars, batchVars, val, valid, taken, doneOf, floor, storeVars>>

ReadGeneration(p) ==
  /\ Goto(p, "gen", "lock")
  /\ myGen' = [myGen EXCEPT ![p] = storeGen]
  /\ UNCHANGED <<slowVars, batchVars, val, valid, taken, doneOf, floor, storeVars>>

(* A load of my generation is running: wait for its result. *)
Join(p) ==
  /\ Goto(p, "lock", "waiting")
  /\ loading /\ loadGen = myGen[p]
  /\ waiters' = waiters \cup {p}
  /\ UNCHANGED <<slowVars, loading, loadGen, leader, myGen, val, valid, taken,
                 doneOf, floor, storeVars>>

(* A load of another generation is running: wait until it is over. *)
AwaitDone(p) ==
  /\ Goto(p, "lock", "onDone")
  /\ loading /\ loadGen # myGen[p]
  /\ doneOf' = [doneOf EXCEPT ![p] = leader]
  /\ myGen' = [myGen EXCEPT ![p] = 0]
  /\ UNCHANGED <<slowVars, batchVars, val, valid, taken, floor, storeVars>>

LeadAlways(p) ==  \* mutant: a running load is not waited for
  /\ Goto(p, "lock", "swap")
  /\ loading' = TRUE
  /\ loadGen' = myGen[p]
  /\ leader' = p
  /\ UNCHANGED <<slowVars, waiters, myGen, val, valid, taken, doneOf, floor, storeVars>>

Lead(p) ==
  /\ Goto(p, "lock", "swap")
  /\ ~loading
  /\ loading' = TRUE
  /\ loadGen' = myGen[p]
  /\ leader' = p
  /\ UNCHANGED <<slowVars, waiters, myGen, val, valid, taken, doneOf, floor, storeVars>>

(* slow.Value.Load: the swap of readRunning, then the value under its mutex. *)
SlowRead(p) ==
  /\ Goto(p, "swap", "slept")
  /\ panicked' = (panicked \/ readRunning)
  /\ readRunning' = TRUE
  /\ val' = [val EXCEPT ![p] = value]
  /\ UNCHANGED <<value, storeGen, batchVars, myGen, valid, taken, doneOf,
                 floor, storeVars>>

SlowLeave(p) ==
  /\ Goto(p, "slept", "check")
  /\ readRunning' = FALSE
  /\ UNCHANGED <<value, storeGen, panicked, batchVars, myGen, val, valid, taken,
                 doneOf, floor, storeVars>>

CheckGeneration(p) ==
  /\ Goto(p, "check", "finish")
  /\ valid' = [valid EXCEPT ![p] = (storeGen = myGen[p])]
  /\ UNCHANGED <<slowVars, batchVars, myGen, val, taken, doneOf, floor, storeVars>>

FinishAlone(p) ==  \* mutant: the waiters are cleared before they are taken
  /\ Goto(p, "finish", "close")
  /\ waiters' = {}
  /\ loading' = FALSE
  /\ UNCHANGED <<slowVars, loadGen, leader, myGen, val, valid, taken, doneOf, floor, storeVars>>

Finish(p) ==
  /\ Goto(p, "finish", "close")
  /\ taken' = [taken EXCEPT ![p] = waiters]
  /\ waiters' = {}
  /\ loading' = FALSE
  /\ UNCHANGED <<slowVars, loadGen, leader, myGen, val, valid, doneOf, floor, storeVars>>

CloseDoneSilent(p) ==  \* mutant: the channel is not closed
  /\ Goto(p, "close", "answer")
  /\ UNCHANGED <<slowVars, batchVars, myGen, val, valid, taken, doneOf, floor, storeVars>>

(* close(done) sends everyone blocked on it back to the top of the loop. *)
CloseDone(p) ==
  /\ pc[p] = "close"
  /\ LET woken == {q \in Loaders : pc[q] = "onDone" /\ doneOf[q] = p}
     IN  /\ pc' = [q \in Loaders |-> IF q = p THEN "answer"
                                     ELSE IF q \in woken THEN "gen" ELSE pc[q]]
         /\ doneOf' = [q \in Loaders |-> IF q \in woken THEN NoLeader ELSE doneOf[q]]
  /\ UNCHANGED <<slowVars, batchVars, myGen, val, valid, taken, floor, storeVars>>

(* The result goes to every waiter, each on a channel with room for it; a    *)
(* valid result of its generation ends its call, any other starts it over,  *)
(* with fresh variables.                                                    *)
Answer(p) ==
  /\ pc[p] = "answer"
  /\ LET told == taken[p] \cup {p}
         served == {q \in told : valid[p] /\ myGen[q] = myGen[p]}
     IN  /\ pc' = [q \in Loaders |-> IF q \in served THEN "returned"
                                     ELSE IF q \in told THEN "gen" ELSE pc[q]]
         /\ val' = [q \in Loaders |-> IF q \in served THEN val[p]
                                      ELSE IF q \in told THEN 0 ELSE val[q]]
         /\ myGen' = [q \in Loaders |-> IF q \in told THEN 0 ELSE myGen[q]]
  /\ valid' = [valid EXCEPT ![p] = FALSE]
  /\ taken' = [taken EXCEPT ![p] = {}]
  /\ UNCHANGED <<slowVars, batchVars, doneOf, floor, storeVars>>

(* The caller takes the value, and the variables of the call are gone. *)
Return(p) ==
  /\ Goto(p, "returned", "idle")
  /\ val' = [val EXCEPT ![p] = 0]
  /\ floor' = [floor EXCEPT ![p] = 0]
  /\ UNCHANGED <<slowVars, batchVars, myGen, valid, taken, doneOf, storeVars>>

LoadStep(p) ==
  \/ ReadGeneration(p) \/ Join(p) \/ AwaitDone(p) \/ Lead(p)
  \/ SlowRead(p) \/ SlowLeave(p) \/ CheckGeneration(p)
  \/ Finish(p) \/ CloseDone(p) \/ Answer(p)

Next ==
  \/ \E s \in Storers : StoreValue(s) \/ StoreGeneration(s)
  \/ \E p \in Loaders : Call(p) \/ LoadStep(p) \/ Return(p)

Spec == Init /\ [][Next]_vars

(* The runtime runs every goroutine that is not blocked. *)
FairSpec ==
  /\ Spec
  /\ \A p \in Loaders : WF_vars(LoadStep(p))
  /\ \A s \in Storers : WF_vars(StoreGeneration(s))

-----------------------------------------------------------------------------
TypeOK ==
  /\ value \in 0..MaxStores
  /\ storeGen \in Nat
  /\ readRunning \in BOOLEAN
  /\ panicked \in BOOLEAN
  /\ loading \in BOOLEAN
  /\ loadGen \in Nat
  /\ waiters \subseteq Loaders
  /\ leader \in Loaders \cup {NoLeader}
  /\ pc \in [Loaders -> Pcs]
  /\ myGen \in [Loaders -> Nat]
  /\ val \in [Loaders -> Nat]
  /\ valid \in [Loaders -> BOOLEAN]
  /\ taken \in [Loaders -> SUBSET Loaders]
  /\ doneOf \in [Loaders -> Loaders \cup {NoLeader}]
  /\ storePc \in [Storers -> {"idle", "add"}]
  /\ wrote \in [Storers -> Nat]
  /\ floor \in [Loaders -> Nat]
  /\ complete \in Nat

(* "Load must return a value no older than the last Store at the time Load  *)
(* was called": joining a read that began earlier never makes it stale.     *)
NoStaleRead ==
  \A p \in Loaders : pc[p] = "returned" => val[p] >= floor[p]

(* "No more than one call of Load at a time": slow.Value never panics. *)
OneSlowLoadAtATime == ~panicked

(* A goroutine that waits for a result is on the list of the running load,   *)
(* or on the list of exactly one leader that is about to answer; one that    *)
(* is blocked on a loadDone channel will see it closed, as its maker has not *)
(* come to that yet.                                                        *)
NoWaiterIsForgotten ==
  \A p \in Loaders :
    /\ pc[p] = "waiting" =>
         \/ p \in waiters /\ loading /\ \A q \in Loaders : p \notin taken[q]
         \/ p \notin waiters /\ \E q \in Loaders :
              /\ pc[q] \in {"close", "answer"}
              /\ {r \in Loaders : p \in taken[r]} = {q}
    /\ pc[p] = "onDone" =>
         /\ doneOf[p] \in Loaders
         /\ pc[doneOf[p]] \in {"swap", "slept", "check", "finish", "close"}

(* The inductive invariant behind these.  Nothing is counted ahead of the     *)
(* value it stands for;                                                     *)
Ordered ==
  /\ complete <= value
  /\ \A s \in Storers : wrote[s] <= value
  /\ \A p \in Loaders : floor[p] <= complete /\ myGen[p] <= storeGen

(* a goroutine that leads is the leader of the running load, and only its     *)
(* slow read can be running;                                                *)
Leading == {"swap", "slept", "check", "finish"}

OneLeader ==
  /\ \A p \in Loaders : pc[p] \in Leading => loading /\ leader = p
  /\ loading => leader \in Loaders /\ pc[leader] \in Leading
  /\ readRunning => \E p \in Loaders : pc[p] = "slept"

(* the lists hold goroutines that wait, each in one list only;               *)
ListsAreExact ==
  /\ \A p \in waiters : pc[p] = "waiting"
  /\ \A p, q \in Loaders : p \in taken[q] =>
       /\ pc[p] = "waiting" /\ p \notin waiters
       /\ pc[q] \in {"close", "answer"}
       /\ \A r \in Loaders : p \in taken[r] => r = q
  /\ waiters # {} => loading
  /\ \A p \in Loaders : pc[p] = "waiting" =>
       p \in waiters \/ \E q \in Loaders : p \in taken[q]

(* and while no Store has ended since a leader read the generation, what it   *)
(* then read is as new as the last Store that has ended: so a result that is *)
(* valid is new enough for everyone who has read the same generation.        *)
HasRead == {"slept", "check", "finish", "close", "answer"}
HasGeneration == {"lock", "waiting", "swap"} \cup HasRead

MayBeValid(p) ==
  IF pc[p] \in {"slept", "check"} THEN storeGen = myGen[p] ELSE valid[p]

ResultsAreFresh ==
  \A p \in Loaders : pc[p] \in HasRead =>
    /\ storeGen = myGen[p] => val[p] >= complete
    /\ MayBeValid(p) => \A q \in Loaders :
         pc[q] \in HasGeneration /\ myGen[q] = myGen[p] => val[p] >= floor[q]

IInv ==
  /\ TypeOK
  /\ Ordered
  /\ OneLeader
  /\ OneSlowLoadAtATime
  /\ ListsAreExact
  /\ NoWaiterIsForgotten
  /\ ResultsAreFresh
  /\ NoStaleRead

(* When the stores come to an end every Load returns. *)
LoadReturns == \A p \in Loaders : pc[p] = "gen" ~> pc[p] = "returned"
=============================================================================
