---------------------------- MODULE PubSubProofs ----------------------------
(* Proofs about PubSub, for any topics, subscriptions, publishers and calls  *)
(* of Close, and any capacity of the channels.                               *)
EXTENDS PubSub, FiniteSetTheorems, SequenceTheorems, TLAPS

-----------------------------------------------------------------------------
(* The inductive invariant. *)

\* The log of each subscription, the set of messages in it, and the
\* subscriptions each Publish has yet to send to, as functions.
logs == [s \in Subs |-> Log(s)]
reached == [s \in Subs |-> ToSet(Log(s))]
ahead == [p \in Publishers |-> ToSet(todo[p])]

\* A topic lists finitely many subscriptions, and while the bus is open every
\* one to it that nobody has asked to end.
MembersOK ==
  /\ \A t \in Topics : IsFiniteSet(topics[t])
  /\ \A s \in Subs : topicOf[s] # NoTopic /\ unsub[s] = "no" /\ ~closed =>
       s \in topics[topicOf[s]]

\* A handler ends when its channel is closed and empty, a goroutine of Close
\* when the handler has ended; they exist only on a closed bus.
DrainOK ==
  /\ closed => closer # NoCloser
  /\ \A s \in Subs :
       /\ handler[s] = "done" => chClosed[s] /\ ch[s] = <<>>
       /\ closeJob[s] # "none" => closed
       /\ closeJob[s] = "done" => handler[s] = "done"
  /\ \A c \in Closers : c = closer /\ closePc[c] = "nil" =>
       \A s \in Subs : closeJob[s] \in {"none", "done"}

\* A message in a log, and one whose Publish has returned, has been published.
MadeOK ==
  /\ \A s \in Subs : \A m \in reached[s] : m[2] <= calls[m[1]]
  /\ \A m \in returned : m[2] <= calls[m[1]]
  /\ \A m \in Messages : earlier[m] \subseteq returned

\* A Publish under way has not returned; it has sent to nobody it has yet to
\* send to, and to everybody else it is for.
SendingOK ==
  \A p \in Publishers : pubPc[p] = "send" =>
    /\ calls[p] > 0
    /\ Current(p) \notin returned
    /\ IsInjective(todo[p])
    /\ \A s \in ahead[p] : Current(p) \notin reached[s]
    /\ \A s \in intended[Current(p)] : s \in ahead[p] \/ Current(p) \in reached[s]

-----------------------------------------------------------------------------
(* Facts about sequences. *)

(* What a handler takes from the head of its channel goes to the end of what *)
(* it has been given.                                                        *)
LEMMA TakeKeepsTheLog ==
  ASSUME NEW S, NEW d \in Seq(S), NEW c \in Seq(S), c # <<>>
  PROVE  Append(d, Head(c)) \o Tail(c) = d \o c
<1> DEFINE l == Append(d, Head(c)) \o Tail(c)
<1>1. /\ Append(d, Head(c)) \in Seq(S) /\ Len(Append(d, Head(c))) = Len(d) + 1
      /\ Tail(c) \in Seq(S) /\ Len(Tail(c)) = Len(c) - 1
      /\ Len(c) \in Nat /\ Len(d) \in Nat /\ Len(c) > 0
      /\ \A i \in 1..(Len(c) - 1) : Tail(c)[i] = c[i + 1]
      /\ \A i \in 1..Len(d) : Append(d, Head(c))[i] = d[i]
      /\ Append(d, Head(c))[Len(d) + 1] = c[1]
  OBVIOUS
<1>2. /\ l \in Seq(S) /\ Len(l) = Len(d) + Len(c)
      /\ \A i \in 1..(Len(d) + Len(c)) : l[i] =
           IF i <= Len(d) + 1 THEN Append(d, Head(c))[i] ELSE Tail(c)[i - (Len(d) + 1)]
  BY <1>1, ConcatProperties
<1>3. /\ d \o c \in Seq(S) /\ Len(d \o c) = Len(d) + Len(c)
      /\ \A i \in 1..(Len(d) + Len(c)) : (d \o c)[i] = IF i <= Len(d) THEN d[i] ELSE c[i - Len(d)]
  BY ConcatProperties
<1>4. \A i \in 1..Len(l) : l[i] = (d \o c)[i]
  <2> SUFFICES ASSUME NEW i \in 1..(Len(d) + Len(c))
               PROVE  l[i] = (d \o c)[i]
    BY <1>2
  <2>1. CASE i <= Len(d)
    BY <2>1, <1>1, <1>2, <1>3
  <2>2. CASE i = Len(d) + 1
    BY <2>2, <1>1, <1>2, <1>3
  <2>3. CASE i > Len(d) + 1
    <3>1. i - (Len(d) + 1) \in 1..(Len(c) - 1) /\ (i - (Len(d) + 1)) + 1 = i - Len(d)
      BY <2>3, <1>1
    <3> QED
      BY <3>1, <2>3, <1>1, <1>2, <1>3
  <2> QED
    BY <2>1, <2>2, <2>3, <1>1
<1> QED
  BY <1>2, <1>3, <1>4, SeqEqual

(* What is sent to a channel goes to the end of the log. *)
LEMMA SendGrowsTheLog ==
  ASSUME NEW S, NEW d \in Seq(S), NEW c \in Seq(S), NEW m \in S
  PROVE  d \o Append(c, m) = Append(d \o c, m)
<1>1. /\ Append(c, m) = c \o <<m>> /\ Append(d \o c, m) = (d \o c) \o <<m>>
      /\ <<m>> \in Seq(S) /\ d \o c \in Seq(S)
  BY AppendIsConcat
<1> QED
  BY <1>1, ConcatAssociative

(* A sequence that grows by an element. *)
LEMMA Grown ==
  ASSUME NEW S, NEW l \in Seq(S), NEW m \in S
  PROVE  /\ ToSet(Append(l, m)) = ToSet(l) \cup {m}
         /\ IsInjective(l) /\ m \notin ToSet(l) => IsInjective(Append(l, m))
<1>1. /\ DOMAIN l = 1..Len(l) /\ Len(l) \in Nat
      /\ DOMAIN Append(l, m) = 1..(Len(l) + 1)
      /\ \A i \in 1..Len(l) : Append(l, m)[i] = l[i]
      /\ Append(l, m)[Len(l) + 1] = m
  OBVIOUS
<1>2. \A i \in 1..(Len(l) + 1) : i \in 1..Len(l) \/ i = Len(l) + 1
  BY <1>1
<1>3. 1..Len(l) \subseteq 1..(Len(l) + 1) /\ Len(l) + 1 \in 1..(Len(l) + 1)
  BY <1>1
<1>4. ToSet(Append(l, m)) = ToSet(l) \cup {m}
  BY <1>1, <1>2, <1>3 DEF ToSet
<1>5. IsInjective(l) /\ m \notin ToSet(l) => IsInjective(Append(l, m))
  BY <1>1, <1>2, <1>3 DEF ToSet, IsInjective
<1> QED
  BY <1>4, <1>5

(* A sequence without repetition that loses its head. *)
LEMMA Shrunk ==
  ASSUME NEW S, NEW l \in Seq(S), l # <<>>, IsInjective(l)
  PROVE  /\ ToSet(Tail(l)) = ToSet(l) \ {Head(l)}
         /\ Head(l) \in ToSet(l)
         /\ IsInjective(Tail(l))
<1>1. /\ DOMAIN l = 1..Len(l) /\ Len(l) \in Nat \ {0}
      /\ DOMAIN Tail(l) = 1..(Len(l) - 1)
      /\ \A i \in 1..(Len(l) - 1) : Tail(l)[i] = l[i + 1]
      /\ Head(l) = l[1]
  OBVIOUS
<1>2. /\ 1 \in 1..Len(l)
      /\ \A i \in 1..(Len(l) - 1) : i + 1 \in 1..Len(l) /\ i + 1 # 1
      /\ \A i \in 1..Len(l) : i = 1 \/ (i - 1 \in 1..(Len(l) - 1) /\ (i - 1) + 1 = i)
  BY <1>1
<1>3. \A i \in 1..Len(l) : i = 1 \/ \E j \in 1..(Len(l) - 1) : j + 1 = i
  BY <1>2
<1>4. ToSet(Tail(l)) \subseteq ToSet(l) \ {Head(l)}
  BY <1>1, <1>2 DEF ToSet, IsInjective
<1>5. ToSet(l) \ {Head(l)} \subseteq ToSet(Tail(l))
  <2> SUFFICES ASSUME NEW i \in 1..Len(l), l[i] # Head(l)
               PROVE  l[i] \in ToSet(Tail(l))
    BY <1>1 DEF ToSet
  <2>1. PICK j \in 1..(Len(l) - 1) : j + 1 = i
    BY <1>1, <1>3
  <2> QED
    BY <2>1, <1>1 DEF ToSet
<1>6. IsInjective(Tail(l))
  <2> SUFFICES ASSUME NEW a \in 1..(Len(l) - 1), NEW b \in 1..(Len(l) - 1), l[a + 1] = l[b + 1]
               PROVE  a = b
    BY <1>1 DEF IsInjective
  <2>1. a + 1 = b + 1
    BY <1>1, <1>2 DEF IsInjective
  <2> QED
    BY <2>1
<1> QED
  BY <1>1, <1>2, <1>4, <1>5, <1>6 DEF ToSet

(* The order in which a map is ranged over: every member once. *)
LEMMA RangeOverASet ==
  ASSUME NEW S, IsFiniteSet(S), NEW order \in SetToSeqs(S)
  PROVE  order \in Seq(S) /\ ToSet(order) = S /\ IsInjective(order)
<1> DEFINE D == 1..Cardinality(S)
<1>1. Cardinality(S) \in Nat
  BY FS_CardinalityType
<1>2. order \in [D -> S] /\ \A i, j \in D : i # j => order[i] # order[j]
  BY DEF SetToSeqs
<1>3. order \in Seq(S) /\ IsInjective(order)
  BY <1>1, <1>2 DEF IsInjective
<1>4. order \in Injection(D, S)
  BY <1>2, <1>3 DEF Injection
<1>5. IsFiniteSet(D) /\ Cardinality(D) = Cardinality(S)
  BY <1>1, FS_Interval
<1>6. order \in Surjection(D, S)
  BY <1>4, <1>5, FS_Injection
<1> QED
  BY <1>2, <1>3, <1>6 DEF Surjection, ToSet

-----------------------------------------------------------------------------
(* Every step keeps the types. *)
LEMMA TypingStep ==
  ASSUME TypeOK, MembersOK, SendingOK, [Next]_vars
  PROVE  TypeOK'
<1> USE DEF TypeOK, busVars, subVars, chanVars, pubVars, histVars
<1>1. ASSUME NEW s \in Subs, NEW t \in Topics, Subscribe(s, t) PROVE TypeOK'
  BY <1>1 DEF Subscribe
<1>2. ASSUME NEW s \in Subs, HandlerReceive(s) PROVE TypeOK'
  <2>1. /\ Tail(ch[s]) \in Seq(Messages) /\ Len(Tail(ch[s])) <= ChanCap
        /\ Append(delivered[s], Head(ch[s])) \in Seq(Messages)
    BY <1>2, ChanCapAssumption DEF HandlerReceive
  <2> QED
    BY <1>2, <2>1 DEF HandlerReceive
<1>3. ASSUME NEW s \in Subs, HandlerExit(s) PROVE TypeOK'
  BY <1>3 DEF HandlerExit
<1>4. ASSUME NEW s \in Subs, HandlerReturn(s) PROVE TypeOK'
  BY <1>4 DEF HandlerReturn
<1>5. ASSUME NEW s \in Subs, Unsubscribe(s) PROVE TypeOK'
  BY <1>5 DEF Unsubscribe, UnsubEnter
<1>6. ASSUME NEW s \in Subs, RemoveSub(s) PROVE TypeOK'
  BY <1>6 DEF RemoveSub
<1>7. ASSUME NEW s \in Subs, CloseChannel(s) PROVE TypeOK'
  BY <1>7 DEF CloseChannel
<1>8. ASSUME NEW s \in Subs, CloseJobUnsubscribes(s) PROVE TypeOK'
  BY <1>8 DEF CloseJobUnsubscribes, UnsubEnter
<1>9. ASSUME NEW s \in Subs, CloseJobUnsubscribed(s) PROVE TypeOK'
  BY <1>9 DEF CloseJobUnsubscribed
<1>10. ASSUME NEW s \in Subs, CloseJobDone(s) PROVE TypeOK'
  BY <1>10 DEF CloseJobDone
<1>11. ASSUME NEW p \in Publishers, NEW t \in Topics, Publish(p, t) PROVE TypeOK'
  <2>1. calls[p] + 1 \in 1..MaxMessages /\ calls'[p] = calls[p] + 1
    BY <1>11, MaxMessagesAssumption DEF Publish
  <2>2. \A order \in SetToSeqs(topics[t]) : order \in Seq(Subs)
    <3> SUFFICES ASSUME NEW order \in SetToSeqs(topics[t])
                 PROVE  order \in Seq(Subs)
      OBVIOUS
    <3>1. order \in Seq(topics[t])
      BY RangeOverASet DEF MembersOK
    <3> QED
      BY <3>1, SeqMonotonic
  <2>3. /\ todo' \in [Publishers -> Seq(Subs)] /\ calls' \in [Publishers -> 0..MaxMessages]
        /\ pubPc' \in [Publishers -> {"idle", "send"}]
    BY <1>11, <2>1, <2>2, MaxMessagesAssumption DEF Publish
  <2>4. intended' \in [Messages -> SUBSET Subs] /\ earlier' \in [Messages -> SUBSET Messages]
    BY <1>11, <2>1 DEF Publish, Messages
  <2> QED
    BY <1>11, <2>3, <2>4 DEF Publish
<1>12. ASSUME NEW p \in Publishers, Send(p) PROVE TypeOK'
  <2> DEFINE h == Head(todo[p])
  <2>1. h \in Subs /\ Tail(todo[p]) \in Seq(Subs)
    BY <1>12 DEF Send
  <2>2. CASE calls[p] \in 1..MaxMessages
    <3>1. Current(p) \in Messages
      BY <2>2 DEF Current, Messages
    <3>2. Append(ch[h], Current(p)) \in Seq(Messages) /\ Len(Append(ch[h], Current(p))) <= ChanCap
      BY <1>12, <2>1, <3>1, ChanCapAssumption DEF Send
    <3> QED
      BY <1>12, <2>1, <3>2 DEF Send
  <2> QED
    BY <1>12, <2>2, MaxMessagesAssumption DEF SendingOK, Send
<1>13. ASSUME NEW p \in Publishers, SendPanics(p) PROVE TypeOK'
  BY <1>13 DEF SendPanics
<1>14. ASSUME NEW p \in Publishers, PublishReturn(p) PROVE TypeOK'
  <2>1. calls[p] \in 1..MaxMessages
    BY <1>14, MaxMessagesAssumption DEF SendingOK, PublishReturn
  <2>2. Current(p) \in Messages
    BY <2>1 DEF Current, Messages
  <2> QED
    BY <1>14, <2>2 DEF PublishReturn
<1>15. ASSUME NEW c \in Closers, CloseFirst(c) PROVE TypeOK'
  BY <1>15 DEF CloseFirst
<1>16. ASSUME NEW c \in Closers, CloseAgain(c) PROVE TypeOK'
  BY <1>16 DEF CloseAgain
<1>17. ASSUME NEW c \in Closers, CloseReturn(c) PROVE TypeOK'
  BY <1>17 DEF CloseReturn
<1>18. ASSUME NEW c \in Closers, CloseExpires(c) PROVE TypeOK'
  BY <1>18 DEF CloseExpires
<1>19. CASE UNCHANGED vars
  BY <1>19 DEF vars
<1> QED
  BY <1>1, <1>2, <1>3, <1>4, <1>5, <1>6, <1>7, <1>8, <1>9, <1>10,
     <1>11, <1>12, <1>13, <1>14, <1>15, <1>16, <1>17, <1>18, <1>19
  DEF Next, HandlerLoop, UnsubStep, CloseJobStep, PublishStep

(* A topic lists who subscribed until somebody asks to end it or closes.     *)
LEMMA MembersStep ==
  ASSUME TypeOK, MembersOK, [Next]_vars
  PROVE  MembersOK'
<1> USE DEF TypeOK, MembersOK, busVars, subVars
<1>1. ASSUME NEW s \in Subs, NEW t \in Topics, Subscribe(s, t) PROVE MembersOK'
  <2>1. IsFiniteSet(topics[t] \cup {s})
    BY FS_AddElement
  <2>2. /\ topicOf' = [topicOf EXCEPT ![s] = t] /\ topics' = [topics EXCEPT ![t] = @ \cup {s}]
        /\ closed' = closed /\ unsub' = unsub
    BY <1>1 DEF Subscribe
  <2>3. \A u \in Topics : IsFiniteSet(topics'[u])
    BY <2>1, <2>2
  <2>4. ASSUME NEW r \in Subs, topicOf'[r] # NoTopic, unsub[r] = "no", ~closed
        PROVE  r \in topics'[topicOf'[r]]
    BY <2>2, <2>4
  <2> QED
    BY <2>2, <2>3, <2>4
<1>2. ASSUME NEW s \in Subs, HandlerReceive(s) PROVE MembersOK'
  BY <1>2 DEF HandlerReceive
<1>3. ASSUME NEW s \in Subs, HandlerExit(s) PROVE MembersOK'
  BY <1>3 DEF HandlerExit
<1>4. ASSUME NEW s \in Subs, HandlerReturn(s) PROVE MembersOK'
  BY <1>4 DEF HandlerReturn
<1>5. ASSUME NEW s \in Subs, Unsubscribe(s) PROVE MembersOK'
  BY <1>5 DEF Unsubscribe, UnsubEnter
<1>6. ASSUME NEW s \in Subs, RemoveSub(s) PROVE MembersOK'
  <2>1. \A u \in Topics : IsFiniteSet(topics[u] \ {s})
    BY FS_RemoveElement
  <2>2. /\ topics' = [topics EXCEPT ![topicOf[s]] = @ \ {s}]
        /\ unsub' = [unsub EXCEPT ![s] = "close"]
        /\ closed' = closed /\ topicOf' = topicOf
    BY <1>6 DEF RemoveSub
  <2> QED
    BY <2>1, <2>2
<1>7. ASSUME NEW s \in Subs, CloseChannel(s) PROVE MembersOK'
  BY <1>7 DEF CloseChannel
<1>8. ASSUME NEW s \in Subs, CloseJobUnsubscribes(s) PROVE MembersOK'
  BY <1>8 DEF CloseJobUnsubscribes, UnsubEnter
<1>9. ASSUME NEW s \in Subs, CloseJobUnsubscribed(s) PROVE MembersOK'
  BY <1>9 DEF CloseJobUnsubscribed
<1>10. ASSUME NEW s \in Subs, CloseJobDone(s) PROVE MembersOK'
  BY <1>10 DEF CloseJobDone
<1>11. ASSUME NEW p \in Publishers, NEW t \in Topics, Publish(p, t) PROVE MembersOK'
  BY <1>11 DEF Publish
<1>12. ASSUME NEW p \in Publishers, Send(p) PROVE MembersOK'
  BY <1>12 DEF Send
<1>13. ASSUME NEW p \in Publishers, SendPanics(p) PROVE MembersOK'
  BY <1>13 DEF SendPanics
<1>14. ASSUME NEW p \in Publishers, PublishReturn(p) PROVE MembersOK'
  BY <1>14 DEF PublishReturn
<1>15. ASSUME NEW c \in Closers, CloseFirst(c) PROVE MembersOK'
  <2>1. IsFiniteSet({})
    BY FS_EmptySet
  <2> QED
    BY <1>15, <2>1 DEF CloseFirst
<1>16. ASSUME NEW c \in Closers, CloseAgain(c) PROVE MembersOK'
  BY <1>16 DEF CloseAgain
<1>17. ASSUME NEW c \in Closers, CloseReturn(c) PROVE MembersOK'
  BY <1>17 DEF CloseReturn
<1>18. ASSUME NEW c \in Closers, CloseExpires(c) PROVE MembersOK'
  BY <1>18 DEF CloseExpires
<1>19. CASE UNCHANGED vars
  BY <1>19 DEF vars
<1> QED
  BY <1>1, <1>2, <1>3, <1>4, <1>5, <1>6, <1>7, <1>8, <1>9, <1>10,
     <1>11, <1>12, <1>13, <1>14, <1>15, <1>16, <1>17, <1>18, <1>19
  DEF Next, HandlerLoop, UnsubStep, CloseJobStep, PublishStep

(* What Close waits for stays done once it is done.                          *)
LEMMA DrainStep ==
  ASSUME TypeOK, DrainOK, [Next]_vars
  PROVE  DrainOK'
<1> USE DEF TypeOK, DrainOK, busVars, subVars, chanVars
<1>1. ASSUME NEW s \in Subs, NEW t \in Topics, Subscribe(s, t) PROVE DrainOK'
  BY <1>1 DEF Subscribe
<1>2. ASSUME NEW s \in Subs, HandlerReceive(s) PROVE DrainOK'
  BY <1>2 DEF HandlerReceive
<1>3. ASSUME NEW s \in Subs, HandlerExit(s) PROVE DrainOK'
  BY <1>3 DEF HandlerExit
<1>4. ASSUME NEW s \in Subs, HandlerReturn(s) PROVE DrainOK'
  BY <1>4 DEF HandlerReturn
<1>5. ASSUME NEW s \in Subs, Unsubscribe(s) PROVE DrainOK'
  BY <1>5 DEF Unsubscribe, UnsubEnter
<1>6. ASSUME NEW s \in Subs, RemoveSub(s) PROVE DrainOK'
  BY <1>6 DEF RemoveSub
<1>7. ASSUME NEW s \in Subs, CloseChannel(s) PROVE DrainOK'
  BY <1>7 DEF CloseChannel
<1>8. ASSUME NEW s \in Subs, CloseJobUnsubscribes(s) PROVE DrainOK'
  BY <1>8 DEF CloseJobUnsubscribes, UnsubEnter
<1>9. ASSUME NEW s \in Subs, CloseJobUnsubscribed(s) PROVE DrainOK'
  BY <1>9 DEF CloseJobUnsubscribed
<1>10. ASSUME NEW s \in Subs, CloseJobDone(s) PROVE DrainOK'
  BY <1>10 DEF CloseJobDone
<1>11. ASSUME NEW p \in Publishers, NEW t \in Topics, Publish(p, t) PROVE DrainOK'
  BY <1>11 DEF Publish
<1>12. ASSUME NEW p \in Publishers, Send(p) PROVE DrainOK'
  <2>1. \A s \in Subs : chClosed[s] => ch'[s] = ch[s]
    BY <1>12 DEF Send
  <2>2. UNCHANGED <<closed, chClosed, handler, closer, closePc, closeJob>>
    BY <1>12 DEF Send
  <2> QED
    BY <2>1, <2>2
<1>13. ASSUME NEW p \in Publishers, SendPanics(p) PROVE DrainOK'
  BY <1>13 DEF SendPanics
<1>14. ASSUME NEW p \in Publishers, PublishReturn(p) PROVE DrainOK'
  BY <1>14 DEF PublishReturn
<1>15. ASSUME NEW c \in Closers, CloseFirst(c) PROVE DrainOK'
  BY <1>15, NoCloserAssumption DEF CloseFirst
<1>16. ASSUME NEW c \in Closers, CloseAgain(c) PROVE DrainOK'
  BY <1>16 DEF CloseAgain
<1>17. ASSUME NEW c \in Closers, CloseReturn(c) PROVE DrainOK'
  BY <1>17 DEF CloseReturn, WaitIsOver
<1>18. ASSUME NEW c \in Closers, CloseExpires(c) PROVE DrainOK'
  BY <1>18 DEF CloseExpires
<1>19. CASE UNCHANGED vars
  BY <1>19 DEF vars
<1> QED
  BY <1>1, <1>2, <1>3, <1>4, <1>5, <1>6, <1>7, <1>8, <1>9, <1>10,
     <1>11, <1>12, <1>13, <1>14, <1>15, <1>16, <1>17, <1>18, <1>19
  DEF Next, HandlerLoop, UnsubStep, CloseJobStep, PublishStep

-----------------------------------------------------------------------------
(* What steps do to the logs. *)
LEMMA LogTypes ==
  ASSUME TypeOK
  PROVE  /\ logs \in [Subs -> Seq(Messages)]
         /\ reached \in [Subs -> SUBSET Messages]
         /\ ahead \in [Publishers -> SUBSET Subs]
         /\ \A s \in Subs : logs[s] = Log(s) /\ reached[s] = ToSet(logs[s])
<1>1. \A s \in Subs : Log(s) \in Seq(Messages)
  BY ConcatProperties DEF TypeOK, Log
<1>2. \A s \in Subs : ToSet(Log(s)) \subseteq Messages
  BY <1>1 DEF ToSet
<1>3. \A p \in Publishers : ToSet(todo[p]) \subseteq Subs
  BY DEF TypeOK, ToSet
<1> QED
  BY <1>1, <1>2, <1>3 DEF logs, reached, ahead

(* Every step but those of publishers leaves alone the logs and what the      *)
(* publishers know.                                                          *)
publishing == <<logs, reached, ahead, pubVars, histVars>>

LEMMA QuietSteps ==
  ASSUME TypeOK, [Next]_vars
  PROVE  \/ UNCHANGED publishing
         \/ \E p \in Publishers, t \in Topics : Publish(p, t)
         \/ \E p \in Publishers : Send(p) \/ PublishReturn(p)
<1> DEFINE Q == UNCHANGED <<delivered, ch, pubVars, histVars>>
<1>1. UNCHANGED <<delivered, ch, todo>> => UNCHANGED <<logs, reached, ahead>>
  BY DEF logs, reached, ahead, Log
<1>2. Q => UNCHANGED publishing
  BY <1>1 DEF publishing, pubVars
<1>3. ASSUME NEW s \in Subs, HandlerReceive(s) PROVE UNCHANGED publishing
  <2>1. Append(delivered[s], Head(ch[s])) \o Tail(ch[s]) = delivered[s] \o ch[s]
    BY <1>3, TakeKeepsTheLog DEF HandlerReceive, TypeOK
  <2>2. \A r \in Subs : delivered'[r] \o ch'[r] = delivered[r] \o ch[r]
    BY <1>3, <2>1 DEF HandlerReceive, TypeOK
  <2>3. UNCHANGED <<logs, reached>>
    BY <2>2 DEF logs, reached, Log
  <2>4. UNCHANGED <<pubVars, histVars, ahead>>
    BY <1>3 DEF HandlerReceive, pubVars, ahead
  <2> QED
    BY <2>3, <2>4 DEF publishing
<1>4. ASSUME NEW s \in Subs,
             HandlerReturn(s) \/ HandlerExit(s) \/ Unsubscribe(s) \/ UnsubStep(s) \/ CloseJobStep(s)
      PROVE  Q
  BY <1>4 DEF HandlerReturn, HandlerExit, Unsubscribe, UnsubStep, CloseJobStep, RemoveSub,
     CloseChannel,
     CloseJobUnsubscribes, CloseJobUnsubscribed, CloseJobDone, chanVars
<1>5. ASSUME NEW s \in Subs, NEW t \in Topics, Subscribe(s, t) PROVE Q
  BY <1>5 DEF Subscribe, chanVars
<1>6. ASSUME NEW c \in Closers,
             CloseFirst(c) \/ CloseAgain(c) \/ CloseReturn(c) \/ CloseExpires(c)
      PROVE  Q
  BY <1>6 DEF CloseFirst, CloseAgain, CloseReturn, CloseExpires, chanVars
<1>7. ASSUME NEW p \in Publishers, SendPanics(p) PROVE Q
  BY <1>7 DEF SendPanics, chanVars
<1>8. CASE UNCHANGED vars
  BY <1>8, <1>2 DEF vars, chanVars
<1> HIDE DEF Q
<1> QED
  BY <1>2, <1>3, <1>4, <1>5, <1>6, <1>7, <1>8 DEF Next, HandlerLoop, PublishStep

(* Send adds its message to the log of the subscription it sends to, which   *)
(* is then no longer ahead.                                                  *)
LEMMA SendEffect ==
  ASSUME TypeOK, SendingOK, NEW p \in Publishers, Send(p)
  PROVE  /\ Head(todo[p]) \in ahead[p]
         /\ logs' = [logs EXCEPT ![Head(todo[p])] = Append(@, Current(p))]
         /\ reached' = [reached EXCEPT ![Head(todo[p])] = @ \cup {Current(p)}]
         /\ ahead' = [ahead EXCEPT ![p] = @ \ {Head(todo[p])}]
         /\ IsInjective(todo'[p])
         /\ Current(p) \in Messages
<1> DEFINE h == Head(todo[p])
           m == Current(p)
<1>1. /\ h \in Subs /\ todo[p] \in Seq(Subs) /\ todo[p] # <<>>
      /\ todo' = [todo EXCEPT ![p] = Tail(todo[p])] /\ todo \in [Publishers -> Seq(Subs)]
      /\ ch' = [ch EXCEPT ![h] = Append(ch[h], m)] /\ ch \in [Subs -> Seq(Messages)]
      /\ delivered' = delivered /\ delivered \in [Subs -> Seq(Messages)]
  BY DEF Send, TypeOK
<1>2. m \in Messages
  BY MaxMessagesAssumption DEF Send, SendingOK, TypeOK, Current, Messages
<1>3. IsInjective(todo[p])
  BY DEF Send, SendingOK
<1>4. h \in ToSet(todo[p]) /\ ToSet(Tail(todo[p])) = ToSet(todo[p]) \ {h} /\ IsInjective(Tail(todo[p]))
  BY <1>1, <1>3, Shrunk
<1>5. delivered[h] \o Append(ch[h], m) = Append(delivered[h] \o ch[h], m)
  <2> DEFINE d == delivered[h]
             c == ch[h]
  <2>1. d \in Seq(Messages) /\ c \in Seq(Messages)
    BY <1>1
  <2> HIDE DEF h, m, d, c
  <2>2. d \o Append(c, m) = Append(d \o c, m)
    BY <1>2, <2>1, SendGrowsTheLog
  <2> QED
    BY <2>2 DEF d, c
<1>6. ToSet(Append(delivered[h] \o ch[h], m)) = ToSet(delivered[h] \o ch[h]) \cup {m}
  <2> DEFINE l == delivered[h] \o ch[h]
  <2>1. l \in Seq(Messages)
    BY <1>1, ConcatProperties
  <2> HIDE DEF h, m, l
  <2>2. ToSet(Append(l, m)) = ToSet(l) \cup {m}
    BY <1>2, <2>1, Grown
  <2> QED
    BY <2>2 DEF l
<1> HIDE DEF h, m
<1>7. logs' = [logs EXCEPT ![h] = Append(@, m)]
  BY <1>1, <1>5 DEF logs, Log
<1>8. reached' = [reached EXCEPT ![h] = @ \cup {m}]
  BY <1>1, <1>5, <1>6 DEF reached, Log
<1>9. h \in ahead[p] /\ ahead' = [ahead EXCEPT ![p] = @ \ {h}] /\ IsInjective(todo'[p])
  BY <1>1, <1>4 DEF ahead
<1> QED
  BY <1>2, <1>7, <1>8, <1>9 DEF h, m

-----------------------------------------------------------------------------
(* Delivery. *)

\* The two properties, of logs.
AudienceOK ==
  /\ \A m \in returned : \A s \in intended[m] : m \in reached[s]
  /\ \A s \in Subs : IsInjective(logs[s])
InOrder ==
  \A s \in Subs : \A i, j \in DOMAIN logs[s] : i < j => logs[s][j] \notin earlier[logs[s][i]]

LEMMA SameProperties ==
  ASSUME TypeOK
  PROVE  /\ AudienceOK <=> MessageReachesItsAudience
         /\ InOrder <=> OrderIsKept
<1>1. \A m \in returned : intended[m] \subseteq Subs
  BY DEF TypeOK
<1> QED
  BY <1>1, LogTypes DEF AudienceOK, InOrder, MessageReachesItsAudience, OrderIsKept, reached

DeliveryOK == MadeOK /\ SendingOK /\ AudienceOK /\ InOrder

(* Publish: its message is new, so nobody has it and none came before it.    *)
LEMMA PublishDelivers ==
  ASSUME TypeOK, MembersOK, DeliveryOK, NEW p \in Publishers, NEW t \in Topics, Publish(p, t)
  PROVE  DeliveryOK'
<1> DEFINE m == <<p, calls[p] + 1>>
<1>1. PICK order \in SetToSeqs(topics[t]) : todo' = [todo EXCEPT ![p] = order]
  BY DEF Publish
<1>2. ToSet(order) = topics[t] /\ IsInjective(order)
  BY RangeOverASet DEF MembersOK
<1>3. /\ calls[p] \in Nat /\ calls' = [calls EXCEPT ![p] = @ + 1] /\ calls[p] + 1 \in 1..MaxMessages
      /\ calls \in [Publishers -> 0..MaxMessages]
      /\ m \in Messages /\ Current(p)' = m
      /\ \A q \in Publishers \ {p} : Current(q)' = Current(q) /\ Current(q) # m
      /\ UNCHANGED <<delivered, ch, returned>>
      /\ intended' = [intended EXCEPT ![m] = {s \in Subs : topicOf[s] = t /\ unsub[s] = "no"}]
      /\ earlier' = [earlier EXCEPT ![m] = returned]
      /\ intended \in [Messages -> SUBSET Subs] /\ earlier \in [Messages -> SUBSET Messages]
      /\ returned \subseteq Messages
      /\ pubPc' = [pubPc EXCEPT ![p] = "send"] /\ pubPc[p] = "idle" /\ ~closed
      /\ pubPc \in [Publishers -> {"idle", "send"}]
  BY MaxMessagesAssumption DEF Publish, TypeOK, Messages, Current, chanVars
<1>4. logs' = logs /\ reached' = reached /\ ahead' = [ahead EXCEPT ![p] = topics[t]]
  BY <1>1, <1>2, <1>3 DEF logs, reached, ahead, Log, TypeOK
<1>5. m \notin returned /\ \A s \in Subs : m \notin reached[s]
  BY <1>3 DEF DeliveryOK, MadeOK
<1>6. {s \in Subs : topicOf[s] = t /\ unsub[s] = "no"} \subseteq topics[t] /\ topics[t] \subseteq Subs
  BY <1>3, NoTopicAssumption DEF MembersOK, TypeOK
<1>7. /\ logs \in [Subs -> Seq(Messages)] /\ reached \in [Subs -> SUBSET Messages]
      /\ ahead \in [Publishers -> SUBSET Subs] /\ \A s \in Subs : reached[s] = ToSet(logs[s])
  BY LogTypes
<1>8. MadeOK'
  <2>1. \A n \in Messages : n[2] <= calls[n[1]] => n[2] <= calls'[n[1]]
    BY <1>3 DEF Messages
  <2> QED
    BY <1>3, <1>4, <1>7, <2>1 DEF DeliveryOK, MadeOK
<1>9. SendingOK'
  <2> SUFFICES ASSUME NEW q \in Publishers, pubPc'[q] = "send"
               PROVE  /\ calls'[q] > 0
                      /\ Current(q)' \notin returned'
                      /\ IsInjective(todo'[q])
                      /\ \A s \in ahead'[q] : Current(q)' \notin reached'[s]
                      /\ \A s \in intended'[Current(q)'] : s \in ahead'[q] \/ Current(q)' \in reached'[s]
    BY DEF SendingOK
  <2>1. CASE q = p
    <3>1. todo'[p] = order /\ ahead'[p] = topics[t] /\ calls'[p] = calls[p] + 1
      BY <1>1, <1>3, <1>4, <1>7 DEF TypeOK
    <3>2. intended'[m] = {s \in Subs : topicOf[s] = t /\ unsub[s] = "no"}
      BY <1>3
    <3> HIDE DEF m
    <3>3. \A s \in topics[t] : m \notin reached'[s]
      BY <1>4, <1>5, <1>6
    <3>4. m \notin returned'
      BY <1>3, <1>5
    <3> QED
      BY <2>1, <3>1, <3>2, <3>3, <3>4, <1>2, <1>3, <1>6
  <2>2. CASE q # p
    <3>1. Current(q) \in Messages /\ pubPc[q] = "send"
      BY <2>2, <1>3, MaxMessagesAssumption DEF DeliveryOK, SendingOK, Current, Messages
    <3> QED
      BY <2>2, <3>1, <1>1, <1>3, <1>4, <1>7 DEF DeliveryOK, SendingOK, TypeOK
  <2> QED
    BY <2>1, <2>2
<1>10. AudienceOK'
  BY <1>3, <1>4, <1>5 DEF DeliveryOK, AudienceOK
<1>11. InOrder'
  <2> SUFFICES ASSUME NEW s \in Subs, NEW i \in DOMAIN logs[s], NEW j \in DOMAIN logs[s], i < j
               PROVE  logs[s][j] \notin earlier'[logs[s][i]]
    BY <1>4 DEF InOrder
  <2>1. logs[s][i] \in reached[s] /\ logs[s][i] \in Messages
    BY <1>7 DEF ToSet
  <2> QED
    BY <2>1, <1>3, <1>5 DEF DeliveryOK, InOrder
<1> QED
  BY <1>8, <1>9, <1>10, <1>11 DEF DeliveryOK

(* Send: nobody gets the message twice, and no message whose Publish waited   *)
(* for this one to return is in the log before it.                           *)
LEMMA SendDelivers ==
  ASSUME TypeOK, DeliveryOK, NEW p \in Publishers, Send(p)
  PROVE  DeliveryOK'
<1> DEFINE h == Head(todo[p])
           m == Current(p)
<1>1. /\ h \in ahead[p] /\ h \in Subs /\ m \in Messages
      /\ logs' = [logs EXCEPT ![h] = Append(@, m)]
      /\ reached' = [reached EXCEPT ![h] = @ \cup {m}]
      /\ ahead' = [ahead EXCEPT ![p] = @ \ {h}]
      /\ IsInjective(todo'[p])
  BY SendEffect, LogTypes DEF DeliveryOK
<1>2. /\ logs \in [Subs -> Seq(Messages)] /\ reached \in [Subs -> SUBSET Messages]
      /\ ahead \in [Publishers -> SUBSET Subs] /\ \A s \in Subs : reached[s] = ToSet(logs[s])
  BY LogTypes
<1>3. /\ UNCHANGED <<pubPc, calls, intended, earlier, returned>>
      /\ \A q \in Publishers : q # p => todo'[q] = todo[q]
      /\ \A q \in Publishers : Current(q)' = Current(q)
      /\ \A q \in Publishers : q # p => Current(q) # m
      /\ pubPc[p] = "send"
  BY DEF Send, histVars, Current, TypeOK
<1>4. /\ calls[p] > 0 /\ m \notin returned /\ m \notin reached[h]
      /\ m[1] = p /\ m[2] = calls[p] /\ calls[p] \in Nat
  BY <1>1, <1>3 DEF DeliveryOK, SendingOK, Current, TypeOK
<1> HIDE DEF h, m
<1>5. MadeOK'
  BY <1>1, <1>2, <1>3, <1>4 DEF DeliveryOK, MadeOK
<1>6. SendingOK'
  <2> SUFFICES ASSUME NEW q \in Publishers, pubPc[q] = "send"
               PROVE  /\ calls[q] > 0
                      /\ Current(q) \notin returned
                      /\ IsInjective(todo'[q])
                      /\ \A s \in ahead'[q] : Current(q) \notin reached'[s]
                      /\ \A s \in intended[Current(q)] : s \in ahead'[q] \/ Current(q) \in reached'[s]
    BY <1>3 DEF SendingOK
  <2>1. /\ calls[q] > 0 /\ Current(q) \notin returned /\ IsInjective(todo[q])
        /\ \A s \in ahead[q] : Current(q) \notin reached[s]
        /\ \A s \in intended[Current(q)] : s \in ahead[q] \/ Current(q) \in reached[s]
    BY DEF DeliveryOK, SendingOK
  <2>2. intended[Current(q)] \subseteq Subs /\ ahead[q] \subseteq Subs
    <3>1. Current(q) \in Messages
      BY <2>1, MaxMessagesAssumption DEF Current, Messages, TypeOK
    <3> QED
      BY <3>1, <1>2 DEF TypeOK
  <2>3. CASE q = p
    BY <2>1, <2>2, <2>3, <1>1, <1>2 DEF m
  <2>4. CASE q # p
    BY <2>1, <2>2, <2>4, <1>1, <1>2, <1>3
  <2> QED
    BY <2>3, <2>4
<1>7. AudienceOK'
  <2>1. \A n \in returned : intended[n] \subseteq Subs
    BY DEF TypeOK
  <2>2. IsInjective(Append(logs[h], m))
    BY <1>1, <1>2, <1>4, Grown DEF DeliveryOK, AudienceOK
  <2> QED
    BY <2>1, <2>2, <1>1, <1>2, <1>3 DEF DeliveryOK, AudienceOK
<1>8. InOrder'
  <2> SUFFICES ASSUME NEW s \in Subs, NEW i \in DOMAIN logs'[s], NEW j \in DOMAIN logs'[s], i < j
               PROVE  logs'[s][j] \notin earlier[logs'[s][i]]
    BY <1>3 DEF InOrder
  <2>1. CASE s # h
    BY <2>1, <1>1, <1>2 DEF DeliveryOK, InOrder
  <2>2. CASE s = h
    <3>1. /\ logs'[h] = Append(logs[h], m) /\ logs[h] \in Seq(Messages)
          /\ Len(logs[h]) \in Nat /\ DOMAIN logs[h] = 1..Len(logs[h])
          /\ DOMAIN logs'[h] = 1..(Len(logs[h]) + 1)
          /\ logs'[h][Len(logs[h]) + 1] = m
          /\ \A k \in 1..Len(logs[h]) : logs'[h][k] = logs[h][k] /\ logs[h][k] \in Messages
      BY <1>1, <1>2
    <3>2. i \in 1..Len(logs[h]) /\ (j \in 1..Len(logs[h]) \/ j = Len(logs[h]) + 1)
      BY <2>2, <3>1
    <3>3. CASE j \in 1..Len(logs[h])
      BY <2>2, <3>1, <3>2, <3>3 DEF DeliveryOK, InOrder
    <3>4. CASE j = Len(logs[h]) + 1
      BY <2>2, <3>1, <3>2, <3>4, <1>4 DEF DeliveryOK, MadeOK
    <3> QED
      BY <3>2, <3>3, <3>4
  <2> QED
    BY <2>1, <2>2
<1> QED
  BY <1>5, <1>6, <1>7, <1>8 DEF DeliveryOK

(* A Publish that returns has nobody ahead, so it has reached its audience.   *)
LEMMA ReturnDelivers ==
  ASSUME TypeOK, DeliveryOK, NEW p \in Publishers, PublishReturn(p)
  PROVE  DeliveryOK'
<1> DEFINE m == Current(p)
<1>1. /\ UNCHANGED <<calls, intended, earlier, todo, delivered, ch>>
      /\ returned' = returned \cup {m}
      /\ pubPc' = [pubPc EXCEPT ![p] = "idle"] /\ pubPc[p] = "send" /\ todo[p] = <<>>
      /\ \A q \in Publishers : Current(q)' = Current(q)
      /\ \A q \in Publishers : q # p => Current(q) # m
      /\ m[1] = p /\ m[2] = calls[p] /\ calls[p] \in Nat
  BY DEF PublishReturn, chanVars, Current, TypeOK
<1>2. UNCHANGED <<logs, reached, ahead>>
  BY <1>1 DEF logs, reached, ahead, Log
<1>3. ahead[p] = {}
  BY <1>1 DEF ahead, ToSet
<1>4. \A s \in intended[m] : m \in reached[s]
  BY <1>1, <1>3 DEF DeliveryOK, SendingOK
<1> HIDE DEF m
<1>5. MadeOK'
  BY <1>1, <1>2 DEF DeliveryOK, MadeOK
<1>6. SendingOK'
  BY <1>1, <1>2 DEF DeliveryOK, SendingOK, TypeOK
<1>7. AudienceOK'
  BY <1>1, <1>2, <1>4 DEF DeliveryOK, AudienceOK
<1>8. InOrder'
  BY <1>1, <1>2 DEF DeliveryOK, InOrder
<1> QED
  BY <1>5, <1>6, <1>7, <1>8 DEF DeliveryOK

LEMMA DeliveryStep ==
  ASSUME TypeOK, MembersOK, DeliveryOK, [Next]_vars
  PROVE  DeliveryOK'
<1>1. CASE UNCHANGED publishing
  BY <1>1 DEF publishing, pubVars, histVars, DeliveryOK, MadeOK, SendingOK, AudienceOK, InOrder,
     Current
<1> QED
  BY <1>1, QuietSteps, PublishDelivers, SendDelivers, ReturnDelivers

-----------------------------------------------------------------------------
(* The theorems. *)
IInv == TypeOK /\ MembersOK /\ DrainOK /\ DeliveryOK

LEMMA InitIInv == Init => IInv
<1> SUFFICES ASSUME Init
             PROVE  IInv
  OBVIOUS
<1>1. TypeOK
  <2>1. /\ 0 \in 0..MaxMessages /\ Len(<<>>) <= ChanCap
        /\ <<>> \in Seq(Messages) /\ <<>> \in Seq(Subs)
    BY ChanCapAssumption, MaxMessagesAssumption
  <2>2. /\ ch \in [Subs -> Seq(Messages)] /\ delivered \in [Subs -> Seq(Messages)]
        /\ todo \in [Publishers -> Seq(Subs)] /\ calls \in [Publishers -> 0..MaxMessages]
        /\ \A s \in Subs : Len(ch[s]) <= ChanCap
    BY <2>1 DEF Init
  <2> QED
    BY <2>2 DEF Init, TypeOK
<1>2. logs = [s \in Subs |-> <<>>] /\ reached = [s \in Subs |-> {}]
  BY DEF Init, logs, reached, Log, ToSet
<1>3. MembersOK
  BY FS_EmptySet DEF Init, MembersOK
<1>4. DrainOK
  BY NoCloserAssumption DEF Init, DrainOK
<1>5. DeliveryOK
  BY <1>2 DEF Init, DeliveryOK, MadeOK, SendingOK, AudienceOK, InOrder, IsInjective
<1> QED
  BY <1>1, <1>3, <1>4, <1>5 DEF IInv

(* The inductive invariant of the event bus. *)
THEOREM BusInvariance == Spec => []IInv
<1>1. IInv /\ [Next]_vars => IInv'
  BY TypingStep, MembersStep, DrainStep, DeliveryStep DEF IInv, DeliveryOK
<1> QED
  BY InitIInv, <1>1, PTL DEF Spec

(* A Publish that returned nil has reached every subscription to its topic    *)
(* that nobody had asked to end, once.                                       *)
THEOREM MessagesReachTheirAudience == Spec => []MessageReachesItsAudience
<1>1. IInv => MessageReachesItsAudience
  BY SameProperties DEF IInv, DeliveryOK
<1> QED
  BY <1>1, BusInvariance, PTL

(* Messages are handled in the order in which their Publish calls followed   *)
(* each other, whichever goroutines made them.                               *)
THEOREM MessagesKeepTheirOrder == Spec => []OrderIsKept
<1>1. IInv => OrderIsKept
  BY SameProperties DEF IInv, DeliveryOK
<1> QED
  BY <1>1, BusInvariance, PTL

(* When the Close that closed the bus returns nil, every handler it found     *)
(* has ended with nothing left to handle.                                    *)
THEOREM CloseDrains == Spec => []FirstCloseDrains
<1>1. IInv => FirstCloseDrains
  BY DEF IInv, DrainOK, FirstCloseDrains
<1> QED
  BY <1>1, BusInvariance, PTL
=============================================================================
