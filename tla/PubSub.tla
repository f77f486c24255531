------------------------------- MODULE PubSub -------------------------------
(***************************************************************************)
(* The event bus pubsub/my_pubsub.go.  Every critical section of mu is one *)
(* step; sends, handlers, the two halves of Unsubscribe and the goroutines *)
(* that Close starts interleave between them.  A send on a closed channel  *)
(* or a second close of one panics, which stops the program.               *)
(***************************************************************************)
EXTENDS Naturals, Sequences, FiniteSets, SequencesExt

CONSTANTS
  Topics,
  Subs,        \* the subscriptions that may be made
  Publishers,  \* goroutines that call Publish, one call at a time
  Closers,     \* goroutines that call Close
  NoTopic, NoCloser,
  ChanCap,     \* capacity of a subscription's channel, 1024 in Subscribe
  MaxMessages  \* bound: calls of Publish by one publisher

ASSUME NoTopicAssumption == NoTopic \notin Topics
ASSUME NoCloserAssumption == NoCloser \notin Closers
ASSUME ChanCapAssumption == ChanCap \in Nat
ASSUME MaxMessagesAssumption == MaxMessages \in Nat

VARIABLES
  closed,      \* MyPubSub.closed
  topics,      \* MyPubSub.topics, {} where the map has no key
  topicOf,     \* MySubscription.subj, NoTopic before Subscribe
  ch, chClosed,\* MySubscription.ch
  unsub,       \* where unsubOnce stands
  handler,     \* the goroutine that Subscribe starts
  delivered,   \* history: the messages cb was called with
  pubPc, todo, \* a Publish call and the subscriptions it has yet to send to
  calls,       \* Publish calls made by each publisher
  closer,      \* the Close call that entered closeOnce
  closePc,
  closeJob,    \* the goroutine Close starts for each subscription
  panicked,
  intended,    \* history: who each message was published for
  earlier,     \* history: the Publish calls that had returned before it
  returned     \* history: the messages whose Publish returned nil

busVars  == <<closed, topics, closer>>
subVars  == <<topicOf, unsub>>
chanVars == <<ch, chClosed>>
pubVars  == <<pubPc, todo, calls>>
histVars == <<intended, earlier, returned>>
vars == <<busVars, subVars, chanVars, handler, delivered, pubVars, closePc,
          closeJob, panicked, histVars>>

Messages == Publishers \X (1..MaxMessages)
Current(p) == <<p, calls[p]>>

Init ==
  /\ closed = FALSE
  /\ topics = [t \in Topics |-> {}]
  /\ topicOf = [s \in Subs |-> NoTopic]
  /\ ch = [s \in Subs |-> <<>>]
  /\ chClosed = [s \in Subs |-> FALSE]
  /\ unsub = [s \in Subs |-> "no"]
  /\ handler = [s \in Subs |-> "none"]
  /\ delivered = [s \in Subs |-> <<>>]
  /\ pubPc = [p \in Publishers |-> "idle"]
  /\ todo = [p \in Publishers |-> <<>>]
  /\ calls = [p \in Publishers |-> 0]
  /\ closer = NoCloser
  /\ closePc = [c \in Closers |-> "idle"]
  /\ closeJob = [s \in Subs |-> "none"]
  /\ panicked = FALSE
  /\ intended = [m \in Messages |-> {}]
  /\ earlier = [m \in Messages |-> {}]
  /\ returned = {}

-----------------------------------------------------------------------------
SubscribeDeaf(s, subj) ==  \* mutant: the handler goroutine is not started
  /\ topicOf[s] = NoTopic
  /\ ~closed
  /\ topicOf' = [topicOf EXCEPT ![s] = subj]
  /\ topics' = [topics EXCEPT ![subj] = @ \cup {s}]
  /\ UNCHANGED <<closed, closer, unsub, chanVars, handler, delivered, pubVars,
                 closePc, closeJob, panicked, histVars>>

(* Subscribe; on a closed bus it returns errClosed and changes nothing. *)
Subscribe(s, subj) ==
  /\ topicOf[s] = NoTopic
  /\ ~closed
  /\ topicOf' = [topicOf EXCEPT ![s] = subj]
  /\ topics' = [topics EXCEPT ![subj] = @ \cup {s}]
  /\ handler' = [handler EXCEPT ![s] = "idle"]
  /\ UNCHANGED <<closed, closer, unsub, chanVars, delivered, pubVars, closePc,
                 closeJob, panicked, histVars>>

HandlerReceiveLast(s) ==  \* mutant: last in, first out
  /\ handler[s] = "idle"
  /\ ch[s] # <<>>
  /\ ch' = [ch EXCEPT ![s] = Front(@)]
  /\ delivered' = [delivered EXCEPT ![s] = Append(@, Last(ch[s]))]
  /\ handler' = [handler EXCEPT ![s] = "busy"]
  /\ UNCHANGED <<busVars, subVars, chClosed, pubVars, closePc, closeJob,
                 panicked, histVars>>

(* The handler goroutine: range over ch, cb for each message. *)
HandlerReceive(s) ==
  /\ handler[s] = "idle"
  /\ ch[s] # <<>>
  /\ ch' = [ch EXCEPT ![s] = Tail(@)]
  /\ delivered' = [delivered EXCEPT ![s] = Append(@, Head(ch[s]))]
  /\ handler' = [handler EXCEPT ![s] = "busy"]
  /\ UNCHANGED <<busVars, subVars, chClosed, pubVars, closePc, closeJob,
                 panicked, histVars>>

HandlerReturn(s) ==
  /\ handler[s] = "busy"
  /\ handler' = [handler EXCEPT ![s] = "idle"]
  /\ UNCHANGED <<busVars, subVars, chanVars, delivered, pubVars, closePc,
                 closeJob, panicked, histVars>>

HandlerExit(s) ==
  /\ handler[s] = "idle"
  /\ ch[s] = <<>> /\ chClosed[s]
  /\ handler' = [handler EXCEPT ![s] = "done"]
  /\ UNCHANGED <<busVars, subVars, chanVars, delivered, pubVars, closePc,
                 closeJob, panicked, histVars>>

-----------------------------------------------------------------------------
(* Unsubscribe: unsubOnce lets the first caller in, the others wait for it;  *)
(* then removeSub under mu, then close(ch) without it.                      *)
UnsubEnter(s) ==
  /\ topicOf[s] # NoTopic
  /\ unsub[s] = "no"
  /\ unsub' = [unsub EXCEPT ![s] = "remove"]

Unsubscribe(s) ==
  /\ UnsubEnter(s)
  /\ UNCHANGED <<busVars, topicOf, chanVars, handler, delivered, pubVars,
                 closePc, closeJob, panicked, histVars>>

RemoveSubs(s) ==  \* mutant: the whole topic is deleted
  /\ unsub[s] = "remove"
  /\ topics' = [topics EXCEPT ![topicOf[s]] = {}]
  /\ unsub' = [unsub EXCEPT ![s] = "close"]
  /\ UNCHANGED <<closed, closer, topicOf, chanVars, handler, delivered, pubVars,
                 closePc, closeJob, panicked, histVars>>

RemoveSub(s) ==
  /\ unsub[s] = "remove"
  /\ topics' = [topics EXCEPT ![topicOf[s]] = @ \ {s}]
  /\ unsub' = [unsub EXCEPT ![s] = "close"]
  /\ UNCHANGED <<closed, closer, topicOf, chanVars, handler, delivered, pubVars,
                 closePc, closeJob, panicked, histVars>>

CloseChannelNever(s) ==  \* mutant: Unsubscribe leaves the channel open
  /\ unsub[s] = "close"
  /\ unsub' = [unsub EXCEPT ![s] = "done"]
  /\ UNCHANGED <<busVars, topicOf, chanVars, handler, delivered, pubVars, closePc,
                 closeJob, panicked, histVars>>

CloseChannel(s) ==
  /\ unsub[s] = "close"
  /\ chClosed' = [chClosed EXCEPT ![s] = TRUE]
  /\ panicked' = (panicked \/ chClosed[s])
  /\ unsub' = [unsub EXCEPT ![s] = "done"]
  /\ UNCHANGED <<busVars, topicOf, ch, handler, delivered, pubVars, closePc,
                 closeJob, histVars>>

-----------------------------------------------------------------------------
(* Publish: copies the subscribers under mu in the order the map yields     *)
(* them, then sends to them one after the other without it.  On a closed    *)
(* bus it returns errClosed and changes nothing.                            *)
Publish(p, subj) ==
  /\ pubPc[p] = "idle"
  /\ calls[p] < MaxMessages
  /\ ~closed
  /\ calls' = [calls EXCEPT ![p] = @ + 1]
  /\ \E order \in SetToSeqs(topics[subj]) : todo' = [todo EXCEPT ![p] = order]
  /\ pubPc' = [pubPc EXCEPT ![p] = "send"]
  /\ intended' = [intended EXCEPT ![<<p, calls'[p]>>] =
                    {s \in Subs : topicOf[s] = subj /\ unsub[s] = "no"}]
  /\ earlier' = [earlier EXCEPT ![<<p, calls'[p]>>] = returned]
  /\ UNCHANGED <<busVars, subVars, chanVars, handler, delivered, closePc,
                 closeJob, panicked, returned>>

Send(p) ==
  /\ pubPc[p] = "send"
  /\ todo[p] # <<>>
  /\ LET s == Head(todo[p])
     IN  /\ ~chClosed[s]
         /\ Len(ch[s]) < ChanCap
         /\ ch' = [ch EXCEPT ![s] = Append(@, Current(p))]
  /\ todo' = [todo EXCEPT ![p] = Tail(@)]
  /\ UNCHANGED <<busVars, subVars, chClosed, handler, delivered, pubPc, calls,
                 closePc, closeJob, panicked, histVars>>

(* A send on a closed channel, or one that was blocked when it was closed. *)
SendPanics(p) ==
  /\ pubPc[p] = "send"
  /\ todo[p] # <<>>
  /\ chClosed[Head(todo[p])]
  /\ panicked' = TRUE
  /\ UNCHANGED <<busVars, subVars, chanVars, handler, delivered, pubVars,
                 closePc, closeJob, histVars>>

PublishReturn(p) ==
  /\ pubPc[p] = "send"
  /\ todo[p] = <<>>
  /\ pubPc' = [pubPc EXCEPT ![p] = "idle"]
  /\ returned' = returned \cup {Current(p)}
  /\ UNCHANGED <<busVars, subVars, chanVars, handler, delivered, todo, calls,
                 closePc, closeJob, panicked, intended, earlier>>

-----------------------------------------------------------------------------
(* Close: the first call marks the bus closed, empties topics and starts a  *)
(* goroutine for each subscription it found there.  The WaitGroup is a      *)
(* local variable: a later call has nothing to wait for.                    *)
Listed == UNION {topics[t] : t \in Topics}

CloseFirst(c) ==
  /\ closePc[c] = "idle"
  /\ closer = NoCloser
  /\ closer' = c
  /\ closed' = TRUE
  /\ topics' = [t \in Topics |-> {}]
  /\ closeJob' = [s \in Subs |-> IF s \in Listed THEN "unsubscribe" ELSE closeJob[s]]
  /\ closePc' = [closePc EXCEPT ![c] = "waiting"]
  /\ UNCHANGED <<subVars, chanVars, handler, delivered, pubVars, panicked, histVars>>

CloseAgain(c) ==
  /\ closePc[c] = "idle"
  /\ closer # NoCloser
  /\ closePc' = [closePc EXCEPT ![c] = "waiting"]
  /\ UNCHANGED <<busVars, subVars, chanVars, handler, delivered, pubVars,
                 closeJob, panicked, histVars>>

CloseJobUnsubscribes(s) ==
  /\ closeJob[s] = "unsubscribe"
  /\ UnsubEnter(s)
  /\ UNCHANGED <<busVars, topicOf, chanVars, handler, delivered, pubVars,
                 closePc, closeJob, panicked, histVars>>

CloseJobUnsubscribed(s) ==
  /\ closeJob[s] = "unsubscribe"
  /\ unsub[s] = "done"
  /\ closeJob' = [closeJob EXCEPT ![s] = "waitHandler"]
  /\ UNCHANGED <<busVars, subVars, chanVars, handler, delivered, pubVars,
                 closePc, panicked, histVars>>

CloseJobDoneEarly(s) ==  \* mutant: the handler is not waited for
  /\ closeJob[s] = "waitHandler"
  /\ closeJob' = [closeJob EXCEPT ![s] = "done"]
  /\ UNCHANGED <<busVars, subVars, chanVars, handler, delivered, pubVars,
                 closePc, panicked, histVars>>

CloseJobDone(s) ==
  /\ closeJob[s] = "waitHandler"
  /\ handler[s] = "done"
  /\ closeJob' = [closeJob EXCEPT ![s] = "done"]
  /\ UNCHANGED <<busVars, subVars, chanVars, handler, delivered, pubVars,
                 closePc, panicked, histVars>>

WaitIsOver(c) == c = closer => \A s \in Subs : closeJob[s] \in {"none", "done"}

CloseReturn(c) ==
  /\ closePc[c] = "waiting"
  /\ WaitIsOver(c)
  /\ closePc' = [closePc EXCEPT ![c] = "nil"]
  /\ UNCHANGED <<busVars, subVars, chanVars, handler, delivered, pubVars,
                 closeJob, panicked, histVars>>

(* ctx.Done() *)
CloseExpires(c) ==
  /\ closePc[c] = "waiting"
  /\ closePc' = [closePc EXCEPT ![c] = "error"]
  /\ UNCHANGED <<busVars, subVars, chanVars, handler, delivered, pubVars,
                 closeJob, panicked, histVars>>

-----------------------------------------------------------------------------
HandlerLoop(s) == HandlerReceive(s) \/ HandlerExit(s)
UnsubStep(s) == RemoveSub(s) \/ CloseChannel(s)
CloseJobStep(s) ==
  CloseJobUnsubscribes(s) \/ CloseJobUnsubscribed(s) \/ CloseJobDone(s)
PublishStep(p) == Send(p) \/ SendPanics(p) \/ PublishReturn(p)

Next ==
  /\ ~panicked
  /\ \/ \E s \in Subs, t \in Topics : Subscribe(s, t)
     \/ \E s \in Subs :
          \/ HandlerLoop(s) \/ HandlerReturn(s)
          \/ Unsubscribe(s) \/ UnsubStep(s) \/ CloseJobStep(s)
     \/ \E p \in Publishers, t \in Topics : Publish(p, t)
     \/ \E p \in Publishers : PublishStep(p)
     \/ \E c \in Closers :
          CloseFirst(c) \/ CloseAgain(c) \/ CloseReturn(c) \/ CloseExpires(c)

Spec == Init /\ [][Next]_vars

(* The runtime runs every goroutine that is not blocked until the program   *)
(* panics; handlers return.  No context need expire.                         *)
Alive(step) == ~panicked /\ step

FairSpec ==
  /\ Spec
  /\ \A s \in Subs : /\ WF_vars(Alive(HandlerLoop(s)))
                     /\ WF_vars(Alive(UnsubStep(s)))
                     /\ WF_vars(Alive(CloseJobStep(s)))
                     /\ WF_vars(Alive(HandlerReturn(s)))
  /\ \A p \in Publishers : WF_vars(Alive(PublishStep(p)))
  /\ \A c \in Closers : WF_vars(Alive(CloseReturn(c)))

-----------------------------------------------------------------------------
TypeOK ==
  /\ closed \in BOOLEAN
  /\ topics \in [Topics -> SUBSET Subs]
  /\ topicOf \in [Subs -> Topics \cup {NoTopic}]
  /\ ch \in [Subs -> Seq(Messages)]
  /\ \A s \in Subs : Len(ch[s]) <= ChanCap
  /\ delivered \in [Subs -> Seq(Messages)]
  /\ chClosed \in [Subs -> BOOLEAN]
  /\ unsub \in [Subs -> {"no", "remove", "close", "done"}]
  /\ handler \in [Subs -> {"none", "idle", "busy", "done"}]
  /\ pubPc \in [Publishers -> {"idle", "send"}]
  /\ todo \in [Publishers -> Seq(Subs)]
  /\ calls \in [Publishers -> 0..MaxMessages]
  /\ closer \in Closers \cup {NoCloser}
  /\ closePc \in [Closers -> {"idle", "waiting", "nil", "error"}]
  /\ closeJob \in [Subs -> {"none", "unsubscribe", "waitHandler", "done"}]
  /\ panicked \in BOOLEAN
  /\ intended \in [Messages -> SUBSET Subs]
  /\ earlier \in [Messages -> SUBSET Messages]
  /\ returned \subseteq Messages

\* What the handler of s has been given and what awaits it, in order.
Log(s) == delivered[s] \o ch[s]

(* A Publish that returned nil reached every subscription to its topic that *)
(* nobody had asked to end: the message was handled or awaits its handler,  *)
(* whoever subscribes, unsubscribes or closes meanwhile; and no handler is  *)
(* given a message twice.                                                   *)
MessageReachesItsAudience ==
  /\ \A m \in returned : \A s \in intended[m] : m \in ToSet(Log(s))
  /\ \A s \in Subs : IsInjective(Log(s))

(* "FIFO for messages": a handler is never given a message before one whose *)
(* Publish had returned when the Publish of the first took its snapshot,    *)
(* whichever goroutines published the two.                                  *)
OrderIsKept ==
  \A s \in Subs : \A i, j \in DOMAIN Log(s) :
    i < j => Log(s)[j] \notin earlier[Log(s)[i]]

(* When the call that closes the bus returns nil, the handlers of all       *)
(* subscriptions it found have run to their end with nothing left over.     *)
FirstCloseDrains ==
  \A c \in Closers : c = closer /\ closePc[c] = "nil" =>
    \A s \in Subs : closeJob[s] # "none" =>
      handler[s] = "done" /\ ch[s] = <<>>

(* On a closed bus every subscription is being ended by somebody, so that   *)
(* no handler goroutine outlives it.                                        *)
HandlersEndAfterClose ==
  closed ~> panicked \/ \A s \in Subs : handler[s] \in {"none", "done"}

(* A Publish returns, however many messages wait before it, as long as the  *)
(* handlers do.                                                             *)
PublishReturns == \A p \in Publishers : pubPc[p] = "send" ~> panicked \/ pubPc[p] = "idle"

(* Close returns without its context expiring, as long as the handlers do.  *)
CloseReturns ==
  \A c \in Closers : closePc[c] = "waiting" ~> panicked \/ closePc[c] # "waiting"

(* "Many subscribers may subscribe to a topic and unsubscribe": whenever     *)
(* they do, the program does not panic.                                     *)
NoPanic == ~panicked
=============================================================================
