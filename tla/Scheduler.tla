----------------------------- MODULE Scheduler -----------------------------
(***************************************************************************)
(* The coordinator's job scheduler, distbuild/pkg/scheduler/scheduler.go.  *)
(*                                                                         *)
(* Every exported method holds mu for its whole body except PickJob and    *)
(* Stop, which release it and then touch the channel queueEvent; those two *)
(* are split at the points where another goroutine can run.  A PendingJob  *)
(* is a pointer: `allocated' is the heap of PendingJob objects, a pointer  *)
(* is the index of the object, Nil (0) is the nil pointer.                 *)
(***************************************************************************)
EXTENDS Naturals, Sequences

CONSTANTS
  JobIDs,        \* build.ID of the jobs
  JobSpecs,      \* api.JobSpec: records with a field id
  Workers,       \* api.WorkerID
  Results,       \* api.JobResult, successes and failures alike
  NoResult,      \* the nil *api.JobResult
  Pickers,       \* goroutines that call PickJob
  MaxAllocated   \* bound: PendingJob objects a behaviour may allocate

ASSUME SpecsAssumption == \A job \in JobSpecs : job.id \in JobIDs
ASSUME NoResultAssumption == NoResult \notin Results
ASSUME MaxAllocatedAssumption == MaxAllocated \in Nat

Nil == 0

VARIABLES
  stopped,     \* Scheduler.stopped
  stopping,    \* a Stop call is between its Unlock and its send
  queue,       \* Scheduler.queue, pointers
  pending,     \* Scheduler.pending; Nil where the map has no key
  completed,   \* Scheduler.completed; NoResult where the map has no key
  artifacts,   \* Scheduler.artifacts
  queueEvent,  \* the one-slot channel holds a token
  allocated,   \* the PendingJob objects, in allocation order
  pickPc,      \* where each PickJob call stands
  got,         \* the pointer a PickJob call is returning
  handed       \* history: the pointers PickJob has taken from the queue

schedVars == <<pending, completed, artifacts, allocated>>
pickVars  == <<got, handed>>
vars == <<stopped, stopping, queue, pending, completed, artifacts,
          queueEvent, allocated, pickPc, got, handed>>

\* "lock": about to take mu; "select": mu released, not yet in the select;
\* "parked": blocked in the select; "done": returning got.
PickPcs == {"idle", "lock", "select", "parked", "done"}

Pointers == 1..Len(allocated)
JobOf(h) == allocated[h].job.id
Parked == {p \in Pickers : pickPc[p] = "parked"}

Object(job, res, closes) == [job |-> job, result |-> res, closes |-> closes]

Init ==
  /\ stopped = FALSE
  /\ stopping = FALSE
  /\ queue = <<>>
  /\ pending = [id \in JobIDs |-> Nil]
  /\ completed = [id \in JobIDs |-> NoResult]
  /\ artifacts = [id \in JobIDs |-> {}]
  /\ queueEvent = FALSE
  /\ allocated = <<>>
  /\ pickPc = [p \in Pickers |-> "idle"]
  /\ got = [p \in Pickers |-> Nil]
  /\ handed = {}

-----------------------------------------------------------------------------
(* The non-blocking send on queueEvent.  A goroutine parked in the receive  *)
(* is given the token by the sender itself and becomes runnable; with no    *)
(* receiver parked the token goes to the buffer, or is dropped if the       *)
(* buffer already holds one.                                                *)
Notify ==
  \/ /\ Parked = {}
     /\ queueEvent' = TRUE
     /\ UNCHANGED pickPc
  \/ \E p \in Parked :
       /\ pickPc' = [pickPc EXCEPT ![p] = "lock"]
       /\ UNCHANGED queueEvent

-----------------------------------------------------------------------------
(* LocateArtifact: any worker recorded for the artifact. *)
LocateArtifact(id) == artifacts[id]

Allocate(object) ==
  /\ Len(allocated) < MaxAllocated
  /\ allocated' = Append(allocated, object)

(* ScheduleJob, one action per outcome.  The pointer it returns is         *)
(* Len(allocated') in the two allocating outcomes, pending[job.id] else.   *)
ScheduleCompleted(job) ==
  /\ completed[job.id] # NoResult
  /\ Allocate(Object(job, completed[job.id], 1))
  /\ UNCHANGED <<stopped, stopping, queue, pending, completed, artifacts,
                 queueEvent, pickPc, pickVars>>

SchedulePending(job) ==
  /\ completed[job.id] = NoResult
  /\ pending[job.id] # Nil
  /\ UNCHANGED vars

EnqueueStale(job) ==  \* mutant: the pointer queued is the one before
  /\ Allocate(Object(job, NoResult, 0))
  /\ pending' = [pending EXCEPT ![job.id] = Len(allocated')]
  /\ queue' = Append(queue, Len(allocated))
  /\ Notify

Enqueue(job) ==
  /\ Allocate(Object(job, NoResult, 0))
  /\ pending' = [pending EXCEPT ![job.id] = Len(allocated')]
  /\ queue' = Append(queue, Len(allocated'))
  /\ Notify

ScheduleNewAgain(job) ==  \* mutant: the completed map is not consulted
  /\ pending[job.id] = Nil
  /\ Enqueue(job)
  /\ UNCHANGED <<stopped, stopping, completed, artifacts, pickVars>>

ScheduleNewTwice(job) ==  \* mutant: the pending map is not consulted
  /\ completed[job.id] = NoResult
  /\ Enqueue(job)
  /\ UNCHANGED <<stopped, stopping, completed, artifacts, pickVars>>

ScheduleNew(job) ==
  /\ completed[job.id] = NoResult
  /\ pending[job.id] = Nil
  /\ Enqueue(job)
  /\ UNCHANGED <<stopped, stopping, completed, artifacts, pickVars>>

ScheduleJob(job) ==
  ScheduleCompleted(job) \/ SchedulePending(job) \/ ScheduleNew(job)

(* OnJobComplete.  The worker is recorded as a holder of the artifact      *)
(* whatever the result says; res is NoResult for an AddedArtifacts entry.  *)
RecordHolder(w, id) == artifacts' = [artifacts EXCEPT ![id] = @ \cup {w}]

CompleteUnknown(id, res) ==
  /\ pending[id] = Nil
  /\ completed' = IF res = NoResult THEN completed
                                    ELSE [completed EXCEPT ![id] = res]
  /\ UNCHANGED <<pending, allocated>>

CompleteWithoutResult(id, res) ==
  /\ pending[id] # Nil
  /\ res = NoResult \/ allocated[pending[id]].result # NoResult
  /\ UNCHANGED <<pending, completed, allocated>>

CompletePendingRepeats(id, res) ==  \* mutant: a job with a result stays pending
  /\ pending[id] # Nil
  /\ res # NoResult
  /\ allocated' = [allocated EXCEPT ![pending[id]] =
                     Object(@.job, res, @.closes + 1)]
  /\ completed' = [completed EXCEPT ![id] = res]
  /\ UNCHANGED pending

CompletePending(id, res) ==
  /\ pending[id] # Nil
  /\ res # NoResult
  /\ allocated[pending[id]].result = NoResult
  /\ allocated' = [allocated EXCEPT ![pending[id]] =
                     Object(@.job, res, @.closes + 1)]
  /\ pending' = [pending EXCEPT ![id] = Nil]
  /\ completed' = [completed EXCEPT ![id] = res]

OnJobCompleteLocatesLate(w, id, res) ==  \* mutant: only announcements are recorded
  /\ IF res = NoResult THEN RecordHolder(w, id) ELSE UNCHANGED artifacts
  /\ \/ CompleteUnknown(id, res)
     \/ CompleteWithoutResult(id, res)
     \/ CompletePending(id, res)
  /\ UNCHANGED <<stopped, stopping, queue, queueEvent, pickPc, pickVars>>

OnJobComplete(w, id, res) ==
  /\ RecordHolder(w, id)
  /\ \/ CompleteUnknown(id, res)
     \/ CompleteWithoutResult(id, res)
     \/ CompletePending(id, res)
  /\ UNCHANGED <<stopped, stopping, queue, queueEvent, pickPc, pickVars>>

-----------------------------------------------------------------------------
(* PickJob *)
PickCall(p) ==
  /\ pickPc[p] = "idle"
  /\ pickPc' = [pickPc EXCEPT ![p] = "lock"]
  /\ UNCHANGED <<stopped, stopping, queue, queueEvent, schedVars, pickVars>>

PickStopped(p) ==
  /\ pickPc[p] = "lock"
  /\ stopped
  /\ pickPc' = [pickPc EXCEPT ![p] = "done"]
  /\ UNCHANGED <<stopped, stopping, queue, queueEvent, schedVars, pickVars>>

PickHeadPeeks(p) ==  \* mutant: the queue is not advanced
  /\ pickPc[p] = "lock"
  /\ ~stopped
  /\ queue # <<>>
  /\ got' = [got EXCEPT ![p] = Head(queue)]
  /\ handed' = handed \cup {Head(queue)}
  /\ pickPc' = [pickPc EXCEPT ![p] = "done"]
  /\ UNCHANGED <<stopped, stopping, queue, queueEvent, schedVars>>

PickHead(p) ==
  /\ pickPc[p] = "lock"
  /\ ~stopped
  /\ queue # <<>>
  /\ queue' = Tail(queue)
  /\ got' = [got EXCEPT ![p] = Head(queue)]
  /\ handed' = handed \cup {Head(queue)}
  /\ pickPc' = [pickPc EXCEPT ![p] = "done"]
  /\ UNCHANGED <<stopped, stopping, queueEvent, schedVars>>

PickEmpty(p) ==
  /\ pickPc[p] = "lock"
  /\ ~stopped
  /\ queue = <<>>
  /\ pickPc' = [pickPc EXCEPT ![p] = "select"]
  /\ UNCHANGED <<stopped, stopping, queue, queueEvent, schedVars, pickVars>>

(* The select: a buffered token is taken at once, else the goroutine parks. *)
PickToken(p) ==
  /\ pickPc[p] = "select"
  /\ queueEvent
  /\ queueEvent' = FALSE
  /\ pickPc' = [pickPc EXCEPT ![p] = "lock"]
  /\ UNCHANGED <<stopped, stopping, queue, schedVars, pickVars>>

PickPark(p) ==
  /\ pickPc[p] = "select"
  /\ ~queueEvent
  /\ pickPc' = [pickPc EXCEPT ![p] = "parked"]
  /\ UNCHANGED <<stopped, stopping, queue, queueEvent, schedVars, pickVars>>

(* ctx.Done(): the context may expire at any moment of the select. *)
PickCancelled(p) ==
  /\ pickPc[p] \in {"select", "parked"}
  /\ pickPc' = [pickPc EXCEPT ![p] = "done"]
  /\ UNCHANGED <<stopped, stopping, queue, queueEvent, schedVars, pickVars>>

(* The caller receives the pointer. *)
PickReturn(p) ==
  /\ pickPc[p] = "done"
  /\ pickPc' = [pickPc EXCEPT ![p] = "idle"]
  /\ got' = [got EXCEPT ![p] = Nil]
  /\ UNCHANGED <<stopped, stopping, queue, queueEvent, schedVars, handed>>

PickStep(p) ==
  PickStopped(p) \/ PickHead(p) \/ PickEmpty(p) \/ PickToken(p) \/ PickPark(p)

-----------------------------------------------------------------------------
(* Stop sets the flag under mu and sends on queueEvent after releasing it. *)
Stop ==
  /\ ~stopping
  /\ stopped' = TRUE
  /\ stopping' = TRUE
  /\ UNCHANGED <<queue, queueEvent, pickPc, schedVars, pickVars>>

StopNotify ==
  /\ stopping
  /\ stopping' = FALSE
  /\ Notify
  /\ UNCHANGED <<stopped, queue, schedVars, pickVars>>

-----------------------------------------------------------------------------
Next ==
  \/ \E job \in JobSpecs : ScheduleJob(job)
  \/ \E w \in Workers, id \in JobIDs, res \in Results \cup {NoResult} :
       OnJobComplete(w, id, res)
  \/ \E p \in Pickers : PickCall(p) \/ PickStep(p) \/ PickCancelled(p) \/ PickReturn(p)
  \/ Stop
  \/ StopNotify

Spec == Init /\ [][Next]_vars

-----------------------------------------------------------------------------
TypeOK ==
  /\ stopped \in BOOLEAN
  /\ stopping \in BOOLEAN
  /\ queue \in Seq(Pointers)
  /\ pending \in [JobIDs -> Pointers \cup {Nil}]
  /\ completed \in [JobIDs -> Results \cup {NoResult}]
  /\ artifacts \in [JobIDs -> SUBSET Workers]
  /\ queueEvent \in BOOLEAN
  /\ allocated \in Seq([job : JobSpecs, result : Results \cup {NoResult},
                        closes : Nat])
  /\ pickPc \in [Pickers -> PickPcs]
  /\ got \in [Pickers -> Pointers \cup {Nil}]
  /\ handed \subseteq Pointers

Open(h) == allocated[h].closes = 0
InQueue(h) == \E i \in DOMAIN queue : queue[i] = h

(* Finished of a PendingJob is closed at most once (closing it again would  *)
(* panic the coordinator), and exactly when its Result has been set: the    *)
(* waiting build never wakes to a nil Result.                               *)
CloseOnce ==
  \A h \in Pointers :
    /\ allocated[h].closes <= 1
    /\ Open(h) <=> allocated[h].result = NoResult

(* Once the scheduler knows a result for a job, nobody is left waiting for  *)
(* that job: every PendingJob ever returned for it has been resolved,       *)
(* including those scheduled before an unsolicited report arrived.          *)
NobodyWaitsForAKnownResult ==
  \A h \in Pointers : completed[JobOf(h)] # NoResult => ~Open(h)

(* All builds that wait for one job share one PendingJob, the one found in  *)
(* the pending map, so that a single report wakes all of them.              *)
WaitersShareOnePendingJob ==
  \A h \in Pointers : Open(h) => pending[JobOf(h)] = h

(* Every build that waits for a job is woken once, by the first result that *)
(* becomes known, whoever asked for the job and whoever reports it.         *)
WaitersAreAnswered ==
  CloseOnce /\ NobodyWaitsForAKnownResult /\ WaitersShareOnePendingJob

(* An unresolved job has not been lost by the scheduler: it is still queued *)
(* or PickJob has handed it out, never both.                                *)
NoJobIsLost ==
  \A h \in Pointers :
    /\ Open(h) => InQueue(h) \/ h \in handed
    /\ ~(InQueue(h) /\ h \in handed)

(* PickJob is first in, first out: whatever it has handed out was scheduled *)
(* before everything still queued, and the queue is in scheduling order.    *)
FirstInFirstOut ==
  /\ \A i, j \in DOMAIN queue : i < j => queue[i] < queue[j]
  /\ \A h \in handed, i \in DOMAIN queue : h < queue[i]

(* A job is queued, and so handed to a worker, at most once in the          *)
(* scheduler's life, however often builds ask for it and reports come in.   *)
JobIsHandedOnce ==
  \A g, h \in Pointers :
    /\ g \in handed \/ InQueue(g)
    /\ h \in handed \/ InQueue(h)
    /\ JobOf(g) = JobOf(h)
    => g = h

(* Two calls of PickJob never return the same PendingJob. *)
PickersGetDifferentJobs ==
  \A p, q \in Pickers : p # q /\ got[p] # Nil => got[p] # got[q]

(* From ScheduleJob to PickJob a job is neither lost nor doubled: it is      *)
(* handed to one caller, once, in the order of scheduling.                   *)
JobsAreHandedOutInOrder ==
  NoJobIsLost /\ FirstInFirstOut /\ JobIsHandedOnce /\ PickersGetDifferentJobs

(* A result a build may be reading after Finished was closed never changes, *)
(* though completed may be overwritten by a later report.                   *)
DeliveredResultIsStable ==
  [][\A h \in Pointers : ~Open(h) => allocated'[h] = allocated[h]]_vars

(* What holds of every reachable state and makes the invariants above       *)
(* inductive: the pending map points at the one open object of its job, a   *)
(* closed object belongs to a job with a known result, and a pointer being  *)
(* returned has left the queue.                                             *)
PendingIsOpen ==
  \A id \in JobIDs : pending[id] # Nil =>
    /\ JobOf(pending[id]) = id
    /\ Open(pending[id])
    /\ completed[id] = NoResult

ClosedIsKnown ==
  \A h \in Pointers : ~Open(h) => completed[JobOf(h)] # NoResult

GotWasHanded == \A p \in Pickers : got[p] # Nil => got[p] \in handed

IInv ==
  /\ TypeOK
  /\ CloseOnce
  /\ WaitersShareOnePendingJob
  /\ PendingIsOpen
  /\ ClosedIsKnown
  /\ NoJobIsLost
  /\ FirstInFirstOut
  /\ JobIsHandedOnce
  /\ GotWasHanded
  /\ PickersGetDifferentJobs

-----------------------------------------------------------------------------
(* The scheduler implements JobBoard: builds and workers can rely on the    *)
(* promises of the board and forget the pointers and the channel.           *)
Board == INSTANCE JobBoard WITH
  line <- [i \in DOMAIN queue |-> JobOf(queue[i])],
  taken <- {JobOf(h) : h \in handed},
  wanted <- {id \in JobIDs : pending[id] # Nil},
  known <- completed

ImplementsBoard == Board!Spec
=============================================================================
