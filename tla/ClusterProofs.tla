--------------------------- MODULE ClusterProofs ---------------------------
(* Proofs about Cluster, for any jobs, dependencies, workers, builds, plans, *)
(* slots and channels, and any sequence of losses, crashes, restarts and     *)
(* broken transfers.                                                        *)
EXTENDS Cluster, FiniteSetTheorems, TLAPS

-----------------------------------------------------------------------------
(* The scheduler inside the cluster is the one of SchedulerProofs: what is   *)
(* proved there holds here.                                                 *)
S == INSTANCE SchedulerProofs WITH Pickers <- Workers

(* The assumptions of Scheduler hold of the parameters it is given here.     *)
LEMMA SchedAssumptions ==
  S!SpecsAssumption /\ S!NoResultAssumption /\ S!MaxAllocatedAssumption
<1>1. \A job \in JobSpecs : job.id \in JobIDs
  BY DEF JobSpecs
<1>2. NoResult \notin Results
  BY DEF NoResult, Results
<1> QED
  BY <1>1, <1>2, MaxAllocatedAssumption
  DEF S!SpecsAssumption, S!NoResultAssumption, S!MaxAllocatedAssumption

(* The two names for the invariant of the scheduler. *)
LEMMA SameInv == Sched!IInv <=> S!IInv
BY DEF S!IInv, S!TypeOK, S!CloseOnce, S!WaitersShareOnePendingJob, S!PendingIsOpen,
   S!ClosedIsKnown, S!NoJobIsLost, S!FirstInFirstOut, S!JobIsHandedOnce, S!GotWasHanded,
   S!PickersGetDifferentJobs, S!Pointers, S!Open, S!InQueue, S!JobOf, S!PickPcs, S!Nil,
   Sched!IInv, Sched!TypeOK, Sched!CloseOnce, Sched!WaitersShareOnePendingJob,
   Sched!PendingIsOpen, Sched!ClosedIsKnown, Sched!NoJobIsLost, Sched!FirstInFirstOut,
   Sched!JobIsHandedOnce, Sched!GotWasHanded, Sched!PickersGetDifferentJobs,
   Sched!Pointers, Sched!Open, Sched!InQueue, Sched!JobOf, Sched!PickPcs, Sched!Nil


(* The invariant of the scheduler holds initially, and every step it takes   *)
(* here keeps it.                                                            *)
LEMMA SchedInit == Sched!Init => Sched!IInv
<1>1. Sched!Init => S!Init
  BY DEF S!Init, Sched!Init, S!Nil, Sched!Nil
<1> QED
  BY <1>1, S!InitIInv, SameInv, SchedAssumptions
  DEF S!SpecsAssumption, S!NoResultAssumption, S!MaxAllocatedAssumption

LEMMA SchedKeeps ==
  ASSUME Sched!IInv, [S!Next]_(S!vars)
  PROVE  Sched!IInv'
<1>1. S!IInv
  BY SameInv
<1>2. S!IInv'
  BY <1>1, S!IInvStep, SchedAssumptions
  DEF S!SpecsAssumption, S!NoResultAssumption, S!MaxAllocatedAssumption
<1>3. S!IInv' => Sched!IInv'
  BY SameInv, PTL
<1> QED
  BY <1>2, <1>3

(* The operations of the scheduler that the cluster calls are steps of it. *)
LEMMA ScheduleIsAStep ==
  ASSUME NEW job \in JobSpecs, Sched!ScheduleJob(job)
  PROVE  [S!Next]_(S!vars)
<1>1. S!ScheduleJob(job)
  BY DEF Sched!ScheduleJob, Sched!ScheduleCompleted, Sched!SchedulePending,
     Sched!ScheduleNew, Sched!Enqueue, Sched!Allocate, Sched!Object, Sched!Notify,
     Sched!Parked, Sched!Nil, Sched!vars, Sched!pickVars, S!ScheduleJob,
     S!ScheduleCompleted, S!SchedulePending, S!ScheduleNew, S!Enqueue, S!Allocate,
     S!Object, S!Notify, S!Parked, S!Nil, S!vars, S!pickVars
<1> QED
  BY <1>1 DEF S!Next

LEMMA CompleteIsAStep ==
  ASSUME NEW w \in Workers, NEW id \in JobIDs, NEW res \in Results \cup {NoResult},
         Sched!OnJobComplete(w, id, res)
  PROVE  [S!Next]_(S!vars)
<1>1. S!OnJobComplete(w, id, res)
  BY DEF Sched!OnJobComplete, Sched!RecordHolder, Sched!CompleteUnknown,
     Sched!CompleteWithoutResult, Sched!CompletePending, Sched!Object, Sched!Nil,
     Sched!pickVars, S!OnJobComplete, S!RecordHolder, S!CompleteUnknown,
     S!CompleteWithoutResult, S!CompletePending, S!Object, S!Nil, S!pickVars
<1> QED
  BY <1>1 DEF S!Next

LEMMA PickIsAStep ==
  ASSUME NEW w \in Workers,
         Sched!PickCall(w) \/ Sched!PickStep(w) \/ Sched!PickCancelled(w)
         \/ Sched!PickReturn(w)
  PROVE  [S!Next]_(S!vars)
<1>1. S!PickCall(w) \/ S!PickStep(w) \/ S!PickCancelled(w) \/ S!PickReturn(w)
  BY DEF Sched!PickCall, Sched!PickStep, Sched!PickCancelled, Sched!PickReturn,
     Sched!PickStopped, Sched!PickHead, Sched!PickEmpty, Sched!PickToken, Sched!PickPark,
     Sched!schedVars, Sched!pickVars, Sched!Nil, S!PickCall, S!PickStep, S!PickCancelled,
     S!PickReturn, S!PickStopped, S!PickHead, S!PickEmpty, S!PickToken, S!PickPark,
     S!schedVars, S!pickVars, S!Nil
<1> QED
  BY <1>1 DEF S!Next

(* A coordinator that restarts has the scheduler it began with. *)
LEMMA RestartIsInit ==
  ASSUME RestartCoordinator
  PROVE  Sched!IInv'
<1>1. Sched!Init'
  BY DEF RestartCoordinator, Sched!Init, Sched!Nil, Nil
<1>2. Sched!Init' => Sched!IInv'
  BY SchedInit, PTL
<1> QED
  BY <1>1, <1>2

-----------------------------------------------------------------------------
(* The job a build is at, and the jobs named by specs, are jobs. *)
LEMMA PlanFacts ==
  ASSUME NEW b \in Builds
  PROVE  /\ Plan[b] \in Seq(JobIDs) /\ Len(Plan[b]) \in Nat
         /\ \A i \in 1..Len(Plan[b]) : Plan[b][i] \in JobIDs
BY PlanAssumption

LEMMA SpecFacts ==
  ASSUME NEW id \in JobIDs, NEW where \in Locations(Deps[id])
  PROVE  /\ [id |-> id, artifacts |-> where] \in JobSpecs
         /\ DOMAIN where = Deps[id]
BY DEF Locations, JobSpecs

(* What the steps of everyone but the builds and the handlers leave alone. *)
LEMMA OthersLeave ==
  ASSUME NEW w \in Workers,
         \/ \E id \in JobIDs : Job(w, id)
         \/ LoseRequest(w) \/ LoseResponse(w) \/ RestartWorker(w)
  PROVE  UNCHANGED <<schedVars, buildVars>>
<1>1. ASSUME NEW id \in JobIDs, JobEnds(w, id)
      PROVE  UNCHANGED <<schedVars, buildVars>>
  BY <1>1 DEF JobEnds, JobCached, JobDownload, JobTransferFails, JobCommit, JobFail, JobDone
<1>2. ASSUME NEW id \in JobIDs,
             JobCreate(w, id) \/ JobReport(w, id) \/ JobAnnounce(w, id) \/ JobExit(w, id)
      PROVE  UNCHANGED <<schedVars, buildVars>>
  BY <1>2 DEF JobCreate, JobReport, JobAnnounce, JobExit
<1>3. CASE LoseRequest(w) \/ LoseResponse(w) \/ RestartWorker(w)
  BY <1>3 DEF LoseRequest, LoseResponse, DropHeartbeat, RestartWorker
<1> QED
  BY <1>1, <1>2, <1>3 DEF Job

(* Every step but the restart of the coordinator is a step of the scheduler. *)
LEMMA SchedStep ==
  ASSUME TypeOK, Sched!IInv, [Next]_vars
  PROVE  Sched!IInv'
<1>1. ASSUME NEW b \in Builds, Build(b) \/ BuildCancel(b)
      PROVE  Sched!IInv'
  <2>1. CASE BuildSchedule(b)
    <3>1. CurrentJob(b) \in JobIDs
      BY <2>1, PlanFacts DEF BuildSchedule, HasJob, CurrentJob, TypeOK
    <3> QED
      BY <2>1, <3>1, SpecFacts, ScheduleIsAStep, SchedKeeps DEF BuildSchedule
  <2>2. CASE BuildRefused(b) \/ BuildWake(b) \/ BuildFinish(b) \/ BuildCancel(b)
    <3>1. UNCHANGED S!vars
      BY <2>2 DEF BuildRefused, BuildWake, BuildFinish, BuildCancel, schedVars, S!vars
    <3> QED
      BY <3>1, SchedKeeps
  <2> QED
    BY <1>1, <2>1, <2>2 DEF Build
<1>2. ASSUME NEW w \in Workers, Run(w)
      PROVE  Sched!IInv'
  <2>1. CASE HandleFinished(w)
    <3>1. Head(request[w].finished) \in JobResults
      BY <2>1 DEF HandleFinished, TypeOK, Requests
    <3> QED
      BY <2>1, <3>1, CompleteIsAStep, SchedKeeps DEF HandleFinished, JobResults
  <2>2. CASE HandleAdded(w)
    <3>1. Head(request[w].added) \in JobIDs
      BY <2>2 DEF HandleAdded, TypeOK, Requests
    <3> QED
      BY <2>2, <3>1, CompleteIsAStep, SchedKeeps DEF HandleAdded
  <2>3. CASE HandlerPicks(w) \/ HandlerInPick(w) \/ HandlerPicked(w)
    BY <2>3, PickIsAStep, SchedKeeps DEF HandlerPicks, HandlerInPick, HandlerPicked
  <2>4. CASE CollectFinished(w) \/ CollectAdded(w) \/ SendHeartbeat(w) \/ Deliver(w)
             \/ StartJob(w) \/ NextHeartbeat(w)
    <3>1. UNCHANGED S!vars
      BY <2>4 DEF CollectFinished, CollectAdded, SendHeartbeat, Deliver, StartJob,
         NextHeartbeat, schedVars, S!vars
    <3> QED
      BY <3>1, SchedKeeps
  <2> QED
    BY <1>2, <2>1, <2>2, <2>3, <2>4 DEF Run
<1>3. CASE \/ \E w \in Workers, id \in JobIDs : Job(w, id)
           \/ \E w \in Workers : LoseRequest(w) \/ LoseResponse(w) \/ RestartWorker(w)
           \/ UNCHANGED vars
  <2>1. UNCHANGED vars => UNCHANGED schedVars
    BY DEF vars
  <2>2. UNCHANGED S!vars
    BY <1>3, <2>1, OthersLeave DEF schedVars, S!vars
  <2> QED
    BY <2>2, SchedKeeps
<1> QED
  BY <1>1, <1>2, <1>3, RestartIsInit DEF Next

-----------------------------------------------------------------------------
(* Room.  A worker counts its free slots and then asks for that many jobs;   *)
(* until they are started, the slots counted on and the jobs that hold one   *)
(* never exceed maxSlots.  What waits in a channel, and the jobs that may    *)
(* still add to it, come to at most twice maxSlots: those counted before the *)
(* last collection and those started after it.                              *)
Held(w) == {id \in JobIDs : jobPc[w][id] # "none"}
Busy(w) == {id \in JobIDs : jobPc[w][id] \in {"create", "deps", "report"}}
Unannounced(w) == {id \in JobIDs : jobPc[w][id] \in {"create", "deps", "report", "announce"}}

\* r jobs running, busy of them not reported, una not announced; n jobs in the
\* response and f slots still to be filled; fin and add updates in the channels.
Fits(pc, r, busy, una, n, f, fin, add) ==
  /\ r + n + f <= MaxSlots
  /\ pc \in {"collect", "collectAdded", "state"} => n = 0 /\ f = 0
  /\ pc = "picking" => f > 0
  /\ fin + busy + n + f <= MaxSlots + MaxSlots
  /\ add + una + n + f <= MaxSlots + MaxSlots
  /\ pc \in {"collectAdded", "state"} => fin + busy <= MaxSlots
  /\ pc = "state" => add + una <= MaxSlots

RoomAt(w) ==
  /\ running[w] = Held(w)
  /\ IsFiniteSet(running[w]) /\ IsFiniteSet(jobsToRun[w])
  /\ Fits(workerPc[w], Cardinality(running[w]), Cardinality(Busy(w)),
          Cardinality(Unannounced(w)), Cardinality(jobsToRun[w]), request[w].free,
          Len(finishedCh[w]), Len(addedCh[w]))
RoomOK == \A w \in Workers : RoomAt(w)

(* The jobs counted are finitely many, and busy ones hold a slot. *)
LEMMA CountFacts ==
  ASSUME TypeOK, NEW w \in Workers, RoomAt(w)
  PROVE  /\ IsFiniteSet(Busy(w)) /\ IsFiniteSet(Unannounced(w))
         /\ Cardinality(running[w]) \in Nat /\ Cardinality(jobsToRun[w]) \in Nat
         /\ Cardinality(Busy(w)) \in Nat /\ Cardinality(Unannounced(w)) \in Nat
         /\ Cardinality(Busy(w)) <= Cardinality(running[w])
         /\ Cardinality(Unannounced(w)) <= Cardinality(running[w])
         /\ Len(finishedCh[w]) \in Nat /\ Len(addedCh[w]) \in Nat
         /\ request[w].free \in Nat
<1>1. Busy(w) \subseteq running[w] /\ Unannounced(w) \subseteq running[w]
  BY DEF RoomAt, Held, Busy, Unannounced
<1>2. IsFiniteSet(running[w]) /\ IsFiniteSet(jobsToRun[w])
  BY DEF RoomAt
<1>3. /\ IsFiniteSet(Busy(w)) /\ Cardinality(Busy(w)) <= Cardinality(running[w])
      /\ IsFiniteSet(Unannounced(w))
      /\ Cardinality(Unannounced(w)) <= Cardinality(running[w])
  BY <1>1, <1>2, FS_Subset
<1>4. request[w].free \in Nat /\ Len(finishedCh[w]) \in Nat /\ Len(addedCh[w]) \in Nat
  BY SlotsAssumption DEF TypeOK, Requests
<1> QED
  BY <1>2, <1>3, <1>4, FS_CardinalityType

(* The room of a worker that a step does not concern. *)
Desk(w) == <<running[w], jobPc[w], jobsToRun[w], request[w].free, workerPc[w],
             finishedCh[w], addedCh[w]>>

LEMMA RoomElsewhere ==
  ASSUME NEW w \in Workers, RoomAt(w), UNCHANGED Desk(w)
  PROVE  RoomAt(w)'
BY DEF RoomAt, Held, Busy, Unannounced, Desk

(* Adding a member to a finite set, and taking one away. *)
LEMMA OneMore ==
  ASSUME NEW T, IsFiniteSet(T), NEW x, x \notin T
  PROVE  IsFiniteSet(T \cup {x}) /\ Cardinality(T \cup {x}) = Cardinality(T) + 1
BY FS_AddElement

LEMMA OneLess ==
  ASSUME NEW T, IsFiniteSet(T), NEW x \in T
  PROVE  IsFiniteSet(T \ {x}) /\ Cardinality(T \ {x}) = Cardinality(T) - 1
BY FS_RemoveElement

(* The types of the desks. *)
LEMMA DeskFacts ==
  ASSUME TypeOK
  PROVE  /\ DOMAIN workerPc = Workers /\ DOMAIN request = Workers
         /\ DOMAIN jobsToRun = Workers /\ DOMAIN finishedCh = Workers
         /\ DOMAIN addedCh = Workers
         /\ \A w \in Workers : DOMAIN request[w] = {"finished", "added", "free"}
BY DEF TypeOK, Requests

(* The heartbeat loop: what it collects leaves the channels, and what it     *)
(* asks for is what is free.                                                *)
LEMMA RoomInLoop ==
  ASSUME TypeOK, NEW w \in Workers, RoomAt(w),
         \/ CollectFinished(w) \/ CollectAdded(w) \/ SendHeartbeat(w)
         \/ HandlerPicks(w) \/ Deliver(w) \/ NextHeartbeat(w)
         \/ LoseRequest(w) \/ LoseResponse(w)
  PROVE  RoomAt(w)'
<1> DEFINE r == Cardinality(running[w])
           n == Cardinality(jobsToRun[w])
           busy == Cardinality(Busy(w))
           una == Cardinality(Unannounced(w))
           free == request[w].free
           fin == Len(finishedCh[w])
           add == Len(addedCh[w])
<1>1. Cardinality({}) = 0 /\ IsFiniteSet({}) /\ Len(<<>>) = 0 /\ MaxSlots \in Nat
  BY FS_EmptySet, SlotsAssumption
<1>2. /\ r \in Nat /\ n \in Nat /\ busy \in Nat /\ una \in Nat /\ busy <= r /\ una <= r
      /\ fin \in Nat /\ add \in Nat /\ free \in Nat
  BY CountFacts
<1>3. /\ running'[w] = running[w]
      /\ Held(w)' = Held(w) /\ Busy(w)' = Busy(w) /\ Unannounced(w)' = Unannounced(w)
  BY DEF CollectFinished, CollectAdded, SendHeartbeat, HandlerPicks, Deliver,
     NextHeartbeat, LoseRequest, LoseResponse, DropHeartbeat, jobVars, Held, Busy, Unannounced
<1>4. /\ running[w] = Held(w) /\ IsFiniteSet(running[w]) /\ IsFiniteSet(jobsToRun[w])
      /\ Fits(workerPc[w], r, busy, una, n, free, fin, add)
  BY DEF RoomAt
<1>5. CASE CollectFinished(w)
  <2>1. /\ workerPc[w] = "collect" /\ workerPc'[w] = "collectAdded"
        /\ request'[w].free = free /\ jobsToRun'[w] = jobsToRun[w]
        /\ finishedCh'[w] = <<>> /\ addedCh'[w] = addedCh[w]
    BY <1>5, <1>1, DeskFacts DEF CollectFinished
  <2> HIDE DEF r, n, busy, una, free, fin, add
  <2>2. Fits("collectAdded", r, busy, una, n, free, 0, add)
    BY <1>1, <1>2, <1>4, <2>1 DEF Fits
  <2> USE DEF r, n, busy, una, free, fin, add
  <2> QED
    BY <1>1, <1>3, <1>4, <2>1, <2>2 DEF RoomAt
<1>6. CASE CollectAdded(w)
  <2>1. /\ workerPc[w] = "collectAdded" /\ workerPc'[w] = "state"
        /\ request'[w].free = free /\ jobsToRun'[w] = jobsToRun[w]
        /\ finishedCh'[w] = finishedCh[w] /\ addedCh'[w] = <<>>
    BY <1>6, <1>1, DeskFacts DEF CollectAdded
  <2> HIDE DEF r, n, busy, una, free, fin, add
  <2>2. Fits("state", r, busy, una, n, free, fin, 0)
    BY <1>1, <1>2, <1>4, <2>1 DEF Fits
  <2> USE DEF r, n, busy, una, free, fin, add
  <2> QED
    BY <1>1, <1>3, <1>4, <2>1, <2>2 DEF RoomAt
<1>7. CASE SendHeartbeat(w)
  <2>1. /\ workerPc[w] = "state" /\ workerPc'[w] = "sent"
        /\ request'[w].free = MaxSlots - r /\ jobsToRun'[w] = jobsToRun[w]
        /\ finishedCh'[w] = finishedCh[w] /\ addedCh'[w] = addedCh[w]
    BY <1>7, <1>1, DeskFacts DEF SendHeartbeat, chanVars
  <2> HIDE DEF r, n, busy, una, free, fin, add
  <2>2. Fits("sent", r, busy, una, n, MaxSlots - r, fin, add)
    BY <1>1, <1>2, <1>4, <2>1 DEF Fits
  <2> USE DEF r, n, busy, una, free, fin, add
  <2> QED
    BY <1>1, <1>3, <1>4, <2>1, <2>2 DEF RoomAt
<1>8. CASE HandlerPicks(w)
  <2>1. /\ workerPc'[w] = "picking" /\ free > 0
        /\ request'[w].free = free /\ jobsToRun'[w] = jobsToRun[w]
        /\ finishedCh'[w] = finishedCh[w] /\ addedCh'[w] = addedCh[w]
    BY <1>8, <1>1, DeskFacts DEF HandlerPicks, chanVars
  <2> HIDE DEF r, n, busy, una, free, fin, add
  <2>2. Fits("picking", r, busy, una, n, free, fin, add)
    BY <1>1, <1>2, <1>4, <2>1 DEF Fits
  <2> USE DEF r, n, busy, una, free, fin, add
  <2> QED
    BY <1>1, <1>3, <1>4, <2>1, <2>2 DEF RoomAt
<1>9. CASE Deliver(w)
  <2>1. /\ workerPc'[w] = "start"
        /\ request'[w].free = free /\ jobsToRun'[w] = jobsToRun[w]
        /\ finishedCh'[w] = finishedCh[w] /\ addedCh'[w] = addedCh[w]
    BY <1>9, <1>1, DeskFacts DEF Deliver, chanVars
  <2> HIDE DEF r, n, busy, una, free, fin, add
  <2>2. Fits("start", r, busy, una, n, free, fin, add)
    BY <1>1, <1>2, <1>4, <2>1 DEF Fits
  <2> USE DEF r, n, busy, una, free, fin, add
  <2> QED
    BY <1>1, <1>3, <1>4, <2>1, <2>2 DEF RoomAt
<1>10. CASE NextHeartbeat(w)
  <2>1. /\ workerPc'[w] = "collect" /\ n = 0
        /\ request'[w].free = 0 /\ jobsToRun'[w] = jobsToRun[w]
        /\ finishedCh'[w] = finishedCh[w] /\ addedCh'[w] = addedCh[w]
    BY <1>10, <1>1, DeskFacts DEF NextHeartbeat, NoRequest, chanVars
  <2> HIDE DEF r, n, busy, una, free, fin, add
  <2>2. Fits("collect", r, busy, una, n, 0, fin, add)
    BY <1>1, <1>2, <1>4, <2>1 DEF Fits
  <2> USE DEF r, n, busy, una, free, fin, add
  <2> QED
    BY <1>1, <1>3, <1>4, <2>1, <2>2 DEF RoomAt
<1>11. CASE LoseRequest(w) \/ LoseResponse(w)
  <2>1. /\ workerPc'[w] = "collect"
        /\ request'[w].free = 0 /\ jobsToRun'[w] = {}
        /\ finishedCh'[w] = finishedCh[w] /\ addedCh'[w] = addedCh[w]
    BY <1>11, <1>1, DeskFacts DEF LoseRequest, LoseResponse, DropHeartbeat, NoRequest, chanVars
  <2> HIDE DEF r, n, busy, una, free, fin, add
  <2>2. Fits("collect", r, busy, una, 0, 0, fin, add)
    BY <1>1, <1>2, <1>4, <2>1 DEF Fits
  <2> USE DEF r, n, busy, una, free, fin, add
  <2> QED
    BY <1>1, <1>3, <1>4, <2>1, <2>2 DEF RoomAt
<1> QED
  BY <1>5, <1>6, <1>7, <1>8, <1>9, <1>10, <1>11

(* A job that PickJob returns takes the free slot it was asked for; a nil    *)
(* return gives the rest of them up.                                        *)
LEMMA RoomWhenPicked ==
  ASSUME TypeOK, NEW w \in Workers, RoomAt(w), HandlerPicked(w)
  PROVE  RoomAt(w)'
<1> DEFINE r == Cardinality(running[w])
           n == Cardinality(jobsToRun[w])
           busy == Cardinality(Busy(w))
           una == Cardinality(Unannounced(w))
           free == request[w].free
           fin == Len(finishedCh[w])
           add == Len(addedCh[w])
           m == Cardinality(jobsToRun'[w])
           rest == request'[w].free
<1>1. MaxSlots \in Nat
  BY SlotsAssumption
<1>2. /\ r \in Nat /\ n \in Nat /\ busy \in Nat /\ una \in Nat
      /\ fin \in Nat /\ add \in Nat /\ free \in Nat
  BY CountFacts
<1>3. /\ running'[w] = running[w]
      /\ Held(w)' = Held(w) /\ Busy(w)' = Busy(w) /\ Unannounced(w)' = Unannounced(w)
      /\ finishedCh'[w] = finishedCh[w] /\ addedCh'[w] = addedCh[w]
      /\ workerPc[w] = "picking" /\ workerPc'[w] = "sent"
  BY DeskFacts DEF HandlerPicked, jobVars, chanVars, Held, Busy, Unannounced
<1>4. /\ running[w] = Held(w) /\ IsFiniteSet(running[w]) /\ IsFiniteSet(jobsToRun[w])
      /\ Fits("picking", r, busy, una, n, free, fin, add)
  BY <1>3 DEF RoomAt
<1>5. free > 0
  BY <1>4 DEF Fits
<1>6. IsFiniteSet(jobsToRun'[w]) /\ m \in Nat /\ rest \in Nat /\ m + rest <= n + free
  <2>1. CASE got[w] = Nil
    <3>1. rest = 0 /\ jobsToRun'[w] = jobsToRun[w]
      BY <2>1, DeskFacts DEF HandlerPicked
    <3> QED
      BY <3>1, <1>2, <1>4
  <2>2. CASE got[w] # Nil
    <3> DEFINE job == allocated[got[w]].job
    <3>1. rest = free - 1 /\ jobsToRun'[w] = jobsToRun[w] \cup {job}
      BY <2>2, DeskFacts DEF HandlerPicked
    <3> HIDE DEF job
    <3>2. /\ IsFiniteSet(jobsToRun[w] \cup {job})
          /\ Cardinality(jobsToRun[w] \cup {job}) = n
             \/ Cardinality(jobsToRun[w] \cup {job}) = n + 1
      BY <1>4, FS_AddElement
    <3> QED
      BY <3>1, <3>2, <1>2, <1>5, SMTT(30)
  <2> QED
    BY <2>1, <2>2
<1> HIDE DEF r, n, busy, una, free, fin, add, m, rest
<1>7. Fits("sent", r, busy, una, m, rest, fin, add)
  BY <1>1, <1>2, <1>4, <1>6 DEF Fits
<1> USE DEF r, n, busy, una, free, fin, add, m, rest
<1> QED
  BY <1>3, <1>4, <1>6, <1>7 DEF RoomAt

(* A job that is started takes its place in the response along: the number   *)
(* of slots in use and spoken for stays the same.                           *)
LEMMA RoomForStart ==
  ASSUME TypeOK, NEW w \in Workers, RoomAt(w), StartJob(w)
  PROVE  RoomAt(w)'
<1> DEFINE r == Cardinality(running[w])
           n == Cardinality(jobsToRun[w])
           busy == Cardinality(Busy(w))
           una == Cardinality(Unannounced(w))
           free == request[w].free
           fin == Len(finishedCh[w])
           add == Len(addedCh[w])
<1>1. MaxSlots \in Nat
  BY SlotsAssumption
<1>2. /\ r \in Nat /\ n \in Nat /\ busy \in Nat /\ una \in Nat
      /\ fin \in Nat /\ add \in Nat /\ free \in Nat
  BY CountFacts
<1>3. /\ running[w] = Held(w) /\ IsFiniteSet(running[w]) /\ IsFiniteSet(jobsToRun[w])
      /\ IsFiniteSet(Busy(w)) /\ IsFiniteSet(Unannounced(w))
      /\ Fits(workerPc[w], r, busy, una, n, free, fin, add)
  BY CountFacts DEF RoomAt
<1>4. PICK spec \in jobsToRun[w] :
        /\ jobsToRun' = [jobsToRun EXCEPT ![w] = @ \ {spec}]
        /\ IF HasRoomFor(w, spec.id)
           THEN /\ running' = [running EXCEPT ![w] = @ \cup {spec.id}]
                /\ jobPc' = [jobPc EXCEPT ![w][spec.id] = "create"]
           ELSE UNCHANGED jobVars
  BY DEF StartJob
<1>5. /\ workerPc'[w] = workerPc[w] /\ request'[w] = request[w]
      /\ finishedCh'[w] = finishedCh[w] /\ addedCh'[w] = addedCh[w]
      /\ workerPc[w] = "start"
  BY DEF StartJob, chanVars
<1>6. /\ jobsToRun'[w] = jobsToRun[w] \ {spec}
      /\ IsFiniteSet(jobsToRun'[w]) /\ Cardinality(jobsToRun'[w]) = n - 1
  BY <1>3, <1>4, DeskFacts, OneLess
<1>7. spec.id \in JobIDs
  BY DEF TypeOK, JobSpecs
<1>8. CASE ~HasRoomFor(w, spec.id)
  <2>1. /\ running'[w] = running[w] /\ Held(w)' = Held(w)
        /\ Busy(w)' = Busy(w) /\ Unannounced(w)' = Unannounced(w)
    BY <1>4, <1>8 DEF jobVars, Held, Busy, Unannounced
  <2> HIDE DEF r, n, busy, una, free, fin, add
  <2>2. Fits(workerPc[w], r, busy, una, n - 1, free, fin, add)
    BY <1>1, <1>2, <1>3, <1>5 DEF Fits
  <2> USE DEF r, n, busy, una, free, fin, add
  <2> QED
    BY <1>3, <1>5, <1>6, <2>1, <2>2 DEF RoomAt
<1>9. CASE HasRoomFor(w, spec.id)
  <2>1. /\ running'[w] = running[w] \cup {spec.id}
        /\ jobPc'[w] = [jobPc[w] EXCEPT ![spec.id] = "create"]
    BY <1>4, <1>9 DEF TypeOK
  <2>2. spec.id \notin running[w] /\ jobPc[w][spec.id] = "none"
    BY <1>3, <1>7, <1>9 DEF HasRoomFor, Held
  <2>3. /\ Held(w)' = Held(w) \cup {spec.id} /\ Busy(w)' = Busy(w) \cup {spec.id}
        /\ Unannounced(w)' = Unannounced(w) \cup {spec.id}
        /\ spec.id \notin Busy(w) /\ spec.id \notin Unannounced(w)
    BY <1>7, <2>1, <2>2 DEF TypeOK, Held, Busy, Unannounced
  <2>4. /\ Cardinality(running'[w]) = r + 1 /\ IsFiniteSet(running'[w])
        /\ Cardinality(Busy(w)') = busy + 1 /\ Cardinality(Unannounced(w)') = una + 1
    BY <1>3, <2>1, <2>2, <2>3, OneMore, SMTT(30)
  <2> HIDE DEF r, n, busy, una, free, fin, add
  <2>5. Fits(workerPc[w], r + 1, busy + 1, una + 1, n - 1, free, fin, add)
    BY <1>1, <1>2, <1>3, <1>5 DEF Fits
  <2> USE DEF r, n, busy, una, free, fin, add
  <2> QED
    BY <1>3, <1>5, <1>6, <2>1, <2>3, <2>4, <2>5 DEF RoomAt
<1> QED
  BY <1>8, <1>9

(* What a step of a job leaves alone at its worker, and what it does to its  *)
(* program counter.                                                         *)
LEMMA JobFrame ==
  ASSUME TypeOK, NEW w \in Workers, NEW id \in JobIDs, Job(w, id)
  PROVE  /\ workerPc' = workerPc /\ request' = request /\ jobsToRun' = jobsToRun
         /\ \/ /\ jobPc[w][id] \in {"create", "deps"} /\ UNCHANGED <<running, finishedCh, addedCh>>
               /\ \/ UNCHANGED jobPc
                  \/ \E pc \in {"deps", "report"} : jobPc' = [jobPc EXCEPT ![w][id] = pc]
            \/ JobReport(w, id) \/ JobAnnounce(w, id) \/ JobExit(w, id)
BY DEF Job, JobEnds, JobCreate, JobCached, JobDownload, JobTransferFails, JobCommit,
   JobFail, JobDone, JobReport, JobAnnounce, JobExit, loopVars, chanVars, jobVars

(* A job that reports moves from the busy ones into the channel, one that    *)
(* announces its artifact likewise, one that exits gives up its slot.        *)
LEMMA RoomForJob ==
  ASSUME TypeOK, NEW w \in Workers, NEW id \in JobIDs, RoomAt(w), Job(w, id)
  PROVE  RoomAt(w)'
<1> DEFINE r == Cardinality(running[w])
           n == Cardinality(jobsToRun[w])
           busy == Cardinality(Busy(w))
           una == Cardinality(Unannounced(w))
           free == request[w].free
           fin == Len(finishedCh[w])
           add == Len(addedCh[w])
<1>1. MaxSlots \in Nat
  BY SlotsAssumption
<1>2. /\ r \in Nat /\ n \in Nat /\ busy \in Nat /\ una \in Nat
      /\ fin \in Nat /\ add \in Nat /\ free \in Nat
  BY CountFacts
<1>3. /\ running[w] = Held(w) /\ IsFiniteSet(running[w]) /\ IsFiniteSet(jobsToRun[w])
      /\ IsFiniteSet(Busy(w)) /\ IsFiniteSet(Unannounced(w))
      /\ Fits(workerPc[w], r, busy, una, n, free, fin, add)
  BY CountFacts DEF RoomAt
<1>4. workerPc' = workerPc /\ request' = request /\ jobsToRun' = jobsToRun
  BY JobFrame
<1>5. CASE /\ jobPc[w][id] \in {"create", "deps"} /\ UNCHANGED <<running, finishedCh, addedCh>>
           /\ \/ UNCHANGED jobPc
              \/ \E pc \in {"deps", "report"} : jobPc' = [jobPc EXCEPT ![w][id] = pc]
  <2>1. Held(w)' = Held(w) /\ Busy(w)' = Busy(w) /\ Unannounced(w)' = Unannounced(w)
    BY <1>5 DEF TypeOK, Held, Busy, Unannounced
  <2> QED
    BY <1>3, <1>4, <1>5, <2>1 DEF RoomAt
<1>6. CASE JobReport(w, id)
  <2>1. /\ jobPc[w][id] = "report" /\ running' = running /\ addedCh' = addedCh
        /\ finishedCh'[w] = Push(finishedCh[w], JobResult(id, outcome[w][id]))
    BY <1>6, DeskFacts DEF JobReport
  <2>2. PICK pc \in {"announce", "exit"} : jobPc'[w] = [jobPc[w] EXCEPT ![id] = pc]
    BY <1>6 DEF JobReport, TypeOK
  <2>3. Len(finishedCh'[w]) \in Nat /\ Len(finishedCh'[w]) <= fin + 1
    BY <2>1 DEF TypeOK, Push
  <2>4. /\ Held(w)' = Held(w) /\ Busy(w)' = Busy(w) \ {id} /\ id \in Busy(w)
        /\ id \in Unannounced(w)
        /\ Unannounced(w)' = Unannounced(w) \/ Unannounced(w)' = Unannounced(w) \ {id}
    BY <2>1, <2>2 DEF TypeOK, Held, Busy, Unannounced
  <2>5. Cardinality(Busy(w)') = busy - 1
    BY <1>3, <2>4, OneLess
  <2>6. Cardinality(Unannounced(w)') = una \/ Cardinality(Unannounced(w)') = una - 1
    BY <1>3, <2>4, OneLess
  <2> DEFINE fin2 == Len(finishedCh'[w])
             una2 == Cardinality(Unannounced(w)')
  <2>7. fin2 \in Nat /\ fin2 <= fin + 1 /\ (una2 = una \/ una2 = una - 1)
    BY <2>3, <2>6
  <2> HIDE DEF r, n, busy, una, free, fin, add, fin2, una2
  <2>8. Fits(workerPc[w], r, busy - 1, una2, n, free, fin2, add)
    BY <1>1, <1>2, <1>3, <2>7 DEF Fits
  <2> USE DEF r, n, busy, una, free, fin, add, fin2, una2
  <2> QED
    BY <1>3, <1>4, <2>1, <2>4, <2>5, <2>8 DEF RoomAt
<1>7. CASE JobAnnounce(w, id)
  <2>1. /\ jobPc[w][id] = "announce" /\ running' = running /\ finishedCh' = finishedCh
        /\ addedCh'[w] = Push(addedCh[w], id)
        /\ jobPc'[w] = [jobPc[w] EXCEPT ![id] = "exit"]
    BY <1>7, DeskFacts DEF JobAnnounce, TypeOK
  <2>2. Len(addedCh'[w]) \in Nat /\ Len(addedCh'[w]) <= add + 1
    BY <2>1 DEF TypeOK, Push
  <2>3. /\ Held(w)' = Held(w) /\ Busy(w)' = Busy(w) /\ id \in Unannounced(w)
        /\ Unannounced(w)' = Unannounced(w) \ {id}
    BY <2>1 DEF TypeOK, Held, Busy, Unannounced
  <2>4. Cardinality(Unannounced(w)') = una - 1
    BY <1>3, <2>3, OneLess
  <2> DEFINE add2 == Len(addedCh'[w])
  <2>5. add2 \in Nat /\ add2 <= add + 1
    BY <2>2
  <2> HIDE DEF r, n, busy, una, free, fin, add, add2
  <2>6. Fits(workerPc[w], r, busy, una - 1, n, free, fin, add2)
    BY <1>1, <1>2, <1>3, <2>5 DEF Fits
  <2> USE DEF r, n, busy, una, free, fin, add, add2
  <2> QED
    BY <1>3, <1>4, <2>1, <2>3, <2>4, <2>6 DEF RoomAt
<1>8. CASE JobExit(w, id)
  <2>1. /\ jobPc[w][id] = "exit" /\ running'[w] = running[w] \ {id}
        /\ finishedCh' = finishedCh /\ addedCh' = addedCh
        /\ jobPc'[w] = [jobPc[w] EXCEPT ![id] = "none"]
    BY <1>8 DEF JobExit, TypeOK, chanVars
  <2>2. /\ Held(w)' = Held(w) \ {id} /\ id \in Held(w)
        /\ Busy(w)' = Busy(w) /\ Unannounced(w)' = Unannounced(w)
    BY <2>1 DEF TypeOK, Held, Busy, Unannounced
  <2>3. IsFiniteSet(running'[w]) /\ Cardinality(running'[w]) = r - 1
    BY <1>3, <2>1, <2>2, OneLess
  <2> HIDE DEF r, n, busy, una, free, fin, add
  <2>4. Fits(workerPc[w], r - 1, busy, una, n, free, fin, add)
    BY <1>1, <1>2, <1>3 DEF Fits
  <2> USE DEF r, n, busy, una, free, fin, add
  <2> QED
    BY <1>3, <1>4, <2>1, <2>2, <2>3, <2>4 DEF RoomAt
<1> QED
  BY <1>5, <1>6, <1>7, <1>8, JobFrame

(* A worker that restarts is empty; the restart of the coordinator ends the  *)
(* heartbeats it was handling.                                              *)
LEMMA RoomAfterRestart ==
  ASSUME TypeOK, NEW w \in Workers, RoomAt(w),
         RestartWorker(w) \/ RestartCoordinator
  PROVE  RoomAt(w)'
<1>1. MaxSlots \in Nat /\ IsFiniteSet({}) /\ Cardinality({}) = 0 /\ Len(<<>>) = 0
  BY SlotsAssumption, FS_EmptySet
<1>2. CASE RestartWorker(w)
  <2>1. /\ workerPc'[w] = "collect" /\ request'[w].free = 0 /\ jobsToRun'[w] = {}
        /\ running'[w] = {} /\ finishedCh'[w] = <<>> /\ addedCh'[w] = <<>>
        /\ jobPc'[w] = [id \in JobIDs |-> "none"]
    BY <1>2 DEF RestartWorker, TypeOK, NoRequest
  <2>2. Held(w)' = {} /\ Busy(w)' = {} /\ Unannounced(w)' = {}
    BY <2>1 DEF Held, Busy, Unannounced
  <2>3. Fits("collect", 0, 0, 0, 0, 0, 0, 0)
    BY <1>1 DEF Fits
  <2> QED
    BY <1>1, <2>1, <2>2, <2>3 DEF RoomAt
<1>3. CASE RestartCoordinator
  <2>1. /\ running'[w] = running[w] /\ Held(w)' = Held(w)
        /\ Busy(w)' = Busy(w) /\ Unannounced(w)' = Unannounced(w)
        /\ finishedCh'[w] = finishedCh[w] /\ addedCh'[w] = addedCh[w]
    BY <1>3 DEF RestartCoordinator, jobVars, chanVars, Held, Busy, Unannounced
  <2>2. CASE w \notin Reached
    <3>1. /\ workerPc'[w] = workerPc[w] /\ request'[w] = request[w]
          /\ jobsToRun'[w] = jobsToRun[w]
      BY <1>3, <2>2 DEF RestartCoordinator
    <3> QED
      BY <2>1, <3>1 DEF RoomAt
  <2>3. CASE w \in Reached
    <3> DEFINE r == Cardinality(running[w])
               n == Cardinality(jobsToRun[w])
               busy == Cardinality(Busy(w))
               una == Cardinality(Unannounced(w))
               free == request[w].free
               fin == Len(finishedCh[w])
               add == Len(addedCh[w])
    <3>1. /\ workerPc'[w] = "collect" /\ request'[w].free = 0 /\ jobsToRun'[w] = {}
      BY <1>3, <2>3 DEF RestartCoordinator, NoRequest
    <3>2. /\ r \in Nat /\ n \in Nat /\ busy \in Nat /\ una \in Nat
          /\ fin \in Nat /\ add \in Nat /\ free \in Nat
      BY CountFacts
    <3>3. /\ running[w] = Held(w) /\ IsFiniteSet(running[w])
          /\ Fits(workerPc[w], r, busy, una, n, free, fin, add)
      BY DEF RoomAt
    <3> HIDE DEF r, n, busy, una, free, fin, add
    <3>4. Fits("collect", r, busy, una, 0, 0, fin, add)
      BY <1>1, <3>2, <3>3 DEF Fits
    <3> USE DEF r, n, busy, una, free, fin, add
    <3> QED
      BY <1>1, <2>1, <3>1, <3>3, <3>4 DEF RoomAt
  <2> QED
    BY <2>2, <2>3
<1> QED
  BY <1>2, <1>3

(* What a worker keeps in memory; a step of one worker touches nothing of    *)
(* another's.                                                               *)
Memory(w) == <<workerPc[w], request[w], jobsToRun[w], running[w], finishedCh[w], addedCh[w],
               jobPc[w], task[w], outcome[w]>>

LEMMA JobElsewhere ==
  ASSUME TypeOK, NEW w \in Workers, NEW v \in Workers, v # w, NEW id \in JobIDs, Job(w, id)
  PROVE  UNCHANGED Memory(v)
<1>1. UNCHANGED loopVars
  BY JobFrame DEF loopVars
<1>2. CASE \E res \in Results : JobDone(w, id, res)
  BY <1>1, <1>2 DEF JobDone, TypeOK, Memory, loopVars, chanVars
<1>3. CASE JobCreate(w, id) \/ JobReport(w, id) \/ JobAnnounce(w, id) \/ JobExit(w, id)
  BY <1>1, <1>3 DEF JobCreate, JobReport, JobAnnounce, JobExit, TypeOK, Memory, loopVars,
     chanVars, jobVars
<1>4. CASE UNCHANGED <<loopVars, chanVars, jobVars>>
  BY <1>4 DEF Memory, loopVars, chanVars, jobVars
<1>5. JobEnds(w, id) => \/ \E res \in Results : JobDone(w, id, res)
                        \/ UNCHANGED <<loopVars, chanVars, jobVars>>
  BY DEF JobEnds, JobCached, JobDownload, JobTransferFails, JobCommit, JobFail, Results
<1> QED
  BY <1>2, <1>3, <1>4, <1>5 DEF Job

LEMMA MemoryElsewhere ==
  ASSUME TypeOK, NEW w \in Workers, NEW v \in Workers, v # w,
         \/ Run(w) \/ LoseRequest(w) \/ LoseResponse(w) \/ RestartWorker(w)
         \/ \E id \in JobIDs : Job(w, id)
  PROVE  UNCHANGED Memory(v)
<1>1. CASE CollectFinished(w) \/ CollectAdded(w) \/ SendHeartbeat(w) \/ Deliver(w)
           \/ NextHeartbeat(w)
  BY <1>1 DEF TypeOK, Memory, CollectFinished, CollectAdded, SendHeartbeat, Deliver,
     NextHeartbeat, chanVars, jobVars
<1>2. CASE HandleFinished(w) \/ HandleAdded(w) \/ HandlerPicks(w) \/ HandlerInPick(w)
           \/ HandlerPicked(w)
  BY <1>2 DEF TypeOK, Memory, HandleFinished, HandleAdded, HandlerPicks, HandlerInPick,
     HandlerPicked, loopVars, chanVars, jobVars
<1>3. CASE StartJob(w)
  BY <1>3 DEF TypeOK, Memory, StartJob, chanVars, jobVars
<1>4. CASE LoseRequest(w) \/ LoseResponse(w) \/ RestartWorker(w)
  BY <1>4 DEF TypeOK, Memory, LoseRequest, LoseResponse, DropHeartbeat, RestartWorker,
     chanVars, jobVars
<1> QED
  BY <1>1, <1>2, <1>3, <1>4, JobElsewhere DEF Run

LEMMA DeskElsewhere ==
  ASSUME TypeOK, NEW w \in Workers, NEW v \in Workers, v # w,
         \/ Run(w) \/ LoseRequest(w) \/ LoseResponse(w) \/ RestartWorker(w)
         \/ \E id \in JobIDs : Job(w, id)
  PROVE  UNCHANGED Desk(v)
BY MemoryElsewhere DEF Memory, Desk

LEMMA DeskQuiet ==
  ASSUME TypeOK, NEW w \in Workers,
         \/ \E b \in Builds : Build(b) \/ BuildCancel(b)
         \/ HandleFinished(w) \/ HandleAdded(w) \/ HandlerInPick(w)
         \/ UNCHANGED vars
  PROVE  \A v \in Workers : UNCHANGED Desk(v)
<1>1. CASE (\E b \in Builds : Build(b) \/ BuildCancel(b)) \/ UNCHANGED vars
  <2>1. UNCHANGED <<loopVars, chanVars, jobVars>>
    BY <1>1 DEF Build, BuildSchedule, BuildRefused, BuildWake, BuildFinish, BuildCancel, vars
  <2> QED
    BY <2>1 DEF Desk, loopVars, chanVars, jobVars
<1>2. CASE HandleFinished(w) \/ HandleAdded(w) \/ HandlerInPick(w)
  <2>1. UNCHANGED <<workerPc, jobsToRun, chanVars, jobVars>>
    BY <1>2 DEF HandleFinished, HandleAdded, HandlerInPick, loopVars
  <2>2. \A v \in Workers : request'[v].free = request[v].free
    BY <1>2, DeskFacts DEF HandleFinished, HandleAdded, HandlerInPick, loopVars
  <2> QED
    BY <2>1, <2>2 DEF Desk, chanVars, jobVars
<1> QED
  BY <1>1, <1>2

(* Every step keeps the room of every worker. *)
LEMMA RoomStep ==
  ASSUME TypeOK, RoomOK, [Next]_vars
  PROVE  RoomOK'
<1> SUFFICES ASSUME NEW v \in Workers
             PROVE  RoomAt(v)'
  BY DEF RoomOK
<1> USE DEF RoomOK
<1>1. CASE (\E b \in Builds : Build(b) \/ BuildCancel(b)) \/ UNCHANGED vars
  BY <1>1, DeskQuiet, RoomElsewhere
<1>2. ASSUME NEW w \in Workers, Run(w)
      PROVE  RoomAt(v)'
  <2>1. CASE HandleFinished(w) \/ HandleAdded(w) \/ HandlerInPick(w)
    BY <2>1, DeskQuiet, RoomElsewhere
  <2>2. CASE v # w
    BY <1>2, <2>2, DeskElsewhere, RoomElsewhere
  <2>3. CASE v = w /\ ~(HandleFinished(w) \/ HandleAdded(w) \/ HandlerInPick(w))
    BY <1>2, <2>3, RoomInLoop, RoomWhenPicked, RoomForStart DEF Run
  <2> QED
    BY <2>1, <2>2, <2>3
<1>3. ASSUME NEW w \in Workers, NEW id \in JobIDs, Job(w, id)
      PROVE  RoomAt(v)'
  BY <1>3, DeskElsewhere, RoomElsewhere, RoomForJob
<1>4. ASSUME NEW w \in Workers, LoseRequest(w) \/ LoseResponse(w) \/ RestartWorker(w)
      PROVE  RoomAt(v)'
  BY <1>4, DeskElsewhere, RoomElsewhere, RoomInLoop, RoomAfterRestart
<1> QED
  BY <1>1, <1>2, <1>3, <1>4, RoomAfterRestart DEF Next

LEMMA RoomInit == Init => RoomOK
<1> SUFFICES ASSUME Init, NEW w \in Workers
             PROVE  RoomAt(w)
  BY DEF RoomOK
<1>1. MaxSlots \in Nat /\ IsFiniteSet({}) /\ Cardinality({}) = 0 /\ Len(<<>>) = 0
  BY SlotsAssumption, FS_EmptySet
<1>2. /\ workerPc[w] = "collect" /\ request[w].free = 0 /\ jobsToRun[w] = {}
      /\ running[w] = {} /\ finishedCh[w] = <<>> /\ addedCh[w] = <<>>
      /\ jobPc[w] = [id \in JobIDs |-> "none"]
  BY DEF Init, NoRequest
<1>3. Held(w) = {} /\ Busy(w) = {} /\ Unannounced(w) = {}
  BY <1>2 DEF Held, Busy, Unannounced
<1>4. Fits("collect", 0, 0, 0, 0, 0, 0, 0)
  BY <1>1 DEF Fits
<1>5. Fits(workerPc[w], Cardinality(running[w]), Cardinality(Busy(w)),
           Cardinality(Unannounced(w)), Cardinality(jobsToRun[w]), request[w].free,
           Len(finishedCh[w]), Len(addedCh[w]))
  BY <1>1, <1>2, <1>3, <1>4
<1> QED
  BY <1>1, <1>2, <1>3, <1>5 DEF RoomAt

-----------------------------------------------------------------------------
(* Every reachable state is well typed. *)
BuildTypes ==
  /\ buildPc \in [Builds -> BuildPcs]
  /\ position \in [Builds -> Nat \ {0}]
  /\ waitsFor \in [Builds -> Nat]
LoopTypes ==
  /\ workerPc \in [Workers -> WorkerPcs]
  /\ request \in [Workers -> Requests]
  /\ jobsToRun \in [Workers -> SUBSET JobSpecs]
ChanTypes ==
  /\ finishedCh \in [Workers -> Seq(JobResults)]
  /\ addedCh \in [Workers -> Seq(JobIDs)]
JobTypes ==
  /\ jobPc \in [Workers -> [JobIDs -> JobPcs]]
  /\ task \in [Workers -> [JobIDs -> JobSpecs \cup {NoSpec}]]
  /\ outcome \in [Workers -> [JobIDs -> Results \cup {NoResult}]]
  /\ running \in [Workers -> SUBSET JobIDs]
CacheTypes ==
  /\ disk \in [Workers -> SUBSET JobIDs]
  /\ stored \in [Workers -> SUBSET JobIDs]
EnvTypes == /\ losses \in Nat /\ crashes \in Nat /\ restarts \in Nat
            /\ broken \subseteq JobIDs /\ failedAt \subseteq Workers \X JobIDs

LEMMA TypeParts ==
  TypeOK <=> Sched!TypeOK /\ BuildTypes /\ LoopTypes /\ ChanTypes /\ JobTypes
             /\ CacheTypes /\ EnvTypes
BY DEF TypeOK, BuildTypes, LoopTypes, ChanTypes, JobTypes, CacheTypes, EnvTypes

LEMMA TypePartsNext ==
  ASSUME Sched!TypeOK', BuildTypes', LoopTypes', ChanTypes', JobTypes', CacheTypes', EnvTypes'
  PROVE  TypeOK'
<1>1. (Sched!TypeOK /\ BuildTypes /\ LoopTypes /\ ChanTypes /\ JobTypes
       /\ CacheTypes /\ EnvTypes)' => TypeOK'
  BY TypeParts, PTL
<1> QED
  BY <1>1

LEMMA NoRequestTyping == NoRequest \in Requests
<1>1. <<>> \in Seq(JobResults) /\ <<>> \in Seq(JobIDs)
  OBVIOUS
<1> QED
  BY <1>1, SlotsAssumption DEF NoRequest, Requests

LEMMA TypingInit == Init => TypeOK
<1> SUFFICES ASSUME Init
             PROVE  TypeOK
  OBVIOUS
<1>1. Sched!TypeOK
  BY SchedInit DEF Init, Sched!IInv
<1>2. BuildTypes
  BY DEF Init, BuildTypes, BuildPcs, Nil
<1>3. LoopTypes
  BY NoRequestTyping DEF Init, LoopTypes, WorkerPcs
<1>4. ChanTypes
  BY DEF Init, ChanTypes
<1>5. JobTypes
  BY DEF Init, JobTypes, JobPcs
<1>6. CacheTypes /\ EnvTypes
  BY DEF Init, CacheTypes, EnvTypes
<1> QED
  BY <1>1, <1>2, <1>3, <1>4, <1>5, <1>6, TypeParts

(* The PendingJob objects and the specs in them. *)
LEMMA ObjectTypes ==
  ASSUME Sched!TypeOK
  PROVE  /\ \A h \in Sched!Pointers :
              /\ allocated[h].job \in JobSpecs
              /\ allocated[h].result \in Results \cup {NoResult}
              /\ Sched!JobOf(h) \in JobIDs
         /\ Len(allocated) \in Nat
<1> DEFINE Objects == [job : JobSpecs, result : Results \cup {NoResult}, closes : Nat]
<1>1. \A o \in Objects : o.job.id \in JobIDs /\ o.job \in JobSpecs
                         /\ o.result \in Results \cup {NoResult}
  BY DEF JobSpecs
<1>2. allocated \in Seq(Objects)
  BY DEF Sched!TypeOK
<1> HIDE DEF Objects
<1>3. \A h \in 1..Len(allocated) : allocated[h] \in Objects
  BY <1>2
<1> QED
  BY <1>1, <1>2, <1>3 DEF Sched!Pointers, Sched!JobOf

LEMMA BuildTyping ==
  ASSUME TypeOK, NEW b \in Builds, Build(b) \/ BuildCancel(b), Sched!TypeOK'
  PROVE  TypeOK'
<1>1. BuildTypes'
  <2>1. CASE BuildSchedule(b)
    <3>1. CurrentJob(b) \in JobIDs
      BY <2>1, PlanFacts DEF BuildSchedule, HasJob, CurrentJob, TypeOK
    <3>2. pending[CurrentJob(b)] \in Nat
      BY <3>1, ObjectTypes DEF TypeOK, Sched!TypeOK, Sched!Pointers, Sched!Nil
    <3>3. Len(allocated') \in Nat
      <4>1. Sched!TypeOK' => Len(allocated') \in Nat
        BY DEF Sched!TypeOK
      <4> QED
        BY <4>1
    <3> QED
      BY <2>1, <3>2, <3>3, TypeParts DEF BuildSchedule, BuildTypes, BuildPcs
  <2>2. CASE BuildRefused(b) \/ BuildWake(b) \/ BuildFinish(b) \/ BuildCancel(b)
    BY <2>2, TypeParts DEF BuildRefused, BuildWake, BuildFinish, BuildCancel, BuildTypes,
       BuildPcs, Nil
  <2> QED
    BY <2>1, <2>2 DEF Build
<1>2. UNCHANGED <<loopVars, chanVars, jobVars, cacheVars, envVars>>
  BY DEF Build, BuildSchedule, BuildRefused, BuildWake, BuildFinish, BuildCancel
<1>3. LoopTypes' /\ ChanTypes' /\ JobTypes' /\ CacheTypes' /\ EnvTypes'
  BY <1>2, TypeParts DEF LoopTypes, ChanTypes, JobTypes, CacheTypes, EnvTypes, loopVars,
     chanVars, jobVars, cacheVars, envVars, faultVars, pastVars
<1> QED
  BY <1>1, <1>3, TypePartsNext

(* A request is changed one field at a time. *)
LEMMA RequestTyping ==
  ASSUME NEW r \in Requests
  PROVE  /\ \A q \in Seq(JobResults) : [r EXCEPT !.finished = q] \in Requests
         /\ \A q \in Seq(JobIDs) : [r EXCEPT !.added = q] \in Requests
         /\ \A n \in 0..MaxSlots : [r EXCEPT !.free = n] \in Requests
         /\ r.finished \in Seq(JobResults) /\ r.added \in Seq(JobIDs)
         /\ r.free \in 0..MaxSlots
BY DEF Requests

(* The free slots that are sent are a number of slots. *)
LEMMA FreeFacts ==
  ASSUME TypeOK, NEW w \in Workers, RoomAt(w)
  PROVE  /\ MaxSlots - Cardinality(running[w]) \in 0..MaxSlots
         /\ workerPc[w] = "picking" => request[w].free - 1 \in 0..MaxSlots
         /\ 0 \in 0..MaxSlots
<1> DEFINE r == Cardinality(running[w])
           free == request[w].free
           n == Cardinality(jobsToRun[w])
<1>1. MaxSlots \in Nat
  BY SlotsAssumption
<1>2. r \in Nat /\ free \in Nat /\ n \in Nat
  BY CountFacts
<1>3. r + n + free <= MaxSlots /\ (workerPc[w] = "picking" => free > 0)
  BY DEF RoomAt, Fits
<1> HIDE DEF r, free, n
<1>4. MaxSlots - r \in 0..MaxSlots /\ 0 \in 0..MaxSlots
  BY <1>1, <1>2, <1>3
<1>5. free > 0 => free - 1 \in 0..MaxSlots
  BY <1>1, <1>2, <1>3
<1> QED
  BY <1>3, <1>4, <1>5 DEF r, free

LEMMA LoopTyping ==
  ASSUME TypeOK, Sched!IInv, NEW w \in Workers, RoomAt(w), Run(w), Sched!TypeOK'
  PROVE  TypeOK'
<1>1. UNCHANGED <<buildVars, cacheVars, envVars>>
  BY DEF Run, CollectFinished, CollectAdded, SendHeartbeat, HandleFinished, HandleAdded,
     HandlerPicks, HandlerInPick, HandlerPicked, Deliver, StartJob, NextHeartbeat
<1>2. BuildTypes' /\ CacheTypes' /\ EnvTypes'
  BY <1>1, TypeParts DEF BuildTypes, CacheTypes, EnvTypes, buildVars, cacheVars, envVars,
     faultVars, pastVars
<1>3. /\ LoopTypes /\ ChanTypes /\ JobTypes
      /\ request[w] \in Requests /\ jobsToRun[w] \subseteq JobSpecs
      /\ finishedCh[w] \in Seq(JobResults) /\ addedCh[w] \in Seq(JobIDs)
  BY TypeParts DEF LoopTypes, ChanTypes
<1>4. JobTypes'
  <2>1. CASE UNCHANGED jobVars
    BY <1>3, <2>1 DEF JobTypes, jobVars
  <2>2. CASE StartJob(w)
    <3>1. \A spec \in jobsToRun[w] : spec.id \in JobIDs /\ spec \in JobSpecs
      BY <1>3 DEF JobSpecs
    <3>2. CASE UNCHANGED jobVars
      BY <1>3, <3>2 DEF JobTypes, jobVars
    <3>3. CASE \E spec \in jobsToRun[w] :
               /\ running' = [running EXCEPT ![w] = @ \cup {spec.id}]
               /\ jobPc' = [jobPc EXCEPT ![w][spec.id] = "create"]
               /\ task' = [task EXCEPT ![w][spec.id] = spec]
               /\ UNCHANGED outcome
      BY <1>3, <3>1, <3>3 DEF JobTypes, JobPcs
    <3> QED
      BY <2>2, <3>2, <3>3 DEF StartJob
  <2> QED
    BY <2>1, <2>2 DEF Run, CollectFinished, CollectAdded, SendHeartbeat, HandleFinished,
       HandleAdded, HandlerPicks, HandlerInPick, HandlerPicked, Deliver, NextHeartbeat
<1>5. ChanTypes'
  <2>1. CASE UNCHANGED chanVars
    BY <1>3, <2>1 DEF ChanTypes, chanVars
  <2>2. CASE CollectFinished(w) \/ CollectAdded(w)
    <3>1. <<>> \in Seq(JobResults) /\ <<>> \in Seq(JobIDs)
      OBVIOUS
    <3>2. CASE CollectFinished(w)
      BY <1>3, <3>1, <3>2 DEF ChanTypes, CollectFinished
    <3>3. CASE CollectAdded(w)
      BY <1>3, <3>1, <3>3 DEF ChanTypes, CollectAdded
    <3> QED
      BY <2>2, <3>2, <3>3
  <2> QED
    BY <2>1, <2>2 DEF Run, SendHeartbeat, HandleFinished, HandleAdded, HandlerPicks,
       HandlerInPick, HandlerPicked, Deliver, StartJob, NextHeartbeat
<1>6. LoopTypes'
  <2> USE <1>3 DEF LoopTypes, WorkerPcs
  <2>1. CASE CollectFinished(w)
    BY <2>1, RequestTyping DEF CollectFinished
  <2>2. CASE CollectAdded(w)
    BY <2>2, RequestTyping DEF CollectAdded
  <2>3. CASE SendHeartbeat(w)
    BY <2>3, RequestTyping, FreeFacts DEF SendHeartbeat
  <2>4. CASE HandleFinished(w)
    <3>1. Tail(request[w].finished) \in Seq(JobResults)
      BY <2>4, RequestTyping DEF HandleFinished
    <3> QED
      BY <2>4, <3>1, RequestTyping DEF HandleFinished
  <2>5. CASE HandleAdded(w)
    <3>1. Tail(request[w].added) \in Seq(JobIDs)
      BY <2>5, RequestTyping DEF HandleAdded
    <3> QED
      BY <2>5, <3>1, RequestTyping DEF HandleAdded
  <2>6. CASE HandlerPicks(w) \/ HandlerInPick(w) \/ Deliver(w)
    BY <2>6 DEF HandlerPicks, HandlerInPick, Deliver, loopVars
  <2>7. CASE HandlerPicked(w)
    <3>1. workerPc[w] = "picking" /\ workerPc' = [workerPc EXCEPT ![w] = "sent"]
      BY <2>7 DEF HandlerPicked
    <3>2. CASE got[w] = Nil
      BY <2>7, <3>1, <3>2, RequestTyping, FreeFacts DEF HandlerPicked
    <3>3. CASE got[w] # Nil
      <4>1. got[w] \in Sched!Pointers
        BY <3>3 DEF Sched!IInv, Sched!TypeOK, Sched!Nil, Nil
      <4>2. allocated[got[w]].job \in JobSpecs
        BY <4>1, ObjectTypes DEF Sched!IInv
      <4>3. request' = [request EXCEPT ![w] = [@ EXCEPT !.free = request[w].free - 1]]
        BY <2>7, <3>3 DEF HandlerPicked
      <4>4. request' \in [Workers -> Requests]
        BY <3>1, <4>3, RequestTyping, FreeFacts
      <4>5. jobsToRun' \in [Workers -> SUBSET JobSpecs]
        BY <2>7, <3>3, <4>2 DEF HandlerPicked
      <4> QED
        BY <3>1, <4>4, <4>5
    <3> QED
      BY <3>2, <3>3
  <2>8. CASE StartJob(w)
    BY <2>8 DEF StartJob
  <2>9. CASE NextHeartbeat(w)
    BY <2>9, NoRequestTyping DEF NextHeartbeat
  <2> QED
    BY <2>1, <2>2, <2>3, <2>4, <2>5, <2>6, <2>7, <2>8, <2>9 DEF Run
<1> QED
  BY <1>2, <1>4, <1>5, <1>6, TypePartsNext

(* A job that has not ended has the spec it was started with. *)
TaskOK ==
  \A w \in Workers, id \in JobIDs : jobPc[w][id] \in {"create", "deps"} =>
    task[w][id] \in JobSpecs /\ task[w][id].id = id

LEMMA TaskFacts ==
  ASSUME TypeOK, TaskOK, NEW w \in Workers, NEW id \in JobIDs, jobPc[w][id] = "deps"
  PROVE  task[w][id].artifacts \in [Deps[id] -> Workers]
BY DEF TaskOK, JobSpecs, Locations

(* The artifact that a job downloads is one of its dependencies, and the     *)
(* worker it comes from has it.                                             *)
LEMMA DownloadFacts ==
  ASSUME TypeOK, TaskOK, NEW w \in Workers, NEW id \in JobIDs, JobDownload(w, id)
  PROVE  \E dep \in Deps[id] :
           LET source == task[w][id].artifacts[dep]
           IN  /\ dep \in JobIDs /\ source \in Workers
               /\ \/ /\ dep \in disk[source]
                     /\ disk' = [disk EXCEPT ![w] = @ \cup {dep}]
                     /\ UNCHANGED <<jobVars, stored>>
                  \/ /\ dep \notin disk[source]
                     /\ JobDone(w, id, "failed")
                     /\ UNCHANGED cacheVars
<1>1. task[w][id].artifacts \in [Deps[id] -> Workers]
  BY TaskFacts DEF JobDownload
<1>2. PICK dep \in DOMAIN task[w][id].artifacts :
           LET source == task[w][id].artifacts[dep]
           IN  \/ /\ dep \in disk[source]
                  /\ disk' = [disk EXCEPT ![w] = @ \cup {dep}]
                  /\ UNCHANGED <<jobVars, stored>>
               \/ /\ dep \notin disk[source]
                  /\ JobDone(w, id, "failed")
                  /\ UNCHANGED cacheVars
  BY DEF JobDownload, MissingDeps
<1>3. dep \in Deps[id] /\ dep \in JobIDs /\ task[w][id].artifacts[dep] \in Workers
  BY <1>1, DepsAssumption
<1> QED
  BY <1>2, <1>3

(* Committed artifacts stay: what grows is the disk of the worker. *)
LEMMA CacheSteps ==
  ASSUME TypeOK, TaskOK, NEW w \in Workers, NEW id \in JobIDs, Job(w, id)
  PROVE  /\ \/ UNCHANGED disk
            \/ \E dep \in JobIDs : disk' = [disk EXCEPT ![w] = @ \cup {dep}]
         /\ UNCHANGED stored \/ stored' = [stored EXCEPT ![w] = @ \cup {id}]
<1>1. CASE JobDownload(w, id)
  BY <1>1, DownloadFacts DEF cacheVars
<1>2. CASE ~JobDownload(w, id)
  BY <1>2 DEF Job, JobEnds, JobCreate, JobCached, JobTransferFails, JobCommit, JobFail,
     JobReport, JobAnnounce, JobExit, cacheVars
<1> QED
  BY <1>1, <1>2

(* What is remembered of failures and broken transfers only grows, by the    *)
(* job that takes the step.                                                 *)
LEMMA PastSteps ==
  ASSUME NEW w \in Workers, NEW id \in JobIDs, Job(w, id)
  PROVE  /\ UNCHANGED faultVars
         /\ broken' = broken \/ broken' = broken \cup {id}
         /\ failedAt' = failedAt \/ failedAt' = failedAt \cup {<<w, id>>}
BY DEF Job, JobEnds, JobCreate, JobCached, JobDownload, JobTransferFails, JobCommit, JobFail,
   JobDone, JobReport, JobAnnounce, JobExit, envVars, pastVars

(* What a step of a job does to the job. *)
LEMMA JobSteps ==
  ASSUME TypeOK, NEW w \in Workers, NEW id \in JobIDs, Job(w, id)
  PROVE  /\ UNCHANGED jobPc \/ \E pc \in JobPcs : jobPc' = [jobPc EXCEPT ![w][id] = pc]
         /\ UNCHANGED task \/ task' = [task EXCEPT ![w][id] = NoSpec]
         /\ \/ UNCHANGED outcome
            \/ \E res \in Results \cup {NoResult} : outcome' = [outcome EXCEPT ![w][id] = res]
         /\ UNCHANGED running \/ running' = [running EXCEPT ![w] = @ \ {id}]
         /\ \/ UNCHANGED chanVars
            \/ JobReport(w, id) \/ JobAnnounce(w, id)
BY DEF JobPcs, Results, Job, JobEnds, JobCreate, JobCached, JobDownload,
   JobTransferFails, JobCommit, JobFail, JobDone, JobReport, JobAnnounce, JobExit, jobVars, chanVars

LEMMA EntryTyping ==
  ASSUME NEW A, NEW B, NEW C, NEW f \in [A -> [B -> C]], NEW a \in A, NEW b \in B, NEW c \in C
  PROVE  [f EXCEPT ![a][b] = c] \in [A -> [B -> C]]
OBVIOUS

LEMMA PushTyping ==
  ASSUME NEW T, NEW q \in Seq(T), NEW x \in T
  PROVE  Push(q, x) \in Seq(T)
BY DEF Push

LEMMA JobTyping ==
  ASSUME TypeOK, TaskOK, NEW w \in Workers, NEW id \in JobIDs, Job(w, id), Sched!TypeOK',
         jobPc[w][id] = "report" => outcome[w][id] \in Results
  PROVE  TypeOK'
<1>1. UNCHANGED <<buildVars, loopVars>>
  BY DEF Job, JobEnds, JobCreate, JobCached, JobDownload, JobTransferFails, JobCommit, JobFail,
     JobDone, JobReport, JobAnnounce, JobExit
<1>2. BuildTypes' /\ LoopTypes' /\ EnvTypes'
  BY <1>1, TypeParts, PastSteps DEF BuildTypes, LoopTypes, EnvTypes, buildVars, loopVars,
     faultVars
<1>3. ChanTypes /\ JobTypes /\ CacheTypes
  BY TypeParts
<1>4. JobTypes'
  <2>1. jobPc' \in [Workers -> [JobIDs -> JobPcs]]
    <3>1. jobPc \in [Workers -> [JobIDs -> JobPcs]]
      BY <1>3 DEF JobTypes
    <3>2. CASE UNCHANGED jobPc
      BY <3>1, <3>2
    <3>3. CASE \E pc \in JobPcs : jobPc' = [jobPc EXCEPT ![w][id] = pc]
      BY <3>1, <3>3, EntryTyping
    <3> QED
      BY <3>2, <3>3, JobSteps
  <2>2. task' \in [Workers -> [JobIDs -> JobSpecs \cup {NoSpec}]]
    <3>1. task \in [Workers -> [JobIDs -> JobSpecs \cup {NoSpec}]]
      BY <1>3 DEF JobTypes
    <3>2. CASE UNCHANGED task
      BY <3>1, <3>2
    <3>3. CASE task' = [task EXCEPT ![w][id] = NoSpec]
      BY <3>1, <3>3, EntryTyping
    <3> QED
      BY <3>2, <3>3, JobSteps
  <2>3. outcome' \in [Workers -> [JobIDs -> Results \cup {NoResult}]]
    <3>1. outcome \in [Workers -> [JobIDs -> Results \cup {NoResult}]]
      BY <1>3 DEF JobTypes
    <3>2. CASE UNCHANGED outcome
      BY <3>1, <3>2
    <3>3. CASE \E res \in Results \cup {NoResult} :
                 outcome' = [outcome EXCEPT ![w][id] = res]
      BY <3>1, <3>3, EntryTyping
    <3> QED
      BY <3>2, <3>3, JobSteps
  <2>4. running' \in [Workers -> SUBSET JobIDs]
    BY <1>3, JobSteps DEF JobTypes
  <2> QED
    BY <2>1, <2>2, <2>3, <2>4 DEF JobTypes
<1>5. CacheTypes'
  BY <1>3, CacheSteps DEF CacheTypes
<1>6. ChanTypes'
  <2>1. CASE UNCHANGED chanVars
    BY <1>3, <2>1 DEF ChanTypes, chanVars
  <2>2. CASE JobReport(w, id)
    <3>1. JobResult(id, outcome[w][id]) \in JobResults
      BY <2>2 DEF JobReport, JobResult, JobResults
    <3> QED
      BY <1>3, <2>2, <3>1, PushTyping DEF ChanTypes, JobReport
  <2>3. CASE JobAnnounce(w, id)
    BY <1>3, <2>3, PushTyping DEF ChanTypes, JobAnnounce
  <2> QED
    BY <2>1, <2>2, <2>3, JobSteps
<1> QED
  BY <1>2, <1>4, <1>5, <1>6, TypePartsNext

LEMMA FaultTyping ==
  ASSUME TypeOK, NEW w \in Workers,
         LoseRequest(w) \/ LoseResponse(w) \/ RestartWorker(w),
         Sched!TypeOK'
  PROVE  TypeOK'
<1> <<>> \in Seq(JobResults) /\ <<>> \in Seq(JobIDs)
  OBVIOUS
<1> USE NoRequestTyping
<1>1. CASE LoseRequest(w) \/ LoseResponse(w)
  <2>1. BuildTypes' /\ ChanTypes' /\ JobTypes' /\ CacheTypes'
    BY <1>1, TypeParts DEF BuildTypes, ChanTypes, JobTypes, CacheTypes, LoseRequest,
       LoseResponse, DropHeartbeat, buildVars, chanVars, jobVars, cacheVars
  <2>2. LoopTypes' /\ EnvTypes'
    BY <1>1, TypeParts DEF LoopTypes, EnvTypes, WorkerPcs, LoseRequest, LoseResponse,
       DropHeartbeat, pastVars
  <2> QED
    BY <2>1, <2>2, TypePartsNext
<1>2. CASE RestartWorker(w)
  <2>1. BuildTypes' /\ EnvTypes' /\ CacheTypes'
    BY <1>2, TypeParts DEF BuildTypes, EnvTypes, CacheTypes, RestartWorker, NewCache,
       buildVars, pastVars
  <2>2. LoopTypes' /\ ChanTypes'
    BY <1>2, TypeParts DEF LoopTypes, WorkerPcs, ChanTypes, RestartWorker
  <2>3. JobTypes'
    BY <1>2, TypeParts DEF JobTypes, JobPcs, RestartWorker
  <2> QED
    BY <2>1, <2>2, <2>3, TypePartsNext
<1> QED
  BY <1>1, <1>2

-----------------------------------------------------------------------------
(* What the calls to the scheduler do to the state that the properties       *)
(* below speak of.                                                          *)
LEMMA ScheduleEffect ==
  ASSUME Sched!IInv, NEW job \in JobSpecs, Sched!ScheduleJob(job)
  PROVE  /\ UNCHANGED <<completed, artifacts, got, handed>>
         /\ \/ /\ UNCHANGED <<allocated, pending, queue>>
               /\ Sched!Pointers' = Sched!Pointers
               /\ pending[job.id] \in Sched!Pointers
               /\ Sched!JobOf(pending[job.id]) = job.id
            \/ /\ Len(allocated') = Len(allocated) + 1
               /\ allocated' # allocated
               /\ \A h \in Sched!Pointers : allocated'[h] = allocated[h]
               /\ allocated'[Len(allocated')].job = job
               /\ allocated'[Len(allocated')].result = completed[job.id]
               /\ Sched!Pointers' = Sched!Pointers \cup {Len(allocated')}
<1>1. job.id \in JobIDs /\ Len(allocated) \in Nat
  BY ObjectTypes DEF Sched!IInv, JobSpecs
<1>2. CASE Sched!SchedulePending(job)
  <2>1. UNCHANGED Sched!vars /\ pending[job.id] # Sched!Nil
    BY <1>2 DEF Sched!SchedulePending
  <2>2. pending[job.id] \in Sched!Pointers /\ Sched!JobOf(pending[job.id]) = job.id
    BY <1>1, <2>1 DEF Sched!IInv, Sched!TypeOK, Sched!PendingIsOpen
  <2> QED
    BY <2>1, <2>2 DEF Sched!vars, Sched!Pointers
<1>3. ASSUME NEW res, NEW closes,
             allocated' = Append(allocated, Sched!Object(job, res, closes)),
             res = completed[job.id]
      PROVE  /\ Len(allocated') = Len(allocated) + 1
             /\ allocated' # allocated
             /\ \A h \in Sched!Pointers : allocated'[h] = allocated[h]
             /\ allocated'[Len(allocated')].job = job
             /\ allocated'[Len(allocated')].result = completed[job.id]
             /\ Sched!Pointers' = Sched!Pointers \cup {Len(allocated')}
  <2> DEFINE Objects == [job : JobSpecs, result : Results \cup {NoResult}, closes : Nat]
             new == Sched!Object(job, res, closes)
  <2>1. allocated \in Seq(Objects)
    BY DEF Sched!IInv, Sched!TypeOK
  <2>2. new.job = job /\ new.result = completed[job.id]
    BY <1>3 DEF Sched!Object
  <2> HIDE DEF Objects, new
  <2>3. /\ Len(Append(allocated, new)) = Len(allocated) + 1
        /\ \A h \in 1..Len(allocated) : Append(allocated, new)[h] = allocated[h]
        /\ Append(allocated, new)[Len(allocated) + 1] = new
    BY <2>1
  <2>4. allocated' = Append(allocated, new)
    BY <1>3 DEF new
  <2>5. Len(allocated') = Len(allocated) + 1
    BY <2>3, <2>4
  <2> QED
    BY <1>1, <2>2, <2>3, <2>4, <2>5 DEF Sched!Pointers
<1>4. CASE Sched!ScheduleCompleted(job)
  BY <1>3, <1>4 DEF Sched!ScheduleCompleted, Sched!Allocate, Sched!pickVars
<1>5. CASE Sched!ScheduleNew(job)
  BY <1>3, <1>5 DEF Sched!ScheduleNew, Sched!Enqueue, Sched!Allocate, Sched!pickVars
<1> QED
  BY <1>2, <1>4, <1>5 DEF Sched!ScheduleJob

LEMMA CompleteEffect ==
  ASSUME Sched!IInv, NEW w \in Workers, NEW id \in JobIDs,
         NEW res \in Results \cup {NoResult}, Sched!OnJobComplete(w, id, res)
  PROVE  /\ UNCHANGED <<got, handed, queue, pickPc>>
         /\ artifacts' = [artifacts EXCEPT ![id] = @ \cup {w}]
         /\ UNCHANGED completed \/ (res # NoResult /\ completed' = [completed EXCEPT ![id] = res])
         /\ Len(allocated') = Len(allocated)
         /\ Sched!Pointers' = Sched!Pointers
         /\ \A h \in Sched!Pointers :
              /\ allocated'[h].job = allocated[h].job
              /\ \/ allocated'[h] = allocated[h]
                 \/ /\ Sched!JobOf(h) = id
                    /\ res # NoResult /\ allocated'[h].result = res /\ completed'[id] = res
<1>1. CASE Sched!CompleteUnknown(id, res) \/ Sched!CompleteWithoutResult(id, res)
  BY <1>1 DEF Sched!OnJobComplete, Sched!RecordHolder, Sched!CompleteUnknown,
     Sched!CompleteWithoutResult, Sched!pickVars, Sched!Pointers
<1>2. CASE Sched!CompletePending(id, res)
  <2>1. pending[id] \in Sched!Pointers /\ Sched!JobOf(pending[id]) = id
    BY <1>2 DEF Sched!CompletePending, Sched!IInv, Sched!TypeOK, Sched!PendingIsOpen
  <2> DEFINE Objects == [job : JobSpecs, result : Results \cup {NoResult}, closes : Nat]
             old == allocated[pending[id]]
             new == Sched!Object(old.job, res, old.closes + 1)
  <2>2. new.job = old.job /\ new.result = res
    BY DEF Sched!Object
  <2>3. allocated' = [allocated EXCEPT ![pending[id]] = new] /\ allocated \in Seq(Objects)
    BY <1>2 DEF Sched!CompletePending, Sched!IInv, Sched!TypeOK
  <2> HIDE DEF new, Objects
  <2>4. /\ Len(allocated') = Len(allocated)
        /\ \A h \in 1..Len(allocated) :
             allocated'[h] = IF h = pending[id] THEN new ELSE allocated[h]
    BY <2>1, <2>3 DEF Sched!Pointers
  <2>5. completed' = [completed EXCEPT ![id] = res] /\ res # NoResult
    BY <1>2 DEF Sched!CompletePending
  <2>6. completed'[id] = res
    BY <2>5 DEF Sched!IInv, Sched!TypeOK
  <2>7. \A h \in Sched!Pointers :
              /\ allocated'[h].job = allocated[h].job
              /\ \/ allocated'[h] = allocated[h]
                 \/ /\ Sched!JobOf(h) = id
                    /\ res # NoResult /\ allocated'[h].result = res /\ completed'[id] = res
    BY <2>1, <2>2, <2>4, <2>5, <2>6 DEF Sched!Pointers
  <2> QED
    BY <1>2, <2>4, <2>5, <2>7 DEF Sched!OnJobComplete, Sched!RecordHolder, Sched!CompletePending,
       Sched!pickVars, Sched!Pointers
<1> QED
  BY <1>1, <1>2 DEF Sched!OnJobComplete

LEMMA PickEffect ==
  ASSUME NEW w \in Workers,
         Sched!PickCall(w) \/ Sched!PickStep(w) \/ Sched!PickCancelled(w)
         \/ Sched!PickReturn(w)
  PROVE  UNCHANGED <<completed, artifacts, allocated, pending>>
BY DEF Sched!PickCall, Sched!PickStep, Sched!PickCancelled, Sched!PickReturn,
   Sched!PickStopped, Sched!PickHead, Sched!PickEmpty, Sched!PickToken,
   Sched!PickPark, Sched!schedVars

-----------------------------------------------------------------------------
(* Truth.  A success that is on its way to the coordinator is about an       *)
(* artifact on the disk of the worker that reports it; one the coordinator   *)
(* knows is about an artifact on some disk.                                 *)
Good == {"ok", "blank"}
Committed == {id \in JobIDs : \E w \in Workers : id \in disk[w]}
Truths(w) == {r \in JobResults : r.res \in Good => r.id \in disk[w]}

TruthAt(w) ==
  /\ finishedCh[w] \in Seq(Truths(w)) /\ request[w].finished \in Seq(Truths(w))
  /\ addedCh[w] \in Seq(disk[w]) /\ request[w].added \in Seq(disk[w])
  /\ \A id \in JobIDs :
       /\ jobPc[w][id] = "report" =>
            outcome[w][id] \in Results /\ JobResult(id, outcome[w][id]) \in Truths(w)
       /\ jobPc[w][id] = "announce" => id \in disk[w]

KnownOK ==
  /\ \A id \in JobIDs : completed[id] \in Good => id \in Committed
  /\ \A h \in Sched!Pointers : allocated[h].result \in Good => Sched!JobOf(h) \in Committed

TruthOK == KnownOK /\ \A w \in Workers : TruthAt(w)

(* No artifact leaves a disk, and sequences over a set are sequences over    *)
(* every larger set.                                                        *)
LEMMA SeqGrows ==
  ASSUME NEW A, NEW B, A \subseteq B
  PROVE  Seq(A) \subseteq Seq(B)
OBVIOUS

LEMMA DisksGrow ==
  ASSUME TypeOK, TaskOK, [Next]_vars
  PROVE  /\ \A w \in Workers : disk[w] \subseteq disk'[w]
         /\ \A w \in Workers : Truths(w) \subseteq Truths(w)'
         /\ Committed \subseteq Committed'
<1>2. ASSUME NEW w \in Workers, NEW id \in JobIDs, Job(w, id)
      PROVE  \A v \in Workers : disk[v] \subseteq disk'[v]
  <2>1. disk \in [Workers -> SUBSET JobIDs]
    BY DEF TypeOK
  <2>2. \/ UNCHANGED disk
        \/ \E dep \in JobIDs : disk' = [disk EXCEPT ![w] = @ \cup {dep}]
    BY <1>2, CacheSteps
  <2> QED
    BY <2>1, <2>2
<1>3. ASSUME NEW w \in Workers, RestartWorker(w)
      PROVE  \A v \in Workers : disk[v] \subseteq disk'[v]
  BY <1>3 DEF TypeOK, RestartWorker, NewCache
<1>4. ASSUME NEW b \in Builds, Build(b) \/ BuildCancel(b)
      PROVE  UNCHANGED disk
  BY <1>4 DEF Build, BuildSchedule, BuildRefused, BuildWake, BuildFinish, BuildCancel, cacheVars
<1>5. ASSUME NEW w \in Workers, Run(w) \/ LoseRequest(w) \/ LoseResponse(w)
      PROVE  UNCHANGED disk
  BY <1>5 DEF Run, CollectFinished, CollectAdded, SendHeartbeat, HandleFinished, HandleAdded,
     HandlerPicks, HandlerInPick, HandlerPicked, Deliver, StartJob, NextHeartbeat,
     LoseRequest, LoseResponse, DropHeartbeat, cacheVars
<1>6. RestartCoordinator \/ UNCHANGED vars => UNCHANGED disk
  BY DEF RestartCoordinator, cacheVars, vars
<1>7. \A v \in Workers : disk[v] \subseteq disk'[v]
  BY <1>2, <1>3, <1>4, <1>5, <1>6 DEF Next
<1> QED
  BY <1>7 DEF Truths, Committed

(* What the coordinator knows. *)
LEMMA KnownStays ==
  ASSUME KnownOK, UNCHANGED <<completed, allocated>>, Committed \subseteq Committed'
  PROVE  KnownOK'
BY DEF KnownOK, Sched!Pointers, Sched!JobOf

LEMMA KnownStep ==
  ASSUME TypeOK, TaskOK, Sched!IInv, TruthOK, [Next]_vars
  PROVE  KnownOK'
<1>1. Committed \subseteq Committed' /\ KnownOK
  BY DisksGrow DEF TruthOK
<1>2. ASSUME NEW b \in Builds, Build(b) \/ BuildCancel(b)
      PROVE  KnownOK'
  <2>1. CASE UNCHANGED schedVars
    BY <1>1, <2>1, KnownStays DEF schedVars
  <2>2. CASE BuildSchedule(b)
    <3>1. CurrentJob(b) \in JobIDs
      BY <2>2, PlanFacts DEF BuildSchedule, HasJob, CurrentJob, TypeOK
    <3>2. PICK job \in JobSpecs : Sched!ScheduleJob(job)
      BY <2>2, <3>1, SpecFacts DEF BuildSchedule
    <3>3. job.id \in JobIDs
      BY DEF JobSpecs
    <3>4. completed' = completed
      BY <3>2, ScheduleEffect
    <3>5. \A h \in Sched!Pointers' : allocated'[h].result \in Good =>
            allocated'[h].job.id \in Committed
      BY <1>1, <3>2, <3>3, ScheduleEffect DEF KnownOK, Sched!JobOf
    <3> QED
      BY <1>1, <3>4, <3>5 DEF KnownOK, Sched!JobOf
  <2> QED
    BY <1>2, <2>1, <2>2 DEF Build, BuildRefused, BuildWake, BuildFinish, BuildCancel
<1>3. ASSUME NEW w \in Workers, NEW id \in JobIDs, NEW res \in Results \cup {NoResult},
             Sched!OnJobComplete(w, id, res), res \in Good => id \in disk[w]
      PROVE  KnownOK'
  <2>1. res \in Good => id \in Committed
    BY <1>3 DEF Committed
  <2>2. \A j \in JobIDs : completed'[j] = completed[j] \/ (j = id /\ completed'[j] = res)
    BY <1>3, CompleteEffect DEF Sched!IInv, Sched!TypeOK
  <2>3. \A j \in JobIDs : completed'[j] \in Good => j \in Committed
    BY <1>1, <2>1, <2>2 DEF KnownOK
  <2>4. \A h \in Sched!Pointers' : allocated'[h].result \in Good =>
            allocated'[h].job.id \in Committed
    BY <1>1, <1>3, <2>1, CompleteEffect DEF KnownOK, Sched!JobOf
  <2> QED
    BY <1>1, <2>3, <2>4 DEF KnownOK, Sched!JobOf
<1>4. ASSUME NEW w \in Workers, Run(w)
      PROVE  KnownOK'
  <2>1. CASE HandleFinished(w)
    <3>1. Head(request[w].finished) \in Truths(w)
      BY <2>1 DEF HandleFinished, TruthOK, TruthAt
    <3> QED
      BY <1>3, <2>1, <3>1 DEF HandleFinished, Truths, JobResults
  <2>2. CASE HandleAdded(w)
    <3>1. Head(request[w].added) \in disk[w] /\ Head(request[w].added) \in JobIDs
      BY <2>2 DEF HandleAdded, TruthOK, TruthAt, TypeOK, Requests
    <3> QED
      BY <1>3, <2>2, <3>1 DEF HandleAdded
  <2>3. CASE HandlerPicks(w) \/ HandlerInPick(w) \/ HandlerPicked(w)
    BY <1>1, <2>3, PickEffect, KnownStays DEF HandlerPicks, HandlerInPick, HandlerPicked
  <2>4. CASE UNCHANGED schedVars
    BY <1>1, <2>4, KnownStays DEF schedVars
  <2> QED
    BY <1>4, <2>1, <2>2, <2>3, <2>4 DEF Run, CollectFinished, CollectAdded, SendHeartbeat,
       Deliver, StartJob, NextHeartbeat
<1>5. ASSUME NEW w \in Workers,
             \/ \E id \in JobIDs : Job(w, id)
             \/ LoseRequest(w) \/ LoseResponse(w) \/ RestartWorker(w)
      PROVE  KnownOK'
  <2>1. UNCHANGED schedVars
    BY <1>5 DEF Job, JobEnds, JobCreate, JobCached, JobDownload, JobTransferFails,
       JobCommit, JobFail, JobDone, JobReport, JobAnnounce, JobExit, LoseRequest,
       LoseResponse, DropHeartbeat, RestartWorker
  <2> QED
    BY <1>1, <2>1, KnownStays DEF schedVars
<1>6. CASE RestartCoordinator
  <2>1. completed' = [id \in JobIDs |-> NoResult] /\ Len(allocated') = 0
    BY <1>6 DEF RestartCoordinator
  <2> QED
    BY <2>1 DEF KnownOK, Sched!Pointers, Good, NoResult
<1>7. CASE UNCHANGED vars
  BY <1>1, <1>7, KnownStays DEF vars, schedVars
<1> QED
  BY <1>2, <1>4, <1>5, <1>6, <1>7 DEF Next

(* What a worker has told and will tell: a step of another worker does not   *)
(* touch it.                                                                *)
Mail(w) == <<finishedCh[w], addedCh[w], request[w].finished, request[w].added,
             jobPc[w], outcome[w]>>

LEMMA MailElsewhere ==
  ASSUME TypeOK, NEW w \in Workers, NEW v \in Workers, v # w,
         \/ Run(w) \/ LoseRequest(w) \/ LoseResponse(w) \/ RestartWorker(w)
         \/ \E id \in JobIDs : Job(w, id)
  PROVE  UNCHANGED Mail(v)
BY MemoryElsewhere DEF Memory, Mail

LEMMA TruthElsewhere ==
  ASSUME NEW w \in Workers, TruthAt(w), UNCHANGED Mail(w),
         disk[w] \subseteq disk'[w], Truths(w) \subseteq Truths(w)'
  PROVE  TruthAt(w)'
<1>1. Seq(Truths(w)) \subseteq Seq(Truths(w)') /\ Seq(disk[w]) \subseteq Seq(disk'[w])
  BY SeqGrows
<1> QED
  BY <1>1 DEF TruthAt, Mail

LEMMA TailTyping ==
  ASSUME NEW T, NEW q \in Seq(T), q # <<>>
  PROVE  Tail(q) \in Seq(T) /\ Head(q) \in T
OBVIOUS

(* The heartbeat loop moves updates, it makes none up. *)
LEMMA TruthInLoop ==
  ASSUME TypeOK, NEW w \in Workers, TruthAt(w), Run(w)
  PROVE  TruthAt(w)'
<1>1. disk' = disk /\ Truths(w)' = Truths(w)
  BY DEF Run, CollectFinished, CollectAdded, SendHeartbeat, HandleFinished, HandleAdded,
     HandlerPicks, HandlerInPick, HandlerPicked, Deliver, StartJob, NextHeartbeat, cacheVars,
     Truths
<1>2. <<>> \in Seq(Truths(w)) /\ <<>> \in Seq(disk[w])
  OBVIOUS
<1>3. CASE CollectFinished(w)
  <2>1. /\ finishedCh'[w] = <<>> /\ addedCh'[w] = addedCh[w]
        /\ request'[w].finished = finishedCh[w] /\ request'[w].added = request[w].added
        /\ jobPc' = jobPc /\ outcome' = outcome
    BY <1>3, DeskFacts DEF CollectFinished, jobVars
  <2> QED
    BY <1>1, <1>2, <2>1 DEF TruthAt
<1>4. CASE CollectAdded(w)
  <2>1. /\ finishedCh'[w] = finishedCh[w] /\ addedCh'[w] = <<>>
        /\ request'[w].finished = request[w].finished /\ request'[w].added = addedCh[w]
        /\ jobPc' = jobPc /\ outcome' = outcome
    BY <1>4, DeskFacts DEF CollectAdded, jobVars
  <2> QED
    BY <1>1, <1>2, <2>1 DEF TruthAt
<1>5. CASE HandleFinished(w)
  <2>1. /\ finishedCh'[w] = finishedCh[w] /\ addedCh'[w] = addedCh[w]
        /\ request'[w].finished = Tail(request[w].finished)
        /\ request'[w].added = request[w].added
        /\ jobPc' = jobPc /\ outcome' = outcome
    BY <1>5, DeskFacts DEF HandleFinished, jobVars, chanVars
  <2>2. Tail(request[w].finished) \in Seq(Truths(w))
    BY <1>5 DEF HandleFinished, TruthAt
  <2> QED
    BY <1>1, <2>1, <2>2 DEF TruthAt
<1>6. CASE HandleAdded(w)
  <2>1. /\ finishedCh'[w] = finishedCh[w] /\ addedCh'[w] = addedCh[w]
        /\ request'[w].finished = request[w].finished
        /\ request'[w].added = Tail(request[w].added)
        /\ jobPc' = jobPc /\ outcome' = outcome
    BY <1>6, DeskFacts DEF HandleAdded, jobVars, chanVars
  <2>2. Tail(request[w].added) \in Seq(disk[w])
    <3>1. request[w].added \in Seq(disk[w]) /\ request[w].added # <<>>
      BY <1>6 DEF HandleAdded, TruthAt
    <3> QED
      BY <3>1, TailTyping
  <2> QED
    BY <1>1, <2>1, <2>2 DEF TruthAt
<1>7. CASE \/ SendHeartbeat(w) \/ HandlerPicks(w) \/ HandlerInPick(w) \/ HandlerPicked(w)
           \/ Deliver(w)
  <2>1. UNCHANGED Mail(w)
    BY <1>7, DeskFacts DEF SendHeartbeat, HandlerPicks, HandlerInPick, HandlerPicked, Deliver,
       Mail, jobVars, chanVars, loopVars
  <2> QED
    BY <1>1, <2>1, TruthElsewhere
<1>8. CASE StartJob(w)
  <2>1. finishedCh' = finishedCh /\ addedCh' = addedCh /\ request' = request /\ outcome' = outcome
    BY <1>8 DEF StartJob, chanVars, jobVars
  <2>2. \A id \in JobIDs : jobPc'[w][id] \in {"report", "announce"} => jobPc'[w][id] = jobPc[w][id]
    BY <1>8 DEF TypeOK, StartJob, jobVars
  <2> QED
    BY <1>1, <2>1, <2>2 DEF TruthAt
<1>9. CASE NextHeartbeat(w)
  <2>1. /\ finishedCh' = finishedCh /\ addedCh' = addedCh
        /\ request'[w].finished = <<>> /\ request'[w].added = <<>>
        /\ jobPc' = jobPc /\ outcome' = outcome
    BY <1>9, DeskFacts DEF NextHeartbeat, NoRequest, jobVars, chanVars
  <2> QED
    BY <1>1, <1>2, <2>1 DEF TruthAt
<1> QED
  BY <1>3, <1>4, <1>5, <1>6, <1>7, <1>8, <1>9 DEF Run

(* A job reports what became of it, and announces what it has committed.     *)
LEMMA TruthOfJob ==
  ASSUME TypeOK, TaskOK, NEW w \in Workers, NEW id \in JobIDs, TruthAt(w), Job(w, id),
         disk[w] \subseteq disk'[w], Truths(w) \subseteq Truths(w)'
  PROVE  TruthAt(w)'
<1>1. Seq(Truths(w)) \subseteq Seq(Truths(w)') /\ Seq(disk[w]) \subseteq Seq(disk'[w])
  BY SeqGrows
<1>2. request' = request
  BY JobFrame
<1>3. ASSUME NEW res \in Results, JobDone(w, id, res), UNCHANGED chanVars,
             res \in Good => id \in disk'[w]
      PROVE  TruthAt(w)'
  <2>1. /\ outcome'[w] = [outcome[w] EXCEPT ![id] = res]
        /\ jobPc'[w] = [jobPc[w] EXCEPT ![id] = "report"]
    BY <1>3 DEF JobDone, TypeOK
  <2>2. JobResult(id, res) \in Truths(w)'
    BY <1>3 DEF JobResult, JobResults, Truths
  <2>3. \A j \in JobIDs :
          /\ jobPc'[w][j] = "report" =>
               outcome'[w][j] \in Results /\ JobResult(j, outcome'[w][j]) \in Truths(w)'
          /\ jobPc'[w][j] = "announce" => j \in disk'[w]
    BY <2>1, <2>2 DEF TypeOK, TruthAt
  <2> QED
    BY <1>1, <1>2, <1>3, <2>3 DEF TruthAt, chanVars
<1>4. CASE JobCached(w, id)
  BY <1>3, <1>4 DEF JobCached, JobDone, Results, Good
<1>5. CASE JobCreate(w, id)
  <2>1. \A j \in JobIDs : jobPc'[w][j] \in {"report", "announce"} => jobPc'[w][j] = jobPc[w][j]
    BY <1>5 DEF JobCreate, TypeOK
  <2> QED
    BY <1>1, <1>2, <1>5, <2>1 DEF TruthAt, JobCreate, chanVars
<1>6. CASE JobDownload(w, id)
  <2>1. CASE JobDone(w, id, "failed")
    BY <1>3, <2>1 DEF JobDone, Results, Good
  <2>2. CASE UNCHANGED <<chanVars, jobVars>>
    BY <1>1, <1>2, <2>2 DEF TruthAt, chanVars, jobVars
  <2> QED
    BY <1>6, <2>1, <2>2 DEF JobDownload
<1>7. CASE JobCommit(w, id)
  <2>1. id \in disk'[w]
    BY <1>7 DEF JobCommit, TypeOK
  <2> QED
    BY <1>3, <1>7, <2>1 DEF JobCommit, JobDone, Results
<1>8. CASE JobFail(w, id)
  BY <1>3, <1>8 DEF JobFail, JobDone, Results, Good
<1>12. CASE JobTransferFails(w, id)
  BY <1>3, <1>12 DEF JobTransferFails, JobDone, Results, Good
<1>9. CASE JobReport(w, id)
  <2>1. /\ outcome[w][id] \in Results /\ JobResult(id, outcome[w][id]) \in Truths(w)'
        /\ finishedCh[w] \in Seq(Truths(w)')
    BY <1>1, <1>9 DEF TruthAt, JobReport
  <2>2. /\ finishedCh'[w] = Push(finishedCh[w], JobResult(id, outcome[w][id]))
        /\ addedCh' = addedCh /\ outcome' = outcome
        /\ jobPc'[w] = [jobPc[w] EXCEPT ![id] =
                          IF outcome[w][id] = "failed" THEN "exit" ELSE "announce"]
    BY <1>9 DEF JobReport, TypeOK
  <2>3. finishedCh'[w] \in Seq(Truths(w)')
    BY <2>1, <2>2, PushTyping
  <2>4. outcome[w][id] # "failed" => id \in disk'[w]
    BY <1>9 DEF TruthAt, JobReport, Truths, JobResult, Results, Good
  <2>5. \A j \in JobIDs :
          /\ jobPc'[w][j] = "report" =>
               outcome'[w][j] \in Results /\ JobResult(j, outcome'[w][j]) \in Truths(w)'
          /\ jobPc'[w][j] = "announce" => j \in disk'[w]
    BY <2>2, <2>4 DEF TypeOK, TruthAt
  <2> QED
    BY <1>1, <1>2, <2>2, <2>3, <2>5 DEF TruthAt
<1>10. CASE JobAnnounce(w, id)
  <2>1. id \in disk'[w] /\ addedCh[w] \in Seq(disk'[w])
    BY <1>1, <1>10 DEF TruthAt, JobAnnounce
  <2>2. /\ addedCh'[w] = Push(addedCh[w], id) /\ finishedCh' = finishedCh /\ outcome' = outcome
        /\ jobPc'[w] = [jobPc[w] EXCEPT ![id] = "exit"]
    BY <1>10 DEF JobAnnounce, TypeOK
  <2>3. addedCh'[w] \in Seq(disk'[w])
    BY <2>1, <2>2, PushTyping
  <2>4. \A j \in JobIDs : jobPc'[w][j] \in {"report", "announce"} => jobPc'[w][j] = jobPc[w][j]
    BY <2>2 DEF TypeOK
  <2> QED
    BY <1>1, <1>2, <2>2, <2>3, <2>4 DEF TruthAt
<1>11. CASE JobExit(w, id)
  <2>1. /\ \A j \in JobIDs : jobPc'[w][j] \in {"report", "announce"} =>
             jobPc'[w][j] = jobPc[w][j] /\ outcome'[w][j] = outcome[w][j]
    BY <1>11 DEF JobExit, TypeOK
  <2> QED
    BY <1>1, <1>2, <1>11, <2>1 DEF TruthAt, JobExit, chanVars
<1> QED
  BY <1>4, <1>5, <1>6, <1>7, <1>8, <1>9, <1>10, <1>11, <1>12 DEF Job, JobEnds

(* What reaches the coordinator, and what is on its way there, is true in    *)
(* every state that a step leads to.                                        *)
LEMMA TruthStep ==
  ASSUME TypeOK, TaskOK, Sched!IInv, TruthOK, [Next]_vars
  PROVE  TruthOK'
<1> SUFFICES ASSUME NEW v \in Workers
             PROVE  TruthAt(v)'
  BY KnownStep DEF TruthOK
<1>1. disk[v] \subseteq disk'[v] /\ Truths(v) \subseteq Truths(v)' /\ TruthAt(v)
  BY DisksGrow DEF TruthOK
<1>2. CASE (\E b \in Builds : Build(b) \/ BuildCancel(b)) \/ UNCHANGED vars
  <2>1. UNCHANGED <<loopVars, chanVars, jobVars>>
    BY <1>2 DEF Build, BuildSchedule, BuildRefused, BuildWake, BuildFinish, BuildCancel, vars
  <2>2. UNCHANGED Mail(v)
    BY <2>1 DEF Mail, loopVars, chanVars, jobVars
  <2> QED
    BY <1>1, <2>2, TruthElsewhere
<1>3. ASSUME NEW w \in Workers, Run(w)
      PROVE  TruthAt(v)'
  BY <1>1, <1>3, MailElsewhere, TruthElsewhere, TruthInLoop
<1>4. ASSUME NEW w \in Workers, NEW id \in JobIDs, Job(w, id)
      PROVE  TruthAt(v)'
  BY <1>1, <1>4, MailElsewhere, TruthElsewhere, TruthOfJob
<1>5. Seq(Truths(v)) \subseteq Seq(Truths(v)') /\ Seq(disk[v]) \subseteq Seq(disk'[v])
      /\ <<>> \in Seq(Truths(v)') /\ <<>> \in Seq(disk'[v])
  BY <1>1, SeqGrows
<1>6. ASSUME NEW w \in Workers, LoseRequest(w) \/ LoseResponse(w) \/ RestartWorker(w)
      PROVE  TruthAt(v)'
  <2>1. CASE v # w
    BY <1>1, <1>6, <2>1, MailElsewhere, TruthElsewhere
  <2>2. CASE v = w /\ RestartWorker(w)
    <3>1. /\ finishedCh'[v] = <<>> /\ addedCh'[v] = <<>>
          /\ request'[v].finished = <<>> /\ request'[v].added = <<>>
          /\ jobPc'[v] = [id \in JobIDs |-> "none"]
      BY <2>2 DEF RestartWorker, TypeOK, NoRequest
    <3> QED
      BY <1>5, <3>1 DEF TruthAt
  <2>3. CASE v = w /\ (LoseRequest(w) \/ LoseResponse(w))
    <3>1. /\ finishedCh' = finishedCh /\ addedCh' = addedCh
          /\ request'[v].finished = <<>> /\ request'[v].added = <<>>
          /\ jobPc' = jobPc /\ outcome' = outcome /\ disk' = disk
      BY <2>3 DEF LoseRequest, LoseResponse, DropHeartbeat, TypeOK, NoRequest, chanVars,
         jobVars, cacheVars
    <3> QED
      BY <1>1, <1>5, <3>1 DEF TruthAt
  <2> QED
    BY <1>6, <2>1, <2>2, <2>3
<1>7. CASE RestartCoordinator
  <2>1. /\ UNCHANGED <<chanVars, jobVars>>
        /\ \/ request'[v] = request[v]
           \/ request'[v].finished = <<>> /\ request'[v].added = <<>>
    BY <1>7 DEF RestartCoordinator, NoRequest
  <2> QED
    BY <1>1, <1>5, <2>1 DEF TruthAt, chanVars, jobVars
<1> QED
  BY <1>2, <1>3, <1>4, <1>6, <1>7 DEF Next

LEMMA TruthInit == Init => TruthOK
<1> SUFFICES ASSUME Init
             PROVE  TruthOK
  OBVIOUS
<1>1. KnownOK
  BY DEF Init, Sched!Init, KnownOK, Sched!Pointers, Good, NoResult
<1>2. ASSUME NEW w \in Workers
      PROVE  TruthAt(w)
  <2>1. /\ finishedCh[w] = <<>> /\ addedCh[w] = <<>> /\ request[w] = NoRequest
        /\ jobPc[w] = [id \in JobIDs |-> "none"]
    BY DEF Init
  <2>2. <<>> \in Seq(Truths(w)) /\ <<>> \in Seq(disk[w])
    OBVIOUS
  <2> QED
    BY <2>1, <2>2 DEF TruthAt, NoRequest
<1> QED
  BY <1>1, <1>2 DEF TruthOK

(* A job keeps its spec from startJob to the end of its work. *)
LEMMA TaskStep ==
  ASSUME TypeOK, TaskOK, [Next]_vars
  PROVE  TaskOK'
<1>1. CASE UNCHANGED <<jobPc, task>>
  BY <1>1 DEF TaskOK
<1>2. ASSUME NEW w \in Workers, StartJob(w)
      PROVE  TaskOK'
  <2>1. CASE UNCHANGED jobVars
    BY <1>1, <2>1 DEF jobVars
  <2>2. CASE \E spec \in jobsToRun[w] :
             /\ jobPc' = [jobPc EXCEPT ![w][spec.id] = "create"]
             /\ task' = [task EXCEPT ![w][spec.id] = spec]
    <3>1. \A spec \in jobsToRun[w] : spec \in JobSpecs /\ spec.id \in JobIDs
      BY DEF TypeOK, JobSpecs
    <3> QED
      BY <2>2, <3>1 DEF TypeOK, TaskOK
  <2> QED
    BY <1>2, <2>1, <2>2 DEF StartJob
<1>3. ASSUME NEW w \in Workers, NEW id \in JobIDs, Job(w, id)
      PROVE  TaskOK'
  <2>1. CASE JobCreate(w, id)
    BY <2>1 DEF JobCreate, TypeOK, TaskOK
  <2>2. CASE JobExit(w, id)
    BY <2>2 DEF JobExit, TypeOK, TaskOK
  <2>3. ASSUME NEW pc \in {"report", "exit", "announce"},
               jobPc' = [jobPc EXCEPT ![w][id] = pc], task' = task
        PROVE  TaskOK'
    BY <2>3 DEF TypeOK, TaskOK
  <2>4. CASE \E res \in Results : JobDone(w, id, res)
    BY <2>3, <2>4 DEF JobDone
  <2>5. CASE JobReport(w, id) \/ JobAnnounce(w, id)
    BY <2>3, <2>5 DEF JobReport, JobAnnounce
  <2> QED
    BY <1>1, <1>3, <2>1, <2>2, <2>4, <2>5 DEF Job, JobEnds, JobCached, JobDownload,
       JobTransferFails, JobCommit, JobFail, jobVars, Results
<1>4. ASSUME NEW w \in Workers, RestartWorker(w)
      PROVE  TaskOK'
  BY <1>4 DEF RestartWorker, TypeOK, TaskOK
<1>5. ASSUME NEW w \in Workers, Run(w), ~StartJob(w)
      PROVE  UNCHANGED <<jobPc, task>>
  BY <1>5 DEF Run, CollectFinished, CollectAdded, SendHeartbeat, HandleFinished, HandleAdded,
     HandlerPicks, HandlerInPick, HandlerPicked, Deliver, NextHeartbeat, jobVars
<1>6. ASSUME NEW b \in Builds, Build(b) \/ BuildCancel(b)
      PROVE  UNCHANGED <<jobPc, task>>
  BY <1>6 DEF Build, BuildSchedule, BuildRefused, BuildWake, BuildFinish, BuildCancel, jobVars
<1>7. ASSUME NEW w \in Workers, LoseRequest(w) \/ LoseResponse(w)
      PROVE  UNCHANGED <<jobPc, task>>
  BY <1>7 DEF LoseRequest, LoseResponse, DropHeartbeat, jobVars
<1>8. RestartCoordinator \/ UNCHANGED vars => UNCHANGED <<jobPc, task>>
  BY DEF RestartCoordinator, jobVars, vars
<1> QED
  BY <1>1, <1>2, <1>3, <1>4, <1>5, <1>6, <1>7, <1>8 DEF Next

-----------------------------------------------------------------------------
(* Builds.  A build waits for the PendingJob of its current job; the jobs    *)
(* before it are on some disk and, until the build ends, locatable.         *)
BuildAt(b) ==
  /\ position[b] <= Len(Plan[b]) + 1
  /\ buildPc[b] = "waiting" =>
       /\ HasJob(b)
       /\ waitsFor[b] \in Sched!Pointers
       /\ Sched!JobOf(waitsFor[b]) = CurrentJob(b)
  /\ \A i \in 1..(position[b] - 1) :
       /\ Plan[b][i] \in Committed
       /\ buildPc[b] \in {"next", "waiting"} => artifacts[Plan[b][i]] # {}
  /\ buildPc[b] = "finished" => position[b] = Len(Plan[b]) + 1
  /\ buildPc[b] = "refused" =>
       \E dep \in Deps[CurrentJob(b)] : \A i \in 1..(position[b] - 1) : Plan[b][i] # dep

LocatableOK == \A id \in JobIDs : completed[id] # NoResult => artifacts[id] # {}

BuildsOK == LocatableOK /\ \A b \in Builds : BuildAt(b)

(* While the coordinator lives, objects keep their jobs and the known        *)
(* locations only grow.                                                     *)
LEMMA SchedGrows ==
  ASSUME TypeOK, Sched!IInv, LocatableOK, [Next]_vars, ~RestartCoordinator
  PROVE  /\ Sched!Pointers \subseteq Sched!Pointers'
         /\ \A h \in Sched!Pointers : allocated'[h].job = allocated[h].job
         /\ \A id \in JobIDs : artifacts[id] \subseteq artifacts'[id]
         /\ LocatableOK'
<1> DEFINE Grows ==
      /\ Sched!Pointers \subseteq Sched!Pointers'
      /\ \A h \in Sched!Pointers : allocated'[h].job = allocated[h].job
      /\ \A id \in JobIDs : artifacts[id] \subseteq artifacts'[id]
      /\ LocatableOK'
<1>1. UNCHANGED <<completed, artifacts, allocated>> => Grows
  BY DEF LocatableOK, Sched!Pointers
<1>2. ASSUME NEW b \in Builds, Build(b) \/ BuildCancel(b)
      PROVE  Grows
  <2>1. CASE BuildSchedule(b)
    <3>1. CurrentJob(b) \in JobIDs
      BY <2>1, PlanFacts DEF BuildSchedule, HasJob, CurrentJob, TypeOK
    <3>2. PICK job \in JobSpecs : Sched!ScheduleJob(job)
      BY <2>1, <3>1, SpecFacts DEF BuildSchedule
    <3> QED
      BY <3>2, ScheduleEffect DEF LocatableOK
  <2> QED
    BY <1>1, <1>2, <2>1 DEF Build, BuildRefused, BuildWake, BuildFinish, BuildCancel, schedVars
<1>3. ASSUME NEW w \in Workers, NEW id \in JobIDs, NEW res \in Results \cup {NoResult},
             Sched!OnJobComplete(w, id, res)
      PROVE  Grows
  <2>1. artifacts \in [JobIDs -> SUBSET Workers] /\ completed \in [JobIDs -> Results \cup {NoResult}]
    BY DEF Sched!IInv, Sched!TypeOK
  <2>2. \A j \in JobIDs : /\ artifacts[j] \subseteq artifacts'[j]
                          /\ completed'[j] = completed[j] \/ w \in artifacts'[j]
    BY <1>3, <2>1, CompleteEffect
  <2>3. LocatableOK'
    BY <2>2 DEF LocatableOK
  <2> QED
    BY <1>3, <2>2, <2>3, CompleteEffect
<1>4. ASSUME NEW w \in Workers, Run(w)
      PROVE  Grows
  <2> HIDE DEF Grows
  <2>1. CASE HandleFinished(w)
    <3>1. Head(request[w].finished) \in JobResults
      BY <2>1 DEF HandleFinished, TypeOK, Requests
    <3> QED
      BY <1>3, <2>1, <3>1 DEF HandleFinished, JobResults
  <2>2. CASE HandleAdded(w)
    <3>1. Head(request[w].added) \in JobIDs
      BY <2>2 DEF HandleAdded, TypeOK, Requests
    <3> QED
      BY <1>3, <2>2, <3>1 DEF HandleAdded
  <2>3. CASE HandlerPicks(w) \/ HandlerInPick(w) \/ HandlerPicked(w)
    BY <1>1, <2>3, PickEffect DEF HandlerPicks, HandlerInPick, HandlerPicked
  <2> QED
    BY <1>1, <1>4, <2>1, <2>2, <2>3 DEF Run, CollectFinished, CollectAdded, SendHeartbeat,
       Deliver, StartJob, NextHeartbeat, schedVars
<1>5. ASSUME NEW w \in Workers,
             \/ \E id \in JobIDs : Job(w, id)
             \/ LoseRequest(w) \/ LoseResponse(w) \/ RestartWorker(w)
      PROVE  UNCHANGED schedVars
  BY <1>5 DEF Job, JobEnds, JobCreate, JobCached, JobDownload, JobTransferFails, JobCommit,
     JobFail, JobDone, JobReport, JobAnnounce, JobExit, LoseRequest, LoseResponse,
     DropHeartbeat, RestartWorker
<1>6. UNCHANGED vars => UNCHANGED schedVars
  BY DEF vars
<1> QED
  BY <1>1, <1>2, <1>4, <1>5, <1>6 DEF Next, schedVars

LEMMA BuildElsewhere ==
  ASSUME NEW b \in Builds, BuildAt(b), TypeOK,
         buildPc'[b] = buildPc[b], position'[b] = position[b], waitsFor'[b] = waitsFor[b],
         Sched!Pointers \subseteq Sched!Pointers',
         \A h \in Sched!Pointers : allocated'[h].job = allocated[h].job,
         \A id \in JobIDs : artifacts[id] \subseteq artifacts'[id],
         Committed \subseteq Committed'
  PROVE  BuildAt(b)'
<1>1. \A i \in 1..(position[b] - 1) : Plan[b][i] \in JobIDs
  BY DEF BuildAt, Committed
<1>2. /\ HasJob(b)' <=> HasJob(b)
      /\ CurrentJob(b)' = CurrentJob(b)
  BY DEF HasJob, CurrentJob
<1>3. waitsFor[b] \in Sched!Pointers =>
        waitsFor'[b] \in Sched!Pointers' /\ Sched!JobOf(waitsFor[b])' = Sched!JobOf(waitsFor[b])
  BY DEF Sched!JobOf
<1>4. \A i \in 1..(position[b] - 1) :
        /\ Plan[b][i] \in Committed'
        /\ buildPc[b] \in {"next", "waiting"} => artifacts'[Plan[b][i]] # {}
  BY <1>1 DEF BuildAt
<1> QED
  BY <1>2, <1>3, <1>4 DEF BuildAt, HasJob, CurrentJob, Sched!JobOf

(* The steps of a build itself. *)
LEMMA BuildActs ==
  ASSUME TypeOK, Sched!IInv, KnownOK, BuildsOK, NEW b \in Builds, Build(b) \/ BuildCancel(b)
  PROVE  BuildAt(b)'
<1>1. /\ BuildAt(b) /\ LocatableOK
      /\ Plan[b] \in Seq(JobIDs) /\ Len(Plan[b]) \in Nat
      /\ position[b] \in Nat \ {0}
  BY PlanFacts DEF BuildsOK, TypeOK
<1>2. disk' = disk /\ Committed' = Committed
  BY DEF Build, BuildSchedule, BuildRefused, BuildWake, BuildFinish, BuildCancel, cacheVars,
     Committed
<1>3. CASE BuildSchedule(b)
  <2> DEFINE cur == CurrentJob(b)
             h == IF allocated' = allocated THEN pending[cur] ELSE Len(allocated')
  <2>1. /\ buildPc[b] = "next" /\ HasJob(b) /\ position' = position
        /\ buildPc'[b] = "waiting" /\ waitsFor'[b] = h
    BY <1>3 DEF BuildSchedule, TypeOK
  <2>2. cur \in JobIDs
    BY <2>1, PlanFacts DEF HasJob, CurrentJob, TypeOK
  <2>3. PICK where \in Locations(Deps[cur]) :
          Sched!ScheduleJob([id |-> cur, artifacts |-> where])
    BY <1>3 DEF BuildSchedule
  <2> DEFINE job == [id |-> cur, artifacts |-> where]
  <2>4. job \in JobSpecs /\ job.id = cur
    BY <2>2, SpecFacts
  <2>5. artifacts' = artifacts /\ h \in Sched!Pointers' /\ allocated'[h].job.id = cur
    BY <2>3, <2>4, ScheduleEffect DEF Sched!JobOf
  <2>6. HasJob(b)' /\ CurrentJob(b)' = cur
    BY <2>1 DEF HasJob, CurrentJob
  <2> HIDE DEF h, cur
  <2> QED
    BY <1>1, <1>2, <2>1, <2>5, <2>6 DEF BuildAt, Sched!JobOf
<1>4. CASE BuildRefused(b)
  <2>1. /\ buildPc[b] = "next" /\ HasJob(b) /\ position' = position /\ artifacts' = artifacts
        /\ buildPc'[b] = "refused"
    BY <1>4 DEF BuildRefused, schedVars, TypeOK
  <2>2. PICK dep \in Deps[CurrentJob(b)] : artifacts[dep] = {}
    BY <1>4 DEF BuildRefused, Sched!LocateArtifact
  <2>3. \A i \in 1..(position[b] - 1) : Plan[b][i] # dep
    BY <1>1, <2>1, <2>2 DEF BuildAt
  <2>4. CurrentJob(b)' = CurrentJob(b)
    BY <2>1 DEF CurrentJob
  <2> QED
    BY <1>1, <1>2, <2>1, <2>3, <2>4 DEF BuildAt
<1>5. CASE BuildWake(b)
  <2> DEFINE h == waitsFor[b]
  <2>1. /\ buildPc[b] = "waiting" /\ ~Sched!Open(h) /\ artifacts' = artifacts
        /\ h \in Sched!Pointers /\ Sched!JobOf(h) = CurrentJob(b) /\ HasJob(b)
    BY <1>1, <1>5 DEF BuildWake, schedVars, BuildAt
  <2>2. CASE allocated[h].result = "failed"
    <3>1. buildPc'[b] = "failed" /\ position' = position
      BY <1>5, <2>2 DEF BuildWake, TypeOK
    <3> QED
      BY <1>1, <1>2, <3>1 DEF BuildAt
  <2>3. CASE allocated[h].result # "failed"
    <3>1. buildPc'[b] = "next" /\ position'[b] = position[b] + 1
      BY <1>5, <2>3 DEF BuildWake, TypeOK
    <3>2. allocated[h].result \in Good
      <4>1. allocated[h].result \in Results /\ Sched!JobOf(h) \in JobIDs
        BY <2>1, ObjectTypes DEF Sched!IInv, Sched!CloseOnce
      <4> QED
        BY <2>3, <4>1 DEF Results, Good
    <3>3. Plan[b][position[b]] \in Committed
      BY <2>1, <3>2 DEF KnownOK, CurrentJob
    <3>4. artifacts[Plan[b][position[b]]] # {}
      <4>1. completed[Sched!JobOf(h)] # NoResult /\ Sched!JobOf(h) \in JobIDs
        BY <2>1, ObjectTypes DEF Sched!IInv, Sched!ClosedIsKnown
      <4> QED
        BY <1>1, <2>1, <4>1 DEF LocatableOK, CurrentJob
    <3>5. \A i \in 1..(position'[b] - 1) : i = position[b] \/ i \in 1..(position[b] - 1)
      BY <1>1, <3>1
    <3>6. position'[b] <= Len(Plan[b]) + 1
      BY <1>1, <2>1, <3>1 DEF HasJob
    <3> QED
      BY <1>1, <1>2, <2>1, <3>1, <3>3, <3>4, <3>5, <3>6 DEF BuildAt
  <2> QED
    BY <2>2, <2>3
<1>6. CASE BuildFinish(b)
  <2>1. /\ buildPc'[b] = "finished" /\ position' = position /\ artifacts' = artifacts
        /\ position[b] = Len(Plan[b]) + 1
    <3>1. position[b] <= Len(Plan[b]) + 1 /\ ~(position[b] <= Len(Plan[b]))
      BY <1>1, <1>6 DEF BuildFinish, HasJob, BuildAt
    <3>2. position[b] = Len(Plan[b]) + 1
      BY <1>1, <3>1
    <3> QED
      BY <1>6, <3>2 DEF BuildFinish, schedVars, TypeOK
  <2> QED
    BY <1>1, <1>2, <2>1 DEF BuildAt
<1>7. CASE BuildCancel(b)
  <2>1. buildPc'[b] = "cancelled" /\ position' = position /\ artifacts' = artifacts
    BY <1>7 DEF BuildCancel, schedVars, TypeOK
  <2> QED
    BY <1>1, <1>2, <2>1 DEF BuildAt
<1> QED
  BY <1>3, <1>4, <1>5, <1>6, <1>7 DEF Build

LEMMA BuildsStep ==
  ASSUME TypeOK, TaskOK, Sched!IInv, KnownOK, BuildsOK, [Next]_vars
  PROVE  BuildsOK'
<1>1. Committed \subseteq Committed'
  BY DisksGrow
<1>2. CASE ~RestartCoordinator
  <2>1. LocatableOK'
    BY <1>2, SchedGrows DEF BuildsOK
  <2>2. ASSUME NEW b \in Builds,
               buildPc'[b] = buildPc[b], position'[b] = position[b], waitsFor'[b] = waitsFor[b]
        PROVE  BuildAt(b)'
    BY <1>1, <1>2, <2>2, SchedGrows, BuildElsewhere DEF BuildsOK
  <2>3. ASSUME NEW b \in Builds, NEW a \in Builds, Build(a) \/ BuildCancel(a)
        PROVE  BuildAt(b)'
    <3>1. CASE a = b
      BY <2>3, <3>1, BuildActs
    <3>2. CASE a # b
      <4>1. /\ buildPc'[b] = buildPc[b] /\ position'[b] = position[b]
            /\ waitsFor'[b] = waitsFor[b]
        BY <2>3, <3>2 DEF TypeOK, Build, BuildSchedule, BuildRefused, BuildWake, BuildFinish,
           BuildCancel
      <4> QED
        BY <2>2, <4>1
    <3> QED
      BY <3>1, <3>2
  <2>4. ASSUME NEW w \in Workers, Run(w)
        PROVE  UNCHANGED buildVars
    BY <2>4 DEF Run, CollectFinished, CollectAdded, SendHeartbeat, HandleFinished,
       HandleAdded, HandlerPicks, HandlerInPick, HandlerPicked, Deliver, StartJob, NextHeartbeat
  <2>5. ASSUME NEW w \in Workers,
               \/ \E id \in JobIDs : Job(w, id)
               \/ LoseRequest(w) \/ LoseResponse(w) \/ RestartWorker(w)
        PROVE  UNCHANGED buildVars
    BY <2>5 DEF Job, JobEnds, JobCreate, JobCached, JobDownload, JobTransferFails,
       JobCommit, JobFail, JobDone, JobReport, JobAnnounce, JobExit, LoseRequest,
       LoseResponse, DropHeartbeat, RestartWorker
  <2>6. UNCHANGED vars => UNCHANGED buildVars
    BY DEF vars
  <2>7. \A b \in Builds : BuildAt(b)'
    BY <1>2, <2>2, <2>3, <2>4, <2>5, <2>6 DEF Next, buildVars
  <2> QED
    BY <2>1, <2>7 DEF BuildsOK
<1>3. CASE RestartCoordinator
  <2>1. LocatableOK'
    BY <1>3 DEF RestartCoordinator, LocatableOK
  <2>2. ASSUME NEW b \in Builds
        PROVE  BuildAt(b)'
    <3>1. /\ BuildAt(b) /\ position'[b] = position[b] /\ position[b] \in Nat \ {0}
          /\ CurrentJob(b)' = CurrentJob(b)
      BY <1>3 DEF RestartCoordinator, BuildsOK, TypeOK, CurrentJob
    <3>2. /\ buildPc'[b] # "waiting"
          /\ buildPc'[b] = "next" => position[b] = 1
          /\ buildPc'[b] \in {"finished", "refused"} => buildPc'[b] = buildPc[b]
      <4>1. buildPc'[b] = IF buildPc[b] = "waiting" \/ (buildPc[b] = "next" /\ position[b] > 1)
                          THEN "lost" ELSE buildPc[b]
        BY <1>3 DEF RestartCoordinator
      <4> QED
        BY <3>1, <4>1
    <3> QED
      BY <1>1, <3>1, <3>2 DEF BuildAt
  <2> QED
    BY <2>1, <2>2 DEF BuildsOK
<1> QED
  BY <1>2, <1>3

LEMMA BuildsInit == Init => BuildsOK
<1> SUFFICES ASSUME Init
             PROVE  BuildsOK
  OBVIOUS
<1>1. LocatableOK
  BY DEF Init, Sched!Init, LocatableOK
<1>2. ASSUME NEW b \in Builds
      PROVE  BuildAt(b)
  BY PlanFacts DEF Init, BuildAt
<1> QED
  BY <1>1, <1>2 DEF BuildsOK

-----------------------------------------------------------------------------
(* The inductive invariant: every part is needed for the next one. *)
SafeInv == TypeOK /\ Sched!IInv /\ RoomOK /\ TaskOK /\ TruthOK /\ BuildsOK

LEMMA TypingStep ==
  ASSUME SafeInv, [Next]_vars
  PROVE  TypeOK'
<1>1. Sched!IInv'
  BY SchedStep DEF SafeInv
<1>2. Sched!IInv' => Sched!TypeOK'
  BY DEF Sched!IInv
<1>3. ASSUME NEW w \in Workers, NEW id \in JobIDs, Job(w, id)
      PROVE  TypeOK'
  BY <1>1, <1>2, <1>3, JobTyping DEF SafeInv, TruthOK, TruthAt
<1>4. ASSUME NEW w \in Workers, Run(w)
      PROVE  TypeOK'
  BY <1>1, <1>2, <1>4, LoopTyping DEF SafeInv, RoomOK
<1>5. CASE UNCHANGED vars
  <2>1. BuildTypes' /\ LoopTypes' /\ ChanTypes' /\ JobTypes' /\ CacheTypes' /\ EnvTypes'
    BY <1>5, TypeParts DEF SafeInv, vars, buildVars, loopVars, chanVars, jobVars, cacheVars,
       envVars, faultVars, pastVars, BuildTypes, LoopTypes, ChanTypes, JobTypes, CacheTypes,
       EnvTypes
  <2> QED
    BY <1>1, <1>2, <2>1, TypePartsNext
<1>6. CASE RestartCoordinator
  <2>1. BuildTypes'
    BY <1>6, TypeParts DEF SafeInv, BuildTypes, BuildPcs, RestartCoordinator, Nil
  <2>2. LoopTypes'
    BY <1>6, TypeParts, NoRequestTyping DEF SafeInv, LoopTypes, WorkerPcs, RestartCoordinator
  <2>3. ChanTypes' /\ JobTypes' /\ CacheTypes' /\ EnvTypes'
    BY <1>6, TypeParts DEF SafeInv, ChanTypes, JobTypes, CacheTypes, EnvTypes,
       RestartCoordinator, chanVars, jobVars, cacheVars, pastVars
  <2> QED
    BY <1>1, <1>2, <2>1, <2>2, <2>3, TypePartsNext
<1>7. ASSUME NEW w \in Workers, LoseRequest(w) \/ LoseResponse(w) \/ RestartWorker(w)
      PROVE  TypeOK'
  BY <1>1, <1>2, <1>7, FaultTyping DEF SafeInv
<1>8. ASSUME NEW b \in Builds, Build(b) \/ BuildCancel(b)
      PROVE  TypeOK'
  BY <1>1, <1>2, <1>8, BuildTyping DEF SafeInv
<1> QED
  BY <1>3, <1>4, <1>5, <1>6, <1>7, <1>8 DEF Next

LEMMA SafeStep == SafeInv /\ [Next]_vars => SafeInv'
<1> SUFFICES ASSUME SafeInv, [Next]_vars
             PROVE  SafeInv'
  OBVIOUS
<1>1. TypeOK' /\ Sched!IInv'
  BY TypingStep, SchedStep DEF SafeInv
<1>2. RoomOK' /\ TaskOK' /\ TruthOK' /\ BuildsOK'
  BY RoomStep, TaskStep, TruthStep, BuildsStep DEF SafeInv, TruthOK
<1> QED
  BY <1>1, <1>2 DEF SafeInv

LEMMA SafeInit == Init => SafeInv
<1>1. Init => TaskOK
  BY DEF Init, TaskOK
<1>2. Init => Sched!IInv
  BY SchedInit DEF Init
<1> QED
  BY <1>1, <1>2, TypingInit, RoomInit, TruthInit, BuildsInit DEF SafeInv

LEMMA Safety == Spec => []SafeInv
BY SafeInit, SafeStep, PTL DEF Spec

(* Every reachable state of the cluster is well typed, whatever is lost and  *)
(* whoever restarts: free slots are never negative, and every pointer the    *)
(* builds and the handlers hold is one the scheduler has returned.          *)
THEOREM TypeCorrect == Spec => []TypeOK
BY Safety, PTL DEF SafeInv

(* No result and no artifact is dropped for want of room in a channel, for   *)
(* any number of slots and any channels of twice that capacity.             *)
LEMMA RoomForReports == TypeOK /\ RoomOK => NoReportIsDropped
<1> SUFFICES ASSUME TypeOK, RoomOK, NEW w \in Workers, NEW id \in JobIDs
             PROVE  /\ jobPc[w][id] = "report" => Len(finishedCh[w]) < ChanCap
                    /\ jobPc[w][id] = "announce" => Len(addedCh[w]) < ChanCap
  BY DEF NoReportIsDropped
<1> DEFINE r == Cardinality(running[w])
           n == Cardinality(jobsToRun[w])
           busy == Cardinality(Busy(w))
           una == Cardinality(Unannounced(w))
           free == request[w].free
           fin == Len(finishedCh[w])
           add == Len(addedCh[w])
<1>1. MaxSlots \in Nat /\ ChanCap \in Nat /\ ChanCap >= MaxSlots + MaxSlots
  BY SlotsAssumption
<1>2. /\ r \in Nat /\ n \in Nat /\ busy \in Nat /\ una \in Nat
      /\ fin \in Nat /\ add \in Nat /\ free \in Nat
      /\ IsFiniteSet(Busy(w)) /\ IsFiniteSet(Unannounced(w))
      /\ Fits(workerPc[w], r, busy, una, n, free, fin, add)
  BY CountFacts DEF RoomOK, RoomAt
<1>3. jobPc[w][id] = "report" => busy # 0
  BY <1>2, FS_EmptySet DEF Busy
<1>4. jobPc[w][id] = "announce" => una # 0
  BY <1>2, FS_EmptySet DEF Unannounced
<1> HIDE DEF r, n, busy, una, free, fin, add
<1>5. /\ busy # 0 => fin < ChanCap
      /\ una # 0 => add < ChanCap
  BY <1>1, <1>2 DEF Fits
<1> QED
  BY <1>3, <1>4, <1>5 DEF fin, add

THEOREM ReportsAreNotDropped == Spec => []NoReportIsDropped
BY Safety, RoomForReports, PTL DEF SafeInv

(* Success is never known of an artifact that no disk holds. *)
THEOREM SuccessIsOnADisk == Spec => []SuccessHasAnArtifact
<1>1. SafeInv => SuccessHasAnArtifact
  BY DEF SafeInv, TruthOK, KnownOK, Good, Committed, SuccessHasAnArtifact
<1> QED
  BY <1>1, Safety, PTL

(* A finished build has every job of its plan on some disk, whatever was     *)
(* lost, and whoever has restarted since.                                   *)
THEOREM FinishedBuildsAreComplete == Spec => []FinishedBuildIsComplete
<1>1. SafeInv => FinishedBuildIsComplete
  <2> SUFFICES ASSUME SafeInv, NEW b \in Builds, buildPc[b] = "finished",
                      NEW i \in DOMAIN Plan[b]
               PROVE  \E w \in Workers : Plan[b][i] \in disk[w]
    BY DEF FinishedBuildIsComplete
  <2>1. i \in 1..(position[b] - 1)
    BY PlanFacts DEF SafeInv, BuildsOK, BuildAt
  <2> QED
    BY <2>1 DEF SafeInv, BuildsOK, BuildAt, Committed
<1> QED
  BY <1>1, Safety, PTL

(* A build is refused only for a dependency that is not among the jobs it    *)
(* has built.                                                               *)
THEOREM RefusalsAreJustified == Spec => []RefusedBuildLacksADependency
<1>1. SafeInv => RefusedBuildLacksADependency
  BY DEF SafeInv, BuildsOK, BuildAt, RefusedBuildLacksADependency
<1> QED
  BY <1>1, Safety, PTL

-----------------------------------------------------------------------------
(* One place.  What a worker carries of the jobs it was given: those in its  *)
(* response, those at work, those whose report waits or is being handled.   *)
IdsOf(q) == {q[i].id : i \in DOMAIN q}
InResponse(w) == {spec.id : spec \in jobsToRun[w]}
InChannel(w) == IdsOf(finishedCh[w])
InRequest(w) == IdsOf(request[w].finished)
Carried(w) == InResponse(w) \cup Busy(w) \cup InChannel(w) \cup InRequest(w)

\* The jobs that PickJob has handed out and its caller has taken.
Taken == {Sched!JobOf(h) : h \in {g \in handed : \A w \in Workers : got[w] # g}}

Single(q) == \A i, j \in DOMAIN q : q[i].id = q[j].id => i = j

OnceAt(w) ==
  /\ Single(finishedCh[w]) /\ Single(request[w].finished)
  /\ \A s, t \in jobsToRun[w] : s.id = t.id => s = t
  /\ InResponse(w) \cap (Held(w) \cup InChannel(w) \cup InRequest(w)) = {}
  /\ Busy(w) \cap (InChannel(w) \cup InRequest(w)) = {}
  /\ InChannel(w) \cap InRequest(w) = {}

OnceOK ==
  /\ \A w \in Workers : OnceAt(w)
  /\ \A w, v \in Workers : w # v => Carried(w) \cap Carried(v) = {}
  /\ \A w \in Workers : Carried(w) \cup Held(w) \subseteq Taken
  /\ \A id \in JobIDs : completed[id] # NoResult =>
       id \in Taken /\ \A w \in Workers : id \notin Carried(w)

(* A job is handed to one call of PickJob: what somebody is being handed has *)
(* not been taken before.                                                   *)
LEMMA HandedOnce ==
  ASSUME Sched!IInv, NEW w \in Workers, got[w] # Nil
  PROVE  /\ got[w] \in Sched!Pointers /\ got[w] \in handed
         /\ Sched!JobOf(got[w]) \notin Taken
<1>1. got[w] \in Sched!Pointers /\ got[w] \in handed /\ handed \subseteq Sched!Pointers
  BY DEF Sched!IInv, Sched!TypeOK, Sched!GotWasHanded, Sched!Nil, Nil
<1>2. \A h \in handed : Sched!JobOf(h) = Sched!JobOf(got[w]) => h = got[w]
  BY <1>1 DEF Sched!IInv, Sched!JobIsHandedOnce
<1> QED
  BY <1>1, <1>2 DEF Taken

LEMMA QueuedIsNotTaken ==
  ASSUME Sched!IInv, NEW i \in DOMAIN queue
  PROVE  /\ queue[i] \in Sched!Pointers /\ queue[i] \notin handed
         /\ Sched!JobOf(queue[i]) \notin Taken
<1>1. queue[i] \in Sched!Pointers /\ handed \subseteq Sched!Pointers
  BY DEF Sched!IInv, Sched!TypeOK
<1>2. Sched!InQueue(queue[i])
  BY DEF Sched!InQueue
<1>3. queue[i] \notin handed
  BY <1>1, <1>2 DEF Sched!IInv, Sched!NoJobIsLost
<1>4. \A h \in handed : Sched!JobOf(h) # Sched!JobOf(queue[i])
  BY <1>1, <1>2, <1>3 DEF Sched!IInv, Sched!JobIsHandedOnce
<1> QED
  BY <1>1, <1>3, <1>4 DEF Taken

(* What has been taken stays taken. *)
LEMMA TakenGrows ==
  ASSUME SafeInv, [Next]_vars, ~RestartCoordinator
  PROVE  Taken \subseteq Taken'
<1> USE DEF SafeInv
<1> SUFFICES ASSUME NEW h \in handed, \A w \in Workers : got[w] # h
             PROVE  h \in handed' /\ (\A w \in Workers : got'[w] # h) /\ Sched!JobOf(h)' = Sched!JobOf(h)
  BY DEF Taken
<1>1. h \in Sched!Pointers
  BY DEF Sched!IInv, Sched!TypeOK
<1>2. allocated'[h].job = allocated[h].job
  BY <1>1, SchedGrows DEF BuildsOK
<1>3. UNCHANGED <<got, handed>> => h \in handed' /\ \A w \in Workers : got'[w] # h
  OBVIOUS
<1>4. ASSUME NEW b \in Builds, Build(b) \/ BuildCancel(b)
      PROVE  UNCHANGED <<got, handed>>
  <2>1. CASE BuildSchedule(b)
    <3>1. CurrentJob(b) \in JobIDs
      BY <2>1, PlanFacts DEF BuildSchedule, HasJob, CurrentJob, TypeOK
    <3>2. PICK job \in JobSpecs : Sched!ScheduleJob(job)
      BY <2>1, <3>1, SpecFacts DEF BuildSchedule
    <3> QED
      BY <3>2, ScheduleEffect
  <2> QED
    BY <1>4, <2>1 DEF Build, BuildRefused, BuildWake, BuildFinish, BuildCancel, schedVars
<1>5. ASSUME NEW w \in Workers, Run(w)
      PROVE  h \in handed' /\ \A v \in Workers : got'[v] # h
  <2>1. CASE HandleFinished(w) \/ HandleAdded(w)
    BY <1>3, <2>1 DEF HandleFinished, HandleAdded, Sched!OnJobComplete, Sched!pickVars
  <2>2. CASE HandlerPicks(w)
    BY <1>3, <2>2 DEF HandlerPicks, Sched!PickCall, Sched!pickVars
  <2>3. CASE HandlerPicked(w)
    <3>1. handed' = handed /\ got' = [got EXCEPT ![w] = Nil] /\ h # Nil
      BY <1>1, <2>3 DEF HandlerPicked, Sched!PickReturn, Sched!Nil, Nil, Sched!Pointers
    <3> QED
      BY <3>1 DEF Sched!IInv, Sched!TypeOK
  <2>4. CASE HandlerInPick(w)
    <3>1. CASE Sched!PickHead(w)
      <4>1. 1 \in DOMAIN queue /\ Head(queue) = queue[1]
        BY <3>1 DEF Sched!PickHead, Sched!IInv, Sched!TypeOK
      <4>2. Head(queue) # h
        BY <4>1, QueuedIsNotTaken
      <4>3. handed \subseteq handed' /\ got' = [got EXCEPT ![w] = Head(queue)]
        BY <3>1 DEF Sched!PickHead
      <4> QED
        BY <4>2, <4>3 DEF Sched!IInv, Sched!TypeOK
    <3> QED
      BY <1>3, <2>4, <3>1 DEF HandlerInPick, Sched!PickStep, Sched!PickStopped, Sched!PickEmpty,
         Sched!PickToken, Sched!PickPark, Sched!PickCancelled, Sched!pickVars
  <2> QED
    BY <1>3, <1>5, <2>1, <2>2, <2>3, <2>4 DEF Run, CollectFinished, CollectAdded, SendHeartbeat,
       Deliver, StartJob, NextHeartbeat, schedVars
<1>6. ASSUME NEW w \in Workers,
             \/ \E id \in JobIDs : Job(w, id)
             \/ LoseRequest(w) \/ LoseResponse(w) \/ RestartWorker(w)
      PROVE  UNCHANGED <<got, handed>>
  BY <1>6 DEF Job, JobEnds, JobCreate, JobCached, JobDownload, JobTransferFails, JobCommit,
     JobFail, JobDone, JobReport, JobAnnounce, JobExit, LoseRequest, LoseResponse,
     DropHeartbeat, RestartWorker, schedVars
<1>7. UNCHANGED vars => UNCHANGED <<got, handed>>
  BY DEF vars, schedVars
<1>8. h \in handed' /\ \A w \in Workers : got'[w] # h
  BY <1>3, <1>4, <1>5, <1>6, <1>7 DEF Next
<1> QED
  BY <1>2, <1>8 DEF Sched!JobOf

(* The jobs that a queue of results is about. *)
LEMMA IdsOfEmpty == IdsOf(<<>>) = {} /\ Single(<<>>)
BY DEF IdsOf, Single

LEMMA IdsOfTail ==
  ASSUME NEW T, NEW q \in Seq(T), q # <<>>, Single(q)
  PROVE  /\ IdsOf(Tail(q)) \subseteq IdsOf(q) /\ Single(Tail(q))
         /\ Head(q).id \in IdsOf(q) /\ Head(q).id \notin IdsOf(Tail(q))
<1>1. /\ Len(q) \in Nat \ {0} /\ Head(q) = q[1] /\ 1 \in DOMAIN q
      /\ DOMAIN Tail(q) = 1..(Len(q) - 1) /\ DOMAIN q = 1..Len(q)
      /\ \A i \in 1..(Len(q) - 1) : Tail(q)[i] = q[i + 1] /\ i + 1 \in 1..Len(q)
  OBVIOUS
<1> QED
  BY <1>1 DEF IdsOf, Single

LEMMA IdsOfPush ==
  ASSUME NEW T, NEW q \in Seq(T), NEW x \in T, Single(q), x.id \notin IdsOf(q)
  PROVE  IdsOf(Push(q, x)) \subseteq IdsOf(q) \cup {x.id} /\ Single(Push(q, x))
<1>1. CASE Push(q, x) = q
  BY <1>1
<1>2. CASE Push(q, x) = Append(q, x)
  <2>1. /\ DOMAIN Append(q, x) = 1..(Len(q) + 1) /\ DOMAIN q = 1..Len(q) /\ Len(q) \in Nat
        /\ \A i \in 1..Len(q) : Append(q, x)[i] = q[i]
        /\ Append(q, x)[Len(q) + 1] = x
    OBVIOUS
  <2>2. \A i \in 1..(Len(q) + 1) : i \in 1..Len(q) \/ i = Len(q) + 1
    BY <2>1
  <2> QED
    BY <1>2, <2>1, <2>2 DEF IdsOf, Single
<1> QED
  BY <1>1, <1>2 DEF Push

(* What a step does to the jobs a worker carries: but for the job that a     *)
(* handler is handed it adds none, and it leaves each in one place.          *)
Bag(w) == <<jobsToRun[w], jobPc[w], finishedCh[w], request[w].finished>>

LEMMA OnceElsewhere ==
  ASSUME NEW w \in Workers, OnceAt(w), UNCHANGED Bag(w)
  PROVE  OnceAt(w)' /\ Carried(w)' = Carried(w) /\ Held(w)' = Held(w)
<1>1. /\ jobsToRun'[w] = jobsToRun[w] /\ jobPc'[w] = jobPc[w]
      /\ finishedCh'[w] = finishedCh[w] /\ request'[w].finished = request[w].finished
  BY DEF Bag
<1>2. /\ InResponse(w)' = InResponse(w) /\ InRequest(w)' = InRequest(w)
      /\ InChannel(w)' = InChannel(w) /\ Busy(w)' = Busy(w) /\ Held(w)' = Held(w)
  BY <1>1 DEF InResponse, InRequest, InChannel, IdsOf, Busy, Held
<1> QED
  BY <1>1, <1>2 DEF OnceAt, Carried

LEMMA OnceInLoop ==
  ASSUME TypeOK, NEW w \in Workers, OnceAt(w), Run(w), ~HandlerPicked(w)
  PROVE  OnceAt(w)' /\ Carried(w)' \subseteq Carried(w) /\ Held(w)' \subseteq Held(w) \cup Carried(w)
<1>1. CASE CollectFinished(w)
  <2>1. /\ finishedCh'[w] = <<>> /\ request'[w].finished = finishedCh[w]
        /\ jobsToRun' = jobsToRun /\ jobPc' = jobPc
    BY <1>1, DeskFacts DEF CollectFinished, jobVars
  <2>2. /\ InChannel(w)' = {} /\ InRequest(w)' = InChannel(w) /\ InResponse(w)' = InResponse(w)
        /\ Busy(w)' = Busy(w) /\ Held(w)' = Held(w)
    BY <2>1, IdsOfEmpty DEF InChannel, InRequest, IdsOf, InResponse, Busy, Held
  <2> QED
    BY <2>1, <2>2, IdsOfEmpty DEF OnceAt, Carried
<1>2. CASE HandleFinished(w)
  <2> DEFINE q == request[w].finished
  <2>1. /\ finishedCh' = finishedCh /\ request'[w].finished = Tail(q)
        /\ jobsToRun' = jobsToRun /\ jobPc' = jobPc
        /\ q \in Seq(JobResults) /\ q # <<>> /\ Single(q)
    BY <1>2, DeskFacts DEF HandleFinished, jobVars, chanVars, TypeOK, Requests, OnceAt
  <2>2. Single(Tail(q)) /\ IdsOf(Tail(q)) \subseteq IdsOf(q)
    BY <2>1, IdsOfTail
  <2>3. /\ InChannel(w)' = InChannel(w) /\ InRequest(w)' = IdsOf(Tail(q))
        /\ InRequest(w) = IdsOf(q) /\ InResponse(w)' = InResponse(w)
        /\ Busy(w)' = Busy(w) /\ Held(w)' = Held(w)
    BY <2>1 DEF InChannel, InRequest, IdsOf, InResponse, Busy, Held
  <2> HIDE DEF q
  <2>4. Single(finishedCh'[w]) /\ Single(request'[w].finished)
    BY <2>1, <2>2 DEF OnceAt
  <2> QED
    BY <2>1, <2>2, <2>3, <2>4 DEF OnceAt, Carried
<1>3. CASE StartJob(w)
  <2>1. PICK spec \in jobsToRun[w] :
          /\ jobsToRun' = [jobsToRun EXCEPT ![w] = @ \ {spec}]
          /\ \/ jobPc' = jobPc
             \/ jobPc' = [jobPc EXCEPT ![w][spec.id] = "create"]
    BY <1>3 DEF StartJob, jobVars
  <2>2. finishedCh' = finishedCh /\ request' = request
    BY <1>3 DEF StartJob, chanVars
  <2>3. jobsToRun'[w] = jobsToRun[w] \ {spec} /\ spec.id \in JobIDs /\ spec.id \in InResponse(w)
    BY <2>1 DEF TypeOK, JobSpecs, InResponse
  <2>4. InResponse(w)' = InResponse(w) \ {spec.id}
    BY <2>3 DEF InResponse, OnceAt
  <2>5. \/ Busy(w)' = Busy(w) /\ Held(w)' = Held(w)
        \/ Busy(w)' = Busy(w) \cup {spec.id} /\ Held(w)' = Held(w) \cup {spec.id}
    BY <2>1, <2>3 DEF TypeOK, Busy, Held
  <2>6. InChannel(w)' = InChannel(w) /\ InRequest(w)' = InRequest(w)
    BY <2>2 DEF InChannel, InRequest, IdsOf
  <2>7. Single(finishedCh'[w]) /\ Single(request'[w].finished)
        /\ \A s, t \in jobsToRun'[w] : s.id = t.id => s = t
    BY <2>2, <2>3 DEF OnceAt
  <2> QED
    BY <2>3, <2>4, <2>5, <2>6, <2>7 DEF OnceAt, Carried
<1>4. CASE NextHeartbeat(w)
  <2>1. /\ finishedCh' = finishedCh /\ request'[w].finished = <<>>
        /\ jobsToRun' = jobsToRun /\ jobPc' = jobPc
    BY <1>4, DeskFacts DEF NextHeartbeat, NoRequest, jobVars, chanVars
  <2>2. /\ InChannel(w)' = InChannel(w) /\ InRequest(w)' = {} /\ InResponse(w)' = InResponse(w)
        /\ Busy(w)' = Busy(w) /\ Held(w)' = Held(w)
    BY <2>1, IdsOfEmpty DEF InChannel, InRequest, IdsOf, InResponse, Busy, Held
  <2> QED
    BY <2>1, <2>2, IdsOfEmpty DEF OnceAt, Carried
<1>5. CASE \/ CollectAdded(w) \/ SendHeartbeat(w) \/ HandleAdded(w) \/ HandlerPicks(w)
           \/ HandlerInPick(w) \/ Deliver(w)
  <2>1. UNCHANGED Bag(w)
    BY <1>5, DeskFacts DEF CollectAdded, SendHeartbeat, HandleAdded, HandlerPicks, HandlerInPick,
       Deliver, Bag, jobVars, chanVars, loopVars
  <2> QED
    BY <2>1, OnceElsewhere
<1> QED
  BY <1>1, <1>2, <1>3, <1>4, <1>5 DEF Run

LEMMA OnceOfJob ==
  ASSUME TypeOK, NEW w \in Workers, NEW id \in JobIDs, OnceAt(w), Job(w, id),
         jobPc[w][id] = "report" => outcome[w][id] \in Results
  PROVE  OnceAt(w)' /\ Carried(w)' \subseteq Carried(w) /\ Held(w)' \subseteq Held(w)
<1>1. request' = request /\ jobsToRun' = jobsToRun
  BY JobFrame
<1>2. InResponse(w)' = InResponse(w) /\ InRequest(w)' = InRequest(w)
  BY <1>1 DEF InResponse, InRequest, IdsOf
<1>3. CASE JobReport(w, id)
  <2> DEFINE r == JobResult(id, outcome[w][id])
  <2>1. /\ jobPc[w][id] = "report" /\ finishedCh'[w] = Push(finishedCh[w], r)
        /\ r \in JobResults /\ r.id = id /\ finishedCh[w] \in Seq(JobResults)
    BY <1>3 DEF JobReport, TypeOK, JobResult, JobResults
  <2>2. PICK pc \in {"announce", "exit"} : jobPc'[w] = [jobPc[w] EXCEPT ![id] = pc]
    BY <1>3 DEF JobReport, TypeOK
  <2>3. Held(w)' = Held(w) /\ Busy(w)' = Busy(w) \ {id} /\ id \in Busy(w) /\ id \in Held(w)
    BY <2>1, <2>2 DEF TypeOK, Held, Busy
  <2>4. id \notin InChannel(w) /\ Single(finishedCh[w])
    BY <2>3 DEF OnceAt
  <2>5. Single(finishedCh'[w]) /\ InChannel(w)' \subseteq InChannel(w) \cup {id}
    BY <2>1, <2>4, IdsOfPush DEF InChannel
  <2>6. Single(request'[w].finished) /\ \A s, t \in jobsToRun'[w] : s.id = t.id => s = t
    BY <1>1 DEF OnceAt
  <2> QED
    BY <1>2, <2>3, <2>5, <2>6 DEF OnceAt, Carried
<1>4. CASE ~JobReport(w, id)
  <2>1. finishedCh' = finishedCh
    BY <1>4, JobFrame DEF JobAnnounce, JobExit, chanVars
  <2>2. Busy(w)' \subseteq Busy(w) /\ Held(w)' \subseteq Held(w)
    <3>1. CASE JobAnnounce(w, id) \/ JobExit(w, id)
      BY <3>1 DEF JobAnnounce, JobExit, TypeOK, Busy, Held
    <3>2. CASE jobPc[w][id] \in {"create", "deps"} /\
               (UNCHANGED jobPc \/ \E pc \in {"deps", "report"} : jobPc' = [jobPc EXCEPT ![w][id] = pc])
      BY <3>2 DEF TypeOK, Busy, Held
    <3> QED
      BY <1>4, <3>1, <3>2, JobFrame
  <2>3. InChannel(w)' = InChannel(w)
    BY <2>1 DEF InChannel, IdsOf
  <2>4. /\ Single(finishedCh'[w]) /\ Single(request'[w].finished)
        /\ \A s, t \in jobsToRun'[w] : s.id = t.id => s = t
    BY <1>1, <2>1 DEF OnceAt
  <2> QED
    BY <1>2, <2>2, <2>3, <2>4 DEF OnceAt, Carried
<1> QED
  BY <1>3, <1>4

LEMMA OnceAfterFault ==
  ASSUME TypeOK, NEW w \in Workers, OnceAt(w),
         LoseRequest(w) \/ LoseResponse(w) \/ RestartWorker(w)
  PROVE  OnceAt(w)' /\ Carried(w)' \subseteq Carried(w) /\ Held(w)' \subseteq Held(w)
<1>1. /\ jobsToRun'[w] = {} /\ request'[w].finished = <<>>
      /\ \/ finishedCh'[w] = finishedCh[w] /\ jobPc'[w] = jobPc[w]
         \/ finishedCh'[w] = <<>> /\ jobPc'[w] = [id \in JobIDs |-> "none"]
  BY DEF LoseRequest, LoseResponse, DropHeartbeat, RestartWorker, TypeOK, NoRequest, chanVars,
     jobVars
<1>2. /\ InResponse(w)' = {} /\ InRequest(w)' = {}
      /\ InChannel(w)' = InChannel(w) \/ InChannel(w)' = {}
      /\ Busy(w)' \subseteq Busy(w) /\ Held(w)' \subseteq Held(w)
  BY <1>1, IdsOfEmpty DEF InResponse, InRequest, InChannel, IdsOf, Busy, Held
<1>3. Single(finishedCh'[w]) /\ Single(request'[w].finished)
  BY <1>1, IdsOfEmpty DEF OnceAt
<1> QED
  BY <1>1, <1>2, <1>3 DEF OnceAt, Carried

(* The job that a handler is handed joins its response: nobody else has it. *)
LEMMA OnceWhenPicked ==
  ASSUME SafeInv, OnceOK, NEW w \in Workers, HandlerPicked(w)
  PROVE  /\ OnceAt(w)' /\ Held(w)' = Held(w)
         /\ \/ got[w] = Nil /\ Carried(w)' = Carried(w)
            \/ got[w] # Nil /\ Carried(w)' = Carried(w) \cup {Sched!JobOf(got[w])}
<1> USE DEF SafeInv
<1>1. /\ finishedCh' = finishedCh /\ request'[w].finished = request[w].finished /\ jobPc' = jobPc
      /\ IF got[w] = Nil THEN jobsToRun'[w] = jobsToRun[w]
                         ELSE jobsToRun'[w] = jobsToRun[w] \cup {allocated[got[w]].job}
  BY DeskFacts DEF HandlerPicked, jobVars, chanVars
<1>2. /\ InChannel(w)' = InChannel(w) /\ InRequest(w)' = InRequest(w)
      /\ Busy(w)' = Busy(w) /\ Held(w)' = Held(w) /\ OnceAt(w)
  BY <1>1 DEF InChannel, InRequest, IdsOf, Busy, Held, OnceOK
<1>3. Single(finishedCh'[w]) /\ Single(request'[w].finished)
  BY <1>1, <1>2 DEF OnceAt
<1>4. CASE got[w] = Nil
  <2>1. InResponse(w)' = InResponse(w)
    BY <1>1, <1>4 DEF InResponse
  <2> QED
    BY <1>1, <1>2, <1>3, <1>4, <2>1 DEF OnceAt, Carried
<1>5. CASE got[w] # Nil
  <2> DEFINE job == allocated[got[w]].job
  <2>1. job.id \notin Taken /\ job.id = Sched!JobOf(got[w])
    BY <1>5, HandedOnce DEF Sched!JobOf
  <2>2. job.id \notin Carried(w) \cup Held(w)
    BY <2>1 DEF OnceOK
  <2>3. jobsToRun'[w] = jobsToRun[w] \cup {job}
    BY <1>1, <1>5
  <2> HIDE DEF job
  <2>4. InResponse(w)' = InResponse(w) \cup {job.id}
    BY <2>3 DEF InResponse
  <2>5. \A s, t \in jobsToRun'[w] : s.id = t.id => s = t
    <3>1. \A s \in jobsToRun[w] : s.id # job.id
      BY <2>2 DEF Carried, InResponse
    <3>2. \A s, t \in jobsToRun[w] : s.id = t.id => s = t
      BY <1>2 DEF OnceAt
    <3> QED
      BY <2>3, <3>1, <3>2
  <2> QED
    BY <1>2, <1>3, <1>5, <2>1, <2>2, <2>4, <2>5 DEF OnceAt, Carried
<1> QED
  BY <1>4, <1>5

(* No step but the handling of its report, by the worker that carries a job, *)
(* makes a result of it known.                                              *)
LEMMA KnownSteps ==
  ASSUME SafeInv, OnceOK, [Next]_vars, ~RestartCoordinator
  PROVE  \A id \in JobIDs : completed'[id] # completed[id] =>
           \E w \in Workers : HandleFinished(w) /\ id = Head(request[w].finished).id
<1> USE DEF SafeInv
<1> SUFFICES ASSUME NEW id \in JobIDs, completed'[id] # completed[id]
             PROVE  \E w \in Workers : HandleFinished(w) /\ id = Head(request[w].finished).id
  OBVIOUS
<1>1. completed \in [JobIDs -> Results \cup {NoResult}]
  BY DEF Sched!IInv, Sched!TypeOK
<1>2. ASSUME NEW b \in Builds, Build(b) \/ BuildCancel(b)
      PROVE  UNCHANGED completed
  <2>1. CASE BuildSchedule(b)
    <3>1. CurrentJob(b) \in JobIDs
      BY <2>1, PlanFacts DEF BuildSchedule, HasJob, CurrentJob, TypeOK
    <3>2. PICK job \in JobSpecs : Sched!ScheduleJob(job)
      BY <2>1, <3>1, SpecFacts DEF BuildSchedule
    <3> QED
      BY <3>2, ScheduleEffect
  <2> QED
    BY <1>2, <2>1 DEF Build, BuildRefused, BuildWake, BuildFinish, BuildCancel, schedVars
<1>3. ASSUME NEW w \in Workers, HandleAdded(w)
      PROVE  UNCHANGED completed
  <2>1. Head(request[w].added) \in JobIDs
    BY <1>3 DEF HandleAdded, TypeOK, Requests
  <2> QED
    BY <1>3, <2>1, CompleteEffect DEF HandleAdded
<1>4. ASSUME NEW w \in Workers, HandlerPicks(w) \/ HandlerInPick(w) \/ HandlerPicked(w)
      PROVE  UNCHANGED completed
  BY <1>4, PickEffect DEF HandlerPicks, HandlerInPick, HandlerPicked
<1>5. ASSUME NEW w \in Workers, HandleFinished(w)
      PROVE  id = Head(request[w].finished).id
  <2>1. Head(request[w].finished) \in JobResults
    BY <1>5 DEF HandleFinished, TypeOK, Requests
  <2> QED
    BY <1>1, <1>5, <2>1, CompleteEffect DEF HandleFinished, JobResults
<1>6. ASSUME NEW w \in Workers,
             \/ Run(w) /\ ~HandleFinished(w)
             \/ LoseRequest(w) \/ LoseResponse(w) \/ RestartWorker(w)
             \/ \E j \in JobIDs : Job(w, j)
      PROVE  UNCHANGED completed
  BY <1>3, <1>4, <1>6 DEF Run, CollectFinished, CollectAdded, SendHeartbeat, Deliver, StartJob,
     NextHeartbeat, Job, JobEnds, JobCreate, JobCached, JobDownload, JobTransferFails, JobCommit, JobFail,
     JobDone, JobReport, JobAnnounce, JobExit, LoseRequest, LoseResponse, DropHeartbeat,
     RestartWorker, schedVars
<1>7. UNCHANGED vars => UNCHANGED completed
  BY DEF vars, schedVars
<1> QED
  BY <1>2, <1>5, <1>6, <1>7 DEF Next

(* The report that is handled is the only trace of its job on the worker. *)
LEMMA HandledLeaves ==
  ASSUME TypeOK, NEW w \in Workers, OnceAt(w), HandleFinished(w)
  PROVE  /\ Head(request[w].finished).id \in Carried(w)
         /\ Head(request[w].finished).id \notin Carried(w)'
<1> DEFINE q == request[w].finished
<1>1. /\ finishedCh' = finishedCh /\ request'[w].finished = Tail(q)
      /\ jobsToRun' = jobsToRun /\ jobPc' = jobPc
      /\ q \in Seq(JobResults) /\ q # <<>> /\ Single(q)
  BY DeskFacts DEF HandleFinished, jobVars, chanVars, TypeOK, Requests, OnceAt
<1>2. Head(q).id \in IdsOf(q) /\ Head(q).id \notin IdsOf(Tail(q))
  BY <1>1, IdsOfTail
<1>3. /\ InChannel(w)' = InChannel(w) /\ InRequest(w)' = IdsOf(Tail(q))
      /\ InRequest(w) = IdsOf(q) /\ InResponse(w)' = InResponse(w) /\ Busy(w)' = Busy(w)
  BY <1>1 DEF InChannel, InRequest, IdsOf, InResponse, Busy
<1> QED
  BY <1>2, <1>3 DEF OnceAt, Carried

(* While the coordinator lives, no job comes to be in two places. *)
LEMMA OnceStep ==
  ASSUME SafeInv, OnceOK, [Next]_vars, ~RestartCoordinator
  PROVE  OnceOK'
<1> USE DEF SafeInv
<1>1. Taken \subseteq Taken'
  BY TakenGrows
<1>2. ASSUME NEW v \in Workers
      PROVE  /\ OnceAt(v)'
             /\ \/ /\ Carried(v)' \subseteq Carried(v)
                   /\ Held(v)' \subseteq Held(v) \cup Carried(v)
                \/ HandlerPicked(v)
  <2>1. OnceAt(v)
    BY DEF OnceOK
  <2>2. UNCHANGED Desk(v) /\ UNCHANGED Mail(v) => UNCHANGED Bag(v)
    BY DEF Desk, Mail, Bag
  <2>3. CASE (\E b \in Builds : Build(b) \/ BuildCancel(b)) \/ UNCHANGED vars
    <3>1. UNCHANGED <<loopVars, chanVars, jobVars>>
      BY <2>3 DEF Build, BuildSchedule, BuildRefused, BuildWake, BuildFinish, BuildCancel, vars
    <3>2. UNCHANGED Bag(v)
      BY <3>1 DEF Bag, loopVars, chanVars, jobVars
    <3> QED
      BY <2>1, <3>2, OnceElsewhere
  <2>4. ASSUME NEW w \in Workers, Run(w)
        PROVE  <1>2!2
    BY <2>1, <2>2, <2>4, DeskElsewhere, MailElsewhere, OnceElsewhere, OnceInLoop, OnceWhenPicked
  <2>5. ASSUME NEW w \in Workers, NEW id \in JobIDs, Job(w, id)
        PROVE  <1>2!2
    <3>1. CASE w # v
      BY <2>1, <2>2, <2>5, <3>1, DeskElsewhere, MailElsewhere, OnceElsewhere
    <3>2. CASE w = v
      <4>1. jobPc[w][id] = "report" => outcome[w][id] \in Results
        BY DEF TruthOK, TruthAt
      <4> QED
        BY <2>1, <2>5, <3>2, <4>1, OnceOfJob
    <3> QED
      BY <3>1, <3>2
  <2>6. ASSUME NEW w \in Workers, LoseRequest(w) \/ LoseResponse(w) \/ RestartWorker(w)
        PROVE  <1>2!2
    BY <2>1, <2>2, <2>6, DeskElsewhere, MailElsewhere, OnceElsewhere, OnceAfterFault
  <2> QED
    BY <2>3, <2>4, <2>5, <2>6 DEF Next
<1>3. CASE \A w \in Workers : ~HandlerPicked(w)
  <2>1. \A v \in Workers : Carried(v)' \subseteq Carried(v) /\ Held(v)' \subseteq Held(v) \cup Carried(v)
    BY <1>2, <1>3
  <2>2. \A w, v \in Workers : w # v => Carried(w)' \cap Carried(v)' = {}
    BY <2>1 DEF OnceOK
  <2>3. \A w \in Workers : Carried(w)' \cup Held(w)' \subseteq Taken'
    BY <1>1, <2>1 DEF OnceOK
  <2>4. ASSUME NEW id \in JobIDs, completed'[id] # NoResult
        PROVE  id \in Taken' /\ \A v \in Workers : id \notin Carried(v)'
    <3>1. CASE completed'[id] = completed[id]
      BY <1>1, <2>1, <2>4, <3>1 DEF OnceOK
    <3>2. CASE completed'[id] # completed[id]
      <4>1. PICK w \in Workers : HandleFinished(w) /\ id = Head(request[w].finished).id
        BY <3>2, KnownSteps
      <4>2. OnceAt(w)
        BY DEF OnceOK
      <4>3. id \in Carried(w) /\ id \notin Carried(w)'
        BY <4>1, <4>2, HandledLeaves
      <4>4. \A v \in Workers : v # w => id \notin Carried(v)'
        BY <2>1, <4>3 DEF OnceOK
      <4> QED
        BY <1>1, <4>3, <4>4 DEF OnceOK
    <3> QED
      BY <3>1, <3>2
  <2> QED
    BY <1>2, <2>2, <2>3, <2>4 DEF OnceOK
<1>4. ASSUME NEW w \in Workers, HandlerPicked(w)
      PROVE  OnceOK'
  <2> DEFINE new == IF got[w] = Nil THEN {} ELSE {Sched!JobOf(got[w])}
  <2>1. Carried(w)' = Carried(w) \cup new /\ Held(w)' = Held(w)
    BY <1>4, OnceWhenPicked
  <2>2. \A v \in Workers : v # w => Carried(v)' = Carried(v) /\ Held(v)' = Held(v)
    <3> SUFFICES ASSUME NEW v \in Workers, v # w
                 PROVE  Carried(v)' = Carried(v) /\ Held(v)' = Held(v)
      OBVIOUS
    <3>1. UNCHANGED Desk(v) /\ UNCHANGED Mail(v)
      BY <1>4, DeskElsewhere, MailElsewhere DEF Run
    <3> QED
      BY <3>1, OnceElsewhere DEF Desk, Mail, Bag, OnceOK
  <2>3. new \cap Taken = {}
    BY HandedOnce
  <2>4. new \subseteq Taken'
    <3> SUFFICES ASSUME got[w] # Nil
                 PROVE  Sched!JobOf(got[w]) \in Taken'
      OBVIOUS
    <3>1. handed' = handed /\ allocated' = allocated /\ got' = [got EXCEPT ![w] = Nil]
      BY <1>4 DEF HandlerPicked, Sched!PickReturn, Sched!schedVars, Sched!Nil, Nil
    <3>2. \A v \in Workers : got'[v] # got[w]
      BY <3>1 DEF Sched!IInv, Sched!PickersGetDifferentJobs, Sched!TypeOK, Sched!Nil, Nil
    <3>3. got[w] \in handed' /\ Sched!JobOf(got[w]) = allocated'[got[w]].job.id
      BY <3>1, HandedOnce DEF Sched!JobOf
    <3> QED
      BY <3>2, <3>3 DEF Taken, Sched!JobOf
  <2> HIDE DEF new
  <2>5. \A v, u \in Workers : v # u => Carried(v)' \cap Carried(u)' = {}
    BY <2>1, <2>2, <2>3 DEF OnceOK
  <2>6. \A v \in Workers : Carried(v)' \cup Held(v)' \subseteq Taken'
    BY <1>1, <2>1, <2>2, <2>4 DEF OnceOK
  <2>7. completed' = completed
    BY <1>4, PickEffect DEF HandlerPicked
  <2>8. \A id \in JobIDs : completed'[id] # NoResult =>
          id \in Taken' /\ \A v \in Workers : id \notin Carried(v)'
    BY <1>1, <2>1, <2>2, <2>3, <2>7 DEF OnceOK
  <2> QED
    BY <1>2, <2>5, <2>6, <2>8 DEF OnceOK
<1> QED
  BY <1>3, <1>4

-----------------------------------------------------------------------------
OnceInv == SafeInv /\ (restarts = 0 => OnceOK)

(* The faults are counted: one that has not happened did not happen now. *)
LEMMA FaultsCount ==
  ASSUME TypeOK, [Next]_vars
  PROVE  /\ restarts' = 0 => restarts = 0 /\ ~RestartCoordinator
         /\ losses' + crashes' + restarts' = 0 =>
              /\ losses + crashes + restarts = 0
              /\ ~RestartCoordinator
              /\ \A w \in Workers : ~LoseRequest(w) /\ ~LoseResponse(w) /\ ~RestartWorker(w)
<1>1. losses \in Nat /\ crashes \in Nat /\ restarts \in Nat
  BY DEF TypeOK
<1>2. CASE RestartCoordinator
  BY <1>1, <1>2 DEF RestartCoordinator
<1>3. CASE \E w \in Workers : LoseRequest(w) \/ LoseResponse(w) \/ RestartWorker(w)
  BY <1>1, <1>3 DEF LoseRequest, LoseResponse, DropHeartbeat, RestartWorker, RestartCoordinator
<1>4. CASE /\ ~RestartCoordinator
           /\ \A w \in Workers : ~LoseRequest(w) /\ ~LoseResponse(w) /\ ~RestartWorker(w)
  <2>1. ASSUME NEW b \in Builds, Build(b) \/ BuildCancel(b)
        PROVE  UNCHANGED faultVars
    BY <2>1 DEF Build, BuildSchedule, BuildRefused, BuildWake, BuildFinish, BuildCancel,
       envVars
  <2>2. ASSUME NEW w \in Workers, Run(w)
        PROVE  UNCHANGED faultVars
    BY <2>2 DEF Run, CollectFinished, CollectAdded, SendHeartbeat, HandleFinished, HandleAdded,
       HandlerPicks, HandlerInPick, HandlerPicked, Deliver, StartJob, NextHeartbeat,
       envVars
  <2>3. ASSUME NEW w \in Workers, NEW id \in JobIDs, Job(w, id)
        PROVE  UNCHANGED faultVars
    BY <2>3, PastSteps
  <2>4. UNCHANGED vars => UNCHANGED faultVars
    BY DEF vars, envVars
  <2>5. UNCHANGED faultVars
    BY <1>4, <2>1, <2>2, <2>3, <2>4 DEF Next
  <2> QED
    BY <1>4, <2>5 DEF faultVars
<1> QED
  BY <1>2, <1>3, <1>4

LEMMA OnceInit == Init => OnceOK
<1> SUFFICES ASSUME Init
             PROVE  OnceOK
  OBVIOUS
<1>1. ASSUME NEW w \in Workers
      PROVE  /\ jobsToRun[w] = {} /\ finishedCh[w] = <<>> /\ request[w].finished = <<>>
             /\ InResponse(w) = {} /\ InChannel(w) = {} /\ InRequest(w) = {}
             /\ Busy(w) = {} /\ Held(w) = {}
  BY IdsOfEmpty DEF Init, NoRequest, InResponse, InChannel, InRequest, IdsOf, Busy, Held
<1>2. \A w \in Workers : OnceAt(w)
  BY <1>1, IdsOfEmpty DEF OnceAt
<1>3. \A id \in JobIDs : completed[id] = NoResult
  BY DEF Init, Sched!Init
<1> QED
  BY <1>1, <1>2, <1>3 DEF OnceOK, Carried

LEMMA OnceInvStep == OnceInv /\ [Next]_vars => OnceInv'
<1> SUFFICES ASSUME OnceInv, [Next]_vars
             PROVE  OnceInv'
  OBVIOUS
<1>1. SafeInv'
  BY SafeStep DEF OnceInv
<1>2. restarts' = 0 => OnceOK'
  BY FaultsCount, OnceStep DEF OnceInv, SafeInv
<1> QED
  BY <1>1, <1>2 DEF OnceInv

LEMMA OnceAlways == Spec => []OnceInv
<1>1. Init => OnceInv
  BY SafeInit, OnceInit DEF OnceInv
<1> QED
  BY <1>1, OnceInvStep, PTL DEF Spec

-----------------------------------------------------------------------------
(* Kept.  While nothing is lost and nobody restarts, a job that was handed   *)
(* out and is not resolved is with a handler or carried by a worker.        *)
HandlerOK(w) ==
  /\ got[w] # Nil => pickPc[w] = "done"
  /\ pickPc[w] # "idle" => workerPc[w] = "picking"
  /\ workerPc[w] \in {"collect", "picking", "start"} => request[w].finished = <<>>

Somewhere(h) ==
  \E w \in Workers : got[w] = h \/ Sched!JobOf(h) \in Carried(w)

KeptOK ==
  /\ \A w \in Workers : HandlerOK(w)
  /\ losses + crashes + restarts = 0 =>
       \A h \in handed : Sched!Open(h) => Somewhere(h)

(* A handler is in PickJob only while its worker waits for the answer.  Other *)
(* calls to the scheduler wake it, but change nothing of what it is handed. *)
LEMMA HandlerElsewhere ==
  ASSUME NEW w \in Workers, HandlerOK(w),
         got'[w] = got[w], workerPc'[w] = workerPc[w], request'[w].finished = request[w].finished,
         \/ pickPc'[w] = pickPc[w]
         \/ pickPc[w] = "parked" /\ pickPc'[w] = "lock"
  PROVE  HandlerOK(w)'
BY DEF HandlerOK

LEMMA NotifyEffect ==
  ASSUME Sched!TypeOK, Sched!Notify, NEW w \in Workers
  PROVE  \/ pickPc'[w] = pickPc[w]
         \/ pickPc[w] = "parked" /\ pickPc'[w] = "lock"
BY DEF Sched!Notify, Sched!Parked, Sched!TypeOK

LEMMA HandlerInLoop ==
  ASSUME TypeOK, NEW w \in Workers, HandlerOK(w), Run(w)
  PROVE  HandlerOK(w)'
<1>1. CASE CollectFinished(w)
  BY <1>1 DEF CollectFinished, HandlerOK, schedVars, TypeOK
<1>2. CASE CollectAdded(w) \/ SendHeartbeat(w) \/ Deliver(w) \/ StartJob(w) \/ NextHeartbeat(w)
  BY <1>2, DeskFacts DEF CollectAdded, SendHeartbeat, Deliver, UpdatesHandled, HandlerDone,
     StartJob, NextHeartbeat, NoRequest, HandlerOK, schedVars, TypeOK
<1>3. CASE HandleFinished(w) \/ HandleAdded(w)
  BY <1>3, DeskFacts DEF HandleFinished, HandleAdded, Sched!OnJobComplete, Sched!pickVars,
     HandlerOK
<1>4. CASE HandlerPicks(w)
  BY <1>4, DeskFacts DEF HandlerPicks, UpdatesHandled, Sched!PickCall, Sched!pickVars, HandlerOK,
     TypeOK, Sched!TypeOK
<1>5. CASE HandlerInPick(w)
  <2>1. /\ workerPc[w] = "picking" /\ workerPc' = workerPc /\ request' = request
        /\ Sched!PickStep(w) \/ Sched!PickCancelled(w)
    BY <1>5 DEF HandlerInPick, loopVars
  <2>2. got'[w] # Nil => pickPc'[w] = "done"
    BY <2>1 DEF HandlerOK, TypeOK, Sched!TypeOK, Sched!PickStep, Sched!PickStopped,
       Sched!PickHead, Sched!PickEmpty, Sched!PickToken, Sched!PickPark,
       Sched!PickCancelled, Sched!pickVars
  <2> QED
    BY <2>1, <2>2 DEF HandlerOK
<1>6. CASE HandlerPicked(w)
  <2>1. pickPc'[w] = "idle" /\ got'[w] = Nil /\ workerPc'[w] = "sent"
    BY <1>6 DEF HandlerPicked, Sched!PickReturn, TypeOK, Sched!TypeOK, Sched!Nil, Nil
  <2> QED
    BY <2>1 DEF HandlerOK
<1> QED
  BY <1>1, <1>2, <1>3, <1>4, <1>5, <1>6 DEF Run

LEMMA HandlerStep ==
  ASSUME SafeInv, \A w \in Workers : HandlerOK(w), [Next]_vars
  PROVE  \A w \in Workers : HandlerOK(w)'
<1> USE DEF SafeInv
<1> SUFFICES ASSUME NEW v \in Workers
             PROVE  HandlerOK(v)'
  OBVIOUS
<1>1. ASSUME NEW b \in Builds, Build(b) \/ BuildCancel(b)
      PROVE  HandlerOK(v)'
  <2>1. workerPc' = workerPc /\ request' = request
    BY <1>1 DEF Build, BuildSchedule, BuildRefused, BuildWake, BuildFinish, BuildCancel, loopVars
  <2>2. CASE BuildSchedule(b)
    <3>1. PICK job : Sched!ScheduleJob(job)
      BY <2>2 DEF BuildSchedule
    <3>2. got' = got
      BY <3>1 DEF Sched!ScheduleJob, Sched!ScheduleCompleted, Sched!SchedulePending,
         Sched!ScheduleNew, Sched!pickVars, Sched!vars
    <3>3. pickPc' = pickPc \/ Sched!Notify
      BY <3>1 DEF Sched!ScheduleJob, Sched!ScheduleCompleted, Sched!SchedulePending,
         Sched!ScheduleNew, Sched!Enqueue, Sched!vars
    <3> QED
      BY <2>1, <3>2, <3>3, NotifyEffect, HandlerElsewhere DEF TypeOK
  <2>3. CASE ~BuildSchedule(b)
    BY <1>1, <2>1, <2>3, HandlerElsewhere DEF Build, BuildRefused, BuildWake, BuildFinish,
       BuildCancel, schedVars
  <2> QED
    BY <2>2, <2>3
<1>2. ASSUME NEW w \in Workers, w # v, Run(w)
      PROVE  HandlerOK(v)'
  <2>1. workerPc'[v] = workerPc[v] /\ request'[v].finished = request[v].finished
    BY <1>2, DeskElsewhere, MailElsewhere DEF Desk, Mail
  <2>2. got'[v] = got[v] /\ pickPc'[v] = pickPc[v]
    <3>1. CASE HandleFinished(w) \/ HandleAdded(w)
      BY <3>1 DEF HandleFinished, HandleAdded, Sched!OnJobComplete, Sched!pickVars
    <3>2. CASE HandlerPicks(w) \/ HandlerInPick(w) \/ HandlerPicked(w)
      BY <1>2, <3>2 DEF HandlerPicks, HandlerInPick, HandlerPicked, Sched!PickCall,
         Sched!PickStep, Sched!PickStopped, Sched!PickHead, Sched!PickEmpty, Sched!PickToken,
         Sched!PickPark, Sched!PickCancelled, Sched!PickReturn, Sched!pickVars, TypeOK, Sched!TypeOK
    <3> QED
      BY <1>2, <3>1, <3>2 DEF Run, CollectFinished, CollectAdded, SendHeartbeat, Deliver,
         StartJob, NextHeartbeat, schedVars
  <2> QED
    BY <2>1, <2>2, HandlerElsewhere
<1>3. ASSUME NEW w \in Workers, NEW id \in JobIDs, Job(w, id)
      PROVE  HandlerOK(v)'
  <2>1. UNCHANGED <<schedVars, loopVars>>
    BY <1>3 DEF Job, JobEnds, JobCreate, JobCached, JobDownload, JobTransferFails,
       JobCommit, JobFail, JobDone, JobReport, JobAnnounce, JobExit
  <2> QED
    BY <2>1, HandlerElsewhere DEF schedVars, loopVars
<1>4. ASSUME NEW w \in Workers, LoseRequest(w) \/ LoseResponse(w) \/ RestartWorker(w)
      PROVE  HandlerOK(v)'
  <2>1. UNCHANGED schedVars
    BY <1>4 DEF LoseRequest, LoseResponse, DropHeartbeat, RestartWorker
  <2>2. CASE w = v
    <3>1. workerPc[v] # "picking" /\ workerPc'[v] = "collect" /\ request'[v].finished = <<>>
      BY <1>4, <2>2, DeskFacts DEF LoseRequest, LoseResponse, HandlerDone, UpdatesHandled,
         DropHeartbeat, RestartWorker, NoRequest
    <3> QED
      BY <2>1, <3>1 DEF schedVars, HandlerOK
  <2>3. CASE w # v
    <3>1. workerPc'[v] = workerPc[v] /\ request'[v].finished = request[v].finished
      BY <1>4, <2>3, DeskElsewhere, MailElsewhere DEF Desk, Mail
    <3> QED
      BY <2>1, <3>1, HandlerElsewhere DEF schedVars
  <2> QED
    BY <2>2, <2>3
<1>5. CASE RestartCoordinator
  <2>1. /\ got'[v] = Nil /\ pickPc'[v] = "idle"
        /\ \/ workerPc'[v] = "collect" /\ request'[v] = NoRequest
           \/ workerPc'[v] = workerPc[v] /\ request'[v] = request[v]
    BY <1>5 DEF RestartCoordinator
  <2> QED
    BY <2>1 DEF HandlerOK, NoRequest
<1>6. CASE UNCHANGED vars
  BY <1>6, HandlerElsewhere DEF vars, schedVars, loopVars
<1> QED
  BY <1>1, <1>2, <1>3, <1>4, <1>5, <1>6, HandlerInLoop DEF Next

(* A job with a result has no open object, and the results that a handler    *)
(* reads become known.                                                      *)
LEMMA KnownIsClosed == Sched!IInv => Sched!NobodyWaitsForAKnownResult
<1> SUFFICES ASSUME Sched!IInv, NEW h \in Sched!Pointers, completed[Sched!JobOf(h)] # NoResult
             PROVE  ~Sched!Open(h)
  BY DEF Sched!NobodyWaitsForAKnownResult
<1>1. Sched!JobOf(h) \in JobIDs
  BY ObjectTypes DEF Sched!IInv
<1> QED
  BY <1>1 DEF Sched!IInv, Sched!WaitersShareOnePendingJob, Sched!PendingIsOpen, Sched!Pointers,
     Sched!Nil

LEMMA ReportIsKnown ==
  ASSUME Sched!IInv, NEW w \in Workers, NEW id \in JobIDs, NEW res \in Results,
         Sched!OnJobComplete(w, id, res)
  PROVE  completed'[id] = res
<1>1. res # NoResult
  BY DEF Results, NoResult
<1>2. ~Sched!CompleteWithoutResult(id, res)
  BY <1>1 DEF Sched!CompleteWithoutResult, Sched!IInv, Sched!TypeOK, Sched!PendingIsOpen,
     Sched!CloseOnce
<1> QED
  BY <1>1, <1>2 DEF Sched!OnJobComplete, Sched!CompleteUnknown, Sched!CompletePending, Sched!IInv,
     Sched!TypeOK

(* What a queue of results is about, from either end. *)
LEMMA IdsOfHead ==
  ASSUME NEW T, NEW q \in Seq(T), q # <<>>
  PROVE  IdsOf(q) \subseteq IdsOf(Tail(q)) \cup {Head(q).id}
<1>1. /\ Len(q) \in Nat \ {0} /\ Head(q) = q[1] /\ DOMAIN q = 1..Len(q)
      /\ DOMAIN Tail(q) = 1..(Len(q) - 1)
      /\ \A i \in 1..(Len(q) - 1) : Tail(q)[i] = q[i + 1]
  OBVIOUS
<1>2. \A i \in 1..Len(q) : i = 1 \/ (i - 1 \in 1..(Len(q) - 1) /\ Tail(q)[i - 1] = q[i])
  BY <1>1
<1>3. ASSUME NEW i \in 1..Len(q), i # 1
      PROVE  q[i].id \in IdsOf(Tail(q))
  <2>1. i - 1 \in DOMAIN Tail(q) /\ Tail(q)[i - 1].id = q[i].id
    BY <1>1, <1>2, <1>3
  <2> QED
    BY <2>1 DEF IdsOf
<1>4. \A i \in 1..Len(q) : q[i].id \in IdsOf(Tail(q)) \cup {Head(q).id}
  BY <1>1, <1>3
<1> QED
  BY <1>1, <1>4 DEF IdsOf

LEMMA IdsOfAppend ==
  ASSUME NEW T, NEW q \in Seq(T), NEW x
  PROVE  IdsOf(Append(q, x)) = IdsOf(q) \cup {x.id}
<1>1. /\ DOMAIN Append(q, x) = 1..(Len(q) + 1) /\ DOMAIN q = 1..Len(q) /\ Len(q) \in Nat
      /\ \A i \in 1..Len(q) : Append(q, x)[i] = q[i]
      /\ Append(q, x)[Len(q) + 1] = x
  OBVIOUS
<1>2. 1..(Len(q) + 1) = 1..Len(q) \cup {Len(q) + 1}
  BY <1>1
<1> QED
  BY <1>1, <1>2 DEF IdsOf

(* A worker that still has jobs to start has a slot for one. *)
LEMMA SlotLeft ==
  ASSUME TypeOK, NEW w \in Workers, RoomAt(w), jobsToRun[w] # {}
  PROVE  Cardinality(running[w]) < MaxSlots
<1> DEFINE r == Cardinality(running[w])
           n == Cardinality(jobsToRun[w])
           f == request[w].free
<1>1. r \in Nat /\ n \in Nat /\ f \in Nat /\ r + n + f <= MaxSlots /\ MaxSlots \in Nat
  BY CountFacts, SlotsAssumption DEF RoomAt, Fits
<1>2. n # 0
  BY FS_EmptySet DEF RoomAt
<1> HIDE DEF r, n, f
<1>3. r < MaxSlots
  BY <1>1, <1>2
<1> QED
  BY <1>3 DEF r

(* A job that a worker carries stays with it until its report is handled:    *)
(* startJob has room for it, and so has the channel.                        *)
LEMMA CarriedInLoop ==
  ASSUME SafeInv, OnceOK, NEW w \in Workers, HandlerOK(w), Run(w), NEW id \in JobIDs,
         id \in Carried(w)
  PROVE  \/ id \in Carried(w)'
         \/ HandleFinished(w) /\ id = Head(request[w].finished).id
<1> USE DEF SafeInv
<1>1. CASE CollectFinished(w)
  <2>1. /\ finishedCh'[w] = <<>> /\ request'[w].finished = finishedCh[w]
        /\ jobsToRun' = jobsToRun /\ jobPc' = jobPc /\ request[w].finished = <<>>
    BY <1>1, DeskFacts DEF CollectFinished, jobVars, HandlerOK
  <2>2. /\ InRequest(w) = {} /\ InRequest(w)' = InChannel(w)
        /\ InResponse(w)' = InResponse(w) /\ Busy(w)' = Busy(w)
    BY <2>1, IdsOfEmpty DEF InChannel, InRequest, IdsOf, InResponse, Busy
  <2> QED
    BY <2>2 DEF Carried
<1>2. CASE HandleFinished(w)
  <2> DEFINE q == request[w].finished
  <2>1. /\ finishedCh' = finishedCh /\ request'[w].finished = Tail(q)
        /\ jobsToRun' = jobsToRun /\ jobPc' = jobPc
        /\ q \in Seq(JobResults) /\ q # <<>>
    BY <1>2, DeskFacts DEF HandleFinished, jobVars, chanVars, TypeOK, Requests
  <2>2. /\ InChannel(w)' = InChannel(w) /\ InRequest(w)' = IdsOf(Tail(q))
        /\ InRequest(w) = IdsOf(q) /\ InResponse(w)' = InResponse(w) /\ Busy(w)' = Busy(w)
    BY <2>1 DEF InChannel, InRequest, IdsOf, InResponse, Busy
  <2> HIDE DEF q
  <2>3. IdsOf(q) \subseteq IdsOf(Tail(q)) \cup {Head(q).id}
    BY <2>1, IdsOfHead
  <2> QED
    BY <1>2, <2>2, <2>3 DEF Carried, q
<1>3. CASE StartJob(w)
  <2>1. PICK spec \in jobsToRun[w] :
          /\ jobsToRun' = [jobsToRun EXCEPT ![w] = @ \ {spec}]
          /\ IF HasRoomFor(w, spec.id)
             THEN jobPc' = [jobPc EXCEPT ![w][spec.id] = "create"]
             ELSE UNCHANGED jobVars
    BY <1>3 DEF StartJob
  <2>2. finishedCh' = finishedCh /\ request' = request
    BY <1>3 DEF StartJob, chanVars
  <2>3. jobsToRun'[w] = jobsToRun[w] \ {spec} /\ spec.id \in JobIDs /\ spec.id \in InResponse(w)
    BY <2>1 DEF TypeOK, JobSpecs, InResponse
  <2>4. InResponse(w) \subseteq InResponse(w)' \cup {spec.id}
    BY <2>3 DEF InResponse
  <2>5. HasRoomFor(w, spec.id)
    <3>1. RoomAt(w) /\ OnceAt(w)
      BY DEF RoomOK, OnceOK
    <3>2. spec.id \notin running[w]
      BY <2>3, <3>1 DEF RoomAt, OnceAt
    <3>3. Cardinality(running[w]) < MaxSlots
      BY <3>1, SlotLeft
    <3> QED
      BY <3>2, <3>3 DEF HasRoomFor
  <2>6. Busy(w)' = Busy(w) \cup {spec.id}
    BY <2>1, <2>3, <2>5 DEF TypeOK, Busy
  <2>7. InChannel(w)' = InChannel(w) /\ InRequest(w)' = InRequest(w)
    BY <2>2 DEF InChannel, InRequest, IdsOf
  <2> QED
    BY <2>4, <2>6, <2>7 DEF Carried
<1>4. CASE NextHeartbeat(w)
  <2>1. /\ finishedCh' = finishedCh /\ request[w].finished = <<>>
        /\ jobsToRun' = jobsToRun /\ jobPc' = jobPc
    BY <1>4, DeskFacts DEF NextHeartbeat, jobVars, chanVars, HandlerOK
  <2>2. /\ InChannel(w)' = InChannel(w) /\ InRequest(w) = {} /\ InResponse(w)' = InResponse(w)
        /\ Busy(w)' = Busy(w)
    BY <2>1, IdsOfEmpty DEF InChannel, InRequest, IdsOf, InResponse, Busy
  <2> QED
    BY <2>2 DEF Carried
<1>5. CASE HandlerPicked(w)
  BY <1>5, OnceWhenPicked
<1>6. CASE \/ CollectAdded(w) \/ SendHeartbeat(w) \/ HandleAdded(w) \/ HandlerPicks(w)
           \/ HandlerInPick(w) \/ Deliver(w)
  <2>1. UNCHANGED Bag(w)
    BY <1>6, DeskFacts DEF CollectAdded, SendHeartbeat, HandleAdded, HandlerPicks, HandlerInPick,
       Deliver, Bag, jobVars, chanVars, loopVars
  <2> QED
    BY <2>1, OnceElsewhere DEF OnceOK
<1> QED
  BY <1>1, <1>2, <1>3, <1>4, <1>5, <1>6 DEF Run

LEMMA CarriedOfJob ==
  ASSUME SafeInv, NEW w \in Workers, NEW j \in JobIDs, Job(w, j), NEW id \in JobIDs,
         id \in Carried(w)
  PROVE  id \in Carried(w)'
<1> USE DEF SafeInv
<1>1. request' = request /\ jobsToRun' = jobsToRun
  BY JobFrame
<1>2. InResponse(w)' = InResponse(w) /\ InRequest(w)' = InRequest(w)
  BY <1>1 DEF InResponse, InRequest, IdsOf
<1>3. CASE JobReport(w, j)
  <2> DEFINE r == JobResult(j, outcome[w][j])
  <2>1. /\ jobPc[w][j] = "report" /\ finishedCh'[w] = Push(finishedCh[w], r)
        /\ r.id = j /\ finishedCh[w] \in Seq(JobResults)
    BY <1>3 DEF JobReport, TypeOK, JobResult, JobResults
  <2>2. PICK pc \in {"announce", "exit"} : jobPc'[w] = [jobPc[w] EXCEPT ![j] = pc]
    BY <1>3 DEF JobReport, TypeOK
  <2>3. Busy(w) \subseteq Busy(w)' \cup {j}
    BY <2>1, <2>2 DEF TypeOK, Busy
  <2>4. Push(finishedCh[w], r) = Append(finishedCh[w], r)
    BY <2>1, RoomForReports DEF NoReportIsDropped, Push
  <2>5. IdsOf(Append(finishedCh[w], r)) = IdsOf(finishedCh[w]) \cup {r.id}
    BY <2>1, IdsOfAppend
  <2>6. InChannel(w)' = InChannel(w) \cup {j}
    BY <2>1, <2>4, <2>5 DEF InChannel, IdsOf
  <2> QED
    BY <1>2, <2>3, <2>6 DEF Carried
<1>4. CASE ~JobReport(w, j)
  <2>1. finishedCh' = finishedCh
    BY <1>4, JobFrame DEF JobAnnounce, JobExit, chanVars
  <2>2. Busy(w)' = Busy(w)
    <3>1. CASE JobAnnounce(w, j) \/ JobExit(w, j)
      BY <3>1 DEF JobAnnounce, JobExit, TypeOK, Busy
    <3>2. CASE jobPc[w][j] \in {"create", "deps"} /\
               (UNCHANGED jobPc \/ \E pc \in {"deps", "report"} : jobPc' = [jobPc EXCEPT ![w][j] = pc])
      BY <3>2 DEF TypeOK, Busy
    <3> QED
      BY <1>4, <3>1, <3>2, JobFrame
  <2>3. InChannel(w)' = InChannel(w)
    BY <2>1 DEF InChannel, IdsOf
  <2> QED
    BY <1>2, <2>2, <2>3 DEF Carried
<1> QED
  BY <1>3, <1>4

(* What is handed out is being returned, and is taken by whom it is returned *)
(* to.                                                                      *)
LEMMA HandedSteps ==
  ASSUME SafeInv, \A w \in Workers : HandlerOK(w), [Next]_vars, ~RestartCoordinator
  PROVE  /\ \A h \in handed' : h \in handed \/ \E w \in Workers : got'[w] = h
         /\ \A w \in Workers : got[w] # Nil => got'[w] = got[w] \/ HandlerPicked(w)
<1> USE DEF SafeInv
<1> DEFINE Goal ==
      /\ \A h \in handed' : h \in handed \/ \E w \in Workers : got'[w] = h
      /\ \A w \in Workers : got[w] # Nil => got'[w] = got[w] \/ HandlerPicked(w)
<1>1. UNCHANGED <<got, handed>> => Goal
  OBVIOUS
<1>2. ASSUME NEW b \in Builds, Build(b) \/ BuildCancel(b)
      PROVE  UNCHANGED <<got, handed>>
  <2>1. CASE BuildSchedule(b)
    <3>1. PICK job : Sched!ScheduleJob(job)
      BY <2>1 DEF BuildSchedule
    <3> QED
      BY <3>1 DEF Sched!ScheduleJob, Sched!ScheduleCompleted, Sched!SchedulePending,
         Sched!ScheduleNew, Sched!pickVars, Sched!vars
  <2> QED
    BY <1>2, <2>1 DEF Build, BuildRefused, BuildWake, BuildFinish, BuildCancel, schedVars
<1>3. ASSUME NEW w \in Workers, HandlerPicks(w) \/ HandlerInPick(w) \/ HandlerPicked(w)
      PROVE  Goal
  <2>1. got \in [Workers -> Sched!Pointers \cup {Nil}]
    BY DEF Sched!IInv, Sched!TypeOK, Sched!Nil, Nil
  <2>2. CASE Sched!PickHead(w)
    <3>1. got[w] = Nil /\ got' = [got EXCEPT ![w] = Head(queue)] /\ handed' = handed \cup {Head(queue)}
      BY <2>2 DEF HandlerOK, Sched!PickHead
    <3> QED
      BY <2>1, <3>1
  <2>3. CASE HandlerPicked(w)
    <3>1. handed' = handed /\ got' = [got EXCEPT ![w] = Sched!Nil]
      BY <2>3 DEF HandlerPicked, Sched!PickReturn
    <3> QED
      BY <2>1, <2>3, <3>1
  <2> QED
    BY <1>1, <1>3, <2>2, <2>3 DEF HandlerPicks, HandlerInPick, Sched!PickCall, Sched!PickStep,
       Sched!PickStopped, Sched!PickEmpty, Sched!PickToken, Sched!PickPark, Sched!PickCancelled,
       Sched!pickVars
<1>4. ASSUME NEW w \in Workers, Run(w)
      PROVE  Goal
  <2> HIDE DEF Goal
  <2> QED
    BY <1>1, <1>3, <1>4 DEF Run, CollectFinished, CollectAdded, SendHeartbeat, Deliver, StartJob,
       NextHeartbeat, schedVars, HandleFinished, HandleAdded, Sched!OnJobComplete, Sched!pickVars
<1>5. ASSUME NEW w \in Workers,
             \/ \E id \in JobIDs : Job(w, id)
             \/ LoseRequest(w) \/ LoseResponse(w) \/ RestartWorker(w)
      PROVE  UNCHANGED schedVars
  BY <1>5 DEF Job, JobEnds, JobCreate, JobCached, JobDownload, JobTransferFails, JobCommit,
     JobFail, JobDone, JobReport, JobAnnounce, JobExit, LoseRequest, LoseResponse,
     DropHeartbeat, RestartWorker
<1>6. UNCHANGED vars => UNCHANGED schedVars
  BY DEF vars
<1> HIDE DEF Goal
<1>7. Goal
  BY <1>1, <1>2, <1>4, <1>5, <1>6 DEF Next, schedVars
<1> QED
  BY <1>7 DEF Goal

(* What becomes known stays known. *)
LEMMA KnownForGood ==
  ASSUME SafeInv, OnceOK, [Next]_vars, ~RestartCoordinator, NEW id \in JobIDs,
         completed'[id] = NoResult
  PROVE  completed[id] = NoResult /\ \A w \in Workers : HandleFinished(w) => id # Head(request[w].finished).id
<1>1. ASSUME NEW w \in Workers, HandleFinished(w), id = Head(request[w].finished).id
      PROVE  FALSE
  <2>1. Head(request[w].finished) \in JobResults
    BY <1>1 DEF HandleFinished, SafeInv, TypeOK, Requests
  <2>2. completed'[id] \in Results
    BY <1>1, <2>1, ReportIsKnown DEF HandleFinished, JobResults, SafeInv
  <2> QED
    BY <2>2 DEF Results, NoResult
<1> QED
  BY <1>1, KnownSteps

LEMMA KeptStep ==
  ASSUME OnceInv, KeptOK, [Next]_vars
  PROVE  KeptOK'
<1> USE DEF OnceInv, SafeInv
<1>1. \A w \in Workers : HandlerOK(w)'
  BY HandlerStep DEF KeptOK
<1> SUFFICES ASSUME losses' + crashes' + restarts' = 0, NEW h \in handed', Sched!Open(h)'
             PROVE  Somewhere(h)'
  BY <1>1 DEF KeptOK
<1>2. /\ losses + crashes + restarts = 0 /\ ~RestartCoordinator /\ restarts = 0
      /\ \A w \in Workers : ~LoseRequest(w) /\ ~LoseResponse(w) /\ ~RestartWorker(w)
  BY FaultsCount DEF TypeOK
<1>3. OnceOK /\ Sched!IInv' /\ \A w \in Workers : HandlerOK(w)
  BY <1>2, SchedStep DEF KeptOK
<1>4. CASE h \notin handed
  BY <1>2, <1>3, <1>4, HandedSteps DEF Somewhere
<1>5. CASE h \in handed
  <2> DEFINE id == Sched!JobOf(h)
  <2>1. h \in Sched!Pointers /\ id \in JobIDs
    BY <1>5, ObjectTypes DEF Sched!IInv, Sched!TypeOK
  <2>2. h \in Sched!Pointers' /\ Sched!JobOf(h)' = id
    BY <2>1, SchedGrows, <1>2 DEF BuildsOK, Sched!JobOf
  <2>3. Sched!NobodyWaitsForAKnownResult'
    BY <1>3, KnownIsClosed, PTL
  <2>4. completed'[id] = NoResult
    BY <2>2, <2>3 DEF Sched!NobodyWaitsForAKnownResult
  <2>5. completed[id] = NoResult /\ \A w \in Workers : HandleFinished(w) => id # Head(request[w].finished).id
    BY <1>2, <1>3, <2>1, <2>4, KnownForGood
  <2>6. Sched!Open(h)
    BY <2>1, <2>5 DEF Sched!IInv, Sched!ClosedIsKnown
  <2>7. PICK w \in Workers : got[w] = h \/ id \in Carried(w)
    BY <1>2, <1>5, <2>6 DEF KeptOK, Somewhere
  <2> HIDE DEF id
  <2>8. CASE got[w] = h
    <3>1. got[w] # Nil
      BY <2>1, <2>8 DEF Sched!Pointers, Nil
    <3>2. CASE HandlerPicked(w)
      <4>1. id \in Carried(w)'
        BY <1>3, <2>8, <3>1, <3>2, OnceWhenPicked DEF id
      <4> QED
        BY <2>2, <4>1 DEF Somewhere
    <3> QED
      BY <1>2, <1>3, <2>8, <3>1, <3>2, HandedSteps DEF Somewhere
  <2>9. CASE id \in Carried(w)
    <3>1. ASSUME NEW v \in Workers, Run(v)
          PROVE  id \in Carried(w)'
      <4>1. CASE v = w
        BY <1>3, <2>1, <2>5, <2>9, <3>1, <4>1, CarriedInLoop
      <4>2. CASE v # w
        BY <1>3, <2>9, <3>1, <4>2, DeskElsewhere, MailElsewhere, OnceElsewhere DEF Desk, Mail,
           Bag, OnceOK
      <4> QED
        BY <4>1, <4>2
    <3>2. ASSUME NEW v \in Workers, NEW j \in JobIDs, Job(v, j)
          PROVE  id \in Carried(w)'
      <4>1. CASE v = w
        BY <2>1, <2>9, <3>2, <4>1, CarriedOfJob
      <4>2. CASE v # w
        BY <1>3, <2>9, <3>2, <4>2, DeskElsewhere, MailElsewhere, OnceElsewhere DEF Desk, Mail,
           Bag, OnceOK
      <4> QED
        BY <4>1, <4>2
    <3>3. ASSUME (\E b \in Builds : Build(b) \/ BuildCancel(b)) \/ UNCHANGED vars
          PROVE  id \in Carried(w)'
      <4>1. UNCHANGED <<loopVars, chanVars, jobVars>>
        BY <3>3 DEF Build, BuildSchedule, BuildRefused, BuildWake, BuildFinish, BuildCancel, vars
      <4>2. UNCHANGED Bag(w)
        BY <4>1 DEF Bag, loopVars, chanVars, jobVars
      <4> QED
        BY <1>3, <2>9, <4>2, OnceElsewhere DEF OnceOK
    <3>4. id \in Carried(w)'
      BY <1>2, <3>1, <3>2, <3>3 DEF Next
    <3> QED
      BY <2>2, <3>4 DEF Somewhere
  <2> QED
    BY <2>7, <2>8, <2>9
<1> QED
  BY <1>4, <1>5

LEMMA KeptInit == Init => KeptOK
<1> SUFFICES ASSUME Init
             PROVE  KeptOK
  OBVIOUS
<1>1. \A w \in Workers : HandlerOK(w)
  BY DEF Init, Sched!Init, HandlerOK, NoRequest, Sched!Nil, Nil
<1>2. handed = {}
  BY DEF Init, Sched!Init
<1> QED
  BY <1>1, <1>2 DEF KeptOK

LEMMA KeptAlways == Spec => [](OnceInv /\ KeptOK)
<1>1. Init => OnceInv /\ KeptOK
  BY SafeInit, OnceInit, KeptInit DEF OnceInv
<1>2. OnceInv /\ KeptOK /\ [Next]_vars => OnceInv' /\ KeptOK'
  BY OnceInvStep, KeptStep
<1> QED
  BY <1>1, <1>2, PTL DEF Spec

-----------------------------------------------------------------------------
AtMostOne(T) == \A x, y \in T : x = y

LEMMA CountAtMostOne ==
  ASSUME NEW T, AtMostOne(T)
  PROVE  Cardinality(T) = IF T = {} THEN 0 ELSE 1
<1>1. CASE T = {}
  BY <1>1, FS_EmptySet
<1>2. CASE T # {}
  <2>1. PICK x : T = {x}
    BY <1>2 DEF AtMostOne
  <2> QED
    BY <2>1, FS_Singleton
<1> QED
  BY <1>1, <1>2

(* Before its handler returns it a job is in the queue, once, or with one    *)
(* handler.                                                                 *)
LEMMA SchedulerPlaces ==
  ASSUME Sched!IInv, NEW id \in JobIDs
  PROVE  /\ AtMostOne(QueuePlaces(id) \cup PickedPlaces(id))
         /\ QueuePlaces(id) \cup PickedPlaces(id) # {} => id \notin Taken
<1>1. \A i \in DOMAIN queue : Sched!JobOf(queue[i]) = id =>
        queue[i] \in Sched!Pointers /\ Sched!InQueue(queue[i]) /\ id \notin Taken
  BY QueuedIsNotTaken DEF Sched!InQueue
<1>2. \A w \in Workers : got[w] # Nil /\ Sched!JobOf(got[w]) = id =>
        got[w] \in Sched!Pointers /\ got[w] \in handed /\ id \notin Taken
  BY HandedOnce
<1>3. ASSUME NEW i \in DOMAIN queue, NEW j \in DOMAIN queue,
             Sched!JobOf(queue[i]) = id, Sched!JobOf(queue[j]) = id
      PROVE  i = j
  <2>1. queue[i] = queue[j] /\ i \in Nat /\ j \in Nat
    BY <1>1, <1>3 DEF Sched!IInv, Sched!JobIsHandedOnce, Sched!TypeOK
  <2>2. queue[i] \in Nat
    BY <1>1, <1>3 DEF Sched!Pointers
  <2>3. /\ i < j => queue[i] < queue[j]
        /\ j < i => queue[j] < queue[i]
    BY DEF Sched!IInv, Sched!FirstInFirstOut
  <2> QED
    BY <2>1, <2>2, <2>3
<1>4. ASSUME NEW w \in Workers, NEW v \in Workers, got[w] # Nil, got[v] # Nil,
             Sched!JobOf(got[w]) = id, Sched!JobOf(got[v]) = id
      PROVE  w = v
  BY <1>2, <1>4 DEF Sched!IInv, Sched!JobIsHandedOnce, Sched!PickersGetDifferentJobs, Sched!Nil,
     Nil
<1>5. ASSUME NEW i \in DOMAIN queue, NEW w \in Workers, got[w] # Nil,
             Sched!JobOf(queue[i]) = id, Sched!JobOf(got[w]) = id
      PROVE  FALSE
  BY <1>1, <1>2, <1>5 DEF Sched!IInv, Sched!JobIsHandedOnce, Sched!NoJobIsLost
<1>6. QueuePlaces(id) \cup PickedPlaces(id) # {} => id \notin Taken
  BY <1>1, <1>2 DEF QueuePlaces, PickedPlaces
<1>7. AtMostOne(QueuePlaces(id)) /\ AtMostOne(PickedPlaces(id))
      /\ (QueuePlaces(id) = {} \/ PickedPlaces(id) = {})
  BY <1>3, <1>4, <1>5 DEF QueuePlaces, PickedPlaces, AtMostOne
<1> QED
  BY <1>6, <1>7 DEF AtMostOne

(* What is carried is in one place of one worker. *)
LEMMA CarrierIsTheCarried ==
  ASSUME TypeOK, NEW id \in JobIDs
  PROVE  /\ ResponsePlaces(id) = {<<"response", w>> : w \in {v \in Workers : id \in InResponse(v)}}
         /\ GoroutinePlaces(id) = {<<"goroutine", w>> : w \in {v \in Workers : id \in Busy(v)}}
         /\ \A x \in ChannelPlaces(id) : \E w \in Workers : \E i \in DOMAIN finishedCh[w] :
              x = <<"channel", w, i>> /\ id \in InChannel(w) /\ finishedCh[w][i].id = id
         /\ \A x \in RequestPlaces(id) : \E w \in Workers : \E i \in DOMAIN request[w].finished :
              x = <<"request", w, i>> /\ id \in InRequest(w) /\ request[w].finished[i].id = id
         /\ CarrierPlaces(id) # {} <=> \E w \in Workers : id \in Carried(w)
<1>1. \A v \in Workers : id \in InResponse(v) <=> \E spec \in jobsToRun[v] : spec.id = id
  BY DEF InResponse
<1>2. \A v \in Workers : id \in Busy(v) <=> jobPc[v][id] \in {"create", "deps", "report"}
  BY DEF Busy
<1>3. \A v \in Workers : id \in InChannel(v) <=> \E i \in DOMAIN finishedCh[v] : finishedCh[v][i].id = id
  BY DEF InChannel, IdsOf
<1>4. \A v \in Workers : id \in InRequest(v) <=>
        \E i \in DOMAIN request[v].finished : request[v].finished[i].id = id
  BY DEF InRequest, IdsOf
<1>5. ResponsePlaces(id) = {<<"response", w>> : w \in {v \in Workers : id \in InResponse(v)}}
  BY <1>1 DEF ResponsePlaces
<1>6. GoroutinePlaces(id) = {<<"goroutine", w>> : w \in {v \in Workers : id \in Busy(v)}}
  BY <1>2 DEF GoroutinePlaces
<1>7. \A x \in ChannelPlaces(id) : \E w \in Workers : \E i \in DOMAIN finishedCh[w] :
        x = <<"channel", w, i>> /\ id \in InChannel(w) /\ finishedCh[w][i].id = id
  BY <1>3 DEF ChannelPlaces
<1>8. \A x \in RequestPlaces(id) : \E w \in Workers : \E i \in DOMAIN request[w].finished :
        x = <<"request", w, i>> /\ id \in InRequest(w) /\ request[w].finished[i].id = id
  BY <1>4 DEF RequestPlaces
<1>9. /\ ChannelPlaces(id) # {} <=> \E w \in Workers : id \in InChannel(w)
      /\ RequestPlaces(id) # {} <=> \E w \in Workers : id \in InRequest(w)
  <2>1. ASSUME NEW w \in Workers, id \in InChannel(w)
        PROVE  ChannelPlaces(id) # {}
    <3>1. PICK i \in DOMAIN finishedCh[w] : finishedCh[w][i].id = id
      BY <1>3, <2>1
    <3>2. <<"channel", w, i>> \in ChannelPlaces(id)
      BY <3>1 DEF ChannelPlaces
    <3> QED
      BY <3>2
  <2>2. ASSUME NEW w \in Workers, id \in InRequest(w)
        PROVE  RequestPlaces(id) # {}
    <3>1. PICK i \in DOMAIN request[w].finished : request[w].finished[i].id = id
      BY <1>4, <2>2
    <3>2. <<"request", w, i>> \in RequestPlaces(id)
      BY <3>1 DEF RequestPlaces
    <3> QED
      BY <3>2
  <2> QED
    BY <1>7, <1>8, <2>1, <2>2
<1>10. /\ ResponsePlaces(id) # {} <=> \E w \in Workers : id \in InResponse(w)
       /\ GoroutinePlaces(id) # {} <=> \E w \in Workers : id \in Busy(w)
  BY <1>5, <1>6, ZenonT(30)
<1>11. CarrierPlaces(id) # {} <=> \E w \in Workers : id \in Carried(w)
  BY <1>9, <1>10 DEF CarrierPlaces, Carried
<1> QED
  BY <1>5, <1>6, <1>7, <1>8, <1>11

LEMMA CarriedInOnePlace ==
  ASSUME TypeOK, OnceOK, NEW id \in JobIDs
  PROVE  AtMostOne(CarrierPlaces(id))
<1>1. CASE \A w \in Workers : id \notin Carried(w)
  BY <1>1, CarrierIsTheCarried DEF AtMostOne
<1>2. ASSUME NEW w \in Workers, id \in Carried(w)
      PROVE  AtMostOne(CarrierPlaces(id))
  <2>1. \A v \in Workers : v # w =>
          id \notin InResponse(v) /\ id \notin Busy(v) /\ id \notin InChannel(v) /\ id \notin InRequest(v)
    BY <1>2 DEF OnceOK, Carried
  <2>2. OnceAt(w)
    BY DEF OnceOK
  <2>3. /\ ResponsePlaces(id) \subseteq {<<"response", w>>} /\ (ResponsePlaces(id) # {} => id \in InResponse(w))
        /\ GoroutinePlaces(id) \subseteq {<<"goroutine", w>>} /\ (GoroutinePlaces(id) # {} => id \in Busy(w))
    BY <2>1, CarrierIsTheCarried
  <2>4. AtMostOne(ChannelPlaces(id)) /\ (ChannelPlaces(id) # {} => id \in InChannel(w))
    <3>1. \A x \in ChannelPlaces(id) : \E i \in DOMAIN finishedCh[w] :
            x = <<"channel", w, i>> /\ id \in InChannel(w) /\ finishedCh[w][i].id = id
      BY <2>1, CarrierIsTheCarried
    <3>2. Single(finishedCh[w])
      BY <2>2 DEF OnceAt
    <3> QED
      BY <3>1, <3>2 DEF AtMostOne, Single
  <2>5. AtMostOne(RequestPlaces(id)) /\ (RequestPlaces(id) # {} => id \in InRequest(w))
    <3>1. \A x \in RequestPlaces(id) : \E i \in DOMAIN request[w].finished :
            x = <<"request", w, i>> /\ id \in InRequest(w) /\ request[w].finished[i].id = id
      BY <2>1, CarrierIsTheCarried
    <3>2. Single(request[w].finished)
      BY <2>2 DEF OnceAt
    <3> QED
      BY <3>1, <3>2 DEF AtMostOne, Single
  <2>6. /\ id \in InResponse(w) => id \notin Busy(w) /\ id \notin InChannel(w) /\ id \notin InRequest(w)
        /\ id \in Busy(w) => id \notin InChannel(w) /\ id \notin InRequest(w)
        /\ id \in InChannel(w) => id \notin InRequest(w)
    BY <2>2 DEF OnceAt, Busy, Held
  <2>7. AtMostOne(ResponsePlaces(id)) /\ AtMostOne(GoroutinePlaces(id))
    BY <2>3 DEF AtMostOne
  <2> QED
    BY <2>3, <2>4, <2>5, <2>6, <2>7 DEF AtMostOne, CarrierPlaces
<1> QED
  BY <1>1, <1>2

LEMMA OnePlace == OnceInv /\ KeptOK => PendingJobIsInOnePlace
<1> SUFFICES ASSUME OnceInv, KeptOK
             PROVE  PendingJobIsInOnePlace
  OBVIOUS
<1> USE DEF OnceInv, SafeInv
<1>0. losses \in Nat /\ crashes \in Nat /\ restarts \in Nat
  BY DEF TypeOK
<1> SUFFICES ASSUME NEW id \in JobIDs, restarts = 0
             PROVE  /\ Cardinality(Places(id)) <= 1
                    /\ losses + crashes + restarts = 0 =>
                         Cardinality(Places(id)) = IF pending[id] = Nil THEN 0 ELSE 1
  BY <1>0 DEF PendingJobIsInOnePlace
<1> DEFINE Early == QueuePlaces(id) \cup PickedPlaces(id)
           Late == CarrierPlaces(id)
<1>1. Places(id) = Early \cup Late
  BY DEF Places
<1>2. AtMostOne(Early) /\ (Early # {} => id \notin Taken)
  BY SchedulerPlaces
<1>3. AtMostOne(Late) /\ (Late # {} <=> \E w \in Workers : id \in Carried(w))
  BY CarriedInOnePlace, CarrierIsTheCarried
<1>4. \A w \in Workers : id \in Carried(w) => id \in Taken
  BY DEF OnceOK
<1>5. Cardinality(Places(id)) = IF Places(id) = {} THEN 0 ELSE 1
  <2> HIDE DEF Early, Late
  <2>1. AtMostOne(Places(id))
    BY <1>1, <1>2, <1>3, <1>4 DEF AtMostOne
  <2> QED
    BY <2>1, CountAtMostOne
<1>6. pending[id] = Nil => Places(id) = {}
  <2> SUFFICES ASSUME pending[id] = Nil, Places(id) # {}
               PROVE  FALSE
    OBVIOUS
  <2>1. completed[id] = NoResult
    BY <1>1, <1>2, <1>3 DEF OnceOK
  <2>2. \A h \in Sched!Pointers : Sched!JobOf(h) # id
    BY <2>1 DEF Sched!IInv, Sched!ClosedIsKnown, Sched!WaitersShareOnePendingJob, Sched!Pointers,
       Nil
  <2>3. id \notin Taken
    BY <2>2 DEF Taken, Sched!IInv, Sched!TypeOK
  <2>4. Early = {}
    BY <2>2, QueuedIsNotTaken, HandedOnce DEF QueuePlaces, PickedPlaces
  <2> QED
    BY <1>1, <1>3, <1>4, <2>3, <2>4
<1>7. ASSUME losses + crashes + restarts = 0, pending[id] # Nil
      PROVE  Places(id) # {}
  <2> DEFINE h == pending[id]
  <2>1. h \in Sched!Pointers /\ Sched!JobOf(h) = id /\ Sched!Open(h)
    BY <1>7 DEF Sched!IInv, Sched!TypeOK, Sched!PendingIsOpen, Sched!Nil, Nil
  <2> HIDE DEF h
  <2>2. CASE Sched!InQueue(h)
    <3>1. QueuePlaces(id) # {}
      BY <2>1, <2>2 DEF Sched!InQueue, QueuePlaces
    <3> QED
      BY <1>1, <3>1
  <2>3. CASE h \in handed
    <3>1. PICK w \in Workers : got[w] = h \/ id \in Carried(w)
      BY <1>7, <2>1, <2>3 DEF KeptOK, Somewhere
    <3>2. CASE got[w] = h
      <4>1. got[w] # Nil
        BY <2>1, <3>2 DEF Sched!Pointers, Nil
      <4>2. <<"picked", w>> \in PickedPlaces(id)
        BY <2>1, <3>2, <4>1 DEF PickedPlaces
      <4> QED
        BY <1>1, <4>2
    <3> QED
      BY <1>1, <1>3, <3>1, <3>2
  <2> QED
    BY <2>1, <2>2, <2>3 DEF Sched!IInv, Sched!NoJobIsLost
<1> QED
  BY <1>5, <1>6, <1>7

(* A job is never in two places while the coordinator lives, and in one as   *)
(* long as nothing is lost and nobody restarts: for any jobs, builds,       *)
(* workers and slots.                                                       *)
THEOREM JobsAreInOnePlace == Spec => []PendingJobIsInOnePlace
BY KeptAlways, OnePlace, PTL

-----------------------------------------------------------------------------
(* Fresh.  While the coordinator lives, what it knows agrees: the result of  *)
(* an object is the one known of its job, a location is of an artifact       *)
(* unless its job has failed, the jobs a build has passed have succeeded.   *)
RecallOK ==
  /\ \A h \in Sched!Pointers :
       allocated[h].result # NoResult => allocated[h].result = completed[Sched!JobOf(h)]
  /\ \A id \in JobIDs : \A w \in artifacts[id] : id \in disk[w] \/ completed[id] = "failed"

PassedAt(b) ==
  buildPc[b] \in {"next", "waiting"} =>
    \A i \in 1..(position[b] - 1) : completed[Plan[b][i]] \in Good

FreshOK == RecallOK /\ \A b \in Builds : PassedAt(b)

(* The first result of a job is the last: nobody carries a report of it. *)
LEMMA KnownIsFinal ==
  ASSUME SafeInv, OnceOK, [Next]_vars, ~RestartCoordinator, NEW id \in JobIDs,
         completed[id] # NoResult
  PROVE  completed'[id] = completed[id]
<1>1. ASSUME NEW w \in Workers, HandleFinished(w), id = Head(request[w].finished).id
      PROVE  FALSE
  <2>1. id \in Carried(w)
    BY <1>1, HandledLeaves DEF SafeInv, OnceOK
  <2> QED
    BY <2>1 DEF OnceOK
<1> QED
  BY <1>1, KnownSteps

LEMMA KnownElsewhere ==
  ASSUME RecallOK, UNCHANGED <<completed, allocated, artifacts>>,
         \A w \in Workers : disk[w] \subseteq disk'[w], Sched!TypeOK
  PROVE  RecallOK'
BY DEF RecallOK, Sched!Pointers, Sched!JobOf, Sched!TypeOK

(* What one step of the heartbeat loop of a worker does to the scheduler. *)
LEMMA LoopAtScheduler ==
  ASSUME SafeInv, NEW w \in Workers, Run(w)
  PROVE  /\ UNCHANGED buildVars
         /\ \/ HandleFinished(w) \/ HandleAdded(w)
            \/ UNCHANGED <<completed, allocated, artifacts>>
<1>1. CASE HandleFinished(w) \/ HandleAdded(w)
  BY <1>1 DEF HandleFinished, HandleAdded
<1>2. CASE HandlerPicks(w) \/ HandlerInPick(w) \/ HandlerPicked(w)
  BY <1>2, PickEffect DEF SafeInv, HandlerPicks, HandlerInPick, HandlerPicked
<1>3. CASE \/ CollectFinished(w) \/ CollectAdded(w) \/ SendHeartbeat(w)
           \/ Deliver(w) \/ StartJob(w) \/ NextHeartbeat(w)
  BY <1>3 DEF CollectFinished, CollectAdded, SendHeartbeat, Deliver, StartJob, NextHeartbeat,
     schedVars
<1> QED
  BY <1>1, <1>2, <1>3 DEF Run

(* A report that a handler passes on is true of the worker it comes from. *)
LEMMA HandledIsTrue ==
  ASSUME SafeInv, NEW w \in Workers, HandleFinished(w)
  PROVE  LET r == Head(request[w].finished)
         IN  /\ r.id \in JobIDs /\ r.res \in Results
             /\ Sched!OnJobComplete(w, r.id, r.res)
             /\ r.res = "failed" \/ r.id \in disk[w]
<1> DEFINE r == Head(request[w].finished)
<1>1. request[w].finished \in Seq(Truths(w)) /\ request[w].finished # <<>>
  BY DEF SafeInv, TruthOK, TruthAt, HandleFinished
<1>2. r \in Truths(w)
  BY <1>1, TailTyping
<1> QED
  BY <1>2 DEF Truths, JobResults, Results, Good, HandleFinished

LEMMA AnnouncedIsTrue ==
  ASSUME SafeInv, NEW w \in Workers, HandleAdded(w)
  PROVE  LET id == Head(request[w].added)
         IN  id \in JobIDs /\ id \in disk[w] /\ Sched!OnJobComplete(w, id, NoResult)
<1>1. request[w].added \in Seq(disk[w]) /\ request[w].added # <<>> /\ disk[w] \subseteq JobIDs
  BY DEF SafeInv, TypeOK, TruthOK, TruthAt, HandleAdded
<1>2. Head(request[w].added) \in disk[w]
  BY <1>1, TailTyping
<1> QED
  BY <1>1, <1>2 DEF HandleAdded

LEMMA KnownByReport ==
  ASSUME SafeInv, OnceOK, RecallOK, [Next]_vars, ~RestartCoordinator,
         NEW w \in Workers, NEW id \in JobIDs, NEW res \in Results \cup {NoResult},
         Sched!OnJobComplete(w, id, res), id \in disk[w] \/ completed'[id] = "failed"
  PROVE  RecallOK'
<1> USE DEF SafeInv
<1>1. /\ \A j \in JobIDs : completed'[j] = completed[j] \/ (j = id /\ completed'[j] = res)
      /\ \A j \in JobIDs : artifacts'[j] \subseteq artifacts[j] \cup (IF j = id THEN {w} ELSE {})
      /\ \A j \in JobIDs : artifacts[j] \subseteq Workers
  BY CompleteEffect DEF Sched!IInv, Sched!TypeOK
<1>2. \A j \in JobIDs : completed[j] # NoResult => completed'[j] = completed[j]
  BY KnownIsFinal
<1>3. ASSUME NEW h \in Sched!Pointers', allocated'[h].result # NoResult
      PROVE  allocated'[h].result = completed'[allocated'[h].job.id]
  <2>1. /\ h \in Sched!Pointers /\ allocated'[h].job = allocated[h].job
        /\ \/ allocated'[h] = allocated[h]
           \/ allocated[h].job.id = id /\ allocated'[h].result = res /\ completed'[id] = res
    BY CompleteEffect DEF Sched!JobOf
  <2>2. allocated[h].job.id \in JobIDs
    BY <2>1, ObjectTypes DEF Sched!IInv, Sched!JobOf
  <2> QED
    BY <1>2, <1>3, <2>1, <2>2 DEF RecallOK, Sched!JobOf
<1>4. ASSUME NEW j \in JobIDs, NEW v \in artifacts'[j]
      PROVE  j \in disk'[v] \/ completed'[j] = "failed"
  <2>1. \A u \in Workers : disk[u] \subseteq disk'[u]
    BY DisksGrow
  <2>2. CASE v \in artifacts[j]
    <3>1. v \in Workers /\ (j \in disk[v] \/ completed[j] = "failed")
      BY <1>1, <2>2 DEF RecallOK
    <3> QED
      BY <1>2, <2>1, <3>1 DEF NoResult
  <2>3. CASE v = w /\ j = id
    BY <2>1, <2>3
  <2> QED
    BY <1>1, <1>4, <2>2, <2>3
<1> QED
  BY <1>3, <1>4 DEF RecallOK, Sched!JobOf

LEMMA KnownAfter ==
  ASSUME SafeInv, OnceOK, FreshOK, [Next]_vars, ~RestartCoordinator
  PROVE  RecallOK'
<1> USE DEF SafeInv
<1>1. /\ RecallOK /\ Sched!TypeOK
      /\ \A w \in Workers : disk[w] \subseteq disk'[w]
  BY DisksGrow DEF FreshOK, TypeOK
<1>2. ASSUME NEW b \in Builds, Build(b) \/ BuildCancel(b)
      PROVE  RecallOK'
  <2>1. CASE UNCHANGED schedVars
    BY <1>1, <2>1, KnownElsewhere DEF schedVars
  <2>2. CASE BuildSchedule(b)
    <3>1. CurrentJob(b) \in JobIDs
      BY <2>2, PlanFacts DEF BuildSchedule, HasJob, CurrentJob, TypeOK
    <3>2. PICK job \in JobSpecs : Sched!ScheduleJob(job)
      BY <2>2, <3>1, SpecFacts DEF BuildSchedule
    <3>3. completed' = completed /\ artifacts' = artifacts /\ job.id \in JobIDs
      BY <3>2, ScheduleEffect DEF JobSpecs
    <3>4. \A h \in Sched!Pointers' :
            allocated'[h].result # NoResult =>
              allocated'[h].result = completed[allocated'[h].job.id]
      BY <1>1, <3>2, <3>3, ScheduleEffect DEF RecallOK, Sched!JobOf
    <3>5. \A id \in JobIDs : artifacts[id] \subseteq Workers
      BY <1>1 DEF Sched!TypeOK
    <3> QED
      BY <1>1, <3>3, <3>4, <3>5 DEF RecallOK, Sched!JobOf
  <2> QED
    BY <1>2, <2>1, <2>2 DEF Build, BuildRefused, BuildWake, BuildFinish, BuildCancel
<1>3. ASSUME NEW w \in Workers, Run(w)
      PROVE  RecallOK'
  <2>1. CASE HandleFinished(w)
    BY <1>1, <2>1, HandledIsTrue, ReportIsKnown, KnownByReport
  <2>2. CASE HandleAdded(w)
    BY <1>1, <2>2, AnnouncedIsTrue, KnownByReport
  <2>3. CASE UNCHANGED <<completed, allocated, artifacts>>
    BY <1>1, <2>3, KnownElsewhere
  <2> QED
    BY <1>3, <2>1, <2>2, <2>3, LoopAtScheduler
<1>4. UNCHANGED vars => UNCHANGED schedVars
  BY DEF vars
<1> QED
  BY <1>1, <1>2, <1>3, <1>4, OthersLeave, KnownElsewhere DEF Next, schedVars

LEMMA PassedElsewhere ==
  ASSUME SafeInv, NEW b \in Builds, PassedAt(b), buildPc'[b] = buildPc[b],
         position'[b] = position[b],
         \A id \in JobIDs : completed[id] # NoResult => completed'[id] = completed[id]
  PROVE  PassedAt(b)'
<1>1. buildPc[b] \in {"next", "waiting"} => \A i \in 1..(position[b] - 1) : Plan[b][i] \in JobIDs
  BY DEF SafeInv, BuildsOK, BuildAt, Committed
<1> QED
  BY <1>1 DEF PassedAt, Good, NoResult

(* What a build learns when it wakes is the result known of its job. *)
LEMMA WokenBy ==
  ASSUME SafeInv, NEW b \in Builds, BuildWake(b)
  PROVE  LET h == waitsFor[b]
         IN  /\ h \in Sched!Pointers /\ Sched!JobOf(h) = CurrentJob(b)
             /\ CurrentJob(b) \in JobIDs /\ HasJob(b)
             /\ allocated[h].result \in Results
<1> DEFINE h == waitsFor[b]
<1>1. BuildAt(b) /\ Sched!IInv
  BY DEF SafeInv, BuildsOK
<1>2. /\ ~Sched!Open(h) /\ h \in Sched!Pointers
      /\ Sched!JobOf(h) = CurrentJob(b) /\ HasJob(b)
  BY <1>1 DEF BuildWake, BuildAt
<1>3. allocated[h].result # NoResult
  BY <1>1, <1>2 DEF Sched!IInv, Sched!CloseOnce
<1>4. allocated[h].result \in Results \cup {NoResult} /\ Sched!JobOf(h) \in JobIDs
  BY <1>1, <1>2, ObjectTypes DEF Sched!IInv
<1> QED
  BY <1>2, <1>3, <1>4

LEMMA PassedActs ==
  ASSUME SafeInv, RecallOK, NEW b \in Builds, PassedAt(b), Build(b) \/ BuildCancel(b),
         completed' = completed
  PROVE  PassedAt(b)'
<1>1. position[b] \in Nat \ {0} /\ buildPc \in [Builds -> BuildPcs]
      /\ position \in [Builds -> Nat \ {0}]
  BY DEF SafeInv, TypeOK
<1>2. CASE BuildSchedule(b) \/ BuildRefused(b) \/ BuildFinish(b) \/ BuildCancel(b)
  <2>1. /\ position' = position /\ buildPc[b] \in {"next", "waiting"}
        /\ buildPc'[b] \in {"waiting", "refused", "finished", "cancelled"}
    BY <1>1, <1>2 DEF BuildSchedule, BuildRefused, BuildFinish, BuildCancel
  <2> QED
    BY <2>1 DEF PassedAt
<1>3. CASE BuildWake(b)
  <2> DEFINE h == waitsFor[b]
  <2>1. buildPc[b] = "waiting"
    BY <1>3 DEF BuildWake
  <2>2. CASE allocated[h].result = "failed"
    BY <1>1, <1>3, <2>2 DEF BuildWake, PassedAt
  <2>3. CASE allocated[h].result # "failed"
    <3>1. buildPc'[b] = "next" /\ position'[b] = position[b] + 1
      BY <1>1, <1>3, <2>3 DEF BuildWake
    <3>2. completed[Plan[b][position[b]]] \in Good
      BY <1>3, <2>3, WokenBy DEF Results, Good, CurrentJob, RecallOK, NoResult
    <3>3. \A i \in 1..(position'[b] - 1) : i = position[b] \/ i \in 1..(position[b] - 1)
      BY <1>1, <3>1
    <3> QED
      BY <2>1, <3>1, <3>2, <3>3 DEF PassedAt
  <2> QED
    BY <2>2, <2>3
<1> QED
  BY <1>2, <1>3 DEF Build

(* What a build does to the others, and to what is known of jobs: nothing. *)
LEMMA BuildAlone ==
  ASSUME SafeInv, NEW a \in Builds, Build(a) \/ BuildCancel(a)
  PROVE  /\ UNCHANGED completed
         /\ \A b \in Builds : b # a => buildPc'[b] = buildPc[b] /\ position'[b] = position[b]
<1>1. UNCHANGED completed
  <2>1. CASE BuildSchedule(a)
    BY <2>1 DEF BuildSchedule, Sched!ScheduleJob, Sched!ScheduleCompleted,
       Sched!SchedulePending, Sched!ScheduleNew, Sched!vars
  <2> QED
    BY <2>1 DEF Build, BuildRefused, BuildWake, BuildFinish, BuildCancel, schedVars
<1>2. \A b \in Builds : b # a => buildPc'[b] = buildPc[b] /\ position'[b] = position[b]
  BY DEF SafeInv, TypeOK, Build, BuildSchedule, BuildRefused, BuildWake, BuildFinish,
     BuildCancel
<1> QED
  BY <1>1, <1>2

LEMMA PassedAfter ==
  ASSUME SafeInv, OnceOK, FreshOK, [Next]_vars, ~RestartCoordinator, NEW b \in Builds
  PROVE  PassedAt(b)'
<1>1. /\ PassedAt(b) /\ RecallOK
      /\ \A id \in JobIDs : completed[id] # NoResult => completed'[id] = completed[id]
  BY KnownIsFinal DEF FreshOK
<1>2. ASSUME NEW a \in Builds, Build(a) \/ BuildCancel(a)
      PROVE  PassedAt(b)'
  BY <1>1, <1>2, BuildAlone, PassedActs, PassedElsewhere
<1>3. CASE UNCHANGED buildVars
  BY <1>1, <1>3, PassedElsewhere DEF buildVars
<1>4. UNCHANGED vars => UNCHANGED buildVars
  BY DEF vars
<1> QED
  BY <1>2, <1>3, <1>4, OthersLeave, LoopAtScheduler DEF Next

LEMMA FreshInit == Init => FreshOK
<1> SUFFICES ASSUME Init
             PROVE  FreshOK
  OBVIOUS
<1>1. RecallOK
  BY DEF Init, Sched!Init, RecallOK, Sched!Pointers, NoResult
<1>2. ASSUME NEW b \in Builds
      PROVE  PassedAt(b)
  BY DEF Init, PassedAt
<1> QED
  BY <1>1, <1>2 DEF FreshOK

-----------------------------------------------------------------------------
(* Worth.  What the coordinator hands out and what it is told can be          *)
(* accounted for, whatever has been lost, has died or was forgotten: a spec   *)
(* names holders, or workers it may be misled to; a location is of an        *)
(* artifact, or of a failure; a failure has its reason.                      *)
Excused ==
  {id \in JobIDs : \/ id \in Fallible \cup broken
                  \/ \E dep \in Deps[id], w \in Workers : MayMislead(id, dep, w)}

Honest ==
  {spec \in JobSpecs : \A dep \in Deps[spec.id] :
     LET source == spec.artifacts[dep]
     IN  dep \in disk[source] \/ MayMislead(spec.id, dep, source)}

Fair(w) == {r \in JobResults : r.res = "failed" => r.id \in Excused /\ <<w, r.id>> \in failedAt}

RecordsOK ==
  /\ \A h \in Sched!Pointers :
       /\ allocated[h].job \in Honest
       /\ allocated[h].result = "failed" => Sched!JobOf(h) \in Excused
  /\ \A id \in JobIDs :
       /\ completed[id] = "failed" => id \in Excused
       /\ \A w \in artifacts[id] : id \in disk[w] \/ <<w, id>> \in failedAt

OwnAt(b) == buildPc[b] = "failed" => CurrentJob(b) \in Excused

FairAt(w) ==
  /\ finishedCh[w] \in Seq(Fair(w)) /\ request[w].finished \in Seq(Fair(w))
  /\ jobsToRun[w] \subseteq Honest
  /\ \A id \in JobIDs :
       /\ jobPc[w][id] \in {"create", "deps"} => task[w][id] \in Honest
       /\ jobPc[w][id] = "report" /\ outcome[w][id] = "failed" =>
            id \in Excused /\ <<w, id>> \in failedAt

WorthOK == RecordsOK /\ (\A b \in Builds : OwnAt(b)) /\ (\A w \in Workers : FairAt(w))

\* What is remembered is not forgotten, so what was accounted for remains so.
NothingForgotten ==
  /\ failedAt \subseteq failedAt'
  /\ \A w \in Workers : disk[w] \subseteq disk'[w] /\ Fair(w) \subseteq Fair(w)'
  /\ Honest \subseteq Honest'
  /\ Excused \subseteq Excused'

LEMMA PastGrows ==
  ASSUME SafeInv, [Next]_vars
  PROVE  /\ broken \subseteq broken' /\ failedAt \subseteq failedAt'
         /\ restarts > 0 => restarts' > 0
<1>1. restarts \in Nat
  BY DEF SafeInv, TypeOK
<1>2. ASSUME NEW b \in Builds, Build(b) \/ BuildCancel(b)
      PROVE  UNCHANGED envVars
  BY <1>2 DEF Build, BuildSchedule, BuildRefused, BuildWake, BuildFinish, BuildCancel
<1>3. ASSUME NEW w \in Workers, Run(w)
      PROVE  UNCHANGED envVars
  BY <1>3 DEF Run, CollectFinished, CollectAdded, SendHeartbeat, HandleFinished, HandleAdded,
     HandlerPicks, HandlerInPick, HandlerPicked, Deliver, StartJob, NextHeartbeat
<1>4. ASSUME NEW w \in Workers, NEW id \in JobIDs, Job(w, id)
      PROVE  /\ broken \subseteq broken' /\ failedAt \subseteq failedAt'
             /\ restarts' = restarts
  BY <1>4, PastSteps DEF faultVars
<1>5. ASSUME NEW w \in Workers, LoseRequest(w) \/ LoseResponse(w) \/ RestartWorker(w)
      PROVE  UNCHANGED <<pastVars, restarts>>
  BY <1>5 DEF LoseRequest, LoseResponse, DropHeartbeat, RestartWorker
<1>6. CASE RestartCoordinator
  BY <1>1, <1>6 DEF RestartCoordinator, pastVars
<1>7. UNCHANGED vars => UNCHANGED envVars
  BY DEF vars
<1> QED
  BY <1>2, <1>3, <1>4, <1>5, <1>6, <1>7 DEF Next, envVars, faultVars, pastVars

LEMMA NothingIsForgotten ==
  ASSUME SafeInv, [Next]_vars
  PROVE  NothingForgotten
<1>1. /\ broken \subseteq broken' /\ failedAt \subseteq failedAt'
      /\ \A w \in Workers : disk[w] \subseteq disk'[w]
  BY PastGrows, DisksGrow DEF SafeInv
<1>2. ASSUME NEW id, NEW dep, NEW w, MayMislead(id, dep, w)
      PROVE  MayMislead(id, dep, w)'
  BY <1>2, PastGrows DEF MayMislead, Lacks
<1>3. Excused \subseteq Excused'
  BY <1>1, <1>2 DEF Excused
<1>4. \A spec \in JobSpecs : \A dep \in Deps[spec.id] : spec.artifacts[dep] \in Workers
  BY DEF JobSpecs, Locations
<1>5. Honest \subseteq Honest'
  BY <1>1, <1>2, <1>4 DEF Honest
<1>6. \A w \in Workers : Fair(w) \subseteq Fair(w)'
  BY <1>1, <1>3 DEF Fair, JobResults
<1> QED
  BY <1>1, <1>3, <1>5, <1>6 DEF NothingForgotten

(* The spec that a build hands over names holders, or its graph lacks what   *)
(* has failed at the worker named.                                          *)
LEMMA SpecIsHonest ==
  ASSUME SafeInv, restarts = 0 => FreshOK, RecordsOK, NEW b \in Builds,
         buildPc[b] = "next", HasJob(b),
         NEW where \in Locations(Deps[CurrentJob(b)]),
         \A dep \in DOMAIN where : where[dep] \in Sched!LocateArtifact(dep)
  PROVE  [id |-> CurrentJob(b), artifacts |-> where] \in Honest
<1> DEFINE cur == CurrentJob(b)
<1>1. position[b] \in DOMAIN Plan[b] /\ cur = Plan[b][position[b]] /\ cur \in JobIDs
  BY PlanFacts DEF HasJob, CurrentJob, SafeInv, TypeOK
<1>2. [id |-> cur, artifacts |-> where] \in JobSpecs /\ DOMAIN where = Deps[cur]
  BY <1>1, SpecFacts
<1>3. ASSUME NEW dep \in Deps[cur]
      PROVE  dep \in disk[where[dep]] \/ MayMislead(cur, dep, where[dep])
  <2>1. where[dep] \in artifacts[dep] /\ dep \in JobIDs
    BY <1>1, <1>2, DepsAssumption DEF Sched!LocateArtifact
  <2>2. dep \in disk[where[dep]] \/ <<where[dep], dep>> \in failedAt
    BY <2>1 DEF RecordsOK
  <2>3. CASE Lacks(cur, dep) \/ restarts > 0
    BY <2>2, <2>3 DEF MayMislead
  <2>4. CASE ~Lacks(cur, dep) /\ restarts = 0
    <3>1. PICK i \in 1..(position[b] - 1) : Plan[b][i] = dep
      BY <1>1, <2>4 DEF Lacks
    <3>2. completed[dep] \in Good
      BY <2>4, <3>1 DEF FreshOK, PassedAt
    <3> QED
      BY <2>1, <2>4, <3>2 DEF FreshOK, RecallOK, Good
  <2> QED
    BY <2>3, <2>4 DEF SafeInv, TypeOK
<1> QED
  BY <1>2, <1>3 DEF Honest

LEMMA RecordsElsewhere ==
  ASSUME RecordsOK, UNCHANGED <<completed, allocated, artifacts>>, NothingForgotten, Sched!IInv
  PROVE  RecordsOK'
<1>1. Sched!Pointers' = Sched!Pointers /\ \A id \in JobIDs : artifacts[id] \subseteq Workers
  BY DEF Sched!Pointers, Sched!IInv, Sched!TypeOK
<1>2. \A h \in Sched!Pointers : Sched!JobOf(h) \in JobIDs /\ Sched!JobOf(h)' = Sched!JobOf(h)
  BY ObjectTypes DEF Sched!IInv, Sched!JobOf
<1> QED
  BY <1>1, <1>2 DEF RecordsOK, NothingForgotten

LEMMA RecordsByReport ==
  ASSUME SafeInv, RecordsOK, NothingForgotten,
         NEW w \in Workers, NEW id \in JobIDs, NEW res \in Results \cup {NoResult},
         Sched!OnJobComplete(w, id, res), id \in disk[w] \/ <<w, id>> \in failedAt,
         res = "failed" => id \in Excused
  PROVE  RecordsOK'
<1> USE DEF SafeInv
<1>1. /\ \A j \in JobIDs : completed'[j] = completed[j] \/ (j = id /\ completed'[j] = res)
      /\ \A j \in JobIDs : artifacts'[j] \subseteq artifacts[j] \cup (IF j = id THEN {w} ELSE {})
      /\ \A j \in JobIDs : artifacts[j] \subseteq Workers
  BY CompleteEffect DEF Sched!IInv, Sched!TypeOK
<1>2. ASSUME NEW h \in Sched!Pointers'
      PROVE  /\ allocated'[h].job \in Honest'
             /\ allocated'[h].result = "failed" => allocated'[h].job.id \in Excused'
  <2>1. /\ h \in Sched!Pointers /\ allocated'[h].job = allocated[h].job
        /\ \/ allocated'[h] = allocated[h]
           \/ allocated[h].job.id = id /\ allocated'[h].result = res
    BY CompleteEffect DEF Sched!JobOf
  <2>2. allocated[h].job.id \in JobIDs
    BY <2>1, ObjectTypes DEF Sched!IInv, Sched!JobOf
  <2> QED
    BY <2>1, <2>2 DEF RecordsOK, Sched!JobOf, NothingForgotten
<1>3. \A j \in JobIDs : completed'[j] = "failed" => j \in Excused'
  BY <1>1 DEF RecordsOK, NothingForgotten
<1>4. \A j \in JobIDs : \A v \in artifacts'[j] : j \in disk'[v] \/ <<v, j>> \in failedAt'
  BY <1>1 DEF RecordsOK, NothingForgotten
<1> QED
  BY <1>2, <1>3, <1>4 DEF RecordsOK, Sched!JobOf

LEMMA RecordsStep ==
  ASSUME SafeInv, restarts = 0 => FreshOK, WorthOK, [Next]_vars
  PROVE  RecordsOK'
<1> USE DEF SafeInv
<1>1. NothingForgotten /\ RecordsOK
  BY NothingIsForgotten DEF WorthOK
<1>2. ASSUME NEW b \in Builds, Build(b) \/ BuildCancel(b)
      PROVE  RecordsOK'
  <2>1. CASE UNCHANGED schedVars
    BY <1>1, <2>1, RecordsElsewhere DEF schedVars
  <2>2. CASE BuildSchedule(b)
    <3>1. CurrentJob(b) \in JobIDs
      BY <2>2, PlanFacts DEF BuildSchedule, HasJob, CurrentJob, TypeOK
    <3>2. PICK job \in JobSpecs : Sched!ScheduleJob(job) /\ job \in Honest
      BY <1>1, <2>2, <3>1, SpecFacts, SpecIsHonest DEF BuildSchedule
    <3>3. completed' = completed /\ artifacts' = artifacts /\ job.id \in JobIDs
      BY <3>2, ScheduleEffect DEF JobSpecs
    <3>4. ASSUME NEW h \in Sched!Pointers'
          PROVE  /\ allocated'[h].job \in Honest'
                 /\ allocated'[h].result = "failed" => allocated'[h].job.id \in Excused'
      <4>1. CASE h \in Sched!Pointers /\ allocated'[h] = allocated[h]
        BY <1>1, <4>1, ObjectTypes DEF RecordsOK, NothingForgotten, Sched!IInv, Sched!JobOf
      <4>2. CASE allocated'[h].job = job /\ allocated'[h].result = completed[job.id]
        BY <1>1, <3>2, <3>3, <4>2 DEF RecordsOK, NothingForgotten
      <4> QED
        BY <3>2, <3>4, <4>1, <4>2, ScheduleEffect
    <3>5. \A id \in JobIDs : artifacts[id] \subseteq Workers
      BY DEF Sched!IInv, Sched!TypeOK
    <3> QED
      BY <1>1, <3>3, <3>4, <3>5 DEF RecordsOK, Sched!JobOf, NothingForgotten
  <2> QED
    BY <1>2, <2>1, <2>2 DEF Build, BuildRefused, BuildWake, BuildFinish, BuildCancel
<1>3. ASSUME NEW w \in Workers, Run(w)
      PROVE  RecordsOK'
  <2>1. CASE HandleFinished(w)
    <3> DEFINE r == Head(request[w].finished)
    <3>1. request[w].finished \in Seq(Fair(w)) /\ request[w].finished # <<>>
      BY <2>1 DEF WorthOK, FairAt, HandleFinished
    <3>2. r \in Fair(w)
      BY <3>1, TailTyping
    <3> QED
      BY <1>1, <2>1, <3>2, HandledIsTrue, RecordsByReport DEF Fair
  <2>2. CASE HandleAdded(w)
    BY <1>1, <2>2, AnnouncedIsTrue, RecordsByReport DEF NoResult
  <2>3. CASE UNCHANGED <<completed, allocated, artifacts>>
    BY <1>1, <2>3, RecordsElsewhere
  <2> QED
    BY <1>3, <2>1, <2>2, <2>3, LoopAtScheduler
<1>4. CASE RestartCoordinator
  BY <1>4 DEF RestartCoordinator, RecordsOK, Sched!Pointers, NoResult
<1>5. UNCHANGED vars => UNCHANGED schedVars
  BY DEF vars
<1> QED
  BY <1>1, <1>2, <1>3, <1>4, <1>5, OthersLeave, RecordsElsewhere DEF Next, schedVars

LEMMA OwnStep ==
  ASSUME SafeInv, WorthOK, [Next]_vars, NEW b \in Builds
  PROVE  OwnAt(b)'
<1>1. OwnAt(b) /\ RecordsOK /\ NothingForgotten
  BY NothingIsForgotten DEF WorthOK
<1>2. buildPc \in [Builds -> BuildPcs] /\ position \in [Builds -> Nat \ {0}]
  BY DEF SafeInv, TypeOK
<1>3. ASSUME buildPc'[b] = "failed" => buildPc[b] = "failed", position'[b] = position[b]
      PROVE  OwnAt(b)'
  BY <1>1, <1>3 DEF OwnAt, CurrentJob, NothingForgotten
<1>4. CASE UNCHANGED buildVars
  BY <1>3, <1>4 DEF buildVars
<1>5. ASSUME NEW a \in Builds, Build(a) \/ BuildCancel(a), a # b
      PROVE  OwnAt(b)'
  BY <1>3, <1>5, BuildAlone
<1>6. CASE BuildSchedule(b) \/ BuildRefused(b) \/ BuildFinish(b) \/ BuildCancel(b)
  BY <1>2, <1>6 DEF OwnAt, BuildSchedule, BuildRefused, BuildFinish, BuildCancel
<1>7. CASE BuildWake(b)
  <2> DEFINE h == waitsFor[b]
  <2>1. CASE allocated[h].result = "failed"
    <3>1. position'[b] = position[b] /\ CurrentJob(b) \in Excused
      BY <1>1, <1>7, <2>1, WokenBy DEF BuildWake, RecordsOK
    <3> QED
      BY <1>1, <3>1 DEF OwnAt, CurrentJob, NothingForgotten
  <2>2. CASE allocated[h].result # "failed"
    BY <1>2, <1>7, <2>2 DEF BuildWake, OwnAt
  <2> QED
    BY <2>1, <2>2
<1>8. CASE RestartCoordinator
  BY <1>2, <1>3, <1>8 DEF RestartCoordinator
<1>9. UNCHANGED vars => UNCHANGED buildVars
  BY DEF vars
<1> QED
  BY <1>4, <1>5, <1>6, <1>7, <1>8, <1>9, OthersLeave, LoopAtScheduler DEF Next, Build

(* What a worker was given and what it will report. *)
LEMMA TaskElsewhere ==
  ASSUME TypeOK, NEW w \in Workers, NEW v \in Workers, v # w,
         \/ Run(w) \/ LoseRequest(w) \/ LoseResponse(w) \/ RestartWorker(w)
         \/ \E id \in JobIDs : Job(w, id)
  PROVE  UNCHANGED <<Bag(v), task[v], outcome[v]>>
BY MemoryElsewhere DEF Memory, Bag

LEMMA FairElsewhere ==
  ASSUME NEW w \in Workers, FairAt(w), UNCHANGED <<Bag(w), task[w], outcome[w]>>,
         NothingForgotten
  PROVE  FairAt(w)'
<1>1. Seq(Fair(w)) \subseteq Seq(Fair(w)')
  BY SeqGrows DEF NothingForgotten
<1>2. /\ jobsToRun'[w] = jobsToRun[w] /\ jobPc'[w] = jobPc[w] /\ task'[w] = task[w]
      /\ outcome'[w] = outcome[w] /\ finishedCh'[w] = finishedCh[w]
      /\ request'[w].finished = request[w].finished
  BY DEF Bag
<1> QED
  BY <1>1, <1>2 DEF FairAt, NothingForgotten

LEMMA FairInLoop ==
  ASSUME SafeInv, RecordsOK, NEW w \in Workers, FairAt(w), Run(w), NothingForgotten
  PROVE  FairAt(w)'
<1> USE DEF SafeInv
<1>1. Seq(Fair(w)) \subseteq Seq(Fair(w)') /\ <<>> \in Seq(Fair(w)')
  BY SeqGrows DEF NothingForgotten
<1>2. CASE CollectFinished(w) \/ NextHeartbeat(w)
  <2>1. /\ finishedCh'[w] \in {<<>>, finishedCh[w]}
        /\ request'[w].finished \in {<<>>, finishedCh[w]}
        /\ jobsToRun' = jobsToRun /\ jobPc' = jobPc /\ outcome' = outcome /\ task' = task
    BY <1>2, DeskFacts DEF CollectFinished, NextHeartbeat, NoRequest, jobVars, chanVars
  <2> QED
    BY <1>1, <2>1 DEF FairAt, NothingForgotten
<1>3. CASE HandleFinished(w)
  <2>1. /\ finishedCh' = finishedCh /\ request'[w].finished = Tail(request[w].finished)
        /\ request[w].finished # <<>>
        /\ jobsToRun' = jobsToRun /\ jobPc' = jobPc /\ outcome' = outcome /\ task' = task
    BY <1>3, DeskFacts DEF HandleFinished, jobVars, chanVars
  <2>2. Tail(request[w].finished) \in Seq(Fair(w))
    BY <2>1, TailTyping DEF FairAt
  <2> QED
    BY <1>1, <2>1, <2>2 DEF FairAt, NothingForgotten
<1>4. CASE HandlerPicked(w)
  <2>1. /\ finishedCh' = finishedCh /\ request'[w].finished = request[w].finished
        /\ jobPc' = jobPc /\ outcome' = outcome /\ task' = task
        /\ IF got[w] = Nil THEN jobsToRun'[w] = jobsToRun[w]
                           ELSE jobsToRun'[w] = jobsToRun[w] \cup {allocated[got[w]].job}
    BY <1>4, DeskFacts DEF HandlerPicked, jobVars, chanVars
  <2>2. got[w] # Nil => allocated[got[w]].job \in Honest
    BY HandedOnce DEF RecordsOK
  <2>3. jobsToRun'[w] \subseteq Honest'
    BY <2>1, <2>2 DEF FairAt, NothingForgotten
  <2> QED
    BY <1>1, <2>1, <2>3 DEF FairAt, NothingForgotten
<1>5. CASE StartJob(w)
  <2>1. PICK spec \in jobsToRun[w] :
          /\ jobsToRun' = [jobsToRun EXCEPT ![w] = @ \ {spec}]
          /\ \/ UNCHANGED jobVars
             \/ /\ jobPc' = [jobPc EXCEPT ![w][spec.id] = "create"]
                /\ task' = [task EXCEPT ![w][spec.id] = spec]
                /\ UNCHANGED outcome
    BY <1>5 DEF StartJob
  <2>2. finishedCh' = finishedCh /\ request' = request
    BY <1>5 DEF StartJob, chanVars
  <2>3. spec \in Honest' /\ spec.id \in JobIDs /\ jobsToRun'[w] \subseteq Honest'
    BY <2>1 DEF FairAt, TypeOK, JobSpecs, NothingForgotten
  <2>4. \A id \in JobIDs :
          /\ jobPc'[w][id] \in {"create", "deps"} => task'[w][id] \in Honest'
          /\ jobPc'[w][id] = "report" /\ outcome'[w][id] = "failed" =>
               id \in Excused' /\ <<w, id>> \in failedAt'
    <3>1. CASE UNCHANGED jobVars
      BY <3>1 DEF jobVars, FairAt, NothingForgotten
    <3>2. CASE /\ jobPc' = [jobPc EXCEPT ![w][spec.id] = "create"]
               /\ task' = [task EXCEPT ![w][spec.id] = spec]
               /\ UNCHANGED outcome
      BY <2>3, <3>2 DEF FairAt, TypeOK, NothingForgotten
    <3> QED
      BY <2>1, <3>1, <3>2
  <2> QED
    BY <1>1, <2>2, <2>3, <2>4 DEF FairAt
<1>6. CASE \/ CollectAdded(w) \/ SendHeartbeat(w) \/ HandleAdded(w) \/ HandlerPicks(w)
           \/ HandlerInPick(w) \/ Deliver(w)
  <2>1. UNCHANGED <<Bag(w), task[w], outcome[w]>>
    BY <1>6, DeskFacts DEF CollectAdded, SendHeartbeat, HandleAdded, HandlerPicks, HandlerInPick,
       Deliver, Bag, jobVars, chanVars, loopVars
  <2> QED
    BY <2>1, FairElsewhere
<1> QED
  BY <1>2, <1>3, <1>4, <1>5, <1>6 DEF Run

(* A job fails by itself, for a transfer, or for a spec that misled it.      *)
LEMMA FailureIsExcused ==
  ASSUME SafeInv, NEW w \in Workers, NEW id \in JobIDs, FairAt(w), JobEnds(w, id),
         JobDone(w, id, "failed"), NothingForgotten
  PROVE  id \in Excused' /\ <<w, id>> \in failedAt'
<1> USE DEF SafeInv
<1>1. <<w, id>> \in failedAt' /\ jobPc'[w][id] = "report" /\ outcome'[w][id] = "failed"
  BY DEF JobDone, TypeOK
<1>2. CASE JobDownload(w, id)
  <2>1. PICK dep \in Deps[id] :
           /\ task[w][id].artifacts[dep] \in Workers
           /\ dep \notin disk[task[w][id].artifacts[dep]] \/ UNCHANGED jobVars
    BY <1>2, DownloadFacts
  <2>2. jobPc[w][id] = "deps"
    BY <1>2 DEF JobDownload
  <2>3. dep \notin disk[task[w][id].artifacts[dep]]
    BY <1>1, <2>1, <2>2 DEF jobVars
  <2>4. task[w][id] \in Honest /\ task[w][id].id = id
    BY <2>2 DEF FairAt, TaskOK
  <2>5. MayMislead(id, dep, task[w][id].artifacts[dep])
    BY <2>3, <2>4 DEF Honest
  <2>6. id \in Excused
    BY <2>1, <2>5 DEF Excused
  <2> QED
    BY <1>1, <2>6 DEF NothingForgotten
<1>3. CASE JobTransferFails(w, id)
  BY <1>1, <1>3 DEF JobTransferFails, Excused
<1>4. CASE JobFail(w, id)
  BY <1>1, <1>4 DEF JobFail, Excused
<1>5. CASE JobCached(w, id) \/ JobCommit(w, id)
  BY <1>1, <1>5 DEF JobCached, JobCommit, JobDone, TypeOK
<1> QED
  BY <1>2, <1>3, <1>4, <1>5 DEF JobEnds

LEMMA FairOfJob ==
  ASSUME SafeInv, NEW w \in Workers, NEW id \in JobIDs, FairAt(w), Job(w, id),
         NothingForgotten
  PROVE  FairAt(w)'
<1> USE DEF SafeInv
<1>1. request' = request /\ jobsToRun' = jobsToRun
  BY JobFrame
<1>2. Seq(Fair(w)) \subseteq Seq(Fair(w)')
  BY SeqGrows DEF NothingForgotten
<1>3. ASSUME NEW res \in Results, JobDone(w, id, res), JobEnds(w, id)
      PROVE  FairAt(w)'
  <2>1. /\ outcome'[w] = [outcome[w] EXCEPT ![id] = res]
        /\ jobPc'[w] = [jobPc[w] EXCEPT ![id] = "report"]
        /\ task' = task /\ finishedCh' = finishedCh
    BY <1>3 DEF JobDone, TypeOK, chanVars
  <2>2. res = "failed" => id \in Excused' /\ <<w, id>> \in failedAt'
    BY <1>3, FailureIsExcused
  <2>3. ASSUME NEW j \in JobIDs
        PROVE  /\ jobPc'[w][j] \in {"create", "deps"} => task'[w][j] \in Honest'
               /\ jobPc'[w][j] = "report" /\ outcome'[w][j] = "failed" =>
                    j \in Excused' /\ <<w, j>> \in failedAt'
    <3>1. jobPc'[w][id] = "report" /\ outcome'[w][id] = res
      BY <2>1 DEF TypeOK
    <3>2. j # id => jobPc'[w][j] = jobPc[w][j] /\ outcome'[w][j] = outcome[w][j]
      BY <2>1 DEF TypeOK
    <3> QED
      BY <2>1, <2>2, <3>1, <3>2 DEF FairAt, NothingForgotten
  <2> QED
    BY <1>1, <1>2, <2>1, <2>3 DEF FairAt, NothingForgotten
<1>4. CASE JobEnds(w, id)
  <2>1. CASE UNCHANGED <<chanVars, jobVars>>
    BY <1>1, <2>1, FairElsewhere DEF Bag, chanVars, jobVars
  <2>2. CASE \E res \in Results : JobDone(w, id, res)
    BY <1>3, <1>4, <2>2
  <2> QED
    BY <1>4, <2>1, <2>2 DEF JobEnds, JobCached, JobDownload, JobTransferFails, JobCommit,
       JobFail, Results
<1>5. CASE JobCreate(w, id)
  <2>1. /\ jobPc'[w] = [jobPc[w] EXCEPT ![id] = "deps"] /\ jobPc[w][id] = "create"
        /\ task' = task /\ outcome' = outcome /\ finishedCh' = finishedCh
    BY <1>5 DEF JobCreate, TypeOK, chanVars
  <2>2. \A j \in JobIDs :
          /\ jobPc'[w][j] \in {"create", "deps"} => task'[w][j] \in Honest'
          /\ jobPc'[w][j] = "report" /\ outcome'[w][j] = "failed" =>
               j \in Excused' /\ <<w, j>> \in failedAt'
    BY <2>1 DEF TypeOK, FairAt, NothingForgotten
  <2> QED
    BY <1>1, <1>2, <2>1, <2>2 DEF FairAt, NothingForgotten
<1>6. CASE JobReport(w, id) \/ JobAnnounce(w, id) \/ JobExit(w, id)
  <2>1. \A j \in JobIDs : jobPc'[w][j] \in {"create", "deps", "report"} =>
          /\ jobPc'[w][j] = jobPc[w][j] /\ task'[w][j] = task[w][j] /\ outcome'[w][j] = outcome[w][j]
    BY <1>6 DEF JobReport, JobAnnounce, JobExit, TypeOK
  <2>2. finishedCh'[w] \in Seq(Fair(w)')
    <3>1. CASE JobReport(w, id)
      <4>1. JobResult(id, outcome[w][id]) \in Fair(w) /\ finishedCh[w] \in Seq(Fair(w))
        BY <3>1 DEF JobReport, FairAt, Fair, TruthOK, TruthAt, JobResult, JobResults
      <4> QED
        BY <1>2, <3>1, <4>1, PushTyping DEF JobReport, TypeOK
    <3>2. CASE JobAnnounce(w, id) \/ JobExit(w, id)
      BY <1>2, <3>2 DEF JobAnnounce, JobExit, chanVars, FairAt
    <3> QED
      BY <1>6, <3>1, <3>2
  <2> QED
    BY <1>1, <1>2, <2>1, <2>2 DEF FairAt, NothingForgotten
<1> QED
  BY <1>4, <1>5, <1>6 DEF Job

LEMMA FairStep ==
  ASSUME SafeInv, WorthOK, [Next]_vars, NEW v \in Workers
  PROVE  FairAt(v)'
<1> USE DEF SafeInv
<1>1. FairAt(v) /\ RecordsOK /\ NothingForgotten
  BY NothingIsForgotten DEF WorthOK
<1>2. CASE (\E b \in Builds : Build(b) \/ BuildCancel(b)) \/ UNCHANGED vars
  <2>1. UNCHANGED <<loopVars, chanVars, jobVars>>
    BY <1>2 DEF Build, BuildSchedule, BuildRefused, BuildWake, BuildFinish, BuildCancel, vars
  <2>2. UNCHANGED <<Bag(v), task[v], outcome[v]>>
    BY <2>1 DEF Bag, loopVars, chanVars, jobVars
  <2> QED
    BY <1>1, <2>2, FairElsewhere
<1>3. ASSUME NEW w \in Workers, Run(w)
      PROVE  FairAt(v)'
  BY <1>1, <1>3, TaskElsewhere, FairElsewhere, FairInLoop
<1>4. ASSUME NEW w \in Workers, NEW id \in JobIDs, Job(w, id)
      PROVE  FairAt(v)'
  BY <1>1, <1>4, TaskElsewhere, FairElsewhere, FairOfJob
<1>5. Seq(Fair(v)) \subseteq Seq(Fair(v)') /\ <<>> \in Seq(Fair(v)')
  BY <1>1, SeqGrows DEF NothingForgotten
<1>6. ASSUME NEW w \in Workers, LoseRequest(w) \/ LoseResponse(w) \/ RestartWorker(w)
      PROVE  FairAt(v)'
  <2>1. CASE v # w
    BY <1>1, <1>6, <2>1, TaskElsewhere, FairElsewhere
  <2>2. CASE v = w
    <3>1. /\ jobsToRun'[v] = {} /\ request'[v].finished = <<>>
          /\ \/ /\ finishedCh'[v] = finishedCh[v] /\ jobPc'[v] = jobPc[v]
                /\ task'[v] = task[v] /\ outcome'[v] = outcome[v]
             \/ finishedCh'[v] = <<>> /\ jobPc'[v] = [id \in JobIDs |-> "none"]
      BY <1>6, <2>2 DEF LoseRequest, LoseResponse, DropHeartbeat, RestartWorker, TypeOK,
         NoRequest, chanVars, jobVars
    <3> QED
      BY <1>1, <1>5, <3>1 DEF FairAt, NothingForgotten
  <2> QED
    BY <2>1, <2>2
<1>7. CASE RestartCoordinator
  <2>1. /\ jobsToRun'[v] \in {{}, jobsToRun[v]}
        /\ request'[v].finished \in {<<>>, request[v].finished}
        /\ finishedCh' = finishedCh /\ jobPc' = jobPc /\ task' = task /\ outcome' = outcome
    BY <1>7 DEF RestartCoordinator, NoRequest, chanVars, jobVars
  <2> QED
    BY <1>1, <1>5, <2>1 DEF FairAt, NothingForgotten
<1> QED
  BY <1>2, <1>3, <1>4, <1>6, <1>7 DEF Next

LEMMA WorthInit == Init => WorthOK
<1> SUFFICES ASSUME Init
             PROVE  WorthOK
  OBVIOUS
<1>1. RecordsOK
  BY DEF Init, Sched!Init, RecordsOK, Sched!Pointers, NoResult
<1>2. ASSUME NEW b \in Builds
      PROVE  OwnAt(b)
  BY DEF Init, OwnAt
<1>3. ASSUME NEW w \in Workers
      PROVE  FairAt(w)
  <2>1. /\ finishedCh[w] = <<>> /\ request[w].finished = <<>> /\ jobsToRun[w] = {}
        /\ \A id \in JobIDs : jobPc[w][id] = "none"
    BY DEF Init, NoRequest
  <2>2. <<>> \in Seq(Fair(w))
    OBVIOUS
  <2> QED
    BY <2>1, <2>2 DEF FairAt
<1> QED
  BY <1>1, <1>2, <1>3 DEF WorthOK

WorthInv == OnceInv /\ (restarts = 0 => FreshOK) /\ WorthOK

LEMMA WorthAlways == Spec => []WorthInv
<1>1. Init => WorthInv
  BY SafeInit, OnceInit, FreshInit, WorthInit DEF OnceInv, WorthInv
<1>2. WorthInv /\ [Next]_vars => WorthInv'
  <2> SUFFICES ASSUME WorthInv, [Next]_vars
               PROVE  WorthInv'
    OBVIOUS
  <2>1. OnceInv'
    BY OnceInvStep DEF WorthInv
  <2>2. ASSUME restarts' = 0
        PROVE  FreshOK'
    <3>1. SafeInv /\ OnceOK /\ FreshOK /\ ~RestartCoordinator
      BY <2>2, FaultsCount DEF WorthInv, OnceInv, SafeInv
    <3> QED
      BY <3>1, KnownAfter, PassedAfter DEF FreshOK
  <2>3. WorthOK'
    BY RecordsStep, OwnStep, FairStep DEF WorthInv, OnceInv, WorthOK
  <2> QED
    BY <2>1, <2>2, <2>3 DEF WorthInv
<1> QED
  BY <1>1, <1>2, PTL DEF Spec

(* A worker is sent for a dependency to a worker that holds it, or one where *)
(* its job has failed, and there only by a graph that lacks the dependency   *)
(* or by a coordinator that has restarted: for any builds, plans and faults. *)
THEOREM SpecsNameHolders == Spec => []SpecNamesHolders
<1>1. WorthInv => SpecNamesHolders
  <2> SUFFICES ASSUME WorthInv, NEW w \in Workers, NEW id \in JobIDs,
                      jobPc[w][id] \in {"create", "deps"}, NEW dep \in DOMAIN task[w][id].artifacts
               PROVE  LET source == task[w][id].artifacts[dep]
                      IN  dep \in disk[source] \/ MayMislead(id, dep, source)
    BY DEF SpecNamesHolders
  <2>1. task[w][id] \in Honest /\ task[w][id].id = id
    BY DEF WorthInv, WorthOK, FairAt, OnceInv, SafeInv, TaskOK
  <2> QED
    BY <2>1 DEF Honest, JobSpecs, Locations
<1> QED
  BY <1>1, WorthAlways, PTL

(* A build fails only for a job of its own that fails by itself, loses a     *)
(* transfer or was misled, whatever other jobs, builds and workers do.      *)
THEOREM FailuresAreOwn == Spec => []BuildFailsForItsOwnJobs
<1>1. WorthInv => BuildFailsForItsOwnJobs
  BY DEF WorthInv, WorthOK, OwnAt, BuildFailsForItsOwnJobs, Excused
<1> QED
  BY <1>1, WorthAlways, PTL
=============================================================================
