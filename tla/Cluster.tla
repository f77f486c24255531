------------------------------ MODULE Cluster ------------------------------
(***************************************************************************)
(* The distributed build: builds running in the coordinator                *)
(* (distbuild/pkg/dist/coordinator.go), its heartbeat handler, and the     *)
(* workers (distbuild/pkg/worker/worker.go) with their heartbeat loop and  *)
(* job goroutines, around the Scheduler they share.                        *)
(*                                                                         *)
(* A build enters this model when its files are uploaded and its jobs are  *)
(* sorted.  The heartbeat handler that serves worker w is the picker w of  *)
(* the scheduler.  A worker's artifact cache is the set of artifacts       *)
(* committed to its disk: in the running system none is ever removed.      *)
(***************************************************************************)
EXTENDS Naturals, Sequences, FiniteSets, SequencesExt, Functions

CONSTANTS
  JobIDs,
  Deps,            \* build.Job.Deps, for each job
  Workers,
  Builds,
  Plan,            \* build.TopSort of the jobs of each build; nothing checks that
                   \* a build's graph contains what its jobs depend on
  Fallible,        \* jobs that may fail on a worker by themselves
  Cancellable,     \* builds whose client may go away
  MaxSlots,        \* Worker.maxSlots, 1 in worker.New
  ChanCap,         \* capacity of finishedCh and addedArtifactCh, 128 in worker.New
  Faults,          \* what may happen: "loss" of a heartbeat request or response,
                   \* "crash" of a worker, "restart" of the coordinator, a
                   \* "transfer" that breaks, which the other two bring with them
  MaxFaults,       \* bound: how many of the first three
  MaxAllocated     \* bound of the scheduler

ASSUME DepsAssumption == Deps \in [JobIDs -> SUBSET JobIDs]
ASSUME PlanAssumption == \A b \in Builds : Plan[b] \in Seq(JobIDs)
ASSUME SlotsAssumption ==
  MaxSlots \in Nat /\ ChanCap \in Nat /\ ChanCap >= 2 * MaxSlots
ASSUME MaxAllocatedAssumption == MaxAllocated \in Nat

VARIABLES
  \* the scheduler
  stopped, stopping, queue, pending, completed, artifacts, queueEvent,
  allocated, pickPc, got, handed,
  \* the builds in the coordinator
  buildPc,      \* where StartBuild stands
  position,     \* index of the current job in Plan
  waitsFor,     \* the PendingJob the build waits for
  \* the workers
  workerPc,     \* where Run stands
  request,      \* the heartbeat request being collected, sent, handled
  jobsToRun,    \* the response under construction, then being started
  running,      \* Worker.running
  finishedCh, addedCh,
  jobPc,        \* where each job goroutine stands
  task,         \* the JobSpec it runs
  outcome,      \* the JobResult it will report
  disk,         \* committed artifacts
  stored,       \* Worker.jobResultsByArtifact
  \* the environment
  losses, crashes, restarts,
  \* what has happened, for the properties to speak of; nothing below reads it
  broken,       \* jobs a broken transfer has failed
  failedAt      \* workers and jobs that failed there

schedVars  == <<stopped, stopping, queue, pending, completed, artifacts,
                queueEvent, allocated, pickPc, got, handed>>
buildVars  == <<buildPc, position, waitsFor>>
loopVars   == <<workerPc, request, jobsToRun>>
chanVars   == <<finishedCh, addedCh>>
jobVars    == <<jobPc, task, outcome, running>>
cacheVars  == <<disk, stored>>
faultVars  == <<losses, crashes, restarts>>
pastVars   == <<broken, failedAt>>
envVars    == <<faultVars, pastVars>>
vars == <<schedVars, buildVars, loopVars, chanVars, jobVars, cacheVars, envVars>>

\* A blank result is a JobResult with an ID and nothing else: its exit code is
\* 0 and its output empty, whatever the job printed when it ran.
Results == {"ok", "failed", "blank"}
NoResult == "none"
Nil == 0

Locations(deps) == [deps -> Workers]
JobSpecs == UNION {[id : {id}, artifacts : Locations(Deps[id])] : id \in JobIDs}
NoSpec == [id |-> NoResult]

Sched == INSTANCE Scheduler WITH Pickers <- Workers

JobResult(id, res) == [id |-> id, res |-> res]
NoRequest == [finished |-> <<>>, added |-> <<>>, free |-> 0]

Faulty(kind) == kind \in Faults /\ losses + crashes + restarts < MaxFaults

Init ==
  /\ Sched!Init
  /\ buildPc = [b \in Builds |-> "next"]
  /\ position = [b \in Builds |-> 1]
  /\ waitsFor = [b \in Builds |-> Nil]
  /\ workerPc = [w \in Workers |-> "collect"]
  /\ request = [w \in Workers |-> NoRequest]
  /\ jobsToRun = [w \in Workers |-> {}]
  /\ running = [w \in Workers |-> {}]
  /\ finishedCh = [w \in Workers |-> <<>>]
  /\ addedCh = [w \in Workers |-> <<>>]
  /\ jobPc = [w \in Workers |-> [id \in JobIDs |-> "none"]]
  /\ task = [w \in Workers |-> [id \in JobIDs |-> NoSpec]]
  /\ outcome = [w \in Workers |-> [id \in JobIDs |-> NoResult]]
  /\ disk = [w \in Workers |-> {}]
  /\ stored = [w \in Workers |-> {}]
  /\ losses = 0
  /\ crashes = 0
  /\ restarts = 0
  /\ broken = {} /\ failedAt = {}

-----------------------------------------------------------------------------
(* Coordinator.StartBuild, the loop over the sorted jobs.                   *)
CurrentJob(b) == Plan[b][position[b]]
HasJob(b) == position[b] <= Len(Plan[b])

(* buildJobSpec and ScheduleJob.  Locations are only ever added, so looking  *)
(* them up one by one before scheduling chooses no other specs than here.   *)
BuildSchedule(b) ==
  /\ buildPc[b] = "next"
  /\ HasJob(b)
  /\ \E where \in Locations(Deps[CurrentJob(b)]) :
       /\ \A dep \in DOMAIN where : where[dep] \in Sched!LocateArtifact(dep)
       /\ Sched!ScheduleJob([id |-> CurrentJob(b), artifacts |-> where])
  /\ waitsFor' = [waitsFor EXCEPT ![b] =
                    IF allocated' = allocated THEN pending[CurrentJob(b)]
                                              ELSE Len(allocated')]
  /\ buildPc' = [buildPc EXCEPT ![b] = "waiting"]
  /\ UNCHANGED <<position, loopVars, chanVars, jobVars, cacheVars, envVars>>

(* "artifact for dep ... is not available" *)
BuildRefused(b) ==
  /\ buildPc[b] = "next"
  /\ HasJob(b)
  /\ \E dep \in Deps[CurrentJob(b)] : Sched!LocateArtifact(dep) = {}
  /\ buildPc' = [buildPc EXCEPT ![b] = "refused"]
  /\ UNCHANGED <<schedVars, position, waitsFor, loopVars, chanVars, jobVars,
                 cacheVars, envVars>>

BuildWakeOnAnything(b) ==  \* mutant: the result of the job is not looked at
  /\ buildPc[b] = "waiting"
  /\ ~Sched!Open(waitsFor[b])
  /\ waitsFor' = [waitsFor EXCEPT ![b] = Nil]
  /\ position' = [position EXCEPT ![b] = @ + 1]
  /\ buildPc' = [buildPc EXCEPT ![b] = "next"]
  /\ UNCHANGED <<schedVars, loopVars, chanVars, jobVars, cacheVars, envVars>>

(* <-pending.Finished, then the update to the client and the next job. *)
BuildWake(b) ==
  /\ buildPc[b] = "waiting"
  /\ ~Sched!Open(waitsFor[b])
  /\ waitsFor' = [waitsFor EXCEPT ![b] = Nil]
  /\ IF allocated[waitsFor[b]].result = "failed"
     THEN /\ buildPc' = [buildPc EXCEPT ![b] = "failed"]
          /\ UNCHANGED position
     ELSE /\ position' = [position EXCEPT ![b] = @ + 1]
          /\ buildPc' = [buildPc EXCEPT ![b] = "next"]
  /\ UNCHANGED <<schedVars, loopVars, chanVars, jobVars, cacheVars, envVars>>

BuildFinish(b) ==
  /\ buildPc[b] = "next"
  /\ ~HasJob(b)
  /\ buildPc' = [buildPc EXCEPT ![b] = "finished"]
  /\ UNCHANGED <<schedVars, position, waitsFor, loopVars, chanVars, jobVars,
                 cacheVars, envVars>>

(* ctx.Done() while waiting, or a status update the client no longer reads. *)
BuildCancel(b) ==
  /\ b \in Cancellable
  /\ buildPc[b] = "waiting"
  /\ buildPc' = [buildPc EXCEPT ![b] = "cancelled"]
  /\ waitsFor' = [waitsFor EXCEPT ![b] = Nil]
  /\ UNCHANGED <<schedVars, position, loopVars, chanVars, jobVars, cacheVars,
                 envVars>>

-----------------------------------------------------------------------------
CollectFinishedCopies(w) ==  \* mutant: the channel is not drained
  /\ workerPc[w] = "collect"
  /\ request' = [request EXCEPT ![w].finished = finishedCh[w]]
  /\ workerPc' = [workerPc EXCEPT ![w] = "collectAdded"]
  /\ UNCHANGED <<schedVars, buildVars, jobsToRun, chanVars, jobVars, cacheVars, envVars>>

(* Worker.Run: collectUpdates drains one channel, then the other;           *)
(* runningState counts the free slots; then the request is sent.            *)
CollectFinished(w) ==
  /\ workerPc[w] = "collect"
  /\ request' = [request EXCEPT ![w].finished = finishedCh[w]]
  /\ finishedCh' = [finishedCh EXCEPT ![w] = <<>>]
  /\ workerPc' = [workerPc EXCEPT ![w] = "collectAdded"]
  /\ UNCHANGED <<schedVars, buildVars, jobsToRun, addedCh, jobVars, cacheVars, envVars>>

CollectAdded(w) ==
  /\ workerPc[w] = "collectAdded"
  /\ request' = [request EXCEPT ![w].added = addedCh[w]]
  /\ addedCh' = [addedCh EXCEPT ![w] = <<>>]
  /\ workerPc' = [workerPc EXCEPT ![w] = "state"]
  /\ UNCHANGED <<schedVars, buildVars, jobsToRun, finishedCh, jobVars, cacheVars, envVars>>

SendHeartbeatIdle(w) ==  \* mutant: every slot is offered
  /\ workerPc[w] = "state"
  /\ request' = [request EXCEPT ![w].free = MaxSlots]
  /\ workerPc' = [workerPc EXCEPT ![w] = "sent"]
  /\ UNCHANGED <<schedVars, buildVars, jobsToRun, chanVars, jobVars, cacheVars, envVars>>

SendHeartbeat(w) ==
  /\ workerPc[w] = "state"
  /\ request' = [request EXCEPT ![w].free = MaxSlots - Cardinality(running[w])]
  /\ workerPc' = [workerPc EXCEPT ![w] = "sent"]
  /\ UNCHANGED <<schedVars, buildVars, jobsToRun, chanVars, jobVars, cacheVars, envVars>>

(* Coordinator.Heartbeat: the finished jobs, the added artifacts, then one  *)
(* PickJob per free slot until one returns nil.                             *)
HandleFinished(w) ==
  /\ workerPc[w] = "sent"
  /\ request[w].finished # <<>>
  /\ LET result == Head(request[w].finished)
     IN  Sched!OnJobComplete(w, result.id, result.res)
  /\ request' = [request EXCEPT ![w].finished = Tail(@)]
  /\ UNCHANGED <<buildVars, workerPc, jobsToRun, chanVars, jobVars, cacheVars, envVars>>

HandleAdded(w) ==
  /\ workerPc[w] = "sent"
  /\ request[w].finished = <<>>
  /\ request[w].added # <<>>
  /\ Sched!OnJobComplete(w, Head(request[w].added), NoResult)
  /\ request' = [request EXCEPT ![w].added = Tail(@)]
  /\ UNCHANGED <<buildVars, workerPc, jobsToRun, chanVars, jobVars, cacheVars, envVars>>

UpdatesHandled(w) ==
  workerPc[w] = "sent" /\ request[w].finished = <<>> /\ request[w].added = <<>>

HandlerPicks(w) ==
  /\ UpdatesHandled(w)
  /\ request[w].free > 0
  /\ Sched!PickCall(w)
  /\ workerPc' = [workerPc EXCEPT ![w] = "picking"]
  /\ UNCHANGED <<buildVars, request, jobsToRun, chanVars, jobVars, cacheVars, envVars>>

HandlerInPick(w) ==
  /\ workerPc[w] = "picking"
  /\ Sched!PickStep(w) \/ Sched!PickCancelled(w)
  /\ UNCHANGED <<buildVars, loopVars, chanVars, jobVars, cacheVars, envVars>>

HandlerPicked(w) ==
  /\ workerPc[w] = "picking"
  /\ Sched!PickReturn(w)
  /\ IF got[w] = Nil
     THEN /\ request' = [request EXCEPT ![w].free = 0]
          /\ UNCHANGED jobsToRun
     ELSE /\ request' = [request EXCEPT ![w].free = @ - 1]
          /\ jobsToRun' = [jobsToRun EXCEPT ![w] = @ \cup {allocated[got[w]].job}]
  /\ workerPc' = [workerPc EXCEPT ![w] = "sent"]
  /\ UNCHANGED <<buildVars, chanVars, jobVars, cacheVars, envVars>>

HandlerDone(w) == UpdatesHandled(w) /\ request[w].free = 0

Deliver(w) ==
  /\ HandlerDone(w)
  /\ workerPc' = [workerPc EXCEPT ![w] = "start"]
  /\ UNCHANGED <<schedVars, buildVars, request, jobsToRun, chanVars, jobVars,
                 cacheVars, envVars>>

(* The request or the response is lost: heartbeatClient.Heartbeat returns an *)
(* error, Run waits and starts over.  The updates it collected are gone.    *)
DropHeartbeat(w) ==
  /\ workerPc' = [workerPc EXCEPT ![w] = "collect"]
  /\ request' = [request EXCEPT ![w] = NoRequest]
  /\ jobsToRun' = [jobsToRun EXCEPT ![w] = {}]
  /\ losses' = losses + 1
  /\ UNCHANGED <<schedVars, buildVars, chanVars, jobVars, cacheVars, crashes, restarts,
                 pastVars>>

LoseRequest(w) ==
  /\ Faulty("loss")
  /\ workerPc[w] = "state"
  /\ DropHeartbeat(w)

LoseResponse(w) ==
  /\ Faulty("loss")
  /\ HandlerDone(w)
  /\ DropHeartbeat(w)

(* startJob for each job of the response; a job that finds no slot, or      *)
(* itself already running, is dropped without a word.                       *)
HasRoomFor(w, id) == Cardinality(running[w]) < MaxSlots /\ id \notin running[w]

StartJob(w) ==
  /\ workerPc[w] = "start"
  /\ \E spec \in jobsToRun[w] :
       /\ jobsToRun' = [jobsToRun EXCEPT ![w] = @ \ {spec}]
       /\ IF HasRoomFor(w, spec.id)
          THEN /\ running' = [running EXCEPT ![w] = @ \cup {spec.id}]
               /\ jobPc' = [jobPc EXCEPT ![w][spec.id] = "create"]
               /\ task' = [task EXCEPT ![w][spec.id] = spec]
               /\ UNCHANGED outcome
          ELSE UNCHANGED jobVars
  /\ UNCHANGED <<schedVars, buildVars, workerPc, request, chanVars, cacheVars, envVars>>

NextHeartbeat(w) ==
  /\ workerPc[w] = "start"
  /\ jobsToRun[w] = {}
  /\ workerPc' = [workerPc EXCEPT ![w] = "collect"]
  /\ request' = [request EXCEPT ![w] = NoRequest]
  /\ UNCHANGED <<schedVars, buildVars, jobsToRun, chanVars, jobVars, cacheVars, envVars>>

-----------------------------------------------------------------------------
(* The goroutine of a job: runJob, then the two sends, then the deferred    *)
(* delete from running.                                                     *)
JobDone(w, id, res) ==
  /\ outcome' = [outcome EXCEPT ![w][id] = res]
  /\ jobPc' = [jobPc EXCEPT ![w][id] = "report"]
  /\ failedAt' = IF res = "failed" THEN failedAt \cup {<<w, id>>} ELSE failedAt
  /\ UNCHANGED <<schedVars, buildVars, loopVars, chanVars, task, running, faultVars>>

JobCachedSilent(w, id) ==  \* mutant: a job whose artifact exists is not reported
  /\ jobPc[w][id] = "create"
  /\ id \in disk[w]
  /\ jobPc' = [jobPc EXCEPT ![w][id] = "exit"]
  /\ UNCHANGED <<schedVars, buildVars, loopVars, chanVars, task, outcome,
                 running, cacheVars, envVars>>

(* artifacts.Create fails with ErrExists: the stored result, or a blank one. *)
JobCached(w, id) ==
  /\ jobPc[w][id] = "create"
  /\ id \in disk[w]
  /\ JobDone(w, id, IF id \in stored[w] THEN "ok" ELSE "blank")
  /\ UNCHANGED <<cacheVars, broken>>

JobCreate(w, id) ==
  /\ jobPc[w][id] = "create"
  /\ id \notin disk[w]
  /\ jobPc' = [jobPc EXCEPT ![w][id] = "deps"]
  /\ UNCHANGED <<schedVars, buildVars, loopVars, chanVars, task, outcome,
                 running, cacheVars, envVars>>

MissingDeps(w, id) == DOMAIN task[w][id].artifacts \ disk[w]

(* ensureArtifacts, one dependency: downloaded from the worker the spec      *)
(* names, which answers 404 if it does not hold it.                          *)
JobDownload(w, id) ==
  /\ jobPc[w][id] = "deps"
  /\ \E dep \in MissingDeps(w, id) :
       LET source == task[w][id].artifacts[dep]
       IN  \/ /\ dep \in disk[source]
              /\ disk' = [disk EXCEPT ![w] = @ \cup {dep}]
              /\ UNCHANGED <<schedVars, buildVars, loopVars, chanVars, jobVars,
                             stored, envVars>>
           \/ /\ dep \notin disk[source]
              /\ JobDone(w, id, "failed")
              /\ UNCHANGED <<cacheVars, broken>>

(* A dependency or a source file does not arrive: the worker named or the     *)
(* coordinator is down or dies meanwhile, the connection breaks, or what      *)
(* comes cannot be stored.  The download is not tried again, nor elsewhere.  *)
JobTransferFails(w, id) ==
  /\ Faults \cap {"transfer", "crash", "restart"} # {}
  /\ jobPc[w][id] = "deps"
  /\ JobDone(w, id, "failed")
  /\ broken' = broken \cup {id}
  /\ UNCHANGED cacheVars

JobCommitLoses(w, id) ==  \* mutant: the artifact is not moved into the cache
  /\ jobPc[w][id] = "deps"
  /\ MissingDeps(w, id) = {}
  /\ stored' = [stored EXCEPT ![w] = @ \cup {id}]
  /\ UNCHANGED <<disk, broken>>
  /\ JobDone(w, id, "ok")

(* The commands succeed, commit moves the artifact into the cache and       *)
(* storeJobResult remembers the result.                                     *)
JobCommit(w, id) ==
  /\ jobPc[w][id] = "deps"
  /\ MissingDeps(w, id) = {}
  /\ disk' = [disk EXCEPT ![w] = @ \cup {id}]
  /\ stored' = [stored EXCEPT ![w] = @ \cup {id}]
  /\ JobDone(w, id, "ok")
  /\ UNCHANGED broken

(* A command exits with an error, or the artifact cannot be created or       *)
(* committed.                                                               *)
JobFail(w, id) ==
  /\ id \in Fallible
  /\ jobPc[w][id] = "deps" \/ (jobPc[w][id] = "create" /\ id \notin disk[w])
  /\ JobDone(w, id, "failed")
  /\ UNCHANGED <<cacheVars, broken>>

(* Non-blocking sends: a full channel drops the update. *)
Push(channel, item) == IF Len(channel) < ChanCap THEN Append(channel, item) ELSE channel

JobReportOfSuccess(w, id) ==  \* mutant: a failure is not reported
  /\ jobPc[w][id] = "report"
  /\ finishedCh' = [finishedCh EXCEPT ![w] =
       IF outcome[w][id] = "failed" THEN @ ELSE Push(@, JobResult(id, outcome[w][id]))]
  /\ jobPc' = [jobPc EXCEPT ![w][id] =
                 IF outcome[w][id] = "failed" THEN "exit" ELSE "announce"]
  /\ UNCHANGED <<schedVars, buildVars, loopVars, addedCh, task, outcome,
                 running, cacheVars, envVars>>

JobReport(w, id) ==
  /\ jobPc[w][id] = "report"
  /\ finishedCh' = [finishedCh EXCEPT ![w] = Push(@, JobResult(id, outcome[w][id]))]
  /\ jobPc' = [jobPc EXCEPT ![w][id] =
                 IF outcome[w][id] = "failed" THEN "exit" ELSE "announce"]
  /\ UNCHANGED <<schedVars, buildVars, loopVars, addedCh, task, outcome,
                 running, cacheVars, envVars>>

JobAnnounce(w, id) ==
  /\ jobPc[w][id] = "announce"
  /\ addedCh' = [addedCh EXCEPT ![w] = Push(@, id)]
  /\ jobPc' = [jobPc EXCEPT ![w][id] = "exit"]
  /\ UNCHANGED <<schedVars, buildVars, loopVars, finishedCh, task, outcome,
                 running, cacheVars, envVars>>

JobExit(w, id) ==
  /\ jobPc[w][id] = "exit"
  /\ running' = [running EXCEPT ![w] = @ \ {id}]
  /\ jobPc' = [jobPc EXCEPT ![w][id] = "none"]
  /\ task' = [task EXCEPT ![w][id] = NoSpec]
  /\ outcome' = [outcome EXCEPT ![w][id] = NoResult]
  /\ UNCHANGED <<schedVars, buildVars, loopVars, chanVars, cacheVars, envVars>>

-----------------------------------------------------------------------------
(* What NewCache finds of the cache on the disk of a worker. *)
NewCacheEmpty(w) == {}  \* mutant: the committed artifacts are removed as well

NewCache(w) == disk[w]

(* A worker process dies and is started again: its channels, results and    *)
(* goroutines are gone, NewCache keeps the committed artifacts.  Dying       *)
(* while the coordinator handles its heartbeat is dying right after it: the  *)
(* handler has the whole request and nobody reads the response.             *)
RestartWorker(w) ==
  /\ Faulty("crash")
  /\ workerPc[w] \notin {"sent", "picking"}
  /\ crashes' = crashes + 1
  /\ workerPc' = [workerPc EXCEPT ![w] = "collect"]
  /\ request' = [request EXCEPT ![w] = NoRequest]
  /\ jobsToRun' = [jobsToRun EXCEPT ![w] = {}]
  /\ running' = [running EXCEPT ![w] = {}]
  /\ finishedCh' = [finishedCh EXCEPT ![w] = <<>>]
  /\ addedCh' = [addedCh EXCEPT ![w] = <<>>]
  /\ jobPc' = [jobPc EXCEPT ![w] = [id \in JobIDs |-> "none"]]
  /\ task' = [task EXCEPT ![w] = [id \in JobIDs |-> NoSpec]]
  /\ outcome' = [outcome EXCEPT ![w] = [id \in JobIDs |-> NoResult]]
  /\ stored' = [stored EXCEPT ![w] = {}]
  /\ disk' = [disk EXCEPT ![w] = NewCache(w)]
  /\ UNCHANGED <<schedVars, buildVars, losses, restarts, pastVars>>

(* The coordinator process dies and is started again with an empty          *)
(* scheduler: the builds in it fail at their clients, a heartbeat on its    *)
(* way fails at its worker, the workers go on.                              *)
Reached == {w \in Workers : workerPc[w] \in {"sent", "picking"}}

RestartCoordinator ==
  /\ Faulty("restart")
  /\ restarts' = restarts + 1
  /\ stopped' = FALSE
  /\ stopping' = FALSE
  /\ queue' = <<>>
  /\ pending' = [id \in JobIDs |-> Nil]
  /\ completed' = [id \in JobIDs |-> NoResult]
  /\ artifacts' = [id \in JobIDs |-> {}]
  /\ queueEvent' = FALSE
  /\ allocated' = <<>>
  /\ pickPc' = [w \in Workers |-> "idle"]
  /\ got' = [w \in Workers |-> Nil]
  /\ handed' = {}
  /\ LET hit == {b \in Builds : buildPc[b] = "waiting" \/
                                (buildPc[b] = "next" /\ position[b] > 1)}
     IN  buildPc' = [b \in Builds |-> IF b \in hit THEN "lost" ELSE buildPc[b]]
  /\ waitsFor' = [b \in Builds |-> Nil]
  /\ workerPc' = [w \in Workers |-> IF w \in Reached THEN "collect" ELSE workerPc[w]]
  /\ request' = [w \in Workers |-> IF w \in Reached THEN NoRequest ELSE request[w]]
  /\ jobsToRun' = [w \in Workers |-> IF w \in Reached THEN {} ELSE jobsToRun[w]]
  /\ UNCHANGED <<position, chanVars, jobVars, cacheVars, losses, crashes, pastVars>>

-----------------------------------------------------------------------------
Build(b) == BuildSchedule(b) \/ BuildRefused(b) \/ BuildWake(b) \/ BuildFinish(b)

Run(w) ==
  \/ CollectFinished(w) \/ CollectAdded(w) \/ SendHeartbeat(w)
  \/ HandleFinished(w) \/ HandleAdded(w)
  \/ HandlerPicks(w) \/ HandlerInPick(w) \/ HandlerPicked(w)
  \/ Deliver(w) \/ StartJob(w) \/ NextHeartbeat(w)

JobEnds(w, id) ==
  \/ JobCached(w, id) \/ JobDownload(w, id) \/ JobTransferFails(w, id)
  \/ JobCommit(w, id) \/ JobFail(w, id)

Job(w, id) ==
  JobCreate(w, id) \/ JobEnds(w, id) \/ JobReport(w, id) \/ JobAnnounce(w, id) \/ JobExit(w, id)

Next ==
  \/ \E b \in Builds : Build(b) \/ BuildCancel(b)
  \/ \E w \in Workers : Run(w)
  \/ \E w \in Workers, id \in JobIDs : Job(w, id)
  \/ \E w \in Workers : LoseRequest(w) \/ LoseResponse(w) \/ RestartWorker(w)
  \/ RestartCoordinator

Spec == Init /\ [][Next]_vars

(* Every goroutine that can run is run, jobs end, heartbeats are answered:  *)
(* PickJob's context expires after five milliseconds.                       *)
Fairness ==
  /\ \A b \in Builds : WF_vars(Build(b))
  /\ \A w \in Workers : WF_vars(Run(w))
  /\ \A w \in Workers, id \in JobIDs : WF_vars(Job(w, id))

FairSpec == Spec /\ Fairness

-----------------------------------------------------------------------------
BuildPcs == {"next", "waiting", "finished", "failed", "refused", "cancelled", "lost"}
WorkerPcs == {"collect", "collectAdded", "state", "sent", "picking", "start"}
JobPcs == {"none", "create", "deps", "report", "announce", "exit"}

JobResults == [id : JobIDs, res : Results]
Requests == [finished : Seq(JobResults), added : Seq(JobIDs), free : 0..MaxSlots]

TypeOK ==
  /\ Sched!TypeOK
  /\ buildPc \in [Builds -> BuildPcs]
  /\ position \in [Builds -> Nat \ {0}]
  /\ waitsFor \in [Builds -> Nat]
  /\ workerPc \in [Workers -> WorkerPcs]
  /\ request \in [Workers -> Requests]
  /\ jobsToRun \in [Workers -> SUBSET JobSpecs]
  /\ running \in [Workers -> SUBSET JobIDs]
  /\ finishedCh \in [Workers -> Seq(JobResults)]
  /\ addedCh \in [Workers -> Seq(JobIDs)]
  /\ jobPc \in [Workers -> [JobIDs -> JobPcs]]
  /\ task \in [Workers -> [JobIDs -> JobSpecs \cup {NoSpec}]]
  /\ outcome \in [Workers -> [JobIDs -> Results \cup {NoResult}]]
  /\ disk \in [Workers -> SUBSET JobIDs]
  /\ stored \in [Workers -> SUBSET JobIDs]
  /\ losses \in Nat /\ crashes \in Nat /\ restarts \in Nat
  /\ broken \subseteq JobIDs /\ failedAt \subseteq Workers \X JobIDs

(* Where the one copy of a job can be between ScheduleJob and the           *)
(* OnJobComplete that resolves it: in the scheduler, then with a carrier.   *)
QueuePlaces(id) ==
  {<<"queue", i>> : i \in {n \in DOMAIN queue : Sched!JobOf(queue[n]) = id}}
PickedPlaces(id) ==
  {<<"picked", w>> : w \in {v \in Workers : got[v] # Nil /\ Sched!JobOf(got[v]) = id}}
ResponsePlaces(id) ==
  {<<"response", w>> : w \in {v \in Workers : \E spec \in jobsToRun[v] : spec.id = id}}
GoroutinePlaces(id) ==
  {<<"goroutine", w>> : w \in {v \in Workers : jobPc[v][id] \in {"create", "deps", "report"}}}
ChannelPlaces(id) ==
  UNION {{<<"channel", w, i>> : i \in {n \in DOMAIN finishedCh[w] : finishedCh[w][n].id = id}}
         : w \in Workers}
RequestPlaces(id) ==
  UNION {{<<"request", w, i>> : i \in {n \in DOMAIN request[w].finished :
                                        request[w].finished[n].id = id}}
         : w \in Workers}
CarrierPlaces(id) ==
  ResponsePlaces(id) \cup GoroutinePlaces(id) \cup ChannelPlaces(id) \cup RequestPlaces(id)
Places(id) == QueuePlaces(id) \cup PickedPlaces(id) \cup CarrierPlaces(id)

(* However builds, heartbeats and workers interleave, a job is never in two *)
(* places: it is not run by two workers, nor reported twice.  Only a          *)
(* coordinator that has forgotten a job can hand it out again.  And while    *)
(* nothing is lost and nobody restarts, a job some build waits for is in one  *)
(* place, from the queue to the report: startJob has room for every job of a *)
(* response, although the free slots were counted before the heartbeat.      *)
PendingJobIsInOnePlace ==
  \A id \in JobIDs :
    /\ restarts = 0 => Cardinality(Places(id)) <= 1
    /\ losses + crashes + restarts = 0 =>
         Cardinality(Places(id)) = IF pending[id] = Nil THEN 0 ELSE 1

(* No update is dropped for want of room in a channel: at most two jobs end *)
(* between two collections, one before and one after the free slots were    *)
(* counted.                                                                 *)
NoReportIsDropped ==
  \A w \in Workers, id \in JobIDs :
    /\ jobPc[w][id] = "report" => Len(finishedCh[w]) < ChanCap
    /\ jobPc[w][id] = "announce" => Len(addedCh[w]) < ChanCap

(* Some build has the job id in its plan, and not its dependency before it. *)
Lacks(id, dep) ==
  \E b \in Builds : \E n \in DOMAIN Plan[b] :
    Plan[b][n] = id /\ \A i \in 1..(n - 1) : Plan[b][i] # dep

(* OnJobComplete makes the worker of a failed job a location of its artifact. *)
(* A job that needs the artifact can be sent there by a build whose graph    *)
(* lacks the failed job, and by a coordinator that has forgotten the failure *)
(* when the report of it comes.                                             *)
MayMislead(id, dep, w) == <<w, dep>> \in failedAt /\ (restarts > 0 \/ Lacks(id, dep))

(* LocateArtifact is to name a worker that holds the artifact: the locations  *)
(* in the spec of a running job are true, but for the two ways above.        *)
SpecNamesHolders ==
  \A w \in Workers, id \in JobIDs : jobPc[w][id] \in {"create", "deps"} =>
    \A dep \in DOMAIN task[w][id].artifacts :
      LET source == task[w][id].artifacts[dep]
      IN  dep \in disk[source] \/ MayMislead(id, dep, source)

(* Success is never announced for an artifact nobody holds: for every job   *)
(* the coordinator knows to have succeeded, a worker has it on disk, even   *)
(* after losses and restarts.                                               *)
SuccessHasAnArtifact ==
  \A id \in JobIDs : completed[id] \in {"ok", "blank"} =>
    \E w \in Workers : id \in disk[w]

(* A build that has finished has every job of its plan as an artifact on     *)
(* some worker, whoever ran it.                                             *)
FinishedBuildIsComplete ==
  \A b \in Builds : buildPc[b] = "finished" =>
    \A i \in DOMAIN Plan[b] : \E w \in Workers :
      Plan[b][i] \in disk[w]

(* A build is refused only for a dependency its own graph does not contain: *)
(* the success of an earlier job makes its artifact locatable, whichever    *)
(* order reports and locations arrive in.                                   *)
RefusedBuildLacksADependency ==
  \A b \in Builds : buildPc[b] = "refused" =>
    \E dep \in Deps[CurrentJob(b)] :
      \A i \in 1..(position[b] - 1) : Plan[b][i] # dep

(* A build fails only for the job it is at: because that job may fail by      *)
(* itself, because a transfer for it has broken, or because it was sent to a  *)
(* worker where its dependency had failed.  The failures of other jobs and   *)
(* builds, cancellations and restarts do not fail it.                       *)
BuildFailsForItsOwnJobs ==
  \A b \in Builds : buildPc[b] = "failed" =>
    \/ CurrentJob(b) \in Fallible \cup broken
    \/ \E dep \in Deps[CurrentJob(b)], w \in Workers : MayMislead(CurrentJob(b), dep, w)

(* Every build comes to an end: it finishes, one of its jobs fails, it is    *)
(* refused or cancelled, or the coordinator dies.  That no heartbeat is lost *)
(* and no worker dies is needed: the coordinator has no timeout for a job.   *)
BuildsEnd ==
  \A b \in Builds : buildPc[b] = "next" ~>
    \/ buildPc[b] \in {"finished", "failed", "refused", "cancelled", "lost"}
    \/ losses + crashes > 0

(* A worker "executes jobs and sends the results back to the coordinator":  *)
(* a job that was executed comes to be known there, if that coordinator      *)
(* lives on and its worker too, and no heartbeat is lost.                   *)
ExecutedJobIsReported ==
  \A id \in JobIDs : (\E w \in Workers : jobPc[w][id] = "report")
    ~> completed[id] # NoResult \/ losses + crashes + restarts > 0
=============================================================================
