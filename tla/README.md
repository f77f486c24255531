# A TLA+ model of the distributed build system

This directory holds TLA+ modules for the concurrent core of the repository: the
distributed build (`src/distbuild`) and the two stand-alone libraries with
goroutines of their own (`src/batcher`, `src/pubsub`). The modules are checked
with TLC on small instances; theorems about each of them but the sort of the jobs are
proved with TLAPS for every value of the constants. `PROJECT.json` lists the
components, the runs, the source lines behind each definition, the hazards, and the
theorems.

## 1. Inventory

### The parts of the distributed build

| Part | Code | State | Operations |
|---|---|---|---|
| Scheduler | `pkg/scheduler/scheduler.go` | queue of `PendingJob` pointers, maps `pending`, `completed`, `artifacts`, the one-slot channel `queueEvent`, the flag `stopped` | `ScheduleJob`, `OnJobComplete`, `LocateArtifact`, `PickJob`, `Stop` |
| Coordinator | `pkg/dist/coordinator.go` | the running builds with their `uploadDone` channels, the scheduler, the file cache | `StartBuild`, `SignalBuild`, `Heartbeat` |
| Worker | `pkg/worker/worker.go` | `running`, two update channels, `jobResultsByArtifact`, the artifact cache | the heartbeat loop `Run`, one goroutine per job |
| Artifact cache | `pkg/artifact/cache.go` | read and write locks by artifact, the directories `tmp` and `c` | `Create`/commit/abort, `Get`/unlock, `Remove`, `Range` |
| Artifact transfer | `pkg/artifact/client.go`, `handler.go` | none | download of one artifact as a tar stream |
| File cache | `pkg/filecache` | an artifact cache with one file per artifact, a singleflight group | `Write`, `Get`, PUT and GET handlers |
| Build client | `pkg/client/build.go` | none | start, upload the missing files, signal, read the status stream |
| API | `pkg/api` | the response writer of a build | requests as JSON, statuses as JSON lines |
| Build graph | `pkg/build` | none | `TopSort`, identifiers, command templates |
| Tar stream | `pkg/tarstream` | none | `Send`, `Receive` |

A client posts a graph and follows the status stream. `StartBuild` looks each
source file up in the file cache, names the missing ones, waits for the client
to upload them and to signal, then walks the sorted jobs one by one: it looks up
where the dependencies of a job are held, calls `ScheduleJob`, and waits for
`Finished` of the `PendingJob` it is given. A worker's heartbeat carries its
finished jobs, its new artifacts and its free slots; the handler passes the
first two to `OnJobComplete` and fills the slots with `PickJob`. A job goroutine
creates its artifact, downloads what the job depends on from the workers
named in the spec, runs the commands, commits, and puts its result into the
channels that the next heartbeat drains. Builds, heartbeat handlers and pickers
share the scheduler under one mutex; a worker's heartbeat loop and its jobs
share `running` under another and meet otherwise only in the two channels.

`batcher` coalesces concurrent reads of a slow value; `pubsub` is an in-process
event bus with a goroutine per subscription. `middleware` and `digitalclock` are
small HTTP handlers.

### What is hard, and what each part owes

* **Scheduler**: reports arrive solicited and unsolicited, before and after the
  job is scheduled; several builds want one job; `PickJob` releases the mutex
  before it waits and `Stop` before it sends. It owes: `Finished` closed once and
  with a result; no waiter forgotten; a job handed out once, in order; the
  locations of artifacts recorded before a result is published.
* **Coordinator and workers**: slots are counted before the heartbeat and used
  after its response; a finished job is reported, announced and deleted
  from `running` in three steps with heartbeats in between; heartbeats are lost
  with the results they carry; either side restarts. They owe: a job is in one
  place at a time, success means that somebody holds the artifact, a finished
  build has all its artifacts, a build is refused or failed only for reasons of
  its own, and builds end.
* **Artifact and file cache**: the disk is touched after the mutex is released;
  every call can fail between lock and unlock; a removal can stop half-way and a
  failed commit or abort leave its directory to the next writer.
  They owe: writer alone, no lock leaked, readers and the cache see whole
  artifacts unless a removal or leftovers have spoiled one, what is committed stays.
* **Upload**: clients share files, uploads are shared by singleflight, clients go
  away. It owes: a build goes on only when its files can be read, and every
  client gets an answer.
* **Status stream**: the client takes any clean end of the stream for success;
  errors come before and after the first message, the signal is another request,
  either side may go away. It owes: success is told only of a build that
  succeeded, the client gets an end, and no build outlives its client.
* **Transfer and jobs**: what is downloaded passes through a stream that may end
  early; a job takes a lock on each artifact it needs and may fail at each step.
  They owe: a download that succeeds is whole, commands see whole inputs,
  every path gives back what it locked, and a result tells what is in the cache.
* **Batcher**: a `Load` joins a read that began before the value it must see.
  It owes freshness, at most one slow read, and an answer for every waiter.
* **Event bus**: `Publish` sends outside of the lock while subscriptions end. It
  owes delivery, order, and a `Close` that drains.

All of these are listed with their lines under `hazards` in `PROJECT.json`.

## 2. The modules

| Module | Models | Depends on |
|---|---|---|
| `Scheduler` | scheduler.go | |
| `JobBoard` | abstract specification of the scheduler | |
| `SchedulerProofs` | theorems about `Scheduler` | Scheduler |
| `Cluster` | the job loop of `StartBuild`, `Heartbeat`, worker.go | INSTANCE Scheduler |
| `ClusterProofs` | theorems about `Cluster` | Cluster, INSTANCE SchedulerProofs |
| `ArtifactCache` | artifact/cache.go | |
| `Transfer` | artifact/client.go and handler.go, tarstream, filecache/client.go and GET | ArtifactCache |
| `CacheProofs` | theorems about `ArtifactCache` and `Transfer` | Transfer |
| `WorkerJob` | `runJob` of worker.go with its caches | Transfer |
| `WorkerJobProofs` | theorems about `WorkerJob` | WorkerJob, CacheProofs |
| `Upload` | `findMissingFiles`, `SignalBuild`, filecache, the uploads of client/build.go | INSTANCE ArtifactCache |
| `UploadProofs` | theorems about `Upload` | Upload |
| `TopSort` | build/top_sort.go | |
| `BuildStream` | `StartBuild`, api/build_handler.go, api/build_client.go, client/build.go | TopSort |
| `BuildStreamProofs` | theorems about `BuildStream` | BuildStream |
| `Batcher` | batcher.go, slow/value.go | |
| `BatcherProofs` | theorems about `Batcher` | Batcher |
| `PubSub` | my_pubsub.go | |
| `PubSubProofs` | theorems about `PubSub` | PubSub |

`MC*` modules give the constants values for TLC. Definitions marked `mutant` beside
a definition of the code are faulty variants of it; each property of a passing run is
tested against one of them and TLC finds the property violated.

### Correspondence with the code

**Steps.** A critical section of a mutex is one step, since every access to the data
it guards is under it. Where code releases the mutex and goes on (a
channel operation, the file system, a request) a program counter stands between
the steps, so that other goroutines interleave there.

**Scheduler.** A `PendingJob` is a pointer: `allocated` is the heap in order of
allocation and a pointer the index into it, 0 for nil. `Result` is set and
`Finished` closed in the same object; the field `closes` counts the
closes, because a second one panics. `Notify` is Go's non-blocking send on a
channel of capacity one: a receiver parked in the `select` of `PickJob` is handed
the token directly by the sender, otherwise it is buffered, or dropped when
the buffer is full. `stopping` marks a `Stop` between its unlock and its send; one such
call is modelled at a time. `handed` is a history variable.

**Cluster.** `Sched == INSTANCE Scheduler WITH Pickers <- Workers`: the heartbeat
handler of worker w is the picker w, since a worker has one heartbeat
at a time. A build enters with its sorted jobs as the constant `Plan`. `BuildSchedule`
is `buildJobSpec` and `ScheduleJob` in one step: locations are only ever added,
so a location looked up earlier is still one at the step. A download of a
dependency is one step: the artifact arrives if the worker named in the spec has it on
disk, and the job fails with a 404 if not (`JobDownload`). Committed
artifacts never leave a worker (`Remove` has no caller outside of tests, and
`CommittedStays` checks the rest). Any transfer may also fail for reasons of its own
(`JobTransferFails`): the holder, or the coordinator for a source file, is down or dies
meanwhile, the connection breaks, what comes cannot be stored. The job fails then, since
nothing is tried again or elsewhere (worker.go:333, artifact/client.go:49-76). The
dependencies of a job need not be in the graph: nothing in the code checks it, and
`Plan` may lack them. `broken` (jobs that a transfer has failed) and `failedAt` (who
failed what) are history variables that only properties read. A lost request never reaches the
coordinator; a lost response is lost after the handler has run to its end, since
nothing in the handler watches the connection. A worker that dies while the coordinator is
handling its heartbeat is the same as one that dies just after. A restart of the
coordinator empties the scheduler and fails the builds in it; heartbeats in
flight fail at their workers. A result is `ok`, `failed`, or `blank`: the
result a worker makes up for an artifact it has but whose result it does not
remember.

**ArtifactCache.** `tmp` and `disk` say what is there of an artifact: nothing, a part
of it, a part beside what an earlier writer has left (`stale`), all of it, all of it
beside some of that (`mixed`), or what an unfinished `Remove` has left (`cut`). `Get`
takes its lock, looks at the disk, and on a miss gives the lock back, in three steps;
commit, abort and `Remove` release the lock after the rename or removal, whether or not
it worked. `os.RemoveAll` may stop half-way with an error, in `Remove` (`RemoveFails`)
and in an abort (`AbortRemoveFails`). `os.MkdirAll` takes a directory that was left in
`tmp` for the new one (`CreateDir`); the writer may write over what is in it (`Fill`) or
keep some of it (`FillOver`). `halfRemoved` and `leftovers` are history variables: the
artifacts whose `Remove` has stopped half-way, and those whose writer has left
its directory behind.

**Upload.** `Cache == INSTANCE ArtifactCache` with the goroutines of the builds
(`Checker`) and of the PUT handlers (`Putter`). `flight` is the singleflight group:
the first PUT of a file leads, later ones share its answer, its panic included.
`filecache.Write` and `Close` drive the creator's steps of `ArtifactCache`.
The worker's GET of a source file is not a step; `ReadyFilesAreReadable` states what it
relies on. `copy` failing covers a client that stops in the middle of its request
body, `close` an error of closing the file, which is returned although the
commit has happened.

**Transfer.** A download is a goroutine of `ArtifactCache` that creates what it
receives; `fetch` says where it stands, beside the program counter of the cache.
`Try` is `Create` at the head of the loop with its outcomes; `Patient` tells
`artifact.Download`, which tries again while another goroutine writes, from the
file cache's `Download`, which does not. The other side is the constant `Held`:
committed artifacts stay, and it holds a read lock while it sends. An artifact is
`Entries` entries. A body ends `clean` or `torn`: an error of `tarstream.Send`
between two entries (a directory that cannot be listed, an `lstat` that fails) gives the
first, as does a large source file that cannot be
read to its end (it is sent without a length); an error within an entry or a
broken connection gives the second. A file that cannot be opened is of the second kind,
because its header has been sent (stream.go:43 before 47). `Receive` writes over the
files it finds without truncating them (`FillOver`) and fails at a directory that is
there already (`ReceiveFails`); a source file is truncated. `UsesTheCache` says that the cache among its
users, downloads included, behaves as `ArtifactCache!Spec`, so that what is
proved there holds of it.

**WorkerJob.** One slot, so one job at a time; the two caches of a worker are one
cache here since they have no identifier in common. The goroutine of a job uses
several items at once: the process named after an item is the hold of the job on
that item, so that `pc[d] = "reading"` is the lock that `ensureArtifacts` keeps on
the artifact d. Items are taken in any order, as a Go map yields them. `LookUp`,
`Missed`, `StartDownload`, the steps of the download and `LookUp` again are one
turn of the loops of `ensureArtifacts` and `ensureSourceFiles`; `FoundDep` keeps
the lock, `CopyFile` gives it back. The deferred calls are `UnlockDep`,
`Unlocked` and `Abort`; an `Abort` after a failed commit finds the lock already
given back and gives it back again (`LateUnlock`). `Begin` is every job the
coordinator may send, at any time the slot is free. The goroutines of `Servers` are
the requests of other workers, for an artifact of `Asked`. `Cluster` has the same job in
five steps and the heartbeats around it.

**BuildStream.** `wire` is what was written and flushed and not yet read. `Write`
is `Encode` and `Flush`, which may or may not notice that the connection is cut;
what is written to it then is lost. The context of the request ends when the
connection is cut, by the network or by the client when it returns. The scheduler
is one external step, `Result`, which also records the location; that step is not
fair, since a worker may die with the job. `Uploaded` is the client's loop over
missing files, which `Upload` models. A signal for a build that has ended is
refused. The graph is any of `Graphs`, and `sortedJobs` the value of `TopSort`, a
recursive function over indices as in the code, with the zero value that a Go map
gives for a name it does not have.

**Batcher.** The generation counter is an atomic, the value another critical section;
`floor` is a history variable, the newest store that had ended when the `Load` was
called. The sleep of the slow load is the point between its read and its answer
at which others run. Locals are cleared when an iteration ends.

**PubSub.** `ch` is the channel of a subscription, `closeJob` the goroutine that
`Close` starts for each subscription, `intended`, `earlier`, `returned` and `delivered`
are history variables: who a message was meant for when `Publish` copied
the subscribers, which `Publish` calls had returned by then, which have since, and what
the handlers were called with.

## 3. The runs

| Run | Instance | Shows |
|---|---|---|
| `scheduler` | 2 jobs, 2 pickers, 2 results, at most 3 objects | waiters are answered, jobs are handed out once and in order, refinement of `JobBoard` |
| `cluster` | 2 workers, 2 builds of one program, of which one has the library it needs in its graph and the other lacks it; lib may fail, transfers may fail, one fault: a lost heartbeat, a dead worker, or a restart of the coordinator; symmetric in workers | a job is in one place, success is true, specs name holders and builds fail for the right reasons |
| `cluster_faults` | 1 worker, 2 builds, 3 jobs, a client that may leave, transfers and faults as above | channels never fill, only builds that lack a dependency are refused, builds end and executed jobs are reported unless a fault excuses it |
| `artifact_cache` | a job, a download, a reader and a remover on one artifact of 2 entries; `mkdir`, `rename` and removals that fail, broken connections, one crash | locks, contents, whole downloads, refinement of `ArtifactCache` |
| `worker_job` | a library, and a program that needs it, another artifact and a file; one request for artifacts at a time; every step may fail; one crash | inputs of commands, locks after the job, truth of results, jobs end |
| `batcher` | 3 loaders, 1 storer, 1 store | freshness, one slow load, no forgotten waiter, `Load` returns |
| `pub_sub` | 2 publishers with a message each, 2 subscriptions, 2 `Close` calls | delivery, order, drain |
| `pub_sub_live` | 1 publisher with 2 messages, channels of one place, 2 subscriptions, 1 `Close` | `Publish` and `Close` return, handlers end |
| `upload` | 2 clients with the same 2 files, one may vanish, every call may fail | readable files, sharers have a leader, every client answered |
| `build_stream` | every acyclic graph of three jobs in every order, one of them perhaps in need of an artifact outside, and the empty graph; every failure of either side | success is real, own dependencies are built, the client gets an end, no build outlives its client |
| `transfer_truncated`, `pub_sub_panic` | small | the two disagreements of section 6 |

**What the invariants are for.** `PendingJobIsInOnePlace` counts the copies of a job
over six places (queue, picker, response, goroutine, update channel,
request): exactly one while a build waits for the job, none otherwise. It is
what makes "executed once" true across three actors; under losses it says at most one. `SuccessHasAnArtifact` relates the
coordinator's `completed` to the workers' disks, across restarts of either.
`SpecNamesHolders` has two exceptions, both by way of the location that
`OnJobComplete` records for a failed job (`MayMislead`): the worker named has failed the
dependency, and either some graph has the job and lacks the dependency, or the
coordinator has restarted. The run `cluster` meets the first; the same instance with two
graphs that have the library meets the second, though never without the restart. `BuildFailsForItsOwnJobs` allows a
failure of the job that the build was at, for three reasons: the job may fail, a transfer
for it has failed, or it was misled so. What happens to other jobs or builds is no reason.
`RefusedBuildLacksADependency` depends on `OnJobComplete` recording the holder
before it resolves the waiters. `OrderIsKept` holds across publishers, not just for
one. `ReaderSeesWholeArtifact` names its two exceptions (`Flawed`): an artifact whose
`Remove` stopped half-way, by an error or by a crash, and one whose writer found the
leftovers of another in `tmp`. A `Get` succeeds on both. `DownloadedIsWhole` holds as long as
the sender can list and read what it sends, and `transfer_truncated` shows that it must.
`SuccessIsReal` relates what the client's `Build` returns to the jobs of its graph,
across the stream: the client never takes a bare end of the stream for success.
`LocksEndWithTheJob` is over every path of `runJob`, the late abort included.

The other modules state type invariants too (`TypeOK`, `WorkerTypeOK`), as the
domains of their variables and for proofs; the scheduler's is checked by its run,
those of the cache and the batcher are part of what is proved.

**Why the bounds are enough.** Two of each actor give every pairwise race; three
loaders are needed in the batcher so that one leads, one waits and one arrives. One
object per job and one more are allocated in `scheduler`, so that a job is scheduled
again while pending, after completion, and after an unsolicited report. `MaxSlots` is 1
in `worker.New`. The update channels have room for 128 updates; the model gives them
2, and `NoReportIsDropped` shows that two places are enough (with one it
fails). The channel of a subscription has 1024 places; with 1 or 2
a publisher blocks, which is the case of interest. Two builds of one program share the
objects of its job; in `cluster` and in `cluster_faults` the second graph lacks a
dependency that only the first provides. One fault per behaviour (`MaxFaults`) meets every state of the protocol.
With one entry per artifact, in `worker_job`, a body that ends early is an empty one, as
short as any; `artifact_cache` and `transfer_truncated` have two. Nothing in the cache
relates two artifacts, so that one, with four goroutines at it, shows what there is to
see; the locks of several artifacts meet in `worker_job`. Three jobs give `TopSort` chains, forks and joins, and
dependencies that are listed after the jobs that need them. In `worker_job` the
library may be built on the worker or downloaded to it.
With two storers and two stores the batcher's inductive invariant was also
checked once (1,148,738 states).

**Deadlock** is checked wherever the system runs for ever. Uploads, a build with its client, and a bus whose
messages are all published, do come to an end, and these cfgs say so.

**Fairness.** Weak fairness of a goroutine's next step means that the runtime runs
every goroutine that is not blocked. In `Cluster` it also says that the context of `PickJob`
expires (the coordinator gives each call five milliseconds), that heartbeats are answered and that jobs end (commands are not modelled to hang); losses,
crashes, restarts and cancellations are never fair. In `BuildStream` and `WorkerJob` a
request is answered or its connection breaks, and what waits on a broken connection
notices it: the HTTP clients of the code have no timeout, and a peer that stays
connected and silent would stop them. The commands of a job end. `BuildStream` does
not assume that a job gets a result. In `PubSub`
handlers return, and contexts need not expire. Every liveness property names what excuses it:
`BuildsEnd` is excused by a lost heartbeat or a dead worker, because the
coordinator has no timeout for a job.

## 4. The proofs

`SchedulerProofs` proves, for any sets of jobs, workers, pickers and results and any
bound on allocations, from the named assumptions of `Scheduler`:

* `TypeCorrect`: no pointer in the queue, the pending map or a picker dangles.
* `Invariance`: the inductive invariant `IInv`.
* `JobsAreHandedOnceInOrder`, `EveryWaiterIsAnswered`, `DeliveredResultsAreStable`: the
  safety properties of the run `scheduler`.
* `SchedulerImplementsBoard`: `Spec` implements `JobBoard!Spec` under the
  mapping of queue pointers to jobs, handed pointers to jobs, and non-nil `pending`
  entries to wanted jobs.

**The argument.** The safety properties are not inductive alone. What links them is
`PendingIsOpen` (a pending entry points at an open object of its own job, whose
result is unknown) and `ClosedIsKnown` (a closed object belongs to a job with a
result). From these, `ScheduleNew` knows that there is no open object of its job
already and no object of it at all (a closed one would mean a known result),
hence the job is queued once; `CompletePending` closes the one open object.
`NobodyWaitsForAKnownResult` then follows: an open object is the pending one, and the
result of a pending job is unknown. Pointers in the queue increase and exceed every pointer
handed out, which gives order and uniqueness together, and `GotWasHanded`
separates what pickers return from what is queued. Each action has a lemma;
steps that change only the channel and program counters share `QuietStep`. The
refinement uses `JobIsHandedOnce` to map the set of pointers handed out.

`ClusterProofs` proves, for any jobs, dependencies, builds, plans, workers and
cancellations, and any sequence of lost heartbeats, failed transfers, worker crashes and
coordinator restarts, every safety property that the runs `cluster` and `cluster_faults` check:

* `TypeCorrect`: among the types, that a worker runs at most `maxSlots` jobs and that no
  channel holds more than its capacity.
* `ReportsAreNotDropped`: `NoReportIsDropped`. The `default` branches of the two `Push`
  methods, which would lose a result, are dead code.
* `SuccessIsOnADisk`, `FinishedBuildsAreComplete`, `RefusalsAreJustified`:
  `SuccessHasAnArtifact`, `FinishedBuildIsComplete`, `RefusedBuildLacksADependency`.
* `JobsAreInOnePlace`: `PendingJobIsInOnePlace`.
* `SpecsNameHolders`, `FailuresAreOwn`: `SpecNamesHolders` and
  `BuildFailsForItsOwnJobs`, with the exceptions that these name.

*Assumptions.* `DepsAssumption`, `PlanAssumption` and `MaxAllocatedAssumption` give the
types of the parameters. `SlotsAssumption` asks for channels of twice the number of
slots; `worker.New` makes channels of 128 for one slot. Nothing is assumed of the plans:
a graph may lack what its jobs depend on.

**The argument.** Every step but the restart is a step of the scheduler or leaves
it alone, so that the instance `S` of `SchedulerProofs` gives its whole invariant here,
by the lemma that each of its steps keeps it; a restart makes it new. On top of it are
five layers, each inductive only with those before it:

* `SafeInv`. `RoomOK` counts, at each worker: jobs with a slot, jobs in the response and free slots
  asked for never exceed `maxSlots`; each channel and the jobs that may still add to
  it never exceed twice that. All counting is in `Fits`, of plain numbers. `TruthOK`
  follows a success backwards: known, in a request, in a channel, about to be reported,
  it is about an artifact on that worker's disk. `BuildsOK` says that a build waits on
  an object of its own job, and that every job of its plan before that is done and
  locatable.
* `OnceInv`, until the coordinator restarts: what workers carry (`Carried`: from the response to the report)
  are disjoint sets of jobs, each was handed out, and nobody carries a job
  whose result is known. It rests on `JobIsHandedOnce` of the scheduler.
* `KeptOK`, until the first fault: every open job that was handed out is with a handler or carried.
  `startJob` loses none because `Fits` gives room and `OnceAt` no duplicate, `Push` none
  because of `RoomOK`.
* `FreshOK`, until the coordinator restarts: the result in an object is the one known of
  its job, a recorded holder has the artifact unless the job is known to have failed, and
  every job that a build has passed is known to have succeeded. `KnownIsFinal` (the
  first result stays) keeps all that true.
* `WorthOK`, always: specs handed out name holders or workers they may be misled to
  (`Honest`), failures on their way have a reason and were failures of the worker that
  reports them (`Fair`), and a recorded holder has the artifact or has failed its job.
  Each is kept because nothing remembered is forgotten (`NothingForgotten`: disks,
  `broken` and `failedAt` only grow). The step that could break it is `BuildSchedule`,
  which puts a recorded location into a spec. If that location is of a failure, either
  the graph lacks the dependency, or the coordinator has restarted, or the build has
  passed the dependency, which `FreshOK` then says has succeeded, so that the location
  is true.

`CacheProofs` proves, for any artifacts, any finite set of goroutines, any number of
crashes, and any commits, aborts and removals that fail, half-way ones included
(`ProcsAssumption`, `MaxCrashesAssumption`):

* `CacheInvariance` and `CacheTypeCorrect`: the inductive invariant and the types.
* `LocksAreNeverLeaked`: `LocksAreHeld`, on every error path.
* `ReadersSeeWholeArtifacts`: `CommittedIsWhole` and `ReaderSeesWholeArtifact`. What is in
  the cache and not whole has a `Remove` at work on it, or is one of the two exceptions
  of `Flawed`; a reader never meets the first.
* `CommittedArtifactsStay`: `CommittedStays`.

**The argument.** `readLocked` counts the goroutines whose program counter says that they
read, so that types and `LocksAreHeld` are inductive only together: that a
reader may decrement the count follows from its being counted. The lemmas `MoveInRole`,
`EnterRead`, `LeaveRead`, and their likes for writers say what a step does to the readers and holders
of an artifact, and each action cites one. Goroutines must be finitely many, because
cardinalities of infinite sets say nothing. `WritersFill` (a writer that has written has
the whole artifact in `tmp`, perhaps mixed with leftovers) and `TmpHasAWriter` (what is
in `tmp` without a writer was left there by one) give that a rename brings in whole
artifacts, or mixed ones of `leftovers`; the locks, that no reader is inside while the
artifact goes; and `RemoveFails` and `Restart`, the only ways for a remover to leave off,
record a cut artifact in `halfRemoved`.

Its second part proves of `Transfer`, for any artifacts, goroutines, number of entries and of crashes,
and for every failure but those of listing and reading on the sending side (`SenderReads`, which the run
`transfer_truncated` shows to be necessary; the assumptions are those of `Transfer` and
`ArtifactCache`):

* `TransferInvariance`: the inductive invariant `TransferInv`.
* `TransferImplementsCache`: `TransferSpec` implements `ArtifactCache!Spec`, hence the
  theorems above hold with downloads among the users of the cache.
* `DownloadsAreWhole`: `DownloadedIsWhole`.

**The argument.** A step of a download is a step of `Create`, or leaves the cache alone.
The one that could be neither is `Received` of a part: `CleanIsComplete` (a response that
ended cleanly carried every entry) rules it out, so that `IInv` is kept by the lemma
of the cache. A download that found the artifact in `c` takes from `CommittedIsWhole`
that it is whole or flawed; one that wrote it itself needs `CommittedIsThere`: nobody
touches a renamed artifact before its writer has unlocked.

`UploadProofs` proves, for any source files, any finite set of builds, and any failures
of calls and of clients:

* `UploadInvariance`: the inductive invariant. `CacheCountsItsReaders` is its part on types
  and counts.
* `ReadyBuildsHaveTheirFiles`: `ReadyFilesAreReadable`.
* `UploadsAreShared`: `SharersHaveALeader`.

*Assumptions.* `BuildsAssumption` (finitely many builds, since `readLocked` counts readers),
`FilesAssumption` (there is a file: otherwise nothing could be uploaded, and the typing
of `at` would fail), and the types of the other parameters.

**The argument.** The users of the cache are of two kinds here: a build's checker, which
only reads, and its putter, which only writes (`RolesOK`). The theorems of the cache do
not carry over, because a handler may panic and leave its lock behind (`PutPanics`), and
`LocksAreHeld` fails then. What survives is weaker and enough: counted
readers and none beside a write lock (`ReadersOK`), and for whoever writes, that the
file is locked and `tmp` its own (`WritersOK`). `FlightsOK` makes the leader of a file
unique and busy with that very file, so that the result its sharers receive is about
the file they asked for. A leader that ended with nil or "already exists" leaves the
file `Stored`: whole and locked for write by nobody. `StoredStays` says that it remains so,
since nobody removes source files and a `Create` of a file that is there takes no
lock. `BuildsOK` carries that from each put to the signal and from the signal to the jobs.

`WorkerJobProofs` proves, for any jobs and what they need, any number of goroutines
that serve artifacts, any failures and any number of restarts:

* `WorkerLocksInvariance`: the inductive invariant `LocksInv`, and from it
  `LocksAreGivenBack`: `LocksEndWithTheJob`. Senders that fail are included.
* `WorkerContentInvariance`, `CommandsHaveTheirInputs` and `OutcomesAreTrue`:
  `CommandsSeeTheirInputs` and `OutcomeIsTrue`, from the hypothesis `SenderReads`.

*Assumptions.* `ItemsAssumption`: each item has one hold, with which the job makes or
reads it, and the goroutines that serve are others; and those of `Transfer` and
`ArtifactCache`. `SenderReads` is needed for what was downloaded to be whole.

**The argument.** `LocksInv` says, for each step of `runJob`, what each hold of the job is
doing: the output (`OutputOK`), the item being fetched (`ItemOK`, `DownloadOK`), and
everything else, which can only be a dependency kept for reading (`HeldOK`). Nothing is
left when no job runs, and `LocksAreHeld` of the cache turns that into free locks. A step is one
that `ArtifactCache` allows, whose lemmas are cited for it, but for two: a truncated body
taken for the whole (`ReceivesLess`, which moves no lock), and the abort after a failed
commit (`RemovesLate`), whose unlock finds the lock given back already: with one slot
nobody has taken it since. `ContentInv` adds that the disk holds only what was committed,
whole or with leftovers in it, that the output is on it from its `Rename` on and not before, since nobody else
creates it (`ResultOK`), and that what has been fetched is still held or copied
(`InputsOK`).

`BuildStreamProofs` proves, for any graphs, failures and moments at which the connection
breaks or the client gives up:

* `StreamInvariance`: the inductive invariant, and `SuccessIsNeverPretended`:
  `SuccessIsReal`. Both have the hypothesis `GraphsAreKept`: `TopSort` lists each job of the
  graph, and as many as there are.
* `BuildsMakeTheirDependencies`: `OwnDepsAreBuilt`, with `GraphsAreSorted` besides:
  a job is listed after those it depends on.

The hypotheses are what `TopSort` computes. To prove them takes induction over the graph,
which the provers do not do; TLC evaluates them for every graph of the run `build_stream`
(`TopSortSorts` in `MCBuildStream`).

**The argument.** `wire` alone says little: what matters is the place of each message in all
that the server has said, the number of messages the client has read added to its place in
`wire`. `Fits` gives each message its place (the k-th job's result comes after
k messages, the end after one more than all), `AllThere` counts what has been said
against where the loop stands for as long as the connection is up, and after that nothing
is added. So a client that reads "finished" has read every result before it. An end of
the response (`eof`) comes only after a last status, with which the client returns, so
that the clean end that `client.Build` takes for success is never read first.
`FailureIsFinal`: after a failed job the server never says "finished". `LoopOK` gives
that each job the loop is done with has a holder, and `GraphsAreSorted` that these include
what the next one depends on.

`BatcherProofs` proves, for any loaders, storers and number of stores:

* `BatcherInvariance`: the inductive invariant.
* `LoadIsNeverStale`, `SlowLoadsNeverOverlap`, `WaitersAreAnswered`: the safety
  properties of the run `batcher`.

**The argument.** Generations never run ahead of the counter (`Ordered`). While
nobody has stored since a leader read its generation, the value it read is as new as the
last `Store` that ended (`ResultsAreFresh`): whoever reads the same generation later was
called no later than that, so the result is new enough for it too; and a `Store`
that ends makes the generation differ for good, so that the result cannot become
valid. `OneLeader` ties `loading` to the goroutine between `Lead` and `Finish`, which gives
one slow read; `ListsAreExact` says that whoever waits is on one list.

`PubSubProofs` proves, for any topics, subscriptions, publishers and callers of `Close`, and
any capacity of the channels and number of messages:

* `BusInvariance`: the inductive invariant.
* `MessagesReachTheirAudience`, `MessagesKeepTheirOrder`, `CloseDrains`:
  `MessageReachesItsAudience`, `OrderIsKept` and `FirstCloseDrains`.

*Assumptions.* `NoTopicAssumption` and `NoCloserAssumption` (names for no topic and no
caller), and that the capacity and the bound on messages are natural numbers.

**The argument.** The properties are about the *log* of a subscription: what its handler
was given, then what is in its channel. A handler moves messages within its log, so that
only `Send` changes one. `MembersOK` (while the bus is open, a topic lists every
subscription to it that nobody asked to end) gives that the snapshot of `Publish` contains
its audience. `DeliveryOK` follows one call: it has not returned, has sent to nobody that
is still ahead of it, and to all of its audience that is not. So the log that a send appends to does
not have the message yet, and has no message that came later, because `earlier` lists
only messages whose calls had returned (`InOrder`). `DrainOK` ties the end of a
handler to a closed and empty channel, and the end of a goroutine of `Close` to the end of
the handler. The panic of `Publish` (run `pub_sub_panic`) breaks none of this: the model
stops there, as the program does.

**Only model-checked**: liveness, in every module, and what `TopSort` computes. Every invariant
that a passing run checks is stated by a theorem. Liveness under fairness and `ENABLED`
are outside the prover, and so is induction over data: the order of the jobs is checked on
small graphs. No module here declares a recursive operator.

## 5. Not modelled

* Command templates and identifiers: text. The formats of the tar stream and of JSON.
* Requests of a wrong method or that cannot be decoded: refused before any state is
  touched.
* `TopSort` of a graph with a cycle: the code assumes there is none.
* `Coordinator.Stop` beside running builds and heartbeats: `Scheduler` has `Stop`,
  `Cluster` does not call it.
* A crash of the coordinator in `BuildStream`: for the client it is a cut connection,
  and `Cluster` has the restart.
* More than one slot on a worker: `worker.New` sets one. With more, a late abort could
  hit the lock of the next writer, and a `Get` be refused for a writer, which
  `WorkerJob` leaves out as unreachable.
* Middleware: wrappers around one handler each, whose only shared state is a map of
  counters under one mutex. Digital clock: a stateless handler. Fixture and mocks: test
  support.
* The expiry of the five-millisecond context is a step that may happen at any time; real
  time is not modelled.

## 6. Disagreements between code and documentation

Shown by runs (`findings` in `PROJECT.json`):

* `transfer_truncated`: when the sender cannot list a directory of an artifact or `lstat`
  an entry, between two entries, it logs the error and ends the response cleanly; the
  receiver commits what it has as the artifact. (A file that cannot be opened has had its
  header sent: the receiver notices and aborts.)
* `pub_sub_panic`: a `Publish` that has copied its subscribers sends on a channel that
  `Unsubscribe` or `Close` has closed since.

Met while modelling and not kept as runs:

* A failed heartbeat loses the results it carried, and with them the build that waits
  (worker.go:89, where `worker/README.md` says that results are sent back);
  `ExecutedJobIsReported` names the loss as its excuse.
* When `os.Create` fails in `filecache.Write`, the error path calls its named result
  `abort`, still nil: the handler panics and the identifier stays locked for write
  (filecache.go:88). `PutPanics` in `Upload` is that step. In a worker's download of a
  source file the same panic ends the worker: in `WorkerJob` it is a restart.
* A commit or abort that fails leaves its directory in `tmp` until the process restarts,
  and the next `Create` of that artifact takes it for its own, since `os.MkdirAll`
  succeeds on it (cache.go:153). A job writes into it and commits what remains there with
  its own output. A download writes over the files without truncating them, and fails
  if the archive has a directory that is there already (`tarstream`). `leftovers` names
  the artifacts that may be mixed so.
* A `Remove` whose `os.RemoveAll` fails half-way leaves a cut artifact in the cache and
  unlocks it; a later `Get` returns it (cache.go:144). `halfRemoved` names these.
* A download of a dependency that fails, because its holder is down or the connection
  breaks, fails the job and so the build; it is not tried again, nor at another holder
  (worker.go:333).
* A `Download` that meets the read lock of a `Get` about to miss fails its job
  (artifact/client.go:35).
* Two jobs queued while two `PickJob` calls are between their unlock and their
  `select` leave one token: one call sleeps beside a queued job until its
  context expires (scheduler.go:119).
* `OnJobComplete` records the worker of a failed job as a holder of its
  artifact (scheduler.go:70), where `scheduler/README.md:13` promises of
  `LocateArtifact` that it "должна возвращать имя любого воркера, который хранит в кеше
  заданный артефакт". Such a location reaches a spec only when a graph lacks the job or
  the coordinator has restarted; `SpecNamesHolders` names both as its exceptions.
* A worker that holds an artifact it downloaded, or made before its own restart, reports
  an empty output for its job when a restarted coordinator asks again (worker.go:204).
* A PUT that meets the read lock of another build's `findMissingFiles` answers
  500, and a build that meets the write lock of an upload fails, where
  `filecache/README.md` promises that repeated uploads wait.
* A subscriber whose handler is stuck blocks `Publish` once its channel is full, before
  the subscribers that come after it (my_pubsub.go:107).
* A second `Close` returns nil at once, while handlers still run (my_pubsub.go:114).

## 7. The plan

Done, in this order: `Scheduler` with `JobBoard` and its proofs, `Cluster` with its proofs,
`ArtifactCache` and `Transfer` with their proofs, `Upload`, `Batcher`, `PubSub`, `WorkerJob`,
and `TopSort` with `BuildStream`, each with its proofs.

Next, in the order of their weight:

1. *Refinement proofs*: that `WorkerJob` with senders that can read implements
   `ArtifactCache` but for the late abort, and `Upload` but for the panic, so that the
   action property `CommittedStays` holds in both.
2. *Abstract specifications*: a register for the batcher, a set of immutable artifacts
   for the cache.
3. *Composition*: `BuildStream` over `Cluster` in place of its external `Result`, and
   `Coordinator.Stop`.
