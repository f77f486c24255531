----------------------------- MODULE WorkerJob -----------------------------
(***************************************************************************)
(* What a worker does with one job: runJob of distbuild/pkg/worker/        *)
(* worker.go, with the artifacts and source files it fetches, the lock it  *)
(* takes on each, the output it commits or aborts, and the handler that    *)
(* serves its artifacts meanwhile.  Cluster takes all this for a few       *)
(* steps.  A worker has one slot, so one job runs at a time.               *)
(*                                                                         *)
(* The two caches of a worker, of artifacts and of files, have no          *)
(* identifier in common and are one cache here.  The job's goroutine uses  *)
(* several items at once: the process named id is its hold on item id.     *)
(***************************************************************************)
EXTENDS Transfer

CONSTANTS
  Jobs,     \* jobs that may be sent to this worker
  Deps,     \* JobSpec.Artifacts of each
  Files,    \* JobSpec.SourceFiles of each
  Servers,  \* goroutines of the artifact handler
  Asked,    \* artifacts that others ask this worker for
  None

\* MayFail may also name "temp", "copy" and "command".
ASSUME ItemsAssumption ==
  /\ Jobs \subseteq IDs
  /\ Deps \in [Jobs -> SUBSET IDs]
  /\ Files \in [Jobs -> SUBSET IDs]
  /\ Creators = IDs /\ Downloaders = IDs /\ Procs = IDs \cup Servers
  /\ Servers \cap IDs = {}
  /\ \A j \in Jobs : Deps[j] \subseteq Patient /\ Files[j] \cap (Patient \cup Jobs) = {}
  /\ None \notin IDs

VARIABLES
  job,      \* the job that runs
  jobPc,    \* where runJob stands
  todo,     \* the items ensureArtifacts or ensureSourceFiles has yet to fetch
  item,     \* the one at hand
  round,    \* "first" Get, "download", Get "again", "copy"
  copied,   \* the source files in sourceDir
  outcome,  \* the result under construction: "ok", "blank", "failed"
  stored    \* jobResultsByArtifact

itemVars == <<todo, item, round>>
jobVars == <<job, jobPc, itemVars, copied, outcome, stored>>
workerVars == <<transferVars, jobVars>>

WorkerInit ==
  /\ TransferInit
  /\ at = [p \in Procs |-> IF p \in IDs THEN p ELSE CHOOSE id \in IDs : TRUE]
  /\ job = None
  /\ jobPc = "idle"
  /\ todo = {}
  /\ item = None
  /\ round = "none"
  /\ copied = {}
  /\ outcome = "none"
  /\ stored = {}

JobGoes(from, to) == jobPc = from /\ jobPc' = to
Drops == todo' = {} /\ item' = None /\ round' = "none"

(* A result with an error; the deferred calls are next. *)
Fails ==
  /\ outcome' = "failed"
  /\ jobPc' = "unlock"
  /\ Drops
  /\ UNCHANGED <<job, copied, stored>>

-----------------------------------------------------------------------------
(* The result remembered for an artifact, or a blank one for want of it.    *)
getJobResult(j) == IF j \in stored THEN "ok" ELSE "blank"

(* Create: the output is there already, or locked, or ours to make.         *)
Begin(j) ==
  /\ job' = j
  /\ CreateLock(j, j)
  /\ LET e == WriteLockError(j, FALSE)
     IN  /\ JobGoes("idle", IF e = "nil" THEN "create" ELSE "report")
         /\ outcome' = CASE e = "nil" -> "none"
                         [] e = "exists" -> getJobResult(j)
                         [] OTHER -> "failed"
  /\ UNCHANGED <<fetchVars, itemVars, copied, stored>>

MakeOutput ==
  /\ jobPc = "create"
  /\ \/ /\ CreateDir(job)
        /\ jobPc' = "deps"
        /\ todo' = Deps[job]
        /\ UNCHANGED outcome
     \/ /\ CreateDirFails(job)
        /\ jobPc' = "report"
        /\ outcome' = "failed"
        /\ UNCHANGED todo
  /\ UNCHANGED <<fetchVars, job, item, round, copied, stored>>

(* ensureArtifacts and ensureSourceFiles look an item up in the cache,        *)
(* download what is missing, and look again.  With one slot nobody else      *)
(* writes here, so that a Get is never refused for a writer, and the second  *)
(* one finds what Download has stored: were it otherwise, the job would      *)
(* hang in this model and JobEnds fail.                                     *)
LookUp(i) ==
  /\ jobPc \in {"deps", "files"}
  /\ \/ round = "none" /\ i \in todo /\ round' = "first"
     \/ round = "download" /\ i = item /\ fetch[i] = "idle" /\ got[i] = "nil"
        /\ round' = "again"
  /\ GetLock(i, i)
  /\ item' = i
  /\ UNCHANGED <<fetchVars, job, jobPc, todo, copied, outcome, stored>>

Stat ==
  /\ round \in {"first", "again"}
  /\ GetStat(item)
  /\ UNCHANGED <<fetchVars, jobVars>>

Missed ==
  /\ round = "first"
  /\ GetMiss(item)
  /\ round' = "missing"
  /\ UNCHANGED <<fetchVars, job, jobPc, todo, item, copied, outcome, stored>>

StartDownload ==
  /\ round = "missing"
  /\ Download(item, item)
  /\ round' = "download"
  /\ UNCHANGED <<job, jobPc, todo, item, copied, outcome, stored>>

Downloads ==
  /\ round = "download"
  /\ DownloadStep(item)
  /\ UNCHANGED jobVars

DownloadFailedAgain ==  \* mutant: every error is met by another attempt
  /\ round = "download"
  /\ fetch[item] = "idle"
  /\ got[item] = "error"
  /\ round' = "missing"
  /\ UNCHANGED <<transferVars, job, jobPc, todo, item, copied, outcome, stored>>

DownloadFailed ==
  /\ round = "download"
  /\ fetch[item] = "idle"
  /\ got[item] = "error"
  /\ Fails
  /\ UNCHANGED transferVars

FoundDepUnlocks ==  \* mutant: only the path of the artifact is kept
  /\ jobPc = "deps"
  /\ item # None
  /\ Unlock(item)
  /\ todo' = todo \ {item}
  /\ item' = None
  /\ round' = "none"
  /\ UNCHANGED <<fetchVars, job, jobPc, copied, outcome, stored>>

(* An artifact stays locked for reading until the job ends. *)
FoundDep ==
  /\ jobPc = "deps"
  /\ item # None
  /\ pc[item] = "reading"
  /\ todo' = todo \ {item}
  /\ item' = None
  /\ round' = "none"
  /\ UNCHANGED <<transferVars, job, jobPc, copied, outcome, stored>>

DepsReady ==
  /\ todo = {}
  /\ \/ /\ JobGoes("deps", "files")
        /\ todo' = Files[job]
        /\ copied' = {}
        /\ UNCHANGED <<job, item, round, outcome, stored>>
     \/ /\ "temp" \in MayFail
        /\ jobPc = "deps"
        /\ Fails
  /\ UNCHANGED transferVars

(* A file is copied and unlocked; its lock is given back too when the copy   *)
(* fails.                                                                   *)
CopyFile ==
  /\ jobPc = "files"
  /\ item # None
  /\ Unlock(item)
  /\ \/ /\ copied' = copied \cup (IF disk[item] = "whole" THEN {item} ELSE {})
        /\ todo' = todo \ {item}
        /\ item' = None
        /\ round' = "none"
        /\ UNCHANGED <<job, jobPc, outcome, stored>>
     \/ "copy" \in MayFail /\ Fails
  /\ UNCHANGED fetchVars

FilesReady ==
  /\ todo = {}
  /\ JobGoes("files", "commands")
  /\ UNCHANGED <<transferVars, job, itemVars, copied, outcome, stored>>

(* The commands run, with the output directory before them; the first that   *)
(* fails ends the job.  They keep what they do not write over.              *)
RunCommands ==
  /\ JobGoes("commands", "commit")
  /\ Fill(job) \/ FillOver(job)
  /\ UNCHANGED <<fetchVars, job, itemVars, copied, outcome, stored>>

CommandFails ==
  /\ "command" \in MayFail
  /\ jobPc = "commands"
  /\ Fails
  /\ UNCHANGED transferVars

storeJobResult == stored' = stored \cup {job}

CommitUnchecked ==  \* mutant: the error of commit is not looked at
  /\ jobPc = "commit"
  /\ \/ (CommitRename(job) \/ CommitFails(job)) /\ UNCHANGED jobVars
     \/ /\ CommitUnlock(job)
        /\ outcome' = "ok"
        /\ storeJobResult
        /\ jobPc' = "unlock"
        /\ UNCHANGED <<job, itemVars, copied>>
  /\ UNCHANGED fetchVars

Commit ==
  /\ jobPc = "commit"
  /\ \/ (CommitRename(job) \/ CommitFails(job)) /\ UNCHANGED jobVars
     \/ /\ CommitUnlock(job)
        /\ \/ err'[job] = "io" /\ Fails
           \/ /\ err'[job] = "nil"
              /\ outcome' = "ok"
              /\ storeJobResult
              /\ jobPc' = "unlock"
              /\ UNCHANGED <<job, itemVars, copied>>
  /\ UNCHANGED fetchVars

(* The deferred calls: unlockDeps, then abort unless the output is committed. *)
HeldDepsOfSuccess ==  \* mutant: ensureArtifacts fails without unlockAll
  {d \in Deps[job] : pc[d] = "reading" /\ outcome = "ok"}

HeldDeps == {d \in Deps[job] : pc[d] = "reading"}

UnlockDep ==
  /\ jobPc = "unlock"
  /\ \E d \in HeldDeps : Unlock(d)
  /\ UNCHANGED <<fetchVars, jobVars>>

Unlocked ==
  /\ JobGoes("unlock", IF outcome = "ok" THEN "report" ELSE "abort")
  /\ HeldDeps = {}
  /\ UNCHANGED <<transferVars, job, itemVars, copied, outcome, stored>>

(* abort comes late when it was commit that failed: the lock has been given  *)
(* back, and the directory is removed and the lock given back once more.     *)
Abort ==
  /\ jobPc = "abort"
  /\ \/ AbortRemove(job) /\ UNCHANGED jobPc
     \/ AbortUnlock(job) /\ jobPc' = "report"
     \/ /\ pc[job] = "idle"
        /\ \/ tmp' = [tmp EXCEPT ![job] = "none"] /\ UNCHANGED leftovers
           \/ /\ "remove" \in MayFail
              /\ tmp' = [tmp EXCEPT ![job] = "stale"]
              /\ leftovers' = leftovers \cup {job}
        /\ jobPc' = "late"
        /\ UNCHANGED <<writeLocked, readLocked, disk, pc, at, err, crashes, halfRemoved>>
  /\ UNCHANGED <<fetchVars, job, itemVars, copied, outcome, stored>>

LateUnlock ==
  /\ JobGoes("late", "report")
  /\ WriteUnlock(job)
  /\ UNCHANGED <<readLocked, tmp, disk, pc, at, err, crashes, pastVars>>
  /\ UNCHANGED <<fetchVars, job, itemVars, copied, outcome, stored>>

(* runJob returns, and what its calls returned goes with it; the slot is free *)
(* again.                                                                   *)
Report ==
  /\ JobGoes("report", "idle")
  /\ job' = None
  /\ outcome' = "none"
  /\ copied' = {}
  /\ err' = [p \in Procs |-> IF p \in IDs THEN "nil" ELSE err[p]]
  /\ got' = [d \in Downloaders |-> "none"]
  /\ UNCHANGED <<writeLocked, readLocked, tmp, disk, pc, at, crashes, pastVars>>
  /\ UNCHANGED <<fetch, sent, end, itemVars, stored>>

RunJob ==
  \/ MakeOutput
  \/ \E i \in IDs : LookUp(i)
  \/ Stat \/ Missed \/ StartDownload \/ Downloads
  \/ DownloadFailed \/ FoundDep \/ DepsReady \/ CopyFile \/ FilesReady
  \/ RunCommands \/ CommandFails \/ Commit \/ UnlockDep \/ Unlocked \/ Abort \/ LateUnlock
  \/ Report

-----------------------------------------------------------------------------
(* handleArtifact of this worker, for whoever asks. *)
Serve(s) ==
  /\ Get(s)
  /\ at'[s] \in Asked
  /\ UNCHANGED <<fetchVars, jobVars>>

(* The worker dies and is started again.  It also dies by a panic in its job  *)
(* when a source file cannot be created in the cache (filecache Cache.Write). *)
WorkerRestart ==
  /\ TransferRestart
  /\ job' = None
  /\ jobPc' = "idle"
  /\ Drops
  /\ copied' = {}
  /\ outcome' = "none"
  /\ stored' = {}

WorkerNext ==
  \/ \E j \in Jobs : Begin(j)
  \/ RunJob
  \/ \E s \in Servers : Serve(s)
  \/ WorkerRestart

(* The job's goroutine runs; requests and commands come to an end.          *)
WorkerSpec == WorkerInit /\ [][WorkerNext]_workerVars /\ WF_workerVars(RunJob)

-----------------------------------------------------------------------------
WorkerTypeOK ==
  /\ TransferTypeOK
  /\ job \in Jobs \cup {None}
  /\ jobPc \in {"idle", "create", "deps", "files", "commands", "commit", "unlock",
                "abort", "late", "report"}
  /\ todo \subseteq IDs
  /\ item \in IDs \cup {None}
  /\ round \in {"none", "first", "missing", "download", "again"}
  /\ copied \subseteq IDs
  /\ outcome \in {"none", "ok", "blank", "failed"}
  /\ stored \subseteq Jobs

(* Whole, but for what an earlier writer of the artifact had left in tmp.    *)
Committed(id) == disk[id] = "whole" \/ Flawed(id)

(* While the commands of a job run, each artifact it depends on is committed   *)
(* and locked for reading, each source file has been copied in full, and the  *)
(* output directory is there and its own.                                   *)
CommandsSeeTheirInputs ==
  jobPc = "commands" =>
    /\ \A d \in Deps[job] : pc[d] = "reading" /\ Committed(d)
    /\ Files[job] \subseteq copied
    /\ job \in writeLocked /\ tmp[job] # "none"

(* Once a job is over, whichever step of it failed, and a late abort           *)
(* included, the worker holds no lock but those of the artifacts it serves.  *)
LocksEndWithTheJob ==
  job = None =>
    /\ writeLocked = {}
    /\ \A id \in IDs : readLocked[id] = Cardinality({s \in Servers : s \in Readers(id)})

(* A job reported as done left its artifact in the cache, committed; one      *)
(* reported as failed left none.                                            *)
OutcomeIsTrue ==
  jobPc = "report" =>
    IF outcome = "failed" THEN disk[job] = "none" ELSE Committed(job)

(* A job that is started comes to an end, and the worker is free again.      *)
JobEnds == jobPc = "create" ~> jobPc = "idle"
=============================================================================
