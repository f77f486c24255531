-------------------------- MODULE WorkerJobProofs --------------------------
(* Proofs about WorkerJob, for any jobs and what they need, any number of     *)
(* goroutines that serve artifacts meanwhile, any failures and restarts.     *)
EXTENDS WorkerJob, CacheProofs

-----------------------------------------------------------------------------
(* The inductive invariant of the locks. *)

\* The typing of what the cache and Download know nothing of.
JobTyped ==
  /\ job \in Jobs \cup {None}
  /\ jobPc \in {"idle", "create", "deps", "files", "commands", "commit", "unlock",
                "abort", "late", "report"}
  /\ todo \subseteq IDs
  /\ item \in IDs \cup {None}
  /\ round \in {"none", "first", "missing", "download", "again"}
  /\ copied \subseteq IDs
  /\ outcome \in {"none", "ok", "blank", "failed"}
  /\ stored \subseteq Jobs

FetchPcs == {"idle", "create", "retry", "request", "body", "ending"}

\* The hold on an item is its own; servers only read.
RolesOK ==
  /\ \A id \in IDs : at[id] = id
  /\ \A s \in Servers : pc[s] \in {"idle"} \cup ReadPcs

\* Where the job's hold on its output stands, step of the job by step.
OutputOK ==
  /\ job = None <=> jobPc = "idle"
  /\ jobPc = "create" => pc[job] = "mkdir"
  /\ jobPc \in {"deps", "files", "commands"} => pc[job] = "writing"
  /\ jobPc = "commit" => pc[job] \in {"written", "committed", "commitFailed"}
  /\ jobPc = "unlock" => pc[job] = "idle" \/ (outcome # "ok" /\ pc[job] = "writing")
  /\ jobPc = "abort" => pc[job] \in {"idle", "writing", "aborted"}
  /\ jobPc \in {"late", "report"} => pc[job] = "idle"

\* What a download has done so far in the cache.
DownloadOK ==
  /\ \A id \in IDs : fetch[id] # "idle" => round = "download" /\ id = item
  /\ round = "download" =>
       /\ fetch[item] \in {"idle", "retry"} => pc[item] = "idle"
       /\ fetch[item] = "create" => pc[item] = "mkdir"
       /\ fetch[item] \in {"request", "body"} => pc[item] = "writing"
       /\ fetch[item] = "ending" =>
            pc[item] \in {"written", "committed", "commitFailed", "aborted"}

\* The item at hand is one of those to fetch, and not the output.
ItemOK ==
  /\ item = None <=> round = "none"
  /\ item # None =>
       /\ jobPc \in {"deps", "files"} /\ item \in todo /\ item # job
       /\ round \in {"first", "again"} => pc[item] \in ReadPcs
       /\ round = "missing" => pc[item] = "idle"
  /\ jobPc = "deps" => todo \subseteq Deps[job]

\* What else is held are artifacts the job depends on, for reading.
HeldOK ==
  \A id \in IDs : id \notin {job, item} /\ pc[id] # "idle" =>
    /\ jobPc \in {"deps", "files", "commands", "commit", "unlock"}
    /\ pc[id] = "reading" /\ id \in Deps[job]

FetchIn == fetch \in [Downloaders -> FetchPcs]

LocksInv ==
  /\ TypeOK /\ LocksAreHeld /\ FetchIn /\ JobTyped
  /\ RolesOK /\ OutputOK /\ DownloadOK /\ ItemOK /\ HeldOK

-----------------------------------------------------------------------------
(* What the job finds in the cache, when senders can read what they send.    *)

\* Nothing is removed, and a source file is never written over leftovers.
DiskOK ==
  /\ \A id \in IDs : disk[id] \in {"none", "whole", "mixed"}
  /\ \A id \in IDs \ (Patient \cup Jobs) : disk[id] # "mixed" /\ tmp[id] # "mixed"

\* The output is there from its Rename on, and if the job succeeds.
ResultOK ==
  /\ jobPc \in {"create", "deps", "files", "commands"} => disk[job] = "none"
  /\ jobPc = "commit" => (disk[job] = "none" <=> pc[job] # "committed")
  /\ jobPc = "unlock" => outcome \in {"ok", "failed"}
  /\ jobPc \in {"abort", "late"} => outcome = "failed"
  /\ jobPc \in {"unlock", "abort", "late", "report"} =>
       (disk[job] = "none" <=> outcome = "failed")

\* What has been fetched is held, or copied.
InputsOK ==
  /\ jobPc = "deps" => \A d \in Deps[job] \ todo : pc[d] = "reading"
  /\ jobPc \in {"files", "commands"} => \A d \in Deps[job] : pc[d] = "reading"
  /\ jobPc = "files" => item \notin Deps[job] /\ Files[job] \ todo \subseteq copied
  /\ jobPc = "commands" => Files[job] \subseteq copied


-----------------------------------------------------------------------------
(* The steps of the worker as steps of its cache. *)

\* An artifact that was cut short is taken for whole; what a commit that failed
\* has left behind is removed, or not; the errors of a job go with it.
ReceivesLess(d) ==
  /\ pc[d] = "writing"
  /\ Goto(d, "written")
  /\ UNCHANGED <<writeLocked, readLocked, tmp, disk, at, err, crashes, pastVars>>
RemovesLate ==
  /\ job \in IDs /\ pc[job] = "idle"
  /\ \/ tmp' = [tmp EXCEPT ![job] = "none"] /\ UNCHANGED leftovers
     \/ /\ tmp' = [tmp EXCEPT ![job] = "stale"]
        /\ leftovers' = leftovers \cup {job}
  /\ UNCHANGED <<writeLocked, readLocked, disk, pc, at, err, crashes, halfRemoved>>
Forgets ==
  /\ err' \in [Procs -> Errors]
  /\ UNCHANGED <<writeLocked, readLocked, tmp, disk, pc, at, crashes, pastVars>>
Settles == RemovesLate \/ Forgets

(* A download takes the steps of a creator, or takes less for the whole.     *)
LEMMA DownloadCreates ==
  ASSUME TypeOK, NEW d \in Downloaders,
         DownloadStep(d) \/ \E id \in IDs : Download(d, id)
  PROVE  Create(d) \/ UNCHANGED vars \/ (ReceivesLess(d) /\ sent[d] # Entries /\ end[d] = "clean")
<1>0. at[d] \in IDs
  BY ItemsAssumption DEF TypeOK
<1>1. ASSUME NEW id \in IDs, NEW from, Try(d, id, from)
      PROVE  Create(d)
  BY <1>1 DEF Try, Create
<1>2. CASE Retry(d) \/ \E id \in IDs : Download(d, id)
  BY <1>0, <1>1, <1>2 DEF Retry, Download
<1>3. CASE GiveUp(d) \/ Served(d) \/ Sends(d) \/ SendEnds(d) \/ SendBreaks(d)
  BY <1>3 DEF GiveUp, Served, Sends, SendEnds, SendBreaks, vars
<1>4. CASE MakeDir(d) \/ Refused(d) \/ ReceiveFails(d) \/ Ends(d)
  BY <1>4 DEF MakeDir, Refused, ReceiveFails, Ends, Create
<1>5. CASE Received(d)
  BY <1>5 DEF Received, Create, ReceivesLess
<1> QED
  BY <1>2, <1>3, <1>4, <1>5 DEF DownloadStep

(* A hold that is idle has the item for write for nobody: no server writes.  *)
LEMMA IdleIsUnlocked ==
  ASSUME TypeOK, LocksAreHeld, RolesOK, NEW id \in IDs, pc[id] \notin WritePcs
  PROVE  id \notin writeLocked /\ Holders(id) = {}
<1>1. ASSUME NEW p \in Holders(id)
      PROVE  FALSE
  BY <1>1, ItemsAssumption DEF Holders, RolesOK, ReadPcs, WritePcs
<1> QED
  BY <1>1 DEF LocksAreHeld

(* Every step of the worker uses the cache as ArtifactCache allows its       *)
(* users, but for these.                                                    *)
LEMMA WorkerUsesCache ==
  ASSUME TypeOK, LocksAreHeld, JobTyped, RolesOK, OutputOK, ItemOK, [WorkerNext]_workerVars
  PROVE  \/ [Next]_vars
         \/ \E d \in IDs : ReceivesLess(d) /\ sent[d] # Entries /\ end[d] = "clean"
         \/ Settles
<1> DEFINE Goal == \/ [Next]_vars
                   \/ \E d \in IDs : ReceivesLess(d) /\ sent[d] # Entries /\ end[d] = "clean"
                   \/ Settles
<1>a. /\ Creators = IDs /\ Downloaders = IDs /\ Procs = IDs \cup Servers /\ None \notin IDs
      /\ Jobs \subseteq IDs
  BY ItemsAssumption
<1>b. \A p \in Creators : Create(p) => [Next]_vars
  BY DEF Next
<1>c. \A p \in Procs : Get(p) => [Next]_vars
  BY DEF Next
<1>d. UNCHANGED vars => [Next]_vars
  OBVIOUS
<1>e. /\ jobPc # "idle" => job \in IDs /\ Deps[job] \subseteq IDs
      /\ round # "none" => item \in IDs
      /\ item # None => item \in IDs
  BY ItemsAssumption DEF JobTyped, OutputOK, ItemOK
<1>f. ASSUME NEW d \in IDs, DownloadStep(d) \/ \E id \in IDs : Download(d, id)
      PROVE  Goal
  <2>1. Create(d) \/ UNCHANGED vars \/ (ReceivesLess(d) /\ sent[d] # Entries /\ end[d] = "clean")
    BY <1>a, <1>f, DownloadCreates
  <2> QED
    BY <2>1, <1>a, <1>b, <1>d
<1>g. UNCHANGED transferVars => [Next]_vars
  BY DEF transferVars
<1> USE <1>a, <1>b, <1>c, <1>d, <1>e, <1>g
<1> HIDE DEF Goal
<1>h. [Next]_vars => Goal
  BY DEF Goal
<1> USE <1>h
<1>1. ASSUME NEW j \in Jobs, Begin(j)
      PROVE  Goal
  BY <1>1 DEF Begin, Create
<1>2. ASSUME MakeOutput
      PROVE  Goal
  BY <1>2 DEF MakeOutput, Create
<1>3. ASSUME NEW i \in IDs, LookUp(i)
      PROVE  Goal
  BY <1>3 DEF LookUp, Get
<1>4. ASSUME Stat
      PROVE  Goal
  BY <1>4 DEF Stat, Get
<1>5. ASSUME Missed
      PROVE  Goal
  BY <1>5 DEF Missed, Get
<1>6. ASSUME StartDownload
      PROVE  Goal
  BY <1>6, <1>f DEF StartDownload
<1>7. ASSUME Downloads
      PROVE  Goal
  BY <1>7, <1>f DEF Downloads
<1>8. ASSUME DownloadFailed
      PROVE  Goal
  BY <1>8 DEF DownloadFailed
<1>9. ASSUME FoundDep
      PROVE  Goal
  BY <1>9 DEF FoundDep
<1>10. ASSUME DepsReady
      PROVE  Goal
  BY <1>10 DEF DepsReady
<1>11. ASSUME CopyFile
      PROVE  Goal
  BY <1>11 DEF CopyFile, Get
<1>12. ASSUME FilesReady
      PROVE  Goal
  BY <1>12 DEF FilesReady
<1>13. ASSUME RunCommands
      PROVE  Goal
  BY <1>13 DEF RunCommands, Create, JobGoes
<1>14. ASSUME CommandFails
      PROVE  Goal
  BY <1>14 DEF CommandFails
<1>15. ASSUME Commit
      PROVE  Goal
  BY <1>15 DEF Commit, Create
<1>16. ASSUME UnlockDep
      PROVE  Goal
  BY <1>16 DEF UnlockDep, HeldDeps, Get
<1>17. ASSUME Unlocked
      PROVE  Goal
  BY <1>17 DEF Unlocked
<1>18. ASSUME Abort
      PROVE  Goal
  <2>1. job \in IDs
    BY <1>18 DEF Abort
  <2>2. Create(job) \/ RemovesLate
    BY <1>18, <2>1 DEF Abort, Create, RemovesLate
  <2> QED
    BY <2>1, <2>2 DEF Goal, Settles
<1>19. ASSUME LateUnlock
      PROVE  Goal
  <2>1. job \in IDs /\ pc[job] \notin WritePcs
    BY <1>19 DEF LateUnlock, JobGoes, OutputOK, WritePcs
  <2>2. job \notin writeLocked
    BY <2>1, IdleIsUnlocked
  <2>3. writeLocked' = writeLocked
    BY <1>19, <2>1, <2>2 DEF LateUnlock, WriteUnlock, RolesOK
  <2>4. UNCHANGED vars
    BY <1>19, <2>3 DEF LateUnlock, vars
  <2> QED
    BY <2>4
<1>20. ASSUME Report
      PROVE  Goal
  <2>1. Forgets
    BY <1>20 DEF Report, Forgets, TypeOK, Errors
  <2> QED
    BY <2>1 DEF Goal, Settles
<1>21. ASSUME NEW s \in Servers, Serve(s)
      PROVE  Goal
  BY <1>21 DEF Serve
<1>22. ASSUME WorkerRestart
      PROVE  Goal
  BY <1>22 DEF WorkerRestart, TransferRestart, Next
<1>23. CASE UNCHANGED workerVars
  BY <1>23 DEF workerVars
<1> QED
  BY <1>1, <1>2, <1>3, <1>4, <1>5, <1>6, <1>7, <1>8, <1>9, <1>10, <1>11, <1>12, <1>13,
     <1>14, <1>15, <1>16, <1>17, <1>18, <1>19, <1>20, <1>21, <1>22, <1>23
  DEF WorkerNext, RunJob, Goal

(* Those do not harm the locks either. *)
LEMMA CacheStep ==
  ASSUME TypeOK, LocksAreHeld, RolesOK,
         [Next]_vars \/ (\E d \in IDs : ReceivesLess(d)) \/ Settles
  PROVE  TypeOK' /\ LocksAreHeld'
<1>1. CASE [Next]_vars
  BY <1>1, LocksStep, TypingStep
<1>2. ASSUME NEW d \in IDs, ReceivesLess(d)
      PROVE  TypeOK' /\ LocksAreHeld'
  <2>1. TypeOK'
    BY <1>2 DEF ReceivesLess, Goto, TypeOK, Pcs, WritePcs, pastVars
  <2>2. d \in Procs
    BY ItemsAssumption
  <2>3. OnlyMoves(d) /\ pc'[d] = "written"
    BY <1>2, <2>2, GotoMoves DEF ReceivesLess
  <2> QED
    BY <1>2, <2>1, <2>2, <2>3, MoveInRole DEF ReceivesLess, ReadPcs, WritePcs
<1>3. CASE Settles
  <2>1. TypeOK'
    BY <1>3 DEF Settles, RemovesLate, Forgets, TypeOK, Contents, pastVars
  <2>2. \A id \in IDs : Readers(id)' = Readers(id) /\ Holders(id)' = Holders(id)
    BY <1>3 DEF Settles, RemovesLate, Forgets, Readers, Holders
  <2> QED
    BY <1>3, <2>1, <2>2, SameRoles DEF Settles, RemovesLate, Forgets
<1> QED
  BY <1>1, <1>2, <1>3

-----------------------------------------------------------------------------
(* What a server does is about itself. *)
LEMMA ServeEffect ==
  ASSUME TypeOK, RolesOK, NEW s \in Servers, Serve(s)
  PROVE  /\ UNCHANGED <<writeLocked, tmp, disk, crashes, fetchVars, jobVars>>
         /\ \A id \in IDs : pc'[id] = pc[id] /\ at'[id] = at[id] /\ err'[id] = err[id]
         /\ \A t \in Servers : pc'[t] \in {"idle"} \cup ReadPcs
         /\ \A p \in Procs : pc'[p] = "reading" =>
              /\ at'[p] = at[p]
              /\ pc[p] = "reading" \/ disk[at[p]] # "none"
<1> USE ItemsAssumption DEF TypeOK, RolesOK, ReadPcs
<1>1. CASE \E id \in IDs : GetRefused(s, id) \/ GetLock(s, id)
  BY <1>1 DEF Serve, GetRefused, GetLock, Call, Return, Goto
<1>2. CASE GetStat(s)
  BY <1>2 DEF Serve, GetStat, Goto
<1>3. CASE GetMiss(s) \/ Unlock(s)
  BY <1>3 DEF Serve, GetMiss, Unlock, ReadUnlock, Return, Goto
<1> QED
  BY <1>1, <1>2, <1>3 DEF Serve, Get

\* The state of one download in the cache.
FetchAt(d) ==
  /\ fetch[d] \in {"idle", "retry"} => pc[d] = "idle"
  /\ fetch[d] = "create" => pc[d] = "mkdir"
  /\ fetch[d] \in {"request", "body"} => pc[d] = "writing"
  /\ fetch[d] = "ending" => pc[d] \in {"written", "committed", "commitFailed", "aborted"}

(* What createLock comes to, for one hold. *)
LEMMA TryEffect ==
  ASSUME TypeOK, RolesOK, FetchIn, NEW d \in IDs, NEW from, Try(d, d, from)
  PROVE  /\ pc[d] = "idle" /\ fetch[d] = from
         /\ at' = at
         /\ \E label \in {"idle", "mkdir"} : pc' = [pc EXCEPT ![d] = label]
         /\ \E where \in FetchPcs : fetch' = [fetch EXCEPT ![d] = where]
         /\ UNCHANGED <<tmp, disk>>
         /\ FetchAt(d)'
<1> DEFINE e == WriteLockError(d, FALSE)
<1>0. d \in Procs /\ d \in Downloaders
  BY ItemsAssumption
<1>1. /\ pc[d] = "idle" /\ at' = [at EXCEPT ![d] = d] /\ UNCHANGED <<tmp, disk>>
      /\ pc' = [pc EXCEPT ![d] = IF e = "nil" THEN "mkdir" ELSE "idle"]
  BY DEF Try, CreateLock, WriteLock, Call, Return, Goto
<1>2. /\ fetch[d] = from
      /\ \/ e = "nil" /\ fetch' = [fetch EXCEPT ![d] = "create"]
         \/ e # "nil" /\ fetch' = [fetch EXCEPT ![d] = "retry"]
         \/ e # "nil" /\ fetch' = [fetch EXCEPT ![d] = "idle"]
  BY DEF Try, FetchGoes, DownloadReturns
<1>3. at' = at
  BY <1>0, <1>1 DEF TypeOK, RolesOK
<1> HIDE DEF e
<1>4. pc'[d] = IF e = "nil" THEN "mkdir" ELSE "idle"
  BY <1>0, <1>1 DEF TypeOK
<1>5. /\ fetch'[d] \in {"create", "retry", "idle"}
      /\ fetch'[d] = "create" <=> e = "nil"
  BY <1>0, <1>2 DEF FetchIn
<1>6. FetchAt(d)'
  BY <1>4, <1>5 DEF FetchAt
<1> QED
  BY <1>1, <1>2, <1>3, <1>6 DEF FetchPcs

(* A step of a download is about its item. *)
LEMMA DownloadEffect ==
  ASSUME TypeOK, RolesOK, FetchIn, NEW d \in IDs, FetchAt(d),
         DownloadStep(d) \/ Download(d, d)
  PROVE  /\ at' = at
         /\ \E label \in Pcs : pc' = [pc EXCEPT ![d] = label]
         /\ \E where \in FetchPcs : fetch' = [fetch EXCEPT ![d] = where]
         /\ FetchAt(d)'
         /\ pc'[d] # "reading"
<1> DEFINE Goal == /\ at' = at
                   /\ \E label \in Pcs : pc' = [pc EXCEPT ![d] = label]
                   /\ \E where \in FetchPcs : fetch' = [fetch EXCEPT ![d] = where]
                   /\ FetchAt(d)'
                   /\ pc'[d] # "reading"
<1>0. /\ d \in Procs /\ d \in Downloaders /\ at[d] = d
      /\ pc \in [Procs -> Pcs] /\ fetch \in [Downloaders -> FetchPcs]
  BY ItemsAssumption DEF RolesOK, TypeOK, FetchIn
<1>p. /\ \A label \in WritePcs \cup {"idle"} : label \in Pcs
      /\ pc = [pc EXCEPT ![d] = pc[d]] /\ fetch = [fetch EXCEPT ![d] = fetch[d]]
      /\ pc[d] \in Pcs /\ fetch[d] \in FetchPcs
  BY <1>0 DEF Pcs
<1>t. ASSUME NEW from, Try(d, d, from)
      PROVE  Goal
  <2>1. pc'[d] # "reading"
    BY <1>t, <1>0, TryEffect
  <2> QED
    BY <1>t, <2>1, TryEffect DEF Pcs, WritePcs
<1>1. CASE Download(d, d) \/ Retry(d)
  BY <1>0, <1>1, <1>t DEF Download, Retry
<1> USE <1>0, <1>p DEF FetchAt, FetchPcs, FetchGoes, DownloadReturns, Stays, WritePcs
<1>2. CASE GiveUp(d) \/ Served(d)
  BY <1>2 DEF GiveUp, Served, vars
<1>3. CASE Sends(d) \/ SendEnds(d) \/ SendBreaks(d)
  BY <1>3 DEF Sends, SendEnds, SendBreaks, vars
<1>4. CASE MakeDir(d)
  BY <1>4 DEF MakeDir, CreateDir, CreateDirFails, Return, Goto
<1>5. CASE Refused(d) \/ ReceiveFails(d)
  BY <1>5 DEF Refused, ReceiveFails, AbortRemove, AbortRemoves, AbortRemoveFails, Goto
<1>6. CASE Received(d)
  BY <1>6 DEF Received, Fill, FillOver, Goto
<1>7. CASE Ends(d)
  <2>1. CASE (CommitRename(d) \/ CommitFails(d)) /\ UNCHANGED fetchVars
    BY <1>7, <2>1 DEF Ends, CommitRename, CommitFails, Goto, fetchVars
  <2>2. CASE CommitUnlock(d) \/ AbortUnlock(d)
    <3>1. pc' = [pc EXCEPT ![d] = "idle"] /\ at' = at
      BY <2>2 DEF CommitUnlock, AbortUnlock, Return, Goto
    <3>2. fetch[d] = "ending" /\ fetch' = [fetch EXCEPT ![d] = "idle"]
      BY <1>7, <2>2 DEF Ends, CommitUnlock, AbortUnlock, CommitRename, CommitFails, Goto, Return
    <3>3. pc'[d] = "idle" /\ fetch'[d] = "idle"
      BY <3>1, <3>2
    <3> QED
      BY <3>1, <3>2, <3>3
  <2> QED
    BY <1>7, <2>1, <2>2 DEF Ends
<1> QED
  BY <1>1, <1>2, <1>3, <1>4, <1>5, <1>6, <1>7 DEF DownloadStep

LEMMA ItemDownloads ==
  ASSUME TypeOK, FetchIn, JobTyped, RolesOK, DownloadOK, ItemOK, StartDownload \/ Downloads
  PROVE  /\ item \in IDs /\ round \in {"missing", "download"} /\ round' = "download"
         /\ UNCHANGED <<at, job, jobPc, todo, item, copied, outcome, stored>>
         /\ \A p \in Procs : p # item => pc'[p] = pc[p]
         /\ \A d \in IDs : d # item => fetch'[d] = fetch[d]
         /\ FetchIn' /\ FetchAt(item)' /\ pc'[item] # "reading"
<1>1. /\ round \in {"missing", "download"} /\ round' = "download"
      /\ UNCHANGED <<job, jobPc, todo, item, copied, outcome, stored>>
      /\ DownloadStep(item) \/ Download(item, item)
  BY DEF StartDownload, Downloads, jobVars, itemVars
<1>2. item \in IDs
  BY <1>1 DEF ItemOK, JobTyped
<1>3. FetchAt(item)
  BY <1>1, <1>2 DEF ItemOK, DownloadOK, FetchAt, FetchPcs, FetchIn
<1>4. /\ at' = at
      /\ \E label \in Pcs : pc' = [pc EXCEPT ![item] = label]
      /\ \E where \in FetchPcs : fetch' = [fetch EXCEPT ![item] = where]
      /\ FetchAt(item)'
      /\ pc'[item] # "reading"
  <2>1. ASSUME NEW d \in IDs, d = item
        PROVE  /\ at' = at
               /\ \E label \in Pcs : pc' = [pc EXCEPT ![d] = label]
               /\ \E where \in FetchPcs : fetch' = [fetch EXCEPT ![d] = where]
               /\ FetchAt(d)'
               /\ pc'[d] # "reading"
    BY <1>1, <1>3, <2>1, DownloadEffect
  <2> QED
    BY <1>1, <1>2, <2>1 DEF FetchAt
<1>5. FetchIn'
  BY <1>4 DEF FetchIn
<1>6. \A p \in Procs : p # item => pc'[p] = pc[p]
  BY <1>4 DEF TypeOK
<1>7. \A d \in IDs : d # item => fetch'[d] = fetch[d]
  BY <1>4, ItemsAssumption DEF FetchIn
<1> QED
  BY <1>1, <1>2, <1>4, <1>5, <1>6, <1>7

(* The types of the job, and that servers do not write. *)
LEMMA JobTypedStep ==
  ASSUME TypeOK, FetchIn, JobTyped, RolesOK, OutputOK, DownloadOK, ItemOK,
         [WorkerNext]_workerVars
  PROVE  JobTyped' /\ FetchIn' /\ RolesOK'
<1>a. CASE StartDownload \/ Downloads
  <2>1. /\ FetchIn' /\ round' = "download" /\ item \in IDs
        /\ UNCHANGED <<at, job, jobPc, todo, item, copied, outcome, stored>>
        /\ \A p \in Procs : p # item => pc'[p] = pc[p]
    BY <1>a, ItemDownloads
  <2> QED
    BY <2>1, ItemsAssumption DEF JobTyped, RolesOK
<1>b. ASSUME NEW s \in Servers, Serve(s)
      PROVE  JobTyped' /\ FetchIn' /\ RolesOK'
  <2>1. /\ UNCHANGED <<fetchVars, jobVars>>
        /\ \A id \in IDs : at'[id] = at[id]
        /\ \A t \in Servers : pc'[t] \in {"idle"} \cup ReadPcs
    BY <1>b, ServeEffect
  <2> QED
    BY <2>1 DEF JobTyped, FetchIn, RolesOK, jobVars, itemVars, fetchVars
<1>c. \/ jobPc = "idle"
      \/ job \in Jobs /\ job \in IDs /\ Deps[job] \subseteq IDs /\ Files[job] \subseteq IDs
  BY ItemsAssumption DEF OutputOK, JobTyped
<1>d. /\ Procs = IDs \cup Servers /\ Servers \cap IDs = {} /\ Downloaders = IDs /\ Jobs \subseteq IDs
      /\ item # None => item \in IDs
      /\ round # "none" => item \in IDs
  BY ItemsAssumption DEF JobTyped, ItemOK
<1> USE <1>c, <1>d DEF JobTyped, FetchIn, FetchPcs, RolesOK, TypeOK, transferVars, vars,
   fetchVars, jobVars,
        itemVars
<1>1. ASSUME NEW j \in Jobs, Begin(j)
      PROVE  JobTyped' /\ FetchIn' /\ RolesOK'
  <2>1. at' = [at EXCEPT ![j] = j] /\ \E label \in {"idle", "mkdir"} : pc' = [pc EXCEPT ![j] = label]
    BY <1>1 DEF Begin, CreateLock, WriteLock, Call, Return, Goto
  <2>2. /\ job' = j /\ jobPc' \in {"create", "report"} /\ outcome' \in {"none", "ok", "blank", "failed"}
        /\ UNCHANGED <<fetchVars, itemVars, copied, stored>>
    BY <1>1 DEF Begin, getJobResult, JobGoes
  <2> QED
    BY <2>1, <2>2
<1>2. ASSUME MakeOutput
      PROVE  JobTyped' /\ FetchIn' /\ RolesOK'
  BY <1>2 DEF MakeOutput, CreateDir, CreateDirFails, WriteUnlock, Return, Goto
<1>3. ASSUME NEW i \in IDs, LookUp(i)
      PROVE  JobTyped' /\ FetchIn' /\ RolesOK'
  BY <1>3 DEF LookUp, GetLock, Call, Goto
<1>4. ASSUME Stat
      PROVE  JobTyped' /\ FetchIn' /\ RolesOK'
  BY <1>4 DEF Stat, GetStat, Goto
<1>5. ASSUME Missed
      PROVE  JobTyped' /\ FetchIn' /\ RolesOK'
  BY <1>5 DEF Missed, GetMiss, ReadUnlock, Return, Goto
<1>6. ASSUME StartDownload
      PROVE  JobTyped' /\ FetchIn' /\ RolesOK'
  BY <1>6, <1>a
<1>7. ASSUME Downloads
      PROVE  JobTyped' /\ FetchIn' /\ RolesOK'
  BY <1>7, <1>a
<1>8. ASSUME DownloadFailed
      PROVE  JobTyped' /\ FetchIn' /\ RolesOK'
  BY <1>8 DEF DownloadFailed, Fails, Drops
<1>9. ASSUME FoundDep
      PROVE  JobTyped' /\ FetchIn' /\ RolesOK'
  BY <1>9 DEF FoundDep
<1>10. ASSUME DepsReady
      PROVE  JobTyped' /\ FetchIn' /\ RolesOK'
  BY <1>10 DEF DepsReady, JobGoes, Fails, Drops
<1>11. ASSUME CopyFile
      PROVE  JobTyped' /\ FetchIn' /\ RolesOK'
  BY <1>11 DEF CopyFile, Unlock, ReadUnlock, Goto, Fails, Drops
<1>12. ASSUME FilesReady
      PROVE  JobTyped' /\ FetchIn' /\ RolesOK'
  BY <1>12 DEF FilesReady, JobGoes
<1>13. ASSUME RunCommands
      PROVE  JobTyped' /\ FetchIn' /\ RolesOK'
  BY <1>13 DEF RunCommands, JobGoes, Fill, FillOver, Goto
<1>14. ASSUME CommandFails
      PROVE  JobTyped' /\ FetchIn' /\ RolesOK'
  BY <1>14 DEF CommandFails, Fails, Drops
<1>15. ASSUME Commit
      PROVE  JobTyped' /\ FetchIn' /\ RolesOK'
  BY <1>15 DEF Commit, CommitRename, CommitFails, CommitUnlock, WriteUnlock, Return, Goto,
     Fails, Drops, storeJobResult
<1>16. ASSUME UnlockDep
      PROVE  JobTyped' /\ FetchIn' /\ RolesOK'
  BY <1>16 DEF UnlockDep, HeldDeps, Unlock, ReadUnlock, Goto, ReadPcs
<1>17. ASSUME Unlocked
      PROVE  JobTyped' /\ FetchIn' /\ RolesOK'
  BY <1>17 DEF Unlocked, JobGoes, HeldDeps
<1>18. ASSUME Abort
      PROVE  JobTyped' /\ FetchIn' /\ RolesOK'
  BY <1>18 DEF Abort, AbortRemove, AbortRemoves, AbortRemoveFails, AbortUnlock, WriteUnlock,
     Return, Goto
<1>19. ASSUME LateUnlock
      PROVE  JobTyped' /\ FetchIn' /\ RolesOK'
  BY <1>19 DEF LateUnlock, JobGoes, WriteUnlock
<1>20. ASSUME Report
      PROVE  JobTyped' /\ FetchIn' /\ RolesOK'
  BY <1>20 DEF Report, JobGoes
<1>21. ASSUME NEW s \in Servers, Serve(s)
      PROVE  JobTyped' /\ FetchIn' /\ RolesOK'
  BY <1>21, <1>b
<1>22. ASSUME WorkerRestart
      PROVE  JobTyped' /\ FetchIn' /\ RolesOK'
  BY <1>22 DEF WorkerRestart, TransferRestart, Restart, Drops
<1>23. CASE UNCHANGED workerVars
  BY <1>23 DEF workerVars, transferVars, vars, fetchVars, jobVars, itemVars
<1> QED
  BY <1>1, <1>2, <1>3, <1>4, <1>5, <1>6, <1>7, <1>8, <1>9, <1>10, <1>11, <1>12, <1>13,
     <1>14, <1>15, <1>16, <1>17, <1>18, <1>19, <1>20, <1>21, <1>22, <1>23
  DEF WorkerNext, RunJob

(* What a job finds when it asks for its output. *)
LEMMA BeginEffect ==
  ASSUME TypeOK, RolesOK, OutputOK, JobTyped, NEW j \in Jobs, Begin(j)
  PROVE  /\ job' = j /\ job = None /\ jobPc = "idle" /\ pc[j] = "idle"
         /\ UNCHANGED <<at, disk, tmp, fetchVars, itemVars, copied, stored>>
         /\ \/ jobPc' = "create" /\ pc' = [pc EXCEPT ![j] = "mkdir"] /\ disk[j] = "none"
            \/ /\ jobPc' = "report" /\ pc' = [pc EXCEPT ![j] = "idle"]
               /\ outcome' \in {"ok", "blank", "failed"}
               /\ outcome' = "failed" <=> disk[j] = "none"
<1> DEFINE e == WriteLockError(j, FALSE)
<1>1. /\ e = "nil" => disk[j] = "none"
      /\ e = "exists" <=> disk[j] # "none"
  BY DEF WriteLockError
<1>2. /\ at' = [at EXCEPT ![j] = j] /\ pc[j] = "idle" /\ UNCHANGED <<disk, tmp>>
      /\ pc' = [pc EXCEPT ![j] = IF e = "nil" THEN "mkdir" ELSE "idle"]
  BY DEF Begin, CreateLock, WriteLock, Call, Return, Goto
<1>3. /\ jobPc = "idle" /\ job' = j
      /\ jobPc' = IF e = "nil" THEN "create" ELSE "report"
      /\ outcome' = CASE e = "nil" -> "none"
                      [] e = "exists" -> getJobResult(j)
                      [] OTHER -> "failed"
      /\ UNCHANGED <<fetchVars, itemVars, copied, stored>>
  BY DEF Begin, JobGoes
<1>4. job = None /\ at' = at
  BY ItemsAssumption, <1>2, <1>3 DEF OutputOK, RolesOK, TypeOK
<1>5. getJobResult(j) \in {"ok", "blank"}
  BY DEF getJobResult
<1> HIDE DEF e
<1> QED
  BY <1>1, <1>2, <1>3, <1>4, <1>5

(* The job and its hold on the output keep step. *)
LEMMA OutputStep ==
  ASSUME TypeOK, FetchIn, JobTyped, RolesOK, OutputOK, DownloadOK, ItemOK, HeldOK,
         [WorkerNext]_workerVars
  PROVE  OutputOK'
<1>c. \/ jobPc = "idle"
      \/ job \in Jobs /\ job \in IDs /\ Deps[job] \subseteq IDs /\ Files[job] \subseteq IDs
  BY ItemsAssumption DEF OutputOK, JobTyped
<1>d. /\ Procs = IDs \cup Servers /\ Servers \cap IDs = {} /\ Downloaders = IDs /\ Jobs \subseteq IDs
      /\ None \notin IDs
      /\ item # None => item \in IDs
      /\ round # "none" => item \in IDs
  BY ItemsAssumption DEF JobTyped, ItemOK
<1>e. ASSUME NEW j \in Jobs, Begin(j)
      PROVE  /\ job' = j /\ job = None /\ jobPc = "idle" /\ pc[j] = "idle"
             /\ UNCHANGED <<at, disk, tmp, fetchVars, itemVars, copied, stored>>
             /\ \/ jobPc' = "create" /\ pc' = [pc EXCEPT ![j] = "mkdir"] /\ disk[j] = "none"
                \/ /\ jobPc' = "report" /\ pc' = [pc EXCEPT ![j] = "idle"]
                   /\ outcome' \in {"ok", "blank", "failed"}
                   /\ outcome' = "failed" <=> disk[j] = "none"
  BY <1>e, BeginEffect
<1>f. ASSUME NEW s \in Servers, Serve(s)
      PROVE  /\ UNCHANGED <<disk, tmp, fetchVars, jobVars>>
             /\ \A id \in IDs : pc'[id] = pc[id]
  BY <1>f, ServeEffect
<1>g. ASSUME StartDownload \/ Downloads
      PROVE  /\ item \in IDs /\ round \in {"missing", "download"} /\ round' = "download"
             /\ UNCHANGED <<at, job, jobPc, todo, item, copied, outcome, stored>>
             /\ \A p \in Procs : p # item => pc'[p] = pc[p]
             /\ \A d \in IDs : d # item => fetch'[d] = fetch[d]
             /\ FetchAt(item)' /\ pc'[item] # "reading"
  BY <1>g, ItemDownloads
<1> USE <1>c, <1>d DEF JobTyped, RolesOK, TypeOK, OutputOK, ItemOK, transferVars, vars,
        fetchVars, jobVars, itemVars
<1>1. ASSUME NEW j \in Jobs, Begin(j)
      PROVE  OutputOK'
  BY <1>1, <1>e
<1>2. ASSUME MakeOutput
      PROVE  OutputOK'
  BY <1>2 DEF MakeOutput, CreateDir, CreateDirFails, WriteUnlock, Return, Goto
<1>3. ASSUME NEW i \in IDs, LookUp(i)
      PROVE  OutputOK'
  BY <1>3 DEF LookUp, GetLock, Call, Goto
<1>4. ASSUME Stat
      PROVE  OutputOK'
  BY <1>4 DEF Stat, GetStat, Goto
<1>5. ASSUME Missed
      PROVE  OutputOK'
  BY <1>5 DEF Missed, GetMiss, ReadUnlock, Return, Goto
<1>6. ASSUME StartDownload
      PROVE  OutputOK'
  BY <1>6, <1>g
<1>7. ASSUME Downloads
      PROVE  OutputOK'
  BY <1>7, <1>g
<1>8. ASSUME DownloadFailed
      PROVE  OutputOK'
  BY <1>8 DEF DownloadFailed, Fails, Drops
<1>9. ASSUME FoundDep
      PROVE  OutputOK'
  BY <1>9 DEF FoundDep
<1>10. ASSUME DepsReady
      PROVE  OutputOK'
  BY <1>10 DEF DepsReady, JobGoes, Fails, Drops
<1>11. ASSUME CopyFile
      PROVE  OutputOK'
  BY <1>11 DEF CopyFile, Unlock, ReadUnlock, Goto, Fails, Drops
<1>12. ASSUME FilesReady
      PROVE  OutputOK'
  BY <1>12 DEF FilesReady, JobGoes
<1>13. ASSUME RunCommands
      PROVE  OutputOK'
  BY <1>13 DEF RunCommands, JobGoes, Fill, FillOver, Goto
<1>14. ASSUME CommandFails
      PROVE  OutputOK'
  BY <1>14 DEF CommandFails, Fails, Drops
<1>15. ASSUME Commit
      PROVE  OutputOK'
  BY <1>15 DEF Commit, CommitRename, CommitFails, CommitUnlock, WriteUnlock, Return, Goto,
     Fails, Drops, storeJobResult
<1>16. ASSUME UnlockDep
      PROVE  OutputOK'
  BY <1>16 DEF UnlockDep, HeldDeps, Unlock, ReadUnlock, Goto
<1>17. ASSUME Unlocked
      PROVE  OutputOK'
  BY <1>17 DEF Unlocked, JobGoes, HeldDeps
<1>18. ASSUME Abort
      PROVE  OutputOK'
  BY <1>18 DEF Abort, AbortRemove, AbortRemoves, AbortRemoveFails, AbortUnlock, WriteUnlock,
     Return, Goto
<1>19. ASSUME LateUnlock
      PROVE  OutputOK'
  BY <1>19 DEF LateUnlock, JobGoes, WriteUnlock
<1>20. ASSUME Report
      PROVE  OutputOK'
  BY <1>20 DEF Report, JobGoes
<1>21. ASSUME NEW s \in Servers, Serve(s)
      PROVE  OutputOK'
  BY <1>21, <1>f
<1>22. ASSUME WorkerRestart
      PROVE  OutputOK'
  BY <1>22 DEF WorkerRestart, TransferRestart, Restart, Drops
<1>23. CASE UNCHANGED workerVars
  BY <1>23 DEF workerVars, transferVars, vars, fetchVars, jobVars, itemVars
<1> QED
  BY <1>1, <1>2, <1>3, <1>4, <1>5, <1>6, <1>7, <1>8, <1>9, <1>10, <1>11, <1>12, <1>13,
     <1>14, <1>15, <1>16, <1>17, <1>18, <1>19, <1>20, <1>21, <1>22, <1>23
  DEF WorkerNext, RunJob

(* The item at hand and its download keep step. *)
LEMMA ItemStep ==
  ASSUME TypeOK, FetchIn, JobTyped, RolesOK, OutputOK, DownloadOK, ItemOK, HeldOK,
         [WorkerNext]_workerVars
  PROVE  ItemOK' /\ DownloadOK'
<1>c. \/ jobPc = "idle"
      \/ job \in Jobs /\ job \in IDs /\ Deps[job] \subseteq IDs /\ Files[job] \subseteq IDs
  BY ItemsAssumption DEF OutputOK, JobTyped
<1>d. /\ Procs = IDs \cup Servers /\ Servers \cap IDs = {} /\ Downloaders = IDs /\ Jobs \subseteq IDs
      /\ None \notin IDs
      /\ item # None => item \in IDs
      /\ round # "none" => item \in IDs
  BY ItemsAssumption DEF JobTyped, ItemOK
<1>e. ASSUME NEW j \in Jobs, Begin(j)
      PROVE  /\ job' = j /\ job = None /\ jobPc = "idle" /\ pc[j] = "idle"
             /\ UNCHANGED <<at, disk, tmp, fetchVars, itemVars, copied, stored>>
             /\ \/ jobPc' = "create" /\ pc' = [pc EXCEPT ![j] = "mkdir"] /\ disk[j] = "none"
                \/ /\ jobPc' = "report" /\ pc' = [pc EXCEPT ![j] = "idle"]
                   /\ outcome' \in {"ok", "blank", "failed"}
                   /\ outcome' = "failed" <=> disk[j] = "none"
  BY <1>e, BeginEffect
<1>f. ASSUME NEW s \in Servers, Serve(s)
      PROVE  /\ UNCHANGED <<disk, tmp, fetchVars, jobVars>>
             /\ \A id \in IDs : pc'[id] = pc[id]
  BY <1>f, ServeEffect
<1>g. ASSUME StartDownload \/ Downloads
      PROVE  /\ item \in IDs /\ round \in {"missing", "download"} /\ round' = "download"
             /\ UNCHANGED <<at, job, jobPc, todo, item, copied, outcome, stored>>
             /\ \A p \in Procs : p # item => pc'[p] = pc[p]
             /\ \A d \in IDs : d # item => fetch'[d] = fetch[d]
             /\ FetchAt(item)' /\ pc'[item] # "reading"
  BY <1>g, ItemDownloads
<1> USE <1>c, <1>d DEF JobTyped, RolesOK, TypeOK, OutputOK, ItemOK, DownloadOK, FetchIn,
   FetchPcs, ReadPcs,  transferVars, vars,
        fetchVars, jobVars, itemVars
<1>1. ASSUME NEW j \in Jobs, Begin(j)
      PROVE  ItemOK' /\ DownloadOK'
  BY <1>1, <1>e
<1>2. ASSUME MakeOutput
      PROVE  ItemOK' /\ DownloadOK'
  BY <1>2 DEF MakeOutput, CreateDir, CreateDirFails, WriteUnlock, Return, Goto
<1>3. ASSUME NEW i \in IDs, LookUp(i)
      PROVE  ItemOK' /\ DownloadOK'
  BY <1>3 DEF LookUp, GetLock, Call, Goto
<1>4. ASSUME Stat
      PROVE  ItemOK' /\ DownloadOK'
  BY <1>4 DEF Stat, GetStat, Goto
<1>5. ASSUME Missed
      PROVE  ItemOK' /\ DownloadOK'
  BY <1>5 DEF Missed, GetMiss, ReadUnlock, Return, Goto
<1>6. ASSUME StartDownload
      PROVE  ItemOK' /\ DownloadOK'
  BY <1>6, <1>g DEF FetchAt
<1>7. ASSUME Downloads
      PROVE  ItemOK' /\ DownloadOK'
  BY <1>7, <1>g DEF FetchAt
<1>8. ASSUME DownloadFailed
      PROVE  ItemOK' /\ DownloadOK'
  BY <1>8 DEF DownloadFailed, Fails, Drops
<1>9. ASSUME FoundDep
      PROVE  ItemOK' /\ DownloadOK'
  BY <1>9 DEF FoundDep
<1>10. ASSUME DepsReady
      PROVE  ItemOK' /\ DownloadOK'
  BY <1>10 DEF DepsReady, JobGoes, Fails, Drops
<1>11. ASSUME CopyFile
      PROVE  ItemOK' /\ DownloadOK'
  BY <1>11 DEF CopyFile, Unlock, ReadUnlock, Goto, Fails, Drops
<1>12. ASSUME FilesReady
      PROVE  ItemOK' /\ DownloadOK'
  BY <1>12 DEF FilesReady, JobGoes
<1>13. ASSUME RunCommands
      PROVE  ItemOK' /\ DownloadOK'
  BY <1>13 DEF RunCommands, JobGoes, Fill, FillOver, Goto
<1>14. ASSUME CommandFails
      PROVE  ItemOK' /\ DownloadOK'
  BY <1>14 DEF CommandFails, Fails, Drops
<1>15. ASSUME Commit
      PROVE  ItemOK' /\ DownloadOK'
  BY <1>15 DEF Commit, CommitRename, CommitFails, CommitUnlock, WriteUnlock, Return, Goto,
     Fails, Drops, storeJobResult
<1>16. ASSUME UnlockDep
      PROVE  ItemOK' /\ DownloadOK'
  BY <1>16 DEF UnlockDep, HeldDeps, Unlock, ReadUnlock, Goto
<1>17. ASSUME Unlocked
      PROVE  ItemOK' /\ DownloadOK'
  BY <1>17 DEF Unlocked, JobGoes, HeldDeps
<1>18. ASSUME Abort
      PROVE  ItemOK' /\ DownloadOK'
  BY <1>18 DEF Abort, AbortRemove, AbortRemoves, AbortRemoveFails, AbortUnlock, WriteUnlock,
     Return, Goto
<1>19. ASSUME LateUnlock
      PROVE  ItemOK' /\ DownloadOK'
  BY <1>19 DEF LateUnlock, JobGoes, WriteUnlock
<1>20. ASSUME Report
      PROVE  ItemOK' /\ DownloadOK'
  BY <1>20 DEF Report, JobGoes
<1>21. ASSUME NEW s \in Servers, Serve(s)
      PROVE  ItemOK' /\ DownloadOK'
  BY <1>21, <1>f
<1>22. ASSUME WorkerRestart
      PROVE  ItemOK' /\ DownloadOK'
  BY <1>22 DEF WorkerRestart, TransferRestart, Restart, Drops
<1>23. CASE UNCHANGED workerVars
  BY <1>23 DEF workerVars, transferVars, vars, fetchVars, jobVars, itemVars
<1> QED
  BY <1>1, <1>2, <1>3, <1>4, <1>5, <1>6, <1>7, <1>8, <1>9, <1>10, <1>11, <1>12, <1>13,
     <1>14, <1>15, <1>16, <1>17, <1>18, <1>19, <1>20, <1>21, <1>22, <1>23
  DEF WorkerNext, RunJob

(* Whatever else is held is an artifact the job depends on.                  *)
LEMMA HeldStep ==
  ASSUME TypeOK, FetchIn, JobTyped, RolesOK, OutputOK, DownloadOK, ItemOK, HeldOK,
         [WorkerNext]_workerVars
  PROVE  HeldOK'
<1>c. \/ jobPc = "idle"
      \/ job \in Jobs /\ job \in IDs /\ Deps[job] \subseteq IDs /\ Files[job] \subseteq IDs
  BY ItemsAssumption DEF OutputOK, JobTyped
<1>d. /\ Procs = IDs \cup Servers /\ Servers \cap IDs = {} /\ Downloaders = IDs /\ Jobs \subseteq IDs
      /\ None \notin IDs
      /\ item # None => item \in IDs
      /\ round # "none" => item \in IDs
  BY ItemsAssumption DEF JobTyped, ItemOK
<1>e. ASSUME NEW j \in Jobs, Begin(j)
      PROVE  /\ job' = j /\ job = None /\ jobPc = "idle" /\ pc[j] = "idle"
             /\ UNCHANGED <<at, disk, tmp, fetchVars, itemVars, copied, stored>>
             /\ \/ jobPc' = "create" /\ pc' = [pc EXCEPT ![j] = "mkdir"] /\ disk[j] = "none"
                \/ /\ jobPc' = "report" /\ pc' = [pc EXCEPT ![j] = "idle"]
                   /\ outcome' \in {"ok", "blank", "failed"}
                   /\ outcome' = "failed" <=> disk[j] = "none"
  BY <1>e, BeginEffect
<1>f. ASSUME NEW s \in Servers, Serve(s)
      PROVE  /\ UNCHANGED <<disk, tmp, fetchVars, jobVars>>
             /\ \A id \in IDs : pc'[id] = pc[id]
  BY <1>f, ServeEffect
<1>g. ASSUME StartDownload \/ Downloads
      PROVE  /\ item \in IDs /\ round \in {"missing", "download"} /\ round' = "download"
             /\ UNCHANGED <<at, job, jobPc, todo, item, copied, outcome, stored>>
             /\ \A p \in Procs : p # item => pc'[p] = pc[p]
             /\ \A d \in IDs : d # item => fetch'[d] = fetch[d]
             /\ FetchAt(item)' /\ pc'[item] # "reading"
  BY <1>g, ItemDownloads
<1> USE <1>c, <1>d DEF JobTyped, RolesOK, TypeOK, OutputOK, ItemOK, DownloadOK, HeldOK,
    transferVars, vars,
        fetchVars, jobVars, itemVars
<1>1. ASSUME NEW j \in Jobs, Begin(j)
      PROVE  HeldOK'
  BY <1>1, <1>e
<1>2. ASSUME MakeOutput
      PROVE  HeldOK'
  BY <1>2 DEF MakeOutput, CreateDir, CreateDirFails, WriteUnlock, Return, Goto
<1>3. ASSUME NEW i \in IDs, LookUp(i)
      PROVE  HeldOK'
  BY <1>3 DEF LookUp, GetLock, Call, Goto
<1>4. ASSUME Stat
      PROVE  HeldOK'
  BY <1>4 DEF Stat, GetStat, Goto
<1>5. ASSUME Missed
      PROVE  HeldOK'
  BY <1>5 DEF Missed, GetMiss, ReadUnlock, Return, Goto
<1>6. ASSUME StartDownload
      PROVE  HeldOK'
  BY <1>6, <1>g
<1>7. ASSUME Downloads
      PROVE  HeldOK'
  BY <1>7, <1>g
<1>8. ASSUME DownloadFailed
      PROVE  HeldOK'
  BY <1>8 DEF DownloadFailed, Fails, Drops
<1>9. ASSUME FoundDep
      PROVE  HeldOK'
  BY <1>9 DEF FoundDep
<1>10. ASSUME DepsReady
      PROVE  HeldOK'
  BY <1>10 DEF DepsReady, JobGoes, Fails, Drops
<1>11. ASSUME CopyFile
      PROVE  HeldOK'
  BY <1>11 DEF CopyFile, Unlock, ReadUnlock, Goto, Fails, Drops
<1>12. ASSUME FilesReady
      PROVE  HeldOK'
  BY <1>12 DEF FilesReady, JobGoes
<1>13. ASSUME RunCommands
      PROVE  HeldOK'
  BY <1>13 DEF RunCommands, JobGoes, Fill, FillOver, Goto
<1>14. ASSUME CommandFails
      PROVE  HeldOK'
  BY <1>14 DEF CommandFails, Fails, Drops
<1>15. ASSUME Commit
      PROVE  HeldOK'
  BY <1>15 DEF Commit, CommitRename, CommitFails, CommitUnlock, WriteUnlock, Return, Goto,
     Fails, Drops, storeJobResult
<1>16. ASSUME UnlockDep
      PROVE  HeldOK'
  BY <1>16 DEF UnlockDep, HeldDeps, Unlock, ReadUnlock, Goto
<1>17. ASSUME Unlocked
      PROVE  HeldOK'
  BY <1>17 DEF Unlocked, JobGoes, HeldDeps
<1>18. ASSUME Abort
      PROVE  HeldOK'
  BY <1>18 DEF Abort, AbortRemove, AbortRemoves, AbortRemoveFails, AbortUnlock, WriteUnlock,
     Return, Goto
<1>19. ASSUME LateUnlock
      PROVE  HeldOK'
  BY <1>19 DEF LateUnlock, JobGoes, WriteUnlock
<1>20. ASSUME Report
      PROVE  HeldOK'
  BY <1>20 DEF Report, JobGoes
<1>21. ASSUME NEW s \in Servers, Serve(s)
      PROVE  HeldOK'
  BY <1>21, <1>f
<1>22. ASSUME WorkerRestart
      PROVE  HeldOK'
  BY <1>22 DEF WorkerRestart, TransferRestart, Restart, Drops
<1>23. CASE UNCHANGED workerVars
  BY <1>23 DEF workerVars, transferVars, vars, fetchVars, jobVars, itemVars
<1> QED
  BY <1>1, <1>2, <1>3, <1>4, <1>5, <1>6, <1>7, <1>8, <1>9, <1>10, <1>11, <1>12, <1>13,
     <1>14, <1>15, <1>16, <1>17, <1>18, <1>19, <1>20, <1>21, <1>22, <1>23
  DEF WorkerNext, RunJob

-----------------------------------------------------------------------------
(* WorkerInit sets up the cache as ArtifactCache does, and nothing runs.      *)
LEMMA LocksInit == WorkerInit => LocksInv
<1> SUFFICES ASSUME WorkerInit
             PROVE  LocksInv
  OBVIOUS
<1>1. IInv
  BY InitIInv DEF WorkerInit, TransferInit
<1>2. FetchIn /\ JobTyped /\ OutputOK /\ DownloadOK /\ ItemOK
  BY ItemsAssumption
  DEF WorkerInit, TransferInit, FetchIn, FetchPcs, JobTyped, OutputOK, DownloadOK, ItemOK
<1>3. RolesOK /\ HeldOK
  BY ItemsAssumption DEF WorkerInit, TransferInit, Init, RolesOK, HeldOK
<1> QED
  BY <1>1, <1>2, <1>3 DEF LocksInv, IInv

LEMMA LocksInvStep ==
  ASSUME LocksInv, [WorkerNext]_workerVars
  PROVE  LocksInv'
<1>1. /\ TypeOK /\ LocksAreHeld /\ FetchIn /\ JobTyped
      /\ RolesOK /\ OutputOK /\ DownloadOK /\ ItemOK /\ HeldOK
  BY DEF LocksInv
<1>2. TypeOK' /\ LocksAreHeld'
  <2>1. [Next]_vars \/ (\E d \in IDs : ReceivesLess(d)) \/ Settles
    BY <1>1, WorkerUsesCache
  <2> QED
    BY <1>1, <2>1, CacheStep
<1>3. JobTyped' /\ FetchIn' /\ RolesOK'
  BY <1>1, JobTypedStep
<1>4. OutputOK' /\ ItemOK' /\ DownloadOK' /\ HeldOK'
  BY <1>1, OutputStep, ItemStep, HeldStep
<1> QED
  BY <1>2, <1>3, <1>4 DEF LocksInv

(* The invariant of the locks: what each hold of the job is doing at each     *)
(* step of runJob, ensureArtifacts, ensureSourceFiles and Download.          *)
THEOREM WorkerLocksInvariance == WorkerSpec => []LocksInv
<1>1. LocksInv /\ [WorkerNext]_workerVars => LocksInv'
  BY LocksInvStep
<1> QED
  BY LocksInit, <1>1, PTL DEF WorkerSpec

(* When no job runs, whatever failed in the jobs before and whatever other    *)
(* workers sent, no write lock is left, and no read lock but the servers'.    *)
THEOREM LocksAreGivenBack == WorkerSpec => []LocksEndWithTheJob
<1>1. LocksInv => LocksEndWithTheJob
  <2> SUFFICES ASSUME LocksInv, job = None, NEW id \in IDs
               PROVE  /\ writeLocked = {}
                      /\ readLocked[id] = Cardinality({s \in Servers : s \in Readers(id)})
    BY DEF LocksEndWithTheJob, LocksInv, TypeOK
  <2> USE DEF LocksInv
  <2>1. \A i \in IDs : pc[i] = "idle"
    <3>1. jobPc = "idle" /\ item = None
      BY DEF OutputOK, ItemOK
    <3> QED
      BY <3>1, ItemsAssumption DEF HeldOK
  <2>2. \A i \in IDs : i \notin writeLocked
    BY <2>1, IdleIsUnlocked DEF WritePcs
  <2>3. writeLocked = {}
    BY <2>2 DEF TypeOK
  <2>4. Readers(id) = {s \in Servers : s \in Readers(id)}
    BY <2>1, ItemsAssumption DEF Readers, ReadPcs
  <2>5. readLocked[id] = Cardinality(Readers(id))
    BY DEF LocksAreHeld
  <2> QED
    BY <2>3, <2>4, <2>5
<1> QED
  BY <1>1, WorkerLocksInvariance, PTL

-----------------------------------------------------------------------------
(* What the job finds in the cache. *)

ContentInv ==
  /\ LocksInv /\ IInv /\ FetchTyped /\ CleanIsComplete
  /\ DiskOK /\ ResultOK /\ InputsOK

(* Nothing gets into the cache but by a Rename of what its writer has filled. *)
LEMMA CreateDisk ==
  ASSUME TypeOK, WritersFill, NEW p \in Procs, Create(p)
  PROVE  \/ disk' = disk
         \/ /\ tmp[at[p]] \in {"whole", "mixed"}
            /\ disk' = [disk EXCEPT ![at[p]] = tmp[at[p]]]
BY DEF Create, CreateLock, WriteLock, CreateDir, CreateDirFails, Fill, FillOver, CommitRename,
   CommitFails, CommitUnlock, AbortRemove, AbortRemoves, AbortRemoveFails, AbortUnlock, WritersFill

(* A download that would be mixed with leftovers is that of an artifact.      *)
LEMMA DownloadTmp ==
  ASSUME TypeOK, NEW d \in Procs, NEW id \in IDs, tmp[id] # "mixed",
         d \notin Patient \/ id # at[d],
         DownloadStep(d) \/ \E i \in IDs : Download(d, i)
  PROVE  tmp'[id] # "mixed"
<1>1. ASSUME NEW i \in IDs, NEW from, Try(d, i, from)
      PROVE  tmp' = tmp
  BY <1>1 DEF Try, CreateLock, WriteLock
<1>2. CASE Retry(d) \/ \E i \in IDs : Download(d, i)
  BY <1>1, <1>2 DEF Retry, Download, TypeOK
<1>3. CASE GiveUp(d) \/ Served(d) \/ Sends(d) \/ SendEnds(d) \/ SendBreaks(d)
  BY <1>3 DEF GiveUp, Served, Sends, SendEnds, SendBreaks, vars
<1>4. CASE MakeDir(d)
  BY <1>4 DEF MakeDir, CreateDir, CreateDirFails, TypeOK
<1>5. CASE Refused(d) \/ ReceiveFails(d)
  BY <1>5 DEF Refused, ReceiveFails, AbortRemove, AbortRemoves, AbortRemoveFails, TypeOK
<1>6. CASE Received(d)
  BY <1>6 DEF Received, Fill, FillOver, TypeOK
<1>7. CASE Ends(d)
  BY <1>7 DEF Ends, CommitRename, CommitFails, CommitUnlock, AbortUnlock, TypeOK
<1> QED
  BY <1>2, <1>3, <1>4, <1>5, <1>6, <1>7 DEF DownloadStep

LEMMA DownloadDisk ==
  ASSUME LocksInv, WritersFill, StartDownload \/ Downloads
  PROVE  /\ \/ disk' = disk
            \/ /\ tmp[item] \in {"whole", "mixed"}
               /\ disk' = [disk EXCEPT ![item] = tmp[item]]
         /\ \A id \in IDs \ Patient : tmp[id] # "mixed" => tmp'[id] # "mixed"
<1>1. item \in IDs /\ item \in Procs /\ item \in Downloaders /\ at[item] = item
  BY ItemsAssumption, ItemDownloads DEF LocksInv, RolesOK
<1>2. DownloadStep(item) \/ \E id \in IDs : Download(item, id)
  BY <1>1 DEF StartDownload, Downloads
<1>3. Create(item) \/ disk' = disk
  BY <1>1, <1>2, DownloadCreates DEF LocksInv, vars, ReceivesLess
<1>4. \A id \in IDs \ Patient : tmp[id] # "mixed" => tmp'[id] # "mixed"
  BY <1>1, <1>2, DownloadTmp DEF LocksInv
<1> QED
  BY <1>1, <1>3, <1>4, CreateDisk DEF LocksInv

(* Downloads are what CacheProofs says they are. *)
LEMMA WorkerFetches ==
  ASSUME SenderReads, LocksInv, FetchTyped, CleanIsComplete, [WorkerNext]_workerVars
  PROVE  FetchTyped' /\ CleanIsComplete'
<1>a. ASSUME StartDownload \/ Downloads
      PROVE  FetchTyped' /\ CleanIsComplete'
  <2>1. item \in IDs /\ item \in Downloaders
    BY <1>a, ItemsAssumption, ItemDownloads DEF LocksInv
  <2>2. DownloadStep(item) \/ \E id \in IDs : Download(item, id)
    BY <1>a, <2>1 DEF StartDownload, Downloads
  <2> QED
    BY <2>1, <2>2, DownloadTyped
<1>b. CASE TransferRestart
  BY <1>b, EntriesAssumption DEF TransferRestart, FetchTyped, CleanIsComplete
<1>c. CASE UNCHANGED fetchVars
  BY <1>c DEF fetchVars, FetchTyped, CleanIsComplete
<1>d. CASE UNCHANGED transferVars
  BY <1>c, <1>d DEF transferVars
<1>1. ASSUME NEW j \in Jobs, Begin(j)
      PROVE  FetchTyped' /\ CleanIsComplete'
  BY <1>1, <1>c, <1>d DEF Begin
<1>2. ASSUME MakeOutput
      PROVE  FetchTyped' /\ CleanIsComplete'
  BY <1>2, <1>c, <1>d DEF MakeOutput
<1>3. ASSUME NEW i \in IDs, LookUp(i)
      PROVE  FetchTyped' /\ CleanIsComplete'
  BY <1>3, <1>c, <1>d DEF LookUp
<1>4. ASSUME Stat
      PROVE  FetchTyped' /\ CleanIsComplete'
  BY <1>4, <1>c, <1>d DEF Stat
<1>5. ASSUME Missed
      PROVE  FetchTyped' /\ CleanIsComplete'
  BY <1>5, <1>c, <1>d DEF Missed
<1>6. ASSUME StartDownload
      PROVE  FetchTyped' /\ CleanIsComplete'
  BY <1>6, <1>a
<1>7. ASSUME Downloads
      PROVE  FetchTyped' /\ CleanIsComplete'
  BY <1>7, <1>a
<1>8. ASSUME DownloadFailed
      PROVE  FetchTyped' /\ CleanIsComplete'
  BY <1>8, <1>c, <1>d DEF DownloadFailed
<1>9. ASSUME FoundDep
      PROVE  FetchTyped' /\ CleanIsComplete'
  BY <1>9, <1>c, <1>d DEF FoundDep
<1>10. ASSUME DepsReady
      PROVE  FetchTyped' /\ CleanIsComplete'
  BY <1>10, <1>c, <1>d DEF DepsReady
<1>11. ASSUME CopyFile
      PROVE  FetchTyped' /\ CleanIsComplete'
  BY <1>11, <1>c, <1>d DEF CopyFile
<1>12. ASSUME FilesReady
      PROVE  FetchTyped' /\ CleanIsComplete'
  BY <1>12, <1>c, <1>d DEF FilesReady
<1>13. ASSUME RunCommands
      PROVE  FetchTyped' /\ CleanIsComplete'
  BY <1>13, <1>c, <1>d DEF RunCommands
<1>14. ASSUME CommandFails
      PROVE  FetchTyped' /\ CleanIsComplete'
  BY <1>14, <1>c, <1>d DEF CommandFails
<1>15. ASSUME Commit
      PROVE  FetchTyped' /\ CleanIsComplete'
  BY <1>15, <1>c, <1>d DEF Commit
<1>16. ASSUME UnlockDep
      PROVE  FetchTyped' /\ CleanIsComplete'
  BY <1>16, <1>c, <1>d DEF UnlockDep
<1>17. ASSUME Unlocked
      PROVE  FetchTyped' /\ CleanIsComplete'
  BY <1>17, <1>c, <1>d DEF Unlocked
<1>18. ASSUME Abort
      PROVE  FetchTyped' /\ CleanIsComplete'
  BY <1>18, <1>c, <1>d DEF Abort
<1>19. ASSUME LateUnlock
      PROVE  FetchTyped' /\ CleanIsComplete'
  BY <1>19, <1>c, <1>d DEF LateUnlock
<1>20. ASSUME Report
      PROVE  FetchTyped' /\ CleanIsComplete'
  BY <1>20, ItemsAssumption DEF Report, FetchTyped, CleanIsComplete
<1>21. ASSUME NEW s \in Servers, Serve(s)
      PROVE  FetchTyped' /\ CleanIsComplete'
  BY <1>21, <1>c, <1>d DEF Serve
<1>22. ASSUME WorkerRestart
      PROVE  FetchTyped' /\ CleanIsComplete'
  BY <1>22, <1>b DEF WorkerRestart
<1>23. CASE UNCHANGED workerVars
  BY <1>23, <1>d DEF workerVars
<1> QED
  BY <1>1, <1>2, <1>3, <1>4, <1>5, <1>6, <1>7, <1>8, <1>9, <1>10, <1>11, <1>12, <1>13,
     <1>14, <1>15, <1>16, <1>17, <1>18, <1>19, <1>20, <1>21, <1>22, <1>23
  DEF WorkerNext, RunJob

(* The cache keeps its promises: a commit that failed late harms nobody.     *)
LEMMA WorkerCache ==
  ASSUME LocksInv, IInv, CleanIsComplete, [WorkerNext]_workerVars
  PROVE  IInv'
<1>1. [Next]_vars \/ Settles
  BY WorkerUsesCache, ItemsAssumption DEF LocksInv, CleanIsComplete
<1>2. CASE [Next]_vars
  BY <1>2, IInvStep
<1>3. CASE Settles
  <2>1. TypeOK' /\ LocksAreHeld'
    BY <1>3, CacheStep DEF LocksInv
  <2>2. /\ UNCHANGED <<disk, pc, at>>
        /\ halfRemoved \subseteq halfRemoved' /\ leftovers \subseteq leftovers'
    BY <1>3 DEF Settles, RemovesLate, Forgets, pastVars
  <2>3. \A id \in IDs : Holders(id)' = Holders(id)
    BY <2>2 DEF Holders
  <2>4. CommittedIsWhole' /\ ReaderSeesWholeArtifact'
    BY <2>2, <2>3 DEF IInv, CommittedIsWhole, WholeOrFlawed, Flawed, ReaderSeesWholeArtifact
  <2>5. CASE Forgets
    BY <2>1, <2>2, <2>3, <2>4, <2>5 DEF Forgets, pastVars, IInv, WritersFill, TmpHasAWriter
  <2>6. CASE RemovesLate
    <3>1. Holders(job) = {} /\ job \in IDs
      BY <2>6, IdleIsUnlocked DEF RemovesLate, LocksInv, WritePcs
    <3>2. WritersFill'
      BY <2>2, <2>6, <3>1 DEF RemovesLate, IInv, WritersFill, TypeOK, Holders, WritePcs
    <3>3. TmpHasAWriter'
      BY <2>2, <2>3, <2>6, <3>1 DEF RemovesLate, IInv, TmpHasAWriter, TypeOK
    <3> QED
      BY <2>1, <2>4, <3>2, <3>3 DEF IInv
  <2> QED
    BY <1>3, <2>5, <2>6 DEF Settles
<1> QED
  BY <1>1, <1>2, <1>3

(* Only finished artifacts get into the cache, and they stay.                *)
LEMMA DiskOKStep ==
  ASSUME ContentInv, [WorkerNext]_workerVars
  PROVE  DiskOK'
<1>b. /\ TypeOK /\ JobTyped /\ RolesOK /\ OutputOK /\ DownloadOK /\ ItemOK /\ FetchIn
      /\ DiskOK /\ ResultOK /\ InputsOK /\ WritersFill
  BY DEF ContentInv, LocksInv, IInv
<1>c. \/ jobPc = "idle"
      \/ job \in Jobs /\ job \in IDs /\ Deps[job] \subseteq IDs /\ Files[job] \subseteq IDs
  BY <1>b, ItemsAssumption DEF OutputOK, JobTyped
<1>d. /\ Procs = IDs \cup Servers /\ Servers \cap IDs = {} /\ Downloaders = IDs /\ Jobs \subseteq IDs
      /\ None \notin IDs
      /\ item # None => item \in IDs
      /\ round # "none" => item \in IDs
  BY <1>b, ItemsAssumption DEF JobTyped, ItemOK
<1>e. ASSUME NEW j \in Jobs, Begin(j)
      PROVE  /\ job' = j /\ job = None /\ jobPc = "idle" /\ pc[j] = "idle"
             /\ UNCHANGED <<at, disk, tmp, fetchVars, itemVars, copied, stored>>
             /\ \/ jobPc' = "create" /\ pc' = [pc EXCEPT ![j] = "mkdir"] /\ disk[j] = "none"
                \/ /\ jobPc' = "report" /\ pc' = [pc EXCEPT ![j] = "idle"]
                   /\ outcome' \in {"ok", "blank", "failed"}
                   /\ outcome' = "failed" <=> disk[j] = "none"
  BY <1>b, <1>e, BeginEffect
<1>f. ASSUME NEW s \in Servers, Serve(s)
      PROVE  /\ UNCHANGED <<disk, tmp, fetchVars, jobVars>>
             /\ \A id \in IDs : pc'[id] = pc[id]
             /\ \A p \in Procs : pc'[p] = "reading" =>
                  at'[p] = at[p] /\ (pc[p] = "reading" \/ disk[at[p]] # "none")
  BY <1>b, <1>f, ServeEffect
<1>g. ASSUME StartDownload \/ Downloads
      PROVE  /\ item \in IDs /\ round \in {"missing", "download"} /\ item # job
             /\ jobPc \in {"deps", "files"} /\ item \in todo
             /\ UNCHANGED <<at, job, jobPc, todo, item, copied, outcome, stored>>
             /\ \A p \in Procs : p # item => pc'[p] = pc[p]
             /\ pc'[item] # "reading"
             /\ \/ disk' = disk
                \/ /\ tmp[item] \in {"whole", "mixed"}
                   /\ disk' = [disk EXCEPT ![item] = tmp[item]]
             /\ \A id \in IDs \ Patient : tmp[id] # "mixed" => tmp'[id] # "mixed"
  BY <1>b, <1>d, <1>g, ItemDownloads, DownloadDisk DEF ContentInv, ItemOK
<1>h. \A p \in Procs : at[p] \in IDs
  BY <1>b DEF TypeOK
<1> USE <1>b, <1>c, <1>d, <1>h DEF JobTyped, RolesOK, TypeOK, OutputOK, transferVars, vars,
        fetchVars, jobVars, itemVars
<1> USE DEF DiskOK, ItemOK
<1>1. ASSUME NEW j \in Jobs, Begin(j)
      PROVE  DiskOK'
  BY <1>1, <1>e
<1>2. ASSUME MakeOutput
      PROVE  DiskOK'
  BY <1>2 DEF MakeOutput, CreateDir, CreateDirFails, WriteUnlock, Return, Goto
<1>3. ASSUME NEW i \in IDs, LookUp(i)
      PROVE  DiskOK'
  BY <1>3 DEF LookUp, GetLock, Call, Goto
<1>4. ASSUME Stat
      PROVE  DiskOK'
  BY <1>4 DEF Stat, GetStat, Goto
<1>5. ASSUME Missed
      PROVE  DiskOK'
  BY <1>5 DEF Missed, GetMiss, ReadUnlock, Return, Goto
<1>6. ASSUME StartDownload
      PROVE  DiskOK'
  BY <1>6, <1>g
<1>7. ASSUME Downloads
      PROVE  DiskOK'
  BY <1>7, <1>g
<1>8. ASSUME DownloadFailed
      PROVE  DiskOK'
  BY <1>8 DEF DownloadFailed, Fails, Drops
<1>9. ASSUME FoundDep
      PROVE  DiskOK'
  BY <1>9 DEF FoundDep
<1>10. ASSUME DepsReady
      PROVE  DiskOK'
  BY <1>10 DEF DepsReady, JobGoes, Fails, Drops
<1>11. ASSUME CopyFile
      PROVE  DiskOK'
  BY <1>11 DEF CopyFile, Unlock, ReadUnlock, Goto, Fails, Drops
<1>12. ASSUME FilesReady
      PROVE  DiskOK'
  BY <1>12 DEF FilesReady, JobGoes
<1>13. ASSUME RunCommands
      PROVE  DiskOK'
  BY <1>13 DEF RunCommands, JobGoes, Fill, FillOver, Goto
<1>14. ASSUME CommandFails
      PROVE  DiskOK'
  BY <1>14 DEF CommandFails, Fails, Drops
<1>15. ASSUME Commit
      PROVE  DiskOK'
  BY <1>15 DEF Commit, CommitRename, CommitFails, CommitUnlock, WriteUnlock, Return, Goto,
     Fails, Drops, storeJobResult, WritersFill
<1>16. ASSUME UnlockDep
      PROVE  DiskOK'
  BY <1>16 DEF UnlockDep, HeldDeps, Unlock, ReadUnlock, Goto
<1>17. ASSUME Unlocked
      PROVE  DiskOK'
  BY <1>17 DEF Unlocked, JobGoes, HeldDeps
<1>18. ASSUME Abort
      PROVE  DiskOK'
  BY <1>18 DEF Abort, AbortRemove, AbortRemoves, AbortRemoveFails, AbortUnlock, WriteUnlock,
     Return, Goto
<1>19. ASSUME LateUnlock
      PROVE  DiskOK'
  BY <1>19 DEF LateUnlock, JobGoes, WriteUnlock
<1>20. ASSUME Report
      PROVE  DiskOK'
  BY <1>20 DEF Report, JobGoes
<1>21. ASSUME NEW s \in Servers, Serve(s)
      PROVE  DiskOK'
  BY <1>21, <1>f
<1>22. ASSUME WorkerRestart
      PROVE  DiskOK'
  BY <1>22 DEF WorkerRestart, TransferRestart, Restart, Drops, NewCache
<1>23. CASE UNCHANGED workerVars
  BY <1>23 DEF workerVars, transferVars, vars, fetchVars, jobVars, itemVars
<1> QED
  BY <1>1, <1>2, <1>3, <1>4, <1>5, <1>6, <1>7, <1>8, <1>9, <1>10, <1>11, <1>12, <1>13,
     <1>14, <1>15, <1>16, <1>17, <1>18, <1>19, <1>20, <1>21, <1>22, <1>23
  DEF WorkerNext, RunJob

(* A job succeeds with its output in the cache, and fails without it.        *)
LEMMA ResultStep ==
  ASSUME ContentInv, [WorkerNext]_workerVars
  PROVE  ResultOK'
<1>b. /\ TypeOK /\ JobTyped /\ RolesOK /\ OutputOK /\ DownloadOK /\ ItemOK /\ FetchIn
      /\ DiskOK /\ ResultOK /\ InputsOK /\ WritersFill
  BY DEF ContentInv, LocksInv, IInv
<1>c. \/ jobPc = "idle"
      \/ job \in Jobs /\ job \in IDs /\ Deps[job] \subseteq IDs /\ Files[job] \subseteq IDs
  BY <1>b, ItemsAssumption DEF OutputOK, JobTyped
<1>d. /\ Procs = IDs \cup Servers /\ Servers \cap IDs = {} /\ Downloaders = IDs /\ Jobs \subseteq IDs
      /\ None \notin IDs
      /\ item # None => item \in IDs
      /\ round # "none" => item \in IDs
  BY <1>b, ItemsAssumption DEF JobTyped, ItemOK
<1>e. ASSUME NEW j \in Jobs, Begin(j)
      PROVE  /\ job' = j /\ job = None /\ jobPc = "idle" /\ pc[j] = "idle"
             /\ UNCHANGED <<at, disk, tmp, fetchVars, itemVars, copied, stored>>
             /\ \/ jobPc' = "create" /\ pc' = [pc EXCEPT ![j] = "mkdir"] /\ disk[j] = "none"
                \/ /\ jobPc' = "report" /\ pc' = [pc EXCEPT ![j] = "idle"]
                   /\ outcome' \in {"ok", "blank", "failed"}
                   /\ outcome' = "failed" <=> disk[j] = "none"
  BY <1>b, <1>e, BeginEffect
<1>f. ASSUME NEW s \in Servers, Serve(s)
      PROVE  /\ UNCHANGED <<disk, tmp, fetchVars, jobVars>>
             /\ \A id \in IDs : pc'[id] = pc[id]
             /\ \A p \in Procs : pc'[p] = "reading" =>
                  at'[p] = at[p] /\ (pc[p] = "reading" \/ disk[at[p]] # "none")
  BY <1>b, <1>f, ServeEffect
<1>g. ASSUME StartDownload \/ Downloads
      PROVE  /\ item \in IDs /\ round \in {"missing", "download"} /\ item # job
             /\ jobPc \in {"deps", "files"} /\ item \in todo
             /\ UNCHANGED <<at, job, jobPc, todo, item, copied, outcome, stored>>
             /\ \A p \in Procs : p # item => pc'[p] = pc[p]
             /\ pc'[item] # "reading"
             /\ \/ disk' = disk
                \/ /\ tmp[item] \in {"whole", "mixed"}
                   /\ disk' = [disk EXCEPT ![item] = tmp[item]]
             /\ \A id \in IDs \ Patient : tmp[id] # "mixed" => tmp'[id] # "mixed"
  BY <1>b, <1>d, <1>g, ItemDownloads, DownloadDisk DEF ContentInv, ItemOK
<1>h. \A p \in Procs : at[p] \in IDs
  BY <1>b DEF TypeOK
<1> USE <1>b, <1>c, <1>d, <1>h DEF JobTyped, RolesOK, TypeOK, OutputOK, transferVars, vars,
        fetchVars, jobVars, itemVars
<1> USE DEF ResultOK, ItemOK
<1>1. ASSUME NEW j \in Jobs, Begin(j)
      PROVE  ResultOK'
  BY <1>1, <1>e DEF DiskOK
<1>2. ASSUME MakeOutput
      PROVE  ResultOK'
  BY <1>2 DEF MakeOutput, CreateDir, CreateDirFails, WriteUnlock, Return, Goto
<1>3. ASSUME NEW i \in IDs, LookUp(i)
      PROVE  ResultOK'
  BY <1>3 DEF LookUp, GetLock, Call, Goto
<1>4. ASSUME Stat
      PROVE  ResultOK'
  BY <1>4 DEF Stat, GetStat, Goto
<1>5. ASSUME Missed
      PROVE  ResultOK'
  BY <1>5 DEF Missed, GetMiss, ReadUnlock, Return, Goto
<1>6. ASSUME StartDownload
      PROVE  ResultOK'
  BY <1>6, <1>g
<1>7. ASSUME Downloads
      PROVE  ResultOK'
  BY <1>7, <1>g
<1>8. ASSUME DownloadFailed
      PROVE  ResultOK'
  BY <1>8 DEF DownloadFailed, Fails, Drops
<1>9. ASSUME FoundDep
      PROVE  ResultOK'
  BY <1>9 DEF FoundDep
<1>10. ASSUME DepsReady
      PROVE  ResultOK'
  BY <1>10 DEF DepsReady, JobGoes, Fails, Drops
<1>11. ASSUME CopyFile
      PROVE  ResultOK'
  BY <1>11 DEF CopyFile, Unlock, ReadUnlock, Goto, Fails, Drops
<1>12. ASSUME FilesReady
      PROVE  ResultOK'
  BY <1>12 DEF FilesReady, JobGoes
<1>13. ASSUME RunCommands
      PROVE  ResultOK'
  BY <1>13 DEF RunCommands, JobGoes, Fill, FillOver, Goto
<1>14. ASSUME CommandFails
      PROVE  ResultOK'
  BY <1>14 DEF CommandFails, Fails, Drops
<1>15. ASSUME Commit
      PROVE  ResultOK'
  BY <1>15 DEF Commit, CommitRename, CommitFails, CommitUnlock, WriteUnlock, Return, Goto,
     Fails, Drops, storeJobResult, WritersFill
<1>16. ASSUME UnlockDep
      PROVE  ResultOK'
  BY <1>16 DEF UnlockDep, HeldDeps, Unlock, ReadUnlock, Goto
<1>17. ASSUME Unlocked
      PROVE  ResultOK'
  BY <1>17 DEF Unlocked, JobGoes, HeldDeps
<1>18. ASSUME Abort
      PROVE  ResultOK'
  BY <1>18 DEF Abort, AbortRemove, AbortRemoves, AbortRemoveFails, AbortUnlock, WriteUnlock,
     Return, Goto
<1>19. ASSUME LateUnlock
      PROVE  ResultOK'
  BY <1>19 DEF LateUnlock, JobGoes, WriteUnlock
<1>20. ASSUME Report
      PROVE  ResultOK'
  BY <1>20 DEF Report, JobGoes
<1>21. ASSUME NEW s \in Servers, Serve(s)
      PROVE  ResultOK'
  BY <1>21, <1>f
<1>22. ASSUME WorkerRestart
      PROVE  ResultOK'
  BY <1>22 DEF WorkerRestart, TransferRestart, Restart, Drops
<1>23. CASE UNCHANGED workerVars
  BY <1>23 DEF workerVars, transferVars, vars, fetchVars, jobVars, itemVars
<1> QED
  BY <1>1, <1>2, <1>3, <1>4, <1>5, <1>6, <1>7, <1>8, <1>9, <1>10, <1>11, <1>12, <1>13,
     <1>14, <1>15, <1>16, <1>17, <1>18, <1>19, <1>20, <1>21, <1>22, <1>23
  DEF WorkerNext, RunJob

(* What has been fetched is held until the job ends, or has been copied.     *)
LEMMA InputsStep ==
  ASSUME ContentInv, [WorkerNext]_workerVars
  PROVE  InputsOK'
<1>b. /\ TypeOK /\ JobTyped /\ RolesOK /\ OutputOK /\ DownloadOK /\ ItemOK /\ FetchIn
      /\ DiskOK /\ ResultOK /\ InputsOK /\ WritersFill
  BY DEF ContentInv, LocksInv, IInv
<1>c. \/ jobPc = "idle"
      \/ job \in Jobs /\ job \in IDs /\ Deps[job] \subseteq IDs /\ Files[job] \subseteq IDs
  BY <1>b, ItemsAssumption DEF OutputOK, JobTyped
<1>d. /\ Procs = IDs \cup Servers /\ Servers \cap IDs = {} /\ Downloaders = IDs /\ Jobs \subseteq IDs
      /\ None \notin IDs
      /\ item # None => item \in IDs
      /\ round # "none" => item \in IDs
  BY <1>b, ItemsAssumption DEF JobTyped, ItemOK
<1>e. ASSUME NEW j \in Jobs, Begin(j)
      PROVE  /\ job' = j /\ job = None /\ jobPc = "idle" /\ pc[j] = "idle"
             /\ UNCHANGED <<at, disk, tmp, fetchVars, itemVars, copied, stored>>
             /\ \/ jobPc' = "create" /\ pc' = [pc EXCEPT ![j] = "mkdir"] /\ disk[j] = "none"
                \/ /\ jobPc' = "report" /\ pc' = [pc EXCEPT ![j] = "idle"]
                   /\ outcome' \in {"ok", "blank", "failed"}
                   /\ outcome' = "failed" <=> disk[j] = "none"
  BY <1>b, <1>e, BeginEffect
<1>f. ASSUME NEW s \in Servers, Serve(s)
      PROVE  /\ UNCHANGED <<disk, tmp, fetchVars, jobVars>>
             /\ \A id \in IDs : pc'[id] = pc[id]
             /\ \A p \in Procs : pc'[p] = "reading" =>
                  at'[p] = at[p] /\ (pc[p] = "reading" \/ disk[at[p]] # "none")
  BY <1>b, <1>f, ServeEffect
<1>g. ASSUME StartDownload \/ Downloads
      PROVE  /\ item \in IDs /\ round \in {"missing", "download"} /\ item # job
             /\ jobPc \in {"deps", "files"} /\ item \in todo
             /\ UNCHANGED <<at, job, jobPc, todo, item, copied, outcome, stored>>
             /\ \A p \in Procs : p # item => pc'[p] = pc[p]
             /\ pc'[item] # "reading"
             /\ \/ disk' = disk
                \/ /\ tmp[item] \in {"whole", "mixed"}
                   /\ disk' = [disk EXCEPT ![item] = tmp[item]]
             /\ \A id \in IDs \ Patient : tmp[id] # "mixed" => tmp'[id] # "mixed"
  BY <1>b, <1>d, <1>g, ItemDownloads, DownloadDisk DEF ContentInv, ItemOK
<1>h. \A p \in Procs : at[p] \in IDs
  BY <1>b DEF TypeOK
<1> USE <1>b, <1>c, <1>d, <1>h DEF JobTyped, RolesOK, TypeOK, OutputOK, transferVars, vars,
        fetchVars, jobVars, itemVars
<1> USE DEF InputsOK, ItemOK
<1>1. ASSUME NEW j \in Jobs, Begin(j)
      PROVE  InputsOK'
  BY <1>1, <1>e
<1>2. ASSUME MakeOutput
      PROVE  InputsOK'
  BY <1>2 DEF MakeOutput, CreateDir, CreateDirFails, WriteUnlock, Return, Goto
<1>3. ASSUME NEW i \in IDs, LookUp(i)
      PROVE  InputsOK'
  BY <1>3 DEF LookUp, GetLock, Call, Goto
<1>4. ASSUME Stat
      PROVE  InputsOK'
  BY <1>4 DEF Stat, GetStat, Goto
<1>5. ASSUME Missed
      PROVE  InputsOK'
  BY <1>5 DEF Missed, GetMiss, ReadUnlock, Return, Goto
<1>6. ASSUME StartDownload
      PROVE  InputsOK'
  BY <1>6, <1>g
<1>7. ASSUME Downloads
      PROVE  InputsOK'
  BY <1>7, <1>g
<1>8. ASSUME DownloadFailed
      PROVE  InputsOK'
  BY <1>8 DEF DownloadFailed, Fails, Drops
<1>9. ASSUME FoundDep
      PROVE  InputsOK'
  BY <1>9 DEF FoundDep
<1>10. ASSUME DepsReady
      PROVE  InputsOK'
  BY <1>10 DEF DepsReady, JobGoes, Fails, Drops
<1>11. ASSUME CopyFile
      PROVE  InputsOK'
  <2>1. jobPc = "files" /\ item # None => Files[job] \cap (Patient \cup Jobs) = {}
    BY ItemsAssumption
  <2>2. jobPc = "files" /\ item \in Files[job] => disk[item] = "whole"
    <3>1. item \in IDs /\ pc[item] = "reading"
      BY <1>11 DEF CopyFile, Unlock
    <3>2. disk[item] = "whole" \/ disk[item] = "cut" \/ disk[item] = "mixed"
      BY <3>1 DEF ContentInv, IInv, ReaderSeesWholeArtifact, Flawed
    <3> QED
      BY <2>1, <3>1, <3>2 DEF DiskOK
  <2> QED
    BY <1>11, <2>2 DEF CopyFile, Unlock, ReadUnlock, Goto, Fails, Drops
<1>12. ASSUME FilesReady
      PROVE  InputsOK'
  BY <1>12 DEF FilesReady, JobGoes
<1>13. ASSUME RunCommands
      PROVE  InputsOK'
  BY <1>13 DEF RunCommands, JobGoes, Fill, FillOver, Goto
<1>14. ASSUME CommandFails
      PROVE  InputsOK'
  BY <1>14 DEF CommandFails, Fails, Drops
<1>15. ASSUME Commit
      PROVE  InputsOK'
  BY <1>15 DEF Commit, CommitRename, CommitFails, CommitUnlock, WriteUnlock, Return, Goto,
     Fails, Drops, storeJobResult
<1>16. ASSUME UnlockDep
      PROVE  InputsOK'
  BY <1>16 DEF UnlockDep, HeldDeps, Unlock, ReadUnlock, Goto
<1>17. ASSUME Unlocked
      PROVE  InputsOK'
  BY <1>17 DEF Unlocked, JobGoes, HeldDeps
<1>18. ASSUME Abort
      PROVE  InputsOK'
  BY <1>18 DEF Abort, AbortRemove, AbortRemoves, AbortRemoveFails, AbortUnlock, WriteUnlock,
     Return, Goto
<1>19. ASSUME LateUnlock
      PROVE  InputsOK'
  BY <1>19 DEF LateUnlock, JobGoes, WriteUnlock
<1>20. ASSUME Report
      PROVE  InputsOK'
  BY <1>20 DEF Report, JobGoes
<1>21. ASSUME NEW s \in Servers, Serve(s)
      PROVE  InputsOK'
  BY <1>21, <1>f
<1>22. ASSUME WorkerRestart
      PROVE  InputsOK'
  BY <1>22 DEF WorkerRestart, TransferRestart, Restart, Drops
<1>23. CASE UNCHANGED workerVars
  BY <1>23 DEF workerVars, transferVars, vars, fetchVars, jobVars, itemVars
<1> QED
  BY <1>1, <1>2, <1>3, <1>4, <1>5, <1>6, <1>7, <1>8, <1>9, <1>10, <1>11, <1>12, <1>13,
     <1>14, <1>15, <1>16, <1>17, <1>18, <1>19, <1>20, <1>21, <1>22, <1>23
  DEF WorkerNext, RunJob

LEMMA ContentInit == WorkerInit => ContentInv
<1> SUFFICES ASSUME WorkerInit
             PROVE  ContentInv
  OBVIOUS
<1>1. LocksInv /\ IInv
  BY LocksInit, InitIInv DEF WorkerInit, TransferInit
<1>2. FetchTyped /\ CleanIsComplete
  BY EntriesAssumption DEF WorkerInit, TransferInit, FetchTyped, CleanIsComplete
<1>3. DiskOK /\ ResultOK /\ InputsOK
  BY DEF WorkerInit, TransferInit, Init, DiskOK, ResultOK, InputsOK
<1> QED
  BY <1>1, <1>2, <1>3 DEF ContentInv

LEMMA ContentStep ==
  ASSUME SenderReads, ContentInv, [WorkerNext]_workerVars
  PROVE  ContentInv'
<1>1. LocksInv /\ IInv /\ FetchTyped /\ CleanIsComplete
  BY DEF ContentInv
<1>2. LocksInv' /\ IInv'
  BY <1>1, LocksInvStep, WorkerCache
<1>3. FetchTyped' /\ CleanIsComplete'
  BY <1>1, WorkerFetches
<1>4. DiskOK' /\ ResultOK' /\ InputsOK'
  BY DiskOKStep, ResultStep, InputsStep
<1> QED
  BY <1>2, <1>3, <1>4 DEF ContentInv

(* The invariant of the contents, when senders can read what they send.      *)
THEOREM WorkerContentInvariance ==
  ASSUME SenderReads
  PROVE  WorkerSpec => []ContentInv
<1>1. ContentInv /\ [WorkerNext]_workerVars => ContentInv'
  BY SenderReads, ContentStep
<1> QED
  BY ContentInit, <1>1, PTL DEF WorkerSpec

\* What is in the cache is committed: no job removes anything.
LEMMA CommittedOnDisk ==
  ASSUME ContentInv, NEW id \in IDs, disk[id] # "none"
  PROVE  Committed(id)
BY DEF ContentInv, IInv, CommittedIsWhole, WholeOrFlawed, Flawed, DiskOK, Committed

(* If senders can read what they send, the commands of a job run with each    *)
(* artifact it depends on committed and locked, every source file copied,    *)
(* and the output directory its own.                                        *)
THEOREM CommandsHaveTheirInputs ==
  ASSUME SenderReads
  PROVE  WorkerSpec => []CommandsSeeTheirInputs
<1>1. ContentInv => CommandsSeeTheirInputs
  <2> SUFFICES ASSUME ContentInv, jobPc = "commands"
               PROVE  /\ \A d \in Deps[job] : pc[d] = "reading" /\ Committed(d)
                      /\ Files[job] \subseteq copied
                      /\ job \in writeLocked /\ tmp[job] # "none"
    BY DEF CommandsSeeTheirInputs
  <2>1. job \in IDs /\ job \in Procs /\ Deps[job] \subseteq IDs /\ IDs \subseteq Procs
        /\ pc[job] = "writing" /\ at[job] = job
    BY ItemsAssumption DEF ContentInv, LocksInv, JobTyped, OutputOK, RolesOK
  <2>2. ASSUME NEW d \in Deps[job]
        PROVE  pc[d] = "reading" /\ Committed(d)
    <3>1. pc[d] = "reading" /\ at[d] = d /\ d \in Procs /\ d \in IDs
      BY <2>1 DEF ContentInv, InputsOK, LocksInv, RolesOK
    <3>2. disk[d] # "none"
      BY <3>1 DEF ContentInv, IInv, ReaderSeesWholeArtifact, Flawed
    <3> QED
      BY <3>1, <3>2, CommittedOnDisk
  <2>3. Files[job] \subseteq copied
    BY DEF ContentInv, InputsOK
  <2>4. job \in Holders(job)
    BY <2>1 DEF Holders, WritePcs
  <2>5. job \in writeLocked
    BY <2>1, <2>4 DEF ContentInv, LocksInv, LocksAreHeld
  <2>6. tmp[job] # "none"
    BY <2>1 DEF ContentInv, IInv, WritersFill
  <2> QED
    BY <2>2, <2>3, <2>5, <2>6
<1> QED
  BY <1>1, WorkerContentInvariance, PTL

(* If senders can read what they send, a job reported as done has left its    *)
(* artifact committed in the cache, and one reported as failed has left none. *)
THEOREM OutcomesAreTrue ==
  ASSUME SenderReads
  PROVE  WorkerSpec => []OutcomeIsTrue
<1>1. ContentInv => OutcomeIsTrue
  <2> SUFFICES ASSUME ContentInv, jobPc = "report"
               PROVE  IF outcome = "failed" THEN disk[job] = "none" ELSE Committed(job)
    BY DEF OutcomeIsTrue
  <2>1. job \in IDs /\ (disk[job] = "none" <=> outcome = "failed")
    BY ItemsAssumption DEF ContentInv, LocksInv, JobTyped, OutputOK, ResultOK
  <2> QED
    BY <2>1, CommittedOnDisk
<1> QED
  BY <1>1, WorkerContentInvariance, PTL
=============================================================================
