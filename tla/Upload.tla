------------------------------- MODULE Upload -------------------------------
(***************************************************************************)
(* The first half of a build: the coordinator looks for the files it lacks *)
(* (findMissingFiles), the client puts them (client.Build, the handler and *)
(* cache of distbuild/pkg/filecache) and signals that it is done.  Builds  *)
(* share one file cache; its locks and disk are those of ArtifactCache,    *)
(* which filecache wraps.                                                  *)
(***************************************************************************)
EXTENDS Naturals, FiniteSets

CONSTANTS
  Builds,      \* builds, each with its client
  Files,       \* source files, named by their content
  SourceFiles, \* Graph.SourceFiles of each build
  NoBuild,     \* no build, and no file
  Mortal,      \* clients that may go away before the build is ready
  MayFail      \* calls that may fail: "mkdir", "open", "copy", "close", "rename",
               \* "remove"

ASSUME BuildsAssumption == IsFiniteSet(Builds)
ASSUME FilesAssumption == Files # {}
ASSUME SourceFilesAssumption == SourceFiles \in [Builds -> SUBSET Files]
ASSUME NoBuildAssumption == NoBuild \notin Builds \cup Files
ASSUME MortalAssumption == Mortal \subseteq Builds

VARIABLES
  writeLocked, readLocked, tmp, disk, pc, at, err, crashes,  \* the file cache
  halfRemoved, leftovers,                                    \* and its past
  buildPc,     \* where StartBuild stands
  unchecked,   \* the files findMissingFiles has yet to look for
  missing,     \* the files it did not find
  uploadDone,  \* runningBuild.uploadDone is closed
  clientPc,    \* where client.Build stands
  putting,     \* the missing files not yet put
  current,     \* the file being put
  signal,      \* the POST /signal of the client: none, sent or handled
  flight       \* Handler.sf: the build whose PUT of a file is in flight

pastVars   == <<halfRemoved, leftovers>>
cacheVars  == <<writeLocked, readLocked, tmp, disk, pc, at, err, crashes, pastVars>>
buildVars  == <<buildPc, unchecked, missing, uploadDone>>
clientVars == <<clientPc, putting, current, signal>>
vars == <<cacheVars, buildVars, clientVars, flight>>

\* The goroutines that use the cache: the StartBuild of a build and the PUT
\* handler that serves its client.
Checker(b) == <<"check", b>>
Putter(b) == <<"put", b>>
Checkers == {Checker(b) : b \in Builds}
Putters == {Putter(b) : b \in Builds}

Cache == INSTANCE ArtifactCache WITH
  IDs <- Files, Procs <- Checkers \cup Putters, Creators <- Putters,
  Removers <- {}, MaxCrashes <- 0

Init ==
  /\ writeLocked = {}
  /\ readLocked = [f \in Files |-> 0]
  /\ tmp = [f \in Files |-> "none"]
  /\ disk = [f \in Files |-> "none"]
  /\ pc = [p \in Checkers \cup Putters |-> "idle"]
  /\ at = [p \in Checkers \cup Putters |-> CHOOSE f \in Files : TRUE]
  /\ err = [p \in Checkers \cup Putters |-> "nil"]
  /\ crashes = 0
  /\ halfRemoved = {} /\ leftovers = {}
  /\ buildPc = [b \in Builds |-> "none"]
  /\ unchecked = SourceFiles
  /\ missing = [b \in Builds |-> {}]
  /\ uploadDone = [b \in Builds |-> FALSE]
  /\ clientPc = [b \in Builds |-> "starting"]
  /\ putting = [b \in Builds |-> {}]
  /\ current = [b \in Builds |-> NoBuild]
  /\ signal = [b \in Builds |-> "none"]
  /\ flight = [f \in Files |-> NoBuild]

BuildGoes(b, from, to) == buildPc[b] = from /\ buildPc' = [buildPc EXCEPT ![b] = to]
ClientGoes(b, from, to) == clientPc[b] = from /\ clientPc' = [clientPc EXCEPT ![b] = to]

-----------------------------------------------------------------------------
(* Coordinator.StartBuild up to the select on uploadDone. *)
StartBuild(b) ==
  /\ BuildGoes(b, "none", "checking")
  /\ clientPc[b] = "starting"
  /\ UNCHANGED <<cacheVars, unchecked, missing, uploadDone, clientVars, flight>>

(* findMissingFiles: Get for one file after the other; any error but         *)
(* ErrNotFound fails the build, and with it the client's request.           *)
CheckFile(b) ==
  /\ buildPc[b] = "checking"
  /\ \E f \in unchecked[b] : Cache!GetLock(Checker(b), f)
  /\ UNCHANGED <<buildVars, clientVars, flight>>

CheckRefused(b) ==
  /\ BuildGoes(b, "checking", "failed")
  /\ \E f \in unchecked[b] : Cache!GetRefused(Checker(b), f)
  /\ UNCHANGED <<unchecked, missing, uploadDone, clientVars, flight>>

CheckStat(b) == Cache!GetStat(Checker(b)) /\ UNCHANGED <<buildVars, clientVars, flight>>

Checked(b) == unchecked' = [unchecked EXCEPT ![b] = @ \ {at[Checker(b)]}]

CheckFound(b) ==
  /\ Cache!Unlock(Checker(b))
  /\ Checked(b)
  /\ UNCHANGED <<buildPc, missing, uploadDone, clientVars, flight>>

CheckMissing(b) ==
  /\ Cache!GetMiss(Checker(b))
  /\ Checked(b)
  /\ missing' = [missing EXCEPT ![b] = @ \cup {at[Checker(b)]}]
  /\ UNCHANGED <<buildPc, uploadDone, clientVars, flight>>

(* Started reaches the client; then uploadDone or ctx.Done() is awaited.    *)
Started(b) ==
  /\ unchecked[b] = {}
  /\ pc[Checker(b)] = "idle"
  /\ BuildGoes(b, "checking", "started")
  /\ UNCHANGED <<cacheVars, unchecked, missing, uploadDone, clientVars, flight>>

UploadDone(b) ==
  /\ uploadDone[b]
  /\ BuildGoes(b, "started", "ready")
  /\ UNCHANGED <<cacheVars, unchecked, missing, uploadDone, clientVars, flight>>

BuildCancelled(b) ==
  /\ clientPc[b] \in {"error", "gone"}
  /\ BuildGoes(b, "started", "failed")
  /\ UNCHANGED <<cacheVars, unchecked, missing, uploadDone, clientVars, flight>>

-----------------------------------------------------------------------------
(* client.Build *)
ClientRefused(b) ==
  /\ buildPc[b] = "failed"
  /\ ClientGoes(b, "starting", "error")
  /\ UNCHANGED <<cacheVars, buildVars, putting, current, signal, flight>>

ClientStarted(b) ==
  /\ buildPc[b] = "started"
  /\ ClientGoes(b, "starting", "upload")
  /\ putting' = [putting EXCEPT ![b] = missing[b]]
  /\ UNCHANGED <<cacheVars, buildVars, current, signal, flight>>

(* PUT /file reaches the handler.  singleflight: the first request for a    *)
(* file creates it in the cache, those that come meanwhile share its result. *)
PutLeads(b, f) ==
  /\ f \in putting[b]
  /\ flight[f] = NoBuild
  /\ Cache!CreateLock(Putter(b), f)
  /\ ClientGoes(b, "upload", "leading")
  /\ current' = [current EXCEPT ![b] = f]
  /\ flight' = [flight EXCEPT ![f] = b]
  /\ UNCHANGED <<buildVars, putting, signal>>

PutJoins(b, f) ==
  /\ f \in putting[b]
  /\ flight[f] # NoBuild
  /\ ClientGoes(b, "upload", "sharing")
  /\ current' = [current EXCEPT ![b] = f]
  /\ UNCHANGED <<cacheVars, buildVars, putting, signal, flight>>

(* The work of the leader in the cache: Create, io.Copy into a file that is   *)
(* truncated if it was there, Close (which commits), or abort when the copy  *)
(* fails.                                                                   *)
Leads(b) == current[b] # NoBuild /\ flight[current[b]] = b

PutCopies(b) ==
  /\ Leads(b)
  /\ \/ Cache!CreateDir(Putter(b)) \/ Cache!CreateDirFails(Putter(b))
     \/ clientPc[b] = "leading" /\ Cache!Fill(Putter(b))
     \/ Cache!CommitRename(Putter(b)) \/ Cache!CommitFails(Putter(b))
     \/ Cache!CommitUnlock(Putter(b))
  /\ UNCHANGED <<buildVars, clientVars, flight>>

PutAborts(b) ==
  /\ Leads(b)
  /\ \/ /\ pc[Putter(b)] = "writing"
        /\ clientPc[b] = "gone" \/ "copy" \in MayFail
        /\ Cache!AbortRemove(Putter(b))
     \/ Cache!AbortUnlock(Putter(b))
  /\ UNCHANGED <<buildVars, clientVars, flight>>

(* The leader returns: its request and all that share it get one answer.     *)
Sharers(f) == {b \in Builds : clientPc[b] \in {"leading", "sharing"} /\ current[b] = f}

PutAnsweredAlone(b, ok) ==  \* mutant: those that share the upload are forgotten
  /\ clientPc' = [clientPc EXCEPT ![b] =
       IF @ # "leading" THEN @ ELSE IF ok THEN "upload" ELSE "error"]
  /\ putting' = [putting EXCEPT ![b] = @ \ {current[b]}]
  /\ current' = [current EXCEPT ![b] = NoBuild]
  /\ flight' = [flight EXCEPT ![current[b]] = NoBuild]
  /\ UNCHANGED <<buildVars, signal>>

PutAnswered(b, ok) ==
  LET f == current[b]
  IN  /\ clientPc' = [c \in Builds |-> IF c \notin Sharers(f) THEN clientPc[c]
                                       ELSE IF ok THEN "upload" ELSE "error"]
      /\ putting' = [c \in Builds |-> IF c \in Sharers(f) THEN putting[c] \ {f}
                                                          ELSE putting[c]]
      /\ current' = [c \in Builds |-> IF c \in Sharers(f) \cup {b} THEN NoBuild
                                                                   ELSE current[c]]
      /\ flight' = [flight EXCEPT ![f] = NoBuild]
      /\ UNCHANGED <<buildVars, signal>>

PutReturnsLocked(b) ==  \* mutant: a file locked by another is taken for stored
  /\ Leads(b)
  /\ pc[Putter(b)] = "idle"
  /\ PutAnswered(b, err[Putter(b)] \in {"nil", "exists", "readLocked"})
  /\ UNCHANGED cacheVars

(* ErrExists counts as success; an error of closing the file is returned     *)
(* although the file was committed.                                         *)
PutReturns(b) ==
  /\ Leads(b)
  /\ pc[Putter(b)] = "idle"
  /\ \E ok \in BOOLEAN :
       /\ ok => err[Putter(b)] \in {"nil", "exists"}
       /\ ~ok => err[Putter(b)] \notin {"nil", "exists"}
                 \/ (err[Putter(b)] = "nil" /\ "close" \in MayFail)
       /\ PutAnswered(b, ok)
  /\ UNCHANGED cacheVars

(* Cache.Write: when the file cannot be created in the new directory, the   *)
(* error path calls its result abort, which is still nil.  The handler       *)
(* panics, net/http recovers, and the write lock stays.                     *)
PutPanics(b) ==
  /\ "open" \in MayFail
  /\ Leads(b)
  /\ pc[Putter(b)] = "writing"
  /\ pc' = [pc EXCEPT ![Putter(b)] = "idle"]
  /\ PutAnswered(b, FALSE)
  /\ UNCHANGED <<writeLocked, readLocked, tmp, disk, at, err, crashes, pastVars>>

SendSignal(b) ==
  /\ putting[b] = {}
  /\ ClientGoes(b, "upload", "signalling")
  /\ signal' = [signal EXCEPT ![b] = "sent"]
  /\ UNCHANGED <<cacheVars, buildVars, putting, current, flight>>

(* SignalBuild: closes uploadDone once, if the build is still registered.    *)
Registered(b) == buildPc[b] \in {"checking", "started", "ready"}

SignalBuild(b) ==
  /\ signal[b] = "sent"
  /\ signal' = [signal EXCEPT ![b] = "handled"]
  /\ uploadDone' = [uploadDone EXCEPT ![b] = @ \/ Registered(b)]
  /\ clientPc' = [clientPc EXCEPT ![b] = IF @ = "signalling" THEN "watching" ELSE @]
  /\ UNCHANGED <<cacheVars, buildPc, unchecked, missing, putting, current, flight>>

(* The client process ends or loses its connection. *)
ClientDies(b) ==
  /\ b \in Mortal
  /\ clientPc[b] \notin {"watching", "error", "gone"}
  /\ clientPc' = [clientPc EXCEPT ![b] = "gone"]
  /\ UNCHANGED <<cacheVars, buildVars, putting, current, signal, flight>>

-----------------------------------------------------------------------------
Check(b) ==
  \/ CheckFile(b) \/ CheckRefused(b) \/ CheckStat(b)
  \/ CheckFound(b) \/ CheckMissing(b)
  \/ Started(b) \/ UploadDone(b) \/ BuildCancelled(b)

Client(b) ==
  \/ ClientRefused(b) \/ ClientStarted(b) \/ SendSignal(b) \/ SignalBuild(b)
  \/ \E f \in Files : PutLeads(b, f) \/ PutJoins(b, f)

Put(b) == PutCopies(b) \/ PutAborts(b) \/ PutReturns(b) \/ PutPanics(b)

Next ==
  \E b \in Builds : StartBuild(b) \/ Check(b) \/ Client(b) \/ Put(b) \/ ClientDies(b)

Spec == Init /\ [][Next]_vars

(* Goroutines that can run are run, and requests are answered. *)
FairSpec ==
  /\ Spec
  /\ \A b \in Builds : /\ WF_vars(StartBuild(b))
                       /\ WF_vars(Check(b))
                       /\ WF_vars(Client(b))
                       /\ WF_vars(Put(b))

-----------------------------------------------------------------------------
TypeOK ==
  /\ Cache!TypeOK
  /\ buildPc \in [Builds -> {"none", "checking", "started", "ready", "failed"}]
  /\ unchecked \in [Builds -> SUBSET Files]
  /\ missing \in [Builds -> SUBSET Files]
  /\ uploadDone \in [Builds -> BOOLEAN]
  /\ clientPc \in [Builds -> {"starting", "upload", "leading", "sharing",
                              "signalling", "watching", "error", "gone"}]
  /\ putting \in [Builds -> SUBSET Files]
  /\ current \in [Builds -> Files \cup {NoBuild}]
  /\ signal \in [Builds -> {"none", "sent", "handled"}]
  /\ flight \in [Files -> Builds \cup {NoBuild}]

(* A build goes on to its jobs only when every source file of it is whole in *)
(* the cache and can be read: whoever uploaded it has given up its lock, so  *)
(* that no worker is answered "not found" or "locked".                      *)
ReadyFilesAreReadable ==
  \A b \in Builds : buildPc[b] = "ready" =>
    \A f \in SourceFiles[b] : disk[f] = "whole" /\ f \notin writeLocked

(* A request that shares an upload has an upload to share, and every upload  *)
(* in flight has a handler at work on that very file.                       *)
SharersHaveALeader ==
  /\ \A b \in Builds : clientPc[b] = "sharing" => flight[current[b]] # NoBuild
  /\ \A f \in Files : flight[f] # NoBuild =>
       current[flight[f]] = f /\ at[Putter(flight[f])] = f

(* A client that stays gets to watch its build, or an error; none is left    *)
(* waiting for an upload whose client went away.                            *)
ClientsGetAnAnswer ==
  \A b \in Builds : clientPc[b] = "starting" ~> clientPc[b] \in {"watching", "error", "gone"}
=============================================================================
