--------------------------- MODULE ArtifactCache ---------------------------
(***************************************************************************)
(* The disk cache of artifacts, distbuild/pkg/artifact/cache.go, which     *)
(* filecache wraps for source files.  Each method is split where it        *)
(* releases mu: the file system is touched outside of the mutex (except by *)
(* writeLock), so other goroutines run between taking a lock, looking at   *)
(* the disk and giving the lock back.                                      *)
(***************************************************************************)
EXTENDS Naturals, FiniteSets

CONSTANTS
  IDs,          \* artifacts
  Procs,        \* goroutines that use the cache
  Creators,     \* the goroutines that call Create
  Removers,     \* the goroutines that call Remove
  MayFail,      \* file system calls that may fail: "mkdir", "rename", "remove"
  MaxCrashes    \* bound: restarts of the process

ASSUME ProcsAssumption ==
  /\ Creators \subseteq Procs
  /\ Removers \subseteq Procs
  /\ IsFiniteSet(Procs)
ASSUME MaxCrashesAssumption == MaxCrashes \in Nat

VARIABLES
  writeLocked,  \* Cache.writeLocked
  readLocked,   \* Cache.readLocked, 0 where the map has no key
  tmp,          \* tmp/<id>: the directory a writer fills
  disk,         \* c/<id>: the artifact in the cache
  pc,           \* where the call of each goroutine stands
  at,           \* the artifact the call is about
  err,          \* what the last call came to
  crashes

\* What has happened to artifacts, for the properties to speak of; nothing below
\* reads it, and nothing is ever taken from it.
VARIABLES
  halfRemoved,  \* a Remove has stopped half-way, by an error or with the process
  leftovers     \* a writer that has ended left its directory in tmp

pastVars == <<halfRemoved, leftovers>>
vars == <<writeLocked, readLocked, tmp, disk, pc, at, err, crashes, pastVars>>

\* "part": as far as a writer has filled it; "stale": as far as that, with what an
\* earlier writer had left; "mixed": filled, with some of that in it; "cut": as
\* far as Remove has left it
Contents == {"none", "part", "stale", "whole", "mixed", "cut"}
Errors == {"nil", "notFound", "exists", "writeLocked", "readLocked", "io", "aborted"}

ReadPcs == {"stat", "miss", "reading"}
WritePcs == {"mkdir", "writing", "written", "committed", "commitFailed",
             "aborted", "removing"}
Pcs == {"idle"} \cup ReadPcs \cup WritePcs

Init ==
  /\ writeLocked = {}
  /\ readLocked = [id \in IDs |-> 0]
  /\ tmp = [id \in IDs |-> "none"]
  /\ disk = [id \in IDs |-> "none"]
  /\ pc = [p \in Procs |-> "idle"]
  /\ at \in [Procs -> IDs]
  /\ err = [p \in Procs |-> "nil"]
  /\ crashes = 0
  /\ halfRemoved = {} /\ leftovers = {}

Goto(p, label) == pc' = [pc EXCEPT ![p] = label]
Return(p, e) == Goto(p, "idle") /\ err' = [err EXCEPT ![p] = e]

Call(p, id) ==
  /\ pc[p] = "idle"
  /\ at' = [at EXCEPT ![p] = id]

-----------------------------------------------------------------------------
(* Get: readLock, then Stat without the mutex, then readUnlock on a miss.   *)
GetRefused(p, id) ==
  /\ Call(p, id)
  /\ id \in writeLocked
  /\ Return(p, "writeLocked")
  /\ UNCHANGED <<writeLocked, readLocked, tmp, disk, crashes, pastVars>>

GetLock(p, id) ==
  /\ Call(p, id)
  /\ id \notin writeLocked
  /\ readLocked' = [readLocked EXCEPT ![id] = @ + 1]
  /\ Goto(p, "stat")
  /\ UNCHANGED <<writeLocked, tmp, disk, err, crashes, pastVars>>

GetStat(p) ==
  /\ pc[p] = "stat"
  /\ IF disk[at[p]] = "none"
     THEN Goto(p, "miss") /\ UNCHANGED err
     ELSE Goto(p, "reading") /\ err' = [err EXCEPT ![p] = "nil"]
  /\ UNCHANGED <<writeLocked, readLocked, tmp, disk, at, crashes, pastVars>>

ReadUnlock(p) == readLocked' = [readLocked EXCEPT ![at[p]] = @ - 1]

GetMiss(p) ==
  /\ pc[p] = "miss"
  /\ ReadUnlock(p)
  /\ Return(p, "notFound")
  /\ UNCHANGED <<writeLocked, tmp, disk, at, crashes, pastVars>>

(* The reader is done and calls the unlock it was given. *)
Unlock(p) ==
  /\ pc[p] = "reading"
  /\ ReadUnlock(p)
  /\ Goto(p, "idle")
  /\ UNCHANGED <<writeLocked, tmp, disk, at, err, crashes, pastVars>>

Get(p) ==
  \/ \E id \in IDs : GetRefused(p, id) \/ GetLock(p, id)
  \/ GetStat(p) \/ GetMiss(p) \/ Unlock(p)

-----------------------------------------------------------------------------
WriteLockErrorOfWriters(id, remove) ==  \* mutant: readers are not looked at
  IF disk[id] # "none" /\ ~remove THEN "exists"
  ELSE IF id \in writeLocked THEN "writeLocked"
  ELSE "nil"

(* writeLock looks at the disk while holding the mutex. *)
WriteLockError(id, remove) ==
  IF disk[id] # "none" /\ ~remove THEN "exists"
  ELSE IF id \in writeLocked THEN "writeLocked"
  ELSE IF readLocked[id] > 0 THEN "readLocked"
  ELSE "nil"

WriteLock(p, id, remove, next) ==
  /\ Call(p, id)
  /\ LET e == WriteLockError(id, remove)
     IN  IF e = "nil"
         THEN /\ writeLocked' = writeLocked \cup {id}
              /\ Goto(p, next)
              /\ UNCHANGED err
         ELSE /\ Return(p, e)
              /\ UNCHANGED writeLocked
  /\ UNCHANGED <<readLocked, tmp, disk, crashes, pastVars>>

WriteUnlock(p) == writeLocked' = writeLocked \ {at[p]}

(* Create: the lock, then the directory under tmp.  MkdirAll takes one that   *)
(* is there already for its own, with what an earlier writer left in it.     *)
CreateLock(p, id) == WriteLock(p, id, FALSE, "mkdir")

CreateDir(p) ==
  /\ pc[p] = "mkdir"
  /\ tmp' = [tmp EXCEPT ![at[p]] = IF @ = "none" THEN "part" ELSE "stale"]
  /\ err' = [err EXCEPT ![p] = "nil"]
  /\ Goto(p, "writing")
  /\ UNCHANGED <<writeLocked, readLocked, disk, at, crashes, pastVars>>

CreateDirFailsLocked(p) ==  \* mutant: the error path keeps the lock
  /\ "mkdir" \in MayFail
  /\ pc[p] = "mkdir"
  /\ Return(p, "io")
  /\ UNCHANGED <<writeLocked, readLocked, tmp, disk, at, crashes, pastVars>>

CreateDirFails(p) ==
  /\ "mkdir" \in MayFail
  /\ pc[p] = "mkdir"
  /\ WriteUnlock(p)
  /\ Return(p, "io")
  /\ UNCHANGED <<readLocked, tmp, disk, at, crashes, pastVars>>

(* The caller of Create fills the directory, then calls commit; or it gives *)
(* up halfway and calls abort.  What it finds there it may write over, ...  *)
Fill(p) ==
  /\ pc[p] = "writing"
  /\ tmp' = [tmp EXCEPT ![at[p]] = "whole"]
  /\ Goto(p, "written")
  /\ UNCHANGED <<writeLocked, readLocked, disk, at, err, crashes, pastVars>>

(* ... or keep some of. *)
FillOver(p) ==
  /\ pc[p] = "writing"
  /\ tmp[at[p]] = "stale"
  /\ tmp' = [tmp EXCEPT ![at[p]] = "mixed"]
  /\ Goto(p, "written")
  /\ UNCHANGED <<writeLocked, readLocked, disk, at, err, crashes, pastVars>>

(* commit: Rename, then the deferred writeUnlock, whether or not it worked. *)
CommitRename(p) ==
  /\ pc[p] = "written"
  /\ tmp[at[p]] # "none"
  /\ disk[at[p]] = "none"
  /\ disk' = [disk EXCEPT ![at[p]] = tmp[at[p]]]
  /\ tmp' = [tmp EXCEPT ![at[p]] = "none"]
  /\ Goto(p, "committed")
  /\ UNCHANGED <<writeLocked, readLocked, at, err, crashes, pastVars>>

CommitFails(p) ==
  /\ pc[p] = "written"
  /\ "rename" \in MayFail \/ tmp[at[p]] = "none" \/ disk[at[p]] # "none"
  /\ leftovers' = leftovers \cup {at[p]}
  /\ Goto(p, "commitFailed")
  /\ UNCHANGED <<writeLocked, readLocked, tmp, disk, at, err, crashes, halfRemoved>>

CommitUnlock(p) ==
  /\ pc[p] \in {"committed", "commitFailed"}
  /\ WriteUnlock(p)
  /\ IF pc[p] = "committed"
     THEN Return(p, "nil")
     ELSE Return(p, "io")
  /\ UNCHANGED <<readLocked, tmp, disk, at, crashes, pastVars>>

(* abort: RemoveAll, which may stop half-way, then the deferred writeUnlock. *)
AbortRemoves(p) ==
  /\ pc[p] \in {"writing", "written"}
  /\ tmp' = [tmp EXCEPT ![at[p]] = "none"]
  /\ Goto(p, "aborted")
  /\ UNCHANGED <<writeLocked, readLocked, disk, at, err, crashes, pastVars>>

AbortRemoveFails(p) ==
  /\ "remove" \in MayFail
  /\ pc[p] \in {"writing", "written"}
  /\ tmp' = [tmp EXCEPT ![at[p]] = "stale"]
  /\ leftovers' = leftovers \cup {at[p]}
  /\ Goto(p, "aborted")
  /\ UNCHANGED <<writeLocked, readLocked, disk, at, err, crashes, halfRemoved>>

AbortRemove(p) == AbortRemoves(p) \/ AbortRemoveFails(p)

AbortUnlock(p) ==
  /\ pc[p] = "aborted"
  /\ WriteUnlock(p)
  /\ Return(p, "aborted")
  /\ UNCHANGED <<readLocked, tmp, disk, at, crashes, pastVars>>

Create(p) ==
  \/ \E id \in IDs : CreateLock(p, id)
  \/ CreateDir(p) \/ CreateDirFails(p) \/ Fill(p) \/ FillOver(p)
  \/ CommitRename(p) \/ CommitFails(p) \/ CommitUnlock(p)
  \/ AbortRemove(p) \/ AbortUnlock(p)

-----------------------------------------------------------------------------
(* Remove: the lock, then RemoveAll, which deletes file by file and may stop  *)
(* at any of them with an error, then the deferred writeUnlock.             *)
RemoveLock(p, id) == WriteLock(p, id, TRUE, "removing")

RemovePart(p) ==
  /\ pc[p] = "removing"
  /\ disk[at[p]] \in {"whole", "mixed"}
  /\ disk' = [disk EXCEPT ![at[p]] = "cut"]
  /\ UNCHANGED <<writeLocked, readLocked, tmp, pc, at, err, crashes, pastVars>>

RemoveRest(p) ==
  /\ pc[p] = "removing"
  /\ disk[at[p]] \notin {"whole", "mixed"}
  /\ disk' = [disk EXCEPT ![at[p]] = "none"]
  /\ WriteUnlock(p)
  /\ Return(p, "nil")
  /\ UNCHANGED <<readLocked, tmp, at, crashes, pastVars>>

RemoveFails(p) ==
  /\ "remove" \in MayFail
  /\ pc[p] = "removing"
  /\ halfRemoved' = IF disk[at[p]] = "cut" THEN halfRemoved \cup {at[p]} ELSE halfRemoved
  /\ WriteUnlock(p)
  /\ Return(p, "io")
  /\ UNCHANGED <<readLocked, tmp, disk, at, crashes, leftovers>>

Remove(p) ==
  \/ \E id \in IDs : RemoveLock(p, id)
  \/ RemovePart(p) \/ RemoveRest(p) \/ RemoveFails(p)

(* What NewCache finds in c: it removes tmp only. *)
NewCacheEmpty == [id \in IDs |-> "none"]  \* mutant: c is removed as well

NewCache == disk

(* The process dies and is started again; the locks were in memory.         *)
Restart ==
  /\ crashes < MaxCrashes
  /\ crashes' = crashes + 1
  /\ writeLocked' = {}
  /\ readLocked' = [id \in IDs |-> 0]
  /\ tmp' = [id \in IDs |-> "none"]
  /\ pc' = [p \in Procs |-> "idle"]
  /\ err' = [p \in Procs |-> "nil"]
  /\ disk' = NewCache
  /\ halfRemoved' = halfRemoved \cup {id \in IDs : disk[id] = "cut"}
  /\ UNCHANGED <<at, leftovers>>

-----------------------------------------------------------------------------
Next ==
  \/ \E p \in Procs : Get(p)
  \/ \E p \in Creators : Create(p)
  \/ \E p \in Removers : Remove(p)
  \/ Restart

Spec == Init /\ [][Next]_vars

-----------------------------------------------------------------------------
TypeOK ==
  /\ writeLocked \subseteq IDs
  /\ readLocked \in [IDs -> Nat]
  /\ tmp \in [IDs -> Contents]
  /\ disk \in [IDs -> Contents]
  /\ pc \in [Procs -> Pcs]
  /\ at \in [Procs -> IDs]
  /\ err \in [Procs -> Errors]
  /\ crashes \in 0..MaxCrashes
  /\ halfRemoved \subseteq IDs /\ leftovers \subseteq IDs

Readers(id) == {p \in Procs : at[p] = id /\ pc[p] \in ReadPcs}
Holders(id) == {p \in Procs : at[p] = id /\ pc[p] \in WritePcs}

(* "Nobody else can work with an artifact that is locked for write": it has *)
(* one holder and no reader.                                                *)
WriterIsAlone ==
  \A id \in IDs : \A p \in Holders(id) :
    /\ Holders(id) = {p}
    /\ Readers(id) = {}

(* A writer is alone, and the lock sets are exactly the locks that           *)
(* goroutines hold: none is leaked by an error path, none is given back      *)
(* twice or by another goroutine.                                           *)
LocksAreHeld ==
  /\ WriterIsAlone
  /\ \A id \in IDs :
       /\ id \in writeLocked <=> Holders(id) # {}
       /\ readLocked[id] = Cardinality(Readers(id))

(* What no error is reported of to those who find the artifact in c: a Remove  *)
(* has left off half-way, or its writer found another's leftovers in tmp.    *)
Flawed(id) ==
  \/ disk[id] = "cut" /\ id \in halfRemoved
  \/ disk[id] = "mixed" /\ id \in leftovers

(* A reader has a whole artifact before it until it calls unlock, whatever   *)
(* is created, aborted or removed meanwhile.  The exceptions are those the   *)
(* cache itself cannot see: an artifact that was flawed before it was opened. *)
ReaderSeesWholeArtifact ==
  \A p \in Procs : pc[p] = "reading" => disk[at[p]] = "whole" \/ Flawed(at[p])

(* What is in c and not whole has a Remove at work on it, or is flawed. *)
WholeOrFlawed(id) ==
  \/ disk[id] = "whole"
  \/ disk[id] = "cut" /\ \E p \in Holders(id) : pc[p] = "removing"
  \/ Flawed(id)

(* Only what its writer has finished ever gets into c, across restarts.      *)
CommittedIsWhole == \A id \in IDs : disk[id] # "none" => WholeOrFlawed(id)

(* Why only finished artifacts are committed: a writer that is filling its    *)
(* directory, or has filled it, finds there what it wrote.                  *)
WritersFill ==
  \A p \in Procs :
    /\ pc[p] = "writing" => tmp[at[p]] \in {"part", "stale"}
    /\ pc[p] = "written" => tmp[at[p]] \in {"whole", "mixed"}

(* What is in tmp has its writer at work on it or was left over by one, and   *)
(* nothing else is found there by the next.                                 *)
TmpHasAWriter ==
  \A id \in IDs :
    /\ tmp[id] \in {"stale", "mixed"} => id \in leftovers
    /\ tmp[id] # "none" =>
         id \in leftovers \/ \E p \in Holders(id) : pc[p] \in {"writing", "written"}

(* The inductive invariant: exclusion makes the contents what they are.      *)
IInv ==
  /\ TypeOK
  /\ LocksAreHeld
  /\ WritersFill
  /\ TmpHasAWriter
  /\ CommittedIsWhole
  /\ ReaderSeesWholeArtifact

(* A committed artifact is immutable: it leaves the cache only by Remove.   *)
CommittedStays ==
  [][\A id \in IDs : disk[id] = "whole" =>
       disk'[id] = "whole" \/ \E p \in Holders(id) : pc[p] = "removing"]_vars
=============================================================================
