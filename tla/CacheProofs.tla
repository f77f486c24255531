---------------------------- MODULE CacheProofs ----------------------------
(* Proofs about ArtifactCache, for any set of artifacts, any finite set of   *)
(* goroutines, any number of restarts, and commits, aborts and removals that *)
(* fail, before or midway, whenever they may; and, in the second part, about *)
(* Transfer, which adds downloads to it, for any number of entries and       *)
(* senders that can list and read all they have to send.                     *)
EXTENDS Transfer, FiniteSetTheorems, TLAPS

-----------------------------------------------------------------------------
(* The goroutines are finitely many, hence so are the readers of an artifact. *)
LEMMA ReadersAreFinite ==
  ASSUME NEW id
  PROVE  IsFiniteSet(Readers(id)) /\ Cardinality(Readers(id)) \in Nat
<1>1. Readers(id) \in SUBSET Procs
  BY DEF Readers
<1> QED
  BY <1>1, ProcsAssumption, FS_Subset, FS_CardinalityType

(* What a step does to the role of a goroutine, apart from which one it is:  *)
(* nobody but p moves.                                                       *)
OnlyMoves(p) ==
  \A q \in Procs : q # p => pc'[q] = pc[q] /\ at'[q] = at[q]

(* A step that leaves every goroutine in its role and the lock sets alone    *)
(* leaves the locks sound.                                                   *)
LEMMA SameRoles ==
  ASSUME LocksAreHeld, UNCHANGED <<writeLocked, readLocked>>,
         \A id \in IDs : Readers(id)' = Readers(id) /\ Holders(id)' = Holders(id)
  PROVE  LocksAreHeld'
BY DEF LocksAreHeld, WriterIsAlone

LEMMA MoveInRole ==
  ASSUME TypeOK, LocksAreHeld, NEW p \in Procs, OnlyMoves(p),
         UNCHANGED <<writeLocked, readLocked>>,
         pc[p] \in ReadPcs <=> pc'[p] \in ReadPcs,
         pc[p] \in WritePcs <=> pc'[p] \in WritePcs,
         pc[p] = "idle" \/ at'[p] = at[p]
  PROVE  LocksAreHeld'
<1>1. pc[p] = "idle" => pc[p] \notin ReadPcs /\ pc[p] \notin WritePcs
  BY DEF ReadPcs, WritePcs
<1>2. \A id \in IDs : Readers(id)' = Readers(id) /\ Holders(id)' = Holders(id)
  BY <1>1 DEF Readers, Holders, OnlyMoves
<1> QED
  BY <1>2, SameRoles

(* readLock: one reader more, where there is no writer. *)
LEMMA EnterRead ==
  ASSUME TypeOK, LocksAreHeld, NEW p \in Procs, NEW id \in IDs, OnlyMoves(p),
         pc[p] = "idle", at'[p] = id, pc'[p] \in ReadPcs,
         id \notin writeLocked, writeLocked' = writeLocked,
         readLocked' = [readLocked EXCEPT ![id] = @ + 1]
  PROVE  LocksAreHeld'
<1>1. \A k \in IDs : Holders(k)' = Holders(k)
  BY DEF Holders, OnlyMoves, ReadPcs, WritePcs
<1>2. Readers(id)' = Readers(id) \cup {p} /\ p \notin Readers(id)
  BY DEF Readers, OnlyMoves, ReadPcs
<1>3. \A k \in IDs : k # id => Readers(k)' = Readers(k)
  BY DEF Readers, OnlyMoves, ReadPcs
<1>4. Cardinality(Readers(id)') = Cardinality(Readers(id)) + 1
  <2>1. IsFiniteSet(Readers(id))
    BY ReadersAreFinite
  <2>2. Cardinality(Readers(id) \cup {p}) = Cardinality(Readers(id)) + 1
    BY <1>2, <2>1, FS_AddElement
  <2> QED
    BY <1>2, <2>2
<1>5. Holders(id) = {}
  BY DEF LocksAreHeld
<1>6. \A k \in IDs : readLocked'[k] = IF k = id THEN readLocked[k] + 1 ELSE readLocked[k]
  BY DEF TypeOK
<1>7. \A k \in IDs : readLocked'[k] = Cardinality(Readers(k)')
  BY <1>3, <1>4, <1>6 DEF LocksAreHeld
<1>8. WriterIsAlone'
  BY <1>1, <1>3, <1>5 DEF LocksAreHeld, WriterIsAlone
<1> QED
  BY <1>1, <1>7, <1>8 DEF LocksAreHeld

(* readUnlock: the reader that leaves is the one that was counted. *)
LEMMA LeaveRead ==
  ASSUME TypeOK, LocksAreHeld, NEW p \in Procs, OnlyMoves(p),
         pc[p] \in ReadPcs, pc'[p] = "idle", at'[p] = at[p],
         writeLocked' = writeLocked, ReadUnlock(p)
  PROVE  LocksAreHeld'
<1> DEFINE id == at[p]
<1>0. id \in IDs
  BY DEF TypeOK
<1>1. \A k \in IDs : Holders(k)' = Holders(k)
  BY DEF Holders, OnlyMoves, ReadPcs, WritePcs
<1>2. Readers(id)' = Readers(id) \ {p} /\ p \in Readers(id)
  BY DEF Readers, OnlyMoves, ReadPcs
<1>3. \A k \in IDs : k # id => Readers(k)' = Readers(k)
  BY DEF Readers, OnlyMoves, ReadPcs
<1>4. Cardinality(Readers(id)') = Cardinality(Readers(id)) - 1
  <2>1. IsFiniteSet(Readers(id))
    BY ReadersAreFinite
  <2>2. Cardinality(Readers(id) \ {p}) = Cardinality(Readers(id)) - 1
    BY <1>2, <2>1, FS_RemoveElement
  <2> QED
    BY <1>2, <2>2
<1>5. \A k \in IDs : readLocked'[k] = IF k = id THEN readLocked[k] - 1 ELSE readLocked[k]
  BY DEF TypeOK, ReadUnlock
<1>6. \A k \in IDs : readLocked'[k] = Cardinality(Readers(k)')
  BY <1>0, <1>3, <1>4, <1>5 DEF LocksAreHeld
<1>7. WriterIsAlone'
  BY <1>1, <1>2, <1>3 DEF LocksAreHeld, WriterIsAlone
<1> QED
  BY <1>1, <1>6, <1>7 DEF LocksAreHeld

(* writeLock: a writer where there was neither writer nor reader. *)
LEMMA EnterWrite ==
  ASSUME TypeOK, LocksAreHeld, NEW p \in Procs, NEW id \in IDs, OnlyMoves(p),
         pc[p] = "idle", at'[p] = id, pc'[p] \in WritePcs,
         id \notin writeLocked, ~(readLocked[id] > 0),
         writeLocked' = writeLocked \cup {id}, readLocked' = readLocked
  PROVE  LocksAreHeld'
<1>1. \A k \in IDs : Readers(k)' = Readers(k)
  BY DEF Readers, OnlyMoves, ReadPcs, WritePcs
<1>2. \A k \in IDs : k # id => Holders(k)' = Holders(k)
  BY DEF Holders, OnlyMoves, WritePcs
<1>3. Holders(id) = {}
  BY DEF LocksAreHeld
<1>4. Holders(id)' = {p}
  BY <1>3 DEF Holders, OnlyMoves
<1>5. Readers(id) = {}
  <2>1. Cardinality(Readers(id)) = 0
    BY ReadersAreFinite DEF LocksAreHeld
  <2> QED
    BY <2>1, ReadersAreFinite, FS_EmptySet
<1>6. WriterIsAlone'
  BY <1>1, <1>2, <1>4, <1>5 DEF LocksAreHeld, WriterIsAlone
<1>7. \A k \in IDs : k \in writeLocked' <=> Holders(k)' # {}
  BY <1>2, <1>4 DEF LocksAreHeld
<1> QED
  BY <1>1, <1>6, <1>7 DEF LocksAreHeld

(* writeUnlock: the lock that is given back is the caller's own. *)
LEMMA LeaveWrite ==
  ASSUME TypeOK, LocksAreHeld, NEW p \in Procs, OnlyMoves(p),
         pc[p] \in WritePcs, pc'[p] = "idle", at'[p] = at[p],
         WriteUnlock(p), readLocked' = readLocked
  PROVE  LocksAreHeld'
<1> DEFINE id == at[p]
<1>0. id \in IDs
  BY DEF TypeOK
<1>1. \A k \in IDs : Readers(k)' = Readers(k)
  BY DEF Readers, OnlyMoves, ReadPcs, WritePcs
<1>2. \A k \in IDs : k # id => Holders(k)' = Holders(k)
  BY DEF Holders, OnlyMoves, WritePcs
<1>3. Holders(id) = {p}
  BY <1>0 DEF Holders, LocksAreHeld, WriterIsAlone
<1>4. Holders(id)' = {}
  BY <1>3 DEF Holders, OnlyMoves, WritePcs
<1>5. WriterIsAlone'
  BY <1>1, <1>2, <1>4 DEF LocksAreHeld, WriterIsAlone
<1>6. \A k \in IDs : k \in writeLocked' <=> Holders(k)' # {}
  BY <1>2, <1>4 DEF LocksAreHeld, WriteUnlock
<1> QED
  BY <1>1, <1>5, <1>6 DEF LocksAreHeld

-----------------------------------------------------------------------------
(* An action moves the program counter of its own goroutine.                 *)
LEMMA GotoMoves ==
  ASSUME TypeOK, NEW p \in Procs, NEW label, Goto(p, label),
         at' = at \/ \E id \in IDs : at' = [at EXCEPT ![p] = id]
  PROVE  OnlyMoves(p) /\ pc'[p] = label
BY DEF TypeOK, Goto, OnlyMoves

(* Get keeps the locks sound. *)
LEMMA GetLocks ==
  ASSUME TypeOK, LocksAreHeld, NEW p \in Procs, Get(p)
  PROVE  LocksAreHeld'
<1>1. ASSUME NEW id \in IDs, GetRefused(p, id)
      PROVE  LocksAreHeld'
  <2>1. OnlyMoves(p) /\ pc[p] = "idle" /\ pc'[p] = "idle"
    BY <1>1, GotoMoves DEF GetRefused, Call, Return
  <2> QED
    BY <1>1, <2>1, MoveInRole DEF GetRefused
<1>2. ASSUME NEW id \in IDs, GetLock(p, id)
      PROVE  LocksAreHeld'
  <2>1. OnlyMoves(p) /\ pc[p] = "idle" /\ pc'[p] = "stat"
    BY <1>2, GotoMoves DEF GetLock, Call
  <2>2. at'[p] = id
    BY <1>2 DEF GetLock, Call, TypeOK
  <2>3. pc'[p] \in ReadPcs
    BY <2>1 DEF ReadPcs
  <2> QED
    BY <1>2, <2>1, <2>2, <2>3, EnterRead DEF GetLock
<1>3. CASE GetStat(p)
  <2>1. \E label \in {"miss", "reading"} : Goto(p, label)
    BY <1>3 DEF GetStat
  <2>2. OnlyMoves(p) /\ pc[p] = "stat" /\ pc'[p] \in {"miss", "reading"} /\ at' = at
    BY <1>3, <2>1, GotoMoves DEF GetStat
  <2>3. /\ pc[p] \in ReadPcs /\ pc'[p] \in ReadPcs
        /\ pc[p] \notin WritePcs /\ pc'[p] \notin WritePcs
    BY <2>2 DEF ReadPcs, WritePcs
  <2> QED
    BY <1>3, <2>2, <2>3, MoveInRole DEF GetStat
<1>4. CASE GetMiss(p) \/ Unlock(p)
  <2>1. /\ OnlyMoves(p) /\ pc[p] \in ReadPcs /\ pc'[p] = "idle" /\ at' = at
        /\ writeLocked' = writeLocked /\ ReadUnlock(p)
    BY <1>4, GotoMoves DEF GetMiss, Unlock, Return, ReadPcs
  <2> QED
    BY <2>1, LeaveRead
<1> QED
  BY <1>1, <1>2, <1>3, <1>4 DEF Get

(* writeLock keeps the locks sound, whether or not it grants one. *)
LEMMA WriteLockLocks ==
  ASSUME TypeOK, LocksAreHeld, NEW p \in Procs, NEW id \in IDs, NEW remove,
         NEW next \in WritePcs, WriteLock(p, id, remove, next)
  PROVE  LocksAreHeld'
<1> DEFINE e == WriteLockError(id, remove)
<1>1. pc[p] = "idle" /\ at' = [at EXCEPT ![p] = id] /\ at'[p] = id
  BY DEF WriteLock, Call, TypeOK
<1>2. CASE e = "nil"
  <2>1. writeLocked' = writeLocked \cup {id} /\ Goto(p, next) /\ readLocked' = readLocked
    BY <1>2 DEF WriteLock
  <2>2. OnlyMoves(p) /\ pc'[p] = next
    BY <1>1, <2>1, GotoMoves
  <2>3. id \notin writeLocked /\ ~(readLocked[id] > 0)
    BY <1>2 DEF WriteLockError
  <2> QED
    BY <1>1, <2>1, <2>2, <2>3, EnterWrite
<1>3. CASE e # "nil"
  <2>1. UNCHANGED <<writeLocked, readLocked>> /\ Goto(p, "idle")
    BY <1>3 DEF WriteLock, Return
  <2>2. OnlyMoves(p) /\ pc'[p] = "idle"
    BY <1>1, <2>1, GotoMoves
  <2> QED
    BY <1>1, <2>1, <2>2, MoveInRole
<1> QED
  BY <1>2, <1>3

(* The steps of a writer that keep its lock. *)
LEMMA WriterMoves ==
  ASSUME TypeOK, LocksAreHeld, NEW p \in Procs,
         \/ CreateDir(p) \/ Fill(p) \/ FillOver(p) \/ CommitRename(p) \/ CommitFails(p)
         \/ AbortRemove(p) \/ RemovePart(p)
  PROVE  LocksAreHeld'
<1>1. /\ at' = at /\ UNCHANGED <<writeLocked, readLocked>> /\ pc[p] \in WritePcs
      /\ pc' = pc \/ \E label \in WritePcs : Goto(p, label)
  BY DEF CreateDir, Fill, FillOver, CommitRename, CommitFails, AbortRemove, AbortRemoves,
     AbortRemoveFails, RemovePart, WritePcs
<1>2. OnlyMoves(p) /\ pc'[p] \in WritePcs
  BY <1>1, GotoMoves DEF OnlyMoves
<1>3. pc[p] \notin ReadPcs /\ pc'[p] \notin ReadPcs
  BY <1>1, <1>2 DEF ReadPcs, WritePcs
<1> QED
  BY <1>1, <1>2, <1>3, MoveInRole

(* The steps of a writer that give its lock back. *)
LEMMA WriterLeaves ==
  ASSUME TypeOK, LocksAreHeld, NEW p \in Procs,
         \/ CreateDirFails(p) \/ CommitUnlock(p) \/ AbortUnlock(p) \/ RemoveRest(p)
         \/ RemoveFails(p)
  PROVE  LocksAreHeld'
<1>1. /\ at' = at /\ pc[p] \in WritePcs /\ Goto(p, "idle")
      /\ WriteUnlock(p) /\ readLocked' = readLocked
  BY DEF CreateDirFails, CommitUnlock, AbortUnlock, RemoveRest, RemoveFails, Return,
     WritePcs
<1>2. OnlyMoves(p) /\ pc'[p] = "idle"
  BY <1>1, GotoMoves
<1> QED
  BY <1>1, <1>2, LeaveWrite

(* A new process starts with no goroutine at work and no lock. *)
LEMMA FreshLocks ==
  ASSUME writeLocked' = {}, readLocked' = [id \in IDs |-> 0],
         \A p \in Procs : pc'[p] = "idle"
  PROVE  LocksAreHeld'
<1>1. \A id \in IDs : Readers(id)' = {} /\ Holders(id)' = {}
  BY DEF Readers, Holders, ReadPcs, WritePcs
<1> QED
  BY <1>1, FS_EmptySet DEF LocksAreHeld, WriterIsAlone

(* Every step keeps the locks sound. *)
LEMMA LocksStep ==
  ASSUME TypeOK, LocksAreHeld, [Next]_vars
  PROVE  LocksAreHeld'
<1>1. ASSUME NEW p \in Creators, Create(p)
      PROVE  LocksAreHeld'
  <2>1. p \in Procs /\ "mkdir" \in WritePcs
    BY ProcsAssumption DEF WritePcs
  <2> QED
    BY <1>1, <2>1, WriteLockLocks, WriterMoves, WriterLeaves DEF Create, CreateLock
<1>2. ASSUME NEW p \in Removers, Remove(p)
      PROVE  LocksAreHeld'
  <2>1. p \in Procs /\ "removing" \in WritePcs
    BY ProcsAssumption DEF WritePcs
  <2> QED
    BY <1>2, <2>1, WriteLockLocks, WriterMoves, WriterLeaves DEF Remove, RemoveLock
<1>3. CASE Restart
  BY <1>3, FreshLocks DEF Restart
<1>4. CASE UNCHANGED vars
  <2>1. UNCHANGED <<writeLocked, readLocked, pc, at>>
    BY <1>4 DEF vars
  <2> QED
    BY <2>1, SameRoles DEF Readers, Holders
<1> QED
  BY <1>1, <1>2, <1>3, <1>4, GetLocks DEF Next

-----------------------------------------------------------------------------
(* Sound locks keep readLocked in its type: no count falls below zero.       *)
LEMMA TypingStep ==
  ASSUME TypeOK, LocksAreHeld, [Next]_vars
  PROVE  TypeOK'
<1>1. \A id \in IDs : readLocked'[id] \in Nat
  <2>1. \A id \in IDs : Readers(id)' \in SUBSET Procs
    BY DEF Readers
  <2>2. \A id \in IDs : Cardinality(Readers(id)') \in Nat
    BY <2>1, ProcsAssumption, FS_Subset, FS_CardinalityType
  <2> QED
    BY <2>2, LocksStep DEF LocksAreHeld
<1>2. ASSUME NEW p \in Procs, Get(p)
      PROVE  TypeOK'
  BY <1>1, <1>2 DEF TypeOK, Get, GetRefused, GetLock, GetStat, GetMiss, Unlock,
     ReadUnlock, Call, Goto, Return, Pcs, ReadPcs, WritePcs, Errors, pastVars
<1>3. ASSUME NEW p \in Procs, NEW id \in IDs, NEW remove, NEW next \in WritePcs,
             WriteLock(p, id, remove, next)
      PROVE  TypeOK'
  <2>1. WriteLockError(id, remove) \in Errors
    BY DEF WriteLockError, Errors
  <2> QED
    BY <1>3, <2>1 DEF TypeOK, WriteLock, Call, Goto, Return, Pcs, pastVars
<1>4. ASSUME NEW p \in Procs,
             \/ CreateDir(p) \/ CreateDirFails(p) \/ Fill(p) \/ FillOver(p) \/ CommitRename(p)
             \/ CommitFails(p) \/ CommitUnlock(p) \/ AbortRemove(p) \/ AbortUnlock(p)
      PROVE  TypeOK'
  BY <1>4 DEF TypeOK, CreateDir, CreateDirFails, Fill, FillOver, CommitRename, CommitFails,
     CommitUnlock, AbortRemove, AbortRemoves, AbortRemoveFails, AbortUnlock, WriteUnlock,
     Goto, Return, Contents, Errors, Pcs, WritePcs, pastVars
<1>5. ASSUME NEW p \in Procs, RemovePart(p) \/ RemoveRest(p) \/ RemoveFails(p)
      PROVE  TypeOK'
  BY <1>5 DEF TypeOK, RemovePart, RemoveRest, RemoveFails, WriteUnlock, Goto, Return,
     Contents, Errors, Pcs, pastVars
<1>6. CASE Restart
  BY <1>6, MaxCrashesAssumption DEF TypeOK, Restart, NewCache, Contents, Errors, Pcs
<1>7. CASE UNCHANGED vars
  BY <1>7 DEF TypeOK, vars, pastVars
<1>8. "mkdir" \in WritePcs /\ "removing" \in WritePcs
  BY DEF WritePcs
<1>9. ASSUME NEW p \in Creators, Create(p)
      PROVE  TypeOK'
  BY <1>3, <1>4, <1>8, <1>9, ProcsAssumption DEF Create, CreateLock
<1>10. ASSUME NEW p \in Removers, Remove(p)
       PROVE  TypeOK'
  BY <1>3, <1>5, <1>8, <1>10, ProcsAssumption DEF Remove, RemoveLock
<1> QED
  BY <1>2, <1>6, <1>7, <1>9, <1>10 DEF Next

-----------------------------------------------------------------------------
(* Two goroutines that hold one artifact for write are the same one. *)
LEMMA HoldersAreOne ==
  ASSUME TypeOK, LocksAreHeld, NEW p \in Procs, NEW q \in Procs,
         pc[p] \in WritePcs, at[q] = at[p]
  PROVE  /\ pc[q] \in WritePcs => q = p
         /\ pc[q] \notin ReadPcs
<1>1. at[p] \in IDs /\ p \in Holders(at[p])
  BY DEF TypeOK, Holders
<1> QED
  BY <1>1 DEF LocksAreHeld, WriterIsAlone, Holders, Readers

(* A step of one goroutine on its own artifact does not touch the directory   *)
(* another one is filling; its own it fills in order.                        *)
LEMMA FillStep ==
  ASSUME IInv, [Next]_vars
  PROVE  WritersFill'
<1>0. TypeOK /\ LocksAreHeld /\ WritersFill
  BY DEF IInv
<1>1. ASSUME UNCHANGED tmp, UNCHANGED at,
             \A q \in Procs : pc'[q] \in {"writing", "written"} => pc'[q] = pc[q]
      PROVE  WritersFill'
  BY <1>0, <1>1 DEF WritersFill
<1>2. ASSUME NEW p \in Procs,
             CreateDir(p) \/ Fill(p) \/ FillOver(p) \/ CommitRename(p) \/ AbortRemove(p)
      PROVE  WritersFill'
  <2>1. pc[p] \in WritePcs /\ at[p] \in IDs /\ UNCHANGED at
    BY <1>0, <1>2 DEF CreateDir, Fill, FillOver, CommitRename, AbortRemove, AbortRemoves,
       AbortRemoveFails, WritePcs, TypeOK
  <2>2. \A q \in Procs : q # p /\ pc[q] \in {"writing", "written"} => at[q] # at[p]
    BY <1>0, <2>1, HoldersAreOne DEF WritePcs
  <2> QED
    BY <1>0, <1>2, <2>1, <2>2 DEF CreateDir, Fill, FillOver, CommitRename, AbortRemove,
       AbortRemoves, AbortRemoveFails, Goto, WritersFill, TypeOK
<1>3. ASSUME NEW p \in Procs, Get(p)
      PROVE  WritersFill'
  BY <1>0, <1>3 DEF Get, GetRefused, GetLock, GetStat, GetMiss, Unlock, Call, Goto,
     Return, WritersFill, TypeOK
<1>4. ASSUME NEW p \in Procs, NEW id \in IDs, NEW remove, NEW next \in {"mkdir", "removing"},
             WriteLock(p, id, remove, next)
      PROVE  WritersFill'
  BY <1>0, <1>4 DEF WriteLock, Call, Goto, Return, WritersFill, TypeOK
<1>5. ASSUME NEW p \in Procs,
             \/ CreateDirFails(p) \/ CommitFails(p) \/ CommitUnlock(p) \/ AbortUnlock(p)
             \/ RemovePart(p) \/ RemoveRest(p) \/ RemoveFails(p)
      PROVE  WritersFill'
  BY <1>0, <1>1, <1>5 DEF CreateDirFails, CommitFails, CommitUnlock, AbortUnlock,
     RemovePart, RemoveRest, RemoveFails, Goto, Return, TypeOK
<1>6. CASE Restart
  BY <1>6 DEF Restart, WritersFill
<1>7. CASE UNCHANGED vars
  BY <1>0, <1>7 DEF WritersFill, vars
<1>8. ASSUME NEW p \in Creators, Create(p)
      PROVE  WritersFill'
  BY <1>2, <1>4, <1>5, <1>8, ProcsAssumption DEF Create, CreateLock
<1>9. ASSUME NEW p \in Removers, Remove(p)
      PROVE  WritersFill'
  BY <1>4, <1>5, <1>9, ProcsAssumption DEF Remove, RemoveLock
<1> QED
  BY <1>3, <1>6, <1>7, <1>8, <1>9 DEF Next

(* What has happened to an artifact stays recorded. *)
LEMMA PastGrows ==
  ASSUME [Next]_vars
  PROVE  halfRemoved \subseteq halfRemoved' /\ leftovers \subseteq leftovers'
<1>1. ASSUME NEW p \in Procs, Get(p)
      PROVE  UNCHANGED pastVars
  BY <1>1 DEF Get, GetRefused, GetLock, GetStat, GetMiss, Unlock
<1>2. ASSUME NEW p \in Creators, Create(p)
      PROVE  UNCHANGED halfRemoved /\ leftovers \subseteq leftovers'
  BY <1>2 DEF Create, CreateLock, WriteLock, CreateDir, CreateDirFails, Fill, FillOver,
     CommitRename, CommitFails, CommitUnlock, AbortRemove, AbortRemoves, AbortRemoveFails,
     AbortUnlock, pastVars
<1>3. ASSUME NEW p \in Removers, Remove(p)
      PROVE  halfRemoved \subseteq halfRemoved' /\ UNCHANGED leftovers
  BY <1>3 DEF Remove, RemoveLock, WriteLock, RemovePart, RemoveRest, RemoveFails, pastVars
<1> QED
  BY <1>1, <1>2, <1>3 DEF Next, Restart, vars, pastVars

(* A directory in tmp changes hands only when its writer has left it over.   *)
LEMMA TmpStep ==
  ASSUME IInv, [Next]_vars
  PROVE  TmpHasAWriter'
<1>0. /\ TypeOK /\ LocksAreHeld /\ WritersFill /\ TmpHasAWriter
      /\ leftovers \subseteq leftovers'
  BY PastGrows DEF IInv
<1>1. ASSUME NEW p \in Procs, OnlyMoves(p), UNCHANGED tmp,
             pc[p] \notin {"writing", "written"}
      PROVE  TmpHasAWriter'
  BY <1>0, <1>1 DEF OnlyMoves, TmpHasAWriter, Holders, WritePcs, TypeOK
<1>2. ASSUME NEW p \in Procs, OnlyMoves(p), UNCHANGED at, pc[p] \in WritePcs,
             \A k \in IDs : k # at[p] => tmp'[k] = tmp[k],
             \/ tmp'[at[p]] = "none"
             \/ at[p] \in leftovers'
             \/ tmp'[at[p]] \in {"part", "whole"} /\ pc'[p] \in {"writing", "written"}
      PROVE  TmpHasAWriter'
  <2>1. ASSUME NEW k \in IDs, k # at[p]
        PROVE  Holders(k)' = Holders(k) /\ \A q \in Holders(k) : pc'[q] = pc[q]
    BY <1>2, <2>1 DEF OnlyMoves, Holders
  <2>2. pc'[p] \in {"writing", "written"} => p \in Holders(at[p])'
    BY <1>2 DEF Holders, WritePcs
  <2>3. ASSUME NEW k \in IDs, k # at[p]
        PROVE  /\ tmp'[k] \in {"stale", "mixed"} => k \in leftovers'
               /\ tmp'[k] # "none" =>
                    k \in leftovers' \/ \E q \in Holders(k)' : pc'[q] \in {"writing", "written"}
    BY <1>0, <1>2, <2>1, <2>3 DEF TmpHasAWriter
  <2> QED
    BY <1>2, <2>2, <2>3 DEF TmpHasAWriter
<1>3. ASSUME NEW p \in Procs, CreateDir(p)
      PROVE  TmpHasAWriter'
  <2>1. /\ OnlyMoves(p) /\ pc[p] = "mkdir" /\ pc'[p] = "writing" /\ UNCHANGED at
        /\ at[p] \in IDs /\ pc[p] \in WritePcs
    BY <1>0, <1>3, GotoMoves DEF CreateDir, WritePcs, TypeOK
  <2>2. tmp[at[p]] # "none" => at[p] \in leftovers
    BY <1>0, <2>1 DEF TmpHasAWriter, LocksAreHeld, WriterIsAlone, Holders
  <2>3. /\ \A k \in IDs : k # at[p] => tmp'[k] = tmp[k]
        /\ tmp[at[p]] = "none" => tmp'[at[p]] = "part"
    BY <1>0, <1>3, <2>1 DEF CreateDir, TypeOK
  <2> QED
    BY <1>0, <1>2, <2>1, <2>2, <2>3
<1>4. ASSUME NEW p \in Procs, Fill(p) \/ FillOver(p)
      PROVE  TmpHasAWriter'
  <2>1. /\ OnlyMoves(p) /\ pc'[p] = "written" /\ UNCHANGED at
        /\ at[p] \in IDs /\ pc[p] \in WritePcs
    BY <1>0, <1>4, GotoMoves DEF Fill, FillOver, WritePcs, TypeOK
  <2>2. /\ \A k \in IDs : k # at[p] => tmp'[k] = tmp[k]
        /\ tmp'[at[p]] = "whole" \/ tmp[at[p]] = "stale"
    BY <1>0, <1>4, <2>1 DEF Fill, FillOver, TypeOK
  <2> QED
    BY <1>0, <1>2, <2>1, <2>2 DEF TmpHasAWriter
<1>5. ASSUME NEW p \in Procs, CommitRename(p) \/ CommitFails(p) \/ AbortRemove(p)
      PROVE  TmpHasAWriter'
  <2>1. /\ OnlyMoves(p) /\ UNCHANGED at /\ at[p] \in IDs /\ pc[p] \in WritePcs
    BY <1>0, <1>5, GotoMoves DEF CommitRename, CommitFails, AbortRemove, AbortRemoves,
       AbortRemoveFails, WritePcs, TypeOK
  <2>2. /\ \A k \in IDs : k # at[p] => tmp'[k] = tmp[k]
        /\ tmp'[at[p]] = "none" \/ at[p] \in leftovers'
    BY <1>0, <1>5, <2>1 DEF CommitRename, CommitFails, AbortRemove, AbortRemoves,
       AbortRemoveFails, TypeOK
  <2> QED
    BY <1>2, <2>1, <2>2
<1>6. ASSUME NEW p \in Procs, Get(p)
      PROVE  TmpHasAWriter'
  <2>1. /\ UNCHANGED tmp /\ pc[p] \notin {"writing", "written"}
        /\ \E label : Goto(p, label)
        /\ at' = at \/ \E id \in IDs : at' = [at EXCEPT ![p] = id]
    BY <1>6 DEF Get, GetRefused, GetLock, GetStat, GetMiss, Unlock, Call, Return
  <2> QED
    BY <1>0, <1>1, <2>1, GotoMoves
<1>7. ASSUME NEW p \in Procs, NEW id \in IDs, NEW remove, NEW next,
             WriteLock(p, id, remove, next)
      PROVE  TmpHasAWriter'
  <2>1. /\ UNCHANGED tmp /\ pc[p] \notin {"writing", "written"}
        /\ \E label : Goto(p, label)
        /\ at' = [at EXCEPT ![p] = id]
    BY <1>7 DEF WriteLock, Call, Return
  <2> QED
    BY <1>0, <1>1, <2>1, GotoMoves
<1>8. ASSUME NEW p \in Procs,
             \/ CreateDirFails(p) \/ CommitUnlock(p) \/ AbortUnlock(p)
             \/ RemoveRest(p) \/ RemoveFails(p)
      PROVE  TmpHasAWriter'
  <2>1. /\ UNCHANGED <<tmp, at>> /\ pc[p] \notin {"writing", "written"}
        /\ Goto(p, "idle")
    BY <1>8 DEF CreateDirFails, CommitUnlock, AbortUnlock, RemoveRest, RemoveFails, Return
  <2> QED
    BY <1>0, <1>1, <2>1, GotoMoves
<1>9. ASSUME NEW p \in Procs, RemovePart(p)
      PROVE  TmpHasAWriter'
  BY <1>0, <1>9 DEF RemovePart, TmpHasAWriter, Holders
<1>10. CASE Restart
  BY <1>10 DEF Restart, TmpHasAWriter
<1>11. CASE UNCHANGED vars
  BY <1>0, <1>11 DEF TmpHasAWriter, Holders, vars
<1>12. ASSUME NEW p \in Creators, Create(p)
       PROVE  TmpHasAWriter'
  BY <1>3, <1>4, <1>5, <1>7, <1>8, <1>12, ProcsAssumption DEF Create, CreateLock
<1>13. ASSUME NEW p \in Removers, Remove(p)
       PROVE  TmpHasAWriter'
  BY <1>7, <1>8, <1>9, <1>13, ProcsAssumption DEF Remove, RemoveLock
<1> QED
  BY <1>6, <1>10, <1>11, <1>12, <1>13 DEF Next

(* Whatever gets into c is what a writer had finished; only Remove cuts it.  *)
LEMMA CommittedStep ==
  ASSUME IInv, [Next]_vars
  PROVE  CommittedIsWhole'
<1>0. /\ TypeOK /\ LocksAreHeld /\ WritersFill /\ TmpHasAWriter /\ CommittedIsWhole
      /\ halfRemoved \subseteq halfRemoved' /\ leftovers \subseteq leftovers'
  BY PastGrows DEF IInv
<1> USE DEF CommittedIsWhole, WholeOrFlawed, Flawed
<1>1. ASSUME UNCHANGED disk,
             \A id \in IDs, q \in Procs : q \in Holders(id) /\ pc[q] = "removing" =>
               q \in Holders(id)' /\ pc'[q] = "removing"
      PROVE  CommittedIsWhole'
  BY <1>0, <1>1 DEF TypeOK, Holders
<1>2. ASSUME NEW p \in Procs, OnlyMoves(p), UNCHANGED disk,
             pc[p] # "removing" \/ (pc'[p] = "removing" /\ at'[p] = at[p])
      PROVE  CommittedIsWhole'
  BY <1>0, <1>1, <1>2 DEF OnlyMoves, Holders, WritePcs, TypeOK
<1>3. ASSUME NEW p \in Procs, Get(p)
      PROVE  CommittedIsWhole'
  <2>1. /\ UNCHANGED disk /\ pc[p] # "removing"
        /\ \E label : Goto(p, label)
        /\ at' = at \/ \E id \in IDs : at' = [at EXCEPT ![p] = id]
    BY <1>3 DEF Get, GetRefused, GetLock, GetStat, GetMiss, Unlock, Call, Return
  <2> QED
    BY <1>0, <1>2, <2>1, GotoMoves
<1>4. ASSUME NEW p \in Procs, NEW id \in IDs, NEW remove, NEW next,
             WriteLock(p, id, remove, next)
      PROVE  CommittedIsWhole'
  <2>1. /\ UNCHANGED disk /\ pc[p] # "removing"
        /\ \E label : Goto(p, label)
        /\ at' = [at EXCEPT ![p] = id]
    BY <1>4 DEF WriteLock, Call, Return
  <2> QED
    BY <1>0, <1>2, <2>1, GotoMoves
<1>5. ASSUME NEW p \in Procs,
             \/ CreateDir(p) \/ CreateDirFails(p) \/ Fill(p) \/ FillOver(p) \/ CommitFails(p)
             \/ CommitUnlock(p) \/ AbortRemove(p) \/ AbortUnlock(p)
      PROVE  CommittedIsWhole'
  <2>1. /\ UNCHANGED <<disk, at>> /\ pc[p] # "removing"
        /\ \E label : Goto(p, label)
    BY <1>5 DEF CreateDir, CreateDirFails, Fill, FillOver, CommitFails, CommitUnlock,
       AbortRemove, AbortRemoves, AbortRemoveFails, AbortUnlock, Return
  <2> QED
    BY <1>0, <1>2, <2>1, GotoMoves
<1>6. ASSUME NEW p \in Procs, OnlyMoves(p), UNCHANGED at, at[p] \in IDs, pc[p] \in WritePcs,
             \A k \in IDs : k # at[p] => disk'[k] = disk[k],
             disk'[at[p]] # "none" => WholeOrFlawed(at[p])'
      PROVE  CommittedIsWhole'
  <2>1. ASSUME NEW k \in IDs, k # at[p]
        PROVE  Holders(k)' = Holders(k) /\ \A q \in Holders(k) : pc'[q] = pc[q]
    BY <1>6, <2>1 DEF OnlyMoves, Holders
  <2> QED
    BY <1>0, <1>6, <2>1
<1>7. ASSUME NEW p \in Procs, CommitRename(p)
      PROVE  CommittedIsWhole'
  <2>1. /\ pc[p] \in WritePcs /\ UNCHANGED at /\ at[p] \in IDs /\ OnlyMoves(p)
        /\ disk'[at[p]] \in {"whole", "mixed"}
        /\ disk'[at[p]] = "mixed" => at[p] \in leftovers
        /\ \A k \in IDs : k # at[p] => disk'[k] = disk[k]
    BY <1>0, <1>7, GotoMoves DEF CommitRename, WritersFill, TmpHasAWriter, TypeOK, WritePcs
  <2> QED
    BY <1>0, <1>6, <2>1
<1>8. ASSUME NEW p \in Procs, RemovePart(p) \/ RemoveRest(p) \/ RemoveFails(p)
      PROVE  CommittedIsWhole'
  <2>1. /\ pc[p] = "removing" /\ pc[p] \in WritePcs /\ UNCHANGED at /\ at[p] \in IDs
        /\ OnlyMoves(p)
        /\ \A k \in IDs : k # at[p] => disk'[k] = disk[k]
    BY <1>0, <1>8, GotoMoves DEF RemovePart, RemoveRest, RemoveFails, Return, WritePcs, TypeOK,
       OnlyMoves
  <2>2. CASE RemovePart(p)
    <3>1. disk'[at[p]] = "cut" /\ p \in Holders(at[p])' /\ pc'[p] = "removing"
      BY <1>0, <2>1, <2>2 DEF RemovePart, Holders, TypeOK
    <3> QED
      BY <1>6, <2>1, <3>1
  <2>3. CASE RemoveRest(p)
    BY <1>0, <1>6, <2>1, <2>3 DEF RemoveRest, TypeOK
  <2>4. CASE RemoveFails(p)
    <3>1. disk[at[p]] \in {"none", "whole"} \/ Flawed(at[p])'
      BY <1>0, <2>1, <2>4 DEF RemoveFails
    <3> QED
      BY <1>6, <2>1, <2>4, <3>1 DEF RemoveFails
  <2> QED
    BY <1>8, <2>2, <2>3, <2>4
<1>9. CASE Restart
  BY <1>0, <1>9 DEF Restart, NewCache, TypeOK
<1>10. CASE UNCHANGED vars
  BY <1>0, <1>10 DEF Holders, vars, pastVars
<1>11. ASSUME NEW p \in Creators, Create(p)
       PROVE  CommittedIsWhole'
  BY <1>4, <1>5, <1>7, <1>11, ProcsAssumption DEF Create, CreateLock
<1>12. ASSUME NEW p \in Removers, Remove(p)
       PROVE  CommittedIsWhole'
  BY <1>4, <1>8, <1>12, ProcsAssumption DEF Remove, RemoveLock
<1> QED
  BY <1>3, <1>9, <1>10, <1>11, <1>12 DEF Next

(* A step that changes what is on disk is one of a writer, who is alone.     *)
LEMMA DiskStep ==
  ASSUME TypeOK, [Next]_vars, ~Restart
  PROVE  \/ UNCHANGED disk
         \/ \E p \in Procs :
              /\ pc[p] \in WritePcs
              /\ \A id \in IDs : id # at[p] => disk'[id] = disk[id]
<1>1. ASSUME NEW p \in Procs, CommitRename(p) \/ RemovePart(p) \/ RemoveRest(p)
      PROVE  /\ pc[p] \in WritePcs
             /\ \A id \in IDs : id # at[p] => disk'[id] = disk[id]
  BY <1>1 DEF CommitRename, RemovePart, RemoveRest, WritePcs, TypeOK
<1>2. ASSUME NEW p \in Procs, Get(p)
      PROVE  UNCHANGED disk
  BY <1>2 DEF Get, GetRefused, GetLock, GetStat, GetMiss, Unlock
<1>3. ASSUME NEW p \in Creators, Create(p)
      PROVE  UNCHANGED disk \/ CommitRename(p)
  BY <1>3 DEF Create, CreateLock, WriteLock, CreateDir, CreateDirFails, Fill, FillOver,
     CommitFails, CommitUnlock, AbortRemove, AbortRemoves, AbortRemoveFails, AbortUnlock
<1>4. ASSUME NEW p \in Removers, Remove(p)
      PROVE  UNCHANGED disk \/ RemovePart(p) \/ RemoveRest(p)
  BY <1>4 DEF Remove, RemoveLock, WriteLock, RemoveFails
<1>5. CASE UNCHANGED vars
  BY <1>5 DEF vars
<1> QED
  BY <1>1, <1>2, <1>3, <1>4, <1>5, ProcsAssumption DEF Next

(* What a reader has found whole stays whole under its lock.                 *)
LEMMA ReaderStep ==
  ASSUME IInv, [Next]_vars
  PROVE  ReaderSeesWholeArtifact'
<1>0. /\ TypeOK /\ LocksAreHeld /\ CommittedIsWhole /\ ReaderSeesWholeArtifact
      /\ halfRemoved \subseteq halfRemoved' /\ leftovers \subseteq leftovers'
  BY PastGrows DEF IInv
<1>1. CASE Restart
  BY <1>1 DEF Restart, ReaderSeesWholeArtifact
<1>2. ASSUME NEW q \in Procs, pc'[q] = "reading", pc[q] = "reading", ~Restart
      PROVE  at'[q] = at[q] /\ disk'[at[q]] = disk[at[q]]
  <2>1. at'[q] = at[q]
    <3>1. ASSUME NEW p \in Procs, Get(p)
          PROVE  at'[q] = at[q]
      BY <1>0, <1>2, <3>1 DEF Get, GetRefused, GetLock, GetStat, GetMiss, Unlock, Call, TypeOK
    <3>2. ASSUME NEW p \in Creators, Create(p)
          PROVE  at'[q] = at[q]
      BY <1>0, <1>2, <3>2 DEF Create, CreateLock, WriteLock, Call, CreateDir, CreateDirFails,
         Fill, FillOver, CommitRename, CommitFails, CommitUnlock, AbortRemove, AbortRemoves,
         AbortRemoveFails, AbortUnlock, TypeOK
    <3>3. ASSUME NEW p \in Removers, Remove(p)
          PROVE  at'[q] = at[q]
      BY <1>0, <1>2, <3>3 DEF Remove, RemoveLock, WriteLock, Call, RemovePart, RemoveRest,
         RemoveFails, TypeOK
    <3>4. CASE UNCHANGED vars
      BY <3>4 DEF vars
    <3> QED
      BY <1>2, <3>1, <3>2, <3>3, <3>4 DEF Next
  <2>2. at[q] \in IDs /\ pc[q] \in ReadPcs
    BY <1>0, <1>2 DEF TypeOK, ReadPcs
  <2>3. \A p \in Procs : pc[p] \in WritePcs => at[p] # at[q]
    BY <1>0, <2>2, HoldersAreOne
  <2> QED
    BY <1>0, <1>2, <2>1, <2>2, <2>3, DiskStep
<1>3. ASSUME NEW q \in Procs, pc'[q] = "reading", pc[q] # "reading"
      PROVE  disk'[at'[q]] = "whole" \/ Flawed(at[q])'
  <2>1. GetStat(q)
    <3>1. ASSUME NEW p \in Procs, Get(p)
          PROVE  GetStat(q)
      BY <1>0, <1>3, <3>1 DEF Get, GetRefused, GetLock, GetStat, GetMiss, Unlock, Call,
         Goto, Return, TypeOK
    <3>2. ASSUME NEW p \in Creators, Create(p)
          PROVE  FALSE
      BY <1>0, <1>3, <3>2 DEF Create, CreateLock, WriteLock, CreateDir, CreateDirFails,
         Fill, FillOver, CommitRename, CommitFails, CommitUnlock, AbortRemove, AbortRemoves,
         AbortRemoveFails, AbortUnlock, Goto, Return, TypeOK
    <3>3. ASSUME NEW p \in Removers, Remove(p)
          PROVE  FALSE
      BY <1>0, <1>3, <3>3 DEF Remove, RemoveLock, WriteLock, RemovePart, RemoveRest,
         RemoveFails, Goto, Return, TypeOK
    <3>4. ~Restart /\ ~UNCHANGED vars
      BY <1>3 DEF Restart, vars
    <3> QED
      BY <3>1, <3>2, <3>3, <3>4 DEF Next
  <2>2. /\ disk[at[q]] # "none" /\ at[q] \in IDs /\ pc[q] \in ReadPcs
        /\ UNCHANGED <<disk, at, pastVars>>
    BY <1>0, <1>3, <2>1 DEF GetStat, Goto, ReadPcs, TypeOK
  <2>3. \A p \in Holders(at[q]) : FALSE
    BY <1>0, <2>2 DEF LocksAreHeld, WriterIsAlone, Readers
  <2>4. disk[at[q]] = "whole" \/ Flawed(at[q])
    BY <1>0, <2>2, <2>3 DEF CommittedIsWhole, WholeOrFlawed
  <2> QED
    BY <2>2, <2>4 DEF Flawed, pastVars
<1> QED
  BY <1>0, <1>1, <1>2, <1>3 DEF ReaderSeesWholeArtifact, Flawed

-----------------------------------------------------------------------------
(* IInv holds at first and is kept by every step. *)
LEMMA InitIInv == Init => IInv
<1> SUFFICES ASSUME Init
             PROVE  IInv
  OBVIOUS
<1>1. TypeOK
  BY MaxCrashesAssumption DEF Init, TypeOK, Contents, Errors, Pcs
<1>2. \A id \in IDs : Readers(id) = {} /\ Holders(id) = {}
  BY DEF Init, Readers, Holders, ReadPcs, WritePcs
<1>3. LocksAreHeld
  BY <1>2, FS_EmptySet DEF Init, LocksAreHeld, WriterIsAlone
<1> QED
  BY <1>1, <1>3 DEF Init, IInv, WritersFill, TmpHasAWriter, CommittedIsWhole,
     ReaderSeesWholeArtifact

LEMMA IInvStep ==
  ASSUME IInv, [Next]_vars
  PROVE  IInv'
BY LocksStep, TypingStep, FillStep, TmpStep, CommittedStep, ReaderStep DEF IInv

(* The inductive invariant holds of every reachable state. *)
THEOREM CacheInvariance == Spec => []IInv
<1>1. IInv /\ [Next]_vars => IInv'
  BY IInvStep
<1> QED
  BY InitIInv, <1>1, PTL DEF Spec

(* Every reachable state is well typed: no count of readers is negative. *)
THEOREM CacheTypeCorrect == Spec => []TypeOK
<1>1. IInv => TypeOK
  BY DEF IInv
<1> QED
  BY <1>1, CacheInvariance, PTL

(* Writers are alone with their artifact, and the lock sets hold exactly the  *)
(* locks of goroutines at work: no error path leaks or doubles one.          *)
THEOREM LocksAreNeverLeaked == Spec => []LocksAreHeld
<1>1. IInv => LocksAreHeld
  BY DEF IInv
<1> QED
  BY <1>1, CacheInvariance, PTL

(* Only finished artifacts get into the cache, across crashes, and a reader   *)
(* keeps a whole one until it unlocks.  What is not whole was left so by a    *)
(* Remove that stopped half-way, by an error or a crash, or was written over  *)
(* what a failed commit or abort had left in tmp.                           *)
THEOREM ReadersSeeWholeArtifacts ==
  Spec => [](CommittedIsWhole /\ ReaderSeesWholeArtifact)
<1>1. IInv => CommittedIsWhole /\ ReaderSeesWholeArtifact
  BY DEF IInv
<1> QED
  BY <1>1, CacheInvariance, PTL

(* A committed artifact leaves the cache by Remove only. *)
THEOREM CommittedArtifactsStay == Spec => CommittedStays
<1>1. ASSUME IInv, [Next]_vars, NEW id \in IDs, disk[id] = "whole"
      PROVE  disk'[id] = "whole" \/ \E p \in Holders(id) : pc[p] = "removing"
  <2>1. CASE Restart
    BY <1>1, <2>1 DEF Restart, NewCache
  <2>2. ASSUME NEW p \in Procs, CommitRename(p)
        PROVE  disk'[id] = "whole"
    BY <1>1, <2>2 DEF CommitRename, IInv, TypeOK
  <2>3. ASSUME NEW p \in Procs, RemovePart(p) \/ RemoveRest(p)
        PROVE  disk'[id] = "whole" \/ \E q \in Holders(id) : pc[q] = "removing"
    BY <1>1, <2>3 DEF RemovePart, RemoveRest, Holders, WritePcs, IInv, TypeOK
  <2>4. ASSUME NEW p \in Procs, Get(p)
        PROVE  UNCHANGED disk
    BY <2>4 DEF Get, GetRefused, GetLock, GetStat, GetMiss, Unlock
  <2>5. ASSUME NEW p \in Creators, Create(p)
        PROVE  UNCHANGED disk \/ CommitRename(p)
    BY <2>5 DEF Create, CreateLock, WriteLock, CreateDir, CreateDirFails, Fill, FillOver,
       CommitFails, CommitUnlock, AbortRemove, AbortRemoves, AbortRemoveFails, AbortUnlock
  <2>6. ASSUME NEW p \in Removers, Remove(p)
        PROVE  UNCHANGED disk \/ RemovePart(p) \/ RemoveRest(p)
    BY <2>6 DEF Remove, RemoveLock, WriteLock, RemoveFails
  <2>7. CASE UNCHANGED vars
    BY <1>1, <2>7 DEF vars
  <2> QED
    BY <1>1, <2>1, <2>2, <2>3, <2>4, <2>5, <2>6, <2>7, ProcsAssumption DEF Next
<1>2. IInv /\ [Next]_vars =>
        [\A id \in IDs : disk[id] = "whole" =>
           disk'[id] = "whole" \/ \E p \in Holders(id) : pc[p] = "removing"]_vars
  BY <1>1
<1> QED
  BY <1>2, CacheInvariance, PTL DEF Spec, CommittedStays

-----------------------------------------------------------------------------
(* Part two: downloads among the users of the cache. *)

(* The walk and the reads of tarstream.Send succeed. *)
SenderReads == "send" \notin MayFail

(* The part of the typing that the steps below rest on. *)
FetchTyped ==
  /\ fetch \in [Downloaders -> {"idle", "create", "retry", "request", "body", "ending"}]
  /\ sent \in [Downloaders -> 0..Entries]
  /\ end \in [Downloaders -> {"open", "clean", "torn"}]
  /\ got \in [Downloaders -> {"none", "nil", "error"}]

(* A response that ended cleanly carried the whole artifact. *)
CleanIsComplete ==
  \A d \in Downloaders : end[d] = "clean" => sent[d] = Entries

(* Between its Rename and its writeUnlock a writer has its artifact in c. *)
CommittedIsThere ==
  \A p \in Procs : pc[p] = "committed" => disk[at[p]] # "none"

TransferInv == IInv /\ FetchTyped /\ CleanIsComplete /\ CommittedIsThere

-----------------------------------------------------------------------------
LEMMA DownloadersAreProcs == Downloaders \subseteq Procs
BY DownloadersAssumption, ProcsAssumption

LEMMA TransferInitInv == TransferInit => TransferInv
<1> SUFFICES ASSUME TransferInit
             PROVE  TransferInv
  OBVIOUS
<1>1. IInv
  BY InitIInv DEF TransferInit
<1>2. FetchTyped
  BY EntriesAssumption DEF TransferInit, FetchTyped
<1>3. CleanIsComplete /\ CommittedIsThere
  BY DownloadersAreProcs DEF TransferInit, Init, CleanIsComplete, CommittedIsThere
<1> QED
  BY <1>1, <1>2, <1>3 DEF TransferInv

(* Every step of a download is one its goroutine may take under Create, or    *)
(* leaves the cache alone: what Receive takes for the whole artifact is it.   *)
LEMMA DownloadUsesCreate ==
  ASSUME TypeOK, CleanIsComplete, NEW d \in Downloaders,
         DownloadStep(d) \/ \E id \in IDs : Download(d, id)
  PROVE  Create(d) \/ UNCHANGED vars
<1>0. at[d] \in IDs
  BY DownloadersAreProcs DEF TypeOK
<1>1. ASSUME NEW id \in IDs, NEW from, Try(d, id, from)
      PROVE  Create(d)
  BY <1>1 DEF Try, Create
<1>2. CASE Retry(d) \/ \E id \in IDs : Download(d, id)
  BY <1>0, <1>1, <1>2 DEF Retry, Download
<1>3. CASE GiveUp(d) \/ Served(d) \/ Sends(d) \/ SendEnds(d) \/ SendBreaks(d)
  BY <1>3 DEF GiveUp, Served, Sends, SendEnds, SendBreaks, vars
<1>4. CASE MakeDir(d) \/ Refused(d) \/ ReceiveFails(d) \/ Ends(d)
  BY <1>4 DEF MakeDir, Refused, ReceiveFails, Ends, Create
<1>5. CASE Received(d)
  BY <1>5 DEF Received, Create, CleanIsComplete
<1> QED
  BY <1>2, <1>3, <1>4, <1>5 DEF DownloadStep

(* So a step of the whole is a step of the cache, or none of it. *)
LEMMA StepUsesCache ==
  ASSUME TypeOK, CleanIsComplete, [TransferNext]_transferVars
  PROVE  [Next]_vars
<1>1. ASSUME NEW d \in Downloaders, DownloadStep(d) \/ \E id \in IDs : Download(d, id)
      PROVE  [Next]_vars
  BY <1>1, DownloadUsesCreate, DownloadersAssumption DEF Next
<1>2. CASE \E p \in Procs \ Removers : Get(p)
  BY <1>2 DEF Next
<1>3. CASE \E p \in Creators \ Downloaders : Create(p)
  BY <1>3 DEF Next
<1>4. CASE (\E p \in Removers : Remove(p)) \/ TransferRestart
  BY <1>4 DEF Next, TransferRestart
<1>5. CASE UNCHANGED transferVars
  BY <1>5 DEF transferVars
<1> QED
  BY <1>1, <1>2, <1>3, <1>4, <1>5 DEF TransferNext

-----------------------------------------------------------------------------
(* What the steps of one download do to the variables of all. *)
LEMMA DownloadTyped ==
  ASSUME SenderReads, FetchTyped, CleanIsComplete, NEW d \in Downloaders,
         DownloadStep(d) \/ \E id \in IDs : Download(d, id)
  PROVE  /\ FetchTyped'
         /\ CleanIsComplete'
         /\ \A c \in Downloaders : c # d => fetch'[c] = fetch[c] /\ got'[c] = got[c]
<1>1. CASE Retry(d) \/ GiveUp(d) \/ \E id \in IDs : Download(d, id)
  BY <1>1 DEF Retry, GiveUp, Download, Try, DownloadReturns, FetchGoes, Stays, FetchTyped,
     CleanIsComplete
<1>2. CASE MakeDir(d) \/ Served(d) \/ Refused(d)
  BY <1>2 DEF MakeDir, Served, Refused, DownloadReturns, FetchGoes, Stays, FetchTyped,
     CleanIsComplete
<1>3. CASE Sends(d)
  BY <1>3, EntriesAssumption DEF Sends, FetchTyped, CleanIsComplete
<1>4. CASE SendEnds(d) \/ SendBreaks(d)
  BY <1>4 DEF SendEnds, SendBreaks, FetchTyped, CleanIsComplete, SenderReads
<1>5. CASE Received(d) \/ ReceiveFails(d)
  BY <1>5, EntriesAssumption DEF Received, ReceiveFails, FetchGoes, Forget, FetchTyped,
     CleanIsComplete
<1>6. CASE Ends(d)
  BY <1>6 DEF Ends, fetchVars, DownloadReturns, FetchGoes, FetchTyped, CleanIsComplete
<1> QED
  BY <1>1, <1>2, <1>3, <1>4, <1>5, <1>6 DEF DownloadStep

LEMMA FetchStep ==
  ASSUME SenderReads, FetchTyped, CleanIsComplete, [TransferNext]_transferVars
  PROVE  FetchTyped' /\ CleanIsComplete'
<1>1. ASSUME NEW d \in Downloaders, DownloadStep(d) \/ \E id \in IDs : Download(d, id)
      PROVE  FetchTyped' /\ CleanIsComplete'
  BY <1>1, DownloadTyped
<1>2. CASE TransferRestart
  BY <1>2, EntriesAssumption DEF TransferRestart, FetchTyped, CleanIsComplete
<1>3. CASE UNCHANGED fetchVars
  BY <1>3 DEF fetchVars, FetchTyped, CleanIsComplete
<1> QED
  BY <1>1, <1>2, <1>3 DEF TransferNext, transferVars, fetchVars

(* Only the writer itself, whose next step is to unlock, could change what it *)
(* has renamed.                                                              *)
LEMMA CommittedThereStep ==
  ASSUME IInv, CommittedIsThere, [Next]_vars
  PROVE  CommittedIsThere'
<1>0. TypeOK /\ LocksAreHeld /\ WritersFill
  BY DEF IInv
<1>1. ASSUME NEW p \in Procs, CommitRename(p)
      PROVE  CommittedIsThere'
  <2>1. pc[p] \in WritePcs /\ at[p] \in IDs /\ tmp[at[p]] # "none" /\ UNCHANGED at
    BY <1>0, <1>1 DEF CommitRename, WritePcs, TypeOK
  <2>2. \A q \in Procs : q # p /\ pc[q] = "committed" => at[q] # at[p]
    BY <1>0, <2>1, HoldersAreOne DEF WritePcs
  <2> QED
    BY <1>0, <1>1, <2>1, <2>2 DEF CommitRename, Goto, CommittedIsThere, TypeOK
<1>2. ASSUME NEW p \in Procs, RemovePart(p) \/ RemoveRest(p) \/ RemoveFails(p)
      PROVE  CommittedIsThere'
  <2>1. pc[p] = "removing" /\ pc[p] \in WritePcs /\ UNCHANGED at
    BY <1>2 DEF RemovePart, RemoveRest, RemoveFails, WritePcs
  <2>2. \A q \in Procs : pc[q] = "committed" => at[q] # at[p]
    BY <1>0, <2>1, HoldersAreOne DEF WritePcs
  <2> QED
    BY <1>0, <1>2, <2>1, <2>2 DEF RemovePart, RemoveRest, RemoveFails, Return, Goto,
       CommittedIsThere, TypeOK
<1>3. ASSUME NEW p \in Procs, UNCHANGED disk, OnlyMoves(p), pc'[p] # "committed"
      PROVE  CommittedIsThere'
  BY <1>3 DEF OnlyMoves, CommittedIsThere
<1>4. ASSUME NEW p \in Procs, Get(p)
      PROVE  CommittedIsThere'
  <2>1. /\ UNCHANGED disk
        /\ \E label \in {"idle", "stat", "miss", "reading"} : Goto(p, label)
        /\ at' = at \/ \E id \in IDs : at' = [at EXCEPT ![p] = id]
    BY <1>4 DEF Get, GetRefused, GetLock, GetStat, GetMiss, Unlock, Call, Return
  <2> QED
    BY <1>0, <1>3, <2>1, GotoMoves
<1>5. ASSUME NEW p \in Procs, NEW id \in IDs, NEW remove, NEW next \in {"mkdir", "removing"},
             WriteLock(p, id, remove, next)
      PROVE  CommittedIsThere'
  <2>1. /\ UNCHANGED disk
        /\ \E label \in {"idle", "mkdir", "removing"} : Goto(p, label)
        /\ at' = [at EXCEPT ![p] = id]
    BY <1>5 DEF WriteLock, Call, Return
  <2> QED
    BY <1>0, <1>3, <2>1, GotoMoves
<1>6. ASSUME NEW p \in Procs,
             \/ CreateDir(p) \/ CreateDirFails(p) \/ Fill(p) \/ FillOver(p)
             \/ CommitFails(p) \/ CommitUnlock(p) \/ AbortRemove(p) \/ AbortUnlock(p)
      PROVE  CommittedIsThere'
  <2>1. /\ UNCHANGED <<disk, at>>
        /\ \E label \in {"idle", "writing", "written", "commitFailed", "aborted"} :
             Goto(p, label)
    BY <1>6 DEF CreateDir, CreateDirFails, Fill, FillOver, CommitFails, CommitUnlock,
       AbortRemove, AbortRemoves, AbortRemoveFails, AbortUnlock, Return
  <2> QED
    BY <1>0, <1>3, <2>1, GotoMoves
<1>7. CASE Restart
  BY <1>7 DEF Restart, CommittedIsThere
<1>8. CASE UNCHANGED vars
  BY <1>8 DEF CommittedIsThere, vars
<1>9. ASSUME NEW p \in Creators, Create(p)
      PROVE  CommittedIsThere'
  BY <1>1, <1>5, <1>6, <1>9, ProcsAssumption DEF Create, CreateLock
<1>10. ASSUME NEW p \in Removers, Remove(p)
       PROVE  CommittedIsThere'
  BY <1>2, <1>5, <1>10, ProcsAssumption DEF Remove, RemoveLock
<1> QED
  BY <1>4, <1>7, <1>8, <1>9, <1>10 DEF Next

LEMMA TransferInvStep ==
  ASSUME SenderReads, TransferInv, [TransferNext]_transferVars
  PROVE  TransferInv'
<1>1. [Next]_vars
  BY StepUsesCache DEF TransferInv, IInv
<1> QED
  BY <1>1, IInvStep, FetchStep, CommittedThereStep DEF TransferInv

-----------------------------------------------------------------------------
(* The inductive invariant of the cache with downloads among its users. *)
THEOREM TransferInvariance ==
  ASSUME SenderReads
  PROVE  TransferSpec => []TransferInv
<1>1. TransferInv /\ [TransferNext]_transferVars => TransferInv'
  BY SenderReads, TransferInvStep
<1> QED
  BY TransferInitInv, <1>1, PTL DEF TransferSpec

(* Downloads use the cache as ArtifactCache says its users do, whatever breaks *)
(* on the way: all that is proved of the cache holds with them.               *)
THEOREM TransferImplementsCache ==
  ASSUME SenderReads
  PROVE  TransferSpec => UsesTheCache
<1>1. TransferInit => Init
  BY DEF TransferInit
<1>2. TransferInv /\ [TransferNext]_transferVars => [Next]_vars
  BY StepUsesCache DEF TransferInv, IInv
<1> QED
  BY <1>1, <1>2, TransferInvariance, PTL DEF TransferSpec, UsesTheCache, Spec

(* The steps by which a download succeeds leave a committed artifact. *)
LEMMA SuccessIsWhole ==
  ASSUME TransferInv, [TransferNext]_transferVars, SenderReads, NEW d \in Downloaders,
         fetch[d] # "idle" \/ got[d] # "nil",
         fetch'[d] = "idle", got'[d] = "nil"
  PROVE  WholeOrFlawed(at[d])'
<1>0. /\ TypeOK /\ FetchTyped /\ CleanIsComplete /\ CommittedIsThere /\ CommittedIsWhole'
      /\ d \in Procs /\ at[d] \in IDs
  BY DownloadersAreProcs, StepUsesCache, CommittedStep DEF TransferInv, IInv, TypeOK
<1>1. DownloadStep(d) \/ \E id \in IDs : Download(d, id)
  <2>1. ASSUME NEW c \in Downloaders, c # d,
               DownloadStep(c) \/ \E id \in IDs : Download(c, id)
        PROVE  FALSE
    BY <1>0, <2>1, DownloadTyped
  <2>2. CASE TransferRestart
    BY <2>2 DEF TransferRestart
  <2>3. CASE UNCHANGED fetchVars
    BY <2>3 DEF fetchVars
  <2> QED
    BY <2>1, <2>2, <2>3 DEF TransferNext, transferVars, fetchVars
<1>2. ASSUME NEW id \in IDs, NEW from, Try(d, id, from)
      PROVE  WholeOrFlawed(at[d])'
  <2>1. WriteLockError(id, FALSE) = "exists"
    BY <1>0, <1>2 DEF Try, DownloadReturns, FetchGoes, FetchTyped, Stays
  <2>2. disk[id] # "none"
    BY <2>1 DEF WriteLockError
  <2>3. at'[d] = id /\ disk' = disk
    BY <1>0, <1>2 DEF Try, CreateLock, WriteLock, Call, TypeOK
  <2> QED
    BY <1>0, <2>2, <2>3 DEF CommittedIsWhole
<1>3. CASE Retry(d) \/ \E id \in IDs : Download(d, id)
  BY <1>0, <1>2, <1>3 DEF Retry, Download
<1>4. CASE Ends(d)
  <2>1. (CommitUnlock(d) \/ AbortUnlock(d)) /\ err'[d] = "nil"
    BY <1>0, <1>4 DEF Ends, DownloadReturns, FetchGoes, FetchTyped, fetchVars
  <2>2. pc[d] = "committed" /\ UNCHANGED <<disk, at>>
    BY <1>0, <2>1 DEF CommitUnlock, AbortUnlock, Return, TypeOK
  <2> QED
    BY <1>0, <2>2 DEF CommittedIsThere, CommittedIsWhole
<1>5. CASE GiveUp(d) \/ MakeDir(d)
  BY <1>0, <1>5 DEF GiveUp, MakeDir, DownloadReturns, FetchGoes, FetchTyped
<1>6. CASE \/ Served(d) \/ Refused(d) \/ Sends(d) \/ SendEnds(d) \/ SendBreaks(d)
           \/ Received(d) \/ ReceiveFails(d)
  BY <1>0, <1>6 DEF Served, Refused, Sends, SendEnds, SendBreaks, Received, ReceiveFails,
     FetchGoes, Stays, FetchTyped
<1> QED
  BY <1>1, <1>3, <1>4, <1>5, <1>6 DEF DownloadStep

(* Download returns nil only for an artifact that is in the local cache and    *)
(* whole, or flawed as a Remove or a failed commit or abort before it has left *)
(* it, whoever wrote it and whatever breaks: never for a part of one.         *)
THEOREM DownloadsAreWhole ==
  ASSUME SenderReads
  PROVE  TransferSpec => DownloadedIsWhole
<1>1. TransferInv /\ [TransferNext]_transferVars =>
        [\A d \in Downloaders :
           /\ fetch[d] # "idle" \/ got[d] # "nil"
           /\ fetch'[d] = "idle" /\ got'[d] = "nil"
           => WholeOrFlawed(at[d])']_transferVars
  BY SenderReads, SuccessIsWhole
<1> QED
  BY <1>1, TransferInvariance, PTL DEF TransferSpec, DownloadedIsWhole
=============================================================================
