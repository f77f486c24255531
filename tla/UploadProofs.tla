---------------------------- MODULE UploadProofs ----------------------------
(* Proofs about Upload, for any source files, any finite set of builds, any  *)
(* failures and any clients that go away.                                    *)
EXTENDS Upload, FiniteSetTheorems, TLAPS

-----------------------------------------------------------------------------
(* The inductive invariant. *)

\* A file that is whole in the cache and locked by no writer.
Stored(f) == disk[f] = "whole" /\ f \notin writeLocked

FillPcs == Cache!WritePcs \ {"removing"}

\* Checkers read and putters write.
RolesOK ==
  \A b \in Builds : /\ pc[Checker(b)] \in {"idle"} \cup Cache!ReadPcs
                    /\ pc[Putter(b)] \in {"idle"} \cup FillPcs

\* The readers of a file are counted, and it is not locked for write.
ReadersOK ==
  /\ \A f \in Files : readLocked[f] = Cardinality(Cache!Readers(f))
  /\ \A b \in Builds : pc[Checker(b)] # "idle" =>
       /\ at[Checker(b)] \notin writeLocked
       /\ pc[Checker(b)] = "reading" => disk[at[Checker(b)]] = "whole"

\* A leader is in the flight of its file, alone, and works on that file; who
\* shares has a flight; and a putter without a flight is idle.
FlightsOK ==
  /\ \A f \in Files : flight[f] # NoBuild =>
       /\ current[flight[f]] = f /\ at[Putter(flight[f])] = f
       /\ clientPc[flight[f]] \in {"leading", "gone"}
  /\ \A b \in Builds :
       /\ clientPc[b] = "leading" => Leads(b)
       /\ clientPc[b] = "sharing" => current[b] # NoBuild /\ flight[current[b]] # NoBuild
       /\ ~Leads(b) => pc[Putter(b)] = "idle"

\* The file a putter works on is locked and what it writes is its own; a file
\* that is whole and locked is about to be unlocked; and when a leader has come
\* to its end without an error the file is stored.
WritersOK ==
  /\ \A f \in Files :
       /\ disk[f] \in {"none", "whole"}
       /\ disk[f] = "whole" /\ f \in writeLocked =>
            flight[f] # NoBuild /\ pc[Putter(flight[f])] = "committed"
  /\ \A b \in Builds :
       /\ pc[Putter(b)] # "idle" => at[Putter(b)] \in writeLocked
       /\ pc[Putter(b)] = "written" => tmp[at[Putter(b)]] = "whole"
       /\ pc[Putter(b)] = "committed" => disk[at[Putter(b)]] = "whole"
       /\ Leads(b) /\ pc[Putter(b)] = "idle" /\ err[Putter(b)] \in {"nil", "exists"} =>
            Stored(current[b])

\* A source file is unchecked, missing or stored; what the coordinator misses,
\* the client has yet to put or has stored, and nothing is left when it signals.
BuildsOK ==
  \A b \in Builds :
    /\ \A f \in SourceFiles[b] : f \in unchecked[b] \/ f \in missing[b] \/ Stored(f)
    /\ pc[Checker(b)] # "idle" => buildPc[b] = "checking"
    /\ buildPc[b] \in {"started", "ready"} => unchecked[b] = {}
    /\ buildPc[b] = "ready" => uploadDone[b]
    /\ uploadDone[b] => signal[b] # "none"
    /\ clientPc[b] \in {"upload", "leading", "sharing", "signalling", "watching"}
       \/ signal[b] # "none" => buildPc[b] \notin {"none", "checking"}
    /\ clientPc[b] \in {"upload", "leading", "sharing"} =>
         \A f \in missing[b] : f \in putting[b] \/ Stored(f)
    /\ signal[b] # "none" => \A f \in missing[b] : Stored(f)

IInv == TypeOK /\ RolesOK /\ ReadersOK /\ FlightsOK /\ WritersOK /\ BuildsOK

-----------------------------------------------------------------------------
(* The goroutines that use the cache: one checker and one putter per build.  *)
LEMMA ProcFacts ==
  /\ \A b \in Builds : /\ Checker(b) \in Checkers \cup Putters
                       /\ Putter(b) \in Checkers \cup Putters
  /\ \A b, c \in Builds : /\ Checker(b) # Putter(c)
                          /\ Checker(b) = Checker(c) => b = c
                          /\ Putter(b) = Putter(c) => b = c
  /\ \A p \in Checkers \cup Putters : \E b \in Builds : p = Checker(b) \/ p = Putter(b)
BY DEF Checkers, Putters, Checker, Putter

LEMMA ProcsAreFinite == IsFiniteSet(Checkers \cup Putters)
<1>1. [b \in Builds |-> Checker(b)] \in Surjection(Builds, Checkers)
  BY DEF Surjection, Checkers
<1>2. [b \in Builds |-> Putter(b)] \in Surjection(Builds, Putters)
  BY DEF Surjection, Putters
<1>3. IsFiniteSet(Checkers) /\ IsFiniteSet(Putters)
  BY <1>1, <1>2, BuildsAssumption, FS_Surjection
<1> QED
  BY <1>3, FS_Union

\* What the steps of a putter in the cache leave alone.
restVars == <<buildVars, clientVars, flight>>

-----------------------------------------------------------------------------
(* Goroutines keep to their role. *)
LEMMA RolesStep ==
  ASSUME TypeOK, RolesOK, [Next]_vars
  PROVE  RolesOK'
<1> USE ProcFacts DEF TypeOK, Cache!TypeOK, RolesOK, FillPcs, Cache!ReadPcs, Cache!WritePcs,
        cacheVars, restVars
<1>1. ASSUME NEW b \in Builds, StartBuild(b)
      PROVE  RolesOK'
  BY <1>1 DEF StartBuild, BuildGoes
<1>2. ASSUME NEW b \in Builds, CheckFile(b)
      PROVE  RolesOK'
  BY <1>2 DEF CheckFile, Cache!GetLock, Cache!Call, Cache!Goto
<1>3. ASSUME NEW b \in Builds, CheckRefused(b)
      PROVE  RolesOK'
  BY <1>3 DEF CheckRefused, BuildGoes, Cache!GetRefused, Cache!Call, Cache!Return, Cache!Goto
<1>4. ASSUME NEW b \in Builds, CheckStat(b)
      PROVE  RolesOK'
  BY <1>4 DEF CheckStat, Cache!GetStat, Cache!Goto
<1>5. ASSUME NEW b \in Builds, CheckFound(b)
      PROVE  RolesOK'
  BY <1>5 DEF CheckFound, Checked, Cache!Unlock, Cache!ReadUnlock, Cache!Goto
<1>6. ASSUME NEW b \in Builds, CheckMissing(b)
      PROVE  RolesOK'
  BY <1>6 DEF CheckMissing, Checked, Cache!GetMiss, Cache!ReadUnlock, Cache!Return, Cache!Goto
<1>7. ASSUME NEW b \in Builds, Started(b)
      PROVE  RolesOK'
  BY <1>7 DEF Started, BuildGoes
<1>8. ASSUME NEW b \in Builds, UploadDone(b)
      PROVE  RolesOK'
  BY <1>8 DEF UploadDone, BuildGoes
<1>9. ASSUME NEW b \in Builds, BuildCancelled(b)
      PROVE  RolesOK'
  BY <1>9 DEF BuildCancelled, BuildGoes
<1>10. ASSUME NEW b \in Builds, ClientRefused(b)
      PROVE  RolesOK'
  BY <1>10 DEF ClientRefused, ClientGoes
<1>11. ASSUME NEW b \in Builds, ClientStarted(b)
      PROVE  RolesOK'
  BY <1>11 DEF ClientStarted, ClientGoes
<1>12. ASSUME NEW b \in Builds, NEW f \in Files, PutLeads(b, f)
      PROVE  RolesOK'
  BY <1>12 DEF PutLeads, ClientGoes, Cache!CreateLock, Cache!WriteLock, Cache!WriteLockError,
     Cache!Call, Cache!Return, Cache!Goto
<1>13. ASSUME NEW b \in Builds, NEW f \in Files, PutJoins(b, f)
      PROVE  RolesOK'
  BY <1>13 DEF PutJoins, ClientGoes
<1>14. ASSUME NEW b \in Builds, Leads(b), Cache!CreateDir(Putter(b)), UNCHANGED restVars
      PROVE  RolesOK'
  BY <1>14 DEF Cache!CreateDir, Cache!Goto
<1>15. ASSUME NEW b \in Builds, Leads(b), Cache!CreateDirFails(Putter(b)), UNCHANGED restVars
      PROVE  RolesOK'
  BY <1>15 DEF Cache!CreateDirFails, Cache!WriteUnlock, Cache!Return, Cache!Goto
<1>16. ASSUME NEW b \in Builds, Leads(b), Cache!Fill(Putter(b)), UNCHANGED restVars
      PROVE  RolesOK'
  BY <1>16 DEF Cache!Fill, Cache!Goto
<1>17. ASSUME NEW b \in Builds, Leads(b), Cache!CommitRename(Putter(b)), UNCHANGED restVars
      PROVE  RolesOK'
  BY <1>17 DEF Cache!CommitRename, Cache!Goto
<1>18. ASSUME NEW b \in Builds, Leads(b), Cache!CommitFails(Putter(b)), UNCHANGED restVars
      PROVE  RolesOK'
  BY <1>18 DEF Cache!CommitFails, Cache!Goto
<1>19. ASSUME NEW b \in Builds, Leads(b), Cache!CommitUnlock(Putter(b)), UNCHANGED restVars
      PROVE  RolesOK'
  BY <1>19 DEF Cache!CommitUnlock, Cache!WriteUnlock, Cache!Return, Cache!Goto
<1>20. ASSUME NEW b \in Builds, Leads(b), Cache!AbortRemove(Putter(b)), UNCHANGED restVars
      PROVE  RolesOK'
  BY <1>20 DEF Cache!AbortRemove, Cache!AbortRemoves, Cache!AbortRemoveFails, Cache!Goto
<1>21. ASSUME NEW b \in Builds, Leads(b), Cache!AbortUnlock(Putter(b)), UNCHANGED restVars
      PROVE  RolesOK'
  BY <1>21 DEF Cache!AbortUnlock, Cache!WriteUnlock, Cache!Return, Cache!Goto
<1>22. ASSUME NEW b \in Builds, PutReturns(b)
      PROVE  RolesOK'
  BY <1>22 DEF PutReturns, PutAnswered
<1>23. ASSUME NEW b \in Builds, PutPanics(b)
      PROVE  RolesOK'
  BY <1>23 DEF PutPanics, PutAnswered
<1>24. ASSUME NEW b \in Builds, SendSignal(b)
      PROVE  RolesOK'
  BY <1>24 DEF SendSignal, ClientGoes
<1>25. ASSUME NEW b \in Builds, SignalBuild(b)
      PROVE  RolesOK'
  BY <1>25 DEF SignalBuild
<1>26. ASSUME NEW b \in Builds, ClientDies(b)
      PROVE  RolesOK'
  BY <1>26 DEF ClientDies
<1>27. CASE UNCHANGED vars
  BY <1>27 DEF vars
<1> QED
  BY <1>1, <1>2, <1>3, <1>4, <1>5, <1>6, <1>7, <1>8, <1>9, <1>10, <1>11, <1>12, <1>13,
     <1>14, <1>15, <1>16, <1>17, <1>18, <1>19, <1>20, <1>21, <1>22, <1>23, <1>24, <1>25,
     <1>26, <1>27
  DEF Next, Check, Client, Put, PutCopies, PutAborts, restVars

(* A stored file stays stored: no lock is given out on a file that is there, *)
(* and nothing is removed.                                                  *)
LEMMA StoredStays ==
  ASSUME TypeOK, [Next]_vars, NEW g \in Files, Stored(g)
  PROVE  Stored(g)'
<1> USE ProcFacts DEF TypeOK, Cache!TypeOK, Stored, cacheVars, restVars
<1>1. ASSUME NEW b \in Builds, StartBuild(b)
      PROVE  Stored(g)'
  BY <1>1 DEF StartBuild, BuildGoes
<1>2. ASSUME NEW b \in Builds, CheckFile(b)
      PROVE  Stored(g)'
  BY <1>2 DEF CheckFile, Cache!GetLock, Cache!Call, Cache!Goto
<1>3. ASSUME NEW b \in Builds, CheckRefused(b)
      PROVE  Stored(g)'
  BY <1>3 DEF CheckRefused, BuildGoes, Cache!GetRefused, Cache!Call, Cache!Return, Cache!Goto
<1>4. ASSUME NEW b \in Builds, CheckStat(b)
      PROVE  Stored(g)'
  BY <1>4 DEF CheckStat, Cache!GetStat, Cache!Goto
<1>5. ASSUME NEW b \in Builds, CheckFound(b)
      PROVE  Stored(g)'
  BY <1>5 DEF CheckFound, Checked, Cache!Unlock, Cache!ReadUnlock, Cache!Goto
<1>6. ASSUME NEW b \in Builds, CheckMissing(b)
      PROVE  Stored(g)'
  BY <1>6 DEF CheckMissing, Checked, Cache!GetMiss, Cache!ReadUnlock, Cache!Return, Cache!Goto
<1>7. ASSUME NEW b \in Builds, Started(b)
      PROVE  Stored(g)'
  BY <1>7 DEF Started, BuildGoes
<1>8. ASSUME NEW b \in Builds, UploadDone(b)
      PROVE  Stored(g)'
  BY <1>8 DEF UploadDone, BuildGoes
<1>9. ASSUME NEW b \in Builds, BuildCancelled(b)
      PROVE  Stored(g)'
  BY <1>9 DEF BuildCancelled, BuildGoes
<1>10. ASSUME NEW b \in Builds, ClientRefused(b)
      PROVE  Stored(g)'
  BY <1>10 DEF ClientRefused, ClientGoes
<1>11. ASSUME NEW b \in Builds, ClientStarted(b)
      PROVE  Stored(g)'
  BY <1>11 DEF ClientStarted, ClientGoes
<1>12. ASSUME NEW b \in Builds, NEW f \in Files, PutLeads(b, f)
      PROVE  Stored(g)'
  BY <1>12 DEF PutLeads, ClientGoes, Cache!CreateLock, Cache!WriteLock, Cache!WriteLockError,
     Cache!Call, Cache!Return, Cache!Goto
<1>13. ASSUME NEW b \in Builds, NEW f \in Files, PutJoins(b, f)
      PROVE  Stored(g)'
  BY <1>13 DEF PutJoins, ClientGoes
<1>14. ASSUME NEW b \in Builds, Leads(b), Cache!CreateDir(Putter(b)), UNCHANGED restVars
      PROVE  Stored(g)'
  BY <1>14 DEF Cache!CreateDir, Cache!Goto
<1>15. ASSUME NEW b \in Builds, Leads(b), Cache!CreateDirFails(Putter(b)), UNCHANGED restVars
      PROVE  Stored(g)'
  BY <1>15 DEF Cache!CreateDirFails, Cache!WriteUnlock, Cache!Return, Cache!Goto
<1>16. ASSUME NEW b \in Builds, Leads(b), Cache!Fill(Putter(b)), UNCHANGED restVars
      PROVE  Stored(g)'
  BY <1>16 DEF Cache!Fill, Cache!Goto
<1>17. ASSUME NEW b \in Builds, Leads(b), Cache!CommitRename(Putter(b)), UNCHANGED restVars
      PROVE  Stored(g)'
  BY <1>17 DEF Cache!CommitRename, Cache!Goto
<1>18. ASSUME NEW b \in Builds, Leads(b), Cache!CommitFails(Putter(b)), UNCHANGED restVars
      PROVE  Stored(g)'
  BY <1>18 DEF Cache!CommitFails, Cache!Goto
<1>19. ASSUME NEW b \in Builds, Leads(b), Cache!CommitUnlock(Putter(b)), UNCHANGED restVars
      PROVE  Stored(g)'
  BY <1>19 DEF Cache!CommitUnlock, Cache!WriteUnlock, Cache!Return, Cache!Goto
<1>20. ASSUME NEW b \in Builds, Leads(b), Cache!AbortRemove(Putter(b)), UNCHANGED restVars
      PROVE  Stored(g)'
  BY <1>20 DEF Cache!AbortRemove, Cache!AbortRemoves, Cache!AbortRemoveFails, Cache!Goto
<1>21. ASSUME NEW b \in Builds, Leads(b), Cache!AbortUnlock(Putter(b)), UNCHANGED restVars
      PROVE  Stored(g)'
  BY <1>21 DEF Cache!AbortUnlock, Cache!WriteUnlock, Cache!Return, Cache!Goto
<1>22. ASSUME NEW b \in Builds, PutReturns(b)
      PROVE  Stored(g)'
  BY <1>22 DEF PutReturns, PutAnswered
<1>23. ASSUME NEW b \in Builds, PutPanics(b)
      PROVE  Stored(g)'
  BY <1>23 DEF PutPanics, PutAnswered
<1>24. ASSUME NEW b \in Builds, SendSignal(b)
      PROVE  Stored(g)'
  BY <1>24 DEF SendSignal, ClientGoes
<1>25. ASSUME NEW b \in Builds, SignalBuild(b)
      PROVE  Stored(g)'
  BY <1>25 DEF SignalBuild
<1>26. ASSUME NEW b \in Builds, ClientDies(b)
      PROVE  Stored(g)'
  BY <1>26 DEF ClientDies
<1>27. CASE UNCHANGED vars
  BY <1>27 DEF vars
<1> QED
  BY <1>1, <1>2, <1>3, <1>4, <1>5, <1>6, <1>7, <1>8, <1>9, <1>10, <1>11, <1>12, <1>13,
     <1>14, <1>15, <1>16, <1>17, <1>18, <1>19, <1>20, <1>21, <1>22, <1>23, <1>24, <1>25,
     <1>26, <1>27
  DEF Next, Check, Client, Put, PutCopies, PutAborts, restVars

-----------------------------------------------------------------------------
(* Readers are counted. *)
LEMMA ReadersAreFinite ==
  ASSUME NEW f
  PROVE  IsFiniteSet(Cache!Readers(f)) /\ Cardinality(Cache!Readers(f)) \in Nat
<1>1. Cache!Readers(f) \in SUBSET (Checkers \cup Putters)
  BY DEF Cache!Readers
<1> QED
  BY <1>1, ProcsAreFinite, FS_Subset, FS_CardinalityType

Counted == \A f \in Files : readLocked[f] = Cardinality(Cache!Readers(f))

(* A step that moves nobody in or out of reading. *)
LEMMA CountSame ==
  ASSUME Counted, readLocked' = readLocked,
         \A p \in Checkers \cup Putters :
           /\ pc[p] \in Cache!ReadPcs <=> pc'[p] \in Cache!ReadPcs
           /\ pc[p] \in Cache!ReadPcs => at'[p] = at[p]
  PROVE  Counted'
<1>1. \A f \in Files : Cache!Readers(f)' = Cache!Readers(f)
  BY DEF Cache!Readers
<1> QED
  BY <1>1 DEF Counted

(* readLock *)
LEMMA CountEnters ==
  ASSUME TypeOK, Counted, NEW p \in Checkers \cup Putters, NEW g \in Files,
         pc[p] = "idle", pc'[p] = "stat", at'[p] = g,
         \A q \in Checkers \cup Putters : q # p => pc'[q] = pc[q] /\ at'[q] = at[q],
         readLocked' = [readLocked EXCEPT ![g] = @ + 1]
  PROVE  Counted'
<1>1. Cache!Readers(g)' = Cache!Readers(g) \cup {p} /\ p \notin Cache!Readers(g)
  BY DEF Cache!Readers, Cache!ReadPcs
<1>2. \A f \in Files : f # g => Cache!Readers(f)' = Cache!Readers(f)
  BY DEF Cache!Readers, Cache!ReadPcs
<1>3. IsFiniteSet(Cache!Readers(g)) /\ Cardinality(Cache!Readers(g)) \in Nat
  BY ReadersAreFinite
<1>4. Cardinality(Cache!Readers(g) \cup {p}) = Cardinality(Cache!Readers(g)) + 1
  BY <1>1, <1>3, FS_AddElement
<1>5. \A f \in Files : readLocked'[f] = IF f = g THEN readLocked[f] + 1 ELSE readLocked[f]
  BY DEF TypeOK, Cache!TypeOK
<1> QED
  BY <1>1, <1>2, <1>4, <1>5 DEF Counted

(* readUnlock *)
LEMMA CountLeaves ==
  ASSUME TypeOK, Counted, NEW p \in Checkers \cup Putters,
         pc[p] \in Cache!ReadPcs, pc'[p] = "idle", UNCHANGED at,
         \A q \in Checkers \cup Putters : q # p => pc'[q] = pc[q],
         readLocked' = [readLocked EXCEPT ![at[p]] = @ - 1]
  PROVE  Counted'
<1> DEFINE g == at[p]
<1>0. g \in Files
  BY DEF TypeOK, Cache!TypeOK
<1>1. Cache!Readers(g)' = Cache!Readers(g) \ {p} /\ p \in Cache!Readers(g)
  BY DEF Cache!Readers, Cache!ReadPcs
<1>2. \A f \in Files : f # g => Cache!Readers(f)' = Cache!Readers(f)
  BY DEF Cache!Readers, Cache!ReadPcs
<1>3. IsFiniteSet(Cache!Readers(g)) /\ Cardinality(Cache!Readers(g)) \in Nat
  BY ReadersAreFinite
<1>4. Cardinality(Cache!Readers(g) \ {p}) = Cardinality(Cache!Readers(g)) - 1
  BY <1>1, <1>3, FS_RemoveElement
<1>5. \A f \in Files : readLocked'[f] = IF f = g THEN readLocked[f] - 1 ELSE readLocked[f]
  BY DEF TypeOK, Cache!TypeOK
<1> QED
  BY <1>0, <1>1, <1>2, <1>4, <1>5 DEF Counted

(* Every step keeps the count. *)
LEMMA CountStep ==
  ASSUME TypeOK, RolesOK, Counted, [Next]_vars
  PROVE  Counted'
<1> USE ProcFacts DEF TypeOK, Cache!TypeOK, cacheVars, restVars
<1>1. ASSUME NEW b \in Builds, StartBuild(b)
      PROVE  Counted'
  BY <1>1, CountSame DEF StartBuild, BuildGoes, Cache!ReadPcs
<1>2. ASSUME NEW b \in Builds, CheckFile(b)
      PROVE  Counted'
  <2>1. PICK g \in Files : Cache!GetLock(Checker(b), g)
    BY <1>2 DEF CheckFile
  <2>2. /\ pc[Checker(b)] = "idle" /\ pc'[Checker(b)] = "stat" /\ at'[Checker(b)] = g
        /\ \A q \in Checkers \cup Putters : q # Checker(b) => pc'[q] = pc[q] /\ at'[q] = at[q]
        /\ readLocked' = [readLocked EXCEPT ![g] = @ + 1]
    BY <2>1 DEF Cache!GetLock, Cache!Call, Cache!Goto
  <2> QED
    BY <2>2, CountEnters
<1>3. ASSUME NEW b \in Builds, CheckRefused(b)
      PROVE  Counted'
  BY <1>3, CountSame DEF CheckRefused, BuildGoes, Cache!GetRefused, Cache!Call, Cache!Return,
     Cache!Goto, Cache!ReadPcs
<1>4. ASSUME NEW b \in Builds, CheckStat(b)
      PROVE  Counted'
  BY <1>4, CountSame DEF CheckStat, Cache!GetStat, Cache!Goto, Cache!ReadPcs
<1>5. ASSUME NEW b \in Builds, CheckFound(b)
      PROVE  Counted'
  <2>1. /\ pc[Checker(b)] \in Cache!ReadPcs /\ pc'[Checker(b)] = "idle" /\ UNCHANGED at
        /\ \A q \in Checkers \cup Putters : q # Checker(b) => pc'[q] = pc[q]
        /\ readLocked' = [readLocked EXCEPT ![at[Checker(b)]] = @ - 1]
    BY <1>5 DEF CheckFound, Checked, Cache!Unlock, Cache!ReadUnlock, Cache!Goto, Cache!ReadPcs
  <2> QED
    BY <2>1, CountLeaves
<1>6. ASSUME NEW b \in Builds, CheckMissing(b)
      PROVE  Counted'
  <2>1. /\ pc[Checker(b)] \in Cache!ReadPcs /\ pc'[Checker(b)] = "idle" /\ UNCHANGED at
        /\ \A q \in Checkers \cup Putters : q # Checker(b) => pc'[q] = pc[q]
        /\ readLocked' = [readLocked EXCEPT ![at[Checker(b)]] = @ - 1]
    BY <1>6 DEF CheckMissing, Checked, Cache!GetMiss, Cache!ReadUnlock, Cache!Return,
       Cache!Goto, Cache!ReadPcs
  <2> QED
    BY <2>1, CountLeaves
<1>7. ASSUME NEW b \in Builds, Started(b)
      PROVE  Counted'
  BY <1>7, CountSame DEF Started, BuildGoes, Cache!ReadPcs
<1>8. ASSUME NEW b \in Builds, UploadDone(b)
      PROVE  Counted'
  BY <1>8, CountSame DEF UploadDone, BuildGoes, Cache!ReadPcs
<1>9. ASSUME NEW b \in Builds, BuildCancelled(b)
      PROVE  Counted'
  BY <1>9, CountSame DEF BuildCancelled, BuildGoes, Cache!ReadPcs
<1>10. ASSUME NEW b \in Builds, ClientRefused(b)
      PROVE  Counted'
  BY <1>10, CountSame DEF ClientRefused, ClientGoes, Cache!ReadPcs
<1>11. ASSUME NEW b \in Builds, ClientStarted(b)
      PROVE  Counted'
  BY <1>11, CountSame DEF ClientStarted, ClientGoes, Cache!ReadPcs
<1>12. ASSUME NEW b \in Builds, NEW f \in Files, PutLeads(b, f)
      PROVE  Counted'
  BY <1>12, CountSame DEF PutLeads, ClientGoes, Cache!CreateLock, Cache!WriteLock,
     Cache!WriteLockError, Cache!Call, Cache!Return, Cache!Goto, Cache!ReadPcs
<1>13. ASSUME NEW b \in Builds, NEW f \in Files, PutJoins(b, f)
      PROVE  Counted'
  BY <1>13, CountSame DEF PutJoins, ClientGoes, Cache!ReadPcs
<1>14. ASSUME NEW b \in Builds, Leads(b), Cache!CreateDir(Putter(b)), UNCHANGED restVars
      PROVE  Counted'
  BY <1>14, CountSame DEF Cache!CreateDir, Cache!Goto, Cache!ReadPcs
<1>15. ASSUME NEW b \in Builds, Leads(b), Cache!CreateDirFails(Putter(b)), UNCHANGED restVars
      PROVE  Counted'
  BY <1>15, CountSame DEF Cache!CreateDirFails, Cache!WriteUnlock, Cache!Return, Cache!Goto,
     Cache!ReadPcs
<1>16. ASSUME NEW b \in Builds, Leads(b), Cache!Fill(Putter(b)), UNCHANGED restVars
      PROVE  Counted'
  BY <1>16, CountSame DEF Cache!Fill, Cache!Goto, Cache!ReadPcs
<1>17. ASSUME NEW b \in Builds, Leads(b), Cache!CommitRename(Putter(b)), UNCHANGED restVars
      PROVE  Counted'
  BY <1>17, CountSame DEF Cache!CommitRename, Cache!Goto, Cache!ReadPcs
<1>18. ASSUME NEW b \in Builds, Leads(b), Cache!CommitFails(Putter(b)), UNCHANGED restVars
      PROVE  Counted'
  BY <1>18, CountSame DEF Cache!CommitFails, Cache!Goto, Cache!ReadPcs
<1>19. ASSUME NEW b \in Builds, Leads(b), Cache!CommitUnlock(Putter(b)), UNCHANGED restVars
      PROVE  Counted'
  BY <1>19, CountSame DEF Cache!CommitUnlock, Cache!WriteUnlock, Cache!Return, Cache!Goto,
     Cache!ReadPcs
<1>20. ASSUME NEW b \in Builds, Leads(b), Cache!AbortRemove(Putter(b)), UNCHANGED restVars
      PROVE  Counted'
  BY <1>20, CountSame DEF Cache!AbortRemove, Cache!AbortRemoves, Cache!AbortRemoveFails,
     Cache!Goto, Cache!ReadPcs
<1>21. ASSUME NEW b \in Builds, Leads(b), Cache!AbortUnlock(Putter(b)), UNCHANGED restVars
      PROVE  Counted'
  BY <1>21, CountSame DEF Cache!AbortUnlock, Cache!WriteUnlock, Cache!Return, Cache!Goto,
     Cache!ReadPcs
<1>22. ASSUME NEW b \in Builds, PutReturns(b)
      PROVE  Counted'
  BY <1>22, CountSame DEF PutReturns, PutAnswered, Cache!ReadPcs
<1>23. ASSUME NEW b \in Builds, PutPanics(b)
      PROVE  Counted'
  BY <1>23, CountSame DEF PutPanics, PutAnswered, Cache!ReadPcs
<1>24. ASSUME NEW b \in Builds, SendSignal(b)
      PROVE  Counted'
  BY <1>24, CountSame DEF SendSignal, ClientGoes, Cache!ReadPcs
<1>25. ASSUME NEW b \in Builds, SignalBuild(b)
      PROVE  Counted'
  BY <1>25, CountSame DEF SignalBuild, Cache!ReadPcs
<1>26. ASSUME NEW b \in Builds, ClientDies(b)
      PROVE  Counted'
  BY <1>26, CountSame DEF ClientDies, Cache!ReadPcs
<1>27. CASE UNCHANGED vars
  BY <1>27, CountSame DEF vars
<1> QED
  BY <1>1, <1>2, <1>3, <1>4, <1>5, <1>6, <1>7, <1>8, <1>9, <1>10, <1>11, <1>12, <1>13,
     <1>14, <1>15, <1>16, <1>17, <1>18, <1>19, <1>20, <1>21, <1>22, <1>23, <1>24, <1>25,
     <1>26, <1>27
  DEF Next, Check, Client, Put, PutCopies, PutAborts, restVars

(* What createLock comes to, and what the end of an upload does.             *)
LEMMA LeadEffect ==
  ASSUME TypeOK, NEW b \in Builds, NEW f \in Files, PutLeads(b, f)
  PROVE  /\ clientPc[b] = "upload" /\ flight[f] = NoBuild /\ pc[Putter(b)] = "idle"
         /\ f \in putting[b]
         /\ at' = [at EXCEPT ![Putter(b)] = f]
         /\ clientPc' = [clientPc EXCEPT ![b] = "leading"]
         /\ current' = [current EXCEPT ![b] = f]
         /\ flight' = [flight EXCEPT ![f] = b]
         /\ UNCHANGED <<readLocked, tmp, disk, crashes, pastVars, buildVars, putting, signal>>
         /\ \/ /\ disk[f] = "none" /\ f \notin writeLocked /\ ~(readLocked[f] > 0)
               /\ writeLocked' = writeLocked \cup {f}
               /\ pc' = [pc EXCEPT ![Putter(b)] = "mkdir"]
               /\ err' = err
            \/ /\ writeLocked' = writeLocked
               /\ pc' = [pc EXCEPT ![Putter(b)] = "idle"]
               /\ \E e \in {"exists", "writeLocked", "readLocked"} :
                    /\ err' = [err EXCEPT ![Putter(b)] = e]
                    /\ e = "exists" => disk[f] # "none"
<1> DEFINE e == Cache!WriteLockError(f, FALSE)
<1>1. /\ e \in {"exists", "writeLocked", "readLocked", "nil"}
      /\ e = "exists" => disk[f] # "none"
      /\ e = "nil" => disk[f] = "none" /\ f \notin writeLocked /\ ~(readLocked[f] > 0)
  BY DEF Cache!WriteLockError
<1>2. IF e = "nil"
      THEN /\ writeLocked' = writeLocked \cup {f}
           /\ pc' = [pc EXCEPT ![Putter(b)] = "mkdir"]
           /\ err' = err
      ELSE /\ pc' = [pc EXCEPT ![Putter(b)] = "idle"]
           /\ err' = [err EXCEPT ![Putter(b)] = e]
           /\ writeLocked' = writeLocked
  BY DEF PutLeads, Cache!CreateLock, Cache!WriteLock, Cache!Return, Cache!Goto
<1>3. /\ clientPc[b] = "upload" /\ flight[f] = NoBuild /\ pc[Putter(b)] = "idle"
      /\ f \in putting[b]
      /\ at' = [at EXCEPT ![Putter(b)] = f]
      /\ clientPc' = [clientPc EXCEPT ![b] = "leading"]
      /\ current' = [current EXCEPT ![b] = f]
      /\ flight' = [flight EXCEPT ![f] = b]
      /\ UNCHANGED <<readLocked, tmp, disk, crashes, pastVars, buildVars, putting, signal>>
  BY DEF PutLeads, Cache!CreateLock, Cache!WriteLock, Cache!Call, ClientGoes, pastVars,
     Cache!pastVars
<1> HIDE DEF e
<1> QED
  BY <1>1, <1>2, <1>3

LEMMA AnswerEffect ==
  ASSUME TypeOK, NEW b \in Builds, NEW ok \in BOOLEAN, Leads(b), PutAnswered(b, ok)
  PROVE  /\ current[b] \in Files
         /\ \A c \in Builds : c \in Sharers(current[b]) =>
              /\ clientPc'[c] = IF ok THEN "upload" ELSE "error"
              /\ putting'[c] = putting[c] \ {current[b]}
         /\ \A c \in Builds : c \notin Sharers(current[b]) =>
              /\ clientPc'[c] = clientPc[c]
              /\ putting'[c] = putting[c]
              /\ c # b => current'[c] = current[c]
         /\ clientPc' \in [Builds -> {"starting", "upload", "leading", "sharing",
                              "signalling", "watching", "error", "gone"}]
         /\ putting' \in [Builds -> SUBSET Files]
         /\ current' \in [Builds -> Files \cup {NoBuild}]
         /\ flight' = [flight EXCEPT ![current[b]] = NoBuild]
         /\ UNCHANGED <<buildVars, signal>>
<1>1. current[b] \in Files
  BY DEF TypeOK, Leads
<1> QED
  BY <1>1 DEF PutAnswered, TypeOK

(* Their types. *)
LEMMA LeadTypes ==
  ASSUME TypeOK, NEW b \in Builds, NEW f \in Files, PutLeads(b, f)
  PROVE  TypeOK'
<1>1. Cache!TypeOK'
  <2>1. UNCHANGED <<readLocked, tmp, disk, crashes, pastVars>> /\ at' = [at EXCEPT ![Putter(b)] = f]
    BY LeadEffect
  <2>2. writeLocked' = writeLocked \/ writeLocked' = writeLocked \cup {f}
    BY LeadEffect
  <2>3. \E label \in {"mkdir", "idle"} : pc' = [pc EXCEPT ![Putter(b)] = label]
    BY LeadEffect
  <2>4. \/ err' = err
        \/ \E e \in {"exists", "writeLocked", "readLocked"} : err' = [err EXCEPT ![Putter(b)] = e]
    BY LeadEffect
  <2>5. pc' \in [Checkers \cup Putters -> Cache!Pcs]
    BY <2>3 DEF TypeOK, Cache!TypeOK, Cache!Pcs, Cache!WritePcs
  <2>6. err' \in [Checkers \cup Putters -> Cache!Errors]
    BY <2>4 DEF TypeOK, Cache!TypeOK, Cache!Errors
  <2>7. at' \in [Checkers \cup Putters -> Files] /\ writeLocked' \subseteq Files
    BY <2>1, <2>2 DEF TypeOK, Cache!TypeOK
  <2> QED
    BY <2>1, <2>5, <2>6, <2>7 DEF TypeOK, Cache!TypeOK, pastVars
<1>2. /\ clientPc' = [clientPc EXCEPT ![b] = "leading"]
      /\ current' = [current EXCEPT ![b] = f]
      /\ flight' = [flight EXCEPT ![f] = b]
      /\ UNCHANGED <<buildVars, putting, signal>>
  BY LeadEffect
<1> QED
  BY <1>1, <1>2 DEF TypeOK, buildVars

LEMMA AnswerTypes ==
  ASSUME TypeOK, NEW b \in Builds, NEW ok \in BOOLEAN, Leads(b), PutAnswered(b, ok), Cache!TypeOK'
  PROVE  TypeOK'
<1>1. /\ clientPc' \in [Builds -> {"starting", "upload", "leading", "sharing",
                              "signalling", "watching", "error", "gone"}]
      /\ putting' \in [Builds -> SUBSET Files]
      /\ current' \in [Builds -> Files \cup {NoBuild}]
      /\ flight' = [flight EXCEPT ![current[b]] = NoBuild]
      /\ UNCHANGED <<buildVars, signal>>
  BY AnswerEffect
<1> QED
  BY <1>1 DEF TypeOK, buildVars

(* Every step keeps the types: no count of readers is negative.              *)
LEMMA TypingStep ==
  ASSUME TypeOK, RolesOK, Counted, [Next]_vars
  PROVE  TypeOK'
<1>0. \A f \in Files : readLocked'[f] \in Nat
  <2>1. \A f \in Files : Cardinality(Cache!Readers(f)') \in Nat
    <3> SUFFICES ASSUME NEW f \in Files
                 PROVE  Cardinality(Cache!Readers(f)') \in Nat
      OBVIOUS
    <3>1. Cache!Readers(f)' \in SUBSET (Checkers \cup Putters)
      BY DEF Cache!Readers
    <3> QED
      BY <3>1, ProcsAreFinite, FS_Subset, FS_CardinalityType
  <2> QED
    BY <2>1, CountStep DEF Counted
<1>a. ASSUME NEW b \in Builds, PutReturns(b)
      PROVE  TypeOK'
  <2>1. PICK ok \in BOOLEAN : PutAnswered(b, ok)
    BY <1>a DEF PutReturns
  <2>2. Cache!TypeOK'
    BY <1>a DEF PutReturns, cacheVars, pastVars, TypeOK, Cache!TypeOK
  <2> QED
    BY <1>a, <2>1, <2>2, AnswerTypes DEF PutReturns
<1>b. ASSUME NEW b \in Builds, PutPanics(b)
      PROVE  TypeOK'
  <2>1. Cache!TypeOK'
    BY <1>b DEF PutPanics, pastVars, TypeOK, Cache!TypeOK, Cache!Pcs
  <2> QED
    BY <1>b, <2>1, AnswerTypes DEF PutPanics
<1>c. ASSUME NEW b \in Builds, NEW f \in Files, PutLeads(b, f)
      PROVE  TypeOK'
  BY <1>c, LeadTypes
<1> USE ProcFacts DEF TypeOK, Cache!TypeOK, cacheVars, pastVars, Cache!pastVars, buildVars,
        clientVars, restVars, Cache!Contents, Cache!Errors, Cache!Pcs, Cache!ReadPcs, Cache!WritePcs
<1>1. ASSUME NEW b \in Builds, StartBuild(b)
      PROVE  TypeOK'
  BY <1>1 DEF StartBuild, BuildGoes
<1>2. ASSUME NEW b \in Builds, CheckFile(b)
      PROVE  TypeOK'
  BY <1>2, <1>0 DEF CheckFile, Cache!GetLock, Cache!Call, Cache!Goto
<1>3. ASSUME NEW b \in Builds, CheckRefused(b)
      PROVE  TypeOK'
  BY <1>3 DEF CheckRefused, BuildGoes, Cache!GetRefused, Cache!Call, Cache!Return, Cache!Goto
<1>4. ASSUME NEW b \in Builds, CheckStat(b)
      PROVE  TypeOK'
  BY <1>4 DEF CheckStat, Cache!GetStat, Cache!Goto
<1>5. ASSUME NEW b \in Builds, CheckFound(b)
      PROVE  TypeOK'
  BY <1>5, <1>0 DEF CheckFound, Checked, Cache!Unlock, Cache!ReadUnlock, Cache!Goto
<1>6. ASSUME NEW b \in Builds, CheckMissing(b)
      PROVE  TypeOK'
  BY <1>6, <1>0 DEF CheckMissing, Checked, Cache!GetMiss, Cache!ReadUnlock, Cache!Return,
     Cache!Goto
<1>7. ASSUME NEW b \in Builds, Started(b)
      PROVE  TypeOK'
  BY <1>7 DEF Started, BuildGoes
<1>8. ASSUME NEW b \in Builds, UploadDone(b)
      PROVE  TypeOK'
  BY <1>8 DEF UploadDone, BuildGoes
<1>9. ASSUME NEW b \in Builds, BuildCancelled(b)
      PROVE  TypeOK'
  BY <1>9 DEF BuildCancelled, BuildGoes
<1>10. ASSUME NEW b \in Builds, ClientRefused(b)
      PROVE  TypeOK'
  BY <1>10 DEF ClientRefused, ClientGoes
<1>11. ASSUME NEW b \in Builds, ClientStarted(b)
      PROVE  TypeOK'
  BY <1>11 DEF ClientStarted, ClientGoes
<1>12. ASSUME NEW b \in Builds, NEW f \in Files, PutLeads(b, f)
      PROVE  TypeOK'
  BY <1>12, <1>c
<1>13. ASSUME NEW b \in Builds, NEW f \in Files, PutJoins(b, f)
      PROVE  TypeOK'
  BY <1>13 DEF PutJoins, ClientGoes
<1>14. ASSUME NEW b \in Builds, Leads(b), Cache!CreateDir(Putter(b)), UNCHANGED restVars
      PROVE  TypeOK'
  BY <1>14 DEF Cache!CreateDir, Cache!Goto
<1>15. ASSUME NEW b \in Builds, Leads(b), Cache!CreateDirFails(Putter(b)), UNCHANGED restVars
      PROVE  TypeOK'
  BY <1>15 DEF Cache!CreateDirFails, Cache!WriteUnlock, Cache!Return, Cache!Goto
<1>16. ASSUME NEW b \in Builds, Leads(b), Cache!Fill(Putter(b)), UNCHANGED restVars
      PROVE  TypeOK'
  BY <1>16 DEF Cache!Fill, Cache!Goto
<1>17. ASSUME NEW b \in Builds, Leads(b), Cache!CommitRename(Putter(b)), UNCHANGED restVars
      PROVE  TypeOK'
  BY <1>17 DEF Cache!CommitRename, Cache!Goto
<1>18. ASSUME NEW b \in Builds, Leads(b), Cache!CommitFails(Putter(b)), UNCHANGED restVars
      PROVE  TypeOK'
  BY <1>18 DEF Cache!CommitFails, Cache!Goto
<1>19. ASSUME NEW b \in Builds, Leads(b), Cache!CommitUnlock(Putter(b)), UNCHANGED restVars
      PROVE  TypeOK'
  BY <1>19 DEF Cache!CommitUnlock, Cache!WriteUnlock, Cache!Return, Cache!Goto
<1>20. ASSUME NEW b \in Builds, Leads(b), Cache!AbortRemove(Putter(b)), UNCHANGED restVars
      PROVE  TypeOK'
  <2>1. CASE Cache!AbortRemoves(Putter(b))
    BY <1>20, <2>1 DEF Cache!AbortRemoves, Cache!Goto
  <2>2. CASE Cache!AbortRemoveFails(Putter(b))
    BY <1>20, <2>2 DEF Cache!AbortRemoveFails, Cache!Goto
  <2> QED
    BY <1>20, <2>1, <2>2 DEF Cache!AbortRemove
<1>21. ASSUME NEW b \in Builds, Leads(b), Cache!AbortUnlock(Putter(b)), UNCHANGED restVars
      PROVE  TypeOK'
  BY <1>21 DEF Cache!AbortUnlock, Cache!WriteUnlock, Cache!Return, Cache!Goto
<1>22. ASSUME NEW b \in Builds, PutReturns(b)
      PROVE  TypeOK'
  BY <1>22, <1>a
<1>23. ASSUME NEW b \in Builds, PutPanics(b)
      PROVE  TypeOK'
  BY <1>23, <1>b
<1>24. ASSUME NEW b \in Builds, SendSignal(b)
      PROVE  TypeOK'
  BY <1>24 DEF SendSignal, ClientGoes
<1>25. ASSUME NEW b \in Builds, SignalBuild(b)
      PROVE  TypeOK'
  BY <1>25 DEF SignalBuild
<1>26. ASSUME NEW b \in Builds, ClientDies(b)
      PROVE  TypeOK'
  BY <1>26 DEF ClientDies
<1>27. CASE UNCHANGED vars
  BY <1>27 DEF vars
<1> QED
  BY <1>1, <1>2, <1>3, <1>4, <1>5, <1>6, <1>7, <1>8, <1>9, <1>10, <1>11, <1>12, <1>13,
     <1>14, <1>15, <1>16, <1>17, <1>18, <1>19, <1>20, <1>21, <1>22, <1>23, <1>24, <1>25,
     <1>26, <1>27
  DEF Next, Check, Client, Put, PutCopies, PutAborts, restVars

-----------------------------------------------------------------------------
(* The end of an upload answers everybody who shares it, and nobody else.    *)
LEMMA AnswerKeepsFlights ==
  ASSUME TypeOK, FlightsOK, NEW b \in Builds, NEW ok \in BOOLEAN, Leads(b), PutAnswered(b, ok),
         UNCHANGED at, pc'[Putter(b)] = "idle",
         \A c \in Builds : c # b => pc'[Putter(c)] = pc[Putter(c)]
  PROVE  FlightsOK'
<1> DEFINE g == current[b]
<1>1. /\ g \in Files /\ flight[g] = b /\ flight' = [flight EXCEPT ![g] = NoBuild]
      /\ flight \in [Files -> Builds \cup {NoBuild}]
      /\ g # NoBuild
  BY AnswerEffect DEF Leads, TypeOK
<1>2. \A c \in Builds : c \notin Sharers(g) /\ c # b =>
        current'[c] = current[c] /\ clientPc'[c] = clientPc[c]
  BY AnswerEffect
<1>3. \A c \in Builds : c \in Sharers(g) => clientPc'[c] \in {"upload", "error"} /\ current[c] = g
  BY AnswerEffect DEF Sharers
<1>4. \A c \in Builds : c \notin Sharers(g) => clientPc'[c] = clientPc[c]
  BY AnswerEffect
<1>5. ASSUME NEW f \in Files, flight'[f] # NoBuild
      PROVE  /\ current'[flight'[f]] = f /\ at'[Putter(flight'[f])] = f
             /\ clientPc'[flight'[f]] \in {"leading", "gone"}
  <2>1. f # g /\ flight'[f] = flight[f] /\ flight[f] \in Builds
    BY <1>1, <1>5
  <2>2. /\ current[flight[f]] = f /\ at[Putter(flight[f])] = f
        /\ clientPc[flight[f]] \in {"leading", "gone"}
    BY <2>1, <1>5 DEF FlightsOK
  <2>3. flight[f] \notin Sharers(g) /\ flight[f] # b
    BY <2>1, <2>2 DEF Sharers
  <2> QED
    BY <2>1, <2>2, <2>3, <1>2
<1>6. ASSUME NEW c \in Builds
      PROVE  /\ clientPc'[c] = "leading" => Leads(c)'
             /\ clientPc'[c] = "sharing" => current'[c] # NoBuild /\ flight'[current'[c]] # NoBuild
             /\ ~Leads(c)' => pc'[Putter(c)] = "idle"
  <2>1. CASE c = b
    <3>1. b \in Sharers(g) => clientPc'[b] \in {"upload", "error"}
      BY <1>3
    <3>2. b \notin Sharers(g) => clientPc'[b] \notin {"leading", "sharing"}
      BY <1>4 DEF Sharers
    <3> QED
      BY <2>1, <3>1, <3>2
  <2>2. CASE c # b /\ c \in Sharers(g)
    <3>1. current[c] = g /\ ~Leads(c)
      BY <2>2, <1>1, <1>3 DEF Leads
    <3> QED
      BY <2>2, <3>1, <1>3 DEF FlightsOK
  <2>3. CASE c # b /\ c \notin Sharers(g)
    <3>1. current'[c] = current[c] /\ clientPc'[c] = clientPc[c]
      BY <2>3, <1>2
    <3>2. clientPc[c] \in {"leading", "sharing"} => current[c] # g
      BY <2>3 DEF Sharers
    <3>3. Leads(c) => Leads(c)'
      BY <2>3, <3>1, <1>1 DEF Leads, TypeOK
    <3>4. clientPc[c] = "sharing" => flight'[current[c]] = flight[current[c]] /\ current[c] \in Files
      BY <3>2, <1>1 DEF FlightsOK, TypeOK
    <3> QED
      BY <2>3, <3>1, <3>3, <3>4 DEF FlightsOK
  <2> QED
    BY <2>1, <2>2, <2>3
<1> QED
  BY <1>5, <1>6 DEF FlightsOK

(* A request that opens a flight, and one that joins it. *)
LEMMA LeadKeepsFlights ==
  ASSUME TypeOK, FlightsOK, NEW b \in Builds, NEW f \in Files, PutLeads(b, f)
  PROVE  FlightsOK'
<1> USE ProcFacts, NoBuildAssumption
<1>1. /\ clientPc[b] = "upload" /\ flight[f] = NoBuild
      /\ at' = [at EXCEPT ![Putter(b)] = f]
      /\ clientPc' = [clientPc EXCEPT ![b] = "leading"]
      /\ current' = [current EXCEPT ![b] = f]
      /\ flight' = [flight EXCEPT ![f] = b]
      /\ \A c \in Builds : c # b => pc'[Putter(c)] = pc[Putter(c)]
  <2>1. \E label \in {"mkdir", "idle"} : pc' = [pc EXCEPT ![Putter(b)] = label]
    BY LeadEffect
  <2>2. \A c \in Builds : c # b => pc'[Putter(c)] = pc[Putter(c)]
    BY <2>1, ProcFacts DEF TypeOK, Cache!TypeOK
  <2> QED
    BY <2>2, LeadEffect
<1>2. ASSUME NEW g \in Files, flight'[g] # NoBuild
      PROVE  /\ current'[flight'[g]] = g /\ at'[Putter(flight'[g])] = g
             /\ clientPc'[flight'[g]] \in {"leading", "gone"}
  <2>1. CASE g = f
    BY <1>1, <2>1 DEF TypeOK, Cache!TypeOK, FlightsOK, Leads
  <2>2. CASE g # f
    <3>1. flight'[g] = flight[g] /\ flight[g] \in Builds
      BY <1>1, <1>2, <2>2 DEF TypeOK, Cache!TypeOK, FlightsOK, Leads
    <3>2. flight[g] # b
      BY <1>1, <1>2, <3>1 DEF TypeOK, Cache!TypeOK, FlightsOK, Leads
    <3> QED
      BY <1>1, <1>2, <3>1, <3>2 DEF TypeOK, Cache!TypeOK, FlightsOK, Leads
  <2> QED
    BY <2>1, <2>2 DEF TypeOK, Cache!TypeOK, FlightsOK, Leads
<1>3. ASSUME NEW c \in Builds
      PROVE  /\ clientPc'[c] = "leading" => Leads(c)'
             /\ clientPc'[c] = "sharing" => current'[c] # NoBuild /\ flight'[current'[c]] # NoBuild
             /\ ~Leads(c)' => pc'[Putter(c)] = "idle"
  <2>1. CASE c = b
    BY <1>1, <2>1 DEF TypeOK, Cache!TypeOK, FlightsOK, Leads
  <2>2. CASE c # b
    BY <1>1, <2>2 DEF TypeOK, Cache!TypeOK, FlightsOK, Leads
  <2> QED
    BY <2>1, <2>2 DEF TypeOK, Cache!TypeOK, FlightsOK, Leads
<1> QED
  BY <1>2, <1>3 DEF TypeOK, Cache!TypeOK, FlightsOK, Leads

LEMMA JoinKeepsFlights ==
  ASSUME TypeOK, FlightsOK, NEW b \in Builds, NEW f \in Files, PutJoins(b, f)
  PROVE  FlightsOK'
<1> USE ProcFacts, NoBuildAssumption
<1>1. /\ clientPc[b] = "upload" /\ flight[f] # NoBuild /\ UNCHANGED <<flight, at, pc>>
      /\ clientPc' = [clientPc EXCEPT ![b] = "sharing"]
      /\ current' = [current EXCEPT ![b] = f]
  BY DEF PutJoins, ClientGoes, cacheVars
<1>2. ~Leads(b) /\ \A g \in Files : flight[g] # b
  <2>1. \A g \in Files : flight[g] # b
    BY <1>1 DEF FlightsOK
  <2> QED
    BY <2>1 DEF Leads, TypeOK
<1>3. ASSUME NEW g \in Files, flight[g] # NoBuild
      PROVE  /\ current'[flight[g]] = g /\ at[Putter(flight[g])] = g
             /\ clientPc'[flight[g]] \in {"leading", "gone"}
  BY <1>1, <1>2, <1>3 DEF TypeOK, Cache!TypeOK, FlightsOK, Leads
<1>4. ASSUME NEW c \in Builds
      PROVE  /\ clientPc'[c] = "leading" => Leads(c)'
             /\ clientPc'[c] = "sharing" => current'[c] # NoBuild /\ flight[current'[c]] # NoBuild
             /\ ~Leads(c)' => pc[Putter(c)] = "idle"
  <2>1. CASE c = b
    BY <1>1, <1>2, <2>1 DEF TypeOK, Cache!TypeOK, FlightsOK, Leads
  <2>2. CASE c # b
    BY <1>1, <2>2 DEF TypeOK, Cache!TypeOK, FlightsOK, Leads
  <2> QED
    BY <2>1, <2>2 DEF TypeOK, Cache!TypeOK, FlightsOK, Leads
<1> QED
  BY <1>1, <1>3, <1>4 DEF TypeOK, Cache!TypeOK, FlightsOK, Leads

LEMMA PanicKeepsFlights ==
  ASSUME TypeOK, FlightsOK, NEW b \in Builds, PutPanics(b)
  PROVE  FlightsOK'
<1>1. /\ Leads(b) /\ UNCHANGED at /\ PutAnswered(b, FALSE)
      /\ pc' = [pc EXCEPT ![Putter(b)] = "idle"]
  BY DEF PutPanics
<1>2. /\ pc'[Putter(b)] = "idle"
      /\ \A c \in Builds : c # b => pc'[Putter(c)] = pc[Putter(c)]
  BY <1>1, ProcFacts DEF TypeOK, Cache!TypeOK
<1> QED
  BY <1>1, <1>2, AnswerKeepsFlights

LEMMA ReturnKeepsFlights ==
  ASSUME TypeOK, FlightsOK, NEW b \in Builds, PutReturns(b)
  PROVE  FlightsOK'
<1>1. PICK ok \in BOOLEAN : PutAnswered(b, ok)
  BY DEF PutReturns
<1>2. Leads(b) /\ pc[Putter(b)] = "idle" /\ UNCHANGED <<at, pc>>
  BY DEF PutReturns, cacheVars
<1> QED
  BY <1>1, <1>2, AnswerKeepsFlights

(* Flights have one leader, and whoever shares has a flight to share.        *)
LEMMA FlightsStep ==
  ASSUME TypeOK, RolesOK, FlightsOK, [Next]_vars
  PROVE  FlightsOK'
<1>a. ASSUME NEW b \in Builds, PutReturns(b)
      PROVE  FlightsOK'
  BY <1>a, ReturnKeepsFlights
<1>b. ASSUME NEW b \in Builds, PutPanics(b)
      PROVE  FlightsOK'
  BY <1>b, PanicKeepsFlights
<1>c. ASSUME NEW b \in Builds, NEW f \in Files, PutLeads(b, f)
      PROVE  FlightsOK'
  BY <1>c, LeadKeepsFlights
<1>d. ASSUME NEW b \in Builds, NEW f \in Files, PutJoins(b, f)
      PROVE  FlightsOK'
  BY <1>d, JoinKeepsFlights
<1> USE ProcFacts, NoBuildAssumption DEF TypeOK, Cache!TypeOK, FlightsOK, Leads, cacheVars,
   buildVars,
        clientVars, restVars
<1>1. ASSUME NEW b \in Builds, StartBuild(b)
      PROVE  FlightsOK'
  BY <1>1 DEF StartBuild, BuildGoes
<1>2. ASSUME NEW b \in Builds, CheckFile(b)
      PROVE  FlightsOK'
  BY <1>2 DEF CheckFile, Cache!GetLock, Cache!Call, Cache!Goto
<1>3. ASSUME NEW b \in Builds, CheckRefused(b)
      PROVE  FlightsOK'
  BY <1>3 DEF CheckRefused, BuildGoes, Cache!GetRefused, Cache!Call, Cache!Return, Cache!Goto
<1>4. ASSUME NEW b \in Builds, CheckStat(b)
      PROVE  FlightsOK'
  BY <1>4 DEF CheckStat, Cache!GetStat, Cache!Goto
<1>5. ASSUME NEW b \in Builds, CheckFound(b)
      PROVE  FlightsOK'
  BY <1>5 DEF CheckFound, Checked, Cache!Unlock, Cache!ReadUnlock, Cache!Goto
<1>6. ASSUME NEW b \in Builds, CheckMissing(b)
      PROVE  FlightsOK'
  BY <1>6 DEF CheckMissing, Checked, Cache!GetMiss, Cache!ReadUnlock, Cache!Return, Cache!Goto
<1>7. ASSUME NEW b \in Builds, Started(b)
      PROVE  FlightsOK'
  BY <1>7 DEF Started, BuildGoes
<1>8. ASSUME NEW b \in Builds, UploadDone(b)
      PROVE  FlightsOK'
  BY <1>8 DEF UploadDone, BuildGoes
<1>9. ASSUME NEW b \in Builds, BuildCancelled(b)
      PROVE  FlightsOK'
  BY <1>9 DEF BuildCancelled, BuildGoes
<1>10. ASSUME NEW b \in Builds, ClientRefused(b)
      PROVE  FlightsOK'
  BY <1>10 DEF ClientRefused, ClientGoes
<1>11. ASSUME NEW b \in Builds, ClientStarted(b)
      PROVE  FlightsOK'
  BY <1>11 DEF ClientStarted, ClientGoes
<1>12. ASSUME NEW b \in Builds, NEW f \in Files, PutLeads(b, f)
      PROVE  FlightsOK'
  BY <1>12, <1>c
<1>13. ASSUME NEW b \in Builds, NEW f \in Files, PutJoins(b, f)
      PROVE  FlightsOK'
  BY <1>13, <1>d
<1>14. ASSUME NEW b \in Builds, Leads(b), Cache!CreateDir(Putter(b)), UNCHANGED restVars
      PROVE  FlightsOK'
  BY <1>14 DEF Cache!CreateDir, Cache!Goto
<1>15. ASSUME NEW b \in Builds, Leads(b), Cache!CreateDirFails(Putter(b)), UNCHANGED restVars
      PROVE  FlightsOK'
  BY <1>15 DEF Cache!CreateDirFails, Cache!WriteUnlock, Cache!Return, Cache!Goto
<1>16. ASSUME NEW b \in Builds, Leads(b), Cache!Fill(Putter(b)), UNCHANGED restVars
      PROVE  FlightsOK'
  BY <1>16 DEF Cache!Fill, Cache!Goto
<1>17. ASSUME NEW b \in Builds, Leads(b), Cache!CommitRename(Putter(b)), UNCHANGED restVars
      PROVE  FlightsOK'
  BY <1>17 DEF Cache!CommitRename, Cache!Goto
<1>18. ASSUME NEW b \in Builds, Leads(b), Cache!CommitFails(Putter(b)), UNCHANGED restVars
      PROVE  FlightsOK'
  BY <1>18 DEF Cache!CommitFails, Cache!Goto
<1>19. ASSUME NEW b \in Builds, Leads(b), Cache!CommitUnlock(Putter(b)), UNCHANGED restVars
      PROVE  FlightsOK'
  BY <1>19 DEF Cache!CommitUnlock, Cache!WriteUnlock, Cache!Return, Cache!Goto
<1>20. ASSUME NEW b \in Builds, Leads(b), Cache!AbortRemove(Putter(b)), UNCHANGED restVars
      PROVE  FlightsOK'
  BY <1>20 DEF Cache!AbortRemove, Cache!AbortRemoves, Cache!AbortRemoveFails, Cache!Goto
<1>21. ASSUME NEW b \in Builds, Leads(b), Cache!AbortUnlock(Putter(b)), UNCHANGED restVars
      PROVE  FlightsOK'
  BY <1>21 DEF Cache!AbortUnlock, Cache!WriteUnlock, Cache!Return, Cache!Goto
<1>22. ASSUME NEW b \in Builds, PutReturns(b)
      PROVE  FlightsOK'
  BY <1>22, <1>a
<1>23. ASSUME NEW b \in Builds, PutPanics(b)
      PROVE  FlightsOK'
  BY <1>23, <1>b
<1>24. ASSUME NEW b \in Builds, SendSignal(b)
      PROVE  FlightsOK'
  BY <1>24 DEF SendSignal, ClientGoes
<1>25. ASSUME NEW b \in Builds, SignalBuild(b)
      PROVE  FlightsOK'
  BY <1>25 DEF SignalBuild
<1>26. ASSUME NEW b \in Builds, ClientDies(b)
      PROVE  FlightsOK'
  BY <1>26 DEF ClientDies
<1>27. CASE UNCHANGED vars
  BY <1>27 DEF vars
<1> QED
  BY <1>1, <1>2, <1>3, <1>4, <1>5, <1>6, <1>7, <1>8, <1>9, <1>10, <1>11, <1>12, <1>13,
     <1>14, <1>15, <1>16, <1>17, <1>18, <1>19, <1>20, <1>21, <1>22, <1>23, <1>24, <1>25,
     <1>26, <1>27
  DEF Next, Check, Client, Put, PutCopies, PutAborts, restVars

-----------------------------------------------------------------------------
(* A reader's file is locked by no writer while it is counted, and what it    *)
(* has found there stays.                                                    *)
LEMMA CheckersStep ==
  ASSUME TypeOK, RolesOK, ReadersOK, WritersOK, [Next]_vars
  PROVE  \A d \in Builds : pc'[Checker(d)] # "idle" =>
           /\ at'[Checker(d)] \notin writeLocked'
           /\ pc'[Checker(d)] = "reading" => disk'[at'[Checker(d)]] = "whole"
<1>a. ASSUME NEW d \in Builds, pc[Checker(d)] # "idle"
      PROVE  readLocked[at[Checker(d)]] > 0
  <2>1. Checker(d) \in Cache!Readers(at[Checker(d)]) /\ at[Checker(d)] \in Files
    BY <1>a, ProcFacts DEF RolesOK, Cache!Readers, TypeOK, Cache!TypeOK
  <2>2. /\ IsFiniteSet(Cache!Readers(at[Checker(d)]))
        /\ Cardinality(Cache!Readers(at[Checker(d)])) \in Nat
    BY ReadersAreFinite
  <2>3. Cardinality(Cache!Readers(at[Checker(d)])) # 0
    BY <2>1, <2>2, FS_EmptySet
  <2> QED
    BY <2>1, <2>2, <2>3 DEF ReadersOK
<1> SUFFICES ASSUME NEW d \in Builds, pc'[Checker(d)] # "idle"
             PROVE  /\ at'[Checker(d)] \notin writeLocked'
                    /\ pc'[Checker(d)] = "reading" => disk'[at'[Checker(d)]] = "whole"
  OBVIOUS
<1> DEFINE Goal == /\ at'[Checker(d)] \notin writeLocked'
                   /\ pc'[Checker(d)] = "reading" => disk'[at'[Checker(d)]] = "whole"
<1>b. ASSUME NEW b \in Builds, NEW f \in Files, PutLeads(b, f)
      PROVE  Goal
  <2>1. /\ at'[Checker(d)] = at[Checker(d)] /\ pc'[Checker(d)] = pc[Checker(d)] /\ disk' = disk
    BY <1>b, LeadEffect, ProcFacts DEF TypeOK, Cache!TypeOK
  <2>2. writeLocked' = writeLocked \/ (writeLocked' = writeLocked \cup {f} /\ ~(readLocked[f] > 0))
    BY <1>b, LeadEffect
  <2> QED
    BY <2>1, <2>2, <1>a DEF ReadersOK
<1> USE ProcFacts DEF TypeOK, Cache!TypeOK, ReadersOK, cacheVars, restVars
<1>1. ASSUME NEW b \in Builds, StartBuild(b)
      PROVE  Goal
  BY <1>1 DEF StartBuild, BuildGoes
<1>2. ASSUME NEW b \in Builds, CheckFile(b)
      PROVE  Goal
  BY <1>2 DEF CheckFile, Cache!GetLock, Cache!Call, Cache!Goto
<1>3. ASSUME NEW b \in Builds, CheckRefused(b)
      PROVE  Goal
  BY <1>3 DEF CheckRefused, BuildGoes, Cache!GetRefused, Cache!Call, Cache!Return, Cache!Goto
<1>4. ASSUME NEW b \in Builds, CheckStat(b)
      PROVE  Goal
  BY <1>4 DEF CheckStat, Cache!GetStat, Cache!Goto, WritersOK
<1>5. ASSUME NEW b \in Builds, CheckFound(b)
      PROVE  Goal
  BY <1>5 DEF CheckFound, Checked, Cache!Unlock, Cache!ReadUnlock, Cache!Goto
<1>6. ASSUME NEW b \in Builds, CheckMissing(b)
      PROVE  Goal
  BY <1>6 DEF CheckMissing, Checked, Cache!GetMiss, Cache!ReadUnlock, Cache!Return, Cache!Goto
<1>7. ASSUME NEW b \in Builds, Started(b)
      PROVE  Goal
  BY <1>7 DEF Started, BuildGoes
<1>8. ASSUME NEW b \in Builds, UploadDone(b)
      PROVE  Goal
  BY <1>8 DEF UploadDone, BuildGoes
<1>9. ASSUME NEW b \in Builds, BuildCancelled(b)
      PROVE  Goal
  BY <1>9 DEF BuildCancelled, BuildGoes
<1>10. ASSUME NEW b \in Builds, ClientRefused(b)
      PROVE  Goal
  BY <1>10 DEF ClientRefused, ClientGoes
<1>11. ASSUME NEW b \in Builds, ClientStarted(b)
      PROVE  Goal
  BY <1>11 DEF ClientStarted, ClientGoes
<1>12. ASSUME NEW b \in Builds, NEW f \in Files, PutLeads(b, f)
      PROVE  Goal
  BY <1>12, <1>b
<1>13. ASSUME NEW b \in Builds, NEW f \in Files, PutJoins(b, f)
      PROVE  Goal
  BY <1>13 DEF PutJoins, ClientGoes
<1>14. ASSUME NEW b \in Builds, Leads(b), Cache!CreateDir(Putter(b)), UNCHANGED restVars
      PROVE  Goal
  BY <1>14 DEF Cache!CreateDir, Cache!Goto
<1>15. ASSUME NEW b \in Builds, Leads(b), Cache!CreateDirFails(Putter(b)), UNCHANGED restVars
      PROVE  Goal
  BY <1>15 DEF Cache!CreateDirFails, Cache!WriteUnlock, Cache!Return, Cache!Goto
<1>16. ASSUME NEW b \in Builds, Leads(b), Cache!Fill(Putter(b)), UNCHANGED restVars
      PROVE  Goal
  BY <1>16 DEF Cache!Fill, Cache!Goto
<1>17. ASSUME NEW b \in Builds, Leads(b), Cache!CommitRename(Putter(b)), UNCHANGED restVars
      PROVE  Goal
  BY <1>17 DEF Cache!CommitRename, Cache!Goto
<1>18. ASSUME NEW b \in Builds, Leads(b), Cache!CommitFails(Putter(b)), UNCHANGED restVars
      PROVE  Goal
  BY <1>18 DEF Cache!CommitFails, Cache!Goto
<1>19. ASSUME NEW b \in Builds, Leads(b), Cache!CommitUnlock(Putter(b)), UNCHANGED restVars
      PROVE  Goal
  BY <1>19 DEF Cache!CommitUnlock, Cache!WriteUnlock, Cache!Return, Cache!Goto
<1>20. ASSUME NEW b \in Builds, Leads(b), Cache!AbortRemove(Putter(b)), UNCHANGED restVars
      PROVE  Goal
  BY <1>20 DEF Cache!AbortRemove, Cache!AbortRemoves, Cache!AbortRemoveFails, Cache!Goto
<1>21. ASSUME NEW b \in Builds, Leads(b), Cache!AbortUnlock(Putter(b)), UNCHANGED restVars
      PROVE  Goal
  BY <1>21 DEF Cache!AbortUnlock, Cache!WriteUnlock, Cache!Return, Cache!Goto
<1>22. ASSUME NEW b \in Builds, PutReturns(b)
      PROVE  Goal
  BY <1>22 DEF PutReturns, PutAnswered
<1>23. ASSUME NEW b \in Builds, PutPanics(b)
      PROVE  Goal
  BY <1>23 DEF PutPanics, PutAnswered
<1>24. ASSUME NEW b \in Builds, SendSignal(b)
      PROVE  Goal
  BY <1>24 DEF SendSignal, ClientGoes
<1>25. ASSUME NEW b \in Builds, SignalBuild(b)
      PROVE  Goal
  BY <1>25 DEF SignalBuild
<1>26. ASSUME NEW b \in Builds, ClientDies(b)
      PROVE  Goal
  BY <1>26 DEF ClientDies
<1>27. CASE UNCHANGED vars
  BY <1>27 DEF vars
<1> QED
  BY <1>1, <1>2, <1>3, <1>4, <1>5, <1>6, <1>7, <1>8, <1>9, <1>10, <1>11, <1>12, <1>13,
     <1>14, <1>15, <1>16, <1>17, <1>18, <1>19, <1>20, <1>21, <1>22, <1>23, <1>24, <1>25,
     <1>26, <1>27
  DEF Next, Check, Client, Put, PutCopies, PutAborts, restVars

-----------------------------------------------------------------------------
(* A putter that works has the flight of its file: no two work on one.       *)
LEMMA PuttersWorkApart ==
  ASSUME TypeOK, FlightsOK, NEW b \in Builds, pc[Putter(b)] # "idle"
  PROVE  /\ Leads(b) /\ at[Putter(b)] \in Files /\ current[b] = at[Putter(b)]
         /\ flight[at[Putter(b)]] = b
         /\ \A c \in Builds : pc[Putter(c)] # "idle" /\ at[Putter(c)] = at[Putter(b)] => c = b
<1>1. \A c \in Builds : pc[Putter(c)] # "idle" =>
        Leads(c) /\ current[c] \in Files /\ at[Putter(c)] = current[c] /\ flight[current[c]] = c
  BY NoBuildAssumption DEF FlightsOK, Leads, TypeOK
<1> QED
  BY <1>1

\* WritersOK, for one file and for one build.
FileAt(f) ==
  /\ disk[f] \in {"none", "whole"}
  /\ disk[f] = "whole" /\ f \in writeLocked =>
       flight[f] # NoBuild /\ pc[Putter(flight[f])] = "committed"
PutterAt(b) ==
  /\ pc[Putter(b)] # "idle" => at[Putter(b)] \in writeLocked
  /\ pc[Putter(b)] = "written" => tmp[at[Putter(b)]] = "whole"
  /\ pc[Putter(b)] = "committed" => disk[at[Putter(b)]] = "whole"
  /\ Leads(b) /\ pc[Putter(b)] = "idle" /\ err[Putter(b)] \in {"nil", "exists"} =>
       Stored(current[b])

(* The steps that leave putters and the disk alone. *)
LEMMA WritersRest ==
  ASSUME TypeOK, FlightsOK, WritersOK, UNCHANGED <<disk, writeLocked, tmp, flight>>,
         \A b \in Builds : /\ UNCHANGED <<pc[Putter(b)], at[Putter(b)], err[Putter(b)]>>
                           /\ Leads(b)' => Leads(b) /\ current'[b] = current[b]
  PROVE  WritersOK'
<1>1. \A f \in Files : flight[f] # NoBuild => flight[f] \in Builds
  BY DEF TypeOK
<1> QED
  BY <1>1 DEF WritersOK, Stored

(* The steps of a leader in the cache touch its own file only. *)
LEMMA WritersMove ==
  ASSUME TypeOK, FlightsOK, WritersOK, UNCHANGED <<at, current, flight>>,
         NEW b \in Builds, pc[Putter(b)] # "idle", NEW g \in Files, g = at[Putter(b)],
         \A c \in Builds : c # b => UNCHANGED <<pc[Putter(c)], err[Putter(c)]>>,
         \A f \in Files : f # g =>
           /\ UNCHANGED <<disk[f], tmp[f]>>
           /\ f \in writeLocked' <=> f \in writeLocked,
         FileAt(g)', PutterAt(b)'
  PROVE  WritersOK'
<1>1. flight[g] = b /\ current[b] = g /\ Leads(b)
  BY PuttersWorkApart
<1>2. ASSUME NEW f \in Files, f # g
      PROVE  FileAt(f)'
  <2>1. flight[f] # NoBuild => flight[f] \in Builds /\ flight[f] # b
    BY <1>1, <1>2 DEF FlightsOK, TypeOK
  <2>2. FileAt(f)
    BY DEF WritersOK, FileAt
  <2> QED
    BY <1>2, <2>1, <2>2 DEF FileAt
<1>3. ASSUME NEW c \in Builds, c # b
      PROVE  PutterAt(c)'
  <2>1. /\ pc'[Putter(c)] = pc[Putter(c)] /\ err'[Putter(c)] = err[Putter(c)]
        /\ at' = at /\ current' = current /\ Leads(c)' <=> Leads(c)
    BY <1>3 DEF Leads
  <2>2. pc[Putter(c)] # "idle" => at[Putter(c)] \in Files /\ at[Putter(c)] # g
    BY <1>3, PuttersWorkApart
  <2>3. Leads(c) => current[c] \in Files /\ current[c] # g
    BY <1>1, <1>3 DEF Leads, TypeOK
  <2>4. PutterAt(c)
    BY DEF WritersOK, PutterAt
  <2> QED
    BY <2>1, <2>2, <2>3, <2>4 DEF PutterAt, Stored
<1> QED
  BY <1>2, <1>3 DEF WritersOK, FileAt, PutterAt

(* A leader that comes to its end leaves nothing half done. *)
LEMMA WritersEnd ==
  ASSUME TypeOK, FlightsOK, WritersOK, UNCHANGED <<disk, writeLocked, tmp, at, err>>,
         NEW b \in Builds, NEW ok \in BOOLEAN, Leads(b), PutAnswered(b, ok),
         pc[Putter(b)] \in {"idle", "writing"}, pc'[Putter(b)] = "idle",
         \A c \in Builds : c # b => UNCHANGED pc[Putter(c)]
  PROVE  WritersOK'
<1> DEFINE g == current[b]
<1>1. g \in Files /\ flight[g] = b /\ flight' = [flight EXCEPT ![g] = NoBuild]
  BY AnswerEffect DEF Leads
<1>2. \A f \in Files : f # g => flight'[f] = flight[f]
  BY <1>1 DEF TypeOK
<1>3. \A c \in Builds : current'[c] = current[c] \/ current'[c] = NoBuild
  BY DEF PutAnswered
<1>4. ASSUME NEW f \in Files
      PROVE  FileAt(f)'
  <2>1. CASE f = g
    BY <1>1, <2>1, NoBuildAssumption DEF FileAt, WritersOK
  <2>2. CASE f # g
    <3>1. flight[f] # NoBuild => flight[f] \in Builds /\ flight[f] # b
      BY <2>2 DEF FlightsOK, TypeOK
    <3> QED
      BY <2>2, <1>2, <3>1 DEF FileAt, WritersOK
  <2> QED
    BY <2>1, <2>2
<1>5. ASSUME NEW c \in Builds
      PROVE  PutterAt(c)'
  <2>1. Leads(c)' => Leads(c) /\ c # b /\ current'[c] = current[c]
    BY <1>1, <1>3, NoBuildAssumption DEF Leads, TypeOK
  <2> QED
    BY <2>1 DEF PutterAt, WritersOK, Stored
<1> QED
  BY <1>4, <1>5 DEF WritersOK, FileAt, PutterAt

(* A request that leads finds the file there, or locks it, or is refused.    *)
LEMMA WritersLead ==
  ASSUME TypeOK, FlightsOK, WritersOK, NEW b \in Builds, NEW g \in Files, PutLeads(b, g)
  PROVE  WritersOK'
<1>1. /\ flight[g] = NoBuild /\ pc[Putter(b)] = "idle" /\ clientPc[b] = "upload"
      /\ at' = [at EXCEPT ![Putter(b)] = g]
      /\ current' = [current EXCEPT ![b] = g]
      /\ flight' = [flight EXCEPT ![g] = b]
      /\ disk' = disk /\ tmp' = tmp
  BY LeadEffect
<1>2. \/ /\ disk[g] = "none"
         /\ writeLocked' = writeLocked \cup {g}
         /\ pc' = [pc EXCEPT ![Putter(b)] = "mkdir"]
         /\ err' = err
      \/ /\ writeLocked' = writeLocked
         /\ pc' = [pc EXCEPT ![Putter(b)] = "idle"]
         /\ \E e \in {"exists", "writeLocked", "readLocked"} :
              /\ err' = [err EXCEPT ![Putter(b)] = e]
              /\ e = "exists" => disk[g] # "none"
  BY LeadEffect
<1>3. /\ at'[Putter(b)] = g /\ current'[b] = g /\ flight'[g] = b
      /\ \A c \in Builds : c # b =>
           /\ pc'[Putter(c)] = pc[Putter(c)] /\ at'[Putter(c)] = at[Putter(c)]
           /\ err'[Putter(c)] = err[Putter(c)] /\ current'[c] = current[c]
      /\ \A f \in Files : f # g => flight'[f] = flight[f]
  BY <1>1, <1>2, ProcFacts DEF TypeOK, Cache!TypeOK
<1>4. ASSUME NEW f \in Files
      PROVE  FileAt(f)'
  <2>1. CASE f = g
    <3>1. disk[g] = "whole" => g \notin writeLocked
      BY <1>1 DEF WritersOK
    <3> QED
      BY <2>1, <3>1, <1>1, <1>2 DEF FileAt, WritersOK
  <2>2. CASE f # g
    <3>1. flight[f] # NoBuild => flight[f] \in Builds /\ flight[f] # b
      BY <1>1 DEF FlightsOK, TypeOK
    <3> QED
      BY <2>2, <3>1, <1>1, <1>2, <1>3 DEF FileAt, WritersOK
  <2> QED
    BY <2>1, <2>2
<1>5. ASSUME NEW c \in Builds, c # b
      PROVE  PutterAt(c)'
  <2>1. Leads(c)' => Leads(c)
    BY <1>3, <1>5, NoBuildAssumption DEF Leads, TypeOK
  <2>2. Stored(current[c]) /\ Leads(c) => Stored(current[c])'
    <3>1. Leads(c) => current[c] # g
      BY <1>1, NoBuildAssumption DEF Leads
    <3> QED
      BY <3>1, <1>1, <1>2, <1>3, <1>5 DEF Stored
  <2> QED
    BY <1>5, <2>1, <2>2, <1>1, <1>2, <1>3 DEF PutterAt, WritersOK
<1>6. PutterAt(b)'
  <2>1. CASE pc' = [pc EXCEPT ![Putter(b)] = "mkdir"] /\ writeLocked' = writeLocked \cup {g}
    <3>1. pc'[Putter(b)] = "mkdir" /\ g \in writeLocked'
      BY <2>1, ProcFacts DEF TypeOK, Cache!TypeOK
    <3> QED
      BY <1>3, <3>1 DEF PutterAt
  <2>2. CASE /\ writeLocked' = writeLocked
             /\ pc' = [pc EXCEPT ![Putter(b)] = "idle"]
             /\ \E e \in {"exists", "writeLocked", "readLocked"} :
                  /\ err' = [err EXCEPT ![Putter(b)] = e]
                  /\ e = "exists" => disk[g] # "none"
    <3>1. pc'[Putter(b)] = "idle" /\ (err'[Putter(b)] \in {"nil", "exists"} => disk[g] # "none")
      BY <2>2, ProcFacts DEF TypeOK, Cache!TypeOK
    <3>2. disk[g] # "none" => Stored(g)'
      BY <1>1, <2>2 DEF Stored, WritersOK
    <3> QED
      BY <1>3, <3>1, <3>2 DEF PutterAt, Stored
  <2> QED
    BY <1>2, <2>1, <2>2
<1> QED
  BY <1>4, <1>5, <1>6 DEF WritersOK, FileAt, PutterAt

(* Putters work on files they have locked, and end with the file stored or   *)
(* with an error.                                                            *)
LEMMA WritersStep ==
  ASSUME TypeOK, RolesOK, FlightsOK, WritersOK, [Next]_vars
  PROVE  WritersOK'
<1>1. ASSUME NEW b \in Builds, StartBuild(b)
      PROVE  WritersOK'
  <2>1. /\ UNCHANGED <<disk, writeLocked, tmp, flight>>
        /\ \A c \in Builds : /\ UNCHANGED <<pc[Putter(c)], at[Putter(c)], err[Putter(c)]>>
                             /\ Leads(c)' => Leads(c) /\ current'[c] = current[c]
    BY <1>1, ProcFacts DEF StartBuild, BuildGoes, cacheVars, clientVars, TypeOK, Cache!TypeOK,
       Leads
  <2> QED
    BY <2>1, WritersRest
<1>2. ASSUME NEW b \in Builds, CheckFile(b)
      PROVE  WritersOK'
  <2>1. /\ UNCHANGED <<disk, writeLocked, tmp, flight>>
        /\ \A c \in Builds : /\ UNCHANGED <<pc[Putter(c)], at[Putter(c)], err[Putter(c)]>>
                             /\ Leads(c)' => Leads(c) /\ current'[c] = current[c]
    BY <1>2, ProcFacts DEF CheckFile, Cache!GetLock, Cache!Call, Cache!Goto, cacheVars,
       clientVars, TypeOK, Cache!TypeOK, Leads
  <2> QED
    BY <2>1, WritersRest
<1>3. ASSUME NEW b \in Builds, CheckRefused(b)
      PROVE  WritersOK'
  <2>1. /\ UNCHANGED <<disk, writeLocked, tmp, flight>>
        /\ \A c \in Builds : /\ UNCHANGED <<pc[Putter(c)], at[Putter(c)], err[Putter(c)]>>
                             /\ Leads(c)' => Leads(c) /\ current'[c] = current[c]
    BY <1>3, ProcFacts DEF CheckRefused, BuildGoes, Cache!GetRefused, Cache!Call, Cache!Return,
       Cache!Goto, cacheVars, clientVars, TypeOK, Cache!TypeOK, Leads
  <2> QED
    BY <2>1, WritersRest
<1>4. ASSUME NEW b \in Builds, CheckStat(b)
      PROVE  WritersOK'
  <2>1. /\ UNCHANGED <<disk, writeLocked, tmp, flight>>
        /\ \A c \in Builds : /\ UNCHANGED <<pc[Putter(c)], at[Putter(c)], err[Putter(c)]>>
                             /\ Leads(c)' => Leads(c) /\ current'[c] = current[c]
    BY <1>4, ProcFacts DEF CheckStat, Cache!GetStat, Cache!Goto, cacheVars, clientVars, TypeOK,
       Cache!TypeOK, Leads
  <2> QED
    BY <2>1, WritersRest
<1>5. ASSUME NEW b \in Builds, CheckFound(b)
      PROVE  WritersOK'
  <2>1. /\ UNCHANGED <<disk, writeLocked, tmp, flight>>
        /\ \A c \in Builds : /\ UNCHANGED <<pc[Putter(c)], at[Putter(c)], err[Putter(c)]>>
                             /\ Leads(c)' => Leads(c) /\ current'[c] = current[c]
    BY <1>5, ProcFacts DEF CheckFound, Checked, Cache!Unlock, Cache!ReadUnlock, Cache!Goto,
       cacheVars, clientVars, TypeOK, Cache!TypeOK, Leads
  <2> QED
    BY <2>1, WritersRest
<1>6. ASSUME NEW b \in Builds, CheckMissing(b)
      PROVE  WritersOK'
  <2>1. /\ UNCHANGED <<disk, writeLocked, tmp, flight>>
        /\ \A c \in Builds : /\ UNCHANGED <<pc[Putter(c)], at[Putter(c)], err[Putter(c)]>>
                             /\ Leads(c)' => Leads(c) /\ current'[c] = current[c]
    BY <1>6, ProcFacts DEF CheckMissing, Checked, Cache!GetMiss, Cache!ReadUnlock, Cache!Return,
       Cache!Goto, cacheVars, clientVars, TypeOK, Cache!TypeOK, Leads
  <2> QED
    BY <2>1, WritersRest
<1>7. ASSUME NEW b \in Builds, Started(b)
      PROVE  WritersOK'
  <2>1. /\ UNCHANGED <<disk, writeLocked, tmp, flight>>
        /\ \A c \in Builds : /\ UNCHANGED <<pc[Putter(c)], at[Putter(c)], err[Putter(c)]>>
                             /\ Leads(c)' => Leads(c) /\ current'[c] = current[c]
    BY <1>7, ProcFacts DEF Started, BuildGoes, cacheVars, clientVars, TypeOK, Cache!TypeOK, Leads
  <2> QED
    BY <2>1, WritersRest
<1>8. ASSUME NEW b \in Builds, UploadDone(b)
      PROVE  WritersOK'
  <2>1. /\ UNCHANGED <<disk, writeLocked, tmp, flight>>
        /\ \A c \in Builds : /\ UNCHANGED <<pc[Putter(c)], at[Putter(c)], err[Putter(c)]>>
                             /\ Leads(c)' => Leads(c) /\ current'[c] = current[c]
    BY <1>8, ProcFacts DEF UploadDone, BuildGoes, cacheVars, clientVars, TypeOK, Cache!TypeOK,
       Leads
  <2> QED
    BY <2>1, WritersRest
<1>9. ASSUME NEW b \in Builds, BuildCancelled(b)
      PROVE  WritersOK'
  <2>1. /\ UNCHANGED <<disk, writeLocked, tmp, flight>>
        /\ \A c \in Builds : /\ UNCHANGED <<pc[Putter(c)], at[Putter(c)], err[Putter(c)]>>
                             /\ Leads(c)' => Leads(c) /\ current'[c] = current[c]
    BY <1>9, ProcFacts DEF BuildCancelled, BuildGoes, cacheVars, clientVars, TypeOK,
       Cache!TypeOK, Leads
  <2> QED
    BY <2>1, WritersRest
<1>10. ASSUME NEW b \in Builds, ClientRefused(b)
      PROVE  WritersOK'
  <2>1. /\ UNCHANGED <<disk, writeLocked, tmp, flight>>
        /\ \A c \in Builds : /\ UNCHANGED <<pc[Putter(c)], at[Putter(c)], err[Putter(c)]>>
                             /\ Leads(c)' => Leads(c) /\ current'[c] = current[c]
    BY <1>10, ProcFacts DEF ClientRefused, ClientGoes, cacheVars, clientVars, TypeOK,
       Cache!TypeOK, Leads
  <2> QED
    BY <2>1, WritersRest
<1>11. ASSUME NEW b \in Builds, ClientStarted(b)
      PROVE  WritersOK'
  <2>1. /\ UNCHANGED <<disk, writeLocked, tmp, flight>>
        /\ \A c \in Builds : /\ UNCHANGED <<pc[Putter(c)], at[Putter(c)], err[Putter(c)]>>
                             /\ Leads(c)' => Leads(c) /\ current'[c] = current[c]
    BY <1>11, ProcFacts DEF ClientStarted, ClientGoes, cacheVars, clientVars, TypeOK,
       Cache!TypeOK, Leads
  <2> QED
    BY <2>1, WritersRest
<1>12. ASSUME NEW b \in Builds, NEW f \in Files, PutLeads(b, f)
      PROVE  WritersOK'
  BY <1>12, WritersLead
<1>13. ASSUME NEW b \in Builds, NEW f \in Files, PutJoins(b, f)
      PROVE  WritersOK'
  <2>1. /\ UNCHANGED <<disk, writeLocked, tmp, flight, pc, at, err>> /\ clientPc[b] = "upload"
        /\ current' = [current EXCEPT ![b] = f]
    BY <1>13 DEF PutJoins, ClientGoes, cacheVars
  <2>2. flight[f] # b
    BY <2>1, NoBuildAssumption DEF FlightsOK
  <2>3. \A c \in Builds : Leads(c)' => Leads(c) /\ current'[c] = current[c]
    BY <2>1, <2>2 DEF Leads, TypeOK
  <2> QED
    BY <2>1, <2>3, WritersRest
<1>14. ASSUME NEW b \in Builds, Leads(b), Cache!CreateDir(Putter(b)), UNCHANGED restVars
      PROVE  WritersOK'
  <2> USE <1>14 DEF Cache!CreateDir, Cache!Goto, TypeOK, Cache!TypeOK
  <2>1. PICK g \in Files : g = at[Putter(b)]
    BY ProcFacts
  <2>2. /\ pc[Putter(b)] # "idle" /\ UNCHANGED <<at, current, flight>>
        /\ \A c \in Builds : c # b => UNCHANGED <<pc[Putter(c)], err[Putter(c)]>>
    BY ProcFacts DEF restVars, clientVars
  <2>3. \A f \in Files : f # g =>
          /\ UNCHANGED <<disk[f], tmp[f]>>
          /\ f \in writeLocked' <=> f \in writeLocked
    BY <2>1
  <2>4. flight[g] = b /\ current[b] = g
    BY <2>1, <2>2, PuttersWorkApart
  <2>5. FileAt(g)' /\ PutterAt(b)'
    BY <2>1, <2>2, <2>4, ProcFacts DEF FileAt, PutterAt, WritersOK, Stored
  <2> HIDE <1>14 DEF Cache!CreateDir, Cache!Goto, TypeOK, Cache!TypeOK
  <2> QED
    BY <1>14, <2>1, <2>2, <2>3, <2>5, WritersMove
<1>15. ASSUME NEW b \in Builds, Leads(b), Cache!CreateDirFails(Putter(b)), UNCHANGED restVars
      PROVE  WritersOK'
  <2> USE <1>15 DEF Cache!CreateDirFails, Cache!WriteUnlock, Cache!Return, Cache!Goto, TypeOK,
     Cache!TypeOK
  <2>1. PICK g \in Files : g = at[Putter(b)]
    BY ProcFacts
  <2>2. /\ pc[Putter(b)] # "idle" /\ UNCHANGED <<at, current, flight>>
        /\ \A c \in Builds : c # b => UNCHANGED <<pc[Putter(c)], err[Putter(c)]>>
    BY ProcFacts DEF restVars, clientVars
  <2>3. \A f \in Files : f # g =>
          /\ UNCHANGED <<disk[f], tmp[f]>>
          /\ f \in writeLocked' <=> f \in writeLocked
    BY <2>1
  <2>4. flight[g] = b /\ current[b] = g
    BY <2>1, <2>2, PuttersWorkApart
  <2>5. FileAt(g)' /\ PutterAt(b)'
    BY <2>1, <2>2, <2>4, ProcFacts DEF FileAt, PutterAt, WritersOK, Stored
  <2> HIDE <1>15 DEF Cache!CreateDirFails, Cache!WriteUnlock, Cache!Return, Cache!Goto, TypeOK,
     Cache!TypeOK
  <2> QED
    BY <1>15, <2>1, <2>2, <2>3, <2>5, WritersMove
<1>16. ASSUME NEW b \in Builds, Leads(b), Cache!Fill(Putter(b)), UNCHANGED restVars
      PROVE  WritersOK'
  <2> USE <1>16 DEF Cache!Fill, Cache!Goto, TypeOK, Cache!TypeOK
  <2>1. PICK g \in Files : g = at[Putter(b)]
    BY ProcFacts
  <2>2. /\ pc[Putter(b)] # "idle" /\ UNCHANGED <<at, current, flight>>
        /\ \A c \in Builds : c # b => UNCHANGED <<pc[Putter(c)], err[Putter(c)]>>
    BY ProcFacts DEF restVars, clientVars
  <2>3. \A f \in Files : f # g =>
          /\ UNCHANGED <<disk[f], tmp[f]>>
          /\ f \in writeLocked' <=> f \in writeLocked
    BY <2>1
  <2>4. flight[g] = b /\ current[b] = g
    BY <2>1, <2>2, PuttersWorkApart
  <2>5. FileAt(g)' /\ PutterAt(b)'
    BY <2>1, <2>2, <2>4, ProcFacts DEF FileAt, PutterAt, WritersOK, Stored
  <2> HIDE <1>16 DEF Cache!Fill, Cache!Goto, TypeOK, Cache!TypeOK
  <2> QED
    BY <1>16, <2>1, <2>2, <2>3, <2>5, WritersMove
<1>17. ASSUME NEW b \in Builds, Leads(b), Cache!CommitRename(Putter(b)), UNCHANGED restVars
      PROVE  WritersOK'
  <2> USE <1>17 DEF Cache!CommitRename, Cache!Goto, TypeOK, Cache!TypeOK
  <2>1. PICK g \in Files : g = at[Putter(b)]
    BY ProcFacts
  <2>2. /\ pc[Putter(b)] # "idle" /\ UNCHANGED <<at, current, flight>>
        /\ \A c \in Builds : c # b => UNCHANGED <<pc[Putter(c)], err[Putter(c)]>>
    BY ProcFacts DEF restVars, clientVars
  <2>3. \A f \in Files : f # g =>
          /\ UNCHANGED <<disk[f], tmp[f]>>
          /\ f \in writeLocked' <=> f \in writeLocked
    BY <2>1
  <2>4. flight[g] = b /\ current[b] = g
    BY <2>1, <2>2, PuttersWorkApart
  <2>6. /\ pc'[Putter(b)] = "committed" /\ at'[Putter(b)] = g /\ flight'[g] = b
        /\ g \in writeLocked'
    BY <2>1, <2>2, <2>4, ProcFacts DEF WritersOK
  <2>7. tmp[g] = "whole"
    BY <2>1 DEF WritersOK
  <2>8. disk'[g] = "whole"
    BY <2>1, <2>7
  <2>5. FileAt(g)' /\ PutterAt(b)'
    BY <2>6, <2>8, NoBuildAssumption DEF FileAt, PutterAt
  <2> HIDE <1>17 DEF Cache!CommitRename, Cache!Goto, TypeOK, Cache!TypeOK
  <2> QED
    BY <1>17, <2>1, <2>2, <2>3, <2>5, WritersMove
<1>18. ASSUME NEW b \in Builds, Leads(b), Cache!CommitFails(Putter(b)), UNCHANGED restVars
      PROVE  WritersOK'
  <2> USE <1>18 DEF Cache!CommitFails, Cache!Goto, TypeOK, Cache!TypeOK
  <2>1. PICK g \in Files : g = at[Putter(b)]
    BY ProcFacts
  <2>2. /\ pc[Putter(b)] # "idle" /\ UNCHANGED <<at, current, flight>>
        /\ \A c \in Builds : c # b => UNCHANGED <<pc[Putter(c)], err[Putter(c)]>>
    BY ProcFacts DEF restVars, clientVars
  <2>3. \A f \in Files : f # g =>
          /\ UNCHANGED <<disk[f], tmp[f]>>
          /\ f \in writeLocked' <=> f \in writeLocked
    BY <2>1
  <2>4. flight[g] = b /\ current[b] = g
    BY <2>1, <2>2, PuttersWorkApart
  <2>5. FileAt(g)' /\ PutterAt(b)'
    BY <2>1, <2>2, <2>4, ProcFacts DEF FileAt, PutterAt, WritersOK, Stored
  <2> HIDE <1>18 DEF Cache!CommitFails, Cache!Goto, TypeOK, Cache!TypeOK
  <2> QED
    BY <1>18, <2>1, <2>2, <2>3, <2>5, WritersMove
<1>19. ASSUME NEW b \in Builds, Leads(b), Cache!CommitUnlock(Putter(b)), UNCHANGED restVars
      PROVE  WritersOK'
  <2> USE <1>19 DEF Cache!CommitUnlock, Cache!WriteUnlock, Cache!Return, Cache!Goto, TypeOK,
     Cache!TypeOK
  <2>1. PICK g \in Files : g = at[Putter(b)]
    BY ProcFacts
  <2>2. /\ pc[Putter(b)] # "idle" /\ UNCHANGED <<at, current, flight>>
        /\ \A c \in Builds : c # b => UNCHANGED <<pc[Putter(c)], err[Putter(c)]>>
    BY ProcFacts DEF restVars, clientVars
  <2>3. \A f \in Files : f # g =>
          /\ UNCHANGED <<disk[f], tmp[f]>>
          /\ f \in writeLocked' <=> f \in writeLocked
    BY <2>1
  <2>4. flight[g] = b /\ current[b] = g
    BY <2>1, <2>2, PuttersWorkApart
  <2>5. FileAt(g)' /\ PutterAt(b)'
    BY <2>1, <2>2, <2>4, ProcFacts DEF FileAt, PutterAt, WritersOK, Stored
  <2> HIDE <1>19 DEF Cache!CommitUnlock, Cache!WriteUnlock, Cache!Return, Cache!Goto, TypeOK,
     Cache!TypeOK
  <2> QED
    BY <1>19, <2>1, <2>2, <2>3, <2>5, WritersMove
<1>20. ASSUME NEW b \in Builds, Leads(b), Cache!AbortRemove(Putter(b)), UNCHANGED restVars
      PROVE  WritersOK'
  <2> USE <1>20 DEF Cache!AbortRemove, Cache!AbortRemoves, Cache!AbortRemoveFails, Cache!Goto,
     TypeOK, Cache!TypeOK
  <2>1. PICK g \in Files : g = at[Putter(b)]
    BY ProcFacts
  <2>2. /\ pc[Putter(b)] # "idle" /\ UNCHANGED <<at, current, flight>>
        /\ \A c \in Builds : c # b => UNCHANGED <<pc[Putter(c)], err[Putter(c)]>>
    BY ProcFacts DEF restVars, clientVars
  <2>3. \A f \in Files : f # g =>
          /\ UNCHANGED <<disk[f], tmp[f]>>
          /\ f \in writeLocked' <=> f \in writeLocked
    BY <2>1
  <2>4. flight[g] = b /\ current[b] = g
    BY <2>1, <2>2, PuttersWorkApart
  <2>5. FileAt(g)' /\ PutterAt(b)'
    BY <2>1, <2>2, <2>4, ProcFacts DEF FileAt, PutterAt, WritersOK, Stored
  <2> HIDE <1>20 DEF Cache!AbortRemove, Cache!AbortRemoves, Cache!AbortRemoveFails, Cache!Goto,
     TypeOK, Cache!TypeOK
  <2> QED
    BY <1>20, <2>1, <2>2, <2>3, <2>5, WritersMove
<1>21. ASSUME NEW b \in Builds, Leads(b), Cache!AbortUnlock(Putter(b)), UNCHANGED restVars
      PROVE  WritersOK'
  <2> USE <1>21 DEF Cache!AbortUnlock, Cache!WriteUnlock, Cache!Return, Cache!Goto, TypeOK,
     Cache!TypeOK
  <2>1. PICK g \in Files : g = at[Putter(b)]
    BY ProcFacts
  <2>2. /\ pc[Putter(b)] # "idle" /\ UNCHANGED <<at, current, flight>>
        /\ \A c \in Builds : c # b => UNCHANGED <<pc[Putter(c)], err[Putter(c)]>>
    BY ProcFacts DEF restVars, clientVars
  <2>3. \A f \in Files : f # g =>
          /\ UNCHANGED <<disk[f], tmp[f]>>
          /\ f \in writeLocked' <=> f \in writeLocked
    BY <2>1
  <2>4. flight[g] = b /\ current[b] = g
    BY <2>1, <2>2, PuttersWorkApart
  <2>5. FileAt(g)' /\ PutterAt(b)'
    BY <2>1, <2>2, <2>4, ProcFacts DEF FileAt, PutterAt, WritersOK, Stored
  <2> HIDE <1>21 DEF Cache!AbortUnlock, Cache!WriteUnlock, Cache!Return, Cache!Goto, TypeOK,
     Cache!TypeOK
  <2> QED
    BY <1>21, <2>1, <2>2, <2>3, <2>5, WritersMove
<1>22. ASSUME NEW b \in Builds, PutReturns(b)
      PROVE  WritersOK'
  <2>1. PICK ok \in BOOLEAN : PutAnswered(b, ok)
    BY <1>22 DEF PutReturns
  <2>2. Leads(b) /\ pc[Putter(b)] = "idle" /\ UNCHANGED cacheVars
    BY <1>22 DEF PutReturns
  <2> QED
    BY <2>1, <2>2, WritersEnd DEF cacheVars
<1>23. ASSUME NEW b \in Builds, PutPanics(b)
      PROVE  WritersOK'
  <2>1. /\ Leads(b) /\ pc[Putter(b)] = "writing" /\ PutAnswered(b, FALSE)
        /\ pc' = [pc EXCEPT ![Putter(b)] = "idle"]
        /\ UNCHANGED <<disk, writeLocked, tmp, at, err>>
    BY <1>23 DEF PutPanics
  <2>2. pc'[Putter(b)] = "idle" /\ \A c \in Builds : c # b => UNCHANGED pc[Putter(c)]
    BY <2>1, ProcFacts DEF TypeOK, Cache!TypeOK
  <2> QED
    BY <2>1, <2>2, WritersEnd
<1>24. ASSUME NEW b \in Builds, SendSignal(b)
      PROVE  WritersOK'
  <2>1. /\ UNCHANGED <<disk, writeLocked, tmp, flight>>
        /\ \A c \in Builds : /\ UNCHANGED <<pc[Putter(c)], at[Putter(c)], err[Putter(c)]>>
                             /\ Leads(c)' => Leads(c) /\ current'[c] = current[c]
    BY <1>24, ProcFacts DEF SendSignal, ClientGoes, cacheVars, clientVars, TypeOK, Cache!TypeOK,
       Leads
  <2> QED
    BY <2>1, WritersRest
<1>25. ASSUME NEW b \in Builds, SignalBuild(b)
      PROVE  WritersOK'
  <2>1. /\ UNCHANGED <<disk, writeLocked, tmp, flight>>
        /\ \A c \in Builds : /\ UNCHANGED <<pc[Putter(c)], at[Putter(c)], err[Putter(c)]>>
                             /\ Leads(c)' => Leads(c) /\ current'[c] = current[c]
    BY <1>25, ProcFacts DEF SignalBuild, cacheVars, clientVars, TypeOK, Cache!TypeOK, Leads
  <2> QED
    BY <2>1, WritersRest
<1>26. ASSUME NEW b \in Builds, ClientDies(b)
      PROVE  WritersOK'
  <2>1. /\ UNCHANGED <<disk, writeLocked, tmp, flight>>
        /\ \A c \in Builds : /\ UNCHANGED <<pc[Putter(c)], at[Putter(c)], err[Putter(c)]>>
                             /\ Leads(c)' => Leads(c) /\ current'[c] = current[c]
    BY <1>26, ProcFacts DEF ClientDies, cacheVars, clientVars, TypeOK, Cache!TypeOK, Leads
  <2> QED
    BY <2>1, WritersRest
<1>27. CASE UNCHANGED vars
  BY <1>27, WritersRest DEF vars, cacheVars, clientVars, Leads
<1> QED
  BY <1>1, <1>2, <1>3, <1>4, <1>5, <1>6, <1>7, <1>8, <1>9, <1>10, <1>11, <1>12, <1>13,
     <1>14, <1>15, <1>16, <1>17, <1>18, <1>19, <1>20, <1>21, <1>22, <1>23, <1>24, <1>25,
     <1>26, <1>27
  DEF Next, Check, Client, Put, PutCopies, PutAborts, restVars

-----------------------------------------------------------------------------
(* Every answer but an error of the upload finds the file stored.            *)
LEMMA AnswerKeepsBuilds ==
  ASSUME TypeOK, FlightsOK, BuildsOK, NEW b \in Builds, NEW ok \in BOOLEAN, Leads(b),
         PutAnswered(b, ok), ok => Stored(current[b]), UNCHANGED <<disk, writeLocked>>,
         \A d \in Builds : UNCHANGED pc[Checker(d)]
  PROVE  BuildsOK'
<1> DEFINE g == current[b]
<1>1. /\ g \in Files
      /\ \A c \in Builds : c \in Sharers(g) =>
           /\ clientPc'[c] = IF ok THEN "upload" ELSE "error"
           /\ putting'[c] = putting[c] \ {g}
      /\ \A c \in Builds : c \notin Sharers(g) =>
           clientPc'[c] = clientPc[c] /\ putting'[c] = putting[c]
      /\ UNCHANGED <<buildVars, signal>>
  BY AnswerEffect
<1>2. \A c \in Builds : c \in Sharers(g) => clientPc[c] \in {"leading", "sharing"}
  BY DEF Sharers
<1>3. \A f \in Files : Stored(f)' <=> Stored(f)
  BY DEF Stored
<1>4. \A d \in Builds : SourceFiles[d] \subseteq Files /\ missing[d] \subseteq Files
  BY SourceFilesAssumption DEF TypeOK
<1> HIDE DEF g
<1> QED
  BY <1>1, <1>2, <1>3, <1>4 DEF BuildsOK, buildVars, g

(* A build knows of every source file where it is, and of every missing file *)
(* what became of it.                                                       *)
LEMMA BuildsStep ==
  ASSUME TypeOK, RolesOK, ReadersOK, FlightsOK, WritersOK, BuildsOK, [Next]_vars
  PROVE  BuildsOK'
<1>a. \A f \in Files : Stored(f) => Stored(f)'
  BY StoredStays
<1>b. \A d \in Builds : SourceFiles[d] \subseteq Files /\ missing[d] \subseteq Files
  BY SourceFilesAssumption DEF TypeOK
<1>c. ASSUME NEW b \in Builds, CheckFound(b)
      PROVE  Stored(at[Checker(b)])
  BY <1>c DEF CheckFound, Cache!Unlock, ReadersOK, Stored
<1>d. ASSUME NEW b \in Builds, PutReturns(b)
      PROVE  BuildsOK'
  <2>1. PICK ok \in BOOLEAN : PutAnswered(b, ok) /\ (ok => err[Putter(b)] \in {"nil", "exists"})
    BY <1>d DEF PutReturns
  <2>2. Leads(b) /\ pc[Putter(b)] = "idle" /\ UNCHANGED cacheVars
    BY <1>d DEF PutReturns
  <2>3. ok => Stored(current[b])
    BY <2>1, <2>2 DEF WritersOK
  <2> QED
    BY <2>1, <2>2, <2>3, AnswerKeepsBuilds DEF cacheVars
<1>e. ASSUME NEW b \in Builds, PutPanics(b)
      PROVE  BuildsOK'
  <2>1. /\ Leads(b) /\ PutAnswered(b, FALSE) /\ UNCHANGED <<disk, writeLocked>>
        /\ pc' = [pc EXCEPT ![Putter(b)] = "idle"]
    BY <1>e DEF PutPanics
  <2>2. \A d \in Builds : UNCHANGED pc[Checker(d)]
    BY <2>1, ProcFacts DEF TypeOK, Cache!TypeOK
  <2> QED
    BY <2>1, <2>2, AnswerKeepsBuilds
<1>f. ASSUME NEW b \in Builds, NEW f \in Files, PutLeads(b, f)
      PROVE  BuildsOK'
  <2>1. /\ clientPc[b] = "upload" /\ clientPc' = [clientPc EXCEPT ![b] = "leading"]
        /\ UNCHANGED <<buildVars, putting, signal>>
    BY <1>f, LeadEffect
  <2>2. \A d \in Builds : UNCHANGED pc[Checker(d)]
    BY <1>f, LeadEffect, ProcFacts DEF TypeOK, Cache!TypeOK
  <2> QED
    BY <2>1, <2>2, <1>a, <1>b DEF BuildsOK, TypeOK, buildVars
<1>g. ASSUME \A d \in Builds : UNCHANGED pc[Checker(d)], UNCHANGED restVars
      PROVE  BuildsOK'
  BY <1>a, <1>b, <1>g DEF BuildsOK, restVars, buildVars, clientVars
<1> USE <1>a, <1>b, ProcFacts
<1>1. ASSUME NEW b \in Builds, StartBuild(b)
      PROVE  BuildsOK'
  BY <1>1 DEF BuildsOK, TypeOK, Cache!TypeOK, cacheVars, buildVars, clientVars,
     StartBuild, BuildGoes
<1>2. ASSUME NEW b \in Builds, CheckFile(b)
      PROVE  BuildsOK'
  BY <1>2 DEF BuildsOK, TypeOK, Cache!TypeOK, cacheVars, buildVars, clientVars,
     CheckFile, Cache!GetLock, Cache!Call, Cache!Goto
<1>3. ASSUME NEW b \in Builds, CheckRefused(b)
      PROVE  BuildsOK'
  BY <1>3 DEF BuildsOK, TypeOK, Cache!TypeOK, cacheVars, buildVars, clientVars,
     CheckRefused, BuildGoes, Cache!GetRefused, Cache!Call, Cache!Return, Cache!Goto
<1>4. ASSUME NEW b \in Builds, CheckStat(b)
      PROVE  BuildsOK'
  BY <1>4 DEF BuildsOK, TypeOK, Cache!TypeOK, cacheVars, buildVars, clientVars,
     CheckStat, Cache!GetStat, Cache!Goto
<1>5. ASSUME NEW b \in Builds, CheckFound(b)
      PROVE  BuildsOK'
  BY <1>5, <1>c DEF BuildsOK, TypeOK, Cache!TypeOK, cacheVars, buildVars, clientVars,
     CheckFound, Checked, Cache!Unlock, Cache!ReadUnlock, Cache!Goto
<1>6. ASSUME NEW b \in Builds, CheckMissing(b)
      PROVE  BuildsOK'
  BY <1>6 DEF BuildsOK, TypeOK, Cache!TypeOK, cacheVars, buildVars, clientVars,
     CheckMissing, Checked, Cache!GetMiss, Cache!ReadUnlock, Cache!Return, Cache!Goto
<1>7. ASSUME NEW b \in Builds, Started(b)
      PROVE  BuildsOK'
  BY <1>7 DEF BuildsOK, TypeOK, Cache!TypeOK, cacheVars, buildVars, clientVars,
     Started, BuildGoes
<1>8. ASSUME NEW b \in Builds, UploadDone(b)
      PROVE  BuildsOK'
  BY <1>8 DEF BuildsOK, TypeOK, Cache!TypeOK, cacheVars, buildVars, clientVars,
     UploadDone, BuildGoes
<1>9. ASSUME NEW b \in Builds, BuildCancelled(b)
      PROVE  BuildsOK'
  BY <1>9 DEF BuildsOK, TypeOK, Cache!TypeOK, cacheVars, buildVars, clientVars,
     BuildCancelled, BuildGoes
<1>10. ASSUME NEW b \in Builds, ClientRefused(b)
      PROVE  BuildsOK'
  BY <1>10 DEF BuildsOK, TypeOK, Cache!TypeOK, cacheVars, buildVars, clientVars,
     ClientRefused, ClientGoes
<1>11. ASSUME NEW b \in Builds, ClientStarted(b)
      PROVE  BuildsOK'
  BY <1>11 DEF BuildsOK, TypeOK, Cache!TypeOK, cacheVars, buildVars, clientVars,
     ClientStarted, ClientGoes
<1>12. ASSUME NEW b \in Builds, NEW f \in Files, PutLeads(b, f)
      PROVE  BuildsOK'
  BY <1>12, <1>f
<1>13. ASSUME NEW b \in Builds, NEW f \in Files, PutJoins(b, f)
      PROVE  BuildsOK'
  BY <1>13 DEF BuildsOK, TypeOK, Cache!TypeOK, cacheVars, buildVars, clientVars,
     PutJoins, ClientGoes
<1>14. ASSUME NEW b \in Builds, Leads(b), Cache!CreateDir(Putter(b)), UNCHANGED restVars
      PROVE  BuildsOK'
  <2>1. \A d \in Builds : UNCHANGED pc[Checker(d)]
    BY <1>14 DEF Cache!CreateDir, Cache!Goto, TypeOK, Cache!TypeOK
  <2> QED
    BY <1>14, <2>1, <1>g
<1>15. ASSUME NEW b \in Builds, Leads(b), Cache!CreateDirFails(Putter(b)), UNCHANGED restVars
      PROVE  BuildsOK'
  <2>1. \A d \in Builds : UNCHANGED pc[Checker(d)]
    BY <1>15 DEF Cache!CreateDirFails, Cache!WriteUnlock, Cache!Return, Cache!Goto, TypeOK,
       Cache!TypeOK
  <2> QED
    BY <1>15, <2>1, <1>g
<1>16. ASSUME NEW b \in Builds, Leads(b), Cache!Fill(Putter(b)), UNCHANGED restVars
      PROVE  BuildsOK'
  <2>1. \A d \in Builds : UNCHANGED pc[Checker(d)]
    BY <1>16 DEF Cache!Fill, Cache!Goto, TypeOK, Cache!TypeOK
  <2> QED
    BY <1>16, <2>1, <1>g
<1>17. ASSUME NEW b \in Builds, Leads(b), Cache!CommitRename(Putter(b)), UNCHANGED restVars
      PROVE  BuildsOK'
  <2>1. \A d \in Builds : UNCHANGED pc[Checker(d)]
    BY <1>17 DEF Cache!CommitRename, Cache!Goto, TypeOK, Cache!TypeOK
  <2> QED
    BY <1>17, <2>1, <1>g
<1>18. ASSUME NEW b \in Builds, Leads(b), Cache!CommitFails(Putter(b)), UNCHANGED restVars
      PROVE  BuildsOK'
  <2>1. \A d \in Builds : UNCHANGED pc[Checker(d)]
    BY <1>18 DEF Cache!CommitFails, Cache!Goto, TypeOK, Cache!TypeOK
  <2> QED
    BY <1>18, <2>1, <1>g
<1>19. ASSUME NEW b \in Builds, Leads(b), Cache!CommitUnlock(Putter(b)), UNCHANGED restVars
      PROVE  BuildsOK'
  <2>1. \A d \in Builds : UNCHANGED pc[Checker(d)]
    BY <1>19 DEF Cache!CommitUnlock, Cache!WriteUnlock, Cache!Return, Cache!Goto, TypeOK,
       Cache!TypeOK
  <2> QED
    BY <1>19, <2>1, <1>g
<1>20. ASSUME NEW b \in Builds, Leads(b), Cache!AbortRemove(Putter(b)), UNCHANGED restVars
      PROVE  BuildsOK'
  <2>1. \A d \in Builds : UNCHANGED pc[Checker(d)]
    BY <1>20 DEF Cache!AbortRemove, Cache!AbortRemoves, Cache!AbortRemoveFails, Cache!Goto,
       TypeOK, Cache!TypeOK
  <2> QED
    BY <1>20, <2>1, <1>g
<1>21. ASSUME NEW b \in Builds, Leads(b), Cache!AbortUnlock(Putter(b)), UNCHANGED restVars
      PROVE  BuildsOK'
  <2>1. \A d \in Builds : UNCHANGED pc[Checker(d)]
    BY <1>21 DEF Cache!AbortUnlock, Cache!WriteUnlock, Cache!Return, Cache!Goto, TypeOK,
       Cache!TypeOK
  <2> QED
    BY <1>21, <2>1, <1>g
<1>22. ASSUME NEW b \in Builds, PutReturns(b)
      PROVE  BuildsOK'
  BY <1>22, <1>d
<1>23. ASSUME NEW b \in Builds, PutPanics(b)
      PROVE  BuildsOK'
  BY <1>23, <1>e
<1>24. ASSUME NEW b \in Builds, SendSignal(b)
      PROVE  BuildsOK'
  BY <1>24 DEF BuildsOK, TypeOK, Cache!TypeOK, cacheVars, buildVars, clientVars,
     SendSignal, ClientGoes
<1>25. ASSUME NEW b \in Builds, SignalBuild(b)
      PROVE  BuildsOK'
  BY <1>25 DEF BuildsOK, TypeOK, Cache!TypeOK, cacheVars, buildVars, clientVars,
     SignalBuild
<1>26. ASSUME NEW b \in Builds, ClientDies(b)
      PROVE  BuildsOK'
  BY <1>26 DEF BuildsOK, TypeOK, Cache!TypeOK, cacheVars, buildVars, clientVars,
     ClientDies
<1>27. CASE UNCHANGED vars
  BY <1>27 DEF BuildsOK, TypeOK, Cache!TypeOK, cacheVars, buildVars, clientVars,
     vars
<1> QED
  BY <1>1, <1>2, <1>3, <1>4, <1>5, <1>6, <1>7, <1>8, <1>9, <1>10, <1>11, <1>12, <1>13,
     <1>14, <1>15, <1>16, <1>17, <1>18, <1>19, <1>20, <1>21, <1>22, <1>23, <1>24, <1>25,
     <1>26, <1>27
  DEF Next, Check, Client, Put, PutCopies, PutAborts, restVars

-----------------------------------------------------------------------------
LEMMA InitIInv == Init => IInv
<1> SUFFICES ASSUME Init
             PROVE  IInv
  OBVIOUS
<1>1. (CHOOSE f \in Files : TRUE) \in Files
  BY FilesAssumption
<1>2. TypeOK
  BY <1>1, SourceFilesAssumption
  DEF Init, TypeOK, Cache!TypeOK, Cache!Contents, Cache!Errors, Cache!Pcs
<1>3. ReadersOK
  <2>1. \A f \in Files : Cache!Readers(f) = {}
    BY DEF Init, Cache!Readers, Cache!ReadPcs
  <2> QED
    BY <2>1, ProcFacts, FS_EmptySet DEF Init, ReadersOK
<1>4. RolesOK /\ FlightsOK /\ WritersOK /\ BuildsOK
  BY ProcFacts DEF Init, RolesOK, FlightsOK, WritersOK, BuildsOK, Leads
<1> QED
  BY <1>2, <1>3, <1>4 DEF IInv

LEMMA StepIInv == IInv /\ [Next]_vars => IInv'
<1> SUFFICES ASSUME IInv, [Next]_vars
             PROVE  IInv'
  OBVIOUS
<1>1. TypeOK /\ RolesOK /\ ReadersOK /\ FlightsOK /\ WritersOK /\ BuildsOK /\ Counted
  BY DEF IInv, ReadersOK, Counted
<1>2. TypeOK' /\ RolesOK' /\ FlightsOK' /\ WritersOK' /\ BuildsOK'
  BY <1>1, TypingStep, RolesStep, FlightsStep, WritersStep, BuildsStep
<1>3. ReadersOK'
  BY <1>1, CountStep, CheckersStep DEF ReadersOK, Counted
<1> QED
  BY <1>2, <1>3 DEF IInv

(* What the coordinator, its file cache and the clients keep to: readers     *)
(* counted, one leader per upload, a lock held for as long as it is written  *)
(* under, and of every source file of a build where it is (findMissingFiles, *)
(* filecache.Handler, client.Build).                                        *)
THEOREM UploadInvariance == Spec => []IInv
<1>1. Init => IInv
  BY InitIInv
<1>2. IInv /\ [Next]_vars => IInv'
  BY StepIInv
<1> QED
  BY <1>1, <1>2, PTL DEF Spec

(* Whatever fails and whoever goes away, a build that StartBuild lets go on  *)
(* to its jobs finds each of its source files whole and locked by nobody.    *)
THEOREM ReadyBuildsHaveTheirFiles == Spec => []ReadyFilesAreReadable
<1>1. IInv => ReadyFilesAreReadable
  BY DEF IInv, BuildsOK, Stored, ReadyFilesAreReadable
<1> QED
  BY <1>1, UploadInvariance, PTL

(* A PUT that singleflight lets share another one's result has one to share, *)
(* and the handler of an upload in flight works on the file of that flight.  *)
THEOREM UploadsAreShared == Spec => []SharersHaveALeader
<1>1. IInv => SharersHaveALeader
  BY DEF IInv, FlightsOK, SharersHaveALeader
<1> QED
  BY <1>1, UploadInvariance, PTL

(* The cache the handlers share keeps what it promises (artifact.Cache): its *)
(* types, and no count of readers that is off.                               *)
THEOREM CacheCountsItsReaders == Spec => [](TypeOK /\ Counted)
<1>1. IInv => TypeOK /\ Counted
  BY DEF IInv, ReadersOK, Counted
<1> QED
  BY <1>1, UploadInvariance, PTL
=============================================================================
