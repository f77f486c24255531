------------------------------ MODULE Transfer ------------------------------
(***************************************************************************)
(* Copies between caches: artifact.Download (distbuild/pkg/artifact/       *)
(* client.go), which writes into the local cache what the handler of       *)
(* another worker sends as a tar stream (artifact/handler.go, tarstream),  *)
(* and its sister Client.Download for source files (filecache/client.go).  *)
(* The cache is that of ArtifactCache; what the other side holds is fixed.  *)
(***************************************************************************)
EXTENDS ArtifactCache

CONSTANTS
  Downloaders,  \* the goroutines of Creators that download what they create
  Patient,      \* those that wait for another writer, as artifact.Download does
  Held,         \* what the other side has in its cache, whole
  Entries       \* files and directories of an artifact

\* MayFail may name, besides the calls of the cache: "connection" (or any read
\* of it), "receive" (writing what was received), "send" (walking or reading
\* what is sent).
ASSUME DownloadersAssumption == Patient \subseteq Downloaders /\ Downloaders \subseteq Creators
ASSUME EntriesAssumption == Entries \in Nat \ {0}

VARIABLES
  fetch,   \* where Download stands
  sent,    \* entries the other side has sent
  end,     \* how the response body ended: "open", "clean", "torn"
  got      \* what Download returned last

fetchVars == <<fetch, sent, end, got>>
transferVars == <<vars, fetchVars>>

TransferInit ==
  /\ Init
  /\ fetch = [d \in Downloaders |-> "idle"]
  /\ sent = [d \in Downloaders |-> 0]
  /\ end = [d \in Downloaders |-> "open"]
  /\ got = [d \in Downloaders |-> "none"]

FetchGoes(d, from, to) == fetch[d] = from /\ fetch' = [fetch EXCEPT ![d] = to]
Stays == UNCHANGED <<sent, end, got>>

(* The body has been read as far as it will be. *)
Forget(d) == sent' = [sent EXCEPT ![d] = 0] /\ end' = [end EXCEPT ![d] = "open"]

DownloadReturns(d, from, result) ==
  /\ FetchGoes(d, from, "idle")
  /\ got' = [got EXCEPT ![d] = result]
  /\ UNCHANGED <<sent, end>>

-----------------------------------------------------------------------------
TryGivesUp(d, id, from) ==  \* mutant: an artifact being written counts as there
  /\ CreateLock(d, id)
  /\ LET e == WriteLockError(id, FALSE)
     IN  IF e = "nil" THEN FetchGoes(d, from, "create") /\ Stays
         ELSE DownloadReturns(d, from, IF e \in {"exists", "writeLocked"} THEN "nil"
                                                                          ELSE "error")

(* Create in the local cache: there already, being written, or ours to write. *)
Try(d, id, from) ==
  /\ CreateLock(d, id)
  /\ LET e == WriteLockError(id, FALSE)
     IN  \/ e = "nil" /\ FetchGoes(d, from, "create") /\ Stays
         \/ e = "writeLocked" /\ d \in Patient /\ FetchGoes(d, from, "retry") /\ Stays
         \/ e = "exists" /\ DownloadReturns(d, from, "nil")
         \/ /\ e = "readLocked" \/ (e = "writeLocked" /\ d \notin Patient)
            /\ DownloadReturns(d, from, "error")

Download(d, id) == fetch[d] = "idle" /\ Try(d, id, "idle")

(* After ten milliseconds; or the context has ended meanwhile. *)
Retry(d) == fetch[d] = "retry" /\ Try(d, at[d], "retry")

GiveUp(d) == DownloadReturns(d, "retry", "error") /\ UNCHANGED vars

MakeDir(d) ==
  \/ CreateDir(d) /\ FetchGoes(d, "create", "request") /\ Stays
  \/ CreateDirFails(d) /\ DownloadReturns(d, "create", "error")

(* GET: handleArtifact, or handleGetFile for a source file, holds a read lock *)
(* on the other side and begins to send.                                    *)
Served(d) ==
  /\ at[d] \in Held
  /\ FetchGoes(d, "request", "body")
  /\ Stays
  /\ UNCHANGED vars

Refused(d) ==
  /\ at[d] \notin Held \/ "connection" \in MayFail
  /\ FetchGoes(d, "request", "ending")
  /\ AbortRemove(d)
  /\ Stays

(* tarstream.Send, entry after entry.                                       *)
Sends(d) ==
  /\ fetch[d] = "body" /\ end[d] = "open"
  /\ sent[d] < Entries
  /\ sent' = [sent EXCEPT ![d] = @ + 1]
  /\ UNCHANGED <<vars, fetch, end, got>>

(* The handler returns when Send is through, and also, having logged the      *)
(* error, when Send fails: the response then ends as cleanly, and only a     *)
(* file that was announced and not sent in full shows that it is short.      *)
SendEnds(d) ==
  /\ fetch[d] = "body" /\ end[d] = "open"
  /\ end' = [end EXCEPT ![d] =
       IF sent[d] = Entries \/ "send" \in MayFail THEN "clean" ELSE @]
  /\ end' # end
  /\ UNCHANGED <<vars, fetch, sent, got>>

(* A connection that breaks, or a file announced and not sent in full.      *)
SendBreaks(d) ==
  /\ MayFail \cap {"connection", "send"} # {}
  /\ fetch[d] = "body" /\ end[d] = "open"
  /\ end' = [end EXCEPT ![d] = "torn"]
  /\ UNCHANGED <<vars, fetch, sent, got>>

ReceivedAnyhow(d) ==  \* mutant: the error of Receive is not looked at
  /\ end[d] # "open"
  /\ IF sent[d] = Entries THEN Fill(d)
     ELSE /\ pc[d] = "writing"
          /\ Goto(d, "written")
          /\ UNCHANGED <<writeLocked, readLocked, tmp, disk, at, err, crashes, pastVars>>
  /\ FetchGoes(d, "body", "ending")
  /\ Forget(d) /\ UNCHANGED got

(* tarstream.Receive takes the end of the stream for the end of the archive.  *)
(* It writes into the files it finds without truncating them, and leaves      *)
(* those it is sent nothing for; the one file of a source file is truncated. *)
Received(d) ==
  /\ end[d] = "clean"
  /\ IF sent[d] = Entries THEN Fill(d) \/ (d \in Patient /\ FillOver(d))
     ELSE /\ pc[d] = "writing"
          /\ Goto(d, "written")
          /\ UNCHANGED <<writeLocked, readLocked, tmp, disk, at, err, crashes, pastVars>>
  /\ FetchGoes(d, "body", "ending")
  /\ Forget(d) /\ UNCHANGED got

(* A directory that is there already is an error of its Mkdir. *)
ReceiveFails(d) ==
  /\ \/ end[d] = "torn" \/ "receive" \in MayFail
     \/ d \in Patient /\ tmp[at[d]] = "stale"
  /\ FetchGoes(d, "body", "ending")
  /\ AbortRemove(d)
  /\ Forget(d) /\ UNCHANGED got

(* commit, or what is left of abort. *)
Ends(d) ==
  /\ fetch[d] = "ending"
  /\ \/ (CommitRename(d) \/ CommitFails(d)) /\ UNCHANGED fetchVars
     \/ /\ CommitUnlock(d) \/ AbortUnlock(d)
        /\ DownloadReturns(d, "ending", IF err'[d] = "nil" THEN "nil" ELSE "error")

DownloadStep(d) ==
  \/ Retry(d) \/ GiveUp(d) \/ MakeDir(d) \/ Served(d) \/ Refused(d)
  \/ Sends(d) \/ SendEnds(d) \/ SendBreaks(d)
  \/ Received(d) \/ ReceiveFails(d) \/ Ends(d)

(* The process of the downloaders dies, and with it their requests.         *)
TransferRestart ==
  /\ Restart
  /\ fetch' = [d \in Downloaders |-> "idle"]
  /\ sent' = [d \in Downloaders |-> 0]
  /\ end' = [d \in Downloaders |-> "open"]
  /\ got' = [d \in Downloaders |-> "none"]

Idle(p) == p \in Downloaders => fetch[p] = "idle"

(* The cache among its users: jobs that create, downloads, readers, a remover. *)
TransferNext ==
  \/ \E d \in Downloaders : DownloadStep(d) \/ \E id \in IDs : Download(d, id)
  \/ \E p \in Procs \ Removers : Idle(p) /\ Get(p) /\ UNCHANGED fetchVars
  \/ \E p \in Creators \ Downloaders : Create(p) /\ UNCHANGED fetchVars
  \/ \E p \in Removers : Remove(p) /\ UNCHANGED fetchVars
  \/ TransferRestart

TransferSpec == TransferInit /\ [][TransferNext]_transferVars

-----------------------------------------------------------------------------
TransferTypeOK ==
  /\ TypeOK
  /\ fetch \in [Downloaders -> {"idle", "create", "retry", "request", "body", "ending"}]
  /\ sent \in [Downloaders -> 0..Entries]
  /\ end \in [Downloaders -> {"open", "clean", "torn"}]
  /\ got \in [Downloaders -> {"none", "nil", "error"}]

(* When Download returns nil, the artifact is in the local cache and whole,   *)
(* whoever put it there, unless it is flawed in one of the ways that a writer *)
(* cannot see: a part of one is never taken for the artifact.               *)
DownloadedIsWhole ==
  [][\A d \in Downloaders :
       /\ fetch[d] # "idle" \/ got[d] # "nil"
       /\ fetch'[d] = "idle" /\ got'[d] = "nil"
       => WholeOrFlawed(at[d])']_transferVars

(* The cache stays the one ArtifactCache describes, whatever its downloads    *)
(* receive: what is proved of it holds here.                                *)
UsesTheCache == Spec
=============================================================================
