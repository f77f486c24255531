------------------------- MODULE BuildStreamProofs -------------------------
(* Proofs about BuildStream, for any graphs that TopSort sorts, any failures *)
(* and any moment at which the connection breaks or the client gives up.     *)
EXTENDS BuildStream, SequenceTheorems, TLAPS

-----------------------------------------------------------------------------
(* What is asked of TopSort: hypotheses of the theorems, which a run checks   *)
(* for small graphs.                                                        *)
GraphsAreKept == \A g \in Graphs : KeepsJobs(g)
GraphsAreSorted == \A g \in Graphs : SortsDeps(g)

-----------------------------------------------------------------------------
(* The inductive invariant. *)

Verdicts == {"ok", "failed"}
Ends == {"finished", "failed", "refused"}
Messages ==
  {<<"started">>, <<"finished">>, <<"failed">>, <<"refused">>, <<"eof">>}
    \cup ({"job"} \X Ids \X Verdicts)

StreamTyped ==
  /\ graph \in Graphs
  /\ buildPc \in {"checking", "uploading", "next", "waiting", "failing",
                  "returning", "ended"}
  /\ sortedJobs \in Seq(ToSet(graph))
  /\ position \in 0..Len(sortedJobs)
  /\ result \in {"none", "ok", "failed"}
  /\ wire \in Seq(Messages)
  /\ connection \in {"up", "cut"}
  /\ clientPc \in {"starting", "uploading", "signalling", "watching", "done"}
  /\ heard \in Seq(Ids \X Verdicts)

\* The loop of StartBuild: jobs that it has done with have a holder.
LoopOK ==
  /\ buildPc \in {"checking", "uploading"} => sortedJobs = <<>> /\ position = 0
  /\ buildPc \in {"next", "waiting"} =>
       /\ sortedJobs = TopSort(graph)
       /\ \A j \in 1..position :
            \/ sortedJobs[j].id \in located
            \/ buildPc = "waiting" /\ j = position /\ result = "none"
  /\ buildPc = "waiting" => position > 0

\* How many messages of the stream the client has read.
read == IF clientPc = "starting" THEN 0 ELSE 1 + Len(heard)

\* The n-th message that the server writes may be msg.
Fits(msg, n) ==
  /\ msg = <<"started">> => n = 1
  /\ msg[1] = "job" => n - 1 \in 1..position /\ msg[2] = sortedJobs[n - 1].id
  /\ msg = <<"finished">> =>
       /\ buildPc \in {"returning", "ended"}
       /\ sortedJobs = TopSort(graph) /\ n = Len(sortedJobs) + 2

\* While the client listens: each message is in its place, and the stream ends
\* after its last status.
InPlace ==
  clientPc # "done" => \A i \in DOMAIN wire :
    /\ Fits(wire[i], read + i)
    /\ wire[i] = <<"eof">> => i > 1 /\ wire[i - 1][1] \in Ends

\* On a connection that is up, all that the server has written is read or on
\* its way.
AllThere ==
  connection = "up" =>
    /\ buildPc = "checking" => read + Len(wire) = 0
    /\ buildPc = "uploading" => read + Len(wire) = 1
    /\ buildPc = "next" => read + Len(wire) = 1 + position
    /\ buildPc = "waiting" => read + Len(wire) = position
    /\ buildPc = "returning" => wire # <<>> /\ wire[Len(wire)][1] \in Ends

\* The listener hears of the jobs in their order, and only while it watches.
HeardOK ==
  /\ \A k \in DOMAIN heard : k <= position /\ heard[k][1] = sortedJobs[k].id
  /\ clientPc \in {"starting", "uploading", "signalling"} => heard = <<>>
  /\ answer # "none" => clientPc = "done"
  /\ clientPc = "done" => connection = "cut"

\* A build of which a job has failed does not finish.
NoFailure ==
  /\ \A k \in DOMAIN heard : heard[k][2] = "ok"
  /\ \A i \in DOMAIN wire : wire[i][1] = "job" => wire[i][3] = "ok"
NoFinish ==
  /\ buildPc \in {"failing", "returning", "ended"}
  /\ \A i \in DOMAIN wire : wire[i] # <<"finished">>
FailureIsFinal == clientPc # "done" => NoFailure \/ NoFinish

StreamInv ==
  /\ StreamTyped /\ LoopOK /\ InPlace /\ AllThere /\ HeardOK /\ FailureIsFinal
  /\ SuccessIsReal

-----------------------------------------------------------------------------

(* Where the elements of a sequence stand when one is appended to it. *)
LEMMA AppendOne ==
  ASSUME NEW S, NEW s \in Seq(S), NEW e
  PROVE  /\ Len(Append(s, e)) = Len(s) + 1
         /\ Append(s, e)[Len(s) + 1] = e
         /\ \A k \in DOMAIN Append(s, e) :
              (k \in DOMAIN s /\ Append(s, e)[k] = s[k]) \/ k = Len(s) + 1
         /\ \A k \in DOMAIN s : Append(s, e)[k] = s[k]
<1>1. s \in Seq(S \cup {e})
  OBVIOUS
<1> QED
  BY <1>1, AppendProperties

LEMMA LastOfTail ==
  ASSUME NEW S, NEW s \in Seq(S), Len(s) > 1
  PROVE  Tail(s) # <<>> /\ Tail(s)[Len(Tail(s))] = s[Len(s)]
<1>1. Tail(s) \in Seq(S) /\ Len(Tail(s)) = Len(s) - 1
  BY HeadTailProperties
<1>2. \A i \in 1..Len(Tail(s)) : Tail(s)[i] = s[i + 1]
  BY HeadTailProperties
<1>3. Len(s) - 1 \in 1..Len(Tail(s)) /\ (Len(s) - 1) + 1 = Len(s)
  BY <1>1
<1>4. Tail(s)[Len(s) - 1] = s[(Len(s) - 1) + 1]
  BY <1>2, <1>3
<1>5. Tail(s) # <<>>
  <2>1. Len(Tail(s)) # 0
    BY <1>1
  <2> QED
    BY <1>1, <2>1, EmptySeq
<1> QED
  BY <1>1, <1>3, <1>4, <1>5

(* A step writes one message, or none. *)
Says(msg) == wire' = wire \/ (connection = "up" /\ wire' = Append(wire, msg))

LEMMA InitStream == Init => StreamInv /\ OwnDepsAreBuilt
<1> SUFFICES ASSUME Init
             PROVE  StreamInv /\ OwnDepsAreBuilt
  OBVIOUS
<1>1. StreamTyped
  BY DEF Init, StreamTyped
<1>2. LoopOK /\ HeardOK /\ FailureIsFinal /\ SuccessIsReal /\ OwnDepsAreBuilt
  BY DEF Init, LoopOK, HeardOK, FailureIsFinal, NoFailure,
     SuccessIsReal, OwnDepsAreBuilt
<1>3. InPlace /\ AllThere
  BY DEF Init, InPlace, AllThere, read
<1> QED
  BY <1>1, <1>2, <1>3 DEF StreamInv

-----------------------------------------------------------------------------
(* Types *)

LEMMA TypedStep ==
  ASSUME GraphsAreKept, StreamTyped, LoopOK, [Next]_vars
  PROVE  StreamTyped' /\ Ids' = Ids
<1> USE DEF StreamTyped
<1>1. Ids' = Ids /\ graph' = graph
  BY DEF Next, vars, Ids, Server, Client, FilesFail, Started, UploadDone, Cancelled,
     Schedule, SpecRefused, ReportJob, ReportFinished, HandlerFails, HandlerReturns,
     Result, SignalBuild, ClientStarts, ClientRefused, Uploaded, UploadFails,
     Signalled, SignalFails, HearJob, HearEnd, ClientLosesConnection, Cut
<1>2. Messages' = Messages
  BY <1>1 DEF Messages
<1>3. ASSUME NEW msg \in Messages, Says(msg)
      PROVE  wire' \in Seq(Messages)
  <2>1. Append(wire, msg) \in Seq(Messages)
    BY <1>3, AppendProperties
  <2> QED
    BY <1>3, <2>1 DEF Says
<1>4. CASE FilesFail \/ Cancelled \/ SignalBuild \/ Cut \/ Uploaded \/ Signalled
  <2>1. /\ UNCHANGED <<sortedJobs, position, result, wire, heard>>
        /\ buildPc' \in {buildPc, "failing"} /\ connection' \in {connection, "cut"}
        /\ clientPc' \in {clientPc, "signalling", "watching"}
    BY <1>4 DEF FilesFail, Cancelled, SignalBuild, Cut, Uploaded, Signalled,
       Goes, loopVars, serverVars, streamVars, clientVars
  <2> QED
    BY <1>1, <1>2, <2>1
<1>5. CASE Started \/ ReportFinished \/ HandlerFails \/ HandlerReturns
  <2>1. \E msg \in Messages : Says(msg)
    BY <1>5 DEF Started, ReportFinished, HandlerFails, HandlerReturns, Write, Say,
       Says, Messages
  <2> QED
    BY <1>1, <1>2, <1>3, <1>5, <2>1 DEF Started, ReportFinished, HandlerFails,
       HandlerReturns, Write, Goes, loopVars, clientVars, signalVars
<1>6. CASE UploadDone
  <2>1. sortedJobs' \in Seq(ToSet(graph)) /\ position' = 0
    BY <1>6 DEF UploadDone, GraphsAreKept, KeepsJobs, LoopOK, Goes
  <2> QED
    BY <1>1, <1>2, <1>6, <2>1 DEF UploadDone, Goes, streamVars, clientVars, signalVars
<1>7. CASE Schedule \/ SpecRefused
  BY <1>1, <1>2, <1>7 DEF Schedule, SpecRefused, NextJob, Goes, streamVars, clientVars
<1>8. CASE Result
  BY <1>1, <1>2, <1>8 DEF Result, streamVars, clientVars
<1>9. CASE ReportJob
  <2>1. Job \in ToSet(graph) /\ Job.id \in Ids
    BY <1>9 DEF ReportJob, LoopOK, Job, Ids, ToSet
  <2>2. <<"job", Job.id, result>> \in Messages
    BY <1>9, <2>1 DEF ReportJob, Messages, Verdicts
  <2>3. Says(<<"job", Job.id, result>>)
    BY <1>9 DEF ReportJob, Write, Say, Says
  <2> QED
    BY <1>1, <1>2, <1>3, <1>9, <2>2, <2>3 DEF ReportJob, Write, loopVars, clientVars
<1>10. CASE ClientStarts
  BY <1>1, <1>2, <1>10 DEF ClientStarts, serverVars, loopVars
<1>11. CASE ClientRefused \/ UploadFails \/ SignalFails \/ ClientLosesConnection \/ HearEnd
  <2>1. /\ UNCHANGED <<serverVars, heard>> /\ connection' = "cut" /\ clientPc' = "done"
        /\ wire' = wire \/ (wire # <<>> /\ wire' = Tail(wire))
    BY <1>11 DEF ClientRefused, UploadFails, SignalFails, ClientLosesConnection, HearEnd,
       Reads, Return
  <2>2. wire' \in Seq(Messages)
    BY <2>1, HeadTailProperties
  <2> QED
    BY <1>1, <1>2, <2>1, <2>2 DEF serverVars, loopVars
<1>12. CASE HearJob
  <2>1. Head(wire) \in {"job"} \X Ids \X Verdicts
    BY <1>12 DEF HearJob, Reads, Messages
  <2> QED
    BY <1>1, <1>2, <1>12, <2>1 DEF HearJob, Reads, Return, serverVars, loopVars, signalVars
<1>13. CASE UNCHANGED vars
  BY <1>1, <1>2, <1>13 DEF vars, serverVars, loopVars, streamVars, clientVars
<1> QED
  BY <1>1, <1>4, <1>5, <1>6, <1>7, <1>8, <1>9, <1>10, <1>11, <1>12,
   <1>13 DEF Next, Server, Client

-----------------------------------------------------------------------------
(* The loop of StartBuild *)

LEMMA LoopStep ==
  ASSUME GraphsAreKept, StreamTyped, LoopOK, [Next]_vars
  PROVE  LoopOK'
<1> USE DEF StreamTyped, LoopOK
<1>1. CASE FilesFail \/ Cancelled \/ Started
  BY <1>1 DEF FilesFail, Cancelled, Started, Write, Goes, loopVars
<1>2. CASE UploadDone
  BY <1>2 DEF UploadDone, Goes
<1>3. CASE Schedule \/ SpecRefused
  BY <1>3 DEF Schedule, SpecRefused, NextJob, Goes
<1>4. CASE Result
  BY <1>4 DEF Result, Job
<1>5. CASE ReportJob \/ ReportFinished \/ HandlerFails \/ HandlerReturns
  BY <1>5 DEF ReportJob, ReportFinished, HandlerFails, HandlerReturns, Write, Goes, loopVars
<1>6. CASE SignalBuild \/ Client \/ Cut \/ UNCHANGED vars
  <2>1. UNCHANGED <<graph, serverVars>>
    BY <1>6 DEF SignalBuild, Client, Cut, vars, ClientStarts, ClientRefused, Uploaded,
       UploadFails, Signalled, SignalFails, HearJob, HearEnd, ClientLosesConnection
  <2> QED
    BY <2>1 DEF serverVars, loopVars
<1> QED
  BY <1>1, <1>2, <1>3, <1>4, <1>5, <1>6 DEF Next, Server

LEMMA OwnDepsStep ==
  ASSUME GraphsAreKept, GraphsAreSorted, StreamTyped, LoopOK, OwnDepsAreBuilt, [Next]_vars
  PROVE  OwnDepsAreBuilt'
<1>1. Ids' = Ids
  BY TypedStep
<1>2. CASE SpecRefused
  <2>1. SUFFICES ASSUME NEW i \in DOMAIN graph, graph[i].id \in refusedFor'
                 PROVE  FALSE
    BY <1>1 DEF OwnDepsAreBuilt, Ids
  <2>2. /\ buildPc = "next" /\ sortedJobs = TopSort(graph)
        /\ position \in Nat /\ position + 1 \in DOMAIN sortedJobs
        /\ graph[i].id \in ToSet(sortedJobs[position + 1].deps) \ located
    BY <1>2, <2>1 DEF SpecRefused, NextJob, Goes, LoopOK, StreamTyped
  <2>3. PICK j \in 1..position : sortedJobs[j].id = graph[i].id
    <3>1. \E j \in 1..((position + 1) - 1) : sortedJobs[j].id = graph[i].id
      BY <2>1, <2>2 DEF GraphsAreSorted, SortsDeps, StreamTyped
    <3> QED
      BY <2>2, <3>1
  <2> QED
    BY <2>2, <2>3 DEF LoopOK
<1>3. CASE ~SpecRefused
  BY <1>1, <1>3 DEF OwnDepsAreBuilt, Next, vars, Server, Client, FilesFail, Started,
     UploadDone, Cancelled, Schedule, ReportJob, ReportFinished, HandlerFails,
     HandlerReturns, Result, SignalBuild, ClientStarts, ClientRefused, Uploaded,
     UploadFails, Signalled, SignalFails, HearJob, HearEnd, ClientLosesConnection, Cut,
     serverVars, loopVars
<1> QED
  BY <1>2, <1>3

-----------------------------------------------------------------------------
(* The stream *)

(* What has been written stays where it was in the script of the server.     *)
LEMMA ScriptStays ==
  ASSUME GraphsAreKept, StreamTyped, LoopOK, [Next]_vars
  PROVE  /\ position' \in Nat /\ position <= position'
         /\ position > 0 => sortedJobs' = sortedJobs
         /\ buildPc = "failing" => buildPc' \in {"failing", "returning"}
         /\ buildPc \in {"returning", "ended"} =>
              buildPc' \in {"returning", "ended"} /\ UNCHANGED <<graph, sortedJobs>>
<1> USE DEF StreamTyped, LoopOK
<1>1. CASE UploadDone
  BY <1>1 DEF UploadDone, Goes
<1>2. CASE Schedule \/ SpecRefused
  BY <1>2 DEF Schedule, SpecRefused, NextJob, Goes
<1>3. CASE FilesFail \/ Cancelled \/ Started \/ ReportJob \/ ReportFinished \/ HandlerFails
           \/ HandlerReturns \/ Result
  BY <1>3 DEF FilesFail, Cancelled, Started, ReportJob, ReportFinished, HandlerFails,
     HandlerReturns, Result, Write, Goes, loopVars
<1>4. CASE SignalBuild \/ Client \/ Cut \/ UNCHANGED vars
  <2>1. UNCHANGED <<graph, serverVars>>
    BY <1>4 DEF SignalBuild, Client, Cut, vars, ClientStarts, ClientRefused, Uploaded,
       UploadFails, Signalled, SignalFails, HearJob, HearEnd, ClientLosesConnection
  <2> QED
    BY <2>1 DEF serverVars, loopVars
<1> QED
  BY <1>1, <1>2, <1>3, <1>4 DEF Next, Server

(* What a step does to the stream: the server writes at its end, the client  *)
(* reads at its head, or gives the connection up.                            *)
Writes(msg) ==
  /\ connection = "up"
  /\ wire' = Append(wire, msg)
  /\ UNCHANGED <<connection, clientPc, heard, answer>>
ReadsOn ==
  /\ wire # <<>> /\ wire' = Tail(wire)
  /\ \/ clientPc = "starting" /\ clientPc' = "uploading" /\ heard' = heard
        /\ Head(wire) = <<"started">>
     \/ /\ clientPc = "watching" /\ clientPc' = "watching" /\ Head(wire)[1] = "job"
        /\ heard' = Append(heard, <<Head(wire)[2], Head(wire)[3]>>)
  /\ UNCHANGED <<graph, buildPc, position, sortedJobs, connection, answer>>
GivesUp ==
  /\ clientPc # "done" /\ clientPc' = "done" /\ connection' = "cut"
  /\ answer' = "nil" => /\ clientPc = "watching" /\ wire # <<>> /\ heard' = heard
                        /\ Head(wire)[1] \in {"finished", "eof"}
  /\ \/ heard' = heard
     \/ /\ clientPc = "watching" /\ wire # <<>> /\ Head(wire)[1] = "job"
        /\ heard' = Append(heard, <<Head(wire)[2], Head(wire)[3]>>)
  /\ UNCHANGED <<graph, buildPc, position, sortedJobs>>
Silent ==
  /\ UNCHANGED <<graph, wire, heard, answer>>
  /\ connection' \in {connection, "cut"}
  /\ \/ clientPc' = clientPc
     \/ clientPc = "uploading" /\ clientPc' = "signalling"
     \/ clientPc = "signalling" /\ clientPc' = "watching"

ServerWrites ==
  /\ \/ buildPc = "checking" /\ buildPc' = "uploading" /\ Writes(<<"started">>)
     \/ /\ buildPc = "waiting" /\ position > 0 /\ result # "none"
        /\ buildPc' = (IF result = "ok" THEN "next" ELSE "failing")
        /\ Writes(<<"job", sortedJobs[position].id, result>>)
     \/ /\ buildPc = "next" /\ position = Len(sortedJobs) /\ buildPc' = "returning"
        /\ Writes(<<"finished">>)
     \/ /\ buildPc = "failing" /\ buildPc' = "returning"
        /\ Writes(<<"failed">>) \/ Writes(<<"refused">>)
     \/ buildPc = "returning" /\ buildPc' = "ended" /\ Writes(<<"eof">>)
  /\ UNCHANGED <<graph, position, sortedJobs>>

\* The steps of the server on its way that write nothing.
ServerMoves ==
  \/ connection' = "cut"
  \/ UNCHANGED <<buildPc, position>>
  \/ buildPc' = "failing"
  \/ buildPc = "uploading" /\ buildPc' = "next" /\ position' = position
  \/ buildPc = "next" /\ buildPc' = "waiting" /\ position' = position + 1

LEMMA EachStep ==
  ASSUME GraphsAreKept, StreamTyped, LoopOK, HeardOK, [Next]_vars
  PROVE  \/ ServerWrites \/ ReadsOn \/ GivesUp
         \/ Silent /\ ServerMoves
<1> USE DEF StreamTyped
<1>1. CASE FilesFail \/ UploadDone \/ Cancelled \/ Schedule \/ SpecRefused \/ Result
  <2>1. Silent
    BY <1>1 DEF FilesFail, UploadDone, Cancelled, Schedule, SpecRefused, Result, Silent,
       streamVars, clientVars
  <2>2. ServerMoves
    BY <1>1 DEF FilesFail, UploadDone, Cancelled, Schedule, SpecRefused, Result, NextJob,
       Goes, ServerMoves, loopVars, LoopOK
  <2> QED
    BY <2>1, <2>2
<1>2. CASE Started \/ ReportJob \/ ReportFinished \/ HandlerFails \/ HandlerReturns
  <2>1. CASE connection = "cut"
    BY <1>2, <2>1 DEF Started, ReportJob, ReportFinished, HandlerFails, HandlerReturns,
       Write, Say, Silent, ServerMoves, clientVars
  <2>2. CASE connection = "up"
    BY <1>2, <2>2 DEF Started, ReportJob, ReportFinished, HandlerFails, HandlerReturns,
       Write, Say, Goes, Job, ServerWrites, Writes, clientVars, loopVars, LoopOK
  <2> QED
    BY <2>1, <2>2
<1>3. CASE SignalBuild \/ Cut \/ Uploaded \/ Signalled \/ UNCHANGED vars
  BY <1>3 DEF SignalBuild, Cut, Uploaded, Signalled, vars, Silent, ServerMoves,
     streamVars, clientVars, serverVars, loopVars
<1>4. CASE ClientStarts \/ HearJob
  BY <1>4 DEF ClientStarts, HearJob, Reads, Return, ReadsOn, GivesUp, serverVars, loopVars
<1>5. CASE ClientRefused \/ UploadFails \/ SignalFails \/ HearEnd \/ ClientLosesConnection
  BY <1>5 DEF ClientRefused, UploadFails, SignalFails, HearEnd, ClientLosesConnection,
     Reads, Return, GivesUp, serverVars, loopVars
<1> QED
  BY <1>1, <1>2, <1>3, <1>4, <1>5 DEF Next, Server, Client

\* Fits in the next state, of a message and a place in this one.
FitsNext(msg, n) ==
  /\ msg = <<"started">> => n = 1
  /\ msg[1] = "job" => n - 1 \in 1..position' /\ msg[2] = sortedJobs'[n - 1].id
  /\ msg = <<"finished">> =>
       /\ buildPc' \in {"returning", "ended"}
       /\ sortedJobs' = TopSort(graph') /\ n = Len(sortedJobs') + 2

LEMMA InPlaceStep ==
  ASSUME GraphsAreKept, StreamTyped, LoopOK, HeardOK, InPlace, AllThere, [Next]_vars
  PROVE  InPlace'
<1> USE DEF StreamTyped
<1> SUFFICES ASSUME clientPc' # "done", NEW i \in DOMAIN wire'
             PROVE  /\ FitsNext(wire'[i], read' + i)
                    /\ wire'[i] = <<"eof">> => i > 1 /\ wire'[i - 1][1] \in Ends
  BY DEF InPlace, Fits, FitsNext
<1>0. read \in Nat
  BY DEF read
<1>1. ASSUME NEW k \in DOMAIN wire, clientPc # "done"
      PROVE  /\ FitsNext(wire[k], read + k)
             /\ wire[k] = <<"eof">> => k > 1 /\ wire[k - 1][1] \in Ends
  <2>1. \A msg : \A n \in Nat : Fits(msg, n) => FitsNext(msg, n)
    BY ScriptStays DEF Fits, FitsNext
  <2> QED
    BY <1>0, <1>1, <2>1 DEF InPlace
<1>2. CASE Silent
  <2>1. read' = read /\ wire' = wire /\ clientPc # "done"
    BY <1>2 DEF Silent, read
  <2> QED
    BY <1>1, <2>1
<1>3. CASE ReadsOn
  <2>1. read' = read + 1
    BY <1>3 DEF ReadsOn, read, HeardOK
  <2>2. wire # <<>> /\ wire' = Tail(wire) /\ Head(wire)[1] \notin Ends /\ clientPc # "done"
    BY <1>3 DEF ReadsOn, Ends
  <2>3. /\ wire'[i] = wire[i + 1] /\ i + 1 \in DOMAIN wire /\ i \in Nat \ {0}
        /\ i > 1 => wire'[i - 1] = wire[i]
        /\ wire[1][1] \notin Ends
    <3>1. /\ Len(wire) \in Nat /\ Len(wire') = Len(wire) - 1
          /\ \A k \in 1..Len(wire') : wire'[k] = wire[k + 1]
          /\ DOMAIN wire = 1..Len(wire) /\ DOMAIN wire' = 1..Len(wire')
      BY <2>2, HeadTailProperties
    <3>2. wire[1] = Head(wire)
      BY <2>2
    <3> QED
      BY <2>2, <3>1, <3>2
  <2>4. read' + i = read + (i + 1)
    BY <1>0, <2>1, <2>3
  <2>5. FitsNext(wire[i + 1], read + (i + 1))
    BY <1>1, <2>2, <2>3
  <2>6. wire[i + 1] = <<"eof">> => wire[i][1] \in Ends
    BY <1>1, <2>2, <2>3
  <2>7. FitsNext(wire'[i], read' + i)
    BY <2>3, <2>4, <2>5
  <2>8. wire'[i] = <<"eof">> => i > 1 /\ wire'[i - 1][1] \in Ends
    BY <2>3, <2>6
  <2> QED
    BY <2>7, <2>8
<1>4. CASE ServerWrites
  <2>1. /\ read' = read /\ clientPc # "done" /\ connection = "up"
        /\ UNCHANGED <<graph, position, sortedJobs>>
    BY <1>4 DEF ServerWrites, Writes, read
  <2>2. PICK msg :
          /\ Writes(msg)
          /\ msg = <<"started">> => buildPc = "checking"
          /\ msg[1] = "job" =>
               buildPc = "waiting" /\ position > 0 /\ msg[2] = sortedJobs[position].id
          /\ msg = <<"finished">> =>
               buildPc = "next" /\ buildPc' = "returning" /\ position = Len(sortedJobs)
          /\ msg = <<"eof">> => buildPc = "returning"
    BY <1>4, SMTT(30) DEF ServerWrites
  <2>3. /\ Len(wire) \in Nat /\ wire'[Len(wire) + 1] = msg
        /\ i \in DOMAIN wire \/ i = Len(wire) + 1
        /\ \A k \in DOMAIN wire : wire'[k] = wire[k]
    <3>1. wire \in Seq(Messages) /\ wire' = Append(wire, msg)
      BY <2>2 DEF Writes
    <3> QED
      BY <3>1, AppendOne
  <2>4. CASE i \in DOMAIN wire
    <3>1. wire'[i] = wire[i] /\ (i > 1 => wire'[i - 1] = wire[i - 1])
      BY <2>3, <2>4
    <3> QED
      BY <1>1, <2>1, <2>4, <3>1
  <2>5. CASE i = Len(wire) + 1
    <3>1. FitsNext(msg, read + Len(wire) + 1)
      BY <1>0, <2>1, <2>2, <2>3 DEF FitsNext, AllThere, LoopOK
    <3>2. wire'[i] = <<"eof">> => i > 1 /\ wire'[i - 1][1] \in Ends
      BY <2>1, <2>2, <2>3, <2>5 DEF AllThere
    <3> QED
      BY <1>0, <2>1, <2>3, <2>5, <3>1, <3>2
  <2> QED
    BY <2>3, <2>4, <2>5
<1> QED
  BY <1>2, <1>3, <1>4, EachStep DEF GivesUp

LEMMA AllThereStep ==
  ASSUME GraphsAreKept, StreamTyped, LoopOK, HeardOK, InPlace, AllThere, [Next]_vars
  PROVE  AllThere'
<1> USE DEF StreamTyped
<1>1. CASE Silent /\ ServerMoves
  <2>1. read' = read /\ read \in Nat /\ Len(wire) \in Nat
    BY <1>1 DEF Silent, read
  <2> QED
    BY <1>1, <2>1 DEF Silent, ServerMoves, AllThere, LoopOK
<1>2. CASE ReadsOn
  <2>1. read' = read + 1 /\ read \in Nat /\ Len(wire) \in Nat /\ Len(wire') = Len(wire) - 1
    BY <1>2 DEF ReadsOn, read, HeardOK
  <2>2. wire[Len(wire)][1] \in Ends => wire' # <<>> /\ wire'[Len(wire')] = wire[Len(wire)]
    <3>1. wire # <<>> /\ wire' = Tail(wire) /\ Head(wire)[1] \notin Ends
      BY <1>2 DEF ReadsOn, Ends
    <3>2. CASE Len(wire) = 1
      BY <3>1, <3>2
    <3>3. CASE Len(wire) > 1
      BY <3>1, <3>3, LastOfTail
    <3> QED
      BY <3>1, <3>2, <3>3
  <2>3. read' + Len(wire') = read + Len(wire)
    BY <2>1
  <2> QED
    BY <1>2, <2>2, <2>3 DEF ReadsOn, AllThere
<1>3. CASE ServerWrites
  <2>1. read' = read /\ Len(wire') = Len(wire) + 1 /\ wire' # <<>>
        /\ connection = "up" /\ read \in Nat
    BY <1>3 DEF ServerWrites, Writes, read
  <2>2. ASSUME NEW msg, Writes(msg)
        PROVE  wire'[Len(wire')] = msg
    BY <2>2, AppendOne DEF Writes
  <2>3. buildPc' = "returning" => wire'[Len(wire')][1] \in Ends
    BY <1>3, <2>2 DEF ServerWrites, Ends
  <2> QED
    BY <1>3, <2>1, <2>3 DEF ServerWrites, AllThere
<1>4. CASE GivesUp
  BY <1>4 DEF GivesUp, AllThere
<1> QED
  BY <1>1, <1>2, <1>3, <1>4, EachStep

LEMMA HeardStep ==
  ASSUME GraphsAreKept, StreamTyped, LoopOK, HeardOK, InPlace, [Next]_vars
  PROVE  HeardOK'
<1> USE DEF StreamTyped, HeardOK
<1>1. ASSUME NEW k \in DOMAIN heard'
      PROVE  (k <= position /\ heard[k][1] = sortedJobs[k].id)'
  <2>1. CASE k \in DOMAIN heard /\ heard'[k] = heard[k]
    BY <2>1, ScriptStays
  <2>2. CASE k \notin DOMAIN heard \/ heard'[k] # heard[k]
    <3>0. heard' # heard => 
            /\ clientPc = "watching" /\ wire # <<>> /\ Head(wire)[1] = "job"
            /\ heard' = Append(heard, <<Head(wire)[2], Head(wire)[3]>>)
            /\ UNCHANGED <<position, sortedJobs>>
      BY EachStep DEF Silent, ServerWrites, Writes, ReadsOn, GivesUp
    <3>1. /\ clientPc = "watching" /\ wire # <<>> /\ Head(wire)[1] = "job"
          /\ k = Len(heard) + 1 /\ heard'[k] = <<Head(wire)[2], Head(wire)[3]>>
          /\ UNCHANGED <<position, sortedJobs>>
      <4>1. \A e : heard' = Append(heard, e) =>
              (k \in DOMAIN heard /\ heard'[k] = heard[k]) \/ (k = Len(heard) + 1 /\ heard'[k] = e)
        BY AppendOne
      <4> QED
        BY <2>2, <3>0, <4>1
    <3>2. Fits(wire[1], 1 + Len(heard) + 1)
      BY <3>1 DEF InPlace, read
    <3> QED
      BY <3>1, <3>2 DEF Fits
  <2> QED
    BY <2>1, <2>2
<1>2. /\ clientPc' \in {"starting", "uploading", "signalling"} => heard' = <<>>
      /\ answer' # "none" => clientPc' = "done"
      /\ clientPc' = "done" => connection' = "cut"
  BY EachStep DEF Silent, ServerWrites, Writes, ReadsOn, GivesUp
<1> QED
  BY <1>1, <1>2

LEMMA FailureStep ==
  ASSUME GraphsAreKept, StreamTyped, LoopOK, HeardOK, InPlace, FailureIsFinal, [Next]_vars
  PROVE  FailureIsFinal'
<1> USE DEF StreamTyped
<1>1. CASE Silent /\ ServerMoves
  BY <1>1, ScriptStays DEF Silent, ServerMoves, FailureIsFinal, NoFailure, NoFinish
<1>2. CASE ReadsOn
  <2>1. \A i \in DOMAIN wire' : i + 1 \in DOMAIN wire /\ wire'[i] = wire[i + 1]
    BY <1>2 DEF ReadsOn
  <2>2. NoFailure => NoFailure'
    <3> SUFFICES ASSUME NoFailure
                 PROVE  \A k \in DOMAIN heard' : heard'[k][2] = "ok"
      BY <2>1 DEF NoFailure
    <3>1. wire[1] = Head(wire) /\ 1 \in DOMAIN wire
      BY <1>2 DEF ReadsOn
    <3>2. Head(wire)[1] = "job" => Head(wire)[3] = "ok"
      BY <3>1 DEF NoFailure
    <3>3. heard' = heard \/ heard' = Append(heard, <<Head(wire)[2], "ok">>)
      BY <1>2, <3>2 DEF ReadsOn
    <3>4. \A k \in DOMAIN heard' :
            (k \in DOMAIN heard /\ heard'[k] = heard[k]) \/ heard'[k] = <<Head(wire)[2], "ok">>
      <4>1. \A e : heard' = Append(heard, e) =>
              \A k \in DOMAIN heard' :
                (k \in DOMAIN heard /\ heard'[k] = heard[k]) \/ heard'[k] = e
        BY AppendOne
      <4> QED
        BY <3>3, <4>1
    <3> QED
      BY <3>4 DEF NoFailure
  <2>3. NoFinish => NoFinish'
    BY <1>2, <2>1 DEF ReadsOn, NoFinish
  <2> QED
    BY <1>2, <2>2, <2>3 DEF FailureIsFinal, ReadsOn
<1>3. CASE ServerWrites
  <2>1. PICK msg : /\ Writes(msg)
                   /\ buildPc # "next" => msg # <<"finished">>
                   /\ msg[1] = "job" /\ msg[3] # "ok" => buildPc = "waiting" /\ result = "failed"
    BY <1>3 DEF ServerWrites
  <2>2. \A i \in DOMAIN wire' : (i \in DOMAIN wire /\ wire'[i] = wire[i]) \/ wire'[i] = msg
    BY <2>1 DEF Writes
  <2>3. CASE NoFailure /\ buildPc = "waiting" /\ result = "failed" /\ clientPc # "done"
    <3>1. \A i \in DOMAIN wire : wire[i] # <<"finished">>
      BY <2>3 DEF InPlace, Fits
    <3>2. buildPc' = "failing"
      BY <1>3, <2>3 DEF ServerWrites
    <3> QED
      BY <2>1, <2>2, <2>3, <3>1, <3>2 DEF NoFinish, FailureIsFinal
  <2>4. CASE NoFailure /\ ~(buildPc = "waiting" /\ result = "failed")
    <3>1. NoFailure'
      BY <2>1, <2>2, <2>4 DEF NoFailure, Writes
    <3> QED
      BY <3>1 DEF FailureIsFinal
  <2>5. CASE NoFinish
    <3>1. buildPc' \in {"failing", "returning", "ended"}
      BY <1>3, <2>5 DEF ServerWrites, NoFinish
    <3>2. NoFinish'
      BY <2>1, <2>2, <2>5, <3>1 DEF NoFinish
    <3> QED
      BY <3>2 DEF FailureIsFinal
  <2> QED
    BY <2>1, <2>3, <2>4, <2>5 DEF FailureIsFinal, Writes
<1>4. CASE GivesUp
  BY <1>4 DEF GivesUp, FailureIsFinal
<1> QED
  BY <1>1, <1>2, <1>3, <1>4, EachStep

LEMMA SuccessStep ==
  ASSUME GraphsAreKept, StreamInv, [Next]_vars
  PROVE  SuccessIsReal'
<1> USE DEF StreamTyped, StreamInv
<1>1. graph' = graph /\ Ids' = Ids
  <2>1. Ids' = Ids
    BY TypedStep
  <2> QED
    BY <2>1, EachStep DEF Silent, ServerWrites, ReadsOn, GivesUp
<1>2. CASE answer' = answer
  BY <1>1, <1>2, EachStep DEF SuccessIsReal, Silent, ServerWrites, Writes, ReadsOn, GivesUp,
     HeardOK
<1>3. CASE answer' # answer /\ answer' = "nil"
  <2>1. /\ clientPc = "watching" /\ wire # <<>> /\ heard' = heard
        /\ Head(wire)[1] \in {"finished", "eof"}
    BY <1>3, EachStep DEF Silent, ServerWrites, Writes, ReadsOn, GivesUp
  <2>2. wire[1] \in Messages /\ wire[1] = Head(wire) /\ 1 \in DOMAIN wire
    BY <2>1
  <2>3. wire[1] = <<"finished">>
    BY <2>1, <2>2 DEF Messages, InPlace
  <2>4. Len(heard) = Len(graph) /\ sortedJobs = TopSort(graph)
    BY <2>1, <2>2, <2>3 DEF InPlace, Fits, read, GraphsAreKept, KeepsJobs
  <2>5. \A k \in DOMAIN heard : heard[k] = <<sortedJobs[k].id, "ok">>
    BY <2>1, <2>2, <2>3 DEF FailureIsFinal, NoFailure, NoFinish, HeardOK
  <2>6. {heard[k] : k \in DOMAIN heard} = Ids \X {"ok"}
    <3>1. ToSet(sortedJobs) = ToSet(graph) /\ DOMAIN heard = DOMAIN sortedJobs
      BY <2>4 DEF GraphsAreKept, KeepsJobs
    <3>2. \A k \in DOMAIN heard : heard[k] \in Ids \X {"ok"}
      BY <2>5, <3>1 DEF Ids, ToSet
    <3>3. ASSUME NEW i \in DOMAIN graph
          PROVE  \E k \in DOMAIN heard : heard[k] = <<graph[i].id, "ok">>
      <4>1. PICK k \in DOMAIN sortedJobs : sortedJobs[k] = graph[i]
        BY <3>1 DEF ToSet
      <4> QED
        BY <2>5, <3>1, <4>1
    <3>4. ASSUME NEW x \in Ids \X {"ok"}
          PROVE  x \in {heard[k] : k \in DOMAIN heard}
      <4>1. PICK i \in DOMAIN graph : x = <<graph[i].id, "ok">>
        BY DEF Ids
      <4> QED
        BY <3>3, <4>1
    <3> QED
      BY <3>2, <3>4
  <2> QED
    BY <1>1, <2>1, <2>4, <2>6 DEF SuccessIsReal
<1> QED
  BY <1>2, <1>3 DEF SuccessIsReal

-----------------------------------------------------------------------------
LEMMA StreamStep ==
  ASSUME GraphsAreKept, StreamInv, [Next]_vars
  PROVE  StreamInv'
BY TypedStep, LoopStep, InPlaceStep, AllThereStep, HeardStep, FailureStep, SuccessStep
   DEF StreamInv

(* The stream of a build, from Encode and Flush in the handler to Next in the *)
(* client: what is on its way is what StartBuild has said, in order.         *)
THEOREM StreamInvariance ==
  ASSUME GraphsAreKept
  PROVE  Spec => []StreamInv
<1>1. StreamInv /\ [Next]_vars => StreamInv'
  BY GraphsAreKept, StreamStep
<1> QED
  BY InitStream, <1>1, PTL DEF Spec

(* If TopSort keeps the jobs of a graph, client.Build returns nil only when   *)
(* every one of them has ended well and the listener has heard of each once, *)
(* wherever the connection broke or StartBuild failed.                       *)
THEOREM SuccessIsNeverPretended ==
  ASSUME GraphsAreKept
  PROVE  Spec => []SuccessIsReal
<1>1. StreamInv => SuccessIsReal
  BY DEF StreamInv
<1> QED
  BY <1>1, GraphsAreKept, StreamInvariance, PTL

(* If TopSort puts the jobs of a graph after those they depend on, StartBuild *)
(* never refuses a build for want of an artifact that the build makes.       *)
THEOREM BuildsMakeTheirDependencies ==
  ASSUME GraphsAreKept, GraphsAreSorted
  PROVE  Spec => []OwnDepsAreBuilt
<1>1. StreamInv /\ OwnDepsAreBuilt /\ [Next]_vars => OwnDepsAreBuilt'
  BY GraphsAreKept, GraphsAreSorted, OwnDepsStep DEF StreamInv
<1> QED
  BY InitStream, <1>1, GraphsAreKept, StreamInvariance, PTL DEF Spec
=============================================================================
