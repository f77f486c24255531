---------------------------- MODULE BuildStream ----------------------------
(***************************************************************************)
(* One build between the coordinator and its client: StartBuild            *)
(* (distbuild/pkg/dist/coordinator.go) behind its HTTP handler             *)
(* (api/build_handler.go), the stream of status messages, the signal that  *)
(* ends the upload, and the client (api/build_client.go, client/build.go). *)
(* The answer of the scheduler is external here: Scheduler and Cluster     *)
(* model what stands behind it.                                            *)
(***************************************************************************)
EXTENDS TopSort

CONSTANTS
  Graphs,      \* the graphs that clients ask for, without cycles
  Outside,     \* artifacts that no graph here builds and a job may depend on
  MayFail      \* "check", "input", "job", "upload", "signal", "listener", "connection"

VARIABLES
  graph,
  located,     \* the artifacts of which the scheduler knows a holder
  buildPc,     \* where StartBuild and its handler stand
  sortedJobs,
  position,    \* how many jobs the loop of StartBuild has begun
  result,      \* pending.Result of the current job
  started,     \* streamStatusWriter.started
  uploadDone,
  wire,        \* what the server has written and the client has not read
  connection,  \* of the /build request: "up", "cut"
  signal,      \* the /signal request: "none", "sent", "accepted", "refused"
  clientPc,    \* where client.Build stands
  heard,       \* what the listener was told: <<id, ok>>
  answer,      \* what client.Build returned
  refusedFor   \* the dependency for want of which the build was refused

loopVars   == <<sortedJobs, position, result, located, refusedFor>>
serverVars == <<buildPc, started, loopVars>>
streamVars == <<wire, connection>>
clientVars == <<clientPc, heard, answer>>
signalVars == <<uploadDone, signal>>
vars == <<graph, serverVars, streamVars, clientVars, signalVars>>

Ids == {graph[i].id : i \in DOMAIN graph}
Job == sortedJobs[position]

Init ==
  /\ graph \in Graphs
  /\ located \in SUBSET (Outside \cap UNION {ToSet(graph[i].deps) : i \in DOMAIN graph})
  /\ buildPc = "checking"
  /\ sortedJobs = <<>>
  /\ position = 0
  /\ result = "none"
  /\ started = FALSE
  /\ uploadDone = FALSE
  /\ wire = <<>>
  /\ connection = "up"
  /\ signal = "none"
  /\ clientPc = "starting"
  /\ heard = <<>>
  /\ answer = "none"
  /\ refusedFor = {}

-----------------------------------------------------------------------------
(* The server *)
Goes(from, to) == buildPc = from /\ buildPc' = to

(* Encode and Flush: what is written to a connection that is cut is lost.   *)
Say(msg) == wire' = IF connection = "up" THEN Append(wire, msg) ELSE wire

(* They report an error, or not yet, when the connection is cut.            *)
Write(msg, to) ==
  \/ buildPc' = to /\ Say(msg)
  \/ buildPc' = "failing" /\ connection = "cut" /\ UNCHANGED wire

FilesFail ==
  /\ "check" \in MayFail
  /\ Goes("checking", "failing")
  /\ UNCHANGED <<graph, loopVars, started, streamVars, clientVars, signalVars>>

StartedUnflushed ==  \* mutant: the message stays in a buffer
  /\ buildPc = "checking"
  /\ started' = TRUE
  /\ buildPc' = "uploading"
  /\ UNCHANGED <<graph, loopVars, streamVars, clientVars, signalVars>>

Started ==
  /\ buildPc = "checking"
  /\ started' = TRUE
  /\ Write(<<"started">>, "uploading")
  /\ UNCHANGED <<graph, loopVars, connection, clientVars, signalVars>>

UploadDoneUnsorted ==  \* mutant: the jobs are taken as the client lists them
  /\ uploadDone
  /\ Goes("uploading", "next")
  /\ sortedJobs' = graph
  /\ UNCHANGED <<graph, position, result, started, located, refusedFor,
                 streamVars, clientVars, signalVars>>

UploadDone ==
  /\ uploadDone
  /\ Goes("uploading", "next")
  /\ sortedJobs' = TopSort(graph)
  /\ UNCHANGED <<graph, position, result, started, located, refusedFor,
                 streamVars, clientVars, signalVars>>

CancelledNever ==  \* mutant: the loop waits for its jobs only
  /\ connection = "cut"
  /\ Goes("uploading", "failing")
  /\ UNCHANGED <<graph, loopVars, started, streamVars, clientVars, signalVars>>

(* <-ctx.Done(), in either select. *)
Cancelled ==
  /\ connection = "cut"
  /\ Goes("uploading", "failing") \/ Goes("waiting", "failing")
  /\ UNCHANGED <<graph, loopVars, started, streamVars, clientVars, signalVars>>

NextJob == position < Len(sortedJobs) /\ position' = position + 1

(* buildJobSpec and ScheduleJob. *)
Schedule ==
  /\ NextJob
  /\ \A dep \in ToSet(sortedJobs[position + 1].deps) : dep \in located
  /\ Goes("next", "waiting")
  /\ result' = "none"
  /\ UNCHANGED <<graph, sortedJobs, started, located, refusedFor, streamVars,
                 clientVars, signalVars>>

(* buildJobSpec fails: for want of a dependency, or of an input file.       *)
SpecRefused ==
  /\ NextJob
  /\ Goes("next", "failing")
  /\ refusedFor' = ToSet(sortedJobs[position + 1].deps) \ located
  /\ refusedFor' # {} \/ "input" \in MayFail
  /\ UNCHANGED <<graph, sortedJobs, result, started, located, streamVars,
                 clientVars, signalVars>>

(* The scheduler learns the result; it records the holder of an artifact     *)
(* whatever the result is.                                                  *)
Result ==
  /\ buildPc = "waiting"
  /\ result = "none"
  /\ result' = "ok" \/ (result' = "failed" /\ "job" \in MayFail)
  /\ located' = located \cup {Job.id}
  /\ UNCHANGED <<graph, buildPc, sortedJobs, position, started, refusedFor,
                 streamVars, clientVars, signalVars>>

ReportJob ==
  /\ buildPc = "waiting"
  /\ result # "none"
  /\ Write(<<"job", Job.id, result>>, IF result = "ok" THEN "next" ELSE "failing")
  /\ UNCHANGED <<graph, loopVars, started, connection, clientVars, signalVars>>

ReportFinished ==
  /\ buildPc = "next"
  /\ position = Len(sortedJobs)
  /\ Write(<<"finished">>, "returning")
  /\ UNCHANGED <<graph, loopVars, started, connection, clientVars, signalVars>>

HandlerFailsSilently ==  \* mutant: an error of a started build is only logged
  /\ Goes("failing", "returning")
  /\ IF started THEN UNCHANGED wire ELSE Say(<<"refused">>)
  /\ UNCHANGED <<graph, loopVars, started, connection, clientVars, signalVars>>

(* handleBuild after an error: BuildFailed as the last update, or the error  *)
(* as the response when there was no update yet.                            *)
HandlerFails ==
  /\ Goes("failing", "returning")
  /\ Say(IF started THEN <<"failed">> ELSE <<"refused">>)
  /\ UNCHANGED <<graph, loopVars, started, connection, clientVars, signalVars>>

HandlerReturns ==
  /\ Goes("returning", "ended")
  /\ Say(<<"eof">>)
  /\ UNCHANGED <<graph, loopVars, started, connection, clientVars, signalVars>>

(* SignalBuild, for a build that StartBuild has not yet left.               *)
Registered == buildPc \notin {"failing", "returning", "ended"}

SignalBuild ==
  /\ signal = "sent"
  /\ signal' = IF Registered THEN "accepted" ELSE "refused"
  /\ uploadDone' = (uploadDone \/ Registered)
  /\ UNCHANGED <<graph, serverVars, streamVars, clientVars>>

Server ==
  \/ FilesFail \/ Started \/ UploadDone \/ Cancelled
  \/ Schedule \/ SpecRefused \/ ReportJob \/ ReportFinished
  \/ HandlerFails \/ HandlerReturns

-----------------------------------------------------------------------------
(* The client *)

(* client.Build returns, and its deferred Close gives the connection up.     *)
Return(from, result_) ==
  /\ clientPc = from
  /\ clientPc' = "done"
  /\ answer' = result_
  /\ connection' = "cut"

(* BuildClient.StartBuild: the first message, or an error response.         *)
ClientStarts ==
  /\ clientPc = "starting"
  /\ wire # <<>>
  /\ Head(wire) = <<"started">>
  /\ clientPc' = "uploading"
  /\ wire' = Tail(wire)
  /\ UNCHANGED <<graph, serverVars, connection, heard, answer, signalVars>>

ClientRefused ==
  /\ wire # <<>>
  /\ Head(wire) = <<"refused">>
  /\ Return("starting", "error")
  /\ UNCHANGED <<graph, serverVars, wire, heard, signalVars>>

(* All missing files are put, and the signal is sent; or one cannot be put.  *)
Uploaded ==
  /\ clientPc = "uploading"
  /\ clientPc' = "signalling"
  /\ signal' = "sent"
  /\ UNCHANGED <<graph, serverVars, streamVars, heard, answer, uploadDone>>

UploadFails ==
  /\ "upload" \in MayFail
  /\ Return("uploading", "error")
  /\ UNCHANGED <<graph, serverVars, wire, heard, signalVars>>

Signalled ==
  /\ clientPc = "signalling"
  /\ signal = "accepted"
  /\ clientPc' = "watching"
  /\ UNCHANGED <<graph, serverVars, streamVars, heard, answer, signalVars>>

(* The build is not found, or the request or its answer is lost.            *)
SignalFails ==
  /\ signal = "refused" \/ "signal" \in MayFail
  /\ Return("signalling", "error")
  /\ UNCHANGED <<graph, serverVars, wire, heard, signalVars>>

(* statusReader.Next, and what Build does with each update. *)
Reads(kind) ==
  /\ clientPc = "watching"
  /\ wire # <<>>
  /\ Head(wire)[1] = kind
  /\ wire' = Tail(wire)

(* The callbacks of the listener, which may give up. *)
HearJob ==
  /\ Reads("job")
  /\ heard' = Append(heard, <<Head(wire)[2], Head(wire)[3]>>)
  /\ \/ UNCHANGED <<clientPc, answer, connection>>
     \/ "listener" \in MayFail /\ Return("watching", "error")
  /\ UNCHANGED <<graph, serverVars, signalVars>>

HearEnd ==
  /\ \E kind \in {"finished", "failed", "eof"} :
       Reads(kind) /\ Return("watching", IF kind = "failed" THEN "error" ELSE "nil")
  /\ UNCHANGED <<graph, serverVars, heard, signalVars>>

(* Whatever the client waits for on a connection that is cut, it may get an  *)
(* error instead; messages that were on their way may still arrive.          *)
ClientLosesConnection ==
  /\ connection = "cut"
  /\ Return("starting", "error") \/ Return("watching", "error")
  /\ UNCHANGED <<graph, serverVars, wire, heard, signalVars>>

Client ==
  \/ ClientStarts \/ ClientRefused \/ Uploaded \/ UploadFails
  \/ Signalled \/ SignalFails \/ HearJob \/ HearEnd \/ ClientLosesConnection

-----------------------------------------------------------------------------
Cut ==
  /\ "connection" \in MayFail
  /\ connection = "up"
  /\ connection' = "cut"
  /\ UNCHANGED <<graph, serverVars, wire, clientVars, signalVars>>

Next == Server \/ Result \/ SignalBuild \/ Client \/ Cut

Spec == Init /\ [][Next]_vars

(* Handlers run, requests are answered or fail, and a connection that is cut *)
(* is noticed.  That a job gets a result is not taken for granted: a worker  *)
(* may die with it, and the coordinator has no timeout.                     *)
FairSpec ==
  /\ Spec
  /\ WF_vars(Server)
  /\ WF_vars(SignalBuild)
  /\ WF_vars(Client)

-----------------------------------------------------------------------------
TypeOK ==
  /\ buildPc \in {"checking", "uploading", "next", "waiting", "failing",
                  "returning", "ended"}
  /\ sortedJobs \in Seq(ToSet(graph))
  /\ position \in 0..Len(sortedJobs)
  /\ result \in {"none", "ok", "failed"}
  /\ started \in BOOLEAN /\ uploadDone \in BOOLEAN
  /\ located \subseteq Ids \cup Outside
  /\ refusedFor \subseteq Ids \cup Outside
  /\ connection \in {"up", "cut"}
  /\ signal \in {"none", "sent", "accepted", "refused"}
  /\ clientPc \in {"starting", "uploading", "signalling", "watching", "done"}
  /\ answer \in {"none", "nil", "error"}

(* When client.Build returns nil, and it does so at any clean end of the      *)
(* stream, every job of its graph has ended well and the listener has heard  *)
(* of each of them once.                                                    *)
SuccessIsReal ==
  answer = "nil" =>
    /\ Len(heard) = Len(graph)
    /\ {heard[k] : k \in DOMAIN heard} = Ids \X {"ok"}

(* A build is refused only for want of an artifact outside its graph: what   *)
(* the graph contains is built, and located, before a job needs it, even     *)
(* when TopSort is led to its first job by a name it does not know.         *)
OwnDepsAreBuilt == refusedFor \cap Ids = {}

(* client.Build returns, whatever fails, unless a job never gets a result.   *)
ClientGetsAnEnd ==
  <>(clientPc = "done") \/ <>[](buildPc = "waiting" /\ result = "none")

(* A build whose client has gone does not stay in the coordinator, not even  *)
(* when it waits for a job without a result.                                *)
BuildEndsWithItsClient == connection = "cut" ~> buildPc = "ended"
=============================================================================
