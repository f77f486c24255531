------------------------------ MODULE JobBoard ------------------------------
(***************************************************************************)
(* What the scheduler promises builds and workers, without its pointers,   *)
(* channel, locks and goroutines: a board on which builds post jobs.  A    *)
(* job nobody knows the result of stands in line once, is handed out once, *)
(* in the order of posting, and everybody who wants it is answered at the  *)
(* moment its first result is reported.                                    *)
(***************************************************************************)
EXTENDS Sequences

CONSTANTS JobIDs, Results, NoResult

VARIABLES
  line,     \* jobs posted and not handed out, in the order of posting
  taken,    \* jobs handed out
  wanted,   \* jobs some build still waits for
  known     \* the latest result reported for a job

vars == <<line, taken, wanted, known>>

Init ==
  /\ line = <<>>
  /\ taken = {}
  /\ wanted = {}
  /\ known = [id \in JobIDs |-> NoResult]

(* A build posts a job whose result is unknown and that nobody waits for:  *)
(* posting any other job changes nothing.                                  *)
Post(id) ==
  /\ known[id] = NoResult
  /\ id \notin wanted
  /\ line' = Append(line, id)
  /\ wanted' = wanted \cup {id}
  /\ UNCHANGED <<taken, known>>

Take ==
  /\ line # <<>>
  /\ line' = Tail(line)
  /\ taken' = taken \cup {Head(line)}
  /\ UNCHANGED <<wanted, known>>

Report(id, res) ==
  /\ known' = [known EXCEPT ![id] = res]
  /\ wanted' = wanted \ {id}
  /\ UNCHANGED <<line, taken>>

Next ==
  \/ \E id \in JobIDs : Post(id)
  \/ Take
  \/ \E id \in JobIDs, res \in Results : Report(id, res)

Spec == Init /\ [][Next]_vars
=============================================================================
