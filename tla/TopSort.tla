------------------------------ MODULE TopSort ------------------------------
(***************************************************************************)
(* The order in which a build schedules the jobs of its graph,             *)
(* distbuild/pkg/build/top_sort.go.  A graph is a sequence of jobs, a job  *)
(* a record of its identifier and the sequence of those it depends on.     *)
(***************************************************************************)
EXTENDS Naturals, Sequences, FiniteSetsExt, SequencesExt

(* jobIDIndex[id]: the last job of that name; for a name that the graph does *)
(* not have, the zero value, which is the first job.                        *)
JobIDIndex(jobs, id) == Max({1} \cup {i \in DOMAIN jobs : jobs[i].id = id})

(* The indices of the jobs in the order in which visit leaves them.         *)
Sorted(jobs) ==
  LET visit[st \in [visited : SUBSET DOMAIN jobs, sorted : Seq(DOMAIN jobs)],
            i \in DOMAIN jobs] ==
        IF i \in st.visited THEN st
        ELSE LET deps == FoldLeft(LAMBDA s, dep : visit[s, JobIDIndex(jobs, dep)],
                                  [st EXCEPT !.visited = @ \cup {i}], jobs[i].deps)
             IN  [deps EXCEPT !.sorted = Append(@, i)]
  IN  FoldLeft(LAMBDA s, i : visit[s, i], [visited |-> {}, sorted |-> <<>>],
               [i \in DOMAIN jobs |-> i]).sorted

TopSort(jobs) == [k \in DOMAIN Sorted(jobs) |-> jobs[Sorted(jobs)[k]]]

-----------------------------------------------------------------------------
(* What is asked of it, of a graph without cycles. *)

(* It lists every job of the graph and as many as there are.                *)
KeepsJobs(jobs) ==
  /\ TopSort(jobs) \in Seq(ToSet(jobs))
  /\ Len(TopSort(jobs)) = Len(jobs)
  /\ ToSet(TopSort(jobs)) = ToSet(jobs)

(* It lists a job after those of the graph that the job depends on.          *)
SortsDeps(jobs) ==
  \A k \in DOMAIN TopSort(jobs) : \A i \in DOMAIN jobs :
    jobs[i].id \in ToSet(TopSort(jobs)[k].deps) =>
      \E j \in 1..(k - 1) : TopSort(jobs)[j].id = jobs[i].id
=============================================================================
