----------------------------- MODULE MCCluster -----------------------------
(* Cluster for TLC: a library, a program that needs it, a tool that needs    *)
(* the program, and two builds.                                             *)
EXTENDS Cluster, TLC

CONSTANTS lib, prog, tool, b1, b2

MCDeps == (lib :> {}) @@ (prog :> {lib})
MCDepsOfTool == MCDeps @@ (tool :> {prog})

\* The graph of the second build lacks the library its program depends on.
MCPlan == (b1 :> <<lib, prog>>) @@ (b2 :> <<prog>>)

\* The graph of the second build lacks the program its tool depends on.
MCPlanTool == (b1 :> <<lib, prog>>) @@ (b2 :> <<lib, tool>>)

\* Nothing tells the workers apart.
Symmetric == Permutations(Workers)
=============================================================================
