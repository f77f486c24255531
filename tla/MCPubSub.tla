------------------------------ MODULE MCPubSub ------------------------------
(* PubSub on small sets for TLC. *)
EXTENDS PubSub, TLC

Symmetric == Permutations(Subs) \cup Permutations(Publishers)
             \cup Permutations(Closers)
=============================================================================
