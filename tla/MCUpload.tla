------------------------------ MODULE MCUpload ------------------------------
(* Upload on small sets for TLC. *)
EXTENDS Upload, TLC

MCSourceFiles == [b \in Builds |-> Files]
=============================================================================
