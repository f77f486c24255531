-------------------------- MODULE MCArtifactCache --------------------------
(* The cache and its users for TLC: a job that creates artifacts, a download *)
(* of what another worker has, a caller of Remove, and all of them reading.  *)
EXTENDS Transfer

CONSTANTS job, download, remover, reader

=============================================================================
