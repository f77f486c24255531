---------------------------- MODULE MCWorkerJob ----------------------------
(* WorkerJob for TLC: a program that needs two artifacts and a source file;  *)
(* the library may be built here as well, gen is only ever downloaded.      *)
EXTENDS WorkerJob

CONSTANTS lib, gen, prog, src, none, server

MCDeps  == [j \in Jobs |-> IF j = prog THEN {lib, gen} ELSE {}]
MCFiles == [j \in Jobs |-> IF j = prog THEN {src} ELSE {}]
=============================================================================
