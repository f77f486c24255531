SPECIFICATION WorkerSpec
CONSTANTS
  lib = lib
  gen = gen
  prog = prog
  src = src
  none = none
  server = server
  None = none
  IDs = {lib, gen, prog, src}
  Jobs = {lib, prog}
  Deps <- MCDeps
  Files <- MCFiles
  Servers = {server}
  Asked = {lib, prog}
  Procs = {lib, gen, prog, src, server}
  Creators = {lib, gen, prog, src}
  Removers = {}
  Downloaders = {lib, gen, prog, src}
  Patient = {lib, gen, prog}
  Held = {lib, gen, src}
  Entries = 1
  MayFail = {"mkdir", "rename", "remove", "connection", "receive", "temp", "copy", "command"}
  MaxCrashes = 1
INVARIANTS
  CommandsSeeTheirInputs
  LocksEndWithTheJob
  OutcomeIsTrue
PROPERTIES
  JobEnds
