SPECIFICATION TransferSpec
CONSTANTS
  job = job
  download = download
  remover = remover
  reader = reader
  IDs = {a1}
  Procs = {job, download, reader, remover}
  Creators = {job, download}
  Removers = {remover}
  Downloaders = {download}
  Patient = {download}
  Held = {a1}
  Entries = 2
  MayFail = {"mkdir", "rename", "remove", "connection", "receive"}
  MaxCrashes = 1
INVARIANTS
  LocksAreHeld
  ReaderSeesWholeArtifact
PROPERTIES
  CommittedStays
  DownloadedIsWhole
  UsesTheCache
