SPECIFICATION TransferSpec
CONSTANTS
  job = job
  download = download
  remover = remover
  reader = reader
  IDs = {a1, a2}
  Procs = {job, download, remover}
  Creators = {job, download}
  Removers = {}
  Downloaders = {download}
  Patient = {download}
  Held = {a1}
  Entries = 2
  MayFail = {"send"}
  MaxCrashes = 0
PROPERTIES
  DownloadedIsWhole
