SPECIFICATION FairSpec
CONSTANTS
  f1 = f1
  f2 = f2
  gv = gv
  p1 = p1
  p2 = p2
  r1 = r1
  r2 = r2
  Templates <- MCTemplates
  Globals = gv
  Procs <- MCProcs
  Revs <- MCRevs
  Digest <- MCDigest
  ManualDoc = ManualDoc
  CorruptDoc = CorruptDoc
  Absent = Absent
  Garbled = Garbled
  NoProc = NoProc
  NoJob = NoJob
  Chunks <- OneChunk
  Pool = FALSE
  InPlace = FALSE
  InitialTrees = {"empty"}
  EditWhen = {"current"}
  Meddling = {}
  MaxEdits = 2
  MaxFaults = 2
  MaxCleans = 0
PROPERTIES Converges RerunCompletes
