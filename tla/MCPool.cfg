SPECIFICATION Spec
CONSTANTS
  f1 = f1
  f2 = f2
  gv = gv
  p1 = p1
  p2 = p2
  r1 = r1
  r2 = r2
  Templates <- MCTemplates
  Globals = gv
  Procs <- MCProcs
  Revs <- MCRevs
  Digest <- MCDigest
  ManualDoc = ManualDoc
  CorruptDoc = CorruptDoc
  Absent = Absent
  Garbled = Garbled
  NoProc = NoProc
  NoJob = NoJob
  Chunks <- TwoChunks
  Pool = TRUE
  InPlace = TRUE
  InitialTrees = {"legacy"}
  EditWhen = {"current", "interrupted"}
  Meddling = {"edit"}
  MaxEdits = 1
  MaxFaults = 1
  MaxCleans = 0
PROPERTIES EditsSurvive PublishedTogether StaleComesFromOrphans
SYMMETRY MCSymmetry
CHECK_DEADLOCK FALSE
