SPECIFICATION FairSpec
CONSTANTS
  f1 = f1
  f2 = f2
  gv = gv
  r1 = r1
  r2 = r2
  Watcher = Watcher
  Templates <- MCTemplates
  Globals = gv
  Procs <- MCProcs
  Revs <- MCRevs
  Digest <- MCDigest
  ManualDoc = ManualDoc
  CorruptDoc = CorruptDoc
  Absent = Absent
  Garbled = Garbled
  NoProc = NoProc
  Chunks <- MCChunks
  Pool = FALSE
  InPlace = FALSE
  Patient = TRUE
  Notices = {1, 2}
  MaxEdits = 3
  MaxFailures = 2
INVARIANT QuietMeansBuilt
PROPERTY PatientEditsBuilt
CHECK_DEADLOCK FALSE
