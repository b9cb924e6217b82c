SPECIFICATION TracelessSpec
CONSTANTS
  a = a
  b = b
  p1 = p1
  p2 = p2
  Order <- MCOrder
  Folder <- MCApart
  Job <- MCJob
  Procs <- MCTwoProcs
  None = None
  QuietAdopt = TRUE
  MaxEdits = 2
  MaxStops = 1
  MaxShreds = 1
INVARIANTS TracelessTypeOK AdoptedIsRenderable
PROPERTIES TracelessEditsSurvive RefusalsAreReal PublishesOwnScript
CHECK_DEADLOCK FALSE
