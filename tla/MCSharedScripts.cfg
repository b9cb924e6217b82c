SPECIFICATION TracelessSpec
CONSTANTS
  a = a
  b = b
  p1 = p1
  p2 = p2
  Order <- MCOrder
  Folder <- MCTogether
  Job <- MCJob
  Procs <- MCProcs
  None = None
  QuietAdopt = TRUE
  MaxEdits = 2
  MaxStops = 1
  MaxShreds = 1
PROPERTIES PublishesOwnScript
CHECK_DEADLOCK FALSE
