SPECIFICATION Spec
CONSTANTS
  w1 = w1
  w2 = w2
  k1 = k1
  k2 = k2
  d1 = d1
  d2 = d2
  Writers <- MCWriters
  Keys <- MCKeys
  Digests <- MCDigests
  None = None
  NoFile = NoFile
  QuietShred = TRUE
  MaxShreds = 1
PROPERTIES SavesAreAtomic SavesKeepOthers
SYMMETRY MCSymmetry
