----------------------------- MODULE MCStateStore ---------------------------
EXTENDS StateStore, TLC

CONSTANTS w1, w2, k1, k2, d1, d2

MCWriters == {w1, w2}
MCKeys == {k1, k2}
MCDigests == {d1, d2}
MCSymmetry == Permutations(MCWriters) \cup Permutations(MCKeys) \cup Permutations(MCDigests)
=============================================================================
