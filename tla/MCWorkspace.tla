---------------------------- MODULE MCWorkspace -----------------------------
EXTENDS Workspace, TLC

CONSTANTS f1, f2, gv, p1, p2, r1, r2

MCTemplates == {f1, f2}
MCProcs == {p1, p2}
MCOneProc == {p1}
MCRevs == {r1, r2}
MCDigest == [r \in MCRevs |-> r]
OneChunk == {{f1, f2}}
TwoChunks == {{f1}, {f2}}
MCSymmetry == Permutations(Templates) \cup Permutations(Procs) \cup Permutations(Revs)
=============================================================================
