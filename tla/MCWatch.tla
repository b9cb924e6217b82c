------------------------------- MODULE MCWatch ------------------------------
EXTENDS WatchMode

CONSTANTS f1, f2, gv, r1, r2

MCTemplates == {f1, f2}
MCProcs == {Watcher}
MCRevs == {r1, r2}
MCDigest == [r \in MCRevs |-> r]
MCChunks == {{f1, f2}}
=============================================================================
