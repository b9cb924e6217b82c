---------------------------- MODULE MCTraceless ------------------------------
EXTENDS Traceless, TLC

CONSTANTS a, b, p1, p2

MCOrder == <<a, b>>
MCProcs == {p1}
MCTwoProcs == {p1, p2}
MCApart(f) == IF f = a THEN "." ELSE "ci"
MCTogether(f) == "."
MCJob(f) == "build"
=============================================================================
