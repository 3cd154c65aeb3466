-------------------------- MODULE MCGlobalPointer --------------------------
\* Instance of GlobalPointer for TLC: two windows at two positions, one of them
\* with a one-shot lock and the other with a persistent one.
EXTENDS GlobalPointer, TLC

CONSTANTS s, t, x, y

MCLockedSurface == x :> s @@ y :> t
=============================================================================
