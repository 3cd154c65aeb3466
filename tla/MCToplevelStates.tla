-------------------------- MODULE MCToplevelStates --------------------------
\* Instance of ToplevelStates for TLC: a size of the client's own, the usable
\* area and the whole output, all more than a pixel apart.
EXTENDS ToplevelStates

CONSTANTS ssd, none

MCSizes == {2, 4, 6}
=============================================================================
