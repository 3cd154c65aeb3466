---------------------------- MODULE MCTextRelay ----------------------------
\* Instance of TextRelay for TLC: two text inputs of one client and one of
\* another, and two external input methods.
EXTENDS TextRelay, TLC

CONSTANTS a, b, i, j, k

MCOwner == i :> a @@ j :> a @@ k :> b
=============================================================================
