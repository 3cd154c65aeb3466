---------------------------- MODULE MCTouchSeat ----------------------------
\* Instance of TouchSeat for TLC: a terminal and a plain surface of one client,
\* a nested compositor of another.
EXTENDS TouchSeat, TLC

CONSTANTS terminal, plain, nested, a, b

MCOwner == terminal :> a @@ plain :> a @@ nested :> b
=============================================================================
