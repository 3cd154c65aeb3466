--------------------------- MODULE StateHandshake ---------------------------
(***************************************************************************)
(* What xdg-shell's configure and ack promise for states that a window     *)
(* enters and leaves, such as maximized and fullscreen, without serials,   *)
(* lists or sizes: a state that was asked for becomes current when the     *)
(* client has answered everything it was asked, and at no other moment; a  *)
(* question that another one overtakes never becomes current.              *)
(***************************************************************************)
CONSTANT States

VARIABLES
  asked,     \* the states asked for last
  current,   \* the states that hold
  owed       \* the client owes an answer

vars == <<asked, current, owed>>

Init == asked \in States /\ current = asked /\ owed = TRUE

\* A question: the same states again, or others.
Ask(s) ==
  /\ asked' = s /\ owed' = TRUE
  /\ UNCHANGED current

\* The last answer
Settle ==
  /\ owed /\ owed' = FALSE
  /\ current' = asked
  /\ UNCHANGED asked

Next == Settle \/ \E s \in States : Ask(s)

Spec == Init /\ [][Next]_vars
=============================================================================
