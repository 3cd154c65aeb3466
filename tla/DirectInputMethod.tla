------------------------- MODULE DirectInputMethod -------------------------
(***************************************************************************)
(* What core/wayland/im_relay.rs promises an external input method: the    *)
(* seat behaves as if the first one that came were Smithay's own, and the  *)
(* host's keyboard stood in while there is none.  There is no mirror here, *)
(* no replay and no second count of done events; a new owner simply goes   *)
(* on where its predecessor was.                                           *)
(***************************************************************************)
EXTENDS Naturals

CONSTANTS Methods, Host, None

VARIABLES
  enabled,   \* a text input is enabled
  sent,      \* done events sent to the seat's input method ...
  seen,      \* ... and how many of them have reached it,
  told,      \* ... and whether the last one told of an enabled text input
  owner,     \* the external input method, None while the host stands in
  gone,      \* the owner has lost its connection
  verdict    \* the last commit

vars == <<enabled, sent, seen, told, owner, gone, verdict>>

Init ==
  /\ enabled = FALSE /\ told = FALSE
  /\ sent = 0 /\ seen = 0
  /\ owner = None /\ gone = FALSE
  /\ verdict = [by |-> None, behind |-> 0, taken |-> FALSE]

\* A text input is enabled, disabled or has news.  The last of a client may be
\* disabled twice.
Tell(b) ==
  /\ enabled' = b
  /\ sent' = sent + 1 \/ (~b /\ sent' = sent + 2)
  /\ UNCHANGED <<seen, told, owner, gone, verdict>>

\* Everything sent reaches the input method; an owner that is gone is forgotten.
Read ==
  /\ seen' = sent /\ told' = enabled
  /\ \/ UNCHANGED <<owner, gone>>
     \/ gone /\ owner' = None /\ gone' = FALSE
  /\ UNCHANGED <<enabled, sent, verdict>>

\* The first input method keeps the seat.
Attach(e) ==
  /\ owner = None \/ gone
  /\ owner' = e /\ gone' = FALSE
  /\ UNCHANGED <<enabled, sent, seen, told, verdict>>

Leave ==
  /\ owner' = None /\ gone' = FALSE
  /\ UNCHANGED <<enabled, sent, seen, told, verdict>>

Die ==
  /\ owner # None /\ gone' = TRUE
  /\ UNCHANGED <<enabled, sent, seen, told, owner, verdict>>

\* by commits, having missed at least the done events that are still on their way.
Commits(by) ==
  /\ verdict' \in [by : {by}, behind : Nat, taken : BOOLEAN]
  /\ verdict'.behind >= sent - seen
  /\ UNCHANGED <<enabled, sent, seen, told, owner, gone>>

\* A commit counts if its sender has missed nothing.
Current == verdict'.taken <=> verdict'.behind = 0

HostCommits == Commits(Host) /\ Current

\* With exactly one done event on its way the owner's stale commits may be taken for
\* current ones, and its current ones for stale.
OwnerCommits ==
  /\ owner # None /\ ~gone
  /\ Commits(owner)
  /\ sent = seen + 1 \/ Current

Next ==
  \/ \E b \in BOOLEAN : Tell(b)
  \/ Read \/ Leave \/ Die
  \/ \E e \in Methods : Attach(e)
  \/ HostCommits \/ OwnerCommits

Spec == Init /\ [][Next]_vars
=============================================================================
