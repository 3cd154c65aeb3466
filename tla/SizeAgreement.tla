--------------------------- MODULE SizeAgreement ---------------------------
(***************************************************************************)
(* What src/src/core/window/size_authority.rs promises ("Exactly one side  *)
(* may change the agreed window size at a time"), without serials, lists,  *)
(* transactions or events.  The size belongs to one side.  The host takes  *)
(* it by asking for a size and gives it up when the client meets the       *)
(* request or, having answered everything it was asked, refuses it outside *)
(* an interactive resize.  A client that owns the size sets it as it likes *)
(* as long as it owes no answer.  Every request is announced to the        *)
(* client, and what the client does to the size needs no announcement.     *)
(***************************************************************************)
EXTENDS Naturals

CONSTANT Sizes

VARIABLES
  size,        \* the agreed size, 0 before there is one
  owner,       \* "host" or "client"
  asked,       \* the host's request while it owns the size
  unanswered,  \* the client owes an answer to some configure
  resizing,    \* an interactive resize is running
  mapped,      \* the client has shown a first buffer
  told         \* how many configures the client has been sent

vars == <<size, owner, asked, unanswered, resizing, mapped, told>>

\* A nested compositor's window starts with a request, any other with none.
Init ==
  /\ size \in Sizes \cup {0} /\ asked = size
  /\ owner = IF size = 0 THEN "client" ELSE "host"
  /\ unanswered = TRUE /\ resizing = FALSE /\ mapped = FALSE
  /\ told = 1

Announces == told' > told /\ unanswered' = TRUE

\* A request; starting an interactive resize asks for the size there is.
HostAsks(s) ==
  /\ owner' = "host" /\ asked' = s
  /\ size' \in {size, s}
  /\ Announces
  /\ resizing' \in BOOLEAN
  /\ mapped' = mapped

Answered == told' = told /\ unanswered' \in {unanswered, FALSE}

\* Configures without a request, and acks, leave the agreement alone.
Talk ==
  /\ Announces \/ Answered
  /\ resizing' \in {resizing, TRUE}
  /\ UNCHANGED <<size, owner, asked, mapped>>

MayAdopt == unanswered => ~mapped

ClientAdopts(s) ==
  /\ size' = s /\ owner' = "client" /\ asked' = 0 /\ mapped' = TRUE
  /\ UNCHANGED <<unanswered, resizing, told>>

ClientSets(s) == owner = "client" /\ MayAdopt /\ ClientAdopts(s)

Meets(s) ==
  /\ owner = "host" /\ MayAdopt
  /\ s \in {asked - 1, asked, asked + 1}
  /\ ClientAdopts(s)

Refuses(s) ==
  /\ owner = "host" /\ ~unanswered /\ ~resizing
  /\ ClientAdopts(s)

Next ==
  \/ Talk
  \/ \E s \in Sizes : HostAsks(s) \/ ClientSets(s) \/ Meets(s) \/ Refuses(s)

Spec == Init /\ [][Next]_vars

\* What else the code lets happen to the agreement: the host moves the window
\* whoever owns its size, and leaves the owner alone, ...
HostMoves(s) ==
  /\ size' = s /\ Announces
  /\ UNCHANGED <<owner, asked, resizing, mapped>>

\* ... and an interactive resize ends before the last size of it is asked for.
SessionEnds ==
  /\ resizing' = FALSE
  /\ UNCHANGED <<size, owner, asked, unanswered, mapped, told>>

FollowNext == Next \/ SessionEnds \/ \E s \in Sizes \cup {0} : HostMoves(s)

FollowSpec == Init /\ [][FollowNext]_vars
=============================================================================
