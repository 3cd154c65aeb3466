--------------------------- MODULE SizeAuthority ---------------------------
(***************************************************************************)
(* Who may change the agreed size of a window: the pure state machine of   *)
(* src/src/core/window/size_authority.rs.  A size is one natural number:   *)
(* width and height are compared and assigned together everywhere in the   *)
(* code, so one dimension tells apart everything the decisions test.  Size *)
(* 0 stands for "no size" (the 0x0 configure, a commit without content).   *)
(*                                                                         *)
(* The code's configure_serial and generation fields and the               *)
(* stretch_present_to_host and reason outputs are read by log lines only   *)
(* and are left out.                                                       *)
(***************************************************************************)
EXTENDS Integers

AwaitingFirstCommit == [kind |-> "awaiting", requested |-> 0]
Client == [kind |-> "client", requested |-> 0]
Host(w) == [kind |-> "host", requested |-> w]

\* enum SizeAuthority, over the sizes in S
Authorities(S) == {AwaitingFirstCommit, Client} \cup {Host(w) : w \in S}

IsHost(a) == a.kind = "host"

\* fn sizes_match: one pixel of slack, never for an empty commit
SizesMatch(requested, w) == w > 0 /\ requested - w \in -1..1

\* fn on_host_resize_request: the request is at least one pixel
OnHostResizeRequest(w) == Host(IF w > 0 THEN w ELSE 1)

\* Mutant: an interactive resize does not hold the host's size.
HostHoldsUnlessResizing(a, w, pending, resizing, mayRefuse) ==
  IsHost(a) /\ ~SizesMatch(a.requested, w) /\ (pending # 0 \/ ~mayRefuse)

\* Mutant: a client that fills the host may refuse like any other.
HostHoldsUnlessAcked(a, w, pending, resizing, mayRefuse) ==
  IsHost(a) /\ ~SizesMatch(a.requested, w) /\ (pending # 0 \/ resizing)

\* The commit leaves the host in charge: a newer configure is unacked, an
\* interactive resize is running, or the client may not refuse.
HostHolds(a, w, pending, resizing, mayRefuse) ==
  /\ IsHost(a)
  /\ ~SizesMatch(a.requested, w)
  /\ pending # 0 \/ resizing \/ ~mayRefuse

\* fn on_client_commit: w is the committed size, current the window's size
\* before it.  "apply" adopts the committed size, "emit" asks the platform to
\* resize to it.
OnClientCommit(a, w, current, pending, committed, resizing, mayRefuse) ==
  LET apply == w > 0 /\ ~HostHolds(a, w, pending, resizing, mayRefuse)
      first == a.kind = "awaiting"
      refused == IsHost(a) /\ ~SizesMatch(a.requested, w)
      moved == a.kind = "client" /\ (w # current \/ ~committed)
  IN [authority |-> IF apply THEN Client ELSE a,
      apply |-> apply,
      emit |-> apply /\ (first \/ refused \/ moved)]
=============================================================================
