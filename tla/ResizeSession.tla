--------------------------- MODULE ResizeSession ---------------------------
(***************************************************************************)
(* Host-driven resizing on top of ToplevelConfigure: the calls of the      *)
(* library interface (src/src/ffi/api.rs) by which a host window resizes   *)
(* its toplevel, the pending resize transaction that ties a host request   *)
(* to the size it produces, and the way a size change travels back: the    *)
(* core queues WindowSizeChanged while it dispatches clients, the queue is *)
(* handled after the state lock has been released, and the host pops the   *)
(* resulting window event later still.                                     *)
(*                                                                         *)
(* Each call works on a record c = [win, xdg, txn] and returns the new one,*)
(* so that a host that makes two calls in a row composes them.  This module*)
(* has no Init or Next of its own: GtkHost and AndroidHost add a host.     *)
(***************************************************************************)
EXTENDS ToplevelConfigure

CONSTANT MaxEvents   \* bound: size changes on their way to the host

VARIABLES
  txn,      \* pending_resize_transactions entry of the window
  changes,  \* WindowSizeChanged events the core has queued
  events    \* SizeChanged window events the host has not popped yet

sessionVars == <<win, xdg, txn, changes, events>>

NoTxn == [serial |-> 0, size |-> 0]

Transactions == [serial: Nat, size: SizesOrZero]

WindowEvents == [width: Sizes, cause: {"HostConfigure", "ClientCommit"}]

Core == [win |-> win, xdg |-> xdg, txn |-> txn]

SetCore(c) == win' = c.win /\ xdg' = c.xdg /\ txn' = c.txn

-----------------------------------------------------------------------------
\* Calls of the host

\* The part the three resize calls share: configure, open a transaction that
\* replaces any older one, and hand the authority to the host.
RequestSize(c, w, resizeWindow) ==
  LET x == SendToplevelConfigure(c.xdg, w)
  IN [xdg |-> x,
      txn |-> [serial |-> x.serial, size |-> w],
      win |-> [c.win EXCEPT !.authority = OnHostResizeRequest(w),
                            !.width = IF resizeWindow THEN w ELSE @]]

\* Mutant: the window waits for the commit.
ResizeWindowLater(c, w) == RequestSize(c, w, FALSE)

\* fn resize_window
ResizeWindow(c, w) == RequestSize(c, w, TRUE)

\* fn begin_interactive_resize: re-announces the current size with the
\* Resizing state; a window without a size only remembers the session.  The
\* size is read, and an open session noticed, before the state is locked for
\* writing.
CurrentSize(c) == IF c.xdg.width > 0 THEN c.xdg.width ELSE c.win.width

SetInteractive(c, b) == [c EXCEPT !.xdg = [@ EXCEPT !.interactive = b]]

OpenSession(c, w) ==
  IF w > 0 THEN RequestSize(SetInteractive(c, TRUE), w, FALSE)
           ELSE SetInteractive(c, TRUE)

BeginInteractive(c) ==
  IF c.xdg.interactive THEN c ELSE OpenSession(c, CurrentSize(c))

\* end_interactive_resize without a size settles at the current one.
\* The flag is cleared before the lock is released for the output notification
\* and the settle configure sent after it has been taken again.
SettleSize(c, w) ==
  IF w > 0 THEN w ELSE IF CurrentSize(c) > 0 THEN CurrentSize(c) ELSE 1

\* Mutant: the session stays open.
EndSettledOnly(c, w) == RequestSize(c, SettleSize(c, w), TRUE)

\* fn end_interactive_resize
EndInteractive(c, w) ==
  RequestSize(SetInteractive(c, FALSE), SettleSize(c, w), TRUE)

\* fn set_output_size: a window that fills the host, or has the size of the
\* output up to a pixel, follows the output; the authority is left alone.
FollowsOutput(c, old, new) ==
  /\ old # new
  /\ c.win.fills_host \/ c.win.width - old \in -1..1
  /\ c.win.width # new

SetOutputSize(c, old, new) ==
  IF FollowsOutput(c, old, new)
    THEN [c EXCEPT !.win = [@ EXCEPT !.width = new],
                   !.xdg = SendToplevelConfigure(@, new)]
    ELSE c

-----------------------------------------------------------------------------
\* The way back

\* A client commit, with the event it queues.
Commit(w) ==
  /\ Len(changes) + Len(events) < MaxEvents
  /\ ClientCommit(w)
  /\ changes' = IF EmitsSizeChanged(w) THEN Append(changes, w) ELSE changes
  /\ UNCHANGED <<txn, events>>

\* fn handle_compositor_event, WindowSizeChanged: a transaction for exactly
\* this size is consumed and names the cause, otherwise the client caused it.
HandleSizeChanged ==
  /\ changes # <<>>
  /\ LET w == Head(changes)
         matched == txn # NoTxn /\ txn.size = w
     IN /\ events' = Append(events,
              [width |-> w,
               cause |-> IF matched THEN "HostConfigure" ELSE "ClientCommit"])
        /\ txn' = IF matched THEN NoTxn ELSE txn
  /\ changes' = Tail(changes)
  /\ UNCHANGED <<win, xdg>>

SessionAck ==
  /\ \E i \in 1..Len(xdg.unacked) : ClientAck(i)
  /\ UNCHANGED <<txn, changes, events>>

SessionConfigure ==
  /\ OtherConfigures
  /\ UNCHANGED <<txn, changes, events>>

SessionInit ==
  /\ Init
  /\ txn = NoTxn /\ changes = <<>> /\ events = <<>>

\* What can happen while the core dispatches its clients.
DispatchSteps ==
  \/ SessionAck
  \/ \E w \in SizesOrZero : Commit(w)
  \/ SessionConfigure

\* A client that keeps up acks the newest configure.
AckNewest ==
  /\ xdg.unacked # <<>>
  /\ ClientAck(Len(xdg.unacked))
  /\ UNCHANGED <<txn, changes, events>>

-----------------------------------------------------------------------------
\* Properties

SessionTypeOK ==
  /\ TypeOK
  /\ txn \in Transactions
  /\ changes \in Seq(Sizes)
  /\ events \in Seq(WindowEvents)
=============================================================================
