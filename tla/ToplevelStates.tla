-------------------------- MODULE ToplevelStates --------------------------
(***************************************************************************)
(* Maximized and fullscreen on top of ToplevelConfigure: the xdg_toplevel  *)
(* requests of src/src/core/wayland/xdg/toplevel_state.rs (shared with     *)
(* foreign-toplevel handles) and the notifications by which a native host  *)
(* reports its own zoom and fullscreen (src/src/core/state/windows.rs).    *)
(*                                                                         *)
(* Each state exists five times: on the Window, pending and current on the *)
(* XdgToplevelData, and sent and acked in Smithay.  The size to return to  *)
(* is saved when the first of the two states is entered.  Positions and    *)
(* minimizing are left out: no configure depends on them.                  *)
(***************************************************************************)
EXTENDS ToplevelConfigure

CONSTANT Usable   \* size of the output's usable area, less than the output

ASSUME UsableAssumption == Usable \in Sizes

VARIABLES
  saved,    \* XdgToplevelData.saved_geometry
  native    \* the host has states of its own; a headless one has none

statesVars == <<configureVars, saved, native>>

NotSaved == -1

Special(x) == x.pending_maximized \/ x.pending_fullscreen

\* fn save_floating_geometry
Saved == IF saved = NotSaved THEN win.width ELSE saved

\* fn restore_floating_geometry
Restored == IF saved > 0 /\ win.committed THEN saved ELSE 0

-----------------------------------------------------------------------------
\* Requests of the client

\* fn maximize_toplevel
Maximize ==
  LET x == [xdg EXCEPT !.pending_maximized = TRUE]
      size == IF x.pending_fullscreen THEN Output ELSE Usable
  IN /\ MaySend(1)
     /\ xdg' = SendToplevelConfigure(x, size)
     /\ win' = [win EXCEPT !.maximized = TRUE]
     /\ saved' = Saved

\* Mutant: unmaximizing a fullscreen toplevel forgets the floating size.
UnmaximizeForgets ==
  LET x == [xdg EXCEPT !.pending_maximized = FALSE]
      size == IF x.pending_fullscreen THEN Output ELSE Restored
  IN /\ MaySend(1)
     /\ xdg' = SendToplevelConfigure(x, size)
     /\ win' = [win EXCEPT !.maximized = FALSE]
     /\ saved' = NotSaved

\* fn unmaximize_toplevel
Unmaximize ==
  LET x == [xdg EXCEPT !.pending_maximized = FALSE]
      size == IF x.pending_fullscreen THEN Output ELSE Restored
  IN /\ MaySend(1)
     /\ xdg' = SendToplevelConfigure(x, size)
     /\ win' = [win EXCEPT !.maximized = FALSE]
     /\ saved' = IF x.pending_fullscreen THEN saved ELSE NotSaved

\* fn fullscreen_toplevel
Fullscreen ==
  LET x == [xdg EXCEPT !.pending_fullscreen = TRUE]
  IN /\ MaySend(1)
     /\ xdg' = SendToplevelConfigure(x, Output)
     /\ win' = [win EXCEPT !.fullscreen = TRUE]
     /\ saved' = Saved

\* Mutant: leaving fullscreen always returns to the floating size.
UnfullscreenToFloating ==
  /\ MaySend(1)
  /\ xdg' = SendToplevelConfigure([xdg EXCEPT !.pending_fullscreen = FALSE], Restored)
  /\ win' = [win EXCEPT !.fullscreen = FALSE]
  /\ saved' = IF xdg.pending_maximized THEN saved ELSE NotSaved

\* fn unfullscreen_toplevel
Unfullscreen ==
  LET x == [xdg EXCEPT !.pending_fullscreen = FALSE]
      size == IF x.pending_maximized THEN Usable ELSE Restored
  IN /\ MaySend(1)
     /\ xdg' = SendToplevelConfigure(x, size)
     /\ win' = [win EXCEPT !.fullscreen = FALSE]
     /\ saved' = IF x.pending_maximized THEN saved ELSE NotSaved

Requests == Maximize \/ Unmaximize \/ Fullscreen \/ Unfullscreen

-----------------------------------------------------------------------------
\* Notifications of the host: its window has entered or left a state, and has
\* size w now.  Repeated notifications are ignored.

HostWindow(flag, b, w) ==
  IF flag = "fullscreen"
    THEN [win EXCEPT !.fullscreen = b, !.maximized = @ /\ ~b, !.width = w]
    ELSE [win EXCEPT !.maximized = b, !.fullscreen = @ /\ ~b, !.width = w]

HostToplevel(flag, b) ==
  IF flag = "fullscreen"
    THEN [xdg EXCEPT !.pending_fullscreen = b, !.pending_maximized = @ /\ ~b]
    ELSE [xdg EXCEPT !.pending_maximized = b, !.pending_fullscreen = @ /\ ~b]

\* fn apply_host_window_fullscreen, fn apply_host_window_maximized
ApplyHostState(flag, b, w) ==
  LET size == IF b \/ saved = NotSaved THEN w ELSE saved
  IN /\ native /\ MaySend(1)
     /\ win[flag] # b \/ (b /\ win.width # w)
     /\ win' = HostWindow(flag, b, size)
     /\ xdg' = SendToplevelConfigure(HostToplevel(flag, b), size)
     /\ saved' = IF b THEN Saved ELSE NotSaved

HostStates ==
  \E flag \in {"maximized", "fullscreen"}, b \in BOOLEAN, w \in Sizes :
    ApplyHostState(flag, b, w)

-----------------------------------------------------------------------------
StatesInit == Init /\ saved = NotSaved /\ native \in BOOLEAN

StatesTalk ==
  /\ \/ \E i \in 1..Len(xdg.unacked) : ClientAck(i)
     \/ \E w \in SizesOrZero : ClientCommit(w)
     \/ OtherConfigures
     \/ \E b, send \in BOOLEAN : SetWindowActivated(b, send)
  /\ UNCHANGED saved

StatesNext == (StatesTalk \/ Requests \/ HostStates) /\ UNCHANGED native

StatesSpec == StatesInit /\ [][StatesNext]_statesVars

-----------------------------------------------------------------------------
\* Properties

StatesTypeOK ==
  /\ TypeOK
  /\ saved \in SizesOrZero \cup {NotSaved}
  /\ native \in BOOLEAN

\* When the client has acked everything, the five copies of each state agree:
\* an ack of an older configure, a decoration or a focus change in between
\* never makes a state current that was not asked for
\* (handle_toplevel_ack_configure).
StatesSettle ==
  xdg.unacked = <<>> =>
    /\ {win.maximized, xdg.maximized, xdg.sent.maximized, xdg.acked.maximized}
         = {xdg.pending_maximized}
    /\ {win.fullscreen, xdg.fullscreen, xdg.sent.fullscreen, xdg.acked.fullscreen}
         = {xdg.pending_fullscreen}

Handshake == INSTANCE StateHandshake WITH
  States <- BOOLEAN \X BOOLEAN,
  asked <- <<xdg.pending_maximized, xdg.pending_fullscreen>>,
  current <- <<xdg.maximized, xdg.fullscreen>>,
  owed <- xdg.unacked # <<>>

\* However requests, the host's own states, focus and decoration changes, skipped
\* acks and commits interleave, the current states change at the ack that leaves
\* nothing unanswered, to the ones asked for last (handle_toplevel_ack_configure).
ImplementsHandshake == Handshake!Spec

\* However a client of a headless host enters and leaves the two states, a size to
\* return to is kept exactly as long as one of them is pending
\* (save_floating_geometry).
SavedWhileSpecial == ~native => (saved # NotSaved <=> Special(xdg))

\* A fullscreen configure always carries a size: a focus change right after a
\* fullscreen request does not re-send a 0x0 one (set_toplevel_activated).
FullscreenHasSize == xdg.sent.fullscreen => xdg.sent.size > 0

\* toplevel_state.rs: "leaving fullscreen returns to the maximized size when the
\* toplevel is still maximized" (a native host sizes its own windows).
UnfullscreenToMaximized ==
  [][ (/\ ~native
       /\ xdg.pending_fullscreen /\ ~xdg'.pending_fullscreen
       /\ xdg.pending_maximized /\ xdg'.pending_maximized)
      => xdg'.sent.size = Usable ]_statesVars
=============================================================================
