------------------------------ MODULE GtkHost ------------------------------
(***************************************************************************)
(* The Linux host window (src/src/bin/wawona-linux-ui.rs) driving          *)
(* ResizeSession.  Every GTK size allocation is written to                 *)
(* pending_host_resizes and dispatched at once unless it repeats the last  *)
(* size dispatched; the first dispatch opens an interactive resize, which  *)
(* is to be settled when a size change comes back and no newer allocation  *)
(* is waiting.  The host and the core share one thread: every 16 ms a tick *)
(* dispatches the clients, handles the core's events and pops the window's *)
(* events, and GTK's own callbacks run between two ticks.                  *)
(***************************************************************************)
EXTENDS ResizeSession

CONSTANT MaxDrags   \* bound: size allocations in one behaviour

ASSUME MaxDragsAssumption == MaxDrags \in Nat

VARIABLES
  gtk,    \* the host's resize maps, for the one window
  drags   \* allocations so far

hostVars == <<sessionVars, gtk, drags>>

GtkHosts == [pending: SizesOrZero,    \* pending_host_resizes, 0 for none
             in_flight: BOOLEAN,      \* resize_in_flight
             last: SizesOrZero,       \* last_dispatched_host_resizes
             active: BOOLEAN,         \* interactive_resize_active
             redecorate: BOOLEAN]     \* a DecorationModeChanged is on its way

\* fn dispatch_pending_host_resize, with the core c and the host's maps h
Dispatch(c, h) ==
  IF h.pending = 0 \/ h.pending = h.last
    THEN SetCore(c) /\ gtk' = h
    ELSE /\ SetCore(ResizeWindow(IF h.active THEN c ELSE BeginInteractive(c),
                                 h.pending))
         /\ gtk' = [h EXCEPT !.in_flight = TRUE, !.last = h.pending,
                             !.active = TRUE]

\* Between two ticks of the compositor timer: the last one has handled every
\* event, and GTK may call back.
BetweenTicks == changes = <<>> /\ events = <<>> /\ ~gtk.redecorate

\* connect_resize: GTK allocated the window a size.
Allocate(w) ==
  /\ BetweenTicks
  /\ drags < MaxDrags
  /\ drags' = drags + 1
  /\ Dispatch(Core, [gtk EXCEPT !.pending = w])
  /\ UNCHANGED <<changes, events>>

\* connect_is_active_notify
Activate(b) ==
  /\ BetweenTicks
  /\ SetWindowActivated(b, TRUE)
  /\ UNCHANGED <<txn, changes, events, gtk, drags>>

\* WindowEvent::DecorationModeChanged: the host frame has changed, and the size
\* GTK has allocated inside it is dispatched.
GtkDecorationChanged(w) ==
  /\ changes = <<>> /\ gtk.redecorate
  /\ Dispatch(Core, [gtk EXCEPT !.pending = w, !.redecorate = FALSE])
  /\ UNCHANGED <<changes, events, drags>>

\* WindowEvent::SizeChanged.  set_default_size shows up as one more Allocate.
GtkSizeChanged ==
  /\ changes = <<>> /\ events # <<>>
  /\ LET w == Head(events).width
         h == [gtk EXCEPT !.in_flight = FALSE,
                          !.pending = IF @ = w THEN 0 ELSE @]
     IN IF ~gtk.in_flight
          THEN UNCHANGED <<win, xdg, txn, gtk>>
          ELSE IF h.pending # 0
            THEN Dispatch(Core, h)
            ELSE IF h.active
              THEN /\ SetCore(EndInteractive(Core, w))   \* settle_interactive_resize
                   /\ gtk' = [h EXCEPT !.active = FALSE]
              ELSE gtk' = h /\ UNCHANGED <<win, xdg, txn>>
  /\ events' = Tail(events)
  /\ UNCHANGED <<changes, drags>>

\* A window that does not fill the host sees its first allocation soon; a
\* nested compositor's size counts as dispatched already.
GtkInit ==
  /\ SessionInit
  /\ gtk = [pending |-> 0, in_flight |-> FALSE, active |-> FALSE,
            redecorate |-> FALSE,
            last |-> IF win.fills_host THEN Output ELSE 0]
  /\ drags = 0

HostSteps ==
  \/ GtkSizeChanged
  \/ \E w \in Sizes : Allocate(w) \/ GtkDecorationChanged(w)
  \/ \E b \in BOOLEAN : Activate(b)

\* The part of a tick that dispatches the clients.
GtkDispatch ==
  /\ events = <<>>
  /\ DispatchSteps
  /\ gtk' = [gtk EXCEPT !.redecorate = @ \/ xdg'.sent.mode # xdg.sent.mode]
  /\ UNCHANGED drags

\* One tick: dispatch the clients, handle the core's events, pop the window's.
GtkNext ==
  \/ HostSteps
  \/ GtkDispatch
  \/ HandleSizeChanged /\ UNCHANGED <<gtk, drags>>

GtkSpec == GtkInit /\ [][GtkNext]_hostVars

-----------------------------------------------------------------------------
\* Properties

GtkTypeOK == SessionTypeOK /\ gtk \in GtkHosts /\ drags \in 0..MaxDrags

\* The host's idea of a running interactive resize (interactive_resize_active)
\* and the core's (XdgToplevelData.interactive_resize) never drift apart.
SessionsAgree == gtk.active = xdg.interactive

\* During a drag, from the dispatch of an allocation until the client has met
\* it, the window has the size last dispatched: no lagging commit and no focus
\* change moves it (dispatch_pending_host_resize, finalize_surface_commit).
DragSizeHeld ==
  gtk.active /\ IsHost(win.authority) => win.width = gtk.last
=============================================================================
