----------------------------- MODULE HostFocus -----------------------------
(***************************************************************************)
(* The keyboard's focus under two hosts: a headless one, for which the     *)
(* core itself decides who has the focus, and the GTK one                  *)
(* (bin/wawona-linux-ui.rs), which reports the focus of its windows        *)
(* through ffi/api.rs.  GTK draws a popup inside the window of its         *)
(* toplevel, so what it reports about a popup carries that window's id.    *)
(*                                                                         *)
(* Every action is one call into the core; clients act between any two.    *)
(* Only the clean-up after a client is in several steps, one per window,   *)
(* and nothing else happens until it is done.                              *)
(***************************************************************************)
EXTENDS SeatFocus

VARIABLES
  seat,
  headless,   \* headless_host, set once
  hosted,     \* toplevels with a GtkWindow
  active,     \* the GtkWindow with GTK's focus
  leaving     \* the client being cleaned up after

focusVars == <<seat, headless, hosted, active, leaving>>

FocusTypeOK ==
  /\ seat \in Seats
  /\ headless \in BOOLEAN
  /\ hosted \subseteq Toplevels
  /\ active \in Toplevels \cup {None}
  /\ leaving \in Clients \cup {None}

FocusInit ==
  /\ seat = EmptySeat
  /\ headless \in BOOLEAN
  /\ hosted = {} /\ active = None /\ leaving = None

-----------------------------------------------------------------------------
\* Requests of clients

NewToplevel(w) ==
  /\ w \notin seat.born /\ Owner[w] \in seat.clients
  /\ seat' = RegisterWindow(seat, w, headless)
  /\ UNCHANGED <<headless, hosted, active, leaving>>

\* fn toplevel_destroyed
ToplevelDestroyed(w) ==
  /\ w \in seat.windows
  /\ seat' = DestroyWindow([seat EXCEPT !.activated = @ \ {w}], w, headless)
  /\ UNCHANGED <<headless, hosted, active, leaving>>

\* fn new_popup: its window id is a new one, so no popup hangs from it yet.
NewPopup(p) ==
  /\ p \notin seat.surfaces /\ \A q \in seat.popups : p \notin Above[q]
  /\ Owner[p] \in seat.clients
  /\ Above[p] \ {p} \subseteq seat.popups
  /\ Top[p] # None => Top[p] \in seat.windows
  /\ seat' = [seat EXCEPT !.popups = @ \cup {p}, !.surfaces = @ \cup {p}]
  /\ UNCHANGED <<headless, hosted, active, leaving>>

\* xdg_popup.grab
Grab(p) ==
  /\ p \in seat.popups
  /\ seat' = BeginGrab(seat, p)
  /\ UNCHANGED <<headless, hosted, active, leaving>>

DestroyPopup(p) ==
  /\ p \in seat.popups
  /\ seat' = PopupDestroyed(seat, p)
  /\ UNCHANGED <<headless, hosted, active, leaving>>

\* wl_surface.destroy, after that of the role
DestroySurface(s) ==
  /\ s \in seat.surfaces \ (seat.windows \cup seat.popups)
  /\ s \in Layers => seat.layers[s] = "unmapped"
  /\ seat' = RemoveSurface(seat, s)
  /\ UNCHANGED <<headless, hosted, active, leaving>>

Minimize(w) ==
  /\ w \in seat.windows
  /\ seat' = MinimizeToplevel(seat, w, headless)
  /\ UNCHANGED <<headless, hosted, active, leaving>>

\* A foreign-toplevel client, or xdg_activation
Activate(w) ==
  /\ w \in seat.windows
  /\ seat' = ActivateWindow(seat, w)
  /\ UNCHANGED <<headless, hosted, active, leaving>>

\* A commit, or layer_destroyed when it ends unmapped
LayerCommit(l, interactivity) ==
  /\ Owner[l] \in seat.clients
  /\ seat' = CommitLayer(seat, l, interactivity)
  /\ UNCHANGED <<headless, hosted, active, leaving>>

Disconnect(c) ==
  /\ c \in seat.clients
  /\ seat' = LayersGone(seat, c)
  /\ leaving' = c
  /\ UNCHANGED <<headless, hosted, active>>

CleanUpWindow(w) ==
  /\ w \in seat.windows /\ leaving = Owner[w]
  /\ seat' = DestroyWindow(seat, w, headless)
  /\ UNCHANGED <<headless, hosted, active, leaving>>

CleanUpSurfaces ==
  /\ leaving # None /\ \A w \in seat.windows : Owner[w] # leaving
  /\ \E known \in BOOLEAN : seat' = SurfacesGone(seat, leaving, known)
  /\ leaving' = None
  /\ UNCHANGED <<headless, hosted, active>>

ClientNext ==
  \/ \E w \in Toplevels : \/ NewToplevel(w) \/ ToplevelDestroyed(w)
                          \/ Minimize(w) \/ Activate(w)
  \/ \E p \in Popups : NewPopup(p) \/ Grab(p) \/ DestroyPopup(p)
  \/ \E s \in Surfaces : DestroySurface(s)
  \/ \E l \in Layers, i \in Interactivities : LayerCommit(l, i)
  \/ \E c \in Clients : Disconnect(c)

-----------------------------------------------------------------------------
\* A headless host's input

HeadlessPress(s) ==
  /\ headless
  /\ s \in seat.surfaces \cup {None}
  /\ seat' = GlobalPress(seat, s)
  /\ UNCHANGED <<headless, hosted, active, leaving>>

HeadlessTouch(s) ==
  /\ headless
  /\ s \in seat.surfaces
  /\ seat' = TouchDown(seat, s)
  /\ UNCHANGED <<headless, hosted, active, leaving>>

-----------------------------------------------------------------------------
\* The GTK host

\* fn inject_keyboard_enter: the window's surface gets the keyboard, whatever
\* has it and whatever grabs it; the focused window is left alone.
InjectEnter(F, w) ==
  IF w \in F.windows /\ w \in F.surfaces THEN [F EXCEPT !.kb = w, !.keys = w] ELSE F

\* fn inject_keyboard_leave
InjectLeave(F, w) ==
  IF w \in F.windows /\ F.kb = w
  THEN BookFocus([F EXCEPT !.kb = None, !.keys = None], None) ELSE F

\* fn apply_keyboard_focus_for_window
ApplyFocus(F, w) ==
  IF w \in F.windows /\ w \in F.surfaces /\ F.kb # w
  THEN BookFocus([F EXCEPT !.kb = w, !.keys = w], w) ELSE F

\* fn set_window_activated
SetActivated(F, w, on) ==
  IF w \notin F.windows THEN F
  ELSE [F EXCEPT !.activated = IF on THEN @ \cup {w} ELSE @ \ {w}]

\* WindowEvent::Created
HostWindowCreated(w) ==
  /\ ~headless
  /\ w \in seat.windows \ hosted
  /\ hosted' = hosted \cup {w}
  /\ UNCHANGED <<seat, headless, active, leaving>>

\* WindowEvent::Destroyed closes the GtkWindow.
HostWindowDestroyed(w) ==
  /\ w \in hosted \ seat.windows
  /\ hosted' = hosted \ {w}
  /\ active' = IF active = w THEN None ELSE active
  /\ UNCHANGED <<seat, headless, leaving>>

\* A GtkWindow becomes active and its drawing area gets the focus: each of the
\* area's two focus controllers runs, in GTK's order, which is not the host's.
FocusIn(w) ==
  /\ w \in hosted /\ active = None
  /\ active' = w
  /\ \/ seat' = SetActivated(ApplyFocus(InjectEnter(seat, w), w), w, TRUE)
     \/ seat' = SetActivated(InjectEnter(ApplyFocus(seat, w), w), w, TRUE)
  /\ UNCHANGED <<headless, hosted, leaving>>

\* Both controllers' leave
FocusOut ==
  /\ active # None
  /\ seat' = SetActivated(InjectLeave(seat, active), active, FALSE)
  /\ active' = None
  /\ UNCHANGED <<headless, hosted, leaving>>

\* inject_pointer_button: focus has been corrected to the window's own surface,
\* which is in no popup's tree.
PressOutsideGrab(F) == IF F.stack = <<>> THEN F ELSE Dismiss(F)

\* The click gesture of a drawing area, over the window or a popup drawn in it
GtkPress(w, s) ==
  /\ w = active /\ s \in seat.surfaces
  /\ s = w \/ (s \in seat.popups /\ Top[s] = w)
  /\ seat' = InjectEnter(PressOutsideGrab(seat), w)
  /\ UNCHANGED <<headless, hosted, active, leaving>>

\* A second or an unanswered close request: force_destroy_host_window
ForceDestroy(w) ==
  /\ w \in hosted \cap seat.windows
  /\ seat' = DestroyWindow(seat, w, headless)
  /\ UNCHANGED <<headless, hosted, active, leaving>>

HeadlessNext == \E s \in Surfaces \cup {None} : HeadlessPress(s) \/ HeadlessTouch(s)

GtkNext ==
  \/ \E w \in Toplevels : \/ HostWindowCreated(w) \/ HostWindowDestroyed(w)
                          \/ FocusIn(w) \/ ForceDestroy(w)
  \/ FocusOut
  \/ \E w \in Toplevels, s \in Surfaces : GtkPress(w, s)

CleanUp == CleanUpSurfaces \/ \E w \in Toplevels : CleanUpWindow(w)

FocusNext == CleanUp \/ (leaving = None /\ (ClientNext \/ HeadlessNext \/ GtkNext))

FocusSpec == FocusInit /\ [][FocusNext]_focusVars

-----------------------------------------------------------------------------
\* The keyboard is never on a surface that is gone, nor on a popup that is.
KeyboardIsLive ==
  /\ seat.kb \in seat.surfaces \cup {None}
  /\ seat.kb \in Popups => seat.kb \in seat.popups

\* Keys go where the core says the keyboard is: Smithay's focus and the core's
\* differ only when Smithay's is a surface that is gone.
KeysFollowFocus ==
  IF seat.kb = None THEN seat.keys \notin seat.surfaces ELSE seat.keys = seat.kb

\* The stack of grabs holds each popup once, and no popup that is gone unless
\* its client is.
GrabsAreLive ==
  /\ IsInjective(seat.stack)
  /\ \A p \in Range(seat.stack) : p \in seat.popups \/ Owner[p] \notin seat.clients

\* A headless host shows the window that has the keyboard, itself or through one
\* of its popups, as the activated one.
ActivatedHasKeyboard ==
  headless /\ RootWindow(seat, seat.kb) # None =>
    RootWindow(seat, seat.kb) \in seat.activated

\* When the keyboard moves from a popup of a toplevel to the window of another
\* toplevel of a headless host, no popup of the first goes on grabbing, provided
\* that only popups of the first do.
GrabEndsWithFocus ==
  [][headless /\ seat.kb \in seat.popups /\ seat'.kb \in Toplevels
     /\ Top[seat.kb] \notin {None, seat'.kb}
     /\ (\A g \in Range(seat.stack) : Top[g] = Top[seat.kb])
     => seat'.stack = <<>>]_focusVars

\* Closing the focused window of a headless host gives the keyboard to the next
\* one, if there is one in the history and no layer surface holds it.
NextWindowFocused ==
  [][headless /\ seat.focused \in seat.windows /\ seat.focused \notin seat'.windows
     /\ Range(seat.history) \cap seat'.windows # {}
     => seat'.kb \in seat'.windows \cup Layers]_focusVars

\* "focus returns to the next grabbing popup or the toplevel when a grabbing
\* popup goes away" (state/popup_grab.rs:6)
FocusReturns ==
  [][seat.kb \in seat.popups \ seat'.popups
     /\ Top[seat.kb] \in seat'.windows \ seat'.minimized
     => seat'.kb # None]_focusVars
=============================================================================
