----------------------------- MODULE TouchSeat -----------------------------
(***************************************************************************)
(* Touch contacts from the host's fingers to Smithay's slots: what the     *)
(* host reports, windows that appear under a contact (a headless host      *)
(* repicks them), surfaces that go away, clients that disconnect.          *)
(*                                                                         *)
(* A repick goes through the contacts one by one; each is a step here, and *)
(* nothing else happens until it is done.                                  *)
(***************************************************************************)
EXTENDS TouchPoints

CONSTANTS
  Clients,
  Owner    \* the client of each surface

ASSUME OwnerAssumption == Owner \in [Surfaces -> Clients]

VARIABLES
  touch,      \* TouchState and its other half in Smithay
  live,       \* surfaces in CompositorState.surfaces
  clients,    \* connected clients
  fingers,    \* fingers the host has reported down and not lifted
  headless,   \* headless_host, set once
  repicking   \* contacts that the running repick has not looked at

touchVars == <<touch, live, clients, fingers, headless, repicking>>

TouchTypeOK ==
  /\ touch \in TouchStates
  /\ live \subseteq Surfaces
  /\ clients \subseteq Clients
  /\ fingers \subseteq Fingers
  /\ headless \in BOOLEAN
  /\ repicking \subseteq Fingers

TouchInit ==
  /\ touch = NoTouch
  /\ live = Surfaces
  /\ clients = Clients
  /\ fingers = {}
  /\ headless \in BOOLEAN
  /\ repicking = {}

\* The contacts to repick after any change of the scene
ToRepick(T) == IF headless THEN Booked(T) ELSE {}

\* fn repick_headless_touches, for the next contact, with s under it or nothing
Repick(i, s) ==
  /\ i \in repicking /\ s \in live \cup {None}
  /\ repicking' = repicking \ {i}
  /\ \E next \in NextMirrors(touch, {i}) : touch' = RepickOne(touch, i, s, next)
  /\ UNCHANGED <<live, clients, fingers, headless>>

FingerDown(i, s) ==
  /\ i \notin fingers /\ s \in live
  /\ fingers' = fingers \cup {i}
  /\ touch' = Down(touch, i, s)
  /\ UNCHANGED <<live, clients, headless, repicking>>

\* fn inject_touch_up
FingerUp(i) ==
  /\ i \in fingers
  /\ fingers' = fingers \ {i}
  /\ IF i \in Booked(touch)
     THEN \E next \in NextMirrors(touch, {i}) : touch' = Ups(touch, {i}, next)
     ELSE UNCHANGED touch
  /\ UNCHANGED <<live, clients, headless, repicking>>

\* The host takes the gesture over.
HostCancel ==
  /\ fingers # {}
  /\ fingers' = {}
  /\ touch' = Cancel(touch)
  /\ UNCHANGED <<live, clients, headless, repicking>>

SetHostSeatMode(mode) ==
  /\ touch' = SetMode(touch, mode)
  /\ UNCHANGED <<live, clients, fingers, headless, repicking>>

SetTouchPointerEmulation(on) ==
  /\ touch' = [touch EXCEPT !.emulate = on]
  /\ UNCHANGED <<live, clients, fingers, headless, repicking>>

\* A commit that moves or restacks something
SceneChanged ==
  /\ repicking' = ToRepick(touch)
  /\ UNCHANGED <<touch, live, clients, fingers, headless>>

\* Mutant: contacts are left on a surface that is gone.
RemoveSurfaceOnly(s) ==
  /\ s \in live
  /\ live' = live \ {s}
  /\ UNCHANGED <<touch, clients, fingers, headless, repicking>>

\* fn remove_surface, with end_touches_on_surface
RemoveSurface(s) ==
  /\ s \in live
  /\ live' = live \ {s}
  /\ \E next \in NextMirrors(touch, DownOnSurface(touch, s)) :
       touch' = Ups(touch, DownOnSurface(touch, s), next)
  /\ repicking' = ToRepick(touch')
  /\ UNCHANGED <<clients, fingers, headless>>

\* client_disconnected: the contacts of every client are dropped from the
\* bookkeeping, without Smithay's knowledge; then the client's surfaces go.
ClientDisconnected(c) ==
  /\ c \in clients
  /\ clients' = clients \ {c}
  /\ live' = {s \in live : Owner[s] # c}
  /\ touch' = BookCancel(touch)
  /\ UNCHANGED <<fingers, headless, repicking>>

TouchNext ==
  \/ \E i \in Fingers, s \in Surfaces \cup {None} : Repick(i, s)
  \/ /\ repicking = {}
     /\ \/ \E i \in Fingers, s \in Surfaces : FingerDown(i, s)
        \/ \E i \in Fingers : FingerUp(i)
        \/ HostCancel
        \/ \E mode \in Modes : SetHostSeatMode(mode)
        \/ \E on \in BOOLEAN : SetTouchPointerEmulation(on)
        \/ SceneChanged
        \/ \E s \in Surfaces : RemoveSurface(s)
        \/ \E c \in Clients : ClientDisconnected(c)

TouchSpec == TouchInit /\ [][TouchNext]_touchVars

-----------------------------------------------------------------------------
\* A contact the core has booked is a finger on the screen and down at the client,
\* on a surface that still exists, and until some client has disconnected no other
\* slot is down: the bookkeeping follows the fingers and Smithay's slots through
\* caps, repicks, removed surfaces and changes of mode.
ContactDelivered ==
  /\ Booked(touch) \subseteq fingers
  /\ \A i \in Booked(touch) : touch.slots[i] = touch.points[i]
  /\ \A i \in Booked(touch) : touch.points[i] \in live
  /\ clients = Clients => touch.points = touch.slots

\* There is a mirror exactly while there are contacts, and it is one of them.
MirrorIsContact ==
  IF Booked(touch) = {} THEN touch.mirror = None
                        ELSE touch.mirror \in Booked(touch)

\* The button the core holds is down in Smithay, for the contact that drives the
\* pointer; a native host with its clients connected has no other button down:
\* it is never left pressed by an up, a cancel, or a change of mode.
ButtonFollowsMirror ==
  /\ touch.held => touch.pressed /\ touch.mirror # None
  /\ ~headless /\ clients = Clients => touch.pressed = touch.held
=============================================================================
