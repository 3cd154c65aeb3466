---------------------------- MODULE TouchPoints ----------------------------
(***************************************************************************)
(* The bookkeeping of touch contacts in src/src/core/input/touch.rs and    *)
(* the handlers of src/src/core/state/input.rs that keep it in step with   *)
(* Smithay's TouchHandle, which owns the wl_touch events.  One record      *)
(* holds both halves:                                                      *)
(*                                                                         *)
(*   points, mirror, held, cap   TouchState                                *)
(*   emulate                     touch_pointer_emulation                   *)
(*   slots                       Smithay: the surface each slot is down on *)
(*   pressed                     Smithay: BTN_LEFT is down                 *)
(*                                                                         *)
(* The first contact may also drive the pointer: for a nested compositor,  *)
(* for a terminal's selection, and for every other surface if emulation is *)
(* on.  Positions are left out.                                            *)
(***************************************************************************)
EXTENDS Integers, FiniteSets

CONSTANTS
  Surfaces,
  Fingers,       \* contact ids
  MaxContacts,   \* default_touch_max_concurrent
  Terminals, Nested,   \* surfaces of windows with such an app id
  None

ASSUME TouchAssumption ==
  /\ None \notin Surfaces \cup Fingers
  /\ Terminals \subseteq Surfaces /\ Nested \subseteq Surfaces
  /\ IsFiniteSet(Fingers)
  /\ MaxContacts \in Nat \ {0}

Modes == {"MultiTouch", "SingleTouch", "Touchpad"}

TouchStates ==
  [points : [Fingers -> Surfaces \cup {None}],
   mirror : Fingers \cup {None},
   held : BOOLEAN,
   cap : {0, 1, MaxContacts},
   emulate : BOOLEAN,
   slots : [Fingers -> Surfaces \cup {None}],
   pressed : BOOLEAN]

Booked(T) == {i \in Fingers : T.points[i] # None}
DownOnSurface(T, s) == {i \in Fingers : T.points[i] = s}

NoTouch == [points |-> [i \in Fingers |-> None], mirror |-> None,
            held |-> FALSE, cap |-> MaxContacts, emulate |-> FALSE,
            slots |-> [i \in Fingers |-> None], pressed |-> FALSE]

\* fn can_accept_down
CanAcceptDown(T, i) == i \in Booked(T) \/ Cardinality(Booked(T)) < T.cap

\* fn should_mirror_pointer_for_touch
MirrorsPointer(T, s) == s \in Terminals \cup Nested \/ T.emulate

\* fn smithay_pointer_mirror_button
MirrorButton(T, down) ==
  IF T.held = down THEN T ELSE [T EXCEPT !.held = down, !.pressed = down]

\* TouchState::touch_down
BookDown(T, i, s) ==
  [T EXCEPT !.points[i] = s, !.mirror = IF @ = None THEN i ELSE @]

\* Contacts one of which becomes the mirror when those in ids are lifted: a
\* HashMap's first key may be any.
NextMirrors(T, ids) ==
  IF Booked(T) \subseteq ids THEN {None} ELSE Booked(T) \ ids

\* Mutant: the mirror is not passed on.
UnbookKeepsMirror(T, ids, next) ==
  [T EXCEPT !.points = [i \in Fingers |-> IF i \in ids THEN None ELSE @[i]],
            !.held = IF T.mirror \in ids THEN FALSE ELSE @]

\* TouchState::touch_up for each of ids
Unbook(T, ids, next) ==
  [T EXCEPT !.points = [i \in Fingers |-> IF i \in ids THEN None ELSE @[i]],
            !.mirror = IF @ \in ids THEN next ELSE @,
            !.held = IF T.mirror \in ids THEN FALSE ELSE @]

SlotsUp(T, ids) ==
  [T EXCEPT !.slots = [i \in Fingers |-> IF i \in ids THEN None ELSE @[i]]]

\* Mutant: an up is sent, but the mirrored button is not released.
UpsKeepButton(T, ids, next) == Unbook(SlotsUp(T, ids), ids, next)

\* inject_touch_up for each of ids
Ups(T, ids, next) ==
  LET released == IF T.mirror \in ids THEN MirrorButton(T, FALSE) ELSE T
  IN Unbook(SlotsUp(released, ids), ids, next)

\* inject_touch_down_on_surface, without its change of keyboard focus
Down(T, i, s) ==
  IF ~CanAcceptDown(T, i) THEN T
  ELSE LET B == [BookDown(T, i, s) EXCEPT !.slots[i] = s]
       IN IF B.mirror = i /\ MirrorsPointer(T, s) THEN MirrorButton(B, TRUE) ELSE B

\* TouchState::touch_cancel
BookCancel(T) ==
  [T EXCEPT !.points = [i \in Fingers |-> None], !.mirror = None, !.held = FALSE]

\* inject_touch_cancel
Cancel(T) == BookCancel(SlotsUp(MirrorButton(T, FALSE), Fingers))

\* set_host_seat_mode: emulation stays on.
SetMode(T, mode) ==
  LET M == [T EXCEPT !.cap = CASE mode = "MultiTouch" -> MaxContacts
                              [] mode = "SingleTouch" -> 1
                              [] mode = "Touchpad" -> 0,
                     !.emulate = @ \/ mode = "SingleTouch"]
  IN IF M.cap = 0 /\ Booked(M) # {} THEN Cancel(M) ELSE M

\* repick_headless_touches for a contact that is now over s: the old surface
\* gets an up, the new one a down.  The mirrored button is only forgotten.
RepickOne(T, i, s, next) ==
  IF i \notin Booked(T) \/ s \in {None, T.points[i]} THEN T
  ELSE Down(Unbook(SlotsUp(T, {i}), {i}, next), i, s)
=============================================================================
