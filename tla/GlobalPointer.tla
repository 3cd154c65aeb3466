--------------------------- MODULE GlobalPointer ---------------------------
(***************************************************************************)
(* The pointer of a headless host (state/pointer_focus.rs, state/input.rs, *)
(* the *_global calls of ffi/api.rs): one position, moved by the host and  *)
(* by clients' virtual pointers (wlr/virtual_pointer.rs).  The core finds  *)
(* the surface under it, holds on to a surface while a button is pressed   *)
(* (the implicit grab), takes the pointer away from clients while it moves *)
(* or resizes a window for them (the interactive grab), and lets clients   *)
(* lock it to a surface (ext/pointer_constraints.rs).                      *)
(*                                                                         *)
(* Each surface is that of a toplevel of the same name.  Geometry is       *)
(* abstracted to which shown surface is on top at each of a few positions: *)
(* any surface may come to be, whenever the scene changes.  Confinement is *)
(* left out: it bounds positions, and goes on and off as a lock does.      *)
(***************************************************************************)
EXTENDS Naturals, FiniteSets

CONSTANTS
  Surfaces,
  Positions,
  Buttons,
  Locks,
  LockedSurface,  \* of each lock
  OneShot,        \* the locks with that lifetime
  None

ASSUME PointerAssumption ==
  /\ None \notin Surfaces \cup Positions
  /\ IsFiniteSet(Buttons)
  /\ LockedSurface \in [Locks -> Surfaces]
  /\ OneShot \subseteq Locks

VARIABLES
  surfaces, windows, shown,  \* what exists, and what the scene shows of it
  under,     \* the topmost surface at each position
  pos,       \* seat.pointer.global_position
  target,    \* seat.pointer.global_target
  focus,     \* seat.pointer.focus
  count,     \* seat.pointer.button_count
  grab,      \* seat.pointer.interactive_grab
  locks,     \* state of each lock: LockedPointerData
  pressed,   \* buttons down on the host's device
  virtual    \* buttons down on the virtual one; {None} once it is gone

scene == <<surfaces, windows, shown, under>>
devices == <<pressed, virtual>>
pointerVars == <<scene, pos, target, focus, count, grab, locks, devices>>

PointerTypeOK ==
  /\ windows \subseteq surfaces /\ shown \subseteq windows /\ surfaces \subseteq Surfaces
  /\ under \in [Positions -> shown \cup {None}]
  /\ pos \in Positions \cup {None}
  /\ target \in Surfaces \cup {None}
  /\ focus \in Surfaces \cup {None}
  /\ count \in Nat
  /\ grab \in Surfaces \cup {None}
  /\ locks \in [Locks -> {"absent", "idle", "active", "defunct"}]
  /\ pressed \subseteq Buttons
  /\ virtual \subseteq Buttons \cup {None}

PointerInit ==
  /\ surfaces = {} /\ windows = {} /\ shown = {}
  /\ under = [p \in Positions |-> None]
  /\ pos = None /\ target = None /\ focus = None /\ count = 0 /\ grab = None
  /\ locks = [l \in Locks |-> "absent"]
  /\ pressed = {} /\ virtual = {}

-----------------------------------------------------------------------------
\* fn sync_activation: the locks L once surface s has the pointer
Sync(L, s) ==
  [l \in Locks |->
     CASE L[l] = "idle" /\ s = LockedSurface[l] -> "active"
       [] L[l] = "active" /\ s # LockedSurface[l] ->
            IF l \in OneShot THEN "defunct" ELSE "idle"
       [] OTHER -> L[l]]

\* Mutant: the surface under the pointer, whatever is held.
PickUnder(p, t, c, g, sh, u) == IF g # None THEN None ELSE u[p]

\* fn global_pointer_target, for a position, the target so far, the number of
\* buttons, the interactive grab, and a scene
Pick(p, t, c, g, sh, u) ==
  IF g # None THEN None
  ELSE IF c > 0 /\ t # None THEN (IF t \in sh THEN t ELSE None)
  ELSE u[p]

\* fn deliver_global_pointer, with f the focus before: the pointer enters the
\* new target, or leaves when there is none and no button is held.
Deliver(new, f, c) ==
  /\ target' = new
  /\ focus' = IF new # None THEN new
              ELSE IF target # None /\ c = 0 THEN None ELSE f
  /\ locks' = Sync(locks, focus')

\* fn repick_headless_global_pointer, in the scene that the step brings about
Repick(f, g) ==
  LET new == IF pos = None THEN target
             ELSE Pick(pos, target, count, g, shown', under')
  IN IF new = target THEN target' = target /\ focus' = f /\ locks' = Sync(locks, f)
     ELSE Deliver(new, f, count)

\* The scene shows sh, stacked in any way.
Show(sh) == shown' = sh /\ under' \in [Positions -> sh \cup {None}]

-----------------------------------------------------------------------------
\* Clients

\* get_toplevel, and commits up to the first with a buffer
Map(s) ==
  /\ s \notin surfaces
  /\ surfaces' = surfaces \cup {s} /\ windows' = windows \cup {s}
  /\ Show(shown \cup {s})
  /\ Repick(focus, grab)
  /\ UNCHANGED <<pos, count, grab, devices>>

\* A commit that unmaps, maps or resizes a window, or minimizing it or activating it
Restack ==
  /\ \E sh \in SUBSET windows : Show(sh)
  /\ Repick(focus, grab)
  /\ UNCHANGED <<surfaces, windows, pos, count, grab, devices>>

\* Mutant: the grab outlives its window.
DestroyWindowKeepsGrab(s) ==
  /\ s \in windows
  /\ windows' = windows \ {s}
  /\ Show(shown \ {s})
  /\ locks' = Sync(locks, focus)
  /\ UNCHANGED <<surfaces, pos, target, focus, count, grab, devices>>

\* fn destroy_window: it leaves the pointer where it was.
DestroyWindow(s) ==
  /\ s \in windows
  /\ windows' = windows \ {s}
  /\ Show(shown \ {s})
  /\ grab' = IF grab = s THEN None ELSE grab
  /\ locks' = Sync(locks, focus)
  /\ UNCHANGED <<surfaces, pos, target, focus, count, devices>>

\* fn remove_surface, after destroy_window
RemoveSurface(s) ==
  /\ s \in surfaces \ windows
  /\ surfaces' = surfaces \ {s}
  /\ UNCHANGED <<windows, shown, under>>
  /\ Repick(IF focus = s THEN None ELSE focus, grab)
  /\ UNCHANGED <<pos, count, grab, devices>>

\* Mutant: a lock is not told that its surface lost the pointer.
StartGrabKeepsLocks(w) ==
  /\ count > 0 /\ pos # None /\ w \in windows
  /\ grab' = w /\ count' = 0
  /\ target' = None /\ focus' = None
  /\ UNCHANGED <<scene, pos, locks, devices>>

\* fn start_interactive_grab: xdg_toplevel.move or resize
StartGrab(w) ==
  /\ count > 0 /\ pos # None /\ w \in windows
  /\ grab' = w /\ count' = 0
  /\ target' = None /\ focus' = None
  /\ locks' = Sync(locks, None)
  /\ UNCHANGED <<scene, pos, devices>>

\* lock_pointer
Lock(l) ==
  /\ locks[l] = "absent" /\ LockedSurface[l] \in surfaces
  /\ locks' = Sync([locks EXCEPT ![l] = "idle"], focus)
  /\ UNCHANGED <<scene, pos, target, focus, count, grab, devices>>

\* zwp_locked_pointer_v1.destroy
Unlock(l) ==
  /\ locks[l] # "absent"
  /\ locks' = [locks EXCEPT ![l] = "absent"]
  /\ UNCHANGED <<scene, pos, target, focus, count, grab, devices>>

-----------------------------------------------------------------------------
\* Devices

Locked(s) == \E l \in Locks : locks[l] = "active" /\ LockedSurface[l] = s

\* Mutant: a lock holds the surface's window, not the pointer.
MoveIgnoresLock(p) ==
  /\ pos' = p
  /\ Deliver(Pick(p, target, count, grab, shown, under), focus, count)

\* fn constrain_global_pointer, then fn deliver_global_pointer
Move(p) ==
  IF focus # None /\ Locked(focus) THEN UNCHANGED <<pos, target, focus, locks>>
  ELSE /\ pos' = p
       /\ Deliver(Pick(p, target, count, grab, shown, under), focus, count)

\* fn inject_pointer_motion_global: with a grab, the window is what moves.
Motion(p) ==
  /\ \/ /\ grab # None
        /\ pos' = p
        /\ Show(shown)
        /\ UNCHANGED <<target, focus, locks>>
     \/ /\ grab = None
        /\ Move(p)
        /\ UNCHANGED <<shown, under>>
  /\ UNCHANGED <<surfaces, windows, count, grab, devices>>

\* fn bring_to_front for the window of the target: it may come to be on top
\* where it is, and the pointer is not picked anew.
Raise ==
  /\ under' \in [Positions -> shown \cup {None}]
  /\ \A p \in Positions : under'[p] \in {under[p]} \cup (shown \cap {target})

\* fn inject_pointer_button_global; fn deliver_global_button counts and raises.
Press(b) ==
  /\ b \notin pressed
  /\ pressed' = pressed \cup {b}
  /\ \/ grab = None /\ count' = count + 1 /\ Raise
     \/ grab # None /\ UNCHANGED <<count, under>>
  /\ UNCHANGED <<surfaces, windows, shown, pos, target, focus, grab, locks, virtual>>

\* Mutant: releases are not saturating.
FewerUnchecked(c) == c - 1

Fewer(c) == IF c = 0 THEN 0 ELSE c - 1

Release(b) ==
  /\ b \in pressed
  /\ pressed' = pressed \ {b}
  /\ grab' = None
  /\ count' = Fewer(count)
  /\ UNCHANGED scene
  /\ IF grab = None THEN UNCHANGED <<target, focus, locks>> ELSE Repick(focus, None)
  /\ UNCHANGED <<pos, virtual>>

\* fn flush_virtual_pointer_frame
VirtualMotion(p) ==
  /\ virtual \subseteq Buttons
  /\ Move(p)
  /\ UNCHANGED <<scene, count, grab, devices>>

VirtualPress(b) ==
  /\ b \notin virtual /\ virtual \subseteq Buttons
  /\ virtual' = virtual \cup {b}
  /\ count' = count + 1 /\ Raise
  /\ UNCHANGED <<surfaces, windows, shown, pos, target, focus, grab, locks, pressed>>

VirtualRelease(b) ==
  /\ b \in virtual
  /\ virtual' = virtual \ {b}
  /\ count' = Fewer(count)
  /\ UNCHANGED <<scene, pos, target, focus, grab, locks, pressed>>

\* Nothing releases the buttons of a virtual pointer that goes away.
VirtualGone ==
  /\ virtual' = {None}
  /\ UNCHANGED <<scene, pos, target, focus, count, grab, locks, pressed>>

\* fn headless_host_tick
Tick ==
  /\ UNCHANGED scene
  /\ Repick(focus, grab)
  /\ UNCHANGED <<pos, count, grab, devices>>

PointerNext ==
  \/ \E s \in Surfaces : Map(s) \/ DestroyWindow(s) \/ RemoveSurface(s) \/ StartGrab(s)
  \/ Restack
  \/ \E l \in Locks : Lock(l) \/ Unlock(l)
  \/ \E p \in Positions : Motion(p) \/ VirtualMotion(p)
  \/ \E b \in Buttons : \/ Press(b) \/ Release(b)
                        \/ VirtualPress(b) \/ VirtualRelease(b)
  \/ VirtualGone
  \/ Tick

PointerSpec == PointerInit /\ [][PointerNext]_pointerVars

-----------------------------------------------------------------------------
\* The surface that pointer events are computed for is the one they are sent
\* to, and it exists; a window that the core moves exists, and while it does so
\* no client has the pointer.
PointerHasOwner ==
  /\ target # None => target = focus
  /\ focus \in surfaces \cup {None}
  /\ grab # None => grab \in windows /\ focus = None

\* A lock is active exactly while its surface has the pointer, once it may be.
LocksFollowPointer ==
  \A l \in Locks :
    /\ locks[l] = "active" => focus = LockedSurface[l]
    /\ locks[l] = "idle" => focus # LockedSurface[l]
    /\ locks[l] = "defunct" => l \in OneShot

\* While buttons stay held, no motion or change of the scene takes the pointer
\* from a surface that is still shown, unless the core takes it for a grab.
HeldSurfaceStays ==
  [][target # None /\ count > 0 /\ count' > 0 /\ target \in shown' /\ grab' = None
     => focus' = focus]_pointerVars

\* A locked pointer does not move, whichever device would move it.
LockedPointerStays ==
  [][focus # None /\ Locked(focus) => pos' = pos]_pointerVars
=============================================================================
