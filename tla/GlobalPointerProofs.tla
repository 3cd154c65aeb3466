------------------------ MODULE GlobalPointerProofs ------------------------
(***************************************************************************)
(* Proofs about GlobalPointer, for any surfaces, positions, buttons and    *)
(* locks: types, who has the pointer, which locks are active, and the two  *)
(* action properties.                                                      *)
(***************************************************************************)
EXTENDS GlobalPointer, TLAPS

LockStates == {"absent", "idle", "active", "defunct"}

\* The inductive invariant.  Nothing is a target before the first motion: a
\* repick without a position keeps the target, even one whose surface goes.
PointerInv ==
  /\ PointerTypeOK
  /\ PointerHasOwner
  /\ LocksFollowPointer
  /\ pos = None => target = None

-----------------------------------------------------------------------------
\* Operators

\* After a Sync with the surface that has the pointer, locks follow it.
LEMMA SyncFollows ==
  ASSUME NEW L \in [Locks -> LockStates], NEW s,
         \A l \in Locks : L[l] = "defunct" => l \in OneShot
  PROVE  /\ Sync(L, s) \in [Locks -> LockStates]
         /\ \A l \in Locks :
              /\ Sync(L, s)[l] = "active" => s = LockedSurface[l]
              /\ Sync(L, s)[l] = "idle" => s # LockedSurface[l]
              /\ Sync(L, s)[l] = "defunct" => l \in OneShot
  <1> DEFINE R(l) == CASE L[l] = "idle" /\ s = LockedSurface[l] -> "active"
                       [] L[l] = "active" /\ s # LockedSurface[l] ->
                            IF l \in OneShot THEN "defunct" ELSE "idle"
                       [] OTHER -> L[l]
  <1>1. Sync(L, s) = [l \in Locks |-> R(l)]
    BY DEF Sync
  <1>2. ASSUME NEW l \in Locks
        PROVE  /\ R(l) \in LockStates
               /\ R(l) = "active" => s = LockedSurface[l]
               /\ R(l) = "idle" => s # LockedSurface[l]
               /\ R(l) = "defunct" => l \in OneShot
    <2>1. L[l] \in LockStates
      OBVIOUS
    <2> QED
      BY <2>1 DEF LockStates
  <1> HIDE DEF R
  <1> QED
    BY <1>1, <1>2

\* What is picked is the target so far, if it is shown, or what is there.
LEMMA PickType ==
  ASSUME NEW sh, NEW u \in [Positions -> sh \cup {None}],
         NEW p \in Positions, NEW t, NEW c, NEW g
  PROVE  Pick(p, t, c, g, sh, u) \in sh \cup {None}
  BY DEF Pick

\* The locks once the pointer is at focus'.
LEMMA SyncStep ==
  ASSUME PointerInv, NEW s, locks' = Sync(locks, s), focus' = s
  PROVE  LocksFollowPointer' /\ locks' \in [Locks -> LockStates]
  <1>1. locks \in [Locks -> LockStates] /\ \A l \in Locks : locks[l] = "defunct" => l \in OneShot
    BY DEF PointerInv, PointerTypeOK, LocksFollowPointer, LockStates
  <1> QED
    BY <1>1, SyncFollows DEF LocksFollowPointer

\* A delivery of a pointer to something shown keeps who has it.
LEMMA DeliverKeeps ==
  ASSUME PointerInv, NEW new \in surfaces' \cup {None},
         surfaces' \subseteq Surfaces,
         NEW f \in surfaces' \cup {None}, NEW c, Deliver(new, f, c)
  PROVE  /\ target' \in Surfaces \cup {None} /\ focus' \in surfaces' \cup {None}
         /\ target' = new
         /\ target' # None => target' = focus'
         /\ new = None /\ f = None => focus' = None
         /\ LocksFollowPointer' /\ locks' \in [Locks -> LockStates]
  <1>1. locks' = Sync(locks, focus')
    BY DEF Deliver
  <1>2. LocksFollowPointer' /\ locks' \in [Locks -> LockStates]
    BY <1>1, SyncStep
  <1> QED
    BY <1>2, PointerAssumption DEF Deliver

-----------------------------------------------------------------------------
\* A repick with focus f before, after a step that leaves the position and the
\* number of buttons alone
LEMMA RepickKeeps ==
  ASSUME PointerInv, shown' \subseteq surfaces', surfaces' \subseteq Surfaces,
         under' \in [Positions -> shown' \cup {None}],
         NEW f \in surfaces' \cup {None}, NEW g,
         f = focus \/ (f = None /\ target \notin shown' /\ focus # None),
         pos = None => f = focus \/ target = None,
         g # None => f = None /\ focus = None,
         Repick(f, g)
  PROVE  /\ target' \in Surfaces \cup {None} /\ focus' \in surfaces' \cup {None}
         /\ target' # None => target' = focus'
         /\ pos = None => target' = None
         /\ g # None => focus' = None
         /\ LocksFollowPointer' /\ locks' \in [Locks -> LockStates]
  <1> DEFINE new == IF pos = None THEN target
                    ELSE Pick(pos, target, count, g, shown', under')
  <1>1. IF new = target THEN target' = target /\ focus' = f /\ locks' = Sync(locks, f)
        ELSE Deliver(new, f, count)
    BY DEF Repick
  <1>2. /\ pos \in Positions \cup {None} /\ (pos = None => target = None)
        /\ target \in Surfaces \cup {None} /\ (target # None => target = focus)
    BY DEF PointerInv, PointerTypeOK, PointerHasOwner
  <1>3. new \in shown' \cup {None} /\ (pos = None => new = None)
    BY <1>2, PickType
  <1>4. g # None => new = None
    BY <1>2 DEF Pick
  <1> HIDE DEF new
  <1>5. CASE new = target
    <2>1. target' = target /\ focus' = f /\ locks' = Sync(locks, f)
      BY <1>1, <1>5
    <2>2. LocksFollowPointer' /\ locks' \in [Locks -> LockStates]
      BY <2>1, SyncStep
    <2>3. target # None => f = focus
      BY <1>3, <1>5
    <2> QED
      BY <1>2, <2>1, <2>2, <2>3
  <1>6. CASE new # target
    <2>1. Deliver(new, f, count)
      BY <1>1, <1>6
    <2> QED
      BY <1>2, <1>3, <1>4, <2>1, DeliverKeeps
  <1> QED
    BY <1>5, <1>6

\* A motion, in a scene that stays
LEMMA MoveKeeps ==
  ASSUME PointerInv, NEW p \in Positions, Move(p),
         UNCHANGED <<scene, count, grab>>
  PROVE  /\ pos' \in Positions \cup {None}
         /\ target' \in Surfaces \cup {None} /\ focus' \in surfaces \cup {None}
         /\ target' # None => target' = focus'
         /\ pos' = None => target' = None
         /\ grab # None => focus' = None
         /\ LocksFollowPointer' /\ locks' \in [Locks -> LockStates]
  <1> DEFINE new == Pick(p, target, count, grab, shown, under)
  <1> USE DEF scene
  <1>1. /\ PointerTypeOK /\ PointerHasOwner
        /\ focus \in surfaces \cup {None} /\ surfaces' = surfaces
        /\ surfaces \subseteq Surfaces /\ shown \subseteq surfaces
    BY DEF PointerInv, PointerHasOwner, PointerTypeOK
  <1>2. CASE focus # None /\ Locked(focus)
    BY <1>1, <1>2 DEF Move, PointerInv, PointerTypeOK, PointerHasOwner,
         LocksFollowPointer, LockStates
  <1>3. CASE ~(focus # None /\ Locked(focus))
    <2>1. pos' = p /\ Deliver(new, focus, count)
      BY <1>3 DEF Move
    <2>2. new \in shown \cup {None} /\ (grab # None => new = None /\ focus = None)
      BY <1>1, PickType DEF PointerTypeOK, PointerHasOwner, Pick
    <2> HIDE DEF new
    <2>3. /\ target' \in Surfaces \cup {None} /\ focus' \in surfaces' \cup {None}
          /\ target' # None => target' = focus'
          /\ new = None /\ focus = None => focus' = None
          /\ LocksFollowPointer' /\ locks' \in [Locks -> LockStates]
      BY <1>1, <2>1, <2>2, DeliverKeeps
    <2> QED
      BY <1>1, <2>1, <2>2, <2>3, PointerAssumption
  <1> QED
    BY <1>2, <1>3

-----------------------------------------------------------------------------
\* Safety

LEMMA InvInit ==
  PointerInit => PointerInv
  BY PointerAssumption DEF PointerInit, PointerInv, PointerTypeOK, PointerHasOwner,
     LocksFollowPointer

\* The types of a scene that a step shows
LEMMA SceneType ==
  ASSUME NEW sh, Show(sh), sh \subseteq windows', windows' \subseteq surfaces'
  PROVE  shown' \subseteq windows' /\ under' \in [Positions -> shown' \cup {None}]
  BY DEF Show

\* A step that ends in a repick, once its scene and its grab are right
LEMMA RepickStep ==
  ASSUME PointerInv,
         surfaces' \subseteq Surfaces, windows' \subseteq surfaces', shown' \subseteq windows',
         under' \in [Positions -> shown' \cup {None}],
         NEW f \in surfaces' \cup {None}, NEW g,
         f = focus \/ (f = None /\ target \notin shown' /\ focus # None),
         g # None => f = None /\ focus = None,
         Repick(f, g),
         g \in windows' \cup {None}, grab' = g, pos' = pos, count' \in Nat,
         pressed' \subseteq Buttons, virtual' \subseteq Buttons \cup {None}
  PROVE  PointerInv'
  <1>1. /\ pos \in Positions \cup {None} /\ (pos = None => target = None)
        /\ shown' \subseteq surfaces'
    BY DEF PointerInv, PointerTypeOK
  <1>2. /\ target' \in Surfaces \cup {None} /\ focus' \in surfaces' \cup {None}
        /\ target' # None => target' = focus'
        /\ pos = None => target' = None
        /\ g # None => focus' = None
        /\ LocksFollowPointer' /\ locks' \in [Locks -> LockStates]
    BY <1>1, RepickKeeps
  <1> QED
    BY <1>1, <1>2 DEF PointerInv, PointerTypeOK, PointerHasOwner, LockStates

LEMMA InvNext ==
  ASSUME PointerInv, [PointerNext]_pointerVars
  PROVE  PointerInv'
  <1> USE DEF scene, devices
  <1>0. /\ PointerTypeOK /\ PointerHasOwner /\ LocksFollowPointer
        /\ pos = None => target = None
    BY DEF PointerInv
  <1>1. ASSUME NEW s \in Surfaces, Map(s)
        PROVE  PointerInv'
    <2>1. /\ surfaces' = surfaces \cup {s} /\ windows' = windows \cup {s}
          /\ Show(shown \cup {s}) /\ Repick(focus, grab)
          /\ UNCHANGED <<pos, count, grab, pressed, virtual>>
      BY <1>1 DEF Map
    <2>2. shown' \subseteq windows' /\ under' \in [Positions -> shown' \cup {None}]
      BY <1>0, <2>1, SceneType DEF PointerTypeOK
    <2> QED
      BY <1>0, <2>1, <2>2, RepickStep DEF PointerTypeOK, PointerHasOwner
  <1>2. ASSUME Restack
        PROVE  PointerInv'
    <2>1. PICK sh \in SUBSET windows : Show(sh)
      BY <1>2 DEF Restack
    <2>2. /\ Repick(focus, grab)
          /\ UNCHANGED <<surfaces, windows, pos, count, grab, pressed, virtual>>
      BY <1>2 DEF Restack
    <2>3. shown' \subseteq windows' /\ under' \in [Positions -> shown' \cup {None}]
      BY <1>0, <2>1, <2>2, SceneType DEF PointerTypeOK
    <2> QED
      BY <1>0, <2>2, <2>3, RepickStep DEF PointerTypeOK, PointerHasOwner
  <1>3. ASSUME NEW s \in Surfaces, DestroyWindow(s)
        PROVE  PointerInv'
    <2>1. /\ windows' = windows \ {s} /\ Show(shown \ {s})
          /\ grab' = IF grab = s THEN None ELSE grab
          /\ locks' = Sync(locks, focus)
          /\ UNCHANGED <<surfaces, pos, target, focus, count, pressed, virtual>>
      BY <1>3 DEF DestroyWindow
    <2>2. LocksFollowPointer' /\ locks' \in [Locks -> LockStates]
      BY <2>1, SyncStep
    <2>3. shown' \subseteq windows' /\ under' \in [Positions -> shown' \cup {None}]
      BY <1>0, <2>1, SceneType DEF PointerTypeOK
    <2> QED
      BY <1>0, <2>1, <2>2, <2>3 DEF PointerInv, PointerTypeOK, PointerHasOwner, LockStates
  <1>4. ASSUME NEW s \in Surfaces, RemoveSurface(s)
        PROVE  PointerInv'
    <2> DEFINE f == IF focus = s THEN None ELSE focus
    <2>1. /\ s \in surfaces \ windows /\ surfaces' = surfaces \ {s}
          /\ UNCHANGED <<windows, shown, under, pos, count, grab, pressed, virtual>>
          /\ Repick(f, grab)
      BY <1>4 DEF RemoveSurface
    <2>2. f = focus \/ (f = None /\ target \notin shown' /\ focus # None)
      BY <1>0, <2>1, PointerAssumption DEF PointerTypeOK, PointerHasOwner
    <2>3. f \in surfaces' \cup {None} /\ (grab # None => f = None /\ focus = None)
      BY <1>0, <2>1 DEF PointerHasOwner
    <2> HIDE DEF f
    <2>4. /\ surfaces' \subseteq Surfaces /\ windows' \subseteq surfaces'
          /\ shown' \subseteq windows' /\ under' \in [Positions -> shown' \cup {None}]
          /\ count' \in Nat /\ pressed' \subseteq Buttons
          /\ virtual' \subseteq Buttons \cup {None}
          /\ grab \in windows' \cup {None}
      BY <1>0, <2>1 DEF PointerTypeOK, PointerHasOwner
    <2> QED
      BY <2>1, <2>2, <2>3, <2>4, RepickStep
  <1>5. ASSUME NEW w \in Surfaces, StartGrab(w)
        PROVE  PointerInv'
    <2>1. /\ w \in windows /\ grab' = w /\ count' = 0 /\ target' = None
          /\ focus' = None /\ locks' = Sync(locks, None)
          /\ UNCHANGED <<surfaces, windows, shown, under, pos, pressed, virtual>>
      BY <1>5 DEF StartGrab
    <2>2. LocksFollowPointer' /\ locks' \in [Locks -> LockStates]
      BY <2>1, SyncStep
    <2> QED
      BY <1>0, <2>1, <2>2 DEF PointerInv, PointerTypeOK, PointerHasOwner, LockStates
  <1>6. ASSUME NEW l \in Locks, Lock(l)
        PROVE  PointerInv'
    <2> DEFINE L == [locks EXCEPT ![l] = "idle"]
    <2>1. /\ locks' = Sync(L, focus)
          /\ UNCHANGED <<surfaces, windows, shown, under, pos, target, focus, count,
                         grab, pressed, virtual>>
      BY <1>6 DEF Lock
    <2>2. L \in [Locks -> LockStates] /\ \A k \in Locks : L[k] = "defunct" => k \in OneShot
      BY <1>0 DEF PointerTypeOK, LockStates, LocksFollowPointer
    <2> HIDE DEF L
    <2>3. LocksFollowPointer' /\ locks' \in [Locks -> LockStates]
      BY <2>1, <2>2, SyncFollows DEF LocksFollowPointer
    <2> QED
      BY <1>0, <2>1, <2>3 DEF PointerInv, PointerTypeOK, PointerHasOwner, LockStates
  <1>7. ASSUME NEW l \in Locks, Unlock(l)
        PROVE  PointerInv'
    BY <1>0, <1>7 DEF Unlock, PointerInv, PointerTypeOK, PointerHasOwner,
         LocksFollowPointer
  <1>8. ASSUME NEW p \in Positions, Motion(p)
        PROVE  PointerInv'
    <2>1. CASE grab # None /\ pos' = p /\ Show(shown) /\ UNCHANGED <<target, focus, locks>>
      <3>1. UNCHANGED <<surfaces, windows, count, grab, pressed, virtual>>
        BY <1>8 DEF Motion
      <3>2. shown' \subseteq windows' /\ under' \in [Positions -> shown' \cup {None}]
        BY <1>0, <2>1, <3>1, SceneType DEF PointerTypeOK
      <3>3. pos' \in Positions /\ target' = None
        BY <1>0, <2>1 DEF PointerHasOwner
      <3> QED
        BY <1>0, <2>1, <3>1, <3>2, <3>3, PointerAssumption
           DEF PointerInv, PointerTypeOK, PointerHasOwner, LocksFollowPointer
    <2>2. CASE grab = None /\ Move(p) /\ UNCHANGED <<shown, under>>
      <3>1. UNCHANGED <<surfaces, windows, count, grab, pressed, virtual>>
        BY <1>8 DEF Motion
      <3> QED
        BY <1>0, <2>2, <3>1, MoveKeeps
           DEF PointerInv, PointerTypeOK, PointerHasOwner, LockStates
    <2> QED
      BY <1>8, <2>1, <2>2 DEF Motion
  <1>9. ASSUME NEW b \in Buttons, Press(b) \/ VirtualPress(b) \/ VirtualRelease(b)
        PROVE  PointerInv'
    <2>1. /\ UNCHANGED <<surfaces, windows, shown, pos, target, focus, grab, locks>>
          /\ pressed' \subseteq Buttons /\ virtual' \subseteq Buttons \cup {None}
          /\ count' \in Nat
      BY <1>0, <1>9 DEF Press, VirtualPress, VirtualRelease, Fewer, PointerTypeOK
    <2>2. under' \in [Positions -> shown \cup {None}]
      BY <1>0, <1>9 DEF Press, VirtualPress, VirtualRelease, Raise, PointerTypeOK
    <2> QED
      BY <1>0, <2>1, <2>2 DEF PointerInv, PointerTypeOK, PointerHasOwner,
         LocksFollowPointer
  <1>10. ASSUME NEW b \in Buttons, Release(b)
         PROVE  PointerInv'
    <2>1. /\ pressed' = pressed \ {b} /\ grab' = None /\ count' = Fewer(count)
          /\ UNCHANGED <<surfaces, windows, shown, under, pos, virtual>>
      BY <1>10 DEF Release
    <2>2. count' \in Nat /\ pressed' \subseteq Buttons
      BY <1>0, <2>1 DEF Fewer, PointerTypeOK
    <2>3. CASE grab = None
      BY <1>0, <1>10, <2>1, <2>2, <2>3 DEF Release, PointerInv, PointerTypeOK,
           PointerHasOwner, LocksFollowPointer
    <2>4. CASE grab # None
      <3>1. Repick(focus, None)
        BY <1>10, <2>4 DEF Release
      <3> QED
        BY <1>0, <2>1, <2>2, <3>1, RepickStep DEF PointerTypeOK, PointerHasOwner
    <2> QED
      BY <2>3, <2>4
  <1>11. ASSUME NEW p \in Positions, VirtualMotion(p)
         PROVE  PointerInv'
    BY <1>0, <1>11, MoveKeeps
       DEF VirtualMotion, PointerInv, PointerTypeOK, PointerHasOwner, LockStates
  <1>12. CASE VirtualGone
    BY <1>0, <1>12 DEF VirtualGone, PointerInv, PointerTypeOK, PointerHasOwner,
         LocksFollowPointer
  <1>13. CASE Tick
    <2>1. /\ UNCHANGED <<surfaces, windows, shown, under, pos, count, grab, pressed, virtual>>
          /\ Repick(focus, grab)
      BY <1>13 DEF Tick
    <2> QED
      BY <1>0, <2>1, RepickStep DEF PointerTypeOK, PointerHasOwner
  <1>14. CASE UNCHANGED pointerVars
    BY <1>0, <1>14 DEF pointerVars, PointerInv, PointerTypeOK, PointerHasOwner,
         LocksFollowPointer
  <1> QED
    BY <1>1, <1>2, <1>3, <1>4, <1>5, <1>6, <1>7, <1>8, <1>9, <1>10, <1>11, <1>12,
       <1>13, <1>14 DEF PointerNext

THEOREM PointerInvariant == PointerSpec => []PointerInv
  BY InvInit, InvNext, PTL DEF PointerSpec

\* The pointer's bookkeeping stays in its types, for any number of surfaces,
\* positions, buttons and locks.
THEOREM PointerTypesCorrect == PointerSpec => []PointerTypeOK
  BY PointerInvariant, PTL DEF PointerInv

\* The surface that events are computed for is the one they are sent to, and it
\* exists; during a move or resize by the core no client has the pointer.
THEOREM OwnerIsOne == PointerSpec => []PointerHasOwner
  BY PointerInvariant, PTL DEF PointerInv

\* Locks are active exactly while their surface has the pointer, whatever moves
\* it away: motion, scene changes, destruction, or a grab.
THEOREM LocksAgree == PointerSpec => []LocksFollowPointer
  BY PointerInvariant, PTL DEF PointerInv

-----------------------------------------------------------------------------
\* Steps

\* A shown target stays picked while buttons are held and nothing is grabbed.
LEMMA HeldPicked ==
  ASSUME NEW p, NEW t, NEW c \in Nat, NEW sh, NEW u, c > 0, t # None, t \in sh
  PROVE  Pick(p, t, c, None, sh, u) = t
  BY DEF Pick

LEMMA HeldRepick ==
  ASSUME PointerInv, count > 0, target # None, target \in shown',
         NEW f, f = focus, Repick(f, None)
  PROVE  focus' = focus
  <1> DEFINE new == IF pos = None THEN target
                    ELSE Pick(pos, target, count, None, shown', under')
  <1>1. IF new = target THEN target' = target /\ focus' = f /\ locks' = Sync(locks, f)
        ELSE Deliver(new, f, count)
    BY DEF Repick
  <1>2. new = target
    BY HeldPicked DEF PointerInv, PointerTypeOK
  <1> QED
    BY <1>1, <1>2

LEMMA HeldMove ==
  ASSUME PointerInv, NEW p, Move(p), grab = None, count > 0, target # None,
         target \in shown
  PROVE  focus' = focus
  <1>1. CASE focus # None /\ Locked(focus)
    BY <1>1 DEF Move
  <1>2. CASE ~(focus # None /\ Locked(focus))
    <2>1. Deliver(Pick(p, target, count, grab, shown, under), focus, count)
      BY <1>2 DEF Move
    <2>2. Pick(p, target, count, grab, shown, under) = target /\ target = focus
      BY HeldPicked DEF PointerInv, PointerTypeOK, PointerHasOwner
    <2> QED
      BY <2>1, <2>2 DEF Deliver
  <1> QED
    BY <1>1, <1>2

LEMMA HeldStep ==
  ASSUME PointerInv, PointerNext, target # None, count > 0, count' > 0,
         target \in shown', grab' = None
  PROVE  focus' = focus
  <1> USE DEF scene, devices
  <1>1. /\ target = focus /\ PointerTypeOK /\ (grab # None => focus = None)
        /\ shown \subseteq windows
    BY DEF PointerInv, PointerHasOwner, PointerTypeOK
  <1>2. grab = None
    BY <1>1
  <1>3. ASSUME NEW s \in Surfaces, Map(s)
        PROVE  focus' = focus
    BY <1>2, <1>3, HeldRepick DEF Map
  <1>4. ASSUME Restack
        PROVE  focus' = focus
    BY <1>2, <1>4, HeldRepick DEF Restack
  <1>5. ASSUME NEW s \in Surfaces, RemoveSurface(s)
        PROVE  focus' = focus
    <2> DEFINE f == IF focus = s THEN None ELSE focus
    <2>1. s \notin windows /\ shown' = shown /\ Repick(f, grab)
      BY <1>5 DEF RemoveSurface
    <2>2. f = focus
      BY <1>1, <2>1
    <2> HIDE DEF f
    <2> QED
      BY <1>2, <2>1, <2>2, HeldRepick
  <1>6. ASSUME NEW w \in Surfaces, StartGrab(w)
        PROVE  focus' = focus
    BY <1>6 DEF StartGrab
  <1>7. ASSUME NEW p \in Positions, Motion(p)
        PROVE  focus' = focus
    <2>1. Move(p) /\ shown' = shown
      BY <1>2, <1>7 DEF Motion
    <2> QED
      BY <1>2, <2>1, HeldMove
  <1>8. ASSUME NEW p \in Positions, VirtualMotion(p)
        PROVE  focus' = focus
    BY <1>2, <1>8, HeldMove DEF VirtualMotion
  <1>9. ASSUME NEW b \in Buttons, Release(b)
        PROVE  focus' = focus
    BY <1>2, <1>9 DEF Release
  <1>10. CASE Tick
    BY <1>2, <1>10, HeldRepick DEF Tick
  <1>11. CASE \/ \E s \in Surfaces : DestroyWindow(s)
              \/ \E l \in Locks : Lock(l) \/ Unlock(l)
              \/ \E b \in Buttons : Press(b) \/ VirtualPress(b) \/ VirtualRelease(b)
              \/ VirtualGone
    BY <1>11 DEF DestroyWindow, Lock, Unlock, Press, VirtualPress, VirtualRelease,
       VirtualGone
  <1> QED
    BY <1>3, <1>4, <1>5, <1>6, <1>7, <1>8, <1>9, <1>10, <1>11 DEF PointerNext

\* The implicit grab: while buttons are held, a shown surface keeps the pointer
\* through motion, restacking and the end of other windows.
THEOREM HeldSurfaceKept == PointerSpec => HeldSurfaceStays
  <1>1. PointerInv /\ [PointerNext]_pointerVars
        => [target # None /\ count > 0 /\ count' > 0 /\ target \in shown' /\ grab' = None
            => focus' = focus]_pointerVars
    BY HeldStep
  <1> QED
    BY <1>1, PointerInvariant, PTL DEF PointerSpec, HeldSurfaceStays

LEMMA LockedStep ==
  ASSUME PointerInv, PointerNext, focus # None, Locked(focus)
  PROVE  pos' = pos
  <1>1. grab = None
    BY DEF PointerInv, PointerHasOwner
  <1>2. ASSUME NEW p \in Positions, Motion(p) \/ VirtualMotion(p)
        PROVE  pos' = pos
    BY <1>1, <1>2 DEF Motion, VirtualMotion, Move
  <1> QED
    BY <1>2 DEF PointerNext, Map, Restack, DestroyWindow, RemoveSurface, StartGrab,
       Lock, Unlock, Press, VirtualPress, VirtualRelease, Release, VirtualGone, Tick

\* A pointer locked to a surface stays where it is, whichever device moves.
THEOREM LockedPointerKept == PointerSpec => LockedPointerStays
  <1>1. PointerInv /\ [PointerNext]_pointerVars
        => [focus # None /\ Locked(focus) => pos' = pos]_pointerVars
    BY LockedStep
  <1> QED
    BY <1>1, PointerInvariant, PTL DEF PointerSpec, LockedPointerStays

=============================================================================
