-------------------------- MODULE TouchSeatProofs --------------------------
(***************************************************************************)
(* Proofs about TouchSeat, for any surfaces, contacts, clients and cap:    *)
(* types, that booked contacts are those down at the clients, that the     *)
(* mirror is one of them, and that the mirrored button is released.        *)
(***************************************************************************)
EXTENDS TouchSeat, TLAPS

-----------------------------------------------------------------------------
\* The bookkeeping by itself, L being the surfaces that exist

Sound(T, L) ==
  /\ T \in TouchStates
  /\ \A i \in Booked(T) : T.slots[i] = T.points[i] /\ T.points[i] \in L
  /\ IF Booked(T) = {} THEN T.mirror = None ELSE T.mirror \in Booked(T)
  /\ T.held => T.pressed /\ T.mirror # None

\* Nothing is down that is not booked.
Exact(T) == T.points = T.slots

\* The button is down as long as the core holds it.
ButtonExact(T) == T.pressed = T.held

LEMMA NoTouchSound ==
  /\ Sound(NoTouch, Surfaces) /\ Exact(NoTouch) /\ ButtonExact(NoTouch)
  BY TouchAssumption DEF Sound, Exact, ButtonExact, NoTouch, TouchStates, Booked

LEMMA MirrorButtonSound ==
  ASSUME NEW L, NEW T, Sound(T, L), NEW down \in BOOLEAN, down => T.mirror # None
  PROVE  LET M == MirrorButton(T, down)
         IN /\ Sound(M, L) /\ M.points = T.points /\ M.slots = T.slots
            /\ M.mirror = T.mirror /\ M.held = down
            /\ ButtonExact(T) => ButtonExact(M)
  BY DEF Sound, ButtonExact, MirrorButton, TouchStates, Booked

\* A down that the core takes
LEMMA BookedDownSound ==
  ASSUME NEW L, L \subseteq Surfaces, NEW T, Sound(T, L), NEW i \in Fingers, NEW s \in L
  PROVE  LET B == [BookDown(T, i, s) EXCEPT !.slots[i] = s]
         IN /\ Sound(B, L) /\ B.mirror # None
            /\ Exact(T) => Exact(B)
            /\ ButtonExact(T) => ButtonExact(B)
  <1> DEFINE B == [BookDown(T, i, s) EXCEPT !.slots[i] = s]
  <1>1. /\ T \in TouchStates /\ s \in Surfaces /\ None \notin Surfaces \cup Fingers
        /\ \A j \in Booked(T) : T.slots[j] = T.points[j] /\ T.points[j] \in L
        /\ IF Booked(T) = {} THEN T.mirror = None ELSE T.mirror \in Booked(T)
        /\ T.held => T.pressed /\ T.mirror # None
    BY TouchAssumption DEF Sound
  <1>2. /\ B \in TouchStates
        /\ B.points = [T.points EXCEPT ![i] = s] /\ B.slots = [T.slots EXCEPT ![i] = s]
        /\ B.mirror = (IF T.mirror = None THEN i ELSE T.mirror)
        /\ B.held = T.held /\ B.pressed = T.pressed
    BY <1>1 DEF BookDown, TouchStates
  <1> HIDE DEF B
  <1>3. Booked(B) = Booked(T) \cup {i} /\ i \in Booked(B)
    BY <1>1, <1>2 DEF Booked, TouchStates
  <1>4. \A j \in Booked(B) : B.slots[j] = B.points[j] /\ B.points[j] \in L
    BY <1>1, <1>2, <1>3 DEF Booked, TouchStates
  <1>5. B.mirror \in Booked(B) /\ B.mirror # None
    BY <1>1, <1>2, <1>3 DEF Booked
  <1>6. Sound(B, L)
    BY <1>1, <1>2, <1>3, <1>4, <1>5 DEF Sound
  <1>7. (Exact(T) => Exact(B)) /\ (ButtonExact(T) => ButtonExact(B))
    BY <1>2 DEF Exact, ButtonExact
  <1> QED
    BY <1>5, <1>6, <1>7 DEF B

LEMMA DownSound ==
  ASSUME NEW L, L \subseteq Surfaces, NEW T, Sound(T, L), NEW i \in Fingers, NEW s \in L
  PROVE  LET D == Down(T, i, s)
         IN /\ Sound(D, L)
            /\ Exact(T) => Exact(D)
            /\ ButtonExact(T) => ButtonExact(D)
  <1> DEFINE B == [BookDown(T, i, s) EXCEPT !.slots[i] = s]
             M == MirrorButton(B, TRUE)
  <1>1. /\ Sound(B, L) /\ B.mirror # None
        /\ (Exact(T) => Exact(B)) /\ (ButtonExact(T) => ButtonExact(B))
    BY BookedDownSound
  <1>2. Down(T, i, s) \in {T, B, M}
    BY DEF Down
  <1> HIDE DEF B
  <1>3. /\ Sound(M, L) /\ M.points = B.points /\ M.slots = B.slots
        /\ ButtonExact(B) => ButtonExact(M)
    BY <1>1, MirrorButtonSound
  <1>4. Exact(B) => Exact(M)
    BY <1>3 DEF Exact
  <1> QED
    BY <1>1, <1>2, <1>3, <1>4

\* Contacts that go up, with the mirror passed on
LEMMA UnbookSound ==
  ASSUME NEW L, NEW T, Sound(T, L), NEW ids \in SUBSET Fingers,
         NEW next \in NextMirrors(T, ids)
  PROVE  LET U == Unbook(SlotsUp(T, ids), ids, next)
         IN /\ Sound(U, L)
            /\ Exact(T) => Exact(U)
            /\ ButtonExact(T) /\ (T.mirror \in ids => ~T.held) => ButtonExact(U)
            /\ DownOnSurface(T, None) \cup ids \subseteq DownOnSurface(U, None)
            /\ \A i \in Booked(U) : U.points[i] = T.points[i] /\ i \notin ids
  <1> DEFINE U == Unbook(SlotsUp(T, ids), ids, next)
  <1>1. /\ T \in TouchStates /\ None \notin Surfaces \cup Fingers
        /\ \A j \in Booked(T) : T.slots[j] = T.points[j] /\ T.points[j] \in L
        /\ IF Booked(T) = {} THEN T.mirror = None ELSE T.mirror \in Booked(T)
        /\ T.held => T.pressed /\ T.mirror # None
    BY TouchAssumption DEF Sound
  <1>2. next \in Fingers \cup {None}
    BY DEF NextMirrors, Booked
  <1>3. /\ U \in TouchStates
        /\ U.points = [i \in Fingers |-> IF i \in ids THEN None ELSE T.points[i]]
        /\ U.slots = [i \in Fingers |-> IF i \in ids THEN None ELSE T.slots[i]]
        /\ U.mirror = (IF T.mirror \in ids THEN next ELSE T.mirror)
        /\ U.held = (IF T.mirror \in ids THEN FALSE ELSE T.held)
        /\ U.pressed = T.pressed
    BY <1>1, <1>2 DEF Unbook, SlotsUp, TouchStates
  <1> HIDE DEF U
  <1>4. Booked(U) = Booked(T) \ ids
    BY <1>3 DEF Booked
  <1>5. /\ \A j \in Booked(U) : U.slots[j] = U.points[j] /\ U.points[j] \in L
        /\ \A j \in Booked(U) : U.points[j] = T.points[j] /\ j \notin ids
    BY <1>1, <1>3, <1>4 DEF Booked
  <1>6. IF Booked(U) = {} THEN U.mirror = None ELSE U.mirror \in Booked(U)
    <2>1. CASE T.mirror \in ids
      BY <1>3, <1>4, <2>1 DEF NextMirrors
    <2>2. CASE T.mirror \notin ids
      BY <1>1, <1>3, <1>4, <2>2
    <2> QED
      BY <2>1, <2>2
  <1>7. U.held => U.pressed /\ U.mirror # None
    BY <1>1, <1>3
  <1>8. Sound(U, L)
    BY <1>3, <1>5, <1>6, <1>7 DEF Sound
  <1>9. /\ Exact(T) => Exact(U)
        /\ ButtonExact(T) /\ (T.mirror \in ids => ~T.held) => ButtonExact(U)
    <2>1. T.held \in BOOLEAN
      BY <1>1 DEF TouchStates
    <2>2. ASSUME T.mirror \in ids => ~T.held
          PROVE  U.held = T.held
      BY <1>3, <2>1, <2>2
    <2> QED
      BY <1>3, <2>2 DEF Exact, ButtonExact
  <1>10. DownOnSurface(T, None) \cup ids \subseteq DownOnSurface(U, None)
    BY <1>3 DEF DownOnSurface
  <1> QED
    BY <1>5, <1>8, <1>9, <1>10 DEF U

LEMMA UpsSound ==
  ASSUME NEW L, NEW T, Sound(T, L), NEW ids \in SUBSET Fingers,
         NEW next \in NextMirrors(T, ids)
  PROVE  LET U == Ups(T, ids, next)
         IN /\ Sound(U, L)
            /\ Exact(T) => Exact(U)
            /\ ButtonExact(T) => ButtonExact(U)
            /\ \A i \in Booked(U) : U.points[i] = T.points[i] /\ i \notin ids
  <1> DEFINE M == MirrorButton(T, FALSE)
             R == IF T.mirror \in ids THEN M ELSE T
             U == Unbook(SlotsUp(R, ids), ids, next)
  <1>1. R.mirror = T.mirror /\ R.slots = T.slots /\ R.points = T.points
        /\ Ups(T, ids, next) = Unbook(SlotsUp(R, ids), ids, next)
    BY MirrorButtonSound DEF Ups, SlotsUp, MirrorButton
  <1>2. /\ Sound(R, L) /\ (T.mirror \in ids => ~R.held)
        /\ ButtonExact(T) => ButtonExact(R)
    BY MirrorButtonSound
  <1>3. Exact(T) => Exact(R)
    BY <1>1 DEF Exact
  <1>4. next \in NextMirrors(R, ids)
    BY <1>1 DEF NextMirrors, Booked
  <1> HIDE DEF R
  <1>5. /\ Sound(U, L) /\ (Exact(R) => Exact(U))
        /\ ButtonExact(R) /\ (R.mirror \in ids => ~R.held) => ButtonExact(U)
        /\ \A i \in Booked(U) : U.points[i] = R.points[i] /\ i \notin ids
    BY <1>2, <1>4, UnbookSound
  <1> QED
    BY <1>1, <1>2, <1>3, <1>5

LEMMA BookCancelSound ==
  ASSUME NEW L, NEW T \in TouchStates
  PROVE  LET C == BookCancel(T)
         IN Sound(C, L) /\ Booked(C) = {} /\ C.held = FALSE /\ C.pressed = T.pressed
            /\ C.slots = T.slots /\ C.points = [i \in Fingers |-> None]
  BY DEF BookCancel, Sound, TouchStates, Booked

LEMMA CancelSound ==
  ASSUME NEW L, NEW K, NEW T, Sound(T, K)
  PROVE  LET C == Cancel(T)
         IN /\ Sound(C, L) /\ Booked(C) = {} /\ Exact(C)
            /\ ButtonExact(T) => ButtonExact(C)
  <1> DEFINE M == MirrorButton(T, FALSE)
             U == SlotsUp(M, Fingers)
  <1>1. /\ Sound(M, K) /\ M.held = FALSE /\ (ButtonExact(T) => ButtonExact(M))
    BY MirrorButtonSound
  <1> HIDE DEF M
  <1>2. /\ U \in TouchStates /\ U.slots = [i \in Fingers |-> None]
        /\ U.pressed = M.pressed
    BY <1>1 DEF Sound, SlotsUp, TouchStates
  <1> HIDE DEF U
  <1>3. Cancel(T) = BookCancel(U)
    BY DEF Cancel, U, M
  <1>4. /\ Sound(BookCancel(U), L) /\ Booked(BookCancel(U)) = {}
        /\ BookCancel(U).held = FALSE /\ BookCancel(U).pressed = U.pressed
        /\ BookCancel(U).slots = U.slots /\ BookCancel(U).points = [i \in Fingers |-> None]
    BY <1>2, BookCancelSound
  <1> QED
    BY <1>1, <1>2, <1>3, <1>4 DEF Exact, ButtonExact

LEMMA SetModeSound ==
  ASSUME NEW L, NEW T, Sound(T, L), NEW mode \in Modes
  PROVE  LET S == SetMode(T, mode)
         IN /\ Sound(S, L) /\ (Exact(T) => Exact(S))
            /\ ButtonExact(T) => ButtonExact(S)
  <1> DEFINE cap == CASE mode = "MultiTouch" -> MaxContacts
                      [] mode = "SingleTouch" -> 1
                      [] mode = "Touchpad" -> 0
             M == [T EXCEPT !.cap = cap, !.emulate = @ \/ mode = "SingleTouch"]
  <1>1. cap \in {0, 1, MaxContacts}
    BY DEF Modes
  <1> HIDE DEF cap
  <1>2. /\ M \in TouchStates /\ M.points = T.points /\ M.slots = T.slots
        /\ M.mirror = T.mirror /\ M.held = T.held /\ M.pressed = T.pressed
    BY <1>1 DEF Sound, TouchStates
  <1>3. SetMode(T, mode) \in {M, Cancel(M)}
    BY DEF SetMode, cap
  <1> HIDE DEF M
  <1>4. Sound(M, L) /\ (Exact(T) => Exact(M)) /\ (ButtonExact(T) => ButtonExact(M))
    BY <1>2 DEF Sound, Exact, ButtonExact, Booked
  <1>5. Sound(Cancel(M), L) /\ Exact(Cancel(M)) /\ (ButtonExact(M) => ButtonExact(Cancel(M)))
    BY <1>4, CancelSound
  <1> QED
    BY <1>3, <1>4, <1>5

\* A repick forgets the button without releasing it, so it is exact no longer.
LEMMA RepickOneSound ==
  ASSUME NEW L, L \subseteq Surfaces, NEW T, Sound(T, L), NEW i \in Fingers,
         NEW s \in L \cup {None}, NEW next \in NextMirrors(T, {i})
  PROVE  LET R == RepickOne(T, i, s, next)
         IN Sound(R, L) /\ (Exact(T) => Exact(R))
  <1> DEFINE U == Unbook(SlotsUp(T, {i}), {i}, next)
  <1>1. Sound(U, L) /\ (Exact(T) => Exact(U))
    BY UnbookSound
  <1>2. \/ RepickOne(T, i, s, next) = T
        \/ s \in L /\ RepickOne(T, i, s, next) = Down(U, i, s)
    BY DEF RepickOne
  <1> HIDE DEF U
  <1>3. ASSUME s \in L
        PROVE  Sound(Down(U, i, s), L) /\ (Exact(U) => Exact(Down(U, i, s)))
    BY <1>1, <1>3, DownSound
  <1> QED
    BY <1>1, <1>2, <1>3

-----------------------------------------------------------------------------
\* Which contacts are booked

LEMMA DownBooks ==
  ASSUME NEW T \in TouchStates, NEW i \in Fingers, NEW s
  PROVE  Booked(Down(T, i, s)) \subseteq Booked(T) \cup {i}
  <1> DEFINE B == [BookDown(T, i, s) EXCEPT !.slots[i] = s]
             M == MirrorButton(B, TRUE)
  <1>1. Down(T, i, s) \in {T, B, M}
    BY DEF Down
  <1>2. B.points = [T.points EXCEPT ![i] = s] /\ M.points = B.points
    BY DEF BookDown, MirrorButton, TouchStates
  <1> HIDE DEF B, M
  <1> QED
    BY <1>1, <1>2 DEF Booked, TouchStates

LEMMA UpsUnbook ==
  ASSUME NEW L, NEW T, Sound(T, L), NEW ids \in SUBSET Fingers,
         NEW next \in NextMirrors(T, ids)
  PROVE  Booked(Ups(T, ids, next)) \subseteq Booked(T) \ ids
  BY UpsSound DEF Booked

LEMMA ModeBooks ==
  ASSUME NEW L, NEW T, Sound(T, L), NEW mode \in Modes
  PROVE  Booked(SetMode(T, mode)) \subseteq Booked(T)
  <1> DEFINE cap == CASE mode = "MultiTouch" -> MaxContacts
                      [] mode = "SingleTouch" -> 1
                      [] mode = "Touchpad" -> 0
             M == [T EXCEPT !.cap = cap, !.emulate = @ \/ mode = "SingleTouch"]
  <1>1. M.points = T.points
    BY DEF Sound, TouchStates
  <1>2. Cancel(M).points = [i \in Fingers |-> None]
    BY DEF Cancel, BookCancel, SlotsUp, MirrorButton, Sound, TouchStates
  <1>3. SetMode(T, mode) \in {M, Cancel(M)}
    BY DEF SetMode
  <1> HIDE DEF M
  <1> QED
    BY <1>1, <1>2, <1>3 DEF Booked

LEMMA RepickBooks ==
  ASSUME NEW L, NEW T, Sound(T, L), NEW i \in Fingers, NEW s,
         NEW next \in NextMirrors(T, {i})
  PROVE  Booked(RepickOne(T, i, s, next)) \subseteq Booked(T)
  <1> DEFINE U == Unbook(SlotsUp(T, {i}), {i}, next)
  <1>1. U \in TouchStates /\ Booked(U) \subseteq Booked(T)
    <2>1. Sound(U, L)
      BY UnbookSound
    <2>2. U.points = [j \in Fingers |-> IF j \in {i} THEN None ELSE T.points[j]]
      BY DEF Unbook, SlotsUp, Sound, TouchStates
    <2> HIDE DEF U
    <2> QED
      BY <2>1, <2>2 DEF Sound, Booked
  <1> HIDE DEF U
  <1>2. CASE RepickOne(T, i, s, next) = T
    BY <1>2
  <1>3. CASE i \in Booked(T) /\ RepickOne(T, i, s, next) = Down(U, i, s)
    BY <1>1, <1>3, DownBooks
  <1> QED
    BY <1>2, <1>3 DEF RepickOne, U

-----------------------------------------------------------------------------
\* The specification

\* The inductive invariant.  Only a headless host repicks, which is why a
\* native host's button is exact.
TouchInv ==
  /\ live \subseteq Surfaces /\ clients \subseteq Clients /\ fingers \subseteq Fingers
  /\ headless \in BOOLEAN /\ repicking \subseteq Fingers
  /\ Sound(touch, live)
  /\ Booked(touch) \subseteq fingers
  /\ repicking # {} => headless
  /\ clients = Clients => Exact(touch)
  /\ ~headless /\ clients = Clients => ButtonExact(touch)

LEMMA TouchInvInit ==
  TouchInit => TouchInv
  <1>1. Booked(NoTouch) = {}
    BY DEF Booked, NoTouch
  <1> QED
    BY <1>1, NoTouchSound DEF TouchInit, TouchInv

LEMMA RemoveSurfaceInv ==
  ASSUME TouchInv, NEW s \in Surfaces, RemoveSurface(s)
  PROVE  TouchInv'
  <1> DEFINE ids == DownOnSurface(touch, s)
  <1>1. /\ s \in live /\ live' = live \ {s} /\ repicking' = ToRepick(touch')
        /\ UNCHANGED <<clients, fingers, headless>>
    BY DEF RemoveSurface
  <1>2. PICK next \in NextMirrors(touch, ids) : touch' = Ups(touch, ids, next)
    BY DEF RemoveSurface
  <1>3. ids \subseteq Fingers /\ Sound(touch, live)
    BY DEF DownOnSurface, TouchInv
  <1>4. /\ Sound(touch', live)
        /\ Exact(touch) => Exact(touch')
        /\ ButtonExact(touch) => ButtonExact(touch')
        /\ \A i \in Booked(touch') : touch'.points[i] = touch.points[i] /\ i \notin ids
    BY <1>2, <1>3, UpsSound
  <1>5. Sound(touch', live')
    BY <1>1, <1>4 DEF Sound, DownOnSurface, Booked
  <1>6. repicking' \subseteq Fingers /\ (repicking' # {} => headless)
    BY <1>1 DEF ToRepick, Booked
  <1>7. Booked(touch') \subseteq fingers'
    BY <1>1, <1>2, <1>3, UpsUnbook DEF TouchInv
  <1> QED
    BY <1>1, <1>4, <1>5, <1>6, <1>7 DEF TouchInv

LEMMA ClientDisconnectedInv ==
  ASSUME TouchInv, NEW c \in Clients, ClientDisconnected(c)
  PROVE  TouchInv'
  <1>1. /\ c \in clients /\ clients' = clients \ {c} /\ live' \subseteq live
        /\ touch' = BookCancel(touch) /\ UNCHANGED <<fingers, headless, repicking>>
    BY DEF ClientDisconnected
  <1>2. Sound(touch', live')
    BY <1>1, BookCancelSound DEF TouchInv, Sound
  <1>3. clients' # Clients
    BY <1>1
  <1>4. Booked(touch') = {}
    BY <1>1, BookCancelSound DEF TouchInv, Sound
  <1> QED
    BY <1>1, <1>2, <1>3, <1>4 DEF TouchInv

LEMMA TouchInvNext ==
  ASSUME TouchInv, [TouchNext]_touchVars
  PROVE  TouchInv'
  <1>0. Sound(touch, live) /\ live \subseteq Surfaces
    BY DEF TouchInv
  <1>1. ASSUME NEW i \in Fingers, NEW s \in Surfaces \cup {None}, Repick(i, s)
        PROVE  TouchInv'
    <2>1. /\ i \in repicking /\ s \in live \cup {None} /\ repicking' = repicking \ {i}
          /\ UNCHANGED <<live, clients, fingers, headless>>
      BY <1>1 DEF Repick
    <2>2. PICK next \in NextMirrors(touch, {i}) : touch' = RepickOne(touch, i, s, next)
      BY <1>1 DEF Repick
    <2>3. Sound(touch', live) /\ (Exact(touch) => Exact(touch'))
      BY <1>0, <2>1, <2>2, RepickOneSound
    <2>4. Booked(touch') \subseteq fingers'
      BY <1>0, <2>1, <2>2, RepickBooks DEF TouchInv
    <2> QED
      BY <2>1, <2>3, <2>4 DEF TouchInv
  <1>2. ASSUME NEW i \in Fingers, NEW s \in Surfaces, FingerDown(i, s)
        PROVE  TouchInv'
    <2>1. /\ s \in live /\ fingers' = fingers \cup {i} /\ touch' = Down(touch, i, s)
          /\ UNCHANGED <<live, clients, headless, repicking>>
      BY <1>2 DEF FingerDown
    <2>2. /\ Sound(touch', live)
          /\ Exact(touch) => Exact(touch')
          /\ ButtonExact(touch) => ButtonExact(touch')
      BY <1>0, <2>1, DownSound
    <2>3. Booked(touch') \subseteq fingers'
      BY <1>0, <2>1, DownBooks DEF TouchInv, Sound
    <2> QED
      BY <2>1, <2>2, <2>3 DEF TouchInv
  <1>3. ASSUME NEW i \in Fingers, FingerUp(i)
        PROVE  TouchInv'
    <2>1. fingers' = fingers \ {i} /\ UNCHANGED <<live, clients, headless, repicking>>
      BY <1>3 DEF FingerUp
    <2>2. /\ Sound(touch', live)
          /\ Exact(touch) => Exact(touch')
          /\ ButtonExact(touch) => ButtonExact(touch')
          /\ Booked(touch') \subseteq Booked(touch) \ {i}
      <3>1. CASE i \in Booked(touch)
        <4>1. PICK next \in NextMirrors(touch, {i}) : touch' = Ups(touch, {i}, next)
          BY <1>3, <3>1 DEF FingerUp
        <4>2. {i} \in SUBSET Fingers
          OBVIOUS
        <4>3. Booked(touch') \subseteq Booked(touch) \ {i}
          BY <1>0, <4>1, <4>2, UpsUnbook
        <4> QED
          BY <1>0, <4>1, <4>2, <4>3, UpsSound
      <3>2. CASE i \notin Booked(touch)
        BY <1>0, <1>3, <3>2 DEF FingerUp
      <3> QED
        BY <3>1, <3>2
    <2> QED
      BY <2>1, <2>2 DEF TouchInv
  <1>4. CASE HostCancel
    <2>1. /\ fingers' = {} /\ touch' = Cancel(touch)
          /\ UNCHANGED <<live, clients, headless, repicking>>
      BY <1>4 DEF HostCancel
    <2>2. /\ Sound(touch', live) /\ Exact(touch') /\ Booked(touch') = {}
          /\ ButtonExact(touch) => ButtonExact(touch')
      BY <1>0, <2>1, CancelSound
    <2> QED
      BY <2>1, <2>2 DEF TouchInv
  <1>5. ASSUME NEW mode \in Modes, SetHostSeatMode(mode)
        PROVE  TouchInv'
    <2>1. /\ touch' = SetMode(touch, mode)
          /\ UNCHANGED <<live, clients, fingers, headless, repicking>>
      BY <1>5 DEF SetHostSeatMode
    <2>2. /\ Sound(touch', live)
          /\ Exact(touch) => Exact(touch')
          /\ ButtonExact(touch) => ButtonExact(touch')
      BY <1>0, <2>1, SetModeSound
    <2>3. Booked(touch') \subseteq fingers'
      BY <1>0, <2>1, ModeBooks DEF TouchInv
    <2> QED
      BY <2>1, <2>2, <2>3 DEF TouchInv
  <1>6. ASSUME NEW on \in BOOLEAN, SetTouchPointerEmulation(on)
        PROVE  TouchInv'
    <2>1. /\ touch' = [touch EXCEPT !.emulate = on]
          /\ UNCHANGED <<live, clients, fingers, headless, repicking>>
      BY <1>6 DEF SetTouchPointerEmulation
    <2>2. /\ touch' \in TouchStates /\ touch'.points = touch.points
          /\ touch'.slots = touch.slots /\ touch'.mirror = touch.mirror
          /\ touch'.held = touch.held /\ touch'.pressed = touch.pressed
      BY <1>0, <2>1 DEF Sound, TouchStates
    <2>3. /\ Sound(touch', live)
          /\ Exact(touch) => Exact(touch')
          /\ ButtonExact(touch) => ButtonExact(touch')
          /\ Booked(touch') = Booked(touch)
      BY <1>0, <2>2 DEF Sound, Exact, ButtonExact, Booked
    <2> QED
      BY <2>1, <2>3 DEF TouchInv
  <1>7. CASE SceneChanged
    BY <1>7 DEF SceneChanged, TouchInv, ToRepick, Booked
  <1>8. CASE UNCHANGED touchVars
    BY <1>8 DEF touchVars, TouchInv
  <1> QED
    BY <1>1, <1>2, <1>3, <1>4, <1>5, <1>6, <1>7, <1>8, RemoveSurfaceInv,
       ClientDisconnectedInv DEF TouchNext

THEOREM TouchInvariant == TouchSpec => []TouchInv
  BY TouchInvInit, TouchInvNext, PTL DEF TouchSpec

\* Touch bookkeeping stays in its types, for any number of contacts and any cap.
THEOREM TouchTypesCorrect == TouchSpec => []TouchTypeOK
  <1>1. TouchInv => TouchTypeOK
    BY DEF TouchInv, TouchTypeOK, Sound
  <1> QED
    BY <1>1, TouchInvariant, PTL

\* A booked contact is a finger on the screen and down at its client on a surface
\* that exists, and nothing else is down until a client has disconnected.
THEOREM ContactsDelivered == TouchSpec => []ContactDelivered
  <1>1. TouchInv => ContactDelivered
    BY DEF TouchInv, ContactDelivered, Sound, Exact
  <1> QED
    BY <1>1, TouchInvariant, PTL

\* The contact that drives the pointer is one of those booked, as long as there
\* are any.
THEOREM MirrorIsBooked == TouchSpec => []MirrorIsContact
  <1>1. TouchInv => MirrorIsContact
    BY DEF TouchInv, MirrorIsContact, Sound
  <1> QED
    BY <1>1, TouchInvariant, PTL

\* The mirrored button is never left pressed by an up, a cancel, a mode or a
\* surface that goes, on a host that does not repick.
THEOREM ButtonReleased == TouchSpec => []ButtonFollowsMirror
  <1>1. TouchInv => ButtonFollowsMirror
    BY DEF TouchInv, ButtonFollowsMirror, Sound, ButtonExact
  <1> QED
    BY <1>1, TouchInvariant, PTL

=============================================================================
