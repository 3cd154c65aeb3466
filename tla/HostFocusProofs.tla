-------------------------- MODULE HostFocusProofs --------------------------
(***************************************************************************)
(* Proofs about HostFocus, for any clients, windows, popups and layer      *)
(* surfaces: types, that the keyboard is on a surface that exists and is   *)
(* where the keys go, that the window that has it is activated, and that a *)
(* grab ends with the focus of its window.                                 *)
(***************************************************************************)
EXTENDS HostFocus, SequenceTheorems, WellFoundedInduction, TLAPS

-----------------------------------------------------------------------------
\* Sequences: what the first or the last element with a property is

Below == {ss \in Nat \X Nat : ss[1] < ss[2]}

LEMMA BelowWellFounded == IsWellFoundedOn(Below, Nat)
  BY NatLessThanWellFounded DEF OpToRel, Below

LEMMA HasLeast ==
  ASSUME NEW I \in SUBSET Nat, I # {}
  PROVE  \E i \in I : \A j \in I : i <= j
  <1>1. PICK i \in I : \A j \in I : <<j, i>> \notin Below
    <2>1. I \subseteq Nat /\ I # {}
      OBVIOUS
    <2> QED
      BY <2>1, BelowWellFounded, WFMin
  <1>2. \A j \in I : ~(j < i)
    BY <1>1 DEF Below
  <1> QED
    BY <1>2

LEMMA MinMax ==
  ASSUME NEW n \in Nat, NEW I \in SUBSET (1..n), I # {}
  PROVE  /\ Min(I) \in I /\ \A j \in I : Min(I) <= j
         /\ Max(I) \in I /\ \A j \in I : j <= Max(I)
  <1>1. \E i \in I : \A j \in I : i <= j
    <2>1. I \in SUBSET Nat
      OBVIOUS
    <2> QED
      BY <2>1, HasLeast
  <1>2. \E i \in I : \A j \in I : j <= i
    <2> DEFINE J == {m \in Nat : \A j \in I : j <= m}
    <2>1. n \in J /\ J \in SUBSET Nat
      OBVIOUS
    <2>2. PICK m \in J : \A k \in J : m <= k
      BY <2>1, HasLeast
    <2>3. m \in I
      <3>1. SUFFICES ASSUME m \notin I PROVE FALSE
        OBVIOUS
      <3>2. PICK i \in I : TRUE
        OBVIOUS
      <3>3. m - 1 \in J
        BY <2>2, <3>1, <3>2
      <3> QED
        BY <2>2, <3>3
    <2> QED
      BY <2>2, <2>3
  <1> QED
    BY <1>1, <1>2 DEF Min, Max

LEMMA RemoveFirstType ==
  ASSUME NEW S, NEW s \in Seq(S), NEW e
  PROVE  RemoveFirst(s, e) \in Seq(S)
  <1> DEFINE I == {i \in 1..Len(s) : s[i] = e}
  <1>1. CASE I = {}
    BY <1>1 DEF RemoveFirst
  <1>2. CASE I # {}
    <2>1. Min(I) \in I
      BY <1>2, MinMax, LenProperties
    <2>2. RemoveFirst(s, e) = SubSeq(s, 1, Min(I) - 1) \o SubSeq(s, Min(I) + 1, Len(s))
      BY <1>2 DEF RemoveFirst, SelectInSeq, RemoveAt
    <2> HIDE DEF I
    <2>3. Min(I) \in 1..Len(s)
      BY <2>1 DEF I
    <2>4. SubSeq(s, 1, Min(I) - 1) \in Seq(S) /\ SubSeq(s, Min(I) + 1, Len(s)) \in Seq(S)
      BY <2>3, SubSeqProperties, LenProperties
    <2> QED
      BY <2>2, <2>4, ConcatProperties
  <1> QED
    BY <1>1, <1>2

-----------------------------------------------------------------------------
\* The parts of the invariant of a seat

\* Windows, popups and mapped layer surfaces have surfaces, and the client of the
\* last is there; a window's id is not
\* used again, not even by the parent of a popup that outlives it.
Consistent(F) ==
  /\ F \in Seats
  /\ F.windows \subseteq F.surfaces /\ F.popups \subseteq F.surfaces
  /\ \A l \in Layers :
       F.layers[l] # "unmapped" => l \in F.surfaces /\ Owner[l] \in F.clients
  /\ F.surfaces \cap Toplevels \subseteq F.born
  /\ \A p \in F.popups : Top[p] \in F.born \cup {None}

\* What may be given the keyboard
Target(F, s) ==
  s = None \/ s \in F.windows \cup F.popups \/ TakesClick(F, s)

\* The keyboard is on a surface that exists, if on a popup or layer surface then
\* on one that may have it.
KbOK(F) ==
  /\ F.kb \in F.surfaces \cup {None}
  /\ F.kb \in Popups => F.kb \in F.popups
  /\ F.kb \in Layers => TakesClick(F, F.kb)

\* Keys go there.  If the core has no keyboard focus Smithay's may be the surface
\* of a toplevel that is gone, or of a client that is.
KeysOK(F) ==
  IF F.kb = None
    THEN /\ F.keys \notin F.surfaces
         /\ \/ F.keys \in F.born \cup {None}
            \/ F.keys \in Surfaces /\ Owner[F.keys] \notin F.clients
    ELSE F.keys = F.kb

ActiveOK(F) ==
  RootWindow(F, F.kb) # None => RootWindow(F, F.kb) \in F.activated

SeatInv(F, h) == Consistent(F) /\ KbOK(F) /\ KeysOK(F) /\ (h => ActiveOK(F))

\* Seats that differ only in who is focused, in the history, in the grabs, or in
\* what is minimized
SameKeyboard(F, G) ==
  /\ G.clients = F.clients /\ G.windows = F.windows /\ G.popups = F.popups
  /\ G.surfaces = F.surfaces /\ G.born = F.born /\ G.layers = F.layers
  /\ G.kb = F.kb /\ G.keys = F.keys /\ G.activated = F.activated

LEMMA SameInv ==
  ASSUME NEW F, NEW G \in Seats, SameKeyboard(F, G)
  PROVE  /\ Consistent(F) => Consistent(G)
         /\ KbOK(F) => KbOK(G)
         /\ KeysOK(F) => KeysOK(G)
         /\ ActiveOK(F) => ActiveOK(G)
         /\ \A s : Target(F, s) <=> Target(G, s)
  BY DEF SameKeyboard, Consistent, KbOK, KeysOK, ActiveOK, Target, TakesClick, RootWindow

LEMMA RootOfNone ==
  ASSUME NEW F \in Seats
  PROVE  RootWindow(F, None) = None
  BY FocusAssumption DEF RootWindow, Seats, Surfaces, Roles

LEMMA RootType ==
  ASSUME NEW F \in Seats, NEW s
  PROVE  RootWindow(F, s) \in F.windows \cup {None}
  BY DEF RootWindow

LEMMA RootOfWindow ==
  ASSUME NEW F, NEW w \in F.windows
  PROVE  RootWindow(F, w) = w
  BY DEF RootWindow

\* With fewer windows and popups, a root is what it was or nothing.
LEMMA RootShrinks ==
  ASSUME NEW F \in Seats, NEW G \in Seats, G.windows \subseteq F.windows,
         G.popups \subseteq F.popups, NEW s
  PROVE  RootWindow(G, s) \in {RootWindow(F, s), None}
  BY FocusAssumption DEF RootWindow, Seats

-----------------------------------------------------------------------------
\* Moving the keyboard

LEMMA SetKbInv ==
  ASSUME NEW F, NEW h, Consistent(F), KeysOK(F), h => ActiveOK(F),
         NEW s, Target(F, s)
  PROVE  LET R == SetKb(F, s)
         IN /\ SeatInv(R, h) /\ R.kb = s
            /\ R.windows = F.windows /\ R.popups = F.popups /\ R.clients = F.clients
            /\ R.surfaces = F.surfaces /\ R.born = F.born /\ R.layers = F.layers
            /\ R.focused = F.focused /\ R.history = F.history /\ R.stack = F.stack
  <1> DEFINE old == RootWindow(F, F.kb)
             new == RootWindow(F, s)
             R == [F EXCEPT !.kb = s,
                    !.keys = IF s \in F.surfaces THEN s ELSE None,
                    !.activated = IF old = new THEN @
                                  ELSE (@ \ {old}) \cup ({new} \ {None})]
  <1>0. F \in Seats /\ s \in F.surfaces \cup {None} /\ None \notin F.surfaces
        /\ (s \in Popups => s \in F.popups) /\ (s \in Layers => TakesClick(F, s))
    BY FocusAssumption DEF Consistent, Target, TakesClick, Seats, Surfaces, Roles
  <1>1. CASE F.kb = s
    <2>1. SetKb(F, s) = F
      BY <1>1 DEF SetKb
    <2> QED
      BY <1>0, <1>1, <2>1 DEF SeatInv, KbOK
  <1>2. CASE F.kb # s
    <2>1. SetKb(F, s) = R
      BY <1>2 DEF SetKb
    <2>2. new \in F.windows \cup {None} /\ F.windows \subseteq Toplevels
      BY <1>0, RootType DEF Seats
    <2> HIDE DEF old, new
    <2>3. /\ R \in Seats /\ R.kb = s
          /\ R.keys = (IF s \in F.surfaces THEN s ELSE None)
          /\ R.windows = F.windows /\ R.popups = F.popups /\ R.clients = F.clients
          /\ R.surfaces = F.surfaces /\ R.born = F.born /\ R.layers = F.layers
          /\ R.focused = F.focused /\ R.history = F.history /\ R.stack = F.stack
          /\ R.activated = (IF old = new THEN F.activated
                            ELSE (F.activated \ {old}) \cup ({new} \ {None}))
      BY <1>0, <2>2 DEF Seats, Surfaces
    <2> HIDE DEF R
    <2>4. Consistent(R)
      BY <2>3 DEF Consistent
    <2>5. KbOK(R) /\ KeysOK(R)
      BY <1>0, <2>3 DEF KbOK, KeysOK, TakesClick
    <2>6. RootWindow(R, R.kb) = new
      BY <2>3 DEF RootWindow, new
    <2>7. h => ActiveOK(R)
      <3>1. CASE old = new
        BY <2>3, <2>6, <3>1 DEF ActiveOK, old
      <3>2. CASE old # new
        BY <2>3, <2>6, <3>2 DEF ActiveOK
      <3> QED
        BY <3>1, <3>2
    <2> QED
      BY <2>1, <2>3, <2>4, <2>5, <2>7 DEF SeatInv
  <1> QED
    BY <1>1, <1>2

LEMMA RememberType ==
  ASSUME NEW F \in Seats, NEW w
  PROVE  Remember(F, w) \in Seq(Roles)
  <1> DEFINE all == <<F.focused>> \o RemoveFirst(F.history, F.focused)
             n == IF Len(all) < HistoryLimit THEN Len(all) ELSE HistoryLimit
  <1>1. CASE F.focused \in {None, w}
    BY <1>1 DEF Remember, Seats
  <1>2. CASE F.focused \notin {None, w}
    <2>1. F.focused \in Roles /\ F.history \in Seq(Roles)
      BY <1>2 DEF Seats
    <2>2. RemoveFirst(F.history, F.focused) \in Seq(Roles) /\ <<F.focused>> \in Seq(Roles)
      BY <2>1, RemoveFirstType
    <2>3. all \in Seq(Roles)
      BY <2>2, ConcatProperties
    <2>4. Remember(F, w) = SubSeq(all, 1, n)
      BY <1>2 DEF Remember
    <2> HIDE DEF all
    <2>5. n \in Int /\ n <= Len(all) /\ \A i \in 1..n : all[i] \in Roles
      BY <2>3, FocusAssumption, LenProperties, ElementOfSeq
    <2> QED
      BY <2>4, <2>5, SubSeqProperties
  <1> QED
    BY <1>1, <1>2

LEMMA BookFocusSame ==
  ASSUME NEW F \in Seats, NEW w \in Roles \cup {None}
  PROVE  LET B == BookFocus(F, w)
         IN B \in Seats /\ SameKeyboard(F, B) /\ B.focused = w /\ B.stack = F.stack
  <1> DEFINE r == Remember(F, w)
             B == [F EXCEPT !.history = r, !.focused = w]
  <1>1. r \in Seq(Roles)
    BY RememberType
  <1> HIDE DEF r
  <1>2. B \in Seats
    BY <1>1 DEF Seats
  <1>3. SameKeyboard(F, B) /\ B.focused = w /\ B.stack = F.stack
    BY DEF Seats, SameKeyboard
  <1>4. BookFocus(F, w) = B
    BY DEF BookFocus, r
  <1> HIDE DEF B
  <1> QED
    BY <1>2, <1>3, <1>4

LEMMA DismissOnlySame ==
  ASSUME NEW F \in Seats
  PROVE  LET D == DismissOnly(F)
         IN D \in Seats /\ SameKeyboard(F, D) /\ D.focused = F.focused
            /\ D.stack = <<>> /\ D.history = F.history
  <1> DEFINE D == [F EXCEPT !.stack = <<>>]
  <1>1. <<>> \in Seq(Popups)
    BY EmptySeq
  <1>2. D \in Seats
    BY <1>1 DEF Seats
  <1>3. SameKeyboard(F, D) /\ D.focused = F.focused /\ D.stack = <<>> /\ D.history = F.history
    BY DEF Seats, SameKeyboard
  <1>4. DismissOnly(F) = D
    BY DEF DismissOnly
  <1> HIDE DEF D
  <1> QED
    BY <1>2, <1>3, <1>4

LEMMA ExclusiveTarget ==
  ASSUME NEW F, NEW l \in Exclusive(F)
  PROVE  Target(F, l) /\ l \in Layers
  BY FocusAssumption DEF Exclusive, Target, TakesClick

LEMMA FocusedTarget ==
  ASSUME NEW F
  PROVE  Target(F, IF F.focused \in F.windows THEN F.focused ELSE None)
  BY DEF Target

\* Focus of a window, a popup or nothing
LEMMA SetFocusedInv ==
  ASSUME NEW F, NEW h, SeatInv(F, h), NEW w \in Roles \cup {None}
  PROVE  LET R == SetFocused(F, w)
         IN /\ SeatInv(R, h)
            /\ R.windows = F.windows /\ R.popups = F.popups /\ R.clients = F.clients
            /\ R.focused = w
            /\ R.stack \in {F.stack, <<>>} /\ (EndsGrab(F, w) => R.stack = <<>>)
            /\ w \in F.windows \cup {None} => R.kb \in {w} \cup Layers
            /\ w \notin F.windows \cup {None} => R.kb = F.kb
            /\ R.surfaces = F.surfaces
  <1> DEFINE D == IF EndsGrab(F, w) THEN DismissOnly(F) ELSE F
             B == BookFocus(D, w)
             t == IF Exclusive(B) # {} THEN CHOOSE l \in Exclusive(B) : TRUE ELSE w
  <1>0. SetFocused(F, w) = (IF w # None /\ w \notin F.windows THEN B ELSE SetKb(B, t))
    BY DEF SetFocused
  <1>1. D \in Seats /\ SameKeyboard(F, D) /\ D.stack \in {F.stack, <<>>}
        /\ (EndsGrab(F, w) => D.stack = <<>>)
    BY DismissOnlySame DEF SeatInv, Consistent, SameKeyboard
  <1> HIDE DEF D
  <1>2. B \in Seats /\ SameKeyboard(D, B) /\ B.focused = w /\ B.stack = D.stack
    BY <1>1, BookFocusSame
  <1> HIDE DEF B
  <1>3. SameKeyboard(F, B)
    BY <1>1, <1>2 DEF SameKeyboard
  <1>4. Consistent(B) /\ KbOK(B) /\ KeysOK(B) /\ (h => ActiveOK(B))
    BY <1>2, <1>3, SameInv DEF SeatInv
  <1>5. CASE w # None /\ w \notin F.windows
    BY <1>0, <1>1, <1>2, <1>3, <1>4, <1>5 DEF SeatInv, SameKeyboard
  <1>6. CASE w \in F.windows \cup {None}
    <2>1. SetFocused(F, w) = SetKb(B, t)
      BY <1>0, <1>6
    <2>2. Target(B, t) /\ t \in {w} \cup Layers
      <3>1. CASE Exclusive(B) # {}
        BY <3>1, ExclusiveTarget
      <3>2. CASE Exclusive(B) = {}
        BY <1>3, <1>6, <3>2 DEF Target, SameKeyboard
      <3> QED
        BY <3>1, <3>2
    <2> HIDE DEF t
    <2>3. /\ SeatInv(SetKb(B, t), h) /\ SetKb(B, t).kb = t
          /\ SetKb(B, t).windows = B.windows /\ SetKb(B, t).popups = B.popups
          /\ SetKb(B, t).clients = B.clients /\ SetKb(B, t).stack = B.stack
          /\ SetKb(B, t).focused = B.focused /\ SetKb(B, t).surfaces = B.surfaces
      BY <1>4, <2>2, SetKbInv
    <2> QED
      BY <1>1, <1>2, <1>3, <1>6, <2>1, <2>2, <2>3 DEF SameKeyboard
  <1> QED
    BY <1>5, <1>6

-----------------------------------------------------------------------------
\* Popup grabs

\* The topmost grabbing popup that exists, if there is one
LEMMA TopGrabType ==
  ASSUME NEW F \in Seats
  PROVE  /\ TopGrab(F) \in F.popups \cup {None}
         /\ TopGrab(F) = None => Range(F.stack) \cap F.popups = {}
  <1> DEFINE I == {i \in 1..Len(F.stack) : F.stack[i] \in F.popups}
  <1>1. F.stack \in Seq(Popups) /\ Len(F.stack) \in Nat /\ DOMAIN F.stack = 1..Len(F.stack)
    BY LenProperties DEF Seats
  <1>2. TopGrab(F) = IF (IF I # {} THEN Max(I) ELSE 0) = 0 THEN None
                     ELSE F.stack[IF I # {} THEN Max(I) ELSE 0]
    BY DEF TopGrab, SelectLastInSeq
  <1>3. CASE I = {}
    BY <1>1, <1>2, <1>3 DEF Range
  <1>4. CASE I # {}
    <2>1. Max(I) \in I
      BY <1>1, <1>4, MinMax
    <2>2. F.stack[Max(I)] \in F.popups /\ Max(I) # 0
      BY <2>1
    <2> HIDE DEF I
    <2>3. TopGrab(F) = F.stack[Max(I)]
      BY <1>2, <1>4, <2>2
    <2>4. None \notin F.popups
      BY FocusAssumption DEF Seats, Surfaces, Roles
    <2> QED
      BY <2>2, <2>3, <2>4
  <1> QED
    BY <1>3, <1>4

LEMMA RefocusInv ==
  ASSUME NEW F, NEW h, Consistent(F), KeysOK(F), h => ActiveOK(F)
  PROVE  LET R == Refocus(F)
         IN /\ SeatInv(R, h)
            /\ R.windows = F.windows /\ R.popups = F.popups /\ R.clients = F.clients
            /\ R.stack = F.stack
            /\ R.kb \in Toplevels => TopGrab(F) = None
  <1> DEFINE t == IF TopGrab(F) # None THEN TopGrab(F)
                  ELSE IF F.focused \in F.windows THEN F.focused ELSE None
  <1>1. Target(F, t) /\ (t \in Toplevels => TopGrab(F) = None)
    BY TopGrabType, FocusAssumption DEF Consistent, Target, Seats
  <1>2. Refocus(F) = SetKb(F, t)
    BY DEF Refocus
  <1> HIDE DEF t
  <1> QED
    BY <1>1, <1>2, SetKbInv

LEMMA EndGrabInv ==
  ASSUME NEW F, NEW h, Consistent(F), KeysOK(F), h => ActiveOK(F),
         NEW p \in Popups, p \notin F.popups,
         F.kb \in F.surfaces \cup {None},
         F.kb \in Popups => F.kb \in F.popups \cup {p},
         F.kb \in Layers => TakesClick(F, F.kb)
  PROVE  LET R == EndGrab(F, p)
         IN /\ SeatInv(R, h)
            /\ R.windows = F.windows /\ R.popups = F.popups /\ R.clients = F.clients
            /\ R.stack = RemoveFirst(F.stack, p)
            /\ R.kb \in Toplevels /\ F.kb \notin Toplevels =>
                 Range(R.stack) \cap R.popups = {}
  <1> DEFINE r == RemoveFirst(F.stack, p)
             G == [F EXCEPT !.stack = r]
  <1>1. r \in Seq(Popups)
    BY RemoveFirstType DEF Consistent, Seats
  <1>2. EndGrab(F, p) = IF G.kb = p THEN Refocus(G) ELSE G
    BY DEF EndGrab
  <1> HIDE DEF r
  <1>3. G \in Seats /\ SameKeyboard(F, G) /\ G.stack = r
    BY <1>1 DEF Consistent, Seats, SameKeyboard
  <1> HIDE DEF G
  <1>4. Consistent(G) /\ KeysOK(G) /\ (h => ActiveOK(G)) /\ G.kb = F.kb
    BY <1>3, SameInv DEF SameKeyboard
  <1>5. CASE F.kb = p
    <2>1. EndGrab(F, p) = Refocus(G)
      BY <1>2, <1>4, <1>5
    <2>2. /\ SeatInv(Refocus(G), h) /\ Refocus(G).windows = G.windows
          /\ Refocus(G).popups = G.popups /\ Refocus(G).clients = G.clients
          /\ Refocus(G).stack = G.stack
          /\ Refocus(G).kb \in Toplevels => TopGrab(G) = None
      BY <1>4, RefocusInv
    <2> QED
      BY <1>3, <2>1, <2>2, TopGrabType DEF SameKeyboard, r
  <1>6. CASE F.kb # p
    <2>1. EndGrab(F, p) = G
      BY <1>2, <1>4, <1>6
    <2>2. KbOK(G)
      BY <1>3, <1>6 DEF KbOK, SameKeyboard, TakesClick
    <2> QED
      BY <1>3, <1>4, <2>1, <2>2 DEF SeatInv, SameKeyboard, r
  <1> QED
    BY <1>5, <1>6

LEMMA DismissInv ==
  ASSUME NEW F, NEW h, SeatInv(F, h)
  PROVE  LET R == Dismiss(F)
         IN /\ SeatInv(R, h) /\ R.stack = <<>>
            /\ R.windows = F.windows /\ R.popups = F.popups /\ R.clients = F.clients
  <1> DEFINE D == DismissOnly(F)
  <1>1. D \in Seats /\ SameKeyboard(F, D) /\ D.stack = <<>>
    BY DismissOnlySame DEF SeatInv, Consistent
  <1>2. Dismiss(F) = IF F.kb \in F.popups THEN Refocus(D) ELSE D
    BY DEF Dismiss
  <1> HIDE DEF D
  <1>3. Consistent(D) /\ KeysOK(D) /\ KbOK(D) /\ (h => ActiveOK(D))
    BY <1>1, SameInv DEF SeatInv
  <1>4. /\ SeatInv(Refocus(D), h) /\ Refocus(D).stack = D.stack
        /\ Refocus(D).windows = D.windows /\ Refocus(D).popups = D.popups
        /\ Refocus(D).clients = D.clients
    BY <1>3, RefocusInv
  <1> QED
    BY <1>1, <1>2, <1>3, <1>4 DEF SeatInv, SameKeyboard

LEMMA BeginGrabInv ==
  ASSUME NEW F, NEW h, SeatInv(F, h), NEW p \in F.popups
  PROVE  LET R == BeginGrab(F, p)
         IN /\ SeatInv(R, h) /\ R.kb = p
            /\ R.windows = F.windows /\ R.popups = F.popups /\ R.clients = F.clients
            /\ R.stack = IF p \in Range(F.stack) THEN F.stack ELSE Append(F.stack, p)
  <1> DEFINE r == IF p \in Range(F.stack) THEN F.stack ELSE Append(F.stack, p)
             G == [F EXCEPT !.stack = r]
  <1>1. r \in Seq(Popups)
    BY AppendProperties DEF SeatInv, Consistent, Seats
  <1>2. BeginGrab(F, p) = SetKb(G, p)
    BY DEF BeginGrab
  <1> HIDE DEF r
  <1>3. G \in Seats /\ SameKeyboard(F, G) /\ G.stack = r
    BY <1>1 DEF SeatInv, Consistent, Seats, SameKeyboard
  <1> HIDE DEF G
  <1>4. Consistent(G) /\ KeysOK(G) /\ (h => ActiveOK(G)) /\ Target(G, p)
    BY <1>3, SameInv DEF SeatInv, SameKeyboard, Target
  <1> QED
    BY <1>2, <1>3, <1>4, SetKbInv DEF SameKeyboard, r

\* fn popup_destroyed
LEMMA PopupDestroyedInv ==
  ASSUME NEW F, NEW h, SeatInv(F, h), NEW p \in F.popups
  PROVE  LET R == PopupDestroyed(F, p)
         IN /\ SeatInv(R, h)
            /\ R.windows = F.windows /\ R.popups = F.popups \ {p} /\ R.clients = F.clients
            /\ R.stack = RemoveFirst(F.stack, p)
            /\ R.kb \in Toplevels /\ F.kb \notin Toplevels =>
                 Range(R.stack) \cap R.popups = {}
  <1> DEFINE G == [F EXCEPT !.popups = @ \ {p}]
  <1>0. F \in Seats /\ p \in Popups
    BY DEF SeatInv, Consistent, Seats
  <1>1. /\ G \in Seats /\ G.popups = F.popups \ {p} /\ G.windows = F.windows
        /\ G.surfaces = F.surfaces /\ G.born = F.born /\ G.layers = F.layers
        /\ G.kb = F.kb /\ G.keys = F.keys /\ G.activated = F.activated
        /\ G.clients = F.clients /\ G.stack = F.stack
    BY <1>0 DEF Seats
  <1>2. PopupDestroyed(F, p) = EndGrab(G, p)
    BY DEF PopupDestroyed
  <1> HIDE DEF G
  <1>3. Consistent(G) /\ KeysOK(G)
    BY <1>1 DEF SeatInv, Consistent, KeysOK
  <1>4. h => ActiveOK(G)
    BY <1>0, <1>1, RootShrinks DEF SeatInv, ActiveOK
  <1>5. /\ G.kb \in G.surfaces \cup {None}
        /\ G.kb \in Popups => G.kb \in G.popups \cup {p}
        /\ G.kb \in Layers => TakesClick(G, G.kb)
    BY <1>1 DEF SeatInv, KbOK, TakesClick
  <1>6. p \notin G.popups
    BY <1>1
  <1> QED
    BY <1>0, <1>1, <1>2, <1>3, <1>4, <1>5, <1>6, EndGrabInv

-----------------------------------------------------------------------------
\* The stack of grabs

LEMMA CutLength ==
  ASSUME NEW n \in Int, NEW k \in Int, k <= n, NEW v,
         v = IF k + 1 <= n THEN n - (k + 1) + 1 ELSE 0
  PROVE  v = n - k
  OBVIOUS

LEMMA RemoveFirstOnce ==
  ASSUME NEW S, NEW s \in Seq(S), IsInjective(s), NEW e
  PROVE  LET r == RemoveFirst(s, e)
         IN IsInjective(r) /\ Range(r) = Range(s) \ {e}
  <1> DEFINE I == {i \in 1..Len(s) : s[i] = e}
             r == RemoveFirst(s, e)
  <1>0. Len(s) \in Nat /\ DOMAIN s = 1..Len(s)
    BY LenProperties
  <1>1. CASE I = {}
    <2>1. r = s
      BY <1>1 DEF RemoveFirst
    <2> QED
      BY <1>0, <1>1, <2>1 DEF Range
  <1>2. CASE I # {}
    <2>1. PICK k \in I : k = Min(I)
      BY <1>0, <1>2, MinMax
    <2>2. r = SubSeq(s, 1, k - 1) \o SubSeq(s, k + 1, Len(s))
      BY <1>2, <2>1 DEF RemoveFirst, SelectInSeq, RemoveAt
    <2>3. k \in 1..Len(s) /\ s[k] = e
      OBVIOUS
    <2> HIDE DEF I, r
    <2> DEFINE x == SubSeq(s, 1, k - 1)
               y == SubSeq(s, k + 1, Len(s))
    <2>4a. \A j \in 1..Len(s) : s[j] \in S
      BY ElementOfSeq
    <2>4b. /\ x \in Seq(S) /\ Len(x) = k - 1
           /\ \A j \in 1..(k - 1) : x[j] = s[j]
      <3>1. k - 1 \in Int /\ \A j \in 1..(k - 1) : s[j] \in S
        BY <1>0, <2>3, <2>4a
      <3>2. /\ x \in Seq(S) /\ Len(x) = IF 1 <= k - 1 THEN (k - 1) - 1 + 1 ELSE 0
            /\ \A j \in 1..((k - 1) - 1 + 1) : x[j] = s[1 + j - 1]
        BY <3>1, SubSeqProperties
      <3> HIDE DEF x
      <3> QED
        BY <1>0, <2>3, <3>2
    <2>4c. /\ y \in Seq(S) /\ Len(y) = Len(s) - k
           /\ \A j \in 1..(Len(s) - k) : y[j] = s[k + j]
      <3>1. k + 1 \in Int /\ Len(s) \in Int /\ \A j \in (k + 1)..Len(s) : s[j] \in S
        BY <1>0, <2>3, <2>4a
      <3>2. /\ y \in Seq(S)
            /\ Len(y) = IF k + 1 <= Len(s) THEN Len(s) - (k + 1) + 1 ELSE 0
            /\ \A j \in 1..(Len(s) - (k + 1) + 1) : y[j] = s[(k + 1) + j - 1]
        BY <3>1, SubSeqProperties
      <3> HIDE DEF y
      <3>3. k \in Int /\ Len(s) \in Int /\ k <= Len(s) /\ Len(s) - (k + 1) + 1 = Len(s) - k
        BY <1>0, <2>3
      <3>4. Len(y) = Len(s) - k
        BY <3>2, <3>3, CutLength
      <3>5. ASSUME NEW j \in 1..(Len(s) - k) PROVE y[j] = s[k + j]
        <4>1. (k + 1) + j - 1 = k + j
          BY <3>3
        <4>2. y[j] = s[(k + 1) + j - 1]
          BY <3>2, <3>3
        <4> QED
          BY <4>1, <4>2
      <3> QED
        BY <3>2, <3>4, <3>5
    <2> HIDE DEF x, y
    <2>5. /\ Len(r) = Len(s) - 1 /\ DOMAIN r = 1..(Len(s) - 1)
          /\ \A j \in 1..(Len(s) - 1) : r[j] = IF j < k THEN s[j] ELSE s[j + 1]
      <3>1. r = x \o y
        BY <2>2 DEF x, y
      <3>2. /\ r \in Seq(S) /\ Len(r) = Len(x) + Len(y)
            /\ \A j \in 1..(Len(x) + Len(y)) :
                 r[j] = IF j <= Len(x) THEN x[j] ELSE y[j - Len(x)]
        BY <2>4b, <2>4c, <3>1, ConcatProperties
      <3>3. Len(r) = Len(s) - 1 /\ DOMAIN r = 1..(Len(s) - 1)
        BY <1>0, <2>3, <2>4b, <2>4c, <3>2, LenProperties
      <3>4. ASSUME NEW j \in 1..(Len(s) - 1)
            PROVE  r[j] = IF j < k THEN s[j] ELSE s[j + 1]
        <4>1. j \in Int /\ k \in Int /\ Len(s) \in Int /\ 1 <= j /\ 1 <= k
          BY <1>0, <2>3
        <4>2. CASE j < k
          <5>1. j <= Len(x) /\ j \in 1..(k - 1) /\ j \in 1..(Len(x) + Len(y))
            BY <2>3, <2>4b, <2>4c, <4>1, <4>2
          <5> QED
            BY <2>4b, <3>2, <4>2, <5>1
        <4>3. CASE k <= j
          <5>1. ~(j <= Len(x)) /\ j - Len(x) = j - k + 1
                /\ j - k + 1 \in 1..(Len(s) - k) /\ j \in 1..(Len(x) + Len(y))
                /\ k + (j - k + 1) = j + 1 /\ ~(j < k)
            BY <2>3, <2>4b, <2>4c, <4>1, <4>3
          <5>2. r[j] = y[j - k + 1]
            BY <3>2, <5>1
          <5>3. y[j - k + 1] = s[k + (j - k + 1)]
            BY <2>4c, <5>1
          <5> QED
            BY <5>1, <5>2, <5>3
        <4> QED
          BY <4>1, <4>2, <4>3
      <3> QED
        BY <3>3, <3>4
    <2>6. IsInjective(r)
      <3> DEFINE g(j) == IF j < k THEN j ELSE j + 1
      <3>1. ASSUME NEW a \in 1..(Len(s) - 1), NEW b \in 1..(Len(s) - 1), r[a] = r[b]
            PROVE  a = b
        <4>1. g(a) \in 1..Len(s) /\ g(b) \in 1..Len(s)
          BY <1>0, <2>3
        <4>2. s[g(a)] = s[g(b)]
          BY <2>5, <3>1
        <4>3. g(a) = g(b)
          BY <1>0, <4>1, <4>2 DEF IsInjective
        <4> QED
          BY <1>0, <2>3, <4>3
      <3> QED
        BY <2>5, <3>1 DEF IsInjective
    <2>7. Range(r) \subseteq Range(s) \ {e}
      BY <1>0, <2>3, <2>5 DEF IsInjective, Range
    <2>8. Range(s) \ {e} \subseteq Range(r)
      <3>1. SUFFICES ASSUME NEW i \in 1..Len(s), s[i] # e PROVE s[i] \in Range(r)
        BY <1>0 DEF Range
      <3>2. CASE i < k
        BY <1>0, <2>3, <2>5, <3>2 DEF Range
      <3>3. CASE i > k
        <4>1. i - 1 \in 1..(Len(s) - 1) /\ r[i - 1] = s[i]
          BY <1>0, <2>3, <2>5, <3>3
        <4> QED
          BY <2>5, <4>1 DEF Range
      <3> QED
        BY <1>0, <2>3, <3>1, <3>2, <3>3
    <2> QED
      BY <2>6, <2>7, <2>8 DEF r
  <1> QED
    BY <1>1, <1>2

\* A popup grabs once, and does not once it is gone, unless its client is.
StackOK(F) ==
  /\ IsInjective(F.stack)
  /\ \A p \in Range(F.stack) : p \in F.popups \/ Owner[p] \notin F.clients

\* What most handlers leave: the popups, and the grabs unless they end all
SameGrabs(F, R) ==
  R.popups = F.popups /\ R.clients = F.clients /\ R.stack \in {F.stack, <<>>}

LEMMA EmptyStack == IsInjective(<<>>) /\ Range(<<>>) = {}
  BY DEF IsInjective, Range

LEMMA SameGrabsOK ==
  ASSUME NEW F, NEW R, StackOK(F), SameGrabs(F, R)
  PROVE  StackOK(R)
  BY EmptyStack DEF StackOK, SameGrabs

\* The keyboard goes from a popup of a toplevel to another toplevel's window only
\* if no popup grabs any more, or one of yet another toplevel does.
GrabStep(F, R) ==
  /\ F.kb \in F.popups /\ R.kb \in Toplevels /\ Top[F.kb] \notin {None, R.kb}
  /\ \A g \in Range(F.stack) : Top[g] = Top[F.kb]
  => R.stack = <<>>

LEMMA NotPopup ==
  ASSUME NEW F \in Seats
  PROVE  /\ \A p \in F.popups : p \in Popups /\ p \notin Toplevels /\ p \notin Layers /\ p # None
         /\ \A l \in Layers : l \notin Toplevels /\ l # None
         /\ None \notin Toplevels
  BY FocusAssumption DEF Seats, Surfaces, Roles

LEMMA SameKbGrab ==
  ASSUME NEW F \in Seats, NEW R, R.kb = F.kb \/ R.kb \in Layers \cup Popups \cup {None}
  PROVE  GrabStep(F, R)
  BY NotPopup, FocusAssumption DEF GrabStep, Surfaces, Roles

LEMMA FirstOfStack ==
  ASSUME NEW s \in Seq(Popups), s # <<>>
  PROVE  s[1] \in Range(s) /\ s[1] \in Popups
  BY EmptySeq, LenProperties, ElementOfSeq DEF Range

LEMMA SetFocusedGrab ==
  ASSUME NEW F, NEW h, SeatInv(F, h), NEW w \in Roles \cup {None}
  PROVE  GrabStep(F, SetFocused(F, w)) /\ SameGrabs(F, SetFocused(F, w))
  <1> DEFINE R == SetFocused(F, w)
  <1>0. F \in Seats /\ F.stack \in Seq(Popups)
    BY DEF SeatInv, Consistent, Seats
  <1>1. /\ R.popups = F.popups /\ R.clients = F.clients /\ R.stack \in {F.stack, <<>>}
        /\ (EndsGrab(F, w) => R.stack = <<>>)
        /\ w \in F.windows \cup {None} => R.kb \in {w} \cup Layers
        /\ w \notin F.windows \cup {None} => R.kb = F.kb
    BY SetFocusedInv
  <1> HIDE DEF R
  <1>2. SameGrabs(F, R)
    BY <1>1 DEF SameGrabs
  <1>3. ASSUME F.kb \in F.popups, R.kb \in Toplevels, Top[F.kb] \notin {None, R.kb},
               \A g \in Range(F.stack) : Top[g] = Top[F.kb], F.stack # <<>>
        PROVE  R.stack = <<>>
    <2>1. w \in F.windows /\ R.kb = w
      BY <1>0, <1>1, <1>3, NotPopup
    <2>2. F.stack[1] \in Popups /\ Top[F.stack[1]] \notin {None, w}
      BY <1>0, <1>3, <2>1, FirstOfStack
    <2>3. F.stack[1] \notin F.windows
      BY <1>0, <2>2, FocusAssumption DEF Seats
    <2>4. GrabRoot(F) # w
      BY <1>0, <2>1, <2>2, <2>3, NotPopup DEF GrabRoot, RootWindow, Seats
    <2>5. EndsGrab(F, w)
      BY <1>3, <2>1, <2>4, RootOfWindow DEF EndsGrab
    <2> QED
      BY <1>1, <2>5
  <1>4. GrabStep(F, R)
    BY <1>1, <1>3 DEF GrabStep
  <1> QED
    BY <1>2, <1>4 DEF R

\* fn popup_destroyed, for a popup of a client that is there
LEMMA PopupDestroyedGrab ==
  ASSUME NEW F, NEW h, SeatInv(F, h), StackOK(F), NEW p \in F.popups,
         \A q \in F.popups : Owner[q] \in F.clients
  PROVE  LET R == PopupDestroyed(F, p)
         IN StackOK(R) /\ GrabStep(F, R)
  <1> DEFINE R == PopupDestroyed(F, p)
  <1>0. F \in Seats /\ F.stack \in Seq(Popups)
    BY DEF SeatInv, Consistent, Seats
  <1>1. /\ R.popups = F.popups \ {p} /\ R.clients = F.clients
        /\ R.stack = RemoveFirst(F.stack, p)
        /\ R.kb \in Toplevels /\ F.kb \notin Toplevels => Range(R.stack) \cap R.popups = {}
    BY PopupDestroyedInv
  <1> HIDE DEF R
  <1>2. IsInjective(R.stack) /\ Range(R.stack) = Range(F.stack) \ {p}
        /\ R.stack \in Seq(Popups)
    BY <1>0, <1>1, RemoveFirstOnce, RemoveFirstType DEF StackOK
  <1>3. StackOK(R)
    BY <1>1, <1>2 DEF StackOK
  <1>4. ASSUME F.kb \in F.popups, R.kb \in Toplevels, Top[F.kb] \notin {None, R.kb},
               \A g \in Range(F.stack) : Top[g] = Top[F.kb], R.stack # <<>>
        PROVE  FALSE
    <2>1. PICK g \in Range(R.stack) : g \in Popups
      BY <1>2, <1>4, FirstOfStack
    <2>2. Owner[g] = Owner[F.kb] /\ Owner[F.kb] \in F.clients
      BY <1>0, <1>2, <1>4, <2>1, NotPopup, FocusAssumption
    <2>3. g \in R.popups
      BY <1>1, <1>2, <2>1, <2>2 DEF StackOK
    <2> QED
      BY <1>0, <1>1, <1>4, <2>1, <2>3, NotPopup
  <1>5. GrabStep(F, R)
    BY <1>4 DEF GrabStep
  <1> QED
    BY <1>3, <1>5 DEF R

\* fn begin_popup_grab
LEMMA BeginGrabOK ==
  ASSUME NEW F, NEW h, SeatInv(F, h), StackOK(F), NEW p \in F.popups
  PROVE  LET R == BeginGrab(F, p)
         IN StackOK(R) /\ GrabStep(F, R)
  <1> DEFINE R == BeginGrab(F, p)
             s == F.stack
  <1>0. F \in Seats /\ s \in Seq(Popups) /\ p \in Popups
    BY DEF SeatInv, Consistent, Seats
  <1>1. /\ R.popups = F.popups /\ R.clients = F.clients /\ R.kb = p
        /\ R.stack = IF p \in Range(s) THEN s ELSE Append(s, p)
    BY BeginGrabInv
  <1> HIDE DEF R
  <1>2. GrabStep(F, R)
    BY <1>0, <1>1, SameKbGrab
  <1>3. StackOK(R)
    <2>0. IsInjective(s) /\ \A q \in Range(s) : q \in F.popups \/ Owner[q] \notin F.clients
      BY DEF StackOK
    <2>1. /\ Append(s, p) \in Seq(Popups) /\ Len(Append(s, p)) = Len(s) + 1
          /\ \A i \in 1..Len(s) : Append(s, p)[i] = s[i]
          /\ Append(s, p)[Len(s) + 1] = p
      BY <1>0, AppendProperties
    <2>2. DOMAIN s = 1..Len(s) /\ Len(s) \in Nat
          /\ DOMAIN Append(s, p) = 1..(Len(s) + 1)
      BY <1>0, <2>1, LenProperties
    <2>3. CASE p \in Range(s)
      BY <1>1, <2>0, <2>3 DEF StackOK
    <2>4. CASE p \notin Range(s)
      <3>1. \A i \in 1..Len(s) : s[i] # p
        BY <2>2, <2>4 DEF Range
      <3>2. IsInjective(Append(s, p))
        BY <2>0, <2>1, <2>2, <3>1 DEF IsInjective
      <3>3. Range(Append(s, p)) \subseteq Range(s) \cup {p}
        BY <2>1, <2>2 DEF Range
      <3>4. R.stack = Append(s, p)
        BY <1>1, <2>4
      <3> QED
        BY <1>1, <2>0, <3>2, <3>3, <3>4 DEF StackOK
    <2> QED
      BY <2>3, <2>4
  <1> QED
    BY <1>2, <1>3 DEF R

-----------------------------------------------------------------------------
\* Windows that come and go

\* The next window is one of those allowed, and is one if the history has any.
LEMMA PreviousType ==
  ASSUME NEW F \in Seats, NEW w, NEW ws \in SUBSET Roles
  PROVE  /\ Previous(F, w, ws) \in (ws \ {w}) \cup {None}
         /\ Range(F.history) \cap (ws \ {w}) # {} => Previous(F, w, ws) # None
  <1> DEFINE I == {i \in 1..Len(F.history) : F.history[i] # w /\ F.history[i] \in ws}
  <1>1. F.history \in Seq(Roles) /\ Len(F.history) \in Nat
        /\ DOMAIN F.history = 1..Len(F.history)
    BY LenProperties DEF Seats
  <1>2. Previous(F, w, ws) = IF (IF I # {} THEN Min(I) ELSE 0) = 0 THEN None
                             ELSE F.history[IF I # {} THEN Min(I) ELSE 0]
    BY DEF Previous, SelectInSeq
  <1>3. CASE I = {}
    BY <1>1, <1>2, <1>3 DEF Range
  <1>4. CASE I # {}
    <2>1. Min(I) \in I
      BY <1>1, <1>4, MinMax
    <2>2. F.history[Min(I)] \in ws \ {w} /\ Min(I) # 0
      BY <2>1
    <2> HIDE DEF I
    <2>3. Previous(F, w, ws) = F.history[Min(I)]
      BY <1>2, <1>4, <2>2
    <2>4. None \notin ws
      BY FocusAssumption DEF Surfaces, Roles
    <2> QED
      BY <2>2, <2>3, <2>4
  <1> QED
    BY <1>3, <1>4

\* More windows are activated.
LEMMA ActivateMore ==
  ASSUME NEW F, NEW h, SeatInv(F, h), NEW X \in SUBSET Toplevels
  PROVE  LET R == [F EXCEPT !.activated = @ \cup X]
         IN SeatInv(R, h) /\ R.windows = F.windows /\ SameGrabs(F, R) /\ R.kb = F.kb
  <1> DEFINE R == [F EXCEPT !.activated = @ \cup X]
  <1>1. /\ R \in Seats /\ R.popups = F.popups /\ R.windows = F.windows
        /\ R.surfaces = F.surfaces /\ R.born = F.born /\ R.layers = F.layers
        /\ R.kb = F.kb /\ R.keys = F.keys /\ R.clients = F.clients
        /\ R.stack = F.stack /\ F.activated \subseteq R.activated
    BY DEF SeatInv, Consistent, Seats
  <1> HIDE DEF R
  <1>2. Consistent(R) /\ KbOK(R) /\ KeysOK(R)
    BY <1>1 DEF SeatInv, Consistent, KbOK, KeysOK, TakesClick
  <1>3. h => ActiveOK(R)
    BY <1>1 DEF SeatInv, ActiveOK, RootWindow
  <1> QED
    BY <1>1, <1>2, <1>3 DEF SeatInv, SameGrabs, R

\* destroy_window is called for a window that has been deactivated already.
LEMMA DestroyWindowInv ==
  ASSUME NEW F, NEW h, Consistent(F), KbOK(F), KeysOK(F), NEW w \in F.windows,
         h => RootWindow(F, F.kb) \in F.activated \cup {w, None}
  PROVE  LET R == DestroyWindow(F, w, h)
         IN /\ SeatInv(R, h) /\ R.windows = F.windows \ {w} /\ SameGrabs(F, R)
            /\ h /\ F.focused = w /\ Range(F.history) \cap R.windows # {}
                 => R.kb \in R.windows \cup Layers
            /\ GrabStep(F, R)
  <1> DEFINE G == [F EXCEPT !.windows = @ \ {w}, !.minimized = @ \ {w}]
             next == Previous(F, w, F.windows \ {w})
  <1>0. F \in Seats /\ F.windows \subseteq Toplevels /\ w \in Toplevels
    BY DEF Consistent, Seats
  <1>1. /\ G \in Seats /\ G.windows = F.windows \ {w} /\ G.popups = F.popups
        /\ G.surfaces = F.surfaces /\ G.born = F.born /\ G.layers = F.layers
        /\ G.kb = F.kb /\ G.keys = F.keys /\ G.activated = F.activated
        /\ G.clients = F.clients /\ G.stack = F.stack /\ G.focused = F.focused
    BY <1>0 DEF Seats
  <1>2. next \in (F.windows \ {w}) \cup {None}
        /\ (Range(F.history) \cap (F.windows \ {w}) # {} => next # None)
    BY <1>0, PreviousType DEF Roles
  <1>3. DestroyWindow(F, w, h) = IF F.focused # w THEN G
                                 ELSE IF h THEN SetFocused(G, next) ELSE BookFocus(G, next)
    BY <1>1 DEF DestroyWindow
  <1> HIDE DEF G, next
  <1>4. SeatInv(G, h)
    <2>1. Consistent(G) /\ KbOK(G) /\ KeysOK(G)
      BY <1>1 DEF Consistent, KbOK, KeysOK, TakesClick
    <2>2. h => ActiveOK(G)
      BY <1>0, <1>1, RootShrinks, RootType DEF ActiveOK
    <2> QED
      BY <2>1, <2>2 DEF SeatInv
  <1>5. next \in Roles \cup {None} /\ next \in G.windows \cup {None}
    BY <1>0, <1>1, <1>2 DEF Roles
  <1>6. CASE F.focused # w
    BY <1>0, <1>1, <1>3, <1>4, <1>6, SameKbGrab DEF SameGrabs
  <1>7. CASE F.focused = w /\ h
    <2>1. DestroyWindow(F, w, h) = SetFocused(G, next)
      BY <1>3, <1>7
    <2>2. /\ SeatInv(SetFocused(G, next), h)
          /\ SetFocused(G, next).windows = G.windows
          /\ SetFocused(G, next).popups = G.popups
          /\ SetFocused(G, next).clients = G.clients
          /\ SetFocused(G, next).stack \in {G.stack, <<>>}
          /\ GrabStep(G, SetFocused(G, next))
          /\ SetFocused(G, next).kb \in {next} \cup Layers
      BY <1>4, <1>5, SetFocusedInv, SetFocusedGrab
    <2>3. Layers \cap Toplevels = {} /\ None \notin Toplevels
      BY FocusAssumption DEF Surfaces, Roles
    <2> QED
      BY <1>1, <1>2, <1>5, <2>1, <2>2, <2>3 DEF SameGrabs, GrabStep
  <1>8. CASE F.focused = w /\ ~h
    <2>1. DestroyWindow(F, w, h) = BookFocus(G, next)
      BY <1>3, <1>8
    <2>2. /\ BookFocus(G, next) \in Seats /\ SameKeyboard(G, BookFocus(G, next))
          /\ BookFocus(G, next).stack = G.stack
      BY <1>1, <1>5, BookFocusSame
    <2>3. SeatInv(BookFocus(G, next), h)
      BY <1>4, <2>2, SameInv DEF SeatInv
    <2> QED
      BY <1>0, <1>1, <1>8, <2>1, <2>2, <2>3, SameKbGrab DEF SameGrabs, SameKeyboard
  <1> QED
    BY <1>6, <1>7, <1>8

LEMMA RegisterWindowInv ==
  ASSUME NEW F, NEW h, SeatInv(F, h), NEW w \in Toplevels, w \notin F.born,
         Owner[w] \in F.clients
  PROVE  LET R == RegisterWindow(F, w, h)
         IN /\ SeatInv(R, h) /\ R.windows = F.windows \cup {w} /\ SameGrabs(F, R)
            /\ GrabStep(F, R)
  <1> DEFINE E == [F EXCEPT !.windows = @ \cup {w}, !.surfaces = @ \cup {w},
                            !.born = @ \cup {w}]
             G == BookFocus(E, w)
             H == IF h THEN SetFocused(G, w) ELSE G
             R == [H EXCEPT !.activated = @ \cup {w}]
  <1>0. F \in Seats /\ RegisterWindow(F, w, h) = R
    BY DEF SeatInv, Consistent, RegisterWindow
  <1>1. /\ E \in Seats /\ E.windows = F.windows \cup {w} /\ E.popups = F.popups
        /\ E.surfaces = F.surfaces \cup {w} /\ E.born = F.born \cup {w}
        /\ E.layers = F.layers /\ E.kb = F.kb /\ E.keys = F.keys
        /\ E.activated = F.activated /\ E.clients = F.clients /\ E.stack = F.stack
    BY <1>0 DEF Seats, Surfaces
  <1> HIDE DEF E
  <1>2. w # None /\ w \notin F.surfaces /\ w \notin Popups /\ w \notin Layers
    BY FocusAssumption DEF SeatInv, Consistent, Surfaces, Roles
  <1>3. Consistent(E) /\ KbOK(E) /\ KeysOK(E)
    BY <1>1, <1>2 DEF SeatInv, Consistent, KbOK, KeysOK, TakesClick
  <1>4. h => ActiveOK(E)
    <2>1. F.kb # w /\ (F.kb \in Popups => Top[F.kb] # w)
      BY <1>2 DEF SeatInv, Consistent, KbOK
    <2>2. RootWindow(E, F.kb) = RootWindow(F, F.kb)
      BY <1>1, <2>1 DEF RootWindow
    <2> QED
      BY <1>1, <2>2 DEF SeatInv, ActiveOK
  <1>5. /\ G \in Seats /\ SameKeyboard(E, G) /\ G.stack = E.stack
    BY <1>1, BookFocusSame DEF Roles
  <1> HIDE DEF G
  <1>6. SeatInv(G, h)
    BY <1>3, <1>4, <1>5, SameInv DEF SeatInv
  <1>7. /\ SeatInv(H, h) /\ H.windows = G.windows /\ SameGrabs(G, H) /\ GrabStep(G, H)
    <2>1. CASE h
      BY <1>6, <2>1, SetFocusedInv, SetFocusedGrab DEF Roles
    <2>2. CASE ~h
      BY <1>5, <1>6, <2>2, SameKbGrab DEF SameGrabs
    <2> QED
      BY <2>1, <2>2
  <1> HIDE DEF H
  <1>8. SeatInv(R, h) /\ R.windows = H.windows /\ SameGrabs(H, R) /\ R.kb = H.kb
    BY <1>7, ActivateMore
  <1> HIDE DEF R
  <1>9. SameGrabs(F, R) /\ R.windows = F.windows \cup {w}
    BY <1>1, <1>5, <1>7, <1>8 DEF SameGrabs, SameKeyboard
  <1>10. GrabStep(F, R)
    BY <1>1, <1>5, <1>7, <1>8 DEF SameGrabs, SameKeyboard, GrabStep
  <1> QED
    BY <1>0, <1>8, <1>9, <1>10

LEMMA MinimizeInv ==
  ASSUME NEW F, NEW h, SeatInv(F, h), NEW w \in Toplevels
  PROVE  LET R == MinimizeToplevel(F, w, h)
         IN /\ SeatInv(R, h) /\ R.windows = F.windows /\ SameGrabs(F, R)
            /\ GrabStep(F, R)
  <1> DEFINE G == [F EXCEPT !.minimized = @ \cup {w}]
             next == Previous(F, w, G.windows \ G.minimized)
  <1>0. F \in Seats
    BY DEF SeatInv, Consistent
  <1>1. G \in Seats /\ SameKeyboard(F, G) /\ G.stack = F.stack
    BY <1>0 DEF Seats, SameKeyboard
  <1>2. MinimizeToplevel(F, w, h) = IF h /\ F.focused = w THEN SetFocused(G, next) ELSE G
    BY DEF MinimizeToplevel
  <1> HIDE DEF G
  <1>3. SeatInv(G, h)
    BY <1>1, SameInv DEF SeatInv
  <1>4. next \in Roles \cup {None}
    <2>1. G.windows \ G.minimized \in SUBSET Roles
      BY <1>1 DEF Seats, Roles
    <2> QED
      BY <1>0, <2>1, PreviousType
  <1> HIDE DEF next
  <1>5. CASE h /\ F.focused = w
    <2>1. MinimizeToplevel(F, w, h) = SetFocused(G, next)
      BY <1>2, <1>5
    <2>2. /\ SeatInv(SetFocused(G, next), h) /\ SetFocused(G, next).windows = G.windows
          /\ SameGrabs(G, SetFocused(G, next)) /\ GrabStep(G, SetFocused(G, next))
      BY <1>3, <1>4, SetFocusedInv, SetFocusedGrab
    <2> QED
      BY <1>1, <2>1, <2>2 DEF SameKeyboard, SameGrabs, GrabStep
  <1>6. CASE ~(h /\ F.focused = w)
    BY <1>0, <1>1, <1>2, <1>3, <1>6, SameKbGrab DEF SameKeyboard, SameGrabs
  <1> QED
    BY <1>5, <1>6

LEMMA ActivateInv ==
  ASSUME NEW F, NEW h, SeatInv(F, h), NEW w \in Toplevels
  PROVE  LET R == ActivateWindow(F, w)
         IN /\ SeatInv(R, h) /\ R.windows = F.windows /\ SameGrabs(F, R)
            /\ GrabStep(F, R)
  <1> DEFINE G == [F EXCEPT !.minimized = @ \ {w}]
  <1>1. G \in Seats /\ SameKeyboard(F, G) /\ G.stack = F.stack
    BY DEF SeatInv, Consistent, Seats, SameKeyboard
  <1>2. ActivateWindow(F, w) = SetFocused(G, w)
    BY DEF ActivateWindow
  <1> HIDE DEF G
  <1>3. SeatInv(G, h)
    BY <1>1, SameInv DEF SeatInv
  <1> QED
    BY <1>1, <1>2, <1>3, SetFocusedInv, SetFocusedGrab
      DEF SameKeyboard, SameGrabs, GrabStep, Roles

\* The surface of no role
LEMMA RemoveSurfaceInv ==
  ASSUME NEW F, NEW h, SeatInv(F, h), NEW s \in F.surfaces \ (F.windows \cup F.popups),
         s \in Layers => F.layers[s] = "unmapped"
  PROVE  LET R == RemoveSurface(F, s)
         IN /\ SeatInv(R, h) /\ R.windows = F.windows /\ SameGrabs(F, R)
            /\ GrabStep(F, R)
  <1> DEFINE k == IF F.kb = s THEN None ELSE F.kb
             R == [F EXCEPT !.surfaces = @ \ {s}, !.kb = k]
  <1>0. F \in Seats /\ RemoveSurface(F, s) = R
    BY DEF SeatInv, Consistent, RemoveSurface
  <1>1. /\ R \in Seats /\ R.windows = F.windows /\ R.popups = F.popups
        /\ R.surfaces = F.surfaces \ {s} /\ R.born = F.born /\ R.layers = F.layers
        /\ R.kb = k /\ R.keys = F.keys /\ R.activated = F.activated
        /\ R.clients = F.clients /\ R.stack = F.stack
    BY <1>0 DEF Seats
  <1> HIDE DEF R
  <1>2. Consistent(R)
    BY <1>1 DEF SeatInv, Consistent
  <1>3. None \notin Surfaces
    BY FocusAssumption
  <1>4. F.kb = s => s \in F.born
    BY <1>0, FocusAssumption DEF SeatInv, Consistent, KbOK, TakesClick, Seats, Surfaces
  <1>5. KbOK(R) /\ KeysOK(R)
    <2>1. CASE F.kb = s
      <3>1. R.kb = None /\ R.keys = s /\ s \notin R.surfaces
        BY <1>1, <1>3, <2>1 DEF SeatInv, KeysOK, Consistent, Seats
      <3> QED
        BY <1>1, <1>4, <2>1, <3>1, FocusAssumption DEF KbOK, KeysOK, Surfaces, Roles
    <2>2. CASE F.kb # s
      BY <1>1, <2>2 DEF SeatInv, KbOK, KeysOK, TakesClick
    <2> QED
      BY <2>1, <2>2
  <1>6. h => ActiveOK(R)
    <2>1. CASE F.kb = s
      BY <1>1, <2>1, RootOfNone DEF ActiveOK
    <2>2. CASE F.kb # s
      BY <1>1, <2>2 DEF SeatInv, ActiveOK, RootWindow
    <2> QED
      BY <2>1, <2>2
  <1>7. GrabStep(F, R) /\ SameGrabs(F, R)
    BY <1>0, <1>1, SameKbGrab DEF SameGrabs
  <1> QED
    BY <1>0, <1>1, <1>2, <1>5, <1>6, <1>7 DEF SeatInv

-----------------------------------------------------------------------------
\* Layer surfaces and clients that go

LEMMA RefreshInv ==
  ASSUME NEW F, NEW h, Consistent(F), KeysOK(F), h => ActiveOK(F),
         F.kb \in F.surfaces \cup {None}, F.kb \in Popups => F.kb \in F.popups
  PROVE  LET R == RefreshLayers(F)
         IN /\ SeatInv(R, h) /\ R.windows = F.windows /\ SameGrabs(F, R)
            /\ F.kb \notin Layers \/ TakesClick(F, F.kb) => R.kb \in Layers \cup {F.kb}
  <1> DEFINE x == CHOOSE l \in Exclusive(F) : TRUE
             f == IF F.focused \in F.windows THEN F.focused ELSE None
  <1>1. CASE Exclusive(F) # {}
    <2>1. RefreshLayers(F) = SetKb(F, x)
      BY <1>1 DEF RefreshLayers
    <2>2. Target(F, x) /\ x \in Layers
      BY <1>1, ExclusiveTarget
    <2> HIDE DEF x
    <2> QED
      BY <2>1, <2>2, SetKbInv DEF SameGrabs
  <1>2. CASE Exclusive(F) = {} /\ F.kb \in Layers /\ ~TakesClick(F, F.kb)
    <2>1. RefreshLayers(F) = SetKb(F, f)
      BY <1>2 DEF RefreshLayers
    <2>2. Target(F, f)
      BY FocusedTarget
    <2> HIDE DEF f
    <2> QED
      BY <1>2, <2>1, <2>2, SetKbInv DEF SameGrabs
  <1>3. CASE Exclusive(F) = {} /\ ~(F.kb \in Layers /\ ~TakesClick(F, F.kb))
    <2>1. RefreshLayers(F) = F
      BY <1>3 DEF RefreshLayers
    <2>2. KbOK(F)
      BY <1>3 DEF KbOK
    <2> QED
      BY <2>1, <2>2 DEF SeatInv, SameGrabs
  <1> QED
    BY <1>1, <1>2, <1>3

LEMMA CommitLayerInv ==
  ASSUME NEW F, NEW h, SeatInv(F, h), NEW l \in Layers, Owner[l] \in F.clients,
         NEW i \in Interactivities
  PROVE  LET R == CommitLayer(F, l, i)
         IN /\ SeatInv(R, h) /\ R.windows = F.windows /\ SameGrabs(F, R)
            /\ GrabStep(F, R)
  <1> DEFINE G == [F EXCEPT !.layers[l] = i, !.surfaces = @ \cup {l}]
             newly == F.layers[l] = "unmapped" /\ TakesClick(G, l)
             H == IF newly THEN SetKb(G, l) ELSE G
  <1>0. F \in Seats /\ CommitLayer(F, l, i) = RefreshLayers(H)
    BY DEF SeatInv, Consistent, CommitLayer
  <1>1. /\ G \in Seats /\ G.windows = F.windows /\ G.popups = F.popups
        /\ G.surfaces = F.surfaces \cup {l} /\ G.born = F.born
        /\ G.layers = [F.layers EXCEPT ![l] = i]
        /\ G.kb = F.kb /\ G.keys = F.keys /\ G.activated = F.activated
        /\ G.clients = F.clients /\ G.stack = F.stack
    BY <1>0 DEF Seats, Surfaces
  <1>2. newly => TakesClick(G, l)
    OBVIOUS
  <1> HIDE DEF G, newly
  <1>3. Consistent(G)
    BY <1>0, <1>1, FocusAssumption DEF SeatInv, Consistent, Seats, Roles
  <1>4. KeysOK(G)
    <2>1. l # None /\ l \notin F.born
      BY <1>0, FocusAssumption DEF Seats, Surfaces, Roles
    <2> QED
      BY <1>1, <2>1 DEF SeatInv, KeysOK
  <1>5. h => ActiveOK(G)
    BY <1>1 DEF SeatInv, ActiveOK, RootWindow
  <1>6. G.kb \in G.surfaces \cup {None} /\ (G.kb \in Popups => G.kb \in G.popups)
    BY <1>1 DEF SeatInv, KbOK
  <1>7. CASE newly
    <2>1. Target(G, l) /\ H = SetKb(G, l)
      BY <1>2, <1>7 DEF Target
    <2> HIDE DEF H
    <2>2. /\ SeatInv(H, h) /\ H.kb = l /\ H.windows = G.windows /\ H.layers = G.layers
          /\ SameGrabs(G, H)
      BY <1>3, <1>4, <1>5, <2>1, SetKbInv DEF SameGrabs
    <2>3. TakesClick(H, H.kb)
      BY <1>2, <1>7, <2>2 DEF TakesClick
    <2>4. /\ SeatInv(RefreshLayers(H), h) /\ RefreshLayers(H).windows = H.windows
          /\ SameGrabs(H, RefreshLayers(H)) /\ RefreshLayers(H).kb \in Layers \cup {H.kb}
      BY <2>2, <2>3, RefreshInv DEF SeatInv, KbOK
    <2>5. GrabStep(F, RefreshLayers(H))
      BY <1>0, <2>2, <2>4, SameKbGrab
    <2> QED
      BY <1>0, <1>1, <2>2, <2>4, <2>5 DEF SameGrabs
  <1>8. CASE ~newly
    <2>1. H = G
      BY <1>8
    <2> HIDE DEF H
    <2>4. /\ SeatInv(RefreshLayers(G), h) /\ RefreshLayers(G).windows = G.windows
          /\ SameGrabs(G, RefreshLayers(G))
          /\ (G.kb \notin Layers => RefreshLayers(G).kb \in Layers \cup {G.kb})
      BY <1>3, <1>4, <1>5, <1>6, RefreshInv
    <2>5. GrabStep(F, RefreshLayers(G))
      <3>1. CASE F.kb \in Layers
        BY <1>0, <3>1, NotPopup DEF GrabStep
      <3>2. CASE F.kb \notin Layers
        BY <1>0, <1>1, <2>4, <3>2, SameKbGrab
      <3> QED
        BY <3>1, <3>2
    <2> QED
      BY <1>0, <1>1, <2>1, <2>4, <2>5 DEF SameGrabs
  <1> QED
    BY <1>7, <1>8

LEMMA LayersGoneInv ==
  ASSUME NEW F, NEW h, SeatInv(F, h), StackOK(F), NEW c \in F.clients
  PROVE  LET R == LayersGone(F, c)
         IN /\ SeatInv(R, h) /\ R.windows = F.windows /\ R.popups = F.popups
            /\ R.clients = F.clients \ {c} /\ StackOK(R) /\ GrabStep(F, R)
  <1> DEFINE m == [l \in Layers |-> IF Owner[l] = c THEN "unmapped" ELSE F.layers[l]]
             G == [F EXCEPT !.clients = @ \ {c}, !.layers = m]
  <1>0. F \in Seats /\ LayersGone(F, c) = RefreshLayers(G)
    BY DEF SeatInv, Consistent, LayersGone
  <1>m. m \in [Layers -> Interactivities]
    BY <1>0, FocusAssumption DEF Seats
  <1>n. \A l \in Layers : m[l] # "unmapped" => m[l] = F.layers[l] /\ Owner[l] # c
    OBVIOUS
  <1> HIDE DEF m
  <1>1. /\ G \in Seats /\ G.windows = F.windows /\ G.popups = F.popups
        /\ G.surfaces = F.surfaces /\ G.born = F.born /\ G.layers = m
        /\ G.kb = F.kb /\ G.keys = F.keys /\ G.activated = F.activated
        /\ G.clients = F.clients \ {c} /\ G.stack = F.stack
    BY <1>0, <1>m DEF Seats
  <1> HIDE DEF G
  <1>2. Consistent(G) /\ KeysOK(G)
    BY <1>1, <1>n DEF SeatInv, Consistent, KeysOK
  <1>3. h => ActiveOK(G)
    BY <1>1 DEF SeatInv, ActiveOK, RootWindow
  <1>4. G.kb \in G.surfaces \cup {None} /\ (G.kb \in Popups => G.kb \in G.popups)
    BY <1>1 DEF SeatInv, KbOK
  <1>5. /\ SeatInv(RefreshLayers(G), h) /\ RefreshLayers(G).windows = G.windows
        /\ SameGrabs(G, RefreshLayers(G))
        /\ (G.kb \notin Layers => RefreshLayers(G).kb \in Layers \cup {G.kb})
    BY <1>2, <1>3, <1>4, RefreshInv
  <1>6. GrabStep(F, RefreshLayers(G))
    <2>1. CASE F.kb \in Layers
      BY <1>0, <2>1, NotPopup DEF GrabStep
    <2>2. CASE F.kb \notin Layers
      BY <1>0, <1>1, <1>5, <2>2, SameKbGrab
    <2> QED
      BY <2>1, <2>2
  <1>7. StackOK(G)
    BY <1>1 DEF StackOK
  <1>8. StackOK(RefreshLayers(G))
    BY <1>5, <1>7, SameGrabsOK
  <1> QED
    BY <1>0, <1>1, <1>5, <1>6, <1>8 DEF SameGrabs

LEMMA SurfacesGoneInv ==
  ASSUME NEW F, NEW h, SeatInv(F, h), StackOK(F), NEW c \in Clients, c \notin F.clients,
         \A w \in F.windows : Owner[w] # c, NEW known \in BOOLEAN
  PROVE  LET R == SurfacesGone(F, c, known)
         IN /\ SeatInv(R, h) /\ StackOK(R) /\ GrabStep(F, R)
            /\ R.windows = F.windows /\ R.clients = F.clients
            /\ R.popups = {p \in F.popups : Owner[p] # c}
  <1> DEFINE mine == {s \in F.surfaces : Owner[s] = c}
             k == IF F.kb \in mine THEN None ELSE F.kb
             y == IF known /\ F.keys \in Surfaces /\ Owner[F.keys] = c THEN None ELSE F.keys
             R == [F EXCEPT !.surfaces = @ \ mine, !.kb = k, !.keys = y,
                            !.popups = {p \in @ : Owner[p] # c}]
  <1>0. F \in Seats /\ SurfacesGone(F, c, known) = R
    BY DEF SeatInv, Consistent, SurfacesGone
  <1>k. /\ k \in {None, F.kb} /\ (k = F.kb \/ (F.kb \in F.surfaces /\ Owner[F.kb] = c))
        /\ (k # None => k \notin mine)
    BY FocusAssumption, <1>0 DEF SeatInv, Consistent, Seats
  <1>y. /\ y \in {None, F.keys}
        /\ (F.keys \in Surfaces /\ Owner[F.keys] # c => y = F.keys)
        /\ (F.keys \notin Surfaces => y = F.keys)
    OBVIOUS
  <1>e. \A s \in mine : s \in F.surfaces /\ Owner[s] = c
    OBVIOUS
  <1>f. \A s \in F.surfaces : Owner[s] # c => s \notin mine
    OBVIOUS
  <1> HIDE DEF k, y, mine
  <1>1. /\ R \in Seats /\ R.windows = F.windows
        /\ R.popups = {p \in F.popups : Owner[p] # c}
        /\ R.surfaces = F.surfaces \ mine /\ R.born = F.born /\ R.layers = F.layers
        /\ R.kb = k /\ R.keys = y /\ R.activated = F.activated
        /\ R.clients = F.clients /\ R.stack = F.stack
    BY <1>0, <1>k, <1>y DEF Seats
  <1> HIDE DEF R
  <1>2. Consistent(R)
    BY <1>1, <1>e DEF SeatInv, Consistent
  <1>3. KbOK(R)
    <2>1. k \in Popups => k \in R.popups
      <3>1. CASE k = None
        BY <3>1, FocusAssumption DEF Surfaces, Roles
      <3>2. CASE k # None
        <4>1. k = F.kb /\ k \in F.surfaces /\ k \notin mine
          BY <1>k, <3>2 DEF SeatInv, KbOK
        <4>2. Owner[k] # c
          BY <4>1 DEF mine
        <4> QED
          BY <1>1, <4>1, <4>2 DEF SeatInv, KbOK
      <3> QED
        BY <3>1, <3>2
    <2>2. k \in Layers => TakesClick(R, k)
      BY <1>1, <1>k, FocusAssumption DEF SeatInv, KbOK, TakesClick, Surfaces
    <2>3. k \in R.surfaces \cup {None}
      BY <1>1, <1>k DEF SeatInv, KbOK
    <2> QED
      BY <1>1, <2>1, <2>2, <2>3 DEF KbOK
  <1>4. KeysOK(R)
    <2>0. None \notin F.surfaces /\ F.surfaces \subseteq Surfaces
      BY <1>0, FocusAssumption DEF Seats
    <2>1. CASE F.kb = None
      <3>1. /\ k = None /\ F.keys \notin F.surfaces
            /\ \/ F.keys \in F.born \cup {None}
               \/ F.keys \in Surfaces /\ Owner[F.keys] \notin F.clients
        BY <1>k, <2>1 DEF SeatInv, KeysOK
      <3> QED
        BY <1>1, <1>y, <2>0, <3>1 DEF KeysOK
    <2>2. CASE F.kb # None /\ k = None
      <3>1. F.keys = F.kb /\ Owner[F.keys] = c /\ F.keys \in Surfaces
        BY <1>k, <2>0, <2>2 DEF SeatInv, KeysOK
      <3>2. F.keys \in mine
        BY <1>k, <2>2, <3>1 DEF mine
      <3> QED
        BY <1>1, <1>y, <2>0, <2>2, <3>1, <3>2, FocusAssumption DEF KeysOK
    <2>3. CASE k # None
      <3>1. k = F.kb /\ F.keys = F.kb /\ k \in F.surfaces /\ k \notin mine
        BY <1>k, <2>3 DEF SeatInv, KeysOK, KbOK
      <3>2. Owner[k] # c
        BY <3>1 DEF mine
      <3>3. y = F.keys
        BY <1>y, <2>0, <3>1, <3>2
      <3> QED
        BY <1>1, <2>3, <3>1, <3>3 DEF KeysOK
    <2> QED
      BY <2>1, <2>2, <2>3
  <1>5. h => ActiveOK(R)
    <2>1. R.popups \subseteq F.popups
      BY <1>1
    <2>2. RootWindow(R, F.kb) \in {RootWindow(F, F.kb), None}
      BY <1>0, <1>1, <2>1, RootShrinks
    <2>3. RootWindow(R, None) = None
      BY <1>1, RootOfNone
    <2> QED
      BY <1>1, <1>k, <2>2, <2>3 DEF SeatInv, ActiveOK
  <1>6. StackOK(R)
    BY <1>1 DEF StackOK
  <1>7. GrabStep(F, R)
    BY <1>0, <1>1, <1>k, SameKbGrab
  <1> QED
    BY <1>0, <1>1, <1>2, <1>3, <1>4, <1>5, <1>6, <1>7 DEF SeatInv

\* fn new_popup
LEMMA NewPopupInv ==
  ASSUME NEW F, NEW h, SeatInv(F, h), NEW p \in Popups, p \notin F.surfaces,
         \A q \in F.popups : p \notin Above[q], Owner[p] \in F.clients,
         Top[p] # None => Top[p] \in F.windows
  PROVE  LET R == [F EXCEPT !.popups = @ \cup {p}, !.surfaces = @ \cup {p}]
         IN /\ SeatInv(R, h) /\ R.windows = F.windows /\ R.clients = F.clients
            /\ R.popups = F.popups \cup {p} /\ R.stack = F.stack /\ GrabStep(F, R)
  <1> DEFINE R == [F EXCEPT !.popups = @ \cup {p}, !.surfaces = @ \cup {p}]
  <1>0. F \in Seats
    BY DEF SeatInv, Consistent
  <1>1. /\ R \in Seats /\ R.popups = F.popups \cup {p} /\ R.windows = F.windows
        /\ R.surfaces = F.surfaces \cup {p} /\ R.born = F.born /\ R.layers = F.layers
        /\ R.kb = F.kb /\ R.keys = F.keys /\ R.activated = F.activated
        /\ R.clients = F.clients /\ R.stack = F.stack
    BY <1>0 DEF Seats, Surfaces
  <1> HIDE DEF R
  <1>2. p \notin Toplevels /\ p \notin Layers /\ p # None /\ p \notin F.born
    BY <1>0, FocusAssumption DEF Seats, Surfaces, Roles
  <1>3. Consistent(R) /\ KbOK(R) /\ KeysOK(R)
    <2>0. F.windows \subseteq F.surfaces \cap Toplevels
      BY <1>0 DEF SeatInv, Consistent, Seats
    <2>1. Consistent(R)
      <3>1. /\ R.windows \subseteq R.surfaces /\ R.popups \subseteq R.surfaces
            /\ \A l \in Layers :
                 R.layers[l] # "unmapped" => l \in R.surfaces /\ Owner[l] \in R.clients
        BY <1>1 DEF SeatInv, Consistent
      <3>2. R.surfaces \cap Toplevels \subseteq R.born
        BY <1>1, <1>2 DEF SeatInv, Consistent
      <3>3. \A q \in R.popups : Top[q] \in R.born \cup {None}
        BY <1>1, <2>0 DEF SeatInv, Consistent
      <3> QED
        BY <1>1, <3>1, <3>2, <3>3 DEF Consistent
    <2>2. KbOK(R)
      BY <1>1 DEF SeatInv, KbOK, TakesClick
    <2>3. KeysOK(R)
      BY <1>1, <1>2 DEF SeatInv, KeysOK
    <2> QED
      BY <2>1, <2>2, <2>3
  <1>4. h => ActiveOK(R)
    <2>1. F.kb # p /\ (F.kb \in Popups => p \notin Above[F.kb])
      BY <1>2 DEF SeatInv, KbOK
    <2>2. RootWindow(R, F.kb) = RootWindow(F, F.kb)
      BY <1>1, <2>1, FocusAssumption DEF RootWindow
    <2> QED
      BY <1>1, <2>2 DEF SeatInv, ActiveOK
  <1>5. GrabStep(F, R)
    BY <1>0, <1>1, SameKbGrab
  <1> QED
    BY <1>1, <1>3, <1>4, <1>5 DEF SeatInv, R

-----------------------------------------------------------------------------
\* Input

LEMMA GlobalPressInv ==
  ASSUME NEW F, NEW h, SeatInv(F, h), NEW s \in F.surfaces \cup {None}
  PROVE  LET R == GlobalPress(F, s)
         IN /\ SeatInv(R, h) /\ R.windows = F.windows /\ SameGrabs(F, R)
            /\ GrabStep(F, R)
  <1> DEFINE w == IF s \in F.windows \cup F.popups THEN s ELSE None
             D == IF ~ClickEndsGrab(F, s) THEN F
                  ELSE IF w # None THEN DismissOnly(F) ELSE Dismiss(F)
             R == IF w # None THEN SetFocused(D, w)
                  ELSE IF TakesClick(D, s) THEN SetKb(D, s) ELSE D
  <1>0. F \in Seats /\ GlobalPress(F, s) = R
    BY DEF SeatInv, Consistent, GlobalPress
  <1>w. w \in Roles \cup {None}
    BY <1>0 DEF Seats, Roles
  <1>1. /\ SeatInv(D, h) /\ SameGrabs(F, D) /\ D.windows = F.windows
        /\ (D = F \/ D.stack = <<>>)
    <2>1. CASE ~ClickEndsGrab(F, s)
      BY <2>1 DEF SameGrabs
    <2>2. CASE ClickEndsGrab(F, s) /\ w # None
      <3>1. D = DismissOnly(F)
        BY <2>2
      <3>2. /\ DismissOnly(F) \in Seats /\ SameKeyboard(F, DismissOnly(F))
            /\ DismissOnly(F).stack = <<>>
        BY <1>0, DismissOnlySame
      <3>3. SeatInv(DismissOnly(F), h)
        BY <3>2, SameInv DEF SeatInv
      <3> QED
        BY <3>1, <3>2, <3>3 DEF SameKeyboard, SameGrabs
    <2>3. CASE ClickEndsGrab(F, s) /\ w = None
      <3>1. D = Dismiss(F)
        BY <2>3
      <3> QED
        BY <3>1, DismissInv DEF SameGrabs
    <2> QED
      BY <2>1, <2>2, <2>3
  <1> HIDE DEF D, w
  <1>2. CASE w # None
    <2>1. /\ SeatInv(SetFocused(D, w), h) /\ SetFocused(D, w).windows = D.windows
          /\ SameGrabs(D, SetFocused(D, w)) /\ GrabStep(D, SetFocused(D, w))
      BY <1>1, <1>w, SetFocusedInv, SetFocusedGrab
    <2>2. GrabStep(F, SetFocused(D, w))
      BY <1>1, <2>1 DEF GrabStep, SameGrabs
    <2> QED
      BY <1>0, <1>1, <1>2, <2>1, <2>2 DEF SameGrabs
  <1>3. CASE w = None /\ TakesClick(D, s)
    <2>1. /\ SeatInv(SetKb(D, s), h) /\ SetKb(D, s).windows = D.windows
          /\ SameGrabs(D, SetKb(D, s)) /\ SetKb(D, s).kb = s
      BY <1>1, <1>3, SetKbInv DEF SeatInv, SameGrabs, Target
    <2>2. GrabStep(F, SetKb(D, s))
      BY <1>0, <1>3, <2>1, SameKbGrab DEF TakesClick
    <2> QED
      BY <1>0, <1>1, <1>3, <2>1, <2>2 DEF SameGrabs
  <1>4. CASE w = None /\ ~TakesClick(D, s)
    <2>1. GrabStep(F, D)
      BY <1>0, <1>1, SameKbGrab DEF GrabStep
    <2> QED
      BY <1>0, <1>1, <1>4, <2>1
  <1> QED
    BY <1>2, <1>3, <1>4

LEMMA TouchDownInv ==
  ASSUME NEW F, NEW h, SeatInv(F, h), NEW s
  PROVE  LET R == TouchDown(F, s)
         IN /\ SeatInv(R, h) /\ R.windows = F.windows /\ SameGrabs(F, R)
            /\ GrabStep(F, R)
  <1>0. F \in Seats
    BY DEF SeatInv, Consistent
  <1>1. CASE s \in F.windows \cup F.popups
    <2>1. s \in Roles \cup {None} /\ TouchDown(F, s) = SetFocused(F, s)
      BY <1>0, <1>1 DEF Seats, Roles, TouchDown
    <2> QED
      BY <2>1, SetFocusedInv, SetFocusedGrab
  <1>2. CASE s \notin F.windows \cup F.popups
    BY <1>0, <1>2, SameKbGrab DEF TouchDown, SameGrabs
  <1> QED
    BY <1>1, <1>2

\* The GTK host gives the keyboard to a window that exists, or takes it away.
LEMMA MoveKb ==
  ASSUME NEW F, SeatInv(F, FALSE), NEW w \in F.windows \cup {None},
         w = None => F.kb \in F.windows
  PROVE  LET R == [F EXCEPT !.kb = w, !.keys = w]
         IN SeatInv(R, FALSE) /\ R.windows = F.windows /\ SameGrabs(F, R)
  <1> DEFINE R == [F EXCEPT !.kb = w, !.keys = w]
  <1>0. F \in Seats /\ w \in F.surfaces \cup {None} /\ w \notin Popups
        /\ w \notin Layers /\ None \notin F.surfaces
    BY FocusAssumption DEF SeatInv, Consistent, Seats, Surfaces, Roles
  <1>1. /\ R \in Seats /\ R.popups = F.popups /\ R.windows = F.windows
        /\ R.surfaces = F.surfaces /\ R.born = F.born /\ R.layers = F.layers
        /\ R.kb = w /\ R.keys = w /\ R.activated = F.activated
        /\ R.clients = F.clients /\ R.stack = F.stack
    BY <1>0 DEF Seats
  <1> HIDE DEF R
  <1>2. Consistent(R)
    BY <1>1 DEF SeatInv, Consistent
  <1>3. KbOK(R) /\ KeysOK(R)
    BY <1>0, <1>1 DEF KbOK, KeysOK
  <1> QED
    BY <1>1, <1>2, <1>3 DEF SeatInv, SameGrabs, R

LEMMA BookOK ==
  ASSUME NEW F, SeatInv(F, FALSE), NEW w \in Roles \cup {None}
  PROVE  LET R == BookFocus(F, w)
         IN SeatInv(R, FALSE) /\ R.windows = F.windows /\ SameGrabs(F, R)
  <1>1. /\ BookFocus(F, w) \in Seats /\ SameKeyboard(F, BookFocus(F, w))
        /\ BookFocus(F, w).stack = F.stack
    BY BookFocusSame DEF SeatInv, Consistent
  <1>2. SeatInv(BookFocus(F, w), FALSE)
    BY <1>1, SameInv DEF SeatInv
  <1> QED
    BY <1>1, <1>2 DEF SameGrabs, SameKeyboard

LEMMA HostStepInv ==
  ASSUME NEW F, SeatInv(F, FALSE), NEW w \in Toplevels
  PROVE  /\ LET R == InjectEnter(F, w)
            IN SeatInv(R, FALSE) /\ R.windows = F.windows /\ SameGrabs(F, R)
         /\ LET R == InjectLeave(F, w)
            IN SeatInv(R, FALSE) /\ R.windows = F.windows /\ SameGrabs(F, R)
         /\ LET R == ApplyFocus(F, w)
            IN SeatInv(R, FALSE) /\ R.windows = F.windows /\ SameGrabs(F, R)
  <1>0. SameGrabs(F, F)
    BY DEF SameGrabs
  <1>1. CASE w \in F.windows
    <2> DEFINE E == [F EXCEPT !.kb = w, !.keys = w]
               L == [F EXCEPT !.kb = None, !.keys = None]
    <2>1. SeatInv(E, FALSE) /\ E.windows = F.windows /\ SameGrabs(F, E)
      <3>1. w # None
        BY FocusAssumption DEF Surfaces
      <3> QED
        BY <1>1, <3>1, MoveKb
    <2>2. F.kb = w => SeatInv(L, FALSE) /\ L.windows = F.windows /\ SameGrabs(F, L)
      BY <1>1, MoveKb
    <2>3. /\ InjectEnter(F, w) \in {E, F}
          /\ InjectLeave(F, w) = IF F.kb = w THEN BookFocus(L, None) ELSE F
          /\ ApplyFocus(F, w) \in {BookFocus(E, w), F}
      BY <1>1 DEF InjectEnter, InjectLeave, ApplyFocus
    <2> HIDE DEF E, L
    <2>4. /\ SeatInv(BookFocus(E, w), FALSE) /\ BookFocus(E, w).windows = E.windows
          /\ SameGrabs(E, BookFocus(E, w))
      BY <2>1, BookOK DEF Roles
    <2>5. F.kb = w => /\ SeatInv(BookFocus(L, None), FALSE)
                      /\ BookFocus(L, None).windows = L.windows
                      /\ SameGrabs(L, BookFocus(L, None))
      BY <2>2, BookOK
    <2> QED
      BY <1>0, <2>1, <2>2, <2>3, <2>4, <2>5 DEF SameGrabs
  <1>2. CASE w \notin F.windows
    BY <1>0, <1>2 DEF InjectEnter, InjectLeave, ApplyFocus
  <1> QED
    BY <1>1, <1>2

LEMMA SetActivatedInv ==
  ASSUME NEW F, SeatInv(F, FALSE), NEW w \in Toplevels, NEW on \in BOOLEAN
  PROVE  LET R == SetActivated(F, w, on)
         IN SeatInv(R, FALSE) /\ R.windows = F.windows /\ SameGrabs(F, R)
  <1> DEFINE a == IF on THEN F.activated \cup {w} ELSE F.activated \ {w}
             R == [F EXCEPT !.activated = a]
  <1>0. F \in Seats
    BY DEF SeatInv, Consistent
  <1>1. SetActivated(F, w, on) = IF w \notin F.windows THEN F ELSE R
    BY DEF SetActivated
  <1>2. a \in SUBSET Toplevels
    BY <1>0 DEF Seats
  <1> HIDE DEF a
  <1>3. /\ R \in Seats /\ R.popups = F.popups /\ R.windows = F.windows
        /\ R.surfaces = F.surfaces /\ R.born = F.born /\ R.layers = F.layers
        /\ R.kb = F.kb /\ R.keys = F.keys
        /\ R.clients = F.clients /\ R.stack = F.stack
    BY <1>0, <1>2 DEF Seats
  <1> HIDE DEF R
  <1>4. SeatInv(R, FALSE)
    BY <1>3 DEF SeatInv, Consistent, KbOK, KeysOK, TakesClick
  <1> QED
    BY <1>1, <1>3, <1>4 DEF SameGrabs

-----------------------------------------------------------------------------
\* The invariant, and what every step does

HostOK ==
  /\ headless \in BOOLEAN /\ hosted \subseteq Toplevels
  /\ active \in Toplevels \cup {None} /\ leaving \in Clients \cup {None}
  /\ headless => hosted = {} /\ active = None

\* A client that is being cleaned up after is gone; popups of no other client
\* that is gone are left.
ClientsOK ==
  /\ leaving \notin seat.clients
  /\ \A p \in seat.popups : Owner[p] \in seat.clients \cup {leaving}

FocusInv == SeatInv(seat, headless) /\ StackOK(seat) /\ HostOK /\ ClientsOK

\* The next window has the keyboard when the focused one is closed.
NextStep(F, R) ==
  F.focused \in F.windows /\ F.focused \notin R.windows
    /\ Range(F.history) \cap R.windows # {}
  => R.kb \in R.windows \cup Layers

StepOK ==
  /\ FocusInv'
  /\ headless => GrabStep(seat, seat') /\ NextStep(seat, seat')

\* Most steps leave the hosts and the popups alone.
LEMMA SeatStep ==
  ASSUME FocusInv, SeatInv(seat', headless), SameGrabs(seat, seat'), leaving' = leaving,
         HostOK', headless' = headless, headless => GrabStep(seat, seat'),
         seat.windows \subseteq seat'.windows \/ (headless => NextStep(seat, seat'))
  PROVE  StepOK
  <1>1. StackOK(seat)'
    BY SameGrabsOK DEF FocusInv
  <1>2. ClientsOK'
    BY DEF FocusInv, ClientsOK, SameGrabs
  <1>3. headless => NextStep(seat, seat')
    BY DEF NextStep
  <1> QED
    BY <1>1, <1>2, <1>3 DEF FocusInv, StepOK

LEMMA InitInv == FocusInit => FocusInv
  <1> SUFFICES ASSUME FocusInit PROVE FocusInv
    OBVIOUS
  <1>0. seat = EmptySeat /\ headless \in BOOLEAN /\ hosted = {} /\ active = None
        /\ leaving = None
    BY DEF FocusInit
  <1>1. [l \in Layers |-> "unmapped"] \in [Layers -> Interactivities]
    BY FocusAssumption
  <1>2. <<>> \in Seq(Popups) /\ <<>> \in Seq(Roles)
    BY EmptySeq
  <1> DEFINE m == [l \in Layers |-> "unmapped"]
  <1>3. /\ seat.clients = Clients /\ seat.surfaces = {} /\ seat.windows = {}
        /\ seat.popups = {} /\ seat.born = {} /\ seat.minimized = {}
        /\ seat.activated = {} /\ seat.layers = m /\ seat.focused = None
        /\ seat.history = <<>> /\ seat.kb = None /\ seat.keys = None /\ seat.stack = <<>>
    BY <1>0 DEF EmptySeat
  <1>4. seat \in Seats
    BY <1>0, <1>1, <1>2 DEF EmptySeat, Seats
  <1>5. Consistent(seat)
    BY <1>3, <1>4 DEF Consistent
  <1>6. KbOK(seat) /\ KeysOK(seat)
    BY <1>3, FocusAssumption DEF KbOK, KeysOK, Surfaces, Roles
  <1>7. ActiveOK(seat)
    BY <1>3, <1>4, RootOfNone DEF ActiveOK
  <1>8. StackOK(seat)
    BY <1>3, EmptyStack DEF StackOK
  <1>9. HostOK /\ ClientsOK
    BY <1>0, <1>3, FocusAssumption DEF HostOK, ClientsOK
  <1> QED
    BY <1>5, <1>6, <1>7, <1>8, <1>9 DEF FocusInv, SeatInv

LEMMA ToplevelSteps ==
  ASSUME FocusInv, NEW w \in Toplevels,
         NewToplevel(w) \/ Minimize(w) \/ Activate(w)
  PROVE  StepOK
  <1>0. SeatInv(seat, headless) /\ HostOK
    BY DEF FocusInv
  <1>1. CASE NewToplevel(w)
    <2>1. seat' = RegisterWindow(seat, w, headless) /\ w \notin seat.born
          /\ Owner[w] \in seat.clients
          /\ UNCHANGED <<headless, hosted, active, leaving>>
      BY <1>1 DEF NewToplevel
    <2>2. /\ SeatInv(seat', headless) /\ seat'.windows = seat.windows \cup {w}
          /\ SameGrabs(seat, seat') /\ GrabStep(seat, seat')
      BY <1>0, <2>1, RegisterWindowInv
    <2>3. HostOK'
      BY <1>0, <2>1 DEF HostOK
    <2> QED
      BY <2>1, <2>2, <2>3, SeatStep
  <1>2. CASE Minimize(w)
    <2>1. seat' = MinimizeToplevel(seat, w, headless)
          /\ UNCHANGED <<headless, hosted, active, leaving>>
      BY <1>2 DEF Minimize
    <2>2. /\ SeatInv(seat', headless) /\ seat'.windows = seat.windows
          /\ SameGrabs(seat, seat') /\ GrabStep(seat, seat')
      BY <1>0, <2>1, MinimizeInv
    <2>3. HostOK'
      BY <1>0, <2>1 DEF HostOK
    <2> QED
      BY <2>1, <2>2, <2>3, SeatStep
  <1>3. CASE Activate(w)
    <2>1. seat' = ActivateWindow(seat, w)
          /\ UNCHANGED <<headless, hosted, active, leaving>>
      BY <1>3 DEF Activate
    <2>2. /\ SeatInv(seat', headless) /\ seat'.windows = seat.windows
          /\ SameGrabs(seat, seat') /\ GrabStep(seat, seat')
      BY <1>0, <2>1, ActivateInv
    <2>3. HostOK'
      BY <1>0, <2>1 DEF HostOK
    <2> QED
      BY <2>1, <2>2, <2>3, SeatStep
  <1> QED
    BY <1>1, <1>2, <1>3

\* The three ways a window is destroyed
LEMMA DestroySteps ==
  ASSUME FocusInv, NEW w \in Toplevels,
         ToplevelDestroyed(w) \/ CleanUpWindow(w) \/ ForceDestroy(w)
  PROVE  StepOK
  <1>0. /\ SeatInv(seat, headless) /\ HostOK /\ Consistent(seat) /\ KbOK(seat)
        /\ KeysOK(seat) /\ (headless => ActiveOK(seat)) /\ seat \in Seats
    BY DEF FocusInv, SeatInv, Consistent
  <1>1. CASE ToplevelDestroyed(w)
    <2> DEFINE G == [seat EXCEPT !.activated = @ \ {w}]
    <2>1. seat' = DestroyWindow(G, w, headless) /\ w \in seat.windows
          /\ UNCHANGED <<headless, hosted, active, leaving>>
      BY <1>1 DEF ToplevelDestroyed
    <2>2. /\ G \in Seats /\ G.popups = seat.popups /\ G.windows = seat.windows
          /\ G.surfaces = seat.surfaces /\ G.born = seat.born /\ G.layers = seat.layers
          /\ G.kb = seat.kb /\ G.keys = seat.keys /\ G.activated = seat.activated \ {w}
          /\ G.clients = seat.clients /\ G.stack = seat.stack
          /\ G.focused = seat.focused /\ G.history = seat.history
      BY <1>0 DEF Seats
    <2> HIDE DEF G
    <2>3. Consistent(G) /\ KbOK(G) /\ KeysOK(G)
      BY <1>0, <2>2 DEF Consistent, KbOK, KeysOK, TakesClick
    <2>4. headless => RootWindow(G, G.kb) \in G.activated \cup {w, None}
      <3>1. RootWindow(G, G.kb) = RootWindow(seat, seat.kb)
        BY <2>2 DEF RootWindow
      <3> QED
        BY <1>0, <2>2, <3>1 DEF ActiveOK
    <2>5. /\ SeatInv(seat', headless) /\ seat'.windows = G.windows \ {w}
          /\ SameGrabs(G, seat') /\ GrabStep(G, seat')
          /\ (headless /\ G.focused = w /\ Range(G.history) \cap seat'.windows # {}
               => seat'.kb \in seat'.windows \cup Layers)
      <3>1. w \in G.windows /\ seat' = DestroyWindow(G, w, headless)
        BY <2>1, <2>2
      <3> QED
        BY <2>3, <2>4, <3>1, DestroyWindowInv
    <2>6. HostOK'
      BY <1>0, <2>1 DEF HostOK
    <2>7. SameGrabs(seat, seat') /\ GrabStep(seat, seat')
      BY <2>2, <2>5 DEF SameGrabs, GrabStep
    <2>8. headless => NextStep(seat, seat')
      BY <2>2, <2>5 DEF NextStep
    <2> QED
      BY <2>1, <2>5, <2>6, <2>7, <2>8, SeatStep
  <1>2. CASE CleanUpWindow(w) \/ ForceDestroy(w)
    <2>1. seat' = DestroyWindow(seat, w, headless) /\ w \in seat.windows
          /\ UNCHANGED <<headless, hosted, active, leaving>>
      BY <1>2 DEF CleanUpWindow, ForceDestroy
    <2>4. headless => RootWindow(seat, seat.kb) \in seat.activated \cup {w, None}
      BY <1>0 DEF ActiveOK
    <2>5. /\ SeatInv(seat', headless) /\ seat'.windows = seat.windows \ {w}
          /\ SameGrabs(seat, seat') /\ GrabStep(seat, seat')
          /\ (headless /\ seat.focused = w /\ Range(seat.history) \cap seat'.windows # {}
               => seat'.kb \in seat'.windows \cup Layers)
      BY <1>0, <2>1, <2>4, DestroyWindowInv
    <2>6. HostOK'
      BY <1>0, <2>1 DEF HostOK
    <2>8. headless => NextStep(seat, seat')
      BY <2>5 DEF NextStep
    <2> QED
      BY <2>1, <2>5, <2>6, <2>8, SeatStep
  <1> QED
    BY <1>1, <1>2

LEMMA PopupSteps ==
  ASSUME FocusInv, leaving = None, NEW p \in Popups,
         NewPopup(p) \/ Grab(p) \/ DestroyPopup(p)
  PROVE  StepOK
  <1>0. SeatInv(seat, headless) /\ HostOK /\ StackOK(seat) /\ seat \in Seats
    BY DEF FocusInv, SeatInv, Consistent
  <1>1. UNCHANGED <<headless, hosted, active, leaving>>
    BY DEF NewPopup, Grab, DestroyPopup
  <1>2. HostOK'
    BY <1>0, <1>1 DEF HostOK
  <1>3. \A q \in Popups : Owner[q] \in Clients /\ Owner[q] # None
    BY FocusAssumption DEF Surfaces, Roles
  <1>4. \A q \in seat.popups : Owner[q] \in seat.clients
    BY <1>0, <1>3 DEF FocusInv, ClientsOK, Seats
  <1>5. CASE NewPopup(p)
    <2>1. /\ seat' = [seat EXCEPT !.popups = @ \cup {p}, !.surfaces = @ \cup {p}]
          /\ p \notin seat.surfaces /\ Owner[p] \in seat.clients
          /\ \A q \in seat.popups : p \notin Above[q]
          /\ (Top[p] # None => Top[p] \in seat.windows)
      BY <1>5 DEF NewPopup
    <2>2. /\ SeatInv(seat', headless) /\ seat'.windows = seat.windows
          /\ seat'.clients = seat.clients /\ seat'.popups = seat.popups \cup {p}
          /\ seat'.stack = seat.stack /\ GrabStep(seat, seat')
      BY <1>0, <2>1, NewPopupInv
    <2>3. StackOK(seat)' /\ ClientsOK'
      BY <1>0, <1>1, <2>1, <2>2 DEF StackOK, ClientsOK, FocusInv
    <2> QED
      BY <1>1, <1>2, <2>2, <2>3 DEF FocusInv, StepOK, NextStep
  <1>6. CASE Grab(p)
    <2>1. seat' = BeginGrab(seat, p) /\ p \in seat.popups
      BY <1>6 DEF Grab
    <2>2. /\ SeatInv(seat', headless) /\ seat'.windows = seat.windows
          /\ seat'.clients = seat.clients /\ seat'.popups = seat.popups
          /\ StackOK(seat') /\ GrabStep(seat, seat')
      BY <1>0, <2>1, BeginGrabInv, BeginGrabOK
    <2>3. ClientsOK'
      BY <1>1, <2>2 DEF ClientsOK, FocusInv
    <2> QED
      BY <1>1, <1>2, <2>2, <2>3 DEF FocusInv, StepOK, NextStep
  <1>7. CASE DestroyPopup(p)
    <2>1. seat' = PopupDestroyed(seat, p) /\ p \in seat.popups
      BY <1>7 DEF DestroyPopup
    <2>2. /\ SeatInv(seat', headless) /\ seat'.windows = seat.windows
          /\ seat'.clients = seat.clients /\ seat'.popups = seat.popups \ {p}
      BY <1>0, <2>1, PopupDestroyedInv
    <2>3. StackOK(seat') /\ GrabStep(seat, seat')
      BY <1>0, <1>4, <2>1, PopupDestroyedGrab
    <2>4. ClientsOK'
      BY <1>1, <2>2 DEF ClientsOK, FocusInv
    <2> QED
      BY <1>1, <1>2, <2>2, <2>3, <2>4 DEF FocusInv, StepOK, NextStep
  <1> QED
    BY <1>5, <1>6, <1>7

LEMMA SurfaceSteps ==
  ASSUME FocusInv, NEW s \in Surfaces \cup {None},
         DestroySurface(s) \/ HeadlessPress(s) \/ HeadlessTouch(s)
  PROVE  StepOK
  <1>0. SeatInv(seat, headless) /\ HostOK
    BY DEF FocusInv
  <1>1. UNCHANGED <<headless, hosted, active, leaving>>
    BY DEF DestroySurface, HeadlessPress, HeadlessTouch
  <1>2. HostOK'
    BY <1>0, <1>1 DEF HostOK
  <1>3. /\ SeatInv(seat', headless) /\ seat'.windows = seat.windows
        /\ SameGrabs(seat, seat') /\ GrabStep(seat, seat')
    <2>1. CASE DestroySurface(s)
      BY <1>0, <2>1, RemoveSurfaceInv DEF DestroySurface
    <2>2. CASE HeadlessPress(s)
      BY <1>0, <2>2, GlobalPressInv DEF HeadlessPress
    <2>3. CASE HeadlessTouch(s)
      BY <1>0, <2>3, TouchDownInv DEF HeadlessTouch
    <2> QED
      BY <2>1, <2>2, <2>3
  <1> QED
    BY <1>1, <1>2, <1>3, SeatStep

LEMMA LayerSteps ==
  ASSUME FocusInv, NEW l \in Layers, NEW i \in Interactivities, LayerCommit(l, i)
  PROVE  StepOK
  <1>0. SeatInv(seat, headless) /\ HostOK
    BY DEF FocusInv
  <1>1. /\ seat' = CommitLayer(seat, l, i) /\ Owner[l] \in seat.clients
        /\ UNCHANGED <<headless, hosted, active, leaving>>
    BY DEF LayerCommit
  <1>2. HostOK'
    BY <1>0, <1>1 DEF HostOK
  <1>3. /\ SeatInv(seat', headless) /\ seat'.windows = seat.windows
        /\ SameGrabs(seat, seat') /\ GrabStep(seat, seat')
    BY <1>0, <1>1, CommitLayerInv
  <1> QED
    BY <1>1, <1>2, <1>3, SeatStep

LEMMA ClientSteps ==
  ASSUME FocusInv,
         \/ leaving = None /\ \E c \in Clients : Disconnect(c)
         \/ CleanUpSurfaces
  PROVE  StepOK
  <1>0. SeatInv(seat, headless) /\ StackOK(seat) /\ HostOK /\ ClientsOK /\ seat \in Seats
        /\ None \notin Clients
    BY FocusAssumption DEF FocusInv, SeatInv, Consistent
  <1>1. CASE leaving = None /\ \E c \in Clients : Disconnect(c)
    <2>1. PICK c \in Clients : Disconnect(c)
      BY <1>1
    <2>2. /\ c \in seat.clients /\ seat' = LayersGone(seat, c) /\ leaving' = c
          /\ UNCHANGED <<headless, hosted, active>>
      BY <2>1 DEF Disconnect
    <2>3. /\ SeatInv(seat', headless) /\ seat'.windows = seat.windows
          /\ seat'.popups = seat.popups /\ seat'.clients = seat.clients \ {c}
          /\ StackOK(seat') /\ GrabStep(seat, seat')
      BY <1>0, <2>2, LayersGoneInv
    <2>4. HostOK'
      BY <1>0, <2>2 DEF HostOK
    <2>5. \A p \in seat.popups : Owner[p] \in seat.clients
      BY <1>0, <1>1, FocusAssumption DEF ClientsOK, Seats, Surfaces, Roles
    <2>6. ClientsOK'
      BY <2>2, <2>3, <2>5 DEF ClientsOK
    <2> QED
      BY <2>2, <2>3, <2>4, <2>6 DEF FocusInv, StepOK, NextStep
  <1>2. CASE CleanUpSurfaces
    <2>2. /\ leaving \in Clients /\ leaving \notin seat.clients
          /\ \A w \in seat.windows : Owner[w] # leaving
          /\ \E known \in BOOLEAN : seat' = SurfacesGone(seat, leaving, known)
          /\ leaving' = None
          /\ UNCHANGED <<headless, hosted, active>>
      BY <1>0, <1>2 DEF CleanUpSurfaces, HostOK, ClientsOK
    <2>3. /\ SeatInv(seat', headless) /\ StackOK(seat') /\ GrabStep(seat, seat')
          /\ seat'.windows = seat.windows /\ seat'.clients = seat.clients
          /\ seat'.popups = {p \in seat.popups : Owner[p] # leaving}
      BY <1>0, <2>2, SurfacesGoneInv
    <2>4. HostOK'
      BY <1>0, <2>2 DEF HostOK
    <2>5. None \notin seat.clients
      BY <1>0 DEF Seats
    <2>6. ClientsOK'
      BY <1>0, <2>2, <2>3, <2>5 DEF ClientsOK
    <2> QED
      BY <2>2, <2>3, <2>4, <2>6 DEF FocusInv, StepOK, NextStep
  <1> QED
    BY <1>1, <1>2

LEMMA GtkSteps ==
  ASSUME FocusInv, NEW w \in Toplevels,
         \/ HostWindowCreated(w) \/ HostWindowDestroyed(w) \/ FocusIn(w)
         \/ FocusOut \/ \E s \in Surfaces : GtkPress(w, s)
  PROVE  StepOK
  <1>0. SeatInv(seat, headless) /\ HostOK /\ SameGrabs(seat, seat)
        /\ (headless => hosted = {} /\ active = None) /\ headless \in BOOLEAN
        /\ None \notin Toplevels
    BY FocusAssumption DEF FocusInv, HostOK, SameGrabs, Surfaces, Roles
  <1>2. CASE HostWindowCreated(w) \/ HostWindowDestroyed(w)
    <2>1. seat' = seat /\ headless' = headless /\ leaving' = leaving
      BY <1>2 DEF HostWindowCreated, HostWindowDestroyed
    <2>2. HostOK'
      BY <1>0, <1>2 DEF HostOK, HostWindowCreated, HostWindowDestroyed
    <2>3. headless => GrabStep(seat, seat')
      BY <1>0, <2>1, SameKbGrab DEF SeatInv, Consistent
    <2> QED
      BY <1>0, <2>1, <2>2, <2>3, SeatStep
  <1>3. CASE FocusIn(w) \/ FocusOut \/ \E s \in Surfaces : GtkPress(w, s)
    <2>1. ~headless /\ headless' = headless /\ leaving' = leaving /\ hosted' = hosted
          /\ active' \in Toplevels \cup {None}
      BY <1>0, <1>3 DEF FocusIn, FocusOut, GtkPress, HostOK
    <2>2. HostOK'
      BY <1>0, <2>1 DEF HostOK
    <2>3. SeatInv(seat, FALSE)
      BY <2>1, <1>0 DEF SeatInv
    <2>4. /\ SeatInv(seat', FALSE) /\ seat'.windows = seat.windows
          /\ SameGrabs(seat, seat')
      <3>1. CASE FocusIn(w)
        <4> DEFINE x == ApplyFocus(InjectEnter(seat, w), w)
                   y == InjectEnter(ApplyFocus(seat, w), w)
        <4>1. SeatInv(x, FALSE) /\ x.windows = seat.windows /\ SameGrabs(seat, x)
          BY <2>3, HostStepInv DEF SameGrabs
        <4>2. SeatInv(y, FALSE) /\ y.windows = seat.windows /\ SameGrabs(seat, y)
          BY <2>3, HostStepInv DEF SameGrabs
        <4>3. seat' \in {SetActivated(x, w, TRUE), SetActivated(y, w, TRUE)}
          BY <3>1 DEF FocusIn
        <4> HIDE DEF x, y
        <4>4. /\ SeatInv(SetActivated(x, w, TRUE), FALSE)
              /\ SetActivated(x, w, TRUE).windows = x.windows
              /\ SameGrabs(x, SetActivated(x, w, TRUE))
          BY <4>1, SetActivatedInv
        <4>5. /\ SeatInv(SetActivated(y, w, TRUE), FALSE)
              /\ SetActivated(y, w, TRUE).windows = y.windows
              /\ SameGrabs(y, SetActivated(y, w, TRUE))
          BY <4>2, SetActivatedInv
        <4> QED
          BY <4>1, <4>2, <4>3, <4>4, <4>5 DEF SameGrabs
      <3>2. CASE FocusOut
        <4> DEFINE x == InjectLeave(seat, active)
        <4>0. active \in Toplevels
          BY <3>2, <1>0 DEF FocusOut, HostOK
        <4>1. SeatInv(x, FALSE) /\ x.windows = seat.windows /\ SameGrabs(seat, x)
          BY <2>3, <4>0, HostStepInv
        <4>2. seat' = SetActivated(x, active, FALSE)
          BY <3>2 DEF FocusOut
        <4> HIDE DEF x
        <4> QED
          BY <4>0, <4>1, <4>2, SetActivatedInv DEF SameGrabs
      <3>3. CASE \E s \in Surfaces : GtkPress(w, s)
        <4> DEFINE x == PressOutsideGrab(seat)
        <4>1. SeatInv(x, FALSE) /\ x.windows = seat.windows /\ SameGrabs(seat, x)
          BY <1>0, <2>3, DismissInv DEF PressOutsideGrab, SameGrabs
        <4>2. seat' = InjectEnter(x, w)
          BY <3>3 DEF GtkPress
        <4> HIDE DEF x
        <4> QED
          BY <4>1, <4>2, HostStepInv DEF SameGrabs
      <3> QED
        BY <1>3, <3>1, <3>2, <3>3
    <2>5. SeatInv(seat', headless)
      BY <2>1, <2>4 DEF SeatInv
    <2> QED
      BY <2>1, <2>2, <2>4, <2>5, SeatStep
  <1> QED
    BY <1>2, <1>3

LEMMA FocusStep ==
  ASSUME FocusInv, [FocusNext]_focusVars
  PROVE  FocusInv' /\ (headless => GrabStep(seat, seat') /\ NextStep(seat, seat'))
  <1>1. CASE CleanUp
    BY <1>1, ClientSteps, DestroySteps DEF CleanUp, StepOK
  <1>2. CASE leaving = None /\ ClientNext
    <2>1. CASE \E w \in Toplevels : NewToplevel(w) \/ Minimize(w) \/ Activate(w)
      BY <2>1, ToplevelSteps DEF StepOK
    <2>2. CASE \E w \in Toplevels : ToplevelDestroyed(w)
      BY <2>2, DestroySteps DEF StepOK
    <2>3. CASE \E p \in Popups : NewPopup(p) \/ Grab(p) \/ DestroyPopup(p)
      BY <1>2, <2>3, PopupSteps DEF StepOK
    <2>4. CASE \E s \in Surfaces : DestroySurface(s)
      BY <2>4, SurfaceSteps DEF StepOK
    <2>5. CASE \E l \in Layers, i \in Interactivities : LayerCommit(l, i)
      BY <2>5, LayerSteps DEF StepOK
    <2>6. CASE \E c \in Clients : Disconnect(c)
      BY <1>2, <2>6, ClientSteps DEF StepOK
    <2> QED
      BY <1>2, <2>1, <2>2, <2>3, <2>4, <2>5, <2>6 DEF ClientNext
  <1>3. CASE HeadlessNext
    BY <1>3, SurfaceSteps DEF HeadlessNext, StepOK
  <1>4. CASE GtkNext
    <2>1. CASE \E w \in Toplevels : ForceDestroy(w)
      BY <2>1, DestroySteps DEF StepOK
    <2>2. CASE \E w \in Toplevels : HostWindowCreated(w) \/ HostWindowDestroyed(w)
                                    \/ FocusIn(w)
      BY <2>2, GtkSteps DEF StepOK
    <2>3. CASE FocusOut
      <3>1. active \in Toplevels
        BY <2>3 DEF FocusOut, FocusInv, HostOK
      <3> QED
        BY <2>3, <3>1, GtkSteps DEF StepOK
    <2>4. CASE \E w \in Toplevels, s \in Surfaces : GtkPress(w, s)
      BY <2>4, GtkSteps DEF StepOK
    <2> QED
      BY <1>4, <2>1, <2>2, <2>3, <2>4 DEF GtkNext
  <1>5. CASE UNCHANGED focusVars
    <2>1. SameGrabs(seat, seat') /\ SeatInv(seat', headless) /\ HostOK'
          /\ headless' = headless /\ leaving' = leaving /\ seat' = seat
      BY <1>5 DEF focusVars, SameGrabs, FocusInv, HostOK
    <2>2. GrabStep(seat, seat')
      BY <2>1, SameKbGrab DEF SeatInv, Consistent
    <2> QED
      BY <2>1, <2>2, SeatStep DEF StepOK
  <1> QED
    BY <1>1, <1>2, <1>3, <1>4, <1>5 DEF FocusNext

-----------------------------------------------------------------------------
\* The properties, for every value of the constants

THEOREM FocusInvariant == FocusSpec => []FocusInv
  <1>1. FocusInv /\ [FocusNext]_focusVars => FocusInv'
    BY FocusStep
  <1> QED
    BY InitInv, <1>1, PTL DEF FocusSpec

\* Types: what is focused, grabs and has the keyboard is what it may be.
THEOREM FocusTypesCorrect == FocusSpec => []FocusTypeOK
  <1>1. FocusInv => FocusTypeOK
    BY DEF FocusInv, SeatInv, Consistent, HostOK, FocusTypeOK
  <1> QED
    BY FocusInvariant, <1>1, PTL

\* The keyboard is never on a surface or a popup that is gone, under either host.
THEOREM KeyboardLives == FocusSpec => []KeyboardIsLive
  <1>1. FocusInv => KeyboardIsLive
    BY DEF FocusInv, SeatInv, KbOK, KeyboardIsLive
  <1> QED
    BY FocusInvariant, <1>1, PTL

\* Smithay sends keys to the surface the core says has the keyboard.
THEOREM KeysFollow == FocusSpec => []KeysFollowFocus
  <1>1. FocusInv => KeysFollowFocus
    BY DEF FocusInv, SeatInv, KeysOK, KeysFollowFocus
  <1> QED
    BY FocusInvariant, <1>1, PTL

\* The grab stack holds no popup twice, and one that is gone only if its client is.
THEOREM GrabsLive == FocusSpec => []GrabsAreLive
  <1>1. FocusInv => GrabsAreLive
    BY DEF FocusInv, StackOK, GrabsAreLive
  <1> QED
    BY FocusInvariant, <1>1, PTL

\* The window that has the keyboard of a headless host is shown as activated.
THEOREM ActivatedIsFocused == FocusSpec => []ActivatedHasKeyboard
  <1>1. FocusInv => ActivatedHasKeyboard
    BY DEF FocusInv, SeatInv, ActiveOK, ActivatedHasKeyboard
  <1> QED
    BY FocusInvariant, <1>1, PTL

\* The keyboard does not go from a popup to another window while the popups of
\* the first go on grabbing.
THEOREM GrabsEnd == FocusSpec => GrabEndsWithFocus
  <1>1. FocusInv /\ [FocusNext]_focusVars => (headless => GrabStep(seat, seat'))
    BY FocusStep
  <1>2. (headless => GrabStep(seat, seat')) =>
          [headless /\ seat.kb \in seat.popups /\ seat'.kb \in Toplevels
           /\ Top[seat.kb] \notin {None, seat'.kb}
           /\ (\A g \in Range(seat.stack) : Top[g] = Top[seat.kb])
           => seat'.stack = <<>>]_focusVars
    BY DEF GrabStep
  <1> QED
    BY FocusInvariant, <1>1, <1>2, PTL DEF FocusSpec, GrabEndsWithFocus

\* Closing the focused window of a headless host gives the next one the keyboard.
THEOREM NextIsFocused == FocusSpec => NextWindowFocused
  <1>1. FocusInv /\ [FocusNext]_focusVars => (headless => NextStep(seat, seat'))
    BY FocusStep
  <1>2. (headless => NextStep(seat, seat')) =>
          [headless /\ seat.focused \in seat.windows /\ seat.focused \notin seat'.windows
           /\ Range(seat.history) \cap seat'.windows # {}
           => seat'.kb \in seat'.windows \cup Layers]_focusVars
    BY DEF NextStep
  <1> QED
    BY FocusInvariant, <1>1, <1>2, PTL DEF FocusSpec, NextWindowFocused
=============================================================================
