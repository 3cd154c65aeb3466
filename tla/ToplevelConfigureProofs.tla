----------------------- MODULE ToplevelConfigureProofs -----------------------
(***************************************************************************)
(* Proofs about ToplevelConfigure, for all sizes, modes and bounds: types, *)
(* the agreement of the core's list of unacknowledged configures with      *)
(* Smithay's, and that a commit waits for the last ack.                    *)
(***************************************************************************)
EXTENDS ToplevelConfigure, SequenceTheorems, TLAPS

-----------------------------------------------------------------------------
\* Types

LEMMA SizesType == Sizes \subseteq Nat /\ SizesOrZero \subseteq Nat /\ Output \in SizesOrZero
  BY SizesAssumption DEF SizesOrZero

LEMMA SendStateType ==
  ASSUME NEW x \in Toplevels, NEW st \in ToplevelStates
  PROVE  SendState(x, st) \in Toplevels
  <1> DEFINE c == [serial |-> x.serial + 1, state |-> st]
             n == x.serial + 1
             u == Append(x.unacked, c)
  <1>1. n \in Nat /\ c \in Configures /\ x.unacked \in Seq(Configures)
    BY DEF Toplevels, Configures
  <1>2. u \in Seq(Configures)
    BY <1>1, AppendProperties
  <1>3. SendState(x, st) = [x EXCEPT !.serial = n, !.sent = st, !.unacked = u]
    BY DEF SendState
  <1> HIDE DEF c, n, u
  <1>4. [x EXCEPT !.serial = n, !.sent = st, !.unacked = u] \in Toplevels
    BY <1>1, <1>2 DEF Toplevels
  <1> QED
    BY <1>3, <1>4

LEMMA RecordSerialType ==
  ASSUME NEW x \in Toplevels
  PROVE  RecordSerial(x) \in Toplevels
  <1>1. x.serial \in Nat /\ Append(x.pending_serials, x.serial) \in Seq(Nat)
    BY AppendProperties DEF Toplevels
  <1> QED
    BY <1>1 DEF RecordSerial, Toplevels

LEMMA SendToplevelConfigureType ==
  ASSUME NEW x \in Toplevels, NEW size \in SizesOrZero
  PROVE  SendToplevelConfigure(x, size) \in Toplevels
  <1> DEFINE w == ConfigureSize(x, size)
             y == [x EXCEPT !.width = w]
             st == [x.sent EXCEPT !.size = w,
                                  !.activated = x.activated,
                                  !.maximized = x.pending_maximized,
                                  !.fullscreen = x.pending_fullscreen,
                                  !.resizing = x.interactive]
  <1>1. w \in SizesOrZero
    BY SizesType DEF ConfigureSize
  <1>2. y \in Toplevels
    BY <1>1 DEF Toplevels
  <1>3. st \in ToplevelStates
    BY <1>1 DEF Toplevels, ToplevelStates
  <1>4. RecordSerial(SendState(y, st)) \in Toplevels
    BY <1>2, <1>3, SendStateType, RecordSerialType
  <1> QED
    BY <1>4 DEF SendToplevelConfigure

LEMMA SetActivatedType ==
  ASSUME NEW x \in Toplevels, NEW b \in BOOLEAN
  PROVE  SetActivated(x, b) \in Toplevels
  <1> DEFINE y == [x EXCEPT !.activated = b]
             st == [x.sent EXCEPT !.activated = b]
  <1>1. y \in Toplevels
    BY DEF Toplevels
  <1>2. st \in ToplevelStates
    BY DEF Toplevels, ToplevelStates
  <1>3. RecordSerial(SendState(y, st)) \in Toplevels
    BY <1>1, <1>2, SendStateType, RecordSerialType
  <1> QED
    BY <1>1, <1>3 DEF SetActivated

LEMMA SendDecorationType ==
  ASSUME NEW x \in Toplevels, NEW mode \in Modes
  PROVE  SendDecoration(x, mode) \in Toplevels
  <1>1. [x.sent EXCEPT !.mode = mode] \in ToplevelStates
    BY DEF Toplevels, ToplevelStates
  <1> QED
    BY <1>1, SendStateType DEF SendDecoration

-----------------------------------------------------------------------------
\* The two lists of unacknowledged configures

\* What a toplevel record satisfies between two handlers.
Bookkept(x) ==
  /\ SerialsOrdered(x)
  /\ ListsAgree(x)
  /\ CacheCorrect(x)
  /\ x.configured => x.pending_serials = <<>>

\* A configure the core does not record keeps the order of the lists.
LEMMA SendStateOrdered ==
  ASSUME NEW x \in Toplevels, NEW st \in ToplevelStates, SerialsOrdered(x)
  PROVE  SerialsOrdered(SendState(x, st))
  <1> DEFINE c == [serial |-> x.serial + 1, state |-> st]
             u == Append(x.unacked, c)
             y == SendState(x, st)
  <1>1. x.serial \in Nat /\ c \in Configures /\ x.unacked \in Seq(Configures)
    BY DEF Toplevels, Configures
  <1>2. y.unacked = u /\ y.serial = x.serial + 1 /\ y.pending_serials = x.pending_serials
    BY DEF SendState, Toplevels
  <1>3. /\ Len(u) = Len(x.unacked) + 1
        /\ \A i \in 1..Len(x.unacked) : u[i] = x.unacked[i]
        /\ u[Len(x.unacked) + 1] = c
    BY <1>1, AppendProperties
  <1>4. Len(x.unacked) \in Nat /\ c.serial = x.serial + 1
    BY <1>1, LenProperties
  <1>5. \A i \in 1..Len(x.unacked) : x.unacked[i].serial \in Nat
    <2> TAKE i \in 1..Len(x.unacked)
    <2>1. x.unacked[i] \in Configures
      BY <1>1, ElementOfSeq
    <2> QED
      BY <2>1 DEF Configures
  <1>6. x.pending_serials \in Seq(Nat)
    BY DEF Toplevels
  <1>7. \A i \in 1..Len(x.pending_serials) : x.pending_serials[i] \in Nat
    BY <1>6, ElementOfSeq
  <1> HIDE DEF c, u, y
  <1>8. \A i, j \in 1..Len(u) : i < j => u[i].serial < u[j].serial
    <2> SUFFICES ASSUME NEW i \in 1..Len(u), NEW j \in 1..Len(u), i < j
                 PROVE  u[i].serial < u[j].serial
      OBVIOUS
    <2>1. i \in 1..Len(x.unacked) /\ u[i] = x.unacked[i]
      BY <1>3, <1>4
    <2>2. CASE j \in 1..Len(x.unacked)
      BY <1>3, <2>1, <2>2 DEF SerialsOrdered
    <2>3. CASE j = Len(x.unacked) + 1
      <3>1. x.unacked[i].serial \in Nat /\ x.unacked[i].serial <= x.serial
        BY <1>5, <2>1 DEF SerialsOrdered
      <3> QED
        BY <1>1, <1>3, <1>4, <2>1, <2>3, <3>1
    <2> QED
      BY <1>3, <1>4, <2>2, <2>3
  <1>9. \A i \in 1..Len(u) : u[i].serial <= x.serial + 1
    <2> TAKE i \in 1..Len(u)
    <2>1. CASE i \in 1..Len(x.unacked)
      <3>1. x.unacked[i].serial \in Nat /\ x.unacked[i].serial <= x.serial
        BY <1>5, <2>1 DEF SerialsOrdered
      <3> QED
        BY <1>1, <1>3, <2>1, <3>1
    <2>2. CASE i = Len(x.unacked) + 1
      BY <1>1, <1>3, <1>4, <2>2
    <2> QED
      BY <1>3, <1>4, <2>1, <2>2
  <1>10. \A i \in 1..Len(x.pending_serials) : x.pending_serials[i] \in 1 .. x.serial + 1
    BY <1>1, <1>7 DEF SerialsOrdered
  <1>11. SerialsOrdered(y)
    BY <1>2, <1>8, <1>9, <1>10 DEF SerialsOrdered
  <1> QED
    BY <1>11 DEF y

\* Recording the serial of the configure just sent makes the lists agree,
\* whatever they were before.
LEMMA SendAndRecord ==
  ASSUME NEW x \in Toplevels, NEW st \in ToplevelStates, SerialsOrdered(x)
  PROVE  Bookkept(RecordSerial(SendState(x, st)))
  <1> DEFINE y == SendState(x, st)
             z == RecordSerial(y)
             p == Append(x.pending_serials, x.serial + 1)
             c == [serial |-> x.serial + 1, state |-> st]
  <1>1. y \in Toplevels /\ SerialsOrdered(y)
    BY SendStateType, SendStateOrdered
  <1>2. x.serial \in Nat /\ x.unacked \in Seq(Configures) /\ x.pending_serials \in Seq(Nat)
    BY DEF Toplevels
  <1>3. c \in Configures
    BY <1>2 DEF Configures
  <1>4. /\ y.serial = x.serial + 1
        /\ y.unacked = Append(x.unacked, c)
        /\ y.pending_serials = x.pending_serials
    BY DEF SendState, Toplevels
  <1> HIDE DEF y
  <1>5. /\ z.serial = y.serial /\ z.unacked = y.unacked /\ z.pending_serials = p
        /\ z.pending_serial = y.serial /\ z.toplevel_serial = y.serial
        /\ z.configured = FALSE
    BY <1>1, <1>4 DEF RecordSerial, Toplevels
  <1> HIDE DEF z, c, p
  <1>6. /\ Len(p) = Len(x.pending_serials) + 1
        /\ \A i \in 1..Len(x.pending_serials) : p[i] = x.pending_serials[i]
        /\ p[Len(x.pending_serials) + 1] = x.serial + 1
        /\ Len(x.pending_serials) \in Nat
    BY <1>2, AppendProperties, LenProperties DEF p
  <1>7. \A i \in 1..Len(x.pending_serials) :
           x.pending_serials[i] \in Nat /\ x.pending_serials[i] \in 1..x.serial
    BY <1>2, ElementOfSeq DEF SerialsOrdered
  <1>8. /\ \A i, j \in 1..Len(p) : i < j => p[i] < p[j]
        /\ \A i \in 1..Len(p) : p[i] \in 1 .. x.serial + 1
    <2>1. ASSUME NEW i \in 1..Len(p), NEW j \in 1..Len(p), i < j
          PROVE  p[i] < p[j]
      <3>1. i \in 1..Len(x.pending_serials)
        BY <1>6, <2>1
      <3>2. CASE j \in 1..Len(x.pending_serials)
        BY <1>6, <2>1, <3>1, <3>2 DEF SerialsOrdered
      <3>3. CASE j = Len(x.pending_serials) + 1
        BY <1>2, <1>6, <1>7, <3>1, <3>3
      <3> QED
        BY <1>6, <3>2, <3>3
    <2>2. ASSUME NEW i \in 1..Len(p)
          PROVE  p[i] \in 1 .. x.serial + 1
      <3>1. CASE i \in 1..Len(x.pending_serials)
        <4>1. p[i] \in 1..x.serial
          BY <1>6, <1>7, <3>1
        <4> QED
          BY <1>2, <4>1
      <3>2. CASE i = Len(x.pending_serials) + 1
        BY <1>2, <1>6, <3>2
      <3> QED
        BY <1>6, <2>2, <3>1, <3>2
    <2> QED
      BY <2>1, <2>2
  <1>9. SerialsOrdered(z)
    BY <1>1, <1>4, <1>5, <1>8 DEF SerialsOrdered
  <1>10. /\ y.unacked # <<>> /\ Last(y.unacked) = c
    BY <1>2, <1>3, <1>4, AppendProperties, LenProperties DEF Last
  <1>11. p # <<>> /\ Last(p) = x.serial + 1
    BY <1>6 DEF Last
  <1>12. c.serial = x.serial + 1
    BY DEF c
  <1>13. ListsAgree(z)
    BY <1>5, <1>10, <1>11, <1>12 DEF ListsAgree
  <1>14. CacheCorrect(z)
    BY <1>4, <1>5, <1>11 DEF CacheCorrect
  <1>15. Bookkept(z)
    BY <1>5, <1>9, <1>13, <1>14 DEF Bookkept
  <1> QED
    BY <1>15 DEF z, y

LEMMA SendToplevelConfigureBookkept ==
  ASSUME NEW x \in Toplevels, NEW size \in SizesOrZero, SerialsOrdered(x)
  PROVE  Bookkept(SendToplevelConfigure(x, size))
  <1> DEFINE w == ConfigureSize(x, size)
             y == [x EXCEPT !.width = w]
             st == [x.sent EXCEPT !.size = w,
                                  !.activated = x.activated,
                                  !.maximized = x.pending_maximized,
                                  !.fullscreen = x.pending_fullscreen,
                                  !.resizing = x.interactive]
  <1>1. w \in SizesOrZero
    BY SizesType DEF ConfigureSize
  <1>2. y \in Toplevels /\ st \in ToplevelStates
    BY <1>1 DEF Toplevels, ToplevelStates
  <1>3. SerialsOrdered(y)
    BY DEF SerialsOrdered, Toplevels
  <1>4. Bookkept(RecordSerial(SendState(y, st)))
    BY <1>2, <1>3, SendAndRecord
  <1> QED
    BY <1>4 DEF SendToplevelConfigure

LEMMA SetActivatedBookkept ==
  ASSUME NEW x \in Toplevels, NEW b \in BOOLEAN, Bookkept(x)
  PROVE  Bookkept(SetActivated(x, b))
  <1> DEFINE y == [x EXCEPT !.activated = b]
             st == [x.sent EXCEPT !.activated = b]
  <1>1. y \in Toplevels /\ st \in ToplevelStates
    BY DEF Toplevels, ToplevelStates
  <1>2. Bookkept(y)
    BY DEF Bookkept, SerialsOrdered, ListsAgree, CacheCorrect, Toplevels
  <1>3. Bookkept(RecordSerial(SendState(y, st)))
    BY <1>1, <1>2, SendAndRecord DEF Bookkept
  <1> QED
    BY <1>2, <1>3 DEF SetActivated

\* The unrecorded decoration configure disturbs the agreement of the lists and
\* the recorded configure that always follows restores it.
LEMMA DecorateBookkept ==
  ASSUME NEW x \in Toplevels, NEW mode \in Modes, NEW width \in SizesOrZero,
         SerialsOrdered(x)
  PROVE  /\ Decorate(x, mode, width) \in Toplevels
         /\ Bookkept(Decorate(x, mode, width))
  <1> DEFINE y == SendDecoration(x, mode)
  <1>1. [x.sent EXCEPT !.mode = mode] \in ToplevelStates
    BY DEF Toplevels, ToplevelStates
  <1>2. y \in Toplevels
    BY SendDecorationType
  <1>3. SerialsOrdered(y)
    BY <1>1, SendStateOrdered DEF SendDecoration
  <1> HIDE DEF y
  <1>4. SendToplevelConfigure(y, width) \in Toplevels /\ Bookkept(SendToplevelConfigure(y, width))
    BY <1>2, <1>3, SendToplevelConfigureType, SendToplevelConfigureBookkept
  <1> QED
    BY <1>4 DEF Decorate, y

-----------------------------------------------------------------------------
\* The ack

LEMMA AckStateType ==
  ASSUME NEW x \in Toplevels, NEW i \in 1..Len(x.unacked)
  PROVE  /\ AckState(x, i) \in Toplevels
         /\ x.unacked[i] \in Configures
         /\ x.unacked[i].serial \in Nat
  <1> DEFINE u == SubSeq(x.unacked, i + 1, Len(x.unacked))
             st == x.unacked[i].state
  <1>1. x.unacked \in Seq(Configures) /\ Len(x.unacked) \in Nat
    BY LenProperties DEF Toplevels
  <1>2. \A j \in 1..Len(x.unacked) : x.unacked[j] \in Configures
    BY <1>1, ElementOfSeq
  <1>3. st \in ToplevelStates /\ x.unacked[i].serial \in Nat
    BY <1>2 DEF Configures
  <1>4. i + 1 \in Int /\ \A j \in i + 1 .. Len(x.unacked) : x.unacked[j] \in Configures
    BY <1>1, <1>2
  <1>5. u \in Seq(Configures)
    BY <1>1, <1>4, SubSeqProperties
  <1>6. AckState(x, i) = [x EXCEPT !.acked = st, !.unacked = u]
    BY DEF AckState
  <1> HIDE DEF u, st
  <1>7. [x EXCEPT !.acked = st, !.unacked = u] \in Toplevels
    BY <1>3, <1>5 DEF Toplevels
  <1> QED
    BY <1>2, <1>3, <1>6, <1>7

LEMMA AckSurfaceType ==
  ASSUME NEW x \in Toplevels, NEW s \in Nat
  PROVE  AckSurface(x, s) \in Toplevels
  <1> DEFINE ps == x.pending_serials
             pos == CHOOSE p \in 1..Len(ps) : ps[p] = s
             rest == SubSeq(ps, pos + 1, Len(ps))
             y == [x EXCEPT !.last_acked = IF s > @ THEN s ELSE @]
  <1>1. ps \in Seq(Nat) /\ Len(ps) \in Nat
    BY LenProperties DEF Toplevels
  <1>2. \A j \in 1..Len(ps) : ps[j] \in Nat
    BY <1>1, ElementOfSeq
  <1>3. y \in Toplevels
    BY DEF Toplevels
  <1> HIDE DEF y
  <1>4. CASE \E p \in 1..Len(ps) : ps[p] = s
    <2>1. pos \in 1..Len(ps)
      BY <1>4
    <2> HIDE DEF pos, ps
    <2>2. pos + 1 \in Int /\ \A j \in pos + 1 .. Len(ps) : ps[j] \in Nat
      BY <1>1, <1>2, <2>1
    <2>3. rest \in Seq(Nat) /\ Len(rest) \in Nat
      BY <1>1, <2>2, SubSeqProperties, LenProperties
    <2>4. rest # <<>> => Last(rest) \in Nat
      BY <2>3, EmptySeq, ElementOfSeq DEF Last
    <2> HIDE DEF rest
    <2>5. [y EXCEPT !.pending_serials = rest,
                    !.pending_serial = IF rest = <<>> THEN 0 ELSE Last(rest),
                    !.configured = (rest = <<>>)] \in Toplevels
      BY <1>3, <2>3, <2>4 DEF Toplevels
    <2> QED
      BY <1>4, <2>5 DEF AckSurface, rest, pos, ps, y
  <1>5. CASE ~ \E p \in 1..Len(ps) : ps[p] = s
    <2>1. [y EXCEPT !.pending_serial = 0, !.configured = TRUE] \in Toplevels
      BY <1>3 DEF Toplevels
    <2> QED
      BY <1>3, <1>5, <2>1 DEF AckSurface, y
  <1> QED
    BY <1>4, <1>5

LEMMA AckType ==
  ASSUME NEW x \in Toplevels, NEW i \in 1..Len(x.unacked)
  PROVE  Ack(x, i) \in Toplevels
  <1> DEFINE s == x.unacked[i].serial
             z == AckSurface(AckState(x, i), s)
  <1>1. z \in Toplevels
    BY AckStateType, AckSurfaceType
  <1> HIDE DEF z, s
  <1>2. AckToplevel(z, s) \in Toplevels
    BY <1>1 DEF AckToplevel, Toplevels
  <1> QED
    BY <1>2 DEF Ack, z, s

\* What remains of a list after its first k entries.
LEMMA Suffix ==
  ASSUME NEW S, NEW s \in Seq(S), NEW k \in 1..Len(s)
  PROVE  LET r == SubSeq(s, k + 1, Len(s))
         IN /\ r \in Seq(S) /\ Len(r) \in Nat /\ Len(r) = Len(s) - k
            /\ \A j \in 1..Len(r) : r[j] = s[k + j]
            /\ r = <<>> <=> k = Len(s)
            /\ r # <<>> => Last(r) = s[Len(s)]
  <1> DEFINE r == SubSeq(s, k + 1, Len(s))
  <1>1. Len(s) \in Nat /\ k \in Nat /\ k <= Len(s)
    BY LenProperties
  <1>2. \A j \in k + 1 .. Len(s) : s[j] \in S
    BY <1>1, ElementOfSeq
  <1>3. /\ r \in Seq(S)
        /\ Len(r) = IF k + 1 <= Len(s) THEN Len(s) - (k + 1) + 1 ELSE 0
        /\ \A j \in 1 .. Len(s) - (k + 1) + 1 : r[j] = s[(k + 1) + j - 1]
    BY <1>1, <1>2, SubSeqProperties
  <1> HIDE DEF r
  <1>4. Len(r) = Len(s) - k
    BY <1>1, <1>3
  <1>5. \A j \in 1..Len(r) : r[j] = s[k + j]
    <2> TAKE j \in 1..Len(r)
    <2>1. j \in 1 .. Len(s) - (k + 1) + 1 /\ (k + 1) + j - 1 = k + j
      BY <1>1, <1>4
    <2> QED
      BY <1>3, <2>1
  <1>6. r = <<>> <=> Len(r) = 0
    BY <1>3, EmptySeq
  <1>7. r # <<>> => Last(r) = s[Len(s)]
    <2> HAVE r # <<>>
    <2>1. Len(r) \in 1..Len(r) /\ k + Len(r) = Len(s)
      BY <1>1, <1>4, <1>6
    <2> QED
      BY <1>5, <2>1 DEF Last
  <1> QED
    BY <1>1, <1>3, <1>4, <1>5, <1>6, <1>7 DEF r

\* The fields of a toplevel record after an ack of the i-th unacked configure.
LEMMA AckFields ==
  ASSUME NEW x \in Toplevels, NEW i \in 1..Len(x.unacked)
  PROVE  LET s == x.unacked[i].serial
             f == AckSurface(AckState(x, i), s)
             a == Ack(x, i)
         IN /\ a.serial = x.serial
            /\ a.unacked = SubSeq(x.unacked, i + 1, Len(x.unacked))
            /\ a.pending_serials = f.pending_serials
            /\ a.pending_serial = f.pending_serial
            /\ a.configured = f.configured
            /\ a.toplevel_serial = IF x.toplevel_serial = s THEN 0 ELSE x.toplevel_serial
  <1> DEFINE s == x.unacked[i].serial
             y == AckState(x, i)
             f == AckSurface(y, s)
  <1>1. y \in Toplevels /\ s \in Nat
    BY AckStateType
  <1>2. /\ y.serial = x.serial /\ y.toplevel_serial = x.toplevel_serial
        /\ y.unacked = SubSeq(x.unacked, i + 1, Len(x.unacked))
    BY DEF AckState, Toplevels
  <1> HIDE DEF y, s
  <1>3. f \in Toplevels
    BY <1>1, AckSurfaceType
  <1>4. /\ f.serial = y.serial /\ f.toplevel_serial = y.toplevel_serial
        /\ f.unacked = y.unacked
    BY <1>1 DEF AckSurface, Toplevels
  <1> HIDE DEF f
  <1>5. LET a == AckToplevel(f, s)
        IN /\ a.serial = f.serial /\ a.unacked = f.unacked
           /\ a.pending_serials = f.pending_serials
           /\ a.pending_serial = f.pending_serial /\ a.configured = f.configured
           /\ a.toplevel_serial = IF f.toplevel_serial = s THEN 0 ELSE f.toplevel_serial
    BY <1>3 DEF AckToplevel, Toplevels
  <1> QED
    BY <1>2, <1>4, <1>5 DEF Ack, f, y, s

\* The core finds the acked serial at place p of its list.
LEMMA AckSurfaceFound ==
  ASSUME NEW x \in Toplevels, SerialsOrdered(x),
         NEW p \in 1..Len(x.pending_serials)
  PROVE  LET ps == x.pending_serials
             rest == SubSeq(ps, p + 1, Len(ps))
             f == AckSurface(x, ps[p])
         IN /\ f.pending_serials = rest
            /\ f.pending_serial = IF rest = <<>> THEN 0 ELSE Last(rest)
            /\ f.configured = (rest = <<>>)
  <1> DEFINE ps == x.pending_serials
             pos == CHOOSE q \in 1..Len(ps) : ps[q] = ps[p]
  <1>1. ps \in Seq(Nat) /\ Len(ps) \in Nat
    BY LenProperties DEF Toplevels
  <1>2. \A j \in 1..Len(ps) : ps[j] \in Nat
    BY <1>1, ElementOfSeq
  <1>3. \A q, r \in 1..Len(ps) : q < r => ps[q] < ps[r]
    BY DEF SerialsOrdered
  <1>4. \E q \in 1..Len(ps) : ps[q] = ps[p]
    OBVIOUS
  <1>5. pos \in 1..Len(ps) /\ ps[pos] = ps[p]
    BY <1>4
  <1> HIDE DEF pos
  <1>6. pos = p
    <2>1. pos < p => ps[pos] < ps[p]
      BY <1>3, <1>5
    <2>2. p < pos => ps[p] < ps[pos]
      BY <1>3, <1>5
    <2>3. ps[pos] \in Nat /\ ps[p] \in Nat
      BY <1>2, <1>5
    <2>4. ~(ps[pos] < ps[p]) /\ ~(ps[p] < ps[pos])
      BY <1>5, <2>3
    <2> QED
      BY <1>1, <1>5, <2>1, <2>2, <2>4
  <1> DEFINE y == [x EXCEPT !.last_acked = IF ps[p] > @ THEN ps[p] ELSE @]
             rest == SubSeq(ps, p + 1, Len(ps))
             z == [y EXCEPT !.pending_serials = rest,
                            !.pending_serial = IF rest = <<>> THEN 0 ELSE Last(rest),
                            !.configured = (rest = <<>>)]
  <1>7. AckSurface(x, ps[p]) = z
    BY <1>4, <1>6 DEF AckSurface, pos
  <1>8. y \in Toplevels
    BY <1>2 DEF Toplevels
  <1> HIDE DEF y, rest
  <1>9. /\ z.pending_serials = rest
        /\ z.pending_serial = IF rest = <<>> THEN 0 ELSE Last(rest)
        /\ z.configured = (rest = <<>>)
    BY <1>8 DEF Toplevels
  <1> QED
    BY <1>7, <1>9 DEF rest

\* The core has other serials on its list than the acked one.
LEMMA AckSurfaceMissing ==
  ASSUME NEW x \in Toplevels, NEW s \in Nat, x.pending_serials # <<>>,
         \A p \in 1..Len(x.pending_serials) : x.pending_serials[p] # s
  PROVE  LET f == AckSurface(x, s)
         IN /\ f.pending_serials = x.pending_serials
            /\ f.pending_serial = x.pending_serial
            /\ f.configured = x.configured
  <1> DEFINE y == [x EXCEPT !.last_acked = IF s > @ THEN s ELSE @]
  <1>1. AckSurface(x, s) = y
    BY DEF AckSurface
  <1> QED
    BY <1>1 DEF Toplevels

\* Handling an ack keeps the books: acking the newest configure empties both
\* lists, acking an older one leaves the newest on both.
LEMMA AckBookkept ==
  ASSUME NEW x \in Toplevels, NEW i \in 1..Len(x.unacked), Bookkept(x)
  PROVE  Bookkept(Ack(x, i))
  <1> DEFINE s == x.unacked[i].serial
             y == AckState(x, i)
             f == AckSurface(y, s)
             a == Ack(x, i)
             u == x.unacked
             ps == x.pending_serials
             v == SubSeq(u, i + 1, Len(u))
  <1>1. u \in Seq(Configures) /\ Len(u) \in Nat /\ ps \in Seq(Nat) /\ Len(ps) \in Nat
    BY LenProperties DEF Toplevels
  <1>2. y \in Toplevels /\ s \in Nat
    BY AckStateType
  <1>3. /\ y.pending_serials = ps /\ y.pending_serial = x.pending_serial
        /\ y.configured = x.configured /\ y.serial = x.serial /\ y.unacked = v
    BY DEF AckState, Toplevels
  <1>4. u # <<>>
    BY <1>1, EmptySeq
  <1>5. /\ ps # <<>> /\ ps[Len(ps)] = u[Len(u)].serial
        /\ x.pending_serial = ps[Len(ps)] /\ x.toplevel_serial = ps[Len(ps)]
        /\ x.configured = FALSE
    BY <1>4 DEF Bookkept, ListsAgree, CacheCorrect, Last, Toplevels
  <1>6. Len(ps) \in 1..Len(ps) /\ Len(u) \in 1..Len(u)
    BY <1>1, <1>4, <1>5, EmptySeq
  <1>7. \A j \in 1..Len(u) : u[j].serial \in Nat
    BY AckStateType
  <1>8. \A j \in 1..Len(ps) : ps[j] \in Nat
    BY <1>1, ElementOfSeq
  <1>9. /\ v \in Seq(Configures) /\ Len(v) \in Nat /\ Len(v) = Len(u) - i
        /\ \A j \in 1..Len(v) : v[j] = u[i + j]
        /\ v = <<>> <=> i = Len(u)
        /\ v # <<>> => Last(v) = u[Len(u)]
    BY <1>1, Suffix
  <1>10. /\ a.serial = x.serial /\ a.unacked = v
         /\ a.pending_serials = f.pending_serials
         /\ a.pending_serial = f.pending_serial /\ a.configured = f.configured
         /\ a.toplevel_serial = IF x.toplevel_serial = s THEN 0 ELSE x.toplevel_serial
    BY AckFields
  \* the remaining entries of Smithay's list
  <1>11. /\ \A j, k \in 1..Len(v) : j < k => v[j].serial < v[k].serial
         /\ \A j \in 1..Len(v) : v[j].serial <= x.serial
    <2> HIDE DEF u, v
    <2>1. \A j \in 1..Len(v) : i + j \in 1..Len(u)
      BY <1>1, <1>9
    <2>2. \A j, k \in 1..Len(v) : j < k => i + j < i + k
      BY <1>1, <1>9
    <2>3. /\ \A j, k \in 1..Len(u) : j < k => u[j].serial < u[k].serial
          /\ \A j \in 1..Len(u) : u[j].serial <= x.serial
      BY DEF Bookkept, SerialsOrdered, u
    <2> QED
      BY <1>9, <2>1, <2>2, <2>3
  <1>12. s = ps[Len(ps)] <=> i = Len(u)
    <2>1. i < Len(u) => s < u[Len(u)].serial
      BY <1>6 DEF Bookkept, SerialsOrdered
    <2>2. u[Len(u)].serial \in Nat
      BY <1>6, <1>7
    <2> QED
      BY <1>1, <1>2, <1>5, <2>1, <2>2
  <1>13. SerialsOrdered(y)
    BY <1>3, <1>11 DEF Bookkept, SerialsOrdered
  \* the acked configure was recorded, at place p
  <1>14. ASSUME NEW p \in 1..Len(ps), ps[p] = s
         PROVE  Bookkept(a)
    <2> DEFINE r == SubSeq(ps, p + 1, Len(ps))
    <2>1. /\ f.pending_serials = r
          /\ f.pending_serial = IF r = <<>> THEN 0 ELSE Last(r)
          /\ f.configured = (r = <<>>)
      <3> HIDE DEF y, s
      <3>1. p \in 1..Len(y.pending_serials) /\ y.pending_serials[p] = s
        BY <1>3, <1>14
      <3>2. f = AckSurface(y, y.pending_serials[p])
        BY <3>1
      <3> HIDE DEF f
      <3>3. LET q == y.pending_serials
                rest == SubSeq(q, p + 1, Len(q))
            IN /\ f.pending_serials = rest
               /\ f.pending_serial = IF rest = <<>> THEN 0 ELSE Last(rest)
               /\ f.configured = (rest = <<>>)
        BY <1>2, <1>13, <3>1, <3>2, AckSurfaceFound
      <3> QED
        BY <1>3, <3>3
    <2>2. /\ r \in Seq(Nat) /\ Len(r) \in Nat /\ Len(r) = Len(ps) - p
          /\ \A j \in 1..Len(r) : r[j] = ps[p + j]
          /\ r = <<>> <=> p = Len(ps)
          /\ r # <<>> => Last(r) = ps[Len(ps)]
      BY <1>1, Suffix
    <2>3. p = Len(ps) <=> i = Len(u)
      <3>1. p < Len(ps) => ps[p] < ps[Len(ps)]
        BY <1>6 DEF Bookkept, SerialsOrdered
      <3>2. ps[p] \in Nat /\ ps[Len(ps)] \in Nat
        BY <1>6, <1>8
      <3>3. p = Len(ps) <=> ps[p] = ps[Len(ps)]
        BY <1>1, <3>1, <3>2
      <3> QED
        BY <1>12, <1>14, <3>3
    <2>4. /\ \A j, k \in 1..Len(r) : j < k => r[j] < r[k]
          /\ \A j \in 1..Len(r) : r[j] \in 1..x.serial
      <3>1. \A j \in 1..Len(r) : p + j \in 1..Len(ps)
        BY <1>1, <2>2
      <3>2. \A j, k \in 1..Len(r) : j < k => p + j < p + k
        BY <1>1, <2>2
      <3>3. /\ \A j, k \in 1..Len(ps) : j < k => ps[j] < ps[k]
            /\ \A j \in 1..Len(ps) : ps[j] \in 1..x.serial
        BY DEF Bookkept, SerialsOrdered
      <3> HIDE DEF r, ps
      <3> QED
        BY <2>2, <3>1, <3>2, <3>3
    <2> HIDE DEF r, v, ps, u, s, a, f, y
    <2>5. SerialsOrdered(a)
      BY <1>10, <1>11, <2>1, <2>4 DEF SerialsOrdered
    <2>6. ListsAgree(a)
      BY <1>5, <1>9, <1>10, <2>1, <2>2, <2>3 DEF ListsAgree
    <2>7. CacheCorrect(a)
      BY <1>5, <1>10, <1>12, <2>1, <2>2, <2>3 DEF CacheCorrect
    <2> QED
      BY <1>10, <2>1, <2>5, <2>6, <2>7 DEF Bookkept
  \* the acked configure was not recorded, so it is not the newest
  <1>15. ASSUME \A p \in 1..Len(ps) : ps[p] # s
         PROVE  Bookkept(a)
    <2>1. f.pending_serials = ps /\ f.pending_serial = x.pending_serial /\ f.configured = FALSE
      <3> HIDE DEF y, s
      <3>1. /\ y.pending_serials # <<>>
            /\ \A p \in 1..Len(y.pending_serials) : y.pending_serials[p] # s
        BY <1>3, <1>5, <1>15
      <3>2. /\ f.pending_serials = y.pending_serials
            /\ f.pending_serial = y.pending_serial
            /\ f.configured = y.configured
        BY <1>2, <3>1, AckSurfaceMissing
      <3> QED
        BY <1>3, <1>5, <3>2
    <2>2. i # Len(u) /\ s # ps[Len(ps)]
      BY <1>6, <1>12, <1>15
    <2>3. /\ \A j, k \in 1..Len(ps) : j < k => ps[j] < ps[k]
          /\ \A j \in 1..Len(ps) : ps[j] \in 1..x.serial
      BY DEF Bookkept, SerialsOrdered
    <2> HIDE DEF v, ps, u, s, a, f, y
    <2>4. SerialsOrdered(a)
      BY <1>10, <1>11, <2>1, <2>3 DEF SerialsOrdered
    <2>5. Last(ps) = ps[Len(ps)]
      BY DEF Last
    <2>6. ListsAgree(a)
      BY <1>5, <1>9, <1>10, <2>1, <2>2, <2>5 DEF ListsAgree
    <2>7. CacheCorrect(a)
      BY <1>5, <1>10, <2>1, <2>2, <2>5 DEF CacheCorrect
    <2> QED
      BY <1>10, <2>1, <2>4, <2>6, <2>7 DEF Bookkept
  <1> QED
    BY <1>14, <1>15

-----------------------------------------------------------------------------
\* The commit

LEMMA AuthorityTypes ==
  /\ AwaitingFirstCommit \in Authorities(Sizes) /\ Client \in Authorities(Sizes)
  /\ \A w \in Sizes : Host(w) \in Authorities(Sizes) /\ OnHostResizeRequest(w) = Host(w)
  <1>1. \A w \in Sizes : w > 0
    BY SizesAssumption
  <1> QED
    BY <1>1 DEF Authorities, OnHostResizeRequest

\* What the decision on a commit returns.
LEMMA CommitDecisionFacts ==
  ASSUME NEW w \in SizesOrZero, TypeOK
  PROVE  LET d == CommitDecision(w)
         IN /\ d.authority \in Authorities(Sizes)
            /\ d.apply => d.authority = Client
            /\ d.authority = Client \/ d.authority = win.authority
            /\ d.apply => ~HostHolds(win.authority, w, xdg.pending_serial,
                                     xdg.interactive, ~win.fills_host)
  <1>1. win.authority \in Authorities(Sizes) /\ Client \in Authorities(Sizes)
    BY AuthorityTypes DEF TypeOK, Windows
  <1> QED
    BY <1>1 DEF CommitDecision, OnClientCommit

LEMMA ClientCommitType ==
  ASSUME TypeOK, NEW w \in SizesOrZero, ClientCommit(w)
  PROVE  TypeOK'
  <1> DEFINE a == IF SyncsHostSize THEN CommitDecision(w).authority ELSE win.authority
             width == IF Adopts(w) THEN w ELSE win.width
             xwidth == IF Adopts(w) THEN w ELSE xdg.width
             committed == win.committed \/ Adopts(w)
  <1>1. a \in Authorities(Sizes) /\ width \in SizesOrZero /\ committed \in BOOLEAN
    BY CommitDecisionFacts DEF TypeOK, Windows
  <1>2. xwidth \in SizesOrZero
    BY DEF TypeOK, Toplevels
  <1>3. /\ win' = [win EXCEPT !.authority = a, !.width = width, !.committed = committed]
        /\ xdg' = [xdg EXCEPT !.width = xwidth]
    BY DEF ClientCommit, TypeOK, Windows, Toplevels
  <1> HIDE DEF a, width, committed, xwidth
  <1> QED
    BY <1>1, <1>2, <1>3 DEF TypeOK, Windows, Toplevels

-----------------------------------------------------------------------------
\* The inductive invariant

\* A window that has taken its first size is past the first-commit state.
CommittedPastFirst == win.committed => win.authority # AwaitingFirstCommit

ConfigureInv == TypeOK /\ Bookkept(xdg) /\ CommittedPastFirst

LEMMA InitInv == Init => ConfigureInv
  <1> SUFFICES ASSUME Init PROVE ConfigureInv
    OBVIOUS
  <1> PICK fills \in BOOLEAN : win = NewWindow(fills) /\ xdg = NewToplevel(fills)
    BY DEF Init
  <1>1. win \in Windows
    <2> DEFINE a == IF fills THEN OnHostResizeRequest(Output) ELSE AwaitingFirstCommit
               w == IF fills THEN Output ELSE 0
    <2>1. a \in Authorities(Sizes)
      BY AuthorityTypes, SizesAssumption
    <2>2. w \in SizesOrZero
      BY SizesType DEF SizesOrZero
    <2> HIDE DEF a, w
    <2>3. [width |-> w, authority |-> a, committed |-> FALSE, fills_host |-> fills,
           maximized |-> FALSE, fullscreen |-> FALSE] \in Windows
      BY <2>1, <2>2 DEF Windows
    <2> QED
      BY <2>3 DEF NewWindow, a, w
  <1> DEFINE first == [size |-> IF fills THEN Output ELSE 0, activated |-> TRUE,
                       maximized |-> FALSE, fullscreen |-> FALSE,
                       resizing |-> FALSE, mode |-> NoMode]
             blank == [first EXCEPT !.size = 0, !.activated = FALSE]
             unsent == [width |-> first.size, activated |-> TRUE, interactive |-> FALSE,
                        pending_maximized |-> FALSE, pending_fullscreen |-> FALSE,
                        maximized |-> FALSE, fullscreen |-> FALSE, toplevel_serial |-> 0,
                        pending_serial |-> 0, pending_serials |-> <<>>,
                        last_acked |-> 0, configured |-> FALSE,
                        serial |-> 0, sent |-> blank, unacked |-> <<>>, acked |-> blank]
  <1>2. /\ first \in ToplevelStates /\ first.size \in SizesOrZero
        /\ blank \in ToplevelStates
    BY SizesType DEF ToplevelStates, SizesOrZero
  <1>3. xdg = RecordSerial(SendState(unsent, first))
    BY DEF NewToplevel
  <1> HIDE DEF first, blank
  <1>4. <<>> \in Seq(Nat) /\ <<>> \in Seq(Configures)
    BY EmptySeq
  <1>5. unsent \in Toplevels
    BY <1>2, <1>4 DEF Toplevels
  <1>6. SerialsOrdered(unsent)
    BY EmptySeq DEF SerialsOrdered
  <1> HIDE DEF unsent
  <1>7. xdg \in Toplevels /\ Bookkept(xdg)
    BY <1>2, <1>3, <1>5, <1>6, SendStateType, RecordSerialType, SendAndRecord
  <1>8. CommittedPastFirst
    BY DEF NewWindow, CommittedPastFirst
  <1> QED
    BY <1>1, <1>7, <1>8 DEF ConfigureInv, TypeOK

\* A handler that leaves the window alone preserves the invariant if it
\* preserves the toplevel's part of it.
LEMMA ToplevelStep ==
  ASSUME ConfigureInv, win' = win, xdg' \in Toplevels, Bookkept(xdg)'
  PROVE  ConfigureInv'
  BY DEF ConfigureInv, TypeOK, CommittedPastFirst

\* Setting the activated flag alone touches no list.
LEMMA ActivatedFlag ==
  ASSUME NEW x \in Toplevels, NEW b \in BOOLEAN, Bookkept(x)
  PROVE  LET y == [x EXCEPT !.activated = b]
         IN y \in Toplevels /\ Bookkept(y)
  BY DEF Bookkept, SerialsOrdered, ListsAgree, CacheCorrect, Toplevels

LEMMA NextInv == ConfigureInv /\ [Next]_configureVars => ConfigureInv'
  <1> SUFFICES ASSUME ConfigureInv, [Next]_configureVars PROVE ConfigureInv'
    OBVIOUS
  <1> USE DEF ConfigureInv
  <1>1. /\ win \in Windows /\ xdg \in Toplevels /\ Bookkept(xdg)
        /\ xdg.width \in SizesOrZero /\ win.width \in SizesOrZero
    BY DEF TypeOK, Windows, Toplevels
  <1>2. ASSUME NEW i \in 1..Len(xdg.unacked), ClientAck(i) PROVE ConfigureInv'
    <2>1. xdg' \in Toplevels /\ Bookkept(xdg)'
      BY <1>1, <1>2, AckType, AckBookkept DEF ClientAck
    <2>2. win' \in Windows /\ win'.committed = win.committed /\ win'.authority = win.authority
      BY <1>1, <1>2 DEF ClientAck, Windows, Toplevels
    <2> QED
      BY <2>1, <2>2 DEF TypeOK, CommittedPastFirst
  <1>3. ASSUME NEW w \in SizesOrZero, ClientCommit(w) PROVE ConfigureInv'
    <2>1. TypeOK'
      BY <1>3, ClientCommitType
    <2>2. Bookkept(xdg)'
      BY <1>1, <1>3 DEF ClientCommit, Bookkept, SerialsOrdered, ListsAgree, CacheCorrect, Toplevels
    <2>3. CommittedPastFirst'
      <3>1. Client # AwaitingFirstCommit
        BY DEF Client, AwaitingFirstCommit
      <3>2. win'.authority = IF SyncsHostSize THEN CommitDecision(w).authority ELSE win.authority
        BY <1>1, <1>3 DEF ClientCommit, Windows
      <3>3. win'.committed = (win.committed \/ Adopts(w))
        BY <1>1, <1>3 DEF ClientCommit, Windows
      <3> QED
        BY <3>1, <3>2, <3>3, CommitDecisionFacts DEF CommittedPastFirst, Adopts
    <2> QED
      BY <2>1, <2>2, <2>3
  <1>4. ASSUME NEW b \in BOOLEAN, FocusChange(b) PROVE ConfigureInv'
    BY <1>1, <1>4, SetActivatedType, SetActivatedBookkept, ToplevelStep DEF FocusChange
  <1>5. ASSUME NEW focusMoves \in BOOLEAN, RequestActivation(focusMoves) PROVE ConfigureInv'
    <2> DEFINE y == IF focusMoves THEN SetActivated(xdg, TRUE)
                                  ELSE [xdg EXCEPT !.activated = TRUE]
    <2>1. y \in Toplevels /\ Bookkept(y)
      BY <1>1, SetActivatedType, SetActivatedBookkept, ActivatedFlag
    <2>2. win' = win /\ xdg' = SendToplevelConfigure(y, xdg.width)
      BY <1>5 DEF RequestActivation
    <2> HIDE DEF y
    <2>3. xdg' \in Toplevels /\ Bookkept(xdg)'
      BY <1>1, <2>1, <2>2, SendToplevelConfigureType, SendToplevelConfigureBookkept DEF Bookkept
    <2> QED
      BY <2>2, <2>3, ToplevelStep
  <1>6. ASSUME NEW mode \in Modes, ChooseDecoration(mode) PROVE ConfigureInv'
    <2>1. win' = win /\ xdg' = Decorate(xdg, mode, win.width)
      BY <1>6 DEF ChooseDecoration
    <2>2. xdg' \in Toplevels /\ Bookkept(xdg)'
      BY <1>1, <2>1, DecorateBookkept DEF Bookkept
    <2> QED
      BY <2>1, <2>2, ToplevelStep
  <1>7. ASSUME NEW b \in BOOLEAN, NEW send \in BOOLEAN, SetWindowActivated(b, send)
        PROVE  ConfigureInv'
    <2> DEFINE y == [xdg EXCEPT !.activated = b]
               w == IF xdg.width > 0 THEN xdg.width ELSE win.width
    <2>1. y \in Toplevels /\ Bookkept(y) /\ w \in SizesOrZero
      BY <1>1, ActivatedFlag
    <2>2. win' = win /\ xdg' = IF send /\ w > 0 THEN SendToplevelConfigure(y, w) ELSE y
      BY <1>7 DEF SetWindowActivated
    <2> HIDE DEF y, w
    <2>3. xdg' \in Toplevels /\ Bookkept(xdg)'
      BY <2>1, <2>2, SendToplevelConfigureType, SendToplevelConfigureBookkept DEF Bookkept
    <2> QED
      BY <2>2, <2>3, ToplevelStep
  <1>8. CASE UNCHANGED configureVars
    BY <1>1, <1>8, ToplevelStep DEF configureVars
  <1> QED
    BY <1>2, <1>3, <1>4, <1>5, <1>6, <1>7, <1>8 DEF Next, ClientSteps, OtherConfigures

\* Serial 0 stands for "no configure is unacked" and names no configure.
LEMMA NoPendingSerial ==
  ASSUME NEW x \in Toplevels, Bookkept(x), x.pending_serial = 0
  PROVE  x.unacked = <<>>
  <1> SUFFICES ASSUME x.pending_serials # <<>> PROVE FALSE
    BY DEF Bookkept, ListsAgree
  <1>1. x.pending_serials \in Seq(Nat) /\ x.serial \in Nat
    BY DEF Toplevels
  <1>2. Len(x.pending_serials) \in 1..Len(x.pending_serials)
    BY <1>1, EmptySeq
  <1>3. Last(x.pending_serials) = 0
    BY DEF Bookkept, CacheCorrect
  <1>4. Last(x.pending_serials) \in 1..x.serial
    BY <1>2 DEF Bookkept, SerialsOrdered, Last
  <1> QED
    BY <1>1, <1>3, <1>4

LEMMA SpecInv == Spec => []ConfigureInv
  <1>1. Init => ConfigureInv
    BY InitInv
  <1>2. ConfigureInv /\ [Next]_configureVars => ConfigureInv'
    BY NextInv
  <1> QED
    BY <1>1, <1>2, PTL DEF Spec

-----------------------------------------------------------------------------
\* Configures and acks leave the window's size and owner alone, and do not tell the
\* toplevel that an interactive resize has begun or ended.  A configure is counted
\* by the serial and owed an answer.

Told(x, y) == y.serial > x.serial /\ y.unacked # <<>>

Quiet(x, y) == y.serial = x.serial /\ y.unacked = x.unacked

LEMMA ConfigureKeeps ==
  ASSUME NEW x \in Toplevels, NEW size \in SizesOrZero
  PROVE  LET y == SendToplevelConfigure(x, size)
         IN y.interactive = x.interactive /\ Told(x, y)
  <1> DEFINE w == ConfigureSize(x, size)
             v == [x EXCEPT !.width = w]
             st == [x.sent EXCEPT !.size = w,
                                  !.activated = x.activated,
                                  !.maximized = x.pending_maximized,
                                  !.fullscreen = x.pending_fullscreen,
                                  !.resizing = x.interactive]
             c == [serial |-> v.serial + 1, state |-> st]
  <1>1. w \in SizesOrZero
    BY SizesType DEF ConfigureSize
  <1>2. v \in Toplevels /\ st \in ToplevelStates /\ v.interactive = x.interactive
        /\ v.serial = x.serial /\ x.serial \in Nat
    BY <1>1 DEF Toplevels, ToplevelStates
  <1> HIDE DEF w, v, st
  <1>3. c \in Configures /\ v.unacked \in Seq(Configures)
    BY <1>2 DEF Toplevels, Configures
  <1>4. /\ SendState(v, st).interactive = x.interactive
        /\ SendState(v, st).serial = x.serial + 1
        /\ SendState(v, st).unacked = Append(v.unacked, c)
    BY <1>2 DEF SendState, Toplevels
  <1>5. Append(v.unacked, c) # <<>>
    BY <1>3, AppendProperties, LenProperties
  <1>6. SendState(v, st) \in Toplevels
    BY <1>2, SendStateType
  <1>7. LET y == RecordSerial(SendState(v, st))
        IN y.interactive = x.interactive /\ Told(x, y)
    BY <1>2, <1>4, <1>5, <1>6 DEF RecordSerial, Toplevels, Told
  <1> QED
    BY <1>7 DEF SendToplevelConfigure, w, v, st

LEMMA ActivatedKeeps ==
  ASSUME NEW x \in Toplevels, NEW b \in BOOLEAN
  PROVE  LET y == SetActivated(x, b)
         IN y.interactive = x.interactive /\ (Told(x, y) \/ Quiet(x, y))
  <1> DEFINE v == [x EXCEPT !.activated = b]
             st == [x.sent EXCEPT !.activated = b]
             c == [serial |-> v.serial + 1, state |-> st]
             y == SetActivated(x, b)
  <1>1. /\ v \in Toplevels /\ st \in ToplevelStates /\ v.interactive = x.interactive
        /\ v.serial = x.serial /\ x.serial \in Nat /\ v.unacked = x.unacked
    BY DEF Toplevels, ToplevelStates
  <1>2. y = v \/ y = RecordSerial(SendState(v, st))
    BY DEF SetActivated
  <1> HIDE DEF v, st, y
  <1>3. c \in Configures /\ v.unacked \in Seq(Configures)
    BY <1>1 DEF Toplevels, Configures
  <1>4. Append(v.unacked, c) # <<>>
    BY <1>3, AppendProperties, LenProperties
  <1>5. /\ SendState(v, st) \in Toplevels /\ SendState(v, st).interactive = x.interactive
        /\ SendState(v, st).serial = x.serial + 1
        /\ SendState(v, st).unacked # <<>>
    BY <1>1, <1>4, SendStateType DEF SendState, Toplevels
  <1>6. LET z == RecordSerial(SendState(v, st))
        IN z.interactive = x.interactive /\ Told(x, z)
    BY <1>1, <1>5 DEF RecordSerial, Toplevels, Told
  <1>7. v.interactive = x.interactive /\ Quiet(x, v)
    BY <1>1 DEF Quiet
  <1>8. y.interactive = x.interactive /\ (Told(x, y) \/ Quiet(x, y))
    BY <1>2, <1>6, <1>7
  <1> QED
    BY <1>8 DEF y

Kept ==
  /\ win' = win /\ xdg'.interactive = xdg.interactive
  /\ Told(xdg, xdg') \/ Quiet(xdg, xdg')

LEMMA OthersKeep ==
  ASSUME ConfigureInv, OtherConfigures \/ \E b, send \in BOOLEAN : SetWindowActivated(b, send)
  PROVE  ConfigureInv' /\ Kept
  <1> USE DEF Kept
  <1>1. /\ xdg \in Toplevels /\ xdg.width \in SizesOrZero /\ win.width \in SizesOrZero
    BY DEF ConfigureInv, TypeOK, Windows, Toplevels
  <1>2. ConfigureInv'
    BY NextInv DEF Next
  <1>3. ASSUME NEW b \in BOOLEAN, FocusChange(b)
        PROVE  Kept
    BY <1>1, <1>3, ActivatedKeeps DEF FocusChange
  <1>4. ASSUME NEW focusMoves \in BOOLEAN, RequestActivation(focusMoves)
        PROVE  Kept
    <2> DEFINE y == IF focusMoves THEN SetActivated(xdg, TRUE)
                                  ELSE [xdg EXCEPT !.activated = TRUE]
    <2>1. y \in Toplevels /\ y.interactive = xdg.interactive /\ y.serial >= xdg.serial
      <3>1. CASE focusMoves
        <4>1. y \in Toplevels /\ y = SetActivated(xdg, TRUE)
          BY <1>1, <3>1, SetActivatedType
        <4>2. y.interactive = xdg.interactive /\ (Told(xdg, y) \/ Quiet(xdg, y))
          BY <1>1, <4>1, ActivatedKeeps
        <4> HIDE DEF y
        <4>3. xdg.serial \in Nat /\ y.serial \in Nat
          BY <1>1, <4>1 DEF Toplevels
        <4>4. y.serial >= xdg.serial
          BY <4>2, <4>3 DEF Told, Quiet
        <4> QED
          BY <4>1, <4>2, <4>4
      <3>2. CASE ~focusMoves
        <4>1. y = [xdg EXCEPT !.activated = TRUE]
          BY <3>2
        <4> HIDE DEF y
        <4>2. /\ y \in Toplevels /\ y.interactive = xdg.interactive
              /\ y.serial = xdg.serial /\ xdg.serial \in Nat
          BY <1>1, <4>1 DEF Toplevels
        <4> QED
          BY <4>2
      <3> QED
        BY <3>1, <3>2
    <2>2. win' = win /\ xdg' = SendToplevelConfigure(y, xdg.width)
      BY <1>4 DEF RequestActivation
    <2> HIDE DEF y
    <2>3. xdg'.interactive = y.interactive /\ Told(y, xdg')
      BY <1>1, <2>1, <2>2, ConfigureKeeps
    <2>4. xdg' \in Toplevels
      BY <1>1, <2>1, <2>2, SendToplevelConfigureType
    <2> QED
      BY <1>1, <2>1, <2>2, <2>3, <2>4 DEF Told, Toplevels
  <1>5. ASSUME NEW mode \in Modes, ChooseDecoration(mode)
        PROVE  Kept
    <2> DEFINE y == SendDecoration(xdg, mode)
    <2>1. y \in Toplevels /\ y.interactive = xdg.interactive /\ y.serial >= xdg.serial
      <3>1. y \in Toplevels
        BY <1>1, SendDecorationType
      <3>2. /\ xdg.serial \in Nat
            /\ y.interactive = xdg.interactive
            /\ y.serial = xdg.serial \/ y.serial = xdg.serial + 1
        BY <1>1 DEF SendDecoration, SendState, Toplevels
      <3> HIDE DEF y
      <3> QED
        BY <3>1, <3>2
    <2>2. win' = win /\ xdg' = SendToplevelConfigure(y, win.width)
      BY <1>5 DEF ChooseDecoration, Decorate
    <2> HIDE DEF y
    <2>3. xdg'.interactive = y.interactive /\ Told(y, xdg')
      BY <1>1, <2>1, <2>2, ConfigureKeeps
    <2>4. xdg' \in Toplevels
      BY <1>1, <2>1, <2>2, SendToplevelConfigureType
    <2> QED
      BY <1>1, <2>1, <2>2, <2>3, <2>4 DEF Told, Toplevels
  <1>6. ASSUME NEW b \in BOOLEAN, NEW send \in BOOLEAN, SetWindowActivated(b, send)
        PROVE  Kept
    <2> DEFINE y == [xdg EXCEPT !.activated = b]
               w == IF xdg.width > 0 THEN xdg.width ELSE win.width
    <2>1. /\ y \in Toplevels /\ y.interactive = xdg.interactive /\ w \in SizesOrZero
          /\ y.serial = xdg.serial /\ y.unacked = xdg.unacked
      BY <1>1 DEF Toplevels
    <2>2. win' = win /\ (xdg' = SendToplevelConfigure(y, w) \/ xdg' = y)
      BY <1>6 DEF SetWindowActivated
    <2> HIDE DEF y, w
    <2> QED
      BY <2>1, <2>2, ConfigureKeeps DEF Told, Quiet
  <1> QED
    BY <1>2, <1>3, <1>4, <1>5, <1>6 DEF OtherConfigures

LEMMA AckKeeps ==
  ASSUME ConfigureInv, NEW i \in 1..Len(xdg.unacked), ClientAck(i)
  PROVE  /\ ConfigureInv' /\ xdg'.interactive = xdg.interactive
         /\ xdg'.serial = xdg.serial /\ xdg.unacked # <<>>
         /\ win'.width = win.width /\ win'.authority = win.authority
         /\ win'.committed = win.committed /\ win'.fills_host = win.fills_host
  <1> DEFINE y == AckState(xdg, i)
             s == xdg.unacked[i].serial
             z == AckSurface(y, s)
  <1>1. win \in Windows /\ xdg \in Toplevels
    BY DEF ConfigureInv, TypeOK
  <1>2. y \in Toplevels /\ s \in Nat /\ z \in Toplevels
    BY <1>1, AckStateType, AckSurfaceType
  <1>3. y.interactive = xdg.interactive /\ y.serial = xdg.serial
    BY <1>1 DEF AckState, Toplevels
  <1> HIDE DEF y, s
  <1>4. z.interactive = xdg.interactive /\ z.serial = xdg.serial
    BY <1>2, <1>3 DEF AckSurface, Toplevels
  <1> HIDE DEF z
  <1>5. /\ AckToplevel(z, s).interactive = xdg.interactive
        /\ AckToplevel(z, s).serial = xdg.serial
    BY <1>2, <1>4 DEF AckToplevel, Toplevels
  <1>6. xdg'.interactive = xdg.interactive /\ xdg'.serial = xdg.serial
    BY <1>5 DEF ClientAck, Ack, y, s, z
  <1>7. ConfigureInv'
    BY NextInv DEF Next, ClientSteps
  <1>8. xdg.unacked # <<>>
    BY <1>1 DEF Toplevels
  <1> QED
    BY <1>1, <1>6, <1>7, <1>8 DEF ClientAck, Windows

\* Only a size is adopted.
LEMMA AdoptedSize ==
  ASSUME NEW w \in SizesOrZero, CommitDecision(w).apply
  PROVE  w \in Sizes
  <1>1. w > 0
    BY DEF CommitDecision, OnClientCommit
  <1> QED
    BY <1>1, SizesType DEF SizesOrZero

\* What a commit does: nothing, or the client adopts its size.
LEMMA CommitAdopts ==
  ASSUME ConfigureInv, NEW w \in SizesOrZero, ClientCommit(w)
  PROVE  /\ ConfigureInv' /\ win'.fills_host = win.fills_host
         /\ xdg'.interactive = xdg.interactive /\ Quiet(xdg, xdg')
         /\ \/ /\ ~Adopts(w)
               /\ win'.width = win.width /\ win'.authority = win.authority
               /\ win'.committed = win.committed
            \/ /\ w \in Sizes
               /\ win'.width = w /\ win'.authority = Client /\ win'.committed = TRUE
               /\ xdg.unacked = <<>> \/ ~win.committed
               /\ ~HostHolds(win.authority, w, xdg.pending_serial, xdg.interactive,
                             ~win.fills_host)
  <1>1. /\ win \in Windows /\ xdg \in Toplevels /\ Bookkept(xdg) /\ TypeOK
        /\ CommittedPastFirst
    BY DEF ConfigureInv, TypeOK
  <1>2. ConfigureInv'
    BY NextInv DEF Next, ClientSteps
  <1>3. /\ win'.fills_host = win.fills_host
        /\ win'.authority = IF SyncsHostSize THEN CommitDecision(w).authority
                                             ELSE win.authority
        /\ win'.width = IF Adopts(w) THEN w ELSE win.width
        /\ win'.committed = (win.committed \/ Adopts(w))
        /\ xdg'.interactive = xdg.interactive /\ Quiet(xdg, xdg')
    BY <1>1 DEF ClientCommit, Windows, Toplevels, Quiet
  <1>4. CASE Adopts(w)
    <2>1. CommitDecision(w).apply /\ SyncsHostSize
      BY <1>4 DEF Adopts
    <2>2. /\ CommitDecision(w).authority = Client
          /\ ~HostHolds(win.authority, w, xdg.pending_serial, xdg.interactive,
                        ~win.fills_host)
      BY <1>1, <2>1, CommitDecisionFacts
    <2>3. w \in Sizes
      BY <2>1, AdoptedSize
    <2>4. xdg.unacked = <<>> \/ ~win.committed
      BY <1>1, <2>1, NoPendingSerial DEF SyncsHostSize, CommittedPastFirst
    <2> QED
      BY <1>2, <1>3, <1>4, <2>1, <2>2, <2>3, <2>4
  <1>5. CASE ~Adopts(w)
    <2>1. SyncsHostSize => CommitDecision(w).authority = win.authority
      BY <1>5 DEF Adopts, CommitDecision, OnClientCommit
    <2>2. win.committed \in BOOLEAN
      BY <1>1 DEF Windows
    <2> QED
      BY <1>2, <1>3, <1>5, <2>1, <2>2
  <1> QED
    BY <1>4, <1>5

-----------------------------------------------------------------------------
\* The steps of SizeAgreement that the host's and the client's steps map to

LEMMA RequestAgreed ==
  ASSUME NEW w \in Sizes, win'.authority = Host(w), win'.width \in {w, win.width},
         win'.committed = win.committed, Told(xdg, xdg'),
         xdg'.interactive \in BOOLEAN
  PROVE  Agreement!Next
  <1>1. IsHost(win'.authority) /\ win'.authority.requested = w
    BY DEF IsHost, Host
  <1>2. Agreement!HostAsks(w)
    BY <1>1 DEF Agreement!HostAsks, Agreement!Announces, Told
  <1> QED
    BY <1>2 DEF Agreement!Next

LEMMA TalkAgreed ==
  ASSUME win'.width = win.width, win'.authority = win.authority,
         win'.committed = win.committed, xdg'.interactive = xdg.interactive,
         \/ Told(xdg, xdg')
         \/ xdg'.serial = xdg.serial /\ (xdg.unacked = <<>> => xdg'.unacked = <<>>)
  PROVE  Agreement!Next
  <1>1. Agreement!Talk
    BY DEF Agreement!Talk, Agreement!Announces, Agreement!Answered, Told
  <1> QED
    BY <1>1 DEF Agreement!Next

LEMMA CommitAgreed ==
  ASSUME ConfigureInv, NEW w \in SizesOrZero, ClientCommit(w)
  PROVE  [Agreement!Next]_Agreement!vars
  <1>1. /\ win \in Windows /\ win.authority \in Authorities(Sizes)
        /\ xdg.interactive \in BOOLEAN
    BY DEF ConfigureInv, TypeOK, Windows, Toplevels
  <1>2. /\ xdg'.interactive = xdg.interactive /\ xdg'.unacked = xdg.unacked
        /\ xdg'.serial = xdg.serial
    BY CommitAdopts DEF Quiet
  <1>3. CASE /\ win'.width = win.width /\ win'.authority = win.authority
             /\ win'.committed = win.committed
    BY <1>2, <1>3, TalkAgreed
  <1>4. CASE /\ w \in Sizes
             /\ win'.width = w /\ win'.authority = Client /\ win'.committed = TRUE
             /\ xdg.unacked = <<>> \/ ~win.committed
             /\ ~HostHolds(win.authority, w, xdg.pending_serial, xdg.interactive,
                           ~win.fills_host)
    <2>1. ~IsHost(win'.authority) /\ win'.authority.requested = 0
      BY <1>4 DEF IsHost, Client
    <2>2. Agreement!ClientAdopts(w)
      BY <1>2, <1>4, <2>1 DEF Agreement!ClientAdopts
    <2>3. Agreement!MayAdopt
      BY <1>4 DEF Agreement!MayAdopt
    <2>4. CASE ~IsHost(win.authority)
      <3>1. Agreement!ClientSets(w)
        BY <2>2, <2>3, <2>4 DEF Agreement!ClientSets
      <3> QED
        BY <1>4, <3>1 DEF Agreement!Next
    <2>5. CASE IsHost(win.authority) /\ SizesMatch(win.authority.requested, w)
      <3>1. PICK r \in Sizes : win.authority = Host(r)
        BY <1>1, <2>5 DEF Authorities, IsHost, Client, AwaitingFirstCommit
      <3>2. win.authority.requested = r /\ r \in Nat /\ w \in Nat
        BY <1>4, <3>1, SizesType DEF Host
      <3>3. w \in {r - 1, r, r + 1}
        BY <2>5, <3>2 DEF SizesMatch
      <3>4. Agreement!Meets(w)
        BY <2>2, <2>3, <2>5, <3>2, <3>3 DEF Agreement!Meets
      <3> QED
        BY <1>4, <3>4 DEF Agreement!Next
    <2>6. CASE IsHost(win.authority) /\ ~SizesMatch(win.authority.requested, w)
      <3>1. xdg.pending_serial = 0 /\ ~xdg.interactive
        BY <1>1, <1>4, <2>6 DEF HostHolds
      <3>2. xdg.unacked = <<>>
        BY <3>1, NoPendingSerial DEF ConfigureInv, TypeOK
      <3>3. Agreement!Refuses(w)
        BY <2>2, <2>6, <3>1, <3>2 DEF Agreement!Refuses
      <3> QED
        BY <1>4, <3>3 DEF Agreement!Next
    <2> QED
      BY <2>4, <2>5, <2>6
  <1> QED
    BY <1>3, <1>4, CommitAdopts

LEMMA AgreementStarts == Init => Agreement!Init
  <1> SUFFICES ASSUME Init PROVE Agreement!Init
    OBVIOUS
  <1>1. PICK fills \in BOOLEAN : win = NewWindow(fills) /\ xdg = NewToplevel(fills)
    BY DEF Init
  <1>2. xdg.interactive = FALSE /\ xdg.unacked # <<>> /\ xdg.serial = 1
    BY <1>1 DEF NewToplevel, RecordSerial, SendState
  <1>3. CASE fills
    <2>1. Output \in Nat /\ Output > 0 /\ Output \in Sizes
      BY SizesAssumption
    <2>2. /\ win.width = Output /\ win.authority = Host(Output) /\ win.committed = FALSE
      BY <1>1, <1>3, <2>1 DEF NewWindow, OnHostResizeRequest
    <2>3. IsHost(win.authority) /\ win.authority.requested = Output
      BY <2>2 DEF IsHost, Host
    <2> QED
      BY <1>2, <2>1, <2>2, <2>3 DEF Agreement!Init
  <1>4. CASE ~fills
    <2>1. /\ win.width = 0 /\ win.authority = AwaitingFirstCommit /\ win.committed = FALSE
      BY <1>1, <1>4 DEF NewWindow
    <2>2. ~IsHost(win.authority) /\ win.authority.requested = 0
      BY <2>1 DEF IsHost, AwaitingFirstCommit
    <2> QED
      BY <1>2, <2>1, <2>2 DEF Agreement!Init
  <1> QED
    BY <1>3, <1>4

\* A commit, an ack and a configure without a request are steps of the agreement.
LEMMA ConfigureAgrees ==
  ASSUME ConfigureInv, [Next]_configureVars
  PROVE  [Agreement!Next]_Agreement!vars
  <1>1. ASSUME NEW i \in 1..Len(xdg.unacked), ClientAck(i) PROVE Agreement!Next
    BY <1>1, AckKeeps, TalkAgreed
  <1>2. ASSUME NEW w \in SizesOrZero, ClientCommit(w)
        PROVE  [Agreement!Next]_Agreement!vars
    BY <1>2, CommitAgreed
  <1>3. ASSUME OtherConfigures \/ \E b, send \in BOOLEAN : SetWindowActivated(b, send)
        PROVE  Agreement!Next
    BY <1>3, OthersKeep, TalkAgreed DEF Kept, Quiet
  <1>4. ASSUME UNCHANGED configureVars PROVE Agreement!Next
    BY <1>4, TalkAgreed DEF configureVars
  <1> QED
    BY <1>1, <1>2, <1>3, <1>4 DEF Next, ClientSteps

\* The window moves with its output, or by itself.
LEMMA MoveAgreed ==
  ASSUME NEW w \in SizesOrZero, win'.width = w, win'.authority = win.authority,
         win'.committed = win.committed, xdg'.interactive = xdg.interactive,
         Told(xdg, xdg')
  PROVE  Agreement!FollowNext
  <1>1. Agreement!HostMoves(w)
    BY DEF Agreement!HostMoves, Agreement!Announces, Told
  <1> QED
    BY <1>1 DEF Agreement!FollowNext, SizesOrZero

\* A step of the agreement is one of the agreement of hosts that move the window.
LEMMA AgreementFollows ==
  [Agreement!Next]_Agreement!vars => [Agreement!FollowNext]_Agreement!vars
  BY DEF Agreement!FollowNext

-----------------------------------------------------------------------------
\* The theorems

\* Every behaviour keeps the types of the window's and the toplevel's state,
\* for any set of sizes, any modes and any number of configures.
THEOREM TypesCorrect == Spec => []TypeOK
  <1>1. ConfigureInv => TypeOK
    BY DEF ConfigureInv
  <1> QED
    BY <1>1, SpecInv, PTL

\* The core's list of unacknowledged configures and the two serials cached
\* from it always agree with Smithay's list.
THEOREM BookkeepingAgrees == Spec => []PendingTracksUnacked
  <1>1. ConfigureInv => PendingTracksUnacked
    BY DEF ConfigureInv, Bookkept, PendingTracksUnacked
  <1> QED
    BY <1>1, SpecInv, PTL

\* The configured flag is never set while the client owes an ack.
THEOREM ConfiguredImpliesAcked == Spec => []ConfiguredMeansAcked
  <1>1. ConfigureInv => ConfiguredMeansAcked
    BY DEF ConfigureInv, Bookkept, ListsAgree, ConfiguredMeansAcked
  <1> QED
    BY <1>1, SpecInv, PTL

\* Only a commit changes the width of the window.
LEMMA WidthChanges ==
  ASSUME [Next]_configureVars, ConfigureInv, win'.width # win.width
  PROVE  \E w \in SizesOrZero : ClientCommit(w) /\ win'.width = w /\ Adopts(w)
  <1>1. win \in Windows
    BY DEF ConfigureInv, TypeOK
  <1>2. ASSUME NEW i \in 1..Len(xdg.unacked), ClientAck(i) PROVE FALSE
    BY <1>1, <1>2 DEF ClientAck, Windows
  <1>3. ASSUME NEW w \in SizesOrZero, ClientCommit(w)
        PROVE  win'.width = w /\ Adopts(w)
    BY <1>1, <1>3 DEF ClientCommit, Windows
  <1>4. ~ UNCHANGED win
    OBVIOUS
  <1> QED
    BY <1>2, <1>3, <1>4 DEF Next, ClientSteps, OtherConfigures, FocusChange,
       RequestActivation, ChooseDecoration, SetWindowActivated, configureVars

\* After its first buffer a window changes size only on a commit of a client
\* that has acknowledged every configure Smithay sent it.
THEOREM CommitsWait == Spec => CommitWaitsForAck
  <1>1. ConfigureInv /\ [Next]_configureVars
        => (win.committed /\ win'.width # win.width => xdg.unacked = <<>>)
    <2> SUFFICES ASSUME ConfigureInv, [Next]_configureVars, win.committed,
                        win'.width # win.width
                 PROVE  xdg.unacked = <<>>
      OBVIOUS
    <2> PICK w \in SizesOrZero : Adopts(w)
      BY WidthChanges
    <2>1. xdg.pending_serial = 0
      BY DEF Adopts, SyncsHostSize, ConfigureInv, CommittedPastFirst
    <2>2. xdg \in Toplevels /\ Bookkept(xdg)
      BY DEF ConfigureInv, TypeOK
    <2> QED
      BY <2>1, <2>2, NoPendingSerial
  <1>2. ConfigureInv /\ [Next]_configureVars
        => [win.committed /\ win'.width # win.width => xdg.unacked = <<>>]_configureVars
    BY <1>1
  <1> QED
    BY <1>2, SpecInv, PTL DEF Spec, CommitWaitsForAck

\* The window of a nested compositor moves at most a pixel from the size the
\* host asked for while the host holds the authority.
THEOREM NestedNeverShrinks == Spec => FillsHostNeverShrinks
  <1>1. ConfigureInv /\ [Next]_configureVars
        => (IsHost(win.authority) /\ win.fills_host /\ win'.width # win.width
              => SizesMatch(win.authority.requested, win'.width))
    <2> SUFFICES ASSUME ConfigureInv, [Next]_configureVars, IsHost(win.authority),
                        win.fills_host, win'.width # win.width
                 PROVE  SizesMatch(win.authority.requested, win'.width)
      OBVIOUS
    <2> PICK w \in SizesOrZero : win'.width = w /\ Adopts(w)
      BY WidthChanges
    <2>1. ~HostHolds(win.authority, w, xdg.pending_serial, xdg.interactive, ~win.fills_host)
      BY CommitDecisionFacts DEF Adopts, ConfigureInv
    <2> QED
      BY <2>1 DEF HostHolds
  <1>2. ConfigureInv /\ [Next]_configureVars
        => [IsHost(win.authority) /\ win.fills_host /\ win'.width # win.width
              => SizesMatch(win.authority.requested, win'.width)]_configureVars
    BY <1>1
  <1> QED
    BY <1>2, SpecInv, PTL DEF Spec, FillsHostNeverShrinks

\* Whatever a client acks and commits, and whatever else it is configured with, the
\* size changes as the one-owner agreement of size_authority.rs says.
THEOREM ClientsAgree == Spec => ImplementsAgreement
  <1>1. ConfigureInv /\ [Next]_configureVars => [Agreement!Next]_Agreement!vars
    BY ConfigureAgrees
  <1> QED
    BY <1>1, SpecInv, AgreementStarts, PTL DEF Spec, ImplementsAgreement, Agreement!Spec

=============================================================================
