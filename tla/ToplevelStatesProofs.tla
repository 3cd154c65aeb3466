------------------------ MODULE ToplevelStatesProofs ------------------------
(***************************************************************************)
(* Theorems of ToplevelStates, for any sizes and modes and any number of   *)
(* configures.                                                             *)
(***************************************************************************)
EXTENDS ToplevelStates, ToplevelConfigureProofs

\* The pending states are the ones last announced, and the last announcement is the
\* one the client acks last.
Announced(x) ==
  /\ x.sent.maximized = x.pending_maximized
  /\ x.sent.fullscreen = x.pending_fullscreen
  /\ x.sent.fullscreen => x.sent.size > 0
  /\ x.unacked = <<>> => x.acked = x.sent
  /\ x.unacked # <<>> => Last(x.unacked).state = x.sent

\* Once everything is acked, the pending states are current.
Current(w, x) ==
  x.unacked = <<>> =>
    /\ w.maximized = x.pending_maximized /\ x.maximized = x.pending_maximized
    /\ w.fullscreen = x.pending_fullscreen /\ x.fullscreen = x.pending_fullscreen

SavedType == saved \in SizesOrZero \cup {NotSaved} /\ native \in BOOLEAN

StatesInv ==
  /\ ConfigureInv /\ SavedType
  /\ Announced(xdg) /\ Current(win, xdg)
  /\ SavedWhileSpecial

-----------------------------------------------------------------------------
\* Configures

LEMMA UsableType == Usable \in SizesOrZero /\ NotSaved \notin SizesOrZero /\ Output > 0
  BY SizesAssumption, UsableAssumption DEF SizesOrZero, NotSaved

\* What a configure leaves behind in Smithay's part of the record
LEMMA SendStateSent ==
  ASSUME NEW x \in Toplevels, NEW st \in ToplevelStates
  PROVE  LET y == SendState(x, st)
         IN /\ y.sent = st /\ y.unacked # <<>> /\ Last(y.unacked).state = st
            /\ y.pending_maximized = x.pending_maximized
            /\ y.pending_fullscreen = x.pending_fullscreen
  <1> DEFINE c == [serial |-> x.serial + 1, state |-> st]
             y == SendState(x, st)
  <1>1. c \in Configures /\ x.unacked \in Seq(Configures)
    BY DEF Toplevels, Configures
  <1>2. /\ y.unacked = Append(x.unacked, c) /\ y.sent = st
        /\ y.pending_maximized = x.pending_maximized
        /\ y.pending_fullscreen = x.pending_fullscreen
    BY DEF SendState, Toplevels
  <1>3. y.unacked # <<>> /\ Last(y.unacked) = c
    BY <1>1, <1>2, AppendProperties, LenProperties DEF Last
  <1> QED
    BY <1>2, <1>3

LEMMA RecordSerialSent ==
  ASSUME NEW x \in Toplevels
  PROVE  LET y == RecordSerial(x)
         IN /\ y.sent = x.sent /\ y.unacked = x.unacked
            /\ y.pending_maximized = x.pending_maximized
            /\ y.pending_fullscreen = x.pending_fullscreen
  BY DEF RecordSerial, Toplevels

\* fn send_toplevel_configure announces the pending states, whatever came before.
LEMMA ConfigureAnnounces ==
  ASSUME NEW x \in Toplevels, NEW size \in SizesOrZero
  PROVE  LET y == SendToplevelConfigure(x, size)
         IN /\ Announced(y) /\ y.unacked # <<>>
            /\ y.pending_maximized = x.pending_maximized
            /\ y.pending_fullscreen = x.pending_fullscreen
            /\ y.sent.size = ConfigureSize(x, size)
  <1> DEFINE w == ConfigureSize(x, size)
             v == [x EXCEPT !.width = w]
             st == [x.sent EXCEPT !.size = w,
                                  !.activated = x.activated,
                                  !.maximized = x.pending_maximized,
                                  !.fullscreen = x.pending_fullscreen,
                                  !.resizing = x.interactive]
             y == SendToplevelConfigure(x, size)
  <1>1. w \in SizesOrZero /\ (x.pending_fullscreen => w > 0)
    BY SizesType, UsableType DEF ConfigureSize, SizesOrZero
  <1>2. v \in Toplevels /\ st \in ToplevelStates
    BY <1>1 DEF Toplevels, ToplevelStates
  <1>3. /\ v.pending_maximized = x.pending_maximized
        /\ v.pending_fullscreen = x.pending_fullscreen
    BY DEF Toplevels
  <1>4. /\ st.size = w /\ st.maximized = x.pending_maximized
        /\ st.fullscreen = x.pending_fullscreen
    BY DEF Toplevels, ToplevelStates
  <1>5. y = RecordSerial(SendState(v, st))
    BY DEF SendToplevelConfigure
  <1> HIDE DEF w, v, st, y
  <1>6. /\ y.sent = st /\ y.unacked # <<>> /\ Last(y.unacked).state = st
        /\ y.pending_maximized = x.pending_maximized
        /\ y.pending_fullscreen = x.pending_fullscreen
    BY <1>2, <1>3, <1>5, SendStateType, SendStateSent, RecordSerialSent
  <1>7. Announced(y)
    BY <1>1, <1>4, <1>6 DEF Announced
  <1> QED
    BY <1>4, <1>6, <1>7 DEF w, y

\* fn set_toplevel_activated announces the states again, or nothing.
LEMMA ActivatedAnnounces ==
  ASSUME NEW x \in Toplevels, NEW b \in BOOLEAN, Announced(x)
  PROVE  LET y == SetActivated(x, b)
         IN /\ Announced(y)
            /\ y.pending_maximized = x.pending_maximized
            /\ y.pending_fullscreen = x.pending_fullscreen
            /\ \A w \in Windows : Current(w, x) => Current(w, y)
  <1> DEFINE v == [x EXCEPT !.activated = b]
             st == [x.sent EXCEPT !.activated = b]
             y == SetActivated(x, b)
  <1>1. v \in Toplevels /\ st \in ToplevelStates
    BY DEF Toplevels, ToplevelStates
  <1>2. /\ v.pending_maximized = x.pending_maximized
        /\ v.pending_fullscreen = x.pending_fullscreen
        /\ v.maximized = x.maximized /\ v.fullscreen = x.fullscreen
        /\ v.sent = x.sent /\ v.acked = x.acked /\ v.unacked = x.unacked
    BY DEF Toplevels
  <1>3. /\ st.size = x.sent.size /\ st.maximized = x.sent.maximized
        /\ st.fullscreen = x.sent.fullscreen
    BY DEF Toplevels, ToplevelStates
  <1>4. y = v \/ y = RecordSerial(SendState(v, st))
    BY DEF SetActivated
  <1> HIDE DEF v, st, y
  <1>5. CASE y = v
    BY <1>2, <1>5 DEF Announced, Current, y
  <1>6. CASE y = RecordSerial(SendState(v, st))
    <2>1. /\ y.sent = st /\ y.unacked # <<>> /\ Last(y.unacked).state = st
          /\ y.pending_maximized = x.pending_maximized
          /\ y.pending_fullscreen = x.pending_fullscreen
      BY <1>1, <1>2, <1>6, SendStateType, SendStateSent, RecordSerialSent
    <2>2. Announced(y)
      BY <1>3, <2>1 DEF Announced
    <2> QED
      BY <2>1, <2>2 DEF Current, y
  <1> QED
    BY <1>4, <1>5, <1>6

\* An ack of the newest configure makes the pending states current, an older one
\* leaves them pending.
LEMMA AckAnnounces ==
  ASSUME ConfigureInv, NEW i \in 1..Len(xdg.unacked), ClientAck(i),
         Announced(xdg), Current(win, xdg)
  PROVE  /\ Announced(xdg') /\ Current(win', xdg')
         /\ xdg'.pending_maximized = xdg.pending_maximized
         /\ xdg'.pending_fullscreen = xdg.pending_fullscreen
  <1> DEFINE x == xdg
             y == AckState(x, i)
             s == x.unacked[i].serial
             z == AckSurface(y, s)
             rest == SubSeq(x.unacked, i + 1, Len(x.unacked))
  <1>1. /\ x \in Toplevels /\ Bookkept(x) /\ win \in Windows
        /\ x.unacked \in Seq(Configures) /\ Len(x.unacked) \in Nat
    BY LenProperties DEF ConfigureInv, TypeOK, Toplevels
  <1>2. y \in Toplevels /\ s \in Nat /\ z \in Toplevels
    BY <1>1, AckStateType, AckSurfaceType
  <1>3. /\ y.unacked = rest /\ y.acked = x.unacked[i].state /\ y.sent = x.sent
        /\ y.pending_maximized = x.pending_maximized
        /\ y.pending_fullscreen = x.pending_fullscreen
        /\ y.toplevel_serial = x.toplevel_serial
    BY <1>1 DEF AckState, Toplevels
  <1> HIDE DEF y
  <1>4. /\ z.unacked = rest /\ z.acked = y.acked /\ z.sent = x.sent
        /\ z.pending_maximized = x.pending_maximized
        /\ z.pending_fullscreen = x.pending_fullscreen
        /\ z.toplevel_serial = x.toplevel_serial
    BY <1>2, <1>3 DEF AckSurface, Toplevels
  <1> HIDE DEF z, rest
  <1>5. xdg' = AckToplevel(z, s)
    BY DEF ClientAck, Ack, z, y
  <1>6. /\ xdg'.unacked = rest /\ xdg'.acked = x.unacked[i].state /\ xdg'.sent = x.sent
        /\ xdg'.pending_maximized = x.pending_maximized
        /\ xdg'.pending_fullscreen = x.pending_fullscreen
        /\ x.toplevel_serial = s =>
             /\ xdg'.maximized = x.pending_maximized
             /\ xdg'.fullscreen = x.pending_fullscreen
    BY <1>2, <1>3, <1>4, <1>5 DEF AckToplevel, Toplevels
  <1>7. /\ rest = <<>> <=> i = Len(x.unacked)
        /\ rest # <<>> => Last(rest) = x.unacked[Len(x.unacked)]
    BY <1>1, Suffix DEF rest
  <1>8. x.unacked # <<>> /\ Last(x.unacked) = x.unacked[Len(x.unacked)]
    BY <1>1 DEF Last
  <1>9. Announced(xdg')
    BY <1>6, <1>7, <1>8 DEF Announced
  <1>10. Current(win', xdg')
    <2> SUFFICES ASSUME rest = <<>>
                 PROVE  /\ win'.maximized = x.pending_maximized
                        /\ xdg'.maximized = x.pending_maximized
                        /\ win'.fullscreen = x.pending_fullscreen
                        /\ xdg'.fullscreen = x.pending_fullscreen
      BY <1>6 DEF Current
    <2>1. x.pending_serials # <<>> /\ Last(x.pending_serials) = s
      BY <1>1, <1>7, <1>8 DEF Bookkept, ListsAgree
    <2>2. x.toplevel_serial = s
      BY <1>1, <2>1 DEF Bookkept, CacheCorrect
    <2>3. win' = [win EXCEPT !.maximized = x.pending_maximized,
                             !.fullscreen = x.pending_fullscreen]
      BY <2>2 DEF ClientAck
    <2> QED
      BY <1>1, <1>6, <2>2, <2>3 DEF Windows
  <1> QED
    BY <1>6, <1>9, <1>10

-----------------------------------------------------------------------------
\* The inductive invariant

LEMMA StatesInvInit == StatesInit => StatesInv
  <1> SUFFICES ASSUME StatesInit PROVE StatesInv
    OBVIOUS
  <1>1. ConfigureInv
    BY InitInv DEF StatesInit
  <1> PICK fills \in BOOLEAN : win = NewWindow(fills) /\ xdg = NewToplevel(fills)
    BY DEF StatesInit, Init
  <1> DEFINE first == [size |-> IF fills THEN Output ELSE 0, activated |-> TRUE,
                       maximized |-> FALSE, fullscreen |-> FALSE,
                       resizing |-> FALSE, mode |-> NoMode]
             blank == [first EXCEPT !.size = 0, !.activated = FALSE]
             unsent == [width |-> first.size, activated |-> TRUE, interactive |-> FALSE,
                        pending_maximized |-> FALSE, pending_fullscreen |-> FALSE,
                        maximized |-> FALSE, fullscreen |-> FALSE, toplevel_serial |-> 0,
                        pending_serial |-> 0, pending_serials |-> <<>>,
                        last_acked |-> 0, configured |-> FALSE,
                        serial |-> 0, sent |-> blank, unacked |-> <<>>, acked |-> blank]
  <1>2. /\ first \in ToplevelStates /\ first.size \in SizesOrZero
        /\ blank \in ToplevelStates
        /\ first.maximized = FALSE /\ first.fullscreen = FALSE
    BY SizesType DEF ToplevelStates, SizesOrZero
  <1>3. xdg = RecordSerial(SendState(unsent, first))
    BY DEF NewToplevel
  <1> HIDE DEF first, blank
  <1>4. <<>> \in Seq(Nat) /\ <<>> \in Seq(Configures)
    BY EmptySeq
  <1>5. /\ unsent \in Toplevels
        /\ unsent.pending_maximized = FALSE /\ unsent.pending_fullscreen = FALSE
    BY <1>2, <1>4 DEF Toplevels
  <1> HIDE DEF unsent
  <1>6. /\ xdg.sent = first /\ xdg.unacked # <<>> /\ Last(xdg.unacked).state = first
        /\ xdg.pending_maximized = FALSE /\ xdg.pending_fullscreen = FALSE
    BY <1>2, <1>3, <1>5, SendStateType, SendStateSent, RecordSerialSent
  <1>7. Announced(xdg) /\ Current(win, xdg)
    BY <1>2, <1>6 DEF Announced, Current
  <1> QED
    BY <1>1, <1>6, <1>7 DEF StatesInit, StatesInv, SavedType, SavedWhileSpecial, Special

\* Handlers that change the pending states, and announce them
LEMMA Configured ==
  ASSUME StatesInv, NEW x \in Toplevels, SerialsOrdered(x), NEW size \in SizesOrZero,
         xdg' = SendToplevelConfigure(x, size),
         win' \in Windows, win'.committed = win.committed, win'.authority = win.authority,
         SavedType',
         native \/ (saved' # NotSaved <=> Special(x)), UNCHANGED native
  PROVE  StatesInv'
  <1>1. xdg' \in Toplevels /\ Bookkept(xdg')
    BY SendToplevelConfigureType, SendToplevelConfigureBookkept
  <1>2. /\ Announced(xdg') /\ xdg'.unacked # <<>>
        /\ xdg'.pending_maximized = x.pending_maximized
        /\ xdg'.pending_fullscreen = x.pending_fullscreen
    BY ConfigureAnnounces
  <1>3. ConfigureInv'
    BY <1>1 DEF StatesInv, ConfigureInv, TypeOK, CommittedPastFirst
  <1> QED
    BY <1>2, <1>3 DEF StatesInv, Current, SavedWhileSpecial, Special

\* Handlers that leave the pending states as they are
LEMMA Talked ==
  ASSUME StatesInv, [Next]_configureVars, UNCHANGED <<saved, native>>,
         Announced(xdg'), Current(win', xdg'),
         xdg'.pending_maximized = xdg.pending_maximized,
         xdg'.pending_fullscreen = xdg.pending_fullscreen
  PROVE  StatesInv'
  <1>1. ConfigureInv'
    BY NextInv DEF StatesInv
  <1> QED
    BY <1>1 DEF StatesInv, SavedType, SavedWhileSpecial, Special

\* The client talks about something else, or acks.
LEMMA TalkKeeps ==
  ASSUME StatesInv, StatesTalk, UNCHANGED native
  PROVE  /\ StatesInv'
         /\ xdg'.pending_maximized = xdg.pending_maximized
         /\ xdg'.pending_fullscreen = xdg.pending_fullscreen
  <1>1. /\ win \in Windows /\ xdg \in Toplevels /\ Bookkept(xdg) /\ ConfigureInv
        /\ xdg.width \in SizesOrZero /\ win.width \in SizesOrZero
        /\ Announced(xdg) /\ Current(win, xdg)
    BY DEF StatesInv, ConfigureInv, TypeOK, Windows, Toplevels
  <1>2. [Next]_configureVars /\ UNCHANGED <<saved, native>>
    BY DEF StatesTalk, Next, ClientSteps, OtherConfigures
  <1>3. ASSUME NEW i \in 1..Len(xdg.unacked), ClientAck(i)
        PROVE  /\ Announced(xdg') /\ Current(win', xdg')
               /\ xdg'.pending_maximized = xdg.pending_maximized
               /\ xdg'.pending_fullscreen = xdg.pending_fullscreen
    BY <1>1, <1>3, AckAnnounces
  <1>4. ASSUME NEW w \in SizesOrZero, ClientCommit(w)
        PROVE  /\ Announced(xdg') /\ Current(win', xdg')
               /\ xdg'.pending_maximized = xdg.pending_maximized
               /\ xdg'.pending_fullscreen = xdg.pending_fullscreen
    <2>1. /\ win'.maximized = win.maximized /\ win'.fullscreen = win.fullscreen
      BY <1>1, <1>4 DEF ClientCommit, Windows
    <2>2. /\ xdg'.sent = xdg.sent /\ xdg'.acked = xdg.acked /\ xdg'.unacked = xdg.unacked
          /\ xdg'.maximized = xdg.maximized /\ xdg'.fullscreen = xdg.fullscreen
          /\ xdg'.pending_maximized = xdg.pending_maximized
          /\ xdg'.pending_fullscreen = xdg.pending_fullscreen
      BY <1>1, <1>4 DEF ClientCommit, Toplevels
    <2> QED
      BY <1>1, <2>1, <2>2 DEF Announced, Current
  <1>5. ASSUME NEW b \in BOOLEAN, FocusChange(b)
        PROVE  /\ Announced(xdg') /\ Current(win', xdg')
               /\ xdg'.pending_maximized = xdg.pending_maximized
               /\ xdg'.pending_fullscreen = xdg.pending_fullscreen
    BY <1>1, <1>5, ActivatedAnnounces DEF FocusChange
  <1>6. ASSUME NEW focusMoves \in BOOLEAN, RequestActivation(focusMoves)
        PROVE  /\ Announced(xdg') /\ Current(win', xdg')
               /\ xdg'.pending_maximized = xdg.pending_maximized
               /\ xdg'.pending_fullscreen = xdg.pending_fullscreen
    <2> DEFINE y == IF focusMoves THEN SetActivated(xdg, TRUE)
                                  ELSE [xdg EXCEPT !.activated = TRUE]
    <2>1. /\ y \in Toplevels
          /\ y.pending_maximized = xdg.pending_maximized
          /\ y.pending_fullscreen = xdg.pending_fullscreen
      BY <1>1, SetActivatedType, ActivatedAnnounces DEF Toplevels
    <2>2. win' = win /\ xdg' = SendToplevelConfigure(y, xdg.width)
      BY <1>6 DEF RequestActivation
    <2> HIDE DEF y
    <2> QED
      BY <1>1, <2>1, <2>2, ConfigureAnnounces DEF Current
  <1>7. ASSUME NEW mode \in Modes, ChooseDecoration(mode)
        PROVE  /\ Announced(xdg') /\ Current(win', xdg')
               /\ xdg'.pending_maximized = xdg.pending_maximized
               /\ xdg'.pending_fullscreen = xdg.pending_fullscreen
    <2> DEFINE y == SendDecoration(xdg, mode)
    <2>1. [xdg.sent EXCEPT !.mode = mode] \in ToplevelStates
      BY <1>1 DEF Toplevels, ToplevelStates
    <2>2. /\ y \in Toplevels
          /\ y.pending_maximized = xdg.pending_maximized
          /\ y.pending_fullscreen = xdg.pending_fullscreen
      BY <1>1, <2>1, SendDecorationType, SendStateSent DEF SendDecoration
    <2>3. win' = win /\ xdg' = SendToplevelConfigure(y, win.width)
      BY <1>7 DEF ChooseDecoration, Decorate
    <2> HIDE DEF y
    <2> QED
      BY <1>1, <2>2, <2>3, ConfigureAnnounces DEF Current
  <1>8. ASSUME NEW b \in BOOLEAN, NEW send \in BOOLEAN, SetWindowActivated(b, send)
        PROVE  /\ Announced(xdg') /\ Current(win', xdg')
               /\ xdg'.pending_maximized = xdg.pending_maximized
               /\ xdg'.pending_fullscreen = xdg.pending_fullscreen
    <2> DEFINE y == [xdg EXCEPT !.activated = b]
               w == IF xdg.width > 0 THEN xdg.width ELSE win.width
    <2>1. /\ y \in Toplevels /\ w \in SizesOrZero
          /\ y.sent = xdg.sent /\ y.acked = xdg.acked /\ y.unacked = xdg.unacked
          /\ y.maximized = xdg.maximized /\ y.fullscreen = xdg.fullscreen
          /\ y.pending_maximized = xdg.pending_maximized
          /\ y.pending_fullscreen = xdg.pending_fullscreen
      BY <1>1 DEF Toplevels
    <2>2. win' = win /\ (xdg' = SendToplevelConfigure(y, w) \/ xdg' = y)
      BY <1>8 DEF SetWindowActivated
    <2> HIDE DEF y, w
    <2>3. CASE xdg' = SendToplevelConfigure(y, w)
      BY <2>1, <2>2, <2>3, ConfigureAnnounces DEF Current
    <2>4. CASE xdg' = y
      BY <1>1, <2>1, <2>2, <2>4 DEF Announced, Current
    <2> QED
      BY <2>2, <2>3, <2>4
  <1>9. /\ Announced(xdg') /\ Current(win', xdg')
        /\ xdg'.pending_maximized = xdg.pending_maximized
        /\ xdg'.pending_fullscreen = xdg.pending_fullscreen
    BY <1>3, <1>4, <1>5, <1>6, <1>7, <1>8 DEF StatesTalk, OtherConfigures
  <1> QED
    BY <1>2, <1>9, Talked

\* The client enters or leaves a state: two pending flags, one after the other.
LEMMA RequestsKeep ==
  ASSUME StatesInv, Requests, UNCHANGED native
  PROVE  /\ StatesInv'
         /\ (/\ xdg.pending_fullscreen /\ ~xdg'.pending_fullscreen
             /\ xdg'.pending_maximized) => xdg'.sent.size = Usable
  <1>1. /\ win \in Windows /\ xdg \in Toplevels /\ SerialsOrdered(xdg)
        /\ win.width \in SizesOrZero
        /\ saved \in SizesOrZero \cup {NotSaved}
        /\ SavedType /\ SavedWhileSpecial
    BY DEF StatesInv, ConfigureInv, TypeOK, Windows, Bookkept, SavedType
  <1>2. /\ Saved \in SizesOrZero /\ Restored \in SizesOrZero
        /\ Usable \in SizesOrZero /\ Output \in SizesOrZero /\ 0 \in SizesOrZero
    BY <1>1, UsableType, SizesType DEF Saved, Restored, SizesOrZero, NotSaved
  <1>3. CASE Maximize
    <2> DEFINE x == [xdg EXCEPT !.pending_maximized = TRUE]
               size == IF x.pending_fullscreen THEN Output ELSE Usable
    <2>1. /\ x \in Toplevels /\ SerialsOrdered(x) /\ size \in SizesOrZero
          /\ x.pending_maximized = TRUE /\ x.pending_fullscreen = xdg.pending_fullscreen
      BY <1>1, <1>2 DEF Toplevels, SerialsOrdered
    <2>2. /\ xdg' = SendToplevelConfigure(x, size) /\ saved' = Saved
          /\ win' = [win EXCEPT !.maximized = TRUE]
      BY <1>3 DEF Maximize
    <2> HIDE DEF x, size
    <2>3. win' \in Windows /\ win'.committed = win.committed /\ win'.authority = win.authority
      BY <1>1, <2>2 DEF Windows
    <2>4. SavedType' /\ saved' # NotSaved /\ Special(x)
      BY <1>1, <1>2, <2>1, <2>2, UsableType DEF SavedType, Special
    <2>5. StatesInv'
      BY <2>1, <2>2, <2>3, <2>4, Configured
    <2> QED
      BY <2>1, <2>2, <2>5, ConfigureAnnounces
  <1>4. CASE Unmaximize
    <2> DEFINE x == [xdg EXCEPT !.pending_maximized = FALSE]
               size == IF x.pending_fullscreen THEN Output ELSE Restored
    <2>1. /\ x \in Toplevels /\ SerialsOrdered(x) /\ size \in SizesOrZero
          /\ x.pending_maximized = FALSE /\ x.pending_fullscreen = xdg.pending_fullscreen
      BY <1>1, <1>2 DEF Toplevels, SerialsOrdered
    <2>2. /\ xdg' = SendToplevelConfigure(x, size)
          /\ saved' = IF x.pending_fullscreen THEN saved ELSE NotSaved
          /\ win' = [win EXCEPT !.maximized = FALSE]
      BY <1>4 DEF Unmaximize
    <2> HIDE DEF x, size
    <2>3. win' \in Windows /\ win'.committed = win.committed /\ win'.authority = win.authority
      BY <1>1, <2>2 DEF Windows
    <2>4. SavedType' /\ (native \/ (saved' # NotSaved <=> Special(x)))
      BY <1>1, <2>1, <2>2 DEF SavedType, Special, SavedWhileSpecial
    <2>5. StatesInv'
      BY <2>1, <2>2, <2>3, <2>4, Configured
    <2> QED
      BY <2>1, <2>2, <2>5, ConfigureAnnounces
  <1>5. CASE Fullscreen
    <2> DEFINE x == [xdg EXCEPT !.pending_fullscreen = TRUE]
    <2>1. /\ x \in Toplevels /\ SerialsOrdered(x)
          /\ x.pending_fullscreen = TRUE /\ x.pending_maximized = xdg.pending_maximized
      BY <1>1 DEF Toplevels, SerialsOrdered
    <2>2. /\ xdg' = SendToplevelConfigure(x, Output) /\ saved' = Saved
          /\ win' = [win EXCEPT !.fullscreen = TRUE]
      BY <1>5 DEF Fullscreen
    <2> HIDE DEF x
    <2>3. win' \in Windows /\ win'.committed = win.committed /\ win'.authority = win.authority
      BY <1>1, <2>2 DEF Windows
    <2>4. SavedType' /\ saved' # NotSaved /\ Special(x)
      BY <1>1, <1>2, <2>1, <2>2, UsableType DEF SavedType, Special
    <2>5. StatesInv'
      BY <1>2, <2>1, <2>2, <2>3, <2>4, Configured
    <2> QED
      BY <1>2, <2>1, <2>2, <2>5, ConfigureAnnounces
  <1>6. CASE Unfullscreen
    <2> DEFINE x == [xdg EXCEPT !.pending_fullscreen = FALSE]
               size == IF x.pending_maximized THEN Usable ELSE Restored
    <2>1. /\ x \in Toplevels /\ SerialsOrdered(x) /\ size \in SizesOrZero
          /\ x.pending_fullscreen = FALSE /\ x.pending_maximized = xdg.pending_maximized
          /\ x.pending_maximized => size = Usable
      BY <1>1, <1>2 DEF Toplevels, SerialsOrdered
    <2>2. /\ xdg' = SendToplevelConfigure(x, size)
          /\ saved' = IF x.pending_maximized THEN saved ELSE NotSaved
          /\ win' = [win EXCEPT !.fullscreen = FALSE]
      BY <1>1, <1>6 DEF Unfullscreen, Toplevels
    <2> HIDE DEF x, size
    <2>3. win' \in Windows /\ win'.committed = win.committed /\ win'.authority = win.authority
      BY <1>1, <2>2 DEF Windows
    <2>4. SavedType' /\ (native \/ (saved' # NotSaved <=> Special(x)))
      BY <1>1, <2>1, <2>2 DEF SavedType, Special, SavedWhileSpecial
    <2>5. StatesInv'
      BY <2>1, <2>2, <2>3, <2>4, Configured
    <2>6. ConfigureSize(x, size) = size
      BY <2>1 DEF ConfigureSize
    <2> QED
      BY <2>1, <2>2, <2>5, <2>6, ConfigureAnnounces
  <1> QED
    BY <1>3, <1>4, <1>5, <1>6 DEF Requests

\* The host's notifications reach native windows alone.
LEMMA HostKeeps ==
  ASSUME StatesInv, HostStates, UNCHANGED native
  PROVE  StatesInv' /\ native
  <1> PICK flag \in {"maximized", "fullscreen"}, b \in BOOLEAN, w \in Sizes :
             ApplyHostState(flag, b, w)
    BY DEF HostStates
  <1> DEFINE size == IF b \/ saved = NotSaved THEN w ELSE saved
             x == HostToplevel(flag, b)
  <1>1. /\ win \in Windows /\ xdg \in Toplevels /\ SerialsOrdered(xdg)
        /\ win.width \in SizesOrZero
        /\ saved \in SizesOrZero \cup {NotSaved}
    BY DEF StatesInv, ConfigureInv, TypeOK, Windows, Bookkept, SavedType
  <1>2. size \in SizesOrZero /\ Saved \in SizesOrZero
    BY <1>1 DEF Saved, SizesOrZero, NotSaved
  <1>3. x \in Toplevels /\ SerialsOrdered(x)
    BY <1>1 DEF HostToplevel, Toplevels, SerialsOrdered
  <1>4. /\ native /\ win' = HostWindow(flag, b, size)
        /\ xdg' = SendToplevelConfigure(x, size)
        /\ saved' = IF b THEN Saved ELSE NotSaved
    BY DEF ApplyHostState
  <1> HIDE DEF size, x
  <1>5. win' \in Windows /\ win'.committed = win.committed /\ win'.authority = win.authority
    BY <1>1, <1>2, <1>4 DEF HostWindow, Windows
  <1>6. SavedType'
    BY <1>2, <1>4 DEF SavedType
  <1> QED
    BY <1>2, <1>3, <1>4, <1>5, <1>6, Configured

LEMMA StatesInvStep == StatesInv /\ [StatesNext]_statesVars => StatesInv'
  <1> SUFFICES ASSUME StatesInv, [StatesNext]_statesVars PROVE StatesInv'
    OBVIOUS
  <1>1. CASE StatesNext
    BY <1>1, TalkKeeps, RequestsKeep, HostKeeps DEF StatesNext
  <1>2. CASE UNCHANGED statesVars
    BY <1>2, Talked DEF statesVars, configureVars, StatesInv
  <1> QED
    BY <1>1, <1>2

LEMMA StatesInvariant == StatesSpec => []StatesInv
  BY StatesInvInit, StatesInvStep, PTL DEF StatesSpec

-----------------------------------------------------------------------------
\* The agreement on the size

\* A request and a notification differ from the toplevel in pending states alone.
OnlyPending(x) ==
  /\ x.serial = xdg.serial /\ x.interactive = xdg.interactive
  /\ x.maximized = xdg.maximized /\ x.fullscreen = xdg.fullscreen

\* fn maximize_toplevel and the like configure, and leave the size alone.
LEMMA RequestConfigures ==
  ASSUME StatesInv, Requests
  PROVE  /\ \E x \in Toplevels, size \in SizesOrZero :
              OnlyPending(x) /\ xdg' = SendToplevelConfigure(x, size)
         /\ win'.width = win.width /\ win'.authority = win.authority
         /\ win'.committed = win.committed
  <1>1. /\ win \in Windows /\ xdg \in Toplevels
        /\ win.width \in SizesOrZero /\ saved \in SizesOrZero \cup {NotSaved}
    BY DEF StatesInv, ConfigureInv, TypeOK, Windows, SavedType
  <1>2. /\ Restored \in SizesOrZero /\ Usable \in SizesOrZero /\ Output \in SizesOrZero
    BY <1>1, UsableType, SizesType DEF Restored, SizesOrZero, NotSaved
  <1>3. /\ win'.width = win.width /\ win'.authority = win.authority
        /\ win'.committed = win.committed
    BY <1>1 DEF Requests, Maximize, Unmaximize, Fullscreen, Unfullscreen, Windows
  <1>4. CASE Maximize
    <2> DEFINE x == [xdg EXCEPT !.pending_maximized = TRUE]
               size == IF x.pending_fullscreen THEN Output ELSE Usable
    <2>1. x \in Toplevels /\ OnlyPending(x) /\ size \in SizesOrZero
      BY <1>1, <1>2 DEF Toplevels, OnlyPending
    <2>2. xdg' = SendToplevelConfigure(x, size)
      BY <1>4 DEF Maximize
    <2> QED
      BY <1>3, <2>1, <2>2
  <1>5. CASE Unmaximize
    <2> DEFINE x == [xdg EXCEPT !.pending_maximized = FALSE]
               size == IF x.pending_fullscreen THEN Output ELSE Restored
    <2>1. x \in Toplevels /\ OnlyPending(x) /\ size \in SizesOrZero
      BY <1>1, <1>2 DEF Toplevels, OnlyPending
    <2>2. xdg' = SendToplevelConfigure(x, size)
      BY <1>5 DEF Unmaximize
    <2> QED
      BY <1>3, <2>1, <2>2
  <1>6. CASE Fullscreen
    <2> DEFINE x == [xdg EXCEPT !.pending_fullscreen = TRUE]
    <2>1. x \in Toplevels /\ OnlyPending(x)
      BY <1>1 DEF Toplevels, OnlyPending
    <2>2. xdg' = SendToplevelConfigure(x, Output)
      BY <1>6 DEF Fullscreen
    <2> QED
      BY <1>2, <1>3, <2>1, <2>2
  <1>7. CASE Unfullscreen
    <2> DEFINE x == [xdg EXCEPT !.pending_fullscreen = FALSE]
               size == IF x.pending_maximized THEN Usable ELSE Restored
    <2>1. x \in Toplevels /\ OnlyPending(x) /\ size \in SizesOrZero
      BY <1>1, <1>2 DEF Toplevels, OnlyPending
    <2>2. xdg' = SendToplevelConfigure(x, size)
      BY <1>7 DEF Unfullscreen
    <2> QED
      BY <1>3, <2>1, <2>2
  <1> QED
    BY <1>4, <1>5, <1>6, <1>7 DEF Requests

\* fn apply_host_window_fullscreen moves the window, whoever owns its size.
LEMMA HostConfigures ==
  ASSUME StatesInv, HostStates
  PROVE  /\ \E x \in Toplevels, size \in SizesOrZero :
              /\ OnlyPending(x) /\ xdg' = SendToplevelConfigure(x, size)
              /\ win'.width = size
         /\ win'.authority = win.authority /\ win'.committed = win.committed
  <1> PICK flag \in {"maximized", "fullscreen"}, b \in BOOLEAN, w \in Sizes :
             ApplyHostState(flag, b, w)
    BY DEF HostStates
  <1> DEFINE size == IF b \/ saved = NotSaved THEN w ELSE saved
             x == HostToplevel(flag, b)
  <1>1. win \in Windows /\ xdg \in Toplevels /\ saved \in SizesOrZero \cup {NotSaved}
    BY DEF StatesInv, ConfigureInv, TypeOK, SavedType
  <1>2. size \in SizesOrZero
    BY <1>1 DEF SizesOrZero
  <1>3. x \in Toplevels /\ OnlyPending(x)
    BY <1>1 DEF HostToplevel, Toplevels, OnlyPending
  <1>4. win' = HostWindow(flag, b, size) /\ xdg' = SendToplevelConfigure(x, size)
    BY DEF ApplyHostState
  <1> HIDE DEF size, x
  <1>5. /\ win'.width = size
        /\ win'.authority = win.authority /\ win'.committed = win.committed
    BY <1>1, <1>2, <1>4 DEF HostWindow, Windows
  <1> QED
    BY <1>2, <1>3, <1>4, <1>5

\* What the client does, and what it asks for, is a step of the agreement.
LEMMA ClientAgrees ==
  ASSUME StatesInv, StatesTalk \/ Requests \/ UNCHANGED configureVars
  PROVE  [Agreement!Next]_Agreement!vars
  <1>1. ConfigureInv
    BY DEF StatesInv
  <1>2. CASE StatesTalk \/ UNCHANGED configureVars
    <2>1. [Next]_configureVars
      BY <1>2 DEF StatesTalk, Next, ClientSteps, OtherConfigures
    <2> QED
      BY <1>1, <2>1, ConfigureAgrees
  <1>3. CASE Requests
    <2>1. PICK x \in Toplevels, size \in SizesOrZero :
               OnlyPending(x) /\ xdg' = SendToplevelConfigure(x, size)
      BY <1>3, RequestConfigures
    <2>2. xdg'.interactive = xdg.interactive /\ Told(xdg, xdg')
      BY <2>1, ConfigureKeeps DEF OnlyPending, Told
    <2> QED
      BY <1>3, <2>2, RequestConfigures, TalkAgreed
  <1> QED
    BY <1>2, <1>3

LEMMA HostAgrees ==
  ASSUME StatesInv, HostStates
  PROVE  Agreement!FollowNext
  <1>1. PICK x \in Toplevels, size \in SizesOrZero :
             /\ OnlyPending(x) /\ xdg' = SendToplevelConfigure(x, size)
             /\ win'.width = size
    BY HostConfigures
  <1>2. xdg'.interactive = xdg.interactive /\ Told(xdg, xdg')
    BY <1>1, ConfigureKeeps DEF OnlyPending, Told
  <1> QED
    BY <1>1, <1>2, HostConfigures, MoveAgreed

-----------------------------------------------------------------------------
\* The handshake

\* Configures leave the current states as they are.
LEMMA ConfigureKeepsCurrent ==
  ASSUME NEW x \in Toplevels, NEW size \in SizesOrZero
  PROVE  LET y == SendToplevelConfigure(x, size)
         IN y.maximized = x.maximized /\ y.fullscreen = x.fullscreen
  BY DEF SendToplevelConfigure, RecordSerial, SendState, Toplevels

LEMMA ActivatedKeepsCurrent ==
  ASSUME NEW x \in Toplevels, NEW b \in BOOLEAN
  PROVE  LET y == SetActivated(x, b)
         IN y.maximized = x.maximized /\ y.fullscreen = x.fullscreen
  BY DEF SetActivated, RecordSerial, SendState, Toplevels

SameStates ==
  xdg'.maximized = xdg.maximized /\ xdg'.fullscreen = xdg.fullscreen

\* So do the configures that are about something else.
LEMMA OthersKeepCurrent ==
  ASSUME StatesInv,
         OtherConfigures \/ \E b, send \in BOOLEAN : SetWindowActivated(b, send)
  PROVE  SameStates
  <1>1. /\ xdg \in Toplevels /\ xdg.width \in SizesOrZero /\ win.width \in SizesOrZero
    BY DEF StatesInv, ConfigureInv, TypeOK, Windows, Toplevels
  <1>2. ASSUME NEW b \in BOOLEAN, FocusChange(b) PROVE SameStates
    BY <1>1, <1>2, ActivatedKeepsCurrent DEF FocusChange, SameStates
  <1>3. ASSUME NEW focusMoves \in BOOLEAN, RequestActivation(focusMoves) PROVE SameStates
    <2> DEFINE y == IF focusMoves THEN SetActivated(xdg, TRUE)
                                  ELSE [xdg EXCEPT !.activated = TRUE]
    <2>1. y \in Toplevels /\ y.maximized = xdg.maximized /\ y.fullscreen = xdg.fullscreen
      BY <1>1, SetActivatedType, ActivatedKeepsCurrent DEF Toplevels
    <2>2. xdg' = SendToplevelConfigure(y, xdg.width)
      BY <1>3 DEF RequestActivation
    <2> HIDE DEF y
    <2> QED
      BY <1>1, <2>1, <2>2, ConfigureKeepsCurrent DEF SameStates
  <1>4. ASSUME NEW mode \in Modes, ChooseDecoration(mode) PROVE SameStates
    <2> DEFINE y == SendDecoration(xdg, mode)
    <2>1. y.maximized = xdg.maximized /\ y.fullscreen = xdg.fullscreen
      BY <1>1 DEF SendDecoration, SendState, Toplevels
    <2>2. y \in Toplevels /\ xdg' = SendToplevelConfigure(y, win.width)
      BY <1>1, <1>4, SendDecorationType DEF ChooseDecoration, Decorate
    <2> HIDE DEF y
    <2> QED
      BY <1>1, <2>1, <2>2, ConfigureKeepsCurrent DEF SameStates
  <1>5. ASSUME NEW b \in BOOLEAN, NEW send \in BOOLEAN, SetWindowActivated(b, send)
        PROVE  SameStates
    <2> DEFINE y == [xdg EXCEPT !.activated = b]
               w == IF xdg.width > 0 THEN xdg.width ELSE win.width
    <2>1. /\ y \in Toplevels /\ w \in SizesOrZero
          /\ y.maximized = xdg.maximized /\ y.fullscreen = xdg.fullscreen
      BY <1>1 DEF Toplevels
    <2>2. xdg' = SendToplevelConfigure(y, w) \/ xdg' = y
      BY <1>5 DEF SetWindowActivated
    <2> HIDE DEF y, w
    <2> QED
      BY <2>1, <2>2, ConfigureKeepsCurrent DEF SameStates
  <1> QED
    BY <1>2, <1>3, <1>4, <1>5 DEF OtherConfigures

\* An ack that leaves something unanswered is not of the configure whose serial the
\* toplevel remembers.
LEMMA OlderAck ==
  ASSUME StatesInv, NEW i \in 1..Len(xdg.unacked), ClientAck(i), xdg'.unacked # <<>>
  PROVE  SameStates
  <1> DEFINE x == xdg
             y == AckState(x, i)
             s == x.unacked[i].serial
             z == AckSurface(y, s)
             n == Len(x.unacked)
             rest == SubSeq(x.unacked, i + 1, n)
  <1>1. /\ x \in Toplevels /\ Bookkept(x) /\ x.unacked \in Seq(Configures) /\ n \in Nat
    BY LenProperties DEF StatesInv, ConfigureInv, TypeOK, Toplevels
  <1>2. y \in Toplevels /\ s \in Nat /\ z \in Toplevels
    BY <1>1, AckStateType, AckSurfaceType
  <1>3. /\ y.unacked = rest /\ y.toplevel_serial = x.toplevel_serial
        /\ y.maximized = x.maximized /\ y.fullscreen = x.fullscreen
    BY <1>1 DEF AckState, Toplevels
  <1> HIDE DEF y
  <1>4. /\ z.unacked = rest /\ z.toplevel_serial = x.toplevel_serial
        /\ z.maximized = x.maximized /\ z.fullscreen = x.fullscreen
    BY <1>2, <1>3 DEF AckSurface, Toplevels
  <1> HIDE DEF z, rest
  <1>5. xdg' = AckToplevel(z, s)
    BY DEF ClientAck, Ack, z, y
  <1>6. i # n
    <2>1. xdg'.unacked = rest
      BY <1>2, <1>4, <1>5 DEF AckToplevel, Toplevels
    <2> QED
      BY <1>1, <2>1, Suffix DEF rest
  <1>7. x.toplevel_serial # s
    <2>1. n \in 1..n /\ i < n
      BY <1>1, <1>6
    <2>2. x.unacked # <<>> /\ Last(x.unacked) = x.unacked[n]
      BY <1>1, <2>1 DEF Last
    <2>3. x.toplevel_serial = x.unacked[n].serial
      BY <1>1, <2>2 DEF Bookkept, ListsAgree, CacheCorrect
    <2>4. x.unacked[i].serial < x.unacked[n].serial
      BY <1>1, <2>1 DEF Bookkept, SerialsOrdered
    <2> QED
      BY <1>2, <2>3, <2>4
  <1> QED
    BY <1>4, <1>5, <1>7 DEF AckToplevel, SameStates

\* A configure asks, and a step that changes no state asks nothing.
LEMMA AskedOrQuiet ==
  ASSUME StatesInv', SameStates,
         \/ xdg'.unacked # <<>>
         \/ /\ xdg'.pending_maximized = xdg.pending_maximized
            /\ xdg'.pending_fullscreen = xdg.pending_fullscreen
            /\ xdg'.unacked = xdg.unacked
  PROVE  [Handshake!Next]_Handshake!vars
  <1>1. CASE xdg'.unacked # <<>>
    <2> DEFINE asked == <<xdg'.pending_maximized, xdg'.pending_fullscreen>>
    <2>1. asked \in BOOLEAN \X BOOLEAN
      BY DEF StatesInv, ConfigureInv, TypeOK, Toplevels
    <2>2. Handshake!Ask(asked)
      BY <1>1 DEF Handshake!Ask, SameStates
    <2> QED
      BY <2>1, <2>2 DEF Handshake!Next
  <1>2. CASE xdg'.unacked = <<>>
    BY <1>2 DEF Handshake!vars, SameStates
  <1> QED
    BY <1>1, <1>2

\* An ack settles what was asked, or leaves the states as they are.
LEMMA AckShakes ==
  ASSUME StatesInv, StatesInv', NEW i \in 1..Len(xdg.unacked), ClientAck(i)
  PROVE  [Handshake!Next]_Handshake!vars
  <1>1. /\ ConfigureInv /\ Announced(xdg) /\ Current(win, xdg)
        /\ xdg.unacked \in Seq(Configures)
    BY DEF StatesInv, ConfigureInv, TypeOK, Toplevels
  <1>2. /\ Current(win', xdg')
        /\ xdg'.pending_maximized = xdg.pending_maximized
        /\ xdg'.pending_fullscreen = xdg.pending_fullscreen
    BY <1>1, AckAnnounces
  <1>3. CASE xdg'.unacked = <<>>
    <2>1. xdg.unacked # <<>>
      BY <1>1
    <2>2. Handshake!Settle
      BY <1>2, <1>3, <2>1 DEF Handshake!Settle, Current
    <2> QED
      BY <2>2 DEF Handshake!Next
  <1>4. CASE xdg'.unacked # <<>>
    BY <1>4, OlderAck, AskedOrQuiet
  <1> QED
    BY <1>3, <1>4

LEMMA TalkShakes ==
  ASSUME StatesInv, StatesInv', StatesTalk, UNCHANGED native
  PROVE  [Handshake!Next]_Handshake!vars
  <1>1. /\ xdg'.pending_maximized = xdg.pending_maximized
        /\ xdg'.pending_fullscreen = xdg.pending_fullscreen
    BY TalkKeeps
  <1>2. ASSUME NEW i \in 1..Len(xdg.unacked), ClientAck(i)
        PROVE  [Handshake!Next]_Handshake!vars
    BY <1>2, AckShakes
  <1>3. ASSUME NEW w \in SizesOrZero, ClientCommit(w)
        PROVE  [Handshake!Next]_Handshake!vars
    <2>1. SameStates /\ xdg'.unacked = xdg.unacked
      BY <1>3 DEF ClientCommit, StatesInv, ConfigureInv, TypeOK, Toplevels, SameStates
    <2> QED
      BY <1>1, <2>1, AskedOrQuiet
  <1>4. ASSUME OtherConfigures \/ \E b, send \in BOOLEAN : SetWindowActivated(b, send)
        PROVE  [Handshake!Next]_Handshake!vars
    <2>1. SameStates
      BY <1>4, OthersKeepCurrent
    <2>2. xdg'.unacked # <<>> \/ xdg'.unacked = xdg.unacked
      BY <1>4, OthersKeep DEF StatesInv, Kept, Told, Quiet
    <2> QED
      BY <1>1, <2>1, <2>2, AskedOrQuiet
  <1> QED
    BY <1>2, <1>3, <1>4 DEF StatesTalk

\* A request and a notification ask.
LEMMA PendingShakes ==
  ASSUME StatesInv, StatesInv', Requests \/ HostStates
  PROVE  [Handshake!Next]_Handshake!vars
  <1>1. PICK x \in Toplevels, size \in SizesOrZero :
             OnlyPending(x) /\ xdg' = SendToplevelConfigure(x, size)
    BY RequestConfigures, HostConfigures
  <1>2. SameStates /\ xdg'.unacked # <<>>
    BY <1>1, ConfigureKeeps, ConfigureKeepsCurrent DEF OnlyPending, SameStates, Told
  <1> QED
    BY <1>2, AskedOrQuiet

LEMMA HandshakeStarts == StatesInit => Handshake!Init
  <1> SUFFICES ASSUME StatesInit PROVE Handshake!Init
    OBVIOUS
  <1>1. PICK fills \in BOOLEAN : xdg = NewToplevel(fills)
    BY DEF StatesInit, Init
  <1>2. /\ xdg.pending_maximized = FALSE /\ xdg.pending_fullscreen = FALSE
        /\ xdg.maximized = FALSE /\ xdg.fullscreen = FALSE
        /\ xdg.unacked # <<>>
    BY <1>1 DEF NewToplevel, RecordSerial, SendState
  <1> QED
    BY <1>2 DEF Handshake!Init

-----------------------------------------------------------------------------
\* The theorems

\* Every variable keeps its type, whatever sizes host and client choose.
THEOREM StateTypesCorrect == StatesSpec => []StatesTypeOK
  <1>1. StatesInv => StatesTypeOK
    BY DEF StatesInv, ConfigureInv, SavedType, StatesTypeOK
  <1> QED
    BY <1>1, StatesInvariant, PTL

\* When the client has acked everything, all copies of each state agree
\* (handle_toplevel_ack_configure).
THEOREM StatesAgree == StatesSpec => []StatesSettle
  <1>1. StatesInv => StatesSettle
    BY DEF StatesInv, Announced, Current, StatesSettle
  <1> QED
    BY <1>1, StatesInvariant, PTL

\* No fullscreen configure is without a size, whoever sends it.
THEOREM FullscreenSized == StatesSpec => []FullscreenHasSize
  <1>1. StatesInv => FullscreenHasSize
    BY DEF StatesInv, Announced, FullscreenHasSize
  <1> QED
    BY <1>1, StatesInvariant, PTL

\* A size to return to is kept as long as a state of a client's own is pending
\* (save_floating_geometry).
THEOREM SavedAsLongAsSpecial == StatesSpec => []SavedWhileSpecial
  <1>1. StatesInv => SavedWhileSpecial
    BY DEF StatesInv
  <1> QED
    BY <1>1, StatesInvariant, PTL

\* A client that leaves fullscreen and is still maximized is sent the maximized size
\* (unfullscreen_toplevel).
THEOREM BackToMaximized == StatesSpec => UnfullscreenToMaximized
  <1> DEFINE Back == (/\ ~native
                      /\ xdg.pending_fullscreen /\ ~xdg'.pending_fullscreen
                      /\ xdg.pending_maximized /\ xdg'.pending_maximized)
                     => xdg'.sent.size = Usable
  <1>1. StatesInv /\ [StatesNext]_statesVars => Back
    <2> SUFFICES ASSUME StatesInv, [StatesNext]_statesVars PROVE Back
      OBVIOUS
    <2>1. CASE StatesTalk /\ UNCHANGED native
      BY <2>1, TalkKeeps
    <2>2. CASE Requests /\ UNCHANGED native
      BY <2>2, RequestsKeep
    <2>3. CASE HostStates /\ UNCHANGED native
      BY <2>3, HostKeeps
    <2>4. CASE UNCHANGED statesVars
      BY <2>4 DEF statesVars, configureVars
    <2> QED
      BY <2>1, <2>2, <2>3, <2>4 DEF StatesNext
  <1>2. StatesInv /\ [StatesNext]_statesVars => [Back]_statesVars
    BY <1>1
  <1> QED
    BY <1>2, StatesInvariant, PTL DEF StatesSpec, UnfullscreenToMaximized

\* A window of a client that enters and leaves states, on a host that reports its
\* own: only such a report moves the window without the agreement, and never without
\* a configure (apply_host_window_fullscreen, finalize_surface_commit).
THEOREM StatesFollowAgreement == StatesSpec => FollowsAgreement
  <1>1. StatesInit => Agreement!Init
    BY AgreementStarts DEF StatesInit
  <1>2. StatesInv /\ [StatesNext]_statesVars => [Agreement!FollowNext]_Agreement!vars
    <2> SUFFICES ASSUME StatesInv, [StatesNext]_statesVars
                 PROVE  [Agreement!FollowNext]_Agreement!vars
      OBVIOUS
    <2>1. CASE StatesTalk \/ Requests \/ UNCHANGED configureVars
      BY <2>1, ClientAgrees, AgreementFollows
    <2>2. CASE HostStates
      BY <2>2, HostAgrees
    <2> QED
      BY <2>1, <2>2 DEF StatesNext, statesVars
  <1> QED
    BY <1>1, <1>2, StatesInvariant, PTL DEF StatesSpec, FollowsAgreement, Agreement!FollowSpec

\* Without such a host the states have no part in the agreement at all: a client that
\* maximizes has its size changed by what it commits, as any other.
THEOREM HeadlessAgrees == StatesSpec /\ ~native => ImplementsAgreement
  <1>1. StatesInit => Agreement!Init
    BY AgreementStarts DEF StatesInit
  <1>2. ~native /\ [StatesNext]_statesVars => (~native)'
    BY DEF StatesNext, statesVars
  <1>3. StatesInv /\ ~native /\ [StatesNext]_statesVars => [Agreement!Next]_Agreement!vars
    <2> SUFFICES ASSUME StatesInv, ~native, [StatesNext]_statesVars
                 PROVE  [Agreement!Next]_Agreement!vars
      OBVIOUS
    <2>1. CASE StatesTalk \/ Requests \/ UNCHANGED configureVars
      BY <2>1, ClientAgrees
    <2>2. CASE HostStates
      BY <2>2 DEF HostStates, ApplyHostState
    <2> QED
      BY <2>1, <2>2 DEF StatesNext, statesVars
  <1> QED
    BY <1>1, <1>2, <1>3, StatesInvariant, PTL
    DEF StatesSpec, ImplementsAgreement, Agreement!Spec

\* Maximized and fullscreen become current at the ack that leaves nothing
\* unanswered, as they were asked for last, and at no other moment
\* (handle_toplevel_ack_configure).
THEOREM StatesShakeHands == StatesSpec => ImplementsHandshake
  <1>1. StatesInv /\ StatesInv' /\ [StatesNext]_statesVars
          => [Handshake!Next]_Handshake!vars
    <2> SUFFICES ASSUME StatesInv, StatesInv', [StatesNext]_statesVars
                 PROVE  [Handshake!Next]_Handshake!vars
      OBVIOUS
    <2>1. CASE StatesTalk /\ UNCHANGED native
      BY <2>1, TalkShakes
    <2>2. CASE Requests \/ HostStates
      BY <2>2, PendingShakes
    <2>3. CASE UNCHANGED statesVars
      BY <2>3, AskedOrQuiet DEF statesVars, configureVars, SameStates
    <2> QED
      BY <2>1, <2>2, <2>3 DEF StatesNext
  <1> QED
    BY <1>1, HandshakeStarts, StatesInvariant, PTL
    DEF StatesSpec, ImplementsHandshake, Handshake!Spec

\* Nor do requests and notifications upset the books on unacknowledged configures
\* (send_toplevel_configure, handle_toplevel_ack_configure).
THEOREM StatesKeepBooks == StatesSpec => [](PendingTracksUnacked /\ ConfiguredMeansAcked)
  <1>1. StatesInv => PendingTracksUnacked /\ ConfiguredMeansAcked
    BY DEF StatesInv, ConfigureInv, Bookkept, ListsAgree, PendingTracksUnacked,
           ConfiguredMeansAcked
  <1> QED
    BY <1>1, StatesInvariant, PTL
=============================================================================
