------------------------- MODULE ResizeHostsProofs -------------------------
(***************************************************************************)
(* Theorems of the two hosts that resize a window, for any sizes, modes    *)
(* and bounds: lemmas on the calls of ResizeSession, then GtkHost, then    *)
(* AndroidHost.  The hosts share ResizeSession's variables and nothing     *)
(* else; each theorem is about the behaviours of one of them.              *)
(***************************************************************************)
EXTENDS GtkHost, AndroidHost, ToplevelConfigureProofs

-----------------------------------------------------------------------------
\* The calls of ResizeSession, on a record of the core

CoreOK(c) ==
  /\ c \in [win : Windows, xdg : Toplevels, txn : Transactions]
  /\ Bookkept(c.xdg)
  /\ c.win.committed => c.win.authority # AwaitingFirstCommit

LEMMA CoreIsOK ==
  ASSUME ConfigureInv, txn \in Transactions
  PROVE  /\ CoreOK(Core) /\ Core.win = win /\ Core.xdg = xdg /\ Core.txn = txn
  BY DEF ConfigureInv, TypeOK, CommittedPastFirst, CoreOK, Core

LEMMA CoreSet ==
  ASSUME NEW c, CoreOK(c), SetCore(c)
  PROVE  ConfigureInv' /\ txn' \in Transactions
  BY DEF SetCore, CoreOK, ConfigureInv, TypeOK, CommittedPastFirst

LEMMA InteractiveSet ==
  ASSUME NEW c, CoreOK(c), NEW b \in BOOLEAN
  PROVE  LET d == SetInteractive(c, b)
         IN /\ CoreOK(d) /\ d.win = c.win /\ d.txn = c.txn
            /\ d.xdg.interactive = b /\ d.xdg.width = c.xdg.width
            /\ Quiet(c.xdg, d.xdg)
  <1> DEFINE x == [c.xdg EXCEPT !.interactive = b]
             d == SetInteractive(c, b)
  <1>1. /\ c \in [win : Windows, xdg : Toplevels, txn : Transactions]
        /\ c.xdg \in Toplevels /\ Bookkept(c.xdg)
    BY DEF CoreOK
  <1>2. /\ x \in Toplevels /\ x.interactive = b /\ x.width = c.xdg.width
        /\ Quiet(c.xdg, x)
    BY <1>1 DEF Toplevels, Quiet
  <1>3. Bookkept(x)
    BY <1>1 DEF Bookkept, SerialsOrdered, ListsAgree, CacheCorrect, Toplevels
  <1>4. d \in [win : Windows, xdg : Toplevels, txn : Transactions]
        /\ d.xdg = x /\ d.win = c.win /\ d.txn = c.txn
    BY <1>1, <1>2 DEF SetInteractive
  <1> HIDE DEF x, d
  <1>5. CoreOK(d)
    BY <1>3, <1>4 DEF CoreOK
  <1> QED
    BY <1>2, <1>4, <1>5 DEF d

\* A request of the host gives it the size, and owes it an answer.
LEMMA SizeRequested ==
  ASSUME NEW c, CoreOK(c), NEW w \in Sizes, NEW b \in BOOLEAN
  PROVE  LET d == RequestSize(c, w, b)
         IN /\ CoreOK(d)
            /\ d.win.authority = Host(w)
            /\ d.win.width = IF b THEN w ELSE c.win.width
            /\ d.win.committed = c.win.committed /\ d.win.fills_host = c.win.fills_host
            /\ d.xdg.interactive = c.xdg.interactive
            /\ Told(c.xdg, d.xdg)
  <1> DEFINE x == SendToplevelConfigure(c.xdg, w)
             v == [c.win EXCEPT !.authority = Host(w), !.width = IF b THEN w ELSE @]
             t == [serial |-> x.serial, size |-> w]
             d == RequestSize(c, w, b)
  <1>1. /\ c.win \in Windows /\ c.xdg \in Toplevels /\ Bookkept(c.xdg)
        /\ w \in SizesOrZero
    BY DEF CoreOK, SizesOrZero
  <1>2. /\ x \in Toplevels /\ Bookkept(x) /\ x.interactive = c.xdg.interactive
        /\ Told(c.xdg, x)
    BY <1>1, SendToplevelConfigureType, SendToplevelConfigureBookkept, ConfigureKeeps
       DEF Bookkept
  <1>3. Host(w) \in Authorities(Sizes) /\ OnHostResizeRequest(w) = Host(w)
    BY AuthorityTypes
  <1>4. /\ v \in Windows /\ v.authority = Host(w)
        /\ v.width = IF b THEN w ELSE c.win.width
        /\ v.committed = c.win.committed /\ v.fills_host = c.win.fills_host
    BY <1>1, <1>3 DEF Windows
  <1>5. t \in Transactions
    BY <1>1, <1>2 DEF Transactions, Toplevels
  <1>6. d = [xdg |-> x, txn |-> t, win |-> v]
    BY <1>3 DEF RequestSize
  <1>7. Host(w) # AwaitingFirstCommit
    BY DEF Host, AwaitingFirstCommit
  <1> HIDE DEF x, v, t
  <1>8. d.xdg = x /\ d.win = v /\ d.txn = t
    BY <1>6
  <1>9. d \in [win : Windows, xdg : Toplevels, txn : Transactions]
    BY <1>2, <1>4, <1>5, <1>6
  <1> HIDE DEF d
  <1>10. CoreOK(d)
    BY <1>2, <1>4, <1>7, <1>8, <1>9 DEF CoreOK
  <1> QED
    BY <1>2, <1>4, <1>8, <1>10 DEF d

LEMMA CurrentSizeType ==
  ASSUME NEW c, CoreOK(c)
  PROVE  CurrentSize(c) \in SizesOrZero
  BY DEF CoreOK, CurrentSize, Windows, Toplevels

\* An open session, with the request for the current size if there is one
LEMMA SessionOpened ==
  ASSUME NEW c, CoreOK(c), NEW w \in SizesOrZero
  PROVE  LET d == OpenSession(c, w)
         IN /\ CoreOK(d) /\ d.xdg.interactive = TRUE
            /\ d.win.width = c.win.width /\ d.win.committed = c.win.committed
            /\ d.win.fills_host = c.win.fills_host
            /\ IF w > 0 THEN d.win.authority = Host(w) /\ Told(c.xdg, d.xdg)
                        ELSE d.win.authority = c.win.authority /\ Quiet(c.xdg, d.xdg)
  <1> DEFINE e == SetInteractive(c, TRUE)
  <1>1. /\ CoreOK(e) /\ e.win = c.win /\ e.xdg.interactive = TRUE
        /\ Quiet(c.xdg, e.xdg)
    BY InteractiveSet
  <1>2. w > 0 => w \in Sizes
    BY DEF SizesOrZero
  <1> HIDE DEF e
  <1>3. CASE w > 0
    <2> DEFINE d == RequestSize(e, w, FALSE)
    <2>1. OpenSession(c, w) = d
      BY <1>3 DEF OpenSession, e
    <2>2. /\ CoreOK(d) /\ d.win.width = e.win.width
          /\ d.win.committed = e.win.committed /\ d.win.fills_host = e.win.fills_host
          /\ d.xdg.interactive = e.xdg.interactive
          /\ d.win.authority = Host(w) /\ Told(e.xdg, d.xdg)
      BY <1>1, <1>2, <1>3, SizeRequested
    <2> HIDE DEF d
    <2>3. Told(c.xdg, d.xdg)
      BY <1>1, <2>2 DEF Told, Quiet
    <2> QED
      BY <1>1, <1>3, <2>1, <2>2, <2>3
  <1>4. CASE ~(w > 0)
    BY <1>1, <1>4 DEF OpenSession, e
  <1> QED
    BY <1>3, <1>4

\* The queues on the way back
QueuesOK == changes \in Seq(Sizes) /\ events \in Seq(WindowEvents)

SessionInv == ConfigureInv /\ txn \in Transactions /\ QueuesOK

LEMMA SessionStarts == SessionInit => SessionInv
  BY InitInv DEF SessionInit, SessionInv, QueuesOK, NoTxn, Transactions, SizesOrZero

LEMMA CommitKeeps ==
  ASSUME SessionInv, NEW w \in SizesOrZero, Commit(w)
  PROVE  SessionInv'
  <1>1. ConfigureInv'
    BY CommitAdopts DEF SessionInv, Commit
  <1>2. EmitsSizeChanged(w) => w \in Sizes
    BY AdoptedSize DEF EmitsSizeChanged, Adopts
  <1>3. changes' \in Seq(Sizes)
    BY <1>2 DEF Commit, SessionInv, QueuesOK
  <1> QED
    BY <1>1, <1>3 DEF SessionInv, QueuesOK, Commit

LEMMA HandleKeeps ==
  ASSUME SessionInv, HandleSizeChanged
  PROVE  SessionInv' /\ changes # <<>>
  <1> DEFINE w == Head(changes)
             matched == txn # NoTxn /\ txn.size = w
             e == [width |-> w, cause |-> IF matched THEN "HostConfigure" ELSE "ClientCommit"]
  <1>1. changes # <<>> /\ changes \in Seq(Sizes) /\ events \in Seq(WindowEvents)
    BY DEF HandleSizeChanged, SessionInv, QueuesOK
  <1>2. w \in Sizes /\ Tail(changes) \in Seq(Sizes)
    BY <1>1
  <1>3. e \in WindowEvents
    BY <1>2 DEF WindowEvents
  <1>4. /\ events' = Append(events, e) /\ changes' = Tail(changes)
        /\ txn' = (IF matched THEN NoTxn ELSE txn) /\ win' = win /\ xdg' = xdg
    BY DEF HandleSizeChanged
  <1> HIDE DEF w, matched, e
  <1>5. events' \in Seq(WindowEvents) /\ changes' \in Seq(Sizes)
    BY <1>1, <1>2, <1>3, <1>4
  <1>6. txn' \in Transactions
    BY <1>4 DEF SessionInv, NoTxn, Transactions, SizesOrZero
  <1>7. ConfigureInv'
    BY <1>4 DEF SessionInv, ConfigureInv, TypeOK, CommittedPastFirst
  <1> QED
    BY <1>1, <1>5, <1>6, <1>7 DEF SessionInv, QueuesOK

-----------------------------------------------------------------------------
\* GtkHost

GtkInv ==
  /\ SessionInv
  /\ gtk \in GtkHosts /\ drags \in 0..MaxDrags
  /\ SessionsAgree /\ DragSizeHeld

LEMMA GtkInitInv == GtkInit => GtkInv
  <1> SUFFICES ASSUME GtkInit PROVE GtkInv
    OBVIOUS
  <1>1. SessionInv
    BY SessionStarts DEF GtkInit
  <1>2. gtk.active = FALSE /\ gtk \in GtkHosts
    BY SizesType DEF GtkInit, GtkHosts, SizesOrZero
  <1>3. xdg.interactive = FALSE
    BY DEF GtkInit, SessionInit, Init, NewToplevel, RecordSerial, SendState
  <1>4. drags \in 0..MaxDrags
    BY MaxDragsAssumption DEF GtkInit
  <1> QED
    BY <1>1, <1>2, <1>3, <1>4 DEF GtkInv, SessionsAgree, DragSizeHeld

\* A dispatch does nothing, or asks the client for the size it records.
LEMMA DispatchKeeps ==
  ASSUME GtkInv, NEW h \in GtkHosts, h.active = gtk.active, h.last = gtk.last,
         Dispatch(Core, h)
  PROVE  /\ ConfigureInv' /\ txn' \in Transactions /\ gtk' \in GtkHosts
         /\ SessionsAgree' /\ DragSizeHeld'
         /\ \/ win' = win /\ xdg' = xdg
            \/ \E w \in Sizes :
                 /\ win'.authority = Host(w) /\ win'.width = w
                 /\ win'.committed = win.committed /\ Told(xdg, xdg')
  <1>1. /\ CoreOK(Core) /\ Core.win = win /\ Core.xdg = xdg /\ Core.txn = txn
    BY CoreIsOK DEF GtkInv, SessionInv
  <1>2. CASE h.pending = 0 \/ h.pending = h.last
    <2>1. SetCore(Core) /\ gtk' = h
      BY <1>2 DEF Dispatch
    <2>2. win' = win /\ xdg' = xdg
      BY <1>1, <2>1 DEF SetCore
    <2>3. ConfigureInv' /\ txn' \in Transactions
      BY <1>1, <2>1, CoreSet
    <2> QED
      BY <2>1, <2>2, <2>3 DEF GtkInv, SessionsAgree, DragSizeHeld
  <1>3. CASE ~(h.pending = 0 \/ h.pending = h.last)
    <2> DEFINE w == h.pending
               c == IF h.active THEN Core ELSE BeginInteractive(Core)
               d == ResizeWindow(c, w)
    <2>1. w \in Sizes
      BY <1>3 DEF GtkHosts, SizesOrZero
    <2>2. /\ CoreOK(c) /\ c.xdg.interactive = TRUE
          /\ c.win.committed = win.committed
          /\ Told(xdg, c.xdg) \/ Quiet(xdg, c.xdg)
      <3>1. CASE h.active
        BY <1>1, <3>1 DEF GtkInv, SessionsAgree, Quiet
      <3>2. CASE ~h.active
        <4>1. xdg.interactive = FALSE
          BY <3>2 DEF GtkInv, SessionsAgree, SessionInv, ConfigureInv, TypeOK, Toplevels
        <4> DEFINE o == OpenSession(Core, CurrentSize(Core))
        <4>2. c = o
          BY <1>1, <3>2, <4>1 DEF BeginInteractive
        <4>3. CurrentSize(Core) \in SizesOrZero
          BY <1>1, CurrentSizeType
        <4>4. /\ CoreOK(o) /\ o.xdg.interactive = TRUE
              /\ o.win.committed = Core.win.committed
              /\ Told(Core.xdg, o.xdg) \/ Quiet(Core.xdg, o.xdg)
          BY <1>1, <4>3, SessionOpened
        <4> HIDE DEF o, c
        <4> QED
          BY <1>1, <4>2, <4>4
      <3> QED
        BY <3>1, <3>2
    <2>3. SetCore(d) /\ gtk' = [h EXCEPT !.in_flight = TRUE, !.last = w, !.active = TRUE]
      BY <1>3 DEF Dispatch
    <2> HIDE DEF w, c
    <2>4. /\ CoreOK(d) /\ d.win.authority = Host(w) /\ d.win.width = w
          /\ d.win.committed = c.win.committed
          /\ d.xdg.interactive = c.xdg.interactive /\ Told(c.xdg, d.xdg)
      BY <2>1, <2>2, SizeRequested DEF ResizeWindow
    <2> HIDE DEF d
    <2>4a. Told(xdg, d.xdg)
      <3>1. xdg.serial \in Nat /\ c.xdg.serial \in Nat /\ d.xdg.serial \in Nat
        BY <1>1, <2>2, <2>4 DEF CoreOK, Toplevels
      <3> QED
        BY <2>2, <2>4, <3>1 DEF Told, Quiet
    <2>5. win' = d.win /\ xdg' = d.xdg
      BY <2>3 DEF SetCore
    <2>6. ConfigureInv' /\ txn' \in Transactions
      BY <2>3, <2>4, CoreSet
    <2>7. w \in SizesOrZero
      BY <2>1 DEF SizesOrZero
    <2>8. gtk' \in GtkHosts /\ gtk'.active = TRUE /\ gtk'.last = w
      BY <2>3, <2>7 DEF GtkHosts
    <2> QED
      BY <2>1, <2>2, <2>4, <2>4a, <2>5, <2>6, <2>8 DEF SessionsAgree, DragSizeHeld
  <1> QED
    BY <1>2, <1>3

LEMMA GtkStep ==
  ASSUME GtkInv, [GtkNext]_hostVars
  PROVE  GtkInv' /\ [Agreement!Next]_Agreement!vars
  <1> DEFINE Goal == GtkInv' /\ [Agreement!Next]_Agreement!vars
  <1>1. /\ SessionInv /\ ConfigureInv /\ QueuesOK /\ gtk \in GtkHosts
        /\ drags \in 0..MaxDrags
    BY DEF GtkInv, SessionInv
  <1>2. ASSUME ConfigureInv' /\ txn' \in Transactions, gtk' \in GtkHosts,
               SessionsAgree' /\ DragSizeHeld', QueuesOK', drags' \in 0..MaxDrags
        PROVE  GtkInv'
    BY <1>2 DEF GtkInv, SessionInv
  <1>3. ASSUME NEW h \in GtkHosts, h.active = gtk.active, h.last = gtk.last,
               Dispatch(Core, h), QueuesOK', drags' \in 0..MaxDrags
        PROVE  Goal
    <2>1. /\ ConfigureInv' /\ txn' \in Transactions /\ gtk' \in GtkHosts
          /\ SessionsAgree' /\ DragSizeHeld'
      BY <1>3, DispatchKeeps
    <2>2. xdg'.interactive \in BOOLEAN
      BY <2>1 DEF ConfigureInv, TypeOK, Toplevels
    <2>3. win' = win /\ xdg' = xdg => Agreement!Next
      BY TalkAgreed
    <2>4. (\E w \in Sizes :
             /\ win'.authority = Host(w) /\ win'.width = w
             /\ win'.committed = win.committed /\ Told(xdg, xdg'))
            => Agreement!Next
      BY <2>2, RequestAgreed
    <2>5. Agreement!Next
      BY <1>3, <2>3, <2>4, DispatchKeeps
    <2> QED
      BY <1>2, <1>3, <2>1, <2>5
  <1>4. ASSUME NEW w \in Sizes, Allocate(w)
        PROVE  Goal
    <2>1. /\ Dispatch(Core, [gtk EXCEPT !.pending = w]) /\ changes' = changes
          /\ events' = events /\ drags' = drags + 1 /\ drags < MaxDrags
      BY <1>4 DEF Allocate
    <2>2. /\ [gtk EXCEPT !.pending = w] \in GtkHosts
          /\ [gtk EXCEPT !.pending = w].active = gtk.active
          /\ [gtk EXCEPT !.pending = w].last = gtk.last
      BY <1>1 DEF GtkHosts, SizesOrZero
    <2>3. QueuesOK' /\ drags' \in 0..MaxDrags
      BY <1>1, <2>1, MaxDragsAssumption DEF QueuesOK
    <2> QED
      BY <1>3, <2>1, <2>2, <2>3
  <1>5. ASSUME NEW w \in Sizes, GtkDecorationChanged(w)
        PROVE  Goal
    <2> DEFINE h == [gtk EXCEPT !.pending = w, !.redecorate = FALSE]
    <2>1. /\ Dispatch(Core, h) /\ changes' = changes
          /\ events' = events /\ drags' = drags
      BY <1>5 DEF GtkDecorationChanged
    <2>2. h \in GtkHosts /\ h.active = gtk.active /\ h.last = gtk.last
      BY <1>1 DEF GtkHosts, SizesOrZero
    <2>3. QueuesOK' /\ drags' \in 0..MaxDrags
      BY <1>1, <2>1 DEF QueuesOK
    <2> HIDE DEF h
    <2> QED
      BY <1>3, <2>1, <2>2, <2>3
  <1>6. ASSUME OtherConfigures \/ \E b, send \in BOOLEAN : SetWindowActivated(b, send),
               txn' = txn, changes' = changes, events' = events,
               gtk' \in GtkHosts, gtk'.active = gtk.active, gtk'.last = gtk.last,
               drags' = drags
        PROVE  Goal
    <2>1. /\ ConfigureInv' /\ win' = win /\ xdg'.interactive = xdg.interactive
          /\ Told(xdg, xdg') \/ Quiet(xdg, xdg')
      BY <1>1, <1>6, OthersKeep DEF Kept
    <2>2. SessionsAgree' /\ DragSizeHeld'
      BY <1>6, <2>1 DEF GtkInv, SessionsAgree, DragSizeHeld
    <2>3. QueuesOK' /\ txn' \in Transactions
      BY <1>1, <1>6 DEF QueuesOK, SessionInv
    <2>4. Agreement!Next
      BY <2>1, TalkAgreed DEF Quiet
    <2> QED
      BY <1>1, <1>2, <1>6, <2>1, <2>2, <2>3, <2>4
  <1>7. ASSUME GtkSizeChanged
        PROVE  Goal
    <2> DEFINE w == Head(events).width
               h == [gtk EXCEPT !.in_flight = FALSE,
                                !.pending = IF @ = w THEN 0 ELSE @]
    <2>1. /\ events # <<>> /\ events' = Tail(events) /\ changes' = changes
          /\ drags' = drags
      BY <1>7 DEF GtkSizeChanged
    <2>2. w \in Sizes
      <3>1. Head(events) \in WindowEvents
        BY <1>1, <2>1 DEF QueuesOK
      <3> QED
        BY <3>1 DEF WindowEvents
    <2>3. QueuesOK' /\ drags' \in 0..MaxDrags
      BY <1>1, <2>1 DEF QueuesOK
    <2>4. h \in GtkHosts /\ h.active = gtk.active /\ h.last = gtk.last
      BY <1>1, SizesType DEF GtkHosts, SizesOrZero
    <2>5. \/ UNCHANGED <<win, xdg, txn, gtk>>
          \/ Dispatch(Core, h)
          \/ h.active /\ SetCore(EndInteractive(Core, w)) /\ gtk' = [h EXCEPT !.active = FALSE]
          \/ gtk' = h /\ UNCHANGED <<win, xdg, txn>>
      BY <1>7 DEF GtkSizeChanged
    <2> HIDE DEF w, h
    <2>6. ASSUME gtk' \in GtkHosts, gtk'.active = gtk.active, gtk'.last = gtk.last,
                 UNCHANGED <<win, xdg, txn>>
          PROVE  Goal
      <3>1. ConfigureInv' /\ txn' \in Transactions
        BY <1>1, <2>6 DEF SessionInv, ConfigureInv, TypeOK, CommittedPastFirst
      <3>2. SessionsAgree' /\ DragSizeHeld'
        BY <2>6 DEF GtkInv, SessionsAgree, DragSizeHeld
      <3>3. Agreement!Next
        BY <2>6, TalkAgreed
      <3> QED
        BY <1>2, <2>3, <2>6, <3>1, <3>2, <3>3
    <2>7. CASE h.active /\ SetCore(EndInteractive(Core, w)) /\ gtk' = [h EXCEPT !.active = FALSE]
      <3> DEFINE c == SetInteractive(Core, FALSE)
                 d == ResizeWindow(c, w)
      <3>1. CoreOK(Core) /\ Core.win = win /\ Core.xdg = xdg
        BY <1>1, CoreIsOK DEF SessionInv
      <3>2. CoreOK(c)
        BY <3>1, InteractiveSet
      <3>2a. c.win = win /\ c.xdg.interactive = FALSE /\ Quiet(xdg, c.xdg)
        BY <3>1, InteractiveSet
      <3>3. SettleSize(Core, w) = w
        BY <2>2, SizesAssumption DEF SettleSize
      <3>4. SetCore(d)
        BY <2>7, <3>3 DEF EndInteractive, ResizeWindow
      <3> HIDE DEF c
      <3>5. /\ CoreOK(d) /\ d.win.authority = Host(w) /\ d.win.width = w
            /\ d.win.committed = c.win.committed
            /\ d.xdg.interactive = c.xdg.interactive /\ Told(c.xdg, d.xdg)
        BY <2>2, <3>2, SizeRequested DEF ResizeWindow
      <3> HIDE DEF d
      <3>5a. Told(xdg, d.xdg)
        BY <3>2a, <3>5 DEF Told, Quiet
      <3>6. ConfigureInv' /\ txn' \in Transactions /\ win' = d.win /\ xdg' = d.xdg
        BY <3>4, <3>5, CoreSet DEF SetCore
      <3>7. gtk' \in GtkHosts /\ gtk'.active = FALSE
        BY <2>4, <2>7 DEF GtkHosts
      <3>8. SessionsAgree' /\ DragSizeHeld'
        BY <3>2a, <3>5, <3>6, <3>7 DEF SessionsAgree, DragSizeHeld
      <3>9. Agreement!Next
        BY <2>2, <3>2a, <3>5, <3>5a, <3>6, RequestAgreed
      <3> QED
        BY <1>2, <2>3, <3>6, <3>7, <3>8, <3>9
    <2> QED
      BY <1>1, <1>3, <2>3, <2>4, <2>5, <2>6, <2>7
  <1>8. ASSUME GtkDispatch
        PROVE  Goal
    <2>1. /\ DispatchSteps /\ drags' = drags
          /\ gtk' = [gtk EXCEPT !.redecorate = @ \/ xdg'.sent.mode # xdg.sent.mode]
      BY <1>8 DEF GtkDispatch
    <2>2. gtk' \in GtkHosts /\ gtk'.active = gtk.active /\ gtk'.last = gtk.last
      BY <1>1, <2>1 DEF GtkHosts
    <2>3. ASSUME NEW i \in 1..Len(xdg.unacked), ClientAck(i),
                 txn' = txn /\ changes' = changes /\ events' = events
          PROVE  Goal
      <3>1. /\ ConfigureInv' /\ xdg'.interactive = xdg.interactive
            /\ win'.width = win.width /\ win'.authority = win.authority
            /\ win'.committed = win.committed
            /\ xdg'.serial = xdg.serial /\ xdg.unacked # <<>>
        BY <1>1, <2>3, AckKeeps
      <3>2. SessionsAgree' /\ DragSizeHeld'
        BY <2>2, <3>1 DEF GtkInv, SessionsAgree, DragSizeHeld
      <3>3. QueuesOK' /\ txn' \in Transactions
        BY <1>1, <2>3 DEF QueuesOK, SessionInv
      <3>4. Agreement!Next
        BY <3>1, TalkAgreed
      <3> QED
        BY <1>1, <1>2, <2>1, <2>2, <3>1, <3>2, <3>3, <3>4
    <2>4. ASSUME NEW w \in SizesOrZero, Commit(w)
          PROVE  Goal
      <3>1. SessionInv' /\ ClientCommit(w)
        BY <1>1, <2>4, CommitKeeps DEF Commit
      <3>2. /\ xdg'.interactive = xdg.interactive
            /\ \/ win'.authority = Client
               \/ win'.authority = win.authority /\ win'.width = win.width
        BY <1>1, <3>1, CommitAdopts
      <3>3. SessionsAgree' /\ DragSizeHeld'
        BY <2>2, <3>2 DEF GtkInv, SessionsAgree, DragSizeHeld, IsHost, Client
      <3>4. [Agreement!Next]_Agreement!vars
        BY <1>1, <3>1, CommitAgreed
      <3> QED
        BY <1>1, <2>1, <2>2, <3>1, <3>3, <3>4 DEF GtkInv
    <2> QED
      BY <1>6, <2>1, <2>2, <2>3, <2>4 DEF DispatchSteps, SessionAck, SessionConfigure
  <1>9. ASSUME HandleSizeChanged /\ UNCHANGED <<gtk, drags>>
        PROVE  Goal
    <2>1. SessionInv' /\ win' = win /\ xdg' = xdg
      BY <1>1, <1>9, HandleKeeps DEF HandleSizeChanged
    <2>2. SessionsAgree' /\ DragSizeHeld'
      BY <1>9, <2>1 DEF GtkInv, SessionsAgree, DragSizeHeld
    <2>3. Agreement!Next
      BY <2>1, TalkAgreed
    <2> QED
      BY <1>1, <1>9, <2>1, <2>2, <2>3 DEF GtkInv
  <1>10. ASSUME NEW b \in BOOLEAN, Activate(b)
         PROVE  Goal
    BY <1>1, <1>6, <1>10 DEF Activate
  <1>11. ASSUME UNCHANGED hostVars
         PROVE  Goal
    <2>1. /\ UNCHANGED <<win, xdg, txn, changes, events, gtk, drags>>
      BY <1>11 DEF hostVars, sessionVars
    <2>2. GtkInv'
      BY <2>1 DEF GtkInv, SessionInv, ConfigureInv, TypeOK, CommittedPastFirst, QueuesOK,
                  SessionsAgree, DragSizeHeld
    <2>3. Agreement!Next
      BY <2>1, TalkAgreed
    <2> QED
      BY <2>2, <2>3
  <1> HIDE DEF Goal
  <1>12. Goal
    BY <1>4, <1>5, <1>7, <1>8, <1>9, <1>10, <1>11 DEF GtkNext, HostSteps
  <1> QED
    BY <1>12 DEF Goal

LEMMA GtkInvariant == GtkSpec => []GtkInv
  <1>1. GtkInv /\ [GtkNext]_hostVars => GtkInv'
    BY GtkStep
  <1> QED
    BY <1>1, GtkInitInv, PTL DEF GtkSpec

\* Every variable of the host and of the session it drives keeps its type, the
\* queues between the core and the host included (wawona-linux-ui.rs, api.rs).
THEOREM GtkTypesCorrect == GtkSpec => []GtkTypeOK
  <1>1. GtkInv => GtkTypeOK
    BY DEF GtkInv, SessionInv, ConfigureInv, QueuesOK, GtkTypeOK, SessionTypeOK
  <1> QED
    BY <1>1, GtkInvariant, PTL

\* interactive_resize_active and XdgToplevelData.interactive_resize agree in
\* every behaviour, however long the drag.
THEOREM SessionsAlwaysAgree == GtkSpec => []SessionsAgree
  <1>1. GtkInv => SessionsAgree
    BY DEF GtkInv
  <1> QED
    BY <1>1, GtkInvariant, PTL

\* No lagging commit moves the window away from the size GTK dispatched last
\* (dispatch_pending_host_resize, finalize_surface_commit).
THEOREM DragSizesHeld == GtkSpec => []DragSizeHeld
  <1>1. GtkInv => DragSizeHeld
    BY DEF GtkInv
  <1> QED
    BY <1>1, GtkInvariant, PTL

\* The GTK host, the calls it makes and the core's commit handling together
\* implement the one-owner agreement of size_authority.rs.
THEOREM AgreementImplemented == GtkSpec => ImplementsAgreement
  <1>1. GtkInv /\ [GtkNext]_hostVars => [Agreement!Next]_Agreement!vars
    BY GtkStep
  <1>2. GtkInit => Agreement!Init
    BY AgreementStarts DEF GtkInit, SessionInit
  <1> QED
    BY <1>1, <1>2, GtkInvariant, PTL
       DEF GtkSpec, ImplementsAgreement, Agreement!Spec

-----------------------------------------------------------------------------
\* AndroidHost

\* Where the render thread has a size to resize this window to
Sized ==
  \/ render.at \in {"flag", "settle", "inject", "first", "second"}
  \/ render.at \in {"active", "window"} /\ render.who = "this"

\* Types, and that whoever resizes has a size to resize to
ThreadsOK ==
  /\ output \in Sizes
  /\ android \in Statics
  /\ ui \in Uis
  /\ render \in Renders
  /\ inputs \in 0..MaxInputs
  /\ overtaken \in BOOLEAN
  /\ ui.at # "rest" => ui.size \in Sizes
  /\ Sized => render.size \in Sizes

\* As long as no other window has overtaken this one: the UI thread opens a
\* session only while the statics describe none, and the render thread ends one
\* only while they do, so the two never meet.
Exclusive ==
  ~overtaken =>
    /\ android.window # "other"
    /\ ui.at \in {"open", "claim", "window"} => ui.target = "this"
    /\ ui.at = "open" => ~Recorded("this")
    /\ render.at \in {"call", "flag", "settle", "active"} => Recorded("this")
    /\ render.at \in {"settle", "active"} => ~xdg.interactive

AndroidInv == SessionInv /\ ThreadsOK /\ RunningIsKnown /\ Exclusive

LEMMA AndroidInitInv == AndroidInit => AndroidInv
  <1> SUFFICES ASSUME AndroidInit PROVE AndroidInv
    OBVIOUS
  <1>1. SessionInv
    BY SessionStarts DEF AndroidInit
  <1>2. PICK fills \in BOOLEAN : win = NewWindow(fills) /\ xdg = NewToplevel(fills)
    BY DEF AndroidInit, SessionInit, Init
  <1>3. xdg.interactive = FALSE
    BY <1>2 DEF NewToplevel, RecordSerial, SendState
  <1>4. win.fills_host \in BOOLEAN
    BY <1>2 DEF NewWindow
  <1>5. /\ android.active = FALSE /\ android.window = "none"
        /\ ui.at = "rest" /\ render.at = "dispatch"
    BY DEF AndroidInit, UiRests, Rests
  <1>6. ThreadsOK
    <2>1. android \in Statics
      <3>1. PICK follow \in BOOLEAN :
              android = [active |-> FALSE, window |-> "none", size |-> 0, idle |-> 0,
                         follow |-> follow]
        BY <1>4 DEF AndroidInit
      <3> QED
        BY <3>1 DEF Statics, WindowIds, SizesOrZero
    <2>2. ui \in Uis
      BY DEF AndroidInit, UiRests, Uis, WindowIds, SizesOrZero
    <2>3. render \in Renders
      BY DEF AndroidInit, Rests, Renders, WindowIds, SizesOrZero
    <2> QED
      <3>1. output \in Sizes /\ overtaken \in BOOLEAN
        BY SizesAssumption DEF AndroidInit
      <3>2. inputs \in 0..MaxInputs
        BY MaxInputsAssumption DEF AndroidInit
      <3>3. ui.at = "rest" /\ ~Sized
        BY <1>5 DEF Sized
      <3> QED
        BY <2>1, <2>2, <2>3, <3>1, <3>2, <3>3 DEF ThreadsOK
  <1>7. RunningIsKnown /\ Exclusive
    BY <1>3, <1>5 DEF RunningIsKnown, Exclusive, Recorded
  <1> QED
    BY <1>1, <1>6, <1>7 DEF AndroidInv

\* set_output_size, on a record of the core
LEMMA OutputSet ==
  ASSUME NEW c, CoreOK(c), NEW old \in Sizes, NEW new \in Sizes
  PROVE  LET d == SetOutputSize(c, old, new)
         IN /\ CoreOK(d) /\ d.xdg.interactive = c.xdg.interactive
            /\ d.win.authority = c.win.authority /\ d.win.committed = c.win.committed
            /\ IF FollowsOutput(c, old, new)
                 THEN d.win.width = new /\ Told(c.xdg, d.xdg)
                 ELSE d.win.width = c.win.width /\ Quiet(c.xdg, d.xdg)
  <1>1. CASE FollowsOutput(c, old, new)
    <2> DEFINE x == SendToplevelConfigure(c.xdg, new)
               v == [c.win EXCEPT !.width = new]
               d == [c EXCEPT !.win = v, !.xdg = x]
    <2>1. /\ c \in [win : Windows, xdg : Toplevels, txn : Transactions]
          /\ c.win \in Windows /\ c.xdg \in Toplevels /\ Bookkept(c.xdg)
          /\ new \in SizesOrZero
      BY DEF CoreOK, SizesOrZero
    <2>2. /\ x \in Toplevels /\ Bookkept(x) /\ x.interactive = c.xdg.interactive
          /\ Told(c.xdg, x)
      BY <2>1, SendToplevelConfigureType, SendToplevelConfigureBookkept, ConfigureKeeps
         DEF Bookkept
    <2>3. /\ v \in Windows /\ v.width = new
          /\ v.committed = c.win.committed /\ v.authority = c.win.authority
      BY <2>1 DEF Windows
    <2>4. SetOutputSize(c, old, new) = d
      BY <1>1 DEF SetOutputSize
    <2> HIDE DEF x, v
    <2>5. /\ d \in [win : Windows, xdg : Toplevels, txn : Transactions]
          /\ d.win = v /\ d.xdg = x
      BY <2>1, <2>2, <2>3
    <2> HIDE DEF d
    <2>6. CoreOK(d)
      BY <2>2, <2>3, <2>5 DEF CoreOK
    <2> QED
      BY <1>1, <2>2, <2>3, <2>4, <2>5, <2>6
  <1>2. CASE ~FollowsOutput(c, old, new)
    BY <1>2 DEF SetOutputSize, Quiet
  <1> QED
    BY <1>1, <1>2

\* apply_host_window_fullscreen and apply_host_window_maximized, on a record of
\* the core
LEMMA WindowMoved ==
  ASSUME NEW c, CoreOK(c), NEW w \in SizesOrZero
  PROVE  LET d == MoveWindow(c, w)
         IN /\ CoreOK(d) /\ d.xdg.interactive = c.xdg.interactive
            /\ d.win.authority = c.win.authority /\ d.win.committed = c.win.committed
            /\ d.win.width = w /\ Told(c.xdg, d.xdg)
  <1> DEFINE x == SendToplevelConfigure(c.xdg, w)
             v == [c.win EXCEPT !.width = w]
             t == [serial |-> x.serial, size |-> w]
             d == MoveWindow(c, w)
  <1>1. c.win \in Windows /\ c.xdg \in Toplevels /\ Bookkept(c.xdg)
    BY DEF CoreOK
  <1>2. /\ x \in Toplevels /\ Bookkept(x) /\ x.interactive = c.xdg.interactive
        /\ Told(c.xdg, x)
    BY <1>1, SendToplevelConfigureType, SendToplevelConfigureBookkept, ConfigureKeeps
       DEF Bookkept
  <1>3. /\ v \in Windows /\ v.width = w
        /\ v.committed = c.win.committed /\ v.authority = c.win.authority
    BY <1>1 DEF Windows
  <1>4. t \in Transactions
    BY <1>1, <1>2 DEF Transactions, Toplevels
  <1>5. d = [win |-> v, xdg |-> x, txn |-> t]
    BY DEF MoveWindow
  <1> HIDE DEF x, v, t
  <1>6. /\ d.win = v /\ d.xdg = x
        /\ d \in [win : Windows, xdg : Toplevels, txn : Transactions]
    BY <1>2, <1>3, <1>4, <1>5
  <1> HIDE DEF d
  <1>7. CoreOK(d)
    BY <1>2, <1>3, <1>6 DEF CoreOK
  <1> QED
    BY <1>2, <1>3, <1>6, <1>7 DEF d

LEMMA SettleSizeType ==
  ASSUME NEW c, CoreOK(c), NEW w \in SizesOrZero
  PROVE  SettleSize(c, w) \in Sizes
  <1> DEFINE k == CurrentSize(c)
  <1>1. k \in SizesOrZero
    BY CurrentSizeType
  <1> HIDE DEF k
  <1>2. (k > 0 => k \in Sizes) /\ (w > 0 => w \in Sizes)
    BY <1>1 DEF SizesOrZero
  <1> QED
    BY <1>2, FallbackAssumption DEF SettleSize, k

\* What an action leaves to show once the session's part is settled
Threads == ThreadsOK' /\ Exclusive' /\ RunningIsKnown'

\* Steps that leave the core alone
LEMMA StaticSteps ==
  ASSUME AndroidInv, UNCHANGED <<win, xdg, txn, changes>>,
         events' \in Seq(WindowEvents), Threads
  PROVE  AndroidInv'
  <1>1. SessionInv'
    BY DEF AndroidInv, SessionInv, ConfigureInv, TypeOK, CommittedPastFirst, QueuesOK
  <1> QED
    BY <1>1 DEF AndroidInv, Threads

\* Calls of the core that start from its record
LEMMA CoreSteps ==
  ASSUME AndroidInv, NEW d, CoreOK(d), SetCore(d),
         changes' \in Seq(Sizes), events' = events, Threads
  PROVE  AndroidInv'
  <1>1. SessionInv'
    BY CoreSet DEF AndroidInv, SessionInv, QueuesOK
  <1> QED
    BY <1>1 DEF AndroidInv, Threads

LEMMA SyncOutputInv ==
  ASSUME AndroidInv, NEW w \in Outputs, SyncOutput(w)
  PROVE  AndroidInv'
  <1>1. /\ SessionInv /\ ThreadsOK /\ RunningIsKnown /\ Exclusive
        /\ changes \in Seq(Sizes) /\ events \in Seq(WindowEvents)
    BY DEF AndroidInv, SessionInv, QueuesOK
  <1>2. CoreOK(Core) /\ Core.win = win /\ Core.xdg = xdg /\ Core.txn = txn
    BY <1>1, CoreIsOK DEF SessionInv
  <1> DEFINE d == SetOutputSize(Core, output, w)
             follows == FollowsOutput(Core, output, w)
  <1>3. w \in Sizes /\ w \in SizesOrZero
    BY OutputsAssumption DEF SizesOrZero
  <1>4. /\ SetCore(d) /\ events' = events
        /\ changes' = IF follows THEN Append(changes, w) ELSE changes
        /\ ui' = [UiRests EXCEPT !.at = "begin", !.size = w]
    BY DEF SyncOutput
  <1>5. /\ output' = w /\ inputs' = inputs + 1 /\ inputs < MaxInputs
        /\ UNCHANGED <<android, render, overtaken>>
    BY DEF SyncOutput
  <1>6. ui' \in Uis /\ ui'.at = "begin" /\ ui'.size = w
    BY <1>3, <1>4 DEF UiRests, Uis, WindowIds, SizesOrZero
  <1>7. CoreOK(d) /\ d.xdg.interactive = xdg.interactive
    BY <1>1, <1>2, <1>3, OutputSet DEF ThreadsOK
  <1> HIDE DEF d, follows
  <1>8. changes' \in Seq(Sizes)
    BY <1>1, <1>3, <1>4
  <1>9. ThreadsOK'
    BY <1>1, <1>3, <1>5, <1>6, MaxInputsAssumption DEF ThreadsOK, Sized
  <1>10. xdg'.interactive = xdg.interactive
    BY <1>4, <1>7 DEF SetCore
  <1>11. Exclusive' /\ RunningIsKnown'
    BY <1>1, <1>5, <1>6, <1>10 DEF Exclusive, RunningIsKnown, Recorded
  <1> QED
    BY <1>4, <1>7, <1>8, <1>9, <1>11, CoreSteps DEF Threads

LEMMA UiThreadInv ==
  ASSUME AndroidInv, UiThread
  PROVE  AndroidInv'
  <1>1. /\ SessionInv /\ ThreadsOK /\ RunningIsKnown /\ Exclusive
        /\ changes \in Seq(Sizes) /\ events \in Seq(WindowEvents)
    BY DEF AndroidInv, SessionInv, QueuesOK
  <1>2. CoreOK(Core) /\ Core.win = win /\ Core.xdg = xdg /\ Core.txn = txn
    BY <1>1, CoreIsOK DEF SessionInv
  <1>3. CASE NoStream
    <2>1. /\ UNCHANGED <<sessionVars, output, android, render, inputs, overtaken>>
          /\ ui' = [at |-> "rest", target |-> "none", size |-> 0, current |-> 0]
      BY <1>3 DEF NoStream, UiRests
    <2>2. ThreadsOK'
      BY <1>1, <2>1 DEF sessionVars, ThreadsOK, Sized, Uis, WindowIds, SizesOrZero
    <2>3. Exclusive' /\ RunningIsKnown'
      BY <1>1, <2>1 DEF sessionVars, Exclusive, RunningIsKnown, Recorded
    <2> QED
      BY <1>1, <2>1, <2>2, <2>3, StaticSteps DEF sessionVars, Threads
  <1>4. ASSUME NEW w \in {"this", "other"}, BeginStream(w)
        PROVE  AndroidInv'
    <2>1. CurrentSize(Core) \in SizesOrZero
      BY <1>2, CurrentSizeType
    <2> DEFINE at == IF Recorded(w) THEN "window"
                     ELSE IF w = "this" /\ ~xdg.interactive THEN "open" ELSE "claim"
               k == IF w = "this" /\ ~Recorded(w) /\ ~xdg.interactive
                      THEN CurrentSize(Core) ELSE 0
    <2>2. /\ ui' = [ui EXCEPT !.target = w, !.at = at, !.current = k]
          /\ at \in {"window", "open", "claim"} /\ k \in SizesOrZero
          /\ at = "open" => w = "this" /\ ~Recorded("this")
      BY <1>4, <2>1 DEF BeginStream, SizesOrZero
    <2> HIDE DEF at, k
    <2>3. /\ ui.at = "begin" /\ overtaken' = (overtaken \/ "other" \in {w, android.window})
          /\ UNCHANGED <<sessionVars, output, android, render, inputs>>
      BY <1>4 DEF BeginStream
    <2>4. ui \in Uis /\ ui.size \in Sizes
      BY <1>1, <2>3 DEF ThreadsOK
    <2>5. ui' \in Uis /\ ui'.at = at /\ ui'.target = w /\ ui'.size \in Sizes
      BY <2>2, <2>4 DEF Uis, WindowIds
    <2>6. ThreadsOK'
      BY <1>1, <2>3, <2>5 DEF sessionVars, ThreadsOK, Sized
    <2>7. Exclusive' /\ RunningIsKnown'
      BY <1>1, <2>2, <2>3, <2>5 DEF sessionVars, Exclusive, RunningIsKnown, Recorded
    <2> QED
      BY <1>1, <2>3, <2>6, <2>7, StaticSteps DEF sessionVars, Threads
  <1>5. ASSUME ui.at \in {"open", "claim"}, ui' = [ui EXCEPT !.at = "window", !.current = 0],
               android' = [android EXCEPT !.active = TRUE],
               UNCHANGED <<output, render, inputs, overtaken>>
        PROVE  ThreadsOK'
    <2>1. ui \in Uis /\ ui.size \in Sizes /\ android \in Statics
      BY <1>1, <1>5 DEF ThreadsOK
    <2>2. ui' \in Uis /\ ui'.size \in Sizes
      BY <1>5, <2>1 DEF Uis, SizesOrZero
    <2>3. android' \in Statics
      BY <1>5, <2>1 DEF Statics
    <2> QED
      BY <1>1, <1>5, <2>2, <2>3 DEF ThreadsOK, Sized
  <1>6. CASE OpenStream
    <2> DEFINE d == OpenSession(Core, ui.current)
    <2>1. /\ SetCore(d) /\ changes' = changes /\ events' = events
          /\ ui.at = "open" /\ ui' = [ui EXCEPT !.at = "window", !.current = 0]
          /\ android' = [android EXCEPT !.active = TRUE]
          /\ UNCHANGED <<output, render, inputs, overtaken>>
      BY <1>6 DEF OpenStream, UiStep
    <2>2. CoreOK(d)
      <3>1. ui.current \in SizesOrZero
        BY <1>1 DEF ThreadsOK, Uis
      <3> QED
        BY <1>2, <3>1, SessionOpened
    <2> HIDE DEF d
    <2>3. ThreadsOK'
      BY <1>5, <2>1
    <2>4. /\ ui'.at = "window" /\ ui'.target = ui.target
          /\ android'.active = TRUE /\ android'.window = android.window
      BY <1>1, <2>1 DEF ThreadsOK, Uis, Statics
    <2>5. ~overtaken => render.at \notin {"call", "flag", "settle", "active"}
      BY <1>1, <2>1 DEF Exclusive
    <2>6. Exclusive' /\ RunningIsKnown'
      BY <1>1, <2>1, <2>4, <2>5 DEF Exclusive, RunningIsKnown, Recorded
    <2> QED
      BY <1>1, <2>1, <2>2, <2>3, <2>6, CoreSteps DEF Threads
  <1>7. CASE ClaimStream
    <2>1. /\ ui.at = "claim" /\ ui' = [ui EXCEPT !.at = "window", !.current = 0]
          /\ android' = [android EXCEPT !.active = TRUE]
          /\ UNCHANGED <<sessionVars, output, render, inputs, overtaken>>
      BY <1>7 DEF ClaimStream, UiStep
    <2>2. ThreadsOK'
      BY <1>5, <2>1
    <2>3. /\ ui'.at = "window" /\ ui'.target = ui.target
          /\ android'.active = TRUE /\ android'.window = android.window
      BY <1>1, <2>1 DEF ThreadsOK, Uis, Statics
    <2>4. Exclusive' /\ RunningIsKnown'
      BY <1>1, <2>1, <2>3 DEF sessionVars, Exclusive, RunningIsKnown, Recorded
    <2> QED
      BY <1>1, <2>1, <2>2, <2>4, StaticSteps DEF sessionVars, Threads
  <1>8. CASE RecordWindow
    <2>1. /\ ui.at = "window" /\ ui' = [ui EXCEPT !.at = "size", !.current = 0]
          /\ android' = [android EXCEPT !.window = ui.target]
          /\ overtaken' = (overtaken /\ ~(/\ ui.target = "this" /\ android.active
                                          /\ render.at \notin {"settle", "active"}))
          /\ UNCHANGED <<sessionVars, output, render, inputs>>
      BY <1>8 DEF RecordWindow, UiStep
    <2>2. /\ ui \in Uis /\ ui.size \in Sizes /\ android \in Statics
          /\ overtaken \in BOOLEAN /\ ui.target \in WindowIds /\ android.active \in BOOLEAN
      BY <1>1, <2>1 DEF ThreadsOK, Uis, Statics
    <2>3. ui' \in Uis /\ ui'.size \in Sizes /\ ui'.at = "size"
      BY <2>1, <2>2 DEF Uis, SizesOrZero
    <2>4. /\ android' \in Statics /\ android'.active = android.active
          /\ android'.window = ui.target
      BY <2>1, <2>2 DEF Statics
    <2>5. ThreadsOK'
      BY <1>1, <2>1, <2>2, <2>3, <2>4 DEF ThreadsOK, Sized
    <2>6. ASSUME overtaken' PROVE Exclusive' /\ RunningIsKnown'
      BY <2>6 DEF Exclusive, RunningIsKnown
    <2>7. ASSUME ~overtaken' PROVE Exclusive' /\ RunningIsKnown'
      <3>1. ui.target = "this"
        BY <1>1, <2>1, <2>7 DEF Exclusive
      <3>2. ~overtaken \/ (android.active /\ render.at \notin {"settle", "active"})
        BY <2>1, <2>7
      <3>3. xdg.interactive => android.active
        BY <1>1, <3>2 DEF RunningIsKnown
      <3>4. render.at \in {"call", "flag", "settle", "active"} => android.active
        BY <1>1, <3>2 DEF Exclusive, Recorded
      <3>5. render.at \in {"settle", "active"} => ~xdg.interactive
        BY <1>1, <3>2 DEF Exclusive
      <3> QED
        BY <2>1, <2>3, <2>4, <3>1, <3>3, <3>4, <3>5
           DEF sessionVars, Exclusive, RunningIsKnown, Recorded
    <2> QED
      BY <1>1, <2>1, <2>5, <2>6, <2>7, StaticSteps DEF sessionVars, Threads
  <1>9. CASE RecordSize
    <2>1. /\ ui.at = "size"
          /\ ui' = IF ui.target = "this" THEN [ui EXCEPT !.at = "inject"]
                   ELSE [at |-> "rest", target |-> "none", size |-> 0, current |-> 0]
          /\ android' = [android EXCEPT !.size = ui.size, !.idle = 0]
          /\ UNCHANGED <<sessionVars, output, render, inputs, overtaken>>
      BY <1>9 DEF RecordSize, UiRests
    <2>2. ui \in Uis /\ ui.size \in Sizes /\ android \in Statics /\ ui.size \in SizesOrZero
      BY <1>1, <2>1 DEF ThreadsOK, Uis
    <2>3. /\ ui' \in Uis /\ ui'.at \in {"inject", "rest"}
          /\ ui'.at # "rest" => ui'.size \in Sizes
      BY <2>1, <2>2 DEF Uis, WindowIds, SizesOrZero
    <2>4. /\ android' \in Statics /\ android'.active = android.active
          /\ android'.window = android.window
      BY <2>1, <2>2 DEF Statics
    <2>5. ThreadsOK'
      BY <1>1, <2>1, <2>3, <2>4 DEF ThreadsOK, Sized
    <2>6. Exclusive' /\ RunningIsKnown'
      BY <1>1, <2>1, <2>3, <2>4 DEF sessionVars, Exclusive, RunningIsKnown, Recorded
    <2> QED
      BY <1>1, <2>1, <2>5, <2>6, StaticSteps DEF sessionVars, Threads
  <1>10. CASE InjectSize
    <2> DEFINE d == ResizeWindow(Core, ui.size)
    <2>1. /\ SetCore(d) /\ changes' = changes /\ events' = events /\ ui.at = "inject"
          /\ ui' = [at |-> "rest", target |-> "none", size |-> 0, current |-> 0]
          /\ UNCHANGED <<output, android, render, inputs, overtaken>>
      BY <1>10 DEF InjectSize, UiRests
    <2>2. ui.size \in Sizes
      BY <1>1, <2>1 DEF ThreadsOK
    <2>3. CoreOK(d) /\ d.xdg.interactive = xdg.interactive
      BY <1>2, <2>2, SizeRequested DEF ResizeWindow
    <2> HIDE DEF d
    <2>4. ThreadsOK'
      BY <1>1, <2>1 DEF ThreadsOK, Sized, Uis, WindowIds, SizesOrZero
    <2>5. xdg'.interactive = xdg.interactive
      BY <2>1, <2>3 DEF SetCore
    <2>6. Exclusive' /\ RunningIsKnown'
      BY <1>1, <2>1, <2>5 DEF Exclusive, RunningIsKnown, Recorded
    <2> QED
      BY <1>1, <2>1, <2>3, <2>4, <2>6, CoreSteps DEF Threads
  <1> QED
    BY <1>3, <1>4, <1>6, <1>7, <1>8, <1>9, <1>10 DEF UiThread

\* A step of the render thread that leaves the core and the statics alone keeps
\* the invariant if what the thread relies on at its next place holds.
LEMMA RenderMoves ==
  ASSUME AndroidInv, UNCHANGED <<sessionVars, output, android, ui, inputs, overtaken>>,
         render' \in Renders, Sized' => render'.size \in Sizes,
         render'.at \in {"call", "flag", "settle", "active"}
           => Recorded("this") \/ overtaken,
         render'.at \in {"settle", "active"} => ~xdg.interactive \/ overtaken
  PROVE  AndroidInv'
  <1>1. /\ SessionInv /\ ThreadsOK /\ RunningIsKnown /\ Exclusive
        /\ changes \in Seq(Sizes) /\ events \in Seq(WindowEvents)
    BY DEF AndroidInv, SessionInv, QueuesOK
  <1>2. ThreadsOK'
    BY <1>1 DEF ThreadsOK
  <1>3. Exclusive' /\ RunningIsKnown'
    BY <1>1 DEF sessionVars, Exclusive, RunningIsKnown, Recorded
  <1> QED
    BY <1>1, <1>2, <1>3, StaticSteps DEF sessionVars, Threads

\* The steps between the core's calls of a settle
LEMMA SettlingMoves ==
  ASSUME AndroidInv, EndDispatch \/ NoSession \/ DecideToSettle \/ CallSettle
  PROVE  AndroidInv'
  <1>1. SessionInv /\ ThreadsOK /\ Exclusive
    BY DEF AndroidInv
  <1>2. render \in Renders /\ android \in Statics
    BY <1>1 DEF ThreadsOK
  <1>3. Rests("test") \in Renders /\ Rests("drain") \in Renders
    BY DEF Rests, Renders, WindowIds, SizesOrZero
  <1>4. CASE EndDispatch
    <2>1. /\ UNCHANGED <<sessionVars, output, android, ui, inputs, overtaken>>
          /\ render' = Rests("test")
      BY <1>4 DEF EndDispatch, RenderStep
    <2>2. render'.at = "test"
      BY <2>1 DEF Rests
    <2> QED
      BY <1>3, <2>1, <2>2, RenderMoves DEF Sized
  <1>5. CASE NoSession
    <2>1. /\ UNCHANGED <<sessionVars, output, android, ui, inputs, overtaken>>
          /\ render' = Rests("drain")
      BY <1>5 DEF NoSession, RenderStep
    <2>2. render'.at = "drain"
      BY <2>1 DEF Rests
    <2> QED
      BY <1>3, <2>1, <2>2, RenderMoves DEF Sized
  <1>6. CASE DecideToSettle
    <2>1. /\ UNCHANGED <<sessionVars, output, android, ui, inputs, overtaken>>
          /\ render' = Decided /\ android.active /\ android.window # "none"
      BY <1>6 DEF DecideToSettle, Running
    <2>2. android.window \in {"this", "other"}
      BY <1>2, <2>1 DEF Statics, WindowIds
    <2>3. CASE android.window = "this"
      <3>1. render' = [at |-> "call", who |-> "this", does |-> "settle", size |-> 0]
        BY <2>1, <2>3 DEF Decided, Rests
      <3>2. render' \in Renders /\ render'.at = "call"
        BY <3>1 DEF Renders, WindowIds, SizesOrZero
      <3> QED
        BY <2>1, <2>3, <3>2, RenderMoves DEF Sized, Recorded
    <2>4. CASE android.window = "other"
      <3>1. render' = [at |-> "active", who |-> "other", does |-> "settle", size |-> 0]
        BY <2>1, <2>4 DEF Decided, Rests
      <3>2. render' \in Renders /\ render'.at = "active" /\ render'.who = "other"
        BY <3>1 DEF Renders, WindowIds, SizesOrZero
      <3>3. overtaken
        BY <1>1, <2>4 DEF Exclusive
      <3> QED
        BY <2>1, <3>2, <3>3, RenderMoves DEF Sized
    <2> QED
      BY <2>2, <2>3, <2>4
  <1>7. CASE CallSettle
    <2> DEFINE k == SettleSize(Core, android.size)
    <2>1. k \in Sizes
      <3>1. CoreOK(Core) /\ android.size \in SizesOrZero
        BY <1>1, <1>2, CoreIsOK DEF SessionInv, Statics
      <3> QED
        BY <3>1, SettleSizeType
    <2>2. /\ UNCHANGED <<sessionVars, output, android, ui, inputs, overtaken>>
          /\ render.at = "call" /\ render' = [render EXCEPT !.at = "flag", !.size = k]
      BY <1>7 DEF CallSettle
    <2> HIDE DEF k
    <2>3. render' \in Renders /\ render'.at = "flag" /\ render'.size = k
      BY <1>2, <2>1, <2>2 DEF Renders, SizesOrZero
    <2>4. Recorded("this") \/ overtaken
      BY <1>1, <2>2 DEF Exclusive
    <2> QED
      BY <2>1, <2>2, <2>3, <2>4, RenderMoves DEF Sized
  <1> QED
    BY <1>4, <1>5, <1>6, <1>7

\* The steps of a settle on the statics
LEMMA SettlingClears ==
  ASSUME AndroidInv, CountIdleFrame \/ ClearActive \/ ClearWindow
  PROVE  AndroidInv'
  <1>1. /\ SessionInv /\ ThreadsOK /\ RunningIsKnown /\ Exclusive
        /\ changes \in Seq(Sizes) /\ events \in Seq(WindowEvents)
    BY DEF AndroidInv, SessionInv, QueuesOK
  <1>2. render \in Renders /\ android \in Statics
    BY <1>1 DEF ThreadsOK
  <1>3. CASE CountIdleFrame
    <2>1. /\ UNCHANGED <<sessionVars, output, ui, inputs, overtaken>>
          /\ render' = Rests("drain") /\ android' = [android EXCEPT !.idle = 1]
      BY <1>3 DEF CountIdleFrame, RenderStep
    <2>2. /\ android' \in Statics /\ android'.active = android.active
          /\ android'.window = android.window
      BY <1>2, <2>1 DEF Statics
    <2>3. render' \in Renders /\ render'.at = "drain"
      BY <2>1 DEF Rests, Renders, WindowIds, SizesOrZero
    <2>4. ThreadsOK'
      BY <1>1, <2>1, <2>2, <2>3 DEF ThreadsOK, Sized
    <2>5. Exclusive' /\ RunningIsKnown'
      BY <1>1, <2>1, <2>2, <2>3 DEF sessionVars, Exclusive, RunningIsKnown, Recorded
    <2> QED
      BY <1>1, <2>1, <2>4, <2>5, StaticSteps DEF sessionVars, Threads
  <1>4. CASE ClearActive
    <2>1. /\ UNCHANGED <<sessionVars, output, ui, inputs, overtaken>>
          /\ render.at = "active" /\ render' = [render EXCEPT !.at = "window"]
          /\ android' = [android EXCEPT !.active = FALSE]
      BY <1>4 DEF ClearActive, RenderStep
    <2>2. /\ android' \in Statics /\ android'.active = FALSE
          /\ android'.window = android.window
      BY <1>2, <2>1 DEF Statics
    <2>3. /\ render' \in Renders /\ render'.at = "window" /\ render'.who = render.who
          /\ render'.size = render.size
      BY <1>2, <2>1 DEF Renders
    <2>4. ThreadsOK'
      BY <1>1, <2>1, <2>2, <2>3 DEF ThreadsOK, Sized
    <2>5. Exclusive' /\ RunningIsKnown'
      BY <1>1, <2>1, <2>2, <2>3 DEF sessionVars, Exclusive, RunningIsKnown, Recorded
    <2> QED
      BY <1>1, <2>1, <2>4, <2>5, StaticSteps DEF sessionVars, Threads
  <1>5. CASE ClearWindow
    <2> DEFINE to == IF render.who = "this" /\ render.does # "settle"
                       THEN "inject" ELSE "drain"
               idle == IF render.does = "settle" THEN 0 ELSE android.idle
    <2>1. /\ UNCHANGED <<sessionVars, output, ui, inputs, overtaken>>
          /\ render.at = "window"
          /\ render' = IF to \in {"dispatch", "test", "drain"}
                         THEN Rests(to) ELSE [render EXCEPT !.at = to]
          /\ android' = [android EXCEPT !.window = "none", !.idle = idle]
      BY <1>5 DEF ClearWindow, RenderStep
    <2>2. idle \in {0, 1}
      BY <1>2 DEF Statics
    <2> HIDE DEF idle
    <2>3. /\ android' \in Statics /\ android'.active = android.active
          /\ android'.window = "none"
      BY <1>2, <2>1, <2>2 DEF Statics, WindowIds
    <2>4. \/ to = "inject" /\ render.who = "this"
          \/ to = "drain"
      OBVIOUS
    <2> HIDE DEF to
    <2>5. /\ render' \in Renders /\ render'.at \in {"inject", "drain"}
          /\ render'.at = "inject" => render.who = "this" /\ render'.size = render.size
      BY <1>2, <2>1, <2>4 DEF Rests, Renders, WindowIds, SizesOrZero
    <2>6. ThreadsOK'
      BY <1>1, <2>1, <2>3, <2>5 DEF ThreadsOK, Sized
    <2>7. Exclusive' /\ RunningIsKnown'
      BY <1>1, <2>1, <2>3, <2>5 DEF sessionVars, Exclusive, RunningIsKnown, Recorded
    <2> QED
      BY <1>1, <2>1, <2>6, <2>7, StaticSteps DEF sessionVars, Threads
  <1> QED
    BY <1>3, <1>4, <1>5

\* A call of the core by the render thread that does not open a session
LEMMA RenderCalls ==
  ASSUME AndroidInv, NEW d, CoreOK(d), SetCore(d),
         UNCHANGED <<changes, events, output, android, ui, inputs, overtaken>>,
         render' \in Renders, Sized' => render'.size \in Sizes,
         d.xdg.interactive \in {xdg.interactive, FALSE},
         render'.at \in {"call", "flag", "settle", "active"}
           => render.at \in {"flag", "settle"},
         render'.at \in {"settle", "active"} => ~d.xdg.interactive \/ overtaken
  PROVE  AndroidInv'
  <1>1. /\ SessionInv /\ ThreadsOK /\ RunningIsKnown /\ Exclusive
        /\ changes \in Seq(Sizes)
    BY DEF AndroidInv, SessionInv, QueuesOK
  <1>2. ThreadsOK'
    BY <1>1 DEF ThreadsOK
  <1>3. xdg' = d.xdg
    BY DEF SetCore
  <1>4. xdg'.interactive => xdg.interactive
    BY <1>3
  <1>5. Exclusive' /\ RunningIsKnown'
    BY <1>1, <1>3, <1>4 DEF Exclusive, RunningIsKnown, Recorded
  <1> QED
    BY <1>1, <1>2, <1>5, CoreSteps DEF Threads

\* end_interactive_resize, and the configures of android_inject_fill_primary
LEMMA RenderCallsInv ==
  ASSUME AndroidInv, ClearInteractive \/ SendSettle \/ InjectFill \/ ApplyHostState
  PROVE  AndroidInv'
  <1>1. SessionInv /\ ThreadsOK /\ Exclusive
    BY DEF AndroidInv
  <1>2. CoreOK(Core) /\ Core.win = win /\ Core.xdg = xdg /\ Core.txn = txn
    BY <1>1, CoreIsOK DEF SessionInv
  <1>3. render \in Renders /\ (Sized => render.size \in Sizes)
    BY <1>1 DEF ThreadsOK
  <1>4. CASE ClearInteractive
    <2> DEFINE d == SetInteractive(Core, FALSE)
    <2>1. /\ SetCore(d)
          /\ UNCHANGED <<changes, events, output, android, ui, inputs, overtaken>>
          /\ render.at = "flag" /\ render' = [render EXCEPT !.at = "settle"]
      BY <1>4 DEF ClearInteractive, RenderStep
    <2>2. CoreOK(d) /\ d.xdg.interactive = FALSE
      BY <1>2, InteractiveSet
    <2>3. render' \in Renders /\ render'.at = "settle" /\ render'.size = render.size
      BY <1>3, <2>1 DEF Renders
    <2>4. render.size \in Sizes
      BY <1>3, <2>1 DEF Sized
    <2> HIDE DEF d
    <2> QED
      BY <2>1, <2>2, <2>3, <2>4, RenderCalls
  <1>5. CASE SendSettle
    <2> DEFINE d == RequestSize(Core, render.size, TRUE)
    <2>1. /\ SetCore(d)
          /\ UNCHANGED <<changes, events, output, android, ui, inputs, overtaken>>
          /\ render.at = "settle" /\ render' = [render EXCEPT !.at = "active"]
      BY <1>5 DEF SendSettle, RenderStep
    <2>2. render.size \in Sizes
      BY <1>3, <2>1 DEF Sized
    <2>3. CoreOK(d) /\ d.xdg.interactive = xdg.interactive
      BY <1>2, <2>2, SizeRequested
    <2>4. render' \in Renders /\ render'.at = "active" /\ render'.size = render.size
      BY <1>3, <2>1 DEF Renders
    <2> HIDE DEF d
    <2>5. ~xdg.interactive \/ overtaken
      BY <1>1, <2>1 DEF Exclusive
    <2> QED
      BY <2>1, <2>2, <2>3, <2>4, <2>5, RenderCalls
  <1>6. CASE InjectFill
    <2> DEFINE d == ResizeWindow(Core, render.size)
               to == IF render.does = "restore" THEN "first" ELSE "second"
    <2>1. /\ SetCore(d)
          /\ UNCHANGED <<changes, events, output, android, ui, inputs, overtaken>>
          /\ render.at = "inject" /\ to \in {"first", "second"}
          /\ render' = [render EXCEPT !.at = to]
      BY <1>6 DEF InjectFill, RenderStep
    <2> HIDE DEF to
    <2>2. render.size \in Sizes
      BY <1>3, <2>1 DEF Sized
    <2>3. CoreOK(d) /\ d.xdg.interactive = xdg.interactive
      BY <1>2, <2>2, SizeRequested DEF ResizeWindow
    <2>4. render' \in Renders /\ render'.at = to /\ render'.size = render.size
      BY <1>3, <2>1 DEF Renders
    <2> HIDE DEF d
    <2> QED
      BY <2>1, <2>2, <2>3, <2>4, RenderCalls
  <1>7. CASE ApplyHostState
    <2>1. /\ render.at \in {"first", "second"}
          /\ UNCHANGED <<changes, events, output, android, ui, inputs, overtaken>>
          /\ render' = IF render.at = "first"
                         THEN [render EXCEPT !.at = "second", !.does = "fill"]
                         ELSE Rests("drain")
      BY <1>7 DEF ApplyHostState
    <2>2. render.size \in Sizes
      BY <1>3, <2>1 DEF Sized
    <2>3. PICK w \in SizesOrZero : SetCore(MoveWindow(Core, w))
      BY <1>7, <2>2 DEF ApplyHostState, SizesOrZero
    <2> DEFINE d == MoveWindow(Core, w)
    <2>4. CoreOK(d) /\ d.xdg.interactive = xdg.interactive
      BY <1>2, WindowMoved
    <2>5. /\ render' \in Renders /\ render'.at \in {"second", "drain"}
          /\ render'.at = "second" => render'.size = render.size
      BY <1>3, <2>1 DEF Rests, Renders, WindowIds, SizesOrZero
    <2> HIDE DEF d
    <2> QED
      BY <2>2, <2>3, <2>4, <2>5, <2>1, RenderCalls DEF d, Sized
  <1> QED
    BY <1>4, <1>5, <1>6, <1>7

\* The steps between them
LEMMA FillingMoves ==
  ASSUME AndroidInv, FillPrimary \/ SkipHostState \/ FillOther \/ EndDrain
  PROVE  AndroidInv'
  <1>1. SessionInv /\ ThreadsOK /\ Exclusive
    BY DEF AndroidInv
  <1>2. render \in Renders /\ (Sized => render.size \in Sizes) /\ output \in Sizes
    BY <1>1 DEF ThreadsOK
  <1>3. CASE FillPrimary
    <2> DEFINE to == IF Recorded("this") THEN "flag" ELSE "inject"
    <2>1. /\ UNCHANGED <<sessionVars, output, android, ui, inputs, overtaken>>
          /\ render' = [render EXCEPT !.at = to, !.size = output]
          /\ to \in {"flag", "inject"} /\ (to = "flag" => Recorded("this"))
      BY <1>3 DEF FillPrimary
    <2> HIDE DEF to
    <2>2. render' \in Renders /\ render'.at = to /\ render'.size = output
      BY <1>2, <2>1 DEF Renders, SizesOrZero
    <2> QED
      BY <1>2, <2>1, <2>2, RenderMoves
  <1>4. CASE SkipHostState
    <2>1. /\ UNCHANGED <<sessionVars, output, android, ui, inputs, overtaken>>
          /\ \/ render.at = "first" /\ render' = [render EXCEPT !.at = "second"]
             \/ render' = Rests("drain")
      BY <1>4 DEF SkipHostState, RenderStep
    <2>2. /\ render' \in Renders /\ render'.at \in {"second", "drain"}
          /\ render'.at = "second" => render.at = "first" /\ render'.size = render.size
      BY <1>2, <2>1 DEF Rests, Renders, WindowIds, SizesOrZero
    <2> QED
      BY <1>2, <2>1, <2>2, RenderMoves DEF Sized
  <1>5. CASE FillOther
    <2>1. /\ UNCHANGED <<sessionVars, output, android, ui, inputs, overtaken>>
          /\ render' = [at |-> "active", who |-> "other", does |-> "fill", size |-> 0]
          /\ Recorded("other")
      BY <1>5 DEF FillOther
    <2>2. render' \in Renders /\ render'.at = "active" /\ render'.who = "other"
      BY <2>1 DEF Renders, WindowIds, SizesOrZero
    <2>3. overtaken
      BY <1>1, <2>1 DEF Exclusive, Recorded
    <2> QED
      BY <2>1, <2>2, <2>3, RenderMoves DEF Sized
  <1>6. CASE EndDrain
    <2>1. /\ UNCHANGED <<sessionVars, output, android, ui, inputs, overtaken>>
          /\ render' = Rests("dispatch")
      BY <1>6 DEF EndDrain, RenderStep
    <2>2. render' \in Renders /\ render'.at = "dispatch"
      BY <2>1 DEF Rests, Renders, WindowIds, SizesOrZero
    <2> QED
      BY <2>1, <2>2, RenderMoves DEF Sized
  <1> QED
    BY <1>3, <1>4, <1>5, <1>6

\* An event changes whether the window follows the host.
LEMMA PopsInv ==
  ASSUME AndroidInv, PopSizeChanged \/ \E does \in {"fill", "restore"} : PopRequest(does)
  PROVE  AndroidInv'
  <1>1. /\ SessionInv /\ ThreadsOK /\ RunningIsKnown /\ Exclusive
        /\ changes \in Seq(Sizes) /\ events \in Seq(WindowEvents)
    BY DEF AndroidInv, SessionInv, QueuesOK
  <1>2. render \in Renders /\ android \in Statics
    BY <1>1 DEF ThreadsOK
  <1>3. CASE PopSizeChanged
    <2>1. /\ events # <<>> /\ events' = Tail(events)
          /\ UNCHANGED <<win, xdg, txn, changes, output, ui, render, inputs, overtaken>>
      BY <1>3 DEF PopSizeChanged
    <2>2. PICK launched \in {"square", "fills", "plain"} :
            android' = [android EXCEPT !.follow = FollowAfter(Head(events), launched)]
      BY <1>3 DEF PopSizeChanged
    <2>3. FollowAfter(Head(events), launched) \in BOOLEAN
      BY <1>2 DEF FollowAfter, Statics
    <2>4. /\ android' \in Statics /\ android'.active = android.active
          /\ android'.window = android.window
      BY <1>2, <2>2, <2>3 DEF Statics
    <2>5. ThreadsOK'
      BY <1>1, <2>1, <2>4 DEF ThreadsOK, Sized
    <2>6. Exclusive' /\ RunningIsKnown'
      BY <1>1, <2>1, <2>4 DEF Exclusive, RunningIsKnown, Recorded
    <2>7. events' \in Seq(WindowEvents)
      BY <1>1, <2>1
    <2> QED
      BY <2>1, <2>5, <2>6, <2>7, StaticSteps DEF Threads
  <1>4. ASSUME NEW does \in {"fill", "restore"}, PopRequest(does)
        PROVE  AndroidInv'
    <2>1. /\ inputs < MaxInputs /\ inputs' = inputs + 1
          /\ android' = [android EXCEPT !.follow = (does = "fill")]
          /\ render' = [at |-> "fill", who |-> "this", does |-> does, size |-> 0]
          /\ UNCHANGED <<sessionVars, output, ui, overtaken>>
      BY <1>4 DEF PopRequest
    <2>2. /\ android' \in Statics /\ android'.active = android.active
          /\ android'.window = android.window
      BY <1>2, <2>1 DEF Statics
    <2>3. render' \in Renders /\ render'.at = "fill"
      BY <2>1 DEF Renders, WindowIds, SizesOrZero
    <2>4. inputs' \in 0..MaxInputs
      BY <1>1, <2>1, MaxInputsAssumption DEF ThreadsOK
    <2>5. ThreadsOK'
      BY <1>1, <2>1, <2>2, <2>3, <2>4 DEF ThreadsOK, Sized
    <2>6. Exclusive' /\ RunningIsKnown'
      BY <1>1, <2>1, <2>2, <2>3 DEF sessionVars, Exclusive, RunningIsKnown, Recorded
    <2> QED
      BY <1>1, <2>1, <2>5, <2>6, StaticSteps DEF sessionVars, Threads
  <1> QED
    BY <1>3, <1>4

\* What the core does while it dispatches
LEMMA DispatchInv ==
  ASSUME AndroidInv, HandleChange \/ DispatchClients
  PROVE  AndroidInv'
  <1>1. SessionInv /\ ConfigureInv /\ ThreadsOK /\ RunningIsKnown /\ Exclusive
    BY DEF AndroidInv, SessionInv
  <1>2. UNCHANGED <<output, android, ui, render, inputs, overtaken>>
    BY DEF HandleChange, DispatchClients, threadVars
  <1>3. ASSUME SessionInv', xdg'.interactive = xdg.interactive
        PROVE  AndroidInv'
    <2>1. ThreadsOK'
      BY <1>1, <1>2 DEF ThreadsOK, Sized
    <2>2. Exclusive' /\ RunningIsKnown'
      BY <1>1, <1>2, <1>3 DEF Exclusive, RunningIsKnown, Recorded
    <2> QED
      BY <1>3, <2>1, <2>2 DEF AndroidInv
  <1>4. CASE HandleChange
    <2>1. HandleSizeChanged
      BY <1>4 DEF HandleChange
    <2>2. SessionInv' /\ xdg' = xdg
      BY <1>1, <2>1, HandleKeeps DEF HandleSizeChanged
    <2> QED
      BY <1>3, <2>2
  <1>5. ASSUME AckNewest
        PROVE  AndroidInv'
    <2> DEFINE i == Len(xdg.unacked)
    <2>1. /\ xdg.unacked # <<>> /\ ClientAck(i) /\ UNCHANGED <<txn, changes, events>>
      BY <1>5 DEF AckNewest
    <2>2. i \in 1..Len(xdg.unacked)
      BY <1>1, <2>1 DEF ConfigureInv, TypeOK, Toplevels
    <2> HIDE DEF i
    <2>3. ConfigureInv' /\ xdg'.interactive = xdg.interactive
      BY <1>1, <2>1, <2>2, AckKeeps
    <2> QED
      BY <1>1, <1>3, <2>1, <2>3 DEF SessionInv, QueuesOK
  <1>6. ASSUME NEW w \in SizesOrZero, Commit(w)
        PROVE  AndroidInv'
    <2>1. SessionInv' /\ ClientCommit(w)
      BY <1>1, <1>6, CommitKeeps DEF Commit
    <2>2. xdg'.interactive = xdg.interactive
      BY <1>1, <2>1, CommitAdopts
    <2> QED
      BY <1>3, <2>1, <2>2
  <1>7. CASE DispatchClients
    BY <1>5, <1>6, <1>7 DEF DispatchClients
  <1> QED
    BY <1>4, <1>7

LEMMA AndroidInvariant == AndroidSpec => []AndroidInv
  <1>1. ASSUME AndroidInv, UNCHANGED androidVars
        PROVE  AndroidInv'
    BY <1>1 DEF androidVars, sessionVars, threadVars, AndroidInv, SessionInv, ConfigureInv,
                TypeOK, CommittedPastFirst, QueuesOK, ThreadsOK, Sized, RunningIsKnown,
                Exclusive, Recorded
  <1>2. AndroidInv /\ RenderThread => AndroidInv'
    BY SettlingMoves, SettlingClears, RenderCallsInv, FillingMoves, PopsInv, DispatchInv
       DEF RenderThread, Frame, Settling, Filling
  <1>3. AndroidInv /\ [AndroidNext]_androidVars => AndroidInv'
    BY <1>1, <1>2, SyncOutputInv, UiThreadInv DEF AndroidNext
  <1> QED
    BY <1>3, AndroidInitInv, PTL DEF AndroidSpec

\* The statics, both threads' places and the session keep their types: in
\* particular every resize and every settle has a size (android_jni.c, api.rs).
THEOREM AndroidTypesCorrect == AndroidSpec => []AndroidTypeOK
  <1>1. AndroidInv => AndroidTypeOK
    BY DEF AndroidInv, SessionInv, ConfigureInv, QueuesOK, ThreadsOK, AndroidTypeOK,
           SessionTypeOK
  <1> QED
    BY <1>1, AndroidInvariant, PTL

\* However the UI thread and the render thread interleave on the unlocked
\* statics, the core never runs an interactive resize the host has forgotten,
\* unless another window's has overtaken it (android_begin_stream_resize,
\* android_maybe_settle_interactive_resize, android_inject_fill_primary).
THEOREM RunningAlwaysKnown == AndroidSpec => []RunningIsKnown
  <1>1. AndroidInv => RunningIsKnown
    BY DEF AndroidInv
  <1> QED
    BY <1>1, AndroidInvariant, PTL

-----------------------------------------------------------------------------
\* AndroidHost and the agreement

\* A call of the host that asks the client for a size
LEMMA AskAgrees ==
  ASSUME NEW d, CoreOK(d), SetCore(d), NEW w \in Sizes,
         d.win.authority = Host(w), d.win.width \in {w, win.width},
         d.win.committed = win.committed, Told(xdg, d.xdg)
  PROVE  Agreement!FollowNext
  <1>1. win' = d.win /\ xdg' = d.xdg
    BY DEF SetCore
  <1>2. d.xdg.interactive \in BOOLEAN
    BY DEF CoreOK, Toplevels
  <1>3. Agreement!Next
    BY <1>1, <1>2, RequestAgreed
  <1> QED
    BY <1>3 DEF Agreement!FollowNext

\* The window moves with the output.
LEMMA SyncOutputAgrees ==
  ASSUME AndroidInv, NEW w \in Outputs, SyncOutput(w)
  PROVE  Agreement!FollowNext
  <1>1. SessionInv /\ ThreadsOK
    BY DEF AndroidInv
  <1>2. CoreOK(Core) /\ Core.win = win /\ Core.xdg = xdg
    BY <1>1, CoreIsOK DEF SessionInv
  <1> DEFINE d == SetOutputSize(Core, output, w)
             follows == FollowsOutput(Core, output, w)
  <1>3. SetCore(d)
    BY DEF SyncOutput
  <1>4. output \in Sizes /\ w \in Sizes /\ w \in SizesOrZero
    BY <1>1, OutputsAssumption DEF ThreadsOK, SizesOrZero
  <1>5. /\ d.xdg.interactive = Core.xdg.interactive
        /\ d.win.authority = Core.win.authority
        /\ d.win.committed = Core.win.committed
        /\ IF follows THEN d.win.width = w /\ Told(Core.xdg, d.xdg)
                      ELSE d.win.width = Core.win.width /\ Quiet(Core.xdg, d.xdg)
    BY <1>2, <1>4, OutputSet
  <1> HIDE DEF d, follows
  <1>6. /\ d.xdg.interactive = xdg.interactive
        /\ d.win.authority = win.authority /\ d.win.committed = win.committed
        /\ IF follows THEN d.win.width = w /\ Told(xdg, d.xdg)
                      ELSE d.win.width = win.width /\ Quiet(xdg, d.xdg)
    BY <1>2, <1>5
  <1>7. win' = d.win /\ xdg' = d.xdg
    BY <1>3 DEF SetCore
  <1>8. CASE follows
    BY <1>4, <1>6, <1>7, <1>8, MoveAgreed
  <1>9. CASE ~follows
    <2>1. Agreement!Next
      BY <1>6, <1>7, <1>9, TalkAgreed DEF Quiet
    <2> QED
      BY <2>1 DEF Agreement!FollowNext
  <1> QED
    BY <1>8, <1>9

\* A session is opened with a request for the current size, or silently.
LEMMA OpenStreamAgrees ==
  ASSUME AndroidInv, OpenStream
  PROVE  Agreement!FollowNext
  <1>1. SessionInv /\ ThreadsOK
    BY DEF AndroidInv
  <1>2. CoreOK(Core) /\ Core.win = win /\ Core.xdg = xdg
    BY <1>1, CoreIsOK DEF SessionInv
  <1> DEFINE k == ui.current
             d == OpenSession(Core, k)
  <1>3. SetCore(d)
    BY DEF OpenStream
  <1>4. k \in SizesOrZero
    BY <1>1 DEF ThreadsOK, Uis
  <1> HIDE DEF k
  <1>5. /\ CoreOK(d) /\ d.xdg.interactive = TRUE
        /\ d.win.width = Core.win.width /\ d.win.committed = Core.win.committed
        /\ IF k > 0 THEN d.win.authority = Host(k) /\ Told(Core.xdg, d.xdg)
                    ELSE d.win.authority = Core.win.authority /\ Quiet(Core.xdg, d.xdg)
    BY <1>2, <1>4, SessionOpened
  <1> HIDE DEF d
  <1>6. /\ d.win.width = win.width /\ d.win.committed = win.committed
        /\ IF k > 0 THEN d.win.authority = Host(k) /\ Told(xdg, d.xdg)
                    ELSE d.win.authority = win.authority /\ Quiet(xdg, d.xdg)
    BY <1>2, <1>5
  <1>7. CASE k > 0
    <2>1. k \in Sizes
      BY <1>4, <1>7 DEF SizesOrZero
    <2> QED
      BY <1>3, <1>5, <1>6, <1>7, <2>1, AskAgrees
  <1>8. CASE ~(k > 0)
    <2>1. /\ win'.width = win.width /\ win'.committed = win.committed
          /\ win'.authority = win.authority
          /\ xdg'.interactive = TRUE /\ Quiet(xdg, xdg')
      BY <1>3, <1>5, <1>6, <1>8 DEF SetCore
    <2>2. Agreement!Talk
      BY <2>1 DEF Quiet, Agreement!Talk, Agreement!Answered
    <2> QED
      BY <2>2 DEF Agreement!FollowNext, Agreement!Next
  <1> QED
    BY <1>7, <1>8

\* Every other call that asks for a size
LEMMA RequestsAgree ==
  ASSUME AndroidInv, InjectSize \/ SendSettle \/ InjectFill
  PROVE  Agreement!FollowNext
  <1>1. SessionInv /\ ThreadsOK
    BY DEF AndroidInv
  <1>2. CoreOK(Core) /\ Core.win = win /\ Core.xdg = xdg
    BY <1>1, CoreIsOK DEF SessionInv
  <1>3. ASSUME NEW w \in Sizes, SetCore(RequestSize(Core, w, TRUE))
        PROVE  Agreement!FollowNext
    <2> DEFINE d == RequestSize(Core, w, TRUE)
    <2>1. SetCore(d)
      BY <1>3
    <2>2. /\ CoreOK(d) /\ d.win.width = w /\ d.win.committed = win.committed
          /\ d.win.authority = Host(w) /\ Told(xdg, d.xdg)
      BY <1>2, SizeRequested
    <2> HIDE DEF d
    <2> QED
      BY <2>1, <2>2, AskAgrees
  <1>4. CASE InjectSize
    BY <1>1, <1>3, <1>4 DEF InjectSize, ResizeWindow, ThreadsOK
  <1>5. CASE SendSettle
    BY <1>1, <1>3, <1>5 DEF SendSettle, RenderStep, ThreadsOK, Sized
  <1>6. CASE InjectFill
    BY <1>1, <1>3, <1>6 DEF InjectFill, RenderStep, ResizeWindow, ThreadsOK, Sized
  <1> QED
    BY <1>4, <1>5, <1>6

\* A settle ends the session before it asks for its last size.
LEMMA ClearInteractiveAgrees ==
  ASSUME AndroidInv, ClearInteractive
  PROVE  Agreement!FollowNext
  <1>1. CoreOK(Core) /\ Core.win = win /\ Core.xdg = xdg
    BY CoreIsOK DEF AndroidInv, SessionInv
  <1> DEFINE d == SetInteractive(Core, FALSE)
  <1>2. SetCore(d)
    BY DEF ClearInteractive, SetCore
  <1>3. d.win = win /\ d.xdg.interactive = FALSE /\ Quiet(xdg, d.xdg)
    BY <1>1, InteractiveSet
  <1> HIDE DEF d
  <1>4. Agreement!SessionEnds
    BY <1>2, <1>3 DEF SetCore, Quiet, Agreement!SessionEnds
  <1> QED
    BY <1>4 DEF Agreement!FollowNext

\* The host's own maximize and fullscreen move the window.
LEMMA HostStateAgrees ==
  ASSUME AndroidInv, ApplyHostState
  PROVE  Agreement!FollowNext
  <1>1. SessionInv /\ ThreadsOK
    BY DEF AndroidInv
  <1>2. CoreOK(Core) /\ Core.win = win /\ Core.xdg = xdg
    BY <1>1, CoreIsOK DEF SessionInv
  <1>3. render.size \in SizesOrZero
    BY <1>1 DEF ThreadsOK, Renders
  <1>4. PICK w \in SizesOrZero : SetCore(MoveWindow(Core, w))
    BY <1>3 DEF ApplyHostState
  <1> DEFINE d == MoveWindow(Core, w)
  <1>5. /\ d.xdg.interactive = xdg.interactive /\ d.win.authority = win.authority
        /\ d.win.committed = win.committed /\ d.win.width = w /\ Told(xdg, d.xdg)
    BY <1>2, WindowMoved
  <1>6. win' = d.win /\ xdg' = d.xdg
    BY <1>4 DEF SetCore
  <1> HIDE DEF d
  <1> QED
    BY <1>5, <1>6, MoveAgreed

\* What the render thread dispatches is the client's talk.
LEMMA DispatchAgrees ==
  ASSUME AndroidInv, HandleChange \/ DispatchClients
  PROVE  [Agreement!FollowNext]_Agreement!vars
  <1>1. ConfigureInv
    BY DEF AndroidInv, SessionInv
  <1>2. ASSUME [Next]_configureVars PROVE [Agreement!FollowNext]_Agreement!vars
    BY <1>1, <1>2, ConfigureAgrees, AgreementFollows
  <1>3. CASE HandleChange
    <2>1. [Next]_configureVars
      BY <1>3 DEF HandleChange, HandleSizeChanged, configureVars
    <2> QED
      BY <1>2, <2>1
  <1>4. ASSUME AckNewest PROVE [Agreement!FollowNext]_Agreement!vars
    <2>1. Len(xdg.unacked) \in 1..Len(xdg.unacked)
      BY <1>1, <1>4 DEF AckNewest, ConfigureInv, TypeOK, Toplevels
    <2>2. [Next]_configureVars
      BY <1>4, <2>1 DEF AckNewest, Next, ClientSteps
    <2> QED
      BY <1>2, <2>2
  <1>5. ASSUME NEW w \in SizesOrZero, Commit(w)
        PROVE  [Agreement!FollowNext]_Agreement!vars
    <2>1. [Next]_configureVars
      BY <1>5 DEF Commit, Next, ClientSteps
    <2> QED
      BY <1>2, <2>1
  <1> QED
    BY <1>3, <1>4, <1>5 DEF DispatchClients

LEMMA AndroidAgrees ==
  ASSUME AndroidInv, [AndroidNext]_androidVars
  PROVE  [Agreement!FollowNext]_Agreement!vars
  <1>1. ASSUME win' = win, xdg' = xdg PROVE [Agreement!FollowNext]_Agreement!vars
    BY <1>1, TalkAgreed DEF Agreement!FollowNext
  <1>2. CASE UNCHANGED androidVars
    BY <1>1, <1>2 DEF androidVars, sessionVars
  <1>3. CASE UiThread
    <2>1. CASE OpenStream \/ InjectSize
      BY <2>1, OpenStreamAgrees, RequestsAgree
    <2>2. ASSUME NoStream \/ (\E w \in {"this", "other"} : BeginStream(w))
                 \/ ClaimStream \/ RecordWindow \/ RecordSize
          PROVE  win' = win /\ xdg' = xdg
      BY <2>2 DEF NoStream, BeginStream, ClaimStream, RecordWindow, RecordSize, sessionVars
    <2> QED
      BY <1>1, <1>3, <2>1, <2>2 DEF UiThread
  <1>4. CASE RenderThread
    <2>1. CASE HandleChange \/ DispatchClients
      BY <2>1, DispatchAgrees
    <2>2. CASE SendSettle \/ InjectFill \/ ClearInteractive \/ ApplyHostState
      BY <2>2, RequestsAgree, ClearInteractiveAgrees, HostStateAgrees
    <2>3. ASSUME EndDispatch \/ NoSession \/ CountIdleFrame \/ DecideToSettle
                 \/ CallSettle \/ ClearActive \/ ClearWindow
          PROVE  win' = win /\ xdg' = xdg
      BY <2>3 DEF EndDispatch, NoSession, CountIdleFrame, DecideToSettle, CallSettle,
                  ClearActive, ClearWindow, sessionVars
    <2>4. ASSUME PopSizeChanged \/ (\E does \in {"fill", "restore"} : PopRequest(does))
                 \/ FillOther \/ FillPrimary \/ SkipHostState \/ EndDrain
          PROVE  win' = win /\ xdg' = xdg
      BY <2>4 DEF PopSizeChanged, PopRequest, FillOther, FillPrimary, SkipHostState,
                  EndDrain, sessionVars
    <2> QED
      BY <1>1, <1>4, <2>1, <2>2, <2>3, <2>4 DEF RenderThread, Frame, Settling, Filling
  <1> QED
    BY <1>2, <1>3, <1>4, SyncOutputAgrees DEF AndroidNext

\* Two unlocked threads, an output that moves the window under a client that owns
\* its size, and settles that end a session in two steps: all the same the client
\* changes the size only when it owns it or answers a request, and the host never
\* without a configure (android_jni.c, set_output_size, size_authority.rs).
THEOREM AndroidFollowsAgreement == AndroidSpec => FollowsAgreement
  <1>1. AndroidInit => Agreement!Init
    BY AgreementStarts DEF AndroidInit, SessionInit
  <1>2. AndroidInv /\ [AndroidNext]_androidVars => [Agreement!FollowNext]_Agreement!vars
    BY AndroidAgrees
  <1> QED
    BY <1>1, <1>2, AndroidInvariant, PTL DEF AndroidSpec, FollowsAgreement, Agreement!FollowSpec

\* With a host that resizes and one whose threads interleave, the core's list of
\* unacknowledged configures still agrees with Smithay's, and no toplevel is taken
\* for configured while it owes an ack (send_toplevel_configure,
\* handle_toplevel_ack_configure).
THEOREM HostsKeepBooks ==
  /\ GtkSpec => [](PendingTracksUnacked /\ ConfiguredMeansAcked)
  /\ AndroidSpec => [](PendingTracksUnacked /\ ConfiguredMeansAcked)
  <1>1. ConfigureInv => PendingTracksUnacked /\ ConfiguredMeansAcked
    BY DEF ConfigureInv, Bookkept, ListsAgree, PendingTracksUnacked, ConfiguredMeansAcked
  <1>2. GtkInv => ConfigureInv
    BY DEF GtkInv, SessionInv
  <1>3. AndroidInv => ConfigureInv
    BY DEF AndroidInv, SessionInv
  <1> QED
    BY <1>1, <1>2, <1>3, GtkInvariant, AndroidInvariant, PTL

=============================================================================
