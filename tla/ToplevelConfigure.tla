------------------------- MODULE ToplevelConfigure -------------------------
(***************************************************************************)
(* One xdg_toplevel between the compositor core and its client: configure, *)
(* ack_configure and commit.                                               *)
(*                                                                         *)
(* Two parties keep a list of unacknowledged configures.  Smithay keeps    *)
(* the protocol's own list and refuses an ack that is not on it; the core  *)
(* mirrors it in XdgSurfaceData.pending_serials, caches the newest entry   *)
(* in pending_serial (on the xdg_surface and again on the xdg_toplevel),   *)
(* and decides from the cache whether a commit may resize the window.      *)
(* Some configures (xdg-decoration) are sent by Smithay without being      *)
(* recorded by the core.                                                   *)
(*                                                                         *)
(* The client is any client Smithay accepts: it acks any configure it has  *)
(* received and not acked, skipping older ones if it likes, and commits    *)
(* any size at any time.  Delay on the wire in either direction only       *)
(* postpones the moment the core handles the ack, so it needs no queue.    *)
(*                                                                         *)
(* The model follows the xdg-shell (Smithay) path.  deferred_configure_    *)
(* size is always cleared before send_toplevel_configure returns, so the   *)
(* flush after an ack finds nothing to send and both are left out;         *)
(* clamp_size is the identity on positive sizes because only the v6        *)
(* protocol ever stores a minimum or a maximum.                            *)
(***************************************************************************)
EXTENDS SizeAuthority, SequencesExt

CONSTANTS
  Sizes,      \* sizes a client commits and a host asks for
  Output,     \* size of the primary output
  Modes,      \* decoration modes, NoMode while none was negotiated
  NoMode,
  MaxSerial   \* bound: configures sent in one behaviour

ASSUME SizesAssumption == Sizes \subseteq Nat \ {0} /\ Output \in Sizes
ASSUME MaxSerialAssumption == MaxSerial \in Nat

VARIABLES
  win,   \* Window: the host's view of the toplevel
  xdg    \* XdgToplevelData, XdgSurfaceData and Smithay's surface state

configureVars == <<win, xdg>>

SizesOrZero == Sizes \cup {0}

\* The double-buffered state one configure carries.
ToplevelStates ==
  [size: SizesOrZero, activated: BOOLEAN, maximized: BOOLEAN,
   fullscreen: BOOLEAN, resizing: BOOLEAN, mode: Modes \cup {NoMode}]

Configures == [serial: Nat, state: ToplevelStates]

Windows == [width: SizesOrZero, authority: Authorities(Sizes),
            committed: BOOLEAN, fills_host: BOOLEAN,
            maximized: BOOLEAN, fullscreen: BOOLEAN]

Toplevels ==
  [width: SizesOrZero, activated: BOOLEAN, interactive: BOOLEAN,  \* XdgToplevelData
   pending_maximized: BOOLEAN, pending_fullscreen: BOOLEAN,
   maximized: BOOLEAN, fullscreen: BOOLEAN, toplevel_serial: Nat,
   pending_serial: Nat, pending_serials: Seq(Nat),                \* XdgSurfaceData
   last_acked: Nat, configured: BOOLEAN,
   serial: Nat, sent: ToplevelStates,                             \* Smithay
   unacked: Seq(Configures), acked: ToplevelStates]

-----------------------------------------------------------------------------
\* Configure and ack, on a toplevel record x

\* Smithay: send_configure pushes the state under a fresh serial.
SendState(x, st) ==
  [x EXCEPT !.serial = @ + 1, !.sent = st,
            !.unacked = Append(@, [serial |-> x.serial + 1, state |-> st])]

\* Mutant: a new configure leaves the toplevel configured.
RecordSerialOnly(x) ==
  [x EXCEPT !.toplevel_serial = x.serial, !.pending_serial = x.serial,
            !.pending_serials = Append(@, x.serial)]

\* The core notes the serial of the configure Smithay has just sent.
RecordSerial(x) ==
  [x EXCEPT !.toplevel_serial = x.serial, !.pending_serial = x.serial,
            !.pending_serials = Append(@, x.serial), !.configured = FALSE]

\* Mutant: a fullscreen toplevel is configured to whatever was asked.
ConfigureSizeAsAsked(x, size) == size

\* A fullscreen toplevel is never configured to 0x0.
ConfigureSize(x, size) ==
  IF x.pending_fullscreen /\ size = 0 THEN Output ELSE size

\* Mutant: the configure announces the current state and not the pending one.
SendCurrentState(x, size) ==
  LET w == ConfigureSize(x, size)
      st == [x.sent EXCEPT !.size = w, !.activated = x.activated,
                           !.maximized = x.maximized, !.fullscreen = x.fullscreen,
                           !.resizing = x.interactive]
  IN RecordSerial(SendState([x EXCEPT !.width = w], st))

\* fn send_toplevel_configure
SendToplevelConfigure(x, size) ==
  LET w == ConfigureSize(x, size)
      st == [x.sent EXCEPT !.size = w,
                           !.activated = x.activated,
                           !.maximized = x.pending_maximized,
                           !.fullscreen = x.pending_fullscreen,
                           !.resizing = x.interactive]
  IN RecordSerial(SendState([x EXCEPT !.width = w], st))

\* fn set_toplevel_activated: re-sends Smithay's last state with the new flag,
\* only if the flag differs from the one last sent.
SetActivated(x, b) ==
  LET y == [x EXCEPT !.activated = b]
  IN IF x.sent.activated = b
       THEN y
       ELSE RecordSerial(SendState(y, [x.sent EXCEPT !.activated = b]))

\* new_decoration, request_mode, unset_mode: Smithay's send_pending_configure
\* announces a changed mode and its serial is not recorded ...
SendDecoration(x, mode) ==
  IF x.sent.mode = mode
    THEN x
    ELSE SendState(x, [x.sent EXCEPT !.mode = mode])

\* Mutant: the unrecorded configure is the only one.
DecorateUnrecorded(x, mode, width) == SendDecoration(x, mode)

\* ... and apply_decoration_mode_for_window always reconfigures afterwards.
Decorate(x, mode, width) == SendToplevelConfigure(SendDecoration(x, mode), width)

\* Smithay: an ack takes the acked configure and all older ones off the list.
AckState(x, i) ==
  [x EXCEPT !.acked = x.unacked[i].state,
            !.unacked = SubSeq(@, i + 1, Len(@))]

\* handle_toplevel_ack_configure, the xdg_surface's part
AckSurface(x, s) ==
  LET ps == x.pending_serials
      pos == CHOOSE p \in 1..Len(ps) : ps[p] = s
      rest == SubSeq(ps, pos + 1, Len(ps))
      y == [x EXCEPT !.last_acked = IF s > @ THEN s ELSE @]
  IN IF \E p \in 1..Len(ps) : ps[p] = s
       THEN [y EXCEPT !.pending_serials = rest,
                      !.pending_serial = IF rest = <<>> THEN 0 ELSE Last(rest),
                      !.configured = (rest = <<>>)]
       ELSE IF ps = <<>> /\ s = x.pending_serial
         THEN [y EXCEPT !.pending_serial = 0, !.configured = TRUE]
         ELSE y

\* Mutant: acking any configure makes the pending window state current.
AckToplevelAny(x, s) ==
  [x EXCEPT !.toplevel_serial = IF @ = s THEN 0 ELSE @,
            !.maximized = x.pending_maximized, !.fullscreen = x.pending_fullscreen]

\* handle_toplevel_ack_configure, the xdg_toplevel's part: acking the newest
\* recorded configure makes the pending window state current.
AckToplevel(x, s) ==
  IF x.toplevel_serial = s
    THEN [x EXCEPT !.toplevel_serial = 0, !.maximized = x.pending_maximized,
                   !.fullscreen = x.pending_fullscreen]
    ELSE x

\* handle_toplevel_ack_configure
Ack(x, i) ==
  LET s == x.unacked[i].serial
  IN AckToplevel(AckSurface(AckState(x, i), s), s)

-----------------------------------------------------------------------------
\* Commit

\* Mutant: the size of a client-owned window is adopted at any time.
SyncsOwnedSize ==
  \/ xdg.pending_serial = 0
  \/ ~win.committed
  \/ ~IsHost(win.authority)

\* finalize_surface_commit looks at a committed size only when the core
\* believes nothing is unacked, or while the window waits for its first size.
SyncsHostSize ==
  \/ xdg.pending_serial = 0
  \/ ~win.committed
  \/ win.authority = AwaitingFirstCommit

CommitDecision(w) ==
  OnClientCommit(win.authority, w, win.width, xdg.pending_serial,
                 win.committed, xdg.interactive, ~win.fills_host)

Adopts(w) == SyncsHostSize /\ CommitDecision(w).apply

\* The commit of w queues a WindowSizeChanged event for the platform.
EmitsSizeChanged(w) ==
  Adopts(w) /\ (CommitDecision(w).emit \/ win.width # w)

\* finalize_surface_commit for the surface the window is mapped from
ClientCommit(w) ==
  /\ win' = [win EXCEPT !.authority = IF SyncsHostSize
                                        THEN CommitDecision(w).authority ELSE @,
                         !.width = IF Adopts(w) THEN w ELSE @,
                         !.committed = @ \/ Adopts(w)]
  /\ xdg' = [xdg EXCEPT !.width = IF Adopts(w) THEN w ELSE @]

-----------------------------------------------------------------------------
\* Handlers

\* Mutant: every new window starts with a request of the host.
NewRequestedWindow(fills) ==
  [width |-> IF fills THEN Output ELSE 0,
   authority |-> OnHostResizeRequest(IF fills THEN Output ELSE 0),
   committed |-> FALSE, fills_host |-> fills,
   maximized |-> FALSE, fullscreen |-> FALSE]

\* new_toplevel: a nested compositor (fills_host) is told the output's size at
\* once, any other client gets 0x0 and decides itself.
NewWindow(fills) ==
  [width |-> IF fills THEN Output ELSE 0,
   authority |-> IF fills THEN OnHostResizeRequest(Output) ELSE AwaitingFirstCommit,
   committed |-> FALSE, fills_host |-> fills,
   maximized |-> FALSE, fullscreen |-> FALSE]

NewToplevel(fills) ==
  LET first == [size |-> IF fills THEN Output ELSE 0, activated |-> TRUE,
                maximized |-> FALSE, fullscreen |-> FALSE, resizing |-> FALSE,
                mode |-> NoMode]
      blank == [first EXCEPT !.size = 0, !.activated = FALSE]
      unsent == [width |-> first.size, activated |-> TRUE, interactive |-> FALSE,
                 pending_maximized |-> FALSE, pending_fullscreen |-> FALSE,
                 maximized |-> FALSE, fullscreen |-> FALSE, toplevel_serial |-> 0,
                 pending_serial |-> 0, pending_serials |-> <<>>,
                 last_acked |-> 0, configured |-> FALSE,
                 serial |-> 0, sent |-> blank, unacked |-> <<>>, acked |-> blank]
  IN RecordSerial(SendState(unsent, first))

Init == \E fills \in BOOLEAN : win = NewWindow(fills) /\ xdg = NewToplevel(fills)

\* Room for n more configures.
MaySend(n) == xdg.serial + n <= MaxSerial

\* Keyboard focus moves to or away from the toplevel.
FocusChange(b) ==
  /\ MaySend(1)
  /\ xdg' = SetActivated(xdg, b)
  /\ UNCHANGED win

\* The host activates or deactivates the window; without "send" the flag waits
\* for the next configure, and a window without a size is not configured.
SetWindowActivated(b, send) ==
  LET y == [xdg EXCEPT !.activated = b]
      w == IF xdg.width > 0 THEN xdg.width ELSE win.width
  IN /\ MaySend(1)
     /\ xdg' = IF send /\ w > 0 THEN SendToplevelConfigure(y, w) ELSE y
     /\ UNCHANGED win

\* xdg_activation_v1.activate; focusMoves unless the toplevel has the focus.
RequestActivation(focusMoves) ==
  LET y == IF focusMoves THEN SetActivated(xdg, TRUE)
                         ELSE [xdg EXCEPT !.activated = TRUE]
  IN /\ MaySend(2)
     /\ xdg' = SendToplevelConfigure(y, xdg.width)
     /\ UNCHANGED win

\* A decoration is created or its mode is chosen.
ChooseDecoration(mode) ==
  /\ MaySend(2)
  /\ xdg' = Decorate(xdg, mode, win.width)
  /\ UNCHANGED win

\* The core handles an ack of the i-th unacked configure.
ClientAck(i) ==
  /\ xdg' = Ack(xdg, i)
  /\ win' = IF xdg.toplevel_serial = xdg.unacked[i].serial
              THEN [win EXCEPT !.maximized = xdg.pending_maximized,
                               !.fullscreen = xdg.pending_fullscreen]
              ELSE win

ClientSteps ==
  \/ \E i \in 1..Len(xdg.unacked) : ClientAck(i)
  \/ \E w \in SizesOrZero : ClientCommit(w)

\* Configures that have nothing to do with the size.
OtherConfigures ==
  \/ \E b \in BOOLEAN : FocusChange(b)
  \/ \E focusMoves \in BOOLEAN : RequestActivation(focusMoves)
  \/ \E mode \in Modes : ChooseDecoration(mode)

Next ==
  \/ ClientSteps
  \/ OtherConfigures
  \/ \E b, send \in BOOLEAN : SetWindowActivated(b, send)

Spec == Init /\ [][Next]_configureVars

-----------------------------------------------------------------------------
\* Properties

\* Every variable keeps its type (XdgToplevelData, XdgSurfaceData, Window).
TypeOK == win \in Windows /\ xdg \in Toplevels

\* Configures go out, and are listed, in the order of their serials, which
\* start at 1.
SerialsOrdered(x) ==
  /\ \A i, j \in 1..Len(x.unacked) :
       i < j => x.unacked[i].serial < x.unacked[j].serial
  /\ \A i, j \in 1..Len(x.pending_serials) :
       i < j => x.pending_serials[i] < x.pending_serials[j]
  /\ \A i \in 1..Len(x.unacked) : x.unacked[i].serial <= x.serial
  /\ \A i \in 1..Len(x.pending_serials) : x.pending_serials[i] \in 1..x.serial

\* The two lists are empty together and otherwise end in the same configure.
ListsAgree(x) ==
  /\ x.pending_serials = <<>> <=> x.unacked = <<>>
  /\ x.unacked # <<>> => Last(x.pending_serials) = Last(x.unacked).serial

\* The cached serials name the newest entry of the core's list, 0 for none.
CacheCorrect(x) ==
  LET newest == IF x.pending_serials = <<>> THEN 0 ELSE Last(x.pending_serials)
  IN x.pending_serial = newest /\ x.toplevel_serial = newest

\* The core's bookkeeping of unacknowledged configures agrees with Smithay's
\* although decoration configures are never recorded and clients skip acks:
\* pending_serial is non-zero exactly while the client still owes an ack of
\* the newest configure (handle_toplevel_ack_configure).
PendingTracksUnacked == ListsAgree(xdg) /\ CacheCorrect(xdg)

\* "configured" is never set while an ack is outstanding.
ConfiguredMeansAcked == xdg.configured => xdg.unacked = <<>>

\* After the first buffer, no commit changes the window's size while the
\* client still owes Smithay an ack: a lagging commit cannot pull the host
\* back to an older size (finalize_surface_commit).
CommitWaitsForAck ==
  [][ win.committed /\ win'.width # win.width => xdg.unacked = <<>> ]_configureVars

\* The agreed size that the size-authority machine is meant to implement.
Agreement == INSTANCE SizeAgreement WITH
  size <- win.width,
  owner <- IF IsHost(win.authority) THEN "host" ELSE "client",
  asked <- win.authority.requested,
  unanswered <- xdg.unacked # <<>>,
  resizing <- xdg.interactive,
  mapped <- win.committed,
  told <- xdg.serial

\* However host calls, acks, commits and configures interleave, the window's
\* size changes only as SizeAgreement allows (resize_window, commit, ack).
ImplementsAgreement == Agreement!Spec

\* The same of hosts that move the window with their output, or report states of
\* their own: whoever moves the window, what a client may do about its size is what
\* SizeAgreement says (set_output_size, apply_host_window_fullscreen, commit).
FollowsAgreement == Agreement!FollowSpec

\* A nested compositor's window (fills_host) never takes a size more than a
\* pixel away from the host's request as long as the host holds the authority.
FillsHostNeverShrinks ==
  [][ (IsHost(win.authority) /\ win.fills_host /\ win'.width # win.width)
      => SizesMatch(win.authority.requested, win'.width) ]_configureVars
=============================================================================
