---------------------------- MODULE AndroidHost ----------------------------
(***************************************************************************)
(* The Android host (src/src/platform/android/android_jni.c) driving       *)
(* ResizeSession for one window, "this", among others.                     *)
(*                                                                         *)
(* Two threads share the statics that describe the running resize session, *)
(* one session for all windows.  The UI thread runs apply_output_scale for *)
(* every change of the output: it resizes the output and streams the size  *)
(* to the window under the pointer, which every frame and every touch may  *)
(* change: it opens a session unless that very window's is running,        *)
(* records the window and the size, and injects the size.  The render      *)
(* thread goes through a frame per vsync: it lets the core dispatch its    *)
(* clients, ends the recorded session if the last frame was idle, and      *)
(* drains the window events, of which a request to be, or no longer to be, *)
(* maximized or fullscreen ends its window's session at once.              *)
(*                                                                         *)
(* No lock covers the statics (the render thread never takes g_lock), and  *)
(* the core's calls take the state lock once per part: each statement on   *)
(* the statics and each locked part of a call is a step of its own.  Of    *)
(* the other windows only what they do to the statics is modelled.  What   *)
(* the core does with a client's maximize and fullscreen requests is left  *)
(* to ToplevelStates; here only their sizes matter.                        *)
(***************************************************************************)
EXTENDS ResizeSession

CONSTANTS
  Outputs,    \* sizes the output takes
  MaxInputs   \* bound: output changes and state requests in one behaviour

ASSUME OutputsAssumption == Outputs \subseteq Sizes
ASSUME MaxInputsAssumption == MaxInputs \in Nat

\* end_interactive_resize settles at 1 when nobody knows a size.
ASSUME FallbackAssumption == 1 \in Sizes

VARIABLES
  output,    \* g_output_width, and the core's output size
  android,   \* the statics of the resize session, and follow_host
  ui,        \* the UI thread inside apply_output_scale, the window and the size
             \* it streams and the size begin_interactive_resize has read
  render,    \* the render thread, the window and the size it works on, and why
  inputs,    \* output changes and state requests so far
  overtaken  \* history: see the properties

threadVars == <<output, android, ui, render, inputs, overtaken>>
androidVars == <<sessionVars, threadVars>>

WindowIds == {"none", "this", "other"}

Statics == [active: BOOLEAN,       \* g_interactive_resize_active
            window: WindowIds,     \* g_interactive_resize_window
            size: SizesOrZero,     \* g_interactive_resize_w and _h
            idle: {0, 1},          \* g_interactive_resize_idle_frames
            follow: BOOLEAN]       \* AndroidOwlWindow.follow_host

Uis == [at: {"rest", "begin", "open", "claim", "window", "size", "inject"},
        target: WindowIds, size: SizesOrZero, current: SizesOrZero]

Renders == [at: {"dispatch", "test", "call", "flag", "settle", "active", "window",
                 "drain", "fill", "inject", "first", "second"},
            who: WindowIds, does: {"settle", "fill", "restore"}, size: SizesOrZero]

-----------------------------------------------------------------------------
\* UI thread

UiStep(from, to) == ui.at = from /\ ui' = [ui EXCEPT !.at = to, !.current = 0]

UiRests == [at |-> "rest", target |-> "none", size |-> 0, current |-> 0]

\* nativeSyncOutputSize, and set_output_size for apply_output_scale.
SyncOutput(w) ==
  /\ inputs < MaxInputs /\ inputs' = inputs + 1
  /\ ui.at = "rest" /\ w # output
  /\ output' = w
  /\ SetCore(SetOutputSize(Core, output, w))
  /\ changes' = IF FollowsOutput(Core, output, w)
                 THEN Append(changes, w)
                 ELSE changes
  /\ ui' = [UiRests EXCEPT !.at = "begin", !.size = w]
  /\ UNCHANGED <<events, android, render, overtaken>>

\* The pointer is over no window, or over one that does not follow the host.
NoStream ==
  /\ ui.at = "begin" /\ ui' = UiRests
  /\ UNCHANGED <<sessionVars, output, android, render, inputs, overtaken>>

Recorded(w) == android.active /\ android.window = w

\* android_begin_stream_resize for the window under the pointer: its test, and
\* what begin_interactive_resize reads
BeginStream(w) ==
  /\ ui.at = "begin"
  /\ w = "this" => android.follow
  /\ ui' = [ui EXCEPT
       !.target = w,
       !.at = IF Recorded(w) THEN "window"
              ELSE IF w = "this" /\ ~xdg.interactive THEN "open" ELSE "claim",
       !.current = IF w = "this" /\ ~Recorded(w) /\ ~xdg.interactive
                     THEN CurrentSize(Core) ELSE 0]
  /\ overtaken' = (overtaken \/ "other" \in {w, android.window})
  /\ UNCHANGED <<sessionVars, output, android, render, inputs>>

\* what it does, and the flag
OpenStream ==
  /\ UiStep("open", "window")
  /\ SetCore(OpenSession(Core, ui.current))
  /\ android' = [android EXCEPT !.active = TRUE]
  /\ UNCHANGED <<changes, events, output, render, inputs, overtaken>>

\* the same when the session is another window's or is already open
ClaimStream ==
  /\ UiStep("claim", "window")
  /\ android' = [android EXCEPT !.active = TRUE]
  /\ UNCHANGED <<sessionVars, output, render, inputs, overtaken>>

\* From here on the statics describe this window's session again, unless the
\* render thread is about to clear the flag.
RecordWindow ==
  /\ UiStep("window", "size")
  /\ android' = [android EXCEPT !.window = ui.target]
  /\ overtaken' = (overtaken /\ ~(/\ ui.target = "this" /\ android.active
                                  /\ render.at \notin {"settle", "active"}))
  /\ UNCHANGED <<sessionVars, output, render, inputs>>

RecordSize ==
  /\ ui.at = "size"
  /\ ui' = IF ui.target = "this" THEN [ui EXCEPT !.at = "inject"] ELSE UiRests
  /\ android' = [android EXCEPT !.size = ui.size, !.idle = 0]
  /\ UNCHANGED <<sessionVars, output, render, inputs, overtaken>>

InjectSize ==
  /\ ui.at = "inject" /\ ui' = UiRests
  /\ SetCore(ResizeWindow(Core, ui.size))
  /\ UNCHANGED <<changes, events, output, android, render, inputs, overtaken>>

UiThread ==
  \/ NoStream \/ \E w \in {"this", "other"} : BeginStream(w)
  \/ OpenStream \/ ClaimStream
  \/ RecordWindow \/ RecordSize \/ InjectSize

-----------------------------------------------------------------------------
\* Render thread: WWNCoreProcessEvents, android_maybe_settle_interactive_resize,
\* then the events

Rests(at) == [at |-> at, who |-> "none", does |-> "settle", size |-> 0]

RenderStep(from, to) ==
  /\ render.at = from
  /\ render' = IF to \in {"dispatch", "test", "drain"} THEN Rests(to)
                                                       ELSE [render EXCEPT !.at = to]
  /\ UNCHANGED <<output, ui, inputs, overtaken>>

\* Acks that leave newer configures unacked change nothing the host or a commit
\* can see, so only the newest is acked here.
DispatchClients ==
  /\ render.at = "dispatch"
  /\ AckNewest \/ \E w \in SizesOrZero : Commit(w)
  /\ UNCHANGED threadVars

\* What the core queued is handled before WWNCoreProcessEvents returns (and what
\* the UI thread makes it queue meanwhile, which could also wait for a frame).
HandleChange ==
  /\ render.at = "dispatch" /\ HandleSizeChanged
  /\ UNCHANGED threadVars

EndDispatch ==
  /\ RenderStep("dispatch", "test") /\ changes = <<>>
  /\ UNCHANGED <<sessionVars, android>>

\* android_maybe_settle_interactive_resize: the test, the arguments of the
\* call, and what end_interactive_resize reads
Running == android.active /\ android.window # "none"

NoSession ==
  /\ RenderStep("test", "drain") /\ ~Running
  /\ UNCHANGED <<sessionVars, android>>

CountIdleFrame ==
  /\ RenderStep("test", "drain") /\ Running /\ android.idle = 0
  /\ android' = [android EXCEPT !.idle = 1]
  /\ UNCHANGED sessionVars

Decided == [Rests(IF android.window = "this" THEN "call" ELSE "active")
              EXCEPT !.who = android.window]

\* Mutant: the flag is cleared before end_interactive_resize is called.
ClearThenSettle ==
  /\ render.at = "test" /\ Running /\ android.idle = 1
  /\ render' = Decided
  /\ android' = [android EXCEPT !.active = FALSE]
  /\ UNCHANGED <<sessionVars, output, ui, inputs, overtaken>>

\* Mutant: the settle waits for the client's last ack.
SettleWhenAcked ==
  /\ render.at = "test" /\ Running /\ android.idle = 1
  /\ render' = IF xdg.unacked = <<>> THEN Decided ELSE Rests("drain")
  /\ UNCHANGED <<sessionVars, output, android, ui, inputs, overtaken>>

DecideToSettle ==
  /\ render.at = "test" /\ Running /\ android.idle = 1
  /\ render' = Decided
  /\ UNCHANGED <<sessionVars, output, android, ui, inputs, overtaken>>

CallSettle ==
  /\ render.at = "call"
  /\ render' = [render EXCEPT !.at = "flag", !.size = SettleSize(Core, android.size)]
  /\ UNCHANGED <<sessionVars, output, android, ui, inputs, overtaken>>

\* end_interactive_resize: clear the flag, then send the settle configure
ClearInteractive ==
  /\ RenderStep("flag", "settle")
  /\ SetCore(SetInteractive(Core, FALSE))
  /\ UNCHANGED <<changes, events, android>>

SendSettle ==
  /\ RenderStep("settle", "active")
  /\ SetCore(RequestSize(Core, render.size, TRUE))
  /\ UNCHANGED <<changes, events, android>>

ClearActive ==
  /\ RenderStep("active", "window")
  /\ android' = [android EXCEPT !.active = FALSE]
  /\ UNCHANGED sessionVars

\* android_inject_fill_primary leaves the idle frames alone and has work left.
ClearWindow ==
  /\ RenderStep("window", IF render.who = "this" /\ render.does # "settle"
                            THEN "inject" ELSE "drain")
  /\ android' = [android EXCEPT !.window = "none",
                                !.idle = IF render.does = "settle" THEN 0 ELSE @]
  /\ UNCHANGED sessionVars

Settling ==
  \/ NoSession \/ CountIdleFrame \/ DecideToSettle \/ CallSettle
  \/ ClearInteractive \/ SendSettle
  \/ ClearActive \/ ClearWindow

\* android_owl_on_size_changed: a window that once filled the output follows
\* it from then on, unless the client launched last is a fixed-square demo.
FollowAfter(e, launched) ==
  IF e.cause # "ClientCommit" THEN android.follow
  ELSE /\ launched # "square"
       /\ \/ android.follow \/ win.fills_host \/ launched = "fills"
          \/ e.width * 10 >= output * 9

PopSizeChanged ==
  /\ render.at = "drain" /\ events # <<>>
  /\ \E launched \in {"square", "fills", "plain"} :
       android' = [android EXCEPT !.follow = FollowAfter(Head(events), launched)]
  /\ events' = Tail(events)
  /\ UNCHANGED <<win, xdg, txn, changes, output, ui, render, inputs, overtaken>>

\* A request to be maximized or fullscreen makes the window follow the host,
\* one to be so no longer stops it (xdg toplevels are never host_locked).
PopRequest(does) ==
  /\ render.at = "drain"
  /\ inputs < MaxInputs /\ inputs' = inputs + 1
  /\ android' = [android EXCEPT !.follow = (does = "fill")]
  /\ render' = [at |-> "fill", who |-> "this", does |-> does, size |-> 0]
  /\ UNCHANGED <<sessionVars, output, ui, overtaken>>

\* android_inject_fill_primary for another window, as far as the statics tell
FillOther ==
  /\ render.at = "drain" /\ Recorded("other")
  /\ render' = [at |-> "active", who |-> "other", does |-> "fill", size |-> 0]
  /\ UNCHANGED <<sessionVars, output, android, ui, inputs, overtaken>>

\* android_inject_fill_primary: a running session of the window is ended first,
FillPrimary ==
  /\ render.at = "fill"
  /\ render' = [render EXCEPT !.at = IF Recorded("this") THEN "flag" ELSE "inject",
                              !.size = output]
  /\ UNCHANGED <<sessionVars, output, android, ui, inputs, overtaken>>

\* then it is resized to the output ...
InjectFill ==
  /\ RenderStep("inject", IF render.does = "restore" THEN "first" ELSE "second")
  /\ SetCore(ResizeWindow(Core, render.size))
  /\ UNCHANGED <<changes, events, android>>

\* ... and told its states: by one call, or when it left one by two.  A call that
\* finds the state as it should be does nothing, the first that does not takes
\* the size saved earlier, if there is one.
MoveWindow(c, w) ==
  LET x == SendToplevelConfigure(c.xdg, w)
  IN [win |-> [c.win EXCEPT !.width = w], xdg |-> x,
      txn |-> [serial |-> x.serial, size |-> w]]

ApplyHostState ==
  /\ render.at \in {"first", "second"}
  /\ \E w \in IF render.does = "restore" THEN SizesOrZero ELSE {render.size} :
       SetCore(MoveWindow(Core, w))
  /\ render' = IF render.at = "first"
                 THEN [render EXCEPT !.at = "second", !.does = "fill"]
                 ELSE Rests("drain")
  /\ UNCHANGED <<changes, events, output, android, ui, inputs, overtaken>>

SkipHostState ==
  /\ RenderStep("first", "second") \/ RenderStep("second", "drain")
  /\ UNCHANGED <<sessionVars, android>>

Filling == FillPrimary \/ InjectFill \/ ApplyHostState \/ SkipHostState

EndDrain ==
  /\ RenderStep("drain", "dispatch") /\ events = <<>>
  /\ UNCHANGED <<sessionVars, android>>

\* What the render thread does in a frame whatever its clients do.
Frame == HandleChange \/ EndDispatch \/ Settling \/ PopSizeChanged \/ Filling \/ EndDrain

RenderThread ==
  \/ Frame \/ DispatchClients
  \/ \E does \in {"fill", "restore"} : PopRequest(does)
  \/ FillOther

-----------------------------------------------------------------------------
\* A window that fills the host, or that is created while such a client was
\* launched last, follows it from its creation.
AndroidInit ==
  /\ SessionInit
  /\ output = Output
  /\ \E follow \in {win.fills_host, TRUE} :
       android = [active |-> FALSE, window |-> "none", size |-> 0, idle |-> 0,
                  follow |-> follow]
  /\ ui = UiRests
  /\ render = Rests("dispatch")
  /\ inputs = 0
  /\ overtaken = FALSE

AndroidNext ==
  \/ \E w \in Outputs : SyncOutput(w)
  \/ UiThread
  \/ RenderThread

AndroidSpec == AndroidInit /\ [][AndroidNext]_androidVars

\* Vsync never stops while a window is shown; the UI thread may stop anywhere.
VsyncSpec == AndroidSpec /\ WF_androidVars(Frame)

-----------------------------------------------------------------------------
\* Properties

AndroidTypeOK ==
  /\ SessionTypeOK
  /\ output \in Sizes
  /\ android \in Statics
  /\ ui \in Uis
  /\ render \in Renders
  /\ inputs \in 0..MaxInputs
  /\ overtaken \in BOOLEAN

\* The statics have room for one session.  "overtaken" remembers that, since
\* they last described this window's, the UI thread has turned them over between
\* it and another window (android_jni.c:969-975).  Nothing in the code does.

\* Whatever the threads do to the flag, a session the core runs for a window is
\* one the host still knows to be running, unless another window has overtaken it
\* (android_begin_stream_resize).
RunningIsKnown == xdg.interactive => android.active \/ overtaken

\* The UI thread has finished setting up this window's session, and no settle is
\* under way.
SetUp ==
  Recorded("this") /\ ui.at = "rest" /\ render.at \in {"dispatch", "test", "drain"}

\* A session once set up is ended by the render thread, with or without an answer
\* from the client and wherever the UI thread is stopped later, unless another
\* window overtakes it first (android_maybe_settle_interactive_resize).
RecordedSessionEnds == SetUp ~> ~xdg.interactive \/ overtaken
=============================================================================
