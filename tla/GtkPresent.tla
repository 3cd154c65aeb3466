---------------------------- MODULE GtkPresent ----------------------------
(***************************************************************************)
(* The Linux host showing surfaces (src/src/bin/wawona-linux-ui.rs).  On   *)
(* one thread, a 16 ms tick reports what has been drawn since the last     *)
(* one, dispatches the clients, handles the core's events, pops the staged *)
(* buffers into a pixel cache, takes the scene and queues a draw of every  *)
(* window if it has changed; between two ticks GTK draws a window, from    *)
(* the cache, because a draw is queued or for reasons of its own.          *)
(***************************************************************************)
EXTENDS SurfacePresent

VARIABLES
  phase,     \* of the tick: "idle" between two ticks, "dispatch", "handle"
  cached,    \* buffer_cache: no pixels, the ones last drawn by the client, older
  scene,     \* the scene taken last
  redraw,    \* windows with a queued draw
  shown      \* presented: drawn and not yet reported

gtkPresentVars == <<presentVars, phase, cached, scene, redraw, shown>>

\* Mutant: what was drawn is reported again with every tick.
ReportAgain ==
  /\ phase = "idle"
  /\ phase' = "dispatch"
  /\ \E others \in BOOLEAN : NotifyPresented(shown, others)
  /\ UNCHANGED <<cached, scene, redraw, shown>>

\* 1. Frame presentation for previously drawn surfaces
ReportPresented ==
  /\ phase = "idle"
  /\ phase' = "dispatch"
  /\ \E others \in BOOLEAN : NotifyPresented(shown, others)
  /\ shown' = {}
  /\ UNCHANGED <<cached, scene, redraw>>

\* 2. Dispatch Wayland events.
Attached(s, b, frame, damage) ==
  /\ AttachBuffer(s, b, frame, damage)
  /\ cached' = [cached EXCEPT ![b] = IF @ = "none" THEN "none" ELSE "old"]

Unattached(s, frame, damage) ==
  /\ CommitState(s, frame, damage) \/ AttachNull(s, frame, damage)
  /\ UNCHANGED cached

Request(s, frame, damage) ==
  /\ phase = "dispatch"
  /\ Unattached(s, frame, damage) \/ \E b \in Pool[s] : Attached(s, b, frame, damage)
  /\ UNCHANGED <<phase, scene, redraw, shown>>

\* The events of a dispatch are handled after all of its requests.
HandleCommitted ==
  /\ phase \in {"dispatch", "handle"}
  /\ phase' = "handle"
  /\ SurfaceCommitted
  /\ UNCHANGED <<cached, scene, redraw, shown>>

\* 3. Pop pending buffers into cache
Popped == {staged[w].buffer : w \in Windows} \ {NoBuffer}

PopIntoCache ==
  /\ cached' = [b \in Buffers |-> IF b \in Popped THEN "new" ELSE cached[b]]
  /\ staged' = [w \in Windows |-> Nothing]

\* 5. Get render scene and trigger redraws
\* Mutant: a scene of the same buffers needs no redraw.
NodesChanged == Scene # scene

NeedsRedraw == Scene # scene \/ SceneDamage # {}

TakeScene ==
  /\ scene' = Scene
  /\ redraw' = IF NeedsRedraw THEN Windows ELSE redraw
  /\ damaged' = damaged \ SceneDamage

PopAndTakeScene ==
  /\ phase # "idle" /\ committed = <<>>
  /\ phase' = "idle"
  /\ PopIntoCache
  /\ TakeScene
  /\ UNCHANGED <<current, callbacks, held, releases, committed, shown>>

\* The draw function: nodes whose pixels are not cached are skipped.
Drawn(w) ==
  {[surface |-> s, buffer |-> scene[s]] :
     s \in {t \in Surfaces : /\ WindowOf[t] = w /\ scene[t] # NoBuffer
                             /\ cached[scene[t]] # "none"}}

Draw(w) ==
  /\ phase = "idle"
  /\ shown' = shown \cup Drawn(w)
  /\ redraw' = redraw \ {w}
  /\ UNCHANGED <<presentVars, phase, cached, scene>>

GtkPresentInit ==
  /\ PresentInit
  /\ phase = "idle"
  /\ cached = [b \in Buffers |-> "none"]
  /\ scene = [s \in Surfaces |-> NoBuffer]
  /\ redraw = {} /\ shown = {}

HostNext ==
  \/ ReportPresented \/ HandleCommitted \/ PopAndTakeScene
  \/ \E w \in Windows : Draw(w)

\* The timer never stops, and a queued draw of a window on screen is done.
HostFairness ==
  /\ WF_gtkPresentVars(ReportPresented) /\ WF_gtkPresentVars(HandleCommitted)
  /\ WF_gtkPresentVars(PopAndTakeScene)
  /\ \A w \in Windows : SF_gtkPresentVars(w \in redraw /\ Draw(w))

GtkPresentNext ==
  HostNext \/ \E s \in Surfaces, f, d \in BOOLEAN : Request(s, f, d)

GtkPresentSpec ==
  GtkPresentInit /\ [][GtkPresentNext]_gtkPresentVars /\ HostFairness

\* The same with clients that damage something in every commit.
DamagingNext == HostNext \/ \E s \in Surfaces, f \in BOOLEAN : Request(s, f, TRUE)

DamagingSpec ==
  GtkPresentInit /\ [][DamagingNext]_gtkPresentVars /\ HostFairness

-----------------------------------------------------------------------------
\* Properties

GtkPresentTypeOK ==
  /\ PresentTypeOK
  /\ phase \in {"idle", "dispatch", "handle"}
  /\ cached \in [Buffers -> {"none", "old", "new"}]
  /\ scene \in [Surfaces -> Buffers \cup {NoBuffer}]
  /\ redraw \subseteq Windows
  /\ shown \subseteq Commits

Reporting == phase = "idle" /\ phase' = "dispatch"

\* docs/issues/foot-flicker-macos-wayland.md: a surface is not acknowledged as
\* presented before its matching buffer is cached and drawn.  A callback
\* answered by the tick belongs to content that is current and on screen.
AnsweredWhenShown ==
  [][Reporting => \A s \in callbacks \ callbacks' :
       /\ [surface |-> s, buffer |-> current[s]] \in shown
       /\ cached[current[s]] = "new"]_gtkPresentVars

\* notify_frame_presented releases before it answers, so that a client with a
\* small pool finds a free buffer when its callback fires: of a surface that was
\* shown, every buffer is free.
PoolFreeWhenShown ==
  [][Reporting => \A p \in shown : Pool[p.surface] \cap held' = {}]_gtkPresentVars

\* Between two ticks a surface that waits for its frame callback has been drawn
\* since the last tick, as it is now, or its window has a draw queued: the safety
\* half of FramesAnswered, which needs clients that damage something.
WaitersAreDrawn ==
  phase = "idle" =>
    \A s \in callbacks :
      WindowOf[s] \in redraw \/ [surface |-> s, buffer |-> current[s]] \in shown

\* "so clients that use state-only commits don't stall" (ffi/api.rs): every
\* frame callback is answered.
FramesAnswered == \A s \in Surfaces : s \in callbacks ~> s \notin callbacks
=============================================================================
