-------------------------- MODULE SurfacePresent --------------------------
(***************************************************************************)
(* The core's half of showing a surface: a commit (core/wayland/mod.rs,    *)
(* core/state/surfaces.rs) makes a buffer current, queues the release of   *)
(* the one it replaces and the frame callbacks the client asked for; the   *)
(* library interface (ffi/api.rs) handles the SurfaceCommitted event later *)
(* and stages the pixels for the host, one buffer per host window; the     *)
(* host says what it has presented, and only then are buffers released and *)
(* callbacks answered.                                                     *)
(*                                                                         *)
(* Every surface has a window (a subsurface its parent's); every buffer is *)
(* an SHM buffer of one surface's pool.  Sizes are left out: any buffer    *)
(* may come at a moment when the handler finds it of the wrong size, as    *)
(* while a configure is unacked (ToplevelConfigure), and for a subsurface  *)
(* always.                                                                 *)
(***************************************************************************)
EXTENDS Sequences, Naturals

CONSTANTS
  Surfaces,
  WindowOf,      \* surface_to_window, through the parents for a subsurface
  Pool,          \* the buffers a surface's client draws it in
  NoBuffer,
  MaxCommits     \* bound: commits in one dispatch

Windows == {WindowOf[s] : s \in Surfaces}
Buffers == UNION {Pool[s] : s \in Surfaces}

ASSUME PoolsAssumption ==
  /\ DOMAIN WindowOf = Surfaces /\ DOMAIN Pool = Surfaces
  /\ NoBuffer \notin Buffers
  /\ \A s, t \in Surfaces : s # t => Pool[s] \cap Pool[t] = {}
  /\ MaxCommits \in Nat

VARIABLES
  current,     \* Surface.current.buffer_id
  callbacks,   \* surfaces with pending frame_callbacks
  damaged,     \* surfaces whose current.damage is not empty
  held,        \* buffers attached and not yet released
  releases,    \* pending_buffer_releases
  committed,   \* SurfaceCommitted events on their way
  staged       \* pending_buffers, one per window

presentVars ==
  <<current, callbacks, damaged, held, releases, committed, staged>>

Commits == [surface : Surfaces, buffer : Buffers \cup {NoBuffer}]
Nothing == [surface |-> NoBuffer, buffer |-> NoBuffer]

\* Mutant: detaching a buffer releases nothing.
ReplacedByBuffer(s, b) ==
  IF b = NoBuffer THEN {} ELSE {current[s]} \ {b, NoBuffer}

\* apply_commit: the buffer that a commit of b to s replaces
Replaced(s, b) == {current[s]} \ {b, NoBuffer}

\* CompositorHandler::commit with b for the surface's buffer, then
\* handle_surface_commit and finalize_surface_commit.
Commit(s, b, frame, damage) ==
  /\ Len(committed) < MaxCommits
  /\ current' = [current EXCEPT ![s] = b]
  /\ releases' = releases \cup Replaced(s, b)
  /\ callbacks' = IF frame THEN callbacks \cup {s} ELSE callbacks
  /\ damaged' = IF damage THEN damaged \cup {s} ELSE damaged
  /\ committed' = Append(committed, [surface |-> s, buffer |-> b])
  /\ UNCHANGED staged

\* A buffer drawn in anew, that the client is free to use
AttachBuffer(s, b, frame, damage) ==
  /\ b \in Pool[s] \ held
  /\ held' = held \cup {b}
  /\ Commit(s, b, frame, damage)

\* BufferAssignment::Removed
AttachNull(s, frame, damage) ==
  /\ Commit(s, NoBuffer, frame, damage)
  /\ UNCHANGED held

\* A commit without an attach
CommitState(s, frame, damage) ==
  /\ Commit(s, current[s], frame, damage)
  /\ UNCHANGED held

\* A commit without a buffer has nothing to wait for.
AnswerAtOnce(e) ==
  /\ e.buffer = NoBuffer
  /\ callbacks' = callbacks \ {e.surface}
  /\ UNCHANGED <<held, staged>>

\* should_drop_size_mismatch: the size is wrong and the gate before a stable size
\* is closed.  The client gets the buffer back unseen.
DropMismatch(e) ==
  /\ e.buffer # NoBuffer
  /\ held' = held \ {e.buffer}
  /\ callbacks' = callbacks \ {e.surface}
  /\ UNCHANGED staged

\* The buffer waits for the host in its window's place; what was waiting there
\* is released.
Stage(e) ==
  /\ e.buffer # NoBuffer
  /\ staged' = [staged EXCEPT ![WindowOf[e.surface]] = e]
  /\ held' = held \ ({staged[WindowOf[e.surface]].buffer} \ {e.buffer})
  /\ UNCHANGED callbacks

\* handle_compositor_event, SurfaceCommitted
SurfaceCommitted ==
  /\ committed # <<>>
  /\ LET e == Head(committed) IN AnswerAtOnce(e) \/ Stage(e) \/ DropMismatch(e)
  /\ committed' = Tail(committed)
  /\ UNCHANGED <<current, damaged, releases>>

\* Mutant: the queue waits for another time.
FlushedShown(b) == held \ b

\* flush_buffer_releases
Flushed(b) == held \ (releases \cup b)

\* notify_frame_presented, once for every member of shown.  It releases whatever
\* is queued, so that other surfaces, of which Surfaces are a sample, release
\* these surfaces' buffers too (others).
NotifyPresented(shown, others) ==
  /\ IF shown # {} \/ others
       THEN held' = Flushed({p.buffer : p \in shown}) /\ releases' = {}
       ELSE UNCHANGED <<held, releases>>
  /\ callbacks' = callbacks \ {p.surface : p \in shown}
  /\ UNCHANGED <<current, damaged, committed, staged>>

\* get_render_scene: the nodes with a texture, by surface
Scene == current
SceneDamage == {s \in damaged : current[s] # NoBuffer}

PresentInit ==
  /\ current = [s \in Surfaces |-> NoBuffer]
  /\ callbacks = {} /\ damaged = {} /\ held = {} /\ releases = {}
  /\ committed = <<>>
  /\ staged = [w \in Windows |-> Nothing]

-----------------------------------------------------------------------------
\* Properties

PresentTypeOK ==
  /\ current \in [Surfaces -> Buffers \cup {NoBuffer}]
  /\ callbacks \subseteq Surfaces /\ damaged \subseteq Surfaces
  /\ held \subseteq Buffers /\ releases \subseteq Buffers
  /\ committed \in Seq(Commits) /\ Len(committed) <= MaxCommits
  /\ staged \in [Windows -> Commits \cup {Nothing}]

\* No buffer is forgotten: one the client has not got back is shown by its
\* surface or waits in pending_buffer_releases (apply_commit,
\* queue_buffer_release and the three places that release out of turn).
NoBufferLost ==
  \A b \in held : b \in releases \/ \E s \in Surfaces : current[s] = b
=============================================================================
