------------------------- MODULE GtkPresentProofs -------------------------
(***************************************************************************)
(* Proofs about GtkPresent, for any number of surfaces, windows, buffers   *)
(* and commits: types, that no buffer is lost, that a shown surface's pool *)
(* is free, and, when no two surfaces share a window, that a frame         *)
(* callback is answered for content that is current and on screen.         *)
(***************************************************************************)
EXTENDS GtkPresent, SequenceTheorems, TLAPS

-----------------------------------------------------------------------------
\* Types

LEMMA PoolFacts ==
  ASSUME NEW s \in Surfaces
  PROVE  /\ Pool[s] \subseteq Buffers /\ NoBuffer \notin Pool[s]
         /\ WindowOf[s] \in Windows
  BY PoolsAssumption DEF Buffers, Windows

LEMMA NothingFacts == Nothing.buffer = NoBuffer /\ Nothing.surface = NoBuffer
  BY DEF Nothing

\* The part of a commit the three kinds of commits share
LEMMA CommitType ==
  ASSUME PresentTypeOK, NEW s \in Surfaces, NEW b \in Buffers \cup {NoBuffer},
         NEW f \in BOOLEAN, NEW d \in BOOLEAN, Commit(s, b, f, d),
         held' \subseteq Buffers
  PROVE  PresentTypeOK'
  <1> DEFINE e == [surface |-> s, buffer |-> b]
  <1>1. e \in Commits
    BY DEF Commits
  <1>2. committed \in Seq(Commits) /\ Len(committed) < MaxCommits
    BY DEF PresentTypeOK, Commit
  <1>3. committed' = Append(committed, e)
    BY DEF Commit
  <1> HIDE DEF e
  <1>4. committed' \in Seq(Commits) /\ Len(committed') = Len(committed) + 1
    BY <1>1, <1>2, <1>3, AppendProperties
  <1>5. Len(committed') <= MaxCommits
    BY <1>2, <1>4, PoolsAssumption, LenProperties
  <1>6. current' \in [Surfaces -> Buffers \cup {NoBuffer}] /\ releases' \subseteq Buffers
    BY DEF PresentTypeOK, Commit, Replaced
  <1>7. callbacks' \subseteq Surfaces /\ damaged' \subseteq Surfaces /\ staged' = staged
    BY DEF PresentTypeOK, Commit
  <1> QED
    BY <1>4, <1>5, <1>6, <1>7 DEF PresentTypeOK

\* What is at the head of the queue is a commit.
LEMMA HeadType ==
  ASSUME PresentTypeOK, committed # <<>>
  PROVE  /\ Head(committed) \in Commits /\ Tail(committed) \in Seq(Commits)
         /\ Len(Tail(committed)) = Len(committed) - 1
         /\ Head(committed).surface \in Surfaces
         /\ Head(committed).buffer \in Buffers \cup {NoBuffer}
  <1>1. committed \in Seq(Commits)
    BY DEF PresentTypeOK
  <1>2. Head(committed) \in Commits
    BY <1>1 , HeadTailProperties
  <1>3. Tail(committed) \in Seq(Commits) /\ Len(Tail(committed)) = Len(committed) - 1
    BY <1>1, HeadTailProperties
  <1> QED
    BY <1>2, <1>3 DEF Commits

LEMMA StageType ==
  ASSUME PresentTypeOK, NEW e \in Commits, Stage(e)
  PROVE  /\ staged' \in [Windows -> Commits \cup {Nothing}]
         /\ held' \subseteq held /\ callbacks' = callbacks
  <1>1. WindowOf[e.surface] \in Windows
    BY PoolFacts DEF Commits
  <1> QED
    BY <1>1 DEF PresentTypeOK, Stage

LEMMA SurfaceCommittedType ==
  ASSUME PresentTypeOK, SurfaceCommitted
  PROVE  PresentTypeOK' /\ held' \subseteq held
  <1> DEFINE e == Head(committed)
  <1>1. /\ e \in Commits /\ committed' \in Seq(Commits)
        /\ Len(committed') = Len(committed) - 1
    BY HeadType DEF SurfaceCommitted
  <1>2. Len(committed) \in Nat /\ Len(committed) <= MaxCommits
    BY LenProperties DEF PresentTypeOK
  <1>3. Len(committed') <= MaxCommits
    BY <1>1, <1>2, PoolsAssumption
  <1>4. AnswerAtOnce(e) \/ Stage(e) \/ DropMismatch(e)
    BY DEF SurfaceCommitted
  <1> HIDE DEF e
  <1>5. /\ staged' \in [Windows -> Commits \cup {Nothing}]
        /\ held' \subseteq held /\ callbacks' \subseteq callbacks
    <2>1. CASE Stage(e)
      BY <1>1, <2>1, StageType
    <2>2. CASE AnswerAtOnce(e) \/ DropMismatch(e)
      BY <2>2 DEF AnswerAtOnce, DropMismatch, PresentTypeOK
    <2> QED
      BY <1>4, <2>1, <2>2
  <1>6. UNCHANGED <<current, damaged, releases>>
    BY DEF SurfaceCommitted
  <1> QED
    BY <1>1, <1>3, <1>5, <1>6 DEF PresentTypeOK

LEMMA NotifyType ==
  ASSUME PresentTypeOK, NEW P, NEW o \in BOOLEAN, NotifyPresented(P, o)
  PROVE  PresentTypeOK' /\ held' \subseteq held
  BY DEF NotifyPresented, Flushed, PresentTypeOK

\* A request is one of the three kinds of commits.
LEMMA RequestCases ==
  ASSUME NEW s \in Surfaces, NEW f \in BOOLEAN, NEW d \in BOOLEAN, Request(s, f, d),
         PresentTypeOK
  PROVE  \E b \in Pool[s] \cup {NoBuffer, current[s]} :
           /\ Commit(s, b, f, d)
           /\ \/ /\ b \in Pool[s] /\ held' = held \cup {b}
                 /\ cached' = [cached EXCEPT ![b] = IF @ = "none" THEN "none" ELSE "old"]
              \/ b \in {NoBuffer, current[s]} /\ held' = held /\ cached' = cached
  <1>1. CASE \E b \in Pool[s] : Attached(s, b, f, d)
    BY <1>1 DEF Attached, AttachBuffer
  <1>2. CASE Unattached(s, f, d)
    BY <1>2 DEF Unattached, CommitState, AttachNull
  <1> QED
    BY <1>1, <1>2 DEF Request

LEMMA InitType == GtkPresentInit => GtkPresentTypeOK
  <1> SUFFICES ASSUME GtkPresentInit PROVE GtkPresentTypeOK
    OBVIOUS
  <1>1. committed \in Seq(Commits) /\ Len(committed) = 0
    BY DEF GtkPresentInit, PresentInit
  <1>2. 0 <= MaxCommits
    BY PoolsAssumption
  <1> QED
    BY <1>1, <1>2 DEF GtkPresentInit, PresentInit, GtkPresentTypeOK, PresentTypeOK

LEMMA NextType ==
  ASSUME GtkPresentTypeOK, [GtkPresentNext]_gtkPresentVars
  PROVE  GtkPresentTypeOK'
  <1> USE DEF GtkPresentTypeOK
  <1>1. ASSUME ReportPresented PROVE GtkPresentTypeOK'
    <2>1. PresentTypeOK'
      BY <1>1, NotifyType DEF ReportPresented
    <2> QED
      BY <1>1, <2>1 DEF ReportPresented
  <1>2. ASSUME HandleCommitted PROVE GtkPresentTypeOK'
    <2>1. PresentTypeOK'
      BY <1>2, SurfaceCommittedType DEF HandleCommitted
    <2> QED
      BY <1>2, <2>1 DEF HandleCommitted
  <1>3. ASSUME PopAndTakeScene PROVE GtkPresentTypeOK'
    <2>1. PresentTypeOK'
      BY <1>3 DEF PopAndTakeScene, PopIntoCache, TakeScene, PresentTypeOK
    <2>2. scene' \in [Surfaces -> Buffers \cup {NoBuffer}]
      BY <1>3 DEF PopAndTakeScene, PopIntoCache, TakeScene, PresentTypeOK, Scene
    <2> QED
      BY <1>3, <2>1, <2>2 DEF PopAndTakeScene, PopIntoCache, TakeScene
  <1>4. ASSUME NEW w \in Windows, Draw(w) PROVE GtkPresentTypeOK'
    <2>1. PresentTypeOK'
      BY <1>4 DEF Draw, presentVars, PresentTypeOK
    <2>2. Drawn(w) \subseteq Commits
      BY DEF Drawn, Commits
    <2> QED
      BY <1>4, <2>1, <2>2 DEF Draw
  <1>5. ASSUME NEW s \in Surfaces, NEW f \in BOOLEAN, NEW d \in BOOLEAN, Request(s, f, d)
        PROVE  GtkPresentTypeOK'
    <2> PICK b \in Pool[s] \cup {NoBuffer, current[s]} :
           /\ Commit(s, b, f, d)
           /\ \/ /\ b \in Pool[s] /\ held' = held \cup {b}
                 /\ cached' = [cached EXCEPT ![b] = IF @ = "none" THEN "none" ELSE "old"]
              \/ b \in {NoBuffer, current[s]} /\ held' = held /\ cached' = cached
      BY <1>5, RequestCases
    <2>1. b \in Buffers \cup {NoBuffer} /\ held' \subseteq Buffers
      BY PoolFacts DEF PresentTypeOK
    <2>2. PresentTypeOK'
      BY <2>1, CommitType
    <2>3. cached' \in [Buffers -> {"none", "old", "new"}]
      BY PoolFacts
    <2> QED
      BY <1>5, <2>2, <2>3 DEF Request
  <1>6. ASSUME UNCHANGED gtkPresentVars PROVE GtkPresentTypeOK'
    BY <1>6 DEF gtkPresentVars, presentVars, PresentTypeOK
  <1> QED
    BY <1>1, <1>2, <1>3, <1>4, <1>5, <1>6 DEF GtkPresentNext, HostNext

\* Every behaviour keeps the types of the core's and the host's state.
THEOREM PresentTypesCorrect == GtkPresentSpec => []GtkPresentTypeOK
  BY InitType, NextType, PTL DEF GtkPresentSpec

-----------------------------------------------------------------------------
\* Buffers

\* A surface shows a buffer of its own pool, and no buffer is lost.
BufferInv ==
  /\ \A s \in Surfaces : current[s] \in Pool[s] \cup {NoBuffer}
  /\ NoBufferLost

LEMMA BufferInit == GtkPresentInit => BufferInv
  BY DEF GtkPresentInit, PresentInit, BufferInv, NoBufferLost

\* A commit queues the release of the only buffer that stops being current.
LEMMA CommitBuffers ==
  ASSUME GtkPresentTypeOK, BufferInv, NEW s \in Surfaces,
         NEW b \in Pool[s] \cup {NoBuffer, current[s]}, NEW f, NEW d,
         Commit(s, b, f, d),
         held' \subseteq held \cup ({b} \ {NoBuffer, current[s]})
  PROVE  BufferInv'
  <1>1. current \in [Surfaces -> Buffers \cup {NoBuffer}] /\ held \subseteq Buffers
    BY DEF GtkPresentTypeOK, PresentTypeOK
  <1>2. current' = [current EXCEPT ![s] = b]
        /\ releases' = releases \cup ({current[s]} \ {b, NoBuffer})
    BY DEF Commit, Replaced
  <1>3. \A t \in Surfaces : current'[t] \in Pool[t] \cup {NoBuffer}
    BY <1>1, <1>2 DEF BufferInv
  <1>4. ASSUME NEW c \in held', c \notin releases'
        PROVE  \E t \in Surfaces : current'[t] = c
    <2>1. CASE c = b
      BY <1>1, <1>2, <2>1
    <2>2. CASE c # b
      <3>1. c \in held /\ c \notin releases /\ c # NoBuffer
        BY <1>1, <1>2, <1>4, <2>2, PoolsAssumption
      <3>2. PICK t \in Surfaces : current[t] = c
        BY <3>1 DEF BufferInv, NoBufferLost
      <3>3. t # s
        BY <1>2, <1>4, <2>2, <3>1, <3>2
      <3> QED
        BY <1>1, <1>2, <3>2, <3>3
    <2> QED
      BY <2>1, <2>2
  <1> QED
    BY <1>3, <1>4 DEF BufferInv, NoBufferLost

\* Giving buffers back loses none.
LEMMA ReleaseBuffers ==
  ASSUME BufferInv, UNCHANGED current, held' \subseteq held,
         held' \cap releases \subseteq releases'
  PROVE  BufferInv'
  BY DEF BufferInv, NoBufferLost

LEMMA BufferNext ==
  ASSUME GtkPresentTypeOK, BufferInv, [GtkPresentNext]_gtkPresentVars
  PROVE  BufferInv'
  <1>1. ASSUME ReportPresented PROVE BufferInv'
    <2>1. UNCHANGED current /\ held' \subseteq held /\ held' \cap releases \subseteq releases'
      BY <1>1 DEF ReportPresented, NotifyPresented, Flushed
    <2> QED
      BY <2>1, ReleaseBuffers
  <1>2. ASSUME HandleCommitted PROVE BufferInv'
    <2>1. UNCHANGED current /\ held' \subseteq held /\ releases' = releases
      BY <1>2, SurfaceCommittedType DEF HandleCommitted, SurfaceCommitted, GtkPresentTypeOK
    <2> QED
      BY <2>1, ReleaseBuffers
  <1>3. ASSUME PopAndTakeScene PROVE BufferInv'
    BY <1>3, ReleaseBuffers DEF PopAndTakeScene, PopIntoCache, TakeScene
  <1>4. ASSUME NEW w \in Windows, Draw(w) PROVE BufferInv'
    BY <1>4, ReleaseBuffers DEF Draw, presentVars
  <1>5. ASSUME NEW s \in Surfaces, NEW f \in BOOLEAN, NEW d \in BOOLEAN, Request(s, f, d)
        PROVE  BufferInv'
    <2>1. CASE \E b \in Pool[s] : Attached(s, b, f, d)
      <3> PICK b \in Pool[s] : AttachBuffer(s, b, f, d)
        BY <2>1 DEF Attached
      <3>1. b \notin held /\ held' = held \cup {b} /\ Commit(s, b, f, d)
        BY DEF AttachBuffer
      <3>2. CASE b # current[s]
        <4>1. held' \subseteq held \cup ({b} \ {NoBuffer, current[s]})
          BY <3>1, <3>2, PoolFacts
        <4> QED
          BY <3>1, <4>1, CommitBuffers
      <3>3. CASE b = current[s]
        \* drawn again in the buffer on screen, which had been given back
        <4>1. current' = current /\ releases' = releases
          BY <3>1, <3>3 DEF Commit, Replaced, GtkPresentTypeOK, PresentTypeOK
        <4> QED
          BY <3>1, <3>3, <4>1 DEF BufferInv, NoBufferLost
      <3> QED
        BY <3>2, <3>3
    <2>2. CASE Unattached(s, f, d)
      <3>1. PICK b \in {NoBuffer, current[s]} : Commit(s, b, f, d) /\ held' = held
        BY <2>2 DEF Unattached, CommitState, AttachNull
      <3> QED
        BY <3>1, CommitBuffers
    <2> QED
      BY <1>5, <2>1, <2>2 DEF Request
  <1>6. ASSUME UNCHANGED gtkPresentVars PROVE BufferInv'
    BY <1>6, ReleaseBuffers DEF gtkPresentVars, presentVars
  <1> QED
    BY <1>1, <1>2, <1>3, <1>4, <1>5, <1>6 DEF GtkPresentNext, HostNext

\* Whatever clients attach, detach, draw again or leave alone, a buffer they
\* have not got back is current or queued for release.
THEOREM BuffersKept == GtkPresentSpec => []NoBufferLost
  <1>1. BufferInv => NoBufferLost
    BY DEF BufferInv
  <1> QED
    BY <1>1, BufferInit, BufferNext, PresentTypesCorrect, PTL DEF GtkPresentSpec

-----------------------------------------------------------------------------
\* The tick

\* Between two ticks every commit has been handled, the scene is the core's
\* state and what has been drawn is current; a tick has reported what was drawn
\* before it changes anything.
TickInv ==
  /\ phase = "idle" =>
       /\ committed = <<>> /\ scene = current
       /\ staged = [w \in Windows |-> Nothing]
       /\ \A p \in shown : p.buffer = current[p.surface]
  /\ phase # "idle" => shown = {}

LEMMA TickInit == GtkPresentInit => TickInv
  BY DEF GtkPresentInit, PresentInit, TickInv

LEMMA TickNext ==
  ASSUME GtkPresentTypeOK, TickInv, [GtkPresentNext]_gtkPresentVars
  PROVE  TickInv'
  <1> USE DEF TickInv
  <1>1. ASSUME ReportPresented PROVE TickInv'
    BY <1>1 DEF ReportPresented
  <1>2. ASSUME HandleCommitted PROVE TickInv'
    BY <1>2 DEF HandleCommitted
  <1>3. ASSUME PopAndTakeScene PROVE TickInv'
    BY <1>3 DEF PopAndTakeScene, PopIntoCache, TakeScene, Scene
  <1>4. ASSUME NEW w \in Windows, Draw(w) PROVE TickInv'
    <2>1. \A p \in Drawn(w) : p.buffer = scene[p.surface]
      BY DEF Drawn
    <2> QED
      BY <1>4, <2>1 DEF Draw, presentVars
  <1>5. ASSUME NEW s \in Surfaces, NEW f \in BOOLEAN, NEW d \in BOOLEAN, Request(s, f, d)
        PROVE  TickInv'
    BY <1>5 DEF Request
  <1>6. ASSUME UNCHANGED gtkPresentVars PROVE TickInv'
    BY <1>6 DEF gtkPresentVars, presentVars
  <1> QED
    BY <1>1, <1>2, <1>3, <1>4, <1>5, <1>6 DEF GtkPresentNext, HostNext

LEMMA TickInvariant == GtkPresentSpec => [](GtkPresentTypeOK /\ BufferInv /\ TickInv)
  BY BufferInit, BufferNext, TickInit, TickNext, PresentTypesCorrect, PTL DEF GtkPresentSpec

\* The step that answers is ReportPresented.
LEMMA ReportingStep ==
  ASSUME [GtkPresentNext]_gtkPresentVars, Reporting
  PROVE  ReportPresented
  <1>1. phase = "idle" /\ phase' = "dispatch"
    BY DEF Reporting
  <1>2. \A w \in Windows : ~Draw(w)
    BY <1>1 DEF Draw
  <1>3. \A s \in Surfaces, f \in BOOLEAN, d \in BOOLEAN : ~Request(s, f, d)
    BY <1>1 DEF Request
  <1>4. ~HandleCommitted /\ ~PopAndTakeScene /\ ~UNCHANGED gtkPresentVars
    BY <1>1 DEF HandleCommitted, PopAndTakeScene, gtkPresentVars
  <1> QED
    BY <1>2, <1>3, <1>4 DEF GtkPresentNext, HostNext

\* When a tick reports a surface as shown, all of its buffers are free, however
\* many its client has and whatever it has committed since.
THEOREM ShownPoolsFree == GtkPresentSpec => PoolFreeWhenShown
  <1>1. GtkPresentTypeOK /\ BufferInv /\ TickInv /\ [GtkPresentNext]_gtkPresentVars
        => (Reporting => \A p \in shown : Pool[p.surface] \cap held' = {})
    <2> SUFFICES ASSUME GtkPresentTypeOK, BufferInv, TickInv,
                        [GtkPresentNext]_gtkPresentVars, Reporting,
                        NEW p \in shown, NEW b \in Pool[p.surface], b \in held'
                 PROVE  FALSE
      OBVIOUS
    <2>1. PICK others \in BOOLEAN : NotifyPresented(shown, others)
      BY ReportingStep DEF ReportPresented
    <2>2. b \in held /\ b \notin releases /\ b # p.buffer
      BY <2>1 DEF NotifyPresented, Flushed
    <2>3. p.surface \in Surfaces /\ p.buffer = current[p.surface]
      BY DEF GtkPresentTypeOK, Commits, TickInv, Reporting
    <2>4. PICK t \in Surfaces : current[t] = b
      BY <2>2 DEF BufferInv, NoBufferLost
    <2>5. b \in Pool[t]
      BY <2>3, <2>4, PoolFacts DEF BufferInv
    <2>6. t = p.surface
      BY <2>3, <2>5, PoolsAssumption
    <2> QED
      BY <2>2, <2>3, <2>4, <2>6
  <1>2. GtkPresentTypeOK /\ BufferInv /\ TickInv /\ [GtkPresentNext]_gtkPresentVars
        => [Reporting => \A p \in shown : Pool[p.surface] \cap held' = {}]_gtkPresentVars
    BY <1>1
  <1> QED
    BY <1>2, TickInvariant, PTL DEF GtkPresentSpec, PoolFreeWhenShown

-----------------------------------------------------------------------------
\* Frame callbacks of surfaces that have their window to themselves

OwnWindows == \A s, t \in Surfaces : WindowOf[s] = WindowOf[t] => s = t

Queued(q, s) == \E i \in 1..Len(q) : q[i].surface = s

\* The last commit of a surface in the queue is the one that is current.
LastIsCurrent(q, cur) ==
  \A i \in 1..Len(q) :
    (\A j \in 1..Len(q) : j > i => q[j].surface # q[i].surface)
      => q[i].buffer = cur[q[i].surface]

LEMMA AppendOrder ==
  ASSUME NEW q \in Seq(Commits), NEW cur, LastIsCurrent(q, cur),
         NEW e \in Commits, NEW new, new[e.surface] = e.buffer,
         \A t \in Surfaces \ {e.surface} : new[t] = cur[t]
  PROVE  /\ LastIsCurrent(Append(q, e), new)
         /\ \A t : Queued(Append(q, e), t) <=> Queued(q, t) \/ t = e.surface
  <1> DEFINE r == Append(q, e)
  <1>1. /\ Len(q) \in Nat /\ Len(r) = Len(q) + 1 /\ r[Len(q) + 1] = e
        /\ \A i \in 1..Len(q) : r[i] = q[i] /\ q[i] \in Commits
    BY AppendProperties, LenProperties, ElementOfSeq
  <1> HIDE DEF r
  <1>2. ASSUME NEW i \in 1..Len(r),
               \A j \in 1..Len(r) : j > i => r[j].surface # r[i].surface
        PROVE  r[i].buffer = new[r[i].surface]
    <2>1. CASE i = Len(q) + 1
      BY <1>1, <2>1
    <2>2. CASE i # Len(q) + 1
      <3>1. i \in 1..Len(q) /\ r[i] = q[i]
        BY <1>1, <2>2
      <3>2. Len(q) + 1 \in 1..Len(r) /\ Len(q) + 1 > i
        BY <1>1, <3>1
      <3>3. q[i].surface # e.surface
        BY <1>1, <1>2, <3>1, <3>2
      <3>4. \A j \in 1..Len(q) : j > i => q[j].surface # q[i].surface
        BY <1>1, <1>2, <3>1
      <3>5. q[i].buffer = cur[q[i].surface]
        BY <3>1, <3>4 DEF LastIsCurrent
      <3>6. q[i].surface \in Surfaces
        BY <1>1, <3>1 DEF Commits
      <3> QED
        BY <3>1, <3>3, <3>5, <3>6
    <2> QED
      BY <2>1, <2>2
  <1>3. \A t : Queued(r, t) <=> Queued(q, t) \/ t = e.surface
    <2> TAKE t
    <2>1. \A i \in 1..Len(r) : i = Len(q) + 1 \/ i \in 1..Len(q)
      BY <1>1
    <2>2. Len(q) + 1 \in 1..Len(r) /\ \A i \in 1..Len(q) : i \in 1..Len(r)
      BY <1>1
    <2>3. ASSUME Queued(r, t) PROVE Queued(q, t) \/ t = e.surface
      BY <1>1, <2>1, <2>3 DEF Queued
    <2>4. ASSUME Queued(q, t) \/ t = e.surface PROVE Queued(r, t)
      BY <1>1, <2>2, <2>4 DEF Queued
    <2> QED
      BY <2>3, <2>4
  <1> QED
    BY <1>2, <1>3 DEF LastIsCurrent, r

LEMMA TailOrder ==
  ASSUME NEW q \in Seq(Commits), q # <<>>, NEW cur, LastIsCurrent(q, cur)
  PROVE  /\ LastIsCurrent(Tail(q), cur)
         /\ \A t : Queued(q, t) <=> Queued(Tail(q), t) \/ t = Head(q).surface
         /\ ~Queued(Tail(q), Head(q).surface)
              => Head(q).buffer = cur[Head(q).surface]
  <1> DEFINE r == Tail(q)
  <1>1. /\ Len(q) \in Nat /\ Len(q) > 0 /\ Len(r) = Len(q) - 1 /\ Head(q) = q[1]
        /\ \A i \in 1..Len(r) : r[i] = q[i + 1]
    BY HeadTailProperties, EmptySeq, LenProperties
  <1> HIDE DEF r
  <1>2. \A j \in 1..Len(q) : j = 1 \/ (j - 1 \in 1..Len(r) /\ q[j] = r[j - 1])
    <2> TAKE j \in 1..Len(q)
    <2>1. CASE j # 1
      <3>1. j - 1 \in 1..Len(r)
        BY <1>1, <2>1
      <3> QED
        BY <1>1, <3>1
    <2> QED
      BY <2>1
  <1>3. ASSUME NEW i \in 1..Len(r),
               \A j \in 1..Len(r) : j > i => r[j].surface # r[i].surface
        PROVE  r[i].buffer = cur[r[i].surface]
    <2>1. i + 1 \in 1..Len(q) /\ r[i] = q[i + 1]
      BY <1>1
    <2>2. ASSUME NEW j \in 1..Len(q), j > i + 1 PROVE q[j].surface # q[i + 1].surface
      <3>1. j - 1 \in 1..Len(r) /\ q[j] = r[j - 1] /\ j - 1 > i
        BY <1>1, <1>2, <2>2
      <3> QED
        BY <1>3, <2>1, <3>1
    <2> QED
      BY <2>1, <2>2 DEF LastIsCurrent
  <1>4. \A t : Queued(q, t) <=> Queued(r, t) \/ t = Head(q).surface
    <2> TAKE t
    <2>1. ASSUME Queued(q, t) PROVE Queued(r, t) \/ t = Head(q).surface
      <3> PICK i \in 1..Len(q) : q[i].surface = t
        BY <2>1 DEF Queued
      <3> QED
        BY <1>1, <1>2 DEF Queued
    <2>2. ASSUME Queued(r, t) PROVE Queued(q, t)
      <3> PICK i \in 1..Len(r) : r[i].surface = t
        BY <2>2 DEF Queued
      <3>1. i + 1 \in 1..Len(q) /\ q[i + 1].surface = t
        BY <1>1
      <3> QED
        BY <3>1 DEF Queued
    <2>3. ASSUME t = Head(q).surface PROVE Queued(q, t)
      <3>1. 1 \in 1..Len(q) /\ q[1].surface = t
        BY <1>1, <2>3
      <3> QED
        BY <3>1 DEF Queued
    <2> QED
      BY <2>1, <2>2, <2>3
  <1>5. ASSUME ~Queued(r, Head(q).surface)
        PROVE  Head(q).buffer = cur[Head(q).surface]
    <2>1. 1 \in 1..Len(q)
      BY <1>1
    <2>2. ASSUME NEW j \in 1..Len(q), j > 1 PROVE q[j].surface # q[1].surface
      BY <1>1, <1>2, <1>5, <2>2 DEF Queued
    <2> QED
      BY <1>1, <2>1, <2>2 DEF LastIsCurrent
  <1> QED
    BY <1>3, <1>4, <1>5 DEF LastIsCurrent, r

\* A surface that waits for its callback has a commit on its way or content on
\* its way to the screen.
AnswerInv ==
  /\ LastIsCurrent(committed, current)
  /\ \A s \in callbacks :
       \/ Queued(committed, s)
       \/ /\ current[s] # NoBuffer
          /\ \/ staged[WindowOf[s]].buffer = current[s]
             \/ cached[current[s]] = "new"

LEMMA AnswerInit == GtkPresentInit => AnswerInv
  <1> SUFFICES ASSUME GtkPresentInit PROVE AnswerInv
    OBVIOUS
  <1>1. committed = <<>> /\ callbacks = {} /\ Len(committed) = 0
    BY DEF GtkPresentInit, PresentInit
  <1> QED
    BY <1>1 DEF AnswerInv, LastIsCurrent

LEMMA AnswerRequest ==
  ASSUME GtkPresentTypeOK, BufferInv, AnswerInv,
         NEW s \in Surfaces, NEW f \in BOOLEAN, NEW d \in BOOLEAN, Request(s, f, d)
  PROVE  AnswerInv'
  <1> PICK b \in Pool[s] \cup {NoBuffer, current[s]} :
        /\ Commit(s, b, f, d)
        /\ \/ /\ b \in Pool[s] /\ held' = held \cup {b}
              /\ cached' = [cached EXCEPT ![b] = IF @ = "none" THEN "none" ELSE "old"]
           \/ b \in {NoBuffer, current[s]} /\ held' = held /\ cached' = cached
    BY RequestCases DEF GtkPresentTypeOK
  <1> DEFINE e == [surface |-> s, buffer |-> b]
  <1>1. /\ committed \in Seq(Commits) /\ current \in [Surfaces -> Buffers \cup {NoBuffer}]
        /\ cached \in [Buffers -> {"none", "old", "new"}] /\ callbacks \subseteq Surfaces
    BY DEF GtkPresentTypeOK, PresentTypeOK
  <1>2. /\ current' = [current EXCEPT ![s] = b] /\ committed' = Append(committed, e)
        /\ callbacks' \subseteq callbacks \cup {s} /\ staged' = staged
    BY DEF Commit
  <1>3. e \in Commits /\ e.surface = s /\ e.buffer = b
    BY <1>1, PoolFacts DEF Commits
  <1> HIDE DEF e
  <1>4. /\ LastIsCurrent(committed', current')
        /\ \A t : Queued(committed', t) <=> Queued(committed, t) \/ t = s
    <2>1. LastIsCurrent(committed, current)
      BY DEF AnswerInv
    <2>2. current'[e.surface] = e.buffer /\ \A t \in Surfaces \ {e.surface} : current'[t] = current[t]
      BY <1>1, <1>2, <1>3
    <2> DEFINE new == current'
    <2> HIDE DEF new
    <2>3. new[e.surface] = e.buffer /\ \A t \in Surfaces \ {e.surface} : new[t] = current[t]
      BY <2>2 DEF new
    <2>4. /\ LastIsCurrent(Append(committed, e), new)
          /\ \A t : Queued(Append(committed, e), t) <=> Queued(committed, t) \/ t = e.surface
      BY <1>1, <1>3, <2>1, <2>3, AppendOrder
    <2>5. LastIsCurrent(committed', new)
      BY <1>2, <2>4
    <2>6. \A t : Queued(committed', t) <=> Queued(committed, t) \/ t = s
      BY <1>2, <1>3, <2>4
    <2> QED
      BY <2>5, <2>6 DEF new
  <1>5. ASSUME NEW t \in callbacks', ~Queued(committed', t)
        PROVE  /\ current'[t] # NoBuffer
               /\ staged'[WindowOf[t]].buffer = current'[t] \/ cached'[current'[t]] = "new"
    <2>1. t \in callbacks /\ t # s /\ t \in Surfaces /\ ~Queued(committed, t)
      BY <1>1, <1>2, <1>4, <1>5
    <2>2. /\ current[t] # NoBuffer
          /\ staged[WindowOf[t]].buffer = current[t] \/ cached[current[t]] = "new"
      BY <2>1 DEF AnswerInv
    <2>3. current'[t] = current[t]
      BY <1>1, <1>2, <2>1
    <2>4. current[t] \in Pool[t] /\ current[t] \in Buffers
      BY <1>1, <2>1, <2>2 DEF BufferInv
    <2>5. b \in Pool[s] => b # current[t]
      BY <2>1, <2>4, PoolsAssumption
    <2>6. cached'[current[t]] = cached[current[t]]
      BY <1>1, <2>4, <2>5
    <2> QED
      BY <1>2, <2>2, <2>3, <2>6
  <1> QED
    BY <1>4, <1>5 DEF AnswerInv

LEMMA AnswerHandle ==
  ASSUME OwnWindows, GtkPresentTypeOK, AnswerInv, HandleCommitted
  PROVE  AnswerInv'
  <1> DEFINE e == Head(committed)
  <1>1. /\ PresentTypeOK /\ committed \in Seq(Commits) /\ committed # <<>>
        /\ callbacks \subseteq Surfaces
        /\ staged \in [Windows -> Commits \cup {Nothing}]
    BY DEF GtkPresentTypeOK, PresentTypeOK, HandleCommitted, SurfaceCommitted
  <1>2. e.surface \in Surfaces
    BY <1>1, HeadType
  <1>3. /\ committed' = Tail(committed) /\ current' = current /\ cached' = cached
        /\ AnswerAtOnce(e) \/ Stage(e) \/ DropMismatch(e)
    BY DEF HandleCommitted, SurfaceCommitted
  <1>4. LastIsCurrent(committed, current)
    BY DEF AnswerInv
  <1>5. /\ LastIsCurrent(committed', current)
        /\ \A t : Queued(committed, t) <=> Queued(committed', t) \/ t = e.surface
        /\ ~Queued(committed', e.surface) => e.buffer = current[e.surface]
    BY <1>1, <1>3, <1>4, TailOrder
  <1> HIDE DEF e
  <1>6. ASSUME NEW t \in callbacks', ~Queued(committed', t)
        PROVE  /\ current[t] # NoBuffer
               /\ staged'[WindowOf[t]].buffer = current[t] \/ cached[current[t]] = "new"
    <2>1. t \in callbacks /\ t \in Surfaces /\ WindowOf[t] \in Windows
      BY <1>1, <1>3, PoolFacts DEF AnswerAtOnce, Stage, DropMismatch
    <2>2. CASE t = e.surface
      <3>1. Stage(e) /\ e.buffer = current[t]
        BY <1>3, <1>5, <1>6, <2>2 DEF AnswerAtOnce, DropMismatch
      <3>2. staged'[WindowOf[t]] = e
        BY <1>1, <2>1, <2>2, <3>1 DEF Stage
      <3> QED
        BY <3>1, <3>2 DEF Stage
    <2>3. CASE t # e.surface
      <3>1. /\ current[t] # NoBuffer
            /\ staged[WindowOf[t]].buffer = current[t] \/ cached[current[t]] = "new"
        BY <1>5, <1>6, <2>1, <2>3 DEF AnswerInv
      <3>2. WindowOf[t] # WindowOf[e.surface]
        BY <1>2, <2>1, <2>3 DEF OwnWindows
      <3>3. staged'[WindowOf[t]] = staged[WindowOf[t]]
        BY <1>1, <1>3, <2>1, <3>2 DEF AnswerAtOnce, Stage, DropMismatch
      <3> QED
        BY <3>1, <3>3
    <2> QED
      BY <2>2, <2>3
  <1> QED
    BY <1>3, <1>5, <1>6 DEF AnswerInv

LEMMA AnswerNext ==
  ASSUME OwnWindows, GtkPresentTypeOK, BufferInv, TickInv, AnswerInv,
         [GtkPresentNext]_gtkPresentVars
  PROVE  AnswerInv'
  <1>1. ASSUME ReportPresented PROVE AnswerInv'
    <2>1. /\ UNCHANGED <<current, committed, staged, cached>>
          /\ callbacks' \subseteq callbacks
      BY <1>1 DEF ReportPresented, NotifyPresented
    <2> QED
      BY <2>1 DEF AnswerInv
  <1>2. ASSUME HandleCommitted PROVE AnswerInv'
    BY <1>2, AnswerHandle
  <1>3. ASSUME PopAndTakeScene PROVE AnswerInv'
    <2>1. /\ UNCHANGED <<current, committed, callbacks>> /\ committed = <<>>
          /\ cached' = [b \in Buffers |-> IF b \in Popped THEN "new" ELSE cached[b]]
      BY <1>3 DEF PopAndTakeScene, PopIntoCache, TakeScene
    <2>2. \A t : ~Queued(committed, t)
      BY <2>1 DEF Queued
    <2>3. ASSUME NEW t \in callbacks
          PROVE  current[t] # NoBuffer /\ cached'[current[t]] = "new"
      <3>1. t \in Surfaces /\ WindowOf[t] \in Windows
        BY PoolFacts DEF GtkPresentTypeOK, PresentTypeOK
      <3>2. /\ current[t] # NoBuffer
            /\ staged[WindowOf[t]].buffer = current[t] \/ cached[current[t]] = "new"
        BY <2>2 DEF AnswerInv
      <3>3. current[t] \in Buffers
        BY <3>1, <3>2 DEF GtkPresentTypeOK, PresentTypeOK
      <3>4. staged[WindowOf[t]].buffer = current[t] => current[t] \in Popped
        BY <3>1, <3>2 DEF Popped
      <3> QED
        BY <2>1, <3>2, <3>3, <3>4
    <2> QED
      BY <2>1, <2>3 DEF AnswerInv
  <1>4. ASSUME NEW w \in Windows, Draw(w) PROVE AnswerInv'
    BY <1>4 DEF Draw, presentVars, AnswerInv
  <1>5. ASSUME NEW s \in Surfaces, NEW f \in BOOLEAN, NEW d \in BOOLEAN, Request(s, f, d)
        PROVE  AnswerInv'
    BY <1>5, AnswerRequest
  <1>6. ASSUME UNCHANGED gtkPresentVars PROVE AnswerInv'
    BY <1>6 DEF gtkPresentVars, presentVars, AnswerInv
  <1> QED
    BY <1>1, <1>2, <1>3, <1>4, <1>5, <1>6 DEF GtkPresentNext, HostNext

\* What a tick answers, it has found drawn.
LEMMA AnswersShown ==
  ASSUME GtkPresentTypeOK, TickInv, AnswerInv, [GtkPresentNext]_gtkPresentVars,
         Reporting, NEW s \in callbacks \ callbacks'
  PROVE  /\ [surface |-> s, buffer |-> current[s]] \in shown
         /\ cached[current[s]] = "new"
  <1>1. PICK others \in BOOLEAN : NotifyPresented(shown, others)
    BY ReportingStep DEF ReportPresented
  <1>2. PICK p \in shown : p.surface = s
    BY <1>1 DEF NotifyPresented
  <1>3. phase = "idle" /\ committed = <<>> /\ p.buffer = current[s]
        /\ staged = [w \in Windows |-> Nothing]
    BY <1>2 DEF Reporting, TickInv
  <1>4. p = [surface |-> s, buffer |-> current[s]]
    BY <1>2, <1>3 DEF GtkPresentTypeOK, Commits
  <1>5. s \in Surfaces /\ WindowOf[s] \in Windows
    BY PoolFacts DEF GtkPresentTypeOK, PresentTypeOK
  <1>6. staged[WindowOf[s]].buffer = NoBuffer
    BY <1>3, <1>5, NothingFacts
  <1>7. ~Queued(committed, s)
    BY <1>3 DEF Queued
  <1>8. current[s] # NoBuffer
        /\ (staged[WindowOf[s]].buffer = current[s] \/ cached[current[s]] = "new")
    BY <1>7 DEF AnswerInv
  <1> QED
    BY <1>2, <1>4, <1>6, <1>8

\* In a window that no other surface shares, a tick answers a frame callback
\* only for content that is the surface's current buffer, was drawn on screen
\* and is what the client drew last.  The assumption is needed: see the run
\* GtkSharedWindow.
THEOREM AnswersAreShown ==
  ASSUME OwnWindows
  PROVE  GtkPresentSpec => AnsweredWhenShown
  <1>1. GtkPresentSpec => []AnswerInv
    BY AnswerInit, AnswerNext, TickInvariant, PTL DEF GtkPresentSpec
  <1>2. GtkPresentTypeOK /\ TickInv /\ AnswerInv /\ [GtkPresentNext]_gtkPresentVars
        => [Reporting => \A s \in callbacks \ callbacks' :
              /\ [surface |-> s, buffer |-> current[s]] \in shown
              /\ cached[current[s]] = "new"]_gtkPresentVars
    BY AnswersShown
  <1> QED
    BY <1>1, <1>2, TickInvariant, PTL DEF GtkPresentSpec, AnsweredWhenShown

-----------------------------------------------------------------------------
\* Clients that damage something in every commit

\* Their steps are steps of all clients, so what these keep they keep too.
LEMMA DamagingStep == [DamagingNext]_gtkPresentVars => [GtkPresentNext]_gtkPresentVars
  BY DEF DamagingNext, GtkPresentNext

LEMMA DamagingInvariant ==
  ASSUME OwnWindows
  PROVE  DamagingSpec => [](GtkPresentTypeOK /\ BufferInv /\ TickInv /\ AnswerInv)
  <1> DEFINE Inv == GtkPresentTypeOK /\ BufferInv /\ TickInv /\ AnswerInv
  <1>1. GtkPresentInit => Inv
    BY InitType, BufferInit, TickInit, AnswerInit
  <1>2. Inv /\ [DamagingNext]_gtkPresentVars => Inv'
    BY DamagingStep, NextType, BufferNext, TickNext, AnswerNext
  <1> QED
    BY <1>1, <1>2, PTL DEF DamagingSpec

\* During a tick a surface that waits may have committed, and damaged, since the
\* last draw was queued.
DamageInv ==
  phase # "idle" => \A s \in callbacks : WindowOf[s] \in redraw \/ s \in damaged

\* At the end of a tick what waits has a buffer that is the client's last.
LEMMA WaiterCached ==
  ASSUME GtkPresentTypeOK, TickInv, AnswerInv, phase = "idle", NEW s \in callbacks
  PROVE  current[s] # NoBuffer /\ cached[current[s]] = "new"
  <1>1. s \in Surfaces /\ WindowOf[s] \in Windows
    BY PoolFacts DEF GtkPresentTypeOK, PresentTypeOK
  <1>2. ~Queued(committed, s) /\ staged[WindowOf[s]].buffer = NoBuffer
    BY <1>1, NothingFacts DEF TickInv, Queued
  <1> QED
    BY <1>2 DEF AnswerInv

LEMMA DamageInit == GtkPresentInit => DamageInv /\ WaitersAreDrawn
  BY DEF GtkPresentInit, PresentInit, DamageInv, WaitersAreDrawn

LEMMA DamageNext ==
  ASSUME GtkPresentTypeOK, TickInv, AnswerInv, DamageInv, WaitersAreDrawn,
         [DamagingNext]_gtkPresentVars
  PROVE  DamageInv' /\ WaitersAreDrawn'
  <1> USE DEF DamageInv, WaitersAreDrawn
  <1>1. ASSUME ReportPresented PROVE DamageInv' /\ WaitersAreDrawn'
    \* what was drawn is answered, the others have a draw queued
    <2>1. callbacks' = callbacks \ {p.surface : p \in shown}
      BY <1>1 DEF ReportPresented, NotifyPresented
    <2>2. ASSUME NEW s \in callbacks' PROVE WindowOf[s] \in redraw
      <3> DEFINE p == [surface |-> s, buffer |-> current[s]]
      <3>1. p.surface = s
        OBVIOUS
      <3> HIDE DEF p
      <3>2. p \notin shown
        BY <2>1, <3>1
      <3> QED
        BY <1>1, <2>1, <3>2 DEF ReportPresented, p
    <2> QED
      BY <1>1, <2>2 DEF ReportPresented
  <1>2. ASSUME HandleCommitted PROVE DamageInv' /\ WaitersAreDrawn'
    <2>1. callbacks' \subseteq callbacks /\ damaged' = damaged
      BY <1>2 DEF HandleCommitted, SurfaceCommitted, AnswerAtOnce, Stage, DropMismatch
    <2> QED
      BY <1>2, <2>1 DEF HandleCommitted
  <1>3. ASSUME PopAndTakeScene PROVE DamageInv' /\ WaitersAreDrawn'
    <2>1. ASSUME NEW s \in callbacks PROVE WindowOf[s] \in redraw'
      <3>1. s \in Surfaces /\ WindowOf[s] \in Windows
        BY PoolFacts DEF GtkPresentTypeOK, PresentTypeOK
      <3>2. ~Queued(committed, s)
        BY <1>3 DEF PopAndTakeScene, Queued
      <3>3. current[s] # NoBuffer
        BY <3>2 DEF AnswerInv
      <3>4. CASE s \in damaged
        <4>1. NeedsRedraw
          BY <3>3, <3>4 DEF NeedsRedraw, SceneDamage
        <4> QED
          BY <1>3, <3>1, <4>1 DEF PopAndTakeScene, TakeScene
      <3>5. CASE WindowOf[s] \in redraw
        BY <1>3, <3>1, <3>5 DEF PopAndTakeScene, TakeScene
      <3> QED
        BY <1>3, <3>4, <3>5 DEF PopAndTakeScene
    <2> QED
      BY <1>3, <2>1 DEF PopAndTakeScene
  <1>4. ASSUME NEW w \in Windows, Draw(w) PROVE DamageInv' /\ WaitersAreDrawn'
    <2>1. phase = "idle" /\ scene = current /\ UNCHANGED <<phase, callbacks, current>>
      BY <1>4 DEF Draw, presentVars, TickInv
    <2>2. ASSUME NEW s \in callbacks
          PROVE  WindowOf[s] \in redraw' \/ [surface |-> s, buffer |-> current[s]] \in shown'
      <3>1. CASE WindowOf[s] = w
        <4>1. s \in Surfaces /\ scene[s] # NoBuffer /\ cached[scene[s]] = "new"
          BY <2>1, WaiterCached DEF GtkPresentTypeOK, PresentTypeOK
        <4>2. [surface |-> s, buffer |-> scene[s]] \in Drawn(w)
          BY <3>1, <4>1 DEF Drawn
        <4> QED
          BY <1>4, <2>1, <4>2 DEF Draw
      <3>2. CASE WindowOf[s] # w
        BY <1>4, <2>1, <3>2 DEF Draw
      <3> QED
        BY <3>1, <3>2
    <2> QED
      BY <2>1, <2>2
  <1>5. ASSUME NEW s \in Surfaces, NEW f \in BOOLEAN, Request(s, f, TRUE)
        PROVE  DamageInv' /\ WaitersAreDrawn'
    <2>1. PICK b : Commit(s, b, f, TRUE)
      BY <1>5, RequestCases DEF GtkPresentTypeOK
    <2>2. callbacks' \subseteq callbacks \cup {s} /\ damaged' = damaged \cup {s}
      BY <2>1 DEF Commit
    <2> QED
      BY <1>5, <2>2 DEF Request
  <1>6. ASSUME UNCHANGED gtkPresentVars PROVE DamageInv' /\ WaitersAreDrawn'
    BY <1>6 DEF gtkPresentVars, presentVars
  <1> QED
    BY <1>1, <1>2, <1>3, <1>4, <1>5, <1>6 DEF DamagingNext, HostNext

\* A surface that has its window to itself, and whose client damages something in
\* every commit, never waits for a callback without either having been drawn or
\* a draw of its window queued.  That the draw and the next tick come is left to
\* fairness; without damage the run GtkFrameStall shows that no draw need be queued.
THEOREM WaitersDrawn ==
  ASSUME OwnWindows
  PROVE  DamagingSpec => []WaitersAreDrawn
  <1>1. DamagingSpec => [](GtkPresentTypeOK /\ BufferInv /\ TickInv /\ AnswerInv)
    BY DamagingInvariant
  <1>2. GtkPresentTypeOK /\ TickInv /\ AnswerInv /\ DamageInv /\ WaitersAreDrawn
          /\ [DamagingNext]_gtkPresentVars
        => DamageInv' /\ WaitersAreDrawn'
    BY DamageNext
  <1> QED
    BY <1>1, <1>2, DamageInit, PTL DEF DamagingSpec

=============================================================================
