-------------------------- MODULE TextRelayProofs --------------------------
(***************************************************************************)
(* Theorems of TextRelay, for any clients, text inputs and input methods   *)
(* and any bounds.                                                         *)
(***************************************************************************)
EXTENDS TextRelay, TLAPS

Batches == {"activate", "deactivate", "update"}

\* What Smithay has sent is what the stand-in has read and what is on the wire.
WireExact ==
  /\ mirror.serial + Len(wire) = dones
  /\ ActiveAfter(wire, mirror.active) <=> active # None

\* The stand-in's commits carry serials that it has seen.
CommitsSeen == \A n \in 1..Len(commits) : commits[n] <= mirror.serial

\* The owner's state and count are the stand-in's.
LinkInStep ==
  link.owner # None =>
    link.base + link.forwarded = mirror.serial /\ link.told = mirror.active

RelayInv ==
  /\ RelayTypeOK
  /\ WireExact /\ CommitsSeen /\ LinkInStep
  /\ EnabledInputLives /\ CommitsAreCurrent

-----------------------------------------------------------------------------
\* Reading nothing changes nothing.
LEMMA NothingRead ==
  ASSUME NEW b \in BOOLEAN
  PROVE  ActiveAfter(<<>>, b) <=> b
  BY DEF ActiveAfter

\* The last batch decides, unless it is news only.
LEMMA LastBatch ==
  ASSUME NEW w \in Seq(Batches), NEW e \in Batches, NEW b \in BOOLEAN
  PROVE  ActiveAfter(Append(w, e), b) <=>
           IF e = "update" THEN ActiveAfter(w, b) ELSE e = "activate"
<1> DEFINE v == Append(w, e)
           Last(s, i) == \A j \in i + 1 .. Len(s) : s[j] = "update"
<1>1. /\ v \in Seq(Batches) /\ Len(v) = Len(w) + 1 /\ Len(w) \in Nat
      /\ v[Len(v)] = e
      /\ \A i \in 1..Len(w) : v[i] = w[i]
  OBVIOUS
<1>2. \A i \in 0..Len(w) : Last(v, i) <=> Last(w, i) /\ e = "update"
  BY <1>1
<1>3. Last(v, Len(v))
  BY <1>1
<1>4. ActiveAfter(v, b) <=>
        \/ b /\ Last(v, 0)
        \/ \E i \in 1..Len(w) : w[i] = "activate" /\ Last(v, i)
        \/ e = "activate" /\ Last(v, Len(v))
  <2>1. 1..Len(v) = (1..Len(w)) \cup {Len(v)}
    BY <1>1
  <2> QED BY <1>1, <2>1 DEF ActiveAfter
<1>5. ActiveAfter(w, b) <=>
        \/ b /\ Last(w, 0)
        \/ \E i \in 1..Len(w) : w[i] = "activate" /\ Last(w, i)
  BY DEF ActiveAfter
<1> QED BY <1>1, <1>2, <1>3, <1>4, <1>5 DEF Batches

\* Reading activates or it does not.
LEMMA ActiveIsBoolean ==
  ASSUME NEW w, NEW b \in BOOLEAN
  PROVE  ActiveAfter(w, b) \in BOOLEAN
  BY DEF ActiveAfter

-----------------------------------------------------------------------------
\* A batch leaves everything but the count of dones and the wire alone.
LEMMA TellExact ==
  ASSUME RelayInv, NEW e \in Batches, Tell(e), mirror' = mirror
  PROVE  /\ dones' \in Nat /\ wire' \in Seq(Batches)
         /\ mirror'.serial + Len(wire') = dones'
         /\ ActiveAfter(wire', mirror'.active) <=>
              IF e = "update" THEN active # None ELSE e = "activate"
<1>1. /\ dones \in Nat /\ wire \in Seq(Batches)
      /\ mirror.serial \in Nat /\ mirror.active \in BOOLEAN
  BY DEF RelayInv, RelayTypeOK, Batches
<1>2. /\ dones' = dones + 1 /\ wire' = Append(wire, e)
      /\ Len(wire') = Len(wire) + 1 /\ Len(wire) \in Nat /\ wire' \in Seq(Batches)
  BY <1>1 DEF Tell
<1>3. mirror.serial + Len(wire) = dones
  BY DEF RelayInv, WireExact
<1> QED BY <1>1, <1>2, <1>3, LastBatch DEF RelayInv, WireExact

\* So do two that say that nothing is enabled.
LEMMA TellTwiceExact ==
  ASSUME RelayInv, TellTwice("deactivate"), mirror' = mirror
  PROVE  /\ dones' \in Nat /\ wire' \in Seq(Batches)
         /\ mirror'.serial + Len(wire') = dones'
         /\ ~ActiveAfter(wire', mirror'.active)
<1> DEFINE w == Append(wire, "deactivate")
<1>1. /\ dones \in Nat /\ wire \in Seq(Batches) /\ "deactivate" \in Batches
      /\ mirror.serial \in Nat /\ mirror.active \in BOOLEAN
  BY DEF RelayInv, RelayTypeOK, Batches
<1>2. w \in Seq(Batches) /\ Len(w) = Len(wire) + 1 /\ Len(wire) \in Nat
  BY <1>1
<1>3. dones' = dones + 2 /\ wire' = Append(w, "deactivate")
  BY <1>1 DEF TellTwice
<1>4. mirror.serial + Len(wire) = dones
  BY DEF RelayInv, WireExact
<1> HIDE DEF w
<1>5. wire' \in Seq(Batches) /\ Len(wire') = Len(w) + 1
  BY <1>1, <1>2, <1>3
<1>6. ~ActiveAfter(wire', mirror.active)
  BY <1>1, <1>2, <1>3, LastBatch
<1> QED BY <1>1, <1>2, <1>3, <1>4, <1>5, <1>6

\* Smithay is never behind the stand-in.
LEMMA Ahead ==
  ASSUME RelayInv
  PROVE  /\ dones \in Nat /\ mirror.serial \in Nat /\ Len(wire) \in Nat
         /\ dones - mirror.serial \in Nat
<1>1. /\ dones \in Nat /\ mirror.serial \in Nat /\ Len(wire) \in Nat
  BY DEF RelayInv, RelayTypeOK
<1> QED BY <1>1 DEF RelayInv, WireExact

\* What fn finish reads brings the stand-in to where Smithay is, and its owner along.
LEMMA FinishExact ==
  ASSUME RelayInv, Finish, UNCHANGED <<dones, active>>
  PROVE  /\ mirror' \in [active : BOOLEAN, serial : Nat]
         /\ link' \in Links /\ wire' = <<>>
         /\ mirror.serial <= mirror'.serial
         /\ WireExact' /\ LinkInStep'
<1>1. /\ dones \in Nat /\ mirror.serial \in Nat /\ Len(wire) \in Nat
      /\ mirror.active \in BOOLEAN /\ link \in Links
      /\ mirror \in [active : BOOLEAN, serial : Nat]
  BY DEF RelayInv, RelayTypeOK
<1>2. /\ mirror'.active = ActiveAfter(wire, mirror.active)
      /\ mirror'.serial = mirror.serial + Len(wire)
      /\ mirror' = [active |-> ActiveAfter(wire, mirror.active),
                    serial |-> mirror.serial + Len(wire)]
      /\ wire' = <<>> /\ link' = Forwarded
  BY DEF Finish, Mirrored
<1>3. /\ ActiveAfter(wire, mirror.active) \in BOOLEAN
      /\ mirror' \in [active : BOOLEAN, serial : Nat]
  BY <1>1, <1>2, ActiveIsBoolean
<1>4. WireExact'
  <2>1. mirror'.serial + Len(wire') = dones'
    BY <1>1, <1>2 DEF RelayInv, WireExact
  <2>2. ActiveAfter(wire', mirror'.active) <=> mirror'.active
    BY <1>2, <1>3, NothingRead
  <2> QED BY <2>1, <2>2, <1>2 DEF RelayInv, WireExact
<1>5. link' \in Links /\ LinkInStep'
  <2>1. CASE link' = NoLink
    BY <2>1 DEF NoLink, Links, LinkInStep
  <2>2. CASE link' = link /\ link.owner = None
    BY <2>2, <1>1 DEF LinkInStep
  <2>3. CASE /\ link.owner # None
             /\ link' = [link EXCEPT !.forwarded = @ + Len(wire),
                                     !.told = ActiveAfter(wire, @)]
    <3>1. /\ link'.base = link.base /\ link'.forwarded = link.forwarded + Len(wire)
          /\ link'.told = ActiveAfter(wire, link.told)
          /\ link.base \in Nat /\ link.forwarded \in Nat
      BY <2>3, <1>1 DEF Links
    <3>2. link.told = mirror.active /\ link.base + link.forwarded = mirror.serial
      BY <2>3 DEF RelayInv, LinkInStep
    <3>3. link' \in Links
      <4>1. ActiveAfter(wire, link.told) \in BOOLEAN
        BY <1>3, <3>2
      <4>2. link.forwarded + Len(wire) \in Nat
        BY <1>1, <3>1
      <4> QED BY <2>3, <1>1, <4>1, <4>2 DEF Links
    <3> QED BY <3>1, <3>2, <3>3, <1>1, <1>2 DEF LinkInStep
  <2> QED BY <1>2, <2>1, <2>2, <2>3 DEF Forwarded
<1> QED BY <1>1, <1>2, <1>3, <1>4, <1>5

-----------------------------------------------------------------------------
LEMMA RelayInvInit == RelayInit => RelayInv
<1> SUFFICES ASSUME RelayInit PROVE RelayInv
  OBVIOUS
<1>1. RelayTypeOK
  <2>1. NoLink \in Links /\ NoCommit \in Commits
    BY DEF NoLink, Links, NoCommit, Commits
  <2>2. wire \in Seq(Batches) /\ commits \in Seq(Nat)
    BY DEF RelayInit
  <2> QED BY <2>1, <2>2 DEF RelayInit, RelayTypeOK, Batches
<1>2. WireExact
  <2>1. mirror.serial + Len(wire) = dones
    BY DEF RelayInit
  <2>2. wire = <<>> /\ mirror.active = FALSE /\ active = None
    BY DEF RelayInit
  <2>3. ActiveAfter(<<>>, FALSE) <=> FALSE
    BY NothingRead
  <2> QED BY <2>1, <2>2, <2>3 DEF WireExact
<1> QED BY <1>1, <1>2, RelayAssumption
  DEF RelayInit, RelayInv, CommitsSeen, LinkInStep, NoLink, EnabledInputLives,
      CommitsAreCurrent, NoCommit

\* Smithay's own steps
LEMMA FocusKeeps ==
  ASSUME RelayInv, NEW c \in Clients \cup {None}, FocusTo(c)
  PROVE  RelayInv'
<1> USE DEF RelayInv
<1>1. CASE active = None
  BY <1>1 DEF FocusTo, RelayTypeOK, WireExact, CommitsSeen, LinkInStep,
     EnabledInputLives, CommitsAreCurrent
<1>2. CASE active # None
  <2>1. Tell("deactivate") /\ mirror' = mirror /\ active' = None
    BY <1>2 DEF FocusTo
  <2>2. dones' \in Nat /\ wire' \in Seq(Batches) /\ WireExact'
    BY <2>1, TellExact DEF Batches, WireExact
  <2> QED BY <2>1, <2>2 DEF FocusTo, RelayTypeOK, Batches, CommitsSeen, LinkInStep,
        EnabledInputLives, CommitsAreCurrent
<1> QED BY <1>1, <1>2

LEMMA EnableKeeps ==
  ASSUME RelayInv, NEW i \in Inputs, EnableInput(i)
  PROVE  RelayInv'
<1> USE DEF RelayInv
<1>1. Tell("activate") /\ mirror' = mirror /\ active' = i /\ i # None
  BY RelayAssumption DEF EnableInput
<1>2. dones' \in Nat /\ wire' \in Seq(Batches) /\ WireExact'
  BY <1>1, TellExact DEF Batches, WireExact
<1> QED BY <1>1, <1>2 DEF EnableInput, RelayTypeOK, Batches, CommitsSeen, LinkInStep,
      EnabledInputLives, CommitsAreCurrent

LEMMA UpdateKeeps ==
  ASSUME RelayInv, NEW i \in Inputs, UpdateInput(i)
  PROVE  RelayInv'
<1> USE DEF RelayInv
<1>1. Tell("update") /\ mirror' = mirror /\ active' = active
  BY DEF UpdateInput
<1>2. dones' \in Nat /\ wire' \in Seq(Batches) /\ WireExact'
  BY <1>1, TellExact DEF Batches, WireExact
<1> QED BY <1>1, <1>2 DEF UpdateInput, RelayTypeOK, Batches, CommitsSeen, LinkInStep,
      EnabledInputLives, CommitsAreCurrent

LEMMA DisableKeeps ==
  ASSUME RelayInv, NEW i \in Inputs, DisableInput(i)
  PROVE  RelayInv'
<1> USE DEF RelayInv
<1>1. Tell("deactivate") /\ mirror' = mirror /\ active' = None
  BY DEF DisableInput
<1>2. dones' \in Nat /\ wire' \in Seq(Batches) /\ WireExact'
  BY <1>1, TellExact DEF Batches, WireExact
<1> QED BY <1>1, <1>2 DEF DisableInput, RelayTypeOK, Batches, CommitsSeen, LinkInStep,
      EnabledInputLives, CommitsAreCurrent

LEMMA DestroyInputKeeps ==
  ASSUME RelayInv, NEW i \in Inputs, DestroyInput(i)
  PROVE  RelayInv'
<1>1. /\ UNCHANGED <<focus, queued, commits, mirror, link, methods, last, dispatching>>
      /\ inputs' = inputs \ {i}
      /\ active' = IF active = i THEN None ELSE active
  BY DEF DestroyInput
<1>2. dones' \in Nat /\ wire' \in Seq(Batches) /\ WireExact'
  <2>1. CASE active # i /\ UNCHANGED <<dones, wire>>
    BY <1>1, <2>1 DEF RelayInv, RelayTypeOK, WireExact, Batches
  <2>2. CASE active' = None /\ Tell("deactivate")
    BY <1>1, <2>2, TellExact DEF Batches, WireExact
  <2>3. CASE active' = None /\ TellTwice("deactivate")
    BY <1>1, <2>3, TellTwiceExact DEF WireExact
  <2> QED BY <1>1, <2>1, <2>2, <2>3 DEF DestroyInput
<1> QED BY <1>1, <1>2 DEF RelayInv, RelayTypeOK, Batches, CommitsSeen, LinkInStep,
        EnabledInputLives, CommitsAreCurrent

\* The two halves of a dispatch
LEMMA BeginKeeps == ASSUME RelayInv, BeginDispatch PROVE RelayInv'
<1> DEFINE sent == [n \in 1..queued |-> mirror.serial]
<1>1. /\ commits \in Seq(Nat) /\ mirror.serial \in Nat /\ queued \in Nat
      /\ sent \in Seq(Nat) /\ Len(sent) = queued
  BY DEF RelayInv, RelayTypeOK
<1>2. /\ mirror' \in [active : BOOLEAN, serial : Nat]
      /\ link' \in Links /\ wire' = <<>>
      /\ mirror.serial <= mirror'.serial /\ mirror'.serial \in Nat
      /\ WireExact' /\ LinkInStep'
  BY FinishExact DEF BeginDispatch, smithay
<1>3. commits' = commits \o sent /\ commits' \in Seq(Nat)
  BY <1>1 DEF BeginDispatch
<1>4. CommitsSeen'
  <2> SUFFICES ASSUME NEW n \in 1..Len(commits') PROVE commits'[n] <= mirror'.serial
    BY DEF CommitsSeen
  <2>1. CASE n <= Len(commits)
    <3>1. commits'[n] = commits[n] /\ commits[n] \in Nat /\ commits[n] <= mirror.serial
      BY <2>1, <1>1, <1>3 DEF RelayInv, CommitsSeen
    <3> QED BY <3>1, <1>1, <1>2
  <2>2. CASE n > Len(commits)
    <3>1. Len(commits') = Len(commits) + queued /\ Len(commits) \in Nat
      BY <1>1, <1>3
    <3>2. commits'[n] = sent[n - Len(commits)] /\ n - Len(commits) \in 1..queued
      BY <2>2, <3>1, <1>1, <1>3
    <3> QED BY <3>2, <1>1, <1>2
  <2>3. Len(commits) \in Nat
    BY <1>1
  <2> QED BY <2>1, <2>2, <2>3
<1> QED BY <1>1, <1>2, <1>3, <1>4
  DEF BeginDispatch, smithay, RelayInv, RelayTypeOK, EnabledInputLives, CommitsAreCurrent

LEMMA EndKeeps == ASSUME RelayInv, EndDispatch PROVE RelayInv'
<1>1. /\ mirror' \in [active : BOOLEAN, serial : Nat]
      /\ link' \in Links /\ wire' = <<>>
      /\ WireExact' /\ LinkInStep'
  BY FinishExact DEF EndDispatch, smithay
<1>2. CommitsSeen'
  BY DEF EndDispatch, CommitsSeen
<1>3. RelayTypeOK'
  <2>1. wire' \in Seq({"activate", "deactivate", "update"})
    BY <1>1
  <2>2. UNCHANGED <<inputs, focus, active, dones, queued, commits, methods, last>>
        /\ dispatching' = FALSE
    BY DEF EndDispatch, smithay
  <2> QED BY <1>1, <2>1, <2>2 DEF RelayInv, RelayTypeOK
<1> QED BY <1>1, <1>2, <1>3
  DEF EndDispatch, smithay, RelayInv, RelayTypeOK, EnabledInputLives, CommitsAreCurrent

LEMMA StandInKeeps == ASSUME RelayInv, StandInCommits PROVE RelayInv'
<1> DEFINE serial == commits[Len(commits)]
<1>1. commits \in Seq(Nat) /\ commits # <<>>
  BY DEF RelayInv, RelayTypeOK, StandInCommits
<1>2. Len(commits) \in 1..Len(commits) /\ serial \in Nat
  BY <1>1
<1>3. serial <= mirror.serial
  BY <1>2 DEF RelayInv, CommitsSeen
<1>4. dones - serial \in Nat /\ dones - mirror.serial \in Nat
  BY <1>2, <1>3, Ahead
<1>5. last' = [by |-> Host, ahead |-> dones - mirror.serial, behind |-> dones - serial,
               taken |-> serial = dones]
  BY DEF StandInCommits
<1>6. last' \in Commits /\ last'.by \notin Methods
  BY <1>4, <1>5, RelayAssumption DEF Commits
<1> QED BY <1>6
  DEF StandInCommits, smithay, RelayInv, RelayTypeOK, WireExact, CommitsSeen, LinkInStep,
      EnabledInputLives, CommitsAreCurrent

\* A commit of the owner
LEMMA MethodCommitsKeeps ==
  ASSUME RelayInv, NEW e \in Methods, NEW seen \in 0..(MaxDones + 1),
         MethodCommits(e, seen)
  PROVE  RelayInv'
<1> DEFINE sent == link.synthesized + link.forwarded
           ahead == dones - mirror.serial
<1>1. /\ link \in Links /\ seen \in Nat /\ seen <= sent
      /\ link.synthesized \in Nat /\ link.forwarded \in Nat /\ link.base \in Nat
      /\ link.base + link.forwarded = mirror.serial
  BY RelayAssumption DEF RelayInv, RelayTypeOK, Links, MethodCommits, LinkInStep
<1>2. ahead \in Nat /\ dones \in Nat /\ mirror.serial \in Nat
  BY Ahead
<1>3. last' = [by |-> e, ahead |-> ahead, behind |-> sent - seen + dones - mirror.serial,
               taken |-> HostSerial(seen) = dones]
  BY DEF MethodCommits
<1>4. sent - seen + dones - mirror.serial \in Nat
  BY <1>1, <1>2
<1>5. last' \in Commits
  BY <1>2, <1>3, <1>4 DEF Commits
<1>6. last'.ahead = 0 => (last'.taken <=> last'.behind = 0)
  <2>1. HostSerial(seen) = IF seen = sent THEN mirror.serial ELSE mirror.serial + 1
    BY <1>1 DEF HostSerial
  <2>2. last'.taken <=> HostSerial(seen) = dones
    BY <1>3
  <2>3. last'.behind = sent - seen + ahead /\ last'.ahead = ahead
    BY <1>1, <1>2, <1>3
  <2> SUFFICES ASSUME ahead = 0 PROVE last'.taken <=> last'.behind = 0
    BY <2>3
  <2>4. mirror.serial = dones
    BY <1>2
  <2>5. HostSerial(seen) = dones <=> seen = sent
    BY <1>1, <1>2, <2>1, <2>4
  <2>6. last'.behind = 0 <=> seen = sent
    BY <1>1, <1>2, <2>3
  <2> HIDE DEF sent, ahead
  <2> QED BY <2>2, <2>5, <2>6, Zenon
<1> QED BY <1>5, <1>6
  DEF MethodCommits, smithay, RelayInv, RelayTypeOK, WireExact, CommitsSeen, LinkInStep,
      EnabledInputLives, CommitsAreCurrent

\* Input methods come and go.
LEMMA MethodsKeep ==
  ASSUME RelayInv, NEW e \in Methods,
         BindMethod(e) \/ DestroyMethod(e) \/ MethodDies(e) \/ MethodDestroyed(e)
  PROVE  RelayInv'
<1>1. /\ mirror.serial \in Nat /\ mirror.active \in BOOLEAN /\ link \in Links
      /\ methods \in [Methods -> {"absent", "bound", "unavailable", "dead"}]
  BY DEF RelayInv, RelayTypeOK
<1>2. NoLink \in Links /\ Attached(e) \in Links
  BY <1>1 DEF NoLink, Links, Attached
<1>3. link' \in {link, NoLink, Attached(e)}
  BY DEF BindMethod, DestroyMethod, MethodDies, MethodDestroyed, Detached
<1>4. UNCHANGED <<smithay, wire, queued, commits, mirror, last, dispatching>>
  BY DEF BindMethod, DestroyMethod, MethodDies, MethodDestroyed
<1>5. LinkInStep'
  <2>1. CASE link' = link
    BY <2>1, <1>4 DEF RelayInv, LinkInStep
  <2>2. CASE link' = NoLink
    BY <2>2 DEF LinkInStep, NoLink
  <2>3. CASE link' = Attached(e)
    BY <2>3, <1>1, <1>4 DEF LinkInStep, Attached
  <2> QED BY <1>3, <2>1, <2>2, <2>3
<1>6. methods' \in [Methods -> {"absent", "bound", "unavailable", "dead"}]
  BY <1>1 DEF BindMethod, DestroyMethod, MethodDies, MethodDestroyed
<1> QED BY <1>1, <1>2, <1>3, <1>4, <1>5, <1>6
  DEF smithay, RelayInv, RelayTypeOK, WireExact, CommitsSeen, EnabledInputLives,
      CommitsAreCurrent

LEMMA RelayInvStep == RelayInv /\ [RelayNext]_relayVars => RelayInv'
<1> SUFFICES ASSUME RelayInv, [RelayNext]_relayVars PROVE RelayInv'
  OBVIOUS
<1>1. ASSUME NEW c \in Clients \cup {None}, FocusTo(c) PROVE RelayInv'
  BY <1>1, FocusKeeps
<1>2. CASE QueueString
  BY <1>2 DEF QueueString, smithay, RelayInv, RelayTypeOK, WireExact, CommitsSeen,
     LinkInStep, EnabledInputLives, CommitsAreCurrent
<1>3. CASE BeginDispatch
  BY <1>3, BeginKeeps
<1>4. CASE EndDispatch
  BY <1>4, EndKeeps
<1>5. CASE StandInCommits
  BY <1>5, StandInKeeps
<1>6. ASSUME NEW i \in Inputs, CreateInput(i) PROVE RelayInv'
  BY <1>6 DEF CreateInput, RelayInv, RelayTypeOK, WireExact, CommitsSeen, LinkInStep,
     EnabledInputLives, CommitsAreCurrent
<1>7. ASSUME NEW i \in Inputs,
             DestroyInput(i) \/ EnableInput(i) \/ UpdateInput(i) \/ DisableInput(i)
      PROVE  RelayInv'
  BY <1>7, DestroyInputKeeps, EnableKeeps, UpdateKeeps, DisableKeeps
<1>8. ASSUME NEW e \in Methods,
             BindMethod(e) \/ DestroyMethod(e) \/ MethodDies(e) \/ MethodDestroyed(e)
      PROVE  RelayInv'
  BY <1>8, MethodsKeep
<1>9. ASSUME NEW e \in Methods, NEW seen \in 0..(MaxDones + 1), MethodCommits(e, seen)
      PROVE  RelayInv'
  BY <1>9, MethodCommitsKeeps
<1>10. CASE UNCHANGED relayVars
  BY <1>10 DEF relayVars, smithay, RelayInv, RelayTypeOK, WireExact, CommitsSeen,
     LinkInStep, EnabledInputLives, CommitsAreCurrent
<1> QED BY <1>1, <1>2, <1>3, <1>4, <1>5, <1>6, <1>7, <1>8, <1>9, <1>10 DEF RelayNext

-----------------------------------------------------------------------------
\* The inductive invariant holds.
THEOREM RelayInvariant == RelaySpec => []RelayInv
  BY RelayInvInit, RelayInvStep, PTL DEF RelaySpec

\* Every variable has its type.
THEOREM RelayTypesCorrect == RelaySpec => []RelayTypeOK
<1>1. RelayInv => RelayTypeOK
  BY DEF RelayInv
<1> QED BY <1>1, RelayInvariant, PTL

\* The owner of the seat is where the stand-in is, and that is where Smithay is once
\* everything has been read (fn forward_host_event, fn synthesize_state).
THEOREM OwnersInStep == RelaySpec => []OwnerInStep
<1>1. RelayInv => OwnerInStep
  <2> SUFFICES ASSUME RelayInv PROVE OwnerInStep
    OBVIOUS
  <2>1. ASSUME wire = <<>>
        PROVE  mirror.serial = dones /\ mirror.active = (active # None)
    <3>1. mirror.active \in BOOLEAN /\ mirror.serial \in Nat
      BY DEF RelayInv, RelayTypeOK
    <3>2. ActiveAfter(wire, mirror.active) <=> mirror.active
      BY <2>1, <3>1, NothingRead
    <3> QED BY <2>1, <3>1, <3>2 DEF RelayInv, WireExact
  <2> QED BY <2>1 DEF RelayInv, LinkInStep, OwnerInStep
<1> QED BY <1>1, RelayInvariant, PTL

\* A commit of the owner is taken exactly if it is current, unless Smithay has sent a
\* done event in this dispatch (fn translate_commit_serial).
THEOREM CurrentCommits == RelaySpec => []CommitsAreCurrent
<1>1. RelayInv => CommitsAreCurrent
  BY DEF RelayInv
<1> QED BY <1>1, RelayInvariant, PTL

\* No text input that is gone stays enabled (Dispatch<ZwpTextInputV3>).
THEOREM EnabledInputsLive == RelaySpec => []EnabledInputLives
<1>1. RelayInv => EnabledInputLives
  BY DEF RelayInv
<1> QED BY <1>1, RelayInvariant, PTL

-----------------------------------------------------------------------------
(* The relay amounts to an input method of Smithay's own.                  *)

\* The owner and the stand-in have seen the same.
SeenByAll ==
  IF link.owner = None THEN mirror.serial ELSE link.base + link.forwarded

ToldToAll == IF link.owner = None THEN mirror.active ELSE link.told

OwnerGone == link.owner # None /\ methods[link.owner] = "dead"

Verdict == [by |-> last.by, behind |-> last.behind, taken |-> last.taken]

LEMMA SeenIsMirrored ==
  ASSUME RelayInv
  PROVE  SeenByAll = mirror.serial /\ ToldToAll = mirror.active
  BY DEF RelayInv, LinkInStep, SeenByAll, ToldToAll

\* A step that leaves the mirror, the owner's link and the input methods alone is
\* not seen by an input method.
LEMMA Unseen ==
  ASSUME UNCHANGED <<mirror, link, methods>>
  PROVE  UNCHANGED <<SeenByAll, ToldToAll, OwnerGone, link.owner>>
  BY DEF SeenByAll, ToldToAll, OwnerGone

\* A done event of Smithay
LEMMA TellImplements ==
  ASSUME NEW e \in Batches, Tell(e), UNCHANGED <<mirror, link, methods, last>>
  PROVE  Direct!Next
<1>1. dones' = dones + 1 /\ UNCHANGED Verdict
  BY DEF Tell, Verdict
<1>2. Direct!Tell((active # None)')
  BY <1>1, Unseen DEF Direct!Tell, SeenByAll, ToldToAll, OwnerGone, Verdict
<1> QED BY <1>2 DEF Direct!Next

LEMMA TellTwiceImplements ==
  ASSUME TellTwice("deactivate"), active' = None, UNCHANGED <<mirror, link, methods, last>>
  PROVE  Direct!Next
<1>1. dones' = dones + 2 /\ UNCHANGED Verdict /\ ~(active # None)'
  BY DEF TellTwice, Verdict
<1>2. Direct!Tell((active # None)')
  BY <1>1, Unseen DEF Direct!Tell, SeenByAll, ToldToAll, OwnerGone, Verdict
<1> QED BY <1>2 DEF Direct!Next

\* Reading brings the owner to where Smithay is.
LEMMA FinishImplements ==
  ASSUME RelayInv, RelayInv', Finish, UNCHANGED <<dones, active, methods, last>>
  PROVE  Direct!Next
<1>1. WireExact' /\ wire' = <<>>
  BY FinishExact
<1>2. mirror'.active \in BOOLEAN /\ mirror'.serial \in Nat /\ Len(wire') = 0
  BY <1>1 DEF RelayInv, RelayTypeOK
<1>3. mirror'.serial = dones /\ mirror'.active = (active # None)
  <2>1. ActiveAfter(wire', mirror'.active) <=> mirror'.active
    BY <1>1, <1>2, NothingRead
  <2> QED BY <1>1, <1>2, <2>1 DEF WireExact
<1>4. SeenByAll' = dones /\ ToldToAll' = (active # None)
  <2>1. SeenByAll' = mirror'.serial /\ ToldToAll' = mirror'.active
    BY DEF RelayInv, LinkInStep, SeenByAll, ToldToAll
  <2> QED BY <2>1, <1>3
<1>5. \/ UNCHANGED <<link.owner, OwnerGone>>
      \/ OwnerGone /\ link'.owner = None /\ OwnerGone' = FALSE
  <2>1. CASE link' = NoLink /\ OwnerGone
    BY <2>1 DEF NoLink, OwnerGone
  <2>2. CASE link' = link
    BY <2>2 DEF OwnerGone
  <2>3. CASE link' = [link EXCEPT !.forwarded = @ + Len(wire),
                                  !.told = ActiveAfter(wire, @)]
    <3>1. link'.owner = link.owner
      BY <2>3 DEF RelayInv, RelayTypeOK, Links
    <3> QED BY <3>1 DEF OwnerGone
  <2> QED BY <2>1, <2>2, <2>3 DEF Finish, Forwarded, OwnerGone
<1>6. Direct!Read
  BY <1>4, <1>5 DEF Direct!Read, SeenByAll, ToldToAll, OwnerGone
<1> QED BY <1>6 DEF Direct!Next

\* Input methods come, go and lose their connection.
LEMMA MethodsImplement ==
  ASSUME RelayInv, RelayInv', NEW e \in Methods,
         BindMethod(e) \/ DestroyMethod(e) \/ MethodDies(e) \/ MethodDestroyed(e)
  PROVE  [Direct!Next]_(Direct!vars)
<1>1. UNCHANGED <<active, dones, mirror, last, SeenByAll, ToldToAll>>
  <2>1. UNCHANGED <<active, dones, mirror, last>>
    BY DEF BindMethod, DestroyMethod, MethodDies, MethodDestroyed, smithay
  <2>2. SeenByAll' = mirror'.serial /\ ToldToAll' = mirror'.active
    BY DEF RelayInv, LinkInStep, SeenByAll, ToldToAll
  <2> QED BY <2>1, <2>2, SeenIsMirrored
<1>2. /\ methods \in [Methods -> {"absent", "bound", "unavailable", "dead"}]
      /\ link.owner \in Methods \cup {None} /\ e # None
  BY RelayAssumption DEF RelayInv, RelayTypeOK, Links
<1>3. CASE UNCHANGED <<link.owner, OwnerGone>>
  BY <1>1, <1>3 DEF Direct!vars, SeenByAll, ToldToAll, OwnerGone
<1>4. CASE link'.owner = None
  <2>1. OwnerGone' = FALSE
    BY <1>4 DEF OwnerGone
  <2>2. Direct!Leave
    BY <1>1, <1>4, <2>1 DEF Direct!Leave, SeenByAll, ToldToAll, OwnerGone
  <2> QED BY <2>2 DEF Direct!Next
<1>5. CASE BindMethod(e) /\ link' = Attached(e) /\ methods' = [methods EXCEPT ![e] = "bound"]
           /\ (link.owner = None \/ OwnerGone)
  <2>1. link'.owner = e /\ OwnerGone' = FALSE
    BY <1>2, <1>5 DEF Attached, OwnerGone
  <2>2. Direct!Attach(e)
    BY <1>1, <1>5, <2>1 DEF Direct!Attach, SeenByAll, ToldToAll, OwnerGone
  <2> QED BY <2>2 DEF Direct!Next
<1>6. CASE link' = link /\ OwnerGone' = TRUE
  <2>1. link.owner # None
    BY <1>6 DEF OwnerGone
  <2>2. Direct!Die
    BY <1>1, <1>6, <2>1 DEF Direct!Die, SeenByAll, ToldToAll, OwnerGone
  <2> QED BY <2>2 DEF Direct!Next
<1>7. CASE BindMethod(e)
  <2>1. CASE link.owner # None /\ methods[link.owner] # "dead"
    <3>1. link' = link /\ methods' = [methods EXCEPT ![e] = "unavailable"]
      BY <1>7, <2>1 DEF BindMethod
    <3>2. UNCHANGED OwnerGone
      BY <1>2, <2>1, <3>1 DEF OwnerGone
    <3> QED BY <1>3, <3>1, <3>2
  <2>2. CASE ~(link.owner # None /\ methods[link.owner] # "dead")
    <3>1. link' = Attached(e) /\ methods' = [methods EXCEPT ![e] = "bound"]
      BY <1>7, <2>2 DEF BindMethod
    <3>2. link.owner = None \/ OwnerGone
      BY <2>2 DEF OwnerGone
    <3> QED BY <1>5, <1>7, <3>1, <3>2
  <2> QED BY <2>1, <2>2
<1>8. CASE MethodDies(e)
  <2>1. link' = link /\ methods' = [methods EXCEPT ![e] = "dead"]
    BY <1>8 DEF MethodDies
  <2>2. CASE link.owner = e
    <3>1. OwnerGone' = TRUE
      BY <1>2, <2>1, <2>2 DEF OwnerGone
    <3> QED BY <1>6, <2>1, <3>1
  <2>3. CASE link.owner # e
    <3>1. UNCHANGED <<link.owner, OwnerGone>>
      BY <1>2, <2>1, <2>3 DEF OwnerGone
    <3> QED BY <1>3, <3>1
  <2> QED BY <2>2, <2>3
<1>9. CASE DestroyMethod(e) \/ MethodDestroyed(e)
  <2>1. link' = Detached(e) /\ methods' = [methods EXCEPT ![e] = "absent"]
    BY <1>9 DEF DestroyMethod, MethodDestroyed
  <2>2. CASE link.owner = e
    <3>1. link'.owner = None
      BY <2>1, <2>2 DEF Detached, NoLink
    <3> QED BY <1>4, <3>1
  <2>3. CASE link.owner # e
    <3>1. UNCHANGED <<link.owner, OwnerGone>>
      BY <1>2, <2>1, <2>3 DEF Detached, OwnerGone
    <3> QED BY <1>3, <3>1
  <2> QED BY <2>2, <2>3
<1> QED BY <1>7, <1>8, <1>9

\* The host's strings, sent by the stand-in
LEMMA StandInImplements ==
  ASSUME RelayInv, StandInCommits
  PROVE  Direct!Next
<1> DEFINE serial == commits[Len(commits)]
<1>1. commits \in Seq(Nat) /\ commits # <<>>
  BY DEF RelayInv, RelayTypeOK, StandInCommits
<1>2. Len(commits) \in 1..Len(commits) /\ serial \in Nat
  BY <1>1
<1>3. serial <= mirror.serial
  BY <1>2 DEF RelayInv, CommitsSeen
<1>4. /\ dones - serial \in Nat /\ dones - serial >= dones - mirror.serial
      /\ serial = dones <=> dones - serial = 0
  BY <1>2, <1>3, Ahead
<1>5. Verdict' = [by |-> Host, behind |-> dones - serial, taken |-> serial = dones]
  BY DEF StandInCommits, Verdict
<1>6. UNCHANGED <<active, dones, mirror, link, methods>>
  BY DEF StandInCommits, smithay
<1> HIDE DEF serial
<1>7. /\ Verdict' \in [by : {Host}, behind : Nat, taken : BOOLEAN]
      /\ Verdict'.behind >= dones - SeenByAll
      /\ Verdict'.taken <=> Verdict'.behind = 0
  BY <1>4, <1>5, SeenIsMirrored
<1>8. Direct!HostCommits
  BY <1>6, <1>7, Unseen
  DEF Direct!HostCommits, Direct!Commits, Direct!Current, Verdict, SeenByAll, ToldToAll,
      OwnerGone
<1> QED BY <1>8 DEF Direct!Next

\* The owner's requests, replayed as the stand-in's
LEMMA OwnerImplements ==
  ASSUME RelayInv, NEW e \in Methods, NEW seen \in 0..(MaxDones + 1),
         MethodCommits(e, seen)
  PROVE  Direct!Next
<1> DEFINE count == link.synthesized + link.forwarded
           ahead == dones - mirror.serial
<1>1. /\ link \in Links /\ seen \in Nat /\ seen <= count /\ link.owner = e /\ e # None
      /\ link.synthesized \in Nat /\ link.forwarded \in Nat /\ link.base \in Nat
      /\ link.base + link.forwarded = mirror.serial
  BY RelayAssumption DEF RelayInv, RelayTypeOK, Links, MethodCommits, LinkInStep
<1>2. ahead \in Nat /\ dones \in Nat /\ mirror.serial \in Nat
  BY Ahead
<1>3. Verdict' = [by |-> e, behind |-> count - seen + dones - mirror.serial,
                  taken |-> HostSerial(seen) = dones]
  BY DEF MethodCommits, Verdict
<1>4. /\ count - seen + dones - mirror.serial \in Nat
      /\ count - seen + dones - mirror.serial >= ahead
  BY <1>1, <1>2
<1>5. HostSerial(seen) = IF seen = count THEN mirror.serial ELSE mirror.serial + 1
  BY <1>1 DEF HostSerial
<1>6. \/ dones = mirror.serial + 1
      \/ HostSerial(seen) = dones <=> count - seen + dones - mirror.serial = 0
  <2>1. CASE ahead = 0
    <3>1. HostSerial(seen) = dones <=> seen = count
      BY <1>1, <1>2, <1>5, <2>1
    <3>2. count - seen + dones - mirror.serial = 0 <=> seen = count
      BY <1>1, <1>2, <2>1
    <3> HIDE DEF count
    <3> QED BY <3>1, <3>2, Zenon
  <2>2. CASE ahead > 1
    <3>1. HostSerial(seen) # dones
      BY <1>1, <1>2, <1>5, <2>2
    <3>2. count - seen + dones - mirror.serial # 0
      BY <1>1, <1>2, <2>2
    <3> QED BY <3>1, <3>2
  <2>3. CASE ahead = 1
    BY <1>2, <2>3
  <2> QED BY <1>2, <2>1, <2>2, <2>3
<1>7. UNCHANGED <<active, dones, mirror, link, methods>> /\ methods[e] = "bound"
  BY DEF MethodCommits, smithay
<1> HIDE DEF count, ahead
<1>8. /\ Verdict' \in [by : {e}, behind : Nat, taken : BOOLEAN]
      /\ Verdict'.behind >= dones - SeenByAll
      /\ dones = SeenByAll + 1 \/ (Verdict'.taken <=> Verdict'.behind = 0)
  BY <1>3, <1>4, <1>6, SeenIsMirrored DEF ahead
<1>9. link.owner # None /\ ~OwnerGone
  BY <1>1, <1>7 DEF OwnerGone
<1>10. Direct!OwnerCommits
  BY <1>1, <1>7, <1>8, <1>9, Unseen
  DEF Direct!OwnerCommits, Direct!Commits, Direct!Current, Verdict, SeenByAll, ToldToAll,
      OwnerGone
<1> QED BY <1>10 DEF Direct!Next

LEMMA DirectInit == RelayInit => Direct!Init
  BY DEF RelayInit, NoLink, NoCommit, Direct!Init

LEMMA DirectStep ==
  ASSUME RelayInv, RelayInv', [RelayNext]_relayVars
  PROVE  [Direct!Next]_(Direct!vars)
<1>1. ASSUME NEW c \in Clients \cup {None}, FocusTo(c) PROVE [Direct!Next]_(Direct!vars)
  <2>1. CASE active = None
    BY <1>1, <2>1, Unseen DEF FocusTo, Direct!vars, SeenByAll, ToldToAll, OwnerGone
  <2>2. CASE active # None
    BY <1>1, <2>2, TellImplements DEF FocusTo, Batches
  <2> QED BY <2>1, <2>2
<1>2. CASE QueueString
  BY <1>2, Unseen DEF QueueString, smithay, Direct!vars, SeenByAll, ToldToAll, OwnerGone
<1>3. CASE BeginDispatch
  BY <1>3, FinishImplements DEF BeginDispatch, smithay
<1>4. CASE EndDispatch
  BY <1>4, FinishImplements DEF EndDispatch, smithay
<1>5. CASE StandInCommits
  BY <1>5, StandInImplements
<1>6. ASSUME NEW i \in Inputs, CreateInput(i) PROVE [Direct!Next]_(Direct!vars)
  BY <1>6, Unseen DEF CreateInput, Direct!vars, SeenByAll, ToldToAll, OwnerGone
<1>7. ASSUME NEW i \in Inputs, EnableInput(i) \/ UpdateInput(i) \/ DisableInput(i)
      PROVE  [Direct!Next]_(Direct!vars)
  BY <1>7, TellImplements DEF EnableInput, UpdateInput, DisableInput, Batches
<1>8. ASSUME NEW i \in Inputs, DestroyInput(i) PROVE [Direct!Next]_(Direct!vars)
  <2>1. /\ active' = IF active = i THEN None ELSE active
        /\ UNCHANGED <<mirror, link, methods, last>>
    BY <1>8 DEF DestroyInput
  <2>2. CASE active # i /\ UNCHANGED <<dones, wire>>
    BY <2>1, <2>2, Unseen DEF Direct!vars, SeenByAll, ToldToAll, OwnerGone
  <2>3. CASE Tell("deactivate")
    BY <2>1, <2>3, TellImplements DEF Batches
  <2>4. CASE active' = None /\ TellTwice("deactivate")
    BY <2>1, <2>4, TellTwiceImplements
  <2> QED BY <1>8, <2>1, <2>2, <2>3, <2>4 DEF DestroyInput
<1>9. ASSUME NEW e \in Methods,
             BindMethod(e) \/ DestroyMethod(e) \/ MethodDies(e) \/ MethodDestroyed(e)
      PROVE  [Direct!Next]_(Direct!vars)
  BY <1>9, MethodsImplement
<1>10. ASSUME NEW e \in Methods, NEW seen \in 0..(MaxDones + 1), MethodCommits(e, seen)
       PROVE  [Direct!Next]_(Direct!vars)
  BY <1>10, OwnerImplements
<1>11. CASE UNCHANGED relayVars
  BY <1>11, Unseen DEF relayVars, smithay, Direct!vars, SeenByAll, ToldToAll, OwnerGone
<1> QED BY <1>1, <1>2, <1>3, <1>4, <1>5, <1>6, <1>7, <1>8, <1>9, <1>10, <1>11 DEF RelayNext

\* However input methods attach late, die and replace each other, the seat treats its
\* owner as if Smithay knew no other input method (core/wayland/im_relay.rs).
THEOREM RelayIsDirect == RelaySpec => ImplementsDirect
<1>1. RelayInv /\ RelayInv' /\ [RelayNext]_relayVars => [Direct!Next]_(Direct!vars)
  BY DirectStep
<1> QED BY <1>1, DirectInit, RelayInvariant, PTL
  DEF RelaySpec, ImplementsDirect, Direct!Spec
=============================================================================
