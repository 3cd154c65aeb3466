----------------------------- MODULE TextRelay -----------------------------
(***************************************************************************)
(* Text entry through text-input-v3 and input-method-v2.  Smithay knows    *)
(* one input method: an in-process stand-in for the host's keyboard        *)
(* (core/wayland/host_im.rs).  The first input method of another client    *)
(* becomes the owner of the seat: what Smithay tells the stand-in is       *)
(* mirrored to it, and its requests are replayed as the stand-in's         *)
(* (core/wayland/im_relay.rs).  A commit carries the number of done events *)
(* its sender has seen, which is not the same number for both.             *)
(*                                                                         *)
(* A dispatch reads the stand-in's events before and after it handles      *)
(* clients (Compositor::dispatch); in between Smithay is ahead of it.      *)
(* The text itself is left out: only whether a commit is taken matters.    *)
(* Clients keep their connection; an input method may lose its own.        *)
(***************************************************************************)
EXTENDS Naturals, Sequences

CONSTANTS
  Clients,
  Inputs, Owner,   \* text inputs, and the client of each
  Methods,         \* external input methods
  MaxDones,        \* bound on done events
  MaxQueued,       \* bound on strings queued by the host
  Host, None

ASSUME RelayAssumption ==
  /\ Owner \in [Inputs -> Clients]
  /\ None \notin Inputs \cup Methods \cup Clients
  /\ Host \notin Methods
  /\ MaxDones \in Nat /\ MaxQueued \in Nat

VARIABLES
  inputs,    \* text inputs that exist
  focus,     \* the client with the keyboard
  active,    \* Smithay: the text input that is enabled
  dones,     \* Smithay: done events sent to the stand-in
  wire,      \* events the stand-in has not read
  queued,    \* strings in HostImShared.outgoing
  commits,   \* serials of the stand-in's commits that Smithay has not read
  mirror,    \* HostImMirror
  link,      \* ExternalImLink, and what its owner was told last
  methods,   \* state of each external input method
  last,      \* the last commit Smithay has read
  dispatching

smithay == <<inputs, focus, active, dones>>
relayVars == <<smithay, wire, queued, commits, mirror, link, methods, last, dispatching>>

NoLink == [owner |-> None, base |-> 0, synthesized |-> 0, forwarded |-> 0, told |-> FALSE]

Links == [owner : Methods \cup {None}, base : Nat, synthesized : {0, 1},
          forwarded : Nat, told : BOOLEAN]

\* ahead: done events Smithay has sent and the stand-in has not read; behind:
\* done events that the sender has not seen.
Commits == [by : Methods \cup {Host, None}, ahead : Nat, behind : Nat, taken : BOOLEAN]

NoCommit == [by |-> None, ahead |-> 0, behind |-> 0, taken |-> FALSE]

RelayTypeOK ==
  /\ inputs \subseteq Inputs
  /\ focus \in Clients \cup {None}
  /\ active \in Inputs \cup {None}
  /\ dones \in Nat
  /\ wire \in Seq({"activate", "deactivate", "update"})
  /\ queued \in Nat
  /\ commits \in Seq(Nat)
  /\ mirror \in [active : BOOLEAN, serial : Nat]
  /\ link \in Links
  /\ methods \in [Methods -> {"absent", "bound", "unavailable", "dead"}]
  /\ last \in Commits
  /\ dispatching \in BOOLEAN

RelayInit ==
  /\ inputs = {} /\ focus = None /\ active = None /\ dones = 0
  /\ wire = <<>> /\ queued = 0 /\ commits = <<>>
  /\ mirror = [active |-> FALSE, serial |-> 0]
  /\ link = NoLink
  /\ methods = [e \in Methods |-> "absent"]
  /\ last = NoCommit
  /\ dispatching = FALSE

-----------------------------------------------------------------------------
\* Smithay tells the stand-in that a text input has become active, is active no
\* longer, or has news; each with a done at its end.
Tell(batch) ==
  /\ dones < MaxDones
  /\ dones' = dones + 1
  /\ wire' = Append(wire, batch)

\* The keyboard goes to a surface of c.  Leaving disables the text input.
FocusTo(c) ==
  /\ focus' = c
  /\ active' = None
  /\ IF active = None THEN UNCHANGED <<dones, wire>> ELSE Tell("deactivate")
  /\ UNCHANGED <<inputs, queued, commits, mirror, link, methods, last, dispatching>>

\* fn text_input_commit_string, and its kind
QueueString ==
  /\ ~dispatching
  /\ queued < MaxQueued
  /\ queued' = queued + 1
  /\ UNCHANGED <<smithay, wire, commits, mirror, link, methods, last, dispatching>>

-----------------------------------------------------------------------------
\* What a reader of these events takes for active: the last word on it counts.
ActiveAfter(events, before) ==
  LET Last(i) == \A j \in i + 1 .. Len(events) : events[j] = "update"
  IN \/ before /\ Last(0)
     \/ \E i \in 1..Len(events) : events[i] = "activate" /\ Last(i)

\* The stand-in reads its events: mirror, and fn forward_host_event for each.  An
\* owner found dead is forgotten.
Mirrored ==
  [active |-> ActiveAfter(wire, mirror.active), serial |-> mirror.serial + Len(wire)]

Forwarded ==
  IF wire # <<>> /\ link.owner # None /\ methods[link.owner] = "dead" THEN NoLink
  ELSE IF link.owner = None THEN link
  ELSE [link EXCEPT !.forwarded = @ + Len(wire), !.told = ActiveAfter(wire, @)]

\* fn finish
Finish == mirror' = Mirrored /\ link' = Forwarded /\ wire' = <<>>

\* fn prepare and fn finish, before clients are dispatched: the queued strings
\* are sent with the serial known before the events are read.
BeginDispatch ==
  /\ ~dispatching
  /\ dispatching' = TRUE
  /\ commits' = commits \o [i \in 1..queued |-> mirror.serial]
  /\ queued' = 0
  /\ Finish
  /\ UNCHANGED <<smithay, methods, last>>

\* fn finish, after clients have been dispatched, the stand-in among them
EndDispatch ==
  /\ dispatching /\ commits = <<>>
  /\ dispatching' = FALSE
  /\ Finish
  /\ UNCHANGED <<smithay, queued, commits, methods, last>>

\* Smithay reads what the stand-in has sent.
StandInCommits ==
  /\ dispatching /\ commits # <<>>
  /\ commits' = <<>>
  /\ last' = [by |-> Host, ahead |-> dones - mirror.serial,
              behind |-> dones - commits[Len(commits)],
              taken |-> commits[Len(commits)] = dones]
  /\ UNCHANGED <<smithay, wire, queued, mirror, link, methods, dispatching>>

-----------------------------------------------------------------------------
\* Text inputs

CreateInput(i) ==
  /\ dispatching /\ i \notin inputs
  /\ inputs' = inputs \cup {i}
  /\ UNCHANGED <<focus, active, dones, wire, queued, commits, mirror, link, methods,
                 last, dispatching>>

\* enable and commit; Smithay ignores it while another one is enabled.
EnableInput(i) ==
  /\ dispatching /\ i \in inputs /\ Owner[i] = focus /\ active \in {None, i}
  /\ active' = i
  /\ Tell("activate")
  /\ UNCHANGED <<inputs, focus, queued, commits, mirror, link, methods, last, dispatching>>

\* A commit of new surrounding text or content type
UpdateInput(i) ==
  /\ dispatching /\ active = i
  /\ Tell("update")
  /\ UNCHANGED <<inputs, focus, active, queued, commits, mirror, link, methods, last,
                 dispatching>>

DisableInput(i) ==
  /\ dispatching /\ active = i
  /\ active' = None
  /\ Tell("deactivate")
  /\ UNCHANGED <<inputs, focus, queued, commits, mirror, link, methods, last, dispatching>>

\* Mutant: Smithay alone, which does not disable a text input destroyed while its
\* client has others.
DestroyInputEnabled(i) ==
  /\ dispatching /\ i \in inputs
  /\ inputs' = inputs \ {i}
  /\ UNCHANGED <<focus, active, dones, wire, queued, commits, mirror, link, methods,
                 last, dispatching>>

\* Two batches at once
TellTwice(batch) ==
  /\ dones + 1 < MaxDones
  /\ dones' = dones + 2
  /\ wire' = wire \o <<batch, batch>>

\* zwp_text_input_v3.destroy: the enabled one is disabled first, and Smithay may
\* say so once more when its client has no text input left.
DestroyInput(i) ==
  LET last_of_client == \A j \in inputs \ {i} : Owner[j] # Owner[i]
  IN /\ dispatching /\ i \in inputs
     /\ inputs' = inputs \ {i}
     /\ active' = IF active = i THEN None ELSE active
     /\ \/ active # i /\ UNCHANGED <<dones, wire>>
        \/ active = i /\ Tell("deactivate")
        \/ active = None /\ last_of_client /\ Tell("deactivate")
        \/ active = i /\ last_of_client /\ TellTwice("deactivate")
     /\ UNCHANGED <<focus, queued, commits, mirror, link, methods, last, dispatching>>

-----------------------------------------------------------------------------
\* External input methods

\* Mutant: the new owner is told nothing.
AttachedSilently(e) == [NoLink EXCEPT !.owner = e, !.base = mirror.serial]

\* fn synthesize_state, in attach_external_input_method
Attached(e) ==
  [owner |-> e, base |-> mirror.serial,
   synthesized |-> IF mirror.active THEN 1 ELSE 0,
   forwarded |-> 0, told |-> mirror.active]

\* Mutant: the newest input method takes the seat from a living one.
BindNewest(e) ==
  /\ dispatching /\ methods[e] = "absent"
  /\ methods' = [methods EXCEPT ![e] = "bound"] /\ link' = Attached(e)
  /\ UNCHANGED <<smithay, wire, queued, commits, mirror, last, dispatching>>

\* get_input_method
BindMethod(e) ==
  /\ dispatching /\ methods[e] = "absent"
  /\ IF link.owner # None /\ methods[link.owner] # "dead"
     THEN methods' = [methods EXCEPT ![e] = "unavailable"] /\ UNCHANGED link
     ELSE methods' = [methods EXCEPT ![e] = "bound"] /\ link' = Attached(e)
  /\ UNCHANGED <<smithay, wire, queued, commits, mirror, last, dispatching>>

\* fn detach_external_input_method
Detached(e) == IF link.owner = e THEN NoLink ELSE link

\* zwp_input_method_v2.destroy
DestroyMethod(e) ==
  /\ dispatching /\ methods[e] \in {"bound", "unavailable"}
  /\ methods' = [methods EXCEPT ![e] = "absent"]
  /\ link' = Detached(e)
  /\ UNCHANGED <<smithay, wire, queued, commits, mirror, last, dispatching>>

\* Its client is gone.  The handler runs later.
MethodDies(e) ==
  /\ methods[e] \in {"bound", "unavailable"}
  /\ methods' = [methods EXCEPT ![e] = "dead"]
  /\ UNCHANGED <<smithay, wire, queued, commits, mirror, link, last, dispatching>>

\* fn destroyed
MethodDestroyed(e) ==
  /\ dispatching /\ methods[e] = "dead"
  /\ methods' = [methods EXCEPT ![e] = "absent"]
  /\ link' = Detached(e)
  /\ UNCHANGED <<smithay, wire, queued, commits, mirror, last, dispatching>>

\* Mutant: the synthesized done is not counted.
HostSerialForwarded(seen) ==
  LET current == link.base + link.forwarded
  IN IF seen = link.forwarded THEN current ELSE current + 1

\* fn translate_commit_serial
HostSerial(seen) ==
  LET current == link.base + link.forwarded
  IN IF seen = link.synthesized + link.forwarded THEN current ELSE current + 1

\* commit, by an owner that has read seen of the done events sent to it
MethodCommits(e, seen) ==
  LET sent == link.synthesized + link.forwarded
  IN /\ dispatching /\ methods[e] = "bound" /\ link.owner = e
     /\ seen <= sent
     /\ last' = [by |-> e, ahead |-> dones - mirror.serial,
                 behind |-> sent - seen + dones - mirror.serial,
                 taken |-> HostSerial(seen) = dones]
     /\ UNCHANGED <<smithay, wire, queued, commits, mirror, link, methods, dispatching>>

RelayNext ==
  \/ \E c \in Clients \cup {None} : FocusTo(c)
  \/ QueueString \/ BeginDispatch \/ EndDispatch \/ StandInCommits
  \/ \E i \in Inputs : \/ CreateInput(i) \/ DestroyInput(i)
                       \/ EnableInput(i) \/ UpdateInput(i) \/ DisableInput(i)
  \/ \E e \in Methods : \/ BindMethod(e) \/ DestroyMethod(e)
                        \/ MethodDies(e) \/ MethodDestroyed(e)
                        \/ \E seen \in 0..(MaxDones + 1) : MethodCommits(e, seen)

RelaySpec == RelayInit /\ [][RelayNext]_relayVars

-----------------------------------------------------------------------------
\* The seat as its external input method sees it
Direct == INSTANCE DirectInputMethod WITH
  enabled <- active # None,
  sent <- dones,
  seen <- IF link.owner = None THEN mirror.serial ELSE link.base + link.forwarded,
  told <- IF link.owner = None THEN mirror.active ELSE link.told,
  owner <- link.owner,
  gone <- link.owner # None /\ methods[link.owner] = "dead",
  verdict <- [by |-> last.by, behind |-> last.behind, taken |-> last.taken]

\* However input methods attach late, die or replace each other, mirroring and
\* replaying amount to an input method of Smithay's own (im_relay.rs).
ImplementsDirect == Direct!Spec

\* The owner is where the stand-in is, however late it came: it has been told the
\* same, and its commits are counted from the same done; and once the stand-in has
\* read everything it is where Smithay is.
OwnerInStep ==
  /\ link.owner # None =>
       link.base + link.forwarded = mirror.serial /\ link.told = mirror.active
  /\ wire = <<>> =>
       mirror.serial = dones /\ mirror.active = (active # None)

\* A commit of the owner is taken exactly if it has seen every done event, unless
\* Smithay has sent one in this very dispatch.
CommitsAreCurrent ==
  last.by \in Methods /\ last.ahead = 0 => (last.taken <=> last.behind = 0)

\* The enabled text input exists and has the keyboard: none that is gone keeps the
\* others from being enabled (im_relay.rs, Dispatch<ZwpTextInputV3>).
EnabledInputLives ==
  active # None => active \in inputs /\ Owner[active] = focus
=============================================================================
