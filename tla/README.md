# Wawona in TLA+

Wawona is a Wayland compositor whose clients appear as native windows on Linux
(GTK), Android, macOS, iOS and others.  There is no compositor-drawn desktop:
every `xdg_toplevel` has a host window, except on a headless host, which has
one output and shows every window on it.  The program has no single hard
algorithm.  What is hard is that the same fact is kept in several places (by the
host, the core, Smithay and the client) and that handlers called in any order
must keep the places in step.  These modules model the five parts where that is
so:

1. how host, core and client agree on a window's size and states, which the
   comments call "anti-ping-pong" (`core/window/size_authority.rs`);
2. how what a client draws gets to the screen, and the buffers and frame
   callbacks back to the client;
3. who has the keyboard, through windows, popups with grabs, layer surfaces and
   clients that come and go;
4. who has the pointer and the touch contacts, through grabs, locks and surfaces
   that disappear under them;
5. how text typed on the host or by an external input method reaches the text
   input that is enabled.

Paths below are relative to the repository's Rust crate (`src/`), as in
`core/state/scene.rs`.

## 1. Inventory

| component | state it keeps | operations | hard behaviour | what makes it correct |
|---|---|---|---|---|
| size authority (`core/window/size_authority.rs`) | who owns the size, the host's request | request, commit | a lagging commit against a newer request, refusals, one pixel of slack | one side at a time changes the size |
| configure / ack / commit (`core/state/scene.rs`, `core/wayland/xdg/shell_handler.rs`, `core/state/surfaces.rs`) | unacked serials, twice cached, besides Smithay's list; pending and current window states | send_toplevel_configure, ack_configure, finalize_surface_commit | skipped acks, configures nobody recorded, commits for old configures | the core's idea of "unacked" is the protocol's; commits wait for acks |
| activation, decoration (`core/state/input.rs`, `core/wayland/xdg/extension_handlers.rs`, `decoration.rs`) | activated flag, decoration mode | set_toplevel_activated, set_window_activated, request_activation, new_decoration, request_mode, unset_mode | they send configures of their own in the middle of a resize | a configure about something else does not change the size |
| maximize, fullscreen (`core/wayland/xdg/toplevel_state.rs`, `core/state/windows.rs`) | five copies of two flags, the saved size | four client requests, two host notifications | host and client change them at the same time | copies agree in the end; the right size comes back |
| library interface (`ffi/api.rs`) | pending resize transactions, queued window events | resize_window, begin/end_interactive_resize, set_output_size, process/dispatch_events | locks released between two halves of a call; events handled later than they were queued | a host sees every change, with its cause |
| GTK host (`bin/wawona-linux-ui.rs`) | pending, last and in-flight allocation, running session, pixel cache | allocation, tick, draw, focus controllers, SizeChanged | callbacks between ticks, in GTK's order | session known on both sides, and ended |
| Android host (`platform/android/android_jni.c`) | statics of the running session | apply_output_scale, choreographer frame | two threads, no lock | session known on both sides, and ended |
| surface commits (`core/wayland/mod.rs`, `core/state/surfaces.rs`, `core/surface`) | current buffer and damage, queued releases and callbacks | attach, detach, commit, release | commits faster than the host presents, small pools | no buffer and no callback is forgotten |
| presentation (`ffi/api.rs`, and each host) | staged buffers, pixel cache, scene, presented list | SurfaceCommitted, pop_pending_buffer, get_render_scene, notify_frame_presented | dropped and displaced buffers, surfaces that share a window | what is acknowledged is on screen, and everything is acknowledged |
| keyboard focus (`core/window/focus.rs`, `core/state/input.rs`, `windows.rs`) | focused window, history, surface with the keyboard; Smithay's focus | set_focused_window, activate, minimize, destroy_window, the host's enter and leave | destruction of what has the focus; a client gone without a goodbye | the four places name the same surface, and it exists |
| popups (`core/state/popup_grab.rs`) | grab stack | grab, dismiss, destroy | dismissal out of order, focus changes during a grab | a grab ends with the focus of its window |
| layer surfaces (`core/wayland/wlr/layer_shell.rs`) | interactivity | commit, destroy | an exclusive layer beside grabs and windows | an exclusive layer has the keyboard |
| pointer (`core/state/pointer_focus.rs`, `core/wayland/wlr/virtual_pointer.rs`, `ext/pointer_constraints.rs`) | position, target, focus, held buttons, interactive grab, locks | motion, buttons, repick, grab, lock | windows mapped or destroyed under held buttons, two devices | target and focus are one, locks are active while it stays |
| touch (`core/input/touch.rs`, `core/state/input.rs`) | contacts, the one that drives the pointer, its button | down, up, cancel, repick, mode | a surface dying under a finger, caps and modes | every down has its up, and the button its release |
| text input, input method (`core/wayland/im_relay.rs`, `host_im.rs`) | enabled text input, mirror of it, owner, serials | enable, commit, attach, replay | an input method attached late, dead, or replaced; serials counted differently | commits are taken exactly when current |
| subsurfaces (`core/state/surfaces.rs`) | parents, positions pending and applied | get_subsurface, set_position, commit of the parent, destroy | positions wait for the parent's commit, destruction of a parent (synchronisation and stacking are Smithay's) | a position is applied with the commit it was made for |
| selection, clipboard, drag and drop (`core/wayland/selection_proxy.rs`, `mod.rs`, `ffi/api.rs`) | owner of the selection, clipboard bridge | set_selection, send, host text in and out | a reader thread per selection, proxied sources | a replaced source is cancelled, text is not echoed |
| session lock (`core/wayland/ext/session_lock.rs`) | lock flag and surfaces | lock, unlock, configure | lock while a window is being mapped | nothing is shown unlocked |
| everything else | | | | protocol extensions with local state, sockets and IPC, profiles and launching, the command line, Swift and Kotlin user interfaces, vendored clients |

How they interact: a host window calls the library interface, which takes the
state lock, changes `Window` and `XdgToplevelData` and sends a configure through
Smithay.  The client's acks and commits are dispatched from the host's timer
(GTK) or vsync (Android) with the same lock held.  A commit that changes the
size queues a `WindowSizeChanged`; after the lock has been released the
interface turns it into a window event, matching it against the pending resize
transaction, and the host pops it and may call back into the interface.
The same commit queues a `SurfaceCommitted`; its handler copies the pixels and
stages them, one buffer per window; the host pops them into its own cache, takes
the scene, draws, and reports what it has drawn with its next tick, upon which
the core releases buffers and answers frame callbacks.

Input takes one of two ways.  A native host knows which of its windows is meant
and names it; the core adds popups and subsurfaces.  A headless host has one
position and the core finds the surface under it, again after every change of
the scene.  Both end in Smithay's pointer, touch and keyboard handles, which send
the events, and in the core's own bookkeeping of focus.  Focus changes activate
toplevels, which sends configures.  Within a dispatch the core is on both sides
of the protocol: it is the client of its own input method.

## 2. Plan

Done, in this order (sections 3 to 6): `SizeAuthority`, `ToplevelConfigure`,
`SizeAgreement`, `ResizeSession`, `GtkHost`, `AndroidHost`, `ToplevelStates`,
`SurfacePresent`, `GtkPresent`, then `TouchPoints` and `TouchSeat`, `SeatFocus`
and `HostFocus`, `GlobalPointer`, `TextRelay`; a module of proofs for each part.

What a next step would take, most valuable first:

1. Destruction of buffers, surfaces and windows in `SurfacePresent`, and the
   Android and Apple hosts' drains of staged buffers.
2. An abstract specification of a frame (committed, shown, acknowledged) for
   `GtkPresent` to implement.
3. The clipboard bridge with its reader threads, and drag and drop.
4. The pointer focus of a native host, and the positions of subsurfaces.
5. The session lock and the layer shell's configures, reusing the ack
   bookkeeping of `ToplevelConfigure`.

The number of runs is kept small: each answers a question of its own.

## 3. Modules

```
SizeAuthority            pure state machine of size_authority.rs
  ToplevelConfigure      one toplevel: configure, ack, commit
    ResizeSession        calls of the library interface, transactions, events
      GtkHost            the Linux host and its timer
      AndroidHost        the Android host and its two threads
    ToplevelStates       maximized and fullscreen, from client and host
SizeAgreement            abstract: who may change the size, and when
StateHandshake           abstract: states asked for, and states that hold
SurfacePresent           the core's half of showing a surface
  GtkPresent             the Linux host's half: cache, scene, draw, report
SeatFocus                handlers of the keyboard's focus, grabs, layers
  HostFocus              clients against a headless and the GTK host
GlobalPointer            a headless host's pointer, grabs, locks, two devices
TouchPoints              handlers of touch contacts
  TouchSeat              fingers against surfaces and clients that go away
TextRelay                text inputs, the stand-in, external input methods
DirectInputMethod        abstract: the only input method of a seat

ToplevelConfigureProofs, ResizeHostsProofs, ToplevelStatesProofs,
GtkPresentProofs, HostFocusProofs, GlobalPointerProofs, TouchSeatProofs,
TextRelayProofs          theorems
MC*                      instances for TLC
```

`ToplevelConfigure` has two records.  `win` is `Window`; `xdg` puts together
`XdgToplevelData`, `XdgSurfaceData` and the part of Smithay's surface state the
handlers depend on (`serial`, `sent`, `unacked`, `acked`, marked external in the
map).  Handlers are operators on these records, so that a handler which calls
another one is the composition of their operators, and one action is the whole
handler.  `SendToplevelConfigure`, `SetActivated`, `Decorate`, `Ack` and
`ClientCommit` carry the names of their functions; the actions of `Next` are the
entry points (focus change, host activation, xdg-activation, decoration, ack,
commit).

`ResizeSession` adds the host's calls as operators on `[win, xdg, txn]` and the
two queues on the way back.  It has no next-state relation: the two hosts differ
in what they interleave.

`SizeAgreement` has no serials, lists or events: the size belongs to one side, and
each action says which side may do what.  `Spec` is the rule that
`size_authority.rs` states.  `FollowSpec` adds the two steps by which the code
departs from it, as observations below describe: `HostMoves` (the output or a
native host's notification changes the size, and the owner stays who it was) and
`SessionEnds` (a resize is over before its last size has been asked for).  `told`
counts configures, so that neither these nor a client's own change can pass for one
another: what the host does to the size it announces, what the client does it does
not.  The GTK host and a lone toplevel implement `Spec`, the Android host and
`ToplevelStates` under a native host `FollowSpec`.

`GtkHost` runs everything on one thread.  The tick's order (dispatch clients,
handle queued events, pop window events) is in the guards on `changes` and
`events`; GTK's own callbacks run only when both are empty.  Reacting to
`SizeChanged` also sets the window's default size, which GTK answers with
another allocation: that is an `Allocate` like any other.

`AndroidHost` breaks each thread into its statements on the shared statics and
its locked parts of core calls, because nothing else is atomic: `ui` and
`render` are program counters with the locals that matter.  A data race on an
`int` has no outcome here but the interleavings of whole reads and writes.  The
module follows one window, "this", whose core state is `ResizeSession`'s, among
others.  The statics have room for one session of all windows, so the others are
there with what they do to the statics: the pointer may be over another one at any
output change (`BeginStream("other")`; every frame and every touch sets
`g_pointer_window_id`), the settle may be of another's session, and so may a
request that fills the output (`FillOther`).  `overtaken` is a history variable of
the model, not state of the code: see the observations.  The render thread's frame
is `DispatchClients` to `EndDrain`, in that order: the core's queue, the settle, the
window events.  Requests to be maximized or fullscreen, or no longer to be, are
`PopRequest` and `Filling`: they set `follow_host`, end the window's own session
(`android_inject_fill_primary`), resize it and tell it its states.

`ToplevelStates` adds the saved size and the requests.  A native host's
notification is ignored when it repeats the window's state.  `StateHandshake` is
what the five copies of the two flags amount to: the states asked for last become
current with the last answer, and an overtaken question never does.

`SurfacePresent` has the core's state of a surface (`current`, `callbacks`,
`damaged`), the buffers its client has not got back (`held`), the queue of
releases, the events on their way and the staging map.  `Commit` is the part
`CompositorHandler::commit` and `handle_surface_commit` do for every commit; the
three actions around it differ in the attach.  `SurfaceCommitted` is the event's
handler with its three outcomes.  Whether a buffer has the wrong size is left
open: a configure may be unacked at any time (`ToplevelConfigure`), and for a
subsurface the gate never opens.

`GtkPresent` is the other half of the tick in `GtkHost`: `phase` is the place in
the tick, and draws fall between ticks.  `cached` tells for each buffer whether
the host's cache holds nothing, what the client last drew in it, or something
older.  A draw needs no reason (GTK redraws an exposed window), but only a
queued one is certain.  The two hosts' modules are separate because the paths
share nothing but the order of the tick: no size decides what is drawn once a
buffer is staged.

`SeatFocus` has one record for the four places of the keyboard's focus and what
their handlers read.  Most handlers end in `set_focused_window` or
`set_keyboard_focus_surface`, which here are the operators `SetFocused` and
`SetKb`; those two end in activations, whose configures are
`ToplevelConfigure`'s business.  A window, its surface and its window id share a
name, and a popup's place in the tree is a constant (`Top`, `Above`): a new popup
with the same name is one in the same place.

`HostFocus` makes actions of the entry points: requests of clients, layer
commits, a disconnect with its clean-up window by window, input of a headless
host, and GTK's windows with their two focus controllers.  A controller's
callback is one action with the other's because GTK runs them in one dispatch;
their order is GTK's, so both are there.

`GlobalPointer` abstracts the scene to what the core asks of it: which shown
surface is on top at each position.  A change of the scene is `Restack`, with any
outcome; what the module is about is what each handler then does with target,
focus, grab and locks (`Repick`, `Deliver`, `Sync`).  A press raises the target's
window, which may then be on top where it is (`Raise`), but picks nothing anew; that
is left to the next repick.  The host's device knows
which of its buttons are down, and so does the virtual one, whose client may
vanish.

`TouchPoints` is the bookkeeping in `core/input/touch.rs` together with Smithay's
slots; `TouchSeat` has the fingers and the surfaces.  A repick visits the
contacts one by one in `repicking`, because each may change which contact drives
the pointer.

`TextRelay` follows the `done` events: `dones` is Smithay's count, `wire` what
the stand-in has not read, `mirror` what it has, `link` what the owner of the seat
has been told.  A commit is recorded in `last` with how far its sender was behind,
so that the properties speak of what the sender knew and not of the numbers it
sent.  Two limits of a dispatch matter and are in the guards: what the host
queues is sent when one begins, and the stand-in reads when it begins and when
it ends.  `DirectInputMethod` is the same seat with one input method and one count,
without mirror, replay or synthesized events; its single concession to the relay
is in `OwnerCommits`, as an observation below explains.

What the data is abstracted to: width and height are always compared and
assigned together, so a size is one number, 0 for "no size".  Positions of
windows, titles, output scale and the log-only fields of `SizeAuthority` are left
out.  Pixels are the three values of `cached`, damage is a set of surfaces.  A
pointer position is one of a few points; axis events, modifiers, key codes and
typed text are left out.

## 4. Runs

| run | specification | shows |
|---|---|---|
| `MCToplevelConfigure` | `Spec` | bookkeeping, commits wait, filling windows do not shrink |
| `MCGtkHost` | `GtkSpec` | sessions agree, drags hold, refinement of `SizeAgreement` |
| `MCAndroidHost` | `VsyncSpec` | a session stays known and, once set up, ends, both unless another window's overtakes it; the size changes as `SizeAgreement!FollowSpec` says |
| `MCToplevelStates` | `StatesSpec` | copies of the states agree, refinement of `StateHandshake`; fullscreen has a size; saved size kept as long as needed; back to maximized; the size changes as `FollowSpec` says |
| `MCGtkPresent` | `DamagingSpec` | callbacks: answered, for content on screen, with a free pool, and whoever waits is drawn or has a draw queued; no buffer lost |
| `MCHostFocus` | `FocusSpec` | keyboard, Smithay's focus, grabs and activation in step; grabs end; the next window is focused |
| `MCGlobalPointer` | `PointerSpec` | target, focus, grab and locks agree; held and locked surfaces keep the pointer |
| `MCTouchSeat` | `TouchSpec` | contacts are fingers, and the clients'; one drives the pointer; its button is released |
| `MCTextRelay` | `RelaySpec` | refinement of `DirectInputMethod`; owner and stand-in told the same; commits taken exactly when current; no dead text input enabled |
| `GtkFrameStall` | `GtkPresentSpec` | *violated:* a callback is never answered |
| `GtkSharedWindow` | `DamagingSpec` | *violated:* with a subsurface, old pixels are acknowledged |
| `FocusReturns` | `FocusSpec` | *violated:* a clicked popup takes the keyboard with it |

### What the violated runs show

- **GtkFrameStall.** `SurfaceCommitted` carries the surface's current buffer even
  if the commit attached none, so the branch for "state-only commits" is taken
  only by a surface without content.  The others are staged again and wait for a
  draw, and without damage the scene needs none.
- **GtkSharedWindow.** `pending_buffers` is keyed by window.  Of a toplevel's and
  a subsurface's commit in one dispatch the first is displaced, its buffer is
  released unseen, and what the cache holds under its id is drawn and reported:
  the frame callback is answered for pixels that are not the ones committed.
- **FocusReturns.** A press on a popup books the popup's window id as the focused
  window (`core/state/input.rs:723`).  When the popup goes, no window has that
  id: `refocus_after_popup_grab` clears the keyboard although the toplevel is
  there, and without a grab nobody refocuses.

### Observations without a run

Sizes and states:

- `set_toplevel_activated` re-sends Smithay's last pending state with one flag
  changed, and with it the size of the last configure: a client that has chosen
  another size and owns it is asked to go back (`core/state/input.rs:1008`).
- `resize_window` has written the requested size into the window before the
  client commits it.  A commit of exactly this size is no change, so no
  `WindowSizeChanged` is queued, and `SizeChanged` is the only place where the
  GTK host settles (`bin/wawona-linux-ui.rs:1998`): a drag that ends well leaves
  the client in the Resizing state.  For the same reason its transaction is not
  consumed, and a later commit of the same size, chosen by a client that owns it,
  is reported as `HostConfigure` (`ffi/api.rs:374`).
- On Android, a second window orphans the session of the first.
  `android_begin_stream_resize` opens a session when the running one is another
  window's and overwrites the statics without ending it (`android_jni.c:969-975`).
  The output changes while the pointer is over one window, `g_pointer_window_id`
  moves to the next (at the latest with the next frame, `android_jni.c:2093`), and
  the output changes again before the settle: the settle is of the second window,
  then `active` is cleared, and the first window's client stays in the Resizing
  state until the output changes once more with the pointer over it.  TLC finds this
  trace for both `RunningIsKnown` and
  `RecordedSessionEnds` when `overtaken` is taken out of them, and a second one in
  which the settle of the other window's session, already past its test, clears
  `active` after this window's session has been opened.  The comment at
  `android_jni.c:583` promises that Resizing is cleared "on the first idle frame
  after the last inject".
- On Android, a rotation between clearing `g_interactive_resize_active` and
  clearing `g_interactive_resize_window` opens a session whose window is then
  wiped: `android_maybe_settle_interactive_resize` returns early
  (`android_jni.c:993`) until the next output change.  A request that ends a
  session has the same gap (`android_jni.c:785`).  `SetUp` in `RecordedSessionEnds`
  is about the others.
- `android_inject_fill_primary` clears the flag and the window and leaves the idle
  count: harmless, because the next session sets it to zero.
- Android's settle evaluates its arguments, a rotation records and injects a new
  size, and the settle configure goes out last with the old one
  (`android_jni.c:991`; `DecideToSettle`, `CallSettle`, `InjectSize`, `SendSettle`).
- `set_output_size` resizes and configures a window whose client owns the size
  without taking the authority (`core/state/mod.rs:2106`): hence `HostMoves` in
  `SizeAgreement`.
- `deferred_configure_size` is described as coalescing live-resize storms
  (`core/state/mod.rs:429`); `send_toplevel_configure` always sends and always
  clears it, on purpose.
- `core/state/windows.rs:155` calls fullscreen and maximized mutually exclusive,
  `toplevel_state.rs:4` independent; client requests put both into one configure.
- A decoration change right after maximize reconfigures with the window's
  floating width.
- A native host that leaves fullscreen restores the floating size although the
  client has asked to be maximized meanwhile (`core/state/windows.rs:128`), and
  its notifications save sizes of their own: `UnfullscreenToMaximized` and
  `SavedWhileSpecial` are stated without one.
- Leaving and re-entering a state before the client has committed saves the size
  of that state as the floating one (`toplevel_state.rs:101`).

Presentation:

- A buffer dropped for its size is given back but stays the surface's current
  buffer.  If the host has cached it before, the scene makes it draw these pixels
  again, in the middle of a resize (`ffi/api.rs:2271`).
- A subsurface's buffers are dropped unless they have the size of the whole
  window: without an `xdg_toplevel` the gate "before a stable size" never closes
  (`ffi/api.rs:2172`), although the comment below it says "Drop only during the
  configure handshake".
- Android's texture cache is keyed by the buffer's protocol id alone, which two
  clients may share (`renderer_android.c:538`).

Keyboard focus:

- GTK: every press in a composited popup dismisses the popup's own grab, because
  the focus is corrected to the window first; `inject_keyboard_enter` then moves
  the keyboard to the toplevel and leaves focused window and grab alone.
- GTK: switching windows while a popup has the keyboard leaves its grab stacked.
  `GrabEndsWithFocus` is stated for a headless host.
- Popups of two toplevels share one stack, and a focus change compares only with
  the popup at its bottom: hence the condition in `GrabEndsWithFocus`.
- A disconnect leaves the client's popups in `popup_grab_stack`
  (`GrabsAreLive` says so), and dead ids in `focus_history`, which is cut to ten.
- After a disconnect Smithay's focus is cleared only if the surface still finds its
  client, which is gone (`core/state/mod.rs:2654`): `SurfacesGone` allows both.
- `remove_surface` clears `keyboard.focus` and tells neither Smithay nor anybody
  else (`KeysFollowFocus` says so).
- `new_toplevel` is always announced as activated, so several toplevels may be
  (`core/state/input.rs:742` says one).
- `refresh_layer_keyboard_focus` gives the keyboard to an exclusive layer under
  a live grab.
- `request_activation` uses the surface's protocol id where the core's own id is
  meant (`core/wayland/xdg/extension_handlers.rs:121`).
- The session lock's flag is set and read nowhere.

Pointer and touch:

- `client_disconnected` clears the contacts of every client
  (`core/wayland/mod.rs:2575`); no client gets an up.  `ContactDelivered` says
  which half survives.
- `repick_headless_touches` forgets the mirrored button without releasing it:
  hence `~headless` in `ButtonFollowsMirror`.
- A mode of one touch keeps the contacts it has; Android's count of active
  touches includes downs the core has rejected.
- A virtual pointer's release does not end an interactive grab, and nothing
  releases the buttons of one that goes away: the count stays up and holds the
  target.
- After an interactive grab the release is sent to a surface that got no press.
- Unmapping the surface that is held leaves Smithay's pointer on it
  (`core/state/pointer_focus.rs:339`).
- Any client may start an interactive grab of its own window while a button is
  held on another's.
- The locks of a client that is gone are never removed, and two locks of one
  surface may both be active.

Text:

- A commit of an owner that has not seen the newest `done` is accepted if Smithay
  has sent exactly one more in the same dispatch, because both are off by one
  (`core/wayland/im_relay.rs:64`): hence `last.ahead = 0` in
  `CommitsAreCurrent` and `sent = seen + 1` in `DirectInputMethod`.
- The last text input of a client may be reported as disabled twice, by the relay and
  by Smithay (`core/wayland/im_relay.rs:344`): two `done` events, which
  `DirectInputMethod` allows.
- Strings queued by the host get the serial known when a dispatch begins, before
  the pending `done` events are read.  After a change of focus they are
  discarded.
- Stand-in and owner share one pending state in Smithay; the mirror's content type
  is never reset.
- Input method v1: destroying an old context clears the newer one; an update for
  one client may go to another's context; a dead instance may be chosen; and
  `text_input_commit_string` goes to both versions.

### Bounds

Sizes 2 and 3 are one pixel apart (the slack of `sizes_match`), 6 is further from
both: every comparison of the code has both outcomes.  `ToplevelStates` uses sizes
more than a pixel apart, one per role; `AndroidHost` two such sizes, the smaller
one being also the 1 that a settle falls back to.  `MaxSerial`
bounds the configures sent by handlers that ask for no size of their own (the
guard `MaySend`): six in `MCToplevelConfigure`, which is more than
the four (one per list entry kept, skipped, acked and sent after) an
interesting ack needs.  Resizes are bounded by `MaxDrags` (GTK, three: one to
open the session, one superseding it, one after it ended) and `MaxInputs`
(Android, two output changes or requests: one to open, one to race the settle, to
overtake, or to end the session at once).  Output changes that take a session to
another window and back need three: of those only `AndroidInv` speaks, in the
theorem.  `MaxEvents` bounds the
size changes on their way: two in GTK, so that one can be handled after a newer
one was queued, one in Android, whose races are between threads.  Commits and
acks are not bounded: the records take finitely many values.

`AndroidHost` runs one `apply_output_scale` at a time (the render thread also calls
it, once at its start), lets the core handle what the UI thread queues during a
dispatch in that dispatch, and leaves the core's own answer to a client's request
to `ToplevelStates`.  It leaves out focus and decoration configures, which `GtkHost`
interleaves with everything, and lets a client ack only the newest configure:
the older ones change nothing that a commit or this host can see (the theorem
`BookkeepingAgrees` is what makes that argument).

`MCGtkPresent` shows one surface with three buffers, the largest pool in use;
`GtkSharedWindow` two surfaces in one window, with two buffers and one.  One
surface stands for every window that has only one: windows meet in the queue of
releases, which any presentation flushes (`others` in `NotifyPresented`), and in
redraws, which are free to happen anyway; the theorems of `GtkPresentProofs`
hold for any number of them.  `MaxCommits` bounds the commits in one dispatch:
three are enough for attach, displace, attach again.  Ticks are not bounded.

`MCHostFocus` has two clients, one with a toplevel and two nested popups, the
other with a toplevel and a layer surface: a focus change may cross windows,
clients and roles, and a popup may be destroyed above or below another.
`HistoryLimit` is two instead of ten, so that the history overflows.  Toplevels
are created once each (window ids are not used again), popups any number of
times; when every client has gone nothing can happen any more, so this run and
`FocusReturns` do not check for deadlock.  The others do.

`MCGlobalPointer` has two windows, two positions and one button per device,
which is two buttons for the counter they share; one lock of each lifetime.
`MCTouchSeat` has three fingers and a cap of two, so that a down is refused
while others are lifted, and one surface of each kind.  Both are unbounded in
time.  `MCTextRelay` has two text inputs of one client and one of another, and
two external input methods: one can be bound while another is.  `MaxDones`
bounds the `done` events at three, one to be behind, one that is current and one
that overtakes; at the bound only what needs no `done` goes on, and a dispatch
can always begin or end.

### Fairness

`VsyncSpec` takes weak fairness of `Frame` alone, the steps that the render thread
takes whatever its clients do: each callback re-posts itself while a window is
shown.  The UI thread may stop anywhere and a session that is set up still ends.
Nothing is assumed of the client, nor of requests.

`HostFairness` of `GtkPresent` is weak fairness of the steps of the tick (a GLib
timer that never stops) and strong fairness of a queued draw: the window is on
screen, so GTK gets to it between some two ticks, but a tick may always come
first.  `DamagingSpec` adds clients that damage something in every commit, without
which `GtkFrameStall` has shown that callbacks are lost.  The other runs assume no
fairness: nothing in them is promised to happen, only what happens is to be right.

## 5. Proofs

All theorems hold for every value of the constants that satisfies the
assumptions of the modules; `MaxSerial`, `MaxDrags`, `MaxInputs`, `MaxEvents`,
`MaxCommits`, `MaxDones` and `MaxQueued` among them may be any number, so that
nothing rests on the bounds.

| module | theorem | property |
|---|---|---|
| `ToplevelConfigureProofs` | `TypesCorrect` | `TypeOK` |
| | `BookkeepingAgrees` | `PendingTracksUnacked` |
| | `ConfiguredImpliesAcked` | `ConfiguredMeansAcked` |
| | `CommitsWait` | `CommitWaitsForAck` |
| | `NestedNeverShrinks` | `FillsHostNeverShrinks` |
| | `ClientsAgree` | `ImplementsAgreement` |
| `ResizeHostsProofs` | `GtkTypesCorrect` | `GtkTypeOK` |
| | `SessionsAlwaysAgree` | `SessionsAgree` |
| | `DragSizesHeld` | `DragSizeHeld` |
| | `AgreementImplemented` | `ImplementsAgreement` |
| | `AndroidTypesCorrect` | `AndroidTypeOK` |
| | `RunningAlwaysKnown` | `RunningIsKnown` |
| | `AndroidFollowsAgreement` | `FollowsAgreement` |
| | `HostsKeepBooks` | `PendingTracksUnacked`, `ConfiguredMeansAcked` for both hosts |
| `ToplevelStatesProofs` | `StateTypesCorrect` | `StatesTypeOK` |
| | `StatesAgree` | `StatesSettle` |
| | `FullscreenSized` | `FullscreenHasSize` |
| | `SavedAsLongAsSpecial` | `SavedWhileSpecial` |
| | `BackToMaximized` | `UnfullscreenToMaximized` |
| | `StatesFollowAgreement` | `FollowsAgreement` |
| | `HeadlessAgrees` | `ImplementsAgreement`, without a native host |
| | `StatesShakeHands` | `ImplementsHandshake` |
| | `StatesKeepBooks` | `PendingTracksUnacked`, `ConfiguredMeansAcked` |
| `GtkPresentProofs` | `PresentTypesCorrect` | `GtkPresentTypeOK` |
| | `BuffersKept` | `NoBufferLost` |
| | `ShownPoolsFree` | `PoolFreeWhenShown` |
| | `AnswersAreShown` | `AnsweredWhenShown`, if no two surfaces share a window (`OwnWindows`) |
| | `WaitersDrawn` | `WaitersAreDrawn`, with `OwnWindows` and clients that damage what they commit |
| `HostFocusProofs` | `FocusTypesCorrect` | `FocusTypeOK` |
| | `KeyboardLives` | `KeyboardIsLive` |
| | `KeysFollow` | `KeysFollowFocus` |
| | `GrabsLive` | `GrabsAreLive` |
| | `ActivatedIsFocused` | `ActivatedHasKeyboard` |
| | `GrabsEnd` | `GrabEndsWithFocus` |
| | `NextIsFocused` | `NextWindowFocused` |
| `GlobalPointerProofs` | `PointerTypesCorrect` | `PointerTypeOK` |
| | `OwnerIsOne` | `PointerHasOwner` |
| | `LocksAgree` | `LocksFollowPointer` |
| | `HeldSurfaceKept` | `HeldSurfaceStays` |
| | `LockedPointerKept` | `LockedPointerStays` |
| `TouchSeatProofs` | `TouchTypesCorrect` | `TouchTypeOK` |
| | `ContactsDelivered` | `ContactDelivered` |
| | `MirrorIsBooked` | `MirrorIsContact` |
| | `ButtonReleased` | `ButtonFollowsMirror` |
| `TextRelayProofs` | `RelayTypesCorrect` | `RelayTypeOK` |
| | `OwnersInStep` | `OwnerInStep` |
| | `CurrentCommits` | `CommitsAreCurrent` |
| | `EnabledInputsLive` | `EnabledInputLives` |
| | `RelayIsDirect` | `ImplementsDirect` |

The type invariants `GtkTypeOK`, `AndroidTypeOK`, `StatesTypeOK`,
`GtkPresentTypeOK`, `FocusTypeOK`, `TouchTypeOK` and `RelayTypeOK` are proved and
therefore in no run.

**ToplevelConfigure.**  `PendingTracksUnacked` is not inductive: an ack cuts both
lists at the acked serial, and that leaves them with the same last element only if
both are sorted and neither runs ahead of the serial counter.  The inductive
invariant `ConfigureInv` therefore adds `SerialsOrdered`.  It also says that a
window which has committed a buffer is past `AwaitingFirstCommit`
(`CommittedPastFirst`), which is what closes the one gap in the guard of
`finalize_surface_commit`.  The proof has one lemma per operator on the `xdg`
record (`SendState`, `RecordSerial`, `SendToplevelConfigure`, `SetActivated`,
`Decorate`, `Ack`), each preserving the bookkeeping, and one step per action.
The two action properties follow from the invariant and the definition of a
commit: no other action writes the window's width.

**The agreement.**  Four specifications are shown to follow `SizeAgreement`, and
they share the lemmas, stated on the operators: what configures means for the
agreement (`ConfigureAgrees`), a request (`RequestAgreed`), a configure without one
(`TalkAgreed`), a commit (`CommitAgreed`) and a host that moves the window
(`MoveAgreed`).  The mapping of `unanswered` is Smithay's list and not the core's,
so that `CommitAgreed` needs `PendingTracksUnacked`: `finalize_surface_commit`
reads the core's.

**Resizing hosts.**  Both hosts build on `SessionInv`: `ConfigureInv`, well-typed
transactions and well-typed queues.  `GtkInv` adds `SessionsAgree` and
`DragSizeHeld`, which are inductive with it: a host step that writes the one writes
the other, and a commit while the host owns the size either meets the request or
is refused.  `AgreementImplemented` takes the actions
one by one: each host call maps to `HostAsks`, each commit to `ClientSets`,
`Meets` or `Refuses`, and every other step to `Talk` or a stutter.
`AndroidInv` adds `RunningIsKnown`, whose
proof needs types, and that whoever resizes has a size (`ThreadsOK`), and that the
threads do not meet as long as no other window has overtaken this one (`Exclusive`):
the UI thread opens a session only while the statics do not describe one of this
window's, the render thread ends one only while they do, and the core runs none
between the two halves of a settle.  Another window's stream is what breaks this,
and sets `overtaken`; `RecordWindow` takes it back, because the statics are this
window's again, unless the flag is about to be cleared.

**ToplevelStates.**  `StatesInv` says that the pending states are the ones last
announced and the last announcement is the one acked last (`Announced`), so that
they are current once nothing is unacked (`Current`).  For the handshake an ack is
either the last one, and then the announcement it finds by its serial is the
pending one, or an older one: that it leaves the list non-empty, and so must not
touch the current states, rests on the sorted serials of `ConfigureInv`.

**GtkPresent.**  `NoBufferLost` is inductive once a surface is known to show a
buffer of its own pool (`BufferInv`).
A pool is free because what is not queued for release is current, and what was
drawn since the last tick is current too: `TickInv` says that between two ticks
the scene is the core's state and nothing is staged or on its way.  The last
theorem needs more: that the last commit of a surface in the queue is the one
that is current, and that a surface waiting for its callback has a commit in the
queue, its current buffer staged, or the newest pixels cached (`AnswerInv`).
Staging is where `OwnWindows` is used, and `GtkSharedWindow` shows that the
theorem is false without it.  `WaitersAreDrawn` is the safety half of
`FramesAnswered`, which TLC checks.  While a tick is running it does not hold; what
holds is `DamageInv`, that a waiting surface is damaged or has its draw queued
already, and `AnswerInv` turns the one into the other at the end of the tick: the
damage reaches the scene because the surface's newest pixels have reached the cache.

**HostFocus.**  `SeatInv` is preserved by each operator of `SeatFocus`, one lemma
each: what exists is consistent (`Consistent`: roles have surfaces, a popup's
ancestors are known), the keyboard is on something that lives (`KbOK`), Smithay
follows it (`KeysOK`), and its root is activated (`ActiveOK`, headless only:
GTK's two controllers set the flag for themselves).  `StackOK` is the invariant of
the grab stack; `GrabStep` says of an operator that it leaves no grab behind when
it moves the keyboard to another root.  It is a relation between two seats that
composes, so that handlers which call several operators get it from their parts.

**GlobalPointer.**  `PointerInv` adds one fact to the three invariants: there is
no target before the first motion.  Every handler ends in `Repick` or `Sync`, and
two lemmas say what these establish whatever went before.

**TouchSeat.**  `TouchInv` relates the record to the surfaces that exist (`Sound`),
to the fingers, and says when bookkeeping and slots are equal (`Exact`, until a
disconnect) and when the button is (`ButtonExact`, additionally without repicks).

**TextRelay.**  `RelayInv` counts: what Smithay has sent is what the stand-in has
read plus what is on the wire, and the last word on the wire is whether a text
input is enabled (`WireExact`); the stand-in's commits carry serials it has seen;
the owner's count and state are the stand-in's.  `CommitsAreCurrent` then is
arithmetic on the serial that the relay computes.  `RelayIsDirect` takes the steps
one by one: `fn finish` maps to `Read` because it brings the mirror to `dones` and
the owner with it, and the change of owner changes nothing that the abstract input
method has seen, because both sides of the mapping are the mirror.

Model-checked only: the liveness properties `RecordedSessionEnds` and
`FramesAnswered`, because liveness under fairness is out of the prover's reach.
The remaining properties of passing runs are all proved.

## 6. Not modelled

Most of the crate is protocol boilerplate (a dispatch implementation per
interface), user interface (`linux/ui`, Swift, Kotlin), command line and C
wrappers around the library interface.  It keeps little state that two actors
share, and modelling it would restate it line by line.  Within the parts that are
modelled:

- Windows whose size the host owns for good (`host_locked`, kiosk and the
  fullscreen shell), and the v6 protocol's branch of `send_toplevel_configure`,
  the only one that stores minimum and maximum sizes.
- The difference between the output and its usable area on Android; a second
  output; on Android, windows of the fullscreen shell, which are the only ones
  `host_locked`.
- Destruction of the toplevel during a resize, and of surfaces and buffers while
  they are shown.
- DMA-BUF and IOSurface buffers, a buffer shared by two surfaces, surfaces
  without a host window, layer and cursor surfaces, presentation feedback.
- Keyboard focus: subsurfaces, the window tree's order (any surface may be under a
  press), key repeat and modifiers, the macOS and Android hosts' focus calls.
  `pending_keyboard_focus_window` is left out: a host learns of a window when the
  core has it, so what is deferred waits for a window that is gone, and its id is
  not used again (`ffi/api.rs:4727`, `core/state/windows.rs:264`).
- Pointer: motion inside a surface, axes and gestures, confinement (it bounds
  positions, and goes on and off as a lock does), the pointer focus of a native
  host, drag and drop.
- Text: input method v1, keyboard grabs of an input method, popup surfaces, and
  text inputs of clients that disconnect.

And whole components, listed with their reasons in `PROJECT.json`: subsurfaces,
xdg-shell v6, kiosk and fullscreen shell, the selection and the clipboard, the
session lock, scene building, sockets and IPC, profiles and settings, command
lines, the Apple and Wear interfaces, the frame clock, and vendored code.
