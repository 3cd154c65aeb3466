----------------------------- MODULE SeatFocus -----------------------------
(***************************************************************************)
(* Who has the keyboard.  The core keeps it in four places that its        *)
(* handlers must keep in step: the focused window and the windows focused  *)
(* before it (window/focus.rs), the surface with the keyboard              *)
(* (seat.keyboard.focus), Smithay's keyboard, which sends the keys, and    *)
(* the stack of grabbing popups (state/popup_grab.rs).  The handlers call  *)
(* each other, so each is an operator on a record of all four and of what  *)
(* they read:                                                              *)
(*                                                                         *)
(*   clients, surfaces, windows, popups   what exists                      *)
(*   born                     toplevels that have existed: window ids are  *)
(*                            not used again                               *)
(*   minimized, activated     toplevels in that state                      *)
(*   layers                   keyboard interactivity of mapped layer       *)
(*                            surfaces                                     *)
(*   focused, history         FocusManager                                 *)
(*   kb                       seat.keyboard.focus                          *)
(*   keys                     Smithay: the surface that keys go to         *)
(*   stack                    seat.popup_grab_stack                        *)
(*                                                                         *)
(* A toplevel or popup, its window id and its surface have the same name;  *)
(* surfaces without a role of their own (subsurfaces) are left out.        *)
(***************************************************************************)
EXTENDS Integers, SequencesExt

CONSTANTS
  Clients,
  Toplevels, Popups, Layers,
  Owner,      \* the client of each
  Top,        \* the toplevel a popup hangs from, None under a layer surface
  Above,      \* a popup and the popups between it and the toplevel
  TopLayers,  \* layer surfaces on the top or overlay layer
  Interactivities,  \* what clients ask for; "unmapped": no buffer
  HistoryLimit,
  None

Surfaces == Toplevels \cup Popups \cup Layers
Roles == Toplevels \cup Popups

ASSUME FocusAssumption ==
  /\ None \notin Surfaces \cup Clients
  /\ Toplevels \cap Popups = {} /\ Layers \cap Roles = {}
  /\ Owner \in [Surfaces -> Clients]
  /\ Top \in [Popups -> Toplevels \cup {None}]
  /\ Above \in [Popups -> SUBSET Popups]
  /\ \A p \in Popups : p \in Above[p]
  /\ \A p \in Popups : Top[p] # None => Owner[p] = Owner[Top[p]]
  /\ TopLayers \subseteq Layers
  /\ "unmapped" \in Interactivities
  /\ Interactivities \subseteq {"unmapped", "none", "on_demand", "exclusive"}
  /\ HistoryLimit \in Nat \ {0}

Seats ==
  [clients : SUBSET Clients, surfaces : SUBSET Surfaces,
   windows : SUBSET Toplevels, popups : SUBSET Popups,
   born : SUBSET Toplevels,
   minimized : SUBSET Toplevels, activated : SUBSET Toplevels,
   layers : [Layers -> Interactivities],
   focused : Roles \cup {None}, history : Seq(Roles),
   kb : Surfaces \cup {None}, keys : Surfaces \cup {None},
   stack : Seq(Popups)]

EmptySeat ==
  [clients |-> Clients, surfaces |-> {}, windows |-> {}, popups |-> {},
   born |-> {}, minimized |-> {}, activated |-> {},
   layers |-> [l \in Layers |-> "unmapped"],
   focused |-> None, history |-> <<>>, kb |-> None, keys |-> None,
   stack |-> <<>>]

-----------------------------------------------------------------------------
\* fn popup_root_window, and activation_surface of a surface of that name
RootWindow(F, w) ==
  IF w \in F.windows THEN w
  ELSE IF w \in Popups /\ Above[w] \subseteq F.popups /\ Top[w] \in F.windows
       THEN Top[w] ELSE None

\* The history once w is focused: the window that had it comes first, and is in
\* it once.
Remember(F, w) ==
  IF F.focused \in {None, w} THEN F.history
  ELSE LET all == <<F.focused>> \o RemoveFirst(F.history, F.focused)
       IN SubSeq(all, 1, IF Len(all) < HistoryLimit THEN Len(all) ELSE HistoryLimit)

\* FocusManager::set_keyboard_focus
BookFocus(F, w) ==
  [F EXCEPT !.history = Remember(F, w), !.focused = w]

\* Mutant: a surface of the window that is active already gets no enter.
SetKbPerWindow(F, s) ==
  IF RootWindow(F, F.kb) = RootWindow(F, s) /\ F.kb # None THEN [F EXCEPT !.kb = s]
  ELSE LET old == RootWindow(F, F.kb)
           new == RootWindow(F, s)
       IN [F EXCEPT !.kb = s,
                    !.keys = IF s \in F.surfaces THEN s ELSE None,
                    !.activated = IF old = new THEN @
                                  ELSE (@ \ {old}) \cup ({new} \ {None})]

\* Mutant: only a toplevel's own surface keeps it activated.
SetKbActivatesOwn(F, s) ==
  IF F.kb = s THEN F
  ELSE [F EXCEPT !.kb = s,
                 !.keys = IF s \in F.surfaces THEN s ELSE None,
                 !.activated = (@ \ {F.kb}) \cup ({s} \cap F.windows)]

\* fn set_keyboard_focus_surface
SetKb(F, s) ==
  IF F.kb = s THEN F
  ELSE LET old == RootWindow(F, F.kb)
           new == RootWindow(F, s)
       IN [F EXCEPT !.kb = s,
                    !.keys = IF s \in F.surfaces THEN s ELSE None,
                    !.activated = IF old = new THEN @
                                  ELSE (@ \ {old}) \cup ({new} \ {None})]

\* fn exclusive_layer_focus
Exclusive(F) == {l \in TopLayers : F.layers[l] = "exclusive"}

\* fn layer_takes_click_focus
TakesClick(F, l) == l \in Layers /\ F.layers[l] \in {"on_demand", "exclusive"}

-----------------------------------------------------------------------------
\* Popup grabs

\* fn top_grab_popup_surface
TopGrab(F) ==
  LET i == SelectLastInSeq(F.stack, LAMBDA p : p \in F.popups)
  IN IF i = 0 THEN None ELSE F.stack[i]

\* fn grab_root_window: of the popup at the bottom of the stack
GrabRoot(F) ==
  IF F.stack[1] \in F.popups THEN RootWindow(F, F.stack[1]) ELSE None

\* fn refocus_after_popup_grab
Refocus(F) ==
  SetKb(F, IF TopGrab(F) # None THEN TopGrab(F)
           ELSE IF F.focused \in F.windows THEN F.focused ELSE None)

\* fn begin_popup_grab
BeginGrab(F, p) ==
  SetKb([F EXCEPT !.stack = IF p \in Range(@) THEN @ ELSE Append(@, p)], p)

\* fn end_popup_grab_for
EndGrab(F, p) ==
  LET G == [F EXCEPT !.stack = RemoveFirst(@, p)]
  IN IF G.kb = p THEN Refocus(G) ELSE G

\* fn focus_change_ends_popup_grab
EndsGrab(F, w) ==
  /\ F.stack # <<>>
  /\ RootWindow(F, w) = None \/ RootWindow(F, w) # GrabRoot(F)

\* fn dismiss_popup_grab_without_refocus: the client destroys the popups later.
DismissOnly(F) == [F EXCEPT !.stack = <<>>]

\* fn dismiss_popup_grab
Dismiss(F) ==
  IF F.kb \in F.popups THEN Refocus(DismissOnly(F)) ELSE DismissOnly(F)

\* fn click_ends_popup_grab
ClickEndsGrab(F, s) ==
  /\ F.stack # <<>>
  /\ s = None \/ (s # None /\ Owner[s] # Owner[F.stack[1]])

-----------------------------------------------------------------------------
\* Focus of windows

\* Mutant: a grab of another window's popup goes on.
FocusKeepsGrab(F, w) ==
  LET B == BookFocus(F, w)
  IN IF w \in Popups THEN B
     ELSE SetKb(B, IF Exclusive(B) # {} THEN CHOOSE l \in Exclusive(B) : TRUE ELSE w)

\* fn set_focused_window, of a window, a popup's window id, or nothing
SetFocused(F, w) ==
  LET D == IF EndsGrab(F, w) THEN DismissOnly(F) ELSE F
      B == BookFocus(D, w)
  IN IF w # None /\ w \notin F.windows THEN B
     ELSE SetKb(B, IF Exclusive(B) # {} THEN CHOOSE l \in Exclusive(B) : TRUE ELSE w)

\* The window of ws that had the focus last
Previous(F, w, ws) ==
  LET i == SelectInSeq(F.history, LAMBDA h : h # w /\ h \in ws)
  IN IF i = 0 THEN None ELSE F.history[i]

\* Mutant: the next window is only booked, as on a native host.
DestroyBooksNext(F, w, headless) ==
  LET G == [F EXCEPT !.windows = @ \ {w}, !.minimized = @ \ {w}]
  IN IF F.focused # w THEN G ELSE BookFocus(G, Previous(F, w, G.windows))

\* fn destroy_window
DestroyWindow(F, w, headless) ==
  LET G == [F EXCEPT !.windows = @ \ {w}, !.minimized = @ \ {w}]
      next == Previous(F, w, G.windows)
  IN IF w \notin F.windows \/ F.focused # w THEN G
     ELSE IF headless THEN SetFocused(G, next) ELSE BookFocus(G, next)

\* fn register_window, in new_toplevel
RegisterWindow(F, w, headless) ==
  LET G == BookFocus([F EXCEPT !.windows = @ \cup {w}, !.surfaces = @ \cup {w},
                               !.born = @ \cup {w}], w)
      H == IF headless THEN SetFocused(G, w) ELSE G
  IN [H EXCEPT !.activated = @ \cup {w}]

\* fn minimize_toplevel
MinimizeToplevel(F, w, headless) ==
  LET G == [F EXCEPT !.minimized = @ \cup {w}]
  IN IF headless /\ F.focused = w
     THEN SetFocused(G, Previous(F, w, G.windows \ G.minimized))
     ELSE G

\* fn activate_window
ActivateWindow(F, w) ==
  SetFocused([F EXCEPT !.minimized = @ \ {w}], w)

\* Mutant: the keyboard stays on a surface that is gone.
RemoveKeepsKb(F, s) == [F EXCEPT !.surfaces = @ \ {s}]

\* fn remove_surface: Smithay is not told.
RemoveSurface(F, s) ==
  [F EXCEPT !.surfaces = @ \ {s}, !.kb = IF @ = s THEN None ELSE @]

\* Mutant: the grab ends only for the popup that has the keyboard.
PopupDestroyedKeepsGrab(F, p) ==
  LET G == [F EXCEPT !.popups = @ \ {p}] IN IF G.kb = p THEN EndGrab(G, p) ELSE G

\* fn popup_destroyed
PopupDestroyed(F, p) == EndGrab([F EXCEPT !.popups = @ \ {p}], p)

-----------------------------------------------------------------------------
\* Layer surfaces

\* fn refresh_layer_keyboard_focus
RefreshLayers(F) ==
  IF Exclusive(F) # {} THEN SetKb(F, CHOOSE l \in Exclusive(F) : TRUE)
  ELSE IF F.kb \in Layers /\ ~TakesClick(F, F.kb)
       THEN SetKb(F, IF F.focused \in F.windows THEN F.focused ELSE None)
       ELSE F

\* fn commit_layer_surface, with another interactivity or none
CommitLayer(F, l, interactivity) ==
  LET G == [F EXCEPT !.layers[l] = interactivity,
                     !.surfaces = @ \cup {l}]
      newly == F.layers[l] = "unmapped" /\ TakesClick(G, l)
  IN RefreshLayers(IF newly THEN SetKb(G, l) ELSE G)

\* A client is gone.  layer_destroyed runs for its layer surfaces (Smithay); the
\* handlers of its other objects look the client up, and it is not there.
LayersGone(F, c) ==
  RefreshLayers([F EXCEPT
    !.clients = @ \ {c},
    !.layers = [l \in Layers |-> IF Owner[l] = c THEN "unmapped" ELSE @[l]]])

\* Then cleanup_disconnected_client destroys its windows, and after them its
\* surfaces and popups, whose keys stay in the grab stack; client_disconnected
\* ends with Smithay's keyboard, if its surface still knows its client.
SurfacesGone(F, c, known) ==
  LET mine == {s \in F.surfaces : Owner[s] = c}
  IN [F EXCEPT !.surfaces = @ \ mine,
               !.kb = IF @ \in mine THEN None ELSE @,
               !.keys = IF known /\ @ \in Surfaces /\ Owner[@] = c THEN None ELSE @,
               !.popups = {p \in @ : Owner[p] # c}]

-----------------------------------------------------------------------------
\* Input

\* deliver_global_button, a press on s or on nothing
GlobalPress(F, s) ==
  LET w == IF s \in F.windows \cup F.popups THEN s ELSE None
      D == IF ~ClickEndsGrab(F, s) THEN F
           ELSE IF w # None THEN DismissOnly(F) ELSE Dismiss(F)
  IN IF w # None THEN SetFocused(D, w)
     ELSE IF TakesClick(D, s) THEN SetKb(D, s) ELSE D

\* inject_touch_down_on_surface, without the contact (TouchPoints)
TouchDown(F, s) ==
  IF s \in F.windows \cup F.popups THEN SetFocused(F, s) ELSE F
=============================================================================
