CONSTANTS
  a = a
  b = b
  U = U
  V = V
  p = p
  q = q
  l = l
  None = None
  Clients = {a, b}
  Toplevels = {U, V}
  Popups = {p, q}
  Layers = {l}
  Owner <- MCOwner
  Top <- MCTop
  Above <- MCAbove
  TopLayers = {l}
  Interactivities = {"unmapped", "on_demand", "exclusive"}
  HistoryLimit = 2
SPECIFICATION FocusSpec
INVARIANTS KeyboardIsLive KeysFollowFocus GrabsAreLive ActivatedHasKeyboard
PROPERTIES GrabEndsWithFocus NextWindowFocused
CHECK_DEADLOCK FALSE
