CONSTANTS
  a = a
  b = b
  U = U
  V = V
  p = p
  q = q
  l = l
  None = None
  Clients = {a, b}
  Toplevels = {U, V}
  Popups = {p, q}
  Layers = {l}
  Owner <- MCOwner
  Top <- MCTop
  Above <- MCAbove
  TopLayers = {l}
  Interactivities = {"unmapped", "on_demand", "exclusive"}
  HistoryLimit = 2
SPECIFICATION FocusSpec
CHECK_DEADLOCK FALSE
PROPERTY FocusReturns
