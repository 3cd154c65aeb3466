CONSTANTS
  s = s
  t = t
  x = x
  y = y
  None = None
  Surfaces = {s, t}
  Positions = {p1, p2}
  Buttons = {b}
  Locks = {x, y}
  LockedSurface <- MCLockedSurface
  OneShot = {x}
SPECIFICATION PointerSpec
INVARIANTS PointerTypeOK PointerHasOwner LocksFollowPointer
PROPERTIES HeldSurfaceStays LockedPointerStays
