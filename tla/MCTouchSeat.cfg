CONSTANTS
  terminal = terminal
  plain = plain
  nested = nested
  a = a
  b = b
  None = None
  Surfaces = {terminal, plain, nested}
  Fingers = {1, 2, 3}
  MaxContacts = 2
  Terminals = {terminal}
  Nested = {nested}
  Clients = {a, b}
  Owner <- MCOwner
SPECIFICATION TouchSpec
INVARIANTS ContactDelivered MirrorIsContact ButtonFollowsMirror
