CONSTANTS
  a = a
  b = b
  i = i
  j = j
  k = k
  Host = Host
  None = None
  Clients = {a, b}
  Inputs = {i, j, k}
  Owner <- MCOwner
  Methods = {e, f}
  MaxDones = 3
  MaxQueued = 1
SPECIFICATION RelaySpec
INVARIANTS OwnerInStep CommitsAreCurrent EnabledInputLives
PROPERTIES ImplementsDirect
