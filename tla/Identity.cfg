SPECIFICATION Spec
CONSTANTS
  a = a
  b = b
  n1 = n1
  n2 = n2
  None = None
  Account = {a, b}
  Name = {n1, n2}
  Task = {1, 2}
  Resolver <- MCResolver
  Owner <- MCOwner
  Primary <- MCPrimary
  MaxFaults = 1
  MaxReloads = 1
  Draw = {1, 2}
INVARIANTS
  BusyIsServed
  ViewingIsTheWallets
  OwnerRecovers
PROPERTIES
  LookUpsEnd
CHECK_DEADLOCK FALSE
