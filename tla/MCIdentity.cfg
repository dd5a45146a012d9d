\* Transports and sessions run out, bounds of the model.
SPECIFICATION Spec
CONSTANTS
  A = A
  B = B
  r1 = r1
  r2 = r2
  r3 = r3
  ka = ka
  kb = kb
  None = None
  Clients = {A, B}
  Requests = {r1, r2, r3}
  ClientOf <- MCClientOf
  SoftwareKeys = {ka, kb}
  Headers <- AnyHeader
  Issued <- Unlinked
  MaxTransports = 2
  MaxSessions = 2
INVARIANTS
  BoundToStatedIdentity
PROPERTIES
  BootstrapActsAsLinked
CHECK_DEADLOCK FALSE
