\* Transports and sessions run out, bounds of the model.
SPECIFICATION FairSpec
CONSTANTS
  A = A
  B = B
  r1 = r1
  r2 = r2
  r3 = r3
  ka = ka
  kb = kb
  None = None
  Clients = {A, B}
  Requests = {r1, r2, r3}
  ClientOf <- MCClientOf
  SoftwareKeys = {ka, kb}
  Headers <- OwnHeader
  Issued <- Unlinked
  MaxTransports = 3
  MaxSessions = 1
PROPERTIES
  AdoptionResumes
  KeepaliveStops
CHECK_DEADLOCK FALSE
