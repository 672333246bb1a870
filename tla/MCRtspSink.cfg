SPECIFICATION Spec
CONSTANTS
  s1 = s1
  s2 = s2
  c1 = c1
  c2 = c2
  c3 = c3
  e1 = e1
  e2 = e2
  Sessions = {s1, s2}
  Clients = {c1, c2, c3}
  Endpoints = {e1}
  None = None
  MaxUnits = 3
SYMMETRY Interchangeable
INVARIANTS
  MuxersBelongToClients
  PlaysFromKeyframe
  HeldToNextKeyframe
  NothingAfterTeardown
