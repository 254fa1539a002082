SPECIFICATION Spec
CONSTANTS
  Procs = {p1, p2, p3}
  Clients = {p1, p2}
  PamCallers = {p3}
  Passwords = {w1}
  NoKey = NoKey
  NoEntities = NoEntities
  Lost = Lost
  MaxFiles = 3
  SetupFirst = FALSE
  Rekey = FALSE
  AddKeyFails = TRUE
  Deletes = TRUE
  ChecksSetup = TRUE
SYMMETRY Symmetry
INVARIANT TypeOK
INVARIANT SamePasswordOpens
INVARIANT EntitiesReadable
