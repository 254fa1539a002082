SPECIFICATION Spec
CONSTANTS
  Procs = {p1, p2}
  Clients = {p1, p2}
  PamCallers = {}
  Passwords = {w1}
  NoKey = NoKey
  NoEntities = NoEntities
  Lost = Lost
  MaxFiles = 3
  SetupFirst = TRUE
  Rekey = TRUE
  AddKeyFails = FALSE
  Deletes = FALSE
  ChecksSetup = TRUE
SYMMETRY Symmetry
INVARIANT SamePasswordOpens
