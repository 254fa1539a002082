SPECIFICATION Spec
CONSTANTS
  Procs = {p1, p2}
  Clients = {p1, p2}
  PamCallers = {p1, p2}
  Passwords = {w1}
  NoKey = NoKey
  NoEntities = NoEntities
  Lost = Lost
  MaxFiles = 2
  SetupFirst = TRUE
  Rekey = TRUE
  AddKeyFails = FALSE
  Deletes = FALSE
  ChecksSetup = FALSE
SYMMETRY Symmetry
INVARIANT OneLockPerFile
PROPERTY KeyStays
