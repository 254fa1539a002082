SPECIFICATION Spec
CONSTANTS
  Stores = {s1}
  Writers = {s1}
  Collections = {c0, c1, c2}
  Seeded = {c0}
  Inodes = {1, 2, 3, 4}
  NoInode = NoInode
  Dir = Dir
  NoStore = NoStore
  NoCollection = NoCollection
  InitialFile = "populated"
  Faults = {"crash"}
  ChecksSetup = TRUE
  AssertsOn = TRUE
  CipherChecksKey = FALSE
  MaxCreates = 1
VIEW FileState
SYMMETRY Symmetry
INVARIANT AckedSurvives
