SPECIFICATION Spec
CONSTANTS
  Stores = {s1, r1}
  Writers = {s1}
  Collections = {c0, c1, c2, c3}
  Seeded = {c0}
  Inodes = {1, 2, 3, 4, 5, 6}
  NoInode = NoInode
  Dir = Dir
  NoStore = NoStore
  NoCollection = NoCollection
  InitialFile = "populated"
  Faults = {"write"}
  ChecksSetup = TRUE
  AssertsOn = TRUE
  CipherChecksKey = FALSE
  MaxCreates = 1
VIEW FileState
SYMMETRY Symmetry
INVARIANT AckedListed
INVARIANT BackupIsOlder
INVARIANT ReadersSeeWholeFiles
PROPERTY ImplementsCatalogue
