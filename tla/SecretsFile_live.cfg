SPECIFICATION FairSpec
CONSTANTS
  Stores = {s1, s2}
  Writers = {s1, s2}
  Collections = {c1}
  Seeded = {}
  Inodes = {1, 2, 3, 4, 5, 6}
  NoInode = NoInode
  Dir = Dir
  NoStore = NoStore
  NoCollection = NoCollection
  InitialFile = "missing"
  Faults = {"crash"}
  ChecksSetup = TRUE
  AssertsOn = TRUE
  CipherChecksKey = FALSE
  MaxCreates = 1
VIEW CallState
INVARIANT LockExclusive
INVARIANT CatalogueCoherent
PROPERTY CallsReturn
