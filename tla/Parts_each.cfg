SPECIFICATION MCSpec
CONSTANTS
  Wallets = {"w1", "w2", "w3"}
  Order <- MCOrder
  Content <- MCContent
  Names = {"f", "g", "h"}
  Keys = {"a", "b"}
  Kinds = {"pw", "map"}
  Protection <- MCProtection
  Marker <- MCMarker
  None = None
  MaxPauses = 1
  MaxKills = 1
  MaxLaunches = 2
  Groups <- MCGroups
  WalletFolders = {"", "f"}
  Global = ""
  WalletKeys = {"k", "m"}
  Values = {"v"}
  Passwords <- MCPasswords
  Block = 1
  Clients = {"c1", "c2"}
  Versions = {1, 2}
  Version = 1
  Asserts = {TRUE, FALSE}
  MaxTicks = 1
  Ids = {1, 2, 3}
  Attributes = {"a", "b", "ab"}
  Matching <- MCMatching
  Labels = {"l", "m"}
  Sizes = {1, 2, 4}
  Chunk = 3
  Least = 2
  MaxFields = 5
CHECK_DEADLOCK FALSE
INVARIANT PartsTypeOK
INVARIANT CopiesTheWallet
INVARIANT QuitsWhenDone
 
INVARIANT SidesAgree
INVARIANT ViewIsContents
INVARIANT OnlyTheEndIsLost
PROPERTY KilledIsQuiet
PROPERTY ImportEndsInTime
PROPERTY OpensAsSaved
PROPERTY ServesInOrder
PROPERTY EveryoneIsServed
