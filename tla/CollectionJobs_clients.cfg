SPECIFICATION FairSpec
CONSTANTS
  Ids = {i1, i2}
  Attributes = {a1, a2}
  Secrets = {x1}
  Passwords = {w0, w1}
  DefaultPassword = w0
  Clients = {c1, c2}
  TailItems = 1
  NoItem = NoItem
  Freed = Freed
  Garbage = Garbage
VIEW JobState
INVARIANT TypeOK
INVARIANT DirtyIsPending
INVARIANT SavedUnlessDirty
INVARIANT SearchFindsLive
PROPERTY UnlockReported
PROPERTY LockKeepsChanges
PROPERTY ChangesDrain
