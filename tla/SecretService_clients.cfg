CONSTANTS
  c1 = c1
  c2 = c2
  i1 = i1
  i2 = i2
  s1 = s1
  None = None
  Colls = {c1, c2}
  Found = {c1}
  Items = {i1}
  Stored <- MCStored
  Sessions = {s1}
  MaxPrompts = 2
  MaxJobs = 3
  MaxLocks = 1
SPECIFICATION FairSpec
INVARIANT TypeOK
INVARIANT ReportedIsOpen
INVARIANT ListsAreLive
INVARIANT ItemsAgree
PROPERTY PromptsKeepWord
PROPERTY PromptsComplete
CHECK_DEADLOCK FALSE
