SPECIFICATION RestartedSpec
CONSTANTS
  Ids = {i1, i2}
  Attributes = {a1, a2}
  Secrets = {x1, x2}
  Passwords = {w0, w1}
  DefaultPassword = w0
  Clients = {c1, c2}
  TailItems = 1
  NoItem = NoItem
  Freed = Freed
  Garbage = Garbage
VIEW JobState
SYMMETRY Symmetry
PROPERTY OpensWithItsPasswordOnly
