SPECIFICATION Spec
CONSTANTS
  Instances = {core, seed}
  Servers = {core}
  Files = 2
  Releases = {0, 1}
  NoOne = NoOne
  MaxStarts = 3
  Clients = {c1, c2, c3}
  Lowered = ann
  Spellings = {Ann, ann}
  Lower <- MCLower
  SeedAccounts <- MCSeedAccounts
  Passwords = {p, demo}
  DemoPassword = demo
  NoRow = NoRow
  Empty = Empty
SYMMETRY Symmetry
INVARIANTS
  SchemaIsWhole
  NoFileTwice
  RegisteredKeepsPassword
  RegisteredCanLogIn
  UnusableOnlyAfterError
CHECK_DEADLOCK FALSE
