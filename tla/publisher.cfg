SPECIFICATION FairSpec
CONSTANTS
  Requests = {like, other}
  Match = none
  Workers = {w1, w2}
  Capacity = 1
  Attempts = 2
  Count <- MCCount
INVARIANTS
  TypeOK
  EventsAccountedFor
  OneOwner
  PanicsOnlyWhenLate
PROPERTIES
  ShutdownCompletes
  BufferDrains
