SPECIFICATION Spec
CONSTANTS
  Requests = {like, other}
  Match = like
  Workers = {w1, w2}
  Capacity = 2
  Attempts = 2
  Count <- MCCount
INVARIANTS
  AcceptedEventsAreSent
