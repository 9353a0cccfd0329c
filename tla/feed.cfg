SPECIFICATION MCSpec
CONSTANTS
  Rows = {1, 2, 3, 4, 5, 6, 7}
  Kinds = {a}
  Kind = a
  HalfTurn = 3
  Places <- MCPlaces
  SearchRadius = 2
  Distances = {1, 3}
  Limit = 2
  NoProfile = NoProfile
  Nowhere = Nowhere
  NoFilters = NoFilters
  NoCursor = NoCursor
  MaxChanges = 2
INVARIANTS
  WalkIsOrdered
  WalkIsComplete
PROPERTIES
  ShownWereAdmissible
  RequestsEnd
