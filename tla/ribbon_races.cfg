SPECIFICATION HSpec
CONSTANTS
  Users = {u1, u2, x}
  Registered = {u1, u2}
  Sessions = {s1, s2}
SYMMETRY Symmetry
INVARIANTS
  MissingChatsWereRaced
  ChatsAcrossBlocksWereRaced
PROPERTIES
  ImplementsMatching
