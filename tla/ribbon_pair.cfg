SPECIFICATION Spec
CONSTANTS
  Users = {u1, u2}
  Registered = {u1, u2}
  Sessions = {s1, s2, s3}
SYMMETRY Symmetry
INVARIANTS
  TypeOK
  ChatBackedByBothLikes
  OneChatPerPair
  ChatPartnersHaveProfiles
  AnnouncedMatchIsCommitted
  PendingWritesAreExclusive
PROPERTIES
  BansOnlyLiftedByAuthor
