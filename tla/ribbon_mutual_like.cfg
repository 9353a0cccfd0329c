SPECIFICATION Spec
CONSTANTS
  Users = {u1, u2}
  Registered = {u1, u2}
  Sessions = {s1, s2}
INVARIANTS
  MutualLikesHaveChat
