SPECIFICATION Spec
CONSTANTS
  Messages = {m1, m2, m3}
  Users = {alice, bob}
  Reader = alice
  Own = m1
  Sender <- MCSender
  Limit = 1
  MaxClock = 4
INVARIANTS
  TypeOK
  MessagesPredateClosing
  WalkIsOrdered
  WalkIsComplete
