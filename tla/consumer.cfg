SPECIFICATION FairSpec
CONSTANTS
  Length = 4
  Batch = 2
INVARIANTS
  TypeOK
  AckedArePersisted
  StoredAtMostOnce
PROPERTIES
  EntriesAreHandled
  StopEndsTheTask
