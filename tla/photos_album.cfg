SPECIFICATION Spec
CONSTANTS
  Keys = {k1, k2, k3}
  Sessions = {s1, s2}
  MaxPosition = 1
SYMMETRY Symmetry
INVARIANTS
  TypeOK
  CreatedPhotoIsWhole
  DeletedPhotoIsGone
  AlbumIsOrdered
PROPERTIES
  FileNeverOutlivesRow
