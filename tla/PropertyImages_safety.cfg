\* Two admins on one listing of up to three images, any fault.
CONSTANTS
  Images = {i1, i2, i3}
  Calls = {c1, c2}
  None = None
  Faults = {"crash", "db", "storage", "rebase"}
SPECIFICATION Spec
SYMMETRY Symmetric
INVARIANTS
  TypeOK
  RowHasFile
  FileHasOwner
  CollisionNeedsOverlap
