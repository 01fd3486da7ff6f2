SPECIFICATION Spec
CONSTANTS
  Task = {t1, t2}
  Sticky = Sticky
  Main = Main
  MaxSeq = 4
  PatchAndEnd = FALSE
INVARIANTS TypeOK Recoverable
PROPERTY ImplementsAtomic
SYMMETRY StorageSymmetry
CONSTRAINT LogBound
CHECK_DEADLOCK FALSE
