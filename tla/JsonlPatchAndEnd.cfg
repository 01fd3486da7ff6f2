SPECIFICATION Spec
CONSTANTS
  Task = {t1}
  Sticky = Sticky
  Main = Main
  MaxSeq = 3
  PatchAndEnd = TRUE
INVARIANT Recoverable
CHECK_DEADLOCK FALSE
