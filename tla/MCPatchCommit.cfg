\* Patches of up to three operations on three files, one foreign write.
SPECIFICATION Spec
CONSTANTS
  a = a
  b = b
  c = c
  t1 = t1
  t2 = t2
  Path = {a, b, c}
  Text = {t1, t2}
  Absent = Absent
  FirstDisk <- MCFirstDisk
  MaxOperations = 3
  MaxForeign = 1
INVARIANTS
  AnswersAreTrue
  PreflightStillHolds
PROPERTIES
  OnlyAuthorizedFilesAreChanged
CHECK_DEADLOCK FALSE
