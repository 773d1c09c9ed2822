\* Edits of two files, one write from outside.
SPECIFICATION Spec
CONSTANTS
  a = a
  b = b
  c = c
  d = d
  Path <- MCPath
  Absent = Absent
  Other = Other
  Plans <- MCPlans
  FirstTexts <- MCFirstTexts
  MaxForeign = 1
INVARIANTS
  NothingIsLost
  AnswersAreTrue
CHECK_DEADLOCK FALSE
