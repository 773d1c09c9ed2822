CONSTANTS
  c1 = c1
  c2 = c2
  NoOne = NoOne
  Caller = {c1, c2}
  MaxPending = 1
  MaxRevision = 3
  MaxEngines = 2
  MaxPreviews = 2
SPECIFICATION Spec
INVARIANTS
  ViewsAreHeldWhileNeeded
  HoldersRunOn
PROPERTIES
  AnswersAreOfACurrentView
SYMMETRY Tasks
CHECK_DEADLOCK FALSE
