CONSTANTS
  c1 = c1
  c2 = c2
  NoOne = NoOne
  Caller = {c1, c2}
  Watch = TRUE
  MaxRevision = 3
SPECIFICATION Spec
INVARIANT ClosedEngineLetsGo
PROPERTIES
  SearchesShowSettledChanges
  CallsReturn
