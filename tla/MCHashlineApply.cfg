\* All sections in all orders, two to an edit.
SPECIFICATION PlanSpec
CONSTANTS
  o1 = o1
  o2 = o2
  o3 = o3
  x = x
  changed = changed
  named = named
  Anonymous = Anonymous
  Empty = Empty
  Unseen = Unseen
  Line <- MCLine
  Register <- MCRegister
  Sections <- MCSections
  Stored <- MCStored
  MaxSections = 2
INVARIANTS
  EditsApplyAtOnce
  UnshownLinesSurvive
  ChangedRangeCoversTheChange
CHECK_DEADLOCK FALSE
