SPECIFICATION Spec
CONSTANTS
  p1 = p1
  p2 = p2
  a = a
  b = b
  t1 = t1
  t2 = t2
  Collision = Collision
  Path <- MCPath
  LineText <- MCLineText
  Text <- MCText
  Tag <- MCTag
  TagOf <- MCTagOf
  EntryBytes = 7
  LineBytes = 3
  Generations <- MCGenerations
  Limits <- MCLimits
  MaxClock = 4
SYMMETRY Symmetry
INVARIANTS
  GrantsOnlyPresentedLines
  GrantsAreUnambiguous
  RetainedBytesAreExact
  RetainsMostRecentlyUsed
PROPERTIES
  ImplementsAuthority
CHECK_DEADLOCK FALSE
