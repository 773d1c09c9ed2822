\* Two sessions with a worker each, four calls on one file, one write from outside.
SPECIFICATION Spec
CONSTANTS
  a = a
  b = b
  x = x
  y = y
  d1 = d1
  d2 = d2
  s1 = s1
  s2 = s2
  w1 = w1
  w2 = w2
  Path = {a}
  LineText = {x, y}
  Text <- MCText
  Tag = {d1, d2}
  TagOf <- MCTagOf
  Collision = Collision
  EntryBytes = 1
  LineBytes = 1
  Session = {s1, s2}
  Worker = {w1, w2}
  Home <- MCTwoWorkers
  Absent = Absent
  Free = Free
  Limits <- MCLimits
  FirstDisk <- MCFirstDisk
  MaxCalls = 4
  MaxForeign = 1
INVARIANTS
  GuardKeepsFiles
  ChangesAreAccountedFor
CHECK_DEADLOCK FALSE
