\* One session with two workers, three calls on two files.
SPECIFICATION Spec
CONSTANTS
  a = a
  b = b
  x = x
  y = y
  d1 = d1
  d2 = d2
  s1 = s1
  s2 = s2
  w1 = w1
  w2 = w2
  Path = {a, b}
  LineText = {x, y}
  Text <- MCText
  Tag = {d1, d2}
  TagOf <- MCTagOf
  Collision = Collision
  EntryBytes = 1
  LineBytes = 1
  Session = {s1}
  Worker = {w1, w2}
  Home <- MCOneSession
  Absent = Absent
  Free = Free
  Limits <- MCLimits
  FirstDisk <- MCFirstDisk
  MaxCalls = 3
  MaxForeign = 0
INVARIANTS
  ChangesAreAccountedFor
PROPERTIES
  ImplementsGuardedDisk
  EveryCallIsAnswered
CHECK_DEADLOCK FALSE
