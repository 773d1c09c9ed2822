\* Two sessions, a command each, two processes.
SPECIFICATION Spec
CONSTANTS
  c1 = c1
  c2 = c2
  s1 = s1
  s2 = s2
  p1 = p1
  p2 = p2
  Process = {p1, p2}
  Call = {c1, c2}
  Session = {s1, s2}
  Home <- MCOneEach
  Host = Host
  Orphan = Orphan
  Free = Free
INVARIANTS
  EarlierProcessesAreSpared
  OnlyUnattachedProcessesSurvive
  ClosedSessionsRunNothing
PROPERTIES
  CallsAndClosesReturn
CHECK_DEADLOCK FALSE
