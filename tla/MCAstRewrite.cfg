\* Two tasks, three calls, one other change, one tick.
SPECIFICATION RewriteSpec
CONSTANTS
  a = a
  b = b
  match = match
  other = other
  done = done
  t1 = t1
  t2 = t2
  Path = {a, b}
  Text = {match, other, done}
  Rewrite <- MCRewrite
  Scan <- MCScan
  FirstDisk <- MCFirstDisk
  Task = {t1, t2}
  Editor = Editor
  Nobody = Nobody
  Lifetime = 1
  Capacities = {1, 2}
  MaxChanged = 2
  MaxCalls = 3
  MaxEdits = 1
  MaxClock = 1
SYMMETRY Symmetry
INVARIANTS
  NewestProposalsStay
  RewritesAreWhole
PROPERTIES
  RewritesReplaceWhatWasPreviewed
CHECK_DEADLOCK FALSE
