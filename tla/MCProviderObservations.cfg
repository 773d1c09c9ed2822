CONSTANTS
  p = p
  t1 = t1
  t2 = t2
  a = a
  b = b
  c = c
  d = d
  None = None
  Foreign = Foreign
  Caller = {t1, t2}
  Path = {p}
  Text <- MCText
  TagOf <- MCTagOf
  MaxEntries = 1
SYMMETRY MCSymmetry
SPECIFICATION Spec
PROPERTIES
  ValidLinesAreOfOneShownText
  EditableSourceIsCurrent
  TagsAreNeverRebound
