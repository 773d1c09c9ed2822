\* Every file read and edited in every way, in chunks of every size.
SPECIFICATION Spec
CONSTANTS
  MaxUsize = 9
  Threshold <- MCThreshold
  Files <- MCFiles
  Reads <- MCReads
  Replacements <- MCReplacements
  Diffs <- MCDiffs
INVARIANTS
  ReadersAgree
  SpansFindTheirLines
  UnobservedLinesSurvive
  PresentedRangeCoversTheChange
  HunksApplyAtOnce
  EditsKeepTheEncoding
CHECK_DEADLOCK FALSE
