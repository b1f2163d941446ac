SPECIFICATION FairSpec
CONSTANTS
  Tabs = {t1}
  NoTab = NoTab
  Ops = {create, shift}
  Shifts = {shift}
  Flushes = {f1, f2}
  MaxFailures = 1
  MaxMirrors = 1
INVARIANTS TypeOK NothingForgotten RepeatedOnlyByOverlap RecordedWasApplied
 
CHECK_DEADLOCK FALSE
