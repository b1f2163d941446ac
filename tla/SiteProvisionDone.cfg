SPECIFICATION Spec
CONSTANTS
  Jobs = {j1, j2}
  Ticks = {t1}
  Button = b
  Others = {o1}
  MaxAsked = 3
  MaxFaults = 0
INVARIANT DoneIsReady
CHECK_DEADLOCK FALSE
