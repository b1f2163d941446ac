SPECIFICATION FairSpec
CONSTANTS
  Jobs = {j1, j2}
  Ticks = {t1}
  Button = b
  Others = {o1}
  MaxAsked = 3
  MaxFaults = 1
INVARIANTS TypeOK InProgressIsWorkedOn ReadyIsBootstrapped
PROPERTIES PanelCatchesUp LaunchEnds
CHECK_DEADLOCK FALSE
