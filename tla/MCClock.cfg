SPECIFICATION Spec
CONSTANTS
  Histories <- MCHistories
  Offsets = {3, 24}
  Freq = 2
  MaxPulses = 2
INVARIANTS TypeOK UptimeIsReal
PROPERTIES TimeShownIsTrue PulsesAreServed
CHECK_DEADLOCK FALSE
