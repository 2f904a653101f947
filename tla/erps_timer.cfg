\* Timers that are started, stopped, forgotten and expire.
SPECIFICATION FairSpec
CONSTANTS
  Kinds = {"wtr", "wtb", "hold_off"}
  Duration <- SomeDuration
  Slots = 3
  TickMod = 7
  MaxLate = 1
  EvtLen = 1
INVARIANTS
  OnTime
  HardwareRuns
  IndexNamesSlot
PROPERTIES
  KeepsPromise
  DueIsServed
