\* A hub on three ports, one trunk, lost frames, two changes at any moment.
SPECIFICATION FairSpec
CONSTANTS
  Ports = {1, 2, 3}
  Groups = {1}
  Members <- SomeMembers
  Wirings <- SomeWirings
  Period = 3
  Resume = 2
  MaxMiss = 1
  MaxChange = 2
INVARIANTS
  ToldRight
  Timed
  TrunkWhole
  FlowReturns
PROPERTIES
  Breaks
CHECK_DEADLOCK FALSE
