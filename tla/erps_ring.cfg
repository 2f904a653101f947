\* One link fails and recovers at any moment, a second failure follows; queues overflow.
SPECIFICATION FairSpec
CONSTANTS
  Slots = 4
  N = 3
  Layouts <- TwoOwners
  IsRevertive = TRUE
  QLen = 2
  Hasty = 1
  MaxFail = 2
INVARIANTS
  NoLoop
PROPERTIES
  Reverts Protects
