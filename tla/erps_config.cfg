\* The instance is created, changed and deleted; ports move and are polled.
SPECIFICATION FairSpec
CONSTANTS
  Slots = 4
  Phys = {1, 2, 3}
  Gphy = {2}
  Configs <- MovingConf
  Id = 2
  Remotes = {1}
  Inputs <- TwoInputs
  EvtLen = 1
  MaxConfig = 2
INVARIANTS
  HardwareFollows
PROPERTIES
  PolledPortKnown
