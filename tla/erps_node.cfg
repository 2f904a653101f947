\* One configuration, all messages, built-in PHYs.
SPECIFICATION Spec
CONSTANTS
  Slots = 4
  Phys = {1, 2}
  Gphy = {1, 2}
  Configs <- NodeConf
  Id = 2
  Remotes = {1, 3}
  Inputs <- MainInputs
  EvtLen = 1
  MaxConfig = 1
INVARIANTS
  FailureIsProtected
  WaitIsPending
  RbMeansBlocked
  TimersAreOwn
