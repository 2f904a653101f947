SPECIFICATION FairSpec
CONSTANTS
  Ports <- TwoPorts
  MaxMember = 2
  FastTime = 1
  SlowTime = 2
  ShortTime = 2
  LongTime = 4
  WaitTime = 1
  Delay = 2
  MaxSent = 3
  Prio <- SamePrio
  Nodes <- TwoNodes
  Mode <- OneActive
  Early = {"a"}
  Fragile = {2}
  Changes = 1
  Losses = 1
INVARIANT NoBlackHole
PROPERTY Converges
