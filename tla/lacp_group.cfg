SPECIFICATION Spec
CONSTANTS
  Ports <- TwoPorts
  MaxMember = 2
  FastTime = 1
  SlowTime = 1
  ShortTime = 1
  LongTime = 1
  WaitTime = 1
  Delay = 1
  MaxSent = 3
  Prio <- SamePrio
  Frames <- SomeFrames
  KeyOf <- OneMoves
  Late = 1
INVARIANTS Counted ToldRight OnePartner
