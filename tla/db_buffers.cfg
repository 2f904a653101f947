\* Two loopers and a caller, queues that fill up.
SPECIFICATION FairSpec
CONSTANTS
  Loopers = {"igmp", "erps"}
  Callers = {"cli"}
  MaxBuf = 3
  DbqLen = 1
  QLen = 1
INVARIANTS
  OneOwner
  OneAnswer
PROPERTIES
  ComesBack
