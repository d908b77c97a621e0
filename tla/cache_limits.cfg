\* The clock saturates at once, max_bytes is usize::MAX, or a limit is zero.
SPECIFICATION FairSpec
CONSTANTS
  light = light
  small = small
  medium = medium
  heavy = heavy
  oversized = oversized
  broken = broken
  Threads = {t1, t2}
  Sources = {light, medium, heavy, oversized, broken}
  Unlowerable = {broken}
  Weight <- MCWeight
  Configs <- MCEdges
  UsizeMax = 4
  ClockMax = 2
  MaxCalls = 3
  NoThread = NoThread
  NoSource = NoSource
  NoEntry = NoEntry
  NoOutput = NoOutput
  Failed = Failed
INVARIANTS IInv
PROPERTIES EveryCallReturns
