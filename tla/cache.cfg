\* Two threads, a cache that two light entries or four bytes fill.
SPECIFICATION Spec
CONSTANTS
  light = light
  small = small
  medium = medium
  heavy = heavy
  oversized = oversized
  broken = broken
  Threads = {t1, t2}
  Sources = {light, small, medium, heavy, oversized, broken}
  Unlowerable = {broken}
  Weight <- MCWeight
  Configs <- MCSmall
  UsizeMax = 6
  ClockMax = 12
  MaxCalls = 4
  NoThread = NoThread
  NoSource = NoSource
  NoEntry = NoEntry
  NoOutput = NoOutput
  Failed = Failed
SYMMETRY Symmetry
INVARIANTS BytesAccounted EvictionsNotWasted MetricsReconcile
PROPERTIES EvictsLeastRecentlyUsed AnswersLikeAMemo
