\* Whether a seed that crashes or hangs Monty is isolated from the next.
SPECIFICATION Spec
CONSTANTS
  SeedCount = 2
  Minimize = FALSE
  MaxChecks = 1
INVARIANTS FailuresAreOwn
CHECK_DEADLOCK FALSE
