\* Whether the methods of a rewritten operator are those CPython would call.
SPECIFICATION RuleSpec
CONSTANTS
  MaxParts = 2
  MaxDecorators = 3
INVARIANTS ReflectedPrecedenceIsKept
CHECK_DEADLOCK FALSE
