\* A property that is accessed through receivers whose class is known.
SPECIFICATION Spec
CONSTANTS
  Size = 3
  Kinds = {"descriptor", "property", "union", "match"}
  MaxPasses = 4
  UserNames = {}
INVARIANTS AccessFollowsDescriptor
CHECK_DEADLOCK FALSE
