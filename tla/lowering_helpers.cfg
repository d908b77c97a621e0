\* Programs of dict unions and loops.
SPECIFICATION Spec
CONSTANTS
  Size = 3
  Kinds = {"union", "for"}
  MaxPasses = 4
  UserNames = {}
INVARIANTS HelpersAreDefined
CHECK_DEADLOCK FALSE
