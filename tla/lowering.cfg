SPECIFICATION Spec
CONSTANTS
  Size = 3
  Kinds = {"union", "comprehension", "property", "property_of_unknown", "name_get", "name_set",
           "descriptor", "stacked", "for", "match", "wide_match", "with", "generator", "raise_from"}
  MaxPasses = 4
  UserNames <- MCUserNames
INVARIANTS IInv DiagnosticsMatchCode NothingSilentInText NamesAreFresh OnePassIsConsistent
PROPERTIES Terminates
CHECK_DEADLOCK FALSE
