\* One site of each rule in all its circumstances, match statements of two
\* cases, three edits, three occurrences of a name, four classes.
SPECIFICATION MCSpec
CONSTANTS
  SourceLen = 3
  MaxParts = 2
  MaxDecorators = 3
  Boundaries = {0, 1, 3}
  EditLists <- MCEditLists
  MaxAlternatives = 4
  Patterns <- AllPatterns
  Values <- AllValues
  Depth <- MCDepth
  MaxDepth = 4
  Programs <- MCPrograms
  Classes = {"C"}
  Kinds = {"dict"}
  Texts <- MCTexts
  ClassNames = {"A", "B", "C", "D"}
  Members = {"m"}
  Hierarchies <- MCHierarchies
INVARIANTS
  
  MatchIsSound
  EditsAreSound
  FactsAreSound
  DeadResultsAreUnread
  FlattenedAsInherited
  ResolvedAsDispatched
CHECK_DEADLOCK FALSE
