\* Two threads and three calls of the registry, archives of up to five
\* entries, texts of up to ten characters, two callers of the disk cache.
SPECIFICATION MCSpec
CONSTANTS
  r19 = r19
  r20 = r20
  bundled19 = bundled19
  revised19 = revised19
  new20 = new20
  unknown20 = unknown20
  None = None
  Threads = {t1, t2}
  Releases = {r19, r20}
  Bundled = {r19}
  Verified = r19
  Manifests = {bundled19, revised19, new20, unknown20}
  Bundle <- MCBundle
  Target <- MCTarget
  Acceptable = {bundled19, revised19, new20}
  MaxCalls = 3
  MaxPublishes = 1
  Archives <- MCArchives
  Responses <- MCResponses
  Names <- MCNames
  MaxArchiveBytes = 3
  MaxEntries = 4
  MaxFileBytes = 2
  MaxExpandedBytes = 4
  Tasks <- MCTasks
  Callers = {c1, c2}
  Requests <- MCRequests
  Keys = {"latest-release", "main", "installed"}
  MaxTime = 2
SYMMETRY Symmetry
INVARIANTS
  OneTranspilerPerRelease
  LatestIsStable
  EveryTranspilerIsVetted
  ArchiveAgreesWithCheckout
  MemoryIsBounded
  MatchIsThatOfRust
  MaskIsTheItem
  AnswersAreWhole
  AnswersAreOfTheSource
  AnswersAreFresh
CHECK_DEADLOCK FALSE
