\* Three probes, three seeds with minimizations of up to two candidates, and
\* three runs on two process ids that write one path.
SPECIFICATION MCSpec
CONSTANTS
  Runs = {first, second, third}
  Pids = {p1, p2}
  Versions = {linked, other}
  Linked = linked
  NoFile = NoFile
  Catalog = 3
  SeedCount = 3
  Minimize = TRUE
  MaxChecks = 2
INVARIANTS OutputIsSound BaselineReportIsSound GeneratedReportIsSound MinimizationsAreSound
PROPERTIES RunsEnd
CHECK_DEADLOCK FALSE
