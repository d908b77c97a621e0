\* Whether a downloaded manifest is ever used for a bundled release.
SPECIFICATION Spec
CONSTANTS
  r19 = r19
  r20 = r20
  bundled19 = bundled19
  revised19 = revised19
  new20 = new20
  unknown20 = unknown20
  None = None
  Threads = {t1, t2}
  Releases = {r19, r20}
  Bundled = {r19}
  Verified = r19
  Manifests = {bundled19, revised19, new20, unknown20}
  Bundle <- MCBundle
  Target <- MCTarget
  Acceptable = {bundled19, revised19, new20}
  MaxCalls = 2
  MaxPublishes = 0
INVARIANTS BundledAnswersUseTheBundle
CHECK_DEADLOCK FALSE
