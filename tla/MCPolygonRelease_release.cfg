SPECIFICATION ReleaseSpec
CONSTANTS
  Scans = {1, 2}
  FillLists <- MCFillLists
  Seeds = {1, 2, 3}
  IdentityOf <- MCIdentityOf
  Drafts <- MCDrafts
  Versions = {1}
  Builders = {b1, b2}
  WindowMinutes = 2
  MinuteLength = 2
  Scale = 10
  MaxRatio = 8
  MaxBuilds = 2
  MaxFaults = 3
SYMMETRY Symmetry
CONSTRAINTS NoOverlap ThirdFault
CHECK_DEADLOCK FALSE
INVARIANTS ReleaseIsConsistent
PROPERTIES ReleasesAreImmutable
