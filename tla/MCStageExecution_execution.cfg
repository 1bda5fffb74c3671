SPECIFICATION Spec
CONSTANTS
  Procs = {"p1", "p2"}
  Legs <- MCLegs
  Padding = 1
  Evidence <- MCEvidence
  HourLength = 4
  LateHours = {1}
  Limit = 3
  Budget = 12
  Retries = 1
  MaxElsewhere = 1
  MaxCrashes = 1
  Faults = {"transient", "refused"}
INVARIANTS ArchiveIsTrue NeverOverspent
PROPERTIES LockIsReleased
CHECK_DEADLOCK FALSE
