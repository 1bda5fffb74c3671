SPECIFICATION Spec
CONSTANTS
  Crawls = {"c1", "c2"}
  Events = {1, 2}
  Markets = {1, 2}
  Membership <- MCMembership
  FirstListed <- MCListed
  FirstTradable = {1}
  Versions = {"v1"}
  MaxPages = 1
  MaxChanges = 1
  Faults = {"transport", "malformed", "conflict", "crash"}
INVARIANTS CrawlIsWhole ReleaseIsComplete
PROPERTIES NothingIsTakenBack JobEnds
CHECK_DEADLOCK FALSE
