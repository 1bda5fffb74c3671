SPECIFICATION Spec
CONSTANTS
  MaxScans = 2
  Owners = {"r1", "r2"}
  Tokens = {1, 2}
  Span = 4
  Limit = 4
  FirstListed <- MCListed
  Changes <- MCChanges
  Budget = 6
  Retries = 1
  MaxMonths = 2
  MaxChanges = 1
  MaxCrashes = 1
  Faults = {"transient", "limited", "malformed", "gamma"}
INVARIANTS  BooksArePaid
PROPERTIES ScansAreGuarded
CHECK_DEADLOCK FALSE
