SPECIFICATION Spec
CONSTANTS
  Events = {"e1", "e2", "o1", "o2"}
  Markets = {"m1", "m2", "m3"}
  Listing <- MCListing
  Sources <- MCSources
  Matches <- MCMatches
  Related <- MCRelated
  Homes <- MCHomes
  First <- MCFirst
  MaxChanges = 1
  Roots = 2
  MaxRetries = 1
  MaxFaults = 1
  MaxObserved = 2
  Leftovers = FALSE
  None = None
  Scope = {"e1", "e2"}
  Seeds = {"m3"}
  Tokenised = {"m1", "m2"}
INVARIANTS ObservationsAreSound RegistryIsRight
PROPERTIES EligibleStays JobEnds
CHECK_DEADLOCK FALSE
