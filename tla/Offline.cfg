\* Two programs after each other on one database, in every world of one domain.
SPECIFICATION OSpec
CONSTANTS
  a1 = a1
  a2 = a2
  d1 = d1
  junk = junk
  quoted = quoted
  List <- MixedList
  Canonical <- Spellings
  Malformed = junk
  Odd = quoted
  DomainOf <- OneDomain
  Zones = {"nxdomain", "mx", "aaaa"}
  Lines = {0, 40}
  VendorLine = 90
  Confidences = {50, 95}
  Answers = {"unknown"}
  MaxRuns = 2
  Roles = {a1}
  Labels = {"valid", "unknown"}
INVARIANTS
  TypeOK
  VerdictsAreTrue
  UndecidedStaysBillable
  RowsCarryTheVerdict
CHECK_DEADLOCK FALSE
