\* One address of a tenant that admits everybody.
SPECIFICATION Spec
CONSTANTS
  a1 = a1
  a2 = a2
  d1 = d1
  junk = junk
  quoted = quoted
  List <- Single
  Canonical <- Spellings
  Malformed = junk
  Odd = quoted
  DomainOf <- OneDomain
  Zones = {"nxdomain", "mx"}
  Lines = {0}
  VendorLine = 90
  Confidences = {50}
  Answers = {"unknown"}
  MaxRuns = 1
INVARIANTS
  NeverTowardsABounce
CHECK_DEADLOCK FALSE
