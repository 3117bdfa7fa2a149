\* A run of each kind on one address, over both lifetimes.
SPECIFICATION Spec
CONSTANTS
  a1 = a1
  a2 = a2
  d1 = d1
  Addresses = {a1}
  DomainOf <- OneDomain
  Roles = {a1}
  Prefilters = {"run"}
  Engines = {"job"}
  Labels = {"valid", "unknown"}
  TTL = 2
  DomainTTL = 1
  MaxSpan = 1
INVARIANTS
  TypeOK
  EvidenceBounded
PROPERTIES
  AnswersStand
