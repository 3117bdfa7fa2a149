\* Two engine runs over a domain, and a lookup of one person.
SPECIFICATION Spec
CONSTANTS
  p1 = p1
  p2 = p2
  p3 = p3
  info = info
  who = who
  Addresses = {p1, p2, p3, info}
  Shape <- MCShape
  Noise <- MCNoise
  Roles = {info}
  Names = {who}
  Patterns <- MCPatterns
  MaxCandidates = 2
  Lines <- MCLines
  MaxRuns = 2
  MaxRows = 2
INVARIANTS
  TypeOK
  GuessesFollowEvidence
  LookupIsHonest
CHECK_DEADLOCK FALSE
