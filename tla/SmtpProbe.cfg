\* Four clients, three addresses, two MX hosts.
SPECIFICATION FairSpec
CONSTANTS
  a1 = a1
  a2 = a2
  a3 = a3
  Addresses = {a1, a2, a3}
  List <- ThreeInOrder
  Hosts = 2
INVARIANTS
  TypeOK
  VerdictsAreTrue
  FinderIsRight
PROPERTIES
  RetryOnlySettles
  EveryAddressAnswered
