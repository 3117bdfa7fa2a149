\* A name server that fails, and the script.
SPECIFICATION Spec
CONSTANTS
  a1 = a1
  a2 = a2
  a3 = a3
  Addresses = {a1, a2, a3}
  List <- ThreeInOrder
  Hosts = 1
INVARIANTS
  InvalidNeedsProof
