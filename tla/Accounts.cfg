\* The owner (older than the verification gate) and a user who signs up.
SPECIFICATION Spec
CONSTANTS
  owner = owner
  user = user
  k1 = k1
  k2 = k2
  k3 = k3
  NoKey = NoKey
  Accounts = {owner, user}
  Admin = owner
  Old = {owner}
  Keys = {k1, k2, k3}
  MaxTries = 1
  MaxCodes <- Codes
  MaxLinks <- Links
  MaxCalls = 1
  MaxStarts = 2
SYMMETRY KeySymmetry
INVARIANTS
  TypeOK
  InStep
  VerifiedForAReason
  SecretsSpent
PROPERTIES
  WorkingKeyKept
  RevokedForGood
