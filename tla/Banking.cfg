\* A job and a single check or a command line, with a restart, a failing write and expiry.
SPECIFICATION FairSpec
CONSTANTS
  r1 = r1
  r2 = r2
  a1 = a1
  a2 = a2
  Runs = {r1, r2}
  Addresses = {a1, a2}
  ListOf <- BothLists
  Castings <- WebOrCli
  Keepers = {r1, r2}
  OptedIn = {r1}
  Answers = {"invalid", "unknown"}
  Proofs = {"valid"}
  Expiry = TRUE
  MaxCrashes = 1
  MaxFaults = 1
INVARIANTS
  TypeOK
  BooksKept
  RebuyHasAReason
PROPERTIES
  PurseKept
  JobsFinish
