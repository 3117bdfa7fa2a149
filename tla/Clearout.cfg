\* One verify() call: 3 addresses, 2 at a time, 2 posts each.
SPECIFICATION FairSpec
CONSTANTS
  w1 = w1
  w2 = w2
  w3 = w3
  b1 = b1
  Workers = {w1, w2, w3}
  Batches = {b1}
  BatchOf <- OneBatch
  Concurrency = 2
  MaxRetries = 2
  Interval = 1
  Balance = 1
INVARIANTS
  TypeOK
  CreditsAccounted
  RaiseLosesNoVerdict
  LatePostsBounded
  SlotsSpaced
PROPERTIES
  EveryBatchReturns
