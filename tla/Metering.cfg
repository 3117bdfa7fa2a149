\* One account over two days, with every kind of request; two windows can fill within one
\* window's length (at times 0, 1 and 2, with Cap = 2 and Window = 1).
SPECIFICATION MSpec
CONSTANTS
  q1 = q1
  q2 = q2
  Users = {"ann"}
  Requests = {q1, q2}
  Kinds = {"v1_verify", "v1_find", "v1_bulk", "web_verify", "web_find", "demo", "bulk", "bulk_find"}
  ListSize = 2
  MaxUploaded = 2
  Tries = 3
  Quotas = {1, 3}
  FreeQuota = 2
  Cap = 2
  Window = 1
  DayLength = 2
  MaxTime = 3
SYMMETRY RequestSymmetry
INVARIANTS
  MTypeOK
  QuotaKept
  TwoWindowsAtMost
CHECK_DEADLOCK FALSE
