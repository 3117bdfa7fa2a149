\* One list sent to the keyed API.
SPECIFICATION MSpec
CONSTANTS
  q1 = q1
  q2 = q2
  Users = {"ann"}
  Requests = {q1}
  Kinds = {"v1_verify", "v1_find", "v1_bulk"}
  ListSize = 2
  MaxUploaded = 0
  Tries = 1
  Quotas = {}
  FreeQuota = 2
  Cap = 1
  Window = 1
  DayLength = 2
  MaxTime = 1
INVARIANTS
  ProbesCapped
CHECK_DEADLOCK FALSE
