\* Two jobs, with one delete, and one restart, failing write or failing unlink.
SPECIFICATION FairSpec
CONSTANTS
  j1 = j1
  j2 = j2
  NoJob = NoJob
  Jobs = {j1, j2}
  Castings <- OnePanel
  MaxPolls = 2
  MaxDeletes = 1
  MaxMishaps = 1
INVARIANTS
  TypeOK
  RowsFitFiles
  LinksWork
PROPERTIES
  OverIsOver
  PageLearnsTheEnd
CHECK_DEADLOCK FALSE
