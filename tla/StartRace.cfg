SPECIFICATION ExecSpec
CONSTANTS
  k1 = k1  k2 = k2
  Assignment = {k1, k2}  HomeOf <- Homes  Sitting = {1, 2}  Reviewer = {1}
  TaskQuota = 2  EvidenceQuota = 1  MaxEvidence = 1
INVARIANT NoStartMeetsTheIndex
CHECK_DEADLOCK FALSE
