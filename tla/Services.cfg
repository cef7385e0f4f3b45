SPECIFICATION ServicesSpec
CONSTANTS
  w1 = w1  w2 = w2  w3 = w3  t1 = t1  t2 = t2  i1 = i1  i2 = i2  i3 = i3
  q1 = q1  q2 = q2  q3 = q3  r1 = r1  r2 = r2  a1 = a1  a2 = a2
  k1 = k1  k2 = k2  k3 = k3  s1 = s1  s2 = s2  p1 = p1  p2 = p2  p3 = p3  d1 = d1  d2 = d2
  Sender = {w1, w2}  MaxMails = 2  MaxAttempts = 2  MaxFailures = 2  MaxFaults = 2  Unreadable = {}
  Queues = 5  Threshold = 2
  BrowserTab = {t1, t2}  WebLocks = TRUE  MaxTokens = 4  MaxLost = 1
  Initializer = {i1, i2, i3}  RunOf <- TwoRuns  MaxCrashes = 2
  AiRequest = {q1, q2, q3}  RunAsked <- RunAskedBy  Estimate <- Costs  Budget = 2
  Candidates = 2  Tries = 1  AiWorker = {w1, w2}  MaxMonth = 2  MaxAiCrashes = 1
  JobWorker = {w1, w2, w3}  OutputOf <- Outputs  MaxLeases = 3
  Upload = {a1, a2}  SpaceOf <- OneSpace  Uploader = {t1, t2}  Quota = 1  MaxTries = 1  MaxSlips = 1
  StoreTab = {t1, t2}  Devices = 2  Chunks = 2  MaxMoves = 2  MaxClosed = 1
  Assignment = {k1, k2, k3}  HomeOf <- Homes  Sitting = {s1, s2}  Reviewer = {w1, w2}
  TaskQuota = 2  EvidenceQuota = 2  MaxEvidence = 2
  Person = {p1, p2, p3}  Founder = p1  Slow = {p1}
  FormTab = {t1}  TextOf <- Typed  Foreign = 9  MaxIds = 2  MaxVersion = 2  MaxRecords = 2  MaxDropped = 1
  Learner = {d1, d2}  MaxPast = 2  MaxFindings = 1
  Planner = {w1, w2}  Exam = "x"  ParentOf <- Tree  KindOf <- RowKinds  WeightOf <- Weights  RowQuota = 1
  Phase = {p1, p2}  Errand = {k1, k2}  ErrandQuota = 1  Subject = {t1, t2, a1}  MaxEdits = 3
  Deed = {k1, k2}  Area = {"a"}  MaxTime = 1  MaxRounds = 2  MaxSeen = 1
INVARIANTS
  ServicesTypeOK MailFollowsActions LoopIsFair TabsShareOneSession InitIsAtomic LedgerAddsUp BudgetIsKept
  OneWorkerOneResult VerifiedIsTrue ReplicaIsOneSnapshot  TeamIsOwned DraftsAreKept
  LearningIsRecorded OutlineIsSound AcceptedWorkIsProven
 
CHECK_DEADLOCK FALSE
