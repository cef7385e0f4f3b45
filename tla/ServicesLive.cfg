SPECIFICATION LiveSpec
CONSTANTS
  w1 = w1  w2 = w2  t1 = t1  t2 = t2  q1 = q1  q2 = q2  r1 = r1  r2 = r2
  Sender = {w1}  MaxMails = 2  MaxAttempts = 2  MaxFailures = 1  MaxFaults = 1  Unreadable = {2}
  Queues = 3  Threshold = 2
  BrowserTab = {t1, t2}  WebLocks = TRUE  MaxTokens = 3  MaxLost = 1
  AiRequest = {q1, q2}  RunAsked <- RunAskedBy  Estimate <- Costs  Budget = 2
  Candidates = 2  Tries = 2  AiWorker = {w1}  MaxMonth = 2  MaxAiCrashes = 1
  StoreTab = {t1}  Devices = 2  Chunks = 2  MaxMoves = 2  MaxClosed = 1
PROPERTIES MailIsSettled EveryQueueIsPolled TabsSettle RunEnds StoreBecomesReady
CHECK_DEADLOCK FALSE
