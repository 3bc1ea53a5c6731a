SPECIFICATION MCSpec
CONSTANTS
  Client = {c1, c2}  Key <- LockKeys  Value <- OneValue  max_recent_removes = 1
  max_sequence_length = 3  MaxRounds = 2  MaxTries = 1
  nclients = 2  MaxEdits = 2  MaxPuts = 2  Losses = TRUE
  ReplayKeys = {1, 2}  Versions = {1}  MaxRequests = 3
  Sizes = {1, 2, 3, 4, 5, 7}  initial_leader = 0
  Schedules = {"none", "failover", "recover", "split", "unstable", "torture", "random",
               "darias", "eric", "eric_recover", "eric_split"}
  s1 = s1  s2 = s2
  N = 2  Replica = {0, 1}  Serial = {s1, s2}  MaxRound = 1  MaxLog = 3  MaxAttempts = 2  Failures = {}
  Char <- MCChar  Docs <- MCDocs  Texts <- MCTexts  MaxCommits = 2
  t1 = t1  t2 = t2  t3 = t3  Thread = {t1, t2, t3}  Rounds = 2  Guarded = {t1}
  e1 = e1  e2 = e2  q1 = q1  q2 = q2  w = w
SYMMETRY Symmetric
INVARIANTS
  MutualExclusion CheckAccepts StoreSound PendingExact SchedulesSound AckedVersion
  TypeOK Diamond NoClamp IntentionKept MutexSafe EventsSafe
PROPERTY NoBarging
