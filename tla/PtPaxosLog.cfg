\* Two elections over two slots: divergent logs are repaired, requests retried,
\* and the log is trimmed to one slot behind what everyone has applied.  One
\* message is under way at a time.
SPECIFICATION Spec
CONSTANTS
  A = A
  B = B
  C = C
  X = X
  Y = Y
  Replicas = {A, B, C}
  InitialLeader = A
  Serials = {X, Y}
  AppendBatch = 2
  TrimRetention = 1
  None = None
  Absent = Absent
  MaxRound = 2
  MaxSlot = 2
  MaxInFlight = 1
SYMMETRY FollowersAndSerials
VIEW LiveState
INVARIANTS
  TypeOK
  LogMatching
  ConsistentReplies
  LogContiguous
  MatchIndexSound
  TrimmedPrefixShared
PROPERTY CommittedIsFinal
