\* AppendBatch below MaxSlot: a batch need not reach a follower's stale suffix.
SPECIFICATION Spec
CONSTANTS
  A = A
  B = B
  C = C
  X = X
  Y = Y
  Replicas = {A, B, C}
  InitialLeader = A
  Serials = {X, Y}
  AppendBatch = 1
  TrimRetention = 3
  None = None
  Absent = Absent
  MaxRound = 2
  MaxSlot = 3
  MaxInFlight = 2
CONSTRAINT StaleSuffixAtA
VIEW LiveState
INVARIANT StateMachineSafety
