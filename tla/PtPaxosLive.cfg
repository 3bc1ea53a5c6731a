\* Progress under an unchallenged leader, on a lossy network.
SPECIFICATION LiveSpec
CONSTANTS
  A = A
  B = B
  C = C
  X = X
  Y = Y
  Replicas = {A, B, C}
  InitialLeader = A
  Serials = {X}
  AppendBatch = 2
  TrimRetention = 0
  None = None
  Absent = Absent
  MaxRound = 1
  MaxSlot = 2
  MaxInFlight = 1
VIEW LiveState
PROPERTY Progress
