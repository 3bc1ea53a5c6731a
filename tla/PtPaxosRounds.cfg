\* Three elections over one contested slot, with two messages under way where
\* DelayedMessages allows it.
SPECIFICATION Spec
CONSTANTS
  A = A
  B = B
  C = C
  X = X
  Y = Y
  Replicas = {A, B, C}
  InitialLeader = A
  Serials = {X, Y}
  AppendBatch = 2
  TrimRetention = 0
  None = None
  Absent = Absent
  MaxRound = 3
  MaxSlot = 1
  MaxInFlight = 2
CONSTRAINT DelayedMessages
SYMMETRY FollowersAndSerials
VIEW LiveState
INVARIANTS
  ElectionSafety
  StateMachineSafety
  LeaderCompleteness
