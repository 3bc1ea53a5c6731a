SPECIFICATION MCSpec
CONSTANTS
  a = a  b = b  r1 = r1  r2 = r2
  Local = {a, b}  Remote = {r1, r2}  First = a  Kept <- KeptJobs
  RealTime = TRUE  Quota = 2  Delays = {1}  Clears = FALSE  MaxTime = 2
  Time = {1, 2}  MaxSet = 7  MaxUnwanted = 1  Modulus = 64  FirstOrder = 58  arity = 4  CullSize = 6
  MaxWatch = 2  MaxOpen = 3  Mask = {{"read"}, {"write"}, {"close"}}
  Thread = {f1, f2, f3}  Watchers = {f1, f2}  Closers = {f2, f3}  MaxCopies = 2
INVARIANTS GuardHolds WatchesRight BodyAlive
PROPERTIES ImplementsQueue LoopProgress HangupWakes
