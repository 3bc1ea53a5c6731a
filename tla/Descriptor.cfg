\* A descriptor that two threads share and nobody closes early.
SPECIFICATION Spec
CONSTANTS
  Thread = {t1, t2}  Watchers = {}  Closers = {}  MaxCopies = 1
INVARIANT LastCloses
CHECK_DEADLOCK FALSE
