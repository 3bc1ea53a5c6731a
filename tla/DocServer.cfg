SPECIFICATION FairSpec
CONSTANTS
  Post <- TwoOps  Replica = {r1, r2}  Browser = {b1}  MaxDrops = 1
  Byte = {"b1", "b2", "b3"}  Request <- Requests  MaxHead = 6  BufSize = 4  Response = 2
INVARIANTS RequestsHandled CacheSound StreamAscending
PROPERTY CacheConverges
