CONSTANTS
    top = top
    mid = mid
    Conn = {c1, c2}
    Id = {w1, w2}
    Dir = {top, mid}
    Inside <- Pair
    First = {top}
    NoId = NoId
    NoDir = NoDir
    MaxOps = 3
    MaxChanges = 2
SPECIFICATION WatchSpec
INVARIANT
    NothingMissed
CHECK_DEADLOCK FALSE
