CONSTANTS
    Conn = {c1}
    Sub = {i1, i2}
    Stream = {s1, s2}
    NoStream = NoStream
    NoSub = NoSub
    MaxLines = 1
SPECIFICATION FairSpec
INVARIANTS
    OneStream
    NothingLeftBehind
PROPERTY
    StopEnds
