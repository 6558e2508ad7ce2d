CONSTANTS
    Conn = {c1}
    Term = {t1, t2}
    Session = {s1, s2}
    NoConn = NoConn
    NoSession = NoSession
    MaxTerminals = 2
    MaxChunks = 1
SPECIFICATION FairSpec
PROPERTIES
    ShutdownCompletes
    HangupReported
