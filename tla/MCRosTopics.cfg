CONSTANTS
    Conn = {c1, c2}
    Restarter = Restarter
    Sub = {i1, i2}
    Topic = {t1}
    Stream = {s1, s2}
    NoSub = NoSub
    NoTopic = NoTopic
    NoStream = NoStream
SPECIFICATION Spec
SYMMETRY Symmetry
INVARIANTS
    NoEchoForgotten
    OnlyStopBreaks
    OnlyStopGarbles
