CONSTANTS
    Conn = {c1, c2}
    Restarter = Restarter
    Id = {i1}
    MaxCalls = 2
SPECIFICATION Spec
SYMMETRY Symmetry
INVARIANTS
    AnsweredOnce
    AstrayOnlyByRace
    CrossedOnlyAfterStop
    OnlyStopBreaks
    NoProcessForgotten
