CONSTANTS
    Readers = {r1, r2}
    MaxChunks = 2
SPECIFICATION FairSpec
INVARIANTS
    ExitReportedLast
    StopAfterExitIsSafe
PROPERTIES
    ExitReported
    StopReturns
