CONSTANTS
    Readers = {r1}
    MaxChunks = 1
SPECIFICATION Spec
INVARIANT
    AllLinesDelivered
