CONSTANTS
    Request = {r1, r2}
    Root = {w1, w2}
    Domain = {d1}
    NoDomain = NoDomain
    Zshrc <- Files
    src = src
    build = build
    Call = {r1, r2}
    Disks <- Trees
    Garbled <- Unsendable
    Name = {src, build}
    Noise = {build}
    Hit = {src}
    MaxResults = 3
    Listener = {c1, c2}
    Event = {e1}
    Topic = {t1, t2}
SPECIFICATION MCSpec
SYMMETRY Symmetry
INVARIANTS
    RestartComplete
    RootsAgree
    DomainAgrees
    ReadersSeeWhole
    OnlyRacesMislead
    UndisturbedFound
    HeardOnce
    NoStaleSubscriber
