CONSTANTS
    Launch = {l1, l2}
    NoLaunch = NoLaunch
SPECIFICATION Spec
SYMMETRY Symmetry
INVARIANTS
    RushIsNeeded
    NoLaunchForgotten
    StopHasKilled
