SPECIFICATION Spec
CONSTANTS
    Starts = {a, b}
    Stops = {s}
    Lists = {l}
    Pids = {p1, p2, p3}
    NoPid = NoPid
    None = None
    Other = Other
    MaxStale = 1
SYMMETRY Symmetry
INVARIANTS TypeOK ListComplete RunningAccounted
