SPECIFICATION Spec
CONSTANTS
    Starts = {a, b}
    Stops = {s}
    Lists = {l}
    Pids = {p1, p2}
    NoPid = NoPid
    None = None
    Other = Other
    MaxStale = 0

INVARIANTS StopSignalsContainer
