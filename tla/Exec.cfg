SPECIFICATION FairSpec
CONSTANTS
    Containers = {a, b}
    Pids = {p1, p2}
    None = None
    Host = Host
INVARIANTS OneContainer CommandInside
PROPERTIES EndsWithContainer
