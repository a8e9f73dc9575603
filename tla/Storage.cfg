SPECIFICATION FairSpec
CONSTANTS
    c1 = c1
    c2 = c2
    Procs <- TwoCommands
    Killable <- TwoCommands
    Pids = {p1, p2}
    NoPid = NoPid
    MaxInitial = 3
INVARIANTS TypeOK MutualExclusion CountIsFresh
PROPERTIES EntriesNeverMove LostForever ExitOrLost ImplementsRegistry
CHECK_DEADLOCK FALSE
