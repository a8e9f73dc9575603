SPECIFICATION Spec
CONSTANTS
    c1 = c1
    c2 = c2
    Procs <- OneCommand
    Killable <- Nobody
    Pids = {p1, p2}
    NoPid = NoPid
    MaxInitial = 2
PROPERTIES RemovedPidIsGone
