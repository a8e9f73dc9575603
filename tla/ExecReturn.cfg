SPECIFICATION Spec
CONSTANTS
    Containers = {a}
    Pids = {p1}
    None = None
    Host = Host
PROPERTIES ZeroMeansRun
