SPECIFICATION FairSpec
CONSTANTS
    Fallible <- Calls
    Killable = {"parent", "child"}
    CommandCodes = {0, 4}
INVARIANTS TypeOK CommandRunsConfigured SigpipeOnlyAfterKill ForegroundWaits
PROPERTIES FailedStartStopsChild
