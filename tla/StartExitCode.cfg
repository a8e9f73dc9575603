SPECIFICATION Spec
CONSTANTS
    Fallible = {"execv"}
    Killable = {}
    CommandCodes = {0, 4}
INVARIANTS ExitCodeReturned
