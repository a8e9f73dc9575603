--------------------------- MODULE MCStartHandshake ---------------------------
EXTENDS StartHandshake

\* Every call whose failure the code checks.
Steps == UNION {{ParentSteps(a)[i] : i \in 1..Len(ParentSteps(a))}
                   \cup {ChildSteps(a)[i] : i \in 1..Len(ChildSteps(a))} :
                   a \in [net : BOOLEAN, daemonize : BOOLEAN]}
Calls == Steps \cup {"pipe", "clone", "close_read", "push_back", "close_write",
                    "remove_by_pid", "child_close", "execv"}
===============================================================================
