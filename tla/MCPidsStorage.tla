----------------------------- MODULE MCPidsStorage -----------------------------
EXTENDS PidsStorage

CONSTANTS c1, c2

\* Two commands, each of which may be killed at any step.
TwoCommands == {c1, c2}

\* A single command that nobody kills.
OneCommand == {c1}
Nobody == {}
===============================================================================
