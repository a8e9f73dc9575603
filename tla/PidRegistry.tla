------------------------------ MODULE PidRegistry ------------------------------
(***************************************************************************)
(* What pids_storage gives the commands that call it: each call takes      *)
(* effect at one instant between its invocation and its return.  push_back *)
(* appends; get_pid(i) returns entry i, or false past the end; and         *)
(* remove_by_pid(p) of a pid that is listed shortens the list by its LAST  *)
(* entry, whichever entry holds p.                                         *)
(***************************************************************************)
EXTENDS Integers, Sequences

CONSTANTS Pids, NoPid, Procs, MaxInitial

VARIABLES entries,   \* the registered pids
          phase,     \* of a command: idle, called, answered, exited
          op, pid, idx, ok

vars == <<entries, phase, op, pid, idx, ok>>

Init ==
    /\ entries \in UNION {[1..n -> Pids] : n \in 0..MaxInitial}
    /\ phase = [c \in Procs |-> "idle"]
    /\ op = [c \in Procs |-> "none"]
    /\ pid = [c \in Procs |-> NoPid]
    /\ idx = [c \in Procs |-> 0]
    /\ ok = [c \in Procs |-> FALSE]

Phase(c, from, to) == phase[c] = from /\ phase' = [phase EXCEPT ![c] = to]
Answer(c, o, r) ==
    /\ Phase(c, "called", "answered")
    /\ op[c] = o
    /\ ok' = [ok EXCEPT ![c] = r]

Invoke(c) ==
    /\ \/ Phase(c, "idle", "called")
       \/ Phase(c, "answered", "called")
    /\ \E o \in {"push", "remove", "get"} : op' = [op EXCEPT ![c] = o]
    /\ \E p \in Pids \cup {NoPid} : pid' = [pid EXCEPT ![c] = p]
    /\ \E i \in {idx[c], idx[c] + 1} : idx' = [idx EXCEPT ![c] = i]
    /\ UNCHANGED <<entries, ok>>

Push(c) ==
    /\ Answer(c, "push", TRUE)
    /\ entries' = Append(entries, pid[c])
    /\ UNCHANGED <<op, pid, idx>>

IsListed(p) == \E i \in 1..Len(entries) : entries[i] = p

Remove(c) ==
    /\ Answer(c, "remove", IsListed(pid[c]))
    /\ entries' = IF IsListed(pid[c])
                  THEN [i \in 1..(Len(entries) - 1) |-> entries[i]]
                  ELSE entries
    /\ UNCHANGED <<op, pid, idx>>

Get(c) ==
    /\ Answer(c, "get", idx[c] < Len(entries))
    /\ pid' = IF idx[c] < Len(entries)
              THEN [pid EXCEPT ![c] = entries[idx[c] + 1]] ELSE pid
    /\ UNCHANGED <<entries, op, idx>>

\* The command ends: after its last answer, or killed during a call.
End(c) ==
    /\ phase[c] # "idle"
    /\ phase' = [phase EXCEPT ![c] = "exited"]
    /\ op' = [op EXCEPT ![c] = "none"]
    /\ pid' = [pid EXCEPT ![c] = NoPid]
    /\ idx' = [idx EXCEPT ![c] = 0]
    /\ ok' = [ok EXCEPT ![c] = FALSE]
    /\ UNCHANGED entries

Next == \E c \in Procs : Invoke(c) \/ Push(c) \/ Remove(c) \/ Get(c) \/ End(c)

Spec == Init /\ [][Next]_vars
===============================================================================
