------------------------------ MODULE PidsStorage ------------------------------
(***************************************************************************)
(* class pids_storage under concurrent use.  A process of Procs is one     *)
(* aucont command: it opens the storage, calls push_back (start), then     *)
(* remove_by_pid if it waits for its container; or remove_by_pid (stop);   *)
(* or get_pid for 0, 1, 2, ... until it returns false (list); and exits.   *)
(* Every call takes the named semaphore, works on the file in several      *)
(* steps, and posts the semaphore.  A process of Killable may be killed    *)
(* between any two steps; nobody then posts the semaphore for it.          *)
(***************************************************************************)
EXTENDS PidsFile, FiniteSets

CONSTANTS Procs,       \* the commands
          Killable,    \* those a signal may end at any point
          MaxInitial   \* bound: entries that earlier commands left in the file

ASSUME ConstantsAssumption == Killable \subseteq Procs /\ MaxInitial \in Nat

VARIABLES file,    \* the pids file
          sem,     \* value of the named semaphore
          pc,      \* where each command is
          op,      \* the storage call it makes, or made last
          pid,     \* its pid argument, or get_pid's result
          idx,     \* pos_found of remove_by_pid; pid_idx of the list loop
          count,   \* pids_count() as the call read it
          ok,      \* what the call returns
          stream   \* its fstream

vars == <<file, sem, pc, op, pid, idx, count, ok, stream>>
locals == <<op, pid, idx, count, ok, stream>>

Locations == {"new", "lock", "seek", "write", "count", "scan", "overwrite",
              "truncate", "get", "unlock", "returned", "exited", "killed"}

\* Where the semaphore is held: from sem_wait until sem_post.
Critical == {"seek", "write", "count", "scan", "overwrite", "truncate", "get",
             "unlock"}
Inside(c) == pc[c] \in Critical
Gone(c) == pc[c] \in {"exited", "killed"}

Init ==
    /\ file \in UNION {[1..n -> Pids] : n \in 0..MaxInitial}
    /\ sem = 1
    /\ pc = [c \in Procs |-> "new"]
    /\ op = [c \in Procs |-> "none"]
    /\ pid = [c \in Procs |-> NoPid]
    /\ idx = [c \in Procs |-> 0]
    /\ count = [c \in Procs |-> 0]
    /\ ok = [c \in Procs |-> FALSE]
    /\ stream = [c \in Procs |-> Opened]

Goto(c, l) == pc' = [pc EXCEPT ![c] = l]
Set(f, c, v) == [f EXCEPT ![c] = v]

\* The process is gone, and its memory with it.
Vanish(c, l) ==
    /\ Goto(c, l)
    /\ op' = Set(op, c, "none")
    /\ pid' = Set(pid, c, NoPid)
    /\ idx' = Set(idx, c, 0)
    /\ count' = Set(count, c, 0)
    /\ ok' = Set(ok, c, FALSE)
    /\ stream' = Set(stream, c, Opened)
    /\ UNCHANGED <<file, sem>>

(***************************************************************************)
(* The calls the commands make.                                            *)
(***************************************************************************)
\* Mutant: push_back does not take the semaphore.
BeginUnlocked(c, o, p) ==
    /\ pc[c] = "new"
    /\ Goto(c, IF o = "push" THEN "seek" ELSE "lock")
    /\ op' = Set(op, c, o)
    /\ pid' = Set(pid, c, p)
    /\ UNCHANGED <<file, sem, idx, count, ok, stream>>

\* Mutant: the constructor unlinks the semaphore and creates it anew.
BeginFreshSem(c, o, p) ==
    /\ pc[c] = "new"
    /\ Goto(c, "lock")
    /\ sem' = 1
    /\ op' = Set(op, c, o)
    /\ pid' = Set(pid, c, p)
    /\ UNCHANGED <<file, idx, count, ok, stream>>

\* pids_storage pids; pids.push_back(p) of aucont_start, or
\* pids.remove_by_pid(p) of aucont_stop.
Begin(c, o, p) ==
    /\ pc[c] = "new"
    /\ Goto(c, "lock")
    /\ op' = Set(op, c, o)
    /\ pid' = Set(pid, c, p)
    /\ UNCHANGED <<file, sem, idx, count, ok, stream>>

StartPush(c) == \E p \in Pids : Begin(c, "push", p)
StopRemove(c) == \E p \in Pids : Begin(c, "remove", p)
ListGet(c) == Begin(c, "get", NoPid)

\* The container that aucont_start waited for has ended.
WaitedRemove(c) ==
    /\ pc[c] = "returned" /\ op[c] = "push"
    /\ Goto(c, "lock")
    /\ op' = Set(op, c, "remove")
    /\ UNCHANGED <<file, sem, pid, idx, count, ok, stream>>

\* ++pid_idx of the loop in aucont_list.
ListNext(c) ==
    /\ pc[c] = "returned" /\ op[c] = "get" /\ ok[c]
    /\ Goto(c, "lock")
    /\ idx' = Set(idx, c, idx[c] + 1)
    /\ UNCHANGED <<file, sem, op, pid, count, ok, stream>>

\* A daemonized start, a finished start, a stop, a list past the last entry.
Exit(c) ==
    /\ pc[c] = "returned"
    /\ op[c] = "get" => ~ok[c]
    /\ Vanish(c, "exited")

(***************************************************************************)
(* The bodies of the calls.                                                *)
(***************************************************************************)
Lock(c) ==
    /\ pc[c] = "lock"
    /\ sem > 0
    /\ sem' = sem - 1
    /\ Goto(c, IF op[c] = "push" THEN "seek" ELSE "count")
    /\ UNCHANGED <<file, locals>>

Unlock(c) ==
    /\ pc[c] = "unlock"
    /\ sem' = sem + 1
    /\ Goto(c, "returned")
    /\ UNCHANGED <<file, locals>>

\* Mutant: push_back seeks to the beginning.
SeekBegin(c) ==
    /\ pc[c] = "seek"
    /\ stream' = Set(stream, c, SeekTo(stream[c], 0))
    /\ Goto(c, "write")
    /\ UNCHANGED <<file, sem, op, pid, idx, count, ok>>

\* push_back: file.seekp(0, end) ...
SeekEnd(c) ==
    /\ pc[c] = "seek"
    /\ stream' = Set(stream, c, SeekTo(stream[c], Len(file)))
    /\ Goto(c, "write")
    /\ UNCHANGED <<file, sem, op, pid, idx, count, ok>>

\* ... .write(&pid).flush()
Write(c) ==
    LET w == WriteInt(stream[c], file, pid[c])
    IN  /\ pc[c] = "write"
        /\ file' = w.file
        /\ stream' = Set(stream, c, w.stream)
        /\ ok' = Set(ok, c, TRUE)
        /\ Goto(c, "unlock")
        /\ UNCHANGED <<sem, op, pid, idx, count>>

\* pids_count(), with which remove_by_pid and get_pid begin.
Count(c) ==
    /\ pc[c] = "count"
    /\ stream' = Set(stream, c, AtEnd(file))
    /\ count' = Set(count, c, Len(file))
    /\ idx' = IF op[c] = "remove" THEN Set(idx, c, 0) ELSE idx
    /\ Goto(c, IF op[c] = "remove" THEN "scan" ELSE "get")
    /\ UNCHANGED <<file, sem, op, pid, ok>>

\* Mutant: the return without a hit does not post the semaphore.
ScanKeepsSem(c) ==
    LET r == ReadInt(SeekTo(stream[c], idx[c]), file)
    IN  /\ pc[c] = "scan"
        /\ \/ /\ idx[c] # count[c]
              /\ stream' = Set(stream, c, r.stream)
              /\ IF r.val = pid[c]
                 THEN Goto(c, "overwrite") /\ UNCHANGED idx
                 ELSE idx' = Set(idx, c, idx[c] + 1) /\ UNCHANGED pc
              /\ UNCHANGED ok
           \/ /\ idx[c] = count[c]
              /\ ok' = Set(ok, c, FALSE)
              /\ Goto(c, "returned")
              /\ UNCHANGED <<idx, stream>>
        /\ UNCHANGED <<file, sem, op, pid, count>>

\* One turn of the search loop of remove_by_pid, or its end without a hit.
Scan(c) ==
    LET r == ReadInt(SeekTo(stream[c], idx[c]), file)
    IN  /\ pc[c] = "scan"
        /\ \/ /\ idx[c] # count[c]
              /\ stream' = Set(stream, c, r.stream)
              /\ IF r.val = pid[c]
                 THEN Goto(c, "overwrite") /\ UNCHANGED idx
                 ELSE idx' = Set(idx, c, idx[c] + 1) /\ UNCHANGED pc
              /\ UNCHANGED ok
           \/ /\ idx[c] = count[c]
              /\ ok' = Set(ok, c, FALSE)
              /\ Goto(c, "unlock")
              /\ UNCHANGED <<idx, stream>>
        /\ UNCHANGED <<file, sem, op, pid, count>>

\* remove_by_idx_unsafe(pos_found, count): the seeks, the read, the write.
Overwrite(c) ==
    LET w == OverwriteEntry(stream[c], file, idx[c])
    IN  /\ pc[c] = "overwrite"
        /\ idx[c] < count[c]
        /\ file' = w.file
        /\ stream' = Set(stream, c, w.stream)
        /\ Goto(c, "truncate")
        /\ UNCHANGED <<sem, op, pid, idx, count, ok>>

\* ... and its truncate.
Truncate(c) ==
    /\ pc[c] = "truncate"
    /\ file' = TruncateTo(file, count[c] - 1)
    /\ ok' = Set(ok, c, TRUE)
    /\ Goto(c, "unlock")
    /\ UNCHANGED <<sem, op, pid, idx, count, stream>>

\* get_pid(idx, pid) after its pids_count().
Get(c) ==
    LET r == ReadInt(SeekTo(stream[c], idx[c]), file)
    IN  /\ pc[c] = "get"
        /\ IF count[c] <= idx[c]
           THEN /\ ok' = Set(ok, c, FALSE)
                /\ UNCHANGED <<pid, stream>>
           ELSE /\ pid' = Set(pid, c, r.val)
                /\ stream' = Set(stream, c, r.stream)
                /\ ok' = Set(ok, c, TRUE)
        /\ Goto(c, "unlock")
        /\ UNCHANGED <<file, sem, op, idx, count>>

\* A signal ends the command wherever it is.
Kill(c) ==
    /\ c \in Killable
    /\ ~Gone(c) /\ pc[c] # "new"
    /\ Vanish(c, "killed")

Step(c) ==
    \/ WaitedRemove(c) \/ ListNext(c) \/ Exit(c)
    \/ Lock(c) \/ SeekEnd(c) \/ Write(c) \/ Count(c) \/ Scan(c)
    \/ Overwrite(c) \/ Truncate(c) \/ Get(c) \/ Unlock(c)

Enter(c) == StartPush(c) \/ StopRemove(c) \/ ListGet(c)

Finished == (\A c \in Procs : pc[c] = "new" \/ Gone(c)) /\ UNCHANGED vars

Next ==
    \/ \E c \in Procs : Enter(c) \/ Step(c) \/ Kill(c)
    \/ Finished

Spec == Init /\ [][Next]_vars

\* A start between its push_back and its exit or removal.  Without --daemonize
\* it is in waitpid, as long as the command of its container goes on.
AtWaitpid(c) == pc[c] = "returned" /\ op[c] = "push"

FairSpec == Spec /\ \A c \in Procs : WF_vars(~AtWaitpid(c) /\ Step(c))

-----------------------------------------------------------------------------
(***************************************************************************)
(* Properties.                                                             *)
(***************************************************************************)
\* The values of the variables; in particular only pids reach the file,
\* never an unassigned int (the uninitialised `pid` of remove_by_idx_unsafe)
\* and never a hole.
TypeOK ==
    /\ file \in Seq(Pids)
    /\ sem \in {0, 1}
    /\ pc \in [Procs -> Locations]
    /\ op \in [Procs -> {"none", "push", "remove", "get"}]
    /\ pid \in [Procs -> Pids \cup {NoPid}]
    /\ idx \in [Procs -> Nat]
    /\ count \in [Procs -> Nat]
    /\ ok \in [Procs -> BOOLEAN]
    /\ stream \in [Procs -> Streams]

\* The semaphore lets one command at a time work on the file, through every
\* kill: it is posted only by the command that took it.
MutualExclusion == \A c, d \in Procs : Inside(c) /\ Inside(d) => c = d

\* The file size a call read at its beginning is still the size of the file
\* when it uses it as the bound of its search, for the index of the entry it
\* reads and for the length it truncates to.
CountIsFresh ==
    \A c \in Procs : pc[c] \in {"scan", "overwrite", "truncate", "get"} =>
        count[c] = Len(file)

\* An entry stays at its index as long as it exists: a step only appends
\* or cuts the end.  aucont_list walks the file by index and drops the lock
\* between two entries, so an entry that moved could be passed over.
EntriesNeverMove ==
    [][\A i \in 1..Len(file) : i <= Len(file') => file'[i] = file[i]]_vars

\* A semaphore whose holder was killed is lost for good: no later command
\* gets into the storage again.
Lost ==
    /\ sem = 0 /\ \A c \in Procs : ~Inside(c)
    /\ \E c \in Procs : pc[c] = "killed"
LostForever == [][Lost => Lost']_vars

\* Every command ends, or comes to wait for its container, or finds the
\* semaphore lost to a kill: no call of the storage, no search and no listing
\* goes on for ever.  A start whose waitpid has returned is past its wait, so
\* its removal ends too.
ExitOrLost ==
    \A c \in Procs : pc[c] # "new" ~> (Gone(c) \/ AtWaitpid(c) \/ Lost)

\* Each call is atomic for the others, with the results PidRegistry states.
Registry == INSTANCE PidRegistry WITH
    entries <- file,
    phase <- [c \in Procs |->
                CASE pc[c] = "new" -> "idle"
                  [] pc[c] \in {"unlock", "returned"} -> "answered"
                  [] Gone(c) -> "exited"
                  [] OTHER -> "called"],
    idx <- [c \in Procs |-> IF op[c] = "get" THEN idx[c] ELSE 0]
ImplementsRegistry == Registry!Spec

\* A remove_by_pid that found its pid takes one entry of that pid out of the
\* file: what aucont_start --debug prints then is "Pid is removed".
Occurrences(f, p) == Cardinality({i \in 1..Len(f) : f[i] = p})
RemovedPidIsGone ==
    [][\A c \in Procs : pc[c] = "overwrite" /\ pc'[c] = "truncate" =>
          Occurrences(TruncateTo(file', count[c] - 1), pid[c])
              = Occurrences(file, pid[c]) - 1]_vars
===============================================================================
