-------------------------------- MODULE Aucont --------------------------------
(***************************************************************************)
(* The commands start, stop and list together, over one pids file and the  *)
(* pids of one kernel.  A call of pids_storage is one step here, as        *)
(* PidsStorage shows it may be; the handshake of aucont_start is its       *)
(* outcome, as StartHandshake shows it.  The pid of a process that is gone *)
(* is free, and the kernel may give it to any later process.               *)
(***************************************************************************)
EXTENDS Integers, Sequences, FiniteSets

CONSTANTS Starts, Stops, Lists,   \* the commands of each kind
          Pids,
          NoPid,                  \* not a pid: a variable not yet assigned
          None,                   \* the occupant of a free pid
          Other,                  \* a process that is no container
          MaxStale                \* bound: entries earlier commands left behind

ASSUME ConstantsAssumption ==
    /\ None \notin Starts /\ Other \notin Starts /\ None # Other
    /\ NoPid \notin Pids
    /\ Starts \cap Stops = {} /\ (Starts \cup Stops) \cap Lists = {}
    /\ IsFiniteSet(Starts) /\ IsFiniteSet(Stops)
    /\ MaxStale \in Nat

Commands == Starts \cup Stops \cup Lists

VARIABLES entries,    \* the pids file
          occupant,   \* which process has a pid: None, Other, or a container,
                      \* named by the start that made it
          cstate,     \* the state of a container
          daemonize,  \* the option of a start
          pc,         \* where a command is
          pid,        \* the pid it is about
          removed,    \* stop: what remove_by_pid returned
          signalled,  \* stop: whom the signal was sent to, or None
          idx,        \* list: pid_idx
          printed,    \* list: the pids it has printed
          due         \* list (auxiliary): the pids it has to print

kernel == <<occupant, cstate>>
vars == <<entries, occupant, cstate, daemonize, pc, pid, removed,
          signalled, idx, printed, due>>

Init ==
    /\ entries \in UNION {[1..n -> Pids] : n \in 0..MaxStale}
    /\ occupant = [p \in Pids |-> None]
    /\ cstate = [c \in Starts |-> "none"]
    /\ daemonize \in [Starts -> BOOLEAN]
    /\ pc = [c \in Commands |-> "new"]
    /\ pid = [c \in Commands |-> NoPid]
    /\ removed = [d \in Stops |-> FALSE]
    /\ signalled = [d \in Stops |-> None]
    /\ idx = [l \in Lists |-> 0]
    /\ printed = [l \in Lists |-> {}]
    /\ due = [l \in Lists |-> {}]

Goto(c, from, to) == pc[c] = from /\ pc' = [pc EXCEPT ![c] = to]

Listed(p) == \E i \in 1..Len(entries) : entries[i] = p
Running(p) == occupant[p] \in Starts /\ cstate[occupant[p]] = "running"

\* kill(p, 0) = 0; a zombie still exists.
ProcessExist(p) == occupant[p] # None

\* Mutant: the last entry takes the place of the removed one.
RemoveSwap(p) ==
    entries' = IF Listed(p)
               THEN LET i == CHOOSE i \in 1..Len(entries) : entries[i] = p
                    IN  SubSeq([entries EXCEPT ![i] = entries[Len(entries)]],
                               1, Len(entries) - 1)
               ELSE entries

\* remove_by_pid(p) (see PidRegistry): the last entry goes, if p is listed.
RemoveByPid(p) ==
    entries' = IF Listed(p) THEN SubSeq(entries, 1, Len(entries) - 1) ELSE entries

\* A list has to print the containers that run and are listed when it begins,
\* and do and are to its end.
Owed == {p \in Pids : Running(p) /\ Listed(p)}
DueUpdate ==
    due' = [l \in Lists |->
              CASE pc[l] = "done" -> due[l]
                [] pc[l] = "new" -> IF pc'[l] = "new" THEN {} ELSE Owed'
                [] OTHER -> due[l] \cap Owed']

(***************************************************************************)
(* Processes.  A container that ends is a zombie until its parent waits    *)
(* for it, or is gone; then its pid is free.                               *)
(***************************************************************************)
Free(p) == occupant' = [occupant EXCEPT ![p] = None]

ContainerEnds(c) ==
    IF pc[c] = "done"
    THEN cstate' = [cstate EXCEPT ![c] = "dead"] /\ Free(pid[c])
    ELSE cstate' = [cstate EXCEPT ![c] = "zombie"] /\ UNCHANGED occupant

\* The command of the container ends.
Finish(c) ==
    /\ cstate[c] = "running"
    /\ ContainerEnds(c)
    /\ UNCHANGED <<entries, daemonize, pc, pid, removed, signalled, idx, printed>>
    /\ DueUpdate

OtherStarts(p) ==
    /\ occupant[p] = None
    /\ occupant' = [occupant EXCEPT ![p] = Other]
    /\ UNCHANGED <<entries, cstate, daemonize, pc, pid, removed, signalled, idx,
                   printed>>
    /\ DueUpdate

OtherEnds(p) ==
    /\ occupant[p] = Other
    /\ Free(p)
    /\ UNCHANGED <<entries, cstate, daemonize, pc, pid, removed, signalled, idx,
                   printed>>
    /\ DueUpdate

(***************************************************************************)
(* aucont_start                                                            *)
(***************************************************************************)
\* clone: the container has a pid and waits for 'g'.
Create(c) ==
    /\ Goto(c, "new", "setup")
    /\ \E p \in Pids :
          /\ occupant[p] = None
          /\ occupant' = [occupant EXCEPT ![p] = c]
          /\ pid' = [pid EXCEPT ![c] = p]
    /\ cstate' = [cstate EXCEPT ![c] = "blocked"]
    /\ UNCHANGED <<entries, daemonize, removed, signalled, idx, printed>>
    /\ DueUpdate

\* The start is gone; a container that does not run ends with it.
StartGone(c) ==
    /\ pc' = [pc EXCEPT ![c] = "done"]
    /\ cstate' = [cstate EXCEPT ![c] = "dead"]
    /\ Free(pid[c])

\* The setup of the container's surroundings, which may fail.
Setup(c) ==
    /\ pc[c] = "setup"
    /\ \/ pc' = [pc EXCEPT ![c] = "push"] /\ UNCHANGED kernel
       \/ StartGone(c)
    /\ UNCHANGED <<entries, daemonize, pid, removed, signalled, idx, printed>>
    /\ DueUpdate

Push(c) ==
    /\ Goto(c, "push", "go")
    /\ entries' = Append(entries, pid[c])
    /\ UNCHANGED <<occupant, cstate, daemonize, pid, removed, signalled, idx, printed>>
    /\ DueUpdate

\* Writing 'g' lets the container run, or ends the start if it is dead.
Go(c) ==
    /\ pc[c] = "go"
    /\ \/ /\ cstate[c] = "blocked"
          /\ pc' = [pc EXCEPT ![c] = IF daemonize[c] THEN "done" ELSE "wait"]
          /\ cstate' = [cstate EXCEPT ![c] = "running"]
          /\ UNCHANGED occupant
       \/ cstate[c] = "zombie" /\ StartGone(c)
    /\ UNCHANGED <<entries, daemonize, pid, removed, signalled, idx, printed>>
    /\ DueUpdate

\* Mutant: the start does not wait for the container.
WaitNot(c) ==
    /\ Goto(c, "wait", "remove")
    /\ UNCHANGED <<entries, occupant, cstate, daemonize, pid, removed, signalled,
                   idx, printed>>
    /\ DueUpdate

\* Mutant: the container is seen to have ended, but is not reaped.
WaitNoReap(c) ==
    /\ Goto(c, "wait", "remove")
    /\ cstate[c] = "zombie"
    /\ cstate' = [cstate EXCEPT ![c] = "dead"]
    /\ UNCHANGED <<entries, occupant, daemonize, pid, removed, signalled, idx,
                   printed>>
    /\ DueUpdate

\* waitpid
Wait(c) ==
    /\ Goto(c, "wait", "remove")
    /\ cstate[c] = "zombie"
    /\ cstate' = [cstate EXCEPT ![c] = "dead"]
    /\ Free(pid[c])
    /\ UNCHANGED <<entries, daemonize, pid, removed, signalled, idx, printed>>
    /\ DueUpdate

RemoveWaited(c) ==
    /\ Goto(c, "remove", "done")
    /\ RemoveByPid(pid[c])
    /\ UNCHANGED <<occupant, cstate, daemonize, pid, removed, signalled, idx, printed>>
    /\ DueUpdate

(***************************************************************************)
(* aucont_stop, given any pid.                                             *)
(***************************************************************************)
StopRemove(d) ==
    /\ Goto(d, "new", "exist")
    /\ \E p \in Pids :
          /\ pid' = [pid EXCEPT ![d] = p]
          /\ RemoveByPid(p)
          /\ removed' = [removed EXCEPT ![d] = Listed(p)]
    /\ UNCHANGED <<occupant, cstate, daemonize, signalled, idx, printed>>
    /\ DueUpdate

StopExist(d) ==
    /\ pc[d] = "exist"
    /\ pc' = [pc EXCEPT ![d] = IF removed[d] /\ ProcessExist(pid[d]) THEN "kill"
                               ELSE "done"]
    /\ UNCHANGED <<entries, occupant, cstate, daemonize, pid, removed, signalled,
                   idx, printed>>
    /\ DueUpdate

\* kill(pid, signal), of whatever process has the pid now; it may ignore the
\* signal.
StopKill(d) ==
    LET o == occupant[pid[d]]
    IN  /\ Goto(d, "kill", "done")
        /\ signalled' = [signalled EXCEPT ![d] = o]
        /\ \/ UNCHANGED kernel
           \/ o = Other /\ Free(pid[d]) /\ UNCHANGED cstate
           \/ o \in Starts /\ cstate[o] \in {"blocked", "running"} /\ ContainerEnds(o)
        /\ UNCHANGED <<entries, daemonize, pid, removed, idx, printed>>
        /\ DueUpdate

(***************************************************************************)
(* aucont_list                                                             *)
(***************************************************************************)
ListBegin(l) ==
    /\ Goto(l, "new", "get")
    /\ UNCHANGED <<entries, occupant, cstate, daemonize, pid, removed, signalled,
                   idx, printed>>
    /\ DueUpdate

ListGet(l) ==
    /\ pc[l] = "get"
    /\ IF idx[l] < Len(entries)
       THEN /\ pid' = [pid EXCEPT ![l] = entries[idx[l] + 1]]
            /\ pc' = [pc EXCEPT ![l] = "print"]
       ELSE pc' = [pc EXCEPT ![l] = "done"] /\ UNCHANGED pid
    /\ UNCHANGED <<entries, occupant, cstate, daemonize, removed, signalled, idx,
                   printed>>
    /\ DueUpdate

ListPrint(l) ==
    /\ Goto(l, "print", "get")
    /\ idx' = [idx EXCEPT ![l] = idx[l] + 1]
    /\ printed' = IF ProcessExist(pid[l])
                  THEN [printed EXCEPT ![l] = printed[l] \cup {pid[l]}] ELSE printed
    /\ UNCHANGED <<entries, occupant, cstate, daemonize, pid, removed, signalled>>
    /\ DueUpdate

Finished == (\A c \in Commands : pc[c] = "done") /\ UNCHANGED vars

Next ==
    \/ \E c \in Starts :
          \/ Create(c) \/ Setup(c) \/ Push(c) \/ Go(c) \/ Wait(c)
          \/ RemoveWaited(c) \/ Finish(c)
    \/ \E d \in Stops : StopRemove(d) \/ StopExist(d) \/ StopKill(d)
    \/ \E l \in Lists : ListBegin(l) \/ ListGet(l) \/ ListPrint(l)
    \/ \E p \in Pids : OtherStarts(p) \/ OtherEnds(p)
    \/ Finished

Spec == Init /\ [][Next]_vars

-----------------------------------------------------------------------------
(***************************************************************************)
(* Properties.                                                             *)
(***************************************************************************)
\* The values of the variables, and who has which pid: a container has its
\* pid from its clone until it is dead, and nobody else has it meanwhile.
TypeOK ==
    /\ entries \in Seq(Pids)
    /\ occupant \in [Pids -> Starts \cup {None, Other}]
    /\ cstate \in [Starts -> {"none", "blocked", "running", "zombie", "dead"}]
    /\ pid \in [Commands -> Pids \cup {NoPid}]
    /\ \A c \in Starts : \A p \in Pids :
          occupant[p] = c <=> pid[c] = p /\ cstate[c] \notin {"none", "dead"}

\* A list prints every container that is listed and runs from its beginning to
\* its end, though it holds the semaphore for one entry at a time and starts
\* and stops change the file and the pids between two of its steps.
ListComplete == \A l \in Lists : pc[l] = "done" => due[l] \subseteq printed[l]

\* No start loses an entry that is not made up for: there are at least as many
\* as containers that run, less one for each stop that removed one.  It is the
\* number only; whose entry goes is not told (RemovedPidIsGone of PidsStorage).
RunningAccounted ==
    Cardinality({c \in Starts : cstate[c] = "running"})
        <= Len(entries) + Cardinality({d \in Stops : removed[d]})

\* "Kills root container process with signal" (main.cpp:110): the process a
\* stop signals is a container.
StopSignalsContainer ==
    \A d \in Stops : signalled[d] # None => signalled[d] \in Starts
===============================================================================
