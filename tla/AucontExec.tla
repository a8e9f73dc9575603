------------------------------ MODULE AucontExec ------------------------------
(***************************************************************************)
(* aucont_exec, which enters a container by its pid: its cgroup, its root  *)
(* directory and its namespaces one after the other, each found by a path  *)
(* with the pid in it.  Meanwhile the container may end, and its pid may   *)
(* be given to another container or to another program.                    *)
(***************************************************************************)
EXTENDS Integers, Sequences

CONSTANTS Containers,
          Pids,
          None,   \* no process, no descriptor
          Host    \* a program outside all containers, and the namespaces it has

ASSUME ExecAssumption ==
    None \notin Containers /\ Host \notin Containers /\ None # Host

VARIABLES occupant,   \* the process that has a pid
          cstate,     \* the state of a container's first process
          cgroups,    \* the pids that have a directory in the cpu cgroup
          target,     \* args.pid
          pc,         \* where aucont_exec is
          step,       \* how many namespaces it has entered
          fd,         \* whose namespace the open descriptor is of
          ns,         \* whose namespaces aucont_exec is in
          cgroup,     \* the pid of the directory it has entered
          dirs,       \* whose working and root directory it has
          child       \* the process it has forked

vars == <<occupant, cstate, cgroups, target, pc, step, fd, ns, cgroup, dirs, child>>
kernel == <<occupant, cstate, cgroups>>

\* Mutants: the user namespace last, no pid namespace, no mount namespace.
UserLast == <<"ipc", "uts", "net", "pid", "mnt", "user">>
NoPidNs == <<"user", "ipc", "uts", "net", "mnt">>
NoMntNs == <<"user", "ipc", "uts", "net", "pid">>

\* The set_ns calls.
Order == <<"user", "ipc", "uts", "net", "pid", "mnt">>

Kinds == {"user", "ipc", "uts", "net", "pid", "mnt"}

Init ==
    /\ occupant = [p \in Pids |-> None]
    /\ cstate = [c \in Containers |-> "none"]
    /\ cgroups = {}
    /\ target \in Pids
    /\ pc = "cgroup" /\ step = 0 /\ fd = None
    /\ ns = [k \in Kinds |-> Host]
    /\ cgroup = None
    /\ dirs = [cwd |-> Host, root |-> Host]
    /\ child = "none"

(***************************************************************************)
(* Containers and other programs.                                          *)
(***************************************************************************)
exec == <<target, pc, step, fd, ns, cgroup, dirs>>

\* clone in aucont_start; the container waits for its setup.
Clone(c, p) ==
    /\ cstate[c] = "none" /\ occupant[p] = None
    /\ cstate' = [cstate EXCEPT ![c] = "blocked"]
    /\ occupant' = [occupant EXCEPT ![p] = c]
    /\ UNCHANGED <<cgroups, exec, child>>

\* mkdir -p of the container's directory in the cpu cgroup, by aucont_start ...
MakeCgroup(p) ==
    /\ occupant[p] \in Containers /\ cstate[occupant[p]] = "blocked"
    /\ cgroups' = cgroups \cup {p}
    /\ UNCHANGED <<occupant, cstate, exec, child>>

\* ... and its 'g', later.
Go(p) ==
    /\ occupant[p] \in Containers /\ cstate[occupant[p]] = "blocked"
    /\ p \in cgroups
    /\ cstate' = [cstate EXCEPT ![occupant[p]] = "running"]
    /\ UNCHANGED <<occupant, cgroups, exec, child>>

\* The first process of a container ends, and the kernel ends every other
\* process of its pid namespace.  It is a zombie as long as its start lives.
ContainerEnds(p) ==
    LET c == occupant[p]
    IN  /\ c \in Containers /\ cstate[c] \in {"blocked", "running"}
        /\ \/ cstate' = [cstate EXCEPT ![c] = "zombie"] /\ UNCHANGED occupant
           \/ /\ cstate' = [cstate EXCEPT ![c] = "dead"]
              /\ occupant' = [occupant EXCEPT ![p] = None]
        /\ child' = IF child \in {"forked", "running"} /\ ns["pid"] = c
                    THEN "ended" ELSE child
        /\ UNCHANGED <<cgroups, exec>>

\* waitpid in aucont_start.
Reap(p) ==
    /\ occupant[p] \in Containers /\ cstate[occupant[p]] = "zombie"
    /\ cstate' = [cstate EXCEPT ![occupant[p]] = "dead"]
    /\ occupant' = [occupant EXCEPT ![p] = None]
    /\ UNCHANGED <<cgroups, exec, child>>

OtherStarts(p) ==
    /\ occupant[p] = None
    /\ occupant' = [occupant EXCEPT ![p] = Host]
    /\ UNCHANGED <<cstate, cgroups, exec, child>>

OtherEnds(p) ==
    /\ occupant[p] = Host
    /\ occupant' = [occupant EXCEPT ![p] = None]
    /\ UNCHANGED <<cstate, cgroups, exec, child>>

(***************************************************************************)
(* What the kernel allows.                                                 *)
(***************************************************************************)
\* Whose /proc/target is, or None if nobody's; of a zombie only what does not
\* depend on its resources is left.
ProcDir == occupant[target]
IsZombie == ProcDir \in Containers /\ cstate[ProcDir] = "zombie"
Openable(path) == ProcDir # None /\ (IsZombie => path \in {"user", "pid"})

\* setns into a user namespace: any but the own one.  Into another: those
\* that the own user namespace owns or, for root outside, any.
SetnsAllowed(k) ==
    IF k = "user" THEN fd # ns["user"] /\ ns["user"] = Host
    ELSE ns["user"] \in {fd, Host}

(***************************************************************************)
(* aucont_exec.  Any call may fail, and the ones that are checked end it.   *)
(***************************************************************************)
Fail == pc' = "failed" /\ fd' = None

\* echo getpid() | sudo tee CPU_CGROUP_DIR/pid/tasks
EnterCgroup ==
    /\ pc = "cgroup"
    /\ \/ target \in cgroups /\ pc' = "root" /\ cgroup' = target /\ UNCHANGED fd
       \/ Fail /\ UNCHANGED cgroup
    /\ UNCHANGED <<kernel, target, step, ns, dirs, child>>

\* open(/proc/pid/root), fchdir.
EnterRoot ==
    /\ pc = "root"
    /\ \/ /\ Openable("root")
          /\ pc' = "open" /\ dirs' = [dirs EXCEPT !.cwd = ProcDir] /\ UNCHANGED fd
       \/ Fail /\ UNCHANGED dirs
    /\ UNCHANGED <<kernel, target, step, ns, cgroup, child>>

\* set_ns: open(/proc/pid/ns/...) ...
OpenNs ==
    LET k == Order[step + 1]
    IN  /\ pc = "open"
        /\ \/ Openable(k) /\ pc' = "setns" /\ fd' = ProcDir
           \/ Fail
        /\ UNCHANGED <<kernel, target, step, ns, cgroup, dirs, child>>

\* ... setns and close, which may fail too, in the namespace entered.  A mount
\* namespace brings its root directory.
SetNs ==
    LET k == Order[step + 1]
    IN  /\ pc = "setns"
        /\ \/ /\ SetnsAllowed(k)
              /\ ns' = [ns EXCEPT ![k] = fd]
              /\ dirs' = IF k = "mnt" THEN [cwd |-> fd, root |-> fd] ELSE dirs
              /\ step' = step + 1
              /\ pc' \in {IF step' = Len(Order) THEN "chroot" ELSE "open", "failed"}
              /\ fd' = None
           \/ Fail /\ UNCHANGED <<ns, dirs, step>>
        /\ UNCHANGED <<kernel, target, cgroup, child>>

\* chroot(".")
Chroot ==
    /\ pc = "chroot"
    /\ \/ dirs' = [dirs EXCEPT !.root = dirs.cwd] /\ pc' = "fork" /\ UNCHANGED fd
       \/ Fail /\ UNCHANGED dirs
    /\ UNCHANGED <<kernel, target, step, ns, cgroup, child>>

\* fork, which fails in a pid namespace without its first process, and may
\* fail at any time.  Its -1 is taken for a child's pid.
Fork ==
    /\ pc = "fork"
    /\ child' \in {"none"} \cup
         (IF ns["pid"] = Host \/ cstate[ns["pid"]] \in {"blocked", "running"}
          THEN {"forked"} ELSE {})
    /\ pc' = "wait"
    /\ UNCHANGED <<kernel, target, step, fd, ns, cgroup, dirs>>

\* The child: execv, or EXECUTE_COMMAND_ERROR, which nobody asks for.
Execute ==
    /\ child = "forked"
    /\ child' \in {"running", "failed"}
    /\ UNCHANGED <<kernel, exec>>

\* The command ends; nothing obliges it to.
CommandEnds ==
    /\ child = "running"
    /\ child' = "ended"
    /\ UNCHANGED <<kernel, exec>>

\* waitpid, whatever it returns, and return 0.
Wait ==
    /\ pc = "wait" /\ child \in {"none", "failed", "ended"}
    /\ pc' = "returned"
    /\ UNCHANGED <<kernel, target, step, fd, ns, cgroup, dirs, child>>

ExecNext ==
    EnterCgroup \/ EnterRoot \/ OpenNs \/ SetNs \/ Chroot \/ Fork \/ Execute \/ Wait

KernelNext ==
    \E p \in Pids :
        \/ \E c \in Containers : Clone(c, p)
        \/ MakeCgroup(p) \/ Go(p) \/ ContainerEnds(p) \/ Reap(p) \/ OtherStarts(p) \/ OtherEnds(p)

Next == ExecNext \/ CommandEnds \/ KernelNext

Spec == Init /\ [][Next]_vars
FairSpec == Spec /\ WF_vars(ExecNext)

-----------------------------------------------------------------------------
(***************************************************************************)
(* Properties.                                                             *)
(***************************************************************************)
\* The namespaces that aucont_exec has entered, at any time, are all of one
\* container, though each is looked up by a pid that may have changed hands:
\* the user namespace comes first, and with it only its own can be entered.
OneContainer ==
    \A j, k \in Kinds : ns[j] # Host /\ ns[k] # Host => ns[j] = ns[k]

\* The command runs entirely in one container that has not ended: in its
\* namespaces, its root directory, and the cgroup of its pid.
CommandInside ==
    child = "running" =>
        \E c \in Containers :
            /\ cstate[c] \in {"blocked", "running"}
            /\ occupant[target] = c /\ cgroup = target
            /\ \A k \in Kinds : ns[k] = c
            /\ dirs.root = c

\* When the container it has entered ends, aucont_exec ends.
EndsWithContainer ==
    \A c \in Containers :
        (ns["mnt"] = c /\ cstate[c] \in {"zombie", "dead"}) ~> pc \in {"returned", "failed"}

\* "CMD - command to run inside container" (main.cpp:203): an exec that returns
\* 0 has run it, unless a signal ended it before.
ZeroMeansRun ==
    [][pc' = "returned" /\ pc # "returned" => child = "ended"]_vars
===============================================================================
