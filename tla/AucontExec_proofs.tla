--------------------------- MODULE AucontExec_proofs ---------------------------
(***************************************************************************)
(* Proofs about AucontExec, for any number of containers and pids.         *)
(***************************************************************************)
EXTENDS AucontExec, TLAPS

-----------------------------------------------------------------------------
(***************************************************************************)
(* The inductive invariant.                                                *)
(***************************************************************************)
Alive == {"blocked", "running"}
Owners == Containers \cup {Host}
Inside == {"chroot", "fork", "wait", "returned"}

TypeOK ==
    /\ occupant \in [Pids -> Owners \cup {None}]
    /\ cstate \in [Containers -> Alive \cup {"none", "zombie", "dead"}]
    /\ cgroups \subseteq Pids /\ target \in Pids
    /\ pc \in Inside \cup {"cgroup", "root", "open", "setns", "failed"}
    /\ step \in 0..6
    /\ fd \in Owners \cup {None}
    /\ ns \in [Kinds -> Owners]
    /\ dirs \in [cwd : Owners, root : Owners]
    /\ child \in {"none", "forked", "running", "ended", "failed"}

\* A container has one pid as long as it is not dead.
PidInv ==
    /\ \A p \in Pids : occupant[p] \in Containers =>
          cstate[occupant[p]] \in Alive \cup {"zombie"}
    /\ \A p, q \in Pids :
          occupant[p] \in Containers /\ occupant[p] = occupant[q] => p = q

\* What exec has entered, or is about to, is of a container whose pid is the
\* target, or which is dead.
Was(o) == o \in Containers =>
             cstate[o] # "none" /\ (cstate[o] # "dead" => occupant[target] = o)
WasInv == Was(fd) /\ Was(ns["user"])

\* The namespaces entered so far are the user namespace's, which is not the
\* host's.
NsInv ==
    /\ \A i \in 1..6 : ns[Order[i]] = IF i <= step THEN ns["user"] ELSE Host
    /\ step > 0 => ns["user"] \in Containers

\* What is done at each place.
PlaceInv ==
    /\ pc = "setns" => fd \in Owners /\ step < 6
    /\ pc \in {"cgroup", "root", "open"} => step < 6
    /\ pc \in Inside => step = 6 /\ dirs.root = ns["user"] /\ dirs.cwd = ns["user"]
    /\ pc \in Inside \cup {"root", "open", "setns"} => cgroup = target
    /\ pc \notin {"wait", "returned"} => child = "none"
    /\ child \in {"forked", "running"} => cstate[ns["user"]] \in Alive

IInv == TypeOK /\ PidInv /\ WasInv /\ NsInv /\ PlaceInv

(***************************************************************************)
(* The order of the namespaces: each once, the user namespace first and    *)
(* the mount namespace last.                                               *)
(***************************************************************************)
LEMMA OrderOnce ==
    /\ Len(Order) = 6 /\ Order[1] = "user" /\ Order[6] = "mnt"
    /\ \A i \in 1..6 : Order[i] \in Kinds
    /\ \A i, j \in 1..6 : Order[i] = Order[j] => i = j
    /\ \A k \in Kinds : \E i \in 1..6 : Order[i] = k
  <1>1. Len(Order) = 6 /\ Order[1] = "user" /\ Order[2] = "ipc" /\ Order[3] = "uts"
        /\ Order[4] = "net" /\ Order[5] = "pid" /\ Order[6] = "mnt"
    BY DEF Order
  <1>2. \A i \in 1..6 : i = 1 \/ i = 2 \/ i = 3 \/ i = 4 \/ i = 5 \/ i = 6
    OBVIOUS
  <1>3. \A i \in 1..6 : Order[i] \in Kinds
    BY <1>1, <1>2 DEF Kinds
  <1>4. \A i, j \in 1..6 : Order[i] = Order[j] => i = j
    BY <1>1, <1>2
  <1>5. \A k \in Kinds : \E i \in 1..6 : Order[i] = k
    BY <1>1 DEF Kinds
  <1>6. QED
    BY <1>1, <1>3, <1>4, <1>5

\* Once all six are entered, every namespace is the user namespace's.
LEMMA AllEntered ==
    ASSUME NsInv, step = 6
    PROVE  ns["user"] \in Containers /\ \A k \in Kinds : ns[k] = ns["user"]
  BY OrderOnce DEF NsInv

LEMMA InitInv == Init => IInv
  BY OrderOnce, ExecAssumption
     DEF Init, IInv, TypeOK, PidInv, WasInv, Was, NsInv, PlaceInv, Kinds, Inside,
         Owners, Alive

-----------------------------------------------------------------------------
(***************************************************************************)
(* Steps of containers and other programs.                                 *)
(***************************************************************************)
LEMMA CloneInv ==
    ASSUME IInv, NEW c \in Containers, NEW p \in Pids, Clone(c, p)
    PROVE  IInv'
  <1> USE ExecAssumption DEF Clone, exec
  <1>1. TypeOK'
    BY DEF IInv, TypeOK, Owners, Alive
  <1>2. PidInv'
    BY DEF IInv, TypeOK, PidInv, Owners, Alive
  <1>3. WasInv'
    BY DEF IInv, TypeOK, PidInv, WasInv, Was, Owners
  <1>4. NsInv' /\ PlaceInv'
    BY DEF IInv, TypeOK, NsInv, PlaceInv, Inside, Owners, Alive
  <1>5. QED
    BY <1>1, <1>2, <1>3, <1>4 DEF IInv

LEMMA ConfigureInv ==
    ASSUME IInv, NEW p \in Pids, MakeCgroup(p) \/ Go(p)
    PROVE  IInv'
  <1> USE ExecAssumption DEF MakeCgroup, Go, exec
  <1>1. TypeOK'
    BY DEF IInv, TypeOK, Owners, Alive
  <1>2. PidInv'
    BY DEF IInv, TypeOK, PidInv, Owners, Alive
  <1>3. WasInv'
    BY DEF IInv, TypeOK, PidInv, WasInv, Was, Owners
  <1>4. NsInv' /\ PlaceInv'
    BY DEF IInv, TypeOK, NsInv, PlaceInv, Inside, Owners, Alive
  <1>5. QED
    BY <1>1, <1>2, <1>3, <1>4 DEF IInv

LEMMA ContainerEndsInv ==
    ASSUME IInv, NEW p \in Pids, ContainerEnds(p)
    PROVE  IInv'
  <1> USE ExecAssumption DEF ContainerEnds, exec
  <1>1. TypeOK'
    BY DEF IInv, TypeOK, Owners, Alive
  <1>2. PidInv'
    BY DEF IInv, TypeOK, PidInv, Owners, Alive
  <1>3. WasInv'
    BY DEF IInv, TypeOK, PidInv, WasInv, Was, Owners
  <1>4. NsInv'
    BY DEF IInv, NsInv
  <1>5. child' \in {"forked", "running"} => cstate'[ns'["user"]] \in Alive
    <2>1. child' \in {"forked", "running"} => step = 6
      BY DEF IInv, PlaceInv, Inside
    <2>2. CASE step = 6
      BY <2>2, AllEntered DEF IInv, TypeOK, PlaceInv, Kinds, Alive
    <2>3. QED
      BY <2>1, <2>2
  <1>6. PlaceInv'
    BY <1>5 DEF IInv, TypeOK, PlaceInv, Inside, Owners
  <1>7. QED
    BY <1>1, <1>2, <1>3, <1>4, <1>6 DEF IInv

LEMMA ReapInv ==
    ASSUME IInv, NEW p \in Pids, Reap(p)
    PROVE  IInv'
  <1> USE ExecAssumption DEF Reap, exec
  <1>1. TypeOK'
    BY DEF IInv, TypeOK, Owners, Alive
  <1>2. PidInv'
    BY DEF IInv, TypeOK, PidInv, Owners, Alive
  <1>3. WasInv'
    BY DEF IInv, TypeOK, PidInv, WasInv, Was, Owners
  <1>4. NsInv' /\ PlaceInv'
    BY DEF IInv, TypeOK, NsInv, PlaceInv, Inside, Owners, Alive
  <1>5. QED
    BY <1>1, <1>2, <1>3, <1>4 DEF IInv

LEMMA OtherInv ==
    ASSUME IInv, NEW p \in Pids, OtherStarts(p) \/ OtherEnds(p)
    PROVE  IInv'
  <1> USE ExecAssumption DEF OtherStarts, OtherEnds, exec
  <1>1. TypeOK'
    BY DEF IInv, TypeOK, Owners
  <1>2. PidInv'
    BY DEF IInv, TypeOK, PidInv
  <1>3. WasInv'
    BY DEF IInv, TypeOK, WasInv, Was
  <1>4. NsInv' /\ PlaceInv'
    BY DEF IInv, NsInv, PlaceInv
  <1>5. QED
    BY <1>1, <1>2, <1>3, <1>4 DEF IInv

-----------------------------------------------------------------------------
(***************************************************************************)
(* Steps of exec.                                                          *)
(***************************************************************************)
LEMMA EnterInv ==
    ASSUME IInv, EnterCgroup \/ EnterRoot \/ OpenNs
    PROVE  IInv'
  <1> USE ExecAssumption
          DEF EnterCgroup, EnterRoot, OpenNs, Openable, ProcDir, Fail, kernel
  <1>1. TypeOK'
    BY DEF IInv, TypeOK, Owners, Inside
  <1>2. PidInv'
    BY DEF IInv, PidInv
  <1>3. WasInv'
    BY DEF IInv, TypeOK, PidInv, WasInv, Was, Alive
  <1>4. NsInv'
    BY DEF IInv, NsInv
  <1>5. PlaceInv'
    BY DEF IInv, TypeOK, NsInv, PlaceInv, Inside, Owners
  <1>6. QED
    BY <1>1, <1>2, <1>3, <1>4, <1>5 DEF IInv

LEMMA SetNsInv ==
    ASSUME IInv, SetNs
    PROVE  IInv'
  <1> DEFINE k == Order[step + 1]
  <1> USE ExecAssumption DEF kernel
  <1>1. CASE Fail /\ UNCHANGED <<ns, dirs, step>>
    <2>1. pc' = "failed" /\ fd' = None /\ UNCHANGED <<kernel, target, step, ns, dirs, cgroup, child>>
          /\ pc = "setns"
      BY <1>1 DEF SetNs, Fail
    <2>2. QED
      BY <2>1 DEF IInv, TypeOK, PidInv, WasInv, Was, NsInv, PlaceInv, Inside, Owners
  <1>2. CASE ~(Fail /\ UNCHANGED <<ns, dirs, step>>)
    <2>1. /\ pc = "setns" /\ step \in 0..5 /\ fd \in Owners /\ SetnsAllowed(k)
          /\ ns' = [ns EXCEPT ![k] = fd] /\ step' = step + 1 /\ fd' = None
          /\ dirs' = IF k = "mnt" THEN [cwd |-> fd, root |-> fd] ELSE dirs
          /\ pc' \in {IF step' = 6 THEN "chroot" ELSE "open", "failed"}
          /\ UNCHANGED <<kernel, target, cgroup, child>>
      BY <1>2, OrderOnce DEF SetNs, IInv, TypeOK, PlaceInv
    <2>2. k \in Kinds /\ (k = "user" <=> step = 0) /\ (k = "mnt" <=> step = 5)
      BY <2>1, OrderOnce
    <2>3. fd \in Containers /\ ns'["user"] = fd
      BY <2>1, <2>2 DEF SetnsAllowed, IInv, TypeOK, NsInv, Owners, Kinds
    <2>4. TypeOK'
      BY <2>1, <2>2 DEF IInv, TypeOK, Inside
    <2>5. PidInv' /\ WasInv'
      BY <2>1, <2>3 DEF IInv, PidInv, WasInv, Was
    <2>6. NsInv'
      <3>1. \A i \in 1..6 : i <= step => ns[Order[i]] = fd
        <4>1. step > 0 => ns["user"] = fd
          BY <2>1, <2>2, <2>3 DEF IInv, TypeOK
        <4>2. QED
          BY <4>1, <2>1 DEF IInv, NsInv
      <3>2. \A i \in 1..6 : ns'[Order[i]] = IF i = step + 1 THEN fd ELSE ns[Order[i]]
        BY <2>1, <2>2, OrderOnce DEF IInv, TypeOK
      <3>3. QED
        BY <3>1, <3>2, <2>1, <2>3 DEF IInv, NsInv
    <2>7. PlaceInv'
      BY <2>1, <2>2, <2>3 DEF IInv, PlaceInv, Inside
    <2>8. QED
      BY <2>4, <2>5, <2>6, <2>7 DEF IInv
  <1>3. QED
    BY <1>1, <1>2

LEMMA ChrootInv ==
    ASSUME IInv, Chroot
    PROVE  IInv'
  <1>1. TypeOK'
    BY DEF Chroot, Fail, kernel, IInv, TypeOK, Inside
  <1>2. PidInv' /\ WasInv' /\ NsInv'
    BY ExecAssumption DEF Chroot, Fail, kernel, IInv, PidInv, WasInv, Was, NsInv
  <1>3. PlaceInv'
    BY DEF Chroot, Fail, kernel, IInv, TypeOK, PlaceInv, Inside
  <1>4. QED
    BY <1>1, <1>2, <1>3 DEF IInv

LEMMA ForkInv ==
    ASSUME IInv, Fork
    PROVE  IInv'
  <1>1. TypeOK'
    BY DEF Fork, kernel, IInv, TypeOK, Inside
  <1>2. PidInv' /\ WasInv' /\ NsInv'
    BY DEF Fork, kernel, IInv, PidInv, WasInv, Was, NsInv
  <1>3. ns["pid"] = ns["user"] /\ ns["pid"] \in Containers
    BY AllEntered DEF Fork, IInv, PlaceInv, Inside, Kinds
  <1>4. PlaceInv'
    BY <1>3, ExecAssumption DEF Fork, kernel, IInv, TypeOK, PlaceInv, Inside, Alive
  <1>5. QED
    BY <1>1, <1>2, <1>4 DEF IInv

LEMMA CommandInv ==
    ASSUME IInv, Execute \/ CommandEnds \/ Wait
    PROVE  IInv'
  <1> USE DEF Execute, CommandEnds, Wait, kernel, exec
  <1>1. TypeOK'
    BY DEF IInv, TypeOK, Inside
  <1>2. PidInv' /\ WasInv' /\ NsInv'
    BY DEF IInv, PidInv, WasInv, Was, NsInv
  <1>3. PlaceInv'
    BY DEF IInv, PlaceInv, Inside
  <1>4. QED
    BY <1>1, <1>2, <1>3 DEF IInv

LEMMA NextInv == IInv /\ [Next]_vars => IInv'
  <1> SUFFICES ASSUME IInv, [Next]_vars PROVE IInv'
    OBVIOUS
  <1>1. CASE ExecNext
    BY <1>1, EnterInv, SetNsInv, ChrootInv, ForkInv, CommandInv DEF ExecNext
  <1>2. CASE CommandEnds
    BY <1>2, CommandInv
  <1>3. CASE KernelNext
    BY <1>3, CloneInv, ConfigureInv, ContainerEndsInv, ReapInv, OtherInv DEF KernelNext
  <1>4. CASE UNCHANGED vars
    BY <1>4 DEF vars, IInv, TypeOK, PidInv, WasInv, Was, NsInv, PlaceInv
  <1>5. QED
    BY <1>1, <1>2, <1>3, <1>4 DEF Next

\* IInv holds in every state.
THEOREM Invariant == Spec => []IInv
  BY InitInv, NextInv, PTL DEF Spec

-----------------------------------------------------------------------------
\* The namespaces that aucont_exec has entered are always of one container.
THEOREM Unmixed == Spec => []OneContainer
  <1>1. IInv => OneContainer
    <2> SUFFICES ASSUME IInv, NEW j \in Kinds, NEW k \in Kinds, ns[j] # Host, ns[k] # Host
                 PROVE  ns[j] = ns[k]
      BY DEF OneContainer
    <2>1. \E i \in 1..6 : Order[i] = j
      BY OrderOnce
    <2>2. \E i \in 1..6 : Order[i] = k
      BY OrderOnce
    <2>3. QED
      BY <2>1, <2>2 DEF IInv, NsInv
  <1>2. QED
    BY <1>1, Invariant, PTL

\* The command of exec runs entirely in one container that has not ended.
THEOREM Contained == Spec => []CommandInside
  <1>1. IInv => CommandInside
    <2> SUFFICES ASSUME IInv, child = "running" PROVE CommandInside
      BY DEF CommandInside
    <2>1. pc \in {"wait", "returned"}
      BY DEF IInv, PlaceInv
    <2>2. step = 6 /\ dirs.root = ns["user"] /\ cgroup = target
          /\ cstate[ns["user"]] \in Alive
      BY <2>1 DEF IInv, PlaceInv, Inside
    <2>3. ns["user"] \in Containers /\ \A k \in Kinds : ns[k] = ns["user"]
      BY <2>2, AllEntered DEF IInv
    <2>4. occupant[target] = ns["user"]
      BY <2>2, <2>3 DEF IInv, WasInv, Was, Alive
    <2>5. QED
      BY <2>2, <2>3, <2>4 DEF CommandInside, Alive
  <1>2. QED
    BY <1>1, Invariant, PTL
===============================================================================
