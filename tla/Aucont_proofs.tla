----------------------------- MODULE Aucont_proofs -----------------------------
(***************************************************************************)
(* Theorems about the commands together, for every number of starts, stops *)
(* and lists, every set of pids and every file earlier commands left.      *)
(***************************************************************************)
EXTENDS Aucont, SequenceTheorems, FiniteSetTheorems, TLAPS

(***************************************************************************)
(* The inductive invariant.                                                *)
(***************************************************************************)
ScalarsOK ==
    /\ pc \in [Commands -> {"new", "setup", "push", "go", "wait", "remove", "exist",
                            "kill", "get", "print", "done"}]
    /\ removed \in [Stops -> BOOLEAN]
    /\ idx \in [Lists -> Nat]
    /\ printed \in [Lists -> SUBSET Pids] /\ due \in [Lists -> SUBSET Pids]

\* How far a start is tells what its container can be.
StartInv(c) ==
    /\ pc[c] \in {"new", "setup", "push", "go", "wait", "remove", "done"}
    /\ pc[c] = "new" => cstate[c] = "none"
    /\ pc[c] \in {"setup", "push", "go"} => cstate[c] \in {"blocked", "zombie"}
    /\ pc[c] = "wait" => cstate[c] \in {"running", "zombie"}
    /\ pc[c] = "remove" => cstate[c] = "dead"
    /\ pc[c] = "done" => cstate[c] \in {"running", "dead"}
    /\ pc[c] # "new" => pid[c] \in Pids

StopInv(d) ==
    /\ pc[d] \in {"new", "exist", "kill", "done"}
    /\ pc[d] = "new" => ~removed[d]
    /\ pc[d] # "new" => pid[d] \in Pids

\* A pid that is due and not printed is at no index the list has passed, and
\* while it is, the entry the list has read is still in its place.
Ahead(l, p) ==
    /\ \A i \in 1..Len(entries) : i <= idx[l] => entries[i] # p
    /\ pc[l] = "print" => idx[l] + 1 <= Len(entries) /\ pid[l] = entries[idx[l] + 1]

ListInv(l) ==
    /\ pc[l] \in {"new", "get", "print", "done"}
    /\ pc[l] = "new" => idx[l] = 0
    /\ pc[l] = "print" => pid[l] \in Pids
    /\ pc[l] \in {"get", "print"} =>
          due[l] \subseteq Owed /\ \A p \in due[l] \ printed[l] : Ahead(l, p)
    /\ pc[l] = "done" => due[l] \subseteq printed[l]

\* The starts that have listed a container and not yet taken an entry for it.
Owners == {c \in Starts : \/ pc[c] \in {"go", "wait", "remove"}
                          \/ pc[c] = "done" /\ cstate[c] = "running"}
Removers == {d \in Stops : removed[d]}
OwnersInv == Cardinality(Owners) <= Len(entries) + Cardinality(Removers)

Control == (\A c \in Starts : StartInv(c)) /\ (\A d \in Stops : StopInv(d))
IInv ==
    /\ TypeOK /\ ScalarsOK /\ Control
    /\ \A l \in Lists : ListInv(l)
    /\ OwnersInv

(***************************************************************************)
(* The file: an entry is added or taken at its end.                        *)
(***************************************************************************)
EntriesStep ==
    \/ UNCHANGED entries
    \/ \E p \in Pids : entries' = Append(entries, p)
    \/ Len(entries) > 0 /\ entries' = SubSeq(entries, 1, Len(entries) - 1)

LEMMA RemoveStep ==
  ASSUME entries \in Seq(Pids), NEW p, RemoveByPid(p)
  PROVE  /\ entries' \in Seq(Pids)
         /\ Len(entries') \in Nat
         /\ Len(entries) \in Nat
         /\ IF Listed(p) THEN Len(entries) > 0 /\ Len(entries') = Len(entries) - 1
            ELSE entries' = entries
         /\ EntriesStep
<1>1. Len(entries) \in Nat  OBVIOUS
<1>2. CASE ~Listed(p)
  BY <1>1, <1>2 DEF RemoveByPid, EntriesStep
<1>3. CASE Listed(p)
  <2>1. Len(entries) > 0  BY <1>1, <1>3 DEF Listed
  <2>2. entries' = SubSeq(entries, 1, Len(entries) - 1)  BY <1>3 DEF RemoveByPid
  <2>3. entries' \in Seq(Pids) /\ Len(entries') = Len(entries) - 1
    <3>1. PICK n \in Int : n = Len(entries) - 1  BY <1>1
    <3>2. \A i \in 1..n : entries[i] \in Pids  BY <1>1, <3>1
    <3>3. SubSeq(entries, 1, n) \in Seq(Pids)  BY <3>2, SubSeqProperties
    <3>4. Len(SubSeq(entries, 1, n)) = IF 1 <= n THEN n - 1 + 1 ELSE 0
      BY <3>2, SubSeqProperties
    <3>5. Len(SubSeq(entries, 1, n)) = n  BY <1>1, <2>1, <3>1, <3>4
    <3>6. QED  BY <2>2, <3>1, <3>3, <3>5
  <2>4. QED  BY <1>1, <1>3, <2>1, <2>2, <2>3 DEF EntriesStep
<1>4. QED  BY <1>2, <1>3

\* The entries a step of the file keeps are in their places.
LEMMA EntriesKept ==
  ASSUME entries \in Seq(Pids), EntriesStep
  PROVE  /\ entries' \in Seq(Pids)
         /\ Len(entries') \in Nat /\ Len(entries) \in Nat
         /\ \A i \in 1..Len(entries') : i <= Len(entries) => entries'[i] = entries[i]
         /\ Len(entries') >= Len(entries) - 1
<1>1. CASE UNCHANGED entries  BY <1>1
<1>2. CASE \E p \in Pids : entries' = Append(entries, p)
  <2>1. PICK p \in Pids : entries' = Append(entries, p)  BY <1>2
  <2>2. QED  BY <2>1, AppendProperties
<1>3. CASE Len(entries) > 0 /\ entries' = SubSeq(entries, 1, Len(entries) - 1)
  BY <1>3, SubSeqProperties
<1>4. QED  BY <1>1, <1>2, <1>3 DEF EntriesStep

(***************************************************************************)
(* The lists.                                                              *)
(***************************************************************************)
LEMMA DueOK ==
  ASSUME due \in [Lists -> SUBSET Pids], DueUpdate
  PROVE  /\ due' \in [Lists -> SUBSET Pids]
         /\ \A l \in Lists :
               /\ pc[l] = "done" => due'[l] = due[l]
               /\ pc[l] = "new" /\ pc'[l] # "new" => due'[l] = Owed'
               /\ pc[l] \in {"get", "print"} => due'[l] = due[l] \cap Owed'
<1>1. Owed' \in SUBSET Pids  BY DEF Owed
<1>2. QED  BY <1>1 DEF DueUpdate

\* What a list has passed stays passed when the file changes at its end.
LEMMA AheadKept ==
  ASSUME entries \in Seq(Pids), EntriesStep, NEW l \in Lists, NEW p \in Owed,
         p \in Owed', Ahead(l, p), idx[l] \in Nat,
         idx'[l] = idx[l], pc'[l] = pc[l], pid'[l] = pid[l]
  PROVE  Ahead(l, p)'
<1>1. PICK k \in 1..Len(entries') : entries'[k] = p
  BY DEF Owed, Listed
<1>2. \A i \in 1..Len(entries') : i <= Len(entries) => entries'[i] = entries[i]
  BY EntriesKept
<1>3. Len(entries) \in Nat /\ Len(entries') \in Nat /\ Len(entries') >= Len(entries) - 1
  BY EntriesKept
<1>4. PICK j \in 1..Len(entries) : entries[j] = p
  BY DEF Owed, Listed
<1>5. j > idx[l]  BY <1>3, <1>4 DEF Ahead
<1>6. ASSUME NEW i \in 1..Len(entries'), i <= idx[l]  PROVE entries'[i] # p
  BY <1>2, <1>3, <1>5, <1>6 DEF Ahead
<1>7. pc[l] = "print" => idx[l] + 1 <= Len(entries') /\ idx[l] + 1 \in 1..Len(entries')
  <2>1. CASE k <= Len(entries)
    <3>1. ~(k <= idx[l])  BY <1>1, <1>2, <1>6
    <3>2. QED  BY <1>3, <3>1
  <2>2. CASE k > Len(entries)  BY <1>3, <1>5, <2>2
  <2>3. QED  BY <1>3, <2>1, <2>2
<1>8. pc[l] = "print" => pid[l] = entries'[idx[l] + 1]
  BY <1>2, <1>3, <1>5, <1>7 DEF Ahead
<1>9. QED  BY <1>6, <1>7, <1>8 DEF Ahead

LEMMA OtherList ==
  ASSUME IInv, DueUpdate, EntriesStep, NEW l \in Lists,
         pc'[l] = pc[l], pid'[l] = pid[l], idx'[l] = idx[l], printed'[l] = printed[l]
  PROVE  ListInv(l)'
<1> USE DEF IInv, ScalarsOK
<1>1. ListInv(l)  OBVIOUS
<1>2. entries \in Seq(Pids)  BY DEF TypeOK
<1>3. CASE pc[l] \in {"get", "print"}
  <2>1. due'[l] = due[l] \cap Owed'  BY <1>3, DueOK
  <2>2. ASSUME NEW p \in due'[l] \ printed'[l]  PROVE Ahead(l, p)'
    <3>1. p \in Owed /\ p \in Owed' /\ Ahead(l, p)  BY <1>1, <1>3, <2>1, <2>2 DEF ListInv
    <3>2. QED  BY <1>2, <3>1, AheadKept
  <2>3. QED  BY <1>1, <1>3, <2>1, <2>2 DEF ListInv
<1>4. CASE pc[l] = "done"  BY <1>1, <1>4, DueOK DEF ListInv
<1>5. CASE pc[l] = "new"  BY <1>1, <1>5 DEF ListInv
<1>6. QED  BY <1>1, <1>3, <1>4, <1>5 DEF ListInv

LEMMA QuietLists ==
  ASSUME IInv, DueUpdate, EntriesStep, idx' = idx, printed' = printed,
         \A l \in Lists : pc'[l] = pc[l] /\ pid'[l] = pid[l]
  PROVE  \A l \in Lists : ListInv(l)'
  BY OtherList

LEMMA Finite ==
    /\ IsFiniteSet(Owners) /\ IsFiniteSet(Removers)
    /\ Cardinality(Owners) \in Nat /\ Cardinality(Removers) \in Nat
<1>1. Owners \in SUBSET Starts /\ Removers \in SUBSET Stops  BY DEF Owners, Removers
<1>2. QED  BY <1>1, ConstantsAssumption, FS_Subset, FS_CardinalityType

(***************************************************************************)
(* The count of the entries.                                               *)
(***************************************************************************)
LEMMA QuietOwners ==
  ASSUME IInv, Owners' \subseteq Owners, UNCHANGED <<entries, removed>>
  PROVE  OwnersInv'
<1>1. Cardinality(Owners') <= Cardinality(Owners) /\ Cardinality(Owners') \in Nat
  BY Finite, FS_Subset, FS_CardinalityType
<1>2. Removers' = Removers  BY DEF Removers
<1>3. Len(entries) \in Nat  BY DEF IInv, TypeOK
<1>4. QED  BY <1>1, <1>2, <1>3, Finite DEF IInv, OwnersInv

LEMMA KindsApart ==
    /\ \A c \in Starts : c \in Commands /\ c \notin Stops /\ c \notin Lists
    /\ \A d \in Stops : d \in Commands /\ d \notin Starts /\ d \notin Lists
    /\ \A l \in Lists : l \in Commands /\ l \notin Starts /\ l \notin Stops
  BY ConstantsAssumption DEF Commands

(***************************************************************************)
(* One lemma for each action.                                              *)
(***************************************************************************)

LEMMA FinishKeeps ==
  ASSUME IInv, NEW c \in Starts, Finish(c)
  PROVE  IInv'
<1> USE KindsApart DEF IInv, Finish, ContainerEnds, Free
<1>1. EntriesStep /\ DueUpdate  BY DEF EntriesStep
<1>2. TypeOK'  BY <1>1, ConstantsAssumption DEF TypeOK, Control, StartInv
<1>3. ScalarsOK'  BY <1>1, DueOK DEF ScalarsOK
<1>4. Control'  BY DEF Control, StartInv, StopInv, TypeOK, ScalarsOK
<1>5. \A l \in Lists : ListInv(l)'  BY <1>1, QuietLists DEF ScalarsOK, TypeOK
<1>6. OwnersInv'
  <2>1. Owners' \subseteq Owners  BY DEF Owners, Control, StartInv, TypeOK, ScalarsOK
  <2>2. QED  BY <2>1, QuietOwners
<1>7. QED  BY <1>2, <1>3, <1>4, <1>5, <1>6


LEMMA OtherStartsKeeps ==
  ASSUME IInv, NEW p \in Pids, OtherStarts(p)
  PROVE  IInv'
<1> USE KindsApart DEF IInv, OtherStarts
<1>1. EntriesStep /\ DueUpdate  BY DEF EntriesStep
<1>2. TypeOK'  BY <1>1, ConstantsAssumption DEF TypeOK, Control, StartInv
<1>3. ScalarsOK'  BY <1>1, DueOK DEF ScalarsOK
<1>4. Control'  BY DEF Control, StartInv, StopInv, TypeOK, ScalarsOK
<1>5. \A l \in Lists : ListInv(l)'  BY <1>1, QuietLists DEF ScalarsOK, TypeOK
<1>6. OwnersInv'
  <2>1. Owners' \subseteq Owners  BY DEF Owners, Control, StartInv, TypeOK, ScalarsOK
  <2>2. QED  BY <2>1, QuietOwners
<1>7. QED  BY <1>2, <1>3, <1>4, <1>5, <1>6


LEMMA OtherEndsKeeps ==
  ASSUME IInv, NEW p \in Pids, OtherEnds(p)
  PROVE  IInv'
<1> USE KindsApart DEF IInv, OtherEnds, Free
<1>1. EntriesStep /\ DueUpdate  BY DEF EntriesStep
<1>2. TypeOK'  BY <1>1, ConstantsAssumption DEF TypeOK, Control, StartInv
<1>3. ScalarsOK'  BY <1>1, DueOK DEF ScalarsOK
<1>4. Control'  BY DEF Control, StartInv, StopInv, TypeOK, ScalarsOK
<1>5. \A l \in Lists : ListInv(l)'  BY <1>1, QuietLists DEF ScalarsOK, TypeOK
<1>6. OwnersInv'
  <2>1. Owners' \subseteq Owners  BY DEF Owners, Control, StartInv, TypeOK, ScalarsOK
  <2>2. QED  BY <2>1, QuietOwners
<1>7. QED  BY <1>2, <1>3, <1>4, <1>5, <1>6


LEMMA CreateKeeps ==
  ASSUME IInv, NEW c \in Starts, Create(c)
  PROVE  IInv'
<1> USE KindsApart DEF IInv, Create, Goto
<1>1. EntriesStep /\ DueUpdate  BY DEF EntriesStep
<1>2. TypeOK'  BY <1>1, ConstantsAssumption DEF TypeOK, Control, StartInv
<1>3. ScalarsOK'  BY <1>1, DueOK DEF ScalarsOK
<1>4. Control'  BY DEF Control, StartInv, StopInv, TypeOK, ScalarsOK
<1>5. \A l \in Lists : ListInv(l)'  BY <1>1, QuietLists DEF ScalarsOK, TypeOK
<1>6. OwnersInv'
  <2>1. Owners' \subseteq Owners  BY DEF Owners, Control, StartInv, TypeOK, ScalarsOK
  <2>2. QED  BY <2>1, QuietOwners
<1>7. QED  BY <1>2, <1>3, <1>4, <1>5, <1>6


LEMMA SetupKeeps ==
  ASSUME IInv, NEW c \in Starts, Setup(c)
  PROVE  IInv'
<1> USE KindsApart DEF IInv, Setup, StartGone, Free, kernel
<1>1. EntriesStep /\ DueUpdate  BY DEF EntriesStep
<1>2. TypeOK'  BY <1>1, ConstantsAssumption DEF TypeOK, Control, StartInv
<1>3. ScalarsOK'  BY <1>1, DueOK DEF ScalarsOK
<1>4. Control'  BY DEF Control, StartInv, StopInv, TypeOK, ScalarsOK
<1>5. \A l \in Lists : ListInv(l)'  BY <1>1, QuietLists DEF ScalarsOK, TypeOK
<1>6. OwnersInv'
  <2>1. Owners' \subseteq Owners  BY DEF Owners, Control, StartInv, TypeOK, ScalarsOK
  <2>2. QED  BY <2>1, QuietOwners
<1>7. QED  BY <1>2, <1>3, <1>4, <1>5, <1>6


LEMMA PushKeeps ==
  ASSUME IInv, NEW c \in Starts, Push(c)
  PROVE  IInv'
<1> USE KindsApart DEF IInv, Push, Goto
<1>1. EntriesStep /\ DueUpdate  BY DEF EntriesStep, Control, StartInv
<1>2. TypeOK'
  <2>1. entries' \in Seq(Pids)  BY <1>1, EntriesKept DEF TypeOK
  <2>2. QED  BY <2>1 DEF TypeOK
<1>3. ScalarsOK'  BY <1>1, DueOK DEF ScalarsOK
<1>4. Control'  BY DEF Control, StartInv, StopInv, TypeOK, ScalarsOK
<1>5. \A l \in Lists : ListInv(l)'  BY <1>1, QuietLists DEF ScalarsOK, TypeOK
<1>6. OwnersInv'
  <2>1. Owners' = Owners \cup {c} /\ c \notin Owners
    BY DEF Owners, Control, StartInv, TypeOK, ScalarsOK
  <2>2. Cardinality(Owners') = Cardinality(Owners) + 1  BY <2>1, Finite, FS_AddElement
  <2>3. Len(entries') = Len(entries) + 1 /\ Len(entries) \in Nat
    BY AppendProperties DEF TypeOK, Control, StartInv
  <2>4. Removers' = Removers  BY DEF Removers
  <2>5. QED  BY <2>2, <2>3, <2>4, Finite DEF OwnersInv
<1>7. QED  BY <1>2, <1>3, <1>4, <1>5, <1>6


LEMMA GoKeeps ==
  ASSUME IInv, NEW c \in Starts, Go(c)
  PROVE  IInv'
<1> USE KindsApart DEF IInv, Go, StartGone, Free
<1>1. EntriesStep /\ DueUpdate  BY DEF EntriesStep
<1>2. TypeOK'  BY <1>1, ConstantsAssumption DEF TypeOK, Control, StartInv
<1>3. ScalarsOK'  BY <1>1, DueOK DEF ScalarsOK
<1>4. Control'  BY DEF Control, StartInv, StopInv, TypeOK, ScalarsOK
<1>5. \A l \in Lists : ListInv(l)'  BY <1>1, QuietLists DEF ScalarsOK, TypeOK
<1>6. OwnersInv'
  <2>1. Owners' \subseteq Owners  BY DEF Owners, Control, StartInv, TypeOK, ScalarsOK
  <2>2. QED  BY <2>1, QuietOwners
<1>7. QED  BY <1>2, <1>3, <1>4, <1>5, <1>6


LEMMA WaitKeeps ==
  ASSUME IInv, NEW c \in Starts, Wait(c)
  PROVE  IInv'
<1> USE KindsApart DEF IInv, Wait, Goto, Free
<1>1. EntriesStep /\ DueUpdate  BY DEF EntriesStep
<1>2. TypeOK'  BY <1>1, ConstantsAssumption DEF TypeOK, Control, StartInv
<1>3. ScalarsOK'  BY <1>1, DueOK DEF ScalarsOK
<1>4. Control'  BY DEF Control, StartInv, StopInv, TypeOK, ScalarsOK
<1>5. \A l \in Lists : ListInv(l)'  BY <1>1, QuietLists DEF ScalarsOK, TypeOK
<1>6. OwnersInv'
  <2>1. Owners' \subseteq Owners  BY DEF Owners, Control, StartInv, TypeOK, ScalarsOK
  <2>2. QED  BY <2>1, QuietOwners
<1>7. QED  BY <1>2, <1>3, <1>4, <1>5, <1>6


LEMMA RemoveWaitedKeeps ==
  ASSUME IInv, NEW c \in Starts, RemoveWaited(c)
  PROVE  IInv'
<1> USE KindsApart DEF IInv, RemoveWaited, Goto
<1>1. EntriesStep /\ DueUpdate /\ entries' \in Seq(Pids)  BY RemoveStep DEF TypeOK
<1>2. TypeOK'  BY <1>1 DEF TypeOK
<1>3. ScalarsOK'  BY <1>1, DueOK DEF ScalarsOK
<1>4. Control'  BY DEF Control, StartInv, StopInv, TypeOK, ScalarsOK
<1>5. \A l \in Lists : ListInv(l)'  BY <1>1, QuietLists DEF ScalarsOK, TypeOK
<1>6. OwnersInv'
  <2>1. Owners' = Owners \ {c} /\ c \in Owners
    BY DEF Owners, Control, StartInv, TypeOK, ScalarsOK
  <2>2. Cardinality(Owners') = Cardinality(Owners) - 1  BY <2>1, Finite, FS_RemoveElement
  <2>3. Len(entries') \in Nat /\ Len(entries) \in Nat /\ Len(entries') >= Len(entries) - 1
    BY <1>1, EntriesKept DEF TypeOK
  <2>4. Removers' = Removers  BY DEF Removers
  <2>5. QED  BY <2>2, <2>3, <2>4, Finite DEF OwnersInv
<1>7. QED  BY <1>2, <1>3, <1>4, <1>5, <1>6


LEMMA StopRemoveKeeps ==
  ASSUME IInv, NEW d \in Stops, StopRemove(d)
  PROVE  IInv'
<1> USE KindsApart DEF IInv, StopRemove, Goto
<1>0. PICK p \in Pids : /\ pid' = [pid EXCEPT ![d] = p] /\ RemoveByPid(p)
                      /\ removed' = [removed EXCEPT ![d] = Listed(p)]
  OBVIOUS
<1>1. EntriesStep /\ DueUpdate /\ entries' \in Seq(Pids)  BY <1>0, RemoveStep DEF TypeOK
<1>2. TypeOK'  BY <1>0, <1>1 DEF TypeOK
<1>3. ScalarsOK'
  <2>1. Listed(p) \in BOOLEAN  BY DEF Listed
  <2>2. removed' \in [Stops -> BOOLEAN]  BY <1>0, <2>1 DEF ScalarsOK
  <2>3. QED  BY <1>1, <2>2, DueOK DEF ScalarsOK
<1>4. Control'  BY DEF Control, StartInv, StopInv, TypeOK, ScalarsOK
<1>5. \A l \in Lists : ListInv(l)'  BY <1>1, QuietLists DEF ScalarsOK, TypeOK
<1>6. OwnersInv'
  <2>1. Owners' = Owners  BY DEF Owners, TypeOK, ScalarsOK
  <2>2. d \notin Removers  BY DEF Removers, Control, StopInv
  <2>3. IF Listed(p) THEN Len(entries) > 0 /\ Len(entries') = Len(entries) - 1
        ELSE entries' = entries
    BY <1>0, RemoveStep DEF TypeOK
  <2>4. Len(entries) \in Nat  BY DEF TypeOK
  <2>5. CASE Listed(p)
    <3>1. removed'[d] = TRUE /\ \A e \in Stops : e # d => removed'[e] = removed[e]
      BY <1>0, <2>5 DEF ScalarsOK
    <3>2. Removers' = Removers \cup {d}  BY <3>1 DEF Removers
    <3>3. Cardinality(Removers') = Cardinality(Removers) + 1
      BY <2>2, <3>2, Finite, FS_AddElement
    <3>4. QED  BY <2>1, <2>3, <2>4, <2>5, <3>3, Finite DEF OwnersInv
  <2>6. CASE ~Listed(p)
    <3>1. removed'[d] = FALSE /\ \A e \in Stops : e # d => removed'[e] = removed[e]
      BY <1>0, <2>6 DEF ScalarsOK
    <3>2. Removers' = Removers  BY <2>2, <3>1 DEF Removers
    <3>3. QED  BY <2>1, <2>3, <2>6, <3>2 DEF OwnersInv
  <2>7. QED  BY <2>5, <2>6
<1>7. QED  BY <1>2, <1>3, <1>4, <1>5, <1>6


LEMMA StopExistKeeps ==
  ASSUME IInv, NEW d \in Stops, StopExist(d)
  PROVE  IInv'
<1> USE KindsApart DEF IInv, StopExist
<1>1. EntriesStep /\ DueUpdate  BY DEF EntriesStep
<1>2. TypeOK'  BY <1>1, ConstantsAssumption DEF TypeOK, Control, StartInv
<1>3. ScalarsOK'  BY <1>1, DueOK DEF ScalarsOK
<1>4. Control'  BY DEF Control, StartInv, StopInv, TypeOK, ScalarsOK
<1>5. \A l \in Lists : ListInv(l)'  BY <1>1, QuietLists DEF ScalarsOK, TypeOK
<1>6. OwnersInv'
  <2>1. Owners' \subseteq Owners  BY DEF Owners, Control, StartInv, TypeOK, ScalarsOK
  <2>2. QED  BY <2>1, QuietOwners
<1>7. QED  BY <1>2, <1>3, <1>4, <1>5, <1>6


LEMMA StopKillKeeps ==
  ASSUME IInv, NEW d \in Stops, StopKill(d)
  PROVE  IInv'
<1> USE KindsApart DEF IInv, StopKill, Goto, ContainerEnds, Free, kernel
<1>1. EntriesStep /\ DueUpdate  BY DEF EntriesStep
<1>2. TypeOK'  BY <1>1, ConstantsAssumption DEF TypeOK, Control, StartInv
<1>3. ScalarsOK'  BY <1>1, DueOK DEF ScalarsOK
<1>4. Control'  BY DEF Control, StartInv, StopInv, TypeOK, ScalarsOK
<1>5. \A l \in Lists : ListInv(l)'  BY <1>1, QuietLists DEF ScalarsOK, TypeOK
<1>6. OwnersInv'
  <2>1. Owners' \subseteq Owners  BY DEF Owners, Control, StartInv, TypeOK, ScalarsOK
  <2>2. QED  BY <2>1, QuietOwners
<1>7. QED  BY <1>2, <1>3, <1>4, <1>5, <1>6


LEMMA ListBeginKeeps ==
  ASSUME IInv, NEW l \in Lists, ListBegin(l)
  PROVE  IInv'
<1> USE KindsApart DEF IInv, ListBegin, Goto
<1>1. EntriesStep /\ DueUpdate  BY DEF EntriesStep
<1>2. TypeOK'  BY <1>1, ConstantsAssumption DEF TypeOK, Control, StartInv
<1>3. ScalarsOK'  BY <1>1, DueOK DEF ScalarsOK
<1>4. Control'  BY DEF Control, StartInv, StopInv, TypeOK, ScalarsOK
<1>5. ASSUME NEW k \in Lists  PROVE ListInv(k)'
  <2>1. CASE k # l  BY <1>1, <2>1, OtherList DEF ScalarsOK, TypeOK
  <2>2. CASE k = l
    <3>1. pc[l] = "new" /\ pc'[l] = "get" /\ idx'[l] = 0
      BY DEF ScalarsOK, ListInv
    <3>2. due'[l] = Owed'  BY <1>1, <3>1, DueOK DEF ScalarsOK
    <3>3. \A p : Ahead(l, p)'  BY <3>1, <1>2 DEF Ahead, TypeOK
    <3>4. QED  BY <2>2, <3>1, <3>2, <3>3 DEF ListInv
  <2>3. QED  BY <2>1, <2>2
<1>6. OwnersInv'
  <2>1. Owners' \subseteq Owners  BY DEF Owners, Control, StartInv, TypeOK, ScalarsOK
  <2>2. QED  BY <2>1, QuietOwners
<1>7. QED  BY <1>2, <1>3, <1>4, <1>5, <1>6


LEMMA ListGetKeeps ==
  ASSUME IInv, NEW l \in Lists, ListGet(l)
  PROVE  IInv'
<1> USE KindsApart DEF IInv, ListGet
<1>1. EntriesStep /\ DueUpdate  BY DEF EntriesStep
<1>2. TypeOK'
  <2>1. idx[l] \in Nat /\ Len(entries) \in Nat  BY DEF TypeOK, ScalarsOK
  <2>2. idx[l] < Len(entries) => entries[idx[l] + 1] \in Pids  BY <2>1 DEF TypeOK
  <2>3. pid' \in [Commands -> Pids \cup {NoPid}]  BY <2>2 DEF TypeOK
  <2>4. \A c \in Starts : pid'[c] = pid[c]  BY DEF TypeOK
  <2>5. QED  BY <2>3, <2>4 DEF TypeOK
<1>3. ScalarsOK'  BY <1>1, DueOK DEF ScalarsOK
<1>4. Control'  BY DEF Control, StartInv, StopInv, TypeOK, ScalarsOK
<1>5. ASSUME NEW k \in Lists  PROVE ListInv(k)'
  <2>1. CASE k # l  BY <1>1, <2>1, OtherList DEF ScalarsOK, TypeOK
  <2>2. CASE k = l
    <3>1. due'[l] = due[l] \cap Owed' /\ pc[l] = "get"
          /\ idx[l] \in Nat /\ Len(entries) \in Nat
      BY <1>1, DueOK DEF ScalarsOK, TypeOK
    <3>2. \A p \in due[l] \ printed[l] : Ahead(l, p)  BY <3>1 DEF ListInv
    <3>3. CASE idx[l] < Len(entries)
      <4>1. pc'[l] = "print" /\ pid'[l] = entries[idx[l] + 1]
        BY <3>3 DEF ScalarsOK, TypeOK
      <4>2. pid'[l] \in Pids  BY <3>1, <3>3, <4>1 DEF TypeOK
      <4>3. \A p \in due'[l] \ printed'[l] : Ahead(l, p)'
        BY <3>1, <3>2, <3>3, <4>1 DEF Ahead
      <4>4. QED  BY <2>2, <3>1, <4>1, <4>2, <4>3 DEF ListInv
    <3>4. CASE ~(idx[l] < Len(entries))
      <4>1. pc'[l] = "done"  BY <3>4 DEF ScalarsOK
      <4>2. ASSUME NEW p \in due'[l], p \notin printed[l]  PROVE FALSE
        <5>1. Ahead(l, p) /\ p \in Owed'  BY <3>1, <3>2, <4>2
        <5>2. PICK i \in 1..Len(entries) : entries[i] = p  BY <5>1 DEF Owed, Listed
        <5>3. QED  BY <3>1, <3>4, <5>1, <5>2 DEF Ahead
      <4>3. QED  BY <2>2, <4>1, <4>2 DEF ListInv
    <3>5. QED  BY <3>3, <3>4
  <2>3. QED  BY <2>1, <2>2
<1>6. OwnersInv'
  <2>1. Owners' \subseteq Owners  BY DEF Owners, Control, StartInv, TypeOK, ScalarsOK
  <2>2. QED  BY <2>1, QuietOwners
<1>7. QED  BY <1>2, <1>3, <1>4, <1>5, <1>6


LEMMA ListPrintKeeps ==
  ASSUME IInv, NEW l \in Lists, ListPrint(l)
  PROVE  IInv'
<1> USE KindsApart DEF IInv, ListPrint, Goto
<1>1. EntriesStep /\ DueUpdate  BY DEF EntriesStep
<1>2. TypeOK'  BY <1>1, ConstantsAssumption DEF TypeOK, Control, StartInv
<1>3. ScalarsOK'
  <2>1. pid[l] \in Pids  BY DEF ListInv
  <2>2. printed[l] \cup {pid[l]} \in SUBSET Pids  BY <2>1 DEF ScalarsOK
  <2>3. printed' \in [Lists -> SUBSET Pids]  BY <2>2 DEF ScalarsOK
  <2>4. idx' \in [Lists -> Nat]  BY DEF ScalarsOK
  <2>5. QED  BY <1>1, <2>3, <2>4, DueOK DEF ScalarsOK
<1>4. Control'  BY DEF Control, StartInv, StopInv, TypeOK, ScalarsOK
<1>5. ASSUME NEW k \in Lists  PROVE ListInv(k)'
  <2>1. CASE k # l  BY <1>1, <2>1, OtherList DEF ScalarsOK, TypeOK
  <2>2. CASE k = l
    <3>1. due'[l] = due[l] \cap Owed' /\ pc[l] = "print" /\ pc'[l] = "get"
          /\ idx[l] \in Nat /\ Len(entries) \in Nat /\ idx'[l] = idx[l] + 1
      BY <1>1, DueOK DEF ScalarsOK, TypeOK
    <3>2. printed[l] \subseteq printed'[l]  BY DEF ScalarsOK
    <3>3. ASSUME NEW p \in due'[l], p \notin printed'[l]  PROVE Ahead(l, p)'
      <4>1. Ahead(l, p) /\ p \in Owed'  BY <3>1, <3>2, <3>3 DEF ListInv
      <4>2. p # pid[l]
        <5>1. ProcessExist(p)
          BY <4>1, ConstantsAssumption DEF Owed, Running, ProcessExist
        <5>2. QED  BY <3>3, <5>1 DEF ScalarsOK
      <4>3. entries[idx[l] + 1] # p  BY <3>1, <4>1, <4>2 DEF Ahead
      <4>4. QED  BY <3>1, <4>1, <4>3 DEF Ahead
    <3>4. QED  BY <2>2, <3>1, <3>3 DEF ListInv
  <2>3. QED  BY <2>1, <2>2
<1>6. OwnersInv'
  <2>1. Owners' \subseteq Owners  BY DEF Owners, Control, StartInv, TypeOK, ScalarsOK
  <2>2. QED  BY <2>1, QuietOwners
<1>7. QED  BY <1>2, <1>3, <1>4, <1>5, <1>6

LEMMA StutterKeeps == IInv /\ UNCHANGED vars => IInv'
<1> SUFFICES ASSUME IInv, UNCHANGED vars  PROVE IInv'  OBVIOUS
<1> USE DEF IInv, vars
<1>1. TypeOK' /\ ScalarsOK'  BY DEF TypeOK, ScalarsOK
<1>2. Control'  BY DEF Control, StartInv, StopInv
<1>3. \A l \in Lists : ListInv(l)'  BY DEF ListInv, Ahead, Owed, Running, Listed
<1>4. OwnersInv'  BY DEF OwnersInv, Owners, Removers
<1>5. QED  BY <1>1, <1>2, <1>3, <1>4

LEMMA InitIInv == Init => IInv
<1> SUFFICES ASSUME Init  PROVE IInv  OBVIOUS
<1> USE KindsApart, ConstantsAssumption DEF Init
<1>1. TypeOK
  <2>1. PICK n \in 0..MaxStale : entries \in [1..n -> Pids]  OBVIOUS
  <2>2. entries \in Seq(Pids)  BY <2>1
  <2>3. QED  BY <2>2 DEF TypeOK
<1>2. ScalarsOK  BY DEF ScalarsOK
<1>3. Control  BY DEF Control, StartInv, StopInv
<1>4. \A l \in Lists : ListInv(l)  BY DEF ListInv
<1>5. OwnersInv
  <2>1. Owners = {} /\ Removers = {}  BY DEF Owners, Removers
  <2>2. Len(entries) \in Nat  BY <1>1 DEF TypeOK
  <2>3. QED  BY <2>1, <2>2, FS_EmptySet DEF OwnersInv
<1>6. QED  BY <1>1, <1>2, <1>3, <1>4, <1>5 DEF IInv

LEMMA NextKeeps == IInv /\ [Next]_vars => IInv'
  BY FinishKeeps, OtherStartsKeeps, OtherEndsKeeps, CreateKeeps, SetupKeeps, PushKeeps,
     GoKeeps, WaitKeeps, RemoveWaitedKeeps, StopRemoveKeeps, StopExistKeeps,
     StopKillKeeps, ListBeginKeeps, ListGetKeeps, ListPrintKeeps, StutterKeeps
     DEF Next, Finished

(***************************************************************************)
(* The theorems.                                                           *)
(***************************************************************************)
\* The strengthened invariant holds of every reachable state.
THEOREM Invariant == Spec => []IInv
  BY InitIInv, NextKeeps, PTL DEF Spec

\* Nobody has the pid of a container from its clone until its start has waited
\* for it, or is gone and the container has ended.
THEOREM TypeCorrect == Spec => []TypeOK
<1>1. IInv => TypeOK  BY DEF IInv
<1>2. QED  BY <1>1, Invariant, PTL

\* aucont_list prints every container that is listed and runs the whole time,
\* however the starts, stops and ends fall between its entries.
THEOREM Complete == Spec => []ListComplete
<1>1. IInv => ListComplete  BY DEF IInv, ListInv, ListComplete
<1>2. QED  BY <1>1, Invariant, PTL

\* The file has an entry for every container that runs, but for the entries
\* that stops have removed.
THEOREM Accounted == Spec => []RunningAccounted
<1>1. ASSUME IInv  PROVE RunningAccounted
  <2> DEFINE R == {c \in Starts : cstate[c] = "running"}
  <2>1. R \subseteq Owners  BY <1>1 DEF IInv, Control, StartInv, Owners
  <2>2. Cardinality(R) <= Cardinality(Owners) /\ Cardinality(R) \in Nat
    BY <2>1, Finite, FS_Subset, FS_CardinalityType
  <2>3. Len(entries) \in Nat  BY <1>1 DEF IInv, TypeOK
  <2>4. Cardinality(R) <= Len(entries) + Cardinality(Removers)
    BY <1>1, <2>2, <2>3, Finite DEF IInv, OwnersInv
  <2>5. QED  BY <2>4 DEF RunningAccounted, Removers
<1>2. QED  BY <1>1, Invariant, PTL
================================================================================
