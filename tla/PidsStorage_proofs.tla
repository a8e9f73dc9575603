-------------------------- MODULE PidsStorage_proofs --------------------------
(***************************************************************************)
(* Theorems about class pids_storage, for every set of commands, of pids,  *)
(* every initial file and every pattern of kills.                          *)
(***************************************************************************)
EXTENDS PidsStorage, SequenceTheorems, TLAPS

(***************************************************************************)
(* The operations on the file.                                             *)
(***************************************************************************)
\* A sequence over Pids, seen as a function.
LEMMA PidsSeq ==
    ASSUME NEW n \in Nat, NEW f \in [1..n -> Pids]
    PROVE  f \in Seq(Pids) /\ Len(f) = n
  OBVIOUS

\* A seek moves a stream that has no error, and only such a stream.
LEMMA SeekLemma ==
    ASSUME NEW s \in Streams, NEW to \in Nat
    PROVE  /\ SeekTo(s, to) \in Streams
           /\ SeekTo(s, to).fail = s.fail
           /\ ~s.fail => SeekTo(s, to).pos = to
  BY DEF SeekTo, Streams

\* What a read returns.
LEMMA ReadHere ==
    ASSUME NEW f \in Seq(Pids), NEW s \in Streams
    PROVE  /\ ReadInt(s, f).stream \in Streams
           /\ ReadInt(s, f).val \in Pids \cup {NoPid}
           /\ ~s.fail /\ s.pos < Len(f) => /\ ReadInt(s, f).val = f[s.pos + 1]
                                           /\ ~ReadInt(s, f).stream.fail
           /\ s.pos >= Len(f) => ReadInt(s, f).stream.fail
           /\ s.fail => ReadInt(s, f).stream.fail
  <1>1. CASE s.fail \/ s.pos >= Len(f)
    BY <1>1 DEF ReadInt, Streams
  <1>2. CASE ~(s.fail \/ s.pos >= Len(f))
    <2>1. s.pos + 1 \in 1..Len(f)
      BY <1>2 DEF Streams
    <2>2. f[s.pos + 1] \in Pids
      BY <2>1
    <2>3. QED
      BY <1>2, <2>2 DEF ReadInt, Streams
  <1>3. QED
    BY <1>1, <1>2

\* A read after a seek: inside the file, on a stream without error, it
\* returns the entry there.
LEMMA ReadLemma ==
    ASSUME NEW f \in Seq(Pids), NEW s \in Streams, NEW to \in Nat
    PROVE  LET r == ReadInt(SeekTo(s, to), f)
           IN  /\ r.stream \in Streams
               /\ r.val \in Pids \cup {NoPid}
               /\ ~s.fail /\ to < Len(f) => /\ r.val = f[to + 1]
                                            /\ ~r.stream.fail
  <1> DEFINE t == SeekTo(s, to)
  <1>1. t \in Streams /\ t.fail = s.fail /\ (~s.fail => t.pos = to)
    BY SeekLemma
  <1> HIDE DEF t
  <1>2. /\ ReadInt(t, f).stream \in Streams
        /\ ReadInt(t, f).val \in Pids \cup {NoPid}
        /\ ~t.fail /\ t.pos < Len(f) => /\ ReadInt(t, f).val = f[t.pos + 1]
                                        /\ ~ReadInt(t, f).stream.fail
    BY <1>1, ReadHere
  <1>3. QED
    BY <1>1, <1>2 DEF t

\* push_back's write, at the end of the file, appends its pid.
LEMMA WriteLemma ==
    ASSUME NEW f \in Seq(Pids), NEW s \in Streams, NEW v \in Pids,
           ~s.fail, s.pos = Len(f)
    PROVE  /\ WriteInt(s, f, v).file = Append(f, v)
           /\ WriteInt(s, f, v).stream \in Streams
  <1> DEFINE g == [i \in 1..(Len(f) + 1) |-> IF i = Len(f) + 1 THEN v ELSE f[i]]
  <1>1. WriteInt(s, f, v).file =
          [i \in 1..(Len(f) + 1) |-> IF i = s.pos + 1 THEN v
                                     ELSE IF i <= Len(f) THEN f[i] ELSE NoPid]
    BY DEF WriteInt
  <1>2. @ = g
    OBVIOUS
  <1>3. g \in [1..(Len(f) + 1) -> Pids]
    OBVIOUS
  <1>4. g \in Seq(Pids) /\ Len(g) = Len(f) + 1
    BY <1>3, PidsSeq
  <1>5. Append(f, v) = g
    <2>1. /\ Append(f, v) \in Seq(Pids)
          /\ Len(Append(f, v)) = Len(f) + 1
          /\ \A i \in 1..Len(f) : Append(f, v)[i] = f[i]
          /\ Append(f, v)[Len(f) + 1] = v
      BY AppendProperties
    <2>2. \A i \in 1..Len(g) : Append(f, v)[i] = g[i]
      BY <1>4, <2>1
    <2>3. QED
      BY <1>4, <2>1, <2>2, SeqEqual
  <1>6. WriteInt(s, f, v).stream \in Streams
    BY DEF WriteInt, Streams
  <1>7. QED
    BY <1>1, <1>2, <1>5, <1>6

\* remove_by_idx_unsafe leaves every entry as it is: the read past the end
\* fails, and the failed stream makes the write a no-op.
LEMMA OverwriteLemma ==
    ASSUME NEW f \in Seq(Pids), NEW s \in Streams, NEW i \in Nat
    PROVE  /\ OverwriteEntry(s, f, i).file = f
           /\ OverwriteEntry(s, f, i).stream \in Streams
  <1> DEFINE t == SeekTo(s, Len(f) + 1)
             r == ReadInt(t, f)
  <1>1. t \in Streams /\ (t.fail \/ t.pos >= Len(f))
    <2>1. Len(f) + 1 \in Nat
      OBVIOUS
    <2>2. t \in Streams /\ t.fail = s.fail /\ (~s.fail => t.pos = Len(f) + 1)
      BY <2>1, SeekLemma
    <2>3. QED
      BY <2>2 DEF Streams
  <1>2. r.stream \in Streams /\ r.stream.fail
    BY <1>1, ReadHere
  <1> HIDE DEF t, r
  <1>3. SeekTo(r.stream, i) = r.stream
    BY <1>2 DEF SeekTo
  <1>4. WriteInt(r.stream, f, r.val) = [stream |-> r.stream, file |-> f]
    BY <1>2 DEF WriteInt
  <1>5. QED
    BY <1>2, <1>3, <1>4 DEF OverwriteEntry, t, r

\* Truncating within the file keeps a prefix.
LEMMA TruncateLemma ==
    ASSUME NEW f \in Seq(Pids), NEW n \in Nat, n <= Len(f)
    PROVE  /\ TruncateTo(f, n) = [i \in 1..n |-> f[i]]
           /\ TruncateTo(f, n) \in Seq(Pids)
           /\ Len(TruncateTo(f, n)) = n
  <1>1. TruncateTo(f, n) = [i \in 1..n |-> f[i]]
    BY DEF TruncateTo
  <1>2. TruncateTo(f, n) \in [1..n -> Pids]
    BY <1>1
  <1>3. QED
    BY <1>1, <1>2, PidsSeq

-----------------------------------------------------------------------------
(***************************************************************************)
(* The inductive invariant.  The properties alone are not inductive: that  *)
(* the count is fresh follows from mutual exclusion, which needs the value *)
(* of the semaphore; that pids_storage keeps its file well formed needs    *)
(* the position and the error state each call gives its stream.            *)
(***************************************************************************)
\* A command at work in the storage has the semaphore, and is alone there.
SemInv == \A c \in Procs : Inside(c) => sem = 0 /\ \A d \in Procs : Inside(d) => c = d

\* Where a call is tells which call it is, and that its pid is one.
ControlInv(c) ==
    /\ pc[c] = "new" => op[c] = "none" /\ idx[c] = 0
    /\ pc[c] # "new" /\ ~Gone(c) => op[c] # "none"
    /\ op[c] \in {"push", "remove"} => pid[c] \in Pids
    /\ pc[c] \in {"seek", "write"} => op[c] = "push"
    /\ pc[c] = "count" => op[c] \in {"remove", "get"}
    /\ pc[c] \in {"scan", "overwrite", "truncate"} => op[c] = "remove"
    /\ pc[c] = "get" => op[c] = "get"

\* push_back finds its stream without error and writes at the end.
PushInv(c) ==
    /\ pc[c] = "new" => ~stream[c].fail
    /\ op[c] = "push" /\ pc[c] \in {"lock", "seek", "write"} => ~stream[c].fail
    /\ pc[c] = "write" => stream[c].pos = Len(file)

\* remove_by_pid and get_pid know the size of the file; the search has passed
\* only entries of other pids, and what it stops at is an entry of its pid.
FindInv(c) ==
    /\ pc[c] \in {"scan", "overwrite", "truncate", "get"} => count[c] = Len(file)
    /\ pc[c] \in {"scan", "get"} => ~stream[c].fail
    /\ pc[c] = "scan" => /\ idx[c] <= count[c]
                         /\ \A i \in 1..idx[c] : file[i] # pid[c]
    /\ pc[c] \in {"overwrite", "truncate"} => /\ idx[c] < count[c]
                                              /\ file[idx[c] + 1] = pid[c]

CallInv(c) == ControlInv(c) /\ PushInv(c) /\ FindInv(c)

IInv == TypeOK /\ SemInv /\ \A c \in Procs : CallInv(c)

\* What an action of command c leaves alone.
Frame(c) ==
    \A d \in Procs \ {c} :
        /\ pc'[d] = pc[d] /\ op'[d] = op[d] /\ pid'[d] = pid[d]
        /\ idx'[d] = idx[d] /\ count'[d] = count[d] /\ stream'[d] = stream[d]

\* A step of c disturbs no other call, as long as it changes the file only
\* when it has the semaphore.
LEMMA OthersKeep ==
    ASSUME IInv, NEW c \in Procs, Frame(c), file' = file \/ Inside(c),
           NEW d \in Procs \ {c}
    PROVE  CallInv(d)'
  <1> USE DEF Frame
  <1>1. ControlInv(d)'
    BY DEF IInv, CallInv, ControlInv, Gone
  <1>2. CASE file' = file
    BY <1>1, <1>2 DEF IInv, CallInv, PushInv, FindInv
  <1>3. CASE Inside(c)
    <2>1. ~Inside(d)
      BY <1>3 DEF IInv, SemInv
    <2>2. QED
      BY <1>1, <2>1 DEF IInv, CallInv, PushInv, FindInv, Inside, Critical
  <1>4. QED
    BY <1>2, <1>3

\* A step of c that neither takes nor posts the semaphore keeps its meaning.
LEMMA SemKept ==
    ASSUME IInv, NEW c \in Procs, Frame(c), sem' = sem,
           Inside(c)' => Inside(c)
    PROVE  SemInv'
  BY DEF IInv, SemInv, Frame, Inside

LEMMA InitIInv == Init => IInv
  <1> SUFFICES ASSUME Init PROVE IInv
    OBVIOUS
  <1>1. file \in Seq(Pids)
    <2>1. PICK n \in 0..MaxInitial : file \in [1..n -> Pids]
      BY DEF Init
    <2>2. QED
      BY <2>1, ConstantsAssumption, PidsSeq
  <1>2. TypeOK
    BY <1>1 DEF Init, TypeOK, Locations, Streams, Opened
  <1>3. SemInv
    BY DEF Init, SemInv, Inside, Critical
  <1>4. \A c \in Procs : CallInv(c)
    BY DEF Init, CallInv, ControlInv, PushInv, FindInv, Gone, Opened
  <1>5. QED
    BY <1>2, <1>3, <1>4 DEF IInv

(***************************************************************************)
(* Every action keeps the invariant.                                       *)
(***************************************************************************)
LEMMA BeginKeeps ==
    ASSUME IInv, NEW c \in Procs, NEW o \in {"push", "remove", "get"},
           NEW p \in Pids \cup {NoPid}, o # "get" => p \in Pids,
           Begin(c, o, p)
    PROVE  IInv'
  <1> USE DEF Begin, Goto, Set
  <1>1. TypeOK'
    BY DEF IInv, TypeOK, Locations
  <1>2. Frame(c)
    BY DEF IInv, TypeOK, Frame
  <1>3. SemInv'
    BY <1>2, SemKept DEF IInv, TypeOK, Inside, Critical
  <1>4. CallInv(c)'
    BY DEF IInv, TypeOK, CallInv, ControlInv, PushInv, FindInv, Gone
  <1>5. QED
    BY <1>1, <1>2, <1>3, <1>4, OthersKeep DEF IInv

LEMMA VanishKeeps ==
    ASSUME IInv, NEW c \in Procs, NEW l \in {"exited", "killed"}, Vanish(c, l)
    PROVE  IInv'
  <1> USE DEF Vanish, Goto, Set
  <1>1. TypeOK'
    BY DEF IInv, TypeOK, Locations, Streams, Opened
  <1>2. Frame(c)
    BY DEF IInv, TypeOK, Frame
  <1>3. SemInv'
    BY <1>2, SemKept DEF IInv, TypeOK, Inside, Critical
  <1>4. CallInv(c)'
    BY DEF IInv, TypeOK, CallInv, ControlInv, PushInv, FindInv, Gone
  <1>5. QED
    BY <1>1, <1>2, <1>3, <1>4, OthersKeep DEF IInv

LEMMA WaitedRemoveKeeps ==
    ASSUME IInv, NEW c \in Procs, WaitedRemove(c)
    PROVE  IInv'
  <1> USE DEF WaitedRemove, Goto, Set
  <1>1. TypeOK'
    BY DEF IInv, TypeOK, Locations
  <1>2. Frame(c)
    BY DEF IInv, TypeOK, Frame
  <1>3. SemInv'
    BY <1>2, SemKept DEF IInv, TypeOK, Inside, Critical
  <1>4. CallInv(c)'
    BY DEF IInv, TypeOK, CallInv, ControlInv, PushInv, FindInv, Gone
  <1>5. QED
    BY <1>1, <1>2, <1>3, <1>4, OthersKeep DEF IInv

LEMMA ListNextKeeps ==
    ASSUME IInv, NEW c \in Procs, ListNext(c)
    PROVE  IInv'
  <1> USE DEF ListNext, Goto, Set
  <1>1. TypeOK'
    BY DEF IInv, TypeOK, Locations
  <1>2. Frame(c)
    BY DEF IInv, TypeOK, Frame
  <1>3. SemInv'
    BY <1>2, SemKept DEF IInv, TypeOK, Inside, Critical
  <1>4. CallInv(c)'
    BY DEF IInv, TypeOK, CallInv, ControlInv, PushInv, FindInv, Gone
  <1>5. QED
    BY <1>1, <1>2, <1>3, <1>4, OthersKeep DEF IInv

\* sem_wait returns only while nobody is inside.
LEMMA LockKeeps ==
    ASSUME IInv, NEW c \in Procs, Lock(c)
    PROVE  IInv'
  <1> USE DEF Lock, Goto, Set, locals
  <1>1. TypeOK'
    BY DEF IInv, TypeOK, Locations
  <1>2. Frame(c)
    BY DEF IInv, TypeOK, Frame
  <1>3. SemInv'
    BY <1>2 DEF IInv, TypeOK, SemInv, Frame, Inside, Critical
  <1>4. CallInv(c)'
    BY DEF IInv, TypeOK, CallInv, ControlInv, PushInv, FindInv, Gone
  <1>5. QED
    BY <1>1, <1>2, <1>3, <1>4, OthersKeep DEF IInv

\* sem_post happens only inside, so the semaphore never exceeds 1.
LEMMA UnlockKeeps ==
    ASSUME IInv, NEW c \in Procs, Unlock(c)
    PROVE  IInv'
  <1> USE DEF Unlock, Goto, Set, locals
  <1>1. Inside(c) /\ sem = 0
    BY DEF IInv, SemInv, Inside, Critical
  <1>2. TypeOK'
    BY <1>1 DEF IInv, TypeOK, Locations
  <1>3. Frame(c)
    BY DEF IInv, TypeOK, Frame
  <1>4. SemInv'
    BY <1>1, <1>3 DEF IInv, TypeOK, SemInv, Frame, Inside, Critical
  <1>5. CallInv(c)'
    BY DEF IInv, TypeOK, CallInv, ControlInv, PushInv, FindInv, Gone
  <1>6. QED
    BY <1>2, <1>3, <1>4, <1>5, OthersKeep DEF IInv

LEMMA SeekEndKeeps ==
    ASSUME IInv, NEW c \in Procs, SeekEnd(c)
    PROVE  IInv'
  <1> USE DEF SeekEnd, Goto, Set
  <1>1. /\ stream[c] \in Streams
        /\ ~stream[c].fail
        /\ Len(file) \in Nat
    BY DEF IInv, TypeOK, CallInv, ControlInv, PushInv
  <1>2. /\ SeekTo(stream[c], Len(file)) \in Streams
        /\ ~SeekTo(stream[c], Len(file)).fail
        /\ SeekTo(stream[c], Len(file)).pos = Len(file)
    BY <1>1, SeekLemma
  <1>3. TypeOK'
    BY <1>2 DEF IInv, TypeOK, Locations
  <1>4. Frame(c)
    BY DEF IInv, TypeOK, Frame
  <1>5. SemInv'
    BY <1>4, SemKept DEF IInv, TypeOK, Inside, Critical
  <1>6. CallInv(c)'
    BY <1>2 DEF IInv, TypeOK, CallInv, ControlInv, PushInv, FindInv, Gone
  <1>7. QED
    BY <1>3, <1>4, <1>5, <1>6, OthersKeep DEF IInv

\* What the write of push_back does to the file.
LEMMA WriteAppends ==
    ASSUME IInv, NEW c \in Procs, Write(c)
    PROVE  /\ file' = Append(file, pid[c])
           /\ pid[c] \in Pids
           /\ WriteInt(stream[c], file, pid[c]).stream \in Streams
  <1>1. /\ stream[c] \in Streams /\ ~stream[c].fail
        /\ stream[c].pos = Len(file)
        /\ file \in Seq(Pids)
        /\ pid[c] \in Pids
    BY DEF IInv, TypeOK, CallInv, ControlInv, PushInv, Write
  <1>2. QED
    BY <1>1, WriteLemma DEF Write

LEMMA WriteKeeps ==
    ASSUME IInv, NEW c \in Procs, Write(c)
    PROVE  IInv'
  <1>1. Inside(c)
    BY DEF Inside, Critical, Write
  <1>2. /\ file' \in Seq(Pids)
        /\ WriteInt(stream[c], file, pid[c]).stream \in Streams
    <2>1. /\ file' = Append(file, pid[c]) /\ pid[c] \in Pids
          /\ WriteInt(stream[c], file, pid[c]).stream \in Streams
      BY WriteAppends
    <2>2. QED
      BY <2>1 DEF IInv, TypeOK
  <1> USE DEF Write, Goto, Set
  <1>3. TypeOK'
    BY <1>2 DEF IInv, TypeOK, Locations
  <1>4. Frame(c)
    BY DEF IInv, TypeOK, Frame
  <1>5. SemInv'
    BY <1>1, <1>4, SemKept DEF IInv, TypeOK
  <1>6. CallInv(c)'
    BY DEF IInv, TypeOK, CallInv, ControlInv, PushInv, FindInv, Gone
  <1>7. QED
    BY <1>1, <1>3, <1>4, <1>5, <1>6, OthersKeep DEF IInv

LEMMA CountKeeps ==
    ASSUME IInv, NEW c \in Procs, Count(c)
    PROVE  IInv'
  <1> USE DEF Count, Goto, Set
  <1>1. AtEnd(file) \in Streams /\ ~AtEnd(file).fail /\ Len(file) \in Nat
    BY DEF IInv, TypeOK, AtEnd, Streams
  <1>2. TypeOK'
    BY <1>1 DEF IInv, TypeOK, Locations
  <1>3. Frame(c)
    BY DEF IInv, TypeOK, Frame
  <1>4. SemInv'
    BY <1>3, SemKept DEF IInv, TypeOK, Inside, Critical
  <1>5. CallInv(c)'
    BY <1>1 DEF IInv, TypeOK, CallInv, ControlInv, PushInv, FindInv, Gone
  <1>6. QED
    BY <1>2, <1>3, <1>4, <1>5, OthersKeep DEF IInv

LEMMA ScanKeeps ==
    ASSUME IInv, NEW c \in Procs, Scan(c)
    PROVE  IInv'
  <1> USE DEF Goto, Set
  <1> DEFINE r == ReadInt(SeekTo(stream[c], idx[c]), file)
  <1>1. /\ file \in Seq(Pids) /\ stream[c] \in Streams /\ idx[c] \in Nat
        /\ count[c] = Len(file) /\ ~stream[c].fail /\ idx[c] <= count[c]
        /\ op[c] = "remove" /\ pid[c] \in Pids
        /\ \A i \in 1..idx[c] : file[i] # pid[c]
    BY DEF IInv, TypeOK, CallInv, ControlInv, FindInv, Scan
  <1>2. /\ r.stream \in Streams
        /\ idx[c] < count[c] => r.val = file[idx[c] + 1] /\ ~r.stream.fail
    BY <1>1, ReadLemma
  <1> HIDE DEF r
  <1>3. CASE idx[c] # count[c] /\ r.val = pid[c]
    <2>1. /\ pc' = [pc EXCEPT ![c] = "overwrite"]
          /\ stream' = [stream EXCEPT ![c] = r.stream]
          /\ UNCHANGED <<file, sem, op, pid, idx, count, ok>>
      BY <1>3 DEF Scan, r
    <2>2. TypeOK'
      BY <1>2, <2>1 DEF IInv, TypeOK, Locations
    <2>3. Frame(c)
      BY <2>1 DEF IInv, TypeOK, Frame
    <2>4. SemInv'
      BY <2>1, <2>3, SemKept DEF IInv, TypeOK, Inside, Critical, Scan
    <2>5. CallInv(c)'
      BY <1>1, <1>2, <1>3, <2>1
         DEF IInv, TypeOK, CallInv, ControlInv, PushInv, FindInv, Gone
    <2>6. QED
      BY <2>1, <2>2, <2>3, <2>4, <2>5, OthersKeep DEF IInv
  <1>4. CASE idx[c] # count[c] /\ r.val # pid[c]
    <2>1. /\ pc' = pc /\ pc[c] = "scan"
          /\ idx' = [idx EXCEPT ![c] = idx[c] + 1]
          /\ stream' = [stream EXCEPT ![c] = r.stream]
          /\ UNCHANGED <<file, sem, op, pid, count, ok>>
      BY <1>4 DEF Scan, r
    <2>2. TypeOK'
      BY <1>2, <2>1 DEF IInv, TypeOK, Locations
    <2>3. Frame(c)
      BY <2>1 DEF IInv, TypeOK, Frame
    <2>4. SemInv'
      BY <2>1, <2>3, SemKept DEF IInv, TypeOK, Inside, Critical
    <2>5. CallInv(c)'
      BY <1>1, <1>2, <1>4, <2>1
         DEF IInv, TypeOK, CallInv, ControlInv, PushInv, FindInv, Gone
    <2>6. QED
      BY <2>1, <2>2, <2>3, <2>4, <2>5, OthersKeep DEF IInv
  <1>5. CASE idx[c] = count[c]
    <2>1. /\ pc' = [pc EXCEPT ![c] = "unlock"] /\ pc[c] = "scan"
          /\ ok' = [ok EXCEPT ![c] = FALSE]
          /\ UNCHANGED <<file, sem, op, pid, idx, count, stream>>
      BY <1>5 DEF Scan
    <2>2. TypeOK'
      BY <2>1 DEF IInv, TypeOK, Locations
    <2>3. Frame(c)
      BY <2>1 DEF IInv, TypeOK, Frame
    <2>4. SemInv'
      BY <2>1, <2>3, SemKept DEF IInv, TypeOK, Inside, Critical
    <2>5. CallInv(c)'
      BY <1>1, <2>1 DEF IInv, TypeOK, CallInv, ControlInv, PushInv, FindInv, Gone
    <2>6. QED
      BY <2>1, <2>2, <2>3, <2>4, <2>5, OthersKeep DEF IInv
  <1>6. QED
    BY <1>3, <1>4, <1>5

\* What the seeks, the read and the write of remove_by_idx_unsafe do.
LEMMA OverwriteIsNoOp ==
    ASSUME IInv, NEW c \in Procs, Overwrite(c)
    PROVE  /\ file' = file
           /\ OverwriteEntry(stream[c], file, idx[c]).stream \in Streams
  <1>1. file \in Seq(Pids) /\ stream[c] \in Streams /\ idx[c] \in Nat
    BY DEF IInv, TypeOK
  <1>2. QED
    BY <1>1, OverwriteLemma DEF Overwrite

LEMMA OverwriteKeeps ==
    ASSUME IInv, NEW c \in Procs, Overwrite(c)
    PROVE  IInv'
  <1>1. /\ file' = file
        /\ OverwriteEntry(stream[c], file, idx[c]).stream \in Streams
    BY OverwriteIsNoOp
  <1> USE DEF Overwrite, Goto, Set
  <1>2. TypeOK'
    BY <1>1 DEF IInv, TypeOK, Locations
  <1>3. Frame(c)
    BY DEF IInv, TypeOK, Frame
  <1>4. SemInv'
    BY <1>3, SemKept DEF IInv, TypeOK, Inside, Critical
  <1>5. CallInv(c)'
    BY <1>1 DEF IInv, TypeOK, CallInv, ControlInv, PushInv, FindInv, Gone
  <1>6. QED
    BY <1>1, <1>2, <1>3, <1>4, <1>5, OthersKeep DEF IInv

\* What the truncate of remove_by_idx_unsafe does to the file.
LEMMA TruncateCuts ==
    ASSUME IInv, NEW c \in Procs, Truncate(c)
    PROVE  /\ file' = [i \in 1..(Len(file) - 1) |-> file[i]]
           /\ file' \in Seq(Pids)
           /\ Len(file') = Len(file) - 1
           /\ idx[c] \in 0..(Len(file) - 1) /\ file[idx[c] + 1] = pid[c]
  <1>1. /\ file \in Seq(Pids) /\ count[c] = Len(file)
        /\ idx[c] \in Nat /\ idx[c] < count[c] /\ file[idx[c] + 1] = pid[c]
    BY DEF IInv, TypeOK, CallInv, FindInv, Truncate
  <1>2. /\ count[c] - 1 \in Nat /\ count[c] - 1 <= Len(file)
        /\ idx[c] \in 0..(Len(file) - 1)
    BY <1>1
  <1>3. file' = TruncateTo(file, count[c] - 1)
    BY DEF Truncate
  <1>4. QED
    BY <1>1, <1>2, <1>3, TruncateLemma

LEMMA TruncateKeeps ==
    ASSUME IInv, NEW c \in Procs, Truncate(c)
    PROVE  IInv'
  <1>1. file' \in Seq(Pids)
    BY TruncateCuts
  <1>2. Inside(c)
    BY DEF Truncate, Inside, Critical
  <1> USE DEF Truncate, Goto, Set
  <1>3. TypeOK'
    BY <1>1 DEF IInv, TypeOK, Locations
  <1>4. Frame(c)
    BY DEF IInv, TypeOK, Frame
  <1>5. SemInv'
    BY <1>2, <1>4, SemKept DEF IInv, TypeOK
  <1>6. CallInv(c)'
    BY DEF IInv, TypeOK, CallInv, ControlInv, PushInv, FindInv, Gone
  <1>7. QED
    BY <1>2, <1>3, <1>4, <1>5, <1>6, OthersKeep DEF IInv

\* What get_pid reads.
LEMMA GetReads ==
    ASSUME IInv, NEW c \in Procs, Get(c)
    PROVE  LET r == ReadInt(SeekTo(stream[c], idx[c]), file)
           IN  /\ count[c] = Len(file)
               /\ r.stream \in Streams
               /\ r.val \in Pids \cup {NoPid}
               /\ idx[c] < Len(file) => r.val = file[idx[c] + 1]
  <1>1. /\ file \in Seq(Pids) /\ stream[c] \in Streams /\ idx[c] \in Nat
        /\ count[c] = Len(file) /\ ~stream[c].fail
    BY DEF IInv, TypeOK, CallInv, FindInv, Get
  <1>2. QED
    BY <1>1, ReadLemma

LEMMA GetKeeps ==
    ASSUME IInv, NEW c \in Procs, Get(c)
    PROVE  IInv'
  <1>1. /\ ReadInt(SeekTo(stream[c], idx[c]), file).stream \in Streams
        /\ ReadInt(SeekTo(stream[c], idx[c]), file).val \in Pids \cup {NoPid}
    BY GetReads
  <1> USE DEF Get, Goto, Set
  <1>2. TypeOK'
    BY <1>1 DEF IInv, TypeOK, Locations
  <1>3. Frame(c)
    BY DEF IInv, TypeOK, Frame
  <1>4. SemInv'
    BY <1>3, SemKept DEF IInv, TypeOK, Inside, Critical
  <1>5. CallInv(c)'
    BY DEF IInv, TypeOK, CallInv, ControlInv, PushInv, FindInv, Gone
  <1>6. QED
    BY <1>2, <1>3, <1>4, <1>5, OthersKeep DEF IInv

\* A step that changes nothing.
LEMMA StutterKeeps == IInv /\ UNCHANGED vars => IInv'
  BY DEF IInv, TypeOK, SemInv, CallInv, ControlInv, PushInv, FindInv, Gone, Inside, vars

LEMMA NextKeeps == IInv /\ [Next]_vars => IInv'
  <1> SUFFICES ASSUME IInv, [Next]_vars PROVE IInv'
    OBVIOUS
  <1>1. ASSUME NEW c \in Procs, Enter(c) PROVE IInv'
    BY <1>1, BeginKeeps, Zenon DEF Enter, StartPush, StopRemove, ListGet
  <1>2. ASSUME NEW c \in Procs, Step(c) PROVE IInv'
    <2>1. CASE WaitedRemove(c)
      BY <2>1, WaitedRemoveKeeps
    <2>2. CASE ListNext(c)
      BY <2>2, ListNextKeeps
    <2>3. CASE Exit(c)
      BY <2>3, VanishKeeps DEF Exit
    <2>4. CASE Lock(c)
      BY <2>4, LockKeeps
    <2>5. CASE SeekEnd(c)
      BY <2>5, SeekEndKeeps
    <2>6. CASE Write(c)
      BY <2>6, WriteKeeps
    <2>7. CASE Count(c)
      BY <2>7, CountKeeps
    <2>8. CASE Scan(c)
      BY <2>8, ScanKeeps
    <2>9. CASE Overwrite(c)
      BY <2>9, OverwriteKeeps
    <2>10. CASE Truncate(c)
      BY <2>10, TruncateKeeps
    <2>11. CASE Get(c)
      BY <2>11, GetKeeps
    <2>12. CASE Unlock(c)
      BY <2>12, UnlockKeeps
    <2>13. QED
      BY <1>2, <2>1, <2>2, <2>3, <2>4, <2>5, <2>6, <2>7, <2>8, <2>9, <2>10,
         <2>11, <2>12 DEF Step
  <1>3. ASSUME NEW c \in Procs, Kill(c) PROVE IInv'
    BY <1>3, VanishKeeps DEF Kill
  <1>4. CASE UNCHANGED vars
    BY <1>4, StutterKeeps
  <1>5. QED
    BY <1>1, <1>2, <1>3, <1>4 DEF Next, Finished

(***************************************************************************)
(* The theorems.                                                           *)
(***************************************************************************)
\* The strengthened invariant holds of every reachable state.
THEOREM Invariant == Spec => []IInv
  BY InitIInv, NextKeeps, PTL DEF Spec

\* The variables keep their types: only pids ever reach the pids file, though
\* remove_by_idx_unsafe passes an uninitialised int to a write.
THEOREM TypeCorrect == Spec => []TypeOK
  <1>1. IInv => TypeOK
    BY DEF IInv
  <1>2. QED
    BY <1>1, Invariant, PTL

\* One command at a time works on the file between lock and unlock.
THEOREM Exclusion == Spec => []MutualExclusion
  <1>1. IInv => MutualExclusion
    BY DEF IInv, SemInv, MutualExclusion
  <1>2. QED
    BY <1>1, Invariant, PTL

\* The size pids_count returned is the size of the file for as long as
\* remove_by_pid and get_pid rely on it.
THEOREM FreshCount == Spec => []CountIsFresh
  <1>1. IInv => CountIsFresh
    BY DEF IInv, CallInv, FindInv, CountIsFresh
  <1>2. QED
    BY <1>1, Invariant, PTL

\* A semaphore whose holder was killed stays lost.
THEOREM LostSemaphore == Spec => LostForever
  <1>1. IInv /\ [Next]_vars => [Lost => Lost']_vars
    <2> SUFFICES ASSUME IInv, [Next]_vars, Lost PROVE Lost'
      OBVIOUS
    <2>1. CASE UNCHANGED vars
      BY <2>1 DEF vars, Lost, Inside
    <2>2. ASSUME NEW c \in Procs, Enter(c) PROVE Lost'
      BY <2>2 DEF Enter, StartPush, StopRemove, ListGet, Begin, Goto, Lost,
                  Inside, Critical, IInv, TypeOK
    <2>3. ASSUME NEW c \in Procs, Step(c) PROVE Lost'
      <3>1. sem = 0 /\ pc[c] \notin Critical
        BY DEF Lost, Inside
      <3>2. ~Lock(c)
        BY <3>1 DEF Lock
      <3>3. ~SeekEnd(c) /\ ~Write(c) /\ ~Count(c) /\ ~Scan(c)
        BY <3>1 DEF Critical, SeekEnd, Write, Count, Scan
      <3>4. ~Overwrite(c) /\ ~Truncate(c) /\ ~Get(c) /\ ~Unlock(c)
        BY <3>1 DEF Critical, Overwrite, Truncate, Get, Unlock
      <3>5. WaitedRemove(c) \/ ListNext(c) \/ Exit(c)
        BY <2>3, <3>2, <3>3, <3>4 DEF Step
      <3>6. QED
        BY <3>5 DEF WaitedRemove, ListNext, Exit, Vanish, Goto, Lost, Inside,
                    Critical, IInv, TypeOK
    <2>4. ASSUME NEW c \in Procs, Kill(c) PROVE Lost'
      BY <2>4 DEF Kill, Vanish, Goto, Lost, Inside, Critical, IInv, TypeOK
    <2>5. QED
      BY <2>1, <2>2, <2>3, <2>4 DEF Next, Finished
  <1>2. QED
    BY <1>1, Invariant, PTL DEF Spec, LostForever

(***************************************************************************)
(* Every step of a call is a step of PidRegistry, or none.                 *)
(***************************************************************************)
\* What each step does to the file: nothing, an append, or a cut at the end.
LEMMA FileSteps ==
    ASSUME IInv, [Next]_vars
    PROVE  \/ file' = file
           \/ \E p \in Pids : file' = Append(file, p)
           \/ file' = [i \in 1..(Len(file) - 1) |-> file[i]] /\ Len(file) > 0
  <1>1. ASSUME NEW c \in Procs, Write(c)
        PROVE  \E p \in Pids : file' = Append(file, p)
    BY <1>1, WriteAppends
  <1>2. ASSUME NEW c \in Procs, Truncate(c)
        PROVE  file' = [i \in 1..(Len(file) - 1) |-> file[i]] /\ Len(file) > 0
    <2>1. /\ file' = [i \in 1..(Len(file) - 1) |-> file[i]]
          /\ idx[c] \in 0..(Len(file) - 1)
      BY <1>2, TruncateCuts
    <2>2. Len(file) \in Nat
      BY DEF IInv, TypeOK
    <2>3. QED
      BY <2>1, <2>2
  <1>3. ASSUME NEW c \in Procs, Overwrite(c) PROVE file' = file
    BY <1>3, OverwriteIsNoOp
  <1>4. ASSUME NEW c \in Procs,
               \/ WaitedRemove(c) \/ ListNext(c) \/ Exit(c) \/ Lock(c) \/ Kill(c)
               \/ SeekEnd(c) \/ Count(c) \/ Scan(c) \/ Get(c) \/ Unlock(c)
               \/ Enter(c)
        PROVE  file' = file
    BY <1>4 DEF WaitedRemove, ListNext, Exit, Vanish, Lock, Kill, SeekEnd, Count,
                Scan, Get, Unlock, Enter, StartPush, StopRemove, ListGet, Begin
  <1>5. CASE UNCHANGED vars
    BY <1>5 DEF vars
  <1>6. QED
    BY <1>1, <1>2, <1>3, <1>4, <1>5 DEF Next, Finished, Step

\* aucont_list, which goes by index and holds the semaphore for one entry at a
\* time, is never passed by an entry: entries do not move.
THEOREM Stability == Spec => EntriesNeverMove
  <1>1. IInv /\ [Next]_vars =>
          [\A i \in 1..Len(file) : i <= Len(file') => file'[i] = file[i]]_vars
    <2> SUFFICES ASSUME IInv, [Next]_vars, NEW i \in 1..Len(file), i <= Len(file')
                 PROVE  file'[i] = file[i]
      OBVIOUS
    <2>1. file \in Seq(Pids)
      BY DEF IInv, TypeOK
    <2>2. CASE file' = file
      BY <2>2
    <2>3. ASSUME NEW p \in Pids, file' = Append(file, p) PROVE file'[i] = file[i]
      BY <2>1, <2>3, AppendProperties
    <2>4. CASE file' = [j \in 1..(Len(file) - 1) |-> file[j]] /\ Len(file) > 0
      <3>1. Len(file) - 1 \in Nat /\ file' \in [1..(Len(file) - 1) -> Pids]
        BY <2>1, <2>4
      <3>2. Len(file') = Len(file) - 1
        BY <3>1, PidsSeq
      <3>3. QED
        BY <2>1, <2>4, <3>2
    <2>5. QED
      BY <2>2, <2>3, <2>4, FileSteps
  <1>2. QED
    BY <1>1, Invariant, PTL DEF Spec, EntriesNeverMove

\* The refinement mapping of PidsStorage, by name.
phaseBar == [c \in Procs |->
               CASE pc[c] = "new" -> "idle"
                 [] pc[c] \in {"unlock", "returned"} -> "answered"
                 [] Gone(c) -> "exited"
                 [] OTHER -> "called"]
idxBar == [c \in Procs |-> IF op[c] = "get" THEN idx[c] ELSE 0]

\* A step of c that leaves c in the same phase, the file and the arguments as
\* they are, is no step of the registry.
LEMMA Stutter ==
    ASSUME IInv, NEW c \in Procs, file' = file, UNCHANGED <<op, pid, ok>>,
           \A d \in Procs : idxBar'[d] = idxBar[d] /\ phaseBar'[d] = phaseBar[d]
    PROVE  UNCHANGED Registry!vars
  <1>1. idxBar' = idxBar /\ phaseBar' = phaseBar
    BY DEF idxBar, phaseBar
  <1>2. QED
    BY <1>1 DEF Registry!vars, idxBar, phaseBar

LEMMA BeginInvokes ==
    ASSUME IInv, NEW c \in Procs, NEW o \in {"push", "remove", "get"},
           NEW p \in Pids \cup {NoPid}, Begin(c, o, p)
    PROVE  Registry!Invoke(c)
  <1> USE DEF Begin, Goto, Set
  <1>1. pc[c] = "new" /\ op[c] = "none" /\ idx[c] = 0
    BY DEF IInv, CallInv, ControlInv
  <1>2. phaseBar[c] = "idle" /\ phaseBar' = [phaseBar EXCEPT ![c] = "called"]
    BY <1>1 DEF IInv, TypeOK, phaseBar, Gone
  <1>3. idxBar' = [idxBar EXCEPT ![c] = idxBar[c]]
    BY <1>1 DEF IInv, TypeOK, idxBar
  <1>4. op' = [op EXCEPT ![c] = o] /\ pid' = [pid EXCEPT ![c] = p]
        /\ file' = file /\ ok' = ok
    OBVIOUS
  <1>5. QED
    BY <1>2, <1>3, <1>4 DEF Registry!Invoke, Registry!Phase, phaseBar, idxBar, Gone
LEMMA WaitedRemoveInvokes ==
    ASSUME IInv, NEW c \in Procs, WaitedRemove(c)
    PROVE  Registry!Invoke(c)
  <1> USE DEF WaitedRemove, Goto, Set
  <1>1. phaseBar[c] = "answered" /\ phaseBar' = [phaseBar EXCEPT ![c] = "called"]
    BY DEF IInv, TypeOK, phaseBar, Gone
  <1>2. idxBar' = [idxBar EXCEPT ![c] = idxBar[c]]
    BY DEF IInv, TypeOK, idxBar
  <1>3. op' = [op EXCEPT ![c] = "remove"] /\ pid' = [pid EXCEPT ![c] = pid[c]]
        /\ pid[c] \in Pids \cup {NoPid}
    BY DEF IInv, TypeOK
  <1>4. file' = file /\ ok' = ok
    OBVIOUS
  <1>5. QED
    BY <1>1, <1>2, <1>3, <1>4 DEF Registry!Invoke, Registry!Phase, phaseBar, idxBar, Gone

LEMMA ListNextInvokes ==
    ASSUME IInv, NEW c \in Procs, ListNext(c)
    PROVE  Registry!Invoke(c)
  <1> USE DEF ListNext, Goto, Set
  <1>1. phaseBar[c] = "answered" /\ phaseBar' = [phaseBar EXCEPT ![c] = "called"]
    BY DEF IInv, TypeOK, phaseBar, Gone
  <1>2. idxBar' = [idxBar EXCEPT ![c] = idxBar[c] + 1]
    BY DEF IInv, TypeOK, idxBar
  <1>3. op' = [op EXCEPT ![c] = "get"] /\ pid' = [pid EXCEPT ![c] = pid[c]]
        /\ pid[c] \in Pids \cup {NoPid}
    BY DEF IInv, TypeOK
  <1>4. file' = file /\ ok' = ok
    OBVIOUS
  <1>5. QED
    BY <1>1, <1>2, <1>3, <1>4 DEF Registry!Invoke, Registry!Phase, phaseBar, idxBar, Gone

LEMMA VanishEnds ==
    ASSUME IInv, NEW c \in Procs, NEW l \in {"exited", "killed"},
           pc[c] # "new", Vanish(c, l)
    PROVE  Registry!End(c)
  <1> USE DEF Vanish, Goto, Set
  <1>1. phaseBar[c] # "idle" /\ phaseBar' = [phaseBar EXCEPT ![c] = "exited"]
    BY DEF IInv, TypeOK, phaseBar, Gone
  <1>2. idxBar' = [idxBar EXCEPT ![c] = 0]
    BY DEF IInv, TypeOK, idxBar
  <1>3. QED
    BY <1>1, <1>2 DEF Registry!End, phaseBar, idxBar, Gone
\* The steps of a call before and after the one at which it takes effect.
LEMMA InnerSteps ==
    ASSUME IInv, NEW c \in Procs,
           Lock(c) \/ Unlock(c) \/ SeekEnd(c) \/ Count(c) \/ Overwrite(c)
    PROVE  UNCHANGED Registry!vars
  <1> USE DEF Goto, Set
  <1>1. file' = file /\ UNCHANGED <<op, pid, ok>>
    <2>1. CASE Overwrite(c)
      BY <2>1, OverwriteIsNoOp DEF Overwrite
    <2>2. CASE Lock(c) \/ Unlock(c) \/ SeekEnd(c) \/ Count(c)
      BY <2>2 DEF Lock, Unlock, SeekEnd, Count, locals
    <2>3. QED
      BY <2>1, <2>2
  <1>2. \A d \in Procs : idxBar'[d] = idxBar[d]
    BY DEF IInv, TypeOK, idxBar, Lock, Unlock, SeekEnd, Count, Overwrite, locals
  <1>3. \A d \in Procs : phaseBar'[d] = phaseBar[d]
    BY DEF IInv, TypeOK, phaseBar, Gone, Lock, Unlock, SeekEnd, Count, Overwrite
  <1>4. QED
    BY <1>1, <1>2, <1>3, Stutter

\* A call takes effect, and has its answer r.
LEMMA Answers ==
    ASSUME IInv, NEW c \in Procs, NEW r \in BOOLEAN,
           pc[c] \in {"write", "scan", "truncate", "get"},
           pc' = [pc EXCEPT ![c] = "unlock"],
           ok' = [ok EXCEPT ![c] = r], op' = op, idx' = idx
    PROVE  /\ Registry!Answer(c, op[c], r)
           /\ idxBar' = idxBar
  <1>1. phaseBar[c] = "called" /\ phaseBar' = [phaseBar EXCEPT ![c] = "answered"]
    BY DEF IInv, TypeOK, phaseBar, Gone
  <1>2. idxBar' = idxBar
    BY DEF idxBar
  <1>3. QED
    BY <1>1, <1>2 DEF Registry!Answer, Registry!Phase, phaseBar

LEMMA WritePushes ==
    ASSUME IInv, NEW c \in Procs, Write(c)
    PROVE  Registry!Push(c)
  <1>1. file' = Append(file, pid[c])
    BY WriteAppends
  <1>2. /\ pc[c] = "write" /\ pc' = [pc EXCEPT ![c] = "unlock"]
        /\ ok' = [ok EXCEPT ![c] = TRUE]
        /\ op' = op /\ pid' = pid /\ idx' = idx
    BY DEF Write, Goto, Set
  <1>3. op[c] = "push"
    BY <1>2 DEF IInv, CallInv, ControlInv
  <1>4. Registry!Answer(c, "push", TRUE) /\ idxBar' = idxBar
    BY <1>2, <1>3, Answers
  <1>5. QED
    BY <1>1, <1>2, <1>4 DEF Registry!Push, idxBar

\* remove_by_pid takes effect when its search ends without a hit ...
LEMMA ScanRemoves ==
    ASSUME IInv, NEW c \in Procs, Scan(c)
    PROVE  Registry!Remove(c) \/ UNCHANGED Registry!vars
  <1>1. /\ file \in Seq(Pids) /\ count[c] = Len(file) /\ pc[c] = "scan"
        /\ op[c] = "remove" /\ \A i \in 1..idx[c] : file[i] # pid[c]
    BY DEF IInv, TypeOK, CallInv, ControlInv, FindInv, Scan
  <1>2. CASE idx[c] = count[c]
    <2>1. /\ pc' = [pc EXCEPT ![c] = "unlock"] /\ ok' = [ok EXCEPT ![c] = FALSE]
          /\ UNCHANGED <<file, op, pid, idx>>
      BY <1>2 DEF Scan, Goto, Set
    <2>2. Registry!Answer(c, "remove", FALSE) /\ idxBar' = idxBar
      BY <1>1, <2>1, Answers
    <2>3. ~Registry!IsListed(pid[c])
      BY <1>1, <1>2 DEF Registry!IsListed
    <2>4. Registry!IsListed(pid[c]) = FALSE
      BY <2>3, Zenon DEF Registry!IsListed
    <2>5. QED
      BY <2>1, <2>2, <2>4, Zenon DEF Registry!Remove, idxBar
  <1>3. CASE idx[c] # count[c]
    <2>1. /\ pc' \in {pc, [pc EXCEPT ![c] = "overwrite"]}
          /\ idx' \in {idx, [idx EXCEPT ![c] = idx[c] + 1]}
          /\ file' = file /\ UNCHANGED <<op, pid, ok>>
      BY <1>3, Zenon DEF Scan, Goto, Set
    <2>2. \A d \in Procs : idxBar'[d] = idxBar[d] /\ phaseBar'[d] = phaseBar[d]
      BY <1>1, <2>1 DEF IInv, TypeOK, idxBar, phaseBar, Gone
    <2>3. QED
      BY <2>1, <2>2, Stutter
  <1>4. QED
    BY <1>2, <1>3

\* ... or when it truncates the file, whose last entry is then gone.
LEMMA TruncateRemoves ==
    ASSUME IInv, NEW c \in Procs, Truncate(c)
    PROVE  Registry!Remove(c)
  <1>1. /\ file' = [i \in 1..(Len(file) - 1) |-> file[i]]
        /\ idx[c] \in 0..(Len(file) - 1) /\ file[idx[c] + 1] = pid[c]
    BY TruncateCuts
  <1>2. /\ pc[c] = "truncate" /\ pc' = [pc EXCEPT ![c] = "unlock"]
        /\ ok' = [ok EXCEPT ![c] = TRUE]
        /\ op' = op /\ pid' = pid /\ idx' = idx
    BY DEF Truncate, Goto, Set
  <1>3. op[c] = "remove" /\ file \in Seq(Pids)
    BY <1>2 DEF IInv, TypeOK, CallInv, ControlInv
  <1>4. Registry!Answer(c, "remove", TRUE) /\ idxBar' = idxBar
    BY <1>2, <1>3, Answers
  <1>5. Registry!IsListed(pid[c]) = TRUE
    <2>1. idx[c] + 1 \in 1..Len(file)
      BY <1>1, <1>3
    <2>2. QED
      BY <1>1, <2>1, Zenon DEF Registry!IsListed
  <1>6. QED
    BY <1>1, <1>2, <1>4, <1>5 DEF Registry!Remove, idxBar

LEMMA GetGets ==
    ASSUME IInv, NEW c \in Procs, Get(c)
    PROVE  Registry!Get(c)
  <1> DEFINE r == ReadInt(SeekTo(stream[c], idx[c]), file)
  <1>1. count[c] = Len(file) /\ (idx[c] < Len(file) => r.val = file[idx[c] + 1])
    BY GetReads
  <1>2. op[c] = "get" /\ idx[c] \in Nat /\ Len(file) \in Nat /\ pc[c] = "get"
    BY DEF IInv, TypeOK, CallInv, ControlInv, Get
  <1>3. /\ pc' = [pc EXCEPT ![c] = "unlock"]
        /\ file' = file /\ op' = op /\ idx' = idx
    BY DEF Get, Goto
  <1>4. idxBar[c] = idx[c]
    BY <1>2 DEF idxBar
  <1>5. CASE idx[c] < Len(file)
    <2>1. ~(count[c] <= idx[c])
      BY <1>1, <1>2, <1>5
    <2>2. /\ ok' = [ok EXCEPT ![c] = TRUE]
          /\ pid' = [pid EXCEPT ![c] = file[idx[c] + 1]]
      BY <1>1, <1>5, <2>1, Zenon DEF Get, Set
    <2>3. Registry!Answer(c, "get", TRUE) /\ idxBar' = idxBar
      BY <1>2, <1>3, <2>2, Answers
    <2>4. (idx[c] < Len(file)) = TRUE
      BY <1>5
    <2>5. QED
      BY <1>3, <1>4, <1>5, <2>2, <2>3, <2>4, Zenon DEF Registry!Get, idxBar
  <1>6. CASE ~(idx[c] < Len(file))
    <2>1. count[c] <= idx[c]
      BY <1>1, <1>2, <1>6
    <2>2. ok' = [ok EXCEPT ![c] = FALSE] /\ pid' = pid
      BY <2>1, Zenon DEF Get, Set
    <2>3. Registry!Answer(c, "get", FALSE) /\ idxBar' = idxBar
      BY <1>2, <1>3, <2>2, Answers
    <2>4. (idx[c] < Len(file)) = FALSE
      BY <1>6
    <2>5. QED
      BY <1>3, <1>4, <1>6, <2>2, <2>3, <2>4, Zenon DEF Registry!Get, idxBar
  <1>7. QED
    BY <1>5, <1>6

LEMMA InitRefines == Init => Registry!Init
  BY DEF Init, Registry!Init, Gone

LEMMA NextRefines == IInv /\ [Next]_vars => [Registry!Next]_(Registry!vars)
  <1> SUFFICES ASSUME IInv, [Next]_vars
               PROVE  Registry!Next \/ UNCHANGED Registry!vars
    OBVIOUS
  <1>1. ASSUME NEW c \in Procs, Enter(c) PROVE Registry!Invoke(c)
    BY <1>1, BeginInvokes, Zenon DEF Enter, StartPush, StopRemove, ListGet
  <1>2. ASSUME NEW c \in Procs, Step(c)
        PROVE  \/ Registry!Invoke(c) \/ Registry!Push(c) \/ Registry!Remove(c)
               \/ Registry!Get(c) \/ Registry!End(c) \/ UNCHANGED Registry!vars
    <2>1. CASE WaitedRemove(c)
      BY <2>1, WaitedRemoveInvokes
    <2>2. CASE ListNext(c)
      BY <2>2, ListNextInvokes
    <2>3. CASE Exit(c)
      BY <2>3, VanishEnds DEF Exit
    <2>4. CASE Write(c)
      BY <2>4, WritePushes
    <2>5. CASE Scan(c)
      BY <2>5, ScanRemoves
    <2>6. CASE Truncate(c)
      BY <2>6, TruncateRemoves
    <2>7. CASE Get(c)
      BY <2>7, GetGets
    <2>8. CASE Lock(c) \/ Unlock(c) \/ SeekEnd(c) \/ Count(c) \/ Overwrite(c)
      BY <2>8, InnerSteps
    <2>9. QED
      BY <1>2, <2>1, <2>2, <2>3, <2>4, <2>5, <2>6, <2>7, <2>8 DEF Step
  <1>3. ASSUME NEW c \in Procs, Kill(c) PROVE Registry!End(c)
    BY <1>3, VanishEnds DEF Kill
  <1>4. CASE UNCHANGED vars
    BY <1>4 DEF vars, Registry!vars
  <1>5. QED
    BY <1>1, <1>2, <1>3, <1>4 DEF Next, Finished, Registry!Next

\* Every call of pids_storage is atomic for the other commands, and does what
\* PidRegistry says of it, whoever runs at the same time and is killed when.
THEOREM Refinement == Spec => ImplementsRegistry
  BY InitRefines, NextRefines, Invariant, PTL DEF Spec, ImplementsRegistry, Registry!Spec
====
