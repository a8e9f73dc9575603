------------------------------- MODULE PidsFile -------------------------------
(***************************************************************************)
(* The file "pids_storage" and the std::fstream through which a process    *)
(* uses it.  The file is the sequence of the pids written to it: every     *)
(* seek, read, write and truncate of the class moves by whole ints, so     *)
(* positions count ints.  A stream keeps the one position that the get and *)
(* the put area of a filebuf share, and failbit, which turns every later   *)
(* seek, read and write into a no-op until clear() is called.              *)
(***************************************************************************)
EXTENDS Integers, Sequences

CONSTANTS Pids,   \* the pids a container can have
          NoPid   \* an int that is not a pid: unassigned, or a hole in the file

ASSUME NoPidAssumption == NoPid \notin Pids

Streams == [pos : Nat, fail : BOOLEAN]

\* file.open succeeded: at the beginning, no error.
Opened == [pos |-> 0, fail |-> FALSE]

\* seekg(to, beg) and seekp(to, beg)
SeekTo(s, to) == IF s.fail THEN s ELSE [pos |-> to, fail |-> FALSE]

\* read(&x, sizeof(int)): at or past the end it sets failbit and x keeps
\* whatever it held.
ReadInt(s, f) ==
    IF s.fail \/ s.pos >= Len(f)
    THEN [stream |-> [pos |-> s.pos, fail |-> TRUE], val |-> NoPid]
    ELSE [stream |-> [pos |-> s.pos + 1, fail |-> FALSE], val |-> f[s.pos + 1]]

\* write(&v, sizeof(int)).flush()
WriteInt(s, f, v) ==
    IF s.fail
    THEN [stream |-> s, file |-> f]
    ELSE [stream |-> [pos |-> s.pos + 1, fail |-> FALSE],
          file   |-> [i \in 1..(IF s.pos < Len(f) THEN Len(f) ELSE s.pos + 1) |->
                        IF i = s.pos + 1 THEN v
                        ELSE IF i <= Len(f) THEN f[i] ELSE NoPid]]

\* truncate(PIDS_FILE_NAME, n * sizeof(int)): cuts, or extends with zeros.
TruncateTo(f, n) == [i \in 1..n |-> IF i <= Len(f) THEN f[i] ELSE NoPid]

\* The stream after clear() and seekg(0, end), which is how pids_count
\* measures the file.
AtEnd(f) == [pos |-> Len(f), fail |-> FALSE]

\* Mutant: the read is at end - 1, so the last entry takes the free place.
OverwriteWithLast(s, f, idx) ==
    LET last == ReadInt(SeekTo(s, Len(f) - 1), f)
    IN  WriteInt(SeekTo(last.stream, idx), f, last.val)

\* Mutant: the error of the read is cleared before the write.
OverwriteCleared(s, f, idx) ==
    LET last == ReadInt(SeekTo(s, Len(f) + 1), f)
    IN  WriteInt([pos |-> idx, fail |-> FALSE], f, last.val)

\* remove_by_idx_unsafe up to the truncate: read the int at end + 1, then
\* write it over entry idx.
OverwriteEntry(s, f, idx) ==
    LET last == ReadInt(SeekTo(s, Len(f) + 1), f)
    IN  WriteInt(SeekTo(last.stream, idx), f, last.val)

===============================================================================
