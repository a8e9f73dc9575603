------------------------------- MODULE BlockScan -------------------------------
(***************************************************************************)
(* What one work-group of the kernel block_sums promises: for each of its  *)
(* global ids that are below n, output is the sum of the inputs from the   *)
(* beginning of the group's block to that id, and no other cell changes.   *)
(* Floats are integers here: their sums are exact.                         *)
(***************************************************************************)
EXTENDS Integers

CONSTANTS BLOCK_SIZE,   \* work-items of a group
          MaxLen,       \* bound: length of the input
          Input,        \* the input
          Prefix,       \* its prefix sums, Prefix[k] that of the first k
          Unset         \* a cell that nothing has been written to

VARIABLES n,       \* length of the input, an argument of the kernel
          group,   \* get_group_id(0)
          output,
          ended    \* whether all work-items have ended

vars == <<n, group, output, ended>>

Base == group * BLOCK_SIZE
Cells == {g \in Base..(Base + BLOCK_SIZE - 1) : g < n}

\* The groups of an NDRange of n rounded up to a multiple of BLOCK_SIZE.
Groups(len) == 0..((len + BLOCK_SIZE - 1) \div BLOCK_SIZE - 1)

\* The inputs from lo to hi, inclusive.
Sum(lo, hi) == Prefix[hi + 1] - Prefix[lo]

Init ==
    /\ n \in 1..MaxLen
    /\ group \in Groups(n)
    /\ output = [g \in 0..(MaxLen - 1) |-> Unset]
    /\ ended = FALSE

Store(g) ==
    /\ ~ended
    /\ output[g] = Unset
    /\ output' = [output EXCEPT ![g] = Sum(Base, g)]
    /\ UNCHANGED <<n, group>>

\* The group ends with or after its last store.
End ==
    /\ \A g \in Cells : output'[g] # Unset
    /\ ended' = TRUE

Next ==
    \/ \E g \in Cells : Store(g) /\ (UNCHANGED ended \/ End)
    \/ ~ended /\ End /\ UNCHANGED <<n, group, output>>

Spec == Init /\ [][Next]_vars
===============================================================================
