------------------------------- MODULE BlockSums -------------------------------
(***************************************************************************)
(* One work-group of the OpenCL kernel block_sums (scan.cl), work-item by  *)
(* work-item: a prefix sum by an up-sweep and a down-sweep over an array   *)
(* in local memory, with a barrier after every level.  A statement reads   *)
(* its operands in one step and writes its result in a later one, and      *)
(* between two barriers the items run in any order.  A group shares        *)
(* nothing with another but the input, which no item writes.               *)
(***************************************************************************)
EXTENDS Integers

CONSTANTS BLOCK_SIZE, MaxLen, Input, Prefix, Unset   \* as in BlockScan

\* "2^x <= 256", which is also the size of the kernel's local array.
ASSUME SizeAssumption ==
    /\ BLOCK_SIZE \in {1, 2, 4, 8, 16, 32, 64, 128, 256}
    /\ MaxLen \in Nat \ {0}

ASSUME InputAssumption ==
    /\ Input \in [0..(MaxLen - 1) -> Int]
    /\ Prefix \in [0..MaxLen -> Int]
    /\ Prefix[0] = 0
    /\ \A k \in 0..(MaxLen - 1) : Prefix[k + 1] = Prefix[k] + Input[k]
    /\ Unset \notin Int

VARIABLES n, group,    \* the kernel's argument, and the group modelled
          output,      \* the buffer in global memory
          local_out,   \* the array in local memory
          pc,          \* where an item is
          d,           \* its variable d
          read         \* the operands it has read: own cell, left cell

vars == <<n, group, output, local_out, pc, d, read>>

size == BLOCK_SIZE
Items == 0..(size - 1)
gid(lid) == group * size + lid

Barriers == {"loaded", "added", "cleared", "swapped"}
Locations == Barriers \cup {"load", "up", "up_write", "clear", "down",
                            "down_write", "down_swap", "store", "end"}

Init ==
    /\ n \in 1..MaxLen
    /\ group \in 0..((n + size - 1) \div size - 1)
    /\ output = [g \in 0..(MaxLen - 1) |-> Unset]
    /\ local_out = [i \in Items |-> Unset]
    /\ pc = [i \in Items |-> "load"]
    /\ d = [i \in Items |-> 2]
    /\ read = [i \in Items |-> <<0, 0>>]

Goto(i, l) == pc' = [pc EXCEPT ![i] = l]
SetD(i, v) == d' = [d EXCEPT ![i] = v]
LocalWrite(i, v) == local_out' = [local_out EXCEPT ![i] = v]

\* Mutant: the items are counted from 0.
ActiveFromZero(i) == i % d[i] = 0

\* The items that work at a level, and the cell they work on with their own.
Active(i) == (i + 1) % d[i] = 0
Left(i) == i - d[i] \div 2

\* Mutant: items outside the input return at once.
LoadOrReturn(i) ==
    /\ pc[i] = "load"
    /\ IF gid(i) >= n THEN Goto(i, "end") /\ UNCHANGED local_out
       ELSE Goto(i, "loaded") /\ LocalWrite(i, Input[gid(i)])
    /\ UNCHANGED <<n, group, output, d, read>>

Load(i) ==
    /\ pc[i] = "load"
    /\ LocalWrite(i, IF gid(i) >= n THEN 0 ELSE Input[gid(i)])
    /\ Goto(i, "loaded")
    /\ UNCHANGED <<n, group, output, d, read>>

\* The head of the first loop and the operands of +=.
Up(i) ==
    /\ pc[i] = "up"
    /\ \/ /\ d[i] <= size /\ Active(i)
          /\ read' = [read EXCEPT ![i] = <<local_out[i], local_out[Left(i)]>>]
          /\ Goto(i, "up_write")
          /\ UNCHANGED d
       \/ /\ d[i] <= size /\ ~Active(i)
          /\ SetD(i, d[i] * 2) /\ Goto(i, "added")
          /\ UNCHANGED read
       \/ /\ d[i] > size
          /\ SetD(i, d[i] \div 2) /\ Goto(i, "clear")
          /\ UNCHANGED read
    /\ UNCHANGED <<n, group, output, local_out>>

\* Mutant: no barrier at the end of the first loop's body.
UpWriteNoBarrier(i) ==
    /\ pc[i] = "up_write"
    /\ LocalWrite(i, read[i][1] + read[i][2])
    /\ SetD(i, d[i] * 2) /\ Goto(i, "up")
    /\ UNCHANGED <<n, group, output, read>>

UpWrite(i) ==
    /\ pc[i] = "up_write"
    /\ LocalWrite(i, read[i][1] + read[i][2])
    /\ SetD(i, d[i] * 2) /\ Goto(i, "added")
    /\ UNCHANGED <<n, group, output, read>>

\* Mutant: the first cell is cleared.
ClearFirst(i) ==
    /\ pc[i] = "clear"
    /\ IF i = 0 THEN LocalWrite(i, 0) ELSE UNCHANGED local_out
    /\ Goto(i, "cleared")
    /\ UNCHANGED <<n, group, output, d, read>>

Clear(i) ==
    /\ pc[i] = "clear"
    /\ IF i = size - 1 THEN LocalWrite(i, 0) ELSE UNCHANGED local_out
    /\ Goto(i, "cleared")
    /\ UNCHANGED <<n, group, output, d, read>>

\* The head of the second loop, tmp, and the operands of +=.
Down(i) ==
    /\ pc[i] = "down"
    /\ \/ /\ d[i] > 1 /\ Active(i)
          /\ read' = [read EXCEPT ![i] = <<local_out[i], local_out[Left(i)]>>]
          /\ Goto(i, "down_write")
          /\ UNCHANGED d
       \/ /\ d[i] > 1 /\ ~Active(i)
          /\ SetD(i, d[i] \div 2) /\ Goto(i, "swapped")
          /\ UNCHANGED read
       \/ d[i] <= 1 /\ Goto(i, "store") /\ UNCHANGED <<d, read>>
    /\ UNCHANGED <<n, group, output, local_out>>

DownWrite(i) ==
    /\ pc[i] = "down_write"
    /\ LocalWrite(i, read[i][1] + read[i][2])
    /\ Goto(i, "down_swap")
    /\ UNCHANGED <<n, group, output, d, read>>

\* local_out[lid - (d >> 1)] = tmp
DownSwap(i) ==
    /\ pc[i] = "down_swap"
    /\ LocalWrite(Left(i), read[i][1])
    /\ SetD(i, d[i] \div 2) /\ Goto(i, "swapped")
    /\ UNCHANGED <<n, group, output, read>>

\* The scan is exclusive; the item's own input, or the next cell, makes it
\* inclusive.
Last(i) == gid(i) = n - 1 \/ i = size - 1

Store(i) ==
    /\ pc[i] = "store"
    /\ output' = IF gid(i) >= n THEN output
                 ELSE [output EXCEPT ![gid(i)] =
                         IF Last(i) THEN local_out[i] + Input[gid(i)]
                         ELSE local_out[i + 1]]
    /\ Goto(i, "end")
    /\ UNCHANGED <<n, group, local_out, d, read>>

\* barrier(CLK_LOCAL_MEM_FENCE): passed when every item of the group is at it.
After == [loaded |-> "up", added |-> "up", cleared |-> "down", swapped |-> "down"]
Barrier(b) ==
    /\ \A i \in Items : pc[i] = b
    /\ pc' = [i \in Items |-> After[b]]
    /\ UNCHANGED <<n, group, output, local_out, d, read>>

ItemStep(i) ==
    \/ Load(i) \/ Up(i) \/ UpWrite(i) \/ Clear(i)
    \/ Down(i) \/ DownWrite(i) \/ DownSwap(i) \/ Store(i)

Ended == \A i \in Items : pc[i] = "end"

Next ==
    \/ \E i \in Items : ItemStep(i)
    \/ \E b \in Barriers : Barrier(b)
    \/ Ended /\ UNCHANGED vars

Spec == Init /\ [][Next]_vars

FairSpec ==
    /\ Spec
    /\ \A i \in Items : WF_vars(ItemStep(i))
    /\ \A b \in Barriers : WF_vars(Barrier(b))

-----------------------------------------------------------------------------
(***************************************************************************)
(* Properties.                                                             *)
(***************************************************************************)
\* The cells of the local array that the next step of an item reads and writes.
NextReads(i) ==
    CASE pc[i] = "up" /\ d[i] <= size /\ Active(i) -> {i, Left(i)}
      [] pc[i] = "down" /\ d[i] > 1 /\ Active(i) -> {i, Left(i)}
      [] pc[i] = "store" /\ gid(i) < n -> IF Last(i) THEN {i} ELSE {i + 1}
      [] OTHER -> {}
NextWrites(i) ==
    CASE pc[i] \in {"load", "up_write", "down_write"} -> {i}
      [] pc[i] = "clear" /\ i = size - 1 -> {i}
      [] pc[i] = "down_swap" -> {Left(i)}
      [] OTHER -> {}

\* The values of the variables.  Every index into the local array is in range.
TypeOK ==
    /\ n \in 1..MaxLen /\ group \in 0..(MaxLen - 1)
    /\ output \in [0..(MaxLen - 1) -> Int \cup {Unset}]
    /\ local_out \in [Items -> Int \cup {Unset}]
    /\ pc \in [Items -> Locations]
    /\ d \in [Items -> 1..(2 * size)]
    /\ read \in [Items -> Int \X Int]
    /\ \A i \in Items : NextReads(i) \cup NextWrites(i) \subseteq Items

\* No two items are ever about to use the same cell, one of them to write it:
\* the barriers of scan.cl are enough.
NoRace ==
    \A i, j \in Items :
        i # j => NextWrites(i) \cap (NextReads(j) \cup NextWrites(j)) = {}

\* Every barrier is met by all items or none: they all get to the end.
GroupEnds == <>Ended

\* The group computes the prefix sums of its block.
Kernel == INSTANCE BlockScan WITH ended <- Ended
ImplementsKernel == Kernel!Spec
===============================================================================
