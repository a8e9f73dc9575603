-------------------------------- MODULE ScanHost --------------------------------
(***************************************************************************)
(* The recursive host function scan of opencl2: it sums within blocks on   *)
(* the device, scans the sums of the full blocks by calling itself, and    *)
(* adds the results to the blocks.  The recursion has no buffers of its    *)
(* own: its output goes to the caller's input buffer, and the caller's     *)
(* result too.  Every queued operation is waited for, so the kernels are   *)
(* single steps; BlockSums shows how one of them comes about.  Floats are  *)
(* integers here: their sums are exact.  Cell i is the one of global id    *)
(* i - 1.                                                                  *)
(***************************************************************************)
EXTENDS Integers, Sequences, FiniteSets

CONSTANTS BLOCK_SIZE,
          MaxLen,     \* bound: length of the input
          Input,      \* the input is the beginning of this sequence
          Unset       \* a cell, a vector or a result without a value

ASSUME ScanAssumption ==
    /\ BLOCK_SIZE \in Nat \ {0, 1}
    /\ MaxLen \in Nat \ {0}
    /\ Input \in Seq(Int) /\ Len(Input) = MaxLen

VARIABLES n,         \* length of the input
          buffers,   \* device memory: the buffers that exist
          stack,     \* the calls of scan under way, the innermost last
          result     \* what the outermost call has returned

vars == <<n, buffers, stack, result>>

SumOf(f, lo, hi) ==
    LET sum[i \in Nat] == IF i < lo THEN 0 ELSE sum[i - 1] + f[i]
    IN  sum[hi]

(***************************************************************************)
(* The kernels, for all work-items with a global id below len.             *)
(***************************************************************************)
BlockId(i) == (i - 1) \div BLOCK_SIZE

\* The kernel block_sums (as BlockScan states it).
BlockSumsKernel(input, output, len) ==
    [i \in 1..Len(output) |->
        IF i <= len THEN SumOf(input, BlockId(i) * BLOCK_SIZE + 1, i) ELSE output[i]]

\* Mutant: the second block is left as it is.
BlockAddLate(input, additions, output, len) ==
    [i \in 1..Len(output) |->
        CASE i > len -> output[i]
          [] i <= len /\ BlockId(i) <= 1 -> input[i]
          [] OTHER -> input[i] + additions[BlockId(i)]]

\* The kernel block_add: additions[block_id - 1] is cell block_id.
BlockAddKernel(input, additions, output, len) ==
    [i \in 1..Len(output) |->
        CASE i > len -> output[i]
          [] i <= len /\ BlockId(i) = 0 -> input[i]
          [] OTHER -> input[i] + additions[BlockId(i)]]

(***************************************************************************)
(* A call of scan: its arguments (n and two buffers), its place, and its   *)
(* local variables.                                                        *)
(***************************************************************************)
Call(len, in, out) ==
    [n |-> len, in |-> in, out |-> out, pc |-> "sums",
     output |-> Unset, sub |-> 0, additions |-> Unset]

Depth == Len(stack)
Top == stack[Depth]
At(l) == stack # <<>> /\ Top.pc = l
Update(f) == stack' = [stack EXCEPT ![Depth] = f]

ReadBuffer(b, len) == SubSeq(buffers[b], 1, len)
WriteBuffer(b, v) ==
    [buffers EXCEPT ![b] = [i \in 1..Len(@) |-> IF i <= Len(v) THEN v[i] ELSE @[i]]]

Init ==
    /\ n \in 1..MaxLen
    /\ buffers = <<SubSeq(Input, 1, n), [i \in 1..n |-> Unset]>>
    /\ stack = <<Call(n, 1, 2)>>
    /\ result = Unset

\* The call returns v to its caller, or to main.
Return(v) ==
    IF Depth = 1
    THEN stack' = <<>> /\ result' = v
    ELSE /\ stack' = [SubSeq(stack, 1, Depth - 1) EXCEPT
                        ![Depth - 1] = [@ EXCEPT !.additions = v, !.pc = "write"]]
         /\ UNCHANGED result

RunBlockSums ==
    /\ At("sums")
    /\ buffers' = [buffers EXCEPT ![Top.out] =
                     BlockSumsKernel(buffers[Top.in], @, Top.n)]
    /\ Update([Top EXCEPT !.pc = "read"])
    /\ UNCHANGED <<n, result>>

ReadOutput ==
    LET output == ReadBuffer(Top.out, Top.n)
    IN  /\ At("read")
        /\ IF Top.n <= BLOCK_SIZE THEN Return(output)
           ELSE /\ Update([Top EXCEPT !.pc = "call", !.output = output])
                /\ UNCHANGED result
        /\ UNCHANGED <<n, buffers>>

\* Mutant: the sum of a block is taken one cell late.
LateBlockEnd(k) == k * BLOCK_SIZE + 1

\* The cells that the loop takes the sums of the full blocks from: add_idx is
\* k * BLOCK_SIZE - 1 in its k-th turn, as long as it is less than n.
BlockEnd(k) == k * BLOCK_SIZE
BlockTotals ==
    LET turns == {k \in 1..Top.n : BlockEnd(k) <= Top.n}
    IN  [k \in 1..Cardinality(turns) |-> Top.output[BlockEnd(k)]]

\* Mutant: the recursion gets the caller's output buffer to work in.
SubtaskInOutput(sub) == Call(Len(BlockTotals), sub, Top.out)

\* The recursive call over the totals, given its input buffer.
Subtask(sub) == Call(Len(BlockTotals), sub, Top.in)

Descend ==
    LET sub == Len(buffers) + 1
    IN  /\ At("call")
        /\ buffers' = Append(buffers, BlockTotals)
        /\ stack' = Append([stack EXCEPT ![Depth] =
                              [@ EXCEPT !.pc = "called", !.sub = sub]],
                           Subtask(sub))
        /\ UNCHANGED <<n, result>>

WriteAdditions ==
    /\ At("write")
    /\ buffers' = WriteBuffer(Top.sub, Top.additions)
    /\ Update([Top EXCEPT !.pc = "add"])
    /\ UNCHANGED <<n, result>>

RunBlockAdd ==
    /\ At("add")
    /\ buffers' = [buffers EXCEPT ![Top.in] =
                     BlockAddKernel(buffers[Top.out], buffers[Top.sub], @, Top.n)]
    /\ Update([Top EXCEPT !.pc = "read_back"])
    /\ UNCHANGED <<n, result>>

\* The result is read, and subtask_input destroyed.
ReadBack ==
    /\ At("read_back")
    /\ Return(ReadBuffer(Top.in, Top.n))
    /\ buffers' = SubSeq(buffers, 1, Top.sub - 1)
    /\ UNCHANGED n

\* Any OpenCL call may throw a cl::Error, which only main catches: outside
\* the block that the buffers and the result live in.
Throw ==
    /\ stack # <<>>
    /\ stack' = <<>>
    /\ buffers' = <<>>
    /\ UNCHANGED <<n, result>>

Next ==
    \/ RunBlockSums \/ ReadOutput \/ Descend
    \/ WriteAdditions \/ RunBlockAdd \/ ReadBack \/ Throw
    \/ stack = <<>> /\ UNCHANGED vars

Spec == Init /\ [][Next]_vars

-----------------------------------------------------------------------------
(***************************************************************************)
(* Properties.                                                             *)
(***************************************************************************)
\* Every buffer that a call, or a call waiting for one, still works with
\* exists and is long enough for what it reads and writes there, and
\* output.size(), block_sums.size() and the buffers agree (the assert of
\* Source.cpp:37).
InBounds ==
    \A k \in 1..Depth :
        LET c == stack[k]
            groups == (c.n + BLOCK_SIZE - 1) \div BLOCK_SIZE
        IN  /\ c.n > 0
            /\ c.n <= Len(buffers[c.in]) /\ c.n <= Len(buffers[c.out])
            /\ c.in # c.out
            /\ c.pc = "call" => Len(BlockTotals) = c.n \div BLOCK_SIZE
            /\ c.pc \in {"called", "write", "add"} =>
                  groups - 1 <= Len(buffers[c.sub])
            /\ c.pc = "write" => Len(c.additions) = Len(buffers[c.sub])

\* While a call waits for its recursion, and until it has used it, its output
\* buffer keeps the sums within blocks, though the recursion overwrites the
\* buffers of its callers.
CallerKeepsSums ==
    \A k \in 1..Depth :
        stack[k].pc \in {"called", "write", "add"} =>
            ReadBuffer(stack[k].out, stack[k].n) = stack[k].output

\* What scan returns are the prefix sums of the input.
ResultIsScan ==
    result # Unset =>
        /\ Len(result) = n
        /\ \A i \in 1..n : result[i] = SumOf(Input, 1, i)
===============================================================================
