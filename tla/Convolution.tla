------------------------------ MODULE Convolution ------------------------------
(***************************************************************************)
(* The program opencl1: main reads two square matrices, queues the kernel  *)
(* convolution over a grid rounded up to whole work-groups, waits for it   *)
(* and writes the result.  The work-items run in any order, one iteration  *)
(* of their loops at a time; NoRace is why an iteration, which reads and   *)
(* writes output, may be one step.                                         *)
(*                                                                         *)
(* A number is its place in the file, after the sizes.  What is            *)
(* accumulated in a cell is the sequence of its products: the order in     *)
(* which floats are added is part of the result.                           *)
(***************************************************************************)
EXTENDS Integers, Sequences, FiniteSets

CONSTANTS BLOCK_SIZE,
          Sizes,      \* bound: the sizes <<n, m>> of the matrices in the file
          MaxMissing, \* bound: how many numbers the file may be short of
          Unset       \* the value of a cell nothing was written to

ASSUME ConvolutionAssumption ==
    /\ BLOCK_SIZE \in Nat \ {0}
    /\ Sizes \subseteq Nat \X Nat
    /\ MaxMissing \in Nat
    /\ Unset \notin Seq(Nat \X Nat)

VARIABLES n, m,              \* the sizes of the matrix and of the window
          supplied,          \* how many numbers follow the sizes in the file
          host,              \* where main is
          input_a, input_b,  \* the device buffers
          output,
          pc, dy, dx,        \* of each work-item
          file               \* output.txt

device == <<input_a, input_b, output>>
items == <<pc, dy, dx>>
vars == <<n, m, supplied, host, device, items, file>>

(***************************************************************************)
(* The host.                                                               *)
(***************************************************************************)
Cells(k) == 0..(k * k - 1)

\* Mutant: whole work-groups only.
GridDown == (n \div BLOCK_SIZE) * BLOCK_SIZE

\* The size of the grid: n rounded up to whole work-groups.
n_up == IF n % BLOCK_SIZE = 0 THEN n ELSE (n \div BLOCK_SIZE + 1) * BLOCK_SIZE
Grid == (0..(n_up - 1)) \X (0..(n_up - 1))

\* input >> matrix_elem: past the end of the file the element stays 0.
Number(k) == IF k <= supplied THEN k ELSE 0

Init ==
    /\ \E s \in Sizes : n = s[1] /\ m = s[2]
    /\ \E k \in 0..MaxMissing : supplied = n * n + m * m - k
    /\ host = "create"
    /\ input_a = [i \in Cells(n) |-> Unset]
    /\ input_b = [i \in Cells(m) |-> Unset]
    /\ output = [i \in Cells(n) |-> Unset]
    /\ pc = [g \in Grid |-> "queued"]
    /\ dy = [g \in Grid |-> 0]
    /\ dx = [g \in Grid |-> 0]
    /\ file = <<>>

HostAt(l, next) == host = l /\ host' = next

\* A buffer of no bytes is an error.
CreateBuffers ==
    /\ HostAt("create", "write_a")
    /\ n > 0 /\ m > 0
    /\ UNCHANGED <<n, m, supplied, device, items, file>>

WriteA ==
    /\ HostAt("write_a", "write_b")
    /\ input_a' = [i \in Cells(n) |-> Number(i + 1)]
    /\ UNCHANGED <<n, m, supplied, input_b, output, items, file>>

WriteB ==
    /\ HostAt("write_b", "launch")
    /\ input_b' = [i \in Cells(m) |-> Number(n * n + i + 1)]
    /\ UNCHANGED <<n, m, supplied, input_a, output, items, file>>

Launch ==
    /\ HostAt("launch", "wait")
    /\ pc' = [g \in Grid |-> "begin"]
    /\ UNCHANGED <<n, m, supplied, device, dy, dx, file>>

Wait ==
    /\ HostAt("wait", "read")
    /\ \A g \in Grid : pc[g] = "returned"
    /\ UNCHANGED <<n, m, supplied, device, items, file>>

WriteFile ==
    /\ HostAt("read", "done")
    /\ file' = [i \in 0..(n - 1) |-> [j \in 0..(n - 1) |-> output[i * n + j]]]
    /\ UNCHANGED <<n, m, supplied, device, items>>

\* Any OpenCL call may throw a cl::Error; main catches it and returns -1.
Throw ==
    /\ host \notin {"done", "failed"}
    /\ host' = "failed"
    /\ UNCHANGED <<n, m, supplied, device, items, file>>

(***************************************************************************)
(* The kernel: work-item g = <<gid_y, gid_x>>.                             *)
(***************************************************************************)
half_m == m \div 2
Cell(g) == g[1] * n + g[2]

\* Mutant: rows only are checked.
OutsideRows(g) == g[1] >= n

Outside(g) == g[2] >= n \/ g[1] >= n

\* Mutant: the beginning of a row or a column is not checked.
InMatrixUpper(k) == k < n

InMatrix(k) == 0 <= k /\ k < n

Y(g) == g[1] + dy[g] - half_m
X(g) == g[2] + dx[g] - half_m
ItemAt(g, l) == host = "wait" /\ pc[g] = l

Enter(g) ==
    /\ ItemAt(g, "begin")
    /\ IF Outside(g)
       THEN pc' = [pc EXCEPT ![g] = "returned"] /\ UNCHANGED output
       ELSE /\ pc' = [pc EXCEPT ![g] = "loop"]
            /\ output' = [output EXCEPT ![Cell(g)] = <<>>]
    /\ UNCHANGED <<n, m, supplied, host, input_a, input_b, dy, dx, file>>

\* On to the next row of the window, or out of the loop.
NextRow(g) ==
    /\ dx' = [dx EXCEPT ![g] = 0]
    /\ IF dy[g] + 1 < m
       THEN dy' = [dy EXCEPT ![g] = @ + 1] /\ UNCHANGED pc
       ELSE pc' = [pc EXCEPT ![g] = "returned"] /\ UNCHANGED dy

NextCell(g) ==
    IF dx[g] + 1 < m
    THEN dx' = [dx EXCEPT ![g] = @ + 1] /\ UNCHANGED <<pc, dy>>
    ELSE NextRow(g)

SkipRow(g) ==
    /\ ItemAt(g, "loop") /\ ~InMatrix(Y(g))
    /\ NextRow(g)
    /\ UNCHANGED <<n, m, supplied, host, device, file>>

SkipCell(g) ==
    /\ ItemAt(g, "loop") /\ InMatrix(Y(g)) /\ ~InMatrix(X(g))
    /\ NextCell(g)
    /\ UNCHANGED <<n, m, supplied, host, device, file>>

Accumulates(g) == ItemAt(g, "loop") /\ InMatrix(Y(g)) /\ InMatrix(X(g))

Accumulate(g) ==
    /\ Accumulates(g)
    /\ output' = [output EXCEPT ![Cell(g)] =
                    Append(@, <<input_a[Y(g) * n + X(g)], input_b[dy[g] * m + dx[g]]>>)]
    /\ NextCell(g)
    /\ UNCHANGED <<n, m, supplied, host, input_a, input_b, file>>

WorkItem(g) == Enter(g) \/ SkipRow(g) \/ SkipCell(g) \/ Accumulate(g)

Next ==
    \/ CreateBuffers \/ WriteA \/ WriteB \/ Launch \/ Wait \/ WriteFile \/ Throw
    \/ \E g \in Grid : WorkItem(g)
    \/ host \in {"done", "failed"} /\ UNCHANGED vars

Spec == Init /\ [][Next]_vars

-----------------------------------------------------------------------------
(***************************************************************************)
(* Properties.                                                             *)
(***************************************************************************)
\* No work-item of the rounded grid, at no place of a window that hangs over
\* the edge of the matrix, reads or writes outside a buffer.
InBounds ==
    \A g \in Grid :
        /\ ItemAt(g, "loop") => Cell(g) \in DOMAIN output
        /\ Accumulates(g) =>
              /\ Y(g) * n + X(g) \in DOMAIN input_a
              /\ dy[g] * m + dx[g] \in DOMAIN input_b

\* Two work-items never work on the same cell of output: past the end of a
\* row of the matrix the next row begins, and the grid is wider than a row.
NoRace ==
    \A g, h \in Grid :
        ItemAt(g, "loop") /\ ItemAt(h, "loop") /\ g # h => Cell(g) # Cell(h)

\* Row by row.
Before(p, q) == p[1] < q[1] \/ (p[1] = q[1] /\ p[2] < q[2])

\* The elements that the window centred on <<i, j>> lies on.
Covered(i, j) ==
    {p \in (0..(n - 1)) \X (0..(n - 1)) :
        /\ p[1] - i + half_m \in 0..(m - 1)
        /\ p[2] - j + half_m \in 0..(m - 1)}

\* The element p times the number of the window that lies on it.
Product(i, j, p) ==
    <<Number(p[1] * n + p[2] + 1),
      Number(n * n + (p[1] - i + half_m) * m + (p[2] - j + half_m) + 1)>>

\* The place of p among the elements of a set.
Rank(p, set) == Cardinality({q \in set : Before(q, p)}) + 1

\* What main writes is the convolution, in the matrix's own order and whatever
\* the order the work-items ran in: each cell has the products of the window
\* with what it lies on, row by row and each once, missing numbers of the file
\* counting as 0.
ResultIsConvolution ==
    host = "done" =>
        \A i, j \in 0..(n - 1) :
            /\ file[i][j] # Unset
            /\ Len(file[i][j]) = Cardinality(Covered(i, j))
            /\ \A p \in Covered(i, j) :
                  file[i][j][Rank(p, Covered(i, j))] = Product(i, j, p)
===============================================================================
