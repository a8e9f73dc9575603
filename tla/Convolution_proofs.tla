-------------------------- MODULE Convolution_proofs ---------------------------
(***************************************************************************)
(* Proofs about Convolution, for every size of the matrices and of the     *)
(* work-group: the guards of the kernel suffice, and what main writes is   *)
(* the convolution.                                                        *)
(***************************************************************************)
EXTENDS Convolution, SequenceTheorems, FiniteSetTheorems, TLAPS

-----------------------------------------------------------------------------
(***************************************************************************)
(* The inductive invariant.  What an item in its loops works with is known *)
(* from the guard it passed on entering, and from the bounds of its loops, *)
(* which the first iteration meets because no window is empty.             *)
(***************************************************************************)
Places == {"queued", "begin", "loop", "returned"}

Sized ==
    /\ n \in Nat /\ m \in Nat
    /\ host \in {"write_a", "write_b", "launch", "wait"} => m > 0

Buffers ==
    /\ DOMAIN input_a = Cells(n)
    /\ DOMAIN input_b = Cells(m)
    /\ DOMAIN output = Cells(n)

Placed ==
    /\ pc \in [Grid -> Places]
    /\ dy \in [Grid -> Nat]
    /\ dx \in [Grid -> Nat]

Entered ==
    \A g \in Grid :
        /\ pc[g] \in {"queued", "begin"} => dy[g] = 0 /\ dx[g] = 0
        /\ pc[g] = "loop" => ~Outside(g) /\ dy[g] < m /\ dx[g] < m

\* No item runs before the kernel is queued.
Queued == host \in {"create", "write_a", "write_b", "launch"} =>
              \A g \in Grid : pc[g] = "queued"

IInv == Sized /\ Buffers /\ Placed /\ Entered /\ Queued

-----------------------------------------------------------------------------
(***************************************************************************)
(* Arithmetic.                                                             *)
(***************************************************************************)
\* An element of a square matrix has a place in its buffer.
LEMMA RowMajor ==
    ASSUME NEW k \in Nat, NEW r \in 0..(k - 1), NEW c \in 0..(k - 1)
    PROVE  r * k + c \in Cells(k)
<1>1. r * k <= (k - 1) * k
  OBVIOUS
<1>2. (k - 1) * k = k * k - k
  OBVIOUS
<1>3. r * k \in Nat
  OBVIOUS
<1> QED
  BY <1>1, <1>2, <1>3 DEF Cells

\* Of two elements of different rows, the one of the later row comes later.
LEMMA LaterRow ==
    ASSUME NEW k \in Nat, NEW r \in Nat, NEW s \in Nat, r < s,
           NEW c \in 0..(k - 1), NEW d \in 0..(k - 1)
    PROVE  r * k + c < s * k + d
<1>1. (r + 1) * k <= s * k
  OBVIOUS
<1>2. (r + 1) * k = r * k + k
  OBVIOUS
<1>3. r * k \in Nat /\ s * k \in Nat
  OBVIOUS
<1> QED
  BY <1>1, <1>2, <1>3

\* Ids are natural numbers.
LEMMA GridIds ==
    ASSUME n \in Nat, NEW g \in Grid
    PROVE  g[1] \in Nat /\ g[2] \in Nat /\ g = <<g[1], g[2]>>
<1>1. n_up \in Int
  BY ConvolutionAssumption DEF n_up
<1> QED
  BY <1>1 DEF Grid

-----------------------------------------------------------------------------
LEMMA InitInv == Init => IInv
<1> SUFFICES ASSUME Init PROVE IInv
  OBVIOUS
<1>1. PICK s \in Sizes : n = s[1] /\ m = s[2]
  BY DEF Init
<1>2. n \in Nat /\ m \in Nat
  BY <1>1, ConvolutionAssumption
<1> QED
  BY <1>2 DEF Init, IInv, Sized, Buffers, Placed, Entered, Queued, Places

\* The host moves on and leaves the items alone.
LEMMA HostStep ==
    ASSUME IInv, UNCHANGED <<n, m, items>>,
           Sized', Buffers', host' \in {"create", "write_a", "write_b", "launch"} =>
                                host \in {"create", "write_a", "write_b", "launch"}
    PROVE  IInv'
<1>1. n_up' = n_up /\ Grid' = Grid
  BY DEF n_up, Grid
<1> QED
  BY <1>1 DEF IInv, Placed, Entered, Queued, items, Outside

\* On to the next cell or row: the loops keep their bounds.
LEMMA LoopStep ==
    ASSUME IInv, NEW g \in Grid, ItemAt(g, "loop"), NextRow(g) \/ NextCell(g),
           UNCHANGED <<n, m, host>>, Buffers'
    PROVE  IInv'
<1>0. n_up' = n_up /\ Grid' = Grid
  BY DEF n_up, Grid
<1>1. /\ n \in Nat /\ m \in Nat /\ host = "wait" /\ m > 0
      /\ dy[g] \in Nat /\ dx[g] \in Nat /\ dy[g] < m /\ dx[g] < m
      /\ pc[g] = "loop" /\ ~Outside(g)
      /\ dy \in [Grid -> Nat] /\ dx \in [Grid -> Nat] /\ pc \in [Grid -> Places]
  BY DEF IInv, Sized, Placed, Entered, ItemAt
<1>2. Sized' /\ Queued'
  BY <1>1 DEF IInv, Sized, Queued
<1>3. \E p \in {"loop", "returned"}, y, x \in 0..(m - 1) :
         /\ pc' = [pc EXCEPT ![g] = p]
         /\ dy' = [dy EXCEPT ![g] = y]
         /\ dx' = [dx EXCEPT ![g] = x]
  <2>0. /\ pc = [pc EXCEPT ![g] = "loop"]
        /\ dy = [dy EXCEPT ![g] = dy[g]] /\ dx = [dx EXCEPT ![g] = dx[g]]
        /\ dy[g] \in 0..(m - 1) /\ dx[g] \in 0..(m - 1) /\ 0 \in 0..(m - 1)
    BY <1>1
  <2>1. CASE NextRow(g) /\ dy[g] + 1 < m
    <3>1. dy[g] + 1 \in 0..(m - 1)
      BY <1>1, <2>1
    <3>2. dx' = [dx EXCEPT ![g] = 0] /\ dy' = [dy EXCEPT ![g] = dy[g] + 1] /\ pc' = pc
      BY <2>1 DEF NextRow
    <3> QED
      BY <2>0, <3>1, <3>2
  <2>2. CASE NextRow(g) /\ ~(dy[g] + 1 < m)
    <3>1. dx' = [dx EXCEPT ![g] = 0] /\ dy' = dy /\ pc' = [pc EXCEPT ![g] = "returned"]
      BY <2>2 DEF NextRow
    <3> QED
      BY <2>0, <3>1
  <2>3. CASE NextCell(g) /\ dx[g] + 1 < m
    BY <1>1, <2>3 DEF NextCell
  <2>4. CASE NextCell(g) /\ ~(dx[g] + 1 < m)
    BY <1>1, <2>1, <2>2, <2>4 DEF NextCell
  <2> QED
    BY <2>1, <2>2, <2>3, <2>4
<1>4. PICK p \in {"loop", "returned"}, y \in 0..(m - 1), x \in 0..(m - 1) :
         /\ pc' = [pc EXCEPT ![g] = p]
         /\ dy' = [dy EXCEPT ![g] = y]
         /\ dx' = [dx EXCEPT ![g] = x]
  BY <1>3
<1>5. Placed'
  BY <1>0, <1>1, <1>4 DEF Placed, Places
<1>6. Entered'
  <2> SUFFICES ASSUME NEW h \in Grid
               PROVE  (/\ pc[h] \in {"queued", "begin"} => dy[h] = 0 /\ dx[h] = 0
                       /\ pc[h] = "loop" => ~Outside(h) /\ dy[h] < m /\ dx[h] < m)'
    BY <1>0 DEF Entered
  <2>1. CASE h = g
    BY <1>1, <1>4, <2>1 DEF Outside
  <2>2. CASE h # g
    BY <1>1, <1>4, <2>2 DEF IInv, Entered, Outside
  <2> QED
    BY <2>1, <2>2
<1> QED
  BY <1>2, <1>5, <1>6 DEF IInv

LEMMA StepInv == IInv /\ [Next]_vars => IInv'
<1> SUFFICES ASSUME IInv, [Next]_vars PROVE IInv'
  OBVIOUS
<1> USE DEF IInv
<1>1. CASE CreateBuffers
  BY <1>1, HostStep DEF CreateBuffers, HostAt, device, Sized, Buffers, items
<1>2. CASE WriteA
  BY <1>2, HostStep DEF WriteA, HostAt, Sized, Buffers, items
<1>3. CASE WriteB
  BY <1>3, HostStep DEF WriteB, HostAt, Sized, Buffers, items
<1>4. CASE Launch
  <2>1. n_up' = n_up /\ Grid' = Grid
    BY <1>4 DEF Launch, n_up, Grid
  <2>2. Sized' /\ Buffers' /\ Queued'
    BY <1>4 DEF Launch, HostAt, device, Sized, Buffers, Queued
  <2>3. pc' = [g \in Grid |-> "begin"] /\ dy' = dy /\ dx' = dx
    BY <1>4 DEF Launch
  <2>4. \A g \in Grid : dy[g] = 0 /\ dx[g] = 0
    BY <1>4 DEF Launch, HostAt, Queued, Entered
  <2>5. Placed' /\ Entered'
    BY <2>1, <2>3, <2>4 DEF Placed, Entered, Places
  <2> QED
    BY <2>2, <2>5
<1>5. CASE Wait
  BY <1>5, HostStep DEF Wait, HostAt, device, Sized, Buffers
<1>6. CASE WriteFile
  BY <1>6, HostStep DEF WriteFile, HostAt, device, Sized, Buffers
<1>7. CASE Throw
  BY <1>7, HostStep DEF Throw, device, Sized, Buffers
<1>8. ASSUME NEW g \in Grid, Enter(g) PROVE IInv'
  <2>0. n_up' = n_up /\ Grid' = Grid
    BY <1>8 DEF Enter, n_up, Grid
  <2>1. host = "wait" /\ pc[g] = "begin" /\ m > 0
    BY <1>8 DEF Enter, ItemAt, Sized
  <2>2. dy[g] = 0 /\ dx[g] = 0
    BY <2>1 DEF Entered
  <2>3. Sized' /\ Queued'
    BY <1>8, <2>1 DEF Enter, Sized, Queued
  <2>4. Buffers'
    BY <1>8 DEF Enter, Buffers
  <2>5. PICK p \in {"loop", "returned"} :
           pc' = [pc EXCEPT ![g] = p] /\ (p = "loop" => ~Outside(g))
    BY <1>8 DEF Enter
  <2>6. Placed'
    BY <1>8, <2>0, <2>5 DEF Enter, Placed, Places
  <2>7. dy' = dy /\ dx' = dx /\ n' = n /\ m' = m
    BY <1>8 DEF Enter
  <2>8. Entered'
    <3> SUFFICES ASSUME NEW h \in Grid
                 PROVE  (/\ pc[h] \in {"queued", "begin"} => dy[h] = 0 /\ dx[h] = 0
                         /\ pc[h] = "loop" => ~Outside(h) /\ dy[h] < m /\ dx[h] < m)'
      BY <2>0 DEF Entered
    <3>1. CASE h = g
      BY <2>1, <2>2, <2>5, <2>7, <3>1 DEF Outside, Placed
    <3>2. CASE h # g
      BY <2>5, <2>7, <3>2 DEF Entered, Outside, Placed
    <3> QED
      BY <3>1, <3>2
  <2> QED
    BY <2>3, <2>4, <2>6, <2>8
<1>9. ASSUME NEW g \in Grid, SkipRow(g) PROVE IInv'
  BY <1>9, LoopStep DEF SkipRow, device, Buffers
<1>10. ASSUME NEW g \in Grid, SkipCell(g) PROVE IInv'
  BY <1>10, LoopStep DEF SkipCell, device, Buffers
<1>11. ASSUME NEW g \in Grid, Accumulate(g) PROVE IInv'
  <2>1. Buffers' /\ ItemAt(g, "loop") /\ NextCell(g) /\ UNCHANGED <<n, m, host>>
    BY <1>11 DEF Accumulate, Accumulates, Buffers
  <2> QED
    BY <2>1, LoopStep
<1>12. CASE UNCHANGED vars
  BY <1>12, HostStep DEF vars, device, Sized, Buffers
<1> QED
  BY <1>1, <1>2, <1>3, <1>4, <1>5, <1>6, <1>7, <1>8, <1>9, <1>10, <1>11, <1>12
  DEF Next, WorkItem

LEMMA Invariance == Spec => []IInv
  BY InitInv, StepInv, PTL DEF Spec

-----------------------------------------------------------------------------
(***************************************************************************)
(* The theorems.                                                           *)
(***************************************************************************)
LEMMA InvInBounds == IInv => InBounds
<1> SUFFICES ASSUME IInv, NEW g \in Grid, ItemAt(g, "loop")
             PROVE  /\ Cell(g) \in DOMAIN output
                    /\ InMatrix(Y(g)) /\ InMatrix(X(g)) =>
                         /\ Y(g) * n + X(g) \in DOMAIN input_a
                         /\ dy[g] * m + dx[g] \in DOMAIN input_b
  BY DEF InBounds, Accumulates
<1>1. n \in Nat /\ m \in Nat
  BY DEF IInv, Sized
<1>2. g[1] \in 0..(n - 1) /\ g[2] \in 0..(n - 1)
  BY <1>1, GridIds DEF IInv, Entered, ItemAt, Outside
<1>3. dy[g] \in 0..(m - 1) /\ dx[g] \in 0..(m - 1)
  BY <1>1 DEF IInv, Entered, ItemAt, Placed
<1>4. Cell(g) \in DOMAIN output
  BY <1>1, <1>2, RowMajor DEF Cell, IInv, Buffers
<1>5. half_m \in Int
  BY <1>1 DEF half_m
<1>6. ASSUME InMatrix(Y(g)), InMatrix(X(g))
      PROVE  Y(g) * n + X(g) \in DOMAIN input_a
  <2>1. Y(g) \in 0..(n - 1) /\ X(g) \in 0..(n - 1)
    BY <1>1, <1>2, <1>3, <1>5, <1>6 DEF InMatrix, Y, X
  <2> QED
    BY <1>1, <2>1, RowMajor DEF IInv, Buffers
<1>7. dy[g] * m + dx[g] \in DOMAIN input_b
  BY <1>1, <1>3, RowMajor DEF IInv, Buffers
<1> QED
  BY <1>4, <1>6, <1>7

\* Whatever the sizes and the rounding of the grid, no work-item leaves the
\* buffers.
THEOREM InsideBuffers == Spec => []InBounds
  BY Invariance, InvInBounds, PTL

LEMMA InvNoRace == IInv => NoRace
<1> SUFFICES ASSUME IInv, NEW g \in Grid, NEW h \in Grid,
                    ItemAt(g, "loop"), ItemAt(h, "loop"), Cell(g) = Cell(h)
             PROVE  g = h
  BY DEF NoRace
<1>1. n \in Nat
  BY DEF IInv, Sized
<1>2. /\ g[1] \in Nat /\ g[2] \in 0..(n - 1) /\ g = <<g[1], g[2]>>
      /\ h[1] \in Nat /\ h[2] \in 0..(n - 1) /\ h = <<h[1], h[2]>>
  BY <1>1, GridIds DEF IInv, Entered, ItemAt, Outside
<1>3. ~(g[1] < h[1]) /\ ~(h[1] < g[1])
  <2>1. g[1] * n + g[2] = h[1] * n + h[2]
    BY DEF Cell
  <2>2. g[1] * n \in Int /\ h[1] * n \in Int
    BY <1>1, <1>2
  <2>3. ASSUME g[1] < h[1] PROVE FALSE
    BY <1>1, <1>2, <2>1, <2>2, <2>3, LaterRow
  <2>4. ASSUME h[1] < g[1] PROVE FALSE
    BY <1>1, <1>2, <2>1, <2>2, <2>4, LaterRow
  <2> QED
    BY <2>3, <2>4
<1>4. g[1] = h[1]
  BY <1>2, <1>3
<1>5. g[1] * n \in Int /\ g[1] * n = h[1] * n
  BY <1>1, <1>2, <1>4
<1>6. g[2] = h[2]
  <2>1. g[1] * n + g[2] = h[1] * n + h[2]
    BY DEF Cell
  <2>2. \A k, a, b \in Int : k + a = k + b => a = b
    OBVIOUS
  <2>3. g[2] \in Int /\ h[2] \in Int
    BY <1>1, <1>2
  <2> QED
    BY <1>5, <2>1, <2>2, <2>3
<1> QED
  BY <1>2, <1>4, <1>6

\* Whatever the sizes and the rounding of the grid, no two work-items share a
\* cell: output needs no synchronisation.
THEOREM RaceFree == Spec => []NoRace
  BY Invariance, InvNoRace, PTL

-----------------------------------------------------------------------------
(***************************************************************************)
(* The result.  An item has accumulated the products of what its window    *)
(* lies on up to where its loops are, in their order.                      *)
(***************************************************************************)
Loaded ==
    /\ host \in {"write_b", "launch", "wait", "read", "done"} =>
          \A k \in Cells(n) : input_a[k] = Number(k + 1)
    /\ host \in {"launch", "wait", "read", "done"} =>
          \A k \in Cells(m) : input_b[k] = Number(n * n + k + 1)

Finished == host \in {"read", "done"} => \A g \in Grid : pc[g] = "returned"

\* Of what the window of an item lies on, what comes before a place.
Seen(g, c) == {p \in Covered(g[1], g[2]) : Before(p, c)}
Done(g) == IF pc[g] = "loop" THEN Seen(g, <<Y(g), X(g)>>) ELSE Covered(g[1], g[2])

Filled(v, g, set) ==
    /\ v \in Seq(Nat \X Nat) /\ Len(v) = Cardinality(set)
    /\ \A p \in set : v[Rank(p, set)] = Product(g[1], g[2], p)

Filling ==
    \A g \in Grid : pc[g] \in {"loop", "returned"} /\ ~Outside(g) =>
                       Filled(output[Cell(g)], g, Done(g))

CInv == Loaded /\ Finished /\ Filling /\ ResultIsConvolution

-----------------------------------------------------------------------------
LEMMA CoveredPlaces ==
    ASSUME n \in Nat, NEW i, NEW j
    PROVE  /\ IsFiniteSet(Covered(i, j)) /\ Covered(i, j) \subseteq Int \X Int
           /\ \A p \in Covered(i, j) :
                 /\ p[1] \in 0..(n - 1) /\ p[2] \in 0..(n - 1) /\ p = <<p[1], p[2]>>
                 /\ p[1] - i + half_m \in 0..(m - 1) /\ p[2] - j + half_m \in 0..(m - 1)
<1>1. IsFiniteSet((0..(n - 1)) \X (0..(n - 1)))
  <2>1. 0 \in Int /\ n - 1 \in Int
    OBVIOUS
  <2>2. IsFiniteSet(0..(n - 1))
    BY <2>1, FS_Interval
  <2> QED
    BY <2>2, FS_Product
<1>2. Covered(i, j) \subseteq (0..(n - 1)) \X (0..(n - 1))
  BY DEF Covered
<1>3. IsFiniteSet(Covered(i, j))
  BY <1>1, <1>2, FS_Subset
<1>4. \A p \in Covered(i, j) :
         /\ p[1] \in 0..(n - 1) /\ p[2] \in 0..(n - 1) /\ p = <<p[1], p[2]>>
         /\ p[1] - i + half_m \in 0..(m - 1) /\ p[2] - j + half_m \in 0..(m - 1)
  BY DEF Covered
<1>5. Covered(i, j) \subseteq Int \X Int
  BY <1>4
<1> QED
  BY <1>3, <1>4, <1>5

\* One more element, after all the others, is appended.
LEMMA OneMore ==
    ASSUME NEW g, NEW S, IsFiniteSet(S), S \subseteq Int \X Int, NEW c \in Int \X Int,
           \A p \in S : Before(p, c), NEW v, Filled(v, g, S),
           NEW e \in Nat \X Nat, e = Product(g[1], g[2], c)
    PROVE  Filled(Append(v, e), g, S \cup {c})
<1>1. \A p \in Int \X Int : ~Before(p, p)
  BY DEF Before
<1>2. \A p, q \in Int \X Int : Before(p, q) => ~Before(q, p)
  BY DEF Before
<1>3. c \notin S
  BY <1>1
<1>4. Cardinality(S \cup {c}) = Cardinality(S) + 1 /\ Cardinality(S) \in Nat
  BY <1>3, FS_AddElement, FS_CardinalityType
<1>5. v \in Seq(Nat \X Nat) /\ Len(v) = Cardinality(S)
  BY DEF Filled
<1>6. /\ Append(v, e) \in Seq(Nat \X Nat) /\ Len(Append(v, e)) = Cardinality(S) + 1
      /\ \A k \in 1..Len(v) : Append(v, e)[k] = v[k]
      /\ Append(v, e)[Cardinality(S) + 1] = e
  BY <1>5, AppendProperties
<1>7. ASSUME NEW p \in S
      PROVE  Append(v, e)[Rank(p, S \cup {c})] = Product(g[1], g[2], p)
  <2>1. {q \in S \cup {c} : Before(q, p)} = {q \in S : Before(q, p)}
    BY <1>2
  <2>2. Rank(p, S \cup {c}) = Rank(p, S)
    BY <2>1 DEF Rank
  <2>3. Rank(p, S) \in 1..Len(v)
    <3>1. {q \in S : Before(q, p)} \subseteq S \ {p}
      BY <1>1
    <3>2. IsFiniteSet(S \ {p}) /\ Cardinality(S \ {p}) = Cardinality(S) - 1
      BY FS_RemoveElement
    <3> PICK r, size : r = Cardinality({q \in S : Before(q, p)}) /\ size = Cardinality(S)
      OBVIOUS
    <3>3. r \in Nat /\ r <= size - 1
      BY <3>1, <3>2, FS_Subset, FS_CardinalityType
    <3>4. Rank(p, S) = r + 1 /\ Len(v) = size /\ size \in Nat
      BY <1>4, <1>5 DEF Rank
    <3> QED
      BY <3>3, <3>4
  <2>4. v[Rank(p, S)] = Product(g[1], g[2], p)
    BY DEF Filled
  <2> QED
    BY <1>6, <2>2, <2>3, <2>4
<1>8. Append(v, e)[Rank(c, S \cup {c})] = Product(g[1], g[2], c)
  <2>1. {q \in S \cup {c} : Before(q, c)} = S
    BY <1>1
  <2>2. Rank(c, S \cup {c}) = Cardinality(S) + 1
    BY <2>1 DEF Rank
  <2> QED
    BY <1>6, <2>2
<1> QED
  BY <1>4, <1>6, <1>7, <1>8 DEF Filled

-----------------------------------------------------------------------------
(***************************************************************************)
(* Where the loops go next.                                                *)
(***************************************************************************)
At(g, y, x) == <<g[1] + y - half_m, g[2] + x - half_m>>

LEMMA NextInRow ==
    ASSUME n \in Nat, m \in Nat, NEW g \in Int \X Int, NEW y \in Int, NEW x \in Int
    PROVE  Seen(g, At(g, y, x + 1))
             = Seen(g, At(g, y, x)) \cup ({At(g, y, x)} \cap Covered(g[1], g[2]))
<1>1. half_m \in Int
  BY DEF half_m
<1>2. ASSUME NEW p \in Covered(g[1], g[2])
      PROVE  Before(p, At(g, y, x + 1)) <=> Before(p, At(g, y, x)) \/ p = At(g, y, x)
  <2>1. p[1] \in Int /\ p[2] \in Int /\ p = <<p[1], p[2]>>
    BY CoveredPlaces
  <2> QED
    BY <1>1, <2>1 DEF Before, At
<1> QED
  BY <1>2 DEF Seen

LEMMA NextRowOn ==
    ASSUME n \in Nat, m \in Nat, NEW g \in Int \X Int, NEW y \in Int, NEW x \in Int,
           x + 1 >= m
    PROVE  Seen(g, At(g, y + 1, 0))
             = Seen(g, At(g, y, x)) \cup ({At(g, y, x)} \cap Covered(g[1], g[2]))
<1>1. half_m \in Int
  BY DEF half_m
<1>2. ASSUME NEW p \in Covered(g[1], g[2])
      PROVE  Before(p, At(g, y + 1, 0)) <=> Before(p, At(g, y, x)) \/ p = At(g, y, x)
  <2>1. /\ p[1] \in Int /\ p[2] \in Int /\ p = <<p[1], p[2]>>
        /\ p[2] - g[2] + half_m \in 0..(m - 1)
    BY CoveredPlaces
  <2> QED
    BY <1>1, <2>1 DEF Before, At
<1> QED
  BY <1>2 DEF Seen

LEMMA LastRow ==
    ASSUME n \in Nat, m \in Nat, NEW g \in Int \X Int, NEW y \in Int, NEW x \in Int,
           y + 1 >= m
    PROVE  Seen(g, At(g, y + 1, 0)) = Covered(g[1], g[2])
<1>1. half_m \in Int
  BY DEF half_m
<1>2. ASSUME NEW p \in Covered(g[1], g[2])  PROVE Before(p, At(g, y + 1, 0))
  <2>1. p[1] \in Int /\ p[1] - g[1] + half_m \in 0..(m - 1)
    BY CoveredPlaces
  <2> QED
    BY <1>1, <2>1 DEF Before, At
<1> QED
  BY <1>2 DEF Seen

\* A row outside the matrix has nothing to see.
LEMMA RowOutside ==
    ASSUME n \in Nat, m \in Nat, NEW g \in Int \X Int, NEW y \in Int, NEW x \in Int,
           ~InMatrix(g[1] + y - half_m)
    PROVE  Seen(g, At(g, y + 1, 0)) = Seen(g, At(g, y, x))
<1>1. half_m \in Int
  BY DEF half_m
<1>2. ASSUME NEW p \in Covered(g[1], g[2])
      PROVE  Before(p, At(g, y + 1, 0)) <=> Before(p, At(g, y, x))
  <2>1. /\ p[1] \in 0..(n - 1) /\ p[2] \in Int
        /\ p[2] - g[2] + half_m \in 0..(m - 1)
    BY CoveredPlaces
  <2>2. p[1] # g[1] + y - half_m
    BY <1>1, <2>1 DEF InMatrix
  <2> QED
    BY <1>1, <2>1, <2>2 DEF Before, At
<1> QED
  BY <1>2 DEF Seen

\* An item that goes on has seen what it had seen, and the place it was at if
\* that is in the matrix.
LEMMA Onward ==
    ASSUME IInv, NEW g \in Grid, ItemAt(g, "loop"), UNCHANGED <<n, m>>
    PROVE  /\ g \in Int \X Int /\ Covered(g[1], g[2])' = Covered(g[1], g[2])
           /\ Done(g) = Seen(g, <<Y(g), X(g)>>)
           /\ NextRow(g) /\ ~InMatrix(Y(g)) => Done(g)' = Done(g)
           /\ NextCell(g) =>
                 Done(g)' = Done(g) \cup ({<<Y(g), X(g)>>} \cap Covered(g[1], g[2]))
<1>1. /\ n \in Nat /\ m \in Nat /\ g[1] \in Nat /\ g[2] \in Nat /\ g = <<g[1], g[2]>>
      /\ dy[g] \in Nat /\ dx[g] \in Nat /\ pc[g] = "loop" /\ dy[g] < m /\ dx[g] < m
      /\ dy \in [Grid -> Nat] /\ dx \in [Grid -> Nat] /\ pc \in [Grid -> Places]
  BY GridIds DEF IInv, Sized, Placed, Entered, ItemAt
<1>2. g \in Int \X Int
  BY <1>1
<1>3. n' = n /\ m' = m /\ half_m' = half_m
  BY DEF half_m
<1>4. Covered(g[1], g[2])' = Covered(g[1], g[2])
  BY <1>3 DEF Covered
<1>5. <<Y(g), X(g)>> = At(g, dy[g], dx[g])
  BY DEF Y, X, At
<1>6. Done(g) = Seen(g, At(g, dy[g], dx[g]))
  BY <1>1, <1>5 DEF Done
<1>7. ASSUME NEW y, NEW x, pc'[g] = "loop", dy'[g] = y, dx'[g] = x
      PROVE  Done(g)' = Seen(g, At(g, y, x))
  <2>1. <<Y(g)', X(g)'>> = At(g, y, x)
    BY <1>3, <1>7 DEF Y, X, At
  <2> QED
    BY <1>4, <1>7, <2>1 DEF Done, Seen
<1>8. ASSUME NextRow(g)
      PROVE  Done(g)' = Seen(g, At(g, dy[g] + 1, 0))
  <2>1. CASE dy[g] + 1 < m
    <3>1. pc'[g] = "loop" /\ dy'[g] = dy[g] + 1 /\ dx'[g] = 0
      BY <1>1, <1>8, <2>1 DEF NextRow
    <3> QED
      BY <1>7, <3>1
  <2>2. CASE ~(dy[g] + 1 < m)
    <3>1. pc'[g] = "returned"
      BY <1>1, <1>8, <2>2 DEF NextRow
    <3>2. Done(g)' = Covered(g[1], g[2])
      BY <1>4, <3>1 DEF Done
    <3>3. dy[g] \in Int /\ dx[g] \in Int /\ dy[g] + 1 >= m
      BY <1>1, <2>2
    <3>4. Seen(g, At(g, dy[g] + 1, 0)) = Covered(g[1], g[2])
      BY <1>1, <1>2, <3>3, LastRow
    <3> QED
      BY <3>2, <3>4
  <2> QED
    BY <2>1, <2>2
<1>9. ASSUME NextRow(g), ~InMatrix(Y(g))
      PROVE  Done(g)' = Done(g)
  <2>1. ~InMatrix(g[1] + dy[g] - half_m) /\ dy[g] \in Int /\ dx[g] \in Int
    BY <1>1, <1>9 DEF Y
  <2>2. Seen(g, At(g, dy[g] + 1, 0)) = Seen(g, At(g, dy[g], dx[g]))
    BY <1>1, <1>2, <2>1, RowOutside
  <2> QED
    BY <1>6, <1>8, <1>9, <2>2
<1>10. ASSUME NextCell(g)
       PROVE  Done(g)' = Done(g) \cup ({<<Y(g), X(g)>>} \cap Covered(g[1], g[2]))
  <2>0. dy[g] \in Int /\ dx[g] \in Int
    BY <1>1
  <2>1. CASE dx[g] + 1 < m
    <3>1. pc'[g] = "loop" /\ dy'[g] = dy[g] /\ dx'[g] = dx[g] + 1
      BY <1>1, <1>10, <2>1 DEF NextCell
    <3>2. Done(g)' = Seen(g, At(g, dy[g], dx[g] + 1))
      BY <1>7, <3>1
    <3> QED
      BY <1>1, <1>2, <1>5, <1>6, <2>0, <3>2, NextInRow
  <2>2. CASE ~(dx[g] + 1 < m)
    <3>1. NextRow(g)
      BY <1>10, <2>2 DEF NextCell
    <3>2. dx[g] + 1 >= m
      BY <1>1, <2>2
    <3>3. Seen(g, At(g, dy[g] + 1, 0))
            = Seen(g, At(g, dy[g], dx[g])) \cup ({At(g, dy[g], dx[g])} \cap Covered(g[1], g[2]))
      BY <1>1, <1>2, <2>0, <3>2, NextRowOn
    <3> QED
      BY <1>5, <1>6, <1>8, <3>1, <3>3
  <2> QED
    BY <2>1, <2>2
<1> QED
  BY <1>1, <1>2, <1>4, <1>5, <1>6, <1>9, <1>10

-----------------------------------------------------------------------------
\* Items inside the matrix have a cell each.
LEMMA OwnCell ==
    ASSUME n \in Nat, NEW g \in Grid, NEW h \in Grid, ~Outside(g), ~Outside(h),
           Cell(g) = Cell(h)
    PROVE  g = h
<1>1. /\ g[1] \in Nat /\ g[2] \in 0..(n - 1) /\ g = <<g[1], g[2]>>
      /\ h[1] \in Nat /\ h[2] \in 0..(n - 1) /\ h = <<h[1], h[2]>>
  BY GridIds DEF Outside
<1>2. g[1] * n + g[2] = h[1] * n + h[2]
  BY DEF Cell
<1>3. ~(g[1] < h[1])
  <2> SUFFICES ASSUME g[1] < h[1] PROVE FALSE
    OBVIOUS
  <2>1. g[1] * n + g[2] < h[1] * n + h[2]
    BY <1>1, LaterRow
  <2> PICK k : k = g[1] * n + g[2]
    OBVIOUS
  <2>2. k \in Int
    BY <1>1
  <2> QED
    BY <1>2, <2>1, <2>2
<1>4. ~(h[1] < g[1])
  <2> SUFFICES ASSUME h[1] < g[1] PROVE FALSE
    OBVIOUS
  <2>1. h[1] * n + h[2] < g[1] * n + g[2]
    BY <1>1, LaterRow
  <2> PICK k : k = g[1] * n + g[2]
    OBVIOUS
  <2>2. k \in Int
    BY <1>1
  <2> QED
    BY <1>2, <2>1, <2>2
<1>5. g[1] = h[1]
  BY <1>1, <1>3, <1>4
<1>6. g[2] = h[2]
  <2> PICK k : k = g[1] * n
    OBVIOUS
  <2> PICK a, b : a = g[2] /\ b = h[2]
    OBVIOUS
  <2>1. k \in Int /\ a \in Int /\ b \in Int
    BY <1>1
  <2>2. k + a = k + b
    BY <1>2, <1>5
  <2>3. a = b
    BY <2>1, <2>2
  <2> QED
    BY <2>3
<1> QED
  BY <1>1, <1>5, <1>6

\* The grid has an item for every cell.
LEMMA GridCovers ==
    ASSUME n \in Nat, NEW i \in 0..(n - 1), NEW j \in 0..(n - 1)
    PROVE  <<i, j>> \in Grid /\ ~Outside(<<i, j>>) /\ Cell(<<i, j>>) = i * n + j
<1>1. n_up \in Int /\ n <= n_up
  <2>1. CASE n % BLOCK_SIZE = 0
    BY <2>1 DEF n_up
  <2>2. CASE n % BLOCK_SIZE # 0
    <3>1. n_up = (n \div BLOCK_SIZE + 1) * BLOCK_SIZE
      BY <2>2 DEF n_up
    <3> PICK q : q = n \div BLOCK_SIZE
      OBVIOUS
    <3>2. /\ q \in Nat /\ q * BLOCK_SIZE \in Nat /\ n < q * BLOCK_SIZE + BLOCK_SIZE
          /\ (q + 1) * BLOCK_SIZE = q * BLOCK_SIZE + BLOCK_SIZE
      BY ConvolutionAssumption
    <3> QED
      BY <3>1, <3>2, ConvolutionAssumption
  <2> QED
    BY <2>1, <2>2
<1> QED
  BY <1>1 DEF Grid, Outside, Cell

-----------------------------------------------------------------------------
LEMMA SameFilled ==
    ASSUME UNCHANGED <<n, m, supplied>>
    PROVE  /\ \A i, j : Covered(i, j)' = Covered(i, j)
           /\ \A v, g, s : Filled(v, g, s)' <=> Filled(v, g, s)
           /\ n_up' = n_up /\ Grid' = Grid /\ half_m' = half_m
<1>1. half_m' = half_m /\ n' = n /\ m' = m /\ supplied' = supplied
  BY DEF half_m
<1>2. \A k : Number(k)' = Number(k)
  BY <1>1 DEF Number
<1>3. \A i, j, p : Product(i, j, p)' = Product(i, j, p)
  BY <1>1, <1>2 DEF Product, Number
<1>4. \A i, j : Covered(i, j)' = Covered(i, j)
  BY <1>1 DEF Covered
<1>5. \A v, g, s : Filled(v, g, s)' <=> Filled(v, g, s)
  BY <1>3 DEF Filled
<1>6. n_up' = n_up /\ Grid' = Grid
  BY <1>1 DEF n_up, Grid
<1> QED
  BY <1>1, <1>4, <1>5, <1>6

\* What an item has accumulated stays while the item and its cell do.
LEMMA ItemKept ==
    ASSUME UNCHANGED <<n, m, supplied>>, Filling, NEW h \in Grid,
           pc'[h] = pc[h], dy'[h] = dy[h], dx'[h] = dx[h],
           ~Outside(h) => output'[Cell(h)] = output[Cell(h)]
    PROVE  (pc[h] \in {"loop", "returned"} /\ ~Outside(h) =>
              Filled(output[Cell(h)], h, Done(h)))'
<1>1. Outside(h)' = Outside(h) /\ Cell(h)' = Cell(h)
  BY DEF Outside, Cell
<1>2. Done(h)' = Done(h)
  <2>1. <<Y(h)', X(h)'>> = <<Y(h), X(h)>>
    BY SameFilled DEF Y, X
  <2>2. Covered(h[1], h[2])' = Covered(h[1], h[2])
    BY SameFilled
  <2> QED
    BY <2>1, <2>2 DEF Done, Seen
<1> SUFFICES ASSUME pc[h] \in {"loop", "returned"}, ~Outside(h)
             PROVE  Filled(output[Cell(h)], h, Done(h))'
  BY <1>1
<1>3. Filled(output[Cell(h)], h, Done(h))
  BY DEF Filling
<1> PICK v, s : v = output[Cell(h)] /\ s = Done(h)
  OBVIOUS
<1>4. Filled(v, h, s)
  BY <1>3
<1>5. Filled(v, h, s)'
  BY <1>4, SameFilled
<1>6. v = output'[Cell(h)'] /\ s = Done(h)'
  BY <1>1, <1>2
<1> QED
  BY <1>5, <1>6

\* A step of one item.
LEMMA ItemStep ==
    ASSUME IInv, CInv, NEW g \in Grid, host = "wait",
           UNCHANGED <<n, m, supplied, host, input_a, input_b>>,
           \A h \in Grid : h # g => pc'[h] = pc[h] /\ dy'[h] = dy[h] /\ dx'[h] = dx[h],
           \A h \in Grid : h # g /\ ~Outside(h) => output'[Cell(h)] = output[Cell(h)],
           NEW v, NEW s, output'[Cell(g)] = v, Done(g)' = s,
           pc'[g] \in {"loop", "returned"} /\ ~Outside(g) => Filled(v, g, s)
    PROVE  CInv'
<1>1. Loaded'
  <2>1. Loaded /\ \A k : Number(k)' = Number(k)
    BY DEF CInv, Number
  <2> QED
    BY <2>1 DEF Loaded
<1>2. Finished' /\ ResultIsConvolution'
  BY DEF Finished, ResultIsConvolution
<1>3. Filling'
  <2> SUFFICES ASSUME NEW h \in Grid
               PROVE  (pc[h] \in {"loop", "returned"} /\ ~Outside(h) =>
                         Filled(output[Cell(h)], h, Done(h)))'
    BY SameFilled DEF Filling
  <2>1. CASE h # g
    <3>1. pc'[h] = pc[h] /\ dy'[h] = dy[h] /\ dx'[h] = dx[h]
      BY <2>1
    <3>2. ~Outside(h) => output'[Cell(h)] = output[Cell(h)]
      BY <2>1
    <3> QED
      BY <3>1, <3>2, ItemKept DEF CInv
  <2>2. CASE h = g
    <3>1. Outside(g)' = Outside(g) /\ Cell(g)' = Cell(g)
      BY DEF Outside, Cell
    <3> SUFFICES ASSUME pc'[g] \in {"loop", "returned"}, ~Outside(g)
                 PROVE  Filled(output[Cell(g)], g, Done(g))'
      BY <2>2, <3>1
    <3>2. Filled(v, g, s)'
      BY SameFilled
    <3>3. v = output'[Cell(g)'] /\ s = Done(g)'
      BY <3>1
    <3> QED
      BY <3>2, <3>3
  <2> QED
    BY <2>1, <2>2
<1> QED
  BY <1>1, <1>2, <1>3 DEF CInv

\* A step of an item in its loops moves nobody else.
LEMMA OthersStay ==
    ASSUME IInv, NEW g \in Grid, NextRow(g) \/ NextCell(g), NEW h \in Grid, h # g
    PROVE  pc'[h] = pc[h] /\ dy'[h] = dy[h] /\ dx'[h] = dx[h]
<1>1. pc \in [Grid -> Places] /\ dy \in [Grid -> Nat] /\ dx \in [Grid -> Nat]
  BY DEF IInv, Placed
<1>2. CASE NextRow(g)
  BY <1>1, <1>2 DEF NextRow
<1>3. CASE NextCell(g) /\ dx[g] + 1 < m
  BY <1>1, <1>3 DEF NextCell
<1>4. CASE NextCell(g) /\ ~(dx[g] + 1 < m)
  BY <1>2, <1>4 DEF NextCell
<1> QED
  BY <1>2, <1>3, <1>4

LEMMA EnterResult ==
    ASSUME IInv, CInv, NEW g \in Grid, Enter(g)
    PROVE  CInv'
<1>1. /\ host = "wait" /\ pc[g] = "begin" /\ dy[g] = 0 /\ dx[g] = 0
      /\ UNCHANGED <<n, m, supplied, host, input_a, input_b, dy, dx>>
      /\ pc \in [Grid -> Places] /\ DOMAIN output = Cells(n) /\ n \in Nat /\ m \in Nat
  BY DEF Enter, ItemAt, IInv, Entered, Placed, Buffers, Sized
<1>2. \A h \in Grid : h # g => pc'[h] = pc[h] /\ dy'[h] = dy[h] /\ dx'[h] = dx[h]
  BY <1>1 DEF Enter
<1>3. CASE Outside(g)
  <2>1. output' = output
    BY <1>3 DEF Enter
  <2> QED
    BY <1>1, <1>2, <1>3, <2>1, ItemStep
<1>4. CASE ~Outside(g)
  <2>1. output' = [output EXCEPT ![Cell(g)] = <<>>] /\ pc'[g] = "loop"
    BY <1>1, <1>4 DEF Enter
  <2>2. /\ g[1] \in 0..(n - 1) /\ g[2] \in 0..(n - 1) /\ g = <<g[1], g[2]>>
        /\ g \in Int \X Int
    BY <1>1, <1>4, GridIds DEF Outside
  <2>3. Cell(g) \in DOMAIN output
    BY <1>1, <2>2, RowMajor DEF Cell
  <2>4. output'[Cell(g)] = <<>>
    BY <2>1, <2>3
  <2>5. \A h \in Grid : h # g /\ ~Outside(h) => output'[Cell(h)] = output[Cell(h)]
    <3> TAKE h \in Grid
    <3> SUFFICES ASSUME h # g, ~Outside(h) PROVE output'[Cell(h)] = output[Cell(h)]
      OBVIOUS
    <3>1. Cell(h) # Cell(g)
      BY <1>1, <1>4, OwnCell
    <3> QED
      BY <2>1, <3>1
  <2>6. Done(g)' = {}
    <3>1. half_m \in Int
      BY <1>1 DEF half_m
    <3>2. Y(g)' = g[1] - half_m /\ X(g)' = g[2] - half_m
      BY <1>1, <2>2, <3>1, SameFilled DEF Y, X
    <3>3. Covered(g[1], g[2])' = Covered(g[1], g[2])
      BY <1>1, SameFilled
    <3>4. ASSUME NEW p \in Covered(g[1], g[2])
          PROVE  ~Before(p, <<g[1] - half_m, g[2] - half_m>>)
      <4>1. /\ p[1] \in Int /\ p[2] \in Int
            /\ p[1] - g[1] + half_m \in 0..(m - 1) /\ p[2] - g[2] + half_m \in 0..(m - 1)
        BY <1>1, CoveredPlaces
      <4> QED
        BY <2>2, <3>1, <4>1 DEF Before
    <3>5. Done(g)' = {p \in Covered(g[1], g[2]) : Before(p, <<g[1] - half_m, g[2] - half_m>>)}
      BY <2>1, <3>2, <3>3 DEF Done, Seen
    <3> QED
      BY <3>4, <3>5
  <2>7. Filled(<<>>, g, {})
    BY FS_EmptySet, EmptySeq DEF Filled
  <2> QED
    BY <1>1, <1>2, <2>4, <2>5, <2>6, <2>7, ItemStep
<1> QED
  BY <1>3, <1>4

LEMMA SkipResult ==
    ASSUME IInv, CInv, NEW g \in Grid, SkipRow(g) \/ SkipCell(g)
    PROVE  CInv'
<1>1. /\ host = "wait" /\ pc[g] = "loop" /\ ItemAt(g, "loop") /\ ~Outside(g)
      /\ UNCHANGED <<n, m, supplied, host, input_a, input_b>> /\ output' = output
      /\ (NextRow(g) \/ NextCell(g)) /\ n \in Nat
  BY DEF SkipRow, SkipCell, ItemAt, device, IInv, Entered, Sized
<1>2. Done(g)' = Done(g)
  <2>1. CASE SkipRow(g)
    BY <1>1, <2>1, Onward DEF SkipRow
  <2>2. CASE SkipCell(g)
    <3>1. <<Y(g), X(g)>> \notin Covered(g[1], g[2])
      <4>1. ~(X(g) \in 0..(n - 1))
        BY <1>1, <2>2 DEF SkipCell, InMatrix
      <4> QED
        BY <1>1, <4>1, CoveredPlaces
    <3>2. NextCell(g)
      BY <2>2 DEF SkipCell
    <3>3. Done(g)' = Done(g) \cup ({<<Y(g), X(g)>>} \cap Covered(g[1], g[2]))
      BY <1>1, <3>2, Onward
    <3> QED
      BY <3>1, <3>3
  <2> QED
    BY <2>1, <2>2
<1>3. \A h \in Grid : h # g => pc'[h] = pc[h] /\ dy'[h] = dy[h] /\ dx'[h] = dx[h]
  BY <1>1, OthersStay
<1>4. Filled(output[Cell(g)], g, Done(g))
  BY <1>1 DEF CInv, Filling
<1> PICK v, s : v = output[Cell(g)] /\ s = Done(g)
  OBVIOUS
<1>5. Filled(v, g, s) /\ output'[Cell(g)] = v /\ Done(g)' = s
  BY <1>1, <1>2, <1>4
<1>6. \A h \in Grid : h # g /\ ~Outside(h) => output'[Cell(h)] = output[Cell(h)]
  BY <1>1
<1> QED
  BY <1>1, <1>3, <1>5, <1>6, ItemStep

LEMMA AccumulateResult ==
    ASSUME IInv, CInv, NEW g \in Grid, Accumulate(g)
    PROVE  CInv'
<1> DEFINE e == <<input_a[Y(g) * n + X(g)], input_b[dy[g] * m + dx[g]]>>
<1> PICK i, j, c : i = g[1] /\ j = g[2] /\ c = <<Y(g), X(g)>>
  OBVIOUS
<1>1. /\ host = "wait" /\ pc[g] = "loop" /\ ItemAt(g, "loop") /\ ~Outside(g)
      /\ UNCHANGED <<n, m, supplied, host, input_a, input_b>>
      /\ output' = [output EXCEPT ![Cell(g)] = Append(output[Cell(g)], e)]
      /\ NextCell(g) /\ InMatrix(Y(g)) /\ InMatrix(X(g))
      /\ n \in Nat /\ m \in Nat /\ dy[g] \in 0..(m - 1) /\ dx[g] \in 0..(m - 1)
      /\ DOMAIN output = Cells(n)
  BY DEF Accumulate, Accumulates, ItemAt, IInv, Entered, Sized, Placed, Buffers
<1>2. i \in 0..(n - 1) /\ j \in 0..(n - 1) /\ half_m \in Int
  BY <1>1, GridIds DEF Outside, half_m
<1>3. /\ Y(g) \in 0..(n - 1) /\ X(g) \in 0..(n - 1)
      /\ Y(g) - i + half_m = dy[g] /\ X(g) - j + half_m = dx[g]
  <2>1. Y(g) = i + dy[g] - half_m /\ X(g) = j + dx[g] - half_m
    BY DEF Y, X
  <2>2. 0 <= Y(g) /\ Y(g) < n /\ 0 <= X(g) /\ X(g) < n
    BY <1>1 DEF InMatrix
  <2>3. dy[g] \in Int /\ dx[g] \in Int /\ i \in Int /\ j \in Int
    BY <1>1, <1>2
  <2> PICK y, x, b, a, h :
           y = Y(g) /\ x = X(g) /\ b = dy[g] /\ a = dx[g] /\ h = half_m
    OBVIOUS
  <2>4. h \in Int /\ a \in Int /\ b \in Int /\ n \in Nat
    BY <1>1, <1>2, <2>3
  <2>5. y = i + b - h /\ x = j + a - h
    BY <2>1
  <2>6. y \in Int /\ x \in Int /\ y - i + h = b /\ x - j + h = a
    BY <2>3, <2>4, <2>5
  <2>7. y \in 0..(n - 1) /\ x \in 0..(n - 1)
    BY <2>2, <2>4, <2>6
  <2> QED
    BY <2>6, <2>7
<1>4. c \in Covered(i, j) /\ c \in Int \X Int /\ c[1] = Y(g) /\ c[2] = X(g)
  BY <1>1, <1>3 DEF Covered
<1>5. Done(g) = Seen(g, c) /\ Done(g)' = Done(g) \cup {c}
  <2>1. /\ Done(g) = Seen(g, <<Y(g), X(g)>>)
        /\ Done(g)' = Done(g) \cup ({<<Y(g), X(g)>>} \cap Covered(g[1], g[2]))
    BY <1>1, Onward
  <2> QED
    BY <1>4, <2>1
<1>6. e = Product(i, j, c) /\ e \in Nat \X Nat
  <2>1. Y(g) * n + X(g) \in Cells(n) /\ dy[g] * m + dx[g] \in Cells(m)
    BY <1>1, <1>3, RowMajor
  <2>2. /\ input_a[Y(g) * n + X(g)] = Number(Y(g) * n + X(g) + 1)
        /\ input_b[dy[g] * m + dx[g]] = Number(n * n + (dy[g] * m + dx[g]) + 1)
    BY <1>1, <2>1 DEF CInv, Loaded
  <2> PICK a, b : a = Y(g) * n + X(g) /\ b = dy[g] * m + dx[g]
    OBVIOUS
  <2>3. a \in Nat /\ b \in Nat /\ n * n \in Nat
    <3>1. n * n \in Nat /\ m * m \in Nat
      BY <1>1
    <3>2. a \in 0..(n * n - 1) /\ b \in 0..(m * m - 1)
      BY <2>1 DEF Cells
    <3> QED
      BY <3>1, <3>2
  <2>4. e = <<Number(a + 1), Number(n * n + b + 1)>>
    BY <2>2
  <2>5. a + 1 \in Nat /\ n * n + b + 1 \in Nat
    BY <2>3
  <2>6. \A k \in Nat : Number(k) \in Nat
    BY DEF Number
  <2>7. e \in Nat \X Nat
    BY <2>4, <2>5, <2>6
  <2>8. Product(i, j, c) = <<Number(a + 1), Number(n * n + dy[g] * m + dx[g] + 1)>>
    BY <1>3, <1>4 DEF Product
  <2>9. n * n + dy[g] * m + dx[g] + 1 = n * n + b + 1
    <3> PICK r, nn : r = dy[g] * m /\ nn = n * n
      OBVIOUS
    <3>1. r \in Int /\ dx[g] \in Int /\ nn \in Int
      BY <1>1
    <3> QED
      BY <3>1
  <2> QED
    BY <2>4, <2>7, <2>8, <2>9
<1> HIDE DEF e
<1>7. Cell(g) \in DOMAIN output
  BY <1>1, <1>2, RowMajor DEF Cell
<1>8. Filled(output[Cell(g)], g, Done(g))
  BY <1>1 DEF CInv, Filling
<1> PICK v, s, w : v = output[Cell(g)] /\ s = Done(g) /\ w = Append(v, e)
  OBVIOUS
<1>9. Filled(w, g, s \cup {c})
  <2>1. IsFiniteSet(s) /\ s \subseteq Int \X Int /\ \A p \in s : Before(p, c)
    <3>1. /\ IsFiniteSet(Covered(i, j)) /\ Covered(i, j) \subseteq Int \X Int
          /\ s = {p \in Covered(i, j) : Before(p, c)}
      BY <1>1, <1>5, CoveredPlaces DEF Seen
    <3> QED
      BY <3>1, FS_Subset
  <2>2. Filled(v, g, s) /\ e = Product(g[1], g[2], c)
    BY <1>6, <1>8
  <2>3. Filled(Append(v, e), g, s \cup {c})
    BY <1>4, <1>6, <2>1, <2>2, OneMore
  <2> QED
    BY <2>3
<1>10. output'[Cell(g)] = w /\ Done(g)' = s \cup {c}
  BY <1>1, <1>5, <1>7
<1>11. \A h \in Grid : h # g => pc'[h] = pc[h] /\ dy'[h] = dy[h] /\ dx'[h] = dx[h]
  BY <1>1, OthersStay
<1>12. \A h \in Grid : h # g /\ ~Outside(h) => output'[Cell(h)] = output[Cell(h)]
  <2> TAKE h \in Grid
  <2> SUFFICES ASSUME h # g, ~Outside(h) PROVE output'[Cell(h)] = output[Cell(h)]
    OBVIOUS
  <2>1. Cell(h) # Cell(g)
    BY <1>1, OwnCell
  <2> QED
    BY <1>1, <2>1
<1> PICK t : t = s \cup {c}
  OBVIOUS
<1>13. Done(g)' = t /\ Filled(w, g, t)
  BY <1>9, <1>10
<1> QED
  BY <1>1, <1>10, <1>11, <1>12, <1>13, ItemStep

-----------------------------------------------------------------------------
\* The host moves on: what the items have accumulated stays.
LEMMA HostKeeps ==
    ASSUME UNCHANGED <<n, m, supplied, pc, dy, dx, output>>, Filling
    PROVE  Filling'
<1> SUFFICES ASSUME NEW h \in Grid
             PROVE  (pc[h] \in {"loop", "returned"} /\ ~Outside(h) =>
                       Filled(output[Cell(h)], h, Done(h)))'
  BY SameFilled DEF Filling
<1>1. pc'[h] = pc[h] /\ dy'[h] = dy[h] /\ dx'[h] = dx[h] /\ output' = output
  OBVIOUS
<1> QED
  BY <1>1, ItemKept

LEMMA FileResult ==
    ASSUME IInv, CInv, WriteFile
    PROVE  ResultIsConvolution'
<1>1. /\ UNCHANGED <<n, m, supplied>> /\ n \in Nat /\ host = "read"
      /\ file' = [i \in 0..(n - 1) |-> [j \in 0..(n - 1) |-> output[i * n + j]]]
  BY DEF WriteFile, HostAt, IInv, Sized
<1> SUFFICES ASSUME NEW i \in 0..(n - 1), NEW j \in 0..(n - 1)
             PROVE  (/\ file[i][j] # Unset
                     /\ Len(file[i][j]) = Cardinality(Covered(i, j))
                     /\ \A p \in Covered(i, j) :
                           file[i][j][Rank(p, Covered(i, j))] = Product(i, j, p))'
  BY <1>1 DEF ResultIsConvolution
<1> PICK g : g = <<i, j>>
  OBVIOUS
<1>2. g \in Grid /\ ~Outside(g) /\ Cell(g) = i * n + j /\ g[1] = i /\ g[2] = j
  BY <1>1, GridCovers
<1>3. pc[g] = "returned"
  BY <1>1, <1>2 DEF CInv, Finished
<1>4. Filled(output[Cell(g)], g, Covered(i, j))
  BY <1>2, <1>3 DEF CInv, Filling, Done
<1> PICK v, s : v = output[Cell(g)] /\ s = Covered(i, j)
  OBVIOUS
<1>5. Filled(v, g, s)'
  BY <1>1, <1>4, SameFilled
<1>6. file'[i][j] = v /\ Covered(i, j)' = s
  BY <1>1, <1>2, SameFilled
<1>7. v # Unset
  BY <1>5, ConvolutionAssumption DEF Filled
<1>8. /\ Len(v) = Cardinality(s)
      /\ \A p \in s : v[Rank(p, s)] = Product(i, j, p)'
  BY <1>2, <1>5 DEF Filled, Rank
<1> QED
  BY <1>6, <1>7, <1>8 DEF Rank

LEMMA NextResult == IInv /\ CInv /\ [Next]_vars => CInv'
<1> SUFFICES ASSUME IInv, CInv, [Next]_vars PROVE CInv'
  OBVIOUS
<1>0. Loaded /\ Finished /\ Filling /\ \A k : UNCHANGED supplied => Number(k)' = Number(k)
  BY DEF CInv, Number
<1>1. CASE CreateBuffers
  <2>1. Filling'
    BY <1>0, <1>1, HostKeeps DEF CreateBuffers, device, items
  <2> QED
    BY <1>1, <2>1 DEF CreateBuffers, HostAt, CInv, Loaded, Finished, ResultIsConvolution
<1>2. CASE WriteA
  <2>1. Filling'
    BY <1>0, <1>2, HostKeeps DEF WriteA, items
  <2>2. Loaded'
    BY <1>0, <1>2 DEF WriteA, HostAt, Loaded, Cells
  <2> QED
    BY <1>2, <2>1, <2>2 DEF WriteA, HostAt, CInv, Finished, ResultIsConvolution
<1>3. CASE WriteB
  <2>1. Filling'
    BY <1>0, <1>3, HostKeeps DEF WriteB, items
  <2>2. Loaded'
    BY <1>0, <1>3 DEF WriteB, HostAt, Loaded, Cells
  <2> QED
    BY <1>3, <2>1, <2>2 DEF WriteB, HostAt, CInv, Finished, ResultIsConvolution
<1>4. CASE Launch
  <2>1. Filling'
    <3>1. Grid' = Grid /\ pc' = [g \in Grid |-> "begin"]
      BY <1>4, SameFilled DEF Launch
    <3> QED
      BY <3>1 DEF Filling
  <2>2. Loaded'
    BY <1>0, <1>4 DEF Launch, HostAt, Loaded, Cells, device
  <2> QED
    BY <1>4, <2>1, <2>2 DEF Launch, HostAt, CInv, Finished, ResultIsConvolution
<1>5. CASE Wait
  <2>1. Filling'
    BY <1>0, <1>5, HostKeeps DEF Wait, device, items
  <2>2. Loaded'
    BY <1>0, <1>5 DEF Wait, HostAt, Loaded, Cells, device
  <2>3. Finished'
    <3>1. Grid' = Grid /\ pc' = pc
      BY <1>5, SameFilled DEF Wait, items
    <3> QED
      BY <1>5, <3>1 DEF Wait, Finished
  <2> QED
    BY <1>5, <2>1, <2>2, <2>3 DEF Wait, HostAt, CInv, ResultIsConvolution
<1>6. CASE WriteFile
  <2>1. Filling'
    BY <1>0, <1>6, HostKeeps DEF WriteFile, device, items
  <2>2. Loaded'
    BY <1>0, <1>6 DEF WriteFile, HostAt, Loaded, Cells, device
  <2>3. Finished'
    <3>1. Grid' = Grid /\ pc' = pc /\ host = "read"
      BY <1>6, SameFilled DEF WriteFile, items, HostAt
    <3> QED
      BY <1>0, <3>1 DEF Finished
  <2> QED
    BY <1>6, <2>1, <2>2, <2>3, FileResult DEF CInv
<1>7. CASE Throw
  <2>1. Filling'
    BY <1>0, <1>7, HostKeeps DEF Throw, device, items
  <2> QED
    BY <1>7, <2>1 DEF Throw, CInv, Loaded, Finished, ResultIsConvolution
<1>8. ASSUME NEW g \in Grid, WorkItem(g) PROVE CInv'
  BY <1>8, EnterResult, SkipResult, AccumulateResult DEF WorkItem
<1>9. CASE UNCHANGED vars
  <2>1. Filling'
    BY <1>0, <1>9, HostKeeps DEF vars, device, items
  <2>2. Loaded'
    BY <1>0, <1>9 DEF vars, Loaded, Cells, device
  <2>3. Finished'
    <3>1. Grid' = Grid /\ pc' = pc /\ host' = host
      BY <1>9, SameFilled DEF vars, items
    <3> QED
      BY <1>0, <3>1 DEF Finished
  <2>4. ResultIsConvolution'
    <3>1. /\ n' = n /\ host' = host /\ file' = file
          /\ \A i, j : Covered(i, j)' = Covered(i, j)
      BY <1>9, SameFilled DEF vars
    <3>2. \A i, j, p : Product(i, j, p)' = Product(i, j, p)
      BY <1>0, <1>9 DEF vars, Product, half_m, Number
    <3> QED
      BY <3>1, <3>2 DEF CInv, ResultIsConvolution, Rank
  <2> QED
    BY <2>1, <2>2, <2>3, <2>4 DEF CInv
<1> QED
  BY <1>1, <1>2, <1>3, <1>4, <1>5, <1>6, <1>7, <1>8, <1>9 DEF Next

LEMMA InitResult == Init => CInv
  BY DEF Init, CInv, Loaded, Finished, Filling, ResultIsConvolution

\* Whatever the sizes, the file and the order of the work-items, what main
\* writes is the convolution, its products in the matrix's own order.
THEOREM WritesConvolution == Spec => []ResultIsConvolution
<1>1. CInv => ResultIsConvolution
  BY DEF CInv
<1> QED
  BY <1>1, InitResult, NextResult, Invariance, PTL DEF Spec
=======
