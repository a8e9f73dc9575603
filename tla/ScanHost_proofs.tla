---------------------------- MODULE ScanHost_proofs ----------------------------
(***************************************************************************)
(* Proofs about the host function scan, for every size of the work-group,  *)
(* every input and every depth of the recursion: it returns the prefix     *)
(* sums, though each call works in the buffers of its callers.             *)
(***************************************************************************)
EXTENDS ScanHost, SequenceTheorems, FiniteSetTheorems, WellFoundedInduction, TLAPS

-----------------------------------------------------------------------------
(***************************************************************************)
(* Induction over natural numbers, as the least number that fails.         *)
(***************************************************************************)
LEMMA LeastElement ==
  ASSUME NEW S \in SUBSET Nat, S # {}
  PROVE  \E i \in S : \A j \in S : i <= j
<1> DEFINE R == {ss \in Nat \X Nat : ss[1] < ss[2]}
<1>1. IsWellFoundedOn(R, Nat)  BY NatLessThanWellFounded DEF OpToRel
<1>2. PICK i \in S : \A j \in S : ~(<<j, i>> \in R)
  <2>1. S \subseteq Nat /\ S # {}  OBVIOUS
  <2> HIDE DEF R
  <2> QED  BY <1>1, <2>1, WFMin, Zenon
<1>3. ASSUME NEW j \in S  PROVE i <= j
  <2>1. j \in Nat /\ i \in Nat /\ <<j, i>> \in Nat \X Nat  OBVIOUS
  <2>2. ~(<<j, i>>[1] < <<j, i>>[2])  BY <1>2, <2>1
  <2> QED  BY <2>1, <2>2
<1> QED  BY <1>3

-----------------------------------------------------------------------------
(***************************************************************************)
(* Sums.  The recursive function of SumOf exists: for each k there is one  *)
(* up to k, and they agree.                                                *)
(***************************************************************************)
Body(f, lo, s, i) == IF i < lo THEN 0 ELSE s[i - 1] + f[i]
Upto(f, lo, s, k) == \A i \in 0..k : s[i] = Body(f, lo, s, i)

LEMMA UptoUnique ==
  ASSUME NEW f, NEW lo \in Nat \ {0}, NEW k \in Nat, NEW l \in Nat, k <= l,
         NEW s, NEW t, Upto(f, lo, s, k), Upto(f, lo, t, l)
  PROVE  \A i \in 0..k : s[i] = t[i]
<1> DEFINE Bad == {i \in 0..k : s[i] # t[i]}
<1> SUFFICES ASSUME Bad # {}  PROVE FALSE  OBVIOUS
<1>0. Bad \in SUBSET Nat  OBVIOUS
<1>1. PICK i \in Bad : \A j \in Bad : i <= j  BY <1>0, LeastElement
<1>2. i \in 0..k /\ s[i] # t[i]  OBVIOUS
<1>3. s[i] = Body(f, lo, s, i) /\ t[i] = Body(f, lo, t, i)  BY <1>2 DEF Upto
<1>4. ~(i < lo)  BY <1>2, <1>3 DEF Body
<1>5. i - 1 \in 0..k /\ i - 1 < i  BY <1>2, <1>4
<1>6. s[i - 1] = t[i - 1]
  <2> SUFFICES ASSUME s[i - 1] # t[i - 1]  PROVE FALSE  OBVIOUS
  <2>1. i - 1 \in Bad  BY <1>5
  <2> QED  BY <1>1, <1>2, <1>5, <2>1
<1> QED  BY <1>2, <1>3, <1>4, <1>6 DEF Body

LEMMA UptoExists ==
  ASSUME NEW f, NEW lo \in Nat \ {0}
  PROVE  \A k \in Nat : \E s : DOMAIN s = 0..k /\ Upto(f, lo, s, k)
<1> DEFINE Bad == {k \in Nat : ~ \E s : DOMAIN s = 0..k /\ Upto(f, lo, s, k)}
<1> SUFFICES ASSUME Bad # {}  PROVE FALSE  OBVIOUS
<1>0. Bad \in SUBSET Nat  OBVIOUS
<1>1. PICK k \in Bad : \A j \in Bad : k <= j  BY <1>0, LeastElement
<1>2. k # 0
  <2> DEFINE s == [i \in 0..0 |-> 0]
  <2>1. DOMAIN s = 0..0 /\ Upto(f, lo, s, 0)  BY DEF Upto, Body
  <2> QED  BY <2>1
<1>3. PICK s : DOMAIN s = 0..(k - 1) /\ Upto(f, lo, s, k - 1)
  <2>1. k - 1 \in Nat /\ k - 1 \notin Bad  BY <1>1, <1>2
  <2> QED  BY <2>1
<1> DEFINE t == [i \in 0..k |-> IF i = k THEN Body(f, lo, s, k) ELSE s[i]]
<1>4. ASSUME NEW i \in 0..k  PROVE t[i] = Body(f, lo, t, i)
  <2>1. CASE i = k  BY <1>2, <2>1 DEF Body
  <2>2. CASE i # k
    <3>1. i \in 0..(k - 1)  BY <2>2
    <3>2. t[i] = s[i] /\ s[i] = Body(f, lo, s, i)  BY <1>3, <3>1 DEF Upto
    <3>3. i > 0 => t[i - 1] = s[i - 1]  BY <3>1
    <3> QED  BY <3>1, <3>2, <3>3 DEF Body
  <2> QED  BY <2>1, <2>2
<1>5. DOMAIN t = 0..k /\ Upto(f, lo, t, k)  BY <1>4 DEF Upto
<1> HIDE DEF t
<1> QED  BY <1>5

LEMMA SumDefined ==
  ASSUME NEW f, NEW lo \in Nat \ {0}
  PROVE  \E s : s = [i \in Nat |-> IF i < lo THEN 0 ELSE s[i - 1] + f[i]]
<1> DEFINE g(k) == CHOOSE s : DOMAIN s = 0..k /\ Upto(f, lo, s, k)
<1> DEFINE s == [k \in Nat |-> g(k)[k]]
<1>1. \A k \in Nat : Upto(f, lo, g(k), k)  BY UptoExists
<1>2. ASSUME NEW i \in Nat  PROVE s[i] = Body(f, lo, s, i)
  <2>1. g(i)[i] = Body(f, lo, g(i), i)  BY <1>1 DEF Upto
  <2>2. ASSUME i > 0  PROVE g(i)[i - 1] = g(i - 1)[i - 1]
    <3>1. Upto(f, lo, g(i - 1), i - 1) /\ Upto(f, lo, g(i), i) /\ i - 1 \in Nat
      BY <1>1, <2>2
    <3> HIDE DEF g
    <3>2. \A j \in 0..(i - 1) : g(i - 1)[j] = g(i)[j]  BY <3>1, UptoUnique
    <3> QED  BY <3>1, <3>2
  <2> HIDE DEF g
  <2>3. i > 0 => s[i - 1] = g(i)[i - 1]  BY <2>2
  <2> QED  BY <2>1, <2>3 DEF Body
<1>3. s = [i \in Nat |-> Body(f, lo, s, i)]  BY <1>2
<1> HIDE DEF s
<1> QED  BY <1>3 DEF Body

LEMMA SumStep ==
  ASSUME NEW f, NEW lo \in Nat \ {0}, NEW hi \in Nat
  PROVE  SumOf(f, lo, hi) = IF hi < lo THEN 0 ELSE SumOf(f, lo, hi - 1) + f[hi]
<1> DEFINE sum == CHOOSE s : s = [i \in Nat |-> IF i < lo THEN 0 ELSE s[i - 1] + f[i]]
<1>1. sum = [i \in Nat |-> IF i < lo THEN 0 ELSE sum[i - 1] + f[i]]  BY SumDefined
<1>2. \A i : SumOf(f, lo, i) = sum[i]  BY DEF SumOf
<1> HIDE DEF sum
<1> QED  BY <1>1, <1>2

\* A sum of integers is one, and depends on what it sums alone.
LEMMA SumEqual ==
  ASSUME NEW f, NEW g, NEW lo \in Nat \ {0}, NEW top \in Nat,
         \A i \in lo..top : f[i] \in Int /\ g[i] = f[i]
  PROVE  \A hi \in 0..top : SumOf(f, lo, hi) \in Int /\ SumOf(g, lo, hi) = SumOf(f, lo, hi)
<1> DEFINE Good(hi) == SumOf(f, lo, hi) \in Int /\ SumOf(g, lo, hi) = SumOf(f, lo, hi)
<1> DEFINE Bad == {hi \in 0..top : ~Good(hi)}
<1> SUFFICES ASSUME Bad # {}  PROVE FALSE  OBVIOUS
<1>0. Bad \in SUBSET Nat  OBVIOUS
<1>1. PICK hi \in Bad : \A j \in Bad : hi <= j  BY <1>0, LeastElement
<1>2. hi \in 0..top /\ ~Good(hi)  OBVIOUS
<1>3. ~(hi < lo)  BY <1>2, SumStep
<1>4. hi - 1 \in 0..top /\ hi \in lo..top  BY <1>2, <1>3
<1>5. Good(hi - 1)
  <2> SUFFICES ASSUME ~Good(hi - 1)  PROVE FALSE  OBVIOUS
  <2>1. hi - 1 \in Bad  BY <1>4
  <2> QED  BY <1>1, <1>2, <2>1
<1>6. /\ SumOf(f, lo, hi) = SumOf(f, lo, hi - 1) + f[hi]
      /\ SumOf(g, lo, hi) = SumOf(g, lo, hi - 1) + g[hi]
  BY <1>2, <1>3, SumStep
<1> QED  BY <1>2, <1>4, <1>5, <1>6

LEMMA SumInt ==
  ASSUME NEW f, NEW lo \in Nat \ {0}, NEW hi \in Nat, \A i \in lo..hi : f[i] \in Int
  PROVE  SumOf(f, lo, hi) \in Int
<1>1. hi \in 0..hi  OBVIOUS
<1> QED  BY <1>1, SumEqual

\* A sum in two parts.
LEMMA SumSplit ==
  ASSUME NEW f, NEW mid \in Nat, NEW top \in Nat, mid <= top,
         \A i \in 1..top : f[i] \in Int
  PROVE  \A hi \in mid..top : SumOf(f, 1, hi) = SumOf(f, 1, mid) + SumOf(f, mid + 1, hi)
<1> DEFINE Good(hi) == SumOf(f, 1, hi) = SumOf(f, 1, mid) + SumOf(f, mid + 1, hi)
<1> DEFINE Bad == {hi \in mid..top : ~Good(hi)}
<1> SUFFICES ASSUME Bad # {}  PROVE FALSE  OBVIOUS
<1>0. Bad \in SUBSET Nat  OBVIOUS
<1>1. PICK hi \in Bad : \A j \in Bad : hi <= j  BY <1>0, LeastElement
<1>2. hi \in mid..top /\ ~Good(hi)  OBVIOUS
<1>3. SumOf(f, 1, mid) \in Int
  <2>1. 1 \in Nat \ {0} /\ \A i \in 1..mid : f[i] \in Int  OBVIOUS
  <2> QED  BY <2>1, SumInt
<1>4. hi # mid
  <2>1. mid + 1 \in Nat \ {0} /\ mid < mid + 1  OBVIOUS
  <2>2. SumOf(f, mid + 1, mid) = 0  BY <2>1, SumStep
  <2> QED  BY <1>2, <1>3, <2>2
<1>5. hi - 1 \in mid..top /\ hi - 1 \in Nat /\ hi \in Nat  BY <1>2, <1>4
<1>6. Good(hi - 1)
  <2> SUFFICES ASSUME ~Good(hi - 1)  PROVE FALSE  OBVIOUS
  <2>1. hi - 1 \in Bad  BY <1>5
  <2> QED  BY <1>1, <1>2, <2>1
<1>7. /\ SumOf(f, 1, hi) = SumOf(f, 1, hi - 1) + f[hi]
      /\ SumOf(f, mid + 1, hi) = SumOf(f, mid + 1, hi - 1) + f[hi]
  <2>1. ~(hi < 1) /\ ~(hi < mid + 1) /\ mid + 1 \in Nat \ {0}  BY <1>2, <1>4
  <2> QED  BY <1>5, <2>1, SumStep
<1>8. f[hi] \in Int /\ SumOf(f, mid + 1, hi - 1) \in Int
  <2>1. hi \in 1..top /\ \A i \in (mid + 1)..(hi - 1) : i \in 1..top  BY <1>2, <1>4
  <2> QED  BY <1>5, <2>1, SumInt
<1> QED  BY <1>2, <1>3, <1>6, <1>7, <1>8

-----------------------------------------------------------------------------
(***************************************************************************)
(* Blocks.                                                                 *)
(***************************************************************************)
LEMMA Divide ==
  ASSUME NEW a \in Nat
  PROVE  /\ a \div BLOCK_SIZE \in Nat
         /\ (a \div BLOCK_SIZE) * BLOCK_SIZE \in Nat
         /\ (a \div BLOCK_SIZE) * BLOCK_SIZE <= a
         /\ a < (a \div BLOCK_SIZE) * BLOCK_SIZE + BLOCK_SIZE
  BY ScanAssumption

LEMMA Multiply ==
  ASSUME NEW a \in Nat
  PROVE  /\ a * BLOCK_SIZE \in Nat
         /\ (a + 1) * BLOCK_SIZE = a * BLOCK_SIZE + BLOCK_SIZE
         /\ \A b \in Nat : a <= b => a * BLOCK_SIZE <= b * BLOCK_SIZE
  BY ScanAssumption

LEMMA Quotient ==
  ASSUME NEW a \in Nat, NEW b \in Nat,
         b * BLOCK_SIZE <= a, a < b * BLOCK_SIZE + BLOCK_SIZE
  PROVE  a \div BLOCK_SIZE = b
<1> DEFINE q == a \div BLOCK_SIZE
<1>1. q \in Nat /\ q * BLOCK_SIZE <= a /\ a < q * BLOCK_SIZE + BLOCK_SIZE  BY Divide
<1> HIDE DEF q
<1>2. q * BLOCK_SIZE \in Nat /\ b * BLOCK_SIZE \in Nat  BY <1>1, Multiply
<1>3. ~(q < b)
  <2>1. q < b => (q + 1) * BLOCK_SIZE <= b * BLOCK_SIZE  BY <1>1, Multiply
  <2> QED  BY <1>1, <1>2, <2>1, Multiply, ScanAssumption
<1>4. ~(b < q)
  <2>1. b < q => (b + 1) * BLOCK_SIZE <= q * BLOCK_SIZE  BY <1>1, Multiply
  <2> QED  BY <1>1, <1>2, <2>1, Multiply, ScanAssumption
<1> QED  BY <1>1, <1>3, <1>4 DEF q

\* Where the block of a cell begins, and which block that is.
LEMMA BlockOf ==
  ASSUME NEW len \in Nat, NEW i \in 1..len
  PROVE  /\ BlockId(i) \in Nat /\ BlockId(i) * BLOCK_SIZE \in Nat
         /\ BlockId(i) * BLOCK_SIZE < i
         /\ i <= BlockId(i) * BLOCK_SIZE + BLOCK_SIZE
         /\ BlockId(i) <= len \div BLOCK_SIZE
<1>1. i - 1 \in Nat  OBVIOUS
<1>2. /\ BlockId(i) \in Nat /\ BlockId(i) * BLOCK_SIZE \in Nat
      /\ BlockId(i) * BLOCK_SIZE <= i - 1
      /\ i - 1 < BlockId(i) * BLOCK_SIZE + BLOCK_SIZE
  BY <1>1, Divide DEF BlockId
<1>3. BlockId(i) <= len \div BLOCK_SIZE
  <2> DEFINE q == len \div BLOCK_SIZE
  <2>1. q \in Nat /\ len < q * BLOCK_SIZE + BLOCK_SIZE /\ q * BLOCK_SIZE \in Nat  BY Divide
  <2> HIDE DEF q
  <2>2. q < BlockId(i) => (q + 1) * BLOCK_SIZE <= BlockId(i) * BLOCK_SIZE
    BY <1>2, <2>1, Multiply
  <2>3. ~(q < BlockId(i))  BY <1>2, <2>1, <2>2, Multiply, ScanAssumption
  <2> QED  BY <1>2, <2>1, <2>3 DEF q
<1> QED  BY <1>2, <1>3, ScanAssumption

\* The end of a full block.
LEMMA BlockEnds ==
  ASSUME NEW len \in Nat, NEW b \in 1..(len \div BLOCK_SIZE)
  PROVE  /\ b * BLOCK_SIZE \in 1..len
         /\ BlockId(b * BLOCK_SIZE) = b - 1
         /\ (b - 1) * BLOCK_SIZE \in Nat
         /\ (b - 1) * BLOCK_SIZE + BLOCK_SIZE = b * BLOCK_SIZE
<1>0. b \in Nat /\ b - 1 \in Nat /\ b = (b - 1) + 1  BY Divide
<1>1. (b - 1) * BLOCK_SIZE \in Nat /\ b * BLOCK_SIZE = (b - 1) * BLOCK_SIZE + BLOCK_SIZE
  BY <1>0, Multiply
<1>2. b * BLOCK_SIZE <= (len \div BLOCK_SIZE) * BLOCK_SIZE  BY <1>0, Multiply, Divide
<1>3. b * BLOCK_SIZE \in 1..len  BY <1>1, <1>2, Divide, ScanAssumption
<1>4. (b * BLOCK_SIZE - 1) \div BLOCK_SIZE = b - 1
  BY <1>0, <1>1, <1>3, Quotient, ScanAssumption
<1> QED  BY <1>1, <1>3, <1>4 DEF BlockId

\* The turns of the loop over the full blocks.
LEMMA Turns ==
  ASSUME NEW len \in Nat
  PROVE  {k \in 1..len : BlockEnd(k) <= len} = 1..(len \div BLOCK_SIZE)
<1> DEFINE q == len \div BLOCK_SIZE
<1>1. q \in Nat /\ q * BLOCK_SIZE \in Nat /\ len < q * BLOCK_SIZE + BLOCK_SIZE  BY Divide
<1>2. ASSUME NEW k \in 1..q  PROVE k \in 1..len /\ BlockEnd(k) <= len
  <2>1. k * BLOCK_SIZE \in 1..len  BY <1>2, BlockEnds
  <2>2. k \in Nat /\ k - 1 \in Nat /\ k = (k - 1) + 1  BY <1>1
  <2>3. k <= k * BLOCK_SIZE  BY <2>2, ScanAssumption
  <2> QED  BY <1>1, <2>1, <2>3 DEF BlockEnd
<1>3. ASSUME NEW k \in 1..len, k * BLOCK_SIZE <= len  PROVE k \in 1..q
  <2> HIDE DEF q
  <2>1. q < k => (q + 1) * BLOCK_SIZE <= k * BLOCK_SIZE  BY <1>1, Multiply
  <2>2. k * BLOCK_SIZE \in Nat  BY Multiply
  <2> QED  BY <1>1, <1>3, <2>1, <2>2, Multiply
<1> QED  BY <1>2, <1>3 DEF BlockEnd

\* Summing the sums of full blocks is summing what they are made of.
LEMMA BlockChain ==
  ASSUME NEW s, NEW t, NEW len \in Nat, \A i \in 1..len : s[i] \in Int,
         \A b \in 1..(len \div BLOCK_SIZE) :
            t[b] = SumOf(s, (b - 1) * BLOCK_SIZE + 1, b * BLOCK_SIZE)
  PROVE  \A b \in 0..(len \div BLOCK_SIZE) : SumOf(t, 1, b) = SumOf(s, 1, b * BLOCK_SIZE)
<1> DEFINE q == len \div BLOCK_SIZE
<1> DEFINE Good(b) == SumOf(t, 1, b) = SumOf(s, 1, b * BLOCK_SIZE)
<1> DEFINE Bad == {b \in 0..q : ~Good(b)}
<1> SUFFICES ASSUME Bad # {}  PROVE FALSE  OBVIOUS
<1>a. q \in Nat  BY Divide
<1>0. Bad \in SUBSET Nat  BY <1>a
<1>1. PICK b \in Bad : \A j \in Bad : b <= j  BY <1>0, LeastElement
<1>2. b \in 0..q /\ ~Good(b)  OBVIOUS
<1>3. b # 0
  <2>1. 0 * BLOCK_SIZE = 0  BY ScanAssumption
  <2>2. SumOf(t, 1, 0) = 0 /\ SumOf(s, 1, 0) = 0  BY SumStep
  <2> QED  BY <1>2, <2>1, <2>2
<1>4. b \in 1..q /\ b - 1 \in 0..q /\ b \in Nat /\ ~(b < 1)  BY <1>a, <1>2, <1>3
<1>5. Good(b - 1)
  <2> SUFFICES ASSUME ~Good(b - 1)  PROVE FALSE  OBVIOUS
  <2>1. b - 1 \in Bad  BY <1>4
  <2> QED  BY <1>1, <1>4, <2>1
<1>6. SumOf(t, 1, b) = SumOf(t, 1, b - 1) + t[b]  BY <1>4, SumStep
<1>7. t[b] = SumOf(s, (b - 1) * BLOCK_SIZE + 1, b * BLOCK_SIZE)  BY <1>4
<1> HIDE DEF q
<1>8. /\ b * BLOCK_SIZE \in 1..len
      /\ (b - 1) * BLOCK_SIZE \in Nat
      /\ (b - 1) * BLOCK_SIZE + BLOCK_SIZE = b * BLOCK_SIZE
  BY <1>4, BlockEnds DEF q
<1>9. SumOf(s, 1, b * BLOCK_SIZE)
        = SumOf(s, 1, (b - 1) * BLOCK_SIZE) + SumOf(s, (b - 1) * BLOCK_SIZE + 1, b * BLOCK_SIZE)
  <2> DEFINE mid == (b - 1) * BLOCK_SIZE
  <2> DEFINE hi == b * BLOCK_SIZE
  <2>1. mid \in Nat /\ hi \in mid..len /\ mid <= len  BY <1>8, ScanAssumption
  <2> HIDE DEF mid, hi
  <2>2. SumOf(s, 1, hi) = SumOf(s, 1, mid) + SumOf(s, mid + 1, hi)  BY <2>1, SumSplit
  <2> QED  BY <2>2 DEF mid, hi
<1> QED  BY <1>2, <1>5, <1>6, <1>7, <1>9

-----------------------------------------------------------------------------
(***************************************************************************)
(* The inductive invariant.                                                *)
(***************************************************************************)
Floats == Int \cup {Unset}
Vectors == Seq(Int) \cup {Unset}
Places == {"sums", "read", "call", "called", "write", "add", "read_back"}
Calls == [n : Nat, in : Nat, out : Nat, pc : Places,
          output : Vectors, sub : Nat, additions : Vectors]

\* The buffers of the call at a depth: each call works in the buffers of the
\* one before it, and makes one more.
InOf(k) == IF k = 1 THEN 1 ELSE k + 1
OutOf(k) == IF k = 1 THEN 2 ELSE InOf(k - 1)
SubOf(k) == k + 2

\* What a call was given to scan: the sums of the full blocks of its caller.
Totals(c) == [b \in Nat |-> c.output[b * BLOCK_SIZE]]
Scanned(k) == IF k = 1 THEN Input ELSE Totals(stack[k - 1])

WithinBlocks(f, s, len) ==
    \A i \in 1..len : f[i] = SumOf(s, BlockId(i) * BLOCK_SIZE + 1, i)
Prefixes(f, s, len) == \A i \in 1..len : f[i] = SumOf(s, 1, i)

\* The sizes of a call and of its buffers.
Sized(k) ==
    LET c == stack[k]
    IN  /\ c.n \in Nat \ {0}
        /\ c.n = IF k = 1 THEN n ELSE stack[k - 1].n \div BLOCK_SIZE
        /\ c.in = InOf(k) /\ c.out = OutOf(k)
        /\ c.n <= Len(buffers[InOf(k)]) /\ c.n <= Len(buffers[OutOf(k)])
        /\ c.pc \notin {"sums", "read"} => c.n > BLOCK_SIZE

\* The input of a call, while it is there, and its sums within blocks, which
\* are kept from its first kernel to its second.
Kept(k) ==
    LET c == stack[k]
    IN  /\ c.pc \in {"call", "called", "write", "add"} =>
              /\ c.output \in Seq(Int) /\ Len(c.output) = c.n
              /\ WithinBlocks(c.output, Scanned(k), c.n)
              /\ \A i \in 1..c.n : buffers[OutOf(k)][i] = c.output[i]
        /\ c.pc \in {"called", "write", "add", "read_back"} =>
              c.sub = SubOf(k) /\ Len(buffers[SubOf(k)]) = c.n \div BLOCK_SIZE

\* What the innermost call is about to use.
Working ==
    LET c == Top
    IN  /\ c.pc # "called"
        /\ c.pc = "sums" => \A i \in 1..c.n : buffers[c.in][i] = Scanned(Depth)[i]
        /\ c.pc = "read" => WithinBlocks(buffers[c.out], Scanned(Depth), c.n)
        /\ c.pc = "write" =>
              /\ c.additions \in Seq(Int) /\ Len(c.additions) = c.n \div BLOCK_SIZE
              /\ Prefixes(c.additions, Totals(c), c.n \div BLOCK_SIZE)
        /\ c.pc = "add" => Prefixes(buffers[c.sub], Totals(c), c.n \div BLOCK_SIZE)
        /\ c.pc = "read_back" => Prefixes(buffers[c.in], Scanned(Depth), c.n)
        /\ Len(buffers) = IF c.pc \in {"write", "add", "read_back"} THEN Depth + 2
                          ELSE Depth + 1

Typed ==
    /\ n \in 1..MaxLen
    /\ stack \in Seq(Calls)
    /\ buffers \in Seq(Seq(Floats))

Frame(k) == Sized(k) /\ Kept(k)

IInv ==
    /\ Typed
    /\ \A k \in 1..Depth : Frame(k)
    /\ \A k \in 1..(Depth - 1) : stack[k].pc = "called"
    /\ stack # <<>> => Working /\ result = Unset
    /\ ResultIsScan

-----------------------------------------------------------------------------
(***************************************************************************)
(* Sequences, and what a step leaves alone.                                *)
(***************************************************************************)
LEMMA FunctionSeq ==
  ASSUME NEW S, NEW k \in Nat, NEW f \in [1..k -> S]
  PROVE  f \in Seq(S) /\ Len(f) = k
  OBVIOUS

LEMMA BufferNames ==
  ASSUME NEW k \in Nat \ {0}
  PROVE  /\ InOf(k) \in 1..(k + 1) /\ OutOf(k) \in 1..(k + 1) /\ InOf(k) # OutOf(k)
         /\ SubOf(k) = k + 2 /\ OutOf(k + 1) = InOf(k) /\ InOf(k + 1) = SubOf(k)
         /\ \A j \in 1..(k - 1) : OutOf(j) \notin {InOf(k), OutOf(k), SubOf(k)}
  BY DEF InOf, OutOf, SubOf

LEMMA BufferRange ==
  ASSUME NEW k \in Nat \ {0}, NEW m \in Nat, k + 1 <= m
  PROVE  InOf(k) \in 1..m /\ OutOf(k) \in 1..m
  BY DEF InOf, OutOf

LEMMA Innermost ==
  ASSUME IInv, stack # <<>>
  PROVE  /\ Depth \in Nat \ {0} /\ Depth \in 1..Depth /\ Top \in Calls
         /\ Frame(Depth) /\ Working
         /\ Len(buffers) \in Nat /\ Len(buffers) >= Depth + 1
         /\ \A b \in 1..Len(buffers) : buffers[b] \in Seq(Floats) /\ Len(buffers[b]) \in Nat
         /\ InOf(Depth) \in 1..Len(buffers) /\ OutOf(Depth) \in 1..Len(buffers)
         /\ Top.n \in Nat \ {0}
<1>1. Depth \in Nat \ {0} /\ stack \in Seq(Calls) /\ buffers \in Seq(Seq(Floats))
  BY EmptySeq DEF IInv, Typed, Depth
<1>2. Depth \in 1..Depth /\ Top \in Calls  BY <1>1 DEF Top, Depth
<1>3. Frame(Depth) /\ Working  BY <1>2 DEF IInv
<1>4. Len(buffers) \in Nat /\ Len(buffers) >= Depth + 1  BY <1>1, <1>3 DEF Working
<1>5. \A b \in 1..Len(buffers) : buffers[b] \in Seq(Floats) /\ Len(buffers[b]) \in Nat
  BY <1>1
<1>6. Top.n \in Nat \ {0}  BY <1>3 DEF Frame, Sized, Top
<1>7. InOf(Depth) \in 1..Len(buffers) /\ OutOf(Depth) \in 1..Len(buffers)
  BY <1>1, <1>4, BufferRange
<1> QED  BY <1>1, <1>2, <1>3, <1>4, <1>5, <1>6, <1>7

\* What a call scans are integers, and so are the sums of its blocks.
LEMMA TotalsInt ==
  ASSUME NEW c, c.n \in Nat, c.output \in Seq(Int), Len(c.output) = c.n
  PROVE  \A b \in 1..(c.n \div BLOCK_SIZE) : /\ Totals(c)[b] \in Int
                                             /\ Totals(c)[b] = c.output[b * BLOCK_SIZE]
<1> TAKE b \in 1..(c.n \div BLOCK_SIZE)
<1>1. c.n \div BLOCK_SIZE \in Nat  BY Divide
<1>2. b \in Nat /\ b * BLOCK_SIZE \in 1..c.n  BY <1>1, BlockEnds
<1> QED  BY <1>2 DEF Totals

LEMMA ScannedInt ==
  ASSUME IInv, NEW k \in 1..Depth
  PROVE  \A i \in 1..stack[k].n : Scanned(k)[i] \in Int
<1>0. Depth \in Nat /\ k \in Nat  BY DEF IInv, Typed, Depth
<1>1. Sized(k)  BY DEF IInv, Frame
<1>2. CASE k = 1
  BY <1>1, <1>2, ScanAssumption DEF IInv, Typed, Sized, Scanned
<1>3. CASE k # 1
  <2>1. k - 1 \in 1..Depth /\ k - 1 \in 1..(Depth - 1)  BY <1>0, <1>3
  <2>2. Frame(k - 1) /\ stack[k - 1].pc = "called"  BY <2>1 DEF IInv
  <2>3. /\ stack[k - 1].n \in Nat /\ stack[k - 1].output \in Seq(Int)
        /\ Len(stack[k - 1].output) = stack[k - 1].n
    BY <2>2 DEF Frame, Sized, Kept
  <2>4. stack[k].n = stack[k - 1].n \div BLOCK_SIZE  BY <1>1, <1>3 DEF Sized
  <2> QED  BY <1>3, <2>3, <2>4, TotalsInt DEF Scanned
<1> QED  BY <1>2, <1>3

\* The callers' frames stay if their sizes and the buffers they keep do.
LEMMA FramesKept ==
  ASSUME IInv, NEW m \in Nat, m <= Depth, n' = n,
         \A k \in 1..m : stack'[k] = stack[k] /\ buffers'[OutOf(k)] = buffers[OutOf(k)],
         \A b \in 1..(m + 2) : Len(buffers'[b]) = Len(buffers[b])
  PROVE  \A k \in 1..m : Frame(k)'
<1> TAKE k \in 1..m
<1>0. Depth \in Nat /\ k \in Nat \ {0} /\ k \in 1..Depth  BY DEF IInv, Typed, Depth
<1>1. Frame(k)  BY <1>0 DEF IInv
<1>2. stack'[k] = stack[k] /\ (k # 1 => stack'[k - 1] = stack[k - 1])  BY <1>0
<1>3. Scanned(k)' = Scanned(k)  BY <1>2 DEF Scanned, Totals
<1>4. InOf(k) \in 1..(m + 2) /\ OutOf(k) \in 1..(m + 2) /\ SubOf(k) \in 1..(m + 2)
  <2>1. k <= m /\ k + 1 <= m + 2 /\ m + 2 \in Nat  BY <1>0
  <2>2. InOf(k) \in 1..(m + 2) /\ OutOf(k) \in 1..(m + 2)  BY <1>0, <2>1, BufferRange
  <2>3. SubOf(k) \in 1..(m + 2)  BY <1>0, <2>1 DEF SubOf
  <2> QED  BY <2>2, <2>3
<1>5. /\ Len(buffers'[InOf(k)]) = Len(buffers[InOf(k)])
      /\ Len(buffers'[OutOf(k)]) = Len(buffers[OutOf(k)])
      /\ Len(buffers'[SubOf(k)]) = Len(buffers[SubOf(k)])
      /\ buffers'[OutOf(k)] = buffers[OutOf(k)]
  BY <1>4
<1>6. Sized(k)'  BY <1>1, <1>2, <1>5 DEF Frame, Sized
<1>7. Kept(k)'  BY <1>1, <1>2, <1>3, <1>5 DEF Frame, Kept, WithinBlocks
<1> QED  BY <1>6, <1>7 DEF Frame

\* A step of the innermost call, at depth k, which goes on as d.
LEMMA SameDepth ==
  ASSUME IInv, stack # <<>>, NEW k, k = Depth, NEW d \in Calls, Update(d),
         UNCHANGED <<n, result>>,
         d.n = Top.n, d.in = Top.in, d.out = Top.out,
         d.pc \notin {"sums", "read"} => d.n > BLOCK_SIZE,
         buffers' \in Seq(Seq(Floats)), Len(buffers') = Len(buffers),
         \A b \in 1..Len(buffers) : Len(buffers'[b]) = Len(buffers[b]),
         \A j \in 1..(k - 1) : buffers'[OutOf(j)] = buffers[OutOf(j)]
  PROVE  /\ Depth' = k /\ Top' = d /\ stack'[k] = d /\ Scanned(k)' = Scanned(k)
         /\ Kept(k)' /\ Working' => IInv'
<1>1. k \in Nat \ {0} /\ k \in 1..k /\ stack \in Seq(Calls) /\ Sized(k) /\ Top = stack[k]
  BY Innermost DEF IInv, Typed, Frame, Top
<1>2. stack' = [stack EXCEPT ![k] = d]  BY DEF Update
<1>3. /\ stack' \in Seq(Calls) /\ Depth' = k /\ stack'[k] = d
      /\ \A j \in 1..(k - 1) : stack'[j] = stack[j]
  BY <1>1, <1>2, ExceptSeq DEF Depth
<1>4. Top' = d  BY <1>3 DEF Top
<1>5. k # 1 => stack'[k - 1] = stack[k - 1]  BY <1>1, <1>3
<1>6. Scanned(k)' = Scanned(k)  BY <1>5 DEF Scanned, Totals
<1>7. Sized(k)'
  <2>1. InOf(k) \in 1..Len(buffers) /\ OutOf(k) \in 1..Len(buffers)  BY Innermost
  <2>2. /\ Len(buffers'[InOf(k)]) = Len(buffers[InOf(k)])
        /\ Len(buffers'[OutOf(k)]) = Len(buffers[OutOf(k)])
    BY <2>1
  <2> QED  BY <1>1, <1>3, <1>5, <2>2 DEF Sized
<1>8. ASSUME Kept(k)', Working'  PROVE IInv'
  <2>1. Typed'  BY <1>3 DEF IInv, Typed
  <2>2. \A j \in 1..(k - 1) : Frame(j)'
    <3>1. k - 1 \in Nat /\ k - 1 <= Depth  BY <1>1
    <3>2. \A b \in 1..((k - 1) + 2) : Len(buffers'[b]) = Len(buffers[b])
      BY <1>1, Innermost
    <3> QED  BY <1>3, <3>1, <3>2, FramesKept
  <2>3. \A j \in 1..Depth' : Frame(j)'
    <3> TAKE j \in 1..Depth'
    <3>0. j \in 1..k  BY <1>3
    <3>1. CASE j = k  BY <1>7, <1>8, <3>1 DEF Frame
    <3>2. CASE j # k
      <4>1. j \in 1..(k - 1)  BY <1>1, <3>0, <3>2
      <4> QED  BY <2>2, <4>1
    <3> QED  BY <3>1, <3>2
  <2>4. \A j \in 1..(Depth' - 1) : stack'[j].pc = "called"  BY <1>3 DEF IInv
  <2>5. stack' # <<>> => Working' /\ result' = Unset  BY <1>8 DEF IInv
  <2>6. ResultIsScan'  BY DEF IInv, ResultIsScan
  <2> QED  BY <2>1, <2>3, <2>4, <2>5, <2>6 DEF IInv
<1> QED  BY <1>3, <1>4, <1>6, <1>8

LEMMA SetBuffer ==
  ASSUME buffers \in Seq(Seq(Floats)), NEW b \in 1..Len(buffers), NEW v \in Seq(Floats),
         Len(v) = Len(buffers[b]), buffers' = [buffers EXCEPT ![b] = v]
  PROVE  /\ buffers' \in Seq(Seq(Floats)) /\ Len(buffers') = Len(buffers)
         /\ buffers'[b] = v
         /\ \A x \in 1..Len(buffers) : Len(buffers'[x]) = Len(buffers[x])
         /\ \A x : x # b => buffers'[x] = buffers[x]
<1>1. /\ buffers' \in Seq(Seq(Floats)) /\ Len(buffers') = Len(buffers)
      /\ \A x \in 1..Len(buffers) : buffers'[x] = IF x = b THEN v ELSE buffers[x]
  BY ExceptSeq
<1>2. \A x : x # b => buffers'[x] = buffers[x]  OBVIOUS
<1> QED  BY <1>1, <1>2


\* What the innermost call, at depth k, may use.
LEMMA Current ==
  ASSUME IInv, stack # <<>>, NEW k, k = Depth
  PROVE  /\ k \in Nat \ {0} /\ Top \in Calls /\ Top = stack[k]
         /\ Top.in = InOf(k) /\ Top.out = OutOf(k) /\ Top.n \in Nat \ {0}
         /\ InOf(k) \in 1..Len(buffers) /\ OutOf(k) \in 1..Len(buffers)
         /\ InOf(k) # OutOf(k)
         /\ buffers[InOf(k)] \in Seq(Floats) /\ buffers[OutOf(k)] \in Seq(Floats)
         /\ Top.n <= Len(buffers[InOf(k)]) /\ Top.n <= Len(buffers[OutOf(k)])
         /\ \A i \in 1..Top.n : Scanned(k)[i] \in Int
         /\ Sized(k) /\ Kept(k) /\ Working
         /\ buffers \in Seq(Seq(Floats))
<1>1. k \in Nat \ {0} /\ k \in 1..Depth /\ Top \in Calls /\ Top = stack[k]
  BY Innermost DEF Top
<1>2. Sized(k) /\ Kept(k) /\ Working  BY Innermost DEF Frame
<1>3. InOf(k) # OutOf(k)  BY <1>1, BufferNames
<1>4. \A i \in 1..Top.n : Scanned(k)[i] \in Int  BY <1>1, ScannedInt
<1>5. InOf(k) \in 1..Len(buffers) /\ OutOf(k) \in 1..Len(buffers)  BY Innermost
<1>6. buffers \in Seq(Seq(Floats))  BY DEF IInv, Typed
<1>7. buffers[InOf(k)] \in Seq(Floats) /\ buffers[OutOf(k)] \in Seq(Floats)  BY <1>5, <1>6
<1>8. /\ Top.in = InOf(k) /\ Top.out = OutOf(k) /\ Top.n \in Nat \ {0}
      /\ Top.n <= Len(buffers[InOf(k)]) /\ Top.n <= Len(buffers[OutOf(k)])
  BY <1>1, <1>2 DEF Sized
<1> QED  BY <1>1, <1>2, <1>3, <1>4, <1>5, <1>6, <1>7, <1>8

\* The kernels' results, cell by cell.
LEMMA SumInBlock ==
  ASSUME NEW s, NEW t, NEW len \in Nat, NEW i \in 1..len, NEW start \in Nat,
         \A x \in 1..len : s[x] \in Int /\ t[x] = s[x]
  PROVE  SumOf(t, start + 1, i) = SumOf(s, start + 1, i) /\ SumOf(s, start + 1, i) \in Int
<1> PICK lo : lo = start + 1  OBVIOUS
<1>1. lo \in Nat \ {0}  OBVIOUS
<1>2. i \in 0..len  OBVIOUS
<1>3. \A x \in lo..len : s[x] \in Int /\ t[x] = s[x]  OBVIOUS
<1>4. \A hi \in 0..len : SumOf(s, lo, hi) \in Int /\ SumOf(t, lo, hi) = SumOf(s, lo, hi)
  BY <1>1, <1>3, SumEqual
<1> QED  BY <1>2, <1>4

LEMMA BlockSumsVector ==
  ASSUME NEW in, NEW len \in Nat, NEW out \in Seq(Floats), len <= Len(out),
         \A i \in 1..len : in[i] \in Int
  PROVE  LET v == BlockSumsKernel(in, out, len)
         IN  v \in Seq(Floats) /\ Len(v) = Len(out)
<1> DEFINE v == BlockSumsKernel(in, out, len)
<1>1. \A i \in 1..Len(out) :
        (IF i <= len THEN SumOf(in, BlockId(i) * BLOCK_SIZE + 1, i) ELSE out[i]) \in Floats
  <2> TAKE i \in 1..Len(out)
  <2>1. CASE i <= len
    <3>1. i \in 1..len  BY <2>1
    <3>2. BlockId(i) * BLOCK_SIZE \in Nat  BY <3>1, BlockOf
    <3>3. SumOf(in, BlockId(i) * BLOCK_SIZE + 1, i) \in Int  BY <3>1, <3>2, SumInBlock
    <3> QED  BY <2>1, <3>3 DEF Floats
  <2>2. CASE ~(i <= len)
    <3>1. out[i] \in Floats  OBVIOUS
    <3> QED  BY <2>2, <3>1
  <2> QED  BY <2>1, <2>2
<1>2. Len(out) \in Nat /\ v \in [1..Len(out) -> Floats]  BY <1>1 DEF BlockSumsKernel
<1> QED  BY <1>2, FunctionSeq

LEMMA BlockSumsResult ==
  ASSUME NEW s, NEW in, NEW len \in Nat, NEW out \in Seq(Floats), len <= Len(out),
         \A i \in 1..len : s[i] \in Int /\ in[i] = s[i]
  PROVE  WithinBlocks(BlockSumsKernel(in, out, len), s, len)
<1>1. ASSUME NEW i \in 1..len
      PROVE  LET lo == BlockId(i) * BLOCK_SIZE + 1 IN SumOf(in, lo, i) = SumOf(s, lo, i)
  <2>1. BlockId(i) * BLOCK_SIZE \in Nat  BY BlockOf
  <2> QED  BY <2>1, SumInBlock
<1>2. Len(out) \in Nat  OBVIOUS
<1> QED  BY <1>1, <1>2 DEF WithinBlocks, BlockSumsKernel

-----------------------------------------------------------------------------
(***************************************************************************)
(* The steps.                                                              *)
(***************************************************************************)
LEMMA RunBlockSumsStep ==
  ASSUME IInv, RunBlockSums
  PROVE  IInv'
<1>0. stack # <<>> /\ Top.pc = "sums"  BY DEF RunBlockSums, At
<1> PICK k : k = Depth  OBVIOUS
<1> DEFINE kernel == BlockSumsKernel(buffers[Top.in], buffers[Top.out], Top.n)
<1> DEFINE d == [Top EXCEPT !.pc = "read"]
<1>1. /\ k \in Nat \ {0} /\ Top \in Calls /\ Top = stack[k]
      /\ Top.in = InOf(k) /\ Top.out = OutOf(k) /\ Top.n \in Nat \ {0}
      /\ OutOf(k) \in 1..Len(buffers)
      /\ buffers[OutOf(k)] \in Seq(Floats) /\ Top.n <= Len(buffers[OutOf(k)])
      /\ \A i \in 1..Top.n : Scanned(k)[i] \in Int
      /\ Kept(k) /\ Working /\ buffers \in Seq(Seq(Floats))
  BY <1>0, Current
<1>2. \A i \in 1..Top.n : Scanned(k)[i] \in Int /\ buffers[Top.in][i] = Scanned(k)[i]
  BY <1>0, <1>1 DEF Working
<1>3. kernel \in Seq(Floats) /\ Len(kernel) = Len(buffers[OutOf(k)])
  <2>1. /\ buffers[Top.out] \in Seq(Floats) /\ Top.n <= Len(buffers[Top.out])
        /\ Top.n \in Nat /\ \A i \in 1..Top.n : buffers[Top.in][i] \in Int
    BY <1>1, <1>2
  <2>2. kernel \in Seq(Floats)  BY <2>1, BlockSumsVector
  <2>3. Len(kernel) = Len(buffers[Top.out])  BY <2>1, BlockSumsVector
  <2> QED  BY <1>1, <2>2, <2>3
<1>4. WithinBlocks(kernel, Scanned(k), Top.n)  BY <1>1, <1>2, BlockSumsResult
<1>5. /\ buffers' \in Seq(Seq(Floats)) /\ Len(buffers') = Len(buffers)
      /\ \A x \in 1..Len(buffers) : Len(buffers'[x]) = Len(buffers[x])
      /\ \A j \in 1..(k - 1) : buffers'[OutOf(j)] = buffers[OutOf(j)]
      /\ buffers'[OutOf(k)] = kernel
  <2>1. buffers' = [buffers EXCEPT ![OutOf(k)] = kernel]  BY <1>1 DEF RunBlockSums
  <2> HIDE DEF kernel
  <2>2. /\ buffers' \in Seq(Seq(Floats)) /\ Len(buffers') = Len(buffers)
        /\ \A x \in 1..Len(buffers) : Len(buffers'[x]) = Len(buffers[x])
        /\ buffers'[OutOf(k)] = kernel /\ \A x : x # OutOf(k) => buffers'[x] = buffers[x]
    BY <1>1, <1>3, <2>1, SetBuffer
  <2>3. \A j \in 1..(k - 1) : OutOf(j) # OutOf(k)  BY <1>1, BufferNames
  <2> QED  BY <2>2, <2>3
<1> HIDE DEF kernel
<1>6. d \in Calls /\ d.n = Top.n /\ d.in = Top.in /\ d.out = Top.out /\ d.pc = "read"
  BY <1>1 DEF Calls, Places
<1>7. Update(d) /\ UNCHANGED <<n, result>>  BY DEF RunBlockSums
<1> HIDE DEF d
<1>8. /\ Depth' = k /\ Top' = d /\ stack'[k] = d /\ Scanned(k)' = Scanned(k)
      /\ Kept(k)' /\ Working' => IInv'
  BY <1>0, <1>5, <1>6, <1>7, SameDepth
<1>9. Kept(k)'  BY <1>6, <1>8 DEF Kept
<1>10. Working'
  <2>1. Len(buffers') = k + 1  BY <1>0, <1>1, <1>5 DEF Working
  <2>2. WithinBlocks(buffers'[d.out], Scanned(k), d.n)  BY <1>1, <1>4, <1>5, <1>6
  <2>3. WithinBlocks(buffers'[Top'.out], Scanned(Depth)', Top'.n)  BY <1>8, <2>2
  <2> QED  BY <1>6, <1>8, <2>1, <2>3 DEF Working
<1> QED  BY <1>8, <1>9, <1>10
LEMMA SubSeqInts ==
  ASSUME NEW S, NEW s, NEW len \in Nat, \A i \in 1..len : s[i] \in S
  PROVE  /\ SubSeq(s, 1, len) \in Seq(S) /\ Len(SubSeq(s, 1, len)) = len
         /\ \A i \in 1..len : SubSeq(s, 1, len)[i] = s[i]
<1>1. PICK m \in Int : m = 1  OBVIOUS
<1>2. len \in Int /\ (m <= len \/ len = 0)  BY <1>1
<1>3. \A i \in m..len : s[i] \in S  BY <1>1
<1>4. /\ SubSeq(s, m, len) \in Seq(S)
      /\ Len(SubSeq(s, m, len)) = IF m <= len THEN len - m + 1 ELSE 0
      /\ \A i \in 1..(len - m + 1) : SubSeq(s, m, len)[i] = s[m + i - 1]
  BY <1>2, <1>3, SubSeqProperties
<1>5. \A i \in 1..len : i \in 1..(len - m + 1) /\ m + i - 1 = i  BY <1>1
<1> QED  BY <1>1, <1>2, <1>4, <1>5

\* The innermost call, at depth k, returns v.
LEMMA OutermostReturns ==
  ASSUME IInv, stack # <<>>, Depth = 1,
         NEW v, Len(v) = Top.n, Prefixes(v, Scanned(1), Top.n), Return(v), n' = n,
         buffers' \in Seq(Seq(Floats))
  PROVE  IInv'
<1>1. stack' = <<>> /\ result' = v  BY DEF Return
<1>2. Depth' = 0  BY <1>1, EmptySeq DEF Depth
<1>3. Top.n = n /\ Scanned(1) = Input
  <2>1. Sized(1) /\ Top = stack[1]  BY Current
  <2> QED  BY <2>1 DEF Sized, Scanned
<1>4. Typed'  BY <1>1, EmptySeq DEF IInv, Typed
<1>5. ResultIsScan'  BY <1>1, <1>3 DEF ResultIsScan, Prefixes
<1>6. (\A k \in 1..Depth : Frame(k))' /\ (\A k \in 1..(Depth - 1) : stack[k].pc = "called")'
  BY <1>2
<1> QED  BY <1>1, <1>4, <1>5, <1>6 DEF IInv

LEMMA InnerReturns ==
  ASSUME IInv, stack # <<>>, NEW k, k = Depth, k # 1,
         NEW v, v \in Seq(Int), Len(v) = Top.n, Prefixes(v, Scanned(k), Top.n),
         Return(v), n' = n,
         buffers' \in Seq(Seq(Floats)), Len(buffers') = k + 1,
         \A b \in 1..(k + 1) : buffers'[b] = buffers[b]
  PROVE  IInv'
<1> DEFINE p == k - 1
<1> DEFINE c == stack[p]
<1> DEFINE e == [c EXCEPT !.additions = v, !.pc = "write"]
<1>1. /\ k \in Nat \ {0} /\ k = p + 1 /\ p \in Nat \ {0} /\ p \in 1..p
      /\ p \in 1..Depth /\ p \in 1..(Depth - 1)
      /\ stack \in Seq(Calls) /\ Len(stack) = k
  <2>1. k \in Nat \ {0} /\ stack \in Seq(Calls) /\ Len(stack) = k
    BY Innermost DEF IInv, Typed, Depth
  <2> QED  BY <2>1
<1>2. c \in Calls /\ Sized(p) /\ Kept(p) /\ c.pc = "called"
  <2>1. Frame(p) /\ c.pc = "called"  BY <1>1 DEF IInv
  <2> QED  BY <1>1, <2>1 DEF Frame
<1>3. e \in Calls /\ e.pc = "write" /\ e.additions = v /\ e.n = c.n /\ e.in = c.in
      /\ e.out = c.out /\ e.output = c.output /\ e.sub = c.sub
  BY <1>2 DEF Calls, Places, Vectors
<1>4. /\ stack' \in Seq(Calls) /\ Len(stack') = p /\ stack'[p] = e
      /\ \A j \in 1..p : j # p => stack'[j] = stack[j]
  <2> DEFINE rest == SubSeq(stack, 1, p)
  <2>1. rest \in Seq(Calls) /\ Len(rest) = p /\ \A j \in 1..p : rest[j] = stack[j]
    <3>1. \A j \in 1..p : stack[j] \in Calls  BY <1>1
    <3> QED  BY <1>1, <3>1, SubSeqInts
  <2>2. stack' = [rest EXCEPT ![p] = [rest[p] EXCEPT !.additions = v, !.pc = "write"]]
    BY DEF Return
  <2>3. rest[p] = stack[p]  BY <1>1, <2>1
  <2>4. stack' = [rest EXCEPT ![p] = e]  BY <2>2, <2>3
  <2> HIDE DEF e, rest
  <2> QED  BY <1>1, <1>3, <2>1, <2>4, ExceptSeq
<1>5. result' = result /\ result = Unset  BY DEF Return, IInv
<1> HIDE DEF p, c, e
<1>6. Depth' = p /\ Top' = e  BY <1>4 DEF Depth, Top
<1>7. Typed'  BY <1>4 DEF IInv, Typed
<1>8. \A j \in 1..p : j # p => Frame(j)'
  <2>1. \A j \in 1..(p - 1) : Frame(j)'
    <3>1. p - 1 \in Nat /\ p - 1 <= Depth  BY <1>1
    <3>2. \A b \in 1..((p - 1) + 2) : Len(buffers'[b]) = Len(buffers[b])  BY <1>1
    <3>3. ASSUME NEW j \in 1..(p - 1)
          PROVE stack'[j] = stack[j] /\ buffers'[OutOf(j)] = buffers[OutOf(j)]
      <4>1. j \in Nat \ {0} /\ j \in 1..p /\ j # p /\ k + 1 \in Nat /\ j + 1 <= k + 1
        BY <1>1
      <4>2. OutOf(j) \in 1..(k + 1)  BY <4>1, BufferRange
      <4> QED  BY <1>4, <4>1, <4>2
    <3> QED  BY <3>1, <3>2, <3>3, FramesKept
  <2> QED  BY <1>1, <2>1
<1>9. Scanned(p)' = Scanned(p) /\ (p # 1 => stack'[p - 1] = stack[p - 1])
  <2>1. p # 1 => stack'[p - 1] = stack[p - 1]  BY <1>1, <1>4
  <2> QED  BY <2>1 DEF Scanned, Totals
<1>10. Frame(p)'
  <2>1. InOf(p) \in 1..(k + 1) /\ OutOf(p) \in 1..(k + 1) /\ SubOf(p) \in 1..(k + 1)
    <3>1. p + 1 <= k + 1 /\ k + 1 \in Nat  BY <1>1
    <3>2. SubOf(p) \in 1..(k + 1)  BY <1>1 DEF SubOf
    <3> QED  BY <1>1, <3>1, <3>2, BufferRange
  <2>2. /\ buffers'[InOf(p)] = buffers[InOf(p)]
        /\ buffers'[OutOf(p)] = buffers[OutOf(p)]
        /\ buffers'[SubOf(p)] = buffers[SubOf(p)]
    BY <2>1
  <2>3. Sized(p)'  BY <1>2, <1>3, <1>4, <1>9, <2>2 DEF Sized, c
  <2>4. Kept(p)'  BY <1>2, <1>3, <1>4, <1>9, <2>2 DEF Kept, WithinBlocks, c
  <2> QED  BY <2>3, <2>4 DEF Frame
<1>11. Working'
  <2>1. Top.n = c.n \div BLOCK_SIZE
    <3>1. Sized(k) /\ Top = stack[k]  BY Current
    <3> QED  BY <1>1, <3>1 DEF Sized, c, p
  <2>2. Totals(e) = Scanned(k)  BY <1>3 DEF Totals, Scanned, c, p
  <2>3. Len(v) = e.n \div BLOCK_SIZE /\ Prefixes(v, Totals(e), e.n \div BLOCK_SIZE)
    BY <1>3, <2>1, <2>2
  <2>4. Len(buffers') = Depth' + 2  BY <1>1, <1>6
  <2> QED  BY <1>3, <1>6, <2>3, <2>4 DEF Working
<1>12. \A j \in 1..(Depth' - 1) : stack'[j].pc = "called"
  <2> TAKE j \in 1..(Depth' - 1)
  <2>1. j \in 1..p /\ j # p /\ j \in 1..(Depth - 1)  BY <1>1, <1>6
  <2> QED  BY <1>4, <2>1 DEF IInv
<1>13. \A j \in 1..Depth' : Frame(j)'  BY <1>6, <1>8, <1>10
<1>14. ResultIsScan'  BY <1>5 DEF ResultIsScan
<1> QED  BY <1>5, <1>7, <1>11, <1>12, <1>13, <1>14 DEF IInv

\* What a call reads from its output buffer.
LEMMA OutputRead ==
  ASSUME IInv, At("read"), NEW k, k = Depth
  PROVE  /\ ReadBuffer(Top.out, Top.n) \in Seq(Int)
         /\ Len(ReadBuffer(Top.out, Top.n)) = Top.n
         /\ WithinBlocks(ReadBuffer(Top.out, Top.n), Scanned(k), Top.n)
         /\ \A i \in 1..Top.n : ReadBuffer(Top.out, Top.n)[i] = buffers[OutOf(k)][i]
<1>1. stack # <<>> /\ Top.pc = "read"  BY DEF At
<1>2. /\ Top.out = OutOf(k) /\ Top.n \in Nat \ {0} /\ Working
      /\ \A i \in 1..Top.n : Scanned(k)[i] \in Int
  BY <1>1, Current
<1>3. WithinBlocks(buffers[Top.out], Scanned(k), Top.n)  BY <1>1, <1>2 DEF Working
<1>4. \A i \in 1..Top.n : buffers[Top.out][i] \in Int
  <2> TAKE i \in 1..Top.n
  <2>1. BlockId(i) * BLOCK_SIZE \in Nat  BY <1>2, BlockOf
  <2>2. SumOf(Scanned(k), BlockId(i) * BLOCK_SIZE + 1, i) \in Int
    BY <1>2, <2>1, SumInBlock
  <2> QED  BY <1>3, <2>2 DEF WithinBlocks
<1>5. /\ ReadBuffer(Top.out, Top.n) \in Seq(Int) /\ Len(ReadBuffer(Top.out, Top.n)) = Top.n
      /\ \A i \in 1..Top.n : ReadBuffer(Top.out, Top.n)[i] = buffers[Top.out][i]
  BY <1>2, <1>4, SubSeqInts DEF ReadBuffer
<1>6. WithinBlocks(ReadBuffer(Top.out, Top.n), Scanned(k), Top.n)
  BY <1>3, <1>5 DEF WithinBlocks
<1> QED  BY <1>2, <1>5, <1>6

\* Within a single block the sums within blocks are the prefix sums.
LEMMA OneBlock ==
  ASSUME NEW f, NEW s, NEW len \in Nat, len <= BLOCK_SIZE, WithinBlocks(f, s, len)
  PROVE  Prefixes(f, s, len)
<1> SUFFICES ASSUME NEW i \in 1..len  PROVE f[i] = SumOf(s, 1, i)  BY DEF Prefixes
<1>1. BlockId(i) = 0
  <2>1. i - 1 \in Nat /\ 0 * BLOCK_SIZE = 0 /\ 0 <= i - 1 /\ i - 1 < BLOCK_SIZE
    BY ScanAssumption
  <2>2. (i - 1) \div BLOCK_SIZE = 0  BY <2>1, Quotient, ScanAssumption
  <2> QED  BY <2>2 DEF BlockId
<1>2. f[i] = SumOf(s, BlockId(i) * BLOCK_SIZE + 1, i)  BY DEF WithinBlocks
<1>3. BlockId(i) * BLOCK_SIZE + 1 = 1  BY <1>1, ScanAssumption
<1> QED  BY <1>2, <1>3

LEMMA Returns ==
  ASSUME IInv, stack # <<>>, NEW k, k = Depth,
         NEW v, v \in Seq(Int), Len(v) = Top.n, Prefixes(v, Scanned(k), Top.n),
         Return(v), n' = n,
         buffers' \in Seq(Seq(Floats)), Len(buffers') = k + 1,
         \A b \in 1..(k + 1) : buffers'[b] = buffers[b]
  PROVE  IInv'
<1>1. CASE k = 1  BY <1>1, OutermostReturns
<1>2. CASE k # 1  BY <1>2, InnerReturns
<1> QED  BY <1>1, <1>2

LEMMA ReadOutputStep ==
  ASSUME IInv, ReadOutput
  PROVE  IInv'
<1>0. stack # <<>> /\ Top.pc = "read" /\ At("read")  BY DEF ReadOutput, At
<1> PICK k : k = Depth  OBVIOUS
<1> DEFINE output == ReadBuffer(Top.out, Top.n)
<1> DEFINE d == [Top EXCEPT !.pc = "call", !.output = output]
<1>1. /\ k \in Nat \ {0} /\ Top \in Calls /\ Top.n \in Nat \ {0}
      /\ Working /\ buffers \in Seq(Seq(Floats))
  BY <1>0, Current
<1>2. /\ output \in Seq(Int) /\ Len(output) = Top.n
      /\ WithinBlocks(output, Scanned(k), Top.n)
      /\ \A i \in 1..Top.n : output[i] = buffers[OutOf(k)][i]
  BY <1>0, OutputRead
<1>3. buffers' = buffers /\ n' = n /\ Len(buffers) = k + 1
  BY <1>0, <1>1 DEF ReadOutput, Working
<1>4. CASE Top.n <= BLOCK_SIZE
  <2>1. Return(output)  BY <1>4 DEF ReadOutput
  <2> HIDE DEF output
  <2>2. Prefixes(output, Scanned(k), Top.n)  BY <1>1, <1>2, <1>4, OneBlock
  <2>3. /\ buffers' \in Seq(Seq(Floats)) /\ Len(buffers') = k + 1
        /\ \A b \in 1..(k + 1) : buffers'[b] = buffers[b]
    BY <1>1, <1>3
  <2> QED  BY <1>0, <1>2, <1>3, <2>1, <2>2, <2>3, Returns
<1>5. CASE ~(Top.n <= BLOCK_SIZE)
  <2>1. Update(d) /\ UNCHANGED <<n, result>>  BY <1>5 DEF ReadOutput
  <2> HIDE DEF output
  <2>2. /\ d \in Calls /\ d.n = Top.n /\ d.in = Top.in /\ d.out = Top.out
        /\ d.pc = "call" /\ d.output = output
    BY <1>1, <1>2 DEF Calls, Places, Vectors
  <2>3. d.n > BLOCK_SIZE  BY <1>1, <1>5, <2>2, ScanAssumption
  <2> HIDE DEF d
  <2>4. /\ buffers' \in Seq(Seq(Floats)) /\ Len(buffers') = Len(buffers)
        /\ \A b \in 1..Len(buffers) : Len(buffers'[b]) = Len(buffers[b])
        /\ \A j \in 1..(k - 1) : buffers'[OutOf(j)] = buffers[OutOf(j)]
    BY <1>1, <1>3
  <2>5. /\ Depth' = k /\ Top' = d /\ stack'[k] = d /\ Scanned(k)' = Scanned(k)
        /\ Kept(k)' /\ Working' => IInv'
    BY <1>0, <2>1, <2>2, <2>3, <2>4, SameDepth
  <2>6. Kept(k)'
    <3>1. \A i \in 1..d.n : buffers'[OutOf(k)][i] = d.output[i]  BY <1>2, <1>3, <2>2
    <3>2. /\ d.output \in Seq(Int) /\ Len(d.output) = d.n
          /\ WithinBlocks(d.output, Scanned(k), d.n)
      BY <1>2, <2>2
    <3> QED  BY <2>2, <2>5, <3>1, <3>2 DEF Kept
  <2>7. Working'  BY <1>3, <2>2, <2>5 DEF Working
  <2> QED  BY <2>5, <2>6, <2>7
<1> QED  BY <1>4, <1>5

\* The input of the recursion: the last sum of every full block.
LEMMA TotalsVector ==
  ASSUME Top.n \in Nat, Top.output \in Seq(Int), Len(Top.output) = Top.n
  PROVE  /\ BlockTotals \in Seq(Int) /\ Len(BlockTotals) = Top.n \div BLOCK_SIZE
         /\ \A b \in 1..(Top.n \div BLOCK_SIZE) : BlockTotals[b] = Totals(Top)[b]
<1> DEFINE q == Top.n \div BLOCK_SIZE
<1>1. q \in Nat  BY Divide
<1>2. {k \in 1..Top.n : BlockEnd(k) <= Top.n} = 1..q  BY Turns
<1>3. Cardinality(1..q) = q
  <2>1. 1 \in Int /\ q \in Int  BY <1>1
  <2>2. Cardinality(1..q) = IF 1 > q THEN 0 ELSE q - 1 + 1  BY <2>1, FS_Interval
  <2> HIDE DEF q
  <2> QED  BY <1>1, <2>2
<1>4. BlockTotals = [b \in 1..q |-> Top.output[b * BLOCK_SIZE]]
  BY <1>2, <1>3 DEF BlockTotals, BlockEnd
<1>5. \A b \in 1..q : Totals(Top)[b] \in Int /\ Totals(Top)[b] = Top.output[b * BLOCK_SIZE]
  BY TotalsInt
<1> HIDE DEF q
<1>6. BlockTotals \in [1..q -> Int]  BY <1>4, <1>5
<1>7. BlockTotals \in Seq(Int) /\ Len(BlockTotals) = q  BY <1>1, <1>6, FunctionSeq
<1>8. \A b \in 1..q : BlockTotals[b] = Totals(Top)[b]  BY <1>4, <1>5
<1> QED  BY <1>7, <1>8 DEF q

LEMMA DescendStep ==
  ASSUME IInv, Descend
  PROVE  IInv'
<1>0. stack # <<>> /\ Top.pc = "call"  BY DEF Descend, At
<1> PICK k : k = Depth  OBVIOUS
<1> DEFINE c == Top
<1> DEFINE e == [c EXCEPT !.pc = "called", !.sub = k + 2]
<1> DEFINE f == Call(c.n \div BLOCK_SIZE, k + 2, c.in)
<1> PICK q : q = c.n \div BLOCK_SIZE  OBVIOUS
<1> PICK deeper : deeper = k + 1  OBVIOUS
<1>1. /\ k \in Nat \ {0} /\ k \in 1..Depth /\ c \in Calls /\ c = stack[k] /\ c.n \in Nat \ {0}
      /\ Sized(k) /\ Kept(k) /\ Working /\ buffers \in Seq(Seq(Floats))
      /\ c.in = InOf(k) /\ c.out = OutOf(k)
  BY <1>0, Current, Innermost
<1>2. /\ c.output \in Seq(Int) /\ Len(c.output) = c.n /\ WithinBlocks(c.output, Scanned(k), c.n)
      /\ \A i \in 1..c.n : buffers[OutOf(k)][i] = c.output[i]
  BY <1>0, <1>1 DEF Kept
<1>3. c.n > BLOCK_SIZE  BY <1>0, <1>1 DEF Sized
<1>4. q \in Nat \ {0} /\ q <= c.n
  <2>1. q \in Nat /\ q * BLOCK_SIZE \in Nat /\ c.n < q * BLOCK_SIZE + BLOCK_SIZE
    BY <1>1, Divide
  <2>2. q # 0
    <3> SUFFICES ASSUME q = 0  PROVE FALSE  OBVIOUS
    <3> PICK full : full = q * BLOCK_SIZE  OBVIOUS
    <3>1. full = 0 * BLOCK_SIZE  OBVIOUS
    <3>2. 0 * BLOCK_SIZE = 0  BY ScanAssumption
    <3>3. full = 0 /\ c.n < full + BLOCK_SIZE  BY <2>1, <3>1, <3>2
    <3>4. c.n \in Nat /\ BLOCK_SIZE \in Nat  BY <1>1, ScanAssumption
    <3> HIDE DEF c
    <3> QED  BY <1>3, <3>3, <3>4
  <2>3. q \in 1..q  BY <2>1, <2>2
  <2>4. q * BLOCK_SIZE \in 1..c.n  BY <1>1, <2>3, BlockEnds
  <2>5. q <= q * BLOCK_SIZE
    <3>1. PICK m \in Nat : m = q - 1  BY <2>1, <2>2
    <3> QED  BY <2>1, <3>1, ScanAssumption
  <2> QED  BY <1>1, <2>1, <2>2, <2>4, <2>5
<1>5. /\ BlockTotals \in Seq(Int) /\ Len(BlockTotals) = q
      /\ \A b \in 1..q : BlockTotals[b] = Totals(c)[b]
  BY <1>1, <1>2, TotalsVector
<1>6. Len(buffers) = k + 1  BY <1>0, <1>1 DEF Working
<1>7. /\ buffers' = Append(buffers, BlockTotals)
      /\ stack' = Append([stack EXCEPT ![k] = e], f)
      /\ UNCHANGED <<n, result>>
  <2>1. Len(buffers) + 1 = k + 2  BY <1>1, <1>6
  <2> QED  BY <1>1, <1>5, <2>1 DEF Descend, Subtask
<1>8. e \in Calls /\ e.n = c.n /\ e.in = c.in /\ e.out = c.out /\ e.output = c.output
      /\ e.pc = "called" /\ e.sub = k + 2
  <2>1. k + 2 \in Nat  BY <1>1
  <2> QED  BY <1>1, <2>1 DEF Calls, Places
<1>9. f \in Calls /\ f.n = q /\ f.in = k + 2 /\ f.out = c.in /\ f.pc = "sums"
  <2>1. k + 2 \in Nat /\ c.in \in Nat  BY <1>1 DEF Calls
  <2> QED  BY <1>4, <2>1 DEF Calls, Call, Places, Vectors
<1> HIDE DEF e, f
<1>10. /\ buffers' \in Seq(Seq(Floats)) /\ Len(buffers') = k + 2
       /\ buffers'[k + 2] = BlockTotals
       /\ \A b \in 1..(k + 1) : buffers'[b] = buffers[b]
  <2>1. BlockTotals \in Seq(Floats)  BY <1>5 DEF Floats
  <2> QED  BY <1>1, <1>6, <1>7, <2>1, AppendProperties
<1>11. /\ stack' \in Seq(Calls) /\ Len(stack') = deeper /\ stack'[deeper] = f
       /\ stack'[k] = e /\ \A j \in 1..(k - 1) : stack'[j] = stack[j]
  <2> DEFINE waiting == [stack EXCEPT ![k] = e]
  <2>1. stack \in Seq(Calls) /\ Len(stack) = k  BY DEF IInv, Typed, Depth
  <2>2. /\ waiting \in Seq(Calls) /\ Len(waiting) = k /\ waiting[k] = e
        /\ \A j \in 1..(k - 1) : waiting[j] = stack[j]
    BY <1>1, <1>8, <2>1, ExceptSeq
  <2>3. stack' = Append(waiting, f)  BY <1>7
  <2> HIDE DEF waiting
  <2> QED  BY <1>1, <1>9, <2>2, <2>3, AppendProperties
<1>12. Depth' = deeper /\ Top' = f  BY <1>11 DEF Depth, Top
<1>13. Typed'  BY <1>7, <1>10, <1>11 DEF IInv, Typed
<1>14. \A j \in 1..(k - 1) : Frame(j)'
  <2>1. k - 1 \in Nat /\ k - 1 <= Depth  BY <1>1
  <2>2. \A b \in 1..((k - 1) + 2) : Len(buffers'[b]) = Len(buffers[b])  BY <1>1, <1>10
  <2>3. ASSUME NEW j \in 1..(k - 1)
        PROVE  stack'[j] = stack[j] /\ buffers'[OutOf(j)] = buffers[OutOf(j)]
    <3>1. j \in Nat \ {0} /\ k + 1 \in Nat /\ j + 1 <= k + 1  BY <1>1
    <3>2. OutOf(j) \in 1..(k + 1)  BY <3>1, BufferRange
    <3> QED  BY <1>10, <1>11, <3>2
  <2> QED  BY <1>7, <2>1, <2>2, <2>3, FramesKept
<1>15. InOf(k) \in 1..(k + 1) /\ OutOf(k) \in 1..(k + 1)
  <2>1. k + 1 \in Nat /\ k + 1 <= k + 1  BY <1>1
  <2> QED  BY <1>1, <2>1, BufferRange
<1>16. buffers'[InOf(k)] = buffers[InOf(k)] /\ buffers'[OutOf(k)] = buffers[OutOf(k)]
  BY <1>10, <1>15
<1>17. Scanned(k)' = Scanned(k)
  <2>1. k # 1 => stack'[k - 1] = stack[k - 1]  BY <1>1, <1>11
  <2> QED  BY <2>1 DEF Scanned, Totals
<1>18. Frame(k)'
  <2>1. Sized(k)'
    <3>1. k # 1 => stack'[k - 1] = stack[k - 1]  BY <1>1, <1>11
    <3> QED  BY <1>1, <1>3, <1>7, <1>8, <1>11, <1>16, <3>1 DEF Sized
  <2>2. Kept(k)'
    <3>1. SubOf(k) = k + 2 /\ Len(buffers'[SubOf(k)]) = c.n \div BLOCK_SIZE
      BY <1>5, <1>10 DEF SubOf
    <3>2. WithinBlocks(e.output, Scanned(k)', e.n)  BY <1>2, <1>8, <1>17
    <3>3. \A i \in 1..e.n : buffers'[OutOf(k)][i] = e.output[i]  BY <1>2, <1>8, <1>16
    <3> QED  BY <1>2, <1>8, <1>11, <3>1, <3>2, <3>3 DEF Kept
  <2> QED  BY <2>1, <2>2 DEF Frame
<1>19. Frame(deeper)'
  <2>1. deeper # 1 /\ deeper - 1 = k  BY <1>1
  <2>2. InOf(deeper) = k + 2 /\ OutOf(deeper) = InOf(k)  BY <2>1 DEF InOf, OutOf
  <2>3. Len(buffers'[k + 2]) = q  BY <1>5, <1>10
  <2>4. q <= Len(buffers'[InOf(k)])
    <3>1. c.n <= Len(buffers[InOf(k)])  BY <1>1 DEF Sized
    <3>2. Len(buffers[InOf(k)]) \in Nat  BY <1>1, <1>6, <1>15
    <3> QED  BY <1>1, <1>4, <1>16, <3>1, <3>2
  <2>5. Sized(deeper)'
    <3>1. f.n = stack'[deeper - 1].n \div BLOCK_SIZE  BY <1>8, <1>9, <1>11, <2>1
    <3>2. f.n <= Len(buffers'[InOf(deeper)]) /\ f.n <= Len(buffers'[OutOf(deeper)])
      BY <1>4, <1>9, <2>2, <2>3, <2>4
    <3>3. f.in = InOf(deeper) /\ f.out = OutOf(deeper)  BY <1>1, <1>9, <2>2
    <3> QED  BY <1>4, <1>9, <1>11, <2>1, <3>1, <3>2, <3>3 DEF Sized
  <2>6. Kept(deeper)'  BY <1>9, <1>11 DEF Kept
  <2> QED  BY <2>5, <2>6 DEF Frame
<1>20. Working'
  <2>1. deeper # 1 /\ deeper - 1 = k /\ k + 2 = deeper + 1  BY <1>1
  <2>2. Scanned(deeper)' = Totals(e)  BY <1>11, <2>1 DEF Scanned, Totals
  <2>3. Totals(e) = Totals(c)  BY <1>8 DEF Totals
  <2>4. \A i \in 1..f.n : buffers'[f.in][i] = Scanned(deeper)'[i]
    BY <1>5, <1>9, <1>10, <2>2, <2>3
  <2>5. \A i \in 1..f.n : buffers'[f.in][i] = Scanned(Depth)'[i]  BY <1>12, <2>4
  <2> QED  BY <1>9, <1>10, <1>12, <2>1, <2>5 DEF Working
<1>21. \A j \in 1..Depth' : Frame(j)'
  <2> TAKE j \in 1..Depth'
  <2>1. j \in 1..deeper  BY <1>12
  <2>2. j \in 1..(k - 1) \/ j = k \/ j = deeper  BY <1>1, <2>1
  <2> QED  BY <1>14, <1>18, <1>19, <2>2
<1>22. \A j \in 1..(Depth' - 1) : stack'[j].pc = "called"
  <2> TAKE j \in 1..(Depth' - 1)
  <2>1. j \in 1..(k - 1) \/ j = k  BY <1>1, <1>12
  <2>2. CASE j \in 1..(k - 1)  BY <1>11, <2>2 DEF IInv
  <2>3. CASE j = k  BY <1>8, <1>11, <2>3
  <2> QED  BY <2>1, <2>2, <2>3
<1>23. ResultIsScan'  BY <1>7 DEF IInv, ResultIsScan
<1>24. result' = Unset  BY <1>0, <1>7 DEF IInv
<1> QED  BY <1>13, <1>20, <1>21, <1>22, <1>23, <1>24 DEF IInv

LEMMA WriteAdditionsStep ==
  ASSUME IInv, WriteAdditions
  PROVE  IInv'
<1>0. stack # <<>> /\ Top.pc = "write"  BY DEF WriteAdditions, At
<1> PICK k : k = Depth  OBVIOUS
<1> PICK sub : sub = SubOf(k)  OBVIOUS
<1> PICK v : v = [i \in 1..Len(buffers[sub]) |->
                    IF i <= Len(Top.additions) THEN Top.additions[i] ELSE buffers[sub][i]]
  OBVIOUS
<1> DEFINE d == [Top EXCEPT !.pc = "add"]
<1>1. /\ k \in Nat \ {0} /\ Top \in Calls /\ Top = stack[k] /\ Top.n \in Nat \ {0}
      /\ Kept(k) /\ Working /\ buffers \in Seq(Seq(Floats))
  BY <1>0, Current
<1>2. /\ Top.additions \in Seq(Int) /\ Len(Top.additions) = Top.n \div BLOCK_SIZE
      /\ Prefixes(Top.additions, Totals(Top), Top.n \div BLOCK_SIZE)
      /\ Len(buffers) = k + 2
  BY <1>0, <1>1 DEF Working
<1>3. /\ Top.sub = sub /\ Len(buffers[sub]) = Top.n \div BLOCK_SIZE
      /\ sub = k + 2 /\ sub \in 1..Len(buffers)
  <2>1. Top.sub = sub /\ Len(buffers[sub]) = Top.n \div BLOCK_SIZE
    BY <1>0, <1>1 DEF Kept
  <2>2. sub = k + 2  BY DEF SubOf
  <2> QED  BY <1>1, <1>2, <2>1, <2>2
<1>4. v \in Seq(Floats) /\ Len(v) = Len(buffers[sub]) /\ \A i \in 1..Len(v) : v[i] = Top.additions[i]
  <2> PICK q : q = Top.n \div BLOCK_SIZE  OBVIOUS
  <2>1. q \in Nat  BY <1>1, Divide
  <2>2. \A i \in 1..q : Top.additions[i] \in Int  BY <1>2
  <2>3. v = [i \in 1..q |-> Top.additions[i]]  BY <1>2, <1>3, <2>1
  <2>4. v \in [1..q -> Floats]  BY <2>2, <2>3 DEF Floats
  <2>5. v \in Seq(Floats) /\ Len(v) = q  BY <2>1, <2>4, FunctionSeq
  <2> QED  BY <1>3, <2>3, <2>5
<1>5. /\ buffers' \in Seq(Seq(Floats)) /\ Len(buffers') = Len(buffers)
      /\ \A x \in 1..Len(buffers) : Len(buffers'[x]) = Len(buffers[x])
      /\ buffers'[sub] = v /\ \A x : x # sub => buffers'[x] = buffers[x]
  <2>1. buffers' = [buffers EXCEPT ![sub] = v]  BY <1>3 DEF WriteAdditions, WriteBuffer
  <2> QED  BY <1>1, <1>3, <1>4, <2>1, SetBuffer
<1>6. \A j \in 1..(k - 1) : buffers'[OutOf(j)] = buffers[OutOf(j)]
  <2>1. \A j \in 1..(k - 1) : OutOf(j) # sub  BY <1>1, BufferNames
  <2> QED  BY <1>5, <2>1
<1>7. buffers'[OutOf(k)] = buffers[OutOf(k)]
  <2>1. k + 1 \in Nat /\ k + 1 <= k + 1  BY <1>1
  <2>2. OutOf(k) \in 1..(k + 1)  BY <1>1, <2>1, BufferRange
  <2>3. OutOf(k) # sub  BY <1>1, <1>3, <2>2
  <2> QED  BY <1>5, <2>3
<1>8. /\ d \in Calls /\ d.n = Top.n /\ d.in = Top.in /\ d.out = Top.out /\ d.pc = "add"
      /\ d.output = Top.output /\ d.sub = Top.sub
  BY <1>1 DEF Calls, Places
<1>9. Update(d) /\ UNCHANGED <<n, result>>  BY DEF WriteAdditions
<1>10. d.n > BLOCK_SIZE
  <2>1. Sized(k)  BY <1>0, Current
  <2>2. Top.n > BLOCK_SIZE  BY <1>0, <1>1, <2>1 DEF Sized
  <2> QED  BY <1>8, <2>2
<1> HIDE DEF d
<1>11. /\ Depth' = k /\ Top' = d /\ stack'[k] = d /\ Scanned(k)' = Scanned(k)
       /\ Kept(k)' /\ Working' => IInv'
  BY <1>0, <1>5, <1>6, <1>8, <1>9, <1>10, SameDepth
<1>12. Kept(k)'
  <2>1. /\ d.output \in Seq(Int) /\ Len(d.output) = d.n
        /\ WithinBlocks(d.output, Scanned(k), d.n)
        /\ \A i \in 1..d.n : buffers'[OutOf(k)][i] = d.output[i]
    BY <1>0, <1>1, <1>7, <1>8 DEF Kept
  <2>2. d.sub = SubOf(k) /\ Len(buffers'[SubOf(k)]) = d.n \div BLOCK_SIZE
    BY <1>3, <1>4, <1>5, <1>8
  <2> QED  BY <1>11, <2>1, <2>2 DEF Kept
<1>13. Working'
  <2>1. Totals(d) = Totals(Top)  BY <1>8 DEF Totals
  <2>2. Prefixes(v, Totals(d), d.n \div BLOCK_SIZE)
    BY <1>2, <1>3, <1>4, <1>8, <2>1 DEF Prefixes
  <2>3. buffers'[d.sub] = v  BY <1>3, <1>5, <1>8
  <2>4. Prefixes(buffers'[d.sub], Totals(d), d.n \div BLOCK_SIZE)  BY <2>2, <2>3
  <2> QED  BY <1>2, <1>5, <1>8, <1>11, <2>4 DEF Working
<1> QED  BY <1>11, <1>12, <1>13

\* A cell's sum within its block and the sum of the blocks before it are its
\* prefix sum.
LEMMA BlockAddPrefix ==
  ASSUME NEW s, NEW o, NEW t, NEW add, NEW len \in Nat, \A i \in 1..len : s[i] \in Int,
         WithinBlocks(o, s, len),
         \A b \in 1..(len \div BLOCK_SIZE) : t[b] = o[b * BLOCK_SIZE],
         Prefixes(add, t, len \div BLOCK_SIZE), NEW i \in 1..len
  PROVE  /\ BlockId(i) = 0 => o[i] = SumOf(s, 1, i)
         /\ BlockId(i) # 0 => o[i] + add[BlockId(i)] = SumOf(s, 1, i)
<1> PICK b : b = BlockId(i)  OBVIOUS
<1> PICK start : start = b * BLOCK_SIZE  OBVIOUS
<1>1. b \in Nat /\ start \in Nat /\ start < i /\ b <= len \div BLOCK_SIZE  BY BlockOf
<1>2. o[i] = SumOf(s, start + 1, i)  BY DEF WithinBlocks
<1>3. CASE b = 0
  <2>1. start = 0 /\ start + 1 = 1  BY <1>3, ScanAssumption
  <2> QED  BY <1>2, <1>3, <2>1
<1>4. CASE b # 0
  <2> PICK q : q = len \div BLOCK_SIZE  OBVIOUS
  <2>1. q \in Nat /\ b \in 1..q /\ b \in 0..q
    <3>1. q \in Nat  BY Divide
    <3> QED  BY <1>1, <1>4, <3>1
  <2>2. \A x \in 1..q : t[x] = SumOf(s, (x - 1) * BLOCK_SIZE + 1, x * BLOCK_SIZE)
    <3> TAKE x \in 1..q
    <3>1. x * BLOCK_SIZE \in 1..len /\ BlockId(x * BLOCK_SIZE) = x - 1  BY BlockEnds
    <3>2. o[x * BLOCK_SIZE] = SumOf(s, BlockId(x * BLOCK_SIZE) * BLOCK_SIZE + 1, x * BLOCK_SIZE)
      BY <3>1 DEF WithinBlocks
    <3> QED  BY <3>1, <3>2
  <2>3. SumOf(t, 1, b) = SumOf(s, 1, start)  BY <2>1, <2>2, BlockChain
  <2>4. add[b] = SumOf(t, 1, b)  BY <2>1 DEF Prefixes
  <2>5. start <= len /\ i \in start..len  BY <1>1
  <2>6. SumOf(s, 1, i) = SumOf(s, 1, start) + SumOf(s, start + 1, i)
    BY <1>1, <2>5, SumSplit
  <2>7. SumOf(s, start + 1, i) \in Int  BY <1>1, SumInBlock
  <2>8. SumOf(s, 1, start) \in Int
    <3>1. \A x \in 1..start : s[x] \in Int  BY <1>1, <2>5
    <3>2. 1 \in Nat \ {0}  OBVIOUS
    <3> QED  BY <1>1, <3>1, <3>2, SumInt
  <2> QED  BY <1>2, <1>4, <2>3, <2>4, <2>6, <2>7, <2>8
<1> QED  BY <1>3, <1>4

LEMMA BlockAddResult ==
  ASSUME NEW s, NEW o, NEW t, NEW add, NEW len \in Nat, \A i \in 1..len : s[i] \in Int,
         WithinBlocks(o, s, len),
         \A b \in 1..(len \div BLOCK_SIZE) : t[b] = o[b * BLOCK_SIZE],
         Prefixes(add, t, len \div BLOCK_SIZE),
         NEW out \in Seq(Floats), len <= Len(out)
  PROVE  /\ Prefixes(BlockAddKernel(o, add, out, len), s, len)
         /\ BlockAddKernel(o, add, out, len) \in Seq(Floats)
         /\ Len(BlockAddKernel(o, add, out, len)) = Len(out)
<1> DEFINE v == BlockAddKernel(o, add, out, len)
<1>1. \A i \in 1..len : SumOf(s, 1, i) \in Int
  <2> TAKE i \in 1..len
  <2>1. 0 \in Nat /\ 0 + 1 = 1  OBVIOUS
  <2> QED  BY <2>1, SumInBlock
<1>2. Len(out) \in Nat /\ v = [i \in 1..Len(out) |-> v[i]]  BY DEF BlockAddKernel
<1>3. \A i \in 1..len : v[i] = SumOf(s, 1, i)
  <2> TAKE i \in 1..len
  <2>1. i \in 1..Len(out) /\ i \in Nat /\ i <= len  BY <1>2
  <2>2. BlockId(i) = 0 => v[i] = o[i]  BY <2>1 DEF BlockAddKernel
  <2>3. BlockId(i) # 0 => v[i] = o[i] + add[BlockId(i)]  BY <2>1 DEF BlockAddKernel
  <2> HIDE DEF v
  <2>4. /\ BlockId(i) = 0 => o[i] = SumOf(s, 1, i)
        /\ BlockId(i) # 0 => o[i] + add[BlockId(i)] = SumOf(s, 1, i)
    BY BlockAddPrefix
  <2> QED  BY <2>2, <2>3, <2>4
<1>4. \A i \in 1..Len(out) : v[i] \in Floats
  <2> TAKE i \in 1..Len(out)
  <2>1. CASE i \in 1..len  BY <1>1, <1>3, <2>1 DEF Floats
  <2>2. CASE i \notin 1..len
    <3>1. i > len /\ i \in Nat  BY <2>2
    <3>2. v[i] = out[i]  BY <3>1 DEF BlockAddKernel
    <3> HIDE DEF v
    <3> QED  BY <3>2
  <2> QED  BY <2>1, <2>2
<1> HIDE DEF v
<1>5. v \in [1..Len(out) -> Floats]  BY <1>2, <1>4
<1>6. v \in Seq(Floats) /\ Len(v) = Len(out)  BY <1>2, <1>5, FunctionSeq
<1>7. Prefixes(v, s, len)  BY <1>3 DEF Prefixes
<1> QED  BY <1>6, <1>7 DEF v

LEMMA RunBlockAddStep ==
  ASSUME IInv, RunBlockAdd
  PROVE  IInv'
<1>0. stack # <<>> /\ Top.pc = "add"  BY DEF RunBlockAdd, At
<1> PICK k : k = Depth  OBVIOUS
<1> PICK v : v = BlockAddKernel(buffers[Top.out], buffers[Top.sub], buffers[Top.in], Top.n)
  OBVIOUS
<1> DEFINE d == [Top EXCEPT !.pc = "read_back"]
<1>1. /\ k \in Nat \ {0} /\ Top \in Calls /\ Top = stack[k] /\ Top.n \in Nat \ {0}
      /\ Top.in = InOf(k) /\ Top.out = OutOf(k) /\ InOf(k) \in 1..Len(buffers)
      /\ buffers[InOf(k)] \in Seq(Floats) /\ Top.n <= Len(buffers[InOf(k)])
      /\ \A i \in 1..Top.n : Scanned(k)[i] \in Int
      /\ Kept(k) /\ Working /\ buffers \in Seq(Seq(Floats))
  BY <1>0, Current
<1>2. /\ Top.output \in Seq(Int) /\ Len(Top.output) = Top.n
      /\ WithinBlocks(Top.output, Scanned(k), Top.n)
      /\ \A i \in 1..Top.n : buffers[Top.out][i] = Top.output[i]
      /\ Top.sub = SubOf(k) /\ Len(buffers[SubOf(k)]) = Top.n \div BLOCK_SIZE
  BY <1>0, <1>1 DEF Kept
<1>3. Prefixes(buffers[Top.sub], Totals(Top), Top.n \div BLOCK_SIZE) /\ Len(buffers) = k + 2
  BY <1>0, <1>1 DEF Working
<1>4. /\ Prefixes(v, Scanned(k), Top.n)
      /\ v \in Seq(Floats) /\ Len(v) = Len(buffers[InOf(k)])
  <2>1. WithinBlocks(buffers[Top.out], Scanned(k), Top.n)  BY <1>2 DEF WithinBlocks
  <2>2. \A b \in 1..(Top.n \div BLOCK_SIZE) : Totals(Top)[b] = buffers[Top.out][b * BLOCK_SIZE]
    <3> TAKE b \in 1..(Top.n \div BLOCK_SIZE)
    <3>1. Totals(Top)[b] = Top.output[b * BLOCK_SIZE]  BY <1>1, <1>2, TotalsInt
    <3>2. b * BLOCK_SIZE \in 1..Top.n  BY <1>1, BlockEnds
    <3> QED  BY <1>2, <3>1, <3>2
  <2>3. buffers[Top.in] \in Seq(Floats) /\ Top.n <= Len(buffers[Top.in])  BY <1>1
  <2> PICK s, o, t, add, len, out :
           /\ s = Scanned(k) /\ o = buffers[Top.out] /\ t = Totals(Top)
           /\ add = buffers[Top.sub] /\ len = Top.n /\ out = buffers[Top.in]
    OBVIOUS
  <2>4. /\ len \in Nat /\ \A i \in 1..len : s[i] \in Int
        /\ WithinBlocks(o, s, len) /\ Prefixes(add, t, len \div BLOCK_SIZE)
        /\ \A b \in 1..(len \div BLOCK_SIZE) : t[b] = o[b * BLOCK_SIZE]
        /\ out \in Seq(Floats) /\ len <= Len(out)
    BY <1>1, <1>3, <2>1, <2>2, <2>3
  <2>5. Prefixes(BlockAddKernel(o, add, out, len), s, len)  BY <2>4, BlockAddResult
  <2>6. BlockAddKernel(o, add, out, len) \in Seq(Floats)  BY <2>4, BlockAddResult
  <2>7. Len(BlockAddKernel(o, add, out, len)) = Len(out)  BY <2>4, BlockAddResult
  <2>8. v = BlockAddKernel(o, add, out, len) /\ out = buffers[InOf(k)]  BY <1>1
  <2> QED  BY <2>5, <2>6, <2>7, <2>8
<1>5. /\ buffers' \in Seq(Seq(Floats)) /\ Len(buffers') = Len(buffers)
      /\ \A x \in 1..Len(buffers) : Len(buffers'[x]) = Len(buffers[x])
      /\ buffers'[InOf(k)] = v /\ \A x : x # InOf(k) => buffers'[x] = buffers[x]
  <2>1. buffers' = [buffers EXCEPT ![InOf(k)] = v]  BY <1>1 DEF RunBlockAdd
  <2> QED  BY <1>1, <1>4, <2>1, SetBuffer
<1>6. \A j \in 1..(k - 1) : buffers'[OutOf(j)] = buffers[OutOf(j)]
  <2>1. \A j \in 1..(k - 1) : OutOf(j) # InOf(k)  BY <1>1, BufferNames
  <2> QED  BY <1>5, <2>1
<1>7. Len(buffers'[SubOf(k)]) = Len(buffers[SubOf(k)])
  <2>1. SubOf(k) \in 1..Len(buffers)  BY <1>1, <1>3 DEF SubOf
  <2> QED  BY <1>5, <2>1
<1>8. /\ d \in Calls /\ d.n = Top.n /\ d.in = Top.in /\ d.out = Top.out /\ d.pc = "read_back"
      /\ d.sub = Top.sub
  BY <1>1 DEF Calls, Places
<1>9. Update(d) /\ UNCHANGED <<n, result>>  BY DEF RunBlockAdd
<1>10. d.n > BLOCK_SIZE
  <2>1. Sized(k)  BY <1>0, Current
  <2>2. Top.n > BLOCK_SIZE  BY <1>0, <1>1, <2>1 DEF Sized
  <2> QED  BY <1>8, <2>2
<1> HIDE DEF d
<1>11. /\ Depth' = k /\ Top' = d /\ stack'[k] = d /\ Scanned(k)' = Scanned(k)
       /\ Kept(k)' /\ Working' => IInv'
  BY <1>0, <1>5, <1>6, <1>8, <1>9, <1>10, SameDepth
<1>12. Kept(k)'  BY <1>2, <1>7, <1>8, <1>11 DEF Kept
<1>13. Working'
  <2>1. Prefixes(buffers'[d.in], Scanned(k)', d.n)  BY <1>1, <1>4, <1>5, <1>8, <1>11
  <2>2. Prefixes(buffers'[d.in], Scanned(Depth)', d.n)  BY <1>11, <2>1
  <2> QED  BY <1>3, <1>5, <1>8, <1>11, <2>2 DEF Working
<1> QED  BY <1>11, <1>12, <1>13

LEMMA ReadBackStep ==
  ASSUME IInv, ReadBack
  PROVE  IInv'
<1>0. stack # <<>> /\ Top.pc = "read_back"  BY DEF ReadBack, At
<1> PICK k : k = Depth  OBVIOUS
<1> PICK v : v = ReadBuffer(Top.in, Top.n)  OBVIOUS
<1>1. /\ k \in Nat \ {0} /\ Top = stack[k] /\ Top.n \in Nat \ {0}
      /\ \A i \in 1..Top.n : Scanned(k)[i] \in Int
      /\ Kept(k) /\ Working /\ buffers \in Seq(Seq(Floats))
  BY <1>0, Current
<1>2. Prefixes(buffers[Top.in], Scanned(k), Top.n) /\ Len(buffers) = k + 2
  BY <1>0, <1>1 DEF Working
<1>3. \A i \in 1..Top.n : buffers[Top.in][i] \in Int
  <2> TAKE i \in 1..Top.n
  <2>1. i \in Nat /\ 1 \in Nat \ {0} /\ \A x \in 1..i : Scanned(k)[x] \in Int  BY <1>1
  <2>2. SumOf(Scanned(k), 1, i) \in Int  BY <2>1, SumInt
  <2> QED  BY <1>2, <2>2 DEF Prefixes
<1>4. /\ v \in Seq(Int) /\ Len(v) = Top.n
      /\ \A i \in 1..Top.n : v[i] = buffers[Top.in][i]
  BY <1>1, <1>3, SubSeqInts DEF ReadBuffer
<1>5. Prefixes(v, Scanned(k), Top.n)  BY <1>2, <1>4 DEF Prefixes
<1>6. buffers' = SubSeq(buffers, 1, k + 1)
  <2>1. Top.sub = k + 2  BY <1>0, <1>1 DEF Kept, SubOf
  <2>2. Top.sub - 1 = k + 1  BY <1>1, <2>1
  <2> QED  BY <2>2 DEF ReadBack
<1>7. /\ buffers' \in Seq(Seq(Floats)) /\ Len(buffers') = k + 1
      /\ \A b \in 1..(k + 1) : buffers'[b] = buffers[b]
  <2>1. k + 1 \in Nat /\ \A b \in 1..(k + 1) : buffers[b] \in Seq(Floats)  BY <1>1, <1>2
  <2> QED  BY <1>6, <2>1, SubSeqInts
<1>8. Return(v) /\ n' = n  BY DEF ReadBack
<1> QED  BY <1>0, <1>4, <1>5, <1>7, <1>8, Returns

LEMMA ThrowStep ==
  ASSUME IInv, Throw
  PROVE  IInv'
<1>1. stack' = <<>> /\ buffers' = <<>> /\ n' = n /\ result' = result /\ result = Unset
  BY DEF Throw, IInv
<1>2. Depth' = 0  BY <1>1, EmptySeq DEF Depth
<1>3. Typed'  BY <1>1, EmptySeq DEF IInv, Typed
<1>4. (\A k \in 1..Depth : Frame(k))' /\ (\A k \in 1..(Depth - 1) : stack[k].pc = "called")'
  BY <1>2
<1>5. ResultIsScan'  BY <1>1 DEF ResultIsScan
<1> QED  BY <1>1, <1>3, <1>4, <1>5 DEF IInv

LEMMA StutterStep ==
  ASSUME IInv, UNCHANGED vars
  PROVE  IInv'
<1>1. n' = n /\ buffers' = buffers /\ stack' = stack /\ result' = result  BY DEF vars
<1>2. Depth' = Depth /\ Top' = Top  BY <1>1 DEF Depth, Top
<1>3. Typed'  BY <1>1 DEF IInv, Typed
<1>4. \A k \in 1..Depth' : Frame(k)'
  <2> TAKE k \in 1..Depth'
  <2>1. Frame(k)  BY <1>2 DEF IInv
  <2>2. Scanned(k)' = Scanned(k)  BY <1>1 DEF Scanned, Totals
  <2> QED  BY <1>1, <2>1, <2>2 DEF Frame, Sized, Kept
<1>5. \A k \in 1..(Depth' - 1) : stack'[k].pc = "called"  BY <1>1, <1>2 DEF IInv
<1>6. stack # <<>> => Working'
  <2> SUFFICES ASSUME stack # <<>>  PROVE Working'  OBVIOUS
  <2>1. Working  BY DEF IInv
  <2>2. Scanned(Depth)' = Scanned(Depth)  BY <1>1, <1>2 DEF Scanned, Totals
  <2> QED  BY <1>1, <1>2, <2>1, <2>2 DEF Working
<1>7. ResultIsScan'  BY <1>1 DEF IInv, ResultIsScan
<1> QED  BY <1>1, <1>3, <1>4, <1>5, <1>6, <1>7 DEF IInv

-----------------------------------------------------------------------------
LEMMA Initially ==
  ASSUME Init
  PROVE  IInv
<1>1. /\ n \in 1..MaxLen /\ n \in Nat \ {0} /\ n <= MaxLen
      /\ Input \in Seq(Int) /\ Len(Input) = MaxLen
  BY ScanAssumption DEF Init
<1> DEFINE in == SubSeq(Input, 1, n)
<1> DEFINE out == [i \in 1..n |-> Unset]
<1>2. in \in Seq(Int) /\ Len(in) = n /\ \A i \in 1..n : in[i] = Input[i]
  <2>1. \A i \in 1..n : Input[i] \in Int  BY <1>1
  <2> QED  BY <1>1, <2>1, SubSeqInts
<1>3. out \in Seq(Floats) /\ Len(out) = n
  <2>1. out \in [1..n -> Floats]  BY DEF Floats
  <2> QED  BY <1>1, <2>1, FunctionSeq
<1>4. in \in Seq(Floats)
  <2> HIDE DEF in
  <2>1. \A i \in 1..n : in[i] \in Floats  BY <1>2 DEF Floats
  <2> QED  BY <1>1, <1>2, <2>1
<1>5. buffers = <<in, out>>  BY DEF Init
<1> HIDE DEF in, out
<1>6. buffers \in Seq(Seq(Floats)) /\ Len(buffers) = 2 /\ buffers[1] = in /\ buffers[2] = out
  BY <1>3, <1>4, <1>5
<1> DEFINE c == Call(n, 1, 2)
<1>7. c \in Calls /\ c.n = n /\ c.in = 1 /\ c.out = 2 /\ c.pc = "sums"
  BY <1>1 DEF Call, Calls, Places, Vectors
<1>8. stack = <<c>> /\ result = Unset  BY DEF Init
<1> HIDE DEF c
<1>9. stack \in Seq(Calls) /\ Depth = 1 /\ Top = c /\ stack[1] = c  BY <1>7, <1>8 DEF Depth, Top
<1>10. Typed  BY <1>1, <1>6, <1>9 DEF Typed
<1>11. Frame(1)
  <2>1. InOf(1) = 1 /\ OutOf(1) = 2  BY DEF InOf, OutOf
  <2>2. Sized(1)  BY <1>1, <1>2, <1>3, <1>6, <1>7, <1>9, <2>1 DEF Sized
  <2>3. Kept(1)  BY <1>7, <1>9 DEF Kept
  <2> QED  BY <2>2, <2>3 DEF Frame
<1>12. Working
  <2>1. Scanned(1) = Input  BY DEF Scanned
  <2> QED  BY <1>2, <1>6, <1>7, <1>9, <2>1 DEF Working
<1>13. ResultIsScan  BY <1>8 DEF ResultIsScan
<1> QED  BY <1>8, <1>9, <1>10, <1>11, <1>12, <1>13 DEF IInv

THEOREM Invariance == Spec => []IInv
<1>1. Init => IInv  BY Initially
<1>2. IInv /\ [Next]_vars => IInv'
  <2> SUFFICES ASSUME IInv, [Next]_vars  PROVE IInv'  OBVIOUS
  <2>1. CASE RunBlockSums  BY <2>1, RunBlockSumsStep
  <2>2. CASE ReadOutput  BY <2>2, ReadOutputStep
  <2>3. CASE Descend  BY <2>3, DescendStep
  <2>4. CASE WriteAdditions  BY <2>4, WriteAdditionsStep
  <2>5. CASE RunBlockAdd  BY <2>5, RunBlockAddStep
  <2>6. CASE ReadBack  BY <2>6, ReadBackStep
  <2>7. CASE Throw  BY <2>7, ThrowStep
  <2>8. CASE UNCHANGED vars  BY <2>8, StutterStep
  <2> QED  BY <2>1, <2>2, <2>3, <2>4, <2>5, <2>6, <2>7, <2>8 DEF Next
<1> QED  BY <1>1, <1>2, PTL DEF Spec

-----------------------------------------------------------------------------
(***************************************************************************)
(* What follows from the invariant.                                        *)
(***************************************************************************)
\* scan returns the prefix sums of its input, to whatever depth it recurses.
THEOREM ScanIsPrefixSums == Spec => []ResultIsScan
<1>1. IInv => ResultIsScan  BY DEF IInv
<1> QED  BY <1>1, Invariance, PTL

LEMMA SameCells ==
  ASSUME NEW len \in Nat, NEW f, NEW s \in Seq(Int), Len(s) = len,
         \A i \in 1..len : f[i] = s[i]
  PROVE  SubSeq(f, 1, len) = s
<1>1. \A i \in 1..len : f[i] \in Int  OBVIOUS
<1>2. /\ SubSeq(f, 1, len) \in Seq(Int) /\ Len(SubSeq(f, 1, len)) = len
      /\ \A i \in 1..len : SubSeq(f, 1, len)[i] = f[i]
  BY <1>1, SubSeqInts
<1> PICK t : t = SubSeq(f, 1, len)  OBVIOUS
<1> QED  BY <1>2, SeqEqual

\* While a call waits for its recursion, which overwrites the buffers of its
\* callers, the buffer with its sums within blocks stays as it was read.
THEOREM SumsAreKept == Spec => []CallerKeepsSums
<1>1. ASSUME IInv  PROVE CallerKeepsSums
  <2> SUFFICES ASSUME NEW k \in 1..Depth, stack[k].pc \in {"called", "write", "add"}
               PROVE  ReadBuffer(stack[k].out, stack[k].n) = stack[k].output
    BY DEF CallerKeepsSums
  <2>1. Sized(k) /\ Kept(k)  BY <1>1 DEF IInv, Frame
  <2>2. /\ stack[k].out = OutOf(k) /\ stack[k].n \in Nat
        /\ stack[k].output \in Seq(Int) /\ Len(stack[k].output) = stack[k].n
        /\ \A i \in 1..stack[k].n : buffers[OutOf(k)][i] = stack[k].output[i]
    BY <2>1 DEF Sized, Kept
  <2> QED  BY <2>2, SameCells DEF ReadBuffer
<1> QED  BY <1>1, Invariance, PTL

\* The work-groups after the first of a call with more than one block have an
\* addition each.
LEMMA GroupsButOne ==
  ASSUME NEW len \in Nat
  PROVE  (len + BLOCK_SIZE - 1) \div BLOCK_SIZE - 1 <= len \div BLOCK_SIZE
<1> PICK q : q = len \div BLOCK_SIZE  OBVIOUS
<1> PICK g : g = (len + BLOCK_SIZE - 1) \div BLOCK_SIZE  OBVIOUS
<1>1. q \in Nat /\ q * BLOCK_SIZE \in Nat /\ len < q * BLOCK_SIZE + BLOCK_SIZE
  BY Divide
<1>2. len + BLOCK_SIZE - 1 \in Nat  BY ScanAssumption
<1>3. g \in Nat /\ g * BLOCK_SIZE \in Nat /\ g * BLOCK_SIZE <= len + BLOCK_SIZE - 1
  BY <1>2, Divide
<1>4. SUFFICES ASSUME q + 2 <= g  PROVE FALSE  BY <1>1, <1>3
<1>5. /\ (q + 2) * BLOCK_SIZE <= g * BLOCK_SIZE
      /\ (q + 2) * BLOCK_SIZE = q * BLOCK_SIZE + BLOCK_SIZE + BLOCK_SIZE
  <2>1. q + 1 \in Nat /\ q + 2 \in Nat /\ (q + 1) + 1 = q + 2  BY <1>1
  <2>2. (q + 1) * BLOCK_SIZE = q * BLOCK_SIZE + BLOCK_SIZE  BY <1>1, Multiply
  <2>3. ((q + 1) + 1) * BLOCK_SIZE = (q + 1) * BLOCK_SIZE + BLOCK_SIZE  BY <2>1, Multiply
  <2>4. (q + 2) * BLOCK_SIZE <= g * BLOCK_SIZE  BY <1>3, <1>4, <2>1, Multiply
  <2> QED  BY <2>1, <2>2, <2>3, <2>4
<1> QED
  <2> PICK a : a = q * BLOCK_SIZE  OBVIOUS
  <2> PICK b : b = g * BLOCK_SIZE  OBVIOUS
  <2>1. a \in Nat /\ b \in Nat /\ BLOCK_SIZE \in Nat  BY <1>1, <1>3, ScanAssumption
  <2>2. len < a + BLOCK_SIZE /\ b <= len + BLOCK_SIZE - 1 /\ a + BLOCK_SIZE + BLOCK_SIZE <= b
    BY <1>1, <1>3, <1>5
  <2> QED  BY <2>1, <2>2

\* Every call works inside buffers that exist: the vectors that the recursion
\* passes up and down are as long as the buffers they are written to.
THEOREM AccessesInBounds == Spec => []InBounds
<1>1. ASSUME IInv  PROVE InBounds
  <2> SUFFICES ASSUME NEW k \in 1..Depth
               PROVE  LET c == stack[k]
                          groups == (c.n + BLOCK_SIZE - 1) \div BLOCK_SIZE
                      IN  /\ c.n > 0
                          /\ c.n <= Len(buffers[c.in]) /\ c.n <= Len(buffers[c.out])
                          /\ c.in # c.out
                          /\ c.pc = "call" => Len(BlockTotals) = c.n \div BLOCK_SIZE
                          /\ c.pc \in {"called", "write", "add"} =>
                                groups - 1 <= Len(buffers[c.sub])
                          /\ c.pc = "write" => Len(c.additions) = Len(buffers[c.sub])
    BY DEF InBounds
  <2> DEFINE c == stack[k]
  <2>0. Depth \in Nat /\ k \in Nat \ {0} /\ stack # <<>>
    <3>1. Depth \in Nat  BY <1>1 DEF IInv, Typed, Depth
    <3>2. Depth # 0  BY <3>1
    <3> QED  BY <3>1, <3>2, EmptySeq DEF Depth
  <2>1. Sized(k) /\ Kept(k)  BY <1>1 DEF IInv, Frame
  <2>2. /\ c.n \in Nat \ {0} /\ c.in = InOf(k) /\ c.out = OutOf(k)
        /\ c.n <= Len(buffers[c.in]) /\ c.n <= Len(buffers[c.out])
    BY <2>1 DEF Sized
  <2>3. c.in # c.out  BY <2>0, <2>2, BufferNames
  <2>4. c.pc # "called" => k = Depth /\ c = Top
    <3> SUFFICES ASSUME c.pc # "called"  PROVE k = Depth  BY DEF Top
    <3>1. k \notin 1..(Depth - 1)  BY <1>1 DEF IInv
    <3> QED  BY <2>0, <3>1
  <2>5. c.pc = "call" => Len(BlockTotals) = c.n \div BLOCK_SIZE
    <3> SUFFICES ASSUME c.pc = "call"  PROVE Len(BlockTotals) = c.n \div BLOCK_SIZE
      OBVIOUS
    <3>1. c = Top /\ c.output \in Seq(Int) /\ Len(c.output) = c.n  BY <2>1, <2>4 DEF Kept
    <3>2. Top.n \in Nat /\ Top.output \in Seq(Int) /\ Len(Top.output) = Top.n
      BY <2>2, <3>1
    <3>3. Len(BlockTotals) = Top.n \div BLOCK_SIZE  BY <3>2, TotalsVector
    <3> QED  BY <3>1, <3>3
  <2>6. c.pc \in {"called", "write", "add"} => Len(buffers[c.sub]) = c.n \div BLOCK_SIZE
    BY <2>1 DEF Kept
  <2>7. (c.n + BLOCK_SIZE - 1) \div BLOCK_SIZE - 1 <= c.n \div BLOCK_SIZE
    BY <2>2, GroupsButOne
  <2>8. c.pc = "write" => Len(c.additions) = Len(buffers[c.sub])
    <3> SUFFICES ASSUME c.pc = "write"  PROVE Len(c.additions) = Len(buffers[c.sub])
      OBVIOUS
    <3>1. c = Top /\ Working  BY <1>1, <2>0, <2>4 DEF IInv
    <3>2. Len(c.additions) = c.n \div BLOCK_SIZE  BY <3>1 DEF Working
    <3> QED  BY <2>6, <3>2
  <2>9. c.n > 0  BY <2>2
  <2> HIDE DEF c
  <2> QED  BY <2>2, <2>3, <2>5, <2>6, <2>7, <2>8, <2>9 DEF c
<1> QED  BY <1>1, Invariance, PTL
=======
