--------------------------- MODULE BlockSums_proofs ---------------------------
(***************************************************************************)
(* Proofs about BlockSums, for every size of the work-group and every      *)
(* length of the input: the barriers suffice, and a work-group implements  *)
(* BlockScan: it computes the prefix sums of its block.                    *)
(***************************************************************************)
EXTENDS BlockSums, TLAPS

-----------------------------------------------------------------------------
(***************************************************************************)
(* The inductive invariant.  All items are between the same two barriers:  *)
(* in the same loop, and in the turn for the same d.                       *)
(***************************************************************************)
Levels == {1, 2, 4, 8, 16, 32, 64, 128, 256, 512}

Loop(i) == IF pc[i] \in {"load", "loaded"} THEN "load"
           ELSE IF pc[i] \in {"up", "up_write", "added", "clear", "cleared"} THEN "up"
           ELSE "down"

\* The value of d at the last barrier; clearing is a turn of the first loop.
Level(i) == IF pc[i] = "added" THEN d[i] \div 2
            ELSE IF pc[i] \in {"clear", "cleared", "swapped"} THEN 2 * d[i]
            ELSE d[i]

Aligned == \A i, j \in Items : Loop(i) = Loop(j) /\ Level(i) = Level(j)

\* What d and the item's cell are at each place.
ItemInv(i) ==
    /\ d[i] \in Levels
    /\ pc[i] \in {"load", "loaded"} => d[i] = 2
    /\ pc[i] = "up" => d[i] \in 2..(2 * size)
    /\ pc[i] \in {"up_write", "down_write", "down_swap"} => d[i] \in 2..size /\ Active(i)
    /\ pc[i] = "added" => d[i] \in 4..(2 * size)
    /\ pc[i] \in {"clear", "cleared"} => d[i] = size
    /\ pc[i] = "down" => d[i] \in 1..size
    /\ pc[i] = "swapped" => 2 * d[i] \in 2..size
    /\ pc[i] \in {"store", "end"} => d[i] = 1
    /\ pc[i] # "load" => local_out[i] \in Int

Types ==
    /\ n \in 1..MaxLen /\ group \in 0..(MaxLen - 1)
    /\ output \in [0..(MaxLen - 1) -> Int \cup {Unset}]
    /\ local_out \in [Items -> Int \cup {Unset}]
    /\ pc \in [Items -> Locations]
    /\ d \in [Items -> Int]
    /\ read \in [Items -> Int \X Int]

IInv == Types /\ Aligned /\ \A i \in Items : ItemInv(i)

-----------------------------------------------------------------------------
(***************************************************************************)
(* Arithmetic.                                                             *)
(***************************************************************************)
\* A cell left of an active one is in range, and not active.
LEMMA Apart ==
    ASSUME NEW i \in Nat, NEW j \in Nat, NEW D \in Levels \ {1},
           (i + 1) % D = 0, (j + 1) % D = 0
    PROVE  i - D \div 2 \in 0..(i - 1) /\ i - D \div 2 # j
  BY DEF Levels

LEMMA Halves ==
    ASSUME NEW D \in Levels
    PROVE  /\ D \in Nat /\ D > 0
           /\ (2 * D) \div 2 = D
           /\ D # 1 => 2 * (D \div 2) = D /\ D \div 2 \in Levels
           /\ D # 512 => 2 * D \in Levels
           /\ D <= size => 2 * D \in Levels
           /\ D > size /\ D <= 2 * size => D = 2 * size
  BY SizeAssumption DEF Levels, size

LEMMA Size == size \in Levels /\ size \in Nat /\ size > 0 /\ size <= 256
  BY SizeAssumption DEF Levels, size

\* The global ids of a group.
LEMMA GidRange ==
    ASSUME Types, NEW i \in Items
    PROVE  gid(i) \in Nat /\ n \in Nat /\ n <= MaxLen /\ MaxLen \in Nat
  <1>1. group \in Nat /\ i \in Nat /\ n \in Nat /\ n <= MaxLen /\ MaxLen \in Nat
    BY SizeAssumption DEF Types, Items
  <1>2. group * size \in Nat
    BY <1>1, SizeAssumption DEF size
  <1>3. QED
    BY <1>1, <1>2 DEF gid

LEMMA InitInv == Init => IInv
  <1> SUFFICES ASSUME Init PROVE IInv
    OBVIOUS
  <1>1. n \in 1..MaxLen /\ n \in Int /\ MaxLen \in Nat
    BY SizeAssumption DEF Init
  <1>2. group \in 0..(MaxLen - 1)
    BY <1>1, SizeAssumption DEF Init, size
  <1>3. Types
    BY <1>1, <1>2, SizeAssumption, InputAssumption DEF Init, Types, Locations, Barriers
  <1>4. Aligned
    BY DEF Init, Aligned, Loop, Level
  <1>5. \A i \in Items : ItemInv(i)
    BY DEF Init, ItemInv, Levels
  <1>6. QED
    BY <1>3, <1>4, <1>5 DEF IInv

-----------------------------------------------------------------------------
(***************************************************************************)
(* Steps.                                                                  *)
(***************************************************************************)
\* Whoever has passed the first barrier sees every cell loaded.
LEMMA Loaded ==
    ASSUME IInv, NEW i \in Items, NEW j \in Items, pc[i] \notin {"load", "loaded"}
    PROVE  local_out[j] \in Int
  <1>1. Loop(j) = Loop(i) /\ Loop(i) # "load"
    BY DEF IInv, Aligned, Loop
  <1>2. pc[j] # "load"
    BY <1>1 DEF Loop
  <1>3. QED
    BY <1>2 DEF IInv, ItemInv

\* The left cell of an active item.
LEMMA LeftCell ==
    ASSUME NEW i \in Items, d[i] \in Levels, d[i] > 1, Active(i)
    PROVE  Left(i) \in Items /\ Left(i) < i
  <1>1. i \in Nat /\ d[i] \in Levels \ {1}
    BY DEF Items
  <1>2. i - d[i] \div 2 \in 0..(i - 1)
    BY <1>1, Apart DEF Active
  <1>3. QED
    BY <1>2, Size DEF Items, Left

\* Other items keep their places and their d.
Alone(i) == \A j \in Items \ {i} : pc'[j] = pc[j] /\ d'[j] = d[j]

\* An item that keeps its loop and level, and its own invariant, keeps IInv.
LEMMA OneItem ==
    ASSUME IInv, NEW i \in Items, Types', Alone(i), ItemInv(i)',
           Loop(i)' = Loop(i), Level(i)' = Level(i),
           \A j \in Items : local_out[j] \in Int => local_out'[j] \in Int
    PROVE  IInv'
  <1>1. \A j \in Items : Loop(j)' = Loop(j) /\ Level(j)' = Level(j)
    BY DEF Alone, Loop, Level
  <1>2. Aligned'
    BY <1>1 DEF IInv, Aligned
  <1>3. \A j \in Items \ {i} : ItemInv(j)'
    BY DEF IInv, ItemInv, Alone, Active
  <1>4. QED
    BY <1>2, <1>3 DEF IInv

LEMMA LoadInv ==
    ASSUME IInv, NEW i \in Items, Load(i)
    PROVE  IInv'
  <1>1. gid(i) < n => Input[gid(i)] \in Int
    BY GidRange, InputAssumption DEF IInv
  <1>2. Types' /\ local_out'[i] \in Int
    <2>1. \E v \in Int : local_out' = [local_out EXCEPT ![i] = v]
      <3>1. (IF gid(i) >= n THEN 0 ELSE Input[gid(i)]) \in Int
        BY <1>1, GidRange DEF IInv
      <3>2. QED
        BY <3>1 DEF Load, LocalWrite
    <2>2. pc' = [pc EXCEPT ![i] = "loaded"] /\ UNCHANGED <<n, group, output, d, read>>
      BY DEF Load, Goto
    <2>3. QED
      BY <2>1, <2>2 DEF IInv, Types, Locations, Barriers
  <1>3. Alone(i) /\ \A j \in Items : local_out[j] \in Int => local_out'[j] \in Int
    BY <1>2 DEF Load, IInv, Types, Goto, LocalWrite, Alone
  <1>4. pc[i] = "load" /\ pc'[i] = "loaded" /\ d'[i] = d[i]
    BY DEF Load, IInv, Types, Goto
  <1>5. ItemInv(i)' /\ Loop(i)' = Loop(i) /\ Level(i)' = Level(i)
    BY <1>2, <1>4 DEF IInv, ItemInv, Loop, Level
  <1>6. QED
    BY <1>2, <1>3, <1>5, OneItem

LEMMA UpInv ==
    ASSUME IInv, NEW i \in Items, Up(i)
    PROVE  IInv'
  <1>1. pc[i] = "up" /\ d[i] \in Levels /\ d[i] \in 2..(2 * size)
    BY DEF Up, IInv, ItemInv
  <1>2. local_out[i] \in Int /\ local_out' = local_out
    BY <1>1, Loaded DEF Up
  <1>3. CASE d[i] <= size /\ Active(i)
    <2>1. /\ read' = [read EXCEPT ![i] = <<local_out[i], local_out[Left(i)]>>]
          /\ pc' = [pc EXCEPT ![i] = "up_write"] /\ d' = d
          /\ UNCHANGED <<n, group, output, local_out>>
      BY <1>3, Size, <1>1 DEF Up, Goto
    <2>2. local_out[Left(i)] \in Int
      BY <1>1, <1>3, LeftCell, Loaded
    <2>3. Types' /\ Alone(i) /\ pc'[i] = "up_write"
      BY <1>2, <2>1, <2>2 DEF IInv, Types, Alone, Locations, Barriers
    <2>4. ItemInv(i)' /\ Loop(i)' = Loop(i) /\ Level(i)' = Level(i)
      BY <1>1, <1>2, <1>3, <2>1, <2>3, Size DEF ItemInv, Loop, Level, Active
    <2>5. QED
      BY <1>2, <2>3, <2>4, OneItem
  <1>4. CASE d[i] <= size /\ ~Active(i)
    <2>1. /\ pc' = [pc EXCEPT ![i] = "added"] /\ d' = [d EXCEPT ![i] = d[i] * 2]
          /\ UNCHANGED <<n, group, output, local_out, read>>
      BY <1>4, Size, <1>1 DEF Up, Goto, SetD
    <2>2. Types' /\ Alone(i) /\ pc'[i] = "added" /\ d'[i] = 2 * d[i]
      BY <1>1, <2>1 DEF IInv, Types, Alone, Locations, Barriers
    <2>3. ItemInv(i)' /\ Loop(i)' = Loop(i) /\ Level(i)' = Level(i)
      BY <1>1, <1>2, <1>4, <2>2, Size, Halves DEF ItemInv, Loop, Level
    <2>4. QED
      BY <1>2, <2>2, <2>3, OneItem
  <1>5. CASE d[i] > size
    <2>1. /\ pc' = [pc EXCEPT ![i] = "clear"] /\ d' = [d EXCEPT ![i] = d[i] \div 2]
          /\ UNCHANGED <<n, group, output, local_out, read>>
      BY <1>5, Size, <1>1 DEF Up, Goto, SetD
    <2>2. d[i] = 2 * size /\ d[i] \div 2 = size
      BY <1>1, <1>5, Halves, Size
    <2>3. Types' /\ Alone(i) /\ pc'[i] = "clear" /\ d'[i] = size
      BY <1>1, <2>1, <2>2, Size DEF IInv, Types, Alone, Locations, Barriers
    <2>4. ItemInv(i)' /\ Loop(i)' = Loop(i) /\ Level(i)' = Level(i)
      BY <1>1, <1>2, <2>2, <2>3, Size DEF ItemInv, Loop, Level
    <2>5. QED
      BY <1>2, <2>3, <2>4, OneItem
  <1>6. QED
    BY <1>1, <1>3, <1>4, <1>5, Size

LEMMA UpWriteInv ==
    ASSUME IInv, NEW i \in Items, UpWrite(i)
    PROVE  IInv'
  <1>1. pc[i] = "up_write" /\ d[i] \in Levels /\ d[i] \in 2..size
    BY DEF UpWrite, IInv, ItemInv
  <1>2. /\ local_out' = [local_out EXCEPT ![i] = read[i][1] + read[i][2]]
        /\ pc' = [pc EXCEPT ![i] = "added"] /\ d' = [d EXCEPT ![i] = d[i] * 2]
        /\ UNCHANGED <<n, group, output, read>>
    BY DEF UpWrite, LocalWrite, Goto, SetD
  <1>3. read[i][1] + read[i][2] \in Int
    BY DEF IInv, Types
  <1>4. Types' /\ Alone(i) /\ pc'[i] = "added" /\ d'[i] = 2 * d[i] /\ local_out'[i] \in Int
    BY <1>1, <1>2, <1>3 DEF IInv, Types, Alone, Locations, Barriers
  <1>5. \A j \in Items : local_out[j] \in Int => local_out'[j] \in Int
    BY <1>2, <1>3 DEF IInv, Types
  <1>6. ItemInv(i)' /\ Loop(i)' = Loop(i) /\ Level(i)' = Level(i)
    BY <1>1, <1>4, Size, Halves DEF ItemInv, Loop, Level
  <1>7. QED
    BY <1>4, <1>5, <1>6, OneItem

LEMMA ClearInv ==
    ASSUME IInv, NEW i \in Items, Clear(i)
    PROVE  IInv'
  <1>1. pc[i] = "clear" /\ pc' = [pc EXCEPT ![i] = "cleared"]
        /\ UNCHANGED <<n, group, output, d, read>>
    BY DEF Clear, Goto
  <1>2. local_out' = local_out \/ local_out' = [local_out EXCEPT ![i] = 0]
    BY DEF Clear, LocalWrite
  <1>3. Types' /\ Alone(i) /\ pc'[i] = "cleared"
    BY <1>1, <1>2 DEF IInv, Types, Alone, Locations, Barriers
  <1>4. \A j \in Items : local_out[j] \in Int => local_out'[j] \in Int
    BY <1>2 DEF IInv, Types
  <1>5. local_out'[i] \in Int
    BY <1>1, <1>4 DEF IInv, ItemInv
  <1>6. ItemInv(i)' /\ Loop(i)' = Loop(i) /\ Level(i)' = Level(i)
    BY <1>1, <1>3, <1>5 DEF IInv, ItemInv, Loop, Level
  <1>7. QED
    BY <1>3, <1>4, <1>6, OneItem

LEMMA DownInv ==
    ASSUME IInv, NEW i \in Items, Down(i)
    PROVE  IInv'
  <1>1. pc[i] = "down" /\ d[i] \in Levels /\ d[i] \in 1..size
    BY DEF Down, IInv, ItemInv
  <1>2. local_out[i] \in Int /\ local_out' = local_out
    BY <1>1, Loaded DEF Down
  <1>3. CASE d[i] > 1 /\ Active(i)
    <2>1. /\ read' = [read EXCEPT ![i] = <<local_out[i], local_out[Left(i)]>>]
          /\ pc' = [pc EXCEPT ![i] = "down_write"] /\ d' = d
          /\ UNCHANGED <<n, group, output, local_out>>
      BY <1>3, <1>1 DEF Down, Goto
    <2>2. local_out[Left(i)] \in Int
      BY <1>1, <1>3, LeftCell, Loaded
    <2>3. Types' /\ Alone(i) /\ pc'[i] = "down_write"
      BY <1>2, <2>1, <2>2 DEF IInv, Types, Alone, Locations, Barriers
    <2>4. ItemInv(i)' /\ Loop(i)' = Loop(i) /\ Level(i)' = Level(i)
      BY <1>1, <1>2, <1>3, <2>1, <2>3, Size DEF ItemInv, Loop, Level, Active
    <2>5. QED
      BY <1>2, <2>3, <2>4, OneItem
  <1>4. CASE d[i] > 1 /\ ~Active(i)
    <2>1. /\ pc' = [pc EXCEPT ![i] = "swapped"] /\ d' = [d EXCEPT ![i] = d[i] \div 2]
          /\ UNCHANGED <<n, group, output, local_out, read>>
      BY <1>4, <1>1 DEF Down, Goto, SetD
    <2>2. Types' /\ Alone(i) /\ pc'[i] = "swapped" /\ d'[i] = d[i] \div 2
      BY <1>1, <2>1 DEF IInv, Types, Alone, Locations, Barriers
    <2>3. ItemInv(i)' /\ Loop(i)' = Loop(i) /\ Level(i)' = Level(i)
      BY <1>1, <1>2, <1>4, <2>2, Size, Halves DEF ItemInv, Loop, Level
    <2>4. QED
      BY <1>2, <2>2, <2>3, OneItem
  <1>5. CASE d[i] <= 1
    <2>1. /\ pc' = [pc EXCEPT ![i] = "store"]
          /\ UNCHANGED <<n, group, output, local_out, read, d>>
      BY <1>5, <1>1 DEF Down, Goto
    <2>2. Types' /\ Alone(i) /\ pc'[i] = "store" /\ d'[i] = 1
      BY <1>1, <1>5, <2>1 DEF IInv, Types, Alone, Locations, Barriers
    <2>3. ItemInv(i)' /\ Loop(i)' = Loop(i) /\ Level(i)' = Level(i)
      BY <1>1, <1>2, <1>5, <2>2, Size DEF ItemInv, Loop, Level
    <2>4. QED
      BY <1>2, <2>2, <2>3, OneItem
  <1>6. QED
    BY <1>1, <1>3, <1>4, <1>5, Size

LEMMA DownWriteInv ==
    ASSUME IInv, NEW i \in Items, DownWrite(i)
    PROVE  IInv'
  <1>1. pc[i] = "down_write" /\ d[i] \in Levels /\ d[i] \in 2..size /\ Active(i)
    BY DEF DownWrite, IInv, ItemInv
  <1>2. /\ local_out' = [local_out EXCEPT ![i] = read[i][1] + read[i][2]]
        /\ pc' = [pc EXCEPT ![i] = "down_swap"]
        /\ UNCHANGED <<n, group, output, d, read>>
    BY DEF DownWrite, LocalWrite, Goto
  <1>3. read[i][1] + read[i][2] \in Int
    BY DEF IInv, Types
  <1>4. Types' /\ Alone(i) /\ pc'[i] = "down_swap" /\ local_out'[i] \in Int
    BY <1>1, <1>2, <1>3 DEF IInv, Types, Alone, Locations, Barriers
  <1>5. \A j \in Items : local_out[j] \in Int => local_out'[j] \in Int
    BY <1>2, <1>3 DEF IInv, Types
  <1>6. ItemInv(i)' /\ Loop(i)' = Loop(i) /\ Level(i)' = Level(i)
    BY <1>1, <1>2, <1>4 DEF ItemInv, Loop, Level, Active
  <1>7. QED
    BY <1>4, <1>5, <1>6, OneItem

LEMMA DownSwapInv ==
    ASSUME IInv, NEW i \in Items, DownSwap(i)
    PROVE  IInv'
  <1>1. pc[i] = "down_swap" /\ d[i] \in Levels /\ d[i] \in 2..size
    BY DEF DownSwap, IInv, ItemInv
  <1>2. /\ local_out' = [local_out EXCEPT ![Left(i)] = read[i][1]]
        /\ pc' = [pc EXCEPT ![i] = "swapped"] /\ d' = [d EXCEPT ![i] = d[i] \div 2]
        /\ UNCHANGED <<n, group, output, read>>
    BY DEF DownSwap, LocalWrite, Goto, SetD
  <1>3. read[i][1] \in Int
    BY DEF IInv, Types
  <1>4. Types' /\ Alone(i) /\ pc'[i] = "swapped" /\ d'[i] = d[i] \div 2
    <2>1. d[i] \div 2 \in Int /\ Left(i) \in Items
      BY <1>1, LeftCell DEF IInv, ItemInv, DownSwap, Levels
    <2>2. local_out' \in [Items -> Int \cup {Unset}]
      BY <1>2, <1>3 DEF IInv, Types
    <2>3. QED
      BY <1>2, <2>1, <2>2 DEF IInv, Types, Alone, Locations, Barriers
  <1>5. \A j \in Items : local_out[j] \in Int => local_out'[j] \in Int
    BY <1>2, <1>3 DEF IInv, Types
  <1>6. local_out'[i] \in Int
    BY <1>1, <1>5, Loaded
  <1>7. ItemInv(i)' /\ Loop(i)' = Loop(i) /\ Level(i)' = Level(i)
    BY <1>1, <1>4, <1>6, Size, Halves DEF ItemInv, Loop, Level
  <1>8. QED
    BY <1>4, <1>5, <1>7, OneItem

LEMMA StoreInv ==
    ASSUME IInv, NEW i \in Items, Store(i)
    PROVE  IInv'
  <1>1. /\ pc[i] = "store" /\ pc' = [pc EXCEPT ![i] = "end"]
        /\ UNCHANGED <<n, group, local_out, d, read>>
    BY DEF Store, Goto
  <1>2. output' \in [0..(MaxLen - 1) -> Int \cup {Unset}]
    <2>1. CASE gid(i) >= n
      BY <2>1 DEF Store, IInv, Types
    <2>2. CASE ~(gid(i) >= n)
      <3>1. gid(i) \in Nat /\ n \in Nat /\ n <= MaxLen
        BY GidRange DEF IInv
      <3>2. Input[gid(i)] \in Int
        BY <2>2, <3>1, InputAssumption, SizeAssumption
      <3>3. local_out[i] \in Int
        BY <1>1, Loaded
      <3>4. ~Last(i) => i + 1 \in Items
        BY Size DEF Last, Items
      <3>5. ~Last(i) => local_out[i + 1] \in Int
        BY <1>1, <3>4, Loaded
      <3>6. (IF Last(i) THEN local_out[i] + Input[gid(i)] ELSE local_out[i + 1]) \in Int
        BY <3>2, <3>3, <3>5
      <3>7. QED
        BY <2>2, <3>6 DEF Store, IInv, Types
    <2>3. QED
      BY <2>1, <2>2
  <1>3. Types' /\ Alone(i) /\ pc'[i] = "end"
    BY <1>1, <1>2 DEF IInv, Types, Alone, Locations, Barriers
  <1>4. ItemInv(i)' /\ Loop(i)' = Loop(i) /\ Level(i)' = Level(i)
    BY <1>1, <1>3 DEF IInv, ItemInv, Loop, Level
  <1>5. QED
    BY <1>1, <1>3, <1>4, OneItem

LEMMA BarrierInv ==
    ASSUME IInv, NEW b \in Barriers, Barrier(b)
    PROVE  IInv'
  <1>1. /\ \A i \in Items : pc[i] = b
        /\ pc' = [i \in Items |-> After[b]]
        /\ UNCHANGED <<n, group, output, local_out, d, read>>
    BY DEF Barrier
  <1>2. After[b] = IF b \in {"loaded", "added"} THEN "up" ELSE "down"
    BY DEF Barriers, After
  <1>3. Types'
    BY <1>1, <1>2 DEF IInv, Types, Locations
  <1>4. \A i, j \in Items : d[i] = d[j]
    <2> SUFFICES ASSUME NEW i \in Items, NEW j \in Items PROVE d[i] = d[j]
      OBVIOUS
    <2>1. Level(i) = Level(j) /\ d[i] \in Levels /\ d[j] \in Levels
          /\ (b = "added" => d[i] # 1 /\ d[j] # 1)
      BY <1>1 DEF IInv, Aligned, ItemInv
    <2>2. CASE b = "added"
      BY <1>1, <2>1, <2>2, Halves DEF Level
    <2>3. CASE b \in {"cleared", "swapped"}
      BY <1>1, <2>1, <2>3, Halves DEF Level
    <2>4. CASE b = "loaded"
      BY <1>1, <2>1, <2>4 DEF Level
    <2>5. QED
      BY <2>2, <2>3, <2>4 DEF Barriers
  <1>5. Aligned'
    BY <1>1, <1>2, <1>4 DEF Aligned, Loop, Level
  <1>6. \A i \in Items : ItemInv(i)'
    <2> SUFFICES ASSUME NEW i \in Items PROVE ItemInv(i)'
      OBVIOUS
    <2>1. ItemInv(i) /\ pc[i] = b /\ pc'[i] = After[b] /\ d'[i] = d[i]
          /\ local_out'[i] = local_out[i]
      BY <1>1 DEF IInv
    <2>2. QED
      BY <2>1, <1>2, Size, Halves DEF ItemInv, Barriers, Levels
  <1>7. QED
    BY <1>3, <1>5, <1>6 DEF IInv

LEMMA NextInv == IInv /\ [Next]_vars => IInv'
  <1> SUFFICES ASSUME IInv, [Next]_vars PROVE IInv'
    OBVIOUS
  <1>1. ASSUME NEW i \in Items, ItemStep(i) PROVE IInv'
    BY <1>1, LoadInv, UpInv, UpWriteInv, ClearInv, DownInv, DownWriteInv, DownSwapInv,
       StoreInv DEF ItemStep
  <1>2. CASE UNCHANGED vars
    BY <1>2 DEF vars, IInv, Types, Aligned, Loop, Level, ItemInv, Active
  <1>3. QED
    BY <1>1, <1>2, BarrierInv DEF Next

\* IInv holds in every state.
THEOREM Invariant == Spec => []IInv
  BY InitInv, NextInv, PTL DEF Spec

-----------------------------------------------------------------------------
\* What the items are about to read and write is in range, and the variables
\* keep their types.
LEMMA InRange ==
    ASSUME IInv, NEW i \in Items
    PROVE  NextReads(i) \cup NextWrites(i) \subseteq Items
  <1>1. ItemInv(i) /\ i \in Nat
    BY DEF IInv, Items
  <1>2. d[i] > 1 /\ Active(i) => Left(i) \in Items
    BY <1>1, LeftCell DEF ItemInv
  <1>3. NextReads(i) \subseteq Items
    <2>1. pc[i] = "store" /\ ~Last(i) => i + 1 \in Items
      BY Size DEF Last, Items
    <2>2. pc[i] = "up" => d[i] > 1
      BY <1>1, Size DEF ItemInv
    <2>3. QED
      BY <1>2, <2>1, <2>2 DEF NextReads
  <1>4. NextWrites(i) \subseteq Items
    <2>1. pc[i] = "down_swap" => Left(i) \in Items
      BY <1>1, <1>2, Size DEF ItemInv
    <2>2. QED
      BY <2>1 DEF NextWrites
  <1>5. QED
    BY <1>3, <1>4

\* The variables keep their types, and no index leaves the local array.
THEOREM TypeCorrect == Spec => []TypeOK
  <1>1. IInv => TypeOK
    <2> SUFFICES ASSUME IInv PROVE TypeOK
      OBVIOUS
    <2>1. \A i \in Items : d[i] \in 1..(2 * size)
      <3> SUFFICES ASSUME NEW i \in Items PROVE d[i] \in 1..(2 * size)
        OBVIOUS
      <3>1. ItemInv(i) /\ pc[i] \in Locations /\ d[i] \in Int
        BY DEF IInv, Types
      <3>2. QED
        BY <3>1, Size DEF ItemInv, Levels, Locations, Barriers
    <2>2. d \in [Items -> 1..(2 * size)]
      BY <2>1 DEF IInv, Types
    <2>3. QED
      BY <2>2, InRange DEF IInv, Types, TypeOK
  <1>2. QED
    BY <1>1, Invariant, PTL

\* No two items are about to use the same cell, one of them to write it.
THEOREM RaceFree == Spec => []NoRace
  <1>1. IInv => NoRace
    <2> SUFFICES ASSUME IInv, NEW i \in Items, NEW j \in Items, i # j
                 PROVE  NextWrites(i) \cap (NextReads(j) \cup NextWrites(j)) = {}
      BY DEF NoRace
    <2>1. ItemInv(i) /\ ItemInv(j) /\ Loop(i) = Loop(j) /\ Level(i) = Level(j)
          /\ i \in Nat /\ j \in Nat
      BY DEF IInv, Aligned, Items
    <2>2. CASE Loop(i) = "load"
      BY <2>1, <2>2 DEF Loop, NextReads, NextWrites
    \* The first loop: each writes its own cell, and reads one left of it.
    <2>3. CASE Loop(i) = "up"
      <3>1. NextWrites(i) \subseteq {i} /\ NextWrites(j) \subseteq {j}
        BY <2>1, <2>3 DEF Loop, NextWrites
      <3>2. pc[i] = "clear" => NextReads(j) = {}
        BY <2>1, <2>3, Size DEF Loop, Level, ItemInv, NextReads, Levels
      <3>3. pc[i] = "up_write" => i \notin NextReads(j)
        <4> SUFFICES ASSUME pc[i] = "up_write", pc[j] = "up", Active(j), i = Left(j)
                     PROVE  FALSE
          BY <2>1, <2>3 DEF Loop, NextReads
        <4>1. d[i] = d[j] /\ d[i] \in Levels \ {1} /\ Active(i)
          BY <2>1, Size DEF ItemInv, Level
        <4>2. QED
          BY <4>1, <2>1, Apart DEF Active, Left
      <3>4. pc[i] \notin {"clear", "up_write"} => NextWrites(i) = {}
        BY <2>3 DEF Loop, NextWrites
      <3>5. QED
        BY <3>1, <3>2, <3>3, <3>4
    \* The second loop: each works on its own cell and one left of it.
    <2>4. CASE Loop(i) = "down"
      <3>1. NextWrites(i) = {} \/ (d[i] \in Levels \ {1} /\ Active(i)
                                   /\ pc[i] \in {"down_write", "down_swap"}
                                   /\ NextWrites(i) \subseteq {i, Left(i)})
        BY <2>1, <2>4, Size DEF Loop, ItemInv, NextWrites
      <3>2. CASE d[i] \in Levels \ {1} /\ Active(i) /\ pc[i] \in {"down_write", "down_swap"}
                 /\ NextWrites(i) \subseteq {i, Left(i)}
        <4>1. NextReads(j) \cup NextWrites(j) = {}
              \/ (d[j] = d[i] /\ Active(j)
                  /\ NextReads(j) \cup NextWrites(j) \subseteq {j, Left(j)})
          BY <2>1, <2>4, <3>2, Size DEF Loop, Level, ItemInv, NextReads, NextWrites, Levels
        <4>2. ASSUME d[j] = d[i], Active(j) PROVE {i, Left(i)} \cap {j, Left(j)} = {}
          <5>1. Left(i) # j /\ Left(j) # i
            BY <2>1, <3>2, <4>2, Apart DEF Active, Left
          <5>2. Left(i) # Left(j)
            BY <2>1, <3>2, <4>2 DEF Left, Levels
          <5>3. QED
            BY <5>1, <5>2
        <4>3. QED
          BY <3>2, <4>1, <4>2
      <3>3. QED
        BY <3>1, <3>2
    <2>5. QED
      BY <2>2, <2>3, <2>4 DEF Loop
  <1>2. QED
    BY <1>1, Invariant, PTL

-----------------------------------------------------------------------------
(***************************************************************************)
(* What the cells hold, in terms of the prefix sums of the block.          *)
(***************************************************************************)
base == group * size

\* The sum of the first k inputs of the block; those from n on count as 0.
P(k) == Prefix[IF base + k < n THEN base + k ELSE n] - Prefix[base]

\* W is the largest power of two below D that divides i + 1.
Widest(i, W, D) ==
    W < D /\ (i + 1) % W = 0 /\ ((i + 1) % (2 * W) = 0 => 2 * W >= D)

\* A cell of the first loop: the sum of the inputs it has gathered when the
\* loop gets to D.
Has(i, D) ==
    \A W \in Levels : Widest(i, W, D) => local_out[i] = P(i + 1) - P(i + 1 - W)

UpData(i) ==
    /\ pc[i] = "loaded" => Has(i, 2)
    /\ pc[i] \in {"up", "up_write", "added"} => Has(i, d[i])
    /\ pc[i] = "up_write" =>
          /\ read[i][1] = P(i + 1) - P(i + 1 - d[i] \div 2)
          /\ read[i][2] = P(i + 1 - d[i] \div 2) - P(i + 1 - d[i])
    /\ pc[i] = "clear" => Has(i, 2 * size)
    /\ pc[i] = "cleared" => IF i = size - 1 THEN local_out[i] = 0 ELSE Has(i, 2 * size)

\* The item to the right of i that is active with i has stored i's cell.
Swapped(i) ==
    \E r \in Items : /\ pc[r] = "swapped" /\ (r + 1) % Level(i) = 0
                     /\ i = r - Level(i) \div 2

\* A cell of the second loop: the sum of all inputs left of the cell's part,
\* or still what the first loop left there.
DownData(i) ==
    LET D == Level(i)
        h == D \div 2
    IN  Loop(i) = "down" =>
          /\ pc[i] = "down_write" => /\ read[i][1] = P(i + 1 - D)
                                     /\ read[i][2] = P(i + 1 - h) - P(i + 1 - D)
          /\ pc[i] = "down_swap" => read[i][1] = P(i + 1 - D)
          /\ (i + 1) % D = 0 =>
                local_out[i] = IF pc[i] \in {"down_swap", "swapped"} THEN P(i + 1 - h)
                               ELSE P(i + 1 - D)
          /\ (i + 1) % D # 0 =>
                IF Swapped(i) THEN local_out[i] = P(i + 1 - h) ELSE Has(i, D)

Written(i) == gid(i) < n => (output[gid(i)] = Unset <=> pc[i] # "end")

KInv ==
    /\ IInv
    /\ base < n
    /\ \A i \in Items : UpData(i) /\ DownData(i) /\ Written(i)

-----------------------------------------------------------------------------
(***************************************************************************)
(* Arithmetic.                                                             *)
(***************************************************************************)
LEMMA WidestHalf ==
    ASSUME NEW i \in Nat, NEW D \in Levels \ {1}, (i + 1) % D = 0
    PROVE  /\ D \div 2 \in Levels
           /\ Widest(i, D \div 2, D)
           /\ i - D \div 2 \in Nat
           /\ Widest(i - D \div 2, D \div 2, D)
           /\ (i - D \div 2 + 1) % D # 0
           /\ i + 1 - D \in Nat
  BY DEF Levels, Widest

LEMMA WidestActive ==
    ASSUME NEW i \in Nat, NEW D \in Levels, NEW W \in Levels, (i + 1) % D = 0,
           Widest(i, W, 2 * D)
    PROVE  W = D
  BY DEF Levels, Widest

LEMMA WidestIdle ==
    ASSUME NEW i \in Nat, NEW h \in Levels, NEW W \in Levels, (i + 1) % h # 0
    PROVE  Widest(i, W, h) <=> Widest(i, W, 2 * h)
  BY DEF Levels, Widest

\* The cell half a part to the left of an active one has a right neighbour.
LEMMA Partner ==
    ASSUME NEW i \in Items, NEW D \in Levels \ {1}, D <= size,
           (i + 1) % D # 0, (i + 1) % (D \div 2) = 0
    PROVE  /\ i + D \div 2 \in Items
           /\ (i + D \div 2 + 1) % D = 0
           /\ i = (i + D \div 2) - D \div 2
  BY SizeAssumption DEF Levels, Items, size

LEMMA LastItem ==
    ASSUME NEW i \in Items
    PROVE  (i + 1) % size = 0 <=> i = size - 1
  BY SizeAssumption DEF Items, size

-----------------------------------------------------------------------------
(***************************************************************************)
(* The prefix sums of the block.                                           *)
(***************************************************************************)
LEMMA BaseType ==
    ASSUME Types
    PROVE  /\ base \in Nat /\ n \in Nat /\ n <= MaxLen /\ MaxLen \in Nat
           /\ \A i \in Items : i \in Nat /\ gid(i) = base + i /\ gid(i) \in Nat
  <1>1. group \in Nat /\ n \in Nat /\ n <= MaxLen /\ MaxLen \in Nat
    BY SizeAssumption DEF Types
  <1>2. base \in Nat
    BY <1>1, SizeAssumption DEF base, size
  <1>3. \A i \in Items : i \in Nat /\ gid(i) = base + i
    BY DEF Items, gid, base
  <1>4. QED
    BY <1>1, <1>2, <1>3

LEMMA PrefixSums ==
    ASSUME Types, base < n
    PROVE  /\ P(0) = 0
           /\ \A k \in Nat : P(k) \in Int
           /\ \A i \in Items :
                 /\ P(i + 1) = P(i) + (IF gid(i) >= n THEN 0 ELSE Input[gid(i)])
                 /\ gid(i) < n => P(i + 1) = Prefix[gid(i) + 1] - Prefix[base]
                                  /\ Input[gid(i)] \in Int
  <1>1. base \in 0..(n - 1) /\ n \in 1..MaxLen /\ MaxLen \in Nat
    BY BaseType
  <1>2. \A k \in 0..MaxLen : Prefix[k] \in Int
    BY InputAssumption
  <1>3. P(0) = 0
    BY <1>1, <1>2 DEF P
  <1>4. \A k \in Nat : P(k) \in Int
    BY <1>1, <1>2 DEF P
  <1>5. ASSUME NEW i \in Items
        PROVE  /\ P(i + 1) = P(i) + (IF gid(i) >= n THEN 0 ELSE Input[gid(i)])
               /\ gid(i) < n => P(i + 1) = Prefix[gid(i) + 1] - Prefix[base]
                                /\ Input[gid(i)] \in Int
    <2>1. i \in Nat /\ gid(i) = base + i
      BY BaseType
    <2>2. CASE base + i >= n
      BY <1>1, <1>2, <2>1, <2>2 DEF P
    <2>3. CASE base + i < n
      <3>1. base + i \in 0..(MaxLen - 1)
        BY <1>1, <2>1, <2>3
      <3>2. Prefix[base + i + 1] = Prefix[base + i] + Input[base + i]
            /\ Input[base + i] \in Int
        BY <3>1, InputAssumption
      <3>3. P(i) = Prefix[base + i] - Prefix[base]
        BY <2>3 DEF P
      <3>4. P(i + 1) = Prefix[base + i + 1] - Prefix[base]
        <4>1. base + (i + 1) = base + i + 1
          BY <1>1, <2>1
        <4>2. CASE base + i + 1 < n
          BY <4>1, <4>2 DEF P
        <4>3. CASE ~(base + i + 1 < n)
          <5>1. n = base + i + 1
            BY <1>1, <2>1, <2>3, <4>3
          <5>2. QED
            BY <4>1, <4>3, <5>1 DEF P
        <4>4. QED
          BY <4>2, <4>3
      <3>5. base + i \in 0..MaxLen /\ base \in 0..MaxLen
        BY <3>1, <1>1
      <3>6. QED
        BY <1>1, <1>2, <2>1, <2>3, <3>2, <3>3, <3>4, <3>5
    <2>4. QED
      BY <1>1, <2>1, <2>2, <2>3
  <1>6. QED
    BY <1>3, <1>4, <1>5

LEMMA SameP ==
    ASSUME UNCHANGED <<n, group>>
    PROVE  \A k : P(k)' = P(k)
  BY DEF P, base

LEMMA InitKInv == Init => KInv
  <1> SUFFICES ASSUME Init PROVE KInv
    OBVIOUS
  <1>1. IInv
    BY InitInv
  <1>2. base < n
    <2>1. n \in Nat /\ n > 0 /\ group \in 0..((n + size - 1) \div size - 1)
      BY SizeAssumption DEF Init
    <2>2. QED
      BY <2>1, SizeAssumption DEF base, size
  <1>3. \A i \in Items : UpData(i) /\ DownData(i)
    BY DEF Init, UpData, DownData, Loop
  <1>4. \A i \in Items : Written(i)
    <2>1. \A i \in Items : gid(i) < n => gid(i) \in 0..(MaxLen - 1)
      BY <1>1, BaseType DEF IInv
    <2>2. QED
      BY <2>1 DEF Init, Written
  <1>5. QED
    BY <1>1, <1>2, <1>3, <1>4 DEF KInv

-----------------------------------------------------------------------------
(***************************************************************************)
(* A step of item i leaves what is said of the cells of the others, if it  *)
(* does not write them and does not end an active turn.                    *)
(***************************************************************************)
LEMMA Others ==
    ASSUME KInv, NEW i \in Items, NEW j \in Items \ {i},
           Alone(i), UNCHANGED <<n, group>>,
           local_out'[j] = local_out[j], read'[j] = read[j],
           pc[i] # "swapped",
           pc'[i] = "swapped" => (i + 1) % Level(j) # 0 \/ j # i - Level(j) \div 2
    PROVE  UpData(j)' /\ DownData(j)'
  <1>1. pc'[j] = pc[j] /\ d'[j] = d[j] /\ UpData(j) /\ DownData(j)
    BY DEF KInv, Alone
  <1>2. \A k : P(k)' = P(k)
    BY SameP
  <1>3. \A D : Has(j, D) => Has(j, D)'
    BY <1>2 DEF Has
  <1>4. UpData(j)'
    BY <1>1, <1>2, <1>3 DEF UpData
  <1>5. Level(j)' = Level(j) /\ Loop(j)' = Loop(j)
    BY <1>1 DEF Level, Loop
  <1>6. Swapped(j)' <=> Swapped(j)
    <2>1. \A r \in Items \ {i} : pc'[r] = pc[r]
      BY DEF Alone
    <2>2. Swapped(j)' <=>
            \E r \in Items : /\ pc'[r] = "swapped" /\ (r + 1) % Level(j) = 0
                             /\ j = r - Level(j) \div 2
      BY <1>5 DEF Swapped
    <2>3. QED
      BY <2>1, <2>2 DEF Swapped
  <1>7. DownData(j)'
    BY <1>1, <1>2, <1>3, <1>5, <1>6 DEF DownData
  <1>8. QED
    BY <1>4, <1>7

\* Before the end of an item its output is not written.
LEMMA Unwritten ==
    ASSUME KInv, NEW i \in Items, Alone(i), UNCHANGED <<n, group, output>>,
           pc[i] # "end", pc'[i] # "end"
    PROVE  \A j \in Items : Written(j)'
  BY DEF KInv, Written, Alone, gid

\* The pieces of KInv that a step of item i is left to show.
LEMMA ItemKInv ==
    ASSUME KInv, IInv', NEW i \in Items, UNCHANGED <<n, group>>,
           UpData(i)', DownData(i)',
           \A j \in Items \ {i} : UpData(j)' /\ DownData(j)',
           \A j \in Items : Written(j)'
    PROVE  KInv'
  BY DEF KInv, base

LEMMA LoadK ==
    ASSUME KInv, NEW i \in Items, Load(i)
    PROVE  KInv'
  <1>1. Types /\ IInv /\ IInv' /\ base < n /\ i \in Nat
    BY LoadInv DEF KInv, IInv, Items
  <1>2. /\ pc[i] = "load" /\ pc' = [pc EXCEPT ![i] = "loaded"]
        /\ local_out' = [local_out EXCEPT ![i] = IF gid(i) >= n THEN 0 ELSE Input[gid(i)]]
        /\ UNCHANGED <<n, group, output, d, read>>
    BY DEF Load, Goto, LocalWrite
  <1>3. pc'[i] = "loaded" /\ Alone(i)
    BY <1>1, <1>2 DEF Types, Alone
  <1>4. local_out'[i] = P(i + 1) - P(i)
    <2>1. local_out'[i] = IF gid(i) >= n THEN 0 ELSE Input[gid(i)]
      BY <1>1, <1>2 DEF Types
    <2>2. /\ P(i + 1) = P(i) + (IF gid(i) >= n THEN 0 ELSE Input[gid(i)])
          /\ P(i) \in Int /\ (gid(i) < n => Input[gid(i)] \in Int)
          /\ gid(i) \in Nat /\ n \in Nat
      BY <1>1, PrefixSums, BaseType
    <2>3. CASE gid(i) >= n
      BY <2>1, <2>2, <2>3
    <2>4. CASE gid(i) < n
      BY <2>1, <2>2, <2>4
    <2>5. QED
      BY <2>2, <2>3, <2>4
  <1>5. \A k : P(k)' = P(k)
    BY <1>2, SameP
  <1>6. Has(i, 2)'
    <2>1. \A W \in Levels : Widest(i, W, 2) => W = 1
      BY <1>1 DEF Levels, Widest
    <2>2. i + 1 - 1 = i
      BY <1>1
    <2>3. QED
      BY <1>4, <1>5, <2>1, <2>2 DEF Has
  <1>7. UpData(i)' /\ DownData(i)'
    BY <1>3, <1>6 DEF UpData, DownData, Loop
  <1>8. \A j \in Items \ {i} : UpData(j)' /\ DownData(j)'
    BY <1>1, <1>2, <1>3, Others DEF Types
  <1>9. \A j \in Items : Written(j)'
    BY <1>2, <1>3, Unwritten
  <1>10. QED
    BY <1>1, <1>2, <1>7, <1>8, <1>9, ItemKInv

\* Steps of the first loop that write no cell.
LEMMA UpK ==
    ASSUME KInv, NEW i \in Items, Up(i)
    PROVE  KInv'
  <1>1. /\ Types /\ IInv /\ IInv' /\ i \in Nat
        /\ pc[i] = "up" /\ d[i] \in Levels /\ d[i] \in 2..(2 * size) /\ Has(i, d[i])
    BY UpInv DEF KInv, IInv, Items, Up, UpData, ItemInv
  <1>2. UNCHANGED <<n, group, output, local_out>>
    BY DEF Up
  <1>3. \A k : P(k)' = P(k)
    BY <1>2, SameP
  <1>4. \A D : Has(i, D) => Has(i, D)'
    BY <1>2, <1>3 DEF Has
  <1>5. /\ pc'[i] \in {"up_write", "added", "clear"} /\ Alone(i)
        /\ \A j \in Items \ {i} : read'[j] = read[j]
    BY <1>1 DEF Up, Goto, SetD, Types, Alone
  <1>6. UpData(i)'
    <2>1. CASE d[i] <= size /\ Active(i)
      <3>1. /\ read'[i] = <<local_out[i], local_out[Left(i)]>>
            /\ pc'[i] = "up_write" /\ d'[i] = d[i]
        BY <1>1, <2>1, Size DEF Up, Goto, Types
      <3>2. local_out[i] = P(i + 1) - P(i + 1 - d[i] \div 2)
        BY <1>1, <2>1, WidestHalf DEF Has, Active
      <3>3. local_out[Left(i)] = P(i + 1 - d[i] \div 2) - P(i + 1 - d[i])
        <4>1. Left(i) \in Items /\ Left(i) \in Nat
          BY <1>1, <2>1, LeftCell DEF Items
        <4>2. Loop(Left(i)) = "up" /\ Level(Left(i)) = d[i]
          BY <1>1, <4>1 DEF IInv, Aligned, Loop, Level
        <4>3. /\ Widest(Left(i), d[i] \div 2, d[i]) /\ d[i] \div 2 \in Levels
              /\ (Left(i) + 1) % d[i] # 0
          BY <1>1, <2>1, WidestHalf DEF Active, Left
        <4>4. Has(Left(i), d[i])
          <5>1. UpData(Left(i)) /\ ItemInv(Left(i))
            BY <4>1 DEF KInv, IInv
          <5>2. CASE pc[Left(i)] \in {"up", "up_write"}
            BY <4>2, <5>1, <5>2 DEF UpData, Level
          <5>3. CASE pc[Left(i)] = "added"
            <6>1. d[Left(i)] = 2 * d[i]
              BY <4>2, <5>1, <5>3, Halves DEF ItemInv, Level
            <6>2. Has(Left(i), 2 * d[i])
              BY <5>1, <5>3, <6>1 DEF UpData
            <6>3. QED
              BY <1>1, <4>1, <4>3, <6>2, WidestIdle DEF Has
          <5>4. CASE pc[Left(i)] \in {"clear", "cleared"}
            BY <2>1, <4>2, <5>1, <5>4, Size DEF ItemInv, Level
          <5>5. QED
            BY <4>2, <5>2, <5>3, <5>4 DEF Loop
        <4>5. local_out[Left(i)] = P(Left(i) + 1) - P(Left(i) + 1 - d[i] \div 2)
          BY <4>4, <4>3 DEF Has
        <4>6. Left(i) + 1 = i + 1 - d[i] \div 2
              /\ Left(i) + 1 - d[i] \div 2 = i + 1 - d[i]
          BY <1>1, Halves DEF Left
        <4>7. QED
          BY <4>5, <4>6
      <3>4. QED
        BY <1>1, <1>3, <1>4, <3>1, <3>2, <3>3 DEF UpData
    <2>2. CASE d[i] <= size /\ ~Active(i)
      <3>1. pc'[i] = "added" /\ d'[i] = 2 * d[i]
        BY <1>1, <2>2, Size DEF Up, Goto, SetD, Types
      <3>2. Has(i, 2 * d[i])
        BY <1>1, <2>2, WidestIdle DEF Has, Active
      <3>3. QED
        BY <1>4, <3>1, <3>2 DEF UpData
    <2>3. CASE d[i] > size
      <3>1. pc'[i] = "clear"
        BY <1>1, <2>3, Size DEF Up, Goto, Types
      <3>2. d[i] = 2 * size
        BY <1>1, <2>3, Size, Halves
      <3>3. QED
        BY <1>1, <1>4, <3>1, <3>2 DEF UpData
    <2>4. QED
      BY <1>1, <2>1, <2>2, <2>3, Size
  <1>7. DownData(i)'
    BY <1>5 DEF DownData, Loop
  <1>8. \A j \in Items \ {i} : UpData(j)' /\ DownData(j)'
    BY <1>1, <1>2, <1>5, Others
  <1>9. \A j \in Items : Written(j)'
    BY <1>1, <1>2, <1>5, Unwritten
  <1>10. QED
    BY <1>1, <1>2, <1>6, <1>7, <1>8, <1>9, ItemKInv

LEMMA UpWriteK ==
    ASSUME KInv, NEW i \in Items, UpWrite(i)
    PROVE  KInv'
  <1>1. /\ Types /\ IInv /\ IInv' /\ i \in Nat /\ base < n
        /\ pc[i] = "up_write" /\ d[i] \in Levels \ {1} /\ Active(i) /\ UpData(i)
    BY UpWriteInv DEF KInv, IInv, Items, UpWrite, ItemInv
  <1>2. /\ local_out' = [local_out EXCEPT ![i] = read[i][1] + read[i][2]]
        /\ pc' = [pc EXCEPT ![i] = "added"] /\ d' = [d EXCEPT ![i] = d[i] * 2]
        /\ UNCHANGED <<n, group, output, read>>
    BY DEF UpWrite, LocalWrite, Goto, SetD
  <1>3. pc'[i] = "added" /\ Alone(i) /\ d'[i] = 2 * d[i]
    BY <1>1, <1>2 DEF Types, Alone, Levels
  <1>4. local_out'[i] = P(i + 1) - P(i + 1 - d[i])
    <2>1. local_out'[i] = read[i][1] + read[i][2]
      BY <1>2 DEF IInv, Types, KInv
    <2>2. i + 1 \in Nat /\ i + 1 - d[i] \div 2 \in Nat /\ i + 1 - d[i] \in Nat
      <3>1. i - d[i] \div 2 \in Nat /\ i + 1 - d[i] \in Nat /\ d[i] \div 2 \in Nat
        BY <1>1, WidestHalf, Halves DEF Active
      <3>2. QED
        BY <1>1, <3>1
    <2>3. P(i + 1) \in Int /\ P(i + 1 - d[i] \div 2) \in Int /\ P(i + 1 - d[i]) \in Int
      BY <1>1, <2>2, PrefixSums
    <2>4. QED
      BY <1>1, <2>1, <2>3 DEF UpData
  <1>5. \A k : P(k)' = P(k)
    BY <1>2, SameP
  <1>6. Has(i, d[i])'
    <2>1. \A W \in Levels : Widest(i, W, 2 * d[i]) => W = d[i]
      BY <1>1, WidestActive DEF Active
    <2>2. \A W \in Levels : Widest(i, W, 2 * d[i]) =>
            local_out'[i] = P(i + 1)' - P(i + 1 - W)'
      BY <1>4, <1>5, <2>1
    <2>3. \A W \in Levels : Widest(i, W, d'[i]) =>
            local_out'[i] = P(i + 1)' - P(i + 1 - W)'
      BY <1>3, <2>2
    <2>4. QED
      BY <2>3 DEF Has
  <1>7. UpData(i)' /\ DownData(i)'
    BY <1>3, <1>6 DEF UpData, DownData, Loop
  <1>8. \A j \in Items \ {i} : UpData(j)' /\ DownData(j)'
    BY <1>1, <1>2, <1>3, Others DEF Types
  <1>9. \A j \in Items : Written(j)'
    BY <1>1, <1>2, <1>3, Unwritten
  <1>10. QED
    BY <1>1, <1>2, <1>7, <1>8, <1>9, ItemKInv

LEMMA ClearK ==
    ASSUME KInv, NEW i \in Items, Clear(i)
    PROVE  KInv'
  <1>1. Types /\ IInv' /\ UpData(i) /\ pc[i] = "clear"
    BY ClearInv DEF KInv, IInv, Clear
  <1>2. /\ pc' = [pc EXCEPT ![i] = "cleared"]
        /\ UNCHANGED <<n, group, output, d, read>>
    BY DEF Clear, Goto
  <1>3. pc'[i] = "cleared" /\ Alone(i)
    BY <1>1, <1>2 DEF Types, Alone
  <1>4. /\ i = size - 1 => local_out'[i] = 0
        /\ i # size - 1 => local_out'[i] = local_out[i]
        /\ \A j \in Items \ {i} : local_out'[j] = local_out[j]
    BY <1>1 DEF Clear, LocalWrite, Types
  <1>5. \A k : P(k)' = P(k)
    BY <1>2, SameP
  <1>6. i # size - 1 => (Has(i, 2 * size) => Has(i, 2 * size)')
    BY <1>4, <1>5 DEF Has
  <1>7. UpData(i)' /\ DownData(i)'
    BY <1>1, <1>3, <1>4, <1>6 DEF UpData, DownData, Loop
  <1>8. \A j \in Items \ {i} : UpData(j)' /\ DownData(j)'
    BY <1>1, <1>2, <1>3, <1>4, Others
  <1>9. \A j \in Items : Written(j)'
    BY <1>1, <1>2, <1>3, Unwritten
  <1>10. QED
    BY <1>1, <1>2, <1>7, <1>8, <1>9, ItemKInv

\* An item is not its own right neighbour.
LEMMA SelfSwapped ==
    ASSUME NEW i \in Items, Alone(i), Level(i) \in Levels \ {1}, Level(i)' = Level(i)
    PROVE  Swapped(i)' <=> Swapped(i)
  <1>1. \A r \in Items \ {i} : pc'[r] = pc[r]
    BY DEF Alone
  <1>2. i # i - Level(i) \div 2
    BY DEF Levels, Items
  <1>3. Swapped(i)' <=> \E r \in Items : /\ pc'[r] = "swapped" /\ (r + 1) % Level(i) = 0
                                          /\ i = r - Level(i) \div 2
    BY DEF Swapped
  <1>4. QED
    BY <1>1, <1>2, <1>3 DEF Swapped

\* The left cell of an active item that has not stored it.
LEMMA LeftData ==
    ASSUME KInv, NEW i \in Items, Loop(i) = "down", pc[i] # "swapped",
           Level(i) = d[i], d[i] \in Levels \ {1}, Active(i)
    PROVE  /\ Left(i) \in Items \ {i}
           /\ Loop(Left(i)) = "down" /\ Level(Left(i)) = d[i]
           /\ (Left(i) + 1) % d[i] # 0
           /\ ~Swapped(Left(i))
           /\ local_out[Left(i)] = P(i + 1 - d[i] \div 2) - P(i + 1 - d[i])
           /\ Left(i) + 1 - d[i] \div 2 = i + 1 - d[i]
  <1>1. i \in Nat
    BY DEF Items
  <1>2. Left(i) \in Items \ {i} /\ Left(i) \in Nat
    BY LeftCell, <1>1 DEF Items, Levels
  <1>3. Loop(Left(i)) = "down" /\ Level(Left(i)) = d[i]
    BY <1>2 DEF KInv, IInv, Aligned
  <1>4. /\ Widest(Left(i), d[i] \div 2, d[i]) /\ d[i] \div 2 \in Levels
        /\ (Left(i) + 1) % d[i] # 0
    BY <1>1, WidestHalf DEF Active, Left
  <1>5. ~Swapped(Left(i))
    <2>1. ASSUME NEW r \in Items, Left(i) = r - d[i] \div 2 PROVE r = i
      BY <2>1, <1>1 DEF Left, Items, Levels
    <2>2. QED
      BY <1>3, <2>1 DEF Swapped
  <1>6. Has(Left(i), d[i])
    BY <1>2, <1>3, <1>4, <1>5 DEF KInv, DownData
  <1>7. local_out[Left(i)] = P(Left(i) + 1) - P(Left(i) + 1 - d[i] \div 2)
    BY <1>4, <1>6 DEF Has
  <1>8. Left(i) + 1 = i + 1 - d[i] \div 2 /\ Left(i) + 1 - d[i] \div 2 = i + 1 - d[i]
    BY <1>1, Halves DEF Left
  <1>9. QED
    BY <1>2, <1>3, <1>4, <1>5, <1>7, <1>8

\* Steps of the second loop that write no cell.
LEMMA DownK ==
    ASSUME KInv, NEW i \in Items, Down(i)
    PROVE  KInv'
  <1>1. /\ Types /\ IInv /\ IInv' /\ i \in Nat /\ DownData(i)
        /\ pc[i] = "down" /\ d[i] \in Levels /\ d[i] \in 1..size
        /\ Loop(i) = "down" /\ Level(i) = d[i]
    BY DownInv DEF KInv, IInv, Items, Down, ItemInv, Loop, Level
  <1>2. UNCHANGED <<n, group, output, local_out>>
    BY DEF Down
  <1>3. \A k : P(k)' = P(k)
    BY <1>2, SameP
  <1>4. \A D : Has(i, D) => Has(i, D)'
    BY <1>2, <1>3 DEF Has
  <1>5. /\ pc'[i] \in {"down_write", "swapped", "store"} /\ Alone(i)
        /\ \A j \in Items \ {i} : read'[j] = read[j]
    BY <1>1 DEF Down, Goto, SetD, Types, Alone
  <1>6. DownData(i)' /\ (pc'[i] = "swapped" => ~Active(i))
    <2>1. CASE d[i] > 1 /\ Active(i)
      <3>1. /\ read'[i] = <<local_out[i], local_out[Left(i)]>>
            /\ pc'[i] = "down_write" /\ d'[i] = d[i]
        BY <1>1, <2>1 DEF Down, Goto, Types
      <3>2. Level(i)' = d[i]
        BY <3>1 DEF Level
      <3>3. local_out[i] = P(i + 1 - d[i])
        BY <1>1, <2>1 DEF DownData, Active
      <3>4. local_out[Left(i)] = P(i + 1 - d[i] \div 2) - P(i + 1 - d[i])
        BY <1>1, <2>1, LeftData
      <3>5. QED
        BY <1>2, <1>3, <2>1, <3>1, <3>2, <3>3, <3>4 DEF DownData, Active
    <2>2. CASE d[i] > 1 /\ ~Active(i)
      <3>1. pc'[i] = "swapped" /\ d'[i] = d[i] \div 2
        BY <1>1, <2>2 DEF Down, Goto, SetD, Types
      <3>2. Level(i)' = d[i]
        BY <1>1, <2>2, <3>1, Halves DEF Level
      <3>3. Swapped(i)' <=> Swapped(i)
        BY <1>1, <1>5, <2>2, <3>2, SelfSwapped
      <3>4. IF Swapped(i) THEN local_out[i] = P(i + 1 - d[i] \div 2) ELSE Has(i, d[i])
        BY <1>1, <2>2 DEF DownData, Active
      <3>5. QED
        BY <1>2, <1>3, <1>4, <2>2, <3>1, <3>2, <3>3, <3>4 DEF DownData, Active
    <2>3. CASE d[i] <= 1
      <3>1. pc'[i] = "store" /\ d[i] = 1 /\ d'[i] = 1
        BY <1>1, <2>3 DEF Down, Goto, Types
      <3>2. Level(i)' = 1 /\ (i + 1) % 1 = 0
        BY <1>1, <3>1 DEF Level
      <3>3. local_out[i] = P(i + 1 - 1)
        BY <1>1, <3>1, <3>2 DEF DownData
      <3>4. QED
        BY <1>2, <1>3, <3>1, <3>2, <3>3 DEF DownData
    <2>4. QED
      BY <1>1, <2>1, <2>2, <2>3
  <1>7. UpData(i)'
    BY <1>5 DEF UpData
  <1>8. \A j \in Items \ {i} : UpData(j)' /\ DownData(j)'
    <2> SUFFICES ASSUME NEW j \in Items \ {i} PROVE UpData(j)' /\ DownData(j)'
      OBVIOUS
    <2>1. Level(j) = d[i]
      BY <1>1 DEF IInv, Aligned
    <2>2. pc'[i] = "swapped" => (i + 1) % Level(j) # 0
      BY <1>6, <2>1 DEF Active
    <2>3. QED
      BY <1>1, <1>2, <1>5, <2>2, Others
  <1>9. \A j \in Items : Written(j)'
    BY <1>1, <1>2, <1>5, Unwritten
  <1>10. QED
    BY <1>1, <1>2, <1>6, <1>7, <1>8, <1>9, ItemKInv

LEMMA DownWriteK ==
    ASSUME KInv, NEW i \in Items, DownWrite(i)
    PROVE  KInv'
  <1>1. /\ Types /\ IInv /\ IInv' /\ i \in Nat /\ base < n /\ DownData(i)
        /\ pc[i] = "down_write" /\ d[i] \in Levels \ {1} /\ Active(i)
        /\ Loop(i) = "down" /\ Level(i) = d[i]
    BY DownWriteInv DEF KInv, IInv, Items, DownWrite, ItemInv, Loop, Level
  <1>2. /\ local_out' = [local_out EXCEPT ![i] = read[i][1] + read[i][2]]
        /\ pc' = [pc EXCEPT ![i] = "down_swap"]
        /\ UNCHANGED <<n, group, output, d, read>>
    BY DEF DownWrite, LocalWrite, Goto
  <1>3. pc'[i] = "down_swap" /\ Alone(i) /\ d'[i] = d[i]
    BY <1>1, <1>2 DEF Types, Alone
  <1>4. local_out'[i] = P(i + 1 - d[i] \div 2)
    <2>1. local_out'[i] = read[i][1] + read[i][2]
      BY <1>1, <1>2 DEF Types
    <2>2. i + 1 - d[i] \div 2 \in Nat /\ i + 1 - d[i] \in Nat
      <3>1. i - d[i] \div 2 \in Nat /\ i + 1 - d[i] \in Nat /\ d[i] \div 2 \in Nat
        BY <1>1, WidestHalf, Halves DEF Active
      <3>2. QED
        BY <1>1, <3>1
    <2>3. P(i + 1 - d[i] \div 2) \in Int /\ P(i + 1 - d[i]) \in Int
      BY <1>1, <2>2, PrefixSums
    <2>4. QED
      BY <1>1, <2>1, <2>3 DEF DownData
  <1>5. \A k : P(k)' = P(k)
    BY <1>2, SameP
  <1>6. DownData(i)'
    <2>1. Level(i)' = d[i]
      BY <1>3 DEF Level
    <2>2. read[i][1] = P(i + 1 - d[i])
      BY <1>1 DEF DownData
    <2>3. QED
      BY <1>1, <1>2, <1>3, <1>4, <1>5, <2>1, <2>2 DEF DownData, Active
  <1>7. UpData(i)'
    BY <1>3 DEF UpData
  <1>8. \A j \in Items \ {i} : UpData(j)' /\ DownData(j)'
    BY <1>1, <1>2, <1>3, Others DEF Types
  <1>9. \A j \in Items : Written(j)'
    BY <1>1, <1>2, <1>3, Unwritten
  <1>10. QED
    BY <1>1, <1>2, <1>6, <1>7, <1>8, <1>9, ItemKInv

LEMMA DownSwapK ==
    ASSUME KInv, NEW i \in Items, DownSwap(i)
    PROVE  KInv'
  <1>1. /\ Types /\ IInv /\ IInv' /\ i \in Nat /\ DownData(i)
        /\ pc[i] = "down_swap" /\ d[i] \in Levels \ {1} /\ Active(i)
        /\ Loop(i) = "down" /\ Level(i) = d[i]
    BY DownSwapInv DEF KInv, IInv, Items, DownSwap, ItemInv, Loop, Level
  <1>2. /\ local_out' = [local_out EXCEPT ![Left(i)] = read[i][1]]
        /\ pc' = [pc EXCEPT ![i] = "swapped"] /\ d' = [d EXCEPT ![i] = d[i] \div 2]
        /\ UNCHANGED <<n, group, output, read>>
    BY DEF DownSwap, LocalWrite, Goto, SetD
  <1>3. pc'[i] = "swapped" /\ Alone(i) /\ d'[i] = d[i] \div 2
    BY <1>1, <1>2 DEF Types, Alone
  <1>4. /\ Left(i) \in Items \ {i} /\ Loop(Left(i)) = "down" /\ Level(Left(i)) = d[i]
        /\ (Left(i) + 1) % d[i] # 0 /\ Left(i) + 1 - d[i] \div 2 = i + 1 - d[i]
    BY <1>1, LeftData
  <1>5. /\ local_out'[Left(i)] = P(i + 1 - d[i])
        /\ \A j \in Items \ {Left(i)} : local_out'[j] = local_out[j]
    BY <1>1, <1>2, <1>4 DEF Types, DownData
  <1>6. \A k : P(k)' = P(k)
    BY <1>2, SameP
  <1>7. DownData(i)' /\ UpData(i)'
    <2>1. Level(i)' = d[i]
      BY <1>1, <1>3, Halves DEF Level
    <2>2. local_out[i] = P(i + 1 - d[i] \div 2)
      BY <1>1 DEF DownData, Active
    <2>3. local_out'[i] = P(i + 1 - d[i] \div 2)
      BY <1>4, <1>5, <2>2
    <2>4. QED
      BY <1>1, <1>3, <1>6, <2>1, <2>3 DEF DownData, UpData, Active
  <1>8. ASSUME NEW l \in Items, l = Left(i) PROVE DownData(l)' /\ UpData(l)'
    <2>1. pc'[l] = pc[l] /\ d'[l] = d[l] /\ Loop(l) = "down" /\ Level(l) = d[i]
      BY <1>3, <1>4, <1>8 DEF Alone
    <2>2. Level(l)' = d[i] /\ Loop(l)' = "down"
      BY <2>1 DEF Level, Loop
    <2>3. Swapped(l)'
      BY <1>1, <1>3, <1>8, <2>2 DEF Swapped, Active, Left
    <2>4. DownData(l)
      BY DEF KInv
    <2>5. /\ local_out'[l] = P(l + 1 - d[i] \div 2) /\ read'[l] = read[l]
          /\ (l + 1) % d[i] # 0
      BY <1>2, <1>4, <1>5, <1>8
    <2>6. DownData(l)'
      BY <1>6, <2>1, <2>2, <2>3, <2>4, <2>5 DEF DownData
    <2>7. QED
      BY <2>2, <2>6 DEF UpData, Loop
  <1>9. \A j \in Items \ {i} : UpData(j)' /\ DownData(j)'
    <2> SUFFICES ASSUME NEW j \in Items \ {i} PROVE UpData(j)' /\ DownData(j)'
      OBVIOUS
    <2>1. CASE j = Left(i)
      BY <1>8, <2>1
    <2>2. CASE j # Left(i)
      <3>1. Level(j) = d[i]
        BY <1>1 DEF IInv, Aligned
      <3>2. j # i - Level(j) \div 2
        BY <2>2, <3>1 DEF Left
      <3>3. local_out'[j] = local_out[j] /\ read'[j] = read[j]
        BY <1>2, <1>5, <2>2
      <3>4. QED
        BY <1>1, <1>2, <1>3, <3>2, <3>3, Others
    <2>3. QED
      BY <2>1, <2>2
  <1>10. \A j \in Items : Written(j)'
    BY <1>1, <1>2, <1>3, Unwritten
  <1>11. QED
    BY <1>1, <1>2, <1>7, <1>9, <1>10, ItemKInv

\* What an item stores is the prefix sum of its block up to its cell.
LEMMA StoredValue ==
    ASSUME KInv, NEW i \in Items, Store(i)
    PROVE  /\ gid(i) >= n => output' = output
           /\ gid(i) < n =>
                output' = [output EXCEPT ![gid(i)] = Prefix[gid(i) + 1] - Prefix[base]]
  <1>1. Types /\ IInv /\ base < n /\ i \in Nat /\ pc[i] = "store" /\ d[i] = 1
    BY DEF KInv, IInv, Items, Store, ItemInv
  <1>2. gid(i) \in Nat /\ n \in Nat
    BY <1>1, BaseType
  <1>3. ASSUME NEW j \in Items PROVE local_out[j] = P(j)
    <2>1. Loop(j) = "down" /\ Level(j) = 1
      BY <1>1 DEF IInv, Aligned, Loop, Level
    <2>2. pc[j] \notin {"down_swap", "swapped"}
      BY <1>1, <2>1 DEF IInv, ItemInv, Level
    <2>3. j \in Nat /\ (j + 1) % 1 = 0 /\ j + 1 - 1 = j
      BY DEF Items
    <2>4. DownData(j)
      BY DEF KInv
    <2>5. local_out[j] = P(j + 1 - 1)
      BY <2>1, <2>2, <2>3, <2>4 DEF DownData
    <2>6. QED
      BY <2>3, <2>5
  <1>4. CASE gid(i) >= n
    BY <1>1, <1>2, <1>4 DEF Store
  <1>5. CASE gid(i) < n
    <2>1. /\ P(i + 1) = P(i) + Input[gid(i)]
          /\ P(i + 1) = Prefix[gid(i) + 1] - Prefix[base]
      BY <1>1, <1>2, <1>5, PrefixSums
    <2>2. (IF Last(i) THEN local_out[i] + Input[gid(i)] ELSE local_out[i + 1]) = P(i + 1)
      <3>1. ~Last(i) => i + 1 \in Items
        BY Size DEF Last, Items
      <3>2. QED
        BY <1>3, <2>1, <3>1
    <2>3. output' = [output EXCEPT ![gid(i)] = IF Last(i) THEN local_out[i] + Input[gid(i)]
                                               ELSE local_out[i + 1]]
      BY <1>2, <1>5 DEF Store
    <2>4. output' = [output EXCEPT ![gid(i)] = P(i + 1)]
      BY <2>2, <2>3
    <2>5. output' = [output EXCEPT ![gid(i)] = Prefix[gid(i) + 1] - Prefix[base]]
      BY <2>1, <2>4
    <2>6. QED
      BY <1>2, <1>5, <2>5
  <1>6. QED
    BY <1>2, <1>4, <1>5

LEMMA StoreK ==
    ASSUME KInv, NEW i \in Items, Store(i)
    PROVE  KInv'
  <1>1. /\ Types /\ IInv' /\ DownData(i) /\ pc[i] = "store" /\ d[i] = 1 /\ i \in Nat
        /\ base < n
    BY StoreInv DEF KInv, IInv, Items, Store, ItemInv
  <1>2. /\ pc' = [pc EXCEPT ![i] = "end"]
        /\ UNCHANGED <<n, group, local_out, d, read>>
    BY DEF Store, Goto
  <1>3. pc'[i] = "end" /\ Alone(i) /\ d'[i] = 1
    BY <1>1, <1>2 DEF Types, Alone
  <1>4. \A k : P(k)' = P(k)
    BY <1>2, SameP
  <1>5. DownData(i)' /\ UpData(i)'
    <2>1. Level(i) = 1 /\ Level(i)' = 1 /\ (i + 1) % 1 = 0 /\ Loop(i) = "down"
      BY <1>1, <1>3 DEF Level, Loop
    <2>2. local_out[i] = P(i + 1 - 1)
      BY <1>1, <2>1 DEF DownData
    <2>3. QED
      BY <1>2, <1>3, <1>4, <2>1, <2>2 DEF DownData, UpData
  <1>6. \A j \in Items \ {i} : UpData(j)' /\ DownData(j)'
    BY <1>1, <1>2, <1>3, Others
  <1>7. \A j \in Items : Written(j)'
    <2> SUFFICES ASSUME NEW j \in Items, gid(j) < n
                 PROVE  output'[gid(j)] = Unset <=> pc'[j] # "end"
      BY <1>2 DEF Written, gid
    <2>1. /\ gid(j) \in 0..(MaxLen - 1) /\ gid(i) \in Nat /\ n \in Nat
          /\ (gid(i) = gid(j) => i = j)
      BY <1>1, BaseType
    <2>2. gid(i) >= n \/ Prefix[gid(i) + 1] - Prefix[base] # Unset
      <3>1. CASE gid(i) < n
        <4>1. P(i + 1) = Prefix[gid(i) + 1] - Prefix[base] /\ P(i + 1) \in Int
          BY <1>1, <3>1, PrefixSums
        <4>2. QED
          BY <4>1, InputAssumption
      <3>2. QED
        BY <2>1, <3>1
    <2>3. Written(j)
      BY DEF KInv
    <2>4. CASE j = i
      <3>1. output' = [output EXCEPT ![gid(i)] = Prefix[gid(i) + 1] - Prefix[base]]
            /\ gid(i) \in DOMAIN output /\ gid(i) < n
        BY <1>1, <2>1, <2>4, StoredValue DEF Types
      <3>2. output'[gid(i)] # Unset
        BY <2>1, <2>2, <3>1
      <3>3. QED
        BY <1>3, <2>4, <3>2
    <2>5. CASE j # i
      <3>1. pc'[j] = pc[j]
        BY <1>3, <2>5 DEF Alone
      <3>2. output'[gid(j)] = output[gid(j)]
        <4>1. output' = output
              \/ output' = [output EXCEPT ![gid(i)] = Prefix[gid(i) + 1] - Prefix[base]]
          BY <2>1, StoredValue
        <4>2. gid(j) \in DOMAIN output /\ gid(j) # gid(i)
          BY <1>1, <2>1, <2>5 DEF Types
        <4>3. QED
          BY <4>1, <4>2
      <3>3. QED
        BY <2>3, <3>1, <3>2 DEF Written
    <2>6. QED
      BY <2>4, <2>5
  <1>8. QED
    BY <1>1, <1>2, <1>5, <1>6, <1>7, ItemKInv

\* All items pass a barrier together.
LEMMA BarrierK ==
    ASSUME KInv, NEW b \in Barriers, Barrier(b)
    PROVE  KInv'
  <1>1. /\ \A i \in Items : pc[i] = b /\ pc'[i] = After[b]
        /\ UNCHANGED <<n, group, output, local_out, d, read>>
        /\ IInv /\ IInv'
    BY BarrierInv DEF Barrier, KInv
  <1>2. After[b] = IF b \in {"loaded", "added"} THEN "up" ELSE "down"
    BY DEF Barriers, After
  <1>3. \A k : P(k)' = P(k)
    BY <1>1, SameP
  <1>4. \A i \in Items : \A D : Has(i, D) => Has(i, D)'
    BY <1>1, <1>3 DEF Has
  <1>5. \A i \in Items : Written(i)'
    BY <1>1, <1>2 DEF KInv, Written, gid, Barriers
  <1>6. ASSUME NEW i \in Items PROVE UpData(i)' /\ DownData(i)'
    <2>1. /\ UpData(i) /\ DownData(i) /\ ItemInv(i) /\ i \in Nat
          /\ pc[i] = b /\ pc'[i] = After[b] /\ d'[i] = d[i] /\ local_out'[i] = local_out[i]
      BY <1>1 DEF KInv, IInv, Items
    <2>2. CASE b \in {"loaded", "added"}
      <3>1. pc'[i] = "up" /\ Has(i, d[i])
        BY <1>2, <2>1, <2>2 DEF UpData, ItemInv
      <3>2. QED
        BY <1>4, <2>1, <3>1 DEF UpData, DownData, Loop
    <2>3. CASE b \in {"cleared", "swapped"}
      <3>1. pc'[i] = "down" /\ Level(i)' = d[i] /\ d[i] \in Levels
        BY <1>2, <2>1, <2>3 DEF Level, ItemInv
      <3>2. ~Swapped(i)'
        BY <1>1, <1>2, <2>3 DEF Swapped
      <3>3. /\ (i + 1) % d[i] = 0 => local_out[i] = P(i + 1 - d[i])
            /\ (i + 1) % d[i] # 0 => Has(i, d[i])
        <4>1. CASE b = "cleared"
          <5>1. d[i] = size /\ IF i = size - 1 THEN local_out[i] = 0 ELSE Has(i, 2 * size)
            BY <2>1, <4>1 DEF ItemInv, UpData
          <5>2. i = size - 1 => P(i + 1 - size) = 0
            <6>1. i = size - 1 => i + 1 - size = 0
              BY <2>1, Size
            <6>2. P(0) = 0
              BY PrefixSums DEF KInv, IInv
            <6>3. QED
              BY <6>1, <6>2
          <5>3. (i + 1) % size # 0 /\ Has(i, 2 * size) => Has(i, size)
            BY <2>1, Size, WidestIdle DEF Has
          <5>4. QED
            BY <5>1, <5>2, <5>3, LastItem
        <4>2. CASE b = "swapped"
          <5>1. /\ Level(i) = 2 * d[i] /\ Loop(i) = "down" /\ Level(i) \div 2 = d[i]
                /\ Level(i) \in Levels \ {1} /\ Level(i) <= size
            BY <2>1, <3>1, <4>2, Size, Halves DEF Level, Loop, ItemInv, Levels
          <5>2. CASE (i + 1) % Level(i) = 0
            <6>1. local_out[i] = P(i + 1 - d[i])
              BY <2>1, <4>2, <5>1, <5>2 DEF DownData
            <6>2. (i + 1) % d[i] = 0
              BY <2>1, <3>1, <5>1, <5>2 DEF Levels
            <6>3. QED
              BY <6>1, <6>2
          <5>3. CASE (i + 1) % Level(i) # 0
            <6>1. IF Swapped(i) THEN local_out[i] = P(i + 1 - d[i]) ELSE Has(i, 2 * d[i])
              BY <2>1, <5>1, <5>3 DEF DownData
            <6>2. CASE (i + 1) % d[i] = 0
              <7>1. /\ i + d[i] \in Items /\ (i + d[i] + 1) % Level(i) = 0
                    /\ i = (i + d[i]) - d[i]
                BY <5>1, <5>3, <6>2, Partner
              <7>2. Swapped(i)
                BY <1>1, <4>2, <5>1, <7>1 DEF Swapped
              <7>3. QED
                BY <6>1, <6>2, <7>2
            <6>3. CASE (i + 1) % d[i] # 0
              <7>1. ~Swapped(i)
                <8>1. ASSUME NEW r \in Items, (r + 1) % Level(i) = 0, i = r - d[i]
                      PROVE  (i + 1) % d[i] = 0
                  BY <8>1, <2>1, <3>1, <5>1 DEF Levels, Items
                <8>2. QED
                  BY <5>1, <6>3, <8>1 DEF Swapped
              <7>2. Has(i, d[i])
                BY <2>1, <3>1, <6>1, <6>3, <7>1, WidestIdle DEF Has
              <7>3. QED
                BY <6>3, <7>2
            <6>4. QED
              BY <6>2, <6>3
          <5>4. QED
            BY <5>2, <5>3
        <4>3. QED
          BY <2>3, <4>1, <4>2
      <3>4. QED
        BY <1>3, <1>4, <2>1, <3>1, <3>2, <3>3 DEF UpData, DownData
    <2>4. QED
      BY <2>2, <2>3 DEF Barriers
  <1>7. QED
    BY <1>1, <1>5, <1>6 DEF KInv, base

LEMMA NextKInv == KInv /\ [Next]_vars => KInv'
  <1> SUFFICES ASSUME KInv, [Next]_vars PROVE KInv'
    OBVIOUS
  <1>1. ASSUME NEW i \in Items, ItemStep(i) PROVE KInv'
    BY <1>1, LoadK, UpK, UpWriteK, ClearK, DownK, DownWriteK, DownSwapK, StoreK DEF ItemStep
  <1>2. CASE UNCHANGED vars
    <2>1. IInv'
      BY <1>2, NextInv DEF KInv
    <2>2. \A k : P(k)' = P(k)
      BY <1>2, SameP DEF vars
    <2>3. \A i \in Items : \A D : Has(i, D) => Has(i, D)'
      BY <1>2, <2>2 DEF vars, Has
    <2>4. \A i \in Items : /\ Loop(i)' = Loop(i) /\ Level(i)' = Level(i)
                           /\ Swapped(i)' <=> Swapped(i)
      BY <1>2 DEF vars, Loop, Level, Swapped
    <2>5. \A i \in Items : UpData(i)'
      BY <1>2, <2>2, <2>3 DEF vars, KInv, UpData
    <2>6. \A i \in Items : DownData(i)'
      BY <1>2, <2>2, <2>3, <2>4 DEF vars, KInv, DownData
    <2>7. QED
      BY <1>2, <2>1, <2>5, <2>6 DEF vars, KInv, Written, gid, base
  <1>3. QED
    BY <1>1, <1>2, BarrierK DEF Next

\* KInv holds in every state.
THEOREM KernelInvariant == Spec => []KInv
  BY InitKInv, NextKInv, PTL DEF Spec

-----------------------------------------------------------------------------
(***************************************************************************)
(* The refinement: a store is a store of BlockScan, the last store or the  *)
(* last return also ends the group, and every other step stutters.         *)
(***************************************************************************)
LEMMA KernelInit == Init => Kernel!Init
  <1> SUFFICES ASSUME Init PROVE Kernel!Init
    OBVIOUS
  <1>1. 0 \in Items
    BY Size DEF Items
  <1>2. Ended = FALSE
    BY <1>1 DEF Init, Ended
  <1>3. n \in 1..MaxLen /\ group \in Kernel!Groups(n)
        /\ output = [g \in 0..(MaxLen - 1) |-> Unset]
    BY DEF Init, Kernel!Groups, size
  <1>4. QED
    BY <1>2, <1>3 DEF Kernel!Init

\* A step that writes nothing and ends no item changes nothing for BlockScan.
LEMMA KernelStutter ==
    ASSUME NEW i \in Items, pc[i] # "end", pc'[i] # "end", UNCHANGED <<n, group, output>>
    PROVE  UNCHANGED Kernel!vars
  <1>1. Ended = FALSE /\ Ended' = FALSE
    BY DEF Ended
  <1>2. QED
    BY <1>1 DEF Kernel!vars

LEMMA KernelStore ==
    ASSUME KInv, NEW i \in Items, Store(i)
    PROVE  [Kernel!Next]_(Kernel!vars)
  <1>1. /\ Types /\ pc[i] = "store" /\ pc' = [pc EXCEPT ![i] = "end"]
        /\ UNCHANGED <<n, group>> /\ base \in Nat /\ n \in Nat /\ n <= MaxLen
        /\ gid(i) = base + i /\ gid(i) \in Nat /\ base = Kernel!Base
    BY BaseType DEF KInv, IInv, Store, Goto, base, size, Kernel!Base
  <1>2. Ended = FALSE
    BY <1>1 DEF Ended
  <1>3. \A g \in Kernel!Cells : \E j \in Items : g = gid(j) /\ gid(j) < n
    <2> SUFFICES ASSUME NEW g \in Kernel!Cells
                 PROVE  \E j \in Items : g = gid(j) /\ gid(j) < n
      OBVIOUS
    <2>1. g \in base..(base + size - 1) /\ g < n
      BY <1>1 DEF Kernel!Cells, size
    <2>2. g - base \in Items /\ gid(g - base) = base + (g - base)
      BY <1>1, <2>1, Size DEF Items, gid, base
    <2>3. QED
      BY <1>1, <2>1, <2>2
  \* The group has ended only when every cell is written.
  <1>4. Ended' = FALSE \/ Kernel!End
    <2>1. SUFFICES ASSUME Ended' PROVE Kernel!End
      BY DEF Ended
    <2>2. \A j \in Items : pc'[j] = "end"
      BY <2>1 DEF Ended
    <2>3. \A j \in Items : Written(j)'
      BY StoreK DEF KInv
    <2>4. \A j \in Items : gid(j) < n => output'[gid(j)] # Unset
      BY <1>1, <2>2, <2>3 DEF Written, gid
    <2>5. \A g \in Kernel!Cells : output'[g] # Unset
      BY <1>3, <2>4
    <2>6. Ended' = TRUE
      BY <2>2 DEF Ended
    <2>7. QED
      BY <2>5, <2>6 DEF Kernel!End
  <1>5. CASE gid(i) >= n
    <2>1. output' = output
      BY <1>5, StoredValue
    <2>2. CASE Ended' = FALSE
      BY <1>1, <1>2, <2>1, <2>2 DEF Kernel!vars
    <2>3. CASE Kernel!End
      BY <1>1, <1>2, <2>1, <2>3 DEF Kernel!Next
    <2>4. QED
      BY <1>4, <2>2, <2>3
  <1>6. CASE gid(i) < n
    <2>1. gid(i) \in Kernel!Cells
      BY <1>1, <1>6, Size DEF Kernel!Cells, Items, size
    <2>2. output[gid(i)] = Unset
      BY <1>1, <1>6 DEF KInv, Written
    <2>3. output' = [output EXCEPT ![gid(i)] = Kernel!Sum(Kernel!Base, gid(i))]
      BY <1>1, <1>6, StoredValue DEF Kernel!Sum
    <2>4. Kernel!Store(gid(i))
      BY <1>1, <1>2, <2>2, <2>3 DEF Kernel!Store
    <2>5. Ended' = Ended \/ Kernel!End
      BY <1>2, <1>4
    <2>6. QED
      BY <2>1, <2>4, <2>5 DEF Kernel!Next
  <1>7. QED
    BY <1>1, <1>5, <1>6

LEMMA KernelNext == KInv /\ [Next]_vars => [Kernel!Next]_(Kernel!vars)
  <1> SUFFICES ASSUME KInv, [Next]_vars PROVE [Kernel!Next]_(Kernel!vars)
    OBVIOUS
  <1> USE DEF KInv, IInv, Types
  <1>1. ASSUME NEW i \in Items, Load(i) \/ UpWrite(i) \/ Clear(i) \/ DownWrite(i) \/ DownSwap(i)
        PROVE  UNCHANGED Kernel!vars
    <2>1. /\ pc[i] # "end" /\ pc'[i] # "end" /\ UNCHANGED <<n, group, output>>
      BY <1>1 DEF Load, UpWrite, Clear, DownWrite, DownSwap, Goto
    <2>2. QED
      BY <2>1, KernelStutter
  <1>2. ASSUME NEW i \in Items, Up(i) \/ Down(i) PROVE UNCHANGED Kernel!vars
    <2>1. /\ pc[i] # "end" /\ pc'[i] # "end" /\ UNCHANGED <<n, group, output>>
      BY <1>2 DEF Up, Down, Goto
    <2>2. QED
      BY <2>1, KernelStutter
  <1>3. ASSUME NEW b \in Barriers, Barrier(b) PROVE UNCHANGED Kernel!vars
    <2>1. 0 \in Items
      BY Size DEF Items
    <2>2. /\ pc[0] # "end" /\ pc'[0] # "end" /\ UNCHANGED <<n, group, output>>
      BY <1>3, <2>1 DEF Barrier, Barriers, After
    <2>3. QED
      BY <2>1, <2>2, KernelStutter
  <1>4. CASE UNCHANGED vars
    <2>1. Ended' = Ended
      BY <1>4 DEF vars, Ended
    <2>2. QED
      BY <1>4, <2>1 DEF vars, Kernel!vars
  <1>5. QED
    BY <1>1, <1>2, <1>3, <1>4, KernelStore DEF Next, ItemStep

\* The work-group, with its barriers and whatever the order of its items,
\* writes the prefix sums of its block, each once, and nothing else.
THEOREM Refinement == Spec => ImplementsKernel
  BY KernelInvariant, KernelInit, KernelNext, PTL DEF Spec, ImplementsKernel, Kernel!Spec
===============================================================================
