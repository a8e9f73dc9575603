--------------------------- MODULE CommandLine_proofs ---------------------------
(***************************************************************************)
(* Proofs about CommandLine: the types, that the arrays made after the     *)
(* first pass over the vector are large enough for the second, that the    *)
(* numbers a container is started with are in their ranges, and what the   *)
(* lists of options, the words of the vector and the report have.          *)
(***************************************************************************)
EXTENDS CommandLine, FiniteSetTheorems, TLAPS

Places == (Nat \ {0}) \X Nat

\* What is used of the descriptors.
UsageOK ==
    /\ usage \in {startUsage, stopUsage, listUsage, execUsage, <<>>}
    /\ command = "start" => usage = startUsage
    /\ command \in DOMAIN Usage => usage \in {startUsage, stopUsage, listUsage, execUsage}

LEMMA Indices ==
  /\ UNKNOWN = 0 /\ HELP = 1 /\ DEBUG = 2
  /\ DAEMONIZE = 3 /\ CPU_PERC = 4 /\ NET = 5
  BY DEF UNKNOWN, HELP, DEBUG, DAEMONIZE, CPU_PERC, NET

LEMMA ListEntries ==
  /\ DOMAIN listUsage = 1..2
  /\ listUsage[1].index = UNKNOWN /\ listUsage[2].index = HELP
<1>1. DOMAIN listUsage = 1..2  BY DEF listUsage
<1>2. listUsage[1].index = UNKNOWN  BY DEF listUsage, Desc
<1>3. listUsage[2].index = HELP  BY DEF listUsage, Desc
<1>4. QED  BY <1>1, <1>2, <1>3

LEMMA StopEntries ==
  /\ DOMAIN stopUsage = 1..4
  /\ stopUsage[1].index = UNKNOWN /\ stopUsage[2].index = HELP
  /\ stopUsage[3].index = DEBUG /\ stopUsage[4].index = UNKNOWN
<1>1. DOMAIN stopUsage = 1..4  BY DEF stopUsage
<1>2. stopUsage[1].index = UNKNOWN  BY DEF stopUsage, Desc
<1>3. stopUsage[2].index = HELP  BY DEF stopUsage, Desc
<1>4. stopUsage[3].index = DEBUG  BY DEF stopUsage, Desc
<1>5. stopUsage[4].index = UNKNOWN  BY DEF stopUsage, Desc
<1>6. QED  BY <1>1, <1>2, <1>3, <1>4, <1>5

LEMMA StartDomain == DOMAIN startUsage = 1..6
  BY DEF startUsage

LEMMA StartEntries ==
  /\ startUsage[1].index = UNKNOWN /\ startUsage[2].index = HELP
  /\ startUsage[3].index = DEBUG /\ startUsage[4].index = DAEMONIZE
  /\ startUsage[5].index = CPU_PERC /\ startUsage[6].index = NET
  /\ startUsage[5].check = "percent" /\ startUsage[6].check = "ip"
<1>1. startUsage[1].index = UNKNOWN  BY DEF startUsage, Desc
<1>2. startUsage[2].index = HELP  BY DEF startUsage, Desc
<1>3. startUsage[3].index = DEBUG  BY DEF startUsage, Desc
<1>4. startUsage[4].index = DAEMONIZE  BY DEF startUsage, Desc
<1>5. startUsage[5].index = CPU_PERC /\ startUsage[5].check = "percent"  BY DEF startUsage, Desc
<1>6. startUsage[6].index = NET /\ startUsage[6].check = "ip"  BY DEF startUsage, Desc
<1>7. QED  BY <1>1, <1>2, <1>3, <1>4, <1>5, <1>6

LEMMA UsageShape ==
  ASSUME UsageOK
  PROVE  /\ DOMAIN usage \subseteq 1..6
         /\ \A d \in DOMAIN usage : usage[d].index \in Nat
<1> DEFINE Good(u) == DOMAIN u \subseteq 1..6 /\ \A d \in DOMAIN u : u[d].index \in Nat
<1>1. Good(listUsage)  BY ListEntries, Indices
<1>2. Good(stopUsage)  BY StopEntries, Indices
<1>3. Good(startUsage)  BY StartDomain, StartEntries, Indices
<1>4. Good(<<>>)  OBVIOUS
<1>5. QED  BY <1>1, <1>2, <1>3, <1>4 DEF UsageOK, execUsage

\* Only --cpu and --net have their indices, and their checks.
LEMMA StartShape ==
  ASSUME NEW d \in DOMAIN startUsage
  PROVE  /\ startUsage[d].index = CPU_PERC => startUsage[d].check = "percent"
         /\ startUsage[d].index = NET => startUsage[d].check = "ip"
  BY StartDomain, StartEntries, Indices

LEMMA LeastIsIn ==
  ASSUME NEW S \in SUBSET (1..6), S # {}
  PROVE  Least(S) \in S
<1>1. \E i \in S : \A j \in S : i <= j
  <2>1. CASE 1 \in S  BY <2>1
  <2>2. CASE 1 \notin S /\ 2 \in S  BY <2>2
  <2>3. CASE S \subseteq 3..6 /\ 3 \in S  BY <2>3
  <2>4. CASE S \subseteq 4..6 /\ 4 \in S  BY <2>4
  <2>5. CASE S \subseteq {5, 6}
    <3>1. PICK i \in S : TRUE  OBVIOUS
    <3>2. CASE 5 \in S  BY <2>5, <3>2
    <3>3. CASE 5 \notin S  BY <2>5, <3>1, <3>3
    <3>4. QED  BY <3>2, <3>3
  <2>6. QED  BY <2>1, <2>2, <2>3, <2>4, <2>5
<1>2. QED  BY <1>1 DEF Least

LEMMA DescriptorIsIn ==
  ASSUME UsageOK, NEW c, Described(c)
  PROVE  Descriptor(c) \in DOMAIN usage
<1> DEFINE named == {i \in DOMAIN usage : Matches(c, usage[i])}
           dummies == {i \in DOMAIN usage : IsDummy(usage[i])}
<1>1. named \in SUBSET (1..6) /\ dummies \in SUBSET (1..6)  BY UsageShape
<1>2. Descriptor(c) = IF named # {} THEN Least(named)
                      ELSE IF dummies # {} THEN Least(dummies) ELSE 0
  BY DEF Descriptor
<1>3. named # {} => Least(named) \in named  BY <1>1, LeastIsIn
<1>4. dummies # {} => Least(dummies) \in dummies  BY <1>1, LeastIsIn
<1>5. Descriptor(c) # 0  BY DEF Described
<1> HIDE DEF named, dummies
<1>6. Descriptor(c) \in named \cup dummies  BY <1>2, <1>3, <1>4, <1>5
<1>7. QED  BY <1>6 DEF named, dummies

\* Neither argv nor usage changes, and what is at a place depends on nothing else.
LEMMA Rigid ==
  ASSUME NEW c, UNCHANGED <<usage, argv>>
  PROVE  /\ Stopped(c)' <=> Stopped(c)
         /\ Parsed(c)' <=> Parsed(c)
         /\ Rejected(c)' <=> Rejected(c)
         /\ Described(c)' <=> Described(c)
         /\ Onward(c)' = Onward(c)
         /\ TextAt(c)' = TextAt(c)
<1>1. \A kinds : Is(c, kinds)' <=> Is(c, kinds)  BY DEF Is
<1>2. Stopped(c)' <=> Stopped(c)  BY <1>1 DEF Stopped
<1>3. AtOption(c)' <=> AtOption(c)  BY <1>1 DEF AtOption
<1>4. \A d : Matches(c, d)' <=> Matches(c, d)  BY <1>1 DEF Matches, streq, instr
<1>5. Descriptor(c)' = Descriptor(c)
  <2>1. {i \in DOMAIN usage : Matches(c, usage[i])}'
          = {i \in DOMAIN usage : Matches(c, usage[i])}
    BY <1>1 DEF Matches, streq, instr
  <2>2. QED  BY <2>1 DEF Descriptor
<1>6. Optarg(c)' = Optarg(c)  BY DEF Optarg
<1>7. \A p : TextAt(p)' = TextAt(p)  BY DEF TextAt
<1>8. Status(c)' = Status(c)  BY <1>5, <1>6, <1>7 DEF Status
<1>9. Described(c)' <=> Described(c)  BY <1>3, <1>5 DEF Described
<1>10. (Parsed(c)' <=> Parsed(c)) /\ (Rejected(c)' <=> Rejected(c))
  BY <1>8, <1>9 DEF Parsed, Rejected
<1>11. Onward(c)' = Onward(c)  BY <1>1, <1>3, <1>6, <1>8, <1>10 DEF Onward
<1>12. QED  BY <1>2, <1>7, <1>9, <1>10, <1>11

-----------------------------------------------------------------------------
(***************************************************************************)
(* The inductive invariant.  A place is where a pass can be; the lists     *)
(* begin at their heads; arguments were accepted; and the store follows    *)
(* the log of the count, one option behind what was counted, so that it    *)
(* stops where the count stopped.                                          *)
(***************************************************************************)
PlaceOK(c) ==
    /\ c \in Places
    /\ c[1] <= Len(argv) + 1
    /\ c[2] # 0 => Is(c, {"group"})

Heads ==
    \A c \in DOMAIN cell :
        c[1] = "options" => isFirst(c) /\ usage[cell[c].desc].index = c[2]

ArgsAccepted ==
    \A c \in DOMAIN cell :
        LET check == usage[cell[c].desc].check
        IN  check # "None" =>
                /\ cell[c].arg # NULL /\ TextAt(cell[c].arg) \in Texts
                /\ Accepts(check, TextAt(cell[c].arg))

\* From one entry of the log to the next.
Follows(a, b) ==
    /\ ~Stopped(a.at) /\ ~Rejected(a.at)
    /\ b.at = Onward(a.at)
    /\ b.n = IF Parsed(a.at) THEN a.n + 1 ELSE a.n

\* The last entry of the log of a count that has ended.
Last(a) ==
    \/ Stopped(a.at)
    \/ Rejected(a.at)
    \/ Parsed(a.at) /\ a.n = MaxOptions

Entries == [at : Places, n : 1..MaxOptions]

Logged ==
    /\ log \in Seq(Entries) /\ Len(log) > 0
    /\ \A i \in 1..(Len(log) - 1) : Follows(log[i], log[i + 1])
    /\ \A i \in 1..Len(log) : log[i].n <= buffer_max
    /\ log[1] = [at |-> <<1, 0>>, n |-> 1]
    /\ log[Len(log)].n = buffer_max
    /\ pass = "count" => log[Len(log)].at = cursor /\ op_count = 0
    /\ pass # "count" => Last(log[Len(log)])
    /\ pass = "store" =>
          \/ \E i \in 1..Len(log) : log[i].at = cursor /\ log[i].n = op_count + 1
          \/ op_count = MaxOptions

Fits == /\ op_count < buffer_max \/ op_count = MaxOptions
        /\ op_count <= buffer_max

CellsOK ==
    /\ DOMAIN cell \subseteq {"options", "buffer"} \X Nat
    /\ \A c \in DOMAIN cell :
          /\ cell[c] \in [desc : DOMAIN usage, name : Places, arg : Nat \X Nat,
                         prev : BOOLEAN \X DOMAIN cell, next : BOOLEAN \X DOMAIN cell]
          /\ c[1] = "buffer" => c[2] < op_count

ScalarsOK ==
    /\ pass \in {"count", "store", "finished"}
    /\ buffer_max \in 1..MaxOptions /\ op_count \in 0..MaxOptions
    /\ nonop_count \in Nat /\ nonop_args \in Nat
    /\ err \in BOOLEAN /\ messages \in Nat

ParserInv ==
    /\ UsageOK /\ argv \in Seq(Words)
    /\ ScalarsOK /\ PlaceOK(cursor)
    /\ CellsOK /\ Heads /\ ArgsAccepted
    /\ Logged /\ Fits

LEMMA InvTypeOK == ParserInv => TypeOK
  BY DEF ParserInv, TypeOK, ScalarsOK, PlaceOK, CellsOK, Places, Elements

LEMMA InvBufferFits == ParserInv => BufferFits
<1> SUFFICES ASSUME ParserInv PROVE BufferFits  OBVIOUS
<1>1. ASSUME NEW c \in DOMAIN cell
      PROVE  IF c[1] = "buffer" THEN c[2] < op_count
             ELSE \E i \in DOMAIN usage : c[2] = usage[i].index
  <2>1. c \in {"options", "buffer"} \X Nat  BY DEF ParserInv, CellsOK
  <2>2. c[1] \in {"options", "buffer"}  BY <2>1
  <2>3. CASE c[1] = "buffer"  BY <2>3 DEF ParserInv, CellsOK
  <2>4. CASE c[1] = "options"
    <3>1. cell[c].desc \in DOMAIN usage  BY DEF ParserInv, CellsOK
    <3>2. usage[cell[c].desc].index = c[2]  BY <2>4 DEF ParserInv, Heads
    <3>3. QED  BY <2>4, <3>1, <3>2
  <2>5. QED  BY <2>2, <2>3, <2>4
<1>2. QED  BY <1>1 DEF ParserInv, Fits, BufferFits

-----------------------------------------------------------------------------
(***************************************************************************)
(* Where a pass goes.                                                      *)
(***************************************************************************)
LEMMA OptargOK ==
  ASSUME argv \in Seq(Words), NEW c \in Places, Is(c, {"long", "group"})
  PROVE  /\ Optarg(c) \in Nat \X Nat
         /\ Optarg(c) # NULL /\ Optarg(c)[2] = 0 =>
               c[1] < Len(argv) /\ Optarg(c) = <<c[1] + 1, 0>>
<1>1. c[1] \in 1..Len(argv) /\ c[2] \in Nat  BY DEF Is, Places
<1>2. CASE c[2] + 1 \in DOMAIN Shape[argv[c[1]]].rest
  BY <1>1, <1>2 DEF Optarg
<1>3. CASE c[2] + 1 \notin DOMAIN Shape[argv[c[1]]].rest /\ c[1] < Len(argv)
  BY <1>1, <1>3 DEF Optarg
<1>4. CASE c[2] + 1 \notin DOMAIN Shape[argv[c[1]]].rest /\ ~(c[1] < Len(argv))
  BY <1>1, <1>4 DEF Optarg, NULL
<1>5. QED  BY <1>2, <1>3, <1>4

\* An accepted argument is there.
LEMMA AcceptedThere ==
  ASSUME NEW c, Status(c) = "ARG_OK"
  PROVE  Optarg(c) # NULL /\ Accepts(usage[Descriptor(c)].check, TextAt(Optarg(c)))
  BY DEF Status

LEMMA ArgumentIsText ==
  ASSUME argv \in Seq(Words), NEW c \in Places, Is(c, {"long", "group"}),
         Optarg(c) # NULL
  PROVE  TextAt(Optarg(c)) \in Texts
<1> DEFINE w == argv[c[1]]
<1>1. c[1] \in 1..Len(argv) /\ c[2] \in Nat  BY DEF Is, Places
<1>2. w \in Words  BY <1>1
<1>3. CASE c[2] + 1 \in DOMAIN Shape[w].rest
  <2>1. Optarg(c) = <<c[1], c[2] + 1>>  BY <1>3 DEF Optarg
  <2>2. TextAt(Optarg(c)) = Shape[w].rest[c[2] + 1]  BY <1>1, <2>1 DEF TextAt
  <2>3. QED  BY <1>2, <1>3, <2>2, WordsAssumption
<1>4. CASE c[2] + 1 \notin DOMAIN Shape[w].rest
  <2>1. c[1] < Len(argv) /\ Optarg(c) = <<c[1] + 1, 0>>
    BY <1>4 DEF Optarg
  <2>2. TextAt(Optarg(c)) = argv[c[1] + 1]  BY <1>1, <2>1 DEF TextAt
  <2>3. c[1] + 1 \in 1..Len(argv)  BY <1>1, <2>1
  <2>4. argv[c[1] + 1] \in Words  BY <2>3
  <2>5. QED  BY <2>2, <2>4, WordsAssumption
<1>5. QED  BY <1>3, <1>4

LEMMA OnwardOK ==
  ASSUME argv \in Seq(Words), NEW c, PlaceOK(c), ~Stopped(c)
  PROVE  PlaceOK(Onward(c))
<1> DEFINE d == Onward(c)
<1>1. c \in Places /\ c[1] \in Nat \ {0} /\ c[2] \in Nat  BY DEF PlaceOK, Places
<1>2. Is(c, {"long", "group"})  BY DEF PlaceOK, Stopped, Is
<1>3. c[1] \in 1..Len(argv)  BY <1>1, <1>2 DEF Is
<1>4. CASE Parsed(c) /\ Status(c) = "ARG_OK"
  <2>1. Optarg(c)[2] = 0 => c[1] < Len(argv)  BY <1>1, <1>2, <1>4, AcceptedThere, OptargOK
  <2>2. d = <<IF Optarg(c)[2] = 0 THEN c[1] + 2 ELSE c[1] + 1, 0>>  BY <1>4 DEF Onward
  <2>3. d \in Places /\ d[1] <= Len(argv) + 1 /\ d[2] = 0
    BY <1>3, <2>1, <2>2 DEF Places
  <2>4. QED  BY <2>3 DEF PlaceOK
<1>5. CASE ~(Parsed(c) /\ Status(c) = "ARG_OK")
           /\ Is(c, {"group"}) /\ (c[2] = 0 \/ AtOption(c))
  <2>1. d = <<c[1], c[2] + 1>>  BY <1>5 DEF Onward
  <2>2. Is(d, {"group"})  BY <1>5, <2>1 DEF Is
  <2>3. QED  BY <1>1, <1>3, <2>1, <2>2 DEF PlaceOK, Places
<1>6. CASE ~(Parsed(c) /\ Status(c) = "ARG_OK")
           /\ ~(Is(c, {"group"}) /\ (c[2] = 0 \/ AtOption(c)))
  <2>1. d = <<c[1] + 1, 0>>  BY <1>6 DEF Onward
  <2>2. QED  BY <1>1, <1>3, <2>1 DEF PlaceOK, Places
<1>7. QED  BY <1>4, <1>5, <1>6

-----------------------------------------------------------------------------
(***************************************************************************)
(* The log.                                                                *)
(***************************************************************************)
LEMMA FollowsStep ==
  ASSUME NEW a, NEW b, UNCHANGED <<usage, argv>>
  PROVE  (Follows(a, b)' <=> Follows(a, b)) /\ (Last(a)' <=> Last(a))
<1> DEFINE c == a.at
<1>1. /\ Stopped(c)' <=> Stopped(c)
      /\ Parsed(c)' <=> Parsed(c)
      /\ Rejected(c)' <=> Rejected(c)
      /\ Onward(c)' = Onward(c)
  BY Rigid
<1>2. QED  BY <1>1 DEF Follows, Last

LEMMA PlaceStep ==
  ASSUME NEW c, UNCHANGED <<usage, argv>>, PlaceOK(c)
  PROVE  PlaceOK(c)'
  BY DEF PlaceOK, Is

\* The count goes on.
LEMMA LogGrows ==
  ASSUME ParserInv, pass = "count", pass' = "count",
         UNCHANGED <<usage, argv, op_count>>,
         ~Stopped(cursor), ~Rejected(cursor), cursor' = Onward(cursor),
         buffer_max' = IF Parsed(cursor) THEN buffer_max + 1 ELSE buffer_max,
         buffer_max' <= MaxOptions, Log
  PROVE  Logged'
<1> DEFINE e == [at |-> cursor', n |-> buffer_max']
           m == Len(log)
<1>1. log' = Append(log, e)  BY DEF Log
<1>2. buffer_max \in 1..MaxOptions /\ op_count = 0 /\ m \in Nat \ {0}
      /\ log \in Seq(Entries)
  BY DEF ParserInv, ScalarsOK, Logged
<1>3. buffer_max' \in 1..MaxOptions /\ buffer_max <= buffer_max'
  BY <1>2, MaxOptionsAssumption
<1>4. cursor' \in Places  BY OnwardOK DEF ParserInv, PlaceOK
<1>5. e \in Entries  BY <1>3, <1>4 DEF Entries
<1>6. /\ log' \in Seq(Entries) /\ Len(log') = m + 1
      /\ \A i \in 1..m : log'[i] = log[i]
      /\ log'[m + 1] = e
  BY <1>1, <1>2, <1>5
<1> HIDE DEF m
<1>7. \A i \in 1..m : Follows(log'[i], log'[i + 1])
  <2>1. TAKE i \in 1..m
  <2>2. CASE i < m
    <3>1. Follows(log[i], log[i + 1])  BY <1>2, <2>2 DEF ParserInv, Logged, m
    <3>2. i + 1 \in 1..m  BY <1>2, <2>2
    <3>3. log'[i] = log[i] /\ log'[i + 1] = log[i + 1]  BY <1>6, <3>2
    <3>4. QED  BY <3>1, <3>3
  <2>3. CASE i = m
    <3>1. log[m].at = cursor /\ log[m].n = buffer_max  BY DEF ParserInv, Logged, m
    <3>2. log'[i] = log[m] /\ log'[i + 1] = e  BY <1>2, <1>6, <2>3
    <3>3. e.at = cursor' /\ e.n = buffer_max'  OBVIOUS
    <3> HIDE DEF e
    <3>4. QED  BY <3>1, <3>2, <3>3 DEF Follows
  <2>4. QED  BY <1>2, <2>2, <2>3
<1>8. \A i \in 1..m : Follows(log[i], log[i + 1])'
  <2>1. TAKE i \in 1..m
  <2>2. PICK a, b : a = log'[i] /\ b = log'[i + 1]  OBVIOUS
  <2>3. Follows(a, b)  BY <1>7, <2>2
  <2>4. Follows(a, b)'  BY <2>3, FollowsStep
  <2>5. QED  BY <2>2, <2>4 DEF Follows
<1>9. \A i \in 1..(m + 1) : log'[i].n <= buffer_max'
  <2>1. TAKE i \in 1..(m + 1)
  <2>2. CASE i \in 1..m
    <3>1. log[i].n <= buffer_max /\ log[i] \in Entries
      BY <2>2 DEF ParserInv, Logged, m
    <3>2. QED  BY <1>2, <1>3, <1>6, <2>2, <3>1 DEF Entries
  <2>3. CASE i = m + 1  BY <1>3, <1>6, <2>3
  <2>4. QED  BY <1>2, <2>2, <2>3
<1>10. log'[1] = log[1] /\ log[1] = [at |-> <<1, 0>>, n |-> 1]
  BY <1>2, <1>6 DEF ParserInv, Logged
<1>11. log'[Len(log')].n = buffer_max' /\ log'[Len(log')].at = cursor'
  BY <1>6
<1>12. QED
  <2>1. /\ log' \in Seq(Entries) /\ Len(log') > 0
        /\ \A i \in 1..Len(log') : log'[i].n <= buffer_max'
        /\ log'[1] = [at |-> <<1, 0>>, n |-> 1]
        /\ log'[Len(log')].n = buffer_max'
        /\ log'[Len(log')].at = cursor' /\ op_count' = 0
    BY <1>2, <1>6, <1>9, <1>10, <1>11
  <2>2. \A i \in 1..(Len(log') - 1) : Follows(log[i], log[i + 1])'
    BY <1>2, <1>6, <1>8
  <2>3. pass' = "count"  OBVIOUS
  <2>4. QED  BY <2>1, <2>2, <2>3 DEF Logged, Entries, Places

-----------------------------------------------------------------------------
(***************************************************************************)
(* The actions of the parser.                                              *)
(***************************************************************************)
LEMMA KeepsCells ==
  ASSUME ParserInv, UNCHANGED <<usage, argv, command, cell, op_count>>
  PROVE  /\ UsageOK' /\ (argv \in Seq(Words))'
         /\ CellsOK' /\ Heads' /\ ArgsAccepted'
<1>1. UsageOK' /\ (argv \in Seq(Words))'  BY DEF ParserInv, UsageOK
<1>2. CellsOK'  BY DEF ParserInv, CellsOK
<1>3. Heads'  BY DEF ParserInv, Heads, isFirst
<1>4. ArgsAccepted'  BY DEF ParserInv, ArgsAccepted, TextAt
<1>5. QED  BY <1>1, <1>2, <1>3, <1>4

\* Any change of the log's own state that leaves the log as it is.
LEMMA KeepsLog ==
  ASSUME ParserInv, UNCHANGED <<usage, argv, log, buffer_max>>
  PROVE  /\ log' \in Seq(Entries) /\ Len(log') > 0
         /\ \A i \in 1..(Len(log') - 1) : Follows(log[i], log[i + 1])'
         /\ \A i \in 1..Len(log') : log'[i].n <= buffer_max'
         /\ log'[1] = [at |-> <<1, 0>>, n |-> 1]
         /\ log'[Len(log')].n = buffer_max'
<1>1. log' = log /\ buffer_max' = buffer_max  OBVIOUS
<1>2. \A i \in 1..(Len(log) - 1) : Follows(log[i], log[i + 1])'
  <2>1. TAKE i \in 1..(Len(log) - 1)
  <2>2. PICK a, b : a = log[i] /\ b = log[i + 1]  OBVIOUS
  <2>3. Follows(a, b)  BY <2>2 DEF ParserInv, Logged
  <2>4. Follows(a, b)'  BY <2>3, FollowsStep
  <2>5. QED  BY <1>1, <2>2, <2>4 DEF Follows
<1>3. QED  BY <1>1, <1>2 DEF ParserInv, Logged

LEMMA KeepsLast ==
  ASSUME ParserInv, UNCHANGED <<usage, argv, log>>, Last(log[Len(log)])
  PROVE  Last(log[Len(log)])'
<1>1. PICK a : a = log[Len(log)]  OBVIOUS
<1>2. Last(a)  BY <1>1
<1>3. Last(a)'  BY <1>2, FollowsStep
<1>4. log' = log  OBVIOUS
<1>5. QED  BY <1>1, <1>3, <1>4 DEF Last

LEMMA SkipInv ==
  ASSUME ParserInv, Skip, UNCHANGED command
  PROVE  ParserInv'
<1>1. /\ ~Stopped(cursor) /\ ~Parsed(cursor) /\ ~Rejected(cursor)
      /\ cursor' = Onward(cursor) /\ pass \in {"count", "store"}
      /\ UNCHANGED <<usage, argv, pass, buffer_max, op_count, cell, nonop_count,
                     nonop_args, err, messages>>
      /\ Log
  BY DEF Skip, Parsed, Rejected, ParserInv, ScalarsOK
<1>2. UsageOK' /\ (argv \in Seq(Words))' /\ CellsOK' /\ Heads' /\ ArgsAccepted'
  BY <1>1, KeepsCells
<1>3. ScalarsOK' /\ Fits'  BY <1>1 DEF ParserInv, ScalarsOK, Fits
<1>4. PlaceOK(cursor)'
  <2>1. PICK c : c = cursor'  OBVIOUS
  <2>2. PlaceOK(c)  BY <1>1, <2>1, OnwardOK DEF ParserInv
  <2>3. PlaceOK(c)'  BY <1>1, <2>2, PlaceStep
  <2>4. QED  BY <2>1, <2>3 DEF PlaceOK, Is
<1>5. Logged'
  <2>1. CASE pass = "count"
    <3>1. buffer_max' <= MaxOptions  BY <1>1, MaxOptionsAssumption DEF ParserInv, ScalarsOK
    <3>2. QED  BY <1>1, <2>1, <3>1, LogGrows
  <2>2. CASE pass = "store"
    <3>1. log' = log  BY <1>1, <2>2 DEF Log
    <3>2. Last(log[Len(log)])'  BY <1>1, <2>2, <3>1, KeepsLast DEF ParserInv, Logged
    <3>3. \/ \E i \in 1..Len(log') : log'[i].at = cursor' /\ log'[i].n = op_count' + 1
          \/ op_count' = MaxOptions
      <4>1. CASE op_count = MaxOptions  BY <1>1, <4>1
      <4>2. CASE op_count # MaxOptions
        <5>1. PICK i \in 1..Len(log) : log[i].at = cursor /\ log[i].n = op_count + 1
          BY <2>2, <4>2 DEF ParserInv, Logged
        <5>2. i # Len(log)
          BY <1>1, <2>2, <5>1 DEF ParserInv, Logged, Last
        <5>3. i \in 1..(Len(log) - 1)  BY <5>2 DEF ParserInv, Logged
        <5>4. Follows(log[i], log[i + 1])  BY <5>3 DEF ParserInv, Logged
        <5>5. log[i + 1].at = cursor' /\ log[i + 1].n = op_count' + 1
          BY <1>1, <5>1, <5>4 DEF Follows
        <5>6. QED  BY <3>1, <5>3, <5>5
      <4>3. QED  BY <4>1, <4>2
    <3>4. QED  BY <1>1, <2>2, <3>1, <3>2, <3>3, KeepsLog DEF Logged, Entries, Places
  <2>3. QED  BY <1>1, <2>1, <2>2
<1>6. QED  BY <1>2, <1>3, <1>4, <1>5 DEF ParserInv

LEMMA CountInv ==
  ASSUME ParserInv, Count, UNCHANGED command
  PROVE  ParserInv'
<1>1. /\ ~Stopped(cursor) /\ Parsed(cursor) /\ ~Rejected(cursor)
      /\ cursor' = Onward(cursor) /\ pass = "count"
      /\ buffer_max < MaxOptions /\ buffer_max' = buffer_max + 1
      /\ UNCHANGED <<usage, argv, pass, op_count, cell, nonop_count, nonop_args, err,
                     messages>>
      /\ Log
  BY DEF Count, Parsed, Rejected, Described, AtOption, Stopped
<1>2. UsageOK' /\ (argv \in Seq(Words))' /\ CellsOK' /\ Heads' /\ ArgsAccepted'
  BY <1>1, KeepsCells
<1>3. buffer_max' \in 1..MaxOptions  BY <1>1, MaxOptionsAssumption DEF ParserInv, ScalarsOK
<1>4. ScalarsOK' /\ Fits'
  BY <1>1, <1>3, MaxOptionsAssumption DEF ParserInv, ScalarsOK, Fits
<1>5. PlaceOK(cursor)'
  <2>1. PICK c : c = cursor'  OBVIOUS
  <2>2. PlaceOK(c)  BY <1>1, <2>1, OnwardOK DEF ParserInv
  <2>3. PlaceOK(c)'  BY <1>1, <2>2, PlaceStep
  <2>4. QED  BY <2>1, <2>3 DEF PlaceOK, Is
<1>6. Logged'  BY <1>1, <1>3, LogGrows, MaxOptionsAssumption
<1>7. QED  BY <1>2, <1>4, <1>5, <1>6 DEF ParserInv

\* The count has ended at the last entry of the log; the store begins at the first.
LEMMA CountedInv ==
  ASSUME ParserInv, Counted, UNCHANGED command
  PROVE  ParserInv'
<1>1. /\ pass = "count" /\ pass' = "store" /\ cursor' = <<1, 0>>
      /\ Stopped(cursor) \/ Rejected(cursor)
         \/ (Parsed(cursor) /\ buffer_max = MaxOptions)
      /\ UNCHANGED <<usage, argv, buffer_max, op_count, cell, nonop_count, nonop_args,
                     err, messages, log>>
  BY DEF Counted
<1>2. UsageOK' /\ (argv \in Seq(Words))' /\ CellsOK' /\ Heads' /\ ArgsAccepted'
  BY <1>1, KeepsCells
<1>3. ScalarsOK' /\ Fits'  BY <1>1 DEF ParserInv, ScalarsOK, Fits
<1>4. PlaceOK(cursor)'
  <2>1. Len(argv) \in Nat  BY DEF ParserInv
  <2>2. QED  BY <1>1, <2>1 DEF PlaceOK, Places
<1>5. Logged'
  <2>1. log[Len(log)].at = cursor /\ log[Len(log)].n = buffer_max /\ op_count = 0
    BY <1>1 DEF ParserInv, Logged
  <2>2. Last(log[Len(log)])  BY <1>1, <2>1 DEF Last
  <2>3. Last(log[Len(log)])'  BY <1>1, <2>2, KeepsLast
  <2>4. 1 \in 1..Len(log) /\ log[1] = [at |-> <<1, 0>>, n |-> 1]
    BY DEF ParserInv, Logged
  <2>5. log'[1].at = cursor' /\ log'[1].n = op_count' + 1  BY <1>1, <2>1, <2>4
  <2>6. 1 \in 1..Len(log')  BY <1>1, <2>4
  <2>7. QED  BY <1>1, <2>3, <2>5, <2>6, KeepsLog DEF Logged, Entries, Places
<1>6. QED  BY <1>2, <1>3, <1>4, <1>5 DEF ParserInv

\* The pass that stores ends.
LEMMA EndInv ==
  ASSUME ParserInv, pass = "store", pass' = "finished",
         UNCHANGED <<usage, argv, command, cursor, buffer_max, op_count, cell, log>>,
         nonop_count' \in Nat, nonop_args' \in Nat, err' \in BOOLEAN,
         messages' \in Nat
  PROVE  ParserInv'
<1>1. UsageOK' /\ (argv \in Seq(Words))' /\ CellsOK' /\ Heads' /\ ArgsAccepted'
  BY KeepsCells
<1>2. ScalarsOK' /\ Fits'  BY DEF ParserInv, ScalarsOK, Fits
<1>3. PlaceOK(cursor)'
  <2>1. PICK c : c = cursor  OBVIOUS
  <2>2. PlaceOK(c)'  BY <2>1, PlaceStep DEF ParserInv
  <2>3. QED  BY <2>1, <2>2 DEF PlaceOK, Is
<1>4. Logged'
  <2>1. Last(log[Len(log)])'  BY KeepsLast DEF ParserInv, Logged
  <2>2. QED  BY <2>1, KeepsLog DEF Logged, Entries, Places
<1>5. QED  BY <1>1, <1>2, <1>3, <1>4 DEF ParserInv

LEMMA AbortInv ==
  ASSUME ParserInv, Abort, UNCHANGED command
  PROVE  ParserInv'
<1>1. /\ pass = "store" /\ pass' = "finished" /\ err' = TRUE
      /\ UNCHANGED <<usage, argv, command, cursor, buffer_max, op_count, cell,
                     nonop_count, nonop_args, log>>
      /\ messages' = IF Rejected(cursor) THEN messages + 1 ELSE messages
  BY DEF Abort
<1>2. messages \in Nat /\ nonop_count \in Nat /\ nonop_args \in Nat
  BY DEF ParserInv, ScalarsOK
<1>3. messages' \in Nat  BY <1>1, <1>2
<1>4. QED  BY <1>1, <1>2, <1>3, EndInv

LEMMA FinishInv ==
  ASSUME ParserInv, Finish, UNCHANGED command
  PROVE  ParserInv'
<1> DEFINE args == IF Is(cursor, {"end"}) THEN cursor[1] + 1 ELSE cursor[1]
           numargs == Len(argv) + 1 - args
<1>1. /\ pass = "store" /\ pass' = "finished"
      /\ nonop_count' = IF numargs > 0 THEN numargs ELSE nonop_count
      /\ nonop_args' = IF numargs > 0 THEN args ELSE nonop_args
      /\ UNCHANGED <<usage, argv, command, cursor, buffer_max, op_count, cell, err,
                     messages, log>>
  BY DEF Finish
<1>2. /\ cursor[1] \in Nat \ {0} /\ cursor[1] <= Len(argv) + 1
      /\ Len(argv) \in Nat
      /\ Is(cursor, {"end"}) => cursor[1] \in 1..Len(argv)
  BY DEF ParserInv, PlaceOK, Places, Is
<1>3. args \in Nat /\ numargs \in Nat  BY <1>2
<1>4. err \in BOOLEAN /\ messages \in Nat /\ nonop_count \in Nat /\ nonop_args \in Nat
  BY DEF ParserInv, ScalarsOK
<1> HIDE DEF args, numargs
<1>5. nonop_count' \in Nat /\ nonop_args' \in Nat  BY <1>1, <1>3, <1>4
<1>6. QED  BY <1>1, <1>4, <1>5, EndInv

Element(D) == [desc : DOMAIN usage, name : Places, arg : Nat \X Nat,
               prev : BOOLEAN \X D, next : BOOLEAN \X D]

\* The elements of the arrays after an option is stored: the ones there were
\* keep their content and stay heads of lists, the new ones hold the option.
LEMMA StoreCells ==
  ASSUME ParserInv, Store
  PROVE  LET desc == Descriptor(cursor)
             new == <<"buffer", op_count>>
             head == <<"options", usage[desc].index>>
             arg == IF Status(cursor) = "ARG_OK" THEN Optarg(cursor) ELSE NULL
         IN  /\ DOMAIN cell' = DOMAIN cell \cup {new, head}
             /\ \A x \in DOMAIN cell' : cell'[x] \in Element(DOMAIN cell')
             /\ \A x \in DOMAIN cell : /\ cell'[x].desc = cell[x].desc
                                       /\ cell'[x].arg = cell[x].arg
                                       /\ isFirst(x) => cell'[x].prev[1]
             /\ cell'[new].desc = desc /\ cell'[new].arg = arg
             /\ head \notin DOMAIN cell =>
                   /\ cell'[head].desc = desc /\ cell'[head].arg = arg
                   /\ cell'[head].prev[1]
<1> DEFINE desc == Descriptor(cursor)
           new == <<"buffer", op_count>>
           head == <<"options", usage[desc].index>>
           arg == IF Status(cursor) = "ARG_OK" THEN Optarg(cursor) ELSE NULL
           D == DOMAIN cell
           o(c) == Option(c, desc, cursor, arg)
<1>1. /\ Parsed(cursor)
      /\ cell' = IF head \in D THEN Appended(head, o(new), new)
                 ELSE [x \in D \cup {new, head} |->
                         IF x \in {new, head} THEN o(x) ELSE cell[x]]
  BY DEF Store
<1>2. desc \in DOMAIN usage  BY <1>1, DescriptorIsIn DEF ParserInv, Parsed
<1>3. cursor \in Places  BY DEF ParserInv, PlaceOK
<1>4. arg \in Nat \X Nat
  <2>1. Is(cursor, {"long", "group"})  BY <1>1 DEF Parsed, Described, AtOption
  <2>2. Optarg(cursor) \in Nat \X Nat  BY <1>3, <2>1, OptargOK DEF ParserInv
  <2>3. NULL \in Nat \X Nat  BY DEF NULL
  <2>4. QED  BY <2>2, <2>3
<1>5. \A x \in D : cell[x] \in Element(D)  BY DEF ParserInv, CellsOK, Element
<1>6. new \notin D
  <2>1. op_count \in Nat  BY DEF ParserInv, ScalarsOK
  <2>2. new \in D => op_count < op_count
    <3>1. new[1] = "buffer" /\ new[2] = op_count  OBVIOUS
    <3> HIDE DEF new
    <3>2. QED  BY <3>1 DEF ParserInv, CellsOK
  <2>3. QED  BY <2>1, <2>2
<1>7. CASE head \in D
  <2>1. isFirst(head)
    <3>1. head[1] = "options"  OBVIOUS
    <3> HIDE DEF head
    <3>2. QED  BY <1>7, <3>1 DEF ParserInv, Heads
  <2> DEFINE E == D \cup {new}
             p == cell[head].prev[2]
             m == [o(new) EXCEPT !.prev = Plain(p), !.next = Tag(head)]
             n(x) == [cell[x] EXCEPT !.next = IF x = p THEN Plain(new) ELSE @,
                                     !.prev = IF x = head THEN Tag(new) ELSE @]
  <2>2. First(head) = head  BY <2>1 DEF First
  <2>3. cell' = [x \in E |-> IF x = new THEN m ELSE n(x)]
    BY <1>1, <1>7, <2>2 DEF Appended
  <2>4. E = D \cup {new, head} /\ head \in D  BY <1>7
  <2> HIDE DEF new, head, desc, arg, D
  <2>5. p \in D  BY <1>5, <2>4 DEF Element
  <2>6. m \in Element(E) /\ m.desc = desc /\ m.arg = arg
    <3> DEFINE e == o(new)
    <3>1. e \in Element(E) /\ e.desc = desc /\ e.arg = arg
      BY <1>2, <1>3, <1>4 DEF Option, Element, Tag
    <3>2. Plain(p) \in BOOLEAN \X E /\ Tag(head) \in BOOLEAN \X E
      BY <2>4, <2>5 DEF Plain, Tag
    <3> HIDE DEF e, E
    <3>3. QED  BY <3>1, <3>2 DEF Element, e
  <2>7. ASSUME NEW x \in D
        PROVE  /\ n(x) \in Element(E)
               /\ n(x).desc = cell[x].desc /\ n(x).arg = cell[x].arg
               /\ isFirst(x) => n(x).prev[1]
    <3> DEFINE nx == IF x = p THEN Plain(new) ELSE cell[x].next
               pv == IF x = head THEN Tag(new) ELSE cell[x].prev
    <3>1. cell[x] \in Element(E)  BY <1>5 DEF Element
    <3>2. nx \in BOOLEAN \X E /\ pv \in BOOLEAN \X E
      BY <3>1 DEF Element, Plain, Tag
    <3>3. n(x) = [cell[x] EXCEPT !.next = nx, !.prev = pv]  OBVIOUS
    <3>4. isFirst(x) => pv[1]  BY DEF Tag, isFirst
    <3> HIDE DEF nx, pv, n, E
    <3>5. n(x) \in Element(E)  BY <3>1, <3>2, <3>3 DEF Element
    <3>6. /\ n(x).desc = cell[x].desc /\ n(x).arg = cell[x].arg
          /\ n(x).prev = pv
      BY <3>1, <3>3 DEF Element
    <3>7. QED  BY <3>4, <3>5, <3>6
  <2> HIDE DEF m, n, p
  <2>8. /\ DOMAIN cell' = E /\ new \in E
        /\ cell'[new] = m /\ \A x \in D : cell'[x] = n(x)
    BY <1>6, <2>3
  <2>9. \A x \in E : x = new \/ x \in D  OBVIOUS
  <2> HIDE DEF E
  <2>10. \A x \in E : cell'[x] \in Element(E)  BY <2>6, <2>7, <2>8, <2>9
  <2>11. QED
    BY <2>4, <2>6, <2>7, <2>8, <2>10 DEF head, new, desc, arg, D
<1>8. CASE head \notin D
  <2> DEFINE S == {new, head}
             E == D \cup S
  <2>1. S \cap D = {}  BY <1>6, <1>8
  <2>2. cell' = [x \in E |-> IF x \in S THEN o(x) ELSE cell[x]]  BY <1>1, <1>8
  <2>3. new \in S /\ head \in S  OBVIOUS
  <2> HIDE DEF S, head, new, desc, arg, D
  <2>4. ASSUME NEW x \in S
        PROVE  o(x) \in Element(E) /\ o(x).desc = desc /\ o(x).arg = arg /\ o(x).prev[1]
    BY <1>2, <1>3, <1>4 DEF Option, Element, Tag
  <2>5. \A x \in D : cell[x] \in Element(E)  BY <1>5 DEF Element
  <2>6. \A x \in D : x \notin S  BY <2>1
  <2>7. \A x \in E : x \in S \/ x \in D  OBVIOUS
  <2> HIDE DEF o
  <2>8. /\ DOMAIN cell' = E
        /\ \A x \in S : cell'[x] = o(x)
        /\ \A x \in D : cell'[x] = cell[x]
    BY <2>2, <2>6
  <2>9. \A x \in E : cell'[x] \in Element(E)
    <3> HIDE DEF E
    <3>1. QED  BY <2>4, <2>5, <2>7, <2>8
  <2>10. \A x \in S : cell'[x].desc = desc /\ cell'[x].arg = arg /\ cell'[x].prev[1]
    BY <2>4, <2>8
  <2>11. QED
    BY <1>8, <2>3, <2>8, <2>9, <2>10 DEF S, head, new, desc, arg, D, isFirst
<1>9. QED  BY <1>7, <1>8

LEMMA StoreInv ==
  ASSUME ParserInv, Store, UNCHANGED command
  PROVE  ParserInv'
<1> DEFINE desc == Descriptor(cursor)
           new == <<"buffer", op_count>>
           head == <<"options", usage[desc].index>>
           arg == IF Status(cursor) = "ARG_OK" THEN Optarg(cursor) ELSE NULL
<1>1. /\ pass = "store" /\ Parsed(cursor) /\ op_count < MaxOptions
      /\ op_count' = op_count + 1 /\ cursor' = Onward(cursor)
      /\ UNCHANGED <<usage, argv, pass, buffer_max, nonop_count, nonop_args, err,
                     messages, log>>
  BY DEF Store
<1>2. /\ DOMAIN cell' = DOMAIN cell \cup {new, head}
      /\ \A x \in DOMAIN cell' : cell'[x] \in Element(DOMAIN cell')
      /\ \A x \in DOMAIN cell : /\ cell'[x].desc = cell[x].desc
                                /\ cell'[x].arg = cell[x].arg
                                /\ isFirst(x) => cell'[x].prev[1]
      /\ cell'[new].desc = desc /\ cell'[new].arg = arg
      /\ head \notin DOMAIN cell =>
            /\ cell'[head].desc = desc /\ cell'[head].arg = arg
            /\ cell'[head].prev[1]
  BY StoreCells
<1>3. UsageOK' /\ (argv \in Seq(Words))'  BY <1>1 DEF ParserInv, UsageOK
<1>4. op_count \in Nat /\ op_count' \in Nat  BY <1>1 DEF ParserInv, ScalarsOK
<1>5. desc \in DOMAIN usage /\ usage[desc].index \in Nat
  BY <1>1, DescriptorIsIn, UsageShape DEF ParserInv, Parsed
<1>6. /\ new \in {"options", "buffer"} \X Nat /\ new[1] = "buffer"
      /\ new[2] = op_count
  BY <1>4
<1>7. /\ head \in {"options", "buffer"} \X Nat /\ head[1] = "options"
      /\ head[2] = usage[desc].index
  BY <1>5
<1> HIDE DEF new, head, desc, arg
<1>8. CellsOK'
  <2>1. DOMAIN cell' \subseteq {"options", "buffer"} \X Nat
    BY <1>2, <1>6, <1>7 DEF ParserInv, CellsOK
  <2>2. \A x \in DOMAIN cell' : x[1] = "buffer" => x[2] < op_count'
    <3>1. ASSUME NEW x \in DOMAIN cell', x[1] = "buffer"  PROVE x[2] < op_count'
      <4>1. CASE x \in DOMAIN cell
        <5>1. x[2] < op_count  BY <3>1, <4>1 DEF ParserInv, CellsOK
        <5>2. x[2] \in Nat  BY <4>1 DEF ParserInv, CellsOK
        <5>3. QED  BY <1>1, <1>4, <5>1, <5>2
      <4>2. CASE x = new  BY <1>1, <1>4, <1>6, <4>2
      <4>3. CASE x = head  BY <1>7, <3>1, <4>3
      <4>4. QED  BY <1>2, <4>1, <4>2, <4>3
    <3>2. QED  BY <3>1
  <2>3. usage' = usage  BY <1>1
  <2>4. QED  BY <1>2, <2>1, <2>2, <2>3 DEF CellsOK, Element, Places
<1>9. Heads'
  <2>1. ASSUME NEW x \in DOMAIN cell', x[1] = "options"
        PROVE  cell'[x].prev[1] /\ usage'[cell'[x].desc].index = x[2]
    <3>1. CASE x \in DOMAIN cell
      BY <1>1, <1>2, <2>1, <3>1 DEF ParserInv, Heads
    <3>2. CASE x \notin DOMAIN cell
      <4>1. x = head  BY <1>2, <1>6, <2>1, <3>2
      <4>2. QED  BY <1>1, <1>2, <1>7, <3>2, <4>1
    <3>3. QED  BY <3>1, <3>2
  <2>2. QED  BY <2>1 DEF Heads, isFirst
<1>10. ArgsAccepted'
  <2>1. \A p : TextAt(p)' = TextAt(p)  BY <1>1 DEF TextAt
  <2>2. usage[desc].check # "None" =>
            /\ arg # NULL /\ TextAt(arg) \in Texts
            /\ Accepts(usage[desc].check, TextAt(arg))
    <3>1. ASSUME usage[desc].check # "None"
          PROVE  Status(cursor) = "ARG_OK"
      BY <1>1, <3>1 DEF desc, Parsed, Status
    <3>2. cursor \in Places /\ Is(cursor, {"long", "group"})
      BY <1>1 DEF ParserInv, PlaceOK, Parsed, Described, AtOption
    <3>3. QED  BY <3>1, <3>2, AcceptedThere, ArgumentIsText DEF desc, arg, ParserInv
  <2>3. ASSUME NEW x \in DOMAIN cell', usage'[cell'[x].desc].check # "None"
        PROVE  /\ cell'[x].arg # NULL /\ TextAt(cell'[x].arg) \in Texts
               /\ Accepts(usage'[cell'[x].desc].check, TextAt(cell'[x].arg))
    <3>1. CASE x \in DOMAIN cell
      BY <1>1, <1>2, <2>3, <3>1 DEF ParserInv, ArgsAccepted
    <3>2. CASE x \notin DOMAIN cell
      <4>1. cell'[x].desc = desc /\ cell'[x].arg = arg  BY <1>2, <3>2
      <4>2. QED  BY <1>1, <2>2, <2>3, <4>1
    <3>3. QED  BY <3>1, <3>2
  <2>4. QED  BY <1>1, <2>3 DEF ArgsAccepted, TextAt
<1>11. ScalarsOK'  BY <1>1, <1>4, MaxOptionsAssumption DEF ParserInv, ScalarsOK
<1>12. ~Stopped(cursor) /\ ~Rejected(cursor)
  BY <1>1 DEF Parsed, Rejected, Described, AtOption, Stopped
<1>13. PlaceOK(cursor)'
  <2>1. PICK c : c = cursor'  OBVIOUS
  <2>2. PlaceOK(c)  BY <1>1, <1>12, <2>1, OnwardOK DEF ParserInv
  <2>3. PlaceOK(c)'  BY <1>1, <2>2, PlaceStep
  <2>4. QED  BY <2>1, <2>3 DEF PlaceOK, Is
<1>14. PICK i \in 1..Len(log) : log[i].at = cursor /\ log[i].n = op_count + 1
  BY <1>1, <1>4, MaxOptionsAssumption DEF ParserInv, Logged
<1>15. buffer_max \in 1..MaxOptions /\ log[i].n <= buffer_max /\ Len(log) \in Nat
  BY DEF ParserInv, Logged, ScalarsOK
<1>16. CASE i # Len(log)
  <2>1. i \in 1..(Len(log) - 1) /\ i + 1 \in 1..Len(log)  BY <1>15, <1>16
  <2>2. Follows(log[i], log[i + 1])  BY <2>1 DEF ParserInv, Logged
  <2>3. log[i + 1].at = cursor' /\ log[i + 1].n = op_count' + 1
    BY <1>1, <1>14, <2>2 DEF Follows
  <2>4. log[i + 1].n <= buffer_max  BY <2>1 DEF ParserInv, Logged
  <2>5. Fits'  BY <1>1, <1>4, <1>15, <2>3, <2>4 DEF Fits
  <2>6. Last(log[Len(log)])'  BY <1>1, KeepsLast DEF ParserInv, Logged
  <2>7. Logged'
    BY <1>1, <2>1, <2>3, <2>6, KeepsLog DEF Logged, Entries, Places
  <2>8. QED  BY <1>3, <1>8, <1>9, <1>10, <1>11, <1>13, <2>5, <2>7 DEF ParserInv
<1>17. CASE i = Len(log)
  <2>1. Last(log[i])  BY <1>1, <1>17 DEF ParserInv, Logged
  <2>2. log[i].n = MaxOptions  BY <1>12, <1>14, <2>1 DEF Last
  <2>3. op_count' = MaxOptions /\ buffer_max = MaxOptions
    BY <1>1, <1>4, <1>14, <1>15, <2>2, MaxOptionsAssumption
  <2>4. Fits'  BY <1>1, <2>3, MaxOptionsAssumption DEF Fits
  <2>5. Last(log[Len(log)])'  BY <1>1, KeepsLast DEF ParserInv, Logged
  <2>6. Logged'  BY <1>1, <2>3, <2>5, KeepsLog DEF Logged, Entries, Places
  <2>7. QED  BY <1>3, <1>8, <1>9, <1>10, <1>11, <1>13, <2>4, <2>6 DEF ParserInv
<1>18. QED  BY <1>16, <1>17

-----------------------------------------------------------------------------
(***************************************************************************)
(* The program.                                                            *)
(***************************************************************************)
LEMMA ParserStep ==
  ASSUME ParserInv, ParserNext, UNCHANGED command
  PROVE  ParserInv'
  BY SkipInv, CountInv, CountedInv, StoreInv, AbortInv, FinishInv DEF ParserNext

LEMMA ParserStutter ==
  ASSUME ParserInv, UNCHANGED parserVars, UNCHANGED command
  PROVE  ParserInv'
<1>1. UNCHANGED <<usage, argv, pass, cursor, buffer_max, op_count, cell, nonop_count,
                  nonop_args, err, messages, log>>
  BY DEF parserVars
<1>2. UsageOK' /\ (argv \in Seq(Words))' /\ CellsOK' /\ Heads' /\ ArgsAccepted'
  BY <1>1, KeepsCells
<1>3. ScalarsOK' /\ Fits'  BY <1>1 DEF ParserInv, ScalarsOK, Fits
<1>4. PlaceOK(cursor)'
  <2>1. PICK c : c = cursor  OBVIOUS
  <2>2. PlaceOK(c)'  BY <1>1, <2>1, PlaceStep DEF ParserInv
  <2>3. QED  BY <1>1, <2>1, <2>2 DEF PlaceOK, Is
<1>5. Logged'
  <2>1. pass # "count" => Last(log[Len(log)])'
    BY <1>1, KeepsLast DEF ParserInv, Logged
  <2>2. /\ pass = "count" => log'[Len(log')].at = cursor' /\ op_count' = 0
        /\ pass = "store" =>
              \/ \E i \in 1..Len(log') : log'[i].at = cursor' /\ log'[i].n = op_count' + 1
              \/ op_count' = MaxOptions
    BY <1>1 DEF ParserInv, Logged
  <2>3. QED  BY <1>1, <2>1, <2>2, KeepsLog DEF Logged, Entries, Places
<1>6. QED  BY <1>2, <1>3, <1>4, <1>5 DEF ParserInv

\* What a parse that has ended leaves to the command.
ResultOK ==
    /\ messages \in {0, 1} /\ (messages = 1 => err)
    /\ err => pass = "finished" /\ (messages = 1 \/ op_count = MaxOptions)
    /\ pass # "finished" => nonop_count = 0
    /\ pass = "finished" /\ ~err /\ nonop_count > 0 =>
          nonop_args > 0 /\ nonop_args + nonop_count = Len(argv) + 1

\* Where the program is, and what it returns there.
Steps ==
    /\ place \in {"main", "parse", "report", "returned", "called", "crashed"}
    /\ place = "parse" => command \in DOMAIN Usage
    /\ place = "main" => pass = "count"
    /\ place = "report" => /\ command \in DOMAIN Usage /\ pass = "finished" /\ ~err
                          /\ nonop_count >= Needed[command]
    /\ place # "returned" => outcome = 0
    /\ outcome = PARSE_OPTIONS_ERROR => err
    /\ place \in {"called", "crashed"} => ~err
    /\ place = "returned" /\ err => outcome = PARSE_OPTIONS_ERROR
    /\ place # "called" => call = NoCall

ProgramInv ==
    /\ ParserInv /\ ResultOK /\ Steps
    /\ LimitInRange /\ HostIsNext /\ CommandWhole /\ NullOnlyInExec

LEMMA UsageOf ==
  /\ DOMAIN Usage = {"start", "stop", "list", "exec"}
  /\ Usage["start"] = startUsage /\ Usage["stop"] = stopUsage
  /\ Usage["list"] = listUsage /\ Usage["exec"] = execUsage
  BY DEF Usage

LEMMA InitInv == Init => ProgramInv
<1> SUFFICES ASSUME Init PROVE ProgramInv  OBVIOUS
<1>1. UsageOK
  <2>1. usage = IF command \in DOMAIN Usage THEN Usage[command] ELSE <<>>  BY DEF Init
  <2>2. QED  BY <2>1, UsageOf DEF UsageOK
<1>2. argv \in Seq(Words)
  <2>1. PICK n \in 0..MaxArgs : argv \in [1..n -> Words]  BY DEF Init
  <2>2. n \in Nat  BY <2>1, CommandLineAssumption
  <2>3. QED  BY <2>1, <2>2
<1>3. /\ pass = "count" /\ cursor = <<1, 0>> /\ buffer_max = 1 /\ op_count = 0
      /\ cell = <<>> /\ nonop_count = 0 /\ nonop_args = 0 /\ err = FALSE
      /\ messages = 0 /\ log = <<[at |-> <<1, 0>>, n |-> 1]>>
  BY DEF Init, ParserInit
<1>4. ScalarsOK /\ Fits
  <2>1. err \in BOOLEAN  BY <1>3
  <2>2. /\ pass = "count" /\ buffer_max = 1 /\ op_count = 0
        /\ nonop_count = 0 /\ nonop_args = 0 /\ messages = 0
    BY <1>3
  <2>3. QED  BY <2>1, <2>2, MaxOptionsAssumption DEF ScalarsOK, Fits
<1>5. PlaceOK(cursor)
  <2>1. Len(argv) \in Nat  BY <1>2
  <2>2. QED  BY <1>3, <2>1 DEF PlaceOK, Places
<1>6. DOMAIN cell = {}  BY <1>3
<1>7. CellsOK /\ Heads /\ ArgsAccepted  BY <1>6 DEF CellsOK, Heads, ArgsAccepted
<1>8. Logged
  <2> DEFINE e == [at |-> <<1, 0>>, n |-> 1]
  <2>1. e \in Entries /\ e.at = cursor /\ e.n = buffer_max
    BY <1>3, MaxOptionsAssumption DEF Entries, Places
  <2>2. log = <<e>>  BY <1>3
  <2>3. e.n <= buffer_max  BY <1>3
  <2>4. /\ log \in Seq(Entries) /\ Len(log) = 1 /\ log[1] = e
    BY <2>1, <2>2
  <2>5. QED  BY <1>3, <2>1, <2>3, <2>4 DEF Logged
<1>9. ParserInv  BY <1>1, <1>2, <1>4, <1>5, <1>7, <1>8 DEF ParserInv
<1>10. ResultOK  BY <1>3 DEF ResultOK
<1>11. place = "main" /\ outcome = 0 /\ call = NoCall  BY DEF Init
<1>12. Steps  BY <1>3, <1>11 DEF Steps, PARSE_OPTIONS_ERROR
<1>13. LimitInRange /\ HostIsNext /\ CommandWhole /\ NullOnlyInExec
  BY <1>11 DEF LimitInRange, HostIsNext, CommandWhole, NullOnlyInExec, NoCall
<1>14. QED  BY <1>9, <1>10, <1>12, <1>13 DEF ProgramInv

LEMMA ParseInv ==
  ASSUME ProgramInv, Parse
  PROVE  ProgramInv'
<1>1. /\ place = "parse" /\ ParserNext
      /\ UNCHANGED <<command, place, opt, reported, outcome, call>>
  BY DEF Parse
<1>2. ParserInv'  BY <1>1, ParserStep DEF ProgramInv
<1>3. messages \in {0, 1} /\ op_count \in Nat /\ (messages = 1 => err)
      /\ (err => pass = "finished") /\ outcome = 0 /\ Len(argv) \in Nat
      /\ pass \in {"count", "store", "finished"}
      /\ (pass # "finished" => nonop_count = 0)
  BY <1>1 DEF ProgramInv, ResultOK, Steps, ParserInv, ScalarsOK
<1>4. ResultOK' /\ (pass = "count" => pass' \in {"count", "store"}) /\ UNCHANGED <<argv>>
  <2>1. CASE Skip  BY <1>3, <2>1 DEF Skip, ResultOK
  <2>2. CASE Count  BY <1>3, <2>2 DEF Count, ResultOK
  <2>3. CASE Counted  BY <1>3, <2>3 DEF Counted, ResultOK
  <2>4. CASE Store  BY <1>3, <2>4 DEF Store, ResultOK
  <2>5. CASE Abort
    BY <1>3, <2>5 DEF Abort, ResultOK
  <2>6. CASE Finish
    <3> DEFINE args == IF Is(cursor, {"end"}) THEN cursor[1] + 1 ELSE cursor[1]
               numargs == Len(argv) + 1 - args
    <3>1. cursor[1] \in Nat \ {0}  BY DEF ProgramInv, ParserInv, PlaceOK, Places
    <3>2. args \in Nat \ {0} /\ numargs \in Int  BY <1>3, <3>1
    <3>3. /\ pass = "store" /\ pass' = "finished"
          /\ nonop_count' = IF numargs > 0 THEN numargs ELSE nonop_count
          /\ nonop_args' = IF numargs > 0 THEN args ELSE nonop_args
          /\ UNCHANGED <<argv, err, messages, op_count>>
      BY <2>6 DEF Finish
    <3>4. args + numargs = Len(argv) + 1  BY <1>3, <3>2
    <3> HIDE DEF args, numargs
    <3>5. nonop_count = 0  BY <3>3 DEF ProgramInv, ResultOK
    <3>6. QED  BY <1>3, <3>2, <3>3, <3>4, <3>5 DEF ResultOK
  <2>7. QED  BY <1>1, <2>1, <2>2, <2>3, <2>4, <2>5, <2>6 DEF ParserNext
<1>5. Steps'
  BY <1>1, <1>3 DEF ProgramInv, Steps, PARSE_OPTIONS_ERROR
<1>6. LimitInRange' /\ HostIsNext' /\ CommandWhole' /\ NullOnlyInExec'
  BY <1>1 DEF ProgramInv, Steps, LimitInRange, HostIsNext, CommandWhole,
              NullOnlyInExec, NoCall
<1>7. QED  BY <1>2, <1>4, <1>5, <1>6 DEF ProgramInv

\* A step of main after the parse, or before it, leaves the parser as it is.
LEMMA KeepsParser ==
  ASSUME ProgramInv, UNCHANGED <<parserVars, command>>
  PROVE  ParserInv' /\ ResultOK'
<1>1. ParserInv'  BY ParserStutter DEF ProgramInv
<1>2. UNCHANGED <<argv, pass, op_count, nonop_count, nonop_args, err, messages>>
  BY DEF parserVars
<1>3. QED  BY <1>1, <1>2 DEF ProgramInv, ResultOK

LEMMA Codes ==
  /\ INVALID_ARGS_ERROR # PARSE_OPTIONS_ERROR /\ 0 # PARSE_OPTIONS_ERROR
  /\ PARSE_ARG_ERROR # PARSE_OPTIONS_ERROR
  BY DEF INVALID_ARGS_ERROR, PARSE_OPTIONS_ERROR, PARSE_ARG_ERROR

\* The program goes on, or returns, without a call.
LEMMA NoCallInv ==
  ASSUME ProgramInv, UNCHANGED <<parserVars, command, call>>,
         place \in {"main", "parse", "report"},
         place' \in {"main", "parse", "report", "returned"}, Steps'
  PROVE  ProgramInv'
<1>1. call = NoCall /\ call' = NoCall  BY DEF ProgramInv, Steps
<1>2. ParserInv' /\ ResultOK'  BY KeepsParser
<1>3. LimitInRange' /\ HostIsNext' /\ CommandWhole' /\ NullOnlyInExec'
  BY <1>1 DEF LimitInRange, HostIsNext, CommandWhole, NullOnlyInExec, NoCall
<1>4. QED  BY <1>2, <1>3 DEF ProgramInv

LEMMA MainInv ==
  ASSUME ProgramInv, Main \/ ParseError \/ Help \/ Accepted \/ Report
  PROVE  ProgramInv'
<1>1. UNCHANGED <<parserVars, command, call>>
  BY DEF Main, ParseError, Help, Accepted, Report
<1>2. UNCHANGED <<pass, err, nonop_count>>  BY <1>1 DEF parserVars
<1>3. (err => pass = "finished") /\ pass \in {"count", "store", "finished"}
  BY DEF ProgramInv, ResultOK, ParserInv, ScalarsOK
<1>4. CASE Main
  <2>1. place = "main" /\ outcome = 0 /\ call = NoCall /\ pass = "count" /\ ~err
    BY <1>3, <1>4 DEF Main, ProgramInv, Steps
  <2>2. CASE command \in DOMAIN Usage
    <3>1. place' = "parse" /\ outcome' = 0  BY <1>4, <2>1, <2>2 DEF Main
    <3>2. Steps'  BY <1>1, <1>2, <2>1, <2>2, <3>1, Codes DEF Steps
    <3>3. QED  BY <1>1, <2>1, <3>1, <3>2, NoCallInv
  <2>3. CASE command \notin DOMAIN Usage
    <3>1. place' = "returned" /\ outcome' = INVALID_ARGS_ERROR
      BY <1>4, <2>3 DEF Main, Return
    <3>2. Steps'  BY <1>1, <1>2, <2>1, <3>1, Codes DEF Steps
    <3>3. QED  BY <1>1, <2>1, <3>1, <3>2, NoCallInv
  <2>4. QED  BY <2>2, <2>3
<1>5. CASE ParseError
  <2>1. /\ place = "parse" /\ call = NoCall /\ err
        /\ place' = "returned" /\ outcome' = PARSE_OPTIONS_ERROR
    BY <1>5 DEF ParseError, Return, ProgramInv, Steps
  <2>2. Steps'  BY <1>1, <1>2, <2>1 DEF Steps
  <2>3. QED  BY <1>1, <2>1, <2>2, NoCallInv
<1>6. CASE Help
  <2>1. /\ place = "parse" /\ call = NoCall /\ ~err
        /\ place' = "returned" /\ outcome' = 0
    BY <1>6 DEF Help, Return, ProgramInv, Steps
  <2>2. Steps'  BY <1>1, <1>2, <2>1, Codes DEF Steps
  <2>3. QED  BY <1>1, <2>1, <2>2, NoCallInv
<1>7. CASE Accepted
  <2>1. /\ place = "parse" /\ pass = "finished" /\ call = NoCall /\ ~err
        /\ nonop_count >= Needed[command] /\ command \in DOMAIN Usage
        /\ place' = "report" /\ outcome' = 0
    BY <1>7 DEF Accepted, ProgramInv, Steps
  <2>2. Steps'  BY <1>1, <1>2, <2>1, Codes DEF Steps
  <2>3. QED  BY <1>1, <2>1, <2>2, NoCallInv
<1>8. CASE Report
  <2>1. place = "report" /\ UNCHANGED <<place, outcome>>  BY <1>8 DEF Report
  <2>2. Steps'  BY <1>1, <1>2, <2>1 DEF ProgramInv, Steps
  <2>3. QED  BY <1>1, <2>1, <2>2, NoCallInv
<1>9. QED  BY <1>4, <1>5, <1>6, <1>7, <1>8

\* A command's part ends in an error of its own.
LEMMA NotNumericInv ==
  ASSUME ProgramInv, NEW c, Ready(c), NEW i, NotNumeric(i)
  PROVE  ProgramInv'
<1>1. /\ place = "report" /\ place' = "returned" /\ outcome' = PARSE_ARG_ERROR
      /\ UNCHANGED <<parserVars, command, call>>
  BY DEF Ready, NotNumeric, Return
<1>2. ~err /\ err' = err /\ call = NoCall  BY <1>1 DEF ProgramInv, Steps, parserVars
<1>3. Steps'  BY <1>1, <1>2, Codes DEF Steps
<1>4. QED  BY <1>1, <1>3, NoCallInv

\* A call that is no start and no exec.
LEMMA PlainCallInv ==
  ASSUME ProgramInv, NEW c, Ready(c), NEW r, Called(r),
         r.to \notin {"aucont_start", "aucont_exec"}
  PROVE  ProgramInv'
<1>1. /\ place = "report" /\ place' = "called" /\ outcome' = outcome /\ call' = r
      /\ UNCHANGED <<parserVars, command>>
  BY DEF Ready, Called
<1>2. ParserInv' /\ ResultOK'  BY <1>1, KeepsParser
<1>3. ~err /\ err' = err /\ outcome = 0  BY <1>1 DEF ProgramInv, Steps, parserVars
<1>4. Steps'  BY <1>1, <1>3, Codes DEF Steps
<1>5. LimitInRange' /\ HostIsNext' /\ CommandWhole' /\ NullOnlyInExec'
  BY <1>1 DEF LimitInRange, HostIsNext, CommandWhole, NullOnlyInExec
<1>6. QED  BY <1>2, <1>4, <1>5 DEF ProgramInv

\* The first option of an index has passed its check.
LEMMA GivenAccepted ==
  ASSUME ParserInv, NEW index, Given(index)
  PROVE  \E d \in DOMAIN usage :
            /\ usage[d].index = index
            /\ usage[d].check # "None" =>
                  ArgOf(index) \in Texts /\ Accepts(usage[d].check, ArgOf(index))
<1> DEFINE head == <<"options", index>>
<1>1. head \in DOMAIN cell /\ head[1] = "options" /\ head[2] = index  BY DEF Given
<1>2. ArgOf(index) = TextAt(cell[head].arg)  BY DEF ArgOf
<1> HIDE DEF head
<1>3. usage[cell[head].desc].index = index  BY <1>1 DEF ParserInv, Heads
<1>4. cell[head].desc \in DOMAIN usage  BY <1>1 DEF ParserInv, CellsOK
<1>5. QED  BY <1>1, <1>2, <1>3, <1>4 DEF ParserInv, ArgsAccepted

LEMMA StartInv ==
  ASSUME ProgramInv, Start
  PROVE  ProgramInv'
<1> DEFINE ip == IF Given(NET) THEN Address[ArgOf(NET)] ELSE None
           limit == IF Given(CPU_PERC) THEN ToInt(Number[ArgOf(CPU_PERC)]) ELSE 100
           host == IF Given(NET) THEN (ip + 1) % IPV4 ELSE None
           r == [to |-> "aucont_start",
                 image_path |-> NonOption(0), cmd |-> NonOption(1),
                 cmd_args |-> nonop_args + 1, cmd_args_count |-> nonop_count - 2,
                 cpu_limit |-> limit, cont_ip |-> ip, host_ip |-> host,
                 net_enabled |-> Given(NET), daemonize |-> Given(DAEMONIZE),
                 debug_enabled |-> Given(DEBUG)]
<1>1. /\ place = "report" /\ command = "start"
      /\ UNCHANGED <<parserVars, command>> /\ CalledWith(1, r)
  BY DEF Start, Ready
<1>2. ParserInv' /\ ResultOK'  BY <1>1, KeepsParser
<1>3. usage = startUsage  BY <1>1 DEF ProgramInv, ParserInv, UsageOK
<1>4. /\ pass = "finished" /\ ~err /\ nonop_count \in Nat /\ nonop_count >= 2
      /\ nonop_args \in Nat \ {0} /\ nonop_args + nonop_count = Len(argv) + 1
      /\ Len(argv) \in Nat /\ outcome = 0
  BY <1>1 DEF ProgramInv, Steps, ResultOK, ParserInv, ScalarsOK, Needed
<1>5. ~IsNull(1)  BY <1>4 DEF IsNull, NonOption
<1>6. place' = "called" /\ call' = r /\ outcome' = outcome
  BY <1>1, <1>5 DEF CalledWith, Called
<1>7. limit \in 0..100
  <2>1. CASE Given(CPU_PERC)
    <3>1. PICK d \in DOMAIN usage :
              /\ usage[d].index = CPU_PERC
              /\ usage[d].check # "None" => Accepts(usage[d].check, ArgOf(CPU_PERC))
      BY <2>1, GivenAccepted DEF ProgramInv
    <3>2. usage[d].check = "percent"  BY <1>3, <3>1, StartShape
    <3>3. QED  BY <2>1, <3>1, <3>2 DEF Accepts, Percent
  <2>2. CASE ~Given(CPU_PERC)  BY <2>2
  <2>3. QED  BY <2>1, <2>2
<1>8. Given(NET) => ip \in 0..(IPV4 - 2) /\ host = ip + 1
  <2> SUFFICES ASSUME Given(NET)
               PROVE  ip \in 0..(IPV4 - 2) /\ (ip + 1) % IPV4 = ip + 1
    OBVIOUS
  <2>1. PICK d \in DOMAIN usage :
            /\ usage[d].index = NET
            /\ usage[d].check # "None" =>
                  ArgOf(NET) \in Texts /\ Accepts(usage[d].check, ArgOf(NET))
    BY GivenAccepted DEF ProgramInv
  <2>2. usage[d].check = "ip"  BY <1>3, <2>1, StartShape
  <2>3. ArgOf(NET) \in Texts /\ Ip(ArgOf(NET))  BY <2>1, <2>2 DEF Accepts
  <2>4. ip # None /\ ip # IPV4 - 1  BY <2>3 DEF Ip
  <2>5. ip \in 0..(IPV4 - 1)  BY <2>3, <2>4, ValuesAssumption
  <2> HIDE DEF ip
  <2>6. ip \in 0..(IPV4 - 2) /\ ip + 1 \in 0..(IPV4 - 1)
    BY <2>4, <2>5, ValuesAssumption
  <2>7. (ip + 1) % IPV4 = ip + 1  BY <2>6, ValuesAssumption
  <2>8. QED  BY <2>6, <2>7
<1> HIDE DEF limit, ip, host
<1>9. /\ call'.to = "aucont_start" /\ call'.cpu_limit = limit
      /\ call'.cont_ip = ip /\ call'.host_ip = host /\ call'.net_enabled = Given(NET)
      /\ call'.cmd = nonop_args + 1 /\ call'.cmd_args = nonop_args + 1
      /\ call'.cmd_args_count = nonop_count - 2
  BY <1>6 DEF NonOption
<1>10. argv' = argv /\ err' = err  BY <1>1 DEF parserVars
<1>11. LimitInRange'  BY <1>7, <1>9 DEF LimitInRange
<1>12. HostIsNext'  BY <1>8, <1>9 DEF HostIsNext
<1>13. CommandWhole'
  <2>1. nonop_args + 1 \in 1..Len(argv)
        /\ nonop_count - 2 = Len(argv) - (nonop_args + 1)
    BY <1>4
  <2>2. DOMAIN argv = 1..Len(argv)  BY DEF ProgramInv, ParserInv
  <2>3. QED  BY <1>9, <1>10, <2>1, <2>2 DEF CommandWhole
<1>14. NullOnlyInExec'  BY <1>6 DEF NullOnlyInExec
<1>15. Steps'  BY <1>4, <1>6, <1>10, Codes DEF Steps
<1>16. QED  BY <1>2, <1>11, <1>12, <1>13, <1>14, <1>15 DEF ProgramInv

LEMMA ExecInv ==
  ASSUME ProgramInv, Exec
  PROVE  ProgramInv'
<1> DEFINE r == [to |-> "aucont_exec", pid |-> ToInt(NumberOf(0)),
                 cmd |-> NonOption(1), cmd_args |-> nonop_args + 1,
                 cmd_args_count |-> nonop_count - 2, debug_enabled |-> Given(DEBUG)]
<1>1. Ready("exec")  BY DEF Exec
<1>2. CASE NotNumeric(0)  BY <1>1, <1>2, NotNumericInv
<1>3. CASE CalledWith(1, r)
  <2>1. /\ place = "report" /\ command = "exec"
        /\ UNCHANGED <<parserVars, command>>
    BY <1>1 DEF Ready
  <2>2. ParserInv' /\ ResultOK'  BY <2>1, KeepsParser
  <2>3. /\ pass = "finished" /\ ~err /\ nonop_count \in Nat /\ nonop_count >= 1
        /\ nonop_args \in Nat \ {0} /\ nonop_args + nonop_count = Len(argv) + 1
        /\ Len(argv) \in Nat /\ outcome = 0 /\ call = NoCall
    BY <2>1 DEF ProgramInv, Steps, ResultOK, ParserInv, ScalarsOK, Needed
  <2>4. argv' = argv /\ err' = err /\ nonop_count' = nonop_count
    BY <2>1 DEF parserVars
  <2>5. IsNull(1) <=> nonop_count = 1  BY <2>3 DEF IsNull, NonOption
  <2>6. CASE nonop_count = 1
    <3>1. place' = "crashed" /\ UNCHANGED <<outcome, call>>
      BY <1>3, <2>5, <2>6 DEF CalledWith
    <3>2. NullOnlyInExec'  BY <2>1, <2>4, <2>6, <3>1 DEF NullOnlyInExec
    <3>3. LimitInRange' /\ HostIsNext' /\ CommandWhole'
      BY <2>3, <3>1 DEF LimitInRange, HostIsNext, CommandWhole, NoCall
    <3>4. Steps'  BY <2>3, <2>4, <3>1, Codes DEF Steps
    <3>5. QED  BY <2>2, <3>2, <3>3, <3>4 DEF ProgramInv
  <2>7. CASE nonop_count # 1
    <3>1. place' = "called" /\ call' = r /\ outcome' = outcome
      BY <1>3, <2>5, <2>7 DEF CalledWith, Called
    <3>2. /\ call'.to = "aucont_exec"
          /\ call'.cmd = nonop_args + 1 /\ call'.cmd_args = nonop_args + 1
          /\ call'.cmd_args_count = nonop_count - 2
      BY <3>1 DEF NonOption
    <3>3. nonop_args + 1 \in 1..Len(argv)
          /\ nonop_count - 2 = Len(argv) - (nonop_args + 1)
      BY <2>3, <2>7
    <3>4. DOMAIN argv = 1..Len(argv)  BY DEF ProgramInv, ParserInv
    <3>5. CommandWhole'  BY <2>4, <3>2, <3>3, <3>4 DEF CommandWhole
    <3>6. LimitInRange' /\ HostIsNext' /\ NullOnlyInExec'
      BY <3>1, <3>2 DEF LimitInRange, HostIsNext, NullOnlyInExec
    <3>7. Steps'  BY <2>3, <2>4, <3>1, Codes DEF Steps
    <3>8. QED  BY <2>2, <3>5, <3>6, <3>7 DEF ProgramInv
  <2>8. QED  BY <2>6, <2>7
<1>4. QED  BY <1>2, <1>3 DEF Exec

LEMMA StopInv ==
  ASSUME ProgramInv, Stop
  PROVE  ProgramInv'
<1> DEFINE r == [to |-> "aucont_stop", pid |-> ToInt(NumberOf(0)),
                 signal |-> IF nonop_count >= 2 THEN ToInt(NumberOf(1)) ELSE SIGTERM,
                 debug_enabled |-> Given(DEBUG)]
<1>1. Ready("stop")  BY DEF Stop
<1>2. CASE NotNumeric(0)  BY <1>1, <1>2, NotNumericInv
<1>3. CASE NotNumeric(1)  BY <1>1, <1>3, NotNumericInv
<1>4. CASE Called(r)
  <2>1. r.to = "aucont_stop"  OBVIOUS
  <2> HIDE DEF r
  <2>2. QED  BY <1>1, <1>4, <2>1, PlainCallInv
<1>5. QED  BY <1>2, <1>3, <1>4 DEF Stop

LEMMA ListInv ==
  ASSUME ProgramInv, List
  PROVE  ProgramInv'
<1> DEFINE r == [to |-> "aucont_list"]
<1>1. Ready("list") /\ Called(r)  BY DEF List
<1>2. r.to = "aucont_list"  OBVIOUS
<1> HIDE DEF r
<1>3. QED  BY <1>1, <1>2, PlainCallInv

LEMMA StutterInv ==
  ASSUME ProgramInv, UNCHANGED vars
  PROVE  ProgramInv'
<1>1. UNCHANGED <<parserVars, command, place, outcome, call>>  BY DEF vars
<1>2. ParserInv' /\ ResultOK'  BY <1>1, KeepsParser
<1>3. UNCHANGED <<argv, pass, err, nonop_count>>  BY <1>1 DEF parserVars
<1>4. Steps'  BY <1>1, <1>3 DEF ProgramInv, Steps
<1>5. LimitInRange' /\ HostIsNext' /\ CommandWhole' /\ NullOnlyInExec'
  BY <1>1, <1>3 DEF ProgramInv, LimitInRange, HostIsNext, CommandWhole, NullOnlyInExec
<1>6. QED  BY <1>2, <1>4, <1>5 DEF ProgramInv

LEMMA NextInv ==
  ASSUME ProgramInv, [Next]_vars
  PROVE  ProgramInv'
  BY ParseInv, MainInv, StartInv, StopInv, ListInv, ExecInv, StutterInv
     DEF Next, Done

THEOREM Invariance == Spec => []ProgramInv
  BY InitInv, NextInv, PTL DEF Spec

-----------------------------------------------------------------------------
\* The variables of the parser have their types in every command line.
THEOREM TypeCorrect == Spec => []TypeOK
<1>1. ProgramInv => TypeOK  BY InvTypeOK DEF ProgramInv
<1>2. QED  BY <1>1, Invariance, PTL

\* Whatever the words of the vector, and whatever the checks make of them, the
\* second pass over it never stores more options than the first has counted:
\* the arrays the caller made in between are large enough.
THEOREM StoreFitsCount == Spec => []BufferFits
<1>1. ProgramInv => BufferFits  BY InvBufferFits DEF ProgramInv
<1>2. QED  BY <1>1, Invariance, PTL

\* A container is started with a percentage, however wide an int is.
THEOREM LimitIsPercent == Spec => []LimitInRange
<1>1. ProgramInv => LimitInRange  BY DEF ProgramInv
<1>2. QED  BY <1>1, Invariance, PTL

\* The host's address is one more than the container's, without a wrap.
THEOREM HostAddress == Spec => []HostIsNext
<1>1. ProgramInv => HostIsNext  BY DEF ProgramInv
<1>2. QED  BY <1>1, Invariance, PTL

\* A container executes the command and all its arguments.
THEOREM WholeCommand == Spec => []CommandWhole
<1>1. ProgramInv => CommandWhole  BY DEF ProgramInv
<1>2. QED  BY <1>1, Invariance, PTL

\* Only exec, with a pid and no command, makes a string of a null pointer.
THEOREM NullString == Spec => []NullOnlyInExec
<1>1. ProgramInv => NullOnlyInExec  BY DEF ProgramInv
<1>2. QED  BY <1>1, Invariance, PTL

\* An error in the options is told once, and a command that fails because of its
\* options tells it, if there are fewer options than can be counted.
THEOREM ErrorToldOnce == Spec => []OneMessage
<1>1. ProgramInv => OneMessage
  BY DEF ProgramInv, ResultOK, Steps, OneMessage, Ended
<1>2. QED  BY <1>1, Invariance, PTL

-----------------------------------------------------------------------------
(***************************************************************************)
(* The lists.  Each stored option has its element in the buffer; the list  *)
(* of an index is a ring that begins and ends where the pointers are       *)
(* tagged; its first element is the copy in the array options.             *)
(***************************************************************************)
NewCell == <<"buffer", op_count>>
HeadCell == <<"options", usage[Descriptor(cursor)].index>>
StoredArg == IF Status(cursor) = "ARG_OK" THEN Optarg(cursor) ELSE NULL
LastOf(head) == cell[head].prev[2]

InArrays ==
    \A j \in 1..op_count :
        /\ <<"buffer", j - 1>> \in DOMAIN cell
        /\ ElementOf(j) \in DOMAIN cell
        /\ <<"options", IndexOf(j)>> \in DOMAIN cell
        /\ Content(cell[ElementOf(j)]) = Content(Stored(j))

NoneBefore(j) == \A l \in 1..(j - 1) : IndexOf(l) # IndexOf(j)

\* The first and the last option of a list point around it.
Ring ==
    \A c \in DOMAIN cell : c[1] = "options" =>
        \E f, l \in 1..op_count :
            /\ NoneBefore(f) /\ NoneBehind(l)
            /\ IndexOf(f) = c[2] /\ IndexOf(l) = c[2]
            /\ cell[c].prev = Tag(ElementOf(l)) /\ cell[ElementOf(l)].next = Tag(c)

\* The others point to their neighbours.
Link(j, k) ==
    /\ Behind(j, k)
    /\ cell[ElementOf(j)].next = Plain(ElementOf(k))
    /\ cell[ElementOf(k)].prev = Plain(ElementOf(j))

Linked ==
    \A j \in 1..op_count :
        /\ \/ NoneBehind(j) /\ cell[ElementOf(j)].next[1]
           \/ \E k \in 1..op_count : Link(j, k)
        /\ \/ NoneBefore(j)
           \/ \E k \in 1..op_count : Link(k, j)

Lists == InArrays /\ Ring /\ Linked

LEMMA CellNames ==
  ASSUME NEW i, NEW j
  PROVE  /\ <<"options", i>> = <<"options", j>> <=> i = j
         /\ <<"buffer", i>> = <<"buffer", j>> <=> i = j
         /\ <<"options", i>> # <<"buffer", j>>
         /\ <<"options", i>> # NIL /\ <<"buffer", i>> # NIL
         /\ <<"options", i>>[1] = "options" /\ <<"options", i>>[2] = i
         /\ <<"buffer", i>>[1] = "buffer" /\ <<"buffer", i>>[2] = i
  BY DEF NIL

\* An element belongs to one option.
LEMMA OwnElement ==
  ASSUME op_count \in Nat, NEW j \in 1..op_count, NEW k \in 1..op_count,
         ElementOf(j) = ElementOf(k)
  PROVE  j = k
<1>1. j \in Nat /\ k \in Nat  OBVIOUS
<1>2. ElementOf(j) = <<"buffer", j - 1>> \/ ElementOf(j) = <<"options", IndexOf(j)>>
      BY DEF ElementOf
<1>3. ElementOf(k) = <<"buffer", k - 1>> \/ ElementOf(k) = <<"options", IndexOf(k)>>
      BY DEF ElementOf
<1>4. CASE ElementOf(j) = <<"buffer", j - 1>>
  <2>1. <<"buffer", j - 1>> = <<"buffer", k - 1>>  BY <1>3, <1>4, CellNames
  <2>2. j - 1 = k - 1  BY <2>1, CellNames
  <2>3. QED  BY <1>1, <2>2
<1>5. CASE ElementOf(j) = <<"options", IndexOf(j)>>
  <2>1. ElementOf(k) = <<"options", IndexOf(k)>> /\ IndexOf(j) = IndexOf(k)
    BY <1>3, <1>5, CellNames
  <2>2. NoneBefore(j) /\ NoneBefore(k)
    BY <1>5, <2>1, CellNames DEF ElementOf, NoneBefore
  <2>3. QED  BY <1>1, <2>1, <2>2 DEF NoneBefore
<1>6. QED  BY <1>2, <1>4, <1>5

LEMMA NewIsNew ==
  ASSUME ParserInv
  PROVE  NewCell \notin DOMAIN cell
<1>1. op_count \in Nat  BY DEF ParserInv, ScalarsOK
<1>2. NewCell[1] = "buffer" /\ NewCell[2] = op_count  BY DEF NewCell
<1>3. NewCell \in DOMAIN cell => NewCell[2] < op_count
  BY <1>2 DEF ParserInv, CellsOK
<1>4. QED  BY <1>1, <1>2, <1>3

\* What Store makes of the arrays when the list is there, and when it is not.
LEMMA Appending ==
  ASSUME ParserInv, Store, HeadCell \in DOMAIN cell
  PROVE  /\ NewCell \notin DOMAIN cell /\ DOMAIN cell' = DOMAIN cell \cup {NewCell}
         /\ cell'[NewCell].desc = Descriptor(cursor)
         /\ cell'[NewCell].name = cursor /\ cell'[NewCell].arg = StoredArg
         /\ cell'[NewCell].prev = Plain(LastOf(HeadCell))
         /\ cell'[NewCell].next = Tag(HeadCell)
         /\ \A x \in DOMAIN cell :
               /\ Content(cell'[x]) = Content(cell[x])
               /\ cell'[x].desc = cell[x].desc
               /\ cell'[x].next = IF x = LastOf(HeadCell) THEN Plain(NewCell)
                                  ELSE cell[x].next
               /\ cell'[x].prev = IF x = HeadCell THEN Tag(NewCell) ELSE cell[x].prev
<1> DEFINE desc == Descriptor(cursor)
           D == DOMAIN cell
           o(c) == Option(c, desc, cursor, StoredArg)
           p == LastOf(HeadCell)
           m == [o(NewCell) EXCEPT !.prev = Plain(p), !.next = Tag(HeadCell)]
           nx(x) == IF x = p THEN Plain(NewCell) ELSE cell[x].next
           pv(x) == IF x = HeadCell THEN Tag(NewCell) ELSE cell[x].prev
           n(x) == [cell[x] EXCEPT !.next = IF x = p THEN Plain(NewCell) ELSE @,
                                   !.prev = IF x = HeadCell THEN Tag(NewCell) ELSE @]
<1>1. cell' = Appended(HeadCell, o(NewCell), NewCell)
  BY DEF Store, HeadCell, NewCell, StoredArg
<1>2. isFirst(HeadCell)
  <2>1. HeadCell[1] = "options"  BY DEF HeadCell
  <2>2. QED  BY <2>1 DEF ParserInv, Heads
<1>3. First(HeadCell) = HeadCell  BY <1>2 DEF First
<1>4. cell' = [x \in D \cup {NewCell} |-> IF x = NewCell THEN m ELSE n(x)]
  BY <1>1, <1>3 DEF Appended, LastOf
<1>5. NewCell \notin D  BY NewIsNew
<1>6. /\ m.desc = desc /\ m.name = cursor /\ m.arg = StoredArg
      /\ m.prev = Plain(p) /\ m.next = Tag(HeadCell)
  <2> HIDE DEF desc, p
  <2>1. QED  BY DEF Option
<1>7. ASSUME NEW x \in D
      PROVE  /\ n(x).desc = cell[x].desc /\ n(x).name = cell[x].name
             /\ n(x).arg = cell[x].arg /\ n(x).next = nx(x) /\ n(x).prev = pv(x)
  <2>1. cell[x] \in [desc : DOMAIN usage, name : Places, arg : Nat \X Nat,
                     prev : BOOLEAN \X D, next : BOOLEAN \X D]
    BY DEF ParserInv, CellsOK
  <2>2. PICK r, a, b : r = cell[x] /\ a = nx(x) /\ b = pv(x)  OBVIOUS
  <2>3. n(x) = [r EXCEPT !.next = a, !.prev = b]  BY <2>2
  <2> HIDE DEF n, nx, pv, D
  <2>4. /\ n(x).desc = r.desc /\ n(x).name = r.name
        /\ n(x).arg = r.arg /\ n(x).next = a /\ n(x).prev = b
    BY <2>1, <2>2, <2>3
  <2>5. QED  BY <2>2, <2>4
<1> HIDE DEF m, n, p, desc
<1>8. /\ DOMAIN cell' = D \cup {NewCell} /\ cell'[NewCell] = m
      /\ \A x \in D : cell'[x] = n(x)
  BY <1>4, <1>5
<1>9. QED  BY <1>5, <1>6, <1>7, <1>8 DEF Content, p, desc

LEMMA Creating ==
  ASSUME ParserInv, Store, HeadCell \notin DOMAIN cell
  PROVE  /\ NewCell \notin DOMAIN cell
         /\ DOMAIN cell' = DOMAIN cell \cup {NewCell, HeadCell}
         /\ \A x \in {NewCell, HeadCell} :
               /\ cell'[x].desc = Descriptor(cursor)
               /\ cell'[x].name = cursor /\ cell'[x].arg = StoredArg
               /\ cell'[x].prev = Tag(x) /\ cell'[x].next = Tag(x)
         /\ \A x \in DOMAIN cell : cell'[x] = cell[x]
<1> DEFINE D == DOMAIN cell
           o(c) == Option(c, Descriptor(cursor), cursor, StoredArg)
           S == {NewCell, HeadCell}
<1>1. cell' = [x \in D \cup S |-> IF x \in S THEN o(x) ELSE cell[x]]
  BY DEF Store, HeadCell, NewCell, StoredArg
<1>2. NewCell \notin D  BY NewIsNew
<1>3. \A x \in D : x \notin S  BY <1>2
<1>4. \A x \in S : /\ o(x).desc = Descriptor(cursor)
                   /\ o(x).name = cursor /\ o(x).arg = StoredArg
                   /\ o(x).prev = Tag(x) /\ o(x).next = Tag(x)
  BY DEF Option
<1> HIDE DEF o
<1>5. DOMAIN cell' = D \cup S /\ (\A x \in S : cell'[x] = o(x))
      /\ \A x \in D : cell'[x] = cell[x]
  <2> HIDE DEF S
  <2>1. QED  BY <1>1, <1>3
<1>6. QED  BY <1>2, <1>4, <1>5

\* What the options before the new one are to each other stays as it was.
LEMMA Earlier ==
  ASSUME op_count \in Nat, usage' = usage,
         \A j \in 1..op_count : cell'[<<"buffer", j - 1>>].desc = Stored(j).desc
  PROVE  \A j \in 1..op_count :
            /\ IndexOf(j)' = IndexOf(j) /\ ElementOf(j)' = ElementOf(j)
            /\ NoneBefore(j)' <=> NoneBefore(j)
            /\ \A k \in 1..op_count : Behind(j, k)' <=> Behind(j, k)
<1>1. \A j \in 1..op_count : IndexOf(j)' = IndexOf(j)  BY DEF IndexOf, Stored
<1> SUFFICES ASSUME NEW j \in 1..op_count
             PROVE  /\ ElementOf(j)' = ElementOf(j)
                    /\ NoneBefore(j)' <=> NoneBefore(j)
                    /\ \A k \in 1..op_count : Behind(j, k)' <=> Behind(j, k)
  BY <1>1
<1>2. \A l \in 1..(j - 1) : l \in 1..op_count  OBVIOUS
<1>3. ElementOf(j)' = ElementOf(j)
  <2>1. (\E l \in 1..(j - 1) : IndexOf(l)' = IndexOf(j)')
           <=> \E l \in 1..(j - 1) : IndexOf(l) = IndexOf(j)
    BY <1>1, <1>2
  <2>2. IndexOf(j)' = IndexOf(j)  BY <1>1
  <2>3. QED  BY <2>1, <2>2 DEF ElementOf
<1>4. NoneBefore(j)' <=> NoneBefore(j)  BY <1>1, <1>2 DEF NoneBefore
<1>5. ASSUME NEW k \in 1..op_count
      PROVE  Behind(j, k)' <=> Behind(j, k)
  <2>1. \A l \in (j + 1)..(k - 1) : l \in 1..op_count  OBVIOUS
  <2>2. QED  BY <1>1, <2>1 DEF Behind
<1>6. QED  BY <1>3, <1>4, <1>5

LEMMA Newest ==
  ASSUME op_count \in Nat, usage' = usage, op_count' = op_count + 1,
         \A j \in 1..op_count : cell'[<<"buffer", j - 1>>].desc = Stored(j).desc,
         NEW n, n = op_count + 1
  PROVE  /\ NoneBehind(n)'
         /\ \A j \in 1..op_count :
               /\ NoneBehind(j)' <=> NoneBehind(j) /\ IndexOf(n)' # IndexOf(j)
               /\ Behind(j, n)' <=> NoneBehind(j) /\ IndexOf(n)' = IndexOf(j)
<1>1. \A j \in 1..op_count : IndexOf(j)' = IndexOf(j)  BY Earlier
<1>2. NoneBehind(n)'  BY DEF NoneBehind
<1>3. ASSUME NEW j \in 1..op_count
      PROVE  /\ NoneBehind(j)' <=> NoneBehind(j) /\ IndexOf(n)' # IndexOf(j)
             /\ Behind(j, n)' <=> NoneBehind(j) /\ IndexOf(n)' = IndexOf(j)
  <2>1. \A l \in (j + 1)..op_count : l \in 1..op_count  OBVIOUS
  <2>2. NoneBehind(j) <=> \A l \in (j + 1)..op_count : IndexOf(l)' # IndexOf(j)'
    BY <1>1, <2>1 DEF NoneBehind
  <2>3. IndexOf(j)' = IndexOf(j)  BY <1>1
  <2>4. Behind(j, n)' <=> NoneBehind(j) /\ IndexOf(n)' = IndexOf(j)
    <3>1. (j + 1)..(n - 1) = (j + 1)..op_count /\ j < n  OBVIOUS
    <3>2. QED  BY <2>2, <2>3, <3>1 DEF Behind
  <2>5. NoneBehind(j)' <=> NoneBehind(j) /\ IndexOf(n)' # IndexOf(j)
    <3>1. NoneBehind(j)' <=> \A l \in (j + 1)..n : IndexOf(l)' # IndexOf(j)'
      BY DEF NoneBehind
    <3>2. \A l : l \in (j + 1)..n <=> l \in (j + 1)..op_count \/ l = n  OBVIOUS
    <3>3. QED  BY <2>2, <2>3, <3>1, <3>2
  <2>6. QED  BY <2>4, <2>5
<1>4. QED  BY <1>2, <1>3

\* Two options of an index with none behind them are one.
LEMMA OneLast ==
  ASSUME op_count \in Nat, NEW j \in 1..op_count, NEW k \in 1..op_count,
         IndexOf(j) = IndexOf(k), NoneBehind(j), NoneBehind(k)
  PROVE  j = k
  BY DEF NoneBehind

\* An option joins the list of its index behind the last one.
LEMMA AppendLists ==
  ASSUME ParserInv, Lists, Store, HeadCell \in DOMAIN cell
  PROVE  Lists'
<1> DEFINE D == DOMAIN cell
<1>0. PICK n, i : n = op_count + 1 /\ i = usage[Descriptor(cursor)].index  OBVIOUS
<1>1. /\ op_count \in Nat /\ usage' = usage /\ op_count' = n /\ n \in 1..n
      /\ \A j : j \in 1..n <=> j \in 1..op_count \/ j = n
      /\ \A j \in 1..op_count : j # n
  BY <1>0 DEF Store, ParserInv, ScalarsOK
<1>2. /\ NewCell \notin D /\ DOMAIN cell' = D \cup {NewCell}
      /\ cell'[NewCell].desc = Descriptor(cursor)
      /\ cell'[NewCell].prev = Plain(LastOf(HeadCell))
      /\ cell'[NewCell].next = Tag(HeadCell)
      /\ \A x \in D :
            /\ Content(cell'[x]) = Content(cell[x]) /\ cell'[x].desc = cell[x].desc
            /\ cell'[x].next = IF x = LastOf(HeadCell) THEN Plain(NewCell)
                               ELSE cell[x].next
            /\ cell'[x].prev = IF x = HeadCell THEN Tag(NewCell) ELSE cell[x].prev
  BY Appending
<1>3. HeadCell[1] = "options" /\ HeadCell[2] = i /\ HeadCell = <<"options", i>>
      /\ NewCell[1] = "buffer" /\ NewCell = <<"buffer", n - 1>>
  BY <1>0, <1>1 DEF HeadCell, NewCell
<1>4. \A j \in 1..op_count :
         /\ <<"buffer", j - 1>> \in D /\ ElementOf(j) \in D
         /\ <<"options", IndexOf(j)>> \in D
         /\ Content(cell[ElementOf(j)]) = Content(Stored(j))
  BY DEF Lists, InArrays
<1>5. PICK f, l \in 1..op_count :
         /\ NoneBefore(f) /\ NoneBehind(l) /\ IndexOf(f) = i /\ IndexOf(l) = i
         /\ cell[HeadCell].prev = Tag(ElementOf(l))
         /\ cell[ElementOf(l)].next = Tag(HeadCell)
  BY <1>3 DEF Lists, Ring
<1>6. LastOf(HeadCell) = ElementOf(l)  BY <1>5 DEF LastOf, Tag
<1>7. \A j \in 1..op_count : cell'[<<"buffer", j - 1>>].desc = Stored(j).desc
  BY <1>2, <1>4 DEF Stored
<1>8. \A j \in 1..op_count :
         /\ IndexOf(j)' = IndexOf(j) /\ ElementOf(j)' = ElementOf(j)
         /\ NoneBefore(j)' <=> NoneBefore(j)
         /\ \A k \in 1..op_count : Behind(j, k)' <=> Behind(j, k)
  BY <1>1, <1>7, Earlier
<1>9. IndexOf(n)' = i
  <2>1. Stored(n)' = cell'[NewCell]  BY <1>3 DEF Stored
  <2>2. QED  BY <1>0, <1>1, <1>2, <2>1 DEF IndexOf
<1>10. /\ NoneBehind(n)'
       /\ \A j \in 1..op_count :
             /\ NoneBehind(j)' <=> NoneBehind(j) /\ i # IndexOf(j)
             /\ Behind(j, n)' <=> NoneBehind(j) /\ i = IndexOf(j)
  BY <1>0, <1>1, <1>7, <1>9, Newest
<1>11. ElementOf(n)' = NewCell
  <2>1. f \in 1..(n - 1) /\ IndexOf(f)' = IndexOf(n)'  BY <1>1, <1>5, <1>8, <1>9
  <2>2. QED  BY <1>3, <2>1 DEF ElementOf
<1>12. \A j \in 1..op_count : j # l => ElementOf(j) # LastOf(HeadCell)
  BY <1>1, <1>6, OwnElement
<1> HIDE DEF D
<1>13. InArrays'
  <2>1. ASSUME NEW j \in 1..op_count
        PROVE  /\ <<"buffer", j - 1>> \in DOMAIN cell' /\ ElementOf(j)' \in DOMAIN cell'
               /\ <<"options", IndexOf(j)'>> \in DOMAIN cell'
               /\ Content(cell'[ElementOf(j)']) = Content(cell'[<<"buffer", j - 1>>])
    BY <1>2, <1>4, <1>8 DEF Stored
  <2>2. /\ <<"buffer", n - 1>> \in DOMAIN cell' /\ ElementOf(n)' \in DOMAIN cell'
        /\ <<"options", IndexOf(n)'>> \in DOMAIN cell'
        /\ Content(cell'[ElementOf(n)']) = Content(cell'[<<"buffer", n - 1>>])
    BY <1>2, <1>3, <1>9, <1>11 DEF D
  <2>3. QED  BY <1>1, <2>1, <2>2 DEF InArrays, Stored, Content
<1>14. Ring'
  <2> SUFFICES ASSUME NEW c \in DOMAIN cell', c[1] = "options"
               PROVE  \E a, b \in 1..n :
                        /\ NoneBefore(a)' /\ NoneBehind(b)'
                        /\ IndexOf(a)' = c[2] /\ IndexOf(b)' = c[2]
                        /\ cell'[c].prev = Tag(ElementOf(b)')
                        /\ cell'[ElementOf(b)'].next = Tag(c)
    BY <1>1 DEF Ring, Tag
  <2>1. c \in D  BY <1>2, <1>3
  <2>2. CASE c = HeadCell
    <3>1. cell'[c].prev = Tag(NewCell) /\ cell'[NewCell].next = Tag(c)
      BY <1>2, <2>1, <2>2
    <3>2. f \in 1..n /\ n \in 1..n  BY <1>1
    <3>3. NoneBefore(f)' /\ IndexOf(f)' = c[2] /\ IndexOf(n)' = c[2]
      BY <1>3, <1>5, <1>8, <1>9, <2>2
    <3>4. QED  BY <1>10, <1>11, <3>1, <3>2, <3>3
  <2>3. CASE c # HeadCell
    <3>1. PICK a, b \in 1..op_count :
             /\ NoneBefore(a) /\ NoneBehind(b) /\ IndexOf(a) = c[2] /\ IndexOf(b) = c[2]
             /\ cell[c].prev = Tag(ElementOf(b)) /\ cell[ElementOf(b)].next = Tag(c)
      BY <2>1 DEF Lists, Ring, D
    <3>2. c[2] # i
      <4>1. c \in {"options", "buffer"} \X Nat  BY <2>1 DEF ParserInv, CellsOK, D
      <4>2. c = <<c[1], c[2]>>  BY <4>1
      <4>3. QED  BY <1>3, <2>3, <4>2
    <3>3. b # l  BY <1>5, <3>1, <3>2
    <3>4. cell'[ElementOf(b)].next = Tag(c) /\ cell'[c].prev = Tag(ElementOf(b))
      BY <1>2, <1>4, <1>12, <2>1, <2>3, <3>1, <3>3
    <3>5. NoneBefore(a)' /\ NoneBehind(b)' /\ IndexOf(a)' = c[2] /\ IndexOf(b)' = c[2]
      BY <1>8, <1>10, <3>1, <3>2
    <3>6. a \in 1..n /\ b \in 1..n /\ ElementOf(b)' = ElementOf(b)  BY <1>1, <1>8
    <3>7. QED  BY <3>4, <3>5, <3>6
  <2>4. QED  BY <2>2, <2>3
<1>15. ASSUME NEW j \in 1..op_count, NEW k \in 1..op_count, Link(j, k)
       PROVE  Link(j, k)'
  <2>1. /\ Behind(j, k) /\ cell[ElementOf(j)].next = Plain(ElementOf(k))
        /\ cell[ElementOf(k)].prev = Plain(ElementOf(j))
    BY <1>15 DEF Link
  <2>2. j # l
    <3>1. j < k /\ IndexOf(k) = IndexOf(j)  BY <2>1 DEF Behind
    <3>2. ~NoneBehind(j)  BY <1>1, <3>1 DEF NoneBehind
    <3>3. QED  BY <1>5, <3>2
  <2>3. ElementOf(k) # HeadCell
    <3>1. j \in 1..(k - 1) /\ IndexOf(j) = IndexOf(k)  BY <2>1 DEF Behind
    <3>2. ElementOf(k) = <<"buffer", k - 1>>  BY <3>1 DEF ElementOf
    <3>3. QED  BY <1>3, <3>2, CellNames
  <2>4. cell'[ElementOf(j)].next = Plain(ElementOf(k))
        /\ cell'[ElementOf(k)].prev = Plain(ElementOf(j))
    BY <1>2, <1>4, <1>12, <2>1, <2>2, <2>3
  <2>5. Behind(j, k)' /\ ElementOf(j)' = ElementOf(j) /\ ElementOf(k)' = ElementOf(k)
    BY <1>8, <2>1
  <2>6. QED  BY <2>4, <2>5 DEF Link, Plain
<1>16. Link(l, n)'
  <2>1. Behind(l, n)' /\ ElementOf(l)' = LastOf(HeadCell)
    BY <1>5, <1>6, <1>8, <1>10
  <2>2. LastOf(HeadCell) \in D  BY <1>4, <1>6
  <2>3. cell'[LastOf(HeadCell)].next = Plain(NewCell)
        /\ cell'[NewCell].prev = Plain(LastOf(HeadCell))
    BY <1>2, <2>2
  <2>4. PICK e : e = LastOf(HeadCell)  OBVIOUS
  <2>5. QED  BY <1>11, <2>1, <2>3, <2>4 DEF Link, Plain
<1>17. Linked'
  <2>1. ASSUME NEW j \in 1..op_count
        PROVE  /\ \/ NoneBehind(j)' /\ cell'[ElementOf(j)'].next[1]
                  \/ \E k \in 1..n : Link(j, k)'
               /\ \/ NoneBefore(j)'
                  \/ \E k \in 1..n : Link(k, j)'
    <3>1. \/ NoneBehind(j)' /\ cell'[ElementOf(j)'].next[1]
          \/ \E k \in 1..n : Link(j, k)'
      <4>1. CASE j = l  BY <1>1, <1>16, <4>1
      <4>2. CASE j # l /\ \E k \in 1..op_count : Link(j, k)
        BY <1>1, <1>15, <4>2
      <4>3. CASE j # l /\ NoneBehind(j) /\ cell[ElementOf(j)].next[1]
        <5>1. IndexOf(j) # i  BY <1>1, <1>5, <4>3, OneLast
        <5>2. cell'[ElementOf(j)].next = cell[ElementOf(j)].next
          BY <1>2, <1>4, <1>12, <4>3
        <5>3. QED  BY <1>8, <1>10, <4>3, <5>1, <5>2
      <4>4. QED  BY <4>1, <4>2, <4>3 DEF Lists, Linked
    <3>2. NoneBefore(j)' \/ \E k \in 1..n : Link(k, j)'
      BY <1>1, <1>8, <1>15 DEF Lists, Linked
    <3>3. QED  BY <3>1, <3>2
  <2>2. NoneBehind(n)' /\ cell'[ElementOf(n)'].next[1]
    <3>1. cell'[ElementOf(n)'].next = Tag(HeadCell)  BY <1>2, <1>11
    <3>2. Tag(HeadCell)[1]  BY DEF Tag
    <3>3. QED  BY <1>10, <3>1, <3>2
  <2>3. \E k \in 1..n : Link(k, n)'  BY <1>1, <1>16
  <2>4. QED  BY <1>1, <2>1, <2>2, <2>3 DEF Linked
<1>18. QED  BY <1>13, <1>14, <1>17 DEF Lists

\* The first option of an index begins its list.
LEMMA CreateLists ==
  ASSUME ParserInv, Lists, Store, HeadCell \notin DOMAIN cell
  PROVE  Lists'
<1> DEFINE D == DOMAIN cell
<1>0. PICK n, i : n = op_count + 1 /\ i = usage[Descriptor(cursor)].index  OBVIOUS
<1>1. /\ op_count \in Nat /\ usage' = usage /\ op_count' = n /\ n \in 1..n
      /\ \A j : j \in 1..n <=> j \in 1..op_count \/ j = n
      /\ \A j \in 1..op_count : j # n
  BY <1>0 DEF Store, ParserInv, ScalarsOK
<1>2. /\ NewCell \notin D /\ DOMAIN cell' = D \cup {NewCell, HeadCell}
      /\ \A x \in {NewCell, HeadCell} :
            /\ cell'[x].desc = Descriptor(cursor)
            /\ cell'[x].name = cursor /\ cell'[x].arg = StoredArg
            /\ cell'[x].prev = Tag(x) /\ cell'[x].next = Tag(x)
      /\ \A x \in D : cell'[x] = cell[x]
  BY Creating
<1>3. HeadCell[1] = "options" /\ HeadCell[2] = i /\ HeadCell = <<"options", i>>
      /\ NewCell[1] = "buffer" /\ NewCell = <<"buffer", n - 1>>
  BY <1>0, <1>1 DEF HeadCell, NewCell
<1>4. \A j \in 1..op_count :
         /\ <<"buffer", j - 1>> \in D /\ ElementOf(j) \in D
         /\ <<"options", IndexOf(j)>> \in D
         /\ Content(cell[ElementOf(j)]) = Content(Stored(j))
  BY DEF Lists, InArrays
<1>5. \A j \in 1..op_count : IndexOf(j) # i  BY <1>3, <1>4
<1>6. \A j \in 1..op_count : cell'[<<"buffer", j - 1>>].desc = Stored(j).desc
  BY <1>2, <1>4 DEF Stored
<1>7. \A j \in 1..op_count :
         /\ IndexOf(j)' = IndexOf(j) /\ ElementOf(j)' = ElementOf(j)
         /\ NoneBefore(j)' <=> NoneBefore(j)
         /\ \A k \in 1..op_count : Behind(j, k)' <=> Behind(j, k)
  BY <1>1, <1>6, Earlier
<1>8. IndexOf(n)' = i
  <2>1. Stored(n)' = cell'[NewCell]  BY <1>3 DEF Stored
  <2>2. QED  BY <1>0, <1>1, <1>2, <2>1 DEF IndexOf
<1>9. NoneBehind(n)' /\ \A j \in 1..op_count : NoneBehind(j)' <=> NoneBehind(j)
  BY <1>0, <1>1, <1>5, <1>6, <1>8, Newest
<1>10. NoneBefore(n)' /\ ElementOf(n)' = HeadCell
  <2>1. \A k \in 1..(n - 1) : IndexOf(k)' # i  BY <1>0, <1>1, <1>5, <1>7
  <2>2. NoneBefore(n)'  BY <1>8, <2>1 DEF NoneBefore
  <2>3. QED  BY <1>3, <1>8, <2>1, <2>2 DEF ElementOf
<1> HIDE DEF D
<1>11. InArrays'
  <2>1. ASSUME NEW j \in 1..op_count
        PROVE  /\ <<"buffer", j - 1>> \in DOMAIN cell' /\ ElementOf(j)' \in DOMAIN cell'
               /\ <<"options", IndexOf(j)'>> \in DOMAIN cell'
               /\ Content(cell'[ElementOf(j)']) = Content(cell'[<<"buffer", j - 1>>])
    BY <1>2, <1>4, <1>7 DEF Stored
  <2>2. /\ <<"buffer", n - 1>> \in DOMAIN cell' /\ ElementOf(n)' \in DOMAIN cell'
        /\ <<"options", IndexOf(n)'>> \in DOMAIN cell'
        /\ Content(cell'[ElementOf(n)']) = Content(cell'[<<"buffer", n - 1>>])
    BY <1>2, <1>3, <1>8, <1>10 DEF Content
  <2>3. QED  BY <1>1, <2>1, <2>2 DEF InArrays, Stored, Content
<1>12. Ring'
  <2> SUFFICES ASSUME NEW c \in DOMAIN cell', c[1] = "options"
               PROVE  \E a, b \in 1..n :
                        /\ NoneBefore(a)' /\ NoneBehind(b)'
                        /\ IndexOf(a)' = c[2] /\ IndexOf(b)' = c[2]
                        /\ cell'[c].prev = Tag(ElementOf(b)')
                        /\ cell'[ElementOf(b)'].next = Tag(c)
    BY <1>1 DEF Ring, Tag
  <2>1. CASE c = HeadCell
    <3>1. cell'[c].prev = Tag(c) /\ cell'[c].next = Tag(c)  BY <1>2, <2>1
    <3>2. n \in 1..n /\ IndexOf(n)' = c[2]  BY <1>1, <1>3, <1>8, <2>1
    <3>3. QED  BY <1>9, <1>10, <2>1, <3>1, <3>2
  <2>2. CASE c # HeadCell
    <3>1. c \in D  BY <1>2, <1>3, <2>2
    <3>2. PICK a, b \in 1..op_count :
             /\ NoneBefore(a) /\ NoneBehind(b) /\ IndexOf(a) = c[2] /\ IndexOf(b) = c[2]
             /\ cell[c].prev = Tag(ElementOf(b)) /\ cell[ElementOf(b)].next = Tag(c)
      BY <3>1 DEF Lists, Ring, D
    <3>3. cell'[ElementOf(b)].next = Tag(c) /\ cell'[c].prev = Tag(ElementOf(b))
      BY <1>2, <1>4, <3>1, <3>2
    <3>4. NoneBefore(a)' /\ NoneBehind(b)' /\ IndexOf(a)' = c[2] /\ IndexOf(b)' = c[2]
      BY <1>7, <1>9, <3>2
    <3>5. a \in 1..n /\ b \in 1..n /\ ElementOf(b)' = ElementOf(b)  BY <1>1, <1>7
    <3>6. QED  BY <3>3, <3>4, <3>5
  <2>3. QED  BY <2>1, <2>2
<1>13. ASSUME NEW j \in 1..op_count, NEW k \in 1..op_count, Link(j, k)
       PROVE  Link(j, k)'
  <2>1. /\ Behind(j, k) /\ cell[ElementOf(j)].next = Plain(ElementOf(k))
        /\ cell[ElementOf(k)].prev = Plain(ElementOf(j))
    BY <1>13 DEF Link
  <2>2. cell'[ElementOf(j)].next = Plain(ElementOf(k))
        /\ cell'[ElementOf(k)].prev = Plain(ElementOf(j))
    BY <1>2, <1>4, <2>1
  <2>3. Behind(j, k)' /\ ElementOf(j)' = ElementOf(j) /\ ElementOf(k)' = ElementOf(k)
    BY <1>7, <2>1
  <2>4. QED  BY <2>2, <2>3 DEF Link, Plain
<1>14. Linked'
  <2>1. ASSUME NEW j \in 1..op_count
        PROVE  /\ \/ NoneBehind(j)' /\ cell'[ElementOf(j)'].next[1]
                  \/ \E k \in 1..n : Link(j, k)'
               /\ \/ NoneBefore(j)'
                  \/ \E k \in 1..n : Link(k, j)'
    <3>1. cell'[ElementOf(j)'] = cell[ElementOf(j)]  BY <1>2, <1>4, <1>7
    <3>2. \/ NoneBehind(j)' /\ cell'[ElementOf(j)'].next[1]
          \/ \E k \in 1..n : Link(j, k)'
      <4>1. CASE \E k \in 1..op_count : Link(j, k)  BY <1>1, <1>13, <4>1
      <4>2. CASE NoneBehind(j) /\ cell[ElementOf(j)].next[1]  BY <1>9, <3>1, <4>2
      <4>3. QED  BY <4>1, <4>2 DEF Lists, Linked
    <3>3. NoneBefore(j)' \/ \E k \in 1..n : Link(k, j)'
      BY <1>1, <1>7, <1>13 DEF Lists, Linked
    <3>4. QED  BY <3>2, <3>3
  <2>2. cell'[ElementOf(n)'].next[1]
    <3>1. cell'[ElementOf(n)'].next = Tag(HeadCell)  BY <1>2, <1>10
    <3>2. Tag(HeadCell)[1]  BY DEF Tag
    <3>3. QED  BY <3>1, <3>2
  <2>3. QED  BY <1>1, <1>9, <1>10, <2>1, <2>2 DEF Linked
<1>15. QED  BY <1>11, <1>12, <1>14 DEF Lists

\* No other step changes the arrays.
LEMMA KeepLists ==
  ASSUME Lists, UNCHANGED <<usage, cell, op_count>>
  PROVE  Lists'
<1>1. \A j : /\ IndexOf(j)' = IndexOf(j) /\ ElementOf(j)' = ElementOf(j)
             /\ Stored(j)' = Stored(j)
  BY DEF IndexOf, Stored, ElementOf
<1>2. InArrays'  BY <1>1 DEF Lists, InArrays, Content
<1>3. \A j : (NoneBefore(j)' <=> NoneBefore(j)) /\ (NoneBehind(j)' <=> NoneBehind(j))
  BY <1>1 DEF NoneBefore, NoneBehind
<1>4. \A j, k : Link(j, k)' <=> Link(j, k)
  <2>1. \A j, k : Behind(j, k)' <=> Behind(j, k)  BY <1>1 DEF Behind
  <2>2. QED  BY <1>1, <2>1 DEF Link, Plain
<1>5. Ring'  BY <1>1, <1>3 DEF Lists, Ring, Tag
<1>6. Linked'  BY <1>1, <1>3, <1>4 DEF Lists, Linked
<1>7. QED  BY <1>2, <1>5, <1>6 DEF Lists

LEMMA ListsInvInit ==
  ASSUME Init
  PROVE  Lists
<1>1. op_count = 0 /\ cell = <<>>  BY DEF Init, ParserInit
<1>2. 1..op_count = {} /\ DOMAIN cell = {}  BY <1>1
<1>3. QED  BY <1>2 DEF Lists, InArrays, Ring, Linked

LEMMA ListsInvNext ==
  ASSUME ProgramInv, Lists, [Next]_vars
  PROVE  Lists'
<1>1. CASE Store
  BY <1>1, AppendLists, CreateLists DEF ProgramInv
<1>2. CASE ~Store
  <2>1. UNCHANGED <<usage, cell, op_count>>
    BY <1>2 DEF Next, Done, Main, Parse, ParserNext, Skip, Count, Counted, Abort, Finish,
                ParseError, Help, Accepted, Report, Start, Stop, List, Exec, Ready,
                vars, parserVars
  <2>2. QED  BY <2>1, KeepLists
<1>3. QED  BY <1>1, <1>2

\* Who follows next from an option's element comes to the next option.
LEMMA Pointers ==
  ASSUME Lists, NEW j \in 1..op_count
  PROVE  \/ NoneBehind(j) /\ next(ElementOf(j)) = NIL
         \/ \E k \in 1..op_count :
               /\ Behind(j, k) /\ next(ElementOf(j)) = ElementOf(k)
               /\ cell[ElementOf(k)].prev = Plain(ElementOf(j))
<1>1. CASE NoneBehind(j) /\ cell[ElementOf(j)].next[1]
  BY <1>1 DEF next, isLast
<1>2. CASE \E k \in 1..op_count : Link(j, k)
  <2>1. PICK k \in 1..op_count : Link(j, k)  BY <1>2
  <2>2. ~cell[ElementOf(j)].next[1] /\ cell[ElementOf(j)].next[2] = ElementOf(k)
    BY <2>1 DEF Link, Plain
  <2>3. next(ElementOf(j)) = ElementOf(k)  BY <2>2 DEF next, isLast
  <2>4. QED  BY <2>1, <2>3 DEF Link
<1>3. QED  BY <1>1, <1>2 DEF Lists, Linked

LEMMA ListsAreInOrder ==
  ASSUME ProgramInv, Lists
  PROVE  ListsInOrder
<1>1. ASSUME NEW i, Given(i)
      PROVE  \E j \in 1..op_count : IndexOf(j) = i
  <2>1. <<"options", i>> \in DOMAIN cell  BY <1>1 DEF Given
  <2>2. QED  BY <2>1, CellNames DEF Lists, Ring
<1>2. ASSUME NEW j \in 1..op_count
      PROVE  Given(IndexOf(j))
  BY DEF Lists, InArrays, Given
<1>3. ASSUME NEW j \in 1..op_count
      PROVE  /\ Content(cell[ElementOf(j)]) = Content(Stored(j))
             /\ isFirst(ElementOf(j)) <=> ElementOf(j)[1] = "options"
             /\ \/ NoneBehind(j) /\ next(ElementOf(j)) = NIL
                \/ \E k \in 1..op_count :
                      /\ Behind(j, k) /\ next(ElementOf(j)) = ElementOf(k)
                      /\ cell[ElementOf(k)].prev = Plain(ElementOf(j))
  <2>1. ElementOf(j) \in DOMAIN cell /\ Content(cell[ElementOf(j)]) = Content(Stored(j))
    BY DEF Lists, InArrays
  <2>2. CASE NoneBefore(j)
    <3>1. ElementOf(j) = <<"options", IndexOf(j)>>
      BY <2>2 DEF ElementOf, NoneBefore
    <3>2. ElementOf(j)[1] = "options"  BY <3>1, CellNames
    <3>3. isFirst(ElementOf(j))  BY <2>1, <3>2 DEF ProgramInv, ParserInv, Heads
    <3>4. isFirst(ElementOf(j)) <=> ElementOf(j)[1] = "options"  BY <3>2, <3>3
    <3>5. QED  BY <2>1, <3>4, Pointers
  <2>3. CASE ~NoneBefore(j)
    <3>1. ElementOf(j) = <<"buffer", j - 1>>
      BY <2>3 DEF ElementOf, NoneBefore
    <3>2. ElementOf(j)[1] # "options"  BY <3>1, CellNames
    <3>3. PICK k \in 1..op_count : Link(k, j)  BY <2>3 DEF Lists, Linked
    <3>4. ~isFirst(ElementOf(j))  BY <3>3 DEF Link, isFirst, Plain
    <3>5. isFirst(ElementOf(j)) <=> ElementOf(j)[1] = "options"  BY <3>2, <3>4
    <3>6. QED  BY <2>1, <3>5, Pointers
  <2>4. QED  BY <2>2, <2>3
<1>4. \A i \in {usage[d].index : d \in DOMAIN usage} :
         Given(i) <=> \E j \in 1..op_count : IndexOf(j) = i
  BY <1>1, <1>2
<1>5. QED  BY <1>3, <1>4 DEF ListsInOrder

-----------------------------------------------------------------------------
(***************************************************************************)
(* The words.  The storing pass has been over the words before its place:  *)
(* each has options or is an option's argument.  The word of the place     *)
(* itself has stored options only if the pass is behind the first of them. *)
(***************************************************************************)
WordsInv ==
    pass = "store" \/ (pass = "finished" /\ ~err) =>
        /\ \A w \in OptionWords : w \in 1..Len(argv) /\ w <= cursor[1]
        /\ \A w \in Separate : w \in 1..Len(argv) /\ w < cursor[1]
        /\ OptionWords \cap Separate = {}
        /\ \A w \in Separate : w - 1 \in OptionWords
        /\ \A w \in 1..(cursor[1] - 1) : w \in OptionWords \cup Separate
        /\ cursor[1] \in OptionWords <=> cursor[2] >= 2

\* Where the pass has stopped, and the arguments the command gets.
ArgumentsInv ==
    pass = "finished" /\ ~err =>
        LET args == IF Is(cursor, {"end"}) THEN cursor[1] + 1 ELSE cursor[1]
        IN  /\ Stopped(cursor)
            /\ IF args <= Len(argv)
               THEN nonop_args = args /\ nonop_count = Len(argv) + 1 - args
               ELSE nonop_count = 0

Parts == WordsInv /\ ArgumentsInv

LEMMA DummyIs == \A i : IsDummy(Desc(i, {}, "", "None"))
<1> TAKE i
<1>1. PICK d : d = Desc(i, {}, "", "None")  OBVIOUS
<1>2. d.short = {}  BY <1>1 DEF Desc
<1>3. d.long = ""  BY <1>1 DEF Desc
<1>4. QED  BY <1>1, <1>2, <1>3 DEF IsDummy

\* A command has a descriptor for unknown options.
LEMMA UnknownHasOne ==
  ASSUME usage \in {startUsage, stopUsage, listUsage}, NEW c
  PROVE  Described(c) <=> AtOption(c)
<1>1. 1 \in DOMAIN usage /\ IsDummy(usage[1])
  <2>1. 1 \in DOMAIN listUsage /\ IsDummy(listUsage[1])
    <3>1. listUsage[1] = Desc(UNKNOWN, {}, "", "None")  BY DEF listUsage
    <3>2. IsDummy(listUsage[1])  BY <3>1, DummyIs
    <3>3. QED  BY <3>2, ListEntries
  <2>2. 1 \in DOMAIN stopUsage /\ IsDummy(stopUsage[1])
    <3>1. stopUsage[1] = Desc(UNKNOWN, {}, "", "None")  BY DEF stopUsage
    <3>2. IsDummy(stopUsage[1])  BY <3>1, DummyIs
    <3>3. QED  BY <3>2, StopEntries
  <2>3. 1 \in DOMAIN startUsage /\ IsDummy(startUsage[1])
    <3>1. startUsage[1] = Desc(UNKNOWN, {}, "", "None")  BY DEF startUsage
    <3>2. IsDummy(startUsage[1])  BY <3>1, DummyIs
    <3>3. QED  BY <3>2, StartDomain
  <2>4. QED  BY <2>1, <2>2, <2>3
<1> DEFINE named == {i \in DOMAIN usage : Matches(c, usage[i])}
           dummies == {i \in DOMAIN usage : IsDummy(usage[i])}
<1>2. dummies # {}  BY <1>1
<1>3. DOMAIN usage \subseteq 1..6  BY ListEntries, StopEntries, StartDomain
<1>4. named \in SUBSET (1..6) /\ dummies \in SUBSET (1..6)  BY <1>3
<1>5. Descriptor(c) = IF named # {} THEN Least(named) ELSE Least(dummies)
  BY <1>2 DEF Descriptor
<1>6. named # {} => Least(named) \in named  BY <1>4, LeastIsIn
<1>7. Least(dummies) \in dummies  BY <1>2, <1>4, LeastIsIn
<1> HIDE DEF named, dummies
<1>8. Descriptor(c) \in 1..6  BY <1>4, <1>5, <1>6, <1>7
<1>9. QED  BY <1>8 DEF Described

LEMMA ParsedUsage ==
  ASSUME ProgramInv, place = "parse"
  PROVE  usage \in {startUsage, stopUsage, listUsage}
  BY UsageOf DEF ProgramInv, Steps, ParserInv, UsageOK, execUsage

\* What a store leaves and adds.
LEMMA StoreContents ==
  ASSUME ParserInv, Lists, Store
  PROVE  /\ op_count' = op_count + 1
         /\ \A j \in 1..op_count : Content(Stored(j)') = Content(Stored(j))
         /\ LET o == cell'[<<"buffer", op_count>>]
            IN  o.name = cursor /\ o.arg = StoredArg
<1>1. \A j \in 1..op_count : <<"buffer", j - 1>> \in DOMAIN cell
  BY DEF Lists, InArrays
<1>2. op_count' = op_count + 1  BY DEF Store
<1>3. CASE HeadCell \in DOMAIN cell
  BY <1>1, <1>2, <1>3, Appending DEF Stored, NewCell
<1>4. CASE HeadCell \notin DOMAIN cell
  <2>1. (\A x \in DOMAIN cell : cell'[x] = cell[x])
        /\ cell'[NewCell].name = cursor /\ cell'[NewCell].arg = StoredArg
    BY <1>4, Creating
  <2>2. QED  BY <1>1, <1>2, <2>1 DEF Stored, NewCell, Content
<1>5. QED  BY <1>3, <1>4

LEMMA StoreParts ==
  ASSUME ParserInv, Lists, Store
  PROVE  /\ OptionWords' = OptionWords \cup {cursor[1]}
         /\ Separate' = IF StoredArg[2] = 0 /\ StoredArg[1] # 0
                        THEN Separate \cup {StoredArg[1]} ELSE Separate
<1>0. PICK n : n = op_count + 1  OBVIOUS
<1>1. /\ op_count \in Nat /\ op_count' = n /\ n - 1 = op_count
      /\ \A j : j \in 1..n <=> j \in 1..op_count \/ j = n
  BY <1>0 DEF Store, ParserInv, ScalarsOK
<1>2. \A j \in 1..op_count : /\ Stored(j)'.name = Stored(j).name
                             /\ Stored(j)'.arg = Stored(j).arg
  BY StoreContents DEF Content
<1>3. Stored(n)'.name = cursor /\ Stored(n)'.arg = StoredArg
  BY <1>1, StoreContents DEF Stored
<1>4. OptionWords' = {Stored(j)'.name[1] : j \in 1..n}  BY <1>1 DEF OptionWords
<1>5. OptionWords' = OptionWords \cup {cursor[1]}
  <2>1. \A w : w \in OptionWords' <=> \E j \in 1..n : w = Stored(j)'.name[1]
    BY <1>4
  <2>2. \A w : w \in OptionWords <=> \E j \in 1..op_count : w = Stored(j).name[1]
    BY DEF OptionWords
  <2>3. \A w : w \in OptionWords' <=> w \in OptionWords \/ w = cursor[1]
    BY <1>1, <1>2, <1>3, <2>1, <2>2
  <2>4. QED  BY <2>3
<1>6. Separate' = IF StoredArg[2] = 0 /\ StoredArg[1] # 0
                  THEN Separate \cup {StoredArg[1]} ELSE Separate
  <2>1. \A w : w \in Separate' <=>
           /\ w # 0
           /\ \E j \in 1..n : Stored(j)'.arg[2] = 0 /\ w = Stored(j)'.arg[1]
    BY <1>1 DEF Separate
  <2>2. \A w : w \in Separate <=>
           /\ w # 0
           /\ \E j \in 1..op_count : Stored(j).arg[2] = 0 /\ w = Stored(j).arg[1]
    BY DEF Separate
  <2>3. \A w : w \in Separate' <=>
           w \in Separate \/ (w # 0 /\ StoredArg[2] = 0 /\ w = StoredArg[1])
    BY <1>1, <1>2, <1>3, <2>1, <2>2
  <2>4. QED  BY <2>3
<1>7. QED  BY <1>5, <1>6

\* A pass that is not inside a word goes into a group, and past any other word.
LEMMA StoreWords ==
  ASSUME ParserInv, Lists, Store, WordsInv
  PROVE  WordsInv'
<1>0. PICK c, d, w : c = cursor /\ d = cursor' /\ w = cursor[1]  OBVIOUS
<1>1. /\ pass = "store" /\ Parsed(c) /\ d = Onward(c) /\ UNCHANGED <<argv, pass>>
  BY <1>0 DEF Store
<1>2. c \in Places /\ w \in Nat \ {0} /\ c[1] = w /\ c[2] \in Nat /\ Len(argv) \in Nat
  BY <1>0 DEF ParserInv, PlaceOK, Places
<1>3. AtOption(c) /\ Is(c, {"long", "group"}) /\ w \in 1..Len(argv)
  BY <1>1, <1>2 DEF Parsed, Described, AtOption, Is
<1>4. /\ OptionWords' = OptionWords \cup {w}
      /\ Separate' = IF StoredArg[2] = 0 /\ StoredArg[1] # 0
                     THEN Separate \cup {StoredArg[1]} ELSE Separate
  BY <1>0, StoreParts
<1>5. /\ \A v \in OptionWords : v \in 1..Len(argv) /\ v <= w
      /\ \A v \in Separate : v \in 1..Len(argv) /\ v < w
      /\ OptionWords \cap Separate = {}
      /\ \A v \in Separate : v - 1 \in OptionWords
      /\ \A v \in 1..(w - 1) : v \in OptionWords \cup Separate
  BY <1>0, <1>1 DEF WordsInv
<1>6. CASE Status(c) = "ARG_OK" /\ Optarg(c)[2] = 0
  <2>1. StoredArg = <<w + 1, 0>> /\ w < Len(argv)
    BY <1>0, <1>2, <1>3, <1>6, AcceptedThere, OptargOK DEF StoredArg, ParserInv
  <2>2. Separate' = Separate \cup {w + 1}  BY <1>2, <1>4, <2>1
  <2>3. d = <<w + 2, 0>>  BY <1>1, <1>2, <1>6 DEF Onward
  <2>4. d[1] = w + 2 /\ d[2] = 0 /\ w + 1 \in 1..Len(argv)  BY <1>2, <2>1, <2>3
  <2>5. QED  BY <1>0, <1>1, <1>2, <1>3, <1>4, <1>5, <2>2, <2>4 DEF WordsInv
<1>7. CASE ~(Status(c) = "ARG_OK" /\ Optarg(c)[2] = 0)
  <2>1. Separate' = Separate
    <3>1. CASE Status(c) = "ARG_OK"  BY <1>0, <1>4, <1>7, <3>1 DEF StoredArg
    <3>2. CASE Status(c) # "ARG_OK"  BY <1>0, <1>4, <3>2 DEF StoredArg, NULL
    <3>3. QED  BY <3>1, <3>2
  <2>2. d = <<w + 1, 0>> \/ (d = <<w, c[2] + 1>> /\ Is(c, {"group"}))
    BY <1>1, <1>2, <1>7 DEF Onward
  <2>3. CASE d = <<w + 1, 0>>
    <3>1. d[1] = w + 1 /\ d[2] = 0  BY <2>3
    <3>2. QED  BY <1>0, <1>1, <1>2, <1>3, <1>4, <1>5, <2>1, <3>1 DEF WordsInv
  <2>4. CASE d = <<w, c[2] + 1>> /\ Is(c, {"group"})
    <3>1. c[2] >= 1
      <4>1. Shape[argv[w]].kind = "group" /\ argv[w] \in Words
        BY <1>2, <1>3, <2>4 DEF Is, ParserInv
      <4>2. DOMAIN Shape[argv[w]].option = 1..Len(Shape[argv[w]].option)
        BY <4>1, WordsAssumption
      <4>3. QED  BY <1>2, <1>3, <4>2 DEF AtOption
    <3>2. d[1] = w /\ d[2] = c[2] + 1 /\ d[2] >= 2  BY <1>2, <2>4, <3>1
    <3>3. QED  BY <1>0, <1>1, <1>2, <1>3, <1>4, <1>5, <2>1, <3>2 DEF WordsInv
  <2>5. QED  BY <2>2, <2>3, <2>4
<1>8. QED  BY <1>6, <1>7

LEMMA KeepParts ==
  ASSUME UNCHANGED <<cell, op_count>>
  PROVE  OptionWords' = OptionWords /\ Separate' = Separate
  BY DEF OptionWords, Separate, Stored

\* A word is left without an option only at its beginning, never at its end.
LEMMA SkipWords ==
  ASSUME ProgramInv, place = "parse", Skip, pass = "store", WordsInv
  PROVE  WordsInv'
<1>0. PICK c, d, w : c = cursor /\ d = cursor' /\ w = cursor[1]  OBVIOUS
<1>1. /\ ~Stopped(c) /\ ~Described(c) /\ d = Onward(c)
      /\ UNCHANGED <<argv, pass, cell, op_count>>
  BY <1>0 DEF Skip
<1>2. /\ c \in Places /\ w \in Nat \ {0} /\ c[1] = w /\ c[2] \in Nat /\ Len(argv) \in Nat
      /\ c[2] # 0 => Is(c, {"group"})
  BY <1>0 DEF ProgramInv, ParserInv, PlaceOK, Places
<1>3. ~AtOption(c)  BY <1>1, ParsedUsage, UnknownHasOne
<1>4. Is(c, {"long", "group"})  BY <1>1, <1>2 DEF Stopped, Is
<1>5. argv[w] \in Words /\ w \in 1..Len(argv)
  BY <1>2, <1>4 DEF Is, ProgramInv, ParserInv
<1>6. Is(c, {"group"})
  <2>1. SUFFICES ASSUME Shape[argv[w]].kind = "long" PROVE FALSE
    BY <1>2, <1>4 DEF Is
  <2>2. DOMAIN Shape[argv[w]].option = {0}  BY <1>5, <2>1, WordsAssumption
  <2>3. c[2] # 0  BY <1>2, <1>3, <1>4, <2>2 DEF AtOption
  <2>4. QED  BY <1>2, <2>1, <2>3 DEF Is
<1>7. c[2] = 0 \/ c[2] > 1
  <2>1. Shape[argv[w]].kind = "group"  BY <1>2, <1>6 DEF Is
  <2>2. Shape[argv[w]].option \in Seq(STRING) \ {<<>>}
    BY <1>5, <2>1, WordsAssumption
  <2>3. PICK s \in Seq(STRING) : s = Shape[argv[w]].option /\ s # <<>>  BY <2>2
  <2>4. 1 \in DOMAIN s  BY <2>3
  <2>5. QED  BY <1>2, <1>3, <1>4, <2>3, <2>4 DEF AtOption
<1>8. OptionWords' = OptionWords /\ Separate' = Separate  BY <1>1, KeepParts
<1>9. /\ \A v \in OptionWords : v \in 1..Len(argv) /\ v <= w
      /\ \A v \in Separate : v \in 1..Len(argv) /\ v < w
      /\ OptionWords \cap Separate = {}
      /\ \A v \in Separate : v - 1 \in OptionWords
      /\ \A v \in 1..(w - 1) : v \in OptionWords \cup Separate
      /\ w \in OptionWords <=> c[2] >= 2
  BY <1>0 DEF WordsInv
<1>10. CASE c[2] = 0
  <2>1. d = <<w, 1>>  BY <1>1, <1>2, <1>3, <1>6, <1>10 DEF Onward, Parsed, Described
  <2>2. d[1] = w /\ d[2] = 1  BY <2>1
  <2>3. QED  BY <1>0, <1>1, <1>2, <1>8, <1>9, <1>10, <2>2 DEF WordsInv
<1>11. CASE c[2] > 1
  <2>1. d = <<w + 1, 0>>  BY <1>1, <1>2, <1>3, <1>6, <1>11 DEF Onward, Parsed, Described
  <2>2. d[1] = w + 1 /\ d[2] = 0  BY <2>1
  <2>3. QED  BY <1>0, <1>1, <1>2, <1>8, <1>9, <1>11, <2>2 DEF WordsInv
<1>12. QED  BY <1>7, <1>10, <1>11

LEMMA PartsInit ==
  ASSUME Init
  PROVE  Parts
  BY DEF Init, ParserInit, Parts, WordsInv, ArgumentsInv

\* A step outside the parser, or none.
LEMMA PartsKept ==
  ASSUME Parts, UNCHANGED <<argv, pass, cursor, op_count, cell, nonop_count, nonop_args,
                            err>>
  PROVE  Parts'
<1>1. OptionWords' = OptionWords /\ Separate' = Separate  BY KeepParts
<1>2. WordsInv'  BY <1>1 DEF Parts, WordsInv
<1>3. ArgumentsInv'  BY DEF Parts, ArgumentsInv, Stopped, Is
<1>4. QED  BY <1>2, <1>3 DEF Parts

LEMMA PartsParse ==
  ASSUME ProgramInv, Lists, Parts, place = "parse", ParserNext
  PROVE  Parts'
<1>1. pass \in {"count", "store", "finished"} /\ (err => pass = "finished")
  BY DEF ProgramInv, ParserInv, ScalarsOK, ResultOK
<1>2. CASE Skip
  <2>1. pass' = pass /\ pass \in {"count", "store"}  BY <1>1, <1>2 DEF Skip
  <2>2. CASE pass = "count"  BY <2>1, <2>2 DEF Parts, WordsInv, ArgumentsInv
  <2>3. CASE pass = "store"
    BY <1>2, <2>1, <2>3, SkipWords DEF Parts, ArgumentsInv
  <2>4. QED  BY <2>1, <2>2, <2>3
<1>3. CASE Count  BY <1>3 DEF Count, Parts, WordsInv, ArgumentsInv
<1>4. CASE Counted
  <2>1. /\ pass' = "store" /\ cursor' = <<1, 0>> /\ op_count = 0
        /\ UNCHANGED <<cell, op_count, argv>>
    BY <1>4 DEF Counted, ProgramInv, ParserInv, Logged
  <2>2. OptionWords' = {} /\ Separate' = {}
    BY <2>1 DEF OptionWords, Separate
  <2>3. cursor'[1] = 1 /\ cursor'[2] = 0  BY <2>1
  <2>4. WordsInv'  BY <2>2, <2>3 DEF WordsInv
  <2>5. QED  BY <2>1, <2>4 DEF Parts, ArgumentsInv
<1>5. CASE Store
  <2>1. pass' = "store"  BY <1>5 DEF Store
  <2>2. WordsInv'  BY <1>5, StoreWords DEF ProgramInv, Parts
  <2>3. QED  BY <2>1, <2>2 DEF Parts, ArgumentsInv
<1>6. CASE Abort  BY <1>6 DEF Abort, Parts, WordsInv, ArgumentsInv
<1>7. CASE Finish
  <2> DEFINE args == IF Is(cursor, {"end"}) THEN cursor[1] + 1 ELSE cursor[1]
  <2>1. /\ pass = "store" /\ Stopped(cursor) /\ pass' = "finished"
        /\ nonop_count' = IF Len(argv) + 1 - args > 0 THEN Len(argv) + 1 - args
                          ELSE nonop_count
        /\ nonop_args' = IF Len(argv) + 1 - args > 0 THEN args ELSE nonop_args
        /\ UNCHANGED <<argv, cursor, op_count, cell, err>>
    BY <1>7 DEF Finish
  <2>2. OptionWords' = OptionWords /\ Separate' = Separate  BY <2>1, KeepParts
  <2>3. WordsInv'  BY <2>1, <2>2 DEF Parts, WordsInv
  <2>4. nonop_count = 0 /\ Len(argv) \in Nat /\ args \in Nat
    BY <2>1 DEF ProgramInv, ResultOK, ParserInv, PlaceOK, Places
  <2>5. Stopped(cursor)' /\ (Is(cursor, {"end"})' <=> Is(cursor, {"end"}))
    BY <2>1 DEF Stopped, Is
  <2>6. args' = args  BY <2>1, <2>5
  <2> HIDE DEF args
  <2>7. Len(argv) + 1 - args > 0 <=> args <= Len(argv)  BY <2>4
  <2>8. IF args <= Len(argv)
        THEN nonop_args' = args /\ nonop_count' = Len(argv) + 1 - args
        ELSE nonop_count' = 0
    BY <2>1, <2>4, <2>7
  <2>9. ArgumentsInv'  BY <2>1, <2>5, <2>6, <2>8 DEF ArgumentsInv, args
  <2>10. QED  BY <2>3, <2>9 DEF Parts
<1>8. QED  BY <1>2, <1>3, <1>4, <1>5, <1>6, <1>7 DEF ParserNext

LEMMA PartsNext ==
  ASSUME ProgramInv, Lists, Parts, [Next]_vars
  PROVE  Parts'
<1>1. CASE Parse  BY <1>1, PartsParse DEF Parse
<1>2. CASE ~Parse
  <2>1. UNCHANGED parserVars
    BY <1>2 DEF Next, Done, Main, ParseError, Help, Accepted, Report, Start, Stop, List,
                Exec, Ready, vars
  <2>2. QED  BY <2>1, PartsKept DEF parserVars
<1>3. QED  BY <1>1, <1>2

\* A command that parses is past its parse.
PastParse ==
    place \notin {"main", "parse"} /\ command \in DOMAIN Usage /\ ~err =>
        pass = "finished"

LEMMA PastParseNext ==
  ASSUME ProgramInv, PastParse, [Next]_vars
  PROVE  PastParse'
<1>1. CASE Parse  BY <1>1 DEF Parse, PastParse
<1>2. CASE Main  BY <1>2 DEF Main, PastParse, Return
<1>3. CASE ~Parse /\ ~Main
  <2>1. /\ UNCHANGED <<parserVars, command>>
        /\ place \in {"main", "parse"} => pass = "finished" \/ UNCHANGED place
    BY <1>3 DEF Next, Done, ParseError, Help, Accepted, Report, Start, Stop, List, Exec,
                Ready, vars
  <2>2. UNCHANGED <<pass, err>>  BY <2>1 DEF parserVars
  <2>3. QED  BY <2>1, <2>2 DEF PastParse
<1>4. QED  BY <1>1, <1>2, <1>3

LEMMA PartsOfWords ==
  ASSUME ProgramInv, Parts, PastParse
  PROVE  EveryWordOnePart
<1> SUFFICES ASSUME place \notin {"main", "parse"}, command \in DOMAIN Usage, ~err
             PROVE  LET parts == <<OptionWords, Separate, ArgumentWords>>
                        rest == DOMAIN argv \ (OptionWords \cup Separate \cup ArgumentWords)
                    IN  /\ \A i, j \in 1..3 : i < j => parts[i] \cap parts[j] = {}
                        /\ \A i \in rest : Is(<<i, 0>>, {"end"}) /\ \A j \in rest : j = i
                        /\ \A i \in Separate : i - 1 \in OptionWords
                        /\ ArgumentWords # {} /\ Is(<<nonop_args, 0>>, Kinds \ {"plain"}) =>
                              nonop_args - 1 \in rest
  BY DEF EveryWordOnePart
<1> DEFINE w == cursor[1]
           args == IF Is(cursor, {"end"}) THEN w + 1 ELSE w
           rest == DOMAIN argv \ (OptionWords \cup Separate \cup ArgumentWords)
<1>1. pass = "finished"  BY DEF PastParse
<1>2. /\ \A v \in OptionWords : v \in 1..Len(argv) /\ v <= w
      /\ \A v \in Separate : v \in 1..Len(argv) /\ v < w
      /\ OptionWords \cap Separate = {}
      /\ \A v \in Separate : v - 1 \in OptionWords
      /\ \A v \in 1..(w - 1) : v \in OptionWords \cup Separate
      /\ w \in OptionWords <=> cursor[2] >= 2
  BY <1>1 DEF Parts, WordsInv
<1>3. /\ Stopped(cursor)
      /\ IF args <= Len(argv) THEN nonop_args = args /\ nonop_count = Len(argv) + 1 - args
         ELSE nonop_count = 0
  BY <1>1 DEF Parts, ArgumentsInv
<1>4. /\ cursor \in Places /\ w \in Nat \ {0} /\ w <= Len(argv) + 1 /\ Len(argv) \in Nat
      /\ DOMAIN argv = 1..Len(argv) /\ argv \in Seq(Words)
  BY DEF ProgramInv, ParserInv, PlaceOK, Places
<1>5. cursor[2] = 0 /\ ~Is(cursor, {"long", "group"})  BY <1>3 DEF Stopped
<1>6. w \notin OptionWords  BY <1>2, <1>5
<1>7. Is(<<w, 0>>, {"end"}) <=> Is(cursor, {"end"})  BY DEF Is
<1>8. ArgumentWords = IF args <= Len(argv) THEN args..Len(argv) ELSE {}
  <2>1. args \in Nat  BY <1>4
  <2> HIDE DEF args
  <2>2. CASE args <= Len(argv)
    <3>1. nonop_args = args /\ nonop_count > 0  BY <1>3, <1>4, <2>1, <2>2
    <3>2. ArgumentWords = {i \in 1..Len(argv) : i >= args}
      BY <1>4, <3>1 DEF ArgumentWords
    <3>3. {i \in 1..Len(argv) : i >= args} = args..Len(argv)
      <4>1. args >= 1  BY <1>4, <2>1 DEF args
      <4>2. QED  BY <1>4, <2>1, <4>1
    <3>4. QED  BY <2>2, <3>2, <3>3
  <2>3. CASE ~(args <= Len(argv))
    <3>1. nonop_count = 0  BY <1>3, <2>3
    <3>2. QED  BY <2>3, <3>1 DEF ArgumentWords
  <2>4. QED  BY <2>2, <2>3
<1>9. \A v \in rest : v = w /\ Is(cursor, {"end"})
  <2> SUFFICES ASSUME NEW v \in rest PROVE v = w /\ Is(cursor, {"end"})  OBVIOUS
  <2>1. v \in 1..Len(argv) /\ v \notin OptionWords \cup Separate /\ v \notin ArgumentWords
    BY <1>4
  <2>2. ~(v < w)  BY <1>2, <1>4, <2>1
  <2>3. ~(v >= args)  BY <1>4, <1>8, <2>1
  <2>4. QED  BY <1>4, <2>1, <2>2, <2>3
<1>10. Is(cursor, {"end"}) => w \in rest
  <2> SUFFICES ASSUME Is(cursor, {"end"}) PROVE w \in rest  OBVIOUS
  <2>1. w \in DOMAIN argv /\ args = w + 1  BY DEF Is
  <2>2. w \notin Separate  BY <1>2, <1>4
  <2>3. w \notin ArgumentWords  BY <1>4, <1>8, <2>1
  <2>4. QED  BY <1>6, <2>1, <2>2, <2>3
<1>11. OptionWords \cap ArgumentWords = {} /\ Separate \cap ArgumentWords = {}
  <2>1. \A v \in ArgumentWords : v \in Nat /\ v >= w  BY <1>4, <1>8
  <2>2. \A v \in OptionWords : v < w  BY <1>2, <1>4, <1>6
  <2>3. \A v \in Separate : v < w  BY <1>2
  <2>4. \A v \in OptionWords \cup Separate : v \in Nat  BY <1>2
  <2>5. QED  BY <1>4, <2>1, <2>2, <2>3, <2>4
<1>12. ASSUME ArgumentWords # {}, Is(<<nonop_args, 0>>, Kinds \ {"plain"})
       PROVE  nonop_args - 1 \in rest
  <2>1. args <= Len(argv) /\ nonop_args = args  BY <1>3, <1>8, <1>12
  <2>2. CASE Is(cursor, {"end"})
    <3>1. args - 1 = w  BY <1>4, <2>2
    <3>2. QED  BY <1>10, <2>1, <2>2, <3>1
  <2>3. CASE ~Is(cursor, {"end"})
    <3>1. nonop_args = w /\ w \in 1..Len(argv)  BY <1>4, <2>1, <2>3
    <3>2. Shape[argv[w]].kind \in Kinds \ {"plain"}  BY <1>12, <3>1 DEF Is
    <3>3. Shape[argv[w]].kind \notin {"end", "long", "group"}
      BY <1>4, <1>5, <2>3, <3>1 DEF Is
    <3>4. QED  BY <3>2, <3>3 DEF Kinds
  <2>4. QED  BY <2>2, <2>3
<1>13. \A i, j \in 1..3 : i < j =>
          <<OptionWords, Separate, ArgumentWords>>[i]
             \cap <<OptionWords, Separate, ArgumentWords>>[j] = {}
  <2>1. PICK a, b, c : a = OptionWords /\ b = Separate /\ c = ArgumentWords  OBVIOUS
  <2>2. a \cap b = {} /\ a \cap c = {} /\ b \cap c = {}  BY <1>2, <1>11, <2>1
  <2>3. \A i, j \in 1..3 : i < j => <<i, j>> \in {<<1, 2>>, <<1, 3>>, <<2, 3>>}  OBVIOUS
  <2>4. \A i, j \in 1..3 : i < j => <<a, b, c>>[i] \cap <<a, b, c>>[j] = {}
    BY <2>2
  <2>5. QED  BY <2>1, <2>4
<1> HIDE DEF rest, args, w
<1>14. \A i \in rest : Is(<<i, 0>>, {"end"}) /\ \A j \in rest : j = i
  BY <1>7, <1>9
<1>15. QED  BY <1>2, <1>12, <1>13, <1>14 DEF rest

-----------------------------------------------------------------------------
(***************************************************************************)
(* The report of unknown options.  The loop has reported as many as are    *)
(* before the one it is at, or all.                                        *)
(***************************************************************************)
Named ==
    \A j \in Unknown :
        Cardinality(UnknownBefore(j)) + 1 <= Len(reported) =>
            reported[Cardinality(UnknownBefore(j)) + 1] = Stored(j).name

ReportInv ==
    /\ reported \in Seq(Places)
    /\ Len(reported) <= Cardinality(Unknown)
    /\ Named
    /\ place \in {"main", "parse"} => reported = <<>>
    /\ place = "report" =>
          \/ opt = NIL /\ Len(reported) = Cardinality(Unknown)
          \/ \E j \in Unknown : /\ opt = ElementOf(j)
                                /\ Len(reported) = Cardinality(UnknownBefore(j))
    /\ place \in {"called", "crashed"} \/ outcome = PARSE_ARG_ERROR =>
          Len(reported) = Cardinality(Unknown)

LEMMA UnknownFinite ==
  ASSUME op_count \in Nat
  PROVE  /\ IsFiniteSet(Unknown) /\ Cardinality(Unknown) \in Nat
         /\ \A j \in Unknown : /\ j \in 1..op_count
                               /\ IsFiniteSet(UnknownBefore(j))
                               /\ Cardinality(UnknownBefore(j)) \in Nat
<1>1. IsFiniteSet(1..op_count)  BY FS_Interval
<1>2. Unknown \in SUBSET (1..op_count)  BY DEF Unknown
<1>3. IsFiniteSet(Unknown)  BY <1>1, <1>2, FS_Subset
<1>4. ASSUME NEW j \in Unknown
      PROVE  IsFiniteSet(UnknownBefore(j)) /\ Cardinality(UnknownBefore(j)) \in Nat
  <2>1. UnknownBefore(j) \in SUBSET Unknown  BY DEF UnknownBefore
  <2>2. IsFiniteSet(UnknownBefore(j))  BY <1>3, <2>1, FS_Subset
  <2>3. QED  BY <2>2, FS_CardinalityType
<1>5. Cardinality(Unknown) \in Nat  BY <1>3, FS_CardinalityType
<1>6. QED  BY <1>2, <1>3, <1>4, <1>5

\* The number of options before one, and before the next.
LEMMA Ranks ==
  ASSUME op_count \in Nat, NEW j \in Unknown
  PROVE  /\ NoneBefore(j) => Cardinality(UnknownBefore(j)) = 0
         /\ NoneBehind(j) => Cardinality(Unknown) = Cardinality(UnknownBefore(j)) + 1
         /\ \A k \in 1..op_count : Behind(j, k) =>
               /\ k \in Unknown
               /\ Cardinality(UnknownBefore(k)) = Cardinality(UnknownBefore(j)) + 1
         /\ Cardinality(UnknownBefore(j)) + 1 <= Cardinality(Unknown)
         /\ \A k \in Unknown : j < k =>
               Cardinality(UnknownBefore(j)) < Cardinality(UnknownBefore(k))
<1> DEFINE B == UnknownBefore(j)
           C == B \cup {j}
<1>1. IsFiniteSet(B) /\ j \notin B /\ Cardinality(B) \in Nat /\ j \in 1..op_count
  BY UnknownFinite DEF UnknownBefore
<1>2. IsFiniteSet(C) /\ Cardinality(C) = Cardinality(B) + 1
  BY <1>1, FS_AddElement
<1>3. NoneBefore(j) => Cardinality(B) = 0
  <2>1. NoneBefore(j) => B = {}  BY DEF NoneBefore, UnknownBefore, Unknown
  <2>2. QED  BY <2>1, FS_EmptySet
<1>4. NoneBehind(j) => Unknown = C
  BY <1>1 DEF NoneBehind, UnknownBefore, Unknown
<1>5. ASSUME NEW k \in 1..op_count, Behind(j, k)
      PROVE  k \in Unknown /\ UnknownBefore(k) = C
  <2>1. k \in Unknown  BY <1>5 DEF Behind, Unknown
  <2>2. \A l \in Unknown : l < k <=> l < j \/ l = j
    BY <1>1, <1>5 DEF Behind, Unknown
  <2>3. QED  BY <2>1, <2>2 DEF UnknownBefore
<1>6. Cardinality(C) <= Cardinality(Unknown)
  <2>1. C \in SUBSET Unknown  BY DEF UnknownBefore
  <2>2. QED  BY <2>1, UnknownFinite, FS_Subset
<1>7. ASSUME NEW k \in Unknown, j < k
      PROVE  Cardinality(B) < Cardinality(UnknownBefore(k))
  <2>1. C \in SUBSET UnknownBefore(k)
    <3>1. k \in 1..op_count  BY UnknownFinite
    <3>2. QED  BY <1>1, <1>7, <3>1 DEF UnknownBefore, Unknown
  <2>2. IsFiniteSet(UnknownBefore(k)) /\ Cardinality(UnknownBefore(k)) \in Nat
    BY UnknownFinite
  <2>3. Cardinality(C) <= Cardinality(UnknownBefore(k))  BY <2>1, <2>2, FS_Subset
  <2>4. QED  BY <1>1, <1>2, <2>2, <2>3
<1> HIDE DEF B, C
<1>8. QED  BY <1>2, <1>3, <1>4, <1>5, <1>6, <1>7 DEF B

LEMMA KeepUnknown ==
  ASSUME UNCHANGED <<usage, cell, op_count>>
  PROVE  /\ Unknown' = Unknown
         /\ \A j : /\ UnknownBefore(j)' = UnknownBefore(j)
                   /\ ElementOf(j)' = ElementOf(j) /\ Stored(j)' = Stored(j)
<1>1. \A j : IndexOf(j)' = IndexOf(j) /\ Stored(j)' = Stored(j)
  BY DEF IndexOf, Stored
<1>2. \A j : ElementOf(j)' = ElementOf(j)  BY <1>1 DEF ElementOf
<1>3. Unknown' = Unknown  BY <1>1 DEF Unknown
<1>4. \A j : UnknownBefore(j)' = UnknownBefore(j)  BY <1>3 DEF UnknownBefore
<1>5. QED  BY <1>1, <1>2, <1>3, <1>4

LEMMA Sizes ==
  op_count \in Nat => /\ Cardinality(Unknown) \in Nat
                      /\ \A j \in Unknown : Cardinality(UnknownBefore(j)) \in Nat
  BY UnknownFinite

LEMMA NextSizes ==
  (op_count \in Nat => /\ Cardinality(Unknown) \in Nat
                       /\ \A j \in Unknown : Cardinality(UnknownBefore(j)) \in Nat)'
  BY Sizes, PTL

\* Before the report, nothing was reported.
LEMMA NothingReported ==
  ASSUME op_count' \in Nat, reported' = <<>>, place' \in {"main", "parse"},
         outcome' # PARSE_ARG_ERROR
  PROVE  ReportInv'
<1>1. Cardinality(Unknown)' \in Nat
      /\ \A j \in Unknown' : Cardinality(UnknownBefore(j))' \in Nat
  BY NextSizes
<1>2. reported' \in Seq(Places) /\ Len(reported') = 0  OBVIOUS
<1>3. Named'  BY <1>1, <1>2 DEF Named
<1>4. QED  BY <1>1, <1>2, <1>3 DEF ReportInv

\* Steps that report nothing, after the parse.
LEMMA ReportKept ==
  ASSUME ReportInv, UNCHANGED <<usage, cell, op_count, reported>>,
         place' \notin {"main", "parse"},
         place' = "report" => place = "report" /\ UNCHANGED opt,
         place' \in {"called", "crashed"} \/ outcome' = PARSE_ARG_ERROR =>
            Len(reported) = Cardinality(Unknown)
  PROVE  ReportInv'
<1>1. /\ Unknown' = Unknown
      /\ \A j : /\ UnknownBefore(j)' = UnknownBefore(j)
                /\ ElementOf(j)' = ElementOf(j) /\ Stored(j)' = Stored(j)
  BY KeepUnknown
<1>2. Named'  BY <1>1 DEF ReportInv, Named
<1>3. QED  BY <1>1, <1>2 DEF ReportInv

LEMMA CountOfOptions ==
  ASSUME ProgramInv
  PROVE  op_count \in Nat
  BY DEF ProgramInv, ParserInv, ScalarsOK

\* The first unknown option, if there is one, is at the head of their list.
LEMMA ReportBegins ==
  ASSUME ProgramInv, Lists
  PROVE  \/ Options(UNKNOWN) = NIL /\ Cardinality(Unknown) = 0
         \/ \E j \in Unknown : /\ Options(UNKNOWN) = ElementOf(j)
                               /\ Cardinality(UnknownBefore(j)) = 0
<1> DEFINE head == <<"options", UNKNOWN>>
<1>1. head[1] = "options" /\ head[2] = UNKNOWN  OBVIOUS
<1>2. CASE Given(UNKNOWN)
  <2>1. head \in DOMAIN cell  BY <1>2 DEF Given
  <2> HIDE DEF head
  <2>2. PICK f \in 1..op_count : NoneBefore(f) /\ IndexOf(f) = UNKNOWN
    BY <1>1, <2>1 DEF Lists, Ring
  <2>3. f \in Unknown  BY <2>2 DEF Unknown
  <2>4. ElementOf(f) = head  BY <2>2 DEF ElementOf, NoneBefore, head
  <2>5. Cardinality(UnknownBefore(f)) = 0  BY <2>2, <2>3, CountOfOptions, Ranks
  <2>6. QED  BY <1>2, <2>3, <2>4, <2>5 DEF Options, head
<1>3. CASE ~Given(UNKNOWN)
  <2>1. \A j \in 1..op_count : IndexOf(j) # UNKNOWN
    BY <1>3 DEF Lists, InArrays, Given
  <2>2. Unknown = {}  BY <2>1 DEF Unknown
  <2>3. QED  BY <1>3, <2>2, FS_EmptySet DEF Options
<1>4. QED  BY <1>2, <1>3

\* A turn of the loop reports the option it is at.
LEMMA ReportStep ==
  ASSUME ProgramInv, Lists, ReportInv, Report
  PROVE  ReportInv'
<1>1. /\ place = "report" /\ opt # NIL
      /\ reported' = Append(reported, cell[opt].name) /\ opt' = next(opt)
      /\ UNCHANGED <<usage, cell, op_count, place, outcome>>
  BY DEF Report, parserVars
<1>2. PICK j \in Unknown :
         opt = ElementOf(j) /\ Len(reported) = Cardinality(UnknownBefore(j))
  BY <1>1 DEF ReportInv
<1>3. op_count \in Nat /\ j \in 1..op_count  BY CountOfOptions, UnknownFinite
<1>4. cell[opt].name = Stored(j).name /\ Stored(j).name \in Places
  <2>1. ElementOf(j) \in DOMAIN cell /\ <<"buffer", j - 1>> \in DOMAIN cell
        /\ Content(cell[ElementOf(j)]) = Content(Stored(j))
    BY <1>3 DEF Lists, InArrays
  <2>2. Stored(j).name \in Places  BY <2>1 DEF Stored, ProgramInv, ParserInv, CellsOK
  <2>3. QED  BY <1>2, <2>1, <2>2 DEF Content
<1>5. PICK name, r : name = cell[opt].name /\ r = Len(reported)  OBVIOUS
<1>6. reported \in Seq(Places) /\ name \in Places /\ r \in Nat
  BY <1>4, <1>5 DEF ReportInv
<1>7. /\ reported' \in Seq(Places) /\ Len(reported') = r + 1
      /\ reported'[r + 1] = name /\ \A i \in 1..r : reported'[i] = reported[i]
  BY <1>1, <1>5, <1>6
<1>8. /\ Unknown' = Unknown
      /\ \A k : /\ UnknownBefore(k)' = UnknownBefore(k)
                /\ ElementOf(k)' = ElementOf(k) /\ Stored(k)' = Stored(k)
  BY <1>1, KeepUnknown
<1>9. /\ NoneBehind(j) => Cardinality(Unknown) = r + 1
      /\ \A k \in 1..op_count : Behind(j, k) =>
            k \in Unknown /\ Cardinality(UnknownBefore(k)) = r + 1
      /\ r + 1 <= Cardinality(Unknown)
  BY <1>2, <1>3, <1>5, Ranks
<1>10. Named'
  <2> SUFFICES ASSUME NEW k \in Unknown, Cardinality(UnknownBefore(k)) + 1 <= r + 1
               PROVE  reported'[Cardinality(UnknownBefore(k)) + 1] = Stored(k).name
    BY <1>7, <1>8 DEF Named
  <2>1. PICK b : b = Cardinality(UnknownBefore(k))  OBVIOUS
  <2>2. b \in Nat /\ b <= r /\ k \in 1..op_count
    BY <1>3, <1>6, <2>1, UnknownFinite
  <2>3. CASE b = r
    <3>1. ~(j < k)
      <4>1. j < k => r < b  BY <1>2, <1>3, <1>5, <2>1, Ranks
      <4>2. QED  BY <2>2, <2>3, <4>1
    <3>2. ~(k < j)
      <4>1. k < j => b < r  BY <1>2, <1>3, <1>5, <2>1, Ranks
      <4>2. QED  BY <2>2, <2>3, <4>1
    <3>3. k = j  BY <1>3, <2>2, <3>1, <3>2
    <3>4. QED  BY <1>4, <1>5, <1>7, <2>1, <2>3, <3>3
  <2>4. CASE b # r
    <3>1. b + 1 \in 1..r  BY <1>6, <2>2, <2>4
    <3>2. reported[b + 1] = Stored(k).name
      BY <1>5, <1>6, <2>1, <3>1 DEF ReportInv, Named
    <3>3. QED  BY <1>7, <2>1, <3>1, <3>2
  <2>5. QED  BY <2>3, <2>4
<1>11. \/ opt' = NIL /\ r + 1 = Cardinality(Unknown)
       \/ \E k \in Unknown : opt' = ElementOf(k) /\ r + 1 = Cardinality(UnknownBefore(k))
  BY <1>1, <1>2, <1>3, <1>9, Pointers
<1>12. place' = "report" /\ outcome' = 0 /\ 0 # PARSE_ARG_ERROR
  BY <1>1 DEF ProgramInv, Steps, PARSE_ARG_ERROR
<1>13. Len(reported') <= Cardinality(Unknown)'  BY <1>7, <1>8, <1>9
<1>14. \/ opt' = NIL /\ Len(reported') = Cardinality(Unknown)'
       \/ \E k \in Unknown' : /\ opt' = ElementOf(k)'
                              /\ Len(reported') = Cardinality(UnknownBefore(k))'
  BY <1>7, <1>8, <1>11
<1>15. QED  BY <1>7, <1>10, <1>12, <1>13, <1>14 DEF ReportInv

LEMMA ReportInvInit ==
  ASSUME Init
  PROVE  ReportInv
<1>1. op_count = 0 /\ reported = <<>> /\ place = "main" /\ outcome = 0
  BY DEF Init, ParserInit
<1>2. Cardinality(Unknown) \in Nat
      /\ \A j \in Unknown : Cardinality(UnknownBefore(j)) \in Nat
  BY <1>1, Sizes
<1>3. reported \in Seq(Places) /\ Len(reported) = 0  BY <1>1
<1>4. Named  BY <1>2, <1>3 DEF Named
<1>5. 0 # PARSE_ARG_ERROR  BY DEF PARSE_ARG_ERROR
<1>6. QED  BY <1>1, <1>2, <1>3, <1>4, <1>5 DEF ReportInv

\* A command ends, or is called, when the loop is over.
LEMMA AllReported ==
  ASSUME ProgramInv, Lists, ReportInv, place = "report", opt = NIL
  PROVE  Len(reported) = Cardinality(Unknown)
<1>1. \A j : ElementOf(j) # NIL  BY CellNames DEF ElementOf
<1>2. QED  BY <1>1 DEF ReportInv

LEMMA ReportInvNext ==
  ASSUME ProgramInv, ProgramInv', Lists, ReportInv, [Next]_vars
  PROVE  ReportInv'
<1>1. op_count' \in Nat  BY DEF ProgramInv, ParserInv, ScalarsOK
<1>2. /\ 0 # PARSE_ARG_ERROR /\ INVALID_ARGS_ERROR # PARSE_ARG_ERROR
      /\ PARSE_OPTIONS_ERROR # PARSE_ARG_ERROR
  BY DEF PARSE_ARG_ERROR, INVALID_ARGS_ERROR, PARSE_OPTIONS_ERROR
<1>3. place # "returned" => outcome = 0  BY DEF ProgramInv, Steps
<1>4. CASE Parse
  <2>1. place' = "parse" /\ outcome' = 0 /\ reported' = <<>>
    BY <1>3, <1>4 DEF Parse, ReportInv
  <2>2. QED  BY <1>1, <1>2, <2>1, NothingReported
<1>5. CASE Main
  <2>1. reported' = <<>> /\ UNCHANGED <<usage, cell, op_count, reported>>
    BY <1>5 DEF Main, ReportInv, parserVars
  <2>2. \/ place' = "parse" /\ outcome' = 0
        \/ place' = "returned" /\ outcome' = INVALID_ARGS_ERROR
    BY <1>3, <1>5 DEF Main, Return
  <2>3. QED  BY <1>1, <1>2, <2>1, <2>2, NothingReported, ReportKept
<1>6. CASE ParseError \/ Help
  <2>1. /\ UNCHANGED <<usage, cell, op_count, reported>>
        /\ place' = "returned" /\ outcome' \in {0, PARSE_OPTIONS_ERROR}
    BY <1>6 DEF ParseError, Help, Return, parserVars
  <2>2. QED  BY <1>2, <2>1, ReportKept
<1>7. CASE Accepted
  <2>1. /\ place = "parse" /\ place' = "report" /\ opt' = Options(UNKNOWN)
        /\ UNCHANGED <<usage, cell, op_count, reported, outcome>>
    BY <1>7 DEF Accepted, parserVars
  <2>2. reported = <<>> /\ outcome' = 0  BY <1>3, <2>1 DEF ReportInv
  <2>3. /\ Unknown' = Unknown
        /\ \A k : /\ UnknownBefore(k)' = UnknownBefore(k)
                  /\ ElementOf(k)' = ElementOf(k) /\ Stored(k)' = Stored(k)
    BY <2>1, KeepUnknown
  <2>4. Named'  BY <2>1, <2>3 DEF ReportInv, Named
  <2>5. \/ opt' = NIL /\ Len(reported') = Cardinality(Unknown)'
        \/ \E k \in Unknown' : /\ opt' = ElementOf(k)'
                               /\ Len(reported') = Cardinality(UnknownBefore(k))'
    <3>1. Len(reported') = 0  BY <2>1, <2>2
    <3>2. QED  BY <2>1, <2>3, <3>1, ReportBegins
  <2>6. QED  BY <1>2, <2>1, <2>2, <2>3, <2>4, <2>5 DEF ReportInv
<1>8. CASE Report  BY <1>8, ReportStep
<1>9. CASE Start \/ Stop \/ List \/ Exec
  <2>1. /\ place = "report" /\ opt = NIL
        /\ UNCHANGED <<usage, cell, op_count, reported>>
    BY <1>9 DEF Start, Stop, List, Exec, Ready, parserVars
  <2>2. place' \in {"called", "crashed", "returned"}
    BY <1>9 DEF Start, Stop, List, Exec, CalledWith, Called, NotNumeric, Return
  <2>3. QED  BY <2>1, <2>2, AllReported, ReportKept
<1>10. CASE UNCHANGED vars
  <2>1. UNCHANGED <<usage, cell, op_count, reported, place, opt, outcome>>
    BY <1>10 DEF vars, parserVars
  <2>2. CASE place \in {"main", "parse"}
    BY <1>1, <1>2, <1>3, <2>1, <2>2, NothingReported DEF ReportInv
  <2>3. CASE place \notin {"main", "parse"}
    BY <2>1, <2>3, ReportKept DEF ReportInv
  <2>4. QED  BY <2>2, <2>3
<1>11. QED  BY <1>4, <1>5, <1>6, <1>7, <1>8, <1>9, <1>10 DEF Next, Done

-----------------------------------------------------------------------------
\* What the parse makes of the vector, on top of ProgramInv.
VectorInv == Lists /\ Parts /\ PastParse /\ ReportInv

THEOREM VectorInvariance == Spec => []VectorInv
<1>1. Init => VectorInv
  BY ListsInvInit, PartsInit, ReportInvInit DEF VectorInv, PastParse, Init
<1>2. ProgramInv /\ ProgramInv' /\ VectorInv /\ [Next]_vars => VectorInv'
  BY ListsInvNext, PartsNext, PastParseNext, ReportInvNext DEF VectorInv
<1>3. QED  BY <1>1, <1>2, Invariance, PTL DEF Spec

\* However options are mixed, the lists have the options of their indices in the
\* order of the command line, for any number of them.
THEOREM ListsFollowLine == Spec => []ListsInOrder
<1>1. ProgramInv /\ VectorInv => ListsInOrder  BY ListsAreInOrder DEF VectorInv
<1>2. QED  BY <1>1, Invariance, VectorInvariance, PTL

\* After a parse that has succeeded each word of the vector has one part, for
\* any words and any number of them.
THEOREM WordsHaveOnePart == Spec => []EveryWordOnePart
<1>1. ProgramInv /\ VectorInv => EveryWordOnePart  BY PartsOfWords DEF VectorInv
<1>2. QED  BY <1>1, Invariance, VectorInvariance, PTL

\* Each unknown option is reported, once and in order, before a command gives up
\* for another reason or is called.
THEOREM UnknownAreReported == Spec => []UnknownReported
<1>1. VectorInv => UnknownReported
  BY DEF VectorInv, ReportInv, Named, UnknownReported
<1>2. QED  BY <1>1, VectorInvariance, PTL
===============================================================================
