----------------------------- MODULE OptionParser -----------------------------
(***************************************************************************)
(* The option parser of optionparser.h, as aucont uses it: POSIX order, no *)
(* abbreviations, no long options with a single minus, a buffer taken to   *)
(* be large enough.  The vector is passed over twice: Stats counts the     *)
(* options, the caller makes arrays of that size, and Parser stores the    *)
(* options there, each also in the list of its index.                      *)
(***************************************************************************)
EXTENDS Arguments

CONSTANT MaxOptions      \* 0x7fffffff, the most options that are counted

ASSUME MaxOptionsAssumption == MaxOptions \in Nat \ {0}

VARIABLES usage,         \* the descriptors: [index, short, long, check]
          argv,
          pass,          \* "count", "store" or "finished"
          cursor,        \* args and param: where in the vector the pass is
          buffer_max,
          op_count,
          cell,          \* the used elements of the arrays options and buffer
          nonop_count, nonop_args,
          err,
          messages,      \* how many error messages were printed
          log            \* (auxiliary) the pass that counts: its places, and
                         \* what it had counted there

parserVars == <<usage, argv, pass, cursor, buffer_max, op_count, cell,
                nonop_count, nonop_args, err, messages, log>>

(***************************************************************************)
(* A pointer into the vector is <<i, k>>: the word argv[i] (k = 0), or its *)
(* rest at the place k.                                                    *)
(***************************************************************************)
NULL == <<0, 0>>
TextAt(p) == IF p[2] = 0 THEN argv[p[1]] ELSE Shape[argv[p[1]]].rest[p[2]]

Is(c, kinds) == c[1] \in DOMAIN argv /\ Shape[argv[c[1]]].kind \in kinds

\* The first non-option argument, or "--", or the end of the vector.
Stopped(c) == c[2] = 0 /\ ~Is(c, {"long", "group"})

\* At an option; not at the head of a group of short ones, or behind its last.
AtOption(c) ==
    Is(c, {"long", "group"}) /\ c[2] \in DOMAIN Shape[argv[c[1]]].option

streq(longopt, name) == longopt = name
instr(ch, shortopt) == ch \in shortopt

Matches(c, d) ==
    LET name == Shape[argv[c[1]]].option[c[2]]
    IN  IF Is(c, {"long"}) THEN streq(d.long, name) ELSE instr(name, d.short)

IsDummy(d) == d.short = {} /\ d.long = ""

Least(S) == CHOOSE i \in S : \A j \in S : i <= j

\* The descriptor of the option: the first one that matches, else the first
\* dummy, else 0.
Descriptor(c) ==
    LET named == {i \in DOMAIN usage : Matches(c, usage[i])}
        dummies == {i \in DOMAIN usage : IsDummy(usage[i])}
    IN  IF named # {} THEN Least(named)
        ELSE IF dummies # {} THEN Least(dummies) ELSE 0

\* optarg: attached, or the next word.
Optarg(c) ==
    IF c[2] + 1 \in DOMAIN Shape[argv[c[1]]].rest THEN <<c[1], c[2] + 1>>
    ELSE IF c[1] < Len(argv) THEN <<c[1] + 1, 0>> ELSE NULL

\* check_arg
Status(c) ==
    LET check == usage[Descriptor(c)].check
    IN  IF check = "None" THEN "ARG_NONE"
        ELSE IF Optarg(c) # NULL /\ Accepts(check, TextAt(Optarg(c))) THEN "ARG_OK"
        ELSE "ARG_ILLEGAL"

Described(c) == AtOption(c) /\ Descriptor(c) # 0
Rejected(c) == Described(c) /\ Status(c) = "ARG_ILLEGAL"
Parsed(c) == Described(c) /\ Status(c) # "ARG_ILLEGAL"

\* Mutant: an argument that is a word of its own is not skipped.
OnwardUnskipped(c) ==
    IF Parsed(c) /\ Status(c) = "ARG_OK" THEN <<c[1] + 1, 0>>
    ELSE IF Is(c, {"group"}) /\ (c[2] = 0 \/ AtOption(c)) THEN <<c[1], c[2] + 1>>
    ELSE <<c[1] + 1, 0>>

\* Where the pass goes on.  An argument ends a group, and is skipped when it is
\* a word of its own.
Onward(c) ==
    IF Parsed(c) /\ Status(c) = "ARG_OK"
    THEN <<IF Optarg(c)[2] = 0 THEN c[1] + 2 ELSE c[1] + 1, 0>>
    ELSE IF Is(c, {"group"}) /\ (c[2] = 0 \/ AtOption(c)) THEN <<c[1], c[2] + 1>>
    ELSE <<c[1] + 1, 0>>

-----------------------------------------------------------------------------
(***************************************************************************)
(* Options.  An element of an array is <<"options", index>> or             *)
(* <<"buffer", i>>; the ones with a desc are in the domain of cell.  The   *)
(* pointers to the neighbours are tagged at the ends of a list, where they *)
(* lead around it.                                                         *)
(***************************************************************************)
Tag(c) == <<TRUE, c>>
Plain(c) == <<FALSE, c>>
isFirst(c) == cell[c].prev[1]
isLast(c) == cell[c].next[1]
NIL == <<"null", 0>>
next(c) == IF isLast(c) THEN NIL ELSE cell[c].next[2]

\* The fields of an element.
Elements == [desc : DOMAIN usage, name : (Nat \ {0}) \X Nat, arg : Nat \X Nat,
             prev : BOOLEAN \X DOMAIN cell, next : BOOLEAN \X DOMAIN cell]

\* init, for the element c.
Option(c, desc, name, arg) ==
    [desc |-> desc, name |-> name, arg |-> arg, prev |-> Tag(c), next |-> Tag(c)]

First(c) ==
    LET first[p \in DOMAIN cell] == IF isFirst(p) THEN p ELSE first[cell[p].prev[2]]
    IN  IF isFirst(c) THEN c ELSE first[cell[c].prev[2]]

\* Mutant: the first option is taken for the last.
AppendedToFirst(c, o, new) ==
    LET f == First(c)
    IN  [x \in DOMAIN cell \cup {new} |->
           IF x = new THEN [o EXCEPT !.prev = Plain(f), !.next = Tag(f)]
           ELSE [cell[x] EXCEPT !.next = IF x = f THEN Plain(new) ELSE @,
                                !.prev = IF x = f THEN Tag(new) ELSE @]]

\* append, of a new element new that holds o, to the list of c.
Appended(c, o, new) ==
    LET f == First(c)
        p == cell[f].prev[2]
    IN  [x \in DOMAIN cell \cup {new} |->
           IF x = new THEN [o EXCEPT !.prev = Plain(p), !.next = Tag(f)]
           ELSE [cell[x] EXCEPT !.next = IF x = p THEN Plain(new) ELSE @,
                                !.prev = IF x = f THEN Tag(new) ELSE @]]

-----------------------------------------------------------------------------
ParserInit ==
    /\ pass = "count" /\ cursor = <<1, 0>>
    /\ buffer_max = 1 /\ op_count = 0
    /\ cell = <<>>
    /\ nonop_count = 0 /\ nonop_args = 0
    /\ err = FALSE /\ messages = 0
    /\ log = <<[at |-> <<1, 0>>, n |-> 1]>>

Log == log' = IF pass = "count" THEN Append(log, [at |-> cursor', n |-> buffer_max'])
              ELSE log

\* Mutant: the loop over a group does not end.
SkipSpins ==
    /\ pass # "finished"
    /\ ~Stopped(cursor) /\ ~Described(cursor)
    /\ UNCHANGED <<usage, argv, pass, buffer_max, op_count, cell, nonop_count,
                   nonop_args, err, messages>>
    /\ IF cursor[2] = 0 \/ AtOption(cursor) THEN cursor' = Onward(cursor) /\ Log
       ELSE UNCHANGED <<cursor, log>>

\* Neither pass does anything at the head of a group, at its end, or for an
\* option without a descriptor.
Skip ==
    /\ pass # "finished"
    /\ ~Stopped(cursor) /\ ~Described(cursor)
    /\ cursor' = Onward(cursor)
    /\ UNCHANGED <<usage, argv, pass, buffer_max, op_count, cell, nonop_count,
                   nonop_args, err, messages>>
    /\ Log

\* Mutant: an unknown option is not counted.
CountKnown ==
    /\ pass = "count" /\ Parsed(cursor) /\ buffer_max < MaxOptions
    /\ buffer_max' = IF Descriptor(cursor) = 1 THEN buffer_max ELSE buffer_max + 1
    /\ cursor' = Onward(cursor)
    /\ UNCHANGED <<usage, argv, pass, op_count, cell, nonop_count, nonop_args, err,
                   messages>>
    /\ Log

\* Mutant: the count does not stop at its maximum.
CountOn ==
    /\ pass = "count" /\ Parsed(cursor) /\ buffer_max <= MaxOptions
    /\ buffer_max' = buffer_max + 1
    /\ cursor' = Onward(cursor)
    /\ UNCHANGED <<usage, argv, pass, op_count, cell, nonop_count, nonop_args, err,
                   messages>>
    /\ Log

\* CountOptionsAction::perform
Count ==
    /\ pass = "count" /\ Parsed(cursor) /\ buffer_max < MaxOptions
    /\ buffer_max' = buffer_max + 1
    /\ cursor' = Onward(cursor)
    /\ UNCHANGED <<usage, argv, pass, op_count, cell, nonop_count, nonop_args, err,
                   messages>>
    /\ Log

\* Mutant: the count prints errors, too.
CountedPrints ==
    /\ pass = "count"
    /\ \/ Stopped(cursor)
       \/ Rejected(cursor)
       \/ (Parsed(cursor) /\ buffer_max = MaxOptions)
    /\ pass' = "store" /\ cursor' = <<1, 0>>
    /\ messages' = IF Rejected(cursor) THEN messages + 1 ELSE messages
    /\ UNCHANGED <<usage, argv, buffer_max, op_count, cell, nonop_count, nonop_args,
                   err, log>>

\* The count ends, whatever the reason; the caller makes the arrays, and parse
\* begins.
Counted ==
    /\ pass = "count"
    /\ \/ Stopped(cursor)
       \/ Rejected(cursor)
       \/ (Parsed(cursor) /\ buffer_max = MaxOptions)
    /\ pass' = "store" /\ cursor' = <<1, 0>>
    /\ UNCHANGED <<usage, argv, buffer_max, op_count, cell, nonop_count, nonop_args,
                   err, messages, log>>

\* StoreOptionAction::perform
Store ==
    LET desc == Descriptor(cursor)
        new == <<"buffer", op_count>>
        head == <<"options", usage[desc].index>>
        arg == IF Status(cursor) = "ARG_OK" THEN Optarg(cursor) ELSE NULL
        o(c) == Option(c, desc, cursor, arg)
    IN  /\ pass = "store" /\ Parsed(cursor) /\ op_count < MaxOptions
        /\ cell' = IF head \in DOMAIN cell THEN Appended(head, o(new), new)
                   ELSE [x \in DOMAIN cell \cup {new, head} |->
                           IF x \in {new, head} THEN o(x) ELSE cell[x]]
        /\ op_count' = op_count + 1
        /\ cursor' = Onward(cursor)
        /\ UNCHANGED <<usage, argv, pass, buffer_max, nonop_count, nonop_args, err,
                       messages, log>>

\* The parse is given up; check_arg has said why.
Abort ==
    /\ pass = "store"
    /\ Rejected(cursor) \/ (Parsed(cursor) /\ op_count = MaxOptions)
    /\ pass' = "finished" /\ err' = TRUE
    /\ messages' = IF Rejected(cursor) THEN messages + 1 ELSE messages
    /\ UNCHANGED <<usage, argv, cursor, buffer_max, op_count, cell, nonop_count,
                   nonop_args, log>>

\* Mutant: the arguments are counted from the one behind the first.
FinishShort ==
    LET args == IF Is(cursor, {"end"}) THEN cursor[1] + 1 ELSE cursor[1]
        numargs == Len(argv) - args
    IN  /\ pass = "store" /\ Stopped(cursor)
        /\ pass' = "finished"
        /\ nonop_count' = IF numargs > 0 THEN numargs ELSE nonop_count
        /\ nonop_args' = IF numargs > 0 THEN args ELSE nonop_args
        /\ UNCHANGED <<usage, argv, cursor, buffer_max, op_count, cell, err, messages,
                       log>>

\* StoreOptionAction::finished; a "--" is skipped.
Finish ==
    LET args == IF Is(cursor, {"end"}) THEN cursor[1] + 1 ELSE cursor[1]
        numargs == Len(argv) + 1 - args
    IN  /\ pass = "store" /\ Stopped(cursor)
        /\ pass' = "finished"
        /\ nonop_count' = IF numargs > 0 THEN numargs ELSE nonop_count
        /\ nonop_args' = IF numargs > 0 THEN args ELSE nonop_args
        /\ UNCHANGED <<usage, argv, cursor, buffer_max, op_count, cell, err, messages,
                       log>>

ParserNext == Skip \/ Count \/ Counted \/ Store \/ Abort \/ Finish

-----------------------------------------------------------------------------
(***************************************************************************)
(* Properties.                                                             *)
(***************************************************************************)
\* The values of the variables.
TypeOK ==
    /\ pass \in {"count", "store", "finished"}
    /\ cursor \in (Nat \ {0}) \X Nat
    /\ buffer_max \in 1..MaxOptions /\ op_count \in 0..MaxOptions
    /\ DOMAIN cell \subseteq {"options", "buffer"} \X Nat
    /\ \A c \in DOMAIN cell : cell[c] \in Elements
    /\ nonop_count \in Nat /\ nonop_args \in Nat
    /\ err \in BOOLEAN /\ messages \in Nat

\* Parser writes only to elements of the arrays: the buffer is as large as Stats
\* found in a pass of its own, and its last element stays free as a sentinel
\* (optionparser.h:919), unless there are more options than are counted;
\* options has an element for every index of the descriptors, and one more.
BufferFits ==
    /\ op_count < buffer_max \/ op_count = MaxOptions
    /\ op_count <= buffer_max
    /\ \A c \in DOMAIN cell :
          IF c[1] = "buffer" THEN c[2] < op_count
          ELSE \E i \in DOMAIN usage : c[2] = usage[i].index
===============================================================================
