------------------------------ MODULE CommandLine ------------------------------
(***************************************************************************)
(* main: aucont's command is looked up, the words after it are parsed by   *)
(* the descriptors of the command, unknown options are reported, and the   *)
(* arguments of aucont_start, _stop, _list or _exec are made of the rest.  *)
(***************************************************************************)
EXTENDS OptionParser, FiniteSets

CONSTANTS MaxArgs,       \* bound: the words after the command
          SIGTERM

ASSUME CommandLineAssumption ==
    /\ MaxArgs \in Nat
    /\ SIGTERM \in Nat
    /\ INT > 200         \* an int can hold a percentage

VARIABLES command,       \* argv[1] of main, or "" if there is none
          place,         \* where the program is
          opt,           \* the unknown option that is reported next, or NIL
          reported,      \* the options that were
          outcome,       \* what main has returned
          call           \* the arguments of the call

vars == <<parserVars, command, place, opt, reported, outcome, call>>

-----------------------------------------------------------------------------
(***************************************************************************)
(* The descriptors.                                                        *)
(***************************************************************************)
UNKNOWN == 0
HELP == 1
DEBUG == 2
DAEMONIZE == 3
CPU_PERC == 4
NET == 5

Desc(index, short, long, check) ==
    [index |-> index, short |-> short, long |-> long, check |-> check]

listUsage == <<Desc(UNKNOWN, {}, "", "None"), Desc(HELP, {"h"}, "help", "None")>>

stopUsage == <<Desc(UNKNOWN, {}, "", "None"), Desc(HELP, {"h"}, "help", "None"),
               Desc(DEBUG, {}, "debug", "None"), Desc(UNKNOWN, {}, "", "None")>>

execUsage == stopUsage

startUsage == <<Desc(UNKNOWN, {}, "", "None"), Desc(HELP, {"h"}, "help", "None"),
                Desc(DEBUG, {}, "debug", "None"),
                Desc(DAEMONIZE, {"d"}, "daemonize", "None"),
                Desc(CPU_PERC, {}, "cpu", "percent"), Desc(NET, {}, "net", "ip")>>

Usage == [start |-> startUsage, stop |-> stopUsage, list |-> listUsage,
          exec |-> execUsage]

\* Mutant: the command's name alone is enough for start.
NeededLess == [start |-> 1, stop |-> 1, list |-> 0, exec |-> 1]

\* The fewest non-option arguments a command does not answer with its usage.
Needed == [start |-> 2, stop |-> 1, list |-> 0, exec |-> 1]

INVALID_ARGS_ERROR == -1
PARSE_OPTIONS_ERROR == -2
PARSE_ARG_ERROR == -3

-----------------------------------------------------------------------------
(***************************************************************************)
(* main.                                                                   *)
(***************************************************************************)
NoCall == [to |-> "none"]

Init ==
    /\ command \in DOMAIN Usage \cup {"", "other"}
    /\ usage = IF command \in DOMAIN Usage THEN Usage[command] ELSE <<>>
    /\ argv \in UNION {[1..n -> Words] : n \in 0..MaxArgs}
    /\ ParserInit
    /\ place = "main" /\ opt = NIL /\ reported = <<>>
    /\ outcome = 0 /\ call = NoCall

Return(code) == place' = "returned" /\ outcome' = code

Main ==
    /\ place = "main"
    /\ IF command \in DOMAIN Usage THEN place' = "parse" /\ UNCHANGED outcome
       ELSE Return(INVALID_ARGS_ERROR)
    /\ UNCHANGED <<parserVars, command, opt, reported, call>>

Parse ==
    /\ place = "parse"
    /\ ParserNext
    /\ UNCHANGED <<command, place, opt, reported, outcome, call>>

\* operator Option*: an unused element is a null pointer.
Given(index) == <<"options", index>> \in DOMAIN cell
Options(index) == IF Given(index) THEN <<"options", index>> ELSE NIL

ParseError ==
    /\ place = "parse" /\ pass = "finished"
    /\ err
    /\ Return(PARSE_OPTIONS_ERROR)
    /\ UNCHANGED <<parserVars, command, opt, reported, call>>

\* The usage is printed.
Help ==
    /\ place = "parse" /\ pass = "finished"
    /\ ~err
    /\ Given(HELP) \/ nonop_count < Needed[command]
    /\ Return(0)
    /\ UNCHANGED <<parserVars, command, opt, reported, call>>

Accepted ==
    /\ place = "parse" /\ pass = "finished"
    /\ ~err
    /\ ~Given(HELP) /\ nonop_count >= Needed[command]
    /\ place' = "report" /\ opt' = Options(UNKNOWN)
    /\ UNCHANGED <<parserVars, command, reported, outcome, call>>

\* Mutant: prev is followed.
ReportBackwards ==
    /\ place = "report" /\ opt # NIL
    /\ reported' = Append(reported, cell[opt].name)
    /\ opt' = IF isFirst(opt) THEN NIL ELSE cell[opt].prev[2]
    /\ UNCHANGED <<parserVars, command, place, outcome, call>>

\* "Unknown option: "
Report ==
    /\ place = "report" /\ opt # NIL
    /\ reported' = Append(reported, cell[opt].name)
    /\ opt' = next(opt)
    /\ UNCHANGED <<parserVars, command, place, outcome, call>>

-----------------------------------------------------------------------------
(***************************************************************************)
(* The calls.  A pointer to a word, or a vector of them, is its place; the *)
(* word behind the last is null.                                           *)
(***************************************************************************)
NonOption(i) == nonop_args + i
IsNull(i) == NonOption(i) = Len(argv) + 1
NumberOf(i) == Number[argv[NonOption(i)]]

Called(c) == place' = "called" /\ call' = c /\ UNCHANGED outcome

\* The same for a call that takes a string, which is made of a pointer.
CalledWith(i, c) ==
    IF IsNull(i) THEN place' = "crashed" /\ UNCHANGED <<outcome, call>> ELSE Called(c)

Ready(c) ==
    /\ place = "report" /\ opt = NIL
    /\ command = c
    /\ UNCHANGED <<parserVars, command, opt, reported>>

\* The argument of the first option of an index.
ArgOf(index) == TextAt(cell[<<"options", index>>].arg)

Start ==
    LET ip == IF Given(NET) THEN Address[ArgOf(NET)] ELSE None
    IN  /\ Ready("start")
        /\ CalledWith(1, [to |-> "aucont_start",
                   image_path |-> NonOption(0), cmd |-> NonOption(1),
                   cmd_args |-> nonop_args + 1, cmd_args_count |-> nonop_count - 2,
                   cpu_limit |-> IF Given(CPU_PERC) THEN ToInt(Number[ArgOf(CPU_PERC)])
                                 ELSE 100,
                   cont_ip |-> ip,
                   host_ip |-> IF Given(NET) THEN (ip + 1) % IPV4 ELSE None,
                   net_enabled |-> Given(NET), daemonize |-> Given(DAEMONIZE),
                   debug_enabled |-> Given(DEBUG)])

NotNumeric(i) ==
    /\ NumberOf(i) = None
    /\ Return(PARSE_ARG_ERROR)
    /\ UNCHANGED call

Stop ==
    /\ Ready("stop")
    /\ \/ NotNumeric(0)
       \/ NumberOf(0) # None /\ nonop_count >= 2 /\ NotNumeric(1)
       \/ /\ NumberOf(0) # None
          /\ nonop_count >= 2 => NumberOf(1) # None
          /\ Called([to |-> "aucont_stop", pid |-> ToInt(NumberOf(0)),
                     signal |-> IF nonop_count >= 2 THEN ToInt(NumberOf(1))
                                ELSE SIGTERM,
                     debug_enabled |-> Given(DEBUG)])

List == Ready("list") /\ Called([to |-> "aucont_list"])

Exec ==
    /\ Ready("exec")
    /\ \/ NotNumeric(0)
       \/ /\ NumberOf(0) # None
          /\ CalledWith(1, [to |-> "aucont_exec", pid |-> ToInt(NumberOf(0)),
                     cmd |-> NonOption(1), cmd_args |-> nonop_args + 1,
                     cmd_args_count |-> nonop_count - 2,
                     debug_enabled |-> Given(DEBUG)])

Ended == place \in {"returned", "called", "crashed"}
Done == Ended /\ UNCHANGED vars

Next ==
    \/ Main \/ Parse \/ ParseError \/ Help \/ Accepted \/ Report
    \/ Start \/ Stop \/ List \/ Exec
    \/ Done

Spec == Init /\ [][Next]_vars
FairSpec == Spec /\ WF_vars(Next)

-----------------------------------------------------------------------------
(***************************************************************************)
(* Properties.                                                             *)
(***************************************************************************)
\* The j-th option that was parsed.
Stored(j) == cell[<<"buffer", j - 1>>]
Content(o) == <<o.desc, o.name, o.arg>>
IndexOf(j) == usage[Stored(j).desc].index

\* The element of the j-th option in the list of its index.
ElementOf(j) ==
    IF \E k \in 1..(j - 1) : IndexOf(k) = IndexOf(j) THEN <<"buffer", j - 1>>
    ELSE <<"options", IndexOf(j)>>

\* The k-th option is the next of its index behind the j-th; there is none.
Behind(j, k) ==
    /\ j < k /\ IndexOf(k) = IndexOf(j)
    /\ \A l \in (j + 1)..(k - 1) : IndexOf(l) # IndexOf(j)
NoneBehind(j) == \A l \in (j + 1)..op_count : IndexOf(l) # IndexOf(j)

\* However the options of different indices are mixed, the list that begins at
\* options[i], as a caller sees it that follows next, has the options of index i
\* and no others, each once, in the order of the command line, whose first is
\* therefore the one that counts; and prev leads back.
ListsInOrder ==
    /\ \A i \in {usage[d].index : d \in DOMAIN usage} :
          Given(i) <=> \E j \in 1..op_count : IndexOf(j) = i
    /\ \A j \in 1..op_count :
          /\ Content(cell[ElementOf(j)]) = Content(Stored(j))
          /\ isFirst(ElementOf(j)) <=> ElementOf(j)[1] = "options"
          /\ \/ NoneBehind(j) /\ next(ElementOf(j)) = NIL
             \/ \E k \in 1..op_count :
                   /\ Behind(j, k) /\ next(ElementOf(j)) = ElementOf(k)
                   /\ cell[ElementOf(k)].prev = Plain(ElementOf(j))

\* Words that are arguments of options, words with options, and the rest.
Separate == {Stored(j).arg[1] : j \in {k \in 1..op_count : Stored(k).arg[2] = 0}} \ {0}
OptionWords == {Stored(j).name[1] : j \in 1..op_count}
ArgumentWords == {i \in DOMAIN argv : nonop_count > 0 /\ i >= nonop_args}

\* When a parse has succeeded every word of the vector has one part: it has
\* options, or is the argument of the option before it, or is among the
\* non-option arguments that the command gets, all but one "--".  Those begin
\* with a word that is no option, or behind the "--".
EveryWordOnePart ==
    place \notin {"main", "parse"} /\ command \in DOMAIN Usage /\ ~err =>
        LET parts == <<OptionWords, Separate, ArgumentWords>>
            rest == DOMAIN argv \ (OptionWords \cup Separate \cup ArgumentWords)
        IN  /\ \A i, j \in 1..3 : i < j => parts[i] \cap parts[j] = {}
            /\ \A i \in rest : Is(<<i, 0>>, {"end"}) /\ \A j \in rest : j = i
            /\ \A i \in Separate : i - 1 \in OptionWords
            /\ ArgumentWords # {} /\ Is(<<nonop_args, 0>>, Kinds \ {"plain"}) =>
                  nonop_args - 1 \in rest

\* A command that fails on its options has said why, once, though the vector
\* is passed over twice; no other command has printed such a message.
OneMessage ==
    /\ messages <= 1
    /\ Ended /\ messages = 1 => outcome = PARSE_OPTIONS_ERROR
    /\ outcome = PARSE_OPTIONS_ERROR => messages = 1 \/ op_count = MaxOptions

\* The options without a descriptor of their own, and those of them before the
\* j-th option.
Unknown == {j \in 1..op_count : IndexOf(j) = UNKNOWN}
UnknownBefore(j) == {k \in Unknown : k < j}

\* Before a command gives up for another reason, or is called, each unknown
\* option was reported, in order; the loop never goes around the list.
UnknownReported ==
    /\ Len(reported) <= Cardinality(Unknown)
    /\ \A j \in Unknown :
          LET rank == Cardinality(UnknownBefore(j)) + 1
          IN  rank <= Len(reported) => reported[rank] = Stored(j).name
    /\ place \in {"called", "crashed"} \/ outcome = PARSE_ARG_ERROR =>
          Len(reported) = Cardinality(Unknown)

\* The limit that is called with is a percentage, though numbers are checked
\* and converted with less than the width they are read with.
LimitInRange ==
    call.to = "aucont_start" => call.cpu_limit \in 0..100

\* The host's address is the one after the container's, and not the first.
HostIsNext ==
    call.to = "aucont_start" /\ call.net_enabled =>
        /\ call.cont_ip \in 0..(IPV4 - 2)
        /\ call.host_ip = call.cont_ip + 1

\* What is executed is the command and all that follows it, to the null word
\* that ends main's own vector; the count is of what follows.
CommandWhole ==
    call.to \in {"aucont_start", "aucont_exec"} =>
        /\ call.cmd \in DOMAIN argv
        /\ call.cmd_args = call.cmd
        /\ call.cmd_args_count = Len(argv) - call.cmd

\* A null string is used by exec alone, given a pid and no command.
NullOnlyInExec ==
    place = "crashed" => command = "exec" /\ nonop_count = 1

\* Both passes over the vector and the loop over a list end.
Ends == <>Ended
===============================================================================
