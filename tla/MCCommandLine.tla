----------------------------- MODULE MCCommandLine -----------------------------
(***************************************************************************)
(* Command lines of up to MaxArgs words.  An int has 8 bits, and there are *)
(* 16 addresses.                                                           *)
(***************************************************************************)
EXTENDS CommandLine, TLC

Plain0 == [kind |-> "plain", option |-> <<>>, rest |-> <<>>]
Long(name) == [kind |-> "long", option |-> 0 :> name, rest |-> <<>>]
LongWith(name, text) == [kind |-> "long", option |-> 0 :> name, rest |-> <<text>>]

MCShape ==
    "img" :> Plain0 @@ "7" :> Plain0
    @@ "--" :> [Plain0 EXCEPT !.kind = "end"]
    @@ "-h" :> [kind |-> "group", option |-> <<"h">>, rest |-> <<>>]
    @@ "-dx" :> [kind |-> "group", option |-> <<"d", "x">>, rest |-> 2 :> "x"]
    @@ "--debug" :> Long("debug") @@ "--cpu" :> Long("cpu")
    @@ "--help=7" :> LongWith("help", "7") @@ "--=x" :> LongWith("", "x")
    @@ "--cpu=200" :> LongWith("cpu", "200") @@ "--cpu=300" :> LongWith("cpu", "300")
    @@ "--net=14" :> LongWith("net", "14") @@ "--net=15" :> LongWith("net", "15")

MCWords == DOMAIN MCShape
MCTexts == MCWords \cup {"x", "14", "15", "200", "300"}

MCNumber ==
    [t \in MCTexts |->
       CASE t = "7" -> 7 [] t = "14" -> 14 [] t = "15" -> 15 [] t = "200" -> 200
         [] t = "300" -> 300 [] OTHER -> None]

MCAddress == [t \in MCTexts |-> CASE t = "14" -> 14 [] t = "15" -> 15 [] OTHER -> None]
===============================================================================
