------------------------------- MODULE Arguments -------------------------------
(***************************************************************************)
(* The words of a command line, and the strings an option's argument can   *)
(* be: what aucont's option checks and conversions make of them.           *)
(***************************************************************************)
EXTENDS Integers, Sequences

CONSTANTS Words,     \* the elements of an argument vector
          Texts,     \* the words, and the strings that are the rest of one
          Shape,     \* what the option parser sees in a word (below)
          Number,    \* the long that strtol makes of a whole text, or None
          Address,   \* the address inet_pton makes of it, or None
          None,
          INT,       \* the number of values of an int
          IPV4       \* the number of addresses

(***************************************************************************)
(* A word is "plain" ("-" alone is), the "end" of the options ("--"), one  *)
(* "long" option or a "group" of short ones.  option[k] is the name of the *)
(* k-th option of a group, option[0] the one of a long option.  rest[k] is *)
(* the text at a place k inside the word where an attached argument can    *)
(* begin: after the '=' of a long option (k = 1), at the k-th option of a  *)
(* group for the one before it.                                            *)
(***************************************************************************)
Kinds == {"plain", "end", "long", "group"}

ASSUME WordsAssumption ==
    /\ Words \subseteq Texts
    /\ DOMAIN Shape = Words
    /\ \A w \in Words :
          /\ Shape[w].kind \in Kinds
          /\ Shape[w].kind = "long" =>
                DOMAIN Shape[w].option = {0} /\ DOMAIN Shape[w].rest \in {{}, {1}}
          /\ Shape[w].kind = "group" =>
                /\ Shape[w].option \in Seq(STRING) \ {<<>>}
                /\ DOMAIN Shape[w].rest = 2..Len(Shape[w].option)
          /\ \A k \in DOMAIN Shape[w].rest : Shape[w].rest[k] \in Texts

ASSUME ValuesAssumption ==
    /\ INT \in Nat \ {0} /\ IPV4 \in Nat \ {0}
    /\ Number \in [Texts -> Int \cup {None}] /\ None \notin Int
    /\ Address \in [Texts -> 0..(IPV4 - 1) \cup {None}]

\* A long assigned to an int.
ToInt(v) == ((v + (INT \div 2)) % INT) - (INT \div 2)

\* Mutants: no lower bound; the last address is let through.
PercentUpper(t) == Number[t] # None /\ ToInt(Number[t]) <= 100
IpAny(t) == Address[t] # None

\* percent and ip, of an argument that is there.
Percent(t) == Number[t] # None /\ ToInt(Number[t]) \in 0..100
Ip(t) == Address[t] # None /\ Address[t] # IPV4 - 1

\* Does a check other than Arg::None take the text for an argument?
Accepts(check, t) == IF check = "percent" THEN Percent(t) ELSE Ip(t)
===============================================================================
