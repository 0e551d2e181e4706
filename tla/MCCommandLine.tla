--------------------------- MODULE MCCommandLine ----------------------------
(***************************************************************************)
(* TLC instances of CommandLine: texts, and arguments made of them.        *)
(***************************************************************************)
EXTENDS CommandLine

\* "99999" wraps to 34463 in 16 bits unnoticed; "65538" would be 2 threads, and
\* "1048581" in the 20 bits of an int the quality 5, which is noticed.
MCTexts == {"dir", "sub,dir", "", "0", "5", "12", "99999", "65538", "1048581", "-5", "true", "false", "-"}

MCNumberIn(t) ==
    CASE t = "0"     -> [negative |-> FALSE, chars |-> <<0>>]
      [] t = "5"     -> [negative |-> FALSE, chars |-> <<5>>]
      [] t = "-5"    -> [negative |-> TRUE, chars |-> <<5>>]
      [] t = "12"    -> [negative |-> FALSE, chars |-> <<1, 2>>]
      [] t = "99999" -> [negative |-> FALSE, chars |-> <<9, 9, 9, 9, 9>>]
      [] t = "65538" -> [negative |-> FALSE, chars |-> <<6, 5, 5, 3, 8>>]
      [] t = "1048581" -> [negative |-> FALSE, chars |-> <<1, 0, 4, 8, 5, 8, 1>>]
      [] t = "true"  -> [negative |-> FALSE, chars |-> <<29, 27, 30, 14>>]
      [] OTHER       -> AsInt!NoMatch

MCTruthIn(t) ==
    CASE t = "true" -> "true"
      [] t \in {"false", "0"} -> "false"
      [] OTHER -> "neither"

MCTokensIn(t) == CASE t = "" -> 0 [] t = "sub,dir" -> 2 [] OTHER -> 1

Argument(kind, names, text, value) ==
    [kind |-> kind, names |-> names, text |-> text, value |-> value]
Word(t) == Argument("word", <<>>, t, "")

\* "-5" is a cluster, and a number when it is taken for a value; so is "-".
Cluster(names) == Argument("cluster", names, "-", "")
Long(name) == Argument("long", <<name>>, "-", "")
Assigned(name, value) == Argument("assigned", <<name>>, "-", value)

MCArguments ==
    {Word(t) : t \in {"dir", "", "0", "5", "99999", "65538", "1048581", "-"}}
    \cup {Cluster(n) : n \in {<<"r">>, <<"h">>, <<"q">>, <<"t">>, <<"o", "q">>, <<"q", "a">>,
                               <<"r", "a", "q">>, <<"o", "t", "v">>}}
    \cup {Long(n) : n \in {"quality", "overwrite", "directory", "no-such-option"}}
    \cup {Assigned("quality", "12"), Assigned("quality", ""), Assigned("recursive", "false"),
          Assigned("directory", "sub,dir"), Assigned("version", "false"), Assigned("all", "dir")}
    \cup {Argument("terminator", <<>>, "-", ""), Argument("malformed", <<>>, "-", ""),
          Argument("cluster", <<"5">>, "-5", "")}
=============================================================================
