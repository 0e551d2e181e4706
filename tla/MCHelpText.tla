----------------------------- MODULE MCHelpText -----------------------------
(* TLC instances of HelpText. *)
EXTENDS HelpText

Flag(s, l, desc) ==
    [s |-> s, l |-> l, desc |-> desc, has_default |-> TRUE, default_value |-> "false",
     is_boolean |-> TRUE, positional |-> FALSE]
Number(s, l, desc, default) ==
    [s |-> s, l |-> l, desc |-> desc, has_default |-> TRUE, default_value |-> default,
     is_boolean |-> FALSE, positional |-> FALSE]
Word(l, desc) ==
    [s |-> "", l |-> l, desc |-> desc, has_default |-> FALSE, default_value |-> "",
     is_boolean |-> FALSE, positional |-> TRUE]

\* The options that configuration.cpp:42 declares; the number of processors has
\* as many digits as the maximum and the default that the text names.
OptionsOfProgram(processors) == <<
    Flag("h", "help", <<5, 4>>),
    Flag("v", "version", <<5, 7>>),
    Flag("r", "recursive", <<7, 7, 3, 15>>),
    Flag("o", "overwrite", <<9, 8, 3, 5, 7, 2, 8, 3, 4, 2, 11, 4, 3, 4, 3>>),
    Number("q", "quality", <<3, 7, 5, 2, 3, 11, 8, 7, 1, 9, 3, 1, 9>>, "5"),
    Flag("a", "all", <<3, 2, 7, 3, 6, 3, 4, 5, 4, 3, 9, 5>>),
    Number("t", "threads", <<6, 2, 7, 8, Len(processors) + 1>>, processors),
    Word("directory", <<4, 9, 2, 6, 3, 3, 5>>),
    Word("superfluous", <<>>) >>

MCOwnOptions == {OptionsOfProgram(processors) : processors \in {"0", "4", "16", "65535"}}

\* Names that leave 55 or 44 characters for the description, as those of this
\* program and as names longer than OPTION_LONGEST; words much shorter than a
\* line, and as long as a line or one more or less.
Descriptions(width) == UNION {[1..n -> {1, 27, width, width + 1, width + 2}] : n \in 1..4}

MCOptionLists == MCOwnOptions
    \cup {<<Number("q", "quality", desc, "5")>> : desc \in Descriptions(55)}
    \cup {<<Flag("h", "help", <<5, 4>>), Flag("", "with-the-longest-name-of-all", desc)>> :
            desc \in Descriptions(44)}
=============================================================================
