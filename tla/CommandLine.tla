---------------------------- MODULE CommandLine -----------------------------
(***************************************************************************)
(* Configuration::parse_arguments() of configuration.cpp, with the parser  *)
(* of cxxopts.hpp that it uses: from the arguments of the program to the   *)
(* configuration, or to the reason why nothing is converted.               *)
(*                                                                         *)
(* An argument is what the regular expression option_matcher makes of it:  *)
(*   word        does not start with "-", or is "-"                        *)
(*   terminator  "--"                                                      *)
(*   cluster     "-rq": the names of one letter each                       *)
(*   long        "--quality"                                               *)
(*   assigned    "--quality=5": value is the text behind the "="           *)
(*   malformed   starts with "-", but matches nothing                      *)
(* and its whole text, which may become the value of the option before it. *)
(* A text is a name for what the parsers of the values make of it.         *)
(*                                                                         *)
(* An exception of cxxopts ends parse(), and parse_arguments() catches it: *)
(* each kind of OptionParseException is a phase of its own.                *)
(***************************************************************************)
EXTENDS Integers, Sequences, FiniteSetsExt

CONSTANTS
    Texts,
    NumberIn(_),    \* the text as IntegerText has it
    TruthIn(_),     \* "true", "false" or "neither": truthy_pattern, falsy_pattern
    TokensIn(_),    \* the number of parts that commas make of it
    TrueText,       \* "true", the implicit value of a flag
    Arguments,
    MaxArguments,   \* bound: the arguments of the program
    Hardwares,      \* what hardware_concurrency() may return, 0 if it is not known
    IntUS,          \* bound: the values of an unsigned int
    IncorrectType

\* option_matcher: what an argument is
Kinds == {"word", "terminator", "cluster", "long", "assigned", "malformed"}

\* The values of a uint16_t
Uint16Count == 256 * 256

ASSUME ArgumentsAssumption ==
    \A a \in Arguments :
        /\ a.kind \in Kinds /\ a.text \in Texts /\ a.value \in Texts
        /\ a.names \in Seq(STRING)
        /\ a.kind = "cluster" => a.names # <<>>
        /\ a.kind \in {"long", "assigned"} => Len(a.names) = 1

ASSUME CommandLineAssumption ==
    /\ TrueText \in Texts
    /\ \A t \in Texts : TruthIn(t) \in {"true", "false", "neither"} /\ TokensIn(t) \in Nat
    /\ TruthIn(TrueText) = "true"
    /\ MaxArguments \in Nat
    /\ Hardwares \subseteq 0..(Uint16Count - 1)

AsInt == INSTANCE IntegerText WITH US <- IntUS
AsUint16 == INSTANCE IntegerText WITH US <- Uint16Count

ASSUME NumbersAssumption ==
    /\ IntUS \in Nat /\ IntUS >= 256 /\ IncorrectType \notin Int
    /\ \A t \in Texts : NumberIn(t) \in AsInt!IntegerTexts

VARIABLES
    argv,               \* the arguments
    hardware_concurrency,
    phase,              \* how far parse_arguments() is, or how it has ended
    current,            \* the argument that is looked at
    letter,             \* the letter of a cluster that is looked at
    next_positional,    \* m_next_positional
    consume_remaining,
    results,            \* m_results: how often each option was given, so far as it has an entry
    store,              \* the variables that the values are stored in
    return_code

given == <<argv, hardware_concurrency>>
position == <<current, letter, next_positional>>
vars == <<given, phase, position, consume_remaining, results, store, return_code>>

-----------------------------------------------------------------------------
(* The options *)

\* The name that an option does not have
NoName == ""

\* The options that parse_arguments() declares: what option_specifier matches in
\* front of and behind the comma, and the type of the value.
Specifiers == <<
    [short |-> "h", long |-> "help",        type |-> "bool"],
    [short |-> "v", long |-> "version",     type |-> "bool"],
    [short |-> "r", long |-> "recursive",   type |-> "bool"],
    [short |-> "o", long |-> "overwrite",   type |-> "bool"],
    [short |-> "q", long |-> "quality",     type |-> "int"],
    [short |-> "a", long |-> "all",         type |-> "bool"],
    [short |-> "t", long |-> "threads",     type |-> "uint16_t"],
    [short |-> NoName, long |-> "directory",   type |-> "string"],
    [short |-> NoName, long |-> "superfluous", type |-> "vector"] >>

\* No invalid_option_format_error is thrown, which nobody expects, and no option
\* of this program has a letter in place of its long name.
ASSUME SpecifiersAreValid ==
    \A i \in DOMAIN Specifiers :
        /\ <<Specifiers[i].short, Specifiers[i].long>> # <<NoName, NoName>>
        /\ Len(Specifiers[i].long) # 1

\* A single letter is a short name, on whichever side of the comma it stands.
OptionDetails(s) ==
    IF Len(s.long) = 1 THEN [s EXCEPT !.short = s.long, !.long = s.short] ELSE s

Declarations == [i \in DOMAIN Specifiers |-> OptionDetails(Specifiers[i])]

Options == {Declarations[i].long : i \in DOMAIN Declarations}

\* m_options: each name leads to its option.
m_options ==
    [n \in (Options \cup {Declarations[i].short : i \in DOMAIN Declarations}) \ {NoName} |->
        (CHOOSE i \in DOMAIN Declarations : n \in {Declarations[i].short, Declarations[i].long})]

\* Nor does add_one_option() throw option_exists_error.
ASSUME NamesAreUnique ==
    \A i, j \in DOMAIN Declarations :
        i # j => /\ Declarations[i].long # Declarations[j].long
                 /\ Declarations[i].short = Declarations[j].short => Declarations[i].short = NoName

Exists(name) == name \in DOMAIN m_options
OptionNamed(name) == Declarations[m_options[name]].long
TypeOf(o) == Declarations[m_options[o]].type

\* parse_positional(): the options that take the words, in this order.
Positionals == <<"directory", "superfluous">>

IsContainer(o) == TypeOf(o) = "vector"

\* A flag that is given without a value is true, and false if it is not given.
HasImplicit(o) == TypeOf(o) = "bool"

ENCODING_QUALITY == 5

\* The options with a default, which is also what their variable is initialized with.
HasDefault(o) == TypeOf(o) \in {"bool", "int", "uint16_t"}
DefaultValue(o) ==
    CASE TypeOf(o) = "bool" -> FALSE
      [] TypeOf(o) = "int" -> ENCODING_QUALITY
      [] TypeOf(o) = "uint16_t" -> hardware_concurrency

\* The variable of an option, be it one of Configuration or one that the value
\* makes for itself, before the option has been parsed.
Storage(o) ==
    CASE HasDefault(o) -> DefaultValue(o)
      [] o = "directory" -> "."
      [] o = "superfluous" -> 0

-----------------------------------------------------------------------------
(* Values *)

NumberFor(o, t) ==
    CASE TypeOf(o) = "int" -> AsInt!integer_parser(NumberIn(t), TRUE)
      [] TypeOf(o) = "uint16_t" -> AsUint16!integer_parser(NumberIn(t), FALSE)

IsNumeric(o) == TypeOf(o) \in {"int", "uint16_t"}

\* parse_value() does not throw argument_incorrect_type.
Parses(o, t) ==
    /\ TypeOf(o) = "bool" => TruthIn(t) # "neither"
    /\ IsNumeric(o) => NumberFor(o, t) # IncorrectType

\* What the variable of the option is after parse_value().
Parsed(o, t) ==
    CASE TypeOf(o) = "bool" -> TruthIn(t) = "true"
      [] IsNumeric(o) -> NumberFor(o, t)
      [] TypeOf(o) = "string" -> t
      [] TypeOf(o) = "vector" -> store[o] + TokensIn(t)

Count(o) == IF o \in DOMAIN results THEN results[o] ELSE 0

\* m_results[o] makes an entry if there is none.
CountOneMore(o) == [p \in DOMAIN results \cup {o} |-> IF p = o THEN Count(o) + 1 ELSE results[p]]

\* The kinds of OptionParseException that are thrown
Exceptions == {"option_syntax", "option_not_exists", "option_requires_argument",
               "missing_argument", "argument_incorrect_type"}

Throw(exception) == phase' = exception /\ UNCHANGED <<results, store>>

\* Mutant: the value of an option that is given again is dropped.
ParseOnce(o, t) ==
    /\ results' = CountOneMore(o)
    /\ IF Parses(o, t)
       THEN /\ store' = IF Count(o) = 0 THEN [store EXCEPT ![o] = Parsed(o, t)] ELSE store
            /\ UNCHANGED phase
       ELSE phase' = "argument_incorrect_type" /\ UNCHANGED store

\* The use is counted first, then the text is parsed, which may throw.
parse_option(o, t) ==
    /\ results' = CountOneMore(o)
    /\ IF Parses(o, t)
       THEN store' = [store EXCEPT ![o] = Parsed(o, t)] /\ UNCHANGED phase
       ELSE phase' = "argument_incorrect_type" /\ UNCHANGED store

\* Mutant: the last argument is not taken for the value.
ParseArgBeforeLast(o) ==
    \/ /\ HasImplicit(o)
       /\ parse_option(o, TrueText)
       /\ current' = current + 1
    \/ /\ ~HasImplicit(o) /\ current + 1 >= Len(argv)
       /\ Throw("missing_argument")
       /\ UNCHANGED current
    \/ /\ ~HasImplicit(o) /\ current + 1 < Len(argv)
       /\ parse_option(o, argv[current + 1].text)
       /\ current' = current + 2

\* The option stands at the end of its argument: it may take the next one.
checked_parse_arg(o) ==
    \/ /\ HasImplicit(o)
       /\ parse_option(o, TrueText)
       /\ current' = current + 1
    \/ /\ ~HasImplicit(o) /\ current = Len(argv)
       /\ Throw("missing_argument")
       /\ UNCHANGED current
    \/ /\ ~HasImplicit(o) /\ current < Len(argv)
       /\ parse_option(o, argv[current + 1].text)
       /\ current' = current + 2

add_to_option(name, t) ==
    IF Exists(name) THEN parse_option(OptionNamed(name), t) ELSE Throw("option_not_exists")

\* A positional option that is not a container is used once, and not at all
\* when it was given by its name; the last one takes everything else.
consume_positional(t) ==
    LET Free(i) == IsContainer(Positionals[i]) \/ Count(Positionals[i]) = 0
        i == Min({j \in next_positional..Len(Positionals) : Free(j)})
    IN  /\ add_to_option(Positionals[i], t)
        /\ next_positional' = IF IsContainer(Positionals[i]) THEN i ELSE i + 1

-----------------------------------------------------------------------------
(* The arguments *)

SeverestCode(code) == IF code > return_code THEN code ELSE return_code

\* Until the arguments are known to be valid they are held to be invalid.
Begin ==
    /\ phase = "start"
    /\ return_code' = SeverestCode(1)
    /\ phase' = "arguments"
    /\ UNCHANGED <<given, position, consume_remaining, results, store>>

At(kind) ==
    /\ phase = "arguments"
    /\ current <= Len(argv)
    /\ argv[current].kind = kind

\* "--": what follows is consumed after the defaults have been stored.
Terminator ==
    /\ At("terminator")
    /\ consume_remaining' = TRUE
    /\ current' = current + 1
    /\ phase' = "defaults"
    /\ UNCHANGED <<given, letter, next_positional, results, store, return_code>>

EndOfArguments ==
    /\ phase = "arguments"
    /\ current > Len(argv)
    /\ phase' = "defaults"
    /\ UNCHANGED <<given, position, consume_remaining, results, store, return_code>>

Malformed ==
    /\ At("malformed")
    /\ Throw("option_syntax")
    /\ UNCHANGED <<given, position, consume_remaining, return_code>>

Positional ==
    /\ At("word")
    /\ consume_positional(argv[current].text)
    /\ current' = current + 1
    /\ UNCHANGED <<given, letter, consume_remaining, return_code>>

UnknownOption ==
    /\ \/ At("cluster") /\ ~Exists(argv[current].names[letter])
       \/ (At("long") \/ At("assigned")) /\ ~Exists(argv[current].names[1])
    /\ Throw("option_not_exists")
    /\ UNCHANGED <<given, position, consume_remaining, return_code>>

\* A letter of a cluster that is not the last one cannot take an argument.
ShortOption ==
    /\ At("cluster")
    /\ letter < Len(argv[current].names)
    /\ Exists(argv[current].names[letter])
    /\ LET o == OptionNamed(argv[current].names[letter])
       IN  IF HasImplicit(o) THEN parse_option(o, TrueText) ELSE Throw("option_requires_argument")
    /\ letter' = letter + 1
    /\ UNCHANGED <<given, current, next_positional, consume_remaining, return_code>>

LastShortOption ==
    /\ At("cluster")
    /\ letter = Len(argv[current].names)
    /\ Exists(argv[current].names[letter])
    /\ checked_parse_arg(OptionNamed(argv[current].names[letter]))
    /\ letter' = 1
    /\ UNCHANGED <<given, next_positional, consume_remaining, return_code>>

LongOption ==
    /\ At("long")
    /\ Exists(argv[current].names[1])
    /\ checked_parse_arg(OptionNamed(argv[current].names[1]))
    /\ UNCHANGED <<given, letter, next_positional, consume_remaining, return_code>>

AssignedOption ==
    /\ At("assigned")
    /\ Exists(argv[current].names[1])
    /\ parse_option(OptionNamed(argv[current].names[1]), argv[current].value)
    /\ current' = current + 1
    /\ UNCHANGED <<given, letter, next_positional, consume_remaining, return_code>>

\* Mutant: only an option with a default value gets an entry.
ParseDefaultsOnly ==
    /\ phase = "defaults"
    /\ results' = [o \in DOMAIN results \cup {p \in Options : HasDefault(p)} |-> Count(o)]
    /\ store' = [o \in Options |->
                    IF Count(o) = 0 /\ HasDefault(o) THEN DefaultValue(o) ELSE store[o]]
    /\ phase' = IF consume_remaining THEN "remaining" ELSE "parsed"
    /\ UNCHANGED <<given, position, consume_remaining, return_code>>

\* Every option has an entry now, which count() relies on.
ParseDefaults ==
    /\ phase = "defaults"
    /\ results' = [o \in Options |-> Count(o)]
    /\ store' = [o \in Options |->
                    IF Count(o) = 0 /\ HasDefault(o) THEN DefaultValue(o) ELSE store[o]]
    /\ phase' = IF consume_remaining THEN "remaining" ELSE "parsed"
    /\ UNCHANGED <<given, position, consume_remaining, return_code>>

ConsumeRemaining ==
    /\ phase = "remaining"
    /\ current <= Len(argv)
    /\ consume_positional(argv[current].text)
    /\ current' = current + 1
    /\ UNCHANGED <<given, letter, consume_remaining, return_code>>

EndOfRemaining ==
    /\ phase = "remaining"
    /\ current > Len(argv)
    /\ phase' = "parsed"
    /\ UNCHANGED <<given, position, consume_remaining, results, store, return_code>>

Parse ==
    \/ Terminator \/ EndOfArguments \/ Malformed \/ Positional \/ UnknownOption
    \/ ShortOption \/ LastShortOption \/ LongOption \/ AssignedOption
    \/ ParseDefaults \/ ConsumeRemaining \/ EndOfRemaining

-----------------------------------------------------------------------------
(* What the program makes of them *)

\* The first thing that parse_arguments() finds, in its order.
Objection ==
    CASE Count("help") > 0 -> "help"
      [] Count("version") > 0 -> "version"
      [] Count("directory") = 0 -> "no directory"
      [] store["superfluous"] > 0 -> "superfluous"
      [] store["quality"] \notin 0..9 -> "quality"
      [] OTHER -> "none"

\* Neither help nor version lowers the return code, though they set it to 0.
Refuse ==
    /\ phase = "parsed" /\ Objection # "none"
    /\ phase' = Objection
    /\ return_code' = IF Objection \in {"help", "version"} THEN SeverestCode(0) ELSE return_code
    /\ UNCHANGED <<given, position, consume_remaining, results, store>>

\* At least one thread, and at most as many as the hardware supports.
BoundedThreads(n) == Min({IF n < 1 THEN 1 ELSE n, hardware_concurrency})

Accept ==
    /\ phase = "parsed" /\ Objection = "none"
    /\ store' = [store EXCEPT !["threads"] = BoundedThreads(store["threads"])]
    /\ phase' = "accepted"
    /\ UNCHANGED <<given, position, consume_remaining, results, return_code>>

Refused == {"help", "version", "no directory", "superfluous", "quality"}
Ended == phase \in Exceptions \cup Refused \cup {"accepted"}

\* What the rest of the program asks Configuration for
Configured ==
    [directory_path         |-> store["directory"],
     recurse_directories    |-> store["recursive"],
     encoding_quality       |-> store["quality"],
     overwrite_existing_mp3 |-> store["overwrite"],
     convert_all_files      |-> store["all"],
     number_of_threads      |-> store["threads"]]

Init ==
    /\ argv \in UNION {[1..n -> Arguments] : n \in 0..MaxArguments}
    /\ hardware_concurrency \in Hardwares
    /\ phase = "start"
    /\ current = 1 /\ letter = 1 /\ next_positional = 1
    /\ consume_remaining = FALSE
    /\ results = <<>>
    /\ store = [o \in Options |-> Storage(o)]
    /\ return_code = 0

parse_arguments == Begin \/ Parse \/ Refuse \/ Accept

Next == parse_arguments \/ (Ended /\ UNCHANGED vars)

Spec == Init /\ [][Next]_vars

-----------------------------------------------------------------------------
(* What the arguments mean, read as a whole *)

\* The last name of an argument, which may take the argument behind it.
TakesNext(a) ==
    /\ a.kind \in {"cluster", "long"}
    /\ LET n == a.names[Len(a.names)] IN Exists(n) /\ ~HasImplicit(OptionNamed(n))

\* Which arguments are the value of the option before them.
IsOperand ==
    LET f[i \in 1..Len(argv)] == i > 1 /\ ~f[i - 1] /\ TakesNext(argv[i - 1])
    IN  f

\* The place of the "--" that ends the options, or that behind the arguments.
Cut == Min({i \in 1..Len(argv) : argv[i].kind = "terminator" /\ ~IsOperand[i]}
           \cup {Len(argv) + 1})

Flags == {i \in 1..(Cut - 1) : ~IsOperand[i]}
Words == {i \in Flags : argv[i].kind = "word"} \cup (Cut + 1)..Len(argv)

Names(a) == IF a.kind \in {"cluster", "long", "assigned"} THEN a.names ELSE <<>>

\* Where the names stand: the argument, and the letter in it.
NamePlaces == UNION {{i} \X DOMAIN Names(argv[i]) : i \in Flags}

\* Where option o is given by one of its names.
Places(o) ==
    {p \in NamePlaces :
        LET name == Names(argv[p[1]])[p[2]] IN Exists(name) /\ OptionNamed(name) = o}

\* The first word names the directory unless an option before it has done so.
DirectoryWords ==
    {p \in Words \X {1} : (\A i \in Words : p[1] <= i) /\ \A q \in Places("directory") : q[1] > p[1]}

Uses(o) == Places(o) \cup (IF o = "directory" THEN DirectoryWords ELSE {})

\* The text that is given at a place.
TextAt(p) ==
    LET a == argv[p[1]]
    IN  CASE p[1] \in Words -> a.text
          [] p[1] \notin Words /\ a.kind = "assigned" -> a.value
          [] p[1] \notin Words /\ a.kind # "assigned" ->
                IF HasImplicit(OptionNamed(a.names[p[2]])) THEN TrueText ELSE argv[p[1] + 1].text

LastUse(o) ==
    CHOOSE p \in Uses(o) :
        \A q \in Uses(o) : q[1] < p[1] \/ (q[1] = p[1] /\ q[2] <= p[2])

\* Whether an option is given, and its last text if it is.
IsGiven(o) == Uses(o) # {}
LastText(o) == TextAt(LastUse(o))

\* A flag and a number as they are asked for, the number of whatever size
FlagAsked(o) == IsGiven(o) /\ TruthIn(LastText(o)) = "true"
NumberAsked(o) ==
    IF IsGiven(o) THEN AsInt!Denoted(NumberIn(LastText(o))) ELSE DefaultValue(o)

\* The option at a place has its text: it needs none of the arguments, or the
\* one behind it, where there is one and no letter in between.
HasText(p) ==
    LET a == argv[p[1]]
    IN  \/ p[1] \in Words \/ a.kind = "assigned"
        \/ HasImplicit(OptionNamed(a.names[p[2]]))
        \/ p[2] = Len(a.names) /\ p[1] < Len(argv)

\* Some argument is wrong in the way that an exception names.
Fault(exception) ==
    CASE exception = "option_syntax" -> \E i \in Flags : argv[i].kind = "malformed"
      [] exception = "option_not_exists" ->
            \E i \in Flags : \E k \in DOMAIN Names(argv[i]) : ~Exists(Names(argv[i])[k])
      [] exception = "option_requires_argument" ->
            \E o \in Options : \E p \in Places(o) : ~HasText(p) /\ p[2] < Len(argv[p[1]].names)
      [] exception = "missing_argument" ->
            \E o \in Options : \E p \in Places(o) : ~HasText(p) /\ p[2] = Len(argv[p[1]].names)
      [] exception = "argument_incorrect_type" ->
            \E o \in Options : \E p \in Uses(o) : HasText(p) /\ ~Parses(o, TextAt(p))

-----------------------------------------------------------------------------
(* Properties *)

\* count() of cxxopts.hpp:1155 uses the entry of an option without looking
\* whether there is one: when parse_arguments() asks, every option has its own.
CountsAreFound == phase = "parsed" => DOMAIN results = Options

\* What is configured is what the arguments say when they are read as a whole:
\* the last use of an option counts, by whichever of its names and in whichever
\* of its forms it is given, what is not given has its default, and nothing
\* behind "--" is an option.  The numbers are those that were asked for, though
\* the parser of cxxopts.hpp:594 does not notice every overflow.  Other words
\* than the directory are refused, but for empty ones, which the list of
\* configuration.cpp:77 does not keep; and there is at least one thread, but
\* where the number of processors is not known: then it is none.
ConfiguredAsAsked ==
    phase = "accepted" =>
        /\ ~IsGiven("help") /\ ~IsGiven("version") /\ IsGiven("directory")
        /\ Configured = [directory_path         |-> LastText("directory"),
                         recurse_directories    |-> FlagAsked("recursive"),
                         encoding_quality       |-> NumberAsked("quality"),
                         overwrite_existing_mp3 |-> FlagAsked("overwrite"),
                         convert_all_files      |-> FlagAsked("all"),
                         number_of_threads      |->
                            LET asked == NumberAsked("threads")
                            IN  IF asked > hardware_concurrency \/ hardware_concurrency = 0
                                THEN hardware_concurrency ELSE Max({1, asked})]
        /\ \A i \in Words : <<i, 1>> \in DirectoryWords \/ TokensIn(argv[i].text) = 0

\* A command line is refused by an exception only for a fault of the kind that
\* the user is told: a malformed argument, a name that does not exist, an option
\* without its argument, or a text that is no value of the option's type.  With
\* any fault anywhere nothing is converted, and no help is given for --help.
RefusedForAFault ==
    /\ phase \in Exceptions => Fault(phase)
    /\ phase \in Refused \cup {"accepted"} => \A e \in Exceptions : ~Fault(e)
=============================================================================
