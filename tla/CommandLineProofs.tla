------------------------- MODULE CommandLineProofs --------------------------
(***************************************************************************)
(* Theorems about CommandLine, for command lines of any length.            *)
(***************************************************************************)
EXTENDS CommandLine, Induction, SequenceTheorems, TLAPS

LEMMA MinIs ==
  ASSUME NEW S \in SUBSET Nat, S # {}
  PROVE  Min(S) \in S /\ \A y \in S : Min(S) <= y
<1>1. PICK x \in S : \A y \in S : x <= y
  BY LeastNatural
<1> QED
  BY <1>1 DEF Min

-----------------------------------------------------------------------------
(* The options *)

OptionSet == {"help", "version", "recursive", "overwrite", "quality", "all", "threads",
              "directory", "superfluous"}

TypeFor(o) ==
    CASE o \in {"help", "version", "recursive", "overwrite", "all"} -> "bool"
      [] o = "quality" -> "int"
      [] o = "threads" -> "uint16_t"
      [] o = "directory" -> "string"
      [] o = "superfluous" -> "vector"

LEMMA NoOptionIsNameless == NoName \notin OptionSet
  BY Zenon DEF NoName, OptionSet

LEMMA DeclaredAsSpecified == Declarations = Specifiers
<1>1. \A i \in DOMAIN Specifiers : OptionDetails(Specifiers[i]) = Specifiers[i]
  BY SpecifiersAreValid DEF OptionDetails
<1>2. Specifiers = [i \in DOMAIN Specifiers |-> Specifiers[i]]
  BY DEF Specifiers
<1> QED
  BY <1>1, <1>2 DEF Declarations

LEMMA Declared ==
  /\ DOMAIN Declarations = 1..9
  /\ \A i \in 1..9 : /\ Declarations[i].long \in OptionSet
                     /\ Declarations[i].type = TypeFor(Declarations[i].long)
  /\ \A o \in OptionSet : \E i \in 1..9 : Declarations[i].long = o
<1>1. /\ DOMAIN Declarations = 1..9
      /\ Declarations[1].long = "help" /\ Declarations[1].type = "bool"
      /\ Declarations[2].long = "version" /\ Declarations[2].type = "bool"
      /\ Declarations[3].long = "recursive" /\ Declarations[3].type = "bool"
      /\ Declarations[4].long = "overwrite" /\ Declarations[4].type = "bool"
      /\ Declarations[5].long = "quality" /\ Declarations[5].type = "int"
      /\ Declarations[6].long = "all" /\ Declarations[6].type = "bool"
      /\ Declarations[7].long = "threads" /\ Declarations[7].type = "uint16_t"
      /\ Declarations[8].long = "directory" /\ Declarations[8].type = "string"
      /\ Declarations[9].long = "superfluous" /\ Declarations[9].type = "vector"
  BY DeclaredAsSpecified DEF Specifiers
<1>2. \A i \in 1..9 : Declarations[i].long \in OptionSet
  BY <1>1 DEF OptionSet
<1>3. \A i \in 1..9 : Declarations[i].type = TypeFor(Declarations[i].long)
  <2>1. /\ \A o \in {"help", "version", "recursive", "overwrite", "all"} : TypeFor(o) = "bool"
        /\ TypeFor("quality") = "int" /\ TypeFor("threads") = "uint16_t"
        /\ TypeFor("directory") = "string" /\ TypeFor("superfluous") = "vector"
    BY DEF TypeFor
  <2>2. 1..9 = {1, 2, 3, 4, 5, 6, 7, 8, 9}
    OBVIOUS
  <2> QED
    BY <1>1, <2>1, <2>2
<1>4. \A o \in OptionSet : \E i \in 1..9 : Declarations[i].long = o
  <2>1. 1..9 = {1, 2, 3, 4, 5, 6, 7, 8, 9}
    OBVIOUS
  <2> QED
    BY <1>1, <2>1 DEF OptionSet
<1> QED
  BY <1>1, <1>2, <1>3, <1>4

LEMMA OptionsAre == Options = OptionSet
  BY Declared DEF Options

LEMMA NamesLead ==
  /\ \A name : Exists(name) => OptionNamed(name) \in Options
  /\ \A o \in Options : Exists(o) /\ OptionNamed(o) = o /\ TypeOf(o) = TypeFor(o)
<1> DEFINE Known == (Options \cup {Declarations[i].short : i \in DOMAIN Declarations}) \ {NoName}
           Leads(n, i) == n \in {Declarations[i].short, Declarations[i].long}
<1>1. /\ DOMAIN m_options = Known
      /\ \A n \in Known : m_options[n] = CHOOSE i \in DOMAIN Declarations : Leads(n, i)
  BY DEF m_options
<1>2. \A n \in Known : \E i \in DOMAIN Declarations : Leads(n, i)
  BY DEF Options
<1>3. \A n \in Known : m_options[n] \in DOMAIN Declarations /\ Leads(n, m_options[n])
  <2> HIDE DEF Leads, Known
  <2> QED
    BY <1>1, <1>2
<1>4. ASSUME NEW name, Exists(name) PROVE OptionNamed(name) \in Options
  BY <1>1, <1>3, <1>4 DEF Exists, OptionNamed, Options
<1>5. ASSUME NEW o \in Options
      PROVE  Exists(o) /\ OptionNamed(o) = o /\ TypeOf(o) = TypeFor(o)
  <2>1. o \in OptionSet
    BY OptionsAre
  <2>2. o \in Known
    BY <2>1, NoOptionIsNameless
  <2>3. \A i \in DOMAIN Declarations : Declarations[i].short # o
    <3>1. \A i \in DOMAIN Specifiers :
              Specifiers[i].short \in {"h", "v", "r", "o", "q", "a", "t", NoName}
      BY DEF Specifiers
    <3>2. o \notin {"h", "v", "r", "o", "q", "a", "t"}
      BY <2>1 DEF OptionSet
    <3> QED
      BY <2>1, <3>1, <3>2, NoOptionIsNameless, DeclaredAsSpecified
  <2>4. m_options[o] \in DOMAIN Declarations /\ Declarations[m_options[o]].long = o
    BY <1>3, <2>2, <2>3
  <2> HIDE DEF Known, Leads
  <2> QED
    BY <1>1, <2>2, <2>4, Declared DEF Exists, OptionNamed, TypeOf
<1> QED
  BY <1>4, <1>5

\* What the proofs use of the options.
LEMMA Directory ==
  /\ "directory" \in Options /\ Exists("directory") /\ OptionNamed("directory") = "directory"
  /\ TypeOf("directory") = "string"
  BY NamesLead, OptionsAre DEF OptionSet, TypeFor

LEMMA Superfluous ==
  /\ "superfluous" \in Options /\ Exists("superfluous")
  /\ OptionNamed("superfluous") = "superfluous" /\ TypeOf("superfluous") = "vector"
  BY NamesLead, OptionsAre DEF OptionSet, TypeFor

LEMMA OnlySuperfluousIsVector ==
  /\ \A o \in Options : TypeOf(o) \in {"bool", "int", "uint16_t", "string", "vector"}
  /\ \A o \in Options : TypeOf(o) = "vector" => o = "superfluous"
  /\ \A o \in Options : TypeOf(o) = "string" => o = "directory"
  BY NamesLead, OptionsAre DEF OptionSet, TypeFor

LEMMA Flagged ==
  \A o \in {"help", "version", "recursive", "overwrite", "all"} :
      o \in Options /\ TypeOf(o) = "bool" /\ HasImplicit(o)
  BY NamesLead, OptionsAre DEF OptionSet, TypeFor, HasImplicit

LEMMA Numeric ==
  /\ "quality" \in Options /\ TypeOf("quality") = "int"
  /\ "threads" \in Options /\ TypeOf("threads") = "uint16_t"
  BY NamesLead, OptionsAre DEF OptionSet, TypeFor

-----------------------------------------------------------------------------
(* The arguments, read as a whole *)

LEMMA ArgumentIs ==
  ASSUME argv \in Seq(Arguments), NEW i \in 1..Len(argv)
  PROVE  LET a == argv[i] IN
         /\ a.kind \in Kinds /\ a.text \in Texts /\ a.value \in Texts
         /\ a.names \in Seq(STRING)
         /\ a.kind = "cluster" => Len(a.names) \in Nat \ {0}
         /\ a.kind \in {"long", "assigned"} => Len(a.names) = 1
<1>1. argv[i] \in Arguments
  BY ElementOfSeq
<1>2. \A names \in Seq(STRING) : names # <<>> => Len(names) \in Nat \ {0}
  BY EmptySeq
<1> QED
  BY <1>1, <1>2, ArgumentsAssumption

LEMMA NamesAre ==
  ASSUME argv \in Seq(Arguments), NEW i \in 1..Len(argv)
  PROVE  /\ DOMAIN Names(argv[i]) = 1..Len(Names(argv[i]))
         /\ Len(Names(argv[i])) \in Nat
         /\ argv[i].kind \in {"cluster", "long", "assigned"} =>
                Names(argv[i]) = argv[i].names /\ Len(argv[i].names) \in Nat \ {0}
         /\ argv[i].kind \notin {"cluster", "long", "assigned"} => Names(argv[i]) = <<>>
<1>1. CASE argv[i].kind \in {"cluster", "long", "assigned"}
  <2>1. Names(argv[i]) = argv[i].names
    BY <1>1 DEF Names
  <2>2. argv[i].names \in Seq(STRING) /\ Len(argv[i].names) \in Nat \ {0}
    <3>1. 1 \in Nat \ {0}
      OBVIOUS
    <3>2. /\ argv[i].names \in Seq(STRING)
          /\ Len(argv[i].names) \in Nat \ {0} \/ Len(argv[i].names) = 1
      BY <1>1, ArgumentIs
    <3> QED
      BY <3>1, <3>2, Zenon
  <2>3. DOMAIN argv[i].names = 1..Len(argv[i].names)
    BY <2>2, LenProperties
  <2> QED
    BY <1>1, <2>1, <2>2, <2>3
<1>2. CASE argv[i].kind \notin {"cluster", "long", "assigned"}
  BY <1>2 DEF Names
<1> QED
  BY <1>1, <1>2

LEMMA NamePlacesAre ==
  ASSUME argv \in Seq(Arguments), NEW p
  PROVE  /\ p \in NamePlaces => /\ p = <<p[1], p[2]>> /\ p[1] \in Flags
                                 /\ p[2] \in DOMAIN Names(argv[p[1]])
         /\ \A i \in Flags : \A k \in DOMAIN Names(argv[i]) : <<i, k>> \in NamePlaces
<1>1. ASSUME p \in NamePlaces
      PROVE  p = <<p[1], p[2]>> /\ p[1] \in Flags /\ p[2] \in DOMAIN Names(argv[p[1]])
  <2>1. PICK i \in Flags : p \in {i} \X DOMAIN Names(argv[i])
    BY <1>1 DEF NamePlaces
  <2> QED
    BY <2>1
<1>2. ASSUME NEW i \in Flags, NEW k \in DOMAIN Names(argv[i]) PROVE <<i, k>> \in NamePlaces
  BY DEF NamePlaces
<1> QED
  BY <1>1, <1>2

\* An argument is the operand of the one before it unless that is an operand itself.
LEMMA OperandIs ==
  ASSUME argv \in Seq(Arguments)
  PROVE  \A i \in 1..Len(argv) :
             IsOperand[i] = (i > 1 /\ ~IsOperand[i - 1] /\ TakesNext(argv[i - 1]))
<1> DEFINE n == Len(argv)
           step == [p \in BOOLEAN \X (2..n) |-> ~p[1] /\ TakesNext(argv[p[2] - 1])]
           Obeys(f) == f = [i \in 1..n |-> i > 1 /\ ~f[i - 1] /\ TakesNext(argv[i - 1])]
<1>1. n \in Nat
  BY LenProperties
<1>2. CASE n = 0
  BY <1>2
<1>3. CASE n # 0
  <2>1. step \in StepsOn(BOOLEAN, 1, n)
    BY <1>1 DEF StepsOn
  <2>2. PICK f : Recurs(f, BOOLEAN, FALSE, 1, n, step)
    <3> HIDE DEF step, n
    <3>1. 1 \in Int /\ n \in Int /\ 1 <= n /\ FALSE \in BOOLEAN
      BY <1>1, <1>3
    <3> QED
      BY <2>1, <3>1, RecursionExists, Zenon
  <2>3. f \in [1..n -> BOOLEAN] /\ f[1] = FALSE
    BY <2>2 DEF Recurs
  <2>4. ASSUME NEW i \in 2..n PROVE f[i] = (~f[i - 1] /\ TakesNext(argv[i - 1]))
    <3>1. f[i] = step[<<f[i - 1], i>>]
      <4> HIDE DEF step
      <4> QED
        BY <2>2 DEF Recurs
    <3>2. f[i - 1] \in BOOLEAN
      BY <1>1, <2>3
    <3>3. <<f[i - 1], i>> \in BOOLEAN \X (2..n)
      BY <3>2
    <3>4. step[<<f[i - 1], i>>] = (~f[i - 1] /\ TakesNext(argv[i - 1]))
      <4> HIDE DEF n
      <4> QED
        BY <3>3
    <3> QED
      BY <3>1, <3>4
  <2>5. Obeys(f)
    BY <1>1, <2>3, <2>4
  <2>6. Obeys(IsOperand)
    <3> HIDE DEF Obeys
    <3>1. IsOperand = CHOOSE g : Obeys(g)
      BY DEF IsOperand, Obeys
    <3> QED
      BY <2>5, <3>1
  <2>7. \A i \in 1..n : IsOperand[i] = (i > 1 /\ ~IsOperand[i - 1] /\ TakesNext(argv[i - 1]))
    BY <2>6
  <2> QED
    BY <2>7
<1> QED
  BY <1>2, <1>3

\* The options end at the first "--" that is no operand, or behind the arguments.
LEMMA CutIs ==
  ASSUME argv \in Seq(Arguments)
  PROVE  /\ Len(argv) \in Nat /\ Cut \in 1..(Len(argv) + 1)
         /\ Cut <= Len(argv) => argv[Cut].kind = "terminator" /\ ~IsOperand[Cut]
         /\ \A i \in 1..(Cut - 1) : ~(argv[i].kind = "terminator" /\ ~IsOperand[i])
<1> DEFINE n == Len(argv)
           Ends == {i \in 1..n : argv[i].kind = "terminator" /\ ~IsOperand[i]}
<1>1. n \in Nat
  BY LenProperties
<1>2. Ends \cup {n + 1} \in SUBSET Nat /\ Ends \cup {n + 1} # {}
  BY <1>1
<1>3. Cut \in Ends \cup {n + 1} /\ \A i \in Ends \cup {n + 1} : Cut <= i
  BY <1>2, MinIs DEF Cut
<1> QED
  BY <1>1, <1>3

LEMMA PairIs ==
  ASSUME NEW S, NEW T, NEW p \in S \X T
  PROVE  p = <<p[1], p[2]>> /\ p[1] \in S /\ p[2] \in T
  OBVIOUS

\* The places where something is given.
LEMMA PlacesAre ==
  ASSUME argv \in Seq(Arguments)
  PROVE  /\ Flags \subseteq 1..Len(argv) /\ Words \subseteq 1..Len(argv)
         /\ \A o \in Options : \A p \in Uses(o) :
               /\ p[1] \in 1..Len(argv) /\ p[2] \in Nat \ {0} /\ p = <<p[1], p[2]>>
               /\ p[1] \in Words => o = "directory" /\ p \in DirectoryWords
               /\ p[1] \notin Words => p \in Places(o)
<1>1. /\ Len(argv) \in Nat /\ Cut \in 1..(Len(argv) + 1)
      /\ Flags \subseteq 1..Len(argv) /\ Words \subseteq 1..Len(argv)
  BY CutIs DEF Flags, Words
<1>2. ASSUME NEW o \in Options, NEW p \in Places(o)
      PROVE  /\ p[1] \in 1..Len(argv) /\ p[2] \in Nat \ {0} /\ p = <<p[1], p[2]>>
             /\ p[1] \notin Words
  <2>1. p = <<p[1], p[2]>> /\ p[1] \in Flags /\ p[2] \in DOMAIN Names(argv[p[1]])
    BY NamePlacesAre DEF Places
  <2>2. argv[p[1]].kind # "word"
    BY <2>1 DEF Names
  <2>3. p[1] \notin Words
    BY <1>1, <2>1, <2>2 DEF Flags, Words
  <2>4. p[2] \in Nat \ {0}
    BY <1>1, <2>1, NamesAre
  <2> QED
    BY <1>1, <2>1, <2>3, <2>4
<1>3. ASSUME NEW p \in DirectoryWords
      PROVE  p[1] \in 1..Len(argv) /\ p[2] \in Nat \ {0} /\ p = <<p[1], p[2]>> /\ p[1] \in Words
  <2>1. p \in Words \X {1}
    BY DEF DirectoryWords
  <2>2. p = <<p[1], p[2]>> /\ p[1] \in Words /\ p[2] = 1
    BY <2>1
  <2> QED
    BY <1>1, <2>2
<1>4. ASSUME NEW o \in Options, NEW p \in Uses(o)
      PROVE  p \in Places(o) \/ (o = "directory" /\ p \in DirectoryWords)
  BY DEF Uses
<1> QED
  BY <1>1, <1>2, <1>3, <1>4

\* At one place no more than one option is given.
LEMMA OneOptionAtAPlace ==
  ASSUME argv \in Seq(Arguments), NEW o \in Options, NEW r \in Options,
         NEW p \in Uses(o), p \in Uses(r)
  PROVE  o = r
<1>1. CASE p[1] \in Words
  BY <1>1, PlacesAre
<1>2. CASE p[1] \notin Words
  <2>1. p \in Places(o) /\ p \in Places(r)
    BY <1>2, PlacesAre
  <2> QED
    BY <2>1 DEF Places
<1> QED
  BY <1>1, <1>2

\* What the arguments say does not change.
LEMMA ArgumentsStay ==
  ASSUME argv' = argv
  PROVE  /\ UNCHANGED <<IsOperand, Cut, Flags, Words, DirectoryWords>>
         /\ \A o : UNCHANGED <<Places(o), Uses(o)>>
         /\ \A p : UNCHANGED <<TextAt(p), HasText(p)>>
<1>1. UNCHANGED IsOperand
  BY DEF IsOperand
<1>2. UNCHANGED Cut
  BY <1>1 DEF Cut
<1>3. UNCHANGED Flags /\ UNCHANGED Words
  BY <1>1, <1>2 DEF Flags, Words
<1>4. \A o : UNCHANGED Places(o)
  <2>1. UNCHANGED NamePlaces
    BY <1>3 DEF NamePlaces, Names
  <2> QED
    BY <2>1 DEF Places, Names
<1>5. UNCHANGED DirectoryWords
  BY <1>3, <1>4 DEF DirectoryWords
<1>6. \A o : UNCHANGED Uses(o)
  BY <1>4, <1>5 DEF Uses
<1>7. \A p : UNCHANGED TextAt(p) /\ UNCHANGED HasText(p)
  BY <1>3 DEF TextAt, HasText
<1> QED
  BY <1>1, <1>2, <1>3, <1>4, <1>5, <1>6, <1>7

LEMMA FaultsStay ==
  ASSUME argv' = argv, NEW e \in Exceptions PROVE UNCHANGED Fault(e)
<1> USE ArgumentsStay DEF Fault
<1>1. CASE e = "option_syntax"
  BY <1>1
<1>2. CASE e = "option_not_exists"
  BY <1>2
<1>3. CASE e = "option_requires_argument"
  BY <1>3
<1>4. CASE e = "missing_argument"
  BY <1>4
<1>5. CASE e = "argument_incorrect_type"
  BY <1>5
<1> QED
  BY <1>1, <1>2, <1>3, <1>4, <1>5 DEF Exceptions

-----------------------------------------------------------------------------
(* The inductive invariant *)

\* What has been read: the arguments before the current one, and letters of it.
Before(p) == p[1] < current \/ (p[1] = current /\ p[2] < letter)
Read(o) == {p \in Uses(o) : Before(p)}

NotAfter(q, p) == q[1] < p[1] \/ (q[1] = p[1] /\ q[2] <= p[2])

\* While phase is one of these nothing has been found that ends parse_arguments().
Reading == {"start", "arguments", "defaults", "remaining", "parsed"}

StateInv ==
    /\ argv \in Seq(Arguments) /\ hardware_concurrency \in Hardwares
    /\ current \in Nat /\ letter \in Nat /\ next_positional \in {1, 2}
    /\ DOMAIN results \subseteq Options /\ \A o \in DOMAIN results : results[o] \in Nat
    /\ DOMAIN store = Options /\ store["superfluous"] \in Nat
    /\ phase \in Reading \cup Exceptions \cup Refused \cup {"accepted"}

\* The current argument is one that is not taken for a value.
PlaceInv ==
    /\ phase \in {"start", "arguments"} =>
          /\ ~consume_remaining /\ current \in 1..Cut
          /\ current <= Len(argv) => ~IsOperand[current]
          /\ letter # 1 => /\ current <= Len(argv) /\ argv[current].kind = "cluster"
                           /\ letter \in 1..Len(argv[current].names)
    /\ phase \in {"defaults", "remaining", "parsed"} => letter = 1
    /\ phase = "defaults" => IF consume_remaining THEN Cut <= Len(argv) /\ current = Cut + 1
                                                  ELSE Cut = Len(argv) + 1 /\ current = Cut
    /\ phase = "remaining" => Cut <= Len(argv) /\ current \in (Cut + 1)..(Len(argv) + 1)
    /\ phase = "parsed" => current = Len(argv) + 1

\* An option has the value that it was given last.
UseInv ==
    \A o \in Options :
        /\ \A p \in Read(o) : HasText(p) /\ Parses(o, TextAt(p))
        /\ o # "superfluous" =>
              /\ Count(o) = 0 <=> Read(o) = {}
              /\ Read(o) = {} => store[o] = Storage(o)
              /\ Read(o) # {} =>
                    \E p \in Read(o) : /\ \A q \in Read(o) : NotAfter(q, p)
                                       /\ store[o] = Parsed(o, TextAt(p))

\* The first word is the directory, and the others count as superfluous.
WordInv ==
    /\ next_positional = 1 <=> \A i \in Words : ~(i < current)
    /\ \A i \in Words : i < current =>
          <<i, 1>> \in DirectoryWords \/ TokensIn(argv[i].text) <= store["superfluous"]

NameInv ==
    \A i \in Flags :
        /\ i < current => argv[i].kind # "malformed"
        /\ \A k \in DOMAIN Names(argv[i]) : Before(<<i, k>>) => Exists(Names(argv[i])[k])

ReadInv == PlaceInv /\ UseInv /\ WordInv /\ NameInv

NoFault == \A e \in Exceptions : ~Fault(e)

FaultInv ==
    /\ phase \in Exceptions => Fault(phase)
    /\ phase \in Refused \cup {"accepted"} => NoFault

IInv == StateInv /\ (phase \in Reading => ReadInv) /\ FaultInv

LEMMA Phases ==
  /\ Reading \cap (Exceptions \cup Refused \cup {"accepted"}) = {}
  /\ Exceptions \cap (Refused \cup {"accepted"}) = {}
  BY DEF Reading, Exceptions, Refused

-----------------------------------------------------------------------------
(* A value is read *)

LEMMA CountIs ==
  ASSUME StateInv, NEW o \in Options
  PROVE  /\ Count(o) \in Nat
         /\ DOMAIN CountOneMore(o) = DOMAIN results \cup {o}
         /\ \A p \in DOMAIN CountOneMore(o) : CountOneMore(o)[p] \in Nat
         /\ CountOneMore(o)[o] # 0
         /\ \A p \in DOMAIN results : p # o => CountOneMore(o)[p] = results[p]
<1>1. Count(o) \in Nat
  BY DEF StateInv, Count
<1> QED
  BY <1>1 DEF CountOneMore, StateInv

LEMMA ParsedStays ==
  ASSUME NEW o \in Options, o # "superfluous", NEW t
  PROVE  UNCHANGED Parsed(o, t)
<1>1. TypeOf(o) # "vector" /\ TypeOf(o) \in {"bool", "int", "uint16_t", "string"}
  BY OnlySuperfluousIsVector
<1> QED
  BY <1>1 DEF Parsed, IsNumeric

LEMMA StorageStays ==
  ASSUME UNCHANGED given, NEW o PROVE UNCHANGED Storage(o)
  BY DEF given, Storage, DefaultValue

\* The entries and values that parse_option() leaves behind have their types.
LEMMA ParsedKeepsState ==
  ASSUME StateInv, NEW o \in Options, NEW t \in Texts, parse_option(o, t)
  PROVE  /\ DOMAIN results' \subseteq Options /\ \A p \in DOMAIN results' : results'[p] \in Nat
         /\ DOMAIN store' = Options
         /\ store'["superfluous"] \in Nat /\ store'["superfluous"] >= store["superfluous"]
         /\ o = "superfluous" => store'["superfluous"] >= TokensIn(t)
         /\ phase' \in {phase, "argument_incorrect_type"}
         /\ phase' = phase \/ ~Parses(o, t)
<1>1. results' = CountOneMore(o)
  BY DEF parse_option
<1>2. DOMAIN results' \subseteq Options /\ \A p \in DOMAIN results' : results'[p] \in Nat
  <2>1. /\ DOMAIN CountOneMore(o) = DOMAIN results \cup {o}
        /\ \A p \in DOMAIN CountOneMore(o) : CountOneMore(o)[p] \in Nat
    BY CountIs
  <2>2. DOMAIN results \subseteq Options
    BY DEF StateInv
  <2> QED
    BY <1>1, <2>1, <2>2
<1>3. CASE Parses(o, t)
  <2>1. store' = [store EXCEPT ![o] = Parsed(o, t)] /\ phase' = phase
    BY <1>3 DEF parse_option
  <2>2. DOMAIN store' = Options
    BY <2>1 DEF StateInv
  <2>3. CASE o = "superfluous"
    <3>1. TypeOf(o) = "vector"
      BY <2>3, Superfluous
    <3>2. Parsed(o, t) = store[o] + TokensIn(t) /\ TokensIn(t) \in Nat
      <4>1. TokensIn(t) \in Nat
        BY CommandLineAssumption
      <4>2. Parsed(o, t) = store[o] + TokensIn(t)
        BY <3>1 DEF Parsed, IsNumeric
      <4> QED
        BY <4>1, <4>2
    <3> QED
      BY <1>2, <2>1, <2>2, <2>3, <3>2 DEF StateInv
  <2>4. CASE o # "superfluous"
    BY <1>2, <2>1, <2>2, <2>4, Superfluous DEF StateInv
  <2> QED
    BY <2>3, <2>4
<1>4. CASE ~Parses(o, t)
  <2>1. store' = store /\ phase' = "argument_incorrect_type"
    BY <1>4 DEF parse_option
  <2>2. o # "superfluous"
    BY <1>4, Superfluous DEF Parses, IsNumeric
  <2> QED
    BY <1>2, <1>4, <2>1, <2>2 DEF StateInv
<1> QED
  BY <1>3, <1>4

\* Nothing is given to an option other than the list of superfluous words.
LEMMA NothingIsGiven ==
  ASSUME StateInv, UseInv, UNCHANGED given,
         \A r \in Options : \A p \in Uses(r) : Before(p)' <=> Before(p),
         \A r \in Options : r # "superfluous" => Count(r)' = Count(r) /\ store'[r] = store[r]
  PROVE  UseInv'
<1>1. \A r \in Options : Read(r)' = Read(r)
  BY ArgumentsStay DEF Read, given
<1>2. SUFFICES ASSUME NEW r \in Options
      PROVE  /\ \A p \in Read(r) : HasText(p) /\ Parses(r, TextAt(p))
             /\ r # "superfluous" =>
                   /\ Count(r)' = 0 <=> Read(r) = {}
                   /\ Read(r) = {} => store'[r] = Storage(r)
                   /\ Read(r) # {} =>
                        \E p \in Read(r) : /\ \A q \in Read(r) : NotAfter(q, p)
                                           /\ store'[r] = Parsed(r, TextAt(p))
  BY <1>1, ArgumentsStay, StorageStays, ParsedStays DEF UseInv, given
<1> QED
  BY DEF UseInv

\* Option o is given text t at place p0, which is read next.
LEMMA ValueIsGiven ==
  ASSUME StateInv, UseInv, UNCHANGED given,
         NEW o \in Options, NEW t, parse_option(o, t), Parses(o, t),
         NEW p0 \in Uses(o), HasText(p0), TextAt(p0) = t,
         \A r \in Options : \A p \in Uses(r) :
             /\ Before(p)' <=> (Before(p) \/ p = p0)
             /\ Before(p) => NotAfter(p, p0)
  PROVE  UseInv'
<1>1. /\ results' = CountOneMore(o)
      /\ store' = [store EXCEPT ![o] = Parsed(o, t)]
  BY DEF parse_option
<1>2. argv' = argv /\ argv \in Seq(Arguments)
  BY DEF given, StateInv
<1>3. Read(o)' = Read(o) \cup {p0}
  BY <1>2, ArgumentsStay DEF Read
<1>4. ASSUME NEW r \in Options, r # o PROVE Read(r)' = Read(r)
  <2>1. p0 \notin Uses(r)
    BY <1>2, <1>4, OneOptionAtAPlace
  <2> QED
    BY <1>2, <2>1, ArgumentsStay DEF Read
<1>5. SUFFICES ASSUME NEW r \in Options
      PROVE  /\ \A p \in Read(r)' : HasText(p) /\ Parses(r, TextAt(p))
             /\ r # "superfluous" =>
                   /\ Count(r)' = 0 <=> Read(r)' = {}
                   /\ Read(r)' = {} => store'[r] = Storage(r)
                   /\ Read(r)' # {} =>
                        \E p \in Read(r)' : /\ \A q \in Read(r)' : NotAfter(q, p)
                                            /\ store'[r] = Parsed(r, TextAt(p))
  BY <1>2, ArgumentsStay, StorageStays, ParsedStays DEF UseInv
<1>6. CASE r = o
  <2>1. \A p \in Read(o)' : HasText(p) /\ Parses(o, TextAt(p))
    BY <1>3 DEF UseInv
  <2>2. Count(o)' # 0
    BY <1>1, CountIs DEF Count
  <2>3. \A q \in Read(o)' : NotAfter(q, p0)
    <3>1. p0[1] \in Nat /\ p0[2] \in Nat
      BY <1>2, PlacesAre, LenProperties
    <3> QED
      BY <1>3, <3>1 DEF NotAfter, Read
  <2>4. store'[o] = Parsed(o, TextAt(p0))
    BY <1>1 DEF StateInv
  <2> QED
    BY <1>3, <1>6, <2>1, <2>2, <2>3, <2>4
<1>7. CASE r # o
  <2>1. Read(r)' = Read(r)
    BY <1>4, <1>7
  <2>2. store'[r] = store[r]
    BY <1>1, <1>7 DEF StateInv
  <2>3. Count(r)' = Count(r)
    BY <1>1, <1>7, CountIs DEF Count
  <2> QED
    BY <2>1, <2>2, <2>3 DEF UseInv
<1> QED
  BY <1>6, <1>7

-----------------------------------------------------------------------------
(* An argument or a letter has been read *)

\* Wherever a name or a word stands.
AllPlaces ==
    {p \in (Flags \cup Words) \X (Nat \ {0}) :
        IF p[1] \in Words THEN p[2] = 1 ELSE p[2] \in DOMAIN Names(argv[p[1]])}

\* The place that is looked at has been read, and all before it had been.
Moved ==
    \A p \in AllPlaces : /\ Before(p)' <=> (Before(p) \/ p = <<current, letter>>)
                         /\ Before(p) => NotAfter(p, <<current, letter>>)

LEMMA UsesAreNotWords ==
  ASSUME argv \in Seq(Arguments), NEW o, NEW p \in Places(o)
  PROVE  /\ p[1] \in Flags /\ p[1] \notin Words /\ argv[p[1]].kind # "word"
         /\ p[2] \in DOMAIN Names(argv[p[1]]) /\ p[2] \in Nat \ {0} /\ p = <<p[1], p[2]>>
<1>1. Len(argv) \in Nat /\ Cut \in 1..(Len(argv) + 1)
  BY CutIs
<1>2. p = <<p[1], p[2]>> /\ p[1] \in Flags /\ p[2] \in DOMAIN Names(argv[p[1]])
  BY NamePlacesAre DEF Places
<1>3. p[2] \in Nat \ {0}
  BY <1>2, NamesAre, PlacesAre
<1>4. argv[p[1]].kind # "word"
  BY <1>2 DEF Names
<1>5. p[1] \notin Words
  BY <1>1, <1>2, <1>4 DEF Flags, Words
<1> QED
  BY <1>2, <1>3, <1>4, <1>5

LEMMA AllPlacesAre ==
  ASSUME argv \in Seq(Arguments)
  PROVE  /\ \A p \in AllPlaces : /\ p[1] \in 1..Len(argv) /\ p[2] \in Nat \ {0}
                                 /\ p = <<p[1], p[2]>> /\ p[1] \in Flags \cup Words
         /\ \A o \in Options : Uses(o) \subseteq AllPlaces
         /\ \A i \in Flags : \A k \in DOMAIN Names(argv[i]) : <<i, k>> \in AllPlaces
         /\ \A i \in Words : <<i, 1>> \in AllPlaces
<1>1. Flags \subseteq 1..Len(argv) /\ Words \subseteq 1..Len(argv)
  BY PlacesAre
<1>2. ASSUME NEW p \in AllPlaces
      PROVE  /\ p[1] \in 1..Len(argv) /\ p[2] \in Nat \ {0}
             /\ p = <<p[1], p[2]>> /\ p[1] \in Flags \cup Words
  <2>1. p \in (Flags \cup Words) \X (Nat \ {0})
    BY DEF AllPlaces
  <2>2. p = <<p[1], p[2]>> /\ p[1] \in Flags \cup Words /\ p[2] \in Nat \ {0}
    BY <2>1, PairIs
  <2> QED
    BY <1>1, <2>2
<1>3. ASSUME NEW o \in Options, NEW p \in Uses(o) PROVE p \in AllPlaces
  <2>1. CASE p \in Places(o)
    BY <2>1, UsesAreNotWords DEF AllPlaces
  <2>2. CASE p \in DirectoryWords
    <3>1. p \in Words \X {1}
      BY <2>2 DEF DirectoryWords
    <3> QED
      BY <3>1 DEF AllPlaces
  <2> QED
    BY <2>1, <2>2 DEF Uses
<1>4. ASSUME NEW i \in Flags, NEW k \in DOMAIN Names(argv[i]) PROVE <<i, k>> \in AllPlaces
  <2>1. k \in Nat \ {0}
    BY <1>1, NamesAre
  <2>2. argv[i].kind # "word"
    BY DEF Names
  <2>3. i \notin Words
    <3>1. Len(argv) \in Nat /\ Cut \in 1..(Len(argv) + 1)
      BY CutIs
    <3> QED
      BY <2>2, <3>1 DEF Flags, Words
  <2> QED
    BY <2>1, <2>3 DEF AllPlaces
<1>5. ASSUME NEW i \in Words PROVE <<i, 1>> \in AllPlaces
  BY DEF AllPlaces
<1> QED
  BY <1>2, <1>3, <1>4, <1>5

\* What it takes to have read a place: the next one is that of the next letter,
\* or that of the next argument, or of the one behind the operand.
LEMMA NextPlace ==
  ASSUME argv \in Seq(Arguments), current \in Nat, letter \in Nat \ {0},
         \/ current' = current /\ letter' = letter + 1
         \/ /\ letter' = 1 /\ current' \in {current + 1, current + 2}
            /\ current' = current + 2 => current + 1 \notin Flags \cup Words
            /\ \A p \in AllPlaces : p[1] = current => p[2] <= letter
  PROVE  Moved
<1> SUFFICES ASSUME NEW p \in AllPlaces
             PROVE  /\ Before(p)' <=> (Before(p) \/ p = <<current, letter>>)
                    /\ Before(p) => NotAfter(p, <<current, letter>>)
  BY DEF Moved
<1>1. /\ p[1] \in Nat /\ p[2] \in Nat \ {0} /\ p[1] \in Flags \cup Words
      /\ p = <<p[1], p[2]>>
  BY AllPlacesAre, LenProperties
<1>2. p = <<current, letter>> <=> p[1] = current /\ p[2] = letter
  BY <1>1
<1>3. Before(p) => NotAfter(p, <<current, letter>>)
  BY <1>1 DEF Before, NotAfter
<1>4. Before(p)' <=> (p[1] < current' \/ (p[1] = current' /\ p[2] < letter'))
  BY DEF Before
<1>5. CASE current' = current /\ letter' = letter + 1
  BY <1>1, <1>2, <1>3, <1>4, <1>5 DEF Before
<1>6. CASE /\ letter' = 1 /\ current' \in {current + 1, current + 2}
           /\ current' = current + 2 => current + 1 \notin Flags \cup Words
           /\ \A q \in AllPlaces : q[1] = current => q[2] <= letter
  <2>1. p[1] < current' <=> p[1] <= current
    BY <1>1, <1>6
  <2>2. p[1] = current => p[2] <= letter
    BY <1>6
  <2> QED
    BY <1>1, <1>2, <1>3, <1>4, <1>6, <2>1, <2>2 DEF Before
<1> QED
  BY <1>5, <1>6

-----------------------------------------------------------------------------
(* The argument that is looked at *)

LEMMA AtIs ==
  ASSUME StateInv, PlaceInv, NEW kind, At(kind)
  PROVE  /\ phase = "arguments" /\ argv \in Seq(Arguments) /\ Len(argv) \in Nat
         /\ Cut \in 1..(Len(argv) + 1) /\ current \in 1..Len(argv) /\ current <= Cut
         /\ ~IsOperand[current] /\ argv[current].kind = kind /\ ~consume_remaining
         /\ letter \in Nat \ {0} /\ (kind # "cluster" => letter = 1)
         /\ kind = "cluster" => letter \in 1..Len(argv[current].names)
         /\ kind = "terminator" => current = Cut
         /\ kind # "terminator" => /\ current < Cut /\ current \in Flags
                                   /\ current \in Words <=> kind = "word"
<1>1. /\ phase = "arguments" /\ argv[current].kind = kind /\ current <= Len(argv)
      /\ argv \in Seq(Arguments) /\ letter \in Nat
  BY DEF At, StateInv
<1>2. /\ Len(argv) \in Nat /\ Cut \in 1..(Len(argv) + 1)
      /\ Cut <= Len(argv) => argv[Cut].kind = "terminator" /\ ~IsOperand[Cut]
      /\ \A i \in 1..(Cut - 1) : ~(argv[i].kind = "terminator" /\ ~IsOperand[i])
  BY <1>1, CutIs
<1>3. /\ ~consume_remaining /\ current \in 1..Cut /\ ~IsOperand[current]
      /\ letter # 1 => /\ argv[current].kind = "cluster"
                       /\ letter \in 1..Len(argv[current].names)
  BY <1>1 DEF PlaceInv
<1>4. kind = "cluster" => letter \in 1..Len(argv[current].names)
  <2>1. kind = "cluster" => Len(argv[current].names) \in Nat \ {0}
    BY <1>1, <1>2, <1>3, ArgumentIs
  <2> QED
    BY <2>1, <1>3
<1>5. kind = "terminator" => current = Cut
  BY <1>1, <1>2, <1>3
<1>6. kind # "terminator" => current < Cut
  BY <1>1, <1>2, <1>3
<1>7. kind # "terminator" => current \in Flags /\ (current \in Words <=> kind = "word")
  BY <1>1, <1>2, <1>3, <1>6 DEF Flags, Words
<1> QED
  BY <1>1, <1>2, <1>3, <1>4, <1>5, <1>6, <1>7

\* The value of the option that it ends with stands behind the argument, ...
LEMMA OperandBehind ==
  ASSUME StateInv, PlaceInv, NEW kind, At(kind), kind # "terminator",
         TakesNext(argv[current]), current < Len(argv)
  PROVE  /\ current + 1 \in 1..Len(argv) /\ current + 1 \notin Flags \cup Words
         /\ current + 2 \in 1..Cut
         /\ current + 2 <= Len(argv) => ~IsOperand[current + 2]
<1>1. /\ argv \in Seq(Arguments) /\ Len(argv) \in Nat /\ Cut \in 1..(Len(argv) + 1)
      /\ current \in 1..Len(argv) /\ current < Cut /\ ~IsOperand[current]
  BY AtIs
<1>2. current + 1 \in 1..Len(argv) /\ (current + 1) - 1 = current /\ current + 1 > 1
  BY <1>1
<1>3. IsOperand[current + 1]
  BY <1>1, <1>2, OperandIs
<1>4. current + 1 # Cut
  BY <1>1, <1>2, <1>3, CutIs
<1>5. current + 2 <= Len(argv) => ~IsOperand[current + 2]
  <2>1. SUFFICES ASSUME current + 2 <= Len(argv) PROVE ~IsOperand[current + 2]
    OBVIOUS
  <2>2. current + 2 \in 1..Len(argv) /\ (current + 2) - 1 = current + 1
    BY <1>1, <2>1
  <2> QED
    BY <1>1, <1>3, <2>2, OperandIs
<1>6. current + 1 \notin Flags \cup Words
  BY <1>1, <1>2, <1>3, <1>4 DEF Flags, Words
<1> QED
  BY <1>1, <1>2, <1>4, <1>5, <1>6

\* ... or the next argument is looked at.
LEMMA NoOperandBehind ==
  ASSUME StateInv, PlaceInv, NEW kind, At(kind), kind # "terminator",
         ~TakesNext(argv[current])
  PROVE  /\ current + 1 \in 1..Cut
         /\ current + 1 <= Len(argv) => ~IsOperand[current + 1]
<1>1. /\ argv \in Seq(Arguments) /\ Len(argv) \in Nat /\ Cut \in 1..(Len(argv) + 1)
      /\ current \in 1..Len(argv) /\ current < Cut /\ ~IsOperand[current]
  BY AtIs
<1>2. current + 1 <= Len(argv) => ~IsOperand[current + 1]
  <2>1. SUFFICES ASSUME current + 1 <= Len(argv) PROVE ~IsOperand[current + 1]
    OBVIOUS
  <2>2. current + 1 \in 1..Len(argv) /\ (current + 1) - 1 = current
    BY <1>1, <2>1
  <2> QED
    BY <1>1, <2>2, OperandIs
<1> QED
  BY <1>1, <1>2

\* The next argument is looked at, which is no operand.
LEMMA PlaceIsNext ==
  ASSUME StateInv, PlaceInv, UNCHANGED <<given, phase, consume_remaining>>,
         phase = "arguments", letter' = 1, current' \in 1..Cut,
         current' <= Len(argv) => ~IsOperand[current']
  PROVE  PlaceInv'
<1>1. UNCHANGED <<argv, Cut, IsOperand>>
  BY ArgumentsStay DEF given
<1> QED
  BY <1>1 DEF PlaceInv

\* The names that have been read exist.
LEMMA NameIsRead ==
  ASSUME StateInv, NameInv, UNCHANGED given, Moved,
         \A i \in Flags : i < current' => i <= current,
         current \in Flags => argv[current].kind # "malformed",
         current \in Flags /\ letter \in DOMAIN Names(argv[current]) =>
             Exists(Names(argv[current])[letter])
  PROVE  NameInv'
<1>1. UNCHANGED <<argv, Flags>> /\ argv \in Seq(Arguments)
  BY ArgumentsStay DEF given, StateInv
<1>2. SUFFICES ASSUME NEW i \in Flags
               PROVE  /\ i < current' => argv[i].kind # "malformed"
                      /\ \A k \in DOMAIN Names(argv[i]) :
                             Before(<<i, k>>)' => Exists(Names(argv[i])[k])
  BY <1>1 DEF NameInv
<1>3. i \in Nat /\ current \in Nat
  BY <1>1, PlacesAre, LenProperties DEF StateInv
<1>4. i < current' => argv[i].kind # "malformed"
  BY <1>3 DEF NameInv
<1>5. ASSUME NEW k \in DOMAIN Names(argv[i]), Before(<<i, k>>)'
      PROVE  Exists(Names(argv[i])[k])
  <2>1. <<i, k>> \in AllPlaces
    BY <1>1, AllPlacesAre
  <2>2. Before(<<i, k>>) \/ <<i, k>> = <<current, letter>>
    BY <1>5, <2>1 DEF Moved
  <2>3. CASE Before(<<i, k>>)
    BY <2>3 DEF NameInv
  <2>4. CASE i = current /\ k = letter
    BY <2>4
  <2> QED
    BY <2>2, <2>3, <2>4
<1> QED
  BY <1>4, <1>5

-----------------------------------------------------------------------------
(* Words *)

\* An argument is read that is no word.
LEMMA NoWordIsRead ==
  ASSUME StateInv, WordInv, UNCHANGED <<given, next_positional>>,
         \A i \in Words : i < current' <=> i < current,
         store'["superfluous"] \in Nat, store'["superfluous"] >= store["superfluous"]
  PROVE  WordInv'
<1>1. UNCHANGED <<argv, Words, DirectoryWords>> /\ argv \in Seq(Arguments)
  BY ArgumentsStay DEF given, StateInv
<1>2. \A i \in Words : TokensIn(argv[i].text) \in Nat
  <2>1. Words \subseteq 1..Len(argv)
    BY <1>1, PlacesAre
  <2>2. \A i \in Words : argv[i].text \in Texts
    BY <1>1, <2>1, ArgumentIs
  <2> QED
    BY <2>2, CommandLineAssumption
<1>3. store["superfluous"] \in Nat
  BY DEF StateInv
<1>4. next_positional' = 1 <=> \A i \in Words' : ~(i < current')
  BY <1>1 DEF WordInv
<1>5. ASSUME NEW i \in Words', i < current'
      PROVE  <<i, 1>> \in DirectoryWords' \/ TokensIn(argv'[i].text) <= store'["superfluous"]
  BY <1>1, <1>2, <1>3, <1>5 DEF WordInv
<1> QED
  BY <1>4, <1>5 DEF WordInv

\* The option that takes a word is the directory, so long as there is none.
LEMMA PositionalIs ==
  ASSUME StateInv, NEW t, consume_positional(t)
  PROVE  /\ next_positional' = 2
         /\ IF next_positional = 1 /\ Count("directory") = 0
            THEN parse_option("directory", t) ELSE parse_option("superfluous", t)
<1> DEFINE Free(i) == IsContainer(Positionals[i]) \/ Count(Positionals[i]) = 0
           S == {j \in next_positional..Len(Positionals) : Free(j)}
<1>1. /\ Len(Positionals) = 2 /\ Positionals[1] = "directory" /\ Positionals[2] = "superfluous"
      /\ ~IsContainer("directory") /\ IsContainer("superfluous")
  BY Directory, Superfluous DEF Positionals, IsContainer
<1>2. next_positional \in {1, 2}
  BY DEF StateInv
<1>3. Free(2) /\ (Free(1) <=> Count("directory") = 0)
  BY <1>1
<1>4. 2 \in S /\ S \in SUBSET Nat /\ \A j \in S : j \in {1, 2} /\ j >= next_positional
  <2> HIDE DEF Free
  <2> QED
    BY <1>1, <1>2, <1>3
<1>5. 1 \in S <=> next_positional = 1 /\ Count("directory") = 0
  <2> HIDE DEF Free
  <2> QED
    BY <1>1, <1>2, <1>3
<1>6. /\ add_to_option(Positionals[Min(S)], t)
      /\ next_positional' = IF IsContainer(Positionals[Min(S)]) THEN Min(S) ELSE Min(S) + 1
  BY DEF consume_positional
<1>7. Min(S) \in S /\ \A y \in S : Min(S) <= y
  <2> HIDE DEF S
  <2> QED
    BY <1>4, MinIs
<1>8. Min(S) = IF next_positional = 1 /\ Count("directory") = 0 THEN 1 ELSE 2
  <2> HIDE DEF S
  <2>1. Min(S) \in {1, 2}
    BY <1>4, <1>7
  <2>2. 1 \in S => Min(S) = 1
    BY <1>7, <2>1
  <2>3. 1 \notin S => Min(S) = 2
    BY <1>7, <2>1
  <2> QED
    BY <1>5, <2>2, <2>3
<1> HIDE DEF S
<1>9. CASE next_positional = 1 /\ Count("directory") = 0
  BY <1>1, <1>6, <1>8, <1>9, Directory DEF add_to_option
<1>10. CASE ~(next_positional = 1 /\ Count("directory") = 0)
  BY <1>1, <1>6, <1>8, <1>10, Superfluous DEF add_to_option
<1> QED
  BY <1>9, <1>10

\* A word is what the directory is called, if it is the first one and no option
\* before it has named the directory.
LEMMA DirectoryWordIs ==
  ASSUME StateInv, UseInv, WordInv, current \in Words, letter = 1
  PROVE  <<current, 1>> \in DirectoryWords
             <=> next_positional = 1 /\ Count("directory") = 0
<1>1. argv \in Seq(Arguments) /\ current \in Nat
  BY DEF StateInv
<1>2. Words \subseteq 1..Len(argv) /\ Len(argv) \in Nat
  BY <1>1, PlacesAre, CutIs
<1>3. Count("directory") = 0 <=> Read("directory") = {}
  BY Directory DEF UseInv
<1>4. next_positional = 1 <=> \A i \in Words : current <= i
  <2>1. \A i \in Words : ~(i < current) <=> current <= i
    BY <1>1, <1>2
  <2> QED
    BY <2>1 DEF WordInv
<1>5. \A q \in Places("directory") : /\ q[1] \in Nat /\ q[1] # current
                                     /\ q \in Uses("directory")
  BY <1>1, <1>2, UsesAreNotWords, PlacesAre DEF Uses
<1>6. <<current, 1>> \in DirectoryWords
          <=> next_positional = 1 /\ \A q \in Places("directory") : q[1] > current
  <2>1. <<current, 1>> \in Words \X {1} /\ <<current, 1>>[1] = current
    OBVIOUS
  <2> QED
    BY <1>4, <2>1 DEF DirectoryWords
<1>7. ASSUME Read("directory") = {} PROVE \A q \in Places("directory") : q[1] > current
  <2>1. \A q \in Places("directory") : ~(q[1] < current)
    BY <1>5, <1>7 DEF Read, Before
  <2> QED
    BY <1>1, <1>5, <2>1
<1>8. ASSUME next_positional = 1, \A q \in Places("directory") : q[1] > current
      PROVE  Read("directory") = {}
  <2> SUFFICES ASSUME NEW p \in Read("directory") PROVE FALSE
    OBVIOUS
  <2>1. p \in Uses("directory") /\ Before(p)
    BY DEF Read
  <2>2. p[1] \in 1..Len(argv) /\ p[2] \in Nat \ {0}
    BY <1>1, <2>1, PlacesAre, Directory
  <2>3. CASE p \in Places("directory")
    BY <1>1, <1>8, <2>1, <2>2, <2>3, <1>5 DEF Before
  <2>4. CASE p \in DirectoryWords
    <3>1. p \in Words \X {1}
      BY <2>4 DEF DirectoryWords
    <3>2. p[1] \in Words /\ p[2] = 1
      BY <3>1
    <3> QED
      BY <1>1, <1>2, <1>4, <1>8, <2>1, <2>2, <3>2 DEF Before
  <2> QED
    BY <2>1, <2>3, <2>4, Directory DEF Uses
<1> QED
  BY <1>3, <1>6, <1>7, <1>8

\* A word is read, which is the directory or superfluous.
LEMMA WordIsRead ==
  ASSUME StateInv, UseInv, WordInv, phase \in Reading, UNCHANGED given,
         current \in Words, letter = 1, current' = current + 1, Moved,
         consume_positional(argv[current].text)
  PROVE  /\ next_positional' \in {1, 2} /\ phase' = phase
         /\ DOMAIN results' \subseteq Options /\ \A p \in DOMAIN results' : results'[p] \in Nat
         /\ DOMAIN store' = Options /\ store'["superfluous"] \in Nat
         /\ UseInv' /\ WordInv'
<1> DEFINE t == argv[current].text
           p0 == <<current, letter>>
<1>1. UNCHANGED <<argv, Words, DirectoryWords>> /\ argv \in Seq(Arguments) /\ current \in Nat
  BY ArgumentsStay DEF given, StateInv
<1>2. Words \subseteq 1..Len(argv) /\ Len(argv) \in Nat
  BY <1>1, PlacesAre, CutIs
<1>3. t \in Texts /\ \A i \in Words : TokensIn(argv[i].text) \in Nat
  <2>1. \A i \in Words : argv[i].text \in Texts
    BY <1>1, <1>2, ArgumentIs
  <2> QED
    BY <2>1, CommandLineAssumption
<1>4. p0 = <<current, 1>> /\ p0[1] = current /\ p0[1] \in Words
  OBVIOUS
<1>5. Parses("directory", t) /\ Parses("superfluous", t)
  BY Directory, Superfluous DEF Parses, IsNumeric
<1>6. /\ next_positional' = 2
      /\ IF p0 \in DirectoryWords THEN parse_option("directory", t)
                                  ELSE parse_option("superfluous", t)
  BY <1>4, PositionalIs, DirectoryWordIs
<1>7. \A r \in Options : \A p \in Uses(r) :
          /\ Before(p)' <=> (Before(p) \/ p = p0)
          /\ Before(p) => NotAfter(p, p0)
  BY <1>1, AllPlacesAre DEF Moved
<1>8. /\ DOMAIN results' \subseteq Options /\ \A p \in DOMAIN results' : results'[p] \in Nat
      /\ DOMAIN store' = Options /\ phase' = phase
      /\ store'["superfluous"] \in Nat /\ store'["superfluous"] >= store["superfluous"]
      /\ p0 \notin DirectoryWords => store'["superfluous"] >= TokensIn(t)
  <2>1. CASE p0 \in DirectoryWords
    <3>1. parse_option("directory", t) /\ "directory" \in Options
      BY <1>6, <2>1, Directory
    <3> HIDE DEF t
    <3> QED
      BY <1>3, <1>5, <2>1, <3>1, ParsedKeepsState
  <2>2. CASE p0 \notin DirectoryWords
    <3>1. parse_option("superfluous", t) /\ "superfluous" \in Options
      BY <1>6, <2>2, Superfluous
    <3> HIDE DEF t
    <3> QED
      BY <1>3, <1>5, <2>2, <3>1, ParsedKeepsState
  <2> QED
    BY <2>1, <2>2
<1>9. UseInv'
  <2>1. CASE p0 \in DirectoryWords
    <3>1. p0 \in Uses("directory") /\ parse_option("directory", t)
      BY <1>6, <2>1 DEF Uses
    <3>2. HasText(p0) /\ TextAt(p0) = t
      BY <1>4 DEF HasText, TextAt
    <3> HIDE DEF t, p0
    <3> QED
      BY <1>5, <1>7, <3>1, <3>2, Directory, ValueIsGiven
  <2>2. CASE p0 \notin DirectoryWords
    <3>1. \A r \in Options : p0 \notin Uses(r)
      BY <1>1, <1>4, <2>2, PlacesAre
    <3>2. \A r \in Options : \A p \in Uses(r) : Before(p)' <=> Before(p)
      BY <1>7, <3>1
    <3>3. /\ results' = CountOneMore("superfluous")
          /\ store' = [store EXCEPT !["superfluous"] = Parsed("superfluous", t)]
      BY <1>5, <1>6, <2>2 DEF parse_option
    <3>4. \A r \in Options : r # "superfluous" => Count(r)' = Count(r) /\ store'[r] = store[r]
      <4>1. ASSUME NEW r \in Options, r # "superfluous" PROVE Count(r)' = Count(r)
        <5>1. /\ DOMAIN results' = DOMAIN results \cup {"superfluous"}
              /\ \A p \in DOMAIN results : p # "superfluous" => results'[p] = results[p]
          BY <3>3, CountIs, Superfluous
        <5> QED
          BY <4>1, <5>1 DEF Count
      <4>2. ASSUME NEW r \in Options, r # "superfluous" PROVE store'[r] = store[r]
        BY <3>3, <4>2 DEF StateInv
      <4> QED
        BY <4>1, <4>2
    <3> QED
      BY <3>2, <3>4, NothingIsGiven
  <2> QED
    BY <2>1, <2>2
<1>10. WordInv'
  <2>1. ~(\A i \in Words' : ~(i < current'))
    BY <1>1
  <2>2. ASSUME NEW i \in Words', i < current'
        PROVE  <<i, 1>> \in DirectoryWords' \/ TokensIn(argv'[i].text) <= store'["superfluous"]
    <3>1. CASE i < current
      <4>1. <<i, 1>> \in DirectoryWords \/ TokensIn(argv[i].text) <= store["superfluous"]
        BY <1>1, <3>1 DEF WordInv
      <4>2. store["superfluous"] \in Nat /\ TokensIn(argv[i].text) \in Nat
        BY <1>1, <1>3 DEF StateInv
      <4> QED
        BY <1>1, <1>8, <4>1, <4>2
    <3>2. CASE i = current
      <4>1. <<i, 1>> = p0 /\ argv'[i].text = t /\ TokensIn(t) \in Nat
        BY <1>1, <1>3, <1>4, <3>2
      <4> HIDE DEF t, p0
      <4> QED
        BY <1>1, <1>8, <4>1
    <3>3. i \in Nat
      BY <1>1, <1>2
    <3> QED
      BY <1>1, <2>2, <3>1, <3>2, <3>3
  <2> QED
    BY <1>6, <2>1, <2>2 DEF WordInv
<1> QED
  BY <1>6, <1>8, <1>9, <1>10

-----------------------------------------------------------------------------
(* Options *)

\* What holds of the names of the argument that is looked at.
LEMMA NameAt ==
  ASSUME StateInv, PlaceInv, NEW kind \in {"cluster", "long", "assigned"}, At(kind),
         Exists(argv[current].names[letter])
  PROVE  LET o == OptionNamed(argv[current].names[letter]) IN
         /\ letter \in 1..Len(argv[current].names) /\ o \in Options
         /\ <<current, letter>> \in Places(o) /\ <<current, letter>> \in Uses(o)
         /\ current \notin Words /\ current \in Flags
         /\ Names(argv[current]) = argv[current].names
         /\ letter \in DOMAIN Names(argv[current])
         /\ letter = Len(argv[current].names) =>
                (TakesNext(argv[current]) <=> kind \in {"cluster", "long"} /\ ~HasImplicit(o))
<1> DEFINE o == OptionNamed(argv[current].names[letter])
<1>1. /\ argv \in Seq(Arguments) /\ current \in 1..Len(argv) /\ current \in Flags
      /\ argv[current].kind = kind /\ current \notin Words
      /\ kind # "cluster" => letter = 1
      /\ kind = "cluster" => letter \in 1..Len(argv[current].names)
  BY AtIs
<1>2. /\ Names(argv[current]) = argv[current].names
      /\ DOMAIN Names(argv[current]) = 1..Len(argv[current].names)
      /\ Len(argv[current].names) \in Nat \ {0}
  BY <1>1, NamesAre
<1>3. letter \in 1..Len(argv[current].names) /\ letter \in Nat \ {0}
  BY <1>1, <1>2
<1>4. o \in Options
  BY NamesLead
<1>5. <<current, letter>> \in Places(o)
  <2>1. <<current, letter>> \in NamePlaces
    BY <1>1, <1>2, <1>3, NamePlacesAre
  <2> QED
    BY <1>1, <1>2, <2>1 DEF Places
<1>6. letter = Len(argv[current].names) =>
          (TakesNext(argv[current]) <=> kind \in {"cluster", "long"} /\ ~HasImplicit(o))
  BY <1>1 DEF TakesNext
<1> HIDE DEF o
<1>7. <<current, letter>> \in Uses(o)
  BY <1>5 DEF Uses
<1> QED
  BY <1>1, <1>2, <1>3, <1>4, <1>5, <1>6, <1>7 DEF o

\* An option has got its text, which is its value or a fault.
LEMMA OptionIsGiven ==
  ASSUME StateInv, UseInv, UNCHANGED given, Moved,
         NEW o \in Options, NEW t \in Texts, parse_option(o, t),
         <<current, letter>> \in Uses(o), HasText(<<current, letter>>),
         TextAt(<<current, letter>>) = t
  PROVE  /\ DOMAIN results' \subseteq Options /\ \A p \in DOMAIN results' : results'[p] \in Nat
         /\ DOMAIN store' = Options
         /\ store'["superfluous"] \in Nat /\ store'["superfluous"] >= store["superfluous"]
         /\ \/ phase' = phase /\ UseInv'
            \/ phase' = "argument_incorrect_type" /\ Fault("argument_incorrect_type")
<1>1. argv \in Seq(Arguments)
  BY DEF StateInv
<1>2. CASE Parses(o, t)
  <2>1. \A r \in Options : \A p \in Uses(r) :
            /\ Before(p)' <=> (Before(p) \/ p = <<current, letter>>)
            /\ Before(p) => NotAfter(p, <<current, letter>>)
    BY <1>1, AllPlacesAre DEF Moved
  <2>2. UseInv'
    BY <1>2, <2>1, ValueIsGiven
  <2> QED
    BY <1>2, <2>2, ParsedKeepsState
<1>3. CASE ~Parses(o, t)
  <2>1. phase' = "argument_incorrect_type"
    BY <1>3 DEF parse_option
  <2>2. Fault("argument_incorrect_type")
    BY <1>3 DEF Fault
  <2> QED
    BY <2>1, <2>2, ParsedKeepsState
<1> QED
  BY <1>2, <1>3

-----------------------------------------------------------------------------
(* The steps of parse_arguments() *)

\* parse_arguments() goes on, ...
LEMMA GoesOn ==
  ASSUME IInv, UNCHANGED given, phase' \in Reading, current' \in Nat, letter' \in Nat,
         next_positional' \in {1, 2},
         DOMAIN results' \subseteq Options, \A p \in DOMAIN results' : results'[p] \in Nat,
         DOMAIN store' = Options, store'["superfluous"] \in Nat,
         PlaceInv', UseInv', WordInv', NameInv'
  PROVE  IInv'
<1>1. StateInv'
  BY DEF IInv, StateInv, given
<1>2. FaultInv'
  BY Phases DEF FaultInv
<1> QED
  BY <1>1, <1>2 DEF IInv, ReadInv

\* ... or it ends with an exception.
LEMMA EndsWithFault ==
  ASSUME IInv, UNCHANGED given, NEW e \in Exceptions, phase' = e, Fault(e),
         current' \in Nat, letter' \in Nat, next_positional' \in {1, 2},
         DOMAIN results' \subseteq Options, \A p \in DOMAIN results' : results'[p] \in Nat,
         DOMAIN store' = Options, store'["superfluous"] \in Nat
  PROVE  IInv'
<1>1. StateInv'
  BY DEF IInv, StateInv, given
<1>2. phase' \notin Reading /\ phase' \notin Refused \cup {"accepted"}
  BY Phases
<1>3. Fault(e)'
  BY FaultsStay DEF given
<1>4. FaultInv'
  BY <1>2, <1>3 DEF FaultInv
<1> QED
  BY <1>1, <1>2, <1>4 DEF IInv

LEMMA StateKept ==
  ASSUME StateInv, UNCHANGED <<results, store>>
  PROVE  /\ DOMAIN results' \subseteq Options /\ \A p \in DOMAIN results' : results'[p] \in Nat
         /\ DOMAIN store' = Options /\ store'["superfluous"] \in Nat
         /\ store'["superfluous"] >= store["superfluous"]
  BY DEF StateInv

LEMMA ExceptionsAre ==
  /\ "option_syntax" \in Exceptions /\ "option_not_exists" \in Exceptions
  /\ "option_requires_argument" \in Exceptions /\ "missing_argument" \in Exceptions
  /\ "argument_incorrect_type" \in Exceptions
  /\ {"start", "arguments", "defaults", "remaining", "parsed"} = Reading
  BY DEF Exceptions, Reading

\* An option that takes its text from its own argument ends that argument.
LEMMA OptionEndsArgument ==
  ASSUME IInv, NEW kind \in {"cluster", "long", "assigned"}, At(kind),
         letter = Len(argv[current].names), Exists(argv[current].names[letter]),
         UNCHANGED <<given, next_positional, consume_remaining>>, letter' = 1,
         NEW t \in Texts, parse_option(OptionNamed(argv[current].names[letter]), t),
         \/ ~TakesNext(argv[current]) /\ current' = current + 1
         \/ TakesNext(argv[current]) /\ current < Len(argv) /\ current' = current + 2,
         HasText(<<current, letter>>), TextAt(<<current, letter>>) = t
  PROVE  IInv'
<1> DEFINE o == OptionNamed(argv[current].names[letter])
<1>1. StateInv /\ PlaceInv /\ UseInv /\ WordInv /\ NameInv /\ phase = "arguments"
  BY ExceptionsAre DEF IInv, ReadInv, At
<1>2. /\ argv \in Seq(Arguments) /\ current \in 1..Len(argv) /\ Len(argv) \in Nat
      /\ letter \in Nat \ {0} /\ argv[current].kind = kind /\ kind # "malformed"
      /\ kind # "terminator"
  BY <1>1, AtIs
<1>3. /\ o \in Options /\ <<current, letter>> \in Uses(o)
      /\ current \notin Words /\ current \in Flags
      /\ Names(argv[current]) = argv[current].names
  BY <1>1, NameAt
<1>4. /\ current' \in {current + 1, current + 2}
      /\ current' = current + 2 => current + 1 \notin Flags \cup Words
      /\ current' \in 1..Cut /\ (current' <= Len(argv) => ~IsOperand[current'])
  <2>1. CASE ~TakesNext(argv[current]) /\ current' = current + 1
    <3>1. /\ current + 1 \in 1..Cut
          /\ current + 1 <= Len(argv) => ~IsOperand[current + 1]
      BY <1>1, <1>2, <2>1, NoOperandBehind
    <3> QED
      BY <1>2, <2>1, <3>1
  <2>2. CASE TakesNext(argv[current]) /\ current < Len(argv) /\ current' = current + 2
    <3>1. /\ current + 1 \notin Flags \cup Words /\ current + 2 \in 1..Cut
          /\ current + 2 <= Len(argv) => ~IsOperand[current + 2]
      BY <1>1, <1>2, <2>2, OperandBehind
    <3> QED
      BY <1>2, <2>2, <3>1
  <2> QED
    BY <2>1, <2>2
<1>5. \A p \in AllPlaces : p[1] = current => p[2] <= letter
  <2> SUFFICES ASSUME NEW p \in AllPlaces, p[1] = current PROVE p[2] <= letter
    OBVIOUS
  <2>1. p[2] \in DOMAIN Names(argv[current])
    BY <1>3 DEF AllPlaces
  <2> QED
    BY <1>2, <1>3, <2>1, NamesAre
<1>6. Moved
  BY <1>2, <1>4, <1>5, NextPlace
<1>7. PlaceInv'
  <2>1. CASE phase' = phase
    BY <1>1, <1>4, <2>1, PlaceIsNext
  <2>2. CASE phase' # phase
    <3>1. phase' = "argument_incorrect_type"
      BY <2>2 DEF parse_option
    <3> QED
      BY <3>1 DEF PlaceInv
  <2> QED
    BY <2>1, <2>2
<1>8. \A i \in Flags \cup Words : i < current' <=> (i < current \/ i = current)
  <2>1. \A i \in Flags \cup Words : i \in Nat
    BY <1>2, PlacesAre
  <2> QED
    BY <1>2, <1>4, <2>1
<1>9. NameInv'
  <2>1. \A i \in Flags : i < current' => i <= current
    BY <1>2, <1>8, PlacesAre
  <2> QED
    BY <1>1, <1>2, <1>3, <1>6, <2>1, NameIsRead
<1>10. /\ DOMAIN results' \subseteq Options /\ \A p \in DOMAIN results' : results'[p] \in Nat
       /\ DOMAIN store' = Options
       /\ store'["superfluous"] \in Nat /\ store'["superfluous"] >= store["superfluous"]
       /\ \/ phase' = phase /\ UseInv'
          \/ phase' = "argument_incorrect_type" /\ Fault("argument_incorrect_type")
  <2> HIDE DEF o
  <2>1. parse_option(o, t)
    BY DEF o
  <2> QED
    BY <1>1, <1>3, <1>6, <2>1, OptionIsGiven
<1>11. WordInv'
  <2>1. \A i \in Words : i < current' <=> i < current
    BY <1>3, <1>8
  <2> QED
    BY <1>1, <1>10, <2>1, NoWordIsRead
<1>12. current' \in Nat /\ letter' \in Nat /\ next_positional' \in {1, 2}
  BY <1>1, <1>2, <1>4 DEF StateInv
<1>13. CASE phase' = phase /\ UseInv'
  BY <1>1, <1>7, <1>9, <1>10, <1>11, <1>12, <1>13, ExceptionsAre, GoesOn
<1>14. CASE phase' = "argument_incorrect_type" /\ Fault("argument_incorrect_type")
  BY <1>10, <1>12, <1>14, ExceptionsAre, EndsWithFault
<1> QED
  BY <1>10, <1>13, <1>14

\* The last name of an argument takes the next argument for its text if it needs one.
LEMMA CheckedArg ==
  ASSUME IInv, NEW kind \in {"cluster", "long"}, At(kind),
         letter = Len(argv[current].names), Exists(argv[current].names[letter]),
         checked_parse_arg(OptionNamed(argv[current].names[letter])), letter' = 1,
         UNCHANGED <<given, next_positional, consume_remaining>>
  PROVE  IInv'
<1> DEFINE o == OptionNamed(argv[current].names[letter])
           p0 == <<current, letter>>
<1>1. StateInv /\ PlaceInv /\ phase = "arguments"
  BY ExceptionsAre DEF IInv, ReadInv, At
<1>2. /\ argv \in Seq(Arguments) /\ current \in 1..Len(argv) /\ Len(argv) \in Nat
      /\ argv[current].kind = kind
  BY <1>1, AtIs
<1>3. /\ o \in Options /\ p0 \in Uses(o) /\ p0 \in Places(o)
      /\ current \notin Words
      /\ TakesNext(argv[current]) <=> ~HasImplicit(o)
  <2>1. kind \in {"cluster", "long", "assigned"}
    OBVIOUS
  <2> QED
    BY <1>1, <2>1, NameAt
<1>4. p0[1] = current /\ p0[2] = letter
  OBVIOUS
<1>5. TextAt(p0) = IF HasImplicit(o) THEN TrueText ELSE argv[current + 1].text
  BY <1>2, <1>3, <1>4 DEF TextAt
<1>6. HasText(p0) <=> HasImplicit(o) \/ current < Len(argv)
  BY <1>2, <1>3, <1>4 DEF HasText
<1>7. CASE HasImplicit(o)
  <2>1. parse_option(o, TrueText) /\ current' = current + 1
    BY <1>7 DEF checked_parse_arg
  <2>2. TrueText \in Texts
    BY CommandLineAssumption
  <2> QED
    BY <1>3, <1>5, <1>6, <1>7, <2>1, <2>2, OptionEndsArgument
<1>8. CASE ~HasImplicit(o) /\ current < Len(argv)
  <2>1. parse_option(o, argv[current + 1].text) /\ current' = current + 2
    BY <1>2, <1>8 DEF checked_parse_arg
  <2>2. current + 1 \in 1..Len(argv)
    BY <1>2, <1>8
  <2>3. argv[current + 1].text \in Texts
    BY <1>2, <2>2, ArgumentIs
  <2> QED
    BY <1>3, <1>5, <1>6, <1>8, <2>1, <2>3, OptionEndsArgument
<1>9. CASE ~HasImplicit(o) /\ ~(current < Len(argv))
  <2>1. Throw("missing_argument") /\ current' = current
    BY <1>2, <1>9 DEF checked_parse_arg
  <2>2. Fault("missing_argument")
    BY <1>2, <1>3, <1>4, <1>6, <1>9 DEF Fault
  <2>3. phase' = "missing_argument" /\ UNCHANGED <<results, store>>
    BY <2>1 DEF Throw
  <2>4. current' \in Nat /\ letter' \in Nat /\ next_positional' \in {1, 2}
    BY <1>1, <2>1 DEF StateInv
  <2> QED
    BY <1>1, <2>2, <2>3, <2>4, StateKept, ExceptionsAre, EndsWithFault
<1> QED
  BY <1>7, <1>8, <1>9

LEMMA LastShortOptionKeeps == ASSUME IInv, LastShortOption PROVE IInv'
  BY CheckedArg DEF LastShortOption

LEMMA LongOptionKeeps == ASSUME IInv, LongOption PROVE IInv'
<1>1. /\ StateInv /\ PlaceInv /\ At("long")
  BY ExceptionsAre DEF IInv, ReadInv, At, LongOption
<1>2. /\ letter = 1 /\ argv[current].kind = "long"
      /\ argv \in Seq(Arguments) /\ current \in 1..Len(argv)
  BY <1>1, AtIs
<1>3. Len(argv[current].names) = 1
  BY <1>2, ArgumentIs
<1>4. /\ Exists(argv[current].names[letter])
      /\ checked_parse_arg(OptionNamed(argv[current].names[letter])) /\ letter' = 1
      /\ UNCHANGED <<given, next_positional, consume_remaining>>
  BY <1>2 DEF LongOption
<1> QED
  BY <1>1, <1>2, <1>3, <1>4, CheckedArg

LEMMA AssignedOptionKeeps == ASSUME IInv, AssignedOption PROVE IInv'
<1> DEFINE o == OptionNamed(argv[current].names[letter])
           t == argv[current].value
<1>1. /\ StateInv /\ PlaceInv /\ At("assigned")
  BY ExceptionsAre DEF IInv, ReadInv, At, AssignedOption
<1>2. /\ letter = 1 /\ argv[current].kind = "assigned"
      /\ argv \in Seq(Arguments) /\ current \in 1..Len(argv)
  BY <1>1, AtIs
<1>3. Len(argv[current].names) = 1 /\ t \in Texts
  BY <1>2, ArgumentIs
<1>4. /\ Exists(argv[current].names[letter]) /\ parse_option(o, t) /\ letter' = 1
      /\ current' = current + 1
      /\ UNCHANGED <<given, next_positional, consume_remaining>>
  BY <1>2 DEF AssignedOption
<1>5. current \notin Words /\ ~TakesNext(argv[current])
  BY <1>1, <1>2, <1>4, NameAt DEF TakesNext
<1>6. HasText(<<current, letter>>) /\ TextAt(<<current, letter>>) = t
  BY <1>2, <1>5 DEF HasText, TextAt
<1> HIDE DEF t
<1> QED
  BY <1>1, <1>2, <1>3, <1>4, <1>5, <1>6, OptionEndsArgument

LEMMA BeginKeeps == ASSUME IInv, Begin PROVE IInv'
<1>1. /\ phase = "start" /\ phase' = "arguments"
      /\ UNCHANGED <<given, argv, current, letter, next_positional, consume_remaining,
                     results, store>>
  BY DEF Begin, given, position
<1>2. StateInv /\ ReadInv
  BY <1>1, ExceptionsAre DEF IInv
<1>3. UNCHANGED <<Cut, IsOperand, Flags, Words>>
  BY <1>1, ArgumentsStay
<1>4. PlaceInv'
  BY <1>1, <1>2, <1>3 DEF PlaceInv, ReadInv
<1>5. UseInv'
  BY <1>1, <1>2, NothingIsGiven DEF Before, ReadInv, Count
<1>6. WordInv' /\ NameInv'
  BY <1>1, <1>2, ArgumentsStay DEF WordInv, NameInv, ReadInv, Before
<1>7. current' \in Nat /\ letter' \in Nat /\ next_positional' \in {1, 2}
  BY <1>1, <1>2 DEF StateInv
<1> QED
  BY <1>1, <1>2, <1>4, <1>5, <1>6, <1>7, StateKept, ExceptionsAre, GoesOn

\* No argument and no letter is read.
LEMMA NothingIsRead ==
  ASSUME StateInv, UseInv, WordInv, NameInv, UNCHANGED <<given, next_positional>>,
         \A p \in AllPlaces : Before(p)' <=> Before(p),
         \A i \in Flags \cup Words : i < current' <=> i < current,
         \A r \in Options : r # "superfluous" => Count(r)' = Count(r) /\ store'[r] = store[r],
         store'["superfluous"] \in Nat, store'["superfluous"] >= store["superfluous"]
  PROVE  UseInv' /\ WordInv' /\ NameInv'
<1>1. UNCHANGED <<argv, Flags>> /\ argv \in Seq(Arguments)
  BY ArgumentsStay DEF given, StateInv
<1>2. UseInv'
  BY <1>1, AllPlacesAre, NothingIsGiven
<1>3. WordInv'
  BY NoWordIsRead
<1>4. NameInv'
  <2>1. SUFFICES ASSUME NEW i \in Flags
                 PROVE  /\ i < current' => argv[i].kind # "malformed"
                        /\ \A k \in DOMAIN Names(argv[i]) :
                               Before(<<i, k>>)' => Exists(Names(argv[i])[k])
    BY <1>1 DEF NameInv
  <2>2. \A k \in DOMAIN Names(argv[i]) : Before(<<i, k>>)' => Before(<<i, k>>)
    BY <1>1, AllPlacesAre
  <2> QED
    BY <2>2 DEF NameInv
<1> QED
  BY <1>2, <1>3, <1>4

LEMMA TerminatorKeeps == ASSUME IInv, Terminator PROVE IInv'
<1>1. /\ At("terminator") /\ consume_remaining' = TRUE /\ current' = current + 1
      /\ phase' = "defaults"
      /\ UNCHANGED <<given, argv, letter, next_positional, results, store>>
  BY DEF Terminator, given
<1>2. StateInv /\ PlaceInv /\ UseInv /\ WordInv /\ NameInv
  BY <1>1, ExceptionsAre DEF IInv, ReadInv, At
<1>3. /\ argv \in Seq(Arguments) /\ Len(argv) \in Nat /\ current \in 1..Len(argv)
      /\ current = Cut /\ letter = 1
  BY <1>1, <1>2, AtIs
<1>4. UNCHANGED Cut
  BY <1>1, ArgumentsStay
<1>5. \A i \in Flags \cup Words : i \in Nat /\ i # current
  BY <1>3, PlacesAre DEF Flags, Words
<1>6. \A i \in Flags \cup Words : i < current' <=> i < current
  BY <1>1, <1>3, <1>5
<1>7. \A p \in AllPlaces : Before(p)' <=> Before(p)
  <2> SUFFICES ASSUME NEW p \in AllPlaces PROVE Before(p)' <=> Before(p)
    OBVIOUS
  <2>1. p[1] \in Flags \cup Words /\ p[2] \in Nat \ {0}
    BY <1>3, AllPlacesAre
  <2> QED
    BY <1>1, <1>3, <1>5, <1>6, <2>1 DEF Before
<1>8. UseInv' /\ WordInv' /\ NameInv'
  BY <1>1, <1>2, <1>6, <1>7, StateKept, NothingIsRead DEF Count
<1>9. PlaceInv'
  BY <1>1, <1>3, <1>4 DEF PlaceInv
<1>10. current' \in Nat /\ letter' \in Nat /\ next_positional' \in {1, 2}
  BY <1>1, <1>2, <1>3 DEF StateInv
<1> QED
  BY <1>1, <1>2, <1>8, <1>9, <1>10, StateKept, ExceptionsAre, GoesOn

LEMMA EndOfArgumentsKeeps == ASSUME IInv, EndOfArguments PROVE IInv'
<1>1. /\ phase = "arguments" /\ current > Len(argv) /\ phase' = "defaults"
      /\ UNCHANGED <<given, argv, current, letter, next_positional, consume_remaining,
                     results, store>>
  BY DEF EndOfArguments, given, position
<1>2. StateInv /\ PlaceInv /\ UseInv /\ WordInv /\ NameInv
  BY <1>1, ExceptionsAre DEF IInv, ReadInv
<1>3. /\ argv \in Seq(Arguments) /\ Len(argv) \in Nat /\ Cut \in 1..(Len(argv) + 1)
  BY <1>2, CutIs DEF StateInv
<1>4. current = Len(argv) + 1 /\ Cut = Len(argv) + 1 /\ letter = 1 /\ ~consume_remaining
  BY <1>1, <1>2, <1>3 DEF PlaceInv
<1>5. UNCHANGED Cut
  BY <1>1, ArgumentsStay
<1>6. UseInv' /\ WordInv' /\ NameInv'
  BY <1>1, <1>2, StateKept, NothingIsRead DEF Before, Count
<1>7. PlaceInv'
  BY <1>1, <1>3, <1>4, <1>5 DEF PlaceInv
<1>8. current' \in Nat /\ letter' \in Nat /\ next_positional' \in {1, 2}
  BY <1>1, <1>2 DEF StateInv
<1> QED
  BY <1>1, <1>2, <1>6, <1>7, <1>8, StateKept, ExceptionsAre, GoesOn

LEMMA MalformedKeeps == ASSUME IInv, Malformed PROVE IInv'
<1>1. /\ At("malformed") /\ phase' = "option_syntax"
      /\ UNCHANGED <<given, current, letter, next_positional, results, store>>
  BY DEF Malformed, Throw, position
<1>2. StateInv /\ PlaceInv
  BY <1>1, ExceptionsAre DEF IInv, ReadInv, At
<1>3. Fault("option_syntax")
  BY <1>1, <1>2, AtIs DEF Fault
<1>4. current' \in Nat /\ letter' \in Nat /\ next_positional' \in {1, 2}
  BY <1>1, <1>2 DEF StateInv
<1> QED
  BY <1>1, <1>2, <1>3, <1>4, StateKept, ExceptionsAre, EndsWithFault

LEMMA UnknownOptionKeeps == ASSUME IInv, UnknownOption PROVE IInv'
<1>1. /\ phase' = "option_not_exists"
      /\ UNCHANGED <<given, current, letter, next_positional, results, store>>
  BY DEF UnknownOption, Throw, position
<1>2. PICK kind \in {"cluster", "long", "assigned"} :
          At(kind) /\ ~Exists(argv[current].names[IF kind = "cluster" THEN letter ELSE 1])
  <2>1. CASE At("cluster") /\ ~Exists(argv[current].names[letter])
    BY <2>1
  <2>2. CASE At("long") /\ ~Exists(argv[current].names[1])
    BY <2>2
  <2>3. CASE At("assigned") /\ ~Exists(argv[current].names[1])
    BY <2>3
  <2> QED
    BY <2>1, <2>2, <2>3 DEF UnknownOption
<1>3. StateInv /\ PlaceInv
  BY <1>2, ExceptionsAre DEF IInv, ReadInv, At
<1>4. /\ argv \in Seq(Arguments) /\ current \in 1..Len(argv) /\ current \in Flags
      /\ argv[current].kind = kind
      /\ kind = "cluster" => letter \in 1..Len(argv[current].names)
  BY <1>2, <1>3, AtIs
<1>5. /\ Names(argv[current]) = argv[current].names
      /\ DOMAIN Names(argv[current]) = 1..Len(argv[current].names)
      /\ Len(argv[current].names) \in Nat \ {0}
  BY <1>4, NamesAre
<1>6. (IF kind = "cluster" THEN letter ELSE 1) \in DOMAIN Names(argv[current])
  <2>1. CASE kind = "cluster"
    BY <1>4, <1>5, <2>1
  <2>2. CASE kind # "cluster"
    <3>1. \A n \in Nat \ {0} : 1 \in 1..n
      OBVIOUS
    <3> QED
      BY <1>5, <2>2, <3>1
  <2> QED
    BY <2>1, <2>2
<1>7. Fault("option_not_exists")
  BY <1>2, <1>4, <1>5, <1>6 DEF Fault
<1>8. current' \in Nat /\ letter' \in Nat /\ next_positional' \in {1, 2}
  BY <1>1, <1>3 DEF StateInv
<1> QED
  BY <1>1, <1>3, <1>7, <1>8, StateKept, ExceptionsAre, EndsWithFault

LEMMA ShortOptionKeeps == ASSUME IInv, ShortOption PROVE IInv'
<1> DEFINE o == OptionNamed(argv[current].names[letter])
           p0 == <<current, letter>>
<1>1. /\ At("cluster") /\ letter < Len(argv[current].names)
      /\ Exists(argv[current].names[letter])
      /\ IF HasImplicit(o) THEN parse_option(o, TrueText) ELSE Throw("option_requires_argument")
      /\ letter' = letter + 1
      /\ UNCHANGED <<given, argv, current, next_positional, consume_remaining>>
  BY DEF ShortOption, given
<1>2. StateInv /\ PlaceInv /\ UseInv /\ WordInv /\ NameInv /\ phase = "arguments"
  BY <1>1, ExceptionsAre DEF IInv, ReadInv, At
<1>3. /\ argv \in Seq(Arguments) /\ current \in 1..Len(argv) /\ Len(argv) \in Nat
      /\ letter \in Nat \ {0} /\ argv[current].kind = "cluster"
  BY <1>1, <1>2, AtIs
<1>4. /\ o \in Options /\ p0 \in Uses(o) /\ p0 \in Places(o)
      /\ current \notin Words /\ current \in Flags
  <2>1. "cluster" \in {"cluster", "long", "assigned"}
    OBVIOUS
  <2> QED
    BY <1>1, <1>2, <2>1, NameAt
<1>5. p0[1] = current /\ p0[2] = letter
  OBVIOUS
<1>6. Len(argv[current].names) \in Nat \ {0}
  BY <1>3, ArgumentIs
<1>7. current' \in Nat /\ letter' \in Nat /\ next_positional' \in {1, 2}
  BY <1>1, <1>2 DEF StateInv
<1> HIDE DEF o, p0
<1>8. CASE HasImplicit(o)
  <2>1. Moved
    BY <1>1, <1>3, NextPlace
  <2>2. HasText(p0) /\ TextAt(p0) = TrueText
    BY <1>3, <1>4, <1>5, <1>8 DEF HasText, TextAt, o
  <2>3. TrueText \in Texts
    BY CommandLineAssumption
  <2>4. /\ DOMAIN results' \subseteq Options /\ \A p \in DOMAIN results' : results'[p] \in Nat
        /\ DOMAIN store' = Options
        /\ store'["superfluous"] \in Nat /\ store'["superfluous"] >= store["superfluous"]
        /\ \/ phase' = phase /\ UseInv'
           \/ phase' = "argument_incorrect_type" /\ Fault("argument_incorrect_type")
    BY <1>1, <1>2, <1>4, <1>8, <2>1, <2>2, <2>3, OptionIsGiven DEF p0
  <2>5. CASE phase' = phase /\ UseInv'
    <3>1. UNCHANGED <<Cut, IsOperand>>
      BY <1>1, ArgumentsStay
    <3>2. PlaceInv'
      <4>1. letter' \in 1..Len(argv[current].names)
        BY <1>1, <1>3, <1>6
      <4> QED
        BY <1>1, <1>2, <1>3, <2>5, <3>1, <4>1 DEF PlaceInv
    <3>3. WordInv'
      BY <1>1, <1>2, <2>4, NoWordIsRead
    <3>4. NameInv'
      <4>1. argv[current].kind # "malformed" /\ Names(argv[current]) = argv[current].names
        BY <1>3, NamesAre
      <4>2. \A i \in Flags : i < current' => i <= current
        BY <1>1, <1>3, PlacesAre
      <4> QED
        BY <1>1, <1>2, <2>1, <4>1, <4>2, NameIsRead
    <3> QED
      BY <1>1, <1>2, <1>7, <2>4, <2>5, <3>2, <3>3, <3>4, ExceptionsAre, GoesOn
  <2>6. CASE phase' = "argument_incorrect_type" /\ Fault("argument_incorrect_type")
    BY <1>1, <1>7, <2>4, <2>6, ExceptionsAre, EndsWithFault
  <2> QED
    BY <2>4, <2>5, <2>6
<1>9. CASE ~HasImplicit(o)
  <2>1. phase' = "option_requires_argument" /\ UNCHANGED <<results, store>>
    BY <1>1, <1>9 DEF Throw
  <2>2. ~HasText(p0) /\ p0[2] < Len(argv[p0[1]].names)
    BY <1>1, <1>3, <1>4, <1>5, <1>6, <1>9 DEF HasText, o
  <2>3. Fault("option_requires_argument")
    BY <1>4, <2>2 DEF Fault
  <2> QED
    BY <1>1, <1>2, <1>7, <2>1, <2>3, StateKept, ExceptionsAre, EndsWithFault
<1> QED
  BY <1>8, <1>9

LEMMA PositionalKeeps == ASSUME IInv, Positional PROVE IInv'
<1>1. /\ At("word") /\ consume_positional(argv[current].text) /\ current' = current + 1
      /\ UNCHANGED <<given, argv, letter, consume_remaining>>
  BY DEF Positional, given
<1>2. StateInv /\ PlaceInv /\ UseInv /\ WordInv /\ NameInv /\ phase = "arguments"
  BY <1>1, ExceptionsAre DEF IInv, ReadInv, At
<1>3. /\ argv \in Seq(Arguments) /\ current \in 1..Len(argv) /\ Len(argv) \in Nat
      /\ letter = 1 /\ argv[current].kind = "word" /\ current \in Words
  BY <1>1, <1>2, AtIs
<1>4. \A p \in AllPlaces : p[1] = current => p[2] <= letter
  BY <1>3 DEF AllPlaces
<1>5. Moved
  BY <1>1, <1>3, <1>4, NextPlace
<1>6. /\ next_positional' \in {1, 2} /\ phase' = phase
      /\ DOMAIN results' \subseteq Options /\ \A p \in DOMAIN results' : results'[p] \in Nat
      /\ DOMAIN store' = Options /\ store'["superfluous"] \in Nat
      /\ UseInv' /\ WordInv'
  BY <1>1, <1>2, <1>3, <1>5, ExceptionsAre, WordIsRead
<1>7. PlaceInv'
  <2>1. ~TakesNext(argv[current])
    BY <1>3 DEF TakesNext
  <2>2. /\ current + 1 \in 1..Cut
        /\ current + 1 <= Len(argv) => ~IsOperand[current + 1]
    BY <1>1, <1>2, <2>1, NoOperandBehind
  <2> QED
    BY <1>1, <1>2, <1>3, <1>6, <2>2, PlaceIsNext
<1>8. NameInv'
  <2>1. \A i \in Flags : i < current' => i <= current
    BY <1>1, <1>3, PlacesAre
  <2>2. argv[current].kind # "malformed" /\ DOMAIN Names(argv[current]) = {}
    BY <1>3 DEF Names
  <2> QED
    BY <1>1, <1>2, <1>5, <2>1, <2>2, NameIsRead
<1>9. current' \in Nat /\ letter' \in Nat
  BY <1>1, <1>2 DEF StateInv
<1> QED
  BY <1>1, <1>2, <1>6, <1>7, <1>8, <1>9, ExceptionsAre, GoesOn

LEMMA ConsumeRemainingKeeps == ASSUME IInv, ConsumeRemaining PROVE IInv'
<1>1. /\ phase = "remaining" /\ current <= Len(argv)
      /\ consume_positional(argv[current].text) /\ current' = current + 1
      /\ UNCHANGED <<given, argv, letter, consume_remaining>>
  BY DEF ConsumeRemaining, given
<1>2. StateInv /\ PlaceInv /\ UseInv /\ WordInv /\ NameInv
  BY <1>1, ExceptionsAre DEF IInv, ReadInv
<1>3. argv \in Seq(Arguments) /\ Len(argv) \in Nat /\ Cut \in 1..(Len(argv) + 1)
  BY <1>2, CutIs DEF StateInv
<1>4. /\ letter = 1 /\ Cut <= Len(argv) /\ current \in (Cut + 1)..Len(argv)
      /\ current \in 1..Len(argv)
  BY <1>1, <1>2, <1>3 DEF PlaceInv
<1>5. current \in Words /\ current \notin Flags
  BY <1>3, <1>4 DEF Words, Flags
<1>6. \A p \in AllPlaces : p[1] = current => p[2] <= letter
  BY <1>4, <1>5 DEF AllPlaces
<1>7. Moved
  BY <1>1, <1>3, <1>4, <1>6, NextPlace
<1>8. /\ next_positional' \in {1, 2} /\ phase' = phase
      /\ DOMAIN results' \subseteq Options /\ \A p \in DOMAIN results' : results'[p] \in Nat
      /\ DOMAIN store' = Options /\ store'["superfluous"] \in Nat
      /\ UseInv' /\ WordInv'
  BY <1>1, <1>2, <1>4, <1>5, <1>7, ExceptionsAre, WordIsRead
<1>9. PlaceInv'
  <2>1. UNCHANGED Cut
    BY <1>1, ArgumentsStay
  <2> QED
    BY <1>1, <1>3, <1>4, <1>8, <2>1 DEF PlaceInv
<1>10. NameInv'
  <2>1. \A i \in Flags : i < current' => i <= current
    BY <1>1, <1>4, <1>3, PlacesAre
  <2> QED
    BY <1>1, <1>2, <1>5, <1>7, <2>1, NameIsRead
<1>11. current' \in Nat /\ letter' \in Nat
  BY <1>1, <1>2 DEF StateInv
<1> QED
  BY <1>1, <1>2, <1>8, <1>9, <1>10, <1>11, ExceptionsAre, GoesOn

LEMMA ParseDefaultsKeeps == ASSUME IInv, ParseDefaults PROVE IInv'
<1>1. /\ phase = "defaults" /\ results' = [o \in Options |-> Count(o)]
      /\ store' = [o \in Options |->
                      IF Count(o) = 0 /\ HasDefault(o) THEN DefaultValue(o) ELSE store[o]]
      /\ phase' = (IF consume_remaining THEN "remaining" ELSE "parsed")
      /\ UNCHANGED <<given, argv, current, letter, next_positional, consume_remaining>>
  BY DEF ParseDefaults, given, position
<1>2. StateInv /\ PlaceInv /\ UseInv /\ WordInv /\ NameInv
  BY <1>1, ExceptionsAre DEF IInv, ReadInv
<1>3. /\ argv \in Seq(Arguments) /\ Len(argv) \in Nat /\ Cut \in 1..(Len(argv) + 1)
  BY <1>2, CutIs DEF StateInv
<1>4. /\ DOMAIN results' = Options /\ \A o \in Options : results'[o] = Count(o)
      /\ \A o \in Options : Count(o) \in Nat
  BY <1>1, <1>2, CountIs
<1>5. DOMAIN store' = Options /\ store'["superfluous"] = store["superfluous"]
  BY <1>1, Superfluous DEF HasDefault
<1>6. ASSUME NEW o \in Options, o # "superfluous"
      PROVE  Count(o)' = Count(o) /\ store'[o] = store[o]
  <2>1. Count(o)' = Count(o)
    BY <1>4 DEF Count
  <2>2. Count(o) = 0 => store[o] = Storage(o)
    BY <1>2, <1>6 DEF UseInv
  <2>3. HasDefault(o) => Storage(o) = DefaultValue(o)
    <3>1. HasDefault(o) => o # "directory" /\ o # "superfluous"
      BY Directory, Superfluous DEF HasDefault
    <3> QED
      BY <3>1 DEF Storage
  <2>4. store'[o] = IF Count(o) = 0 /\ HasDefault(o) THEN DefaultValue(o) ELSE store[o]
    BY <1>1
  <2> QED
    BY <2>1, <2>2, <2>3, <2>4
<1>7. store'["superfluous"] \in Nat /\ store'["superfluous"] >= store["superfluous"]
  BY <1>2, <1>5 DEF StateInv
<1>8. UseInv' /\ WordInv' /\ NameInv'
  BY <1>1, <1>2, <1>6, <1>7, NothingIsRead DEF Before
<1>9. UNCHANGED Cut
  BY <1>1, ArgumentsStay
<1>10. PlaceInv'
  <2>1. CASE consume_remaining
    BY <1>1, <1>2, <1>3, <1>9, <2>1 DEF PlaceInv
  <2>2. CASE ~consume_remaining
    BY <1>1, <1>2, <1>3, <1>9, <2>2 DEF PlaceInv
  <2> QED
    BY <2>1, <2>2
<1>11. current' \in Nat /\ letter' \in Nat /\ next_positional' \in {1, 2}
  BY <1>1, <1>2 DEF StateInv
<1>12. phase' \in Reading
  BY <1>1, ExceptionsAre
<1> QED
  BY <1>1, <1>4, <1>5, <1>7, <1>8, <1>10, <1>11, <1>12, GoesOn

LEMMA EndOfRemainingKeeps == ASSUME IInv, EndOfRemaining PROVE IInv'
<1>1. /\ phase = "remaining" /\ current > Len(argv) /\ phase' = "parsed"
      /\ UNCHANGED <<given, argv, current, letter, next_positional, consume_remaining,
                     results, store>>
  BY DEF EndOfRemaining, given, position
<1>2. StateInv /\ PlaceInv /\ UseInv /\ WordInv /\ NameInv
  BY <1>1, ExceptionsAre DEF IInv, ReadInv
<1>3. argv \in Seq(Arguments) /\ Len(argv) \in Nat
  BY <1>2, CutIs DEF StateInv
<1>4. current = Len(argv) + 1 /\ letter = 1
  BY <1>1, <1>2, <1>3 DEF PlaceInv
<1>5. UseInv' /\ WordInv' /\ NameInv'
  BY <1>1, <1>2, StateKept, NothingIsRead DEF Before, Count
<1>6. PlaceInv'
  BY <1>1, <1>4 DEF PlaceInv
<1>7. current' \in Nat /\ letter' \in Nat /\ next_positional' \in {1, 2}
  BY <1>1, <1>2 DEF StateInv
<1> QED
  BY <1>1, <1>2, <1>5, <1>6, <1>7, StateKept, ExceptionsAre, GoesOn

\* When all has been read, each place has been, and none of them is at fault.
LEMMA AllIsRead ==
  ASSUME IInv, phase = "parsed"
  PROVE  /\ \A i \in Flags \cup Words : i < current
         /\ \A p \in AllPlaces : Before(p)
         /\ \A o \in Options : Read(o) = Uses(o)
<1>1. StateInv /\ PlaceInv
  BY ExceptionsAre DEF IInv, ReadInv
<1>2. argv \in Seq(Arguments) /\ Len(argv) \in Nat /\ current = Len(argv) + 1
  BY <1>1, CutIs DEF StateInv, PlaceInv
<1>3. \A i \in Flags \cup Words : i < current
  BY <1>2, PlacesAre
<1>4. \A p \in AllPlaces : Before(p)
  BY <1>2, <1>3, AllPlacesAre DEF Before
<1>5. \A o \in Options : Read(o) = Uses(o)
  BY <1>2, <1>4, AllPlacesAre DEF Read
<1> QED
  BY <1>3, <1>4, <1>5

LEMMA ReadWithoutFault ==
  ASSUME IInv, phase = "parsed"
  PROVE  NoFault
<1>1. StateInv /\ UseInv /\ NameInv
  BY ExceptionsAre DEF IInv, ReadInv
<1>2. argv \in Seq(Arguments)
  BY <1>1 DEF StateInv
<1>3. \A i \in Flags : argv[i].kind # "malformed"
  BY <1>1, AllIsRead DEF NameInv
<1>4. \A i \in Flags : \A k \in DOMAIN Names(argv[i]) : Exists(Names(argv[i])[k])
  <2> SUFFICES ASSUME NEW i \in Flags, NEW k \in DOMAIN Names(argv[i])
               PROVE  Exists(Names(argv[i])[k])
    OBVIOUS
  <2>1. Before(<<i, k>>)
    BY <1>2, AllPlacesAre, AllIsRead
  <2> QED
    BY <1>1, <2>1 DEF NameInv
<1>5. \A o \in Options : \A p \in Uses(o) : HasText(p) /\ Parses(o, TextAt(p))
  BY <1>1, AllIsRead DEF UseInv
<1>6. \A o \in Options : Places(o) \subseteq Uses(o)
  BY DEF Uses
<1>7. SUFFICES ASSUME NEW e \in Exceptions PROVE ~Fault(e)
  BY DEF NoFault
<1>8. CASE e = "option_syntax"
  BY <1>3, <1>8 DEF Fault
<1>9. CASE e = "option_not_exists"
  BY <1>4, <1>9 DEF Fault
<1>10. CASE e = "option_requires_argument"
  BY <1>5, <1>6, <1>10 DEF Fault
<1>11. CASE e = "missing_argument"
  BY <1>5, <1>6, <1>11 DEF Fault
<1>12. CASE e = "argument_incorrect_type"
  BY <1>5, <1>12 DEF Fault
<1> QED
  BY <1>8, <1>9, <1>10, <1>11, <1>12 DEF Exceptions

\* The arguments are accepted, or refused for what they say.
LEMMA DecisionKeeps ==
  ASSUME IInv, phase = "parsed", phase' \in Refused \cup {"accepted"}, UNCHANGED given,
         UNCHANGED <<current, letter, next_positional, results>>,
         DOMAIN store' = Options, store'["superfluous"] = store["superfluous"]
  PROVE  IInv'
<1>1. StateInv
  BY DEF IInv
<1>2. StateInv'
  BY <1>1 DEF StateInv, given
<1>3. NoFault'
  BY ReadWithoutFault, FaultsStay DEF given, NoFault
<1> QED
  BY <1>2, <1>3, Phases DEF IInv, FaultInv

LEMMA RefuseKeeps == ASSUME IInv, Refuse PROVE IInv'
<1>1. Objection \in Refused
  BY DEF Refuse, Objection, Refused
<1> QED
  BY <1>1, DecisionKeeps DEF Refuse, position, IInv, StateInv

LEMMA AcceptKeeps == ASSUME IInv, Accept PROVE IInv'
<1>1. DOMAIN store' = Options /\ store'["superfluous"] = store["superfluous"]
  BY DEF Accept, IInv, StateInv
<1> QED
  BY <1>1, DecisionKeeps DEF Accept, position

-----------------------------------------------------------------------------
(* The theorems *)

LEMMA InitIsRight == Init => IInv
<1> SUFFICES ASSUME Init PROVE IInv
  OBVIOUS
<1>1. argv \in Seq(Arguments)
  <2>1. PICK n \in 0..MaxArguments : argv \in [1..n -> Arguments]
    BY DEF Init
  <2>2. n \in Nat
    BY CommandLineAssumption
  <2> QED
    BY <2>1, <2>2
<1>2. /\ hardware_concurrency \in Hardwares /\ phase = "start"
      /\ current = 1 /\ letter = 1 /\ next_positional = 1 /\ ~consume_remaining
      /\ DOMAIN results = {} /\ store = [o \in Options |-> Storage(o)]
  BY DEF Init
<1>3. store["superfluous"] = 0
  <2>1. Storage("superfluous") = 0
    BY Superfluous DEF Storage, HasDefault
  <2> QED
    BY <1>2, <2>1, Superfluous
<1>4. StateInv
  BY <1>1, <1>2, <1>3, ExceptionsAre DEF StateInv
<1>5. /\ Len(argv) \in Nat /\ Cut \in 1..(Len(argv) + 1)
      /\ \A i \in 1..Len(argv) : ~(i < current)
  BY <1>1, <1>2, CutIs
<1>6. PlaceInv
  <2>1. current <= Len(argv) => ~IsOperand[current]
    <3>1. SUFFICES ASSUME 1 <= Len(argv) PROVE ~IsOperand[1]
      BY <1>2
    <3>2. 1 \in 1..Len(argv) /\ ~(1 > 1)
      BY <1>5, <3>1
    <3>3. IsOperand[1] = (1 > 1 /\ ~IsOperand[1 - 1] /\ TakesNext(argv[1 - 1]))
      BY <1>1, <3>2, OperandIs, Zenon
    <3> QED
      BY <3>2, <3>3
  <2> QED
    BY <1>2, <1>5, <2>1 DEF PlaceInv
<1>7. \A p \in AllPlaces : ~Before(p)
  <2> SUFFICES ASSUME NEW p \in AllPlaces PROVE ~Before(p)
    OBVIOUS
  <2>1. p[1] \in 1..Len(argv) /\ p[2] \in Nat \ {0}
    BY <1>1, AllPlacesAre
  <2> QED
    BY <1>2, <1>5, <2>1 DEF Before
<1>8. UseInv
  <2>1. \A o \in Options : Read(o) = {}
    BY <1>1, <1>7, AllPlacesAre DEF Read
  <2>2. \A o \in Options : Count(o) = 0 /\ store[o] = Storage(o)
    BY <1>2 DEF Count
  <2> QED
    BY <2>1, <2>2 DEF UseInv
<1>9. WordInv
  BY <1>1, <1>2, <1>5, PlacesAre DEF WordInv
<1>10. NameInv
  <2>1. \A i \in Flags : ~(i < current)
    BY <1>1, <1>5, PlacesAre
  <2> QED
    BY <1>1, <1>7, <2>1, AllPlacesAre DEF NameInv
<1>11. FaultInv
  BY <1>2, Phases, ExceptionsAre DEF FaultInv
<1> QED
  BY <1>4, <1>6, <1>8, <1>9, <1>10, <1>11 DEF IInv, ReadInv

LEMMA StutterKeeps == ASSUME IInv, UNCHANGED vars PROVE IInv'
<1>1. /\ UNCHANGED <<given, argv, hardware_concurrency, phase, current, letter,
                     next_positional, consume_remaining, results, store>>
  BY DEF vars, given, position
<1>2. StateInv'
  BY <1>1 DEF IInv, StateInv
<1>3. FaultInv'
  BY <1>1, FaultsStay DEF IInv, FaultInv, NoFault
<1>4. ASSUME phase \in Reading PROVE ReadInv'
  <2>1. PlaceInv /\ UseInv /\ WordInv /\ NameInv /\ StateInv
    BY <1>4 DEF IInv, ReadInv
  <2>2. PlaceInv'
    BY <1>1, <2>1, ArgumentsStay DEF PlaceInv
  <2>3. UseInv' /\ WordInv' /\ NameInv'
    BY <1>1, <2>1, StateKept, NothingIsRead DEF Before, Count
  <2> QED
    BY <2>2, <2>3 DEF ReadInv
<1> QED
  BY <1>1, <1>2, <1>3, <1>4 DEF IInv

LEMMA StepsKeep == IInv /\ [Next]_vars => IInv'
<1> SUFFICES ASSUME IInv, [Next]_vars PROVE IInv'
  OBVIOUS
<1>1. CASE Begin
  BY <1>1, BeginKeeps
<1>2. CASE Terminator \/ EndOfArguments \/ Malformed \/ UnknownOption
  BY <1>2, TerminatorKeeps, EndOfArgumentsKeeps, MalformedKeeps, UnknownOptionKeeps
<1>3. CASE Positional \/ ConsumeRemaining
  BY <1>3, PositionalKeeps, ConsumeRemainingKeeps
<1>4. CASE ShortOption \/ LastShortOption \/ LongOption \/ AssignedOption
  BY <1>4, ShortOptionKeeps, LastShortOptionKeeps, LongOptionKeeps, AssignedOptionKeeps
<1>5. CASE ParseDefaults \/ EndOfRemaining
  BY <1>5, ParseDefaultsKeeps, EndOfRemainingKeeps
<1>6. CASE Refuse \/ Accept
  BY <1>6, RefuseKeeps, AcceptKeeps
<1>7. CASE UNCHANGED vars
  BY <1>7, StutterKeeps
<1> QED
  BY <1>1, <1>2, <1>3, <1>4, <1>5, <1>6, <1>7 DEF Next, parse_arguments, Parse

LEMMA Inductive == Spec => []IInv
  BY InitIsRight, StepsKeep, PTL DEF Spec

\* Whatever the arguments are, an exception of the parser tells the user of a
\* fault that is there, and where there is a fault nothing is converted
\* (configuration.cpp:95, cxxopts.hpp:1346).
THEOREM FaultsAreRefused == Spec => []RefusedForAFault
<1>1. IInv => RefusedForAFault
  BY DEF IInv, FaultInv, NoFault, RefusedForAFault
<1> QED
  BY <1>1, Inductive, PTL

\* From the defaults on every option has its entry.
CountInv == phase \in {"remaining", "parsed"} => DOMAIN results = Options

LEMMA CountsStay == IInv /\ CountInv /\ [Next]_vars => CountInv'
<1> SUFFICES ASSUME IInv, CountInv, [Next]_vars, phase' \in {"remaining", "parsed"}
             PROVE  DOMAIN results' = Options
  BY DEF CountInv
<1>1. CASE phase \in {"start", "arguments"}
  <2>1. phase' \notin {"remaining", "parsed"}
    BY <1>1 DEF Next, parse_arguments, Parse, Begin, Terminator, EndOfArguments, Malformed,
                Positional, UnknownOption, ShortOption, LastShortOption, LongOption,
                AssignedOption, ParseDefaults, ConsumeRemaining, EndOfRemaining, Refuse,
                Accept, checked_parse_arg, consume_positional, add_to_option, parse_option,
                Throw, At, vars
  <2> QED
    BY <2>1
<1>2. CASE phase = "defaults"
  <2>1. ParseDefaults \/ UNCHANGED vars
    BY <1>2, ExceptionsAre
    DEF Next, parse_arguments, Parse, Begin, Terminator, EndOfArguments, Malformed,
        Positional, UnknownOption, ShortOption, LastShortOption, LongOption,
        AssignedOption, ParseDefaults, ConsumeRemaining, EndOfRemaining, Refuse,
        Accept, At, Ended, vars, Exceptions, Refused
  <2> QED
    BY <1>2, <2>1 DEF ParseDefaults, vars
<1>3. CASE phase = "remaining"
  <2>1. StateInv
    BY DEF IInv
  <2>2. ConsumeRemaining \/ EndOfRemaining \/ UNCHANGED vars
    BY <1>3
    DEF Next, parse_arguments, Parse, Begin, Terminator, EndOfArguments, Malformed,
        Positional, UnknownOption, ShortOption, LastShortOption, LongOption,
        AssignedOption, ParseDefaults, Refuse, Accept, At, Ended, vars, Exceptions, Refused
  <2>3. CASE ConsumeRemaining
    <3>1. PICK o \in Options : parse_option(o, argv[current].text)
      BY <2>1, <2>3, PositionalIs, Directory, Superfluous DEF ConsumeRemaining
    <3>2. DOMAIN results' = DOMAIN results \cup {o}
      BY <2>1, <3>1, CountIs DEF parse_option
    <3> QED
      BY <1>3, <3>2 DEF CountInv
  <2>4. CASE EndOfRemaining \/ UNCHANGED vars
    BY <1>3, <2>4 DEF EndOfRemaining, vars, CountInv
  <2> QED
    BY <2>2, <2>3, <2>4
<1>4. CASE phase \notin {"start", "arguments", "defaults", "remaining"}
  <2>1. Refuse \/ Accept \/ UNCHANGED vars
    BY <1>4
    DEF Next, parse_arguments, Parse, Begin, Terminator, EndOfArguments, Malformed,
        Positional, UnknownOption, ShortOption, LastShortOption, LongOption,
        AssignedOption, ParseDefaults, ConsumeRemaining, EndOfRemaining, At, Ended, vars
  <2>2. UNCHANGED <<results, phase>>
    <3>1. CASE Refuse
      <4>1. phase' \in Refused
        BY <3>1 DEF Refuse, Objection, Refused
      <4> QED
        BY <4>1 DEF Refused
    <3>2. CASE Accept
      BY <3>2 DEF Accept
    <3>3. CASE UNCHANGED vars
      BY <3>3 DEF vars
    <3> QED
      BY <2>1, <3>1, <3>2, <3>3
  <2> QED
    BY <2>2 DEF CountInv
<1> QED
  BY <1>1, <1>2, <1>3, <1>4

\* When parse_arguments() counts the options each of them has an entry, so that
\* count(), which does not look, never reads one that is not there
(* (cxxopts.hpp:1155, configuration.cpp:102). *)
THEOREM EntriesExist == Spec => []CountsAreFound
<1>1. Init => CountInv
  BY DEF Init, CountInv
<1>2. IInv /\ CountInv => CountsAreFound
  BY DEF CountInv, CountsAreFound
<1> QED
  BY <1>1, <1>2, Inductive, CountsStay, PTL DEF Spec

-----------------------------------------------------------------------------
(* Numbers *)

\* What the digits mean does not depend on the type that they are parsed for.
LEMMA SameText ==
  ASSUME NEW t
  PROVE  /\ AsUint16!Places(t) = AsInt!Places(t)
         /\ AsUint16!HasDigits(t) = AsInt!HasDigits(t)
         /\ \A i : AsUint16!Number(t, i) = AsInt!Number(t, i)
<1>1. AsUint16!Places(t) = AsInt!Places(t)
  BY DEF AsUint16!Places, AsInt!Places, AsUint16!FirstDigit, AsInt!FirstDigit,
         AsUint16!IsHex, AsInt!IsHex, AsUint16!LetterX, AsInt!LetterX
<1> QED
  BY <1>1
  DEF AsUint16!HasDigits, AsInt!HasDigits, AsUint16!IsDigit, AsInt!IsDigit,
      AsUint16!Digit, AsInt!Digit, AsUint16!Base, AsInt!Base, AsUint16!IsHex, AsInt!IsHex,
      AsUint16!LetterX, AsInt!LetterX, AsUint16!Number, AsInt!Number,
      AsUint16!FirstDigit, AsInt!FirstDigit

LEMMA TextIs ==
  ASSUME NEW t \in AsInt!IntegerTexts
  PROVE  /\ Len(t.chars) \in Nat /\ AsInt!FirstDigit(t) \in {1, 3}
         /\ AsInt!Base(t) \in {10, 16} /\ AsInt!FirstDigit(t) - 1 <= Len(t.chars)
         /\ AsInt!Places(t) = AsInt!FirstDigit(t)..Len(t.chars)
         /\ \A i \in AsInt!Places(t) : AsInt!Digit(t.chars[i]) \in Nat
<1>1. t.chars \in Seq(AsInt!Characters)
  BY DEF AsInt!IntegerTexts
<1>2. Len(t.chars) \in Nat /\ \A i \in 1..Len(t.chars) : t.chars[i] \in AsInt!Characters
  BY <1>1, LenProperties, ElementOfSeq
<1>3. AsInt!FirstDigit(t) \in {1, 3} /\ AsInt!Base(t) \in {10, 16}
  BY DEF AsInt!FirstDigit, AsInt!Base
<1>4. AsInt!FirstDigit(t) - 1 <= Len(t.chars)
  BY <1>2 DEF AsInt!FirstDigit, AsInt!IsHex
<1>5. \A c \in AsInt!Characters : AsInt!Digit(c) \in Nat
  BY DEF AsInt!Characters, AsInt!Digit
<1> QED
  BY <1>2, <1>3, <1>4, <1>5 DEF AsInt!Places

\* The number up to each place is what the equation of Number says.
LEMMA NumberUnfolds ==
  ASSUME NEW t \in AsInt!IntegerTexts
  PROVE  /\ AsInt!Number(t, AsInt!FirstDigit(t) - 1) = 0
         /\ \A i \in AsInt!Places(t) :
               /\ AsInt!Number(t, i - 1) \in Nat /\ AsInt!Number(t, i) \in Nat
               /\ AsInt!Number(t, i)
                     = AsInt!Number(t, i - 1) * AsInt!Base(t) + AsInt!Digit(t.chars[i])
<1> DEFINE m == AsInt!FirstDigit(t) - 1
           n == Len(t.chars)
           base == AsInt!Base(t)
           digit(i) == AsInt!Digit(t.chars[i])
           Obeys(g) == g = [j \in m..n |-> IF j < AsInt!FirstDigit(t) THEN 0
                                           ELSE g[j - 1] * base + digit(j)]
           chosen == CHOOSE g : Obeys(g)
           step == [p \in Nat \X ((m + 1)..n) |-> p[1] * base + digit(p[2])]
<1>1. /\ m \in Nat /\ n \in Nat /\ m <= n /\ base \in Nat /\ m + 1 = AsInt!FirstDigit(t)
      /\ AsInt!Places(t) = (m + 1)..n
      /\ \A i \in (m + 1)..n : digit(i) \in Nat
  BY TextIs
<1>2. step \in StepsOn(Nat, m, n)
  <2> HIDE DEF m, n, base, digit
  <2>1. \A x \in Nat, i \in (m + 1)..n : x * base + digit(i) \in Nat
    BY <1>1
  <2> QED
    BY <2>1 DEF StepsOn
<1>3. PICK f : Recurs(f, Nat, 0, m, n, step)
  <2>1. m \in Int /\ n \in Int /\ 0 \in Nat
    BY <1>1
  <2> HIDE DEF m, n, step
  <2> QED
    BY <1>1, <1>2, <2>1, RecursionExists
<1>4. f \in [m..n -> Nat] /\ f[m] = 0
  BY <1>3 DEF Recurs
<1>5. ASSUME NEW j \in (m + 1)..n PROVE f[j] = f[j - 1] * base + digit(j)
  <2>1. f[j - 1] \in Nat
    BY <1>1, <1>4
  <2>2. f[j] = step[<<f[j - 1], j>>]
    <3> HIDE DEF step
    <3> QED
      BY <1>3 DEF Recurs
  <2> QED
    BY <2>1, <2>2
<1>6. Obeys(f)
  <2> HIDE DEF digit, base, n
  <2> QED
    BY <1>1, <1>4, <1>5
<1>7. Obeys(chosen)
  <2> HIDE DEF Obeys
  <2> QED
    BY <1>6
<1>8. \A i : AsInt!Number(t, i) = chosen[i]
  BY DEF AsInt!Number
<1> HIDE DEF chosen
<1>9. chosen = [j \in m..n |-> IF j < m + 1 THEN 0 ELSE chosen[j - 1] * base + digit(j)]
  BY <1>1, <1>7
<1> HIDE DEF m, n, base, digit
<1>10. chosen[m] = 0
  BY <1>1, <1>9
<1>11. \A i \in (m + 1)..n : chosen[i] = chosen[i - 1] * base + digit(i)
  BY <1>1, <1>9
<1>12. m..n \subseteq {i \in m..n : chosen[i] \in Nat}
  <2> DEFINE S == {i \in m..n : chosen[i] \in Nat}
  <2>1. m \in Int /\ n \in Int /\ (m <= n => m \in S)
    BY <1>1, <1>10
  <2>2. ASSUME NEW i \in m..(n - 1), i \in S PROVE i + 1 \in S
    <3>1. i + 1 \in (m + 1)..n /\ i + 1 \in m..n /\ (i + 1) - 1 = i
      BY <1>1
    <3>2. chosen[i + 1] = chosen[i] * base + digit(i + 1)
      BY <1>11, <3>1
    <3>3. chosen[i] \in Nat /\ digit(i + 1) \in Nat /\ base \in Nat
      BY <1>1, <2>2, <3>1
    <3> QED
      BY <3>1, <3>2, <3>3
  <2>3. \A i \in m..(n - 1) : i \in S => i + 1 \in S
    BY <2>2
  <2> HIDE DEF S
  <2>4. m..n \subseteq S
    BY <2>1, <2>3, RangeInduction, Zenon
  <2> QED
    BY <2>4 DEF S
<1>13. \A i \in (m + 1)..n : i \in m..n /\ i - 1 \in m..n
  BY <1>1
<1>14. ASSUME NEW i \in AsInt!Places(t)
       PROVE  /\ AsInt!Number(t, i - 1) \in Nat /\ AsInt!Number(t, i) \in Nat
              /\ AsInt!Number(t, i) = AsInt!Number(t, i - 1) * base + digit(i)
  <2>1. i \in (m + 1)..n
    BY <1>1
  <2>2. chosen[i] \in Nat /\ chosen[i - 1] \in Nat /\ chosen[i] = chosen[i - 1] * base + digit(i)
    BY <1>11, <1>12, <1>13, <2>1
  <2> QED
    BY <1>8, <2>2
<1> QED
  BY <1>8, <1>10, <1>14 DEF m, base, digit

\* If the truncated number never gets smaller, it is the number itself or large.
LEMMA WrapsAreLarge ==
  ASSUME NEW t \in AsInt!IntegerTexts, AsInt!HasDigits(t),
         NEW u \in Nat, NEW w \in Nat, 16 * w <= u, u > 0,
         \A i \in AsInt!Places(t) : AsInt!Number(t, i - 1) % u <= AsInt!Number(t, i) % u
  PROVE  LET number == AsInt!Number(t, Len(t.chars)) IN
         /\ number \in Nat
         /\ (number < u /\ number % u = number) \/ number % u >= w
<1> DEFINE N(i) == AsInt!Number(t, i)
           m == AsInt!FirstDigit(t) - 1
           n == Len(t.chars)
           S == {i \in m..n : N(i) \in Nat /\ (N(i) < u \/ N(i) % u >= w)}
<1>1. /\ m \in Nat /\ n \in Nat /\ m < n /\ N(m) = 0 /\ AsInt!Base(t) \in {10, 16}
      /\ AsInt!Places(t) = (m + 1)..n
  BY TextIs, NumberUnfolds DEF AsInt!HasDigits
<1>2. \A i \in (m + 1)..n : /\ N(i - 1) \in Nat /\ N(i) \in Nat
                            /\ N(i - 1) % u <= N(i) % u
  BY <1>1, NumberUnfolds
<1>3. \A i \in (m + 1)..n : N(i) <= N(i - 1) * 16 + 15
  <2> SUFFICES ASSUME NEW i \in (m + 1)..n PROVE N(i) <= N(i - 1) * 16 + 15
    OBVIOUS
  <2>1. /\ N(i) = N(i - 1) * AsInt!Base(t) + AsInt!Digit(t.chars[i])
        /\ AsInt!Digit(t.chars[i]) \in Nat
    BY <1>1, TextIs, NumberUnfolds
  <2>2. AsInt!Digit(t.chars[i]) < AsInt!Base(t)
    BY <1>1 DEF AsInt!HasDigits, AsInt!IsDigit
  <2>3. N(i - 1) \in Nat
    BY <1>2
  <2> HIDE DEF N
  <2> QED
    BY <1>1, <2>1, <2>2, <2>3
<1> HIDE DEF N, m, n
<1>4. \A x \in Nat : x < u => x % u = x
  OBVIOUS
<1>5. \A x \in Nat : x % u \in Nat
  OBVIOUS
<1>6. m \in S
  BY <1>1
<1>7. ASSUME NEW i \in m..(n - 1), i \in S PROVE i + 1 \in S
  <2>1. i + 1 \in (m + 1)..n /\ i + 1 \in m..n /\ (i + 1) - 1 = i
    BY <1>1
  <2>2. /\ N(i) \in Nat /\ N(i + 1) \in Nat /\ N(i) % u <= N(i + 1) % u
        /\ N(i + 1) <= N(i) * 16 + 15
    BY <1>2, <1>3, <2>1
  <2>3. N(i) % u \in Nat /\ N(i + 1) % u \in Nat
    BY <1>5, <2>2
  <2>4. N(i) < u => N(i) % u = N(i)
    BY <1>4, <2>2
  <2>5. N(i + 1) < u \/ N(i) >= w
    BY <2>2
  <2>6. N(i + 1) < u \/ N(i + 1) % u >= w
    BY <1>7, <2>2, <2>3, <2>4, <2>5
  <2> QED
    BY <2>1, <2>2, <2>6
<1>8. m..n \subseteq S
  <2>1. m \in Int /\ n \in Int /\ (m <= n => m \in S) /\ \A i \in m..(n - 1) : i \in S => i + 1 \in S
    BY <1>1, <1>6, <1>7
  <2> HIDE DEF S
  <2> QED
    BY <2>1, RangeInduction, Zenon
<1>9. n \in S
  BY <1>1, <1>8
<1> QED
  BY <1>4, <1>9 DEF N, n

\* A quality from 0 to 9 is the one that the text means.
LEMMA QualityIsMeant ==
  ASSUME NEW t \in AsInt!IntegerTexts, AsInt!integer_parser(t, TRUE) \in 0..9
  PROVE  AsInt!Denoted(t) = AsInt!integer_parser(t, TRUE)
<1> DEFINE number == AsInt!Number(t, Len(t.chars))
<1>1. IntUS \in Nat /\ IntUS >= 256 /\ IncorrectType \notin Int
  BY NumbersAssumption
<1>2. /\ AsInt!HasDigits(t)
      /\ \A i \in AsInt!Places(t) : AsInt!Number(t, i - 1) % IntUS <= AsInt!Number(t, i) % IntUS
      /\ AsInt!integer_parser(t, TRUE) = AsInt!Signed(t.negative, number % IntUS)
  <2>1. AsInt!integer_parser(t, TRUE) # IncorrectType
    <3>1. \A x \in 0..9 : x \in Int
      OBVIOUS
    <3> QED
      BY <1>1, <3>1, Zenon
  <2> QED
    BY <2>1 DEF AsInt!integer_parser
<1>3. /\ number \in Nat
      /\ (number < IntUS /\ number % IntUS = number) \/ number % IntUS >= 16
  <2>1. 16 \in Nat /\ 16 * 16 <= IntUS /\ IntUS > 0
    BY <1>1
  <2> QED
    BY <1>1, <1>2, <2>1, WrapsAreLarge
<1> HIDE DEF number
<1>4. number % IntUS \in Nat
  BY <1>1, <1>3
<1>5. number % IntUS <= 9
  <2> DEFINE r == number % IntUS
  <2>1. r \in Nat /\ (IF t.negative THEN -r ELSE r) \in 0..9
    BY <1>2, <1>4 DEF AsInt!Signed
  <2> HIDE DEF r
  <2>2. r <= 9
    BY <2>1
  <2> QED
    BY <2>2 DEF r
<1>6. number % IntUS = number
  BY <1>3, <1>4, <1>5
<1> QED
  BY <1>2, <1>6 DEF AsInt!Denoted, number

\* A number of threads is the one that the text means, or both are large.
LEMMA ThreadsAreMeant ==
  ASSUME NEW t \in AsInt!IntegerTexts,
         AsUint16!integer_parser(t, FALSE) # IncorrectType,
         NEW w \in Nat, 16 * w <= Uint16Count
  PROVE  LET n == AsUint16!integer_parser(t, FALSE) IN
         /\ n \in Nat /\ AsInt!Denoted(t) \in Nat
         /\ n = AsInt!Denoted(t) \/ (n >= w /\ AsInt!Denoted(t) >= w)
<1> DEFINE number == AsInt!Number(t, Len(t.chars))
           u == Uint16Count
<1>1. u \in Nat /\ u > 0
  BY DEF Uint16Count
<1>2. /\ AsUint16!HasDigits(t) /\ ~t.negative
      /\ \A i \in AsUint16!Places(t) :
            AsUint16!Number(t, i - 1) % Uint16Count <= AsUint16!Number(t, i) % Uint16Count
      /\ AsUint16!integer_parser(t, FALSE)
            = AsUint16!Signed(t.negative, AsUint16!Number(t, Len(t.chars)) % Uint16Count)
  BY DEF AsUint16!integer_parser, AsUint16!IsInRange
<1> HIDE DEF u
<1>3. /\ AsInt!HasDigits(t)
      /\ \A i \in AsInt!Places(t) : AsInt!Number(t, i - 1) % u <= AsInt!Number(t, i) % u
      /\ AsUint16!integer_parser(t, FALSE) = number % u
  BY <1>2, SameText DEF u, AsUint16!Signed
<1>4. number \in Nat /\ ((number < u /\ number % u = number) \/ number % u >= w)
  <2>1. 16 * w <= u
    BY DEF u
  <2> QED
    BY <1>1, <1>3, <2>1, WrapsAreLarge
<1>5. AsInt!Denoted(t) = number
  BY <1>2, <1>3 DEF AsInt!Denoted, AsInt!Signed
<1> HIDE DEF number
<1>6. number % u \in Nat /\ number % u <= number
  BY <1>1, <1>4
<1> DEFINE r == number % u
<1>7. /\ r \in Nat /\ r <= number /\ (r = number \/ r >= w)
      /\ AsUint16!integer_parser(t, FALSE) = r
  BY <1>3, <1>4, <1>6
<1> HIDE DEF r
<1>8. r = number \/ (r >= w /\ number >= w)
  BY <1>4, <1>7
<1> QED
  BY <1>4, <1>5, <1>7, <1>8

-----------------------------------------------------------------------------
(* What is accepted *)

\* When all is read an option has its last value, or the one it started with.
LEMMA ValueIsLast ==
  ASSUME IInv, phase = "parsed", NEW o \in Options, o # "superfluous"
  PROVE  /\ Count(o) = 0 <=> ~IsGiven(o)
         /\ ~IsGiven(o) => store[o] = Storage(o)
         /\ IsGiven(o) => /\ store[o] = Parsed(o, LastText(o)) /\ Parses(o, LastText(o))
                          /\ LastText(o) \in Texts
<1>1. StateInv /\ UseInv /\ argv \in Seq(Arguments)
  BY ExceptionsAre DEF IInv, ReadInv, StateInv
<1>2. Read(o) = Uses(o)
  BY AllIsRead
<1>3. /\ Count(o) = 0 <=> ~IsGiven(o)
      /\ ~IsGiven(o) => store[o] = Storage(o)
  BY <1>1, <1>2 DEF UseInv, IsGiven
<1>4. ASSUME IsGiven(o)
      PROVE  /\ store[o] = Parsed(o, LastText(o)) /\ Parses(o, LastText(o))
             /\ LastText(o) \in Texts
  <2>1. PICK p \in Uses(o) : /\ \A q \in Uses(o) : NotAfter(q, p)
                             /\ store[o] = Parsed(o, TextAt(p))
    BY <1>1, <1>2, <1>4 DEF UseInv, IsGiven
  <2>2. LastUse(o) = p
    <3> DEFINE last == LastUse(o)
    <3>1. last \in Uses(o) /\ \A q \in Uses(o) : NotAfter(q, last)
      BY <2>1 DEF LastUse, NotAfter
    <3> HIDE DEF last
    <3>2. NotAfter(p, last) /\ NotAfter(last, p)
      BY <2>1, <3>1
    <3>3. \A q \in Uses(o) : q[1] \in Nat /\ q[2] \in Nat /\ q = <<q[1], q[2]>>
      BY <1>1, PlacesAre, LenProperties
    <3>4. p[1] = last[1] /\ p[2] = last[2]
      BY <3>1, <3>2, <3>3 DEF NotAfter
    <3>5. p = last
      BY <2>1, <3>1, <3>3, <3>4
    <3> QED
      BY <3>5 DEF last
  <2>3. HasText(p) /\ Parses(o, TextAt(p))
    BY <1>1, <1>2 DEF UseInv
  <2>4. TextAt(p) \in Texts
    <3>1. p[1] \in 1..Len(argv) /\ Len(argv) \in Nat
      BY <1>1, PlacesAre, LenProperties
    <3>2. argv[p[1]].text \in Texts /\ argv[p[1]].value \in Texts /\ TrueText \in Texts
      BY <1>1, <3>1, ArgumentIs, CommandLineAssumption
    <3>3. p[1] < Len(argv) => argv[p[1] + 1].text \in Texts
      <4>1. p[1] < Len(argv) => p[1] + 1 \in 1..Len(argv)
        BY <3>1
      <4> QED
        BY <1>1, <4>1, ArgumentIs
    <3>4. CASE p[1] \in Words
      BY <3>2, <3>4 DEF TextAt
    <3>5. CASE p[1] \notin Words /\ argv[p[1]].kind = "assigned"
      BY <3>2, <3>5 DEF TextAt
    <3>6. CASE p[1] \notin Words /\ argv[p[1]].kind # "assigned"
      BY <2>3, <3>2, <3>3, <3>6 DEF TextAt, HasText
    <3> QED
      BY <3>4, <3>5, <3>6
  <2> QED
    BY <2>1, <2>2, <2>3, <2>4 DEF LastText
<1> QED
  BY <1>3, <1>4

\* A flag is what it is given last, or false.
LEMMA FlagIsAsked ==
  ASSUME IInv, phase = "parsed", NEW o \in {"help", "version", "recursive", "overwrite", "all"}
  PROVE  store[o] = FlagAsked(o)
<1>1. o \in Options /\ TypeOf(o) = "bool" /\ o # "superfluous" /\ o # "directory"
  BY Flagged
<1>2. Storage(o) = FALSE
  <2>1. Storage(o) = DefaultValue(o)
    BY <1>1 DEF Storage, HasDefault
  <2>2. DefaultValue(o) = FALSE
    BY <1>1 DEF DefaultValue
  <2> QED
    BY <2>1, <2>2
<1>3. \A t : Parsed(o, t) = (TruthIn(t) = "true")
  BY <1>1 DEF Parsed, IsNumeric
<1> QED
  BY <1>1, <1>2, <1>3, ValueIsLast DEF FlagAsked

LEMMA DirectoryIsAsked ==
  ASSUME IInv, phase = "parsed", IsGiven("directory")
  PROVE  store["directory"] = LastText("directory")
<1>1. \A t : Parsed("directory", t) = t
  BY Directory DEF Parsed, IsNumeric
<1> QED
  BY <1>1, ValueIsLast, Directory

\* The quality is the number that is asked for.
LEMMA QualityIsAsked ==
  ASSUME IInv, phase = "parsed", store["quality"] \in 0..9
  PROVE  store["quality"] = NumberAsked("quality")
<1>1. CASE ~IsGiven("quality")
  <2>1. Storage("quality") = DefaultValue("quality")
    BY Numeric DEF Storage, HasDefault
  <2> QED
    BY <1>1, <2>1, Numeric, ValueIsLast DEF NumberAsked
<1>2. CASE IsGiven("quality")
  <2> DEFINE t == LastText("quality")
  <2>1. store["quality"] = Parsed("quality", t) /\ t \in Texts
    BY <1>2, Numeric, ValueIsLast
  <2> HIDE DEF t
  <2>2. NumberIn(t) \in AsInt!IntegerTexts
    BY <2>1, NumbersAssumption
  <2>3. Parsed("quality", t) = AsInt!integer_parser(NumberIn(t), TRUE)
    BY Numeric DEF Parsed, IsNumeric, NumberFor
  <2>4. AsInt!Denoted(NumberIn(t)) = store["quality"]
    BY <2>1, <2>2, <2>3, QualityIsMeant
  <2> QED
    BY <1>2, <2>4 DEF NumberAsked, t
<1> QED
  BY <1>1, <1>2

LEMMA MinMaxOfTwo ==
  ASSUME NEW a \in Int, NEW b \in Int
  PROVE  /\ Min({a, b}) = IF a <= b THEN a ELSE b
         /\ Max({a, b}) = IF a <= b THEN b ELSE a
<1>1. \E x \in {a, b} : \A y \in {a, b} : x <= y
  OBVIOUS
<1>2. \E x \in {a, b} : \A y \in {a, b} : x >= y
  OBVIOUS
<1>3. Min({a, b}) \in {a, b} /\ \A y \in {a, b} : Min({a, b}) <= y
  BY <1>1 DEF Min
<1>4. Max({a, b}) \in {a, b} /\ \A y \in {a, b} : Max({a, b}) >= y
  BY <1>2 DEF Max
<1> QED
  BY <1>3, <1>4

\* The processors are so few that a number of threads that has wrapped is reduced.
FewProcessors == Hardwares \subseteq 0..(Uint16Count \div 16)

\* There are as many threads as are asked for, within the bounds.
LEMMA ThreadsAreAsked ==
  ASSUME IInv, phase = "parsed", FewProcessors
  PROVE  BoundedThreads(store["threads"]) =
             LET asked == NumberAsked("threads")
             IN  IF asked > hardware_concurrency \/ hardware_concurrency = 0
                 THEN hardware_concurrency ELSE Max({1, asked})
<1> DEFINE w == Uint16Count \div 16
           asked == NumberAsked("threads")
           n == store["threads"]
<1>1. w \in Nat /\ 16 * w <= Uint16Count
  <2>1. \A u \in Nat : u \div 16 \in Nat /\ 16 * (u \div 16) <= u
    OBVIOUS
  <2>2. Uint16Count \in Nat
    BY DEF Uint16Count
  <2> QED
    BY <2>1, <2>2
<1> HIDE DEF w
<1>2. hardware_concurrency \in Nat /\ hardware_concurrency <= w
  BY <1>1 DEF IInv, StateInv, FewProcessors, w
<1>3. /\ n \in Nat /\ asked \in Nat
      /\ n = asked \/ (n >= w /\ asked >= w)
  <2>1. CASE ~IsGiven("threads")
    <3>1. Storage("threads") = DefaultValue("threads")
      BY Numeric DEF Storage, HasDefault
    <3>2. DefaultValue("threads") = hardware_concurrency
      BY Numeric DEF DefaultValue
    <3> QED
      BY <1>2, <2>1, <3>1, <3>2, Numeric, ValueIsLast DEF NumberAsked
  <2>2. CASE IsGiven("threads")
    <3> DEFINE t == LastText("threads")
    <3>1. n = Parsed("threads", t) /\ Parses("threads", t) /\ t \in Texts
      BY <2>2, Numeric, ValueIsLast
    <3>2. asked = AsInt!Denoted(NumberIn(t))
      BY <2>2 DEF NumberAsked
    <3> HIDE DEF t, asked, n
    <3>3. NumberIn(t) \in AsInt!IntegerTexts
      BY <3>1, NumbersAssumption
    <3>4. NumberFor("threads", t) = AsUint16!integer_parser(NumberIn(t), FALSE)
      BY Numeric DEF NumberFor
    <3>5. /\ n = AsUint16!integer_parser(NumberIn(t), FALSE)
          /\ AsUint16!integer_parser(NumberIn(t), FALSE) # IncorrectType
      BY <3>1, <3>4, Numeric DEF Parsed, Parses, IsNumeric
    <3> QED
      BY <1>1, <3>2, <3>3, <3>5, ThreadsAreMeant
  <2> QED
    BY <2>1, <2>2
<1> HIDE DEF n, asked
<1>4. BoundedThreads(n) = LET m == IF n < 1 THEN 1 ELSE n
                          IN  IF m <= hardware_concurrency THEN m ELSE hardware_concurrency
  <2> DEFINE m == IF n < 1 THEN 1 ELSE n
  <2>1. m \in Int
    BY <1>3
  <2>2. BoundedThreads(n) = Min({m, hardware_concurrency})
    BY DEF BoundedThreads
  <2> HIDE DEF m
  <2>3. BoundedThreads(n) = IF m <= hardware_concurrency THEN m ELSE hardware_concurrency
    BY <1>2, <2>1, <2>2, MinMaxOfTwo
  <2> QED
    BY <2>3 DEF m
<1>5. Max({1, asked}) = IF 1 <= asked THEN asked ELSE 1
  BY <1>3, MinMaxOfTwo
<1>6. BoundedThreads(n) = IF asked > hardware_concurrency \/ hardware_concurrency = 0
                          THEN hardware_concurrency ELSE Max({1, asked})
  BY <1>1, <1>2, <1>3, <1>4, <1>5
<1> QED
  BY <1>6 DEF n, asked

\* What the arguments ask for does not change.
LEMMA AskedStays ==
  ASSUME UNCHANGED given
  PROVE  /\ UNCHANGED <<Words, DirectoryWords>>
         /\ \A o : /\ UNCHANGED IsGiven(o) /\ UNCHANGED LastText(o)
                   /\ UNCHANGED FlagAsked(o) /\ UNCHANGED NumberAsked(o)
<1>1. UNCHANGED <<argv, hardware_concurrency>>
  BY DEF given
<1>2. /\ UNCHANGED <<Words, DirectoryWords>> /\ \A o : UNCHANGED Uses(o)
      /\ \A p : UNCHANGED TextAt(p)
  BY <1>1, ArgumentsStay
<1>3. \A o : UNCHANGED IsGiven(o) /\ UNCHANGED LastText(o)
  BY <1>2 DEF IsGiven, LastText, LastUse
<1>4. \A o : UNCHANGED FlagAsked(o)
  BY <1>3 DEF FlagAsked
<1>5. \A o : UNCHANGED DefaultValue(o)
  BY <1>1 DEF DefaultValue
<1>6. \A o : UNCHANGED NumberAsked(o)
  BY <1>3, <1>5 DEF NumberAsked
<1> QED
  BY <1>2, <1>3, <1>4, <1>6

LEMMA AcceptedAsAsked ==
  ASSUME IInv, FewProcessors, Accept
  PROVE  ConfiguredAsAsked'
<1>1. /\ phase = "parsed" /\ Objection = "none"
      /\ store' = [store EXCEPT !["threads"] = BoundedThreads(store["threads"])]
      /\ UNCHANGED <<given, argv, hardware_concurrency>>
  BY DEF Accept, given
<1>2. StateInv /\ PlaceInv /\ WordInv /\ argv \in Seq(Arguments)
  BY <1>1, ExceptionsAre DEF IInv, ReadInv, StateInv
<1>3. /\ ~(Count("help") > 0) /\ ~(Count("version") > 0) /\ Count("directory") # 0
      /\ ~(store["superfluous"] > 0) /\ store["quality"] \in 0..9
  BY <1>1 DEF Objection
<1>4. ~IsGiven("help") /\ ~IsGiven("version") /\ IsGiven("directory")
  <2>1. \A o \in Options : Count(o) \in Nat
    BY <1>2, CountIs
  <2> QED
    BY <1>1, <1>3, <2>1, Flagged, Directory, ValueIsLast
<1>5. /\ DOMAIN store = Options /\ "threads" \in Options
      /\ \A o \in Options : o # "threads" => store'[o] = store[o]
      /\ store'["threads"] = BoundedThreads(store["threads"])
  BY <1>1, <1>2, Numeric DEF StateInv
<1>6. UNCHANGED <<LastText("directory"), FlagAsked("recursive"), NumberAsked("quality"),
                  FlagAsked("overwrite"), FlagAsked("all"), NumberAsked("threads"),
                  IsGiven("help"), IsGiven("version"), IsGiven("directory"), Words,
                  DirectoryWords>>
  BY <1>1, AskedStays
<1>7. /\ store["directory"] = LastText("directory")
      /\ store["recursive"] = FlagAsked("recursive")
      /\ store["overwrite"] = FlagAsked("overwrite")
      /\ store["all"] = FlagAsked("all")
      /\ store["quality"] = NumberAsked("quality")
  BY <1>1, <1>3, <1>4, DirectoryIsAsked, FlagIsAsked, QualityIsAsked
<1>8. BoundedThreads(store["threads"]) =
          LET asked == NumberAsked("threads")
          IN  IF asked > hardware_concurrency \/ hardware_concurrency = 0
              THEN hardware_concurrency ELSE Max({1, asked})
  BY <1>1, ThreadsAreAsked
<1>9. \A i \in Words : <<i, 1>> \in DirectoryWords \/ TokensIn(argv[i].text) = 0
  <2> SUFFICES ASSUME NEW i \in Words
               PROVE  <<i, 1>> \in DirectoryWords \/ TokensIn(argv[i].text) = 0
    OBVIOUS
  <2>1. i < current
    BY <1>1, AllIsRead
  <2>2. <<i, 1>> \in DirectoryWords \/ TokensIn(argv[i].text) <= store["superfluous"]
    BY <1>2, <2>1 DEF WordInv
  <2>3. TokensIn(argv[i].text) \in Nat
    <3>1. i \in 1..Len(argv)
      BY <1>2, PlacesAre
    <3> QED
      BY <1>2, <3>1, ArgumentIs, CommandLineAssumption
  <2> QED
    BY <1>2, <1>3, <2>2, <2>3 DEF StateInv
<1>10. Configured' =
          [directory_path         |-> LastText("directory"),
           recurse_directories    |-> FlagAsked("recursive"),
           encoding_quality       |-> NumberAsked("quality"),
           overwrite_existing_mp3 |-> FlagAsked("overwrite"),
           convert_all_files      |-> FlagAsked("all"),
           number_of_threads      |->
              LET asked == NumberAsked("threads")
              IN  IF asked > hardware_concurrency \/ hardware_concurrency = 0
                  THEN hardware_concurrency ELSE Max({1, asked})]
  BY <1>5, <1>7, <1>8, Flagged, Directory, Numeric DEF Configured
<1> QED
  BY <1>1, <1>4, <1>6, <1>9, <1>10 DEF ConfiguredAsAsked

\* Once the arguments are accepted nothing changes.
LEMMA AcceptedStays ==
  ASSUME IInv, FewProcessors, ConfiguredAsAsked, [Next]_vars
  PROVE  ConfiguredAsAsked'
<1>1. CASE Accept
  BY <1>1, AcceptedAsAsked
<1>2. CASE phase' # "accepted"
  BY <1>2 DEF ConfiguredAsAsked
<1>3. CASE UNCHANGED vars
  <2>1. UNCHANGED <<argv, hardware_concurrency, phase, store, given>>
    BY <1>3 DEF vars, given
  <2>2. UNCHANGED Configured
    BY <2>1 DEF Configured
  <2> QED
    BY <2>1, <2>2, AskedStays DEF ConfiguredAsAsked
<1>4. ASSUME ~Accept, phase' = "accepted" PROVE UNCHANGED vars
  <2>2. CASE phase \in {"start", "arguments", "defaults", "remaining", "parsed"}
    <3>1. Objection # "accepted"
      BY DEF Objection
    <3> QED
      BY <1>4, <2>2, <3>1
      DEF Next, parse_arguments, Parse, Begin, Terminator, EndOfArguments, Malformed,
          Positional, UnknownOption, ShortOption, LastShortOption, LongOption,
          AssignedOption, ParseDefaults, ConsumeRemaining, EndOfRemaining, Refuse,
          checked_parse_arg, consume_positional, add_to_option, parse_option, Throw, At
  <2>3. CASE phase \notin {"start", "arguments", "defaults", "remaining", "parsed"}
    BY <1>4, <2>3
    DEF Next, parse_arguments, Parse, Begin, Terminator, EndOfArguments, Malformed,
        Positional, UnknownOption, ShortOption, LastShortOption, LongOption,
        AssignedOption, ParseDefaults, ConsumeRemaining, EndOfRemaining, Refuse, Accept, At
  <2> QED
    BY <2>2, <2>3
<1> QED
  BY <1>1, <1>2, <1>3, <1>4

\* On a machine with at most Uint16Count / 16 processors the program is configured
\* as the arguments, read as a whole, ask for (configuration.cpp:29).  With more of
\* them a number of threads that wraps in 16 bits need not be reduced to what the
\* hardware supports: "99999" is taken for 34463.
THEOREM ArgumentsAreObeyed == ASSUME FewProcessors PROVE Spec => []ConfiguredAsAsked
<1>1. Init => ConfiguredAsAsked
  BY DEF Init, ConfiguredAsAsked
<1>2. IInv /\ ConfiguredAsAsked /\ [Next]_vars => ConfiguredAsAsked'
  BY AcceptedStays
<1> QED
  BY <1>1, <1>2, Inductive, PTL DEF Spec

=============================================================================
