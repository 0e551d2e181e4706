------------------------------ MODULE HelpText ------------------------------
(***************************************************************************)
(* Options::help() of cxxopts.hpp: the text that is printed for --help.    *)
(* Each option gets the text of its names and, in a column behind it, its  *)
(* description, which format_description() breaks into lines in one pass   *)
(* over its characters.                                                    *)
(*                                                                         *)
(* A description is the sequence of the lengths of its words, one space    *)
(* lies between two words and none has a line feed.  An iterator is the    *)
(* number of a character, counted from 1.  All options are in one group,   *)
(* and only options that are flags have an implicit value.                 *)
(***************************************************************************)
EXTENDS Integers, Sequences, FiniteSetsExt

CONSTANTS
    OptionLists,    \* the options that a program may declare, in their order
    OwnOptions      \* the lists among them that this program declares

OPTION_LONGEST == 30
OPTION_DESC_GAP == 2
Widest == 76

HelpOptionDetails ==
    [s: STRING, l: STRING, desc: Seq(Nat \ {0}), has_default: BOOLEAN,
     default_value: STRING, is_boolean: BOOLEAN, positional: BOOLEAN]

\* The default is not shown where it is that a flag is not set.
ShowsDefault(o) == o.has_default /\ (~o.is_boolean \/ o.default_value # "false")

ASSUME HelpTextAssumption ==
    /\ OwnOptions \subseteq OptionLists
    /\ \A options \in OptionLists : options \in Seq(HelpOptionDetails)
    /\ \A options \in OptionLists : \A i \in DOMAIN options :
          /\ options[i].desc = <<>> => ~ShowsDefault(options[i])
          /\ Len(options[i].l) \in Nat /\ Len(options[i].default_value) \in Nat

VARIABLES
    list,           \* the options of the group
    phase,          \* "usage", "options", "description", "done" or "undefined"
    usage,          \* whether the usage names the positional arguments
    option,         \* the option that the loop of help_one_group() has come to
    current, startLine, lastSpace, size,    \* as in format_description()
    shown           \* for each option that is shown: [option, own_line, lines],
                    \* a line being the characters from "from" to before "to"

iterators == <<current, startLine, lastSpace, size>>
helpVars == <<list, phase, usage, option, iterators, shown>>

-----------------------------------------------------------------------------
\* The name that an option does not have
NoName == ""

\* "  -q, --quality arg": both the letter and what replaces it take 3 characters.
format_option(o) ==
    2 + 3 + (IF o.l = NoName THEN 0 ELSE 3 + Len(o.l)) + (IF o.is_boolean THEN 0 ELSE 4)

\* The width of the column of names, and of the column of descriptions.
longestOf(options) ==
    LET Shown == {i \in DOMAIN options : ~options[i].positional} IN
    Min({OPTION_LONGEST, Max({0} \cup {format_option(options[i]) : i \in Shown})})
allowedFor(options) == Widest - longestOf(options) - OPTION_DESC_GAP
longest == longestOf(list)
allowed == allowedFor(list)

\* " (default: 5)" makes two more words.
WordsOf(o) ==
    o.desc \o IF ShowsDefault(o) THEN <<9, Len(o.default_value) + 1>> ELSE <<>>

\* Ends(o)[i] is the character behind the i-th word.
Ends(o) ==
    LET end[i \in 0..Len(WordsOf(o))] ==
            IF i = 0 THEN 0 ELSE end[i - 1] + WordsOf(o)[i] + 1
    IN  end

TextEnd(o) == IF WordsOf(o) = <<>> THEN 1 ELSE Ends(o)[Len(WordsOf(o))]
Spaces(o) == {Ends(o)[i] : i \in 1..(Len(WordsOf(o)) - 1)}

\* A word that fits is not longer than a line, which is broken when size, counted
\* up to width + 1, exceeds width.
FitsInto(width, word) == word <= width + 1

LastSpaceUpTo(o, i) == Max({0} \cup {p \in Spaces(o) : p <= i})

\* The loop breaks a line at every (width + 2)th character of the text, however long
\* the rest is that the line before has left for the next one.  The words lie so that
\* none of the lines is longer than width all the same.
LinesFitInto(width, o) ==
    LET Break(k) == k * (width + 2)
        LineEnd(k) == IF Break(k) < TextEnd(o) THEN LastSpaceUpTo(o, Break(k)) ELSE TextEnd(o)
    IN  /\ \A i \in DOMAIN WordsOf(o) : FitsInto(width, WordsOf(o)[i])
        /\ \A k \in 0..TextEnd(o) : LineEnd(k + 1) - LastSpaceUpTo(o, Break(k)) - 1 <= width

\* It is so with the descriptions that this program has.
ASSUME OwnOptionsAssumption ==
    \A options \in OwnOptions : \A i \in DOMAIN options :
        ~options[i].positional => LinesFitInto(allowedFor(options), options[i])

-----------------------------------------------------------------------------
HelpInit ==
    /\ list \in OptionLists
    /\ phase = "usage"
    /\ usage = FALSE
    /\ option = 1
    /\ current = 1 /\ startLine = 1 /\ lastSpace = 1 /\ size = 0
    /\ shown = <<>>

\* help() begins with the usage of the program.
help ==
    /\ phase = "usage"
    /\ usage' = \E i \in DOMAIN list : list[i].positional
    /\ phase' = "options"
    /\ UNCHANGED <<list, option, iterators, shown>>

\* help_one_group() leaves out the options that are positional.
SkipPositional ==
    /\ phase = "options"
    /\ option <= Len(list) /\ list[option].positional
    /\ option' = option + 1
    /\ UNCHANGED <<list, phase, usage, iterators, shown>>

\* The names of the next option; if they are too long, its description begins
\* in a line of its own.
BeginOption ==
    /\ phase = "options"
    /\ option <= Len(list) /\ ~list[option].positional
    /\ shown' = Append(shown, [option |-> option, lines |-> <<>>,
                                 own_line |-> format_option(list[option]) > longest])
    /\ current' = 1 /\ startLine' = 1 /\ lastSpace' = 1 /\ size' = 0
    /\ phase' = "description"
    /\ UNCHANGED <<list, usage, option>>

EndOfOptions ==
    /\ phase = "options"
    /\ option > Len(list)
    /\ phase' = "done"
    /\ UNCHANGED <<list, usage, option, iterators, shown>>

-----------------------------------------------------------------------------
(* format_description() *)

\* The loop is at a character; space is what lastSpace becomes there.
AtCharacter(space) ==
    /\ phase = "description"
    /\ current < TextEnd(list[option])
    /\ space = IF current \in Spaces(list[option]) THEN current ELSE lastSpace
    /\ UNCHANGED <<list, usage, option>>

\* stringAppend(result, from, to)
AppendLine(from, to) ==
    shown' = [shown EXCEPT ![Len(shown)].lines = Append(@, [from |-> from, to |-> to])]

NextCharacter ==
    /\ size <= allowed
    /\ \E space \in {current, lastSpace} :
        AtCharacter(space) /\ lastSpace' = space
    /\ size' = size + 1
    /\ current' = current + 1
    /\ UNCHANGED <<phase, startLine, shown>>

\* The line holds no space: it ends with this character.
BreakInWord ==
    /\ size > allowed
    /\ AtCharacter(startLine)
    /\ AppendLine(startLine, current + 1)
    /\ startLine' = current + 1
    /\ lastSpace' = current + 1
    /\ size' = 0
    /\ current' = current + 1
    /\ UNCHANGED phase

\* Mutant: the next line begins with the space.
BreakBeforeSpace ==
    /\ size > allowed
    /\ \E space \in {current, lastSpace} :
        /\ AtCharacter(space) /\ space > startLine
        /\ AppendLine(startLine, space)
        /\ startLine' = space
        /\ lastSpace' = space
    /\ size' = 0
    /\ current' = current + 1
    /\ UNCHANGED phase

\* The line ends before its last space.  What follows that space is in the next
\* line already, but is not counted in its size.
BreakAtSpace ==
    /\ size > allowed
    /\ \E space \in {current, lastSpace} :
        /\ AtCharacter(space) /\ space > startLine
        /\ AppendLine(startLine, space)
        /\ startLine' = space + 1
        /\ lastSpace' = space
    /\ size' = 0
    /\ current' = current + 1
    /\ UNCHANGED phase

\* The last space lies before the line: append() is given a range whose end
\* comes before its beginning.
BreakUndefined ==
    /\ size > allowed
    /\ \E space \in {current, lastSpace} : AtCharacter(space) /\ space < startLine
    /\ phase' = "undefined"
    /\ UNCHANGED <<iterators, shown>>

EndOfDescription ==
    /\ phase = "description"
    /\ current = TextEnd(list[option])
    /\ AppendLine(startLine, current)
    /\ option' = option + 1
    /\ phase' = "options"
    /\ UNCHANGED <<list, usage, iterators>>

Finished == phase \in {"done", "undefined"} /\ UNCHANGED helpVars

HelpNext ==
    \/ help \/ SkipPositional \/ BeginOption \/ EndOfOptions
    \/ NextCharacter \/ BreakInWord \/ BreakAtSpace \/ BreakUndefined
    \/ EndOfDescription
    \/ Finished

HelpSpec == HelpInit /\ [][HelpNext]_helpVars

-----------------------------------------------------------------------------
(* Properties *)

Fits(word) == FitsInto(allowed, word)

\* Between two lines nothing is left out but the space that separates them, and
\* only a first word that does not fit is broken.
IsBrokenWell(o, line, next) ==
    \/ line.to \in Spaces(o) /\ next.from = line.to + 1
    \/ ~Fits(WordsOf(o)[1]) /\ next.from = line.to

\* The lines that the README shows are not longer than the column: those of the
\* options of this program.  Others exceed it by the part of a word that was not
\* counted.
WidthOf(o) ==
    IF list \in OwnOptions THEN allowed
    ELSE allowed + 1 + Max({WordsOf(o)[i] : i \in DOMAIN WordsOf(o)} \cup {0})

\* --help prints every option that is not positional with its whole description,
\* in their order; no line of it begins behind its end, which would be undefined
\* (cxxopts.hpp:1510), unless a word other than the first does not fit.
HelpTextIsWhole ==
    /\ phase = "done" =>
        {shown[k].option : k \in DOMAIN shown} = {i \in DOMAIN list : ~list[i].positional}
    /\ \A j, k \in DOMAIN shown : j < k => shown[j].option < shown[k].option
    /\ \A k \in DOMAIN shown :
        LET o == list[shown[k].option]
            lines == shown[k].lines
        IN  (\A i \in 2..Len(WordsOf(o)) : Fits(WordsOf(o)[i])) =>
                /\ shown[k].option = option => phase # "undefined"
                /\ \A i \in DOMAIN lines :
                      /\ lines[i].from <= lines[i].to
                      /\ lines[i].to - lines[i].from <= WidthOf(o)
                      /\ i = 1 => lines[i].from = 1
                      /\ i > 1 => IsBrokenWell(o, lines[i - 1], lines[i])
                /\ shown[k].option < option =>
                      lines # <<>> /\ lines[Len(lines)].to = TextEnd(o)
=============================================================================
