--------------------------- MODULE IntegerParser ----------------------------
(***************************************************************************)
(* The loop of integer_parser() of cxxopts.hpp, digit by digit, for a type *)
(* of any width, signed or not.                                            *)
(***************************************************************************)
EXTENDS IntegerText

CONSTANT Texts      \* the texts that are parsed

ASSUME TextsAssumption == Texts \subseteq IntegerTexts

VARIABLES
    text,
    signed,     \* std::numeric_limits<T>::is_signed
    position,   \* the next character
    result,
    outcome,    \* "parsing", "accepted" or "incorrect type"
    value,      \* what the caller gets when the text is accepted
    number      \* history: the number that the digits read so far mean

input == <<text, signed>>
vars == <<input, position, result, outcome, value, number>>

Init ==
    /\ text \in Texts
    /\ signed \in BOOLEAN
    /\ position = FirstDigit(text)
    /\ result = 0 /\ value = 0 /\ number = 0
    /\ outcome = IF text.chars = <<>> THEN "incorrect type" ELSE "parsing"

AtDigit == outcome = "parsing" /\ position <= Len(text.chars)

Character == text.chars[position]

\* A letter that is no digit of the base.
RejectCharacter ==
    /\ AtDigit
    /\ ~IsDigit(Base(text), Character)
    /\ outcome' = "incorrect type"
    /\ UNCHANGED <<input, position, result, value, number>>

\* Mutant: what was truncated is always taken.
TakeEveryDigit ==
    /\ AtDigit
    /\ IsDigit(Base(text), Character)
    /\ result' = Shifted(Base(text), result, Character)
    /\ number' = number * Base(text) + Digit(Character)
    /\ position' = position + 1
    /\ UNCHANGED <<input, outcome, value>>

TakeDigit ==
    /\ AtDigit
    /\ IsDigit(Base(text), Character)
    /\ result <= Shifted(Base(text), result, Character)
    /\ result' = Shifted(Base(text), result, Character)
    /\ number' = number * Base(text) + Digit(Character)
    /\ position' = position + 1
    /\ UNCHANGED <<input, outcome, value>>

\* The truncated number is less than before the digit.
RejectOverflow ==
    /\ AtDigit
    /\ IsDigit(Base(text), Character)
    /\ result > Shifted(Base(text), result, Character)
    /\ number' = number * Base(text) + Digit(Character)
    /\ outcome' = "incorrect type"
    /\ UNCHANGED <<input, position, result, value>>

Finish ==
    /\ outcome = "parsing"
    /\ position > Len(text.chars)
    /\ IF IsInRange(signed, text.negative, result)
       THEN outcome' = "accepted" /\ value' = Signed(text.negative, result)
       ELSE outcome' = "incorrect type" /\ UNCHANGED value
    /\ UNCHANGED <<input, position, result, number>>

Next ==
    \/ RejectCharacter \/ TakeDigit \/ RejectOverflow \/ Finish
    \/ outcome # "parsing" /\ UNCHANGED vars

Spec == Init /\ [][Next]_vars

-----------------------------------------------------------------------------
(* Properties *)

\* What fits the type and nothing else
TypeRange == IF signed THEN -(US \div 2)..(US \div 2 - 1) ELSE 0..(US - 1)

\* The types of the variables; what the caller gets is a value of its type.
TypeOK ==
    /\ text \in Texts /\ signed \in BOOLEAN
    /\ position \in Nat
    /\ result \in 0..(US - 1)
    /\ outcome \in {"parsing", "accepted", "incorrect type"}
    /\ value \in TypeRange
    /\ number \in Nat

\* cxxopts.hpp:594 notices an overflow only when the truncated number becomes
\* smaller.  An overflow that it misses leaves a number so large that one more
\* digit would not fit: a small value was never truncated.
WrapsAreLarge ==
    outcome = "accepted" =>
        \/ value = Signed(text.negative, number)
        \/ number >= US /\ result * Base(text) + Base(text) > US

\* Every number that the type can hold is accepted, the least negative one
\* included, which checked_negate() must not negate within the type; only a minus
\* sign is refused for an unsigned type, "-0" included.  So the loop computes the
\* function of the text that CommandLine uses.
RefusesOnlyWhatDoesNotFit ==
    /\ outcome = "incorrect type" =>
          \/ Denoted(text) = IncorrectType
          \/ Denoted(text) \notin TypeRange
          \/ text.negative /\ ~signed
    /\ outcome # "parsing" =>
          integer_parser(text, signed) =
              (IF outcome = "accepted" THEN value ELSE IncorrectType)
=============================================================================
