---------------------------- MODULE IntegerText -----------------------------
(***************************************************************************)
(* integer_parser() of cxxopts.hpp, which Configuration uses for --quality *)
(* (an int) and --threads (a uint16_t), as a function of the text.  A text *)
(* is its sign and its characters: 0..9 are the decimal digits, 10..35 the *)
(* small letters, 36..61 the capital ones.  A text that does not match     *)
(* integer_pattern is one without characters.                              *)
(*                                                                         *)
(* A number is gathered digit by digit in the unsigned type of the width   *)
(* of the target; what is more than the type can hold is noticed only if   *)
(* the truncated number is less than the one before.                       *)
(***************************************************************************)
EXTENDS Integers, Sequences

CONSTANTS
    US,             \* the number of values of the unsigned type, std::make_unsigned<T>
    IncorrectType   \* argument_incorrect_type is thrown

ASSUME USAssumption ==
    /\ US \in Nat /\ US >= 256 /\ US % 2 = 0
    /\ IncorrectType \notin Int

Characters == 0..61
LetterX == 33

IntegerTexts == [negative : BOOLEAN, chars : Seq(Characters)]
NoMatch == [negative |-> FALSE, chars |-> <<>>]

\* "0x" is a prefix when something follows; a capital X is not.
IsHex(text) == Len(text.chars) > 2 /\ text.chars[1] = 0 /\ text.chars[2] = LetterX

Base(text) == IF IsHex(text) THEN 16 ELSE 10

\* The first character of the group that holds the digits.
FirstDigit(text) == IF IsHex(text) THEN 3 ELSE 1

\* 'A' is 36 here, and the digit 10.
Digit(c) == IF c >= 36 THEN c - 26 ELSE c

IsDigit(base, c) == Digit(c) < base

\* US next = result * base + digit
Shifted(base, result, c) == (result * base + Digit(c)) % US

\* Mutant: the bound of negative numbers is that of the positive ones.
SameRange(signed, negative, u) ==
    CASE signed   -> u <= US \div 2 - 1
      [] ~signed  -> ~negative

\* SignedCheck, and checked_negate(), which refuses the sign for an unsigned type.
IsInRange(signed, negative, u) ==
    CASE signed /\ negative   -> u <= US \div 2
      [] signed /\ ~negative  -> u <= US \div 2 - 1
      [] ~signed              -> ~negative

Signed(negative, u) == IF negative THEN -u ELSE u

\* The places of the digits.
Places(text) == FirstDigit(text)..Len(text.chars)

HasDigits(text) ==
    Places(text) # {} /\ \A i \in Places(text) : IsDigit(Base(text), text.chars[i])

\* What the digits up to place i mean as a number of any size.
Number(text, i) ==
    LET number[j \in (FirstDigit(text) - 1)..Len(text.chars)] ==
            IF j < FirstDigit(text) THEN 0
            ELSE number[j - 1] * Base(text) + Digit(text.chars[j])
    IN  number[i]

\* The number that the text stands for in a type of US values, or IncorrectType.
integer_parser(text, signed) ==
    LET result(i) == Number(text, i) % US
        u == result(Len(text.chars))
    IN  IF /\ HasDigits(text)
           /\ \A i \in Places(text) : result(i - 1) <= result(i)
           /\ IsInRange(signed, text.negative, u)
        THEN Signed(text.negative, u)
        ELSE IncorrectType

\* The number that the text means, of whatever size, or IncorrectType.
Denoted(text) ==
    IF HasDigits(text) THEN Signed(text.negative, Number(text, Len(text.chars)))
    ELSE IncorrectType
=============================================================================
