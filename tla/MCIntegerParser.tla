-------------------------- MODULE MCIntegerParser ---------------------------
(***************************************************************************)
(* A TLC instance of IntegerParser: a type of 8 bits, whose values fill    *)
(* the texts up to the length at which numbers wrap more than once.        *)
(***************************************************************************)
EXTENDS IntegerParser

CONSTANTS MaxLength     \* bound: the characters of a text

\* 0, 1, 7 and 8, the letters f and x, and a capital F
MCCharacters == {0, 1, 7, 8, 15, 33, 41}

MCTexts ==
    [negative : BOOLEAN,
     chars : UNION {[1..n -> MCCharacters] : n \in 0..MaxLength}
             \cup {<<0, LetterX>> \o s : s \in [1..3 -> MCCharacters]}]
=============================================================================
