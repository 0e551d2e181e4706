---------------------------- MODULE CxxoptsProofs ---------------------------
(***************************************************************************)
(* Proofs about the two algorithms of cxxopts.hpp: IntegerParser, for      *)
(* every width of the type and all texts, and HelpText, for all options.   *)
(***************************************************************************)
EXTENDS IntegerParser, HelpText, Induction, SequenceTheorems, TLAPS

-----------------------------------------------------------------------------
(* integer_parser(): the types, that an overflow that is not noticed leaves a *)
(* large number, and that the loop computes what the digits denote.           *)

\* What integer_parser() has gathered is the number read so far, or that
\* number was truncated and the result is within one digit of the limit.
GatheredOrLarge ==
    outcome # "incorrect type" =>
        \/ result = number
        \/ number >= US /\ result * Base(text) + Base(text) > US

\* The inductive invariant: the types, the number gathered, and that the
\* caller gets the result with its sign.
IInv ==
    /\ TypeOK
    /\ GatheredOrLarge
    /\ outcome = "accepted" => value = Signed(text.negative, result)

-----------------------------------------------------------------------------
(* Facts about the operators *)

\* The base is 10 or 16, and the digits start at the first or the third character.
LEMMA BaseAndStart ==
    ASSUME NEW t
    PROVE  Base(t) \in {10, 16} /\ FirstDigit(t) \in {1, 3}
  BY DEF Base, FirstDigit

\* A digit of a base is less than the base.
LEMMA DigitIsSmall ==
    ASSUME NEW c \in Characters, NEW base \in {10, 16}, IsDigit(base, c)
    PROVE  Digit(c) \in 0..(base - 1)
  BY DEF Characters, Digit, IsDigit

\* A remainder is less than the divisor, and what is less than it stays.
LEMMA Remainder ==
    ASSUME NEW m \in Nat, NEW n \in Nat, n > 0
    PROVE  /\ m % n \in 0..(n - 1)
           /\ m < n => m % n = m
  OBVIOUS

\* The step of the loop stays within the type, and is exact when it fits.
LEMMA ShiftedInRange ==
    ASSUME NEW base \in {10, 16}, NEW r \in 0..(US - 1), NEW c \in Characters, IsDigit(base, c)
    PROVE  /\ Shifted(base, r, c) \in 0..(US - 1)
           /\ r * base + Digit(c) < US => Shifted(base, r, c) = r * base + Digit(c)
  <1>1. US \in Nat /\ US > 0 BY USAssumption
  <1>2. Digit(c) \in Nat BY DigitIsSmall
  <1>3. r * base + Digit(c) \in Nat BY <1>1, <1>2
  <1> QED BY <1>1, <1>3, Remainder DEF Shifted

\* What passes the range check is a value of the type.
LEMMA InRangeIsTyped ==
    ASSUME NEW s \in BOOLEAN, NEW negative \in BOOLEAN, NEW u \in 0..(US - 1),
           IsInRange(s, negative, u)
    PROVE  /\ s => Signed(negative, u) \in (-(US \div 2))..(US \div 2 - 1)
           /\ ~s => Signed(negative, u) \in 0..(US - 1)
  <1>1. US \in Nat /\ US \div 2 \in Nat BY USAssumption
  <1>2. CASE s /\ negative
    <2>1. u <= US \div 2 BY <1>2 DEF IsInRange
    <2>2. Signed(negative, u) = -u BY <1>2 DEF Signed
    <2>3. -u \in (-(US \div 2))..(US \div 2 - 1)
      <3>1. US \div 2 >= 1 BY USAssumption
      <3> QED BY <1>1, <2>1, <3>1
    <2> QED BY <1>2, <2>2, <2>3
  <1>3. CASE s /\ ~negative
    <2>1. u <= US \div 2 - 1 BY <1>3 DEF IsInRange
    <2>2. Signed(negative, u) = u BY <1>3 DEF Signed
    <2>3. u \in (-(US \div 2))..(US \div 2 - 1) BY <1>1, <2>1
    <2> QED BY <1>3, <2>2, <2>3
  <1>4. CASE ~s
    <2>1. ~negative BY <1>4 DEF IsInRange
    <2>2. Signed(negative, u) = u BY <2>1 DEF Signed
    <2> QED BY <1>4, <2>2
  <1> QED BY <1>2, <1>3, <1>4

\* At a digit the character is one.
LEMMA CharacterTyped ==
    ASSUME TypeOK, AtDigit, position >= 1
    PROVE  Character \in Characters
  <1>1. text \in IntegerTexts BY TextsAssumption DEF TypeOK
  <1> QED BY <1>1 DEF TypeOK, AtDigit, Character, IntegerTexts
-----------------------------------------------------------------------------
(* The invariant *)

LEMMA InitInvariant == Init => IInv
  <1> SUFFICES ASSUME Init PROVE IInv OBVIOUS
  <1>1. US \in Nat /\ US > 0 /\ US \div 2 \in Nat /\ US \div 2 >= 1 BY USAssumption
  <1>2. TypeOK
    <2>1. FirstDigit(text) \in Nat BY BaseAndStart
    <2>2. 0 \in TypeRange BY <1>1 DEF TypeRange
    <2>3. text \in Texts /\ signed \in BOOLEAN /\ value \in TypeRange BY <2>2 DEF Init
    <2>4. position \in Nat /\ result \in 0..(US - 1) /\ number \in Nat
      <3>1. position = FirstDigit(text) /\ result = 0 /\ number = 0 BY DEF Init
      <3> QED BY <1>1, <2>1, <3>1
    <2>5. outcome \in {"parsing", "accepted", "incorrect type"} BY DEF Init
    <2> QED BY <2>3, <2>4, <2>5 DEF TypeOK
  <1>3. GatheredOrLarge BY DEF Init, GatheredOrLarge
  <1>4. outcome # "accepted" BY DEF Init
  <1> QED BY <1>2, <1>3, <1>4 DEF IInv

\* A digit that is taken keeps the number exact, or leaves it large: if it was
\* truncated now, it is not less than the result before, of which one more
\* digit did not fit.
LEMMA TakeDigitInvariant == IInv /\ position >= 1 /\ TakeDigit => IInv'
  <1> SUFFICES ASSUME IInv, position >= 1, TakeDigit PROVE IInv' OBVIOUS
  <1> DEFINE base == Base(text)
             d == Digit(Character)
             next == Shifted(base, result, Character)
  <1>1. US \in Nat /\ US > 0 BY USAssumption
  <1>2. base \in {10, 16} BY BaseAndStart
  <1>3. Character \in Characters BY CharacterTyped DEF IInv, TakeDigit
  <1>4. d \in 0..(base - 1) BY <1>2, <1>3, DigitIsSmall DEF TakeDigit
  <1>5. result \in 0..(US - 1) /\ number \in Nat /\ position \in Nat BY DEF IInv, TypeOK
  <1>6. /\ next \in 0..(US - 1)
        /\ result * base + d < US => next = result * base + d
    BY <1>2, <1>3, <1>5, ShiftedInRange DEF TakeDigit
  <1>7. /\ result' = next /\ result <= next /\ number' = number * base + d
        /\ text' = text /\ signed' = signed /\ outcome' = "parsing" /\ value' = value
        /\ position' = position + 1
    BY DEF TakeDigit, AtDigit, input
  <1>8. number' \in Nat BY <1>2, <1>4, <1>5, <1>7
  <1>9. TypeOK'
    <2>1. TypeRange' = TypeRange BY <1>7 DEF TypeRange
    <2>2. text' \in Texts /\ signed' \in BOOLEAN /\ value' \in TypeRange'
      BY <1>7, <2>1 DEF IInv, TypeOK
    <2>3. position' \in Nat /\ result' \in 0..(US - 1) BY <1>5, <1>6, <1>7
    <2>4. outcome' \in {"parsing", "accepted", "incorrect type"} BY <1>7
    <2> QED BY <1>8, <2>2, <2>3, <2>4 DEF TypeOK
  <1>10. result' = number' \/ (number' >= US /\ result' * base + base > US)
    <2> outcome = "parsing" BY DEF TakeDigit, AtDigit
    <2>1. result = number \/ (number >= US /\ result * base + base > US)
      BY DEF IInv, GatheredOrLarge
    <2>2. CASE result * base + d < US
      BY <1>1, <1>2, <1>4, <1>5, <1>6, <1>7, <2>1, <2>2
    <2>3. CASE result * base + d >= US
      BY <1>1, <1>2, <1>4, <1>5, <1>6, <1>7, <2>1, <2>3
    <2> QED BY <1>1, <1>2, <1>4, <1>5, <2>2, <2>3
  <1>11. Base(text)' = base BY <1>7
  <1>12. GatheredOrLarge' BY <1>7, <1>10, <1>11 DEF GatheredOrLarge
  <1> QED BY <1>7, <1>9, <1>12 DEF IInv

LEMMA FinishInvariant == IInv /\ Finish => IInv'
  <1> SUFFICES ASSUME IInv, Finish PROVE IInv' OBVIOUS
  <1>1. /\ UNCHANGED <<text, signed, position, result, number>>
        /\ outcome = "parsing"
    BY DEF Finish, input
  <1>2. text.negative \in BOOLEAN BY TextsAssumption DEF IInv, TypeOK, IntegerTexts
  <1>3. CASE IsInRange(signed, text.negative, result)
    <2>1. outcome' = "accepted" /\ value' = Signed(text.negative, result)
      BY <1>3 DEF Finish
    <2>2. value' \in TypeRange BY <1>2, <1>3, <2>1, InRangeIsTyped DEF IInv, TypeOK, TypeRange
    <2>3. TypeOK' BY <1>1, <2>1, <2>2 DEF IInv, TypeOK, TypeRange
    <2>4. GatheredOrLarge' BY <1>1, <2>1 DEF IInv, GatheredOrLarge, Base, IsHex
    <2> QED BY <1>1, <2>1, <2>3, <2>4 DEF IInv
  <1>4. CASE ~IsInRange(signed, text.negative, result)
    <2>1. outcome' = "incorrect type" /\ value' = value BY <1>4 DEF Finish
    <2> QED BY <1>1, <2>1 DEF IInv, TypeOK, TypeRange, GatheredOrLarge
  <1> QED BY <1>3, <1>4

\* A text that is refused only has to keep its types.
LEMMA RejectInvariant == IInv /\ position >= 1 /\ (RejectCharacter \/ RejectOverflow) => IInv'
  <1> SUFFICES ASSUME IInv, position >= 1, RejectCharacter \/ RejectOverflow PROVE IInv'
    OBVIOUS
  <1>1. /\ UNCHANGED <<text, signed, position, result, value>>
        /\ outcome' = "incorrect type"
    BY DEF RejectCharacter, RejectOverflow, input
  <1>2. number' \in Nat
    <2>1. CASE RejectCharacter BY <2>1 DEF RejectCharacter, IInv, TypeOK
    <2>2. CASE RejectOverflow
      <3>1. Character \in Characters BY <2>2, CharacterTyped DEF IInv, RejectOverflow
      <3>2. Base(text) \in {10, 16} BY BaseAndStart
      <3> IsDigit(Base(text), Character) BY <2>2 DEF RejectOverflow
      <3>3. Digit(Character) \in 0..(Base(text) - 1) BY <3>1, <3>2, DigitIsSmall
      <3>4. number' = number * Base(text) + Digit(Character) BY <2>2 DEF RejectOverflow
      <3>5. number \in Nat BY DEF IInv, TypeOK
      <3> QED BY <3>2, <3>3, <3>4, <3>5
    <2> QED BY <2>1, <2>2
  <1> QED BY <1>1, <1>2 DEF IInv, TypeOK, TypeRange, GatheredOrLarge

\* Every state has its types, and its number is exact or large.
THEOREM Invariant == Spec => [](IInv /\ position >= 1)
  <1>1. Init => IInv /\ position >= 1
    <2>1. FirstDigit(text) >= 1 BY BaseAndStart
    <2>2. Init => position >= 1 BY <2>1 DEF Init
    <2> QED BY <2>2, InitInvariant
  <1>2. IInv /\ position >= 1 /\ [Next]_vars => (IInv /\ position >= 1)'
    <2> SUFFICES ASSUME IInv, position >= 1, [Next]_vars PROVE (IInv /\ position >= 1)'
      OBVIOUS
    <2>1. position \in Nat BY DEF IInv, TypeOK
    <2>2. CASE RejectCharacter \/ RejectOverflow
      BY <2>2, RejectInvariant DEF RejectCharacter, RejectOverflow
    <2>3. CASE TakeDigit BY <2>1, <2>3, TakeDigitInvariant DEF TakeDigit
    <2>4. CASE Finish BY <2>4, FinishInvariant DEF Finish
    <2>5. CASE UNCHANGED vars
      BY <2>5 DEF vars, input, IInv, TypeOK, TypeRange, GatheredOrLarge, Base, IsHex
    <2> QED BY <2>2, <2>3, <2>4, <2>5 DEF Next
  <1> QED BY <1>1, <1>2, PTL DEF Spec

-----------------------------------------------------------------------------
(* The results *)

\* What integer_parser() stores is a value of the target's type, whatever the text.
THEOREM TypeCorrect == Spec => []TypeOK
  <1>1. IInv => TypeOK BY DEF IInv
  <1> QED BY <1>1, Invariant, PTL

\* For every width and text, a value that is not what the text says is so large
\* that one more digit would not fit.
THEOREM SmallValuesAreExact == Spec => []WrapsAreLarge
  <1>1. IInv => WrapsAreLarge BY DEF IInv, GatheredOrLarge, WrapsAreLarge
  <1> QED BY <1>1, Invariant, PTL
-----------------------------------------------------------------------------
(* The loop and the function *)

\* Division with remainder.
LEMMA Divides ==
    ASSUME NEW n \in Nat, NEW u \in Nat, u > 0
    PROVE  n \div u \in Nat /\ n % u \in 0..(u - 1) /\ n = (n \div u) * u + (n % u)
  OBVIOUS

\* A quotient and a remainder that is less than the divisor are the ones.
LEMMA RemainderIs ==
    ASSUME NEW q \in Nat, NEW u \in Nat, u > 0, NEW r \in 0..(u - 1)
    PROVE  (q * u + r) % u = r
  OBVIOUS

\* A multiple of the divisor does not change the remainder.
LEMMA AddMultiple ==
    ASSUME NEW q \in Nat, NEW u \in Nat, u > 0, NEW r \in Nat
    PROVE  (q * u + r) % u = r % u
  <1> DEFINE p == r \div u
             s == r % u
  <1>1. p \in Nat /\ s \in 0..(u - 1) /\ r = p * u + s BY Divides
  <1> HIDE DEF p, s
  <1>2. q * u + r = (q + p) * u + s /\ q + p \in Nat BY <1>1
  <1> QED BY <1>1, <1>2, RemainderIs DEF s

\* It does not matter whether a number is truncated before a digit is put behind it.
LEMMA TruncateThenShift ==
    ASSUME NEW n \in Nat, NEW u \in Nat, u > 0, NEW b \in Nat, NEW d \in Nat
    PROVE  ((n % u) * b + d) % u = (n * b + d) % u
  <1> DEFINE p == n \div u
             s == n % u
  <1>1. p \in Nat /\ s \in 0..(u - 1) /\ n = p * u + s BY Divides
  <1> HIDE DEF p, s
  <1>2. n * b + d = (p * b) * u + (s * b + d) BY <1>1
  <1>3. p * b \in Nat /\ s * b + d \in Nat BY <1>1
  <1>4. ((p * b) * u + (s * b + d)) % u = (s * b + d) % u BY <1>3, AddMultiple
  <1>5. (n * b + d) % u = (s * b + d) % u BY <1>2, <1>4
  <1> QED BY <1>5 DEF s

\* The first digit of a text that has one is inside it.
LEMMA FirstDigitInside ==
    ASSUME NEW t \in IntegerTexts
    PROVE  /\ Len(t.chars) \in Nat
           /\ FirstDigit(t) - 1 <= Len(t.chars)
           /\ t.chars # <<>> => FirstDigit(t) <= Len(t.chars)
           /\ \A i \in 1..Len(t.chars) : t.chars[i] \in Characters
  <1>1. t.chars \in Seq(Characters) BY DEF IntegerTexts
  <1>2. CASE IsHex(t) BY <1>1, <1>2 DEF IsHex, FirstDigit
  <1>3. CASE ~IsHex(t) BY <1>1, <1>3 DEF FirstDigit
  <1> QED BY <1>2, <1>3

\* A character has a digit, whatever the base.
LEMMA DigitTyped == ASSUME NEW c \in Characters PROVE Digit(c) \in Nat
  BY DEF Characters, Digit

\* Number obeys the equation that defines it.
LEMMA NumberUnfolds ==
    ASSUME NEW t \in IntegerTexts
    PROVE  /\ Number(t, FirstDigit(t) - 1) = 0
           /\ \A i \in Places(t) : Number(t, i) = Number(t, i - 1) * Base(t) + Digit(t.chars[i])
           /\ \A i \in (FirstDigit(t) - 1)..Len(t.chars) : Number(t, i) \in Nat
  <1> DEFINE m == FirstDigit(t) - 1
             n == Len(t.chars)
             base == Base(t)
             digit(i) == Digit(t.chars[i])
             Obeys(g) == g = [j \in m..n |-> IF j < FirstDigit(t) THEN 0
                                             ELSE g[j - 1] * base + digit(j)]
             chosen == CHOOSE g : Obeys(g)
             step == [p \in Nat \X ((m + 1)..n) |-> p[1] * base + digit(p[2])]
  <1>1. m \in Nat /\ n \in Nat /\ m <= n /\ base \in Nat /\ m + 1 = FirstDigit(t)
    BY BaseAndStart, FirstDigitInside
  <1>2. \A i \in (m + 1)..n : digit(i) \in Nat
    <2> SUFFICES ASSUME NEW i \in (m + 1)..n PROVE digit(i) \in Nat OBVIOUS
    <2>1. t.chars[i] \in Characters BY <1>1, FirstDigitInside
    <2> QED BY <2>1, DigitTyped
  <1>3. step \in StepsOn(Nat, m, n)
    <2> HIDE DEF m, n, base, digit
    <2>1. \A x \in Nat, i \in (m + 1)..n : x * base + digit(i) \in Nat BY <1>1, <1>2
    <2> QED BY <2>1 DEF StepsOn
  <1>4. PICK f : Recurs(f, Nat, 0, m, n, step)
    <2>1. m \in Int /\ n \in Int /\ 0 \in Nat BY <1>1
    <2> HIDE DEF m, n, step
    <2> QED BY <1>1, <1>3, <2>1, RecursionExists
  <1>5. Obeys(f)
    <2>1. ASSUME NEW j \in m..n
          PROVE  f[j] = IF j < FirstDigit(t) THEN 0 ELSE f[j - 1] * base + digit(j)
      <3>1. CASE j = m BY <1>1, <1>4, <3>1 DEF Recurs
      <3>2. CASE j # m
        <4>1. j \in (m + 1)..n /\ f[j - 1] \in Nat /\ ~(j < FirstDigit(t))
          BY <1>1, <1>4, <3>2 DEF Recurs
        <4>2. f[j] = step[<<f[j - 1], j>>] BY <1>4, <4>1 DEF Recurs
        <4> QED BY <4>1, <4>2
      <3> QED BY <3>1, <3>2
    <2>2. f \in [m..n -> Nat] BY <1>4 DEF Recurs
    <2> QED BY <2>1, <2>2
  <1>6. Obeys(chosen)
    <2> HIDE DEF Obeys
    <2> QED BY <1>5
  <1>7. \A i : Number(t, i) = chosen[i] BY DEF Number
  <1> HIDE DEF chosen
  <1>8. chosen[m] = 0 BY <1>1, <1>6
  <1>9. \A i \in (m + 1)..n : chosen[i] = chosen[i - 1] * base + digit(i)
    <2>1. \A i \in m..n : chosen[i] = IF i < FirstDigit(t) THEN 0
                                       ELSE chosen[i - 1] * base + digit(i)
      <3> HIDE DEF m, n, base, digit
      <3> QED BY <1>6
    <2>2. \A i \in (m + 1)..n : i \in m..n /\ ~(i < FirstDigit(t)) BY <1>1
    <2> HIDE DEF m, n, base, digit
    <2> QED BY <2>1, <2>2
  <1>10. m..n \subseteq {i \in m..n : chosen[i] \in Nat}
    <2> DEFINE S == {i \in m..n : chosen[i] \in Nat}
    <2>1. m \in S BY <1>1, <1>8
    <2>2. ASSUME NEW i \in m..(n - 1), i \in S PROVE i + 1 \in S
      <3>1. i + 1 \in (m + 1)..n /\ (i + 1) - 1 = i BY <1>1
      <3> HIDE DEF m, n, digit, base
      <3>2. chosen[i + 1] = chosen[i] * base + digit(i + 1) BY <1>9, <3>1
      <3>3. chosen[i] \in Nat /\ digit(i + 1) \in Nat BY <1>2, <2>2, <3>1
      <3>4. chosen[i + 1] \in Nat BY <1>1, <3>2, <3>3
      <3> QED BY <1>1, <3>1, <3>4
    <2>3. m \in Int /\ n \in Int BY <1>1
    <2>4. \A i \in m..(n - 1) : i \in S => i + 1 \in S BY <2>2
    <2> HIDE DEF S, m, n
    <2>5. m..n \subseteq S BY <2>1, <2>3, <2>4, RangeInduction, Zenon
    <2> QED BY <2>5 DEF S
  <1>11. Places(t) = (m + 1)..n BY <1>1 DEF Places
  <1> QED BY <1>7, <1>8, <1>9, <1>10, <1>11

\* More digits never mean a smaller number.
LEMMA NumberGrows ==
    ASSUME NEW t \in IntegerTexts, NEW i \in (FirstDigit(t) - 1)..Len(t.chars)
    PROVE  Number(t, i) <= Number(t, Len(t.chars))
  <1> DEFINE n == Len(t.chars)
             S == {k \in i..n : Number(t, i) <= Number(t, k)}
  <1>1. n \in Nat /\ i \in Int /\ FirstDigit(t) \in {1, 3} BY FirstDigitInside, BaseAndStart
  <1>2. \A k \in i..n : Number(t, k) \in Nat BY <1>1, NumberUnfolds
  <1>3. i \in S BY <1>1, <1>2
  <1>4. ASSUME NEW k \in i..(n - 1), k \in S PROVE k + 1 \in S
    <2>1. k + 1 \in Places(t) /\ (k + 1) - 1 = k /\ k + 1 \in i..n BY <1>1 DEF Places
    <2>2. Number(t, k + 1) = Number(t, k) * Base(t) + Digit(t.chars[k + 1])
      BY <2>1, NumberUnfolds
    <2>3. Digit(t.chars[k + 1]) \in Nat
      <3>1. t.chars[k + 1] \in Characters BY <1>1, <2>1, FirstDigitInside DEF Places
      <3> QED BY <3>1, DigitTyped
    <2>4. Base(t) \in {10, 16} BY BaseAndStart
    <2>5. Number(t, i) \in Nat /\ Number(t, k) \in Nat /\ Number(t, i) <= Number(t, k)
      BY <1>1, <1>2, <1>4
    <2>6. Number(t, i) <= Number(t, k + 1) BY <2>2, <2>3, <2>4, <2>5
    <2> QED BY <2>1, <2>6
  <1>5. i..n \subseteq S
    <2> HIDE DEF S, n
    <2> QED BY <1>1, <1>3, <1>4, RangeInduction
  <1>6. n \in i..n BY <1>1
  <1> QED BY <1>5, <1>6

\* The digits up to the place before position are digits of the base, and none of
\* them made the truncated number smaller.
TakenUpTo(p) ==
    \A i \in Places(text) : i < p =>
        /\ IsDigit(Base(text), text.chars[i])
        /\ Number(text, i - 1) % US <= Number(text, i) % US

\* While the text is parsed, the loop has the number of the digits before position,
\* and result is this number truncated.
ReadInv ==
    outcome = "parsing" =>
        /\ text.chars # <<>>
        /\ position \in FirstDigit(text)..(Len(text.chars) + 1)
        /\ number = Number(text, position - 1)
        /\ result = number % US
        /\ TakenUpTo(position)

\* The function refuses the text, and rightly so.
Refused ==
    /\ integer_parser(text, signed) = IncorrectType
    /\ \/ Denoted(text) = IncorrectType
       \/ Denoted(text) \notin TypeRange
       \/ text.negative /\ ~signed

AgreeInv ==
    /\ ReadInv
    /\ RefusesOnlyWhatDoesNotFit

\* A text is one of IntegerTexts, and US can divide.
LEMMA TextTyped ==
    ASSUME TypeOK
    PROVE  /\ text \in IntegerTexts /\ text.negative \in BOOLEAN /\ signed \in BOOLEAN
           /\ US \in Nat /\ US > 0 /\ US \div 2 \in Nat /\ US \div 2 < US
           /\ FirstDigit(text) \in {1, 3} /\ Len(text.chars) \in Nat
  <1>1. text \in IntegerTexts BY TextsAssumption DEF TypeOK
  <1>2. US \in Nat /\ US >= 256 BY USAssumption
  <1>3. US \div 2 \in Nat /\ US \div 2 < US BY <1>2
  <1>4. FirstDigit(text) \in {1, 3} /\ Len(text.chars) \in Nat
    BY <1>1, BaseAndStart, FirstDigitInside
  <1>5. signed \in BOOLEAN BY DEF TypeOK
  <1>6. text.negative \in BOOLEAN BY <1>1 DEF IntegerTexts
  <1> QED BY <1>1, <1>2, <1>3, <1>4, <1>5, <1>6

\* A number that is too large is not in the range of the type.
LEMMA LargeIsNotInRange ==
    ASSUME TypeOK, HasDigits(text), NEW k \in Nat, k >= US, Number(text, Len(text.chars)) >= k,
           Number(text, Len(text.chars)) \in Nat
    PROVE  Denoted(text) \notin TypeRange
  <1> DEFINE n == Number(text, Len(text.chars))
  <1>1. US \in Nat /\ US \div 2 \in Nat /\ US \div 2 < US /\ US > 0 BY TextTyped
  <1>2. Denoted(text) = Signed(text.negative, n) BY DEF Denoted
  <1>3. n \in Nat /\ n >= US BY <1>1
  <1> HIDE DEF n
  <1>4. n \notin TypeRange /\ -n \notin TypeRange BY <1>1, <1>3 DEF TypeRange
  <1> QED BY <1>2, <1>4 DEF Signed

\* What was refused stays so.
LEMMA RefusedAgrees ==
    ASSUME Refused, UNCHANGED input, outcome' = "incorrect type"
    PROVE  AgreeInv'
  <1>1. text' = text /\ signed' = signed BY DEF input
  <1>2. /\ integer_parser(text, signed)' = integer_parser(text, signed)
        /\ Denoted(text)' = Denoted(text) /\ TypeRange' = TypeRange
    BY <1>1 DEF TypeRange
  <1>3. RefusesOnlyWhatDoesNotFit'
    BY <1>1, <1>2 DEF Refused, RefusesOnlyWhatDoesNotFit
  <1>4. ReadInv' BY DEF ReadInv
  <1> QED BY <1>3, <1>4 DEF AgreeInv

LEMMA AgreeInit == ASSUME Init PROVE AgreeInv
  <1>1. TypeOK BY InitInvariant DEF IInv
  <1>2. text \in IntegerTexts /\ FirstDigit(text) \in {1, 3} /\ Len(text.chars) \in Nat
        /\ US \in Nat /\ US > 0
    BY <1>1, TextTyped
  <1>3. CASE text.chars = <<>>
    <2>1. outcome = "incorrect type" BY <1>3 DEF Init
    <2>2. ~HasDigits(text)
      <3>1. Places(text) = {} BY <1>2, <1>3 DEF Places
      <3> QED BY <3>1 DEF HasDigits
    <2>3. Refused BY <2>2 DEF Refused, integer_parser, Denoted
    <2> QED BY <2>1, <2>3 DEF AgreeInv, ReadInv, RefusesOnlyWhatDoesNotFit, Refused
  <1>4. CASE text.chars # <<>>
    <2>1. outcome = "parsing" /\ position = FirstDigit(text) /\ number = 0 /\ result = 0
      BY <1>4 DEF Init
    <2>2. FirstDigit(text) <= Len(text.chars) /\ Number(text, FirstDigit(text) - 1) = 0
      BY <1>2, <1>4, FirstDigitInside, NumberUnfolds
    <2>3. position \in FirstDigit(text)..(Len(text.chars) + 1) BY <1>2, <2>1, <2>2
    <2>4. 0 % US = 0 BY <1>2
    <2>5. TakenUpTo(position) BY <1>2, <2>1 DEF TakenUpTo, Places
    <2> QED BY <1>4, <2>1, <2>2, <2>3, <2>4, <2>5
            DEF AgreeInv, ReadInv, RefusesOnlyWhatDoesNotFit
  <1> QED BY <1>3, <1>4

\* There is a digit, or another character, at position.
LEMMA AtPlace == ASSUME TypeOK, ReadInv, AtDigit PROVE position \in Places(text)
  <1>1. FirstDigit(text) \in {1, 3} /\ Len(text.chars) \in Nat BY TextTyped
  <1>2. position \in FirstDigit(text)..(Len(text.chars) + 1) BY DEF ReadInv, AtDigit
  <1> QED BY <1>1, <1>2 DEF AtDigit, Places

\* The digit that is read makes the next number.
LEMMA DigitRead ==
    ASSUME TypeOK, ReadInv, AtDigit, IsDigit(Base(text), Character)
    PROVE  /\ position \in Places(text)
           /\ number = Number(text, position - 1) /\ number \in Nat
           /\ number * Base(text) + Digit(Character) = Number(text, position)
           /\ Number(text, position) \in Nat
           /\ result = Number(text, position - 1) % US
           /\ Shifted(Base(text), result, Character) = Number(text, position) % US
  <1>1. text \in IntegerTexts /\ FirstDigit(text) \in {1, 3} /\ Len(text.chars) \in Nat
        /\ US \in Nat /\ US > 0
    BY TextTyped
  <1>2. number = Number(text, position - 1) /\ result = number % US
    BY DEF ReadInv, AtDigit
  <1>3. position \in Places(text) BY AtPlace
  <1>4. /\ Number(text, position) = Number(text, position - 1) * Base(text) + Digit(Character)
        /\ Number(text, position - 1) \in Nat /\ Number(text, position) \in Nat
    <2>1. /\ position \in (FirstDigit(text) - 1)..Len(text.chars)
          /\ position - 1 \in (FirstDigit(text) - 1)..Len(text.chars)
      BY <1>1, <1>3 DEF Places
    <2>2. Number(text, position)
            = Number(text, position - 1) * Base(text) + Digit(text.chars[position])
      BY <1>1, <1>3, NumberUnfolds
    <2>3. Number(text, position - 1) \in Nat /\ Number(text, position) \in Nat
      BY <1>1, <2>1, NumberUnfolds
    <2> QED BY <2>2, <2>3 DEF Character
  <1>5. Digit(Character) \in Nat
    <2>1. Character \in Characters BY <1>1, <1>3, FirstDigitInside DEF Places, Character
    <2> QED BY <2>1, DigitTyped
  <1>6. Base(text) \in Nat BY BaseAndStart
  <1>7. ((number % US) * Base(text) + Digit(Character)) % US
          = (number * Base(text) + Digit(Character)) % US
    <2>1. number \in Nat BY <1>2, <1>4
    <2>2. US \in Nat /\ US > 0 BY <1>1
    <2> QED BY <1>5, <1>6, <2>1, <2>2, TruncateThenShift, Zenon
  <1>8. Shifted(Base(text), result, Character)
          = ((number % US) * Base(text) + Digit(Character)) % US
    BY <1>2 DEF Shifted
  <1>9. number * Base(text) + Digit(Character) = Number(text, position) BY <1>2, <1>4
  <1>10. Shifted(Base(text), result, Character) = Number(text, position) % US
    BY <1>7, <1>8, <1>9
  <1> QED BY <1>2, <1>3, <1>4, <1>9, <1>10

LEMMA AgreeTakeDigit == ASSUME TypeOK, AgreeInv, TakeDigit PROVE AgreeInv'
  <1>1. ReadInv /\ AtDigit /\ IsDigit(Base(text), Character) BY DEF AgreeInv, TakeDigit
  <1>2. /\ position \in Places(text)
        /\ number * Base(text) + Digit(Character) = Number(text, position)
        /\ result = Number(text, position - 1) % US
        /\ Shifted(Base(text), result, Character) = Number(text, position) % US
    BY <1>1, DigitRead
  <1>3. /\ text' = text /\ signed' = signed /\ outcome' = "parsing" /\ position' = position + 1
        /\ number' = Number(text, position) /\ result' = number' % US
        /\ result <= Shifted(Base(text), result, Character)
    BY <1>1, <1>2 DEF TakeDigit, AtDigit, input
  <1>4. text.chars # <<>> /\ TakenUpTo(position) BY <1>1 DEF ReadInv, AtDigit
  <1>5. FirstDigit(text) \in {1, 3} /\ Len(text.chars) \in Nat BY TextTyped
  <1>6. position + 1 \in FirstDigit(text)..(Len(text.chars) + 1) BY <1>2, <1>5 DEF Places
  <1>7. (position + 1) - 1 = position BY <1>2, <1>5 DEF Places
  <1>8. TakenUpTo(position + 1)
    <2> SUFFICES ASSUME NEW i \in Places(text), i < position + 1
                 PROVE  /\ IsDigit(Base(text), text.chars[i])
                        /\ Number(text, i - 1) % US <= Number(text, i) % US
      BY DEF TakenUpTo
    <2>1. i < position \/ i = position BY <1>2, <1>5 DEF Places
    <2>2. CASE i < position BY <1>4, <2>2 DEF TakenUpTo
    <2>3. CASE i = position BY <1>1, <1>2, <1>3, <2>3 DEF Character
    <2> QED BY <2>1, <2>2, <2>3
  <1>9. ReadInv'
    <2>1. TakenUpTo(position)'
      BY <1>3, <1>8 DEF TakenUpTo
    <2>2. /\ text'.chars # <<>>
          /\ position' \in FirstDigit(text')..(Len(text'.chars) + 1)
          /\ number' = Number(text', position' - 1)
      BY <1>3, <1>4, <1>6, <1>7
    <2> QED BY <1>3, <2>1, <2>2 DEF ReadInv
  <1> QED BY <1>3, <1>9 DEF AgreeInv, RefusesOnlyWhatDoesNotFit

LEMMA AgreeRejectCharacter == ASSUME TypeOK, AgreeInv, RejectCharacter PROVE AgreeInv'
  <1>1. position \in Places(text) BY AtPlace DEF AgreeInv, RejectCharacter
  <1>2. ~HasDigits(text) BY <1>1 DEF HasDigits, RejectCharacter, Character
  <1>3. Refused BY <1>2 DEF Refused, integer_parser, Denoted
  <1> QED BY <1>3, RefusedAgrees DEF RejectCharacter

\* When the truncated number has become smaller, it was truncated.
LEMMA AgreeRejectOverflow == ASSUME TypeOK, AgreeInv, RejectOverflow PROVE AgreeInv'
  <1>1. ReadInv /\ AtDigit /\ IsDigit(Base(text), Character) BY DEF AgreeInv, RejectOverflow
  <1>2. /\ position \in Places(text)
        /\ Number(text, position) = number * Base(text) + Digit(Character)
        /\ number = Number(text, position - 1) /\ number \in Nat
        /\ Number(text, position) \in Nat
        /\ result = Number(text, position - 1) % US
        /\ Shifted(Base(text), result, Character) = Number(text, position) % US
    BY <1>1, DigitRead
  <1>3. Number(text, position - 1) % US > Number(text, position) % US
    BY <1>2 DEF RejectOverflow
  <1>4. text \in IntegerTexts /\ US \in Nat /\ US > 0 /\ FirstDigit(text) \in {1, 3}
        /\ Len(text.chars) \in Nat
    BY TextTyped
  <1>5. integer_parser(text, signed) = IncorrectType
    <2>1. Number(text, position - 1) % US \in Nat /\ Number(text, position) % US \in Nat
      BY <1>2, <1>4
    <2>2. ~(Number(text, position - 1) % US <= Number(text, position) % US) BY <1>3, <2>1
    <2> QED BY <1>2, <2>2 DEF integer_parser
  <1>6. Number(text, position) >= US
    <2>1. SUFFICES ASSUME Number(text, position) < US PROVE FALSE BY <1>2, <1>4
    <2>2. Number(text, position) % US = Number(text, position) BY <1>2, <1>4, <2>1, Remainder
    <2>3. number % US <= number BY <1>2, <1>4
    <2>4. number <= Number(text, position)
      <3>1. Base(text) \in {10, 16} BY BaseAndStart
      <3>2. Digit(Character) \in Nat
        <4>1. Character \in Characters BY <1>2, <1>4, FirstDigitInside DEF Places, Character
        <4> QED BY <4>1, DigitTyped
      <3> QED BY <1>2, <3>1, <3>2
    <2>5. number % US \in Nat BY <1>2, <1>4
    <2> QED BY <1>2, <1>3, <2>2, <2>3, <2>4, <2>5
  <1>7. Refused
    <2>1. CASE HasDigits(text)
      <3>1. position \in (FirstDigit(text) - 1)..Len(text.chars) BY <1>2, <1>4 DEF Places
      <3>2. Number(text, Len(text.chars)) >= Number(text, position) BY <1>4, <3>1, NumberGrows
      <3>3. Number(text, Len(text.chars)) \in Nat
        <4>1. Len(text.chars) \in (FirstDigit(text) - 1)..Len(text.chars) BY <1>4, <3>1
        <4> QED BY <1>4, <4>1, NumberUnfolds
      <3>4. Denoted(text) \notin TypeRange BY <1>2, <1>6, <2>1, <3>2, <3>3, LargeIsNotInRange
      <3> QED BY <1>5, <3>4 DEF Refused
    <2>2. CASE ~HasDigits(text) BY <1>5, <2>2 DEF Refused, Denoted
    <2> QED BY <2>1, <2>2
  <1> QED BY <1>7, RefusedAgrees DEF RejectOverflow

\* At the end of the text the loop has done what the function tests.
LEMMA AgreeFinish == ASSUME TypeOK, AgreeInv, Finish PROVE AgreeInv'
  <1> DEFINE n == Number(text, Len(text.chars))
  <1>1. /\ text \in IntegerTexts /\ text.negative \in BOOLEAN /\ signed \in BOOLEAN
        /\ US \in Nat /\ US > 0 /\ US \div 2 \in Nat
        /\ FirstDigit(text) \in {1, 3} /\ Len(text.chars) \in Nat
    BY TextTyped
  <1>2. ReadInv /\ outcome = "parsing" /\ position > Len(text.chars) BY DEF AgreeInv, Finish
  <1>3. position = Len(text.chars) + 1 BY <1>1, <1>2 DEF ReadInv
  <1>4. number = n /\ result = n % US
    <2>1. position - 1 = Len(text.chars) BY <1>1, <1>3
    <2> QED BY <1>2, <2>1 DEF ReadInv
  <1>5. FirstDigit(text) <= Len(text.chars) BY <1>1, <1>2, FirstDigitInside DEF ReadInv
  <1>6. n \in Nat
    <2>1. Len(text.chars) \in (FirstDigit(text) - 1)..Len(text.chars) BY <1>1, <1>5
    <2> QED BY <1>1, <2>1, NumberUnfolds
  <1>7. \A i \in Places(text) : /\ IsDigit(Base(text), text.chars[i])
                               /\ Number(text, i - 1) % US <= Number(text, i) % US
    <2>1. \A i \in Places(text) : i < position BY <1>1, <1>3 DEF Places
    <2> QED BY <1>2, <2>1 DEF ReadInv, TakenUpTo
  <1>8. HasDigits(text)
    <2>1. Places(text) # {} BY <1>1, <1>5 DEF Places
    <2> QED BY <1>7, <2>1 DEF HasDigits
  <1>9. integer_parser(text, signed) =
          IF IsInRange(signed, text.negative, result) THEN Signed(text.negative, result)
          ELSE IncorrectType
    BY <1>4, <1>7, <1>8 DEF integer_parser
  <1>10. UNCHANGED input BY DEF Finish
  <1>11. text' = text /\ signed' = signed BY <1>10 DEF input
  <1>12. CASE IsInRange(signed, text.negative, result)
    <2>1. outcome' = "accepted" /\ value' = Signed(text.negative, result) BY <1>12 DEF Finish
    <2>2. integer_parser(text, signed)' = integer_parser(text, signed) BY <1>11
    <2> QED BY <1>9, <1>12, <2>1, <2>2 DEF AgreeInv, ReadInv, RefusesOnlyWhatDoesNotFit
  <1>13. CASE ~IsInRange(signed, text.negative, result)
    <2>1. integer_parser(text, signed) = IncorrectType BY <1>9, <1>13
    <2>2. Denoted(text) = Signed(text.negative, n) BY <1>8 DEF Denoted
    <2>3. Denoted(text) \notin TypeRange \/ (text.negative /\ ~signed)
      <3>1. CASE n >= US BY <1>1, <1>6, <1>8, <3>1, LargeIsNotInRange
      <3>2. CASE n < US
        <4>1. result = n BY <1>1, <1>4, <1>6, <3>2, Remainder
        <4> HIDE DEF n
        <4>2. CASE signed /\ text.negative
          <5>1. n > US \div 2 BY <1>1, <1>6, <1>13, <4>1, <4>2 DEF IsInRange
          <5>2. Denoted(text) = -n BY <2>2, <4>2 DEF Signed
          <5> QED BY <1>1, <1>6, <4>2, <5>1, <5>2 DEF TypeRange
        <4>3. CASE signed /\ ~text.negative
          <5>1. n > US \div 2 - 1 BY <1>1, <1>6, <1>13, <4>1, <4>3 DEF IsInRange
          <5>2. Denoted(text) = n BY <2>2, <4>3 DEF Signed
          <5> QED BY <1>1, <1>6, <4>3, <5>1, <5>2 DEF TypeRange
        <4>4. CASE ~signed BY <1>1, <1>13, <4>4 DEF IsInRange
        <4> QED BY <1>1, <4>2, <4>3, <4>4
      <3> QED BY <1>1, <1>6, <3>1, <3>2
    <2>4. Refused BY <2>1, <2>3 DEF Refused
    <2>5. outcome' = "incorrect type" BY <1>13 DEF Finish
    <2> QED BY <1>10, <2>4, <2>5, RefusedAgrees
  <1> QED BY <1>12, <1>13

\* For every width and text, the loop computes the function of the text that
\* CommandLine uses, and refuses only what the type cannot hold.
THEOREM RefusalsAreJustified == Spec => []RefusesOnlyWhatDoesNotFit
  <1>1. Init => AgreeInv BY AgreeInit
  <1>2. TypeOK /\ AgreeInv /\ [Next]_vars => AgreeInv'
    <2> SUFFICES ASSUME TypeOK, AgreeInv, [Next]_vars PROVE AgreeInv' OBVIOUS
    <2>1. CASE UNCHANGED vars
      <3>1. /\ text' = text /\ signed' = signed /\ position' = position /\ result' = result
            /\ outcome' = outcome /\ value' = value /\ number' = number
        BY <2>1 DEF vars, input
      <3>2. TakenUpTo(position)' = TakenUpTo(position) BY <3>1 DEF TakenUpTo
      <3>3. RefusesOnlyWhatDoesNotFit' = RefusesOnlyWhatDoesNotFit
        BY <3>1 DEF RefusesOnlyWhatDoesNotFit, TypeRange
      <3>4. ReadInv' = ReadInv BY <3>1, <3>2 DEF ReadInv
      <3> QED BY <3>3, <3>4 DEF AgreeInv
    <2> QED BY <2>1, AgreeTakeDigit, AgreeRejectCharacter, AgreeRejectOverflow, AgreeFinish DEF Next
  <1>3. Spec => []TypeOK BY TypeCorrect
  <1>4. AgreeInv => RefusesOnlyWhatDoesNotFit BY DEF AgreeInv
  <1> QED BY <1>1, <1>2, <1>3, <1>4, PTL DEF Spec

-----------------------------------------------------------------------------
(* format_description(): the help text is whole.                              *)

\* A set of numbers up to n has a maximum.
LEMMA MaxIs ==
  ASSUME NEW n \in Nat, NEW S \in SUBSET (0..n), S # {}
  PROVE  Max(S) \in S /\ \A y \in S : y <= Max(S)
<1>1. \E x \in S : \A y \in S : y <= x
  BY GreatestNatural
<1>2. \E x \in S : \A y \in S : x >= y
  BY <1>1
<1>3. Max(S) \in S /\ \A y \in S : Max(S) >= y
  BY <1>2 DEF Max
<1>4. \A y \in S : y \in Nat
  OBVIOUS
<1> QED
  BY <1>3, <1>4

\* An option that a program may declare.
Declared(o) ==
    /\ o \in HelpOptionDetails
    /\ o.desc = <<>> => ~ShowsDefault(o)
    /\ Len(o.l) \in Nat /\ Len(o.default_value) \in Nat

\* The words are a sequence of positive lengths.
LEMMA WordsAre ==
  ASSUME NEW o, Declared(o)
  PROVE  /\ Len(WordsOf(o)) \in Nat /\ DOMAIN WordsOf(o) = 1..Len(WordsOf(o))
         /\ \A i \in 1..Len(WordsOf(o)) : WordsOf(o)[i] \in Nat /\ WordsOf(o)[i] > 0
         /\ WordsOf(o) = <<>> <=> Len(WordsOf(o)) = 0
<1> DEFINE more == IF ShowsDefault(o) THEN <<9, Len(o.default_value) + 1>> ELSE <<>>
           Words == Seq(Nat \ {0})
<1>1. o.desc \in Words
  BY DEF Declared, HelpOptionDetails
<1>2. more \in Words
  <2>1. Len(o.default_value) + 1 \in Nat \ {0} /\ 9 \in Nat \ {0}
    BY DEF Declared
  <2>2. <<9, Len(o.default_value) + 1>> \in Words
    BY <2>1
  <2>3. <<>> \in Words
    OBVIOUS
  <2> QED
    BY <2>2, <2>3
<1>3. WordsOf(o) = o.desc \o more
  BY DEF WordsOf
<1>4. WordsOf(o) \in Words
  <2> HIDE DEF more
  <2> QED
    BY <1>1, <1>2, <1>3, ConcatProperties
<1> HIDE DEF more
<1> DEFINE w == WordsOf(o)
<1>5. w \in Seq(Nat \ {0})
  BY <1>4
<1> HIDE DEF w
<1>6. /\ Len(w) \in Nat /\ DOMAIN w = 1..Len(w) /\ \A i \in 1..Len(w) : w[i] \in Nat \ {0}
      /\ w = <<>> <=> Len(w) = 0
  BY <1>5
<1> QED
  BY <1>6 DEF w

\* By induction over the words: where they end.
LEMMA EndsAre ==
  ASSUME NEW o, Declared(o)
  PROVE  /\ Ends(o)[0] = 0
         /\ \A i \in 0..Len(WordsOf(o)) : Ends(o)[i] \in Nat
         /\ \A i \in 1..Len(WordsOf(o)) : Ends(o)[i] = Ends(o)[i - 1] + WordsOf(o)[i] + 1
<1> DEFINE w == WordsOf(o)
           n == Len(w)
           step == [p \in Nat \X (1..n) |-> p[1] + w[p[2]] + 1]
           Obeys(f) == f = [i \in 0..n |-> IF i = 0 THEN 0 ELSE f[i - 1] + w[i] + 1]
           end == CHOOSE f : Obeys(f)
<1>1. n \in Nat /\ \A i \in 1..n : w[i] \in Nat
  BY WordsAre
<1>2. Ends(o) = end
  BY DEF Ends
<1> HIDE DEF w
<1>3. step \in StepsOn(Nat, 0, n)
  <2>1. \A p \in Nat \X (1..n) : p[1] + w[p[2]] + 1 \in Nat
    BY <1>1
  <2> QED
    BY <2>1 DEF StepsOn
<1>4. PICK f : Recurs(f, Nat, 0, 0, n, step)
  <2> HIDE DEF step, n
  <2>1. 0 \in Int /\ n \in Int /\ 0 <= n /\ 0 \in Nat
    BY <1>1
  <2> QED
    BY <1>3, <2>1, RecursionExists, Zenon
<1>5. Obeys(f)
  <2>1. f \in [0..n -> Nat] /\ f[0] = 0
    BY <1>4 DEF Recurs
  <2>2. ASSUME NEW i \in 1..n PROVE f[i] = f[i - 1] + w[i] + 1
    <3>1. f[i] = step[<<f[i - 1], i>>]
      <4>1. i \in (0 + 1)..n
        OBVIOUS
      <4> HIDE DEF step, n
      <4> QED
        BY <1>4, <4>1, Zenon DEF Recurs
    <3>2. <<f[i - 1], i>> \in Nat \X (1..n)
      <4>1. i - 1 \in 0..n
        BY <1>1
      <4>2. f[i - 1] \in Nat
        BY <2>1, <4>1, Zenon
      <4> HIDE DEF n
      <4> QED
        BY <4>2
    <3>3. \A p \in Nat \X (1..n) : step[p] = p[1] + w[p[2]] + 1
      OBVIOUS
    <3> HIDE DEF step
    <3> QED
      BY <3>1, <3>2, <3>3
  <2> QED
    BY <2>1, <2>2
<1>6. Obeys(end)
  <2> HIDE DEF Obeys
  <2> QED
    BY <1>5
<1>7. end[0] = 0 /\ \A i \in 1..n : end[i] = end[i - 1] + w[i] + 1
  <2> HIDE DEF end
  <2> QED
    BY <1>1, <1>6
<1> DEFINE Fine == {i \in 0..n : end[i] \in Nat}
<1>8. 0..n \subseteq Fine
  <2> HIDE DEF end
  <2>1. 0 \in Fine
    BY <1>1, <1>7
  <2>2. \A i \in 0..(n - 1) : i \in Fine => i + 1 \in Fine
    <3> SUFFICES ASSUME NEW i \in 0..(n - 1), i \in Fine PROVE i + 1 \in Fine
      OBVIOUS
    <3>1. i + 1 \in 1..n /\ (i + 1) - 1 = i /\ i + 1 \in 0..n
      BY <1>1
    <3>2. end[i + 1] = end[i] + w[i + 1] + 1
      BY <1>7, <3>1
    <3>3. w[i + 1] \in Nat
      BY <1>1, <3>1
    <3> QED
      BY <3>1, <3>2, <3>3
  <2>3. n \in Int /\ 0 \in Int
    BY <1>1
  <2> HIDE DEF Fine, n
  <2> QED
    BY <2>1, <2>2, <2>3, RangeInduction, Zenon
<1> HIDE DEF end
<1> QED
  BY <1>2, <1>7, <1>8 DEF w

\* A word ends behind those before it.
LEMMA EndsGrow ==
  ASSUME NEW o, Declared(o), NEW i \in 1..Len(WordsOf(o)), NEW j \in i..Len(WordsOf(o))
  PROVE  Ends(o)[i] <= Ends(o)[j] /\ (i # j => Ends(o)[i] < Ends(o)[j])
<1> DEFINE n == Len(WordsOf(o))
           e(k) == Ends(o)[k]
           Fine == {k \in i..n : e(i) <= e(k) /\ (i # k => e(i) < e(k))}
<1>1. /\ n \in Nat /\ \A k \in 0..n : e(k) \in Nat
      /\ \A k \in 1..n : e(k) = e(k - 1) + WordsOf(o)[k] + 1
      /\ \A k \in 1..n : WordsOf(o)[k] \in Nat
  BY WordsAre, EndsAre
<1>2. i..n \subseteq Fine
  <2> HIDE DEF e
  <2>1. i \in Fine
    BY <1>1
  <2>2. \A k \in i..(n - 1) : k \in Fine => k + 1 \in Fine
    <3> SUFFICES ASSUME NEW k \in i..(n - 1), k \in Fine PROVE k + 1 \in Fine
      OBVIOUS
    <3>1. k + 1 \in 1..n /\ (k + 1) - 1 = k /\ k \in 0..n /\ i \in 0..n /\ k + 1 \in i..n
      BY <1>1
    <3>2. e(k + 1) = e(k) + WordsOf(o)[k + 1] + 1
      BY <1>1, <3>1
    <3>3. e(k) \in Nat /\ e(i) \in Nat /\ WordsOf(o)[k + 1] \in Nat
      BY <1>1, <3>1
    <3> QED
      BY <3>1, <3>2, <3>3
  <2>3. i \in Int /\ n \in Int
    BY <1>1
  <2> HIDE DEF Fine, n
  <2> QED
    BY <2>1, <2>2, <2>3, RangeInduction, Zenon
<1> QED
  BY <1>2

\* Behind a space, or at the beginning, a word follows, and then a space or the end.
LEMMA NextEnd ==
  ASSUME NEW o, Declared(o), WordsOf(o) # <<>>, NEW p \in Spaces(o) \cup {0}
  PROVE  \E i \in DOMAIN WordsOf(o) :
            /\ p = 0 <=> i = 1
            /\ p + WordsOf(o)[i] + 1 \in Spaces(o) \cup {TextEnd(o)}
            /\ p + WordsOf(o)[i] + 1 <= TextEnd(o)
            /\ \A s \in Spaces(o) : p < s => p + WordsOf(o)[i] + 1 <= s
<1> DEFINE n == Len(WordsOf(o))
           e(k) == Ends(o)[k]
           w(k) == WordsOf(o)[k]
<1>1. /\ n \in Nat \ {0} /\ DOMAIN WordsOf(o) = 1..n /\ \A k \in 0..n : e(k) \in Nat
      /\ \A k \in 1..n : e(k) = e(k - 1) + w(k) + 1
      /\ \A k \in 1..n : w(k) \in Nat /\ w(k) > 0
      /\ e(0) = 0 /\ TextEnd(o) = e(n)
  BY WordsAre, EndsAre DEF TextEnd
<1>2. Spaces(o) = {e(k) : k \in 1..(n - 1)}
  BY DEF Spaces
<1>3. \A k \in 1..n : \A j \in k..n : e(k) <= e(j) /\ (k # j => e(k) < e(j))
  BY EndsGrow
<1> HIDE DEF e, w, n
<1>4. PICK k \in 0..(n - 1) : p = e(k)
  <2>1. CASE p = 0
    BY <1>1, <2>1
  <2>2. CASE p \in Spaces(o)
    BY <1>1, <1>2, <2>2
  <2> QED
    BY <2>1, <2>2
<1>5. k + 1 \in 1..n /\ (k + 1) - 1 = k /\ k \in Nat
  BY <1>1
<1>6. e(k + 1) = p + w(k + 1) + 1
  BY <1>1, <1>4, <1>5
<1>7. p = 0 <=> k + 1 = 1
  <2>1. CASE k = 0
    BY <1>1, <1>4, <2>1
  <2>2. CASE k # 0
    <3>1. k \in 1..n /\ k - 1 \in 0..n
      BY <1>1, <1>5, <2>2
    <3>2. e(k) = e(k - 1) + w(k) + 1 /\ e(k - 1) \in Nat /\ w(k) \in Nat
      BY <1>1, <3>1
    <3> QED
      BY <1>4, <2>2, <3>2
  <2> QED
    BY <2>1, <2>2
<1>8. e(k + 1) \in Spaces(o) \cup {TextEnd(o)}
  <2>1. CASE k + 1 = n
    BY <1>1, <2>1
  <2>2. CASE k + 1 # n
    <3>1. k + 1 \in 1..(n - 1)
      BY <1>1, <1>5, <2>2
    <3> QED
      BY <1>2, <3>1
  <2> QED
    BY <2>1, <2>2
<1>9. e(k + 1) <= TextEnd(o)
  <2>1. n \in (k + 1)..n
    BY <1>1, <1>5
  <2> QED
    BY <1>1, <1>3, <1>5, <2>1
<1>10. ASSUME NEW s \in Spaces(o), p < s PROVE e(k + 1) <= s
  <2>1. PICK j \in 1..(n - 1) : s = e(j)
    BY <1>2
  <2>2. j > k
    <3> SUFFICES ASSUME j <= k PROVE FALSE
      BY <1>5, <2>1
    <3>1. j \in 1..n /\ k \in j..n
      BY <1>1, <1>5, <2>1
    <3>2. e(j) <= e(k)
      BY <1>3, <3>1
    <3>3. e(j) \in Nat /\ e(k) \in Nat
      <4>1. j \in 0..n /\ k \in 0..n
        BY <1>1, <1>5, <3>1
      <4> QED
        BY <1>1, <4>1
    <3> QED
      BY <1>4, <1>10, <2>1, <3>2, <3>3
  <2>3. j \in (k + 1)..n
    BY <1>1, <1>5, <2>1, <2>2
  <2> QED
    BY <1>3, <1>5, <2>1, <2>3
<1>11. k + 1 \in DOMAIN WordsOf(o)
  BY <1>1, <1>5
<1> QED
  BY <1>5, <1>6, <1>7, <1>8, <1>9, <1>10, <1>11 DEF w

\* The spaces lie within the text and not at its first character.
LEMMA SpacesAre ==
  ASSUME NEW o, Declared(o)
  PROVE  /\ TextEnd(o) \in Nat /\ TextEnd(o) >= 1
         /\ \A p \in Spaces(o) : p \in Nat /\ p >= 2 /\ p < TextEnd(o)
         /\ WordsOf(o) = <<>> => Spaces(o) = {} /\ TextEnd(o) = 1
<1> DEFINE n == Len(WordsOf(o))
           e(k) == Ends(o)[k]
           w(k) == WordsOf(o)[k]
<1>1. /\ n \in Nat /\ DOMAIN WordsOf(o) = 1..n /\ \A k \in 0..n : e(k) \in Nat
      /\ \A k \in 1..n : e(k) = e(k - 1) + w(k) + 1
      /\ \A k \in 1..n : w(k) \in Nat /\ w(k) > 0
      /\ WordsOf(o) = <<>> <=> n = 0
      /\ TextEnd(o) = IF n = 0 THEN 1 ELSE e(n)
  BY WordsAre, EndsAre DEF TextEnd
<1>2. Spaces(o) = {e(k) : k \in 1..(n - 1)}
  BY DEF Spaces
<1>3. \A k \in 1..n : \A j \in k..n : e(k) <= e(j) /\ (k # j => e(k) < e(j))
  BY EndsGrow
<1> HIDE DEF e, w, n
<1>4. ASSUME NEW k \in 1..n PROVE e(k) >= 2
  <2>1. k - 1 \in 0..n
    BY <1>1
  <2>2. e(k) = e(k - 1) + w(k) + 1 /\ e(k - 1) \in Nat /\ w(k) \in Nat /\ w(k) > 0
    BY <1>1, <2>1
  <2> QED
    BY <2>2
<1>5. ASSUME NEW p \in Spaces(o) PROVE p \in Nat /\ p >= 2 /\ p < TextEnd(o)
  <2>1. PICK k \in 1..(n - 1) : p = e(k)
    BY <1>2
  <2>2. k \in 1..n /\ n \in k..n /\ n # 0 /\ k # n /\ k \in 0..n
    BY <1>1, <2>1
  <2> QED
    BY <1>1, <1>3, <1>4, <2>1, <2>2
<1>6. TextEnd(o) \in Nat /\ TextEnd(o) >= 1
  <2>1. CASE n = 0
    BY <1>1, <2>1
  <2>2. CASE n # 0
    <3>1. n \in 1..n /\ n \in 0..n
      BY <1>1, <2>2
    <3> QED
      BY <1>1, <1>4, <2>2, <3>1
  <2> QED
    BY <2>1, <2>2
<1>7. WordsOf(o) = <<>> => Spaces(o) = {} /\ TextEnd(o) = 1
  <2>1. n = 0 => 1..(n - 1) = {}
    OBVIOUS
  <2> QED
    BY <1>1, <1>2, <2>1
<1> QED
  BY <1>5, <1>6, <1>7

\* The greatest of the numbers f(1), ..., f(n) and 0.
LEMMA MaxOfAll ==
  ASSUME NEW n \in Nat, NEW f, \A i \in 1..n : f[i] \in Nat,
         NEW S, S \subseteq {f[i] : i \in 1..n} \cup {0}, S # {}
  PROVE  Max(S) \in Nat /\ Max(S) \in S /\ \A y \in S : y <= Max(S)
<1>1. PICK b \in Nat : \A i \in 1..n : f[i] <= b
  BY BoundExists
<1>2. S \in SUBSET (0..b)
  <2>1. ASSUME NEW y \in S PROVE y \in 0..b
    <3>1. CASE y = 0
      BY <3>1
    <3>2. CASE y # 0
      <4>1. PICK i \in 1..n : y = f[i]
        BY <3>2
      <4>2. f[i] \in Nat /\ f[i] <= b
        BY <1>1
      <4> QED
        BY <4>1, <4>2
    <3> QED
      BY <3>1, <3>2
  <2> QED
    BY <2>1
<1>3. Max(S) \in S /\ \A y \in S : y <= Max(S)
  BY <1>2, MaxIs, Zenon
<1>4. \A y \in S : y \in Nat
  BY <1>2
<1> QED
  BY <1>3, <1>4, Zenon

\* The last space up to a character is one, or 0.
LEMMA LastSpaceIs ==
  ASSUME NEW o, Declared(o), NEW i \in Nat
  PROVE  /\ LastSpaceUpTo(o, i) \in Nat
         /\ \A p \in Spaces(o) : p <= i => p <= LastSpaceUpTo(o, i)
         /\ LastSpaceUpTo(o, i) = 0 \/ LastSpaceUpTo(o, i) \in Spaces(o)
         /\ LastSpaceUpTo(o, i) <= i
<1> DEFINE S == {0} \cup {p \in Spaces(o) : p <= i}
<1>1. S \in SUBSET (0..i) /\ S # {}
  BY SpacesAre
<1>2. Max(S) \in S /\ \A y \in S : y <= Max(S)
  <2> HIDE DEF S
  <2> QED
    BY <1>1, MaxIs
<1>3. LastSpaceUpTo(o, i) = Max(S)
  BY DEF LastSpaceUpTo
<1> DEFINE m == Max(S)
<1> HIDE DEF m
<1>4. m \in S /\ \A y \in S : y <= m
  BY <1>2 DEF m
<1>5. m \in Nat /\ m <= i
  BY <1>1, <1>4
<1> QED
  BY <1>3, <1>4, <1>5 DEF m

\* The length of the longest word
LongestWord(o) == Max({WordsOf(o)[i] : i \in DOMAIN WordsOf(o)} \cup {0})

\* No word is longer than the longest.
LEMMA LongestWordIs ==
  ASSUME NEW o, Declared(o)
  PROVE  /\ LongestWord(o) \in Nat
         /\ \A i \in DOMAIN WordsOf(o) : WordsOf(o)[i] <= LongestWord(o)
<1> DEFINE w == WordsOf(o)
           n == Len(w)
           S == {w[i] : i \in DOMAIN w} \cup {0}
<1>1. n \in Nat /\ DOMAIN w = 1..n /\ \A i \in 1..n : w[i] \in Nat
  BY WordsAre
<1>2. Max(S) \in Nat /\ \A y \in S : y <= Max(S)
  <2>1. S \subseteq {w[i] : i \in 1..n} \cup {0} /\ S # {}
    BY <1>1
  <2> HIDE DEF w, n, S
  <2> QED
    BY <1>1, <2>1, MaxOfAll
<1>3. LongestWord(o) = Max(S)
  BY DEF LongestWord
<1> QED
  BY <1>2, <1>3

\* What the assumptions say of each option.
LEMMA DeclaredIs ==
  ASSUME NEW options \in OptionLists
  PROVE  /\ Len(options) \in Nat /\ DOMAIN options = 1..Len(options)
         /\ \A i \in 1..Len(options) : Declared(options[i])
<1>1. options \in Seq(HelpOptionDetails)
  BY HelpTextAssumption
<1>2. /\ Len(options) \in Nat /\ DOMAIN options = 1..Len(options)
      /\ \A i \in 1..Len(options) : options[i] \in HelpOptionDetails
  <2>1. \A S : \A s \in Seq(S) : /\ Len(s) \in Nat /\ DOMAIN s = 1..Len(s)
                                 /\ \A i \in 1..Len(s) : s[i] \in S
    OBVIOUS
  <2> QED
    BY <1>1, <2>1, Zenon
<1> QED
  BY <1>2, HelpTextAssumption DEF Declared

\* There is room for 44 characters in a line.
LEMMA AllowedIs ==
  ASSUME NEW options \in OptionLists
  PROVE  allowedFor(options) \in Nat /\ allowedFor(options) >= 44
<1> DEFINE n == Len(options)
           f == [i \in 1..n |-> format_option(options[i])]
           S == {0} \cup {format_option(options[i]) :
                            i \in {k \in DOMAIN options : ~options[k].positional}}
<1>1. n \in Nat /\ DOMAIN options = 1..n
  BY DeclaredIs
<1>2. \A i \in 1..n : f[i] \in Nat
  <2> SUFFICES ASSUME NEW i \in 1..n PROVE format_option(options[i]) \in Nat
    OBVIOUS
  <2> DEFINE l == IF options[i].l = NoName THEN 0 ELSE 3 + Len(options[i].l)
             a == IF options[i].is_boolean THEN 0 ELSE 4
  <2>1. Len(options[i].l) \in Nat
    BY DeclaredIs DEF Declared
  <2>2. 3 + Len(options[i].l) \in Nat
    BY <2>1
  <2>3. l \in Nat
    <3> HIDE DEF NoName
    <3> QED
      BY <2>2
  <2>4. a \in Nat
    OBVIOUS
  <2>5. format_option(options[i]) = 2 + 3 + l + a
    BY DEF format_option
  <2> HIDE DEF l, a
  <2> QED
    BY <2>3, <2>4, <2>5
<1>3. Max(S) \in Nat
  <2>1. S \subseteq {f[i] : i \in 1..n} \cup {0} /\ S # {}
    BY <1>1
  <2> HIDE DEF S, f, n
  <2> QED
    BY <1>1, <1>2, <2>1, MaxOfAll
<1> DEFINE m == Max(S)
           M == {OPTION_LONGEST, m}
<1>4. longestOf(options) = Min(M)
  BY DEF longestOf
<1> HIDE DEF m
<1>5. M \in SUBSET Nat /\ M # {} /\ OPTION_LONGEST \in M /\ OPTION_LONGEST = 30
  BY <1>3 DEF OPTION_LONGEST, m
<1>6. Min(M) \in M /\ \A y \in M : Min(M) <= y
  <2> HIDE DEF M
  <2>1. \E x \in M : \A y \in M : x <= y
    BY <1>5, LeastNatural
  <2> QED
    BY <2>1 DEF Min
<1> DEFINE least == Min(M)
<1> HIDE DEF least
<1>7. least \in Nat /\ least <= 30
  BY <1>5, <1>6 DEF least
<1> QED
  BY <1>4, <1>7 DEF allowedFor, Widest, OPTION_DESC_GAP, least

-----------------------------------------------------------------------------
(* The lines of a description *)

\* Where the loop last broke a line, or 0.
LastBreak == current - size - 1

\* Every word but the first fits, and whether the first does.
OthersFit(o) == \A i \in 2..Len(WordsOf(o)) : Fits(WordsOf(o)[i])

FirstFits(o) == Fits(WordsOf(o)[1])

\* The lines of an option are as the property has them.
LinesAreWell(o, lines) ==
    \A i \in DOMAIN lines :
        /\ lines[i].from <= lines[i].to
        /\ lines[i].to - lines[i].from <= WidthOf(o)
        /\ i = 1 => lines[i].from = 1
        /\ i > 1 => IsBrokenWell(o, lines[i - 1], lines[i])

\* The next line begins where it should.
IsNext(o, lines) ==
    IF lines = <<>> THEN startLine = 1 /\ LastBreak = 0
    ELSE \/ lines[Len(lines)].to \in Spaces(o) /\ startLine = lines[Len(lines)].to + 1
         \/ ~FirstFits(o) /\ startLine = lines[Len(lines)].to

\* The line that is being read begins behind a space, which is the last one before the
\* break, or at the break, if the text begins there or with a word that does not fit.
AfterSpace(o) ==
    /\ startLine - 1 \in Spaces(o) /\ startLine - 1 <= LastBreak
    /\ \A p \in Spaces(o) : p <= LastBreak => p < startLine
AfterBreak(o) ==
    startLine = LastBreak + 1 /\ (LastBreak = 0 \/ ~FirstFits(o))

\* lastSpace is the last space in the line so far, ...
HasSpace(o) ==
    /\ lastSpace \in Spaces(o) /\ startLine <= lastSpace /\ lastSpace < current
    /\ \A p \in Spaces(o) : p < current => p <= lastSpace

\* ... if there is one.
HasNoSpace(o) == \A p \in Spaces(o) : p < current => p < startLine

\* The iterators at a character of the text
Place(o) ==
    /\ current \in 1..TextEnd(o) /\ size \in 0..(allowed + 1)
    /\ startLine \in Nat /\ lastSpace \in Nat /\ LastBreak \in Nat
    /\ \/ AfterSpace(o) /\ (HasSpace(o) \/ (HasNoSpace(o) /\ lastSpace = startLine - 1))
       \/ AfterBreak(o) /\ (HasSpace(o) \/ (HasNoSpace(o) /\ lastSpace = startLine))

\* The loop has not come to the end of the range before its beginning.
WritingInv(o, lines) ==
    /\ phase # "undefined"
    /\ LinesAreWell(o, lines) /\ IsNext(o, lines) /\ Place(o)
    /\ LastBreak = Len(lines) * (allowed + 2)

\* The description is complete.
WrittenInv(o, lines) ==
    LinesAreWell(o, lines) /\ lines # <<>> /\ lines[Len(lines)].to = TextEnd(o)

\* What is shown of an option
ShownOption == [option : Nat, own_line : BOOLEAN, lines : Seq([from : Nat, to : Nat])]

\* The loop of format_description() is at the description of the option, or has failed there.
IsWriting == phase \in {"description", "undefined"}

\* The options that were shown so far are those that are not positional, in their order;
\* the last one is the one whose description is being written.
ShownInv ==
    /\ list \in OptionLists /\ option \in 1..(Len(list) + 1)
    /\ phase \in {"usage", "options", "description", "done", "undefined"}
    /\ current \in Nat /\ startLine \in Nat /\ lastSpace \in Nat
    /\ shown \in Seq(ShownOption)
    /\ \A k \in DOMAIN shown :
          /\ shown[k].option \in 1..Len(list) /\ ~list[shown[k].option].positional
          /\ shown[k].option < option \/ (IsWriting /\ k = Len(shown))
    /\ \A i \in 1..Len(list) :
          ~list[i].positional /\ (i < option \/ (IsWriting /\ i = option)) =>
                \E k \in DOMAIN shown : shown[k].option = i
    /\ \A j, k \in DOMAIN shown : j < k => shown[j].option < shown[k].option
    /\ IsWriting => shown # <<>> /\ shown[Len(shown)].option = option
    /\ phase = "done" => option = Len(list) + 1

\* The description of an option that was shown, and what is there of the one that is
\* being written, unless a word other than the first does not fit.
DescriptionsInv ==
    \A k \in DOMAIN shown : \A o \in {list[shown[k].option]} : \A lines \in {shown[k].lines} :
        OthersFit(o) => IF shown[k].option < option THEN WrittenInv(o, lines)
                                                    ELSE WritingInv(o, lines)

\* The inductive invariant
HelpInv == ShownInv /\ DescriptionsInv

-----------------------------------------------------------------------------
(* How long a line is *)

\* The option whose description is being written.
IsWritten(o) ==
    /\ list \in OptionLists /\ option \in 1..Len(list) /\ o = list[option] /\ ~o.positional

\* What is known of the option whose description is being written.
LEMMA WrittenIs ==
  ASSUME NEW o, IsWritten(o)
  PROVE  /\ Declared(o) /\ allowed \in Nat /\ allowed >= 44
         /\ list \in OwnOptions => LinesFitInto(allowed, o)
<1>1. Declared(o) /\ DOMAIN list = 1..Len(list)
  BY DeclaredIs DEF IsWritten
<1>2. allowed \in Nat /\ allowed >= 44
  BY AllowedIs DEF IsWritten, allowed
<1>3. list \in OwnOptions => LinesFitInto(allowed, o)
  BY <1>1, OwnOptionsAssumption DEF IsWritten, allowed
<1> QED
  BY <1>1, <1>2, <1>3

\* A line that begins behind a space begins with a word that reaches beyond the last break.
LEMMA RestIsOfAWord ==
  ASSUME NEW o, Declared(o), AfterSpace(o), LastBreak < TextEnd(o), LastBreak \in Nat,
         startLine \in Nat
  PROVE  \E i \in 2..Len(WordsOf(o)) :
            /\ LastBreak < startLine + WordsOf(o)[i]
            /\ startLine + WordsOf(o)[i] \in Spaces(o) \cup {TextEnd(o)}
            /\ \A p \in Spaces(o) : startLine <= p => startLine + WordsOf(o)[i] <= p
<1> DEFINE q == startLine - 1
<1>1. q \in Spaces(o) /\ q \in Nat /\ q >= 2 /\ WordsOf(o) # <<>>
  BY SpacesAre DEF AfterSpace
<1>2. PICK i \in DOMAIN WordsOf(o) :
            /\ q = 0 <=> i = 1
            /\ q + WordsOf(o)[i] + 1 \in Spaces(o) \cup {TextEnd(o)}
            /\ \A p \in Spaces(o) : q < p => q + WordsOf(o)[i] + 1 <= p
  BY <1>1, NextEnd
<1>3. i \in 2..Len(WordsOf(o)) /\ WordsOf(o)[i] \in Nat
  <2>1. i # 1
    BY <1>1, <1>2
  <2>2. i \in 1..Len(WordsOf(o)) /\ Len(WordsOf(o)) \in Nat
    BY WordsAre
  <2> QED
    BY <2>1, <2>2, WordsAre
<1> DEFINE e == startLine + WordsOf(o)[i]
<1>4. e = q + WordsOf(o)[i] + 1 /\ e \in Nat
  BY <1>3
<1>5. \A p \in Spaces(o) : startLine <= p => e <= p
  <2> SUFFICES ASSUME NEW p \in Spaces(o), startLine <= p PROVE e <= p
    OBVIOUS
  <2>1. q < p
    BY SpacesAre
  <2> QED
    BY <1>2, <1>4, <2>1
<1>6. e \in Spaces(o) \cup {TextEnd(o)}
  BY <1>2, <1>4
<1>7. e >= startLine
  BY <1>3
<1> HIDE DEF e
<1>8. LastBreak < e
  <2>1. CASE e \in Spaces(o)
    <3> SUFFICES ASSUME e <= LastBreak PROVE FALSE
      BY <1>4
    <3> QED
      BY <1>4, <1>7, <2>1 DEF AfterSpace
  <2>2. CASE e = TextEnd(o)
    BY <2>2
  <2> QED
    BY <1>6, <2>1, <2>2
<1> QED
  BY <1>3, <1>5, <1>6, <1>8 DEF e

\* If all words fit, a line begins behind the last space up to the last break.
LEMMA StartIs ==
  ASSUME NEW o, Declared(o), Place(o), FirstFits(o)
  PROVE  startLine - 1 = LastSpaceUpTo(o, LastBreak)
<1> DEFINE m == LastSpaceUpTo(o, LastBreak)
<1>1. LastBreak \in Nat /\ startLine \in Nat
  BY DEF Place
<1>2. /\ m \in Nat /\ m <= LastBreak /\ (m = 0 \/ m \in Spaces(o))
      /\ \A p \in Spaces(o) : p <= LastBreak => p <= m
  BY <1>1, LastSpaceIs
<1> HIDE DEF m
<1>3. CASE AfterSpace(o)
  <2>1. startLine - 1 \in Spaces(o) /\ startLine - 1 <= m /\ startLine - 1 >= 2
    BY <1>2, <1>3, SpacesAre DEF AfterSpace
  <2>2. m \in Spaces(o) /\ m < startLine
    BY <1>1, <1>2, <1>3, <2>1 DEF AfterSpace
  <2> QED
    BY <1>1, <1>2, <2>1, <2>2 DEF m
<1>4. CASE AfterBreak(o)
  <2>1. LastBreak = 0 /\ startLine = 1
    BY <1>4 DEF AfterBreak
  <2> QED
    BY <1>2, <2>1 DEF m
<1> QED
  BY <1>3, <1>4 DEF Place

\* How far a line reaches back before the last break.
LEMMA StartIsNear ==
  ASSUME NEW o, Declared(o), Place(o), LastBreak < TextEnd(o)
  PROVE  /\ LastBreak + 1 - startLine <= LongestWord(o)
         /\ AfterBreak(o) => startLine = LastBreak + 1
<1>1. LastBreak \in Nat /\ startLine \in Nat /\ LongestWord(o) \in Nat
  BY LongestWordIs DEF Place
<1>2. CASE AfterSpace(o)
  <2>1. PICK i \in 2..Len(WordsOf(o)) : LastBreak < startLine + WordsOf(o)[i]
    BY <1>1, <1>2, RestIsOfAWord
  <2>2. i \in DOMAIN WordsOf(o) /\ WordsOf(o)[i] \in Nat
    BY WordsAre
  <2>3. WordsOf(o)[i] <= LongestWord(o)
    BY <2>2, LongestWordIs
  <2> QED
    BY <1>1, <2>1, <2>2, <2>3 DEF AfterBreak
<1>3. CASE AfterBreak(o)
  BY <1>1, <1>3 DEF AfterBreak
<1> QED
  BY <1>2, <1>3 DEF Place

\* The lines of this program's options are short because their words lie as they do.
LEMMA OwnLineIsShort ==
  ASSUME NEW o, IsWritten(o), list \in OwnOptions, Place(o), WordsOf(o) # <<>>, NEW k \in Nat,
         LastBreak = k * (allowed + 2), LastBreak < TextEnd(o)
  PROVE  LET next == LastBreak + allowed + 2 IN
         /\ FirstFits(o)
         /\ (IF next < TextEnd(o) THEN LastSpaceUpTo(o, next) ELSE TextEnd(o)) - startLine
                <= allowed
<1> DEFINE next == LastBreak + allowed + 2
           end == IF next < TextEnd(o) THEN LastSpaceUpTo(o, next) ELSE TextEnd(o)
<1>1. /\ Declared(o) /\ allowed \in Nat /\ allowed >= 44 /\ LinesFitInto(allowed, o)
      /\ LastBreak \in Nat /\ startLine \in Nat /\ TextEnd(o) \in Nat
  BY WrittenIs, SpacesAre DEF Place
<1>2. FirstFits(o)
  <2>1. 1 \in DOMAIN WordsOf(o)
    BY <1>1, WordsAre
  <2> QED
    BY <1>1, <2>1 DEF LinesFitInto, FirstFits, Fits
<1>3. k \in 0..TextEnd(o)
  <2> DEFINE w == allowed + 2
  <2>1. w \in Nat /\ w >= 1
    BY <1>1
  <2> HIDE DEF w
  <2>2. k * w >= k
    BY <2>1
  <2>3. k * w < TextEnd(o)
    BY DEF w
  <2>4. k * w \in Nat
    BY <2>1
  <2> QED
    BY <1>1, <2>2, <2>3, <2>4
<1>4. (k + 1) * (allowed + 2) = next
  <2> DEFINE w == allowed + 2
  <2>1. w \in Nat
    BY <1>1
  <2>2. next = k * w + w
    BY <1>1
  <2> HIDE DEF w
  <2>3. (k + 1) * w = k * w + w
    BY <2>1
  <2> QED
    BY <2>2, <2>3 DEF w
<1>5. end - LastSpaceUpTo(o, LastBreak) - 1 <= allowed
  BY <1>1, <1>3, <1>4 DEF LinesFitInto
<1>6. startLine - 1 = LastSpaceUpTo(o, LastBreak)
  BY <1>1, <1>2, StartIs
<1>7. end \in Nat
  <2>1. next \in Nat
    BY <1>1
  <2> QED
    BY <1>1, <2>1, LastSpaceIs
<1> HIDE DEF end
<1>8. end - startLine <= allowed
  BY <1>1, <1>5, <1>6, <1>7
<1> QED
  BY <1>2, <1>8 DEF end

-----------------------------------------------------------------------------
(* The steps of the loop *)

\* The lines of a description
Lines == Seq([from : Nat, to : Nat])

\* What a line is appended to stays, and the line is its end.
LEMMA AppendedLine ==
  ASSUME NEW lines \in Lines, NEW line \in [from : Nat, to : Nat]
  PROVE  LET new == Append(lines, line)
             n == Len(lines) IN
         /\ new \in Lines /\ new # <<>> /\ Len(new) = n + 1
         /\ \A i \in 1..n : new[i] = lines[i]
         /\ new[n + 1] = line
<1> DEFINE T == [from : Nat, to : Nat]
           new == Append(lines, line)
           n == Len(lines)
<1>1. Lines = Seq(T)
  BY DEF Lines
<1>2. lines \in Seq(T) /\ line \in T
  BY <1>1
<1> HIDE DEF T
<1>3. new \in Seq(T) /\ new # <<>>
  BY <1>2, AppendProperties
<1>4. Len(new) = n + 1 /\ new[n + 1] = line
  BY <1>2, AppendProperties
<1>5. \A i \in 1..n : new[i] = lines[i]
  BY <1>2, AppendProperties
<1> QED
  BY <1>1, <1>3, <1>4, <1>5

\* A line that begins where it should and is not too long is a good one.
LEMMA OneMoreLine ==
  ASSUME NEW o, NEW lines \in Lines, NEW to \in Nat, startLine \in Nat,
         LinesAreWell(o, lines), IsNext(o, lines),
         startLine <= to, to - startLine <= WidthOf(o)
  PROVE  LET new == Append(lines, [from |-> startLine, to |-> to]) IN
         /\ new \in Lines /\ Len(new) = Len(lines) + 1 /\ Len(lines) \in Nat
         /\ new # <<>> /\ new[Len(new)].to = to
         /\ LinesAreWell(o, new)
<1> DEFINE line == [from |-> startLine, to |-> to]
           n == Len(lines)
           new == Append(lines, line)
<1>1. line \in [from : Nat, to : Nat] /\ line.from = startLine /\ line.to = to
  OBVIOUS
<1>2. n \in Nat /\ DOMAIN lines = 1..n /\ (lines = <<>> <=> n = 0)
  BY DEF Lines
<1>3. /\ new \in Lines /\ new # <<>> /\ Len(new) = n + 1 /\ DOMAIN new = 1..(n + 1)
      /\ \A i \in 1..n : new[i] = lines[i]
      /\ new[n + 1] = line
  <2> HIDE DEF line
  <2>1. /\ new \in Lines /\ new # <<>> /\ Len(new) = n + 1
        /\ \A i \in 1..n : new[i] = lines[i]
        /\ new[n + 1] = line
    BY <1>1, AppendedLine
  <2> HIDE DEF new
  <2>2. DOMAIN new = 1..Len(new)
    BY <2>1 DEF Lines
  <2> QED
    BY <2>1, <2>2
<1> HIDE DEF new, line
<1>4. ASSUME NEW i \in 1..(n + 1)
      PROVE  /\ new[i].from <= new[i].to
             /\ new[i].to - new[i].from <= WidthOf(o)
             /\ i = 1 => new[i].from = 1
             /\ i > 1 => IsBrokenWell(o, new[i - 1], new[i])
  <2>1. CASE i = n + 1
    <3>1. new[i] = line
      BY <1>3, <2>1
    <3>2. i = 1 => startLine = 1
      BY <1>2, <2>1 DEF IsNext
    <3>3. ASSUME i > 1 PROVE IsBrokenWell(o, new[i - 1], line)
      <4>1. n # 0 /\ i - 1 = n /\ n \in 1..n
        BY <1>2, <2>1, <3>3
      <4>2. new[i - 1] = lines[n]
        BY <1>3, <4>1
      <4>3. lines # <<>>
        BY <1>2, <4>1
      <4>4. \/ lines[n].to \in Spaces(o) /\ startLine = lines[n].to + 1
            \/ ~FirstFits(o) /\ startLine = lines[n].to
        BY <4>3 DEF IsNext
      <4> QED
        BY <1>1, <4>2, <4>4 DEF IsBrokenWell, FirstFits
    <3> QED
      BY <1>1, <3>1, <3>2, <3>3
  <2>2. CASE i # n + 1
    <3>1. i \in 1..n /\ new[i] = lines[i]
      BY <1>2, <1>3, <2>2
    <3>2. i > 1 => new[i - 1] = lines[i - 1]
      <4>1. i > 1 => i - 1 \in 1..n
        BY <1>2, <3>1
      <4> QED
        BY <1>3, <4>1
    <3> QED
      BY <1>2, <3>1, <3>2 DEF LinesAreWell
  <2> QED
    BY <2>1, <2>2
<1>5. LinesAreWell(o, new)
  BY <1>3, <1>4 DEF LinesAreWell
<1>6. Len(new) = n + 1 /\ new[Len(new)].to = to
  BY <1>1, <1>3
<1> QED
  BY <1>2, <1>3, <1>5, <1>6 DEF new, line

\* What the properties of a description depend on.
LEMMA SameOption ==
  ASSUME NEW o, NEW lines, UNCHANGED list
  PROVE  /\ allowed' = allowed /\ LinesAreWell(o, lines)' = LinesAreWell(o, lines)
         /\ FirstFits(o)' = FirstFits(o) /\ OthersFit(o)' = OthersFit(o)
<1>1. allowed' = allowed
  BY DEF allowed
<1>2. FirstFits(o)' = FirstFits(o) /\ OthersFit(o)' = OthersFit(o)
  BY <1>1 DEF FirstFits, OthersFit, Fits
<1>3. LinesAreWell(o, lines)' = LinesAreWell(o, lines)
  BY <1>1 DEF LinesAreWell, WidthOf, IsBrokenWell, Fits
<1> QED
  BY <1>1, <1>2, <1>3

\* A character that does not end a line.
LEMMA NextCharacterWrites ==
  ASSUME NEW o, IsWritten(o), NEW lines \in Lines, WritingInv(o, lines),
         NextCharacter
  PROVE  WritingInv(o, lines)'
<1>1. PICK space \in {current, lastSpace} : AtCharacter(space) /\ lastSpace' = space
  BY DEF NextCharacter
<1>2. /\ size <= allowed /\ size' = size + 1 /\ current' = current + 1
      /\ phase = "description" /\ current < TextEnd(o)
      /\ space = IF current \in Spaces(o) THEN current ELSE lastSpace
      /\ UNCHANGED <<list, option, phase, startLine>>
  BY <1>1 DEF NextCharacter, AtCharacter, IsWritten
<1>3. /\ Declared(o) /\ allowed \in Nat /\ allowed' = allowed
      /\ LinesAreWell(o, lines)' = LinesAreWell(o, lines) /\ FirstFits(o)' = FirstFits(o)
  BY <1>2, WrittenIs, SameOption
<1>4. /\ current \in 1..TextEnd(o) /\ size \in 0..(allowed + 1) /\ TextEnd(o) \in Nat
      /\ startLine \in Nat /\ lastSpace \in Nat /\ LastBreak \in Nat
      /\ \A p \in Spaces(o) : p \in Nat
  BY <1>3, SpacesAre DEF WritingInv, Place
<1>5. LastBreak' = LastBreak
  BY <1>2, <1>4 DEF LastBreak
<1>6. /\ current' \in 1..TextEnd(o) /\ size' \in 0..(allowed' + 1)
      /\ startLine' \in Nat /\ lastSpace' \in Nat /\ LastBreak' \in Nat
  BY <1>1, <1>2, <1>3, <1>4, <1>5
<1>7. startLine <= current
  <2>1. LastBreak < current
    BY <1>4 DEF LastBreak
  <2>2. CASE AfterSpace(o)
    BY <1>4, <2>1, <2>2 DEF AfterSpace
  <2>3. CASE AfterBreak(o)
    BY <1>4, <2>1, <2>3 DEF AfterBreak
  <2> QED
    BY <2>2, <2>3 DEF WritingInv, Place
<1>8. CASE current \in Spaces(o)
  <2>1. HasSpace(o)'
    <3>1. lastSpace' = current
      BY <1>1, <1>2, <1>8
    <3> QED
      BY <1>2, <1>4, <1>7, <1>8, <3>1 DEF HasSpace
  <2>2. AfterSpace(o)' = AfterSpace(o) /\ AfterBreak(o)' = AfterBreak(o)
    BY <1>2, <1>3, <1>5 DEF AfterSpace, AfterBreak
  <2>3. Place(o)'
    BY <1>6, <2>1, <2>2 DEF WritingInv, Place
  <2> QED
    BY <1>2, <1>3, <1>5, <2>3 DEF WritingInv, IsNext
<1>9. CASE current \notin Spaces(o)
  <2>1. lastSpace' = lastSpace
    BY <1>1, <1>2, <1>9
  <2>2. \A p \in Spaces(o) : p < current' <=> p < current
    BY <1>2, <1>4, <1>9
  <2>3. (HasSpace(o) => HasSpace(o)') /\ (HasNoSpace(o) => HasNoSpace(o)')
    BY <1>2, <1>4, <2>1, <2>2 DEF HasSpace, HasNoSpace
  <2>4. AfterSpace(o)' = AfterSpace(o) /\ AfterBreak(o)' = AfterBreak(o)
    BY <1>2, <1>3, <1>5 DEF AfterSpace, AfterBreak
  <2>5. Place(o)'
    BY <1>2, <1>6, <2>1, <2>3, <2>4 DEF WritingInv, Place
  <2> QED
    BY <1>2, <1>3, <1>5, <2>5 DEF WritingInv, IsNext
<1> QED
  BY <1>8, <1>9

\* The loop is where it breaks the line, and what it takes for the last space is one, or
\* the line begins with a word that does not fit.
LEMMA AtBreak ==
  ASSUME NEW o, IsWritten(o), OthersFit(o), Place(o), size > allowed, current < TextEnd(o),
         NEW space, space = IF current \in Spaces(o) THEN current ELSE lastSpace
  PROVE  /\ current = LastBreak + allowed + 2 /\ WordsOf(o) # <<>>
         /\ startLine <= space /\ startLine <= current
         /\ space = startLine => AfterBreak(o) /\ ~FirstFits(o) /\ startLine = LastBreak + 1
         /\ space # startLine =>
               /\ space \in Spaces(o) /\ space \in Nat /\ startLine < space /\ space <= current
               /\ \A p \in Spaces(o) : p <= current => p <= space
<1>1. /\ Declared(o) /\ allowed \in Nat /\ allowed >= 44
      /\ current \in 1..TextEnd(o) /\ size \in 0..(allowed + 1) /\ TextEnd(o) \in Nat
      /\ startLine \in Nat /\ lastSpace \in Nat /\ LastBreak \in Nat
      /\ \A p \in Spaces(o) : p \in Nat /\ p >= 2
  BY WrittenIs, SpacesAre DEF Place
<1>2. current = LastBreak + allowed + 2
  BY <1>1 DEF LastBreak
<1>3. WordsOf(o) # <<>>
  BY <1>1, SpacesAre
<1>4. startLine <= LastBreak + 1
  BY <1>1 DEF Place, AfterSpace, AfterBreak
<1>5. CASE current \in Spaces(o)
  <2>1. space = current /\ startLine < space
    BY <1>1, <1>2, <1>4, <1>5
  <2> QED
    BY <1>1, <1>2, <1>3, <1>5, <2>1
<1>6. CASE current \notin Spaces(o) /\ HasSpace(o)
  <2>1. /\ space = lastSpace /\ space \in Spaces(o) /\ startLine <= space /\ space < current
        /\ \A p \in Spaces(o) : p < current => p <= space
    BY <1>6 DEF HasSpace
  <2>2. \A p \in Spaces(o) : p <= current => p <= space
    BY <1>1, <1>6, <2>1
  <2>3. ASSUME space = startLine PROVE AfterBreak(o) /\ ~FirstFits(o)
    <3>1. ~AfterSpace(o)
      <4> SUFFICES ASSUME AfterSpace(o) PROVE FALSE
        OBVIOUS
      <4>1. PICK i \in 2..Len(WordsOf(o)) :
               \A p \in Spaces(o) : startLine <= p => startLine + WordsOf(o)[i] <= p
        BY <1>1, <1>2, RestIsOfAWord
      <4>2. WordsOf(o)[i] \in Nat /\ WordsOf(o)[i] > 0
        <5>1. i \in 1..Len(WordsOf(o))
          OBVIOUS
        <5> QED
          BY <1>1, <5>1, WordsAre
      <4> QED
        BY <1>1, <2>1, <2>3, <4>1, <4>2
    <3>2. AfterBreak(o) /\ LastBreak # 0
      BY <1>1, <2>1, <2>3, <3>1 DEF Place, AfterBreak
    <3> QED
      BY <3>2 DEF AfterBreak
  <2> QED
    BY <1>1, <1>2, <1>3, <1>4, <2>1, <2>2, <2>3 DEF AfterBreak
<1>7. CASE current \notin Spaces(o) /\ ~HasSpace(o)
  <2>1. /\ HasNoSpace(o) /\ space = lastSpace
        /\ \/ AfterSpace(o) /\ lastSpace = startLine - 1
           \/ AfterBreak(o) /\ lastSpace = startLine
    BY <1>7 DEF Place
  <2>2. \A p \in Spaces(o) : p <= current => p < startLine
    BY <1>1, <1>7, <2>1 DEF HasNoSpace
  <2>3. ~AfterSpace(o)
    <3> SUFFICES ASSUME AfterSpace(o) PROVE FALSE
      OBVIOUS
    <3>1. PICK i \in 2..Len(WordsOf(o)) :
             startLine + WordsOf(o)[i] \in Spaces(o) \cup {TextEnd(o)}
      BY <1>1, <1>2, RestIsOfAWord
    <3>2. WordsOf(o)[i] \in Nat /\ WordsOf(o)[i] <= allowed + 1
      <4>1. i \in 1..Len(WordsOf(o))
        OBVIOUS
      <4> QED
        BY <1>1, <4>1, WordsAre DEF OthersFit, Fits, FitsInto
    <3>3. startLine + WordsOf(o)[i] <= current
      BY <1>1, <1>2, <1>4, <3>2
    <3>4. startLine + WordsOf(o)[i] \in Spaces(o)
      BY <1>1, <3>1, <3>3
    <3> QED
      BY <1>1, <2>2, <3>2, <3>3, <3>4
  <2>4. AfterBreak(o) /\ space = startLine /\ startLine = LastBreak + 1
    BY <2>1, <2>3 DEF AfterBreak
  <2>5. ~FirstFits(o)
    <3>1. CASE LastBreak = 0
      <4> DEFINE first == WordsOf(o)[1]
      <4>1. 0 + first + 1 \in Spaces(o) \cup {TextEnd(o)}
        BY <1>1, <1>3, NextEnd
      <4>2. first \in Nat
        <5>1. 1 \in 1..Len(WordsOf(o))
          BY <1>1, <1>3, WordsAre
        <5> QED
          BY <1>1, <5>1, WordsAre
      <4>3. startLine = 1
        BY <2>4, <3>1
      <4> HIDE DEF first
      <4>4. first + 1 > current
        <5> SUFFICES ASSUME first + 1 <= current PROVE FALSE
          BY <1>1, <4>2
        <5>1. first + 1 \in Spaces(o)
          BY <1>1, <4>1, <4>2
        <5>2. first + 1 < 1
          BY <2>2, <4>3, <5>1
        <5> QED
          BY <4>2, <5>2
      <4>5. first > allowed + 1
        BY <1>1, <1>2, <3>1, <4>2, <4>4
      <4> QED
        BY <1>1, <4>2, <4>5 DEF FirstFits, Fits, FitsInto, first
    <3>2. CASE LastBreak # 0
      BY <2>4, <3>2 DEF AfterBreak
    <3> QED
      BY <3>1, <3>2
  <2> QED
    BY <1>1, <1>2, <1>3, <1>4, <2>4, <2>5
<1> QED
  BY <1>5, <1>6, <1>7

\* The width that a line may have.
LEMMA WidthIs ==
  ASSUME NEW o
  PROVE  WidthOf(o) = IF list \in OwnOptions THEN allowed ELSE allowed + 1 + LongestWord(o)
BY DEF WidthOf, LongestWord

\* The breaks come at every (allowed + 2)th character.
LEMMA OneMoreBreak ==
  ASSUME NEW n \in Nat, NEW w \in Nat, NEW last, last = n * (w + 2)
  PROVE  last + w + 2 = (n + 1) * (w + 2)
<1> DEFINE d == w + 2
<1>1. d \in Nat /\ n * d \in Nat
  OBVIOUS
<1>2. last + w + 2 = n * d + d
  BY <1>1
<1> HIDE DEF d
<1>3. (n + 1) * d = n * d + d
  BY <1>1
<1> QED
  BY <1>2, <1>3 DEF d

\* A text without words ends where it begins.
LEMMA EmptyText ==
  ASSUME NEW o, Declared(o), WordsOf(o) = <<>>
  PROVE  TextEnd(o) = 1 /\ Spaces(o) = {}
<1>1. Len(WordsOf(o)) = 0
  BY WordsAre
<1>2. 1..(Len(WordsOf(o)) - 1) = {}
  BY <1>1
<1> QED
  BY <1>2 DEF TextEnd, Spaces

\* The line that ends within its first word: that word does not fit, and the option is
\* none of this program.
LEMMA BreakInWordWrites ==
  ASSUME NEW o, IsWritten(o), OthersFit(o), NEW lines \in Lines, WritingInv(o, lines),
         BreakInWord,
         NEW new, new = Append(lines, [from |-> startLine, to |-> current + 1])
  PROVE  new \in Lines /\ WritingInv(o, new)'
<1>1. /\ size > allowed /\ size' = 0 /\ current' = current + 1
      /\ startLine' = current + 1 /\ lastSpace' = current + 1
      /\ phase = "description" /\ current < TextEnd(o)
      /\ startLine = IF current \in Spaces(o) THEN current ELSE lastSpace
      /\ UNCHANGED <<list, option, phase>>
  BY DEF BreakInWord, AtCharacter, IsWritten
<1>2. /\ Declared(o) /\ allowed \in Nat /\ allowed' = allowed
      /\ LinesAreWell(o, new)' = LinesAreWell(o, new) /\ FirstFits(o)' = FirstFits(o)
  BY <1>1, WrittenIs, SameOption
<1>3. /\ current \in 1..TextEnd(o) /\ TextEnd(o) \in Nat
      /\ startLine \in Nat /\ lastSpace \in Nat /\ LastBreak \in Nat
      /\ LongestWord(o) \in Nat
  BY <1>2, SpacesAre, LongestWordIs DEF WritingInv, Place
<1>4. /\ current = LastBreak + allowed + 2 /\ WordsOf(o) # <<>> /\ startLine <= current
      /\ AfterBreak(o) /\ ~FirstFits(o) /\ startLine = LastBreak + 1
  BY <1>1, AtBreak DEF WritingInv
<1>5. Len(lines) \in Nat
  BY DEF Lines
<1>6. list \notin OwnOptions
  BY <1>1, <1>3, <1>4, <1>5, OwnLineIsShort DEF WritingInv
<1>7. LongestWord(o) >= 1
  <2>1. 1 \in DOMAIN WordsOf(o) /\ WordsOf(o)[1] \in Nat /\ WordsOf(o)[1] > 0
    <3>1. 1 \in 1..Len(WordsOf(o))
      BY <1>2, <1>4, WordsAre
    <3> QED
      BY <1>2, <3>1, WordsAre
  <2>2. WordsOf(o)[1] <= LongestWord(o)
    BY <1>2, <2>1, LongestWordIs
  <2> QED
    BY <1>3, <2>1, <2>2
<1>8. (current + 1) - startLine <= WidthOf(o)
  BY <1>2, <1>3, <1>4, <1>6, <1>7, WidthIs
<1>9. /\ new \in Lines /\ Len(new) = Len(lines) + 1 /\ new # <<>>
      /\ new[Len(new)].to = current + 1 /\ LinesAreWell(o, new)
  <2>1. current + 1 \in Nat /\ startLine <= current + 1
    BY <1>3, <1>4
  <2> QED
    BY <1>3, <1>8, <2>1, OneMoreLine DEF WritingInv
<1>10. LastBreak' = current
  BY <1>1, <1>3 DEF LastBreak
<1>11. IsNext(o, new)'
  BY <1>1, <1>2, <1>4, <1>9 DEF IsNext
<1>12. AfterBreak(o)' /\ HasNoSpace(o)' /\ lastSpace' = startLine'
  BY <1>1, <1>2, <1>4, <1>10 DEF AfterBreak, HasNoSpace
<1>13. Place(o)'
  <2>1. current' \in 1..TextEnd(o) /\ size' \in 0..(allowed' + 1)
    BY <1>1, <1>2, <1>3
  <2>2. startLine' \in Nat /\ lastSpace' \in Nat /\ LastBreak' \in Nat
    BY <1>1, <1>3, <1>10
  <2> QED
    BY <1>12, <2>1, <2>2 DEF Place
<1>14. LastBreak' = Len(new) * (allowed' + 2)
  BY <1>2, <1>4, <1>5, <1>9, <1>10, OneMoreBreak DEF WritingInv
<1> QED
  BY <1>1, <1>2, <1>9, <1>11, <1>13, <1>14 DEF WritingInv

\* The line that ends before its last space.
LEMMA BreakAtSpaceWrites ==
  ASSUME NEW o, IsWritten(o), OthersFit(o), NEW lines \in Lines, WritingInv(o, lines),
         NEW space, AtCharacter(space), space > startLine, size > allowed,
         startLine' = space + 1, lastSpace' = space, size' = 0, current' = current + 1,
         UNCHANGED phase,
         NEW new, new = Append(lines, [from |-> startLine, to |-> space])
  PROVE  new \in Lines /\ WritingInv(o, new)'
<1>1. /\ phase = "description" /\ current < TextEnd(o)
      /\ space = IF current \in Spaces(o) THEN current ELSE lastSpace
      /\ UNCHANGED <<list, option, phase>>
  BY DEF AtCharacter, IsWritten
<1>2. /\ Declared(o) /\ allowed \in Nat /\ allowed' = allowed
      /\ LinesAreWell(o, new)' = LinesAreWell(o, new) /\ FirstFits(o)' = FirstFits(o)
  BY <1>1, WrittenIs, SameOption
<1>3. /\ current \in 1..TextEnd(o) /\ TextEnd(o) \in Nat
      /\ startLine \in Nat /\ lastSpace \in Nat /\ LastBreak \in Nat
      /\ LongestWord(o) \in Nat
      /\ \A p \in Spaces(o) : p \in Nat
  BY <1>2, SpacesAre, LongestWordIs DEF WritingInv, Place
<1>4. space # startLine
  <2>1. space \in Nat
    BY <1>1, <1>3
  <2> QED
    BY <1>3, <2>1
<1>5. /\ current = LastBreak + allowed + 2 /\ WordsOf(o) # <<>> /\ startLine <= current
      /\ space \in Spaces(o) /\ space \in Nat /\ startLine < space /\ space <= current
      /\ \A p \in Spaces(o) : p <= current => p <= space
  BY <1>1, <1>4, AtBreak DEF WritingInv
<1>6. Len(lines) \in Nat
  BY DEF Lines
<1>7. space - startLine <= WidthOf(o)
  <2>1. CASE list \in OwnOptions
    <3> DEFINE last == LastSpaceUpTo(o, current)
    <3>1. last - startLine <= allowed
      <4> DEFINE next == LastBreak + allowed + 2
      <4>1. next = current /\ LastBreak < TextEnd(o)
        BY <1>1, <1>2, <1>3, <1>5
      <4>2. (IF next < TextEnd(o) THEN LastSpaceUpTo(o, next) ELSE TextEnd(o)) - startLine
                <= allowed
        BY <1>5, <1>6, <2>1, <4>1, OwnLineIsShort DEF WritingInv
      <4> HIDE DEF next
      <4> QED
        BY <1>1, <4>1, <4>2
    <3>2. last \in Nat /\ space <= last
      BY <1>2, <1>3, <1>5, LastSpaceIs
    <3> HIDE DEF last
    <3>3. space - startLine <= allowed
      BY <1>2, <1>3, <1>5, <3>1, <3>2
    <3> QED
      BY <2>1, <3>3, WidthIs
  <2>2. CASE list \notin OwnOptions
    <3>1. LastBreak < TextEnd(o)
      BY <1>1, <1>2, <1>3, <1>5
    <3>2. LastBreak + 1 - startLine <= LongestWord(o)
      BY <1>2, <3>1, StartIsNear DEF WritingInv
    <3> QED
      BY <1>2, <1>3, <1>5, <2>2, <3>2, WidthIs
  <2> QED
    BY <2>1, <2>2
<1>8. /\ new \in Lines /\ Len(new) = Len(lines) + 1 /\ new # <<>>
      /\ new[Len(new)].to = space /\ LinesAreWell(o, new)
  <2>1. startLine <= space
    BY <1>3, <1>5
  <2> QED
    BY <1>3, <1>5, <1>7, <2>1, OneMoreLine DEF WritingInv
<1>9. LastBreak' = current
  BY <1>1, <1>3 DEF LastBreak
<1>10. IsNext(o, new)'
  BY <1>1, <1>5, <1>8 DEF IsNext
<1>11. AfterSpace(o)' /\ HasNoSpace(o)' /\ lastSpace' = startLine' - 1
  <2>1. \A p \in Spaces(o) : p < startLine' <=> p <= space
    BY <1>3, <1>5
  <2>2. \A p \in Spaces(o) : p < current' <=> p <= current
    BY <1>3
  <2>3. startLine' - 1 = space
    BY <1>5
  <2>4. AfterSpace(o)'
    BY <1>5, <1>9, <2>1, <2>3 DEF AfterSpace
  <2>5. HasNoSpace(o)'
    BY <1>5, <2>1, <2>2 DEF HasNoSpace
  <2> QED
    BY <2>3, <2>4, <2>5
<1>12. Place(o)'
  <2>1. current' \in 1..TextEnd(o) /\ size' \in 0..(allowed' + 1)
    BY <1>1, <1>2, <1>3
  <2>2. startLine' \in Nat /\ lastSpace' \in Nat /\ LastBreak' \in Nat
    BY <1>3, <1>5, <1>9
  <2> QED
    BY <1>11, <2>1, <2>2 DEF Place
<1>13. LastBreak' = Len(new) * (allowed' + 2)
  BY <1>2, <1>5, <1>6, <1>8, <1>9, OneMoreBreak DEF WritingInv
<1> QED
  BY <1>1, <1>2, <1>8, <1>10, <1>12, <1>13 DEF WritingInv

\* The last line: what the loop has left.
LEMMA EndOfDescriptionWrites ==
  ASSUME NEW o, IsWritten(o), OthersFit(o), NEW lines \in Lines, WritingInv(o, lines),
         EndOfDescription,
         NEW new, new = Append(lines, [from |-> startLine, to |-> current])
  PROVE  new \in Lines /\ WrittenInv(o, new)'
<1>1. current = TextEnd(o) /\ UNCHANGED list
  BY DEF EndOfDescription, IsWritten
<1>2. /\ Declared(o) /\ allowed \in Nat /\ LinesAreWell(o, new)' = LinesAreWell(o, new)
  BY <1>1, WrittenIs, SameOption
<1>3. /\ current \in Nat /\ size \in 0..(allowed + 1) /\ TextEnd(o) \in Nat
      /\ startLine \in Nat /\ LastBreak \in Nat /\ LongestWord(o) \in Nat
      /\ Place(o)
  BY <1>2, SpacesAre, LongestWordIs DEF WritingInv, Place
<1>4. current = LastBreak + 1 + size /\ LastBreak < TextEnd(o)
  BY <1>1, <1>3 DEF LastBreak
<1>5. startLine <= LastBreak + 1
  <2>1. CASE AfterSpace(o)
    BY <1>3, <2>1 DEF AfterSpace
  <2>2. CASE AfterBreak(o)
    BY <1>3, <2>2 DEF AfterBreak
  <2> QED
    BY <1>3, <2>1, <2>2 DEF Place
<1>6. Len(lines) \in Nat
  BY DEF Lines
<1>7. current - startLine <= WidthOf(o)
  <2>1. CASE list \in OwnOptions /\ WordsOf(o) # <<>>
    <3>1. ~(LastBreak + allowed + 2 < TextEnd(o))
      BY <1>1, <1>2, <1>3, <1>4
    <3>2. TextEnd(o) - startLine <= allowed
      BY <1>3, <1>4, <1>6, <2>1, <3>1, OwnLineIsShort DEF WritingInv
    <3> QED
      BY <1>1, <2>1, <3>2, WidthIs
  <2>2. CASE list \in OwnOptions /\ WordsOf(o) = <<>>
    <3>1. TextEnd(o) = 1 /\ Spaces(o) = {}
      BY <1>2, <2>2, EmptyText
    <3>2. AfterBreak(o)
      <4>1. ~AfterSpace(o)
        BY <3>1 DEF AfterSpace
      <4> QED
        BY <1>3, <4>1 DEF Place
    <3>3. startLine = 1 /\ current = 1
      <4>1. startLine = LastBreak + 1
        BY <3>2 DEF AfterBreak
      <4>2. LastBreak < 1 /\ LastBreak \in Nat /\ current = 1
        BY <1>1, <1>3, <1>4, <3>1
      <4> QED
        BY <4>1, <4>2
    <3> QED
      BY <1>2, <2>2, <3>3, WidthIs
  <2>3. CASE list \notin OwnOptions
    <3>1. LastBreak + 1 - startLine <= LongestWord(o)
      BY <1>2, <1>3, <1>4, StartIsNear
    <3> QED
      BY <1>2, <1>3, <1>4, <2>3, <3>1, WidthIs
  <2> QED
    BY <2>1, <2>2, <2>3
<1>8. /\ new \in Lines /\ new # <<>> /\ new[Len(new)].to = current /\ LinesAreWell(o, new)
  <2>1. startLine <= current
    BY <1>3, <1>4, <1>5
  <2> QED
    BY <1>3, <1>7, <2>1, OneMoreLine DEF WritingInv
<1> QED
  BY <1>1, <1>2, <1>8 DEF WrittenInv

-----------------------------------------------------------------------------
(* The options that are shown *)

\* The sequence of the options that were shown.
LEMMA ShownIs ==
  ASSUME shown \in Seq(ShownOption)
  PROVE  /\ Len(shown) \in Nat /\ DOMAIN shown = 1..Len(shown)
         /\ \A k \in DOMAIN shown : shown[k].option \in Nat /\ shown[k].lines \in Lines
         /\ shown # <<>> => Len(shown) \in DOMAIN shown
<1>1. Len(shown) \in Nat /\ DOMAIN shown = 1..Len(shown)
  BY LenProperties
<1>2. \A k \in DOMAIN shown : shown[k] \in ShownOption
  BY <1>1, ElementOfSeq
<1>3. \A s \in ShownOption : s.option \in Nat /\ s.lines \in Lines
  BY DEF ShownOption, Lines
<1>4. shown # <<>> => Len(shown) # 0
  BY EmptySeq
<1> QED
  BY <1>1, <1>2, <1>3, <1>4

\* A line is added to what is shown of the last option, and nothing else changes.
LEMMA AppendLineIs ==
  ASSUME shown \in Seq(ShownOption), shown # <<>>, NEW from \in Nat, NEW to \in Nat,
         AppendLine(from, to)
  PROVE  /\ shown' \in Seq(ShownOption) /\ Len(shown') = Len(shown) /\ DOMAIN shown' = DOMAIN shown
         /\ Len(shown) \in DOMAIN shown
         /\ \A k \in DOMAIN shown :
               /\ shown'[k].option = shown[k].option
               /\ k # Len(shown) => shown'[k] = shown[k]
         /\ shown'[Len(shown)].lines =
               Append(shown[Len(shown)].lines, [from |-> from, to |-> to])
<1> DEFINE n == Len(shown)
           line == [from |-> from, to |-> to]
           lines == Append(shown[n].lines, line)
<1>1. n \in Nat /\ DOMAIN shown = 1..n /\ n \in DOMAIN shown
  BY ShownIs
<1>2. shown[n].lines \in Lines /\ shown[n] \in ShownOption
  BY <1>1, ShownIs, ElementOfSeq
<1>3. lines \in Lines
  <2>1. line \in [from : Nat, to : Nat]
    OBVIOUS
  <2> HIDE DEF line
  <2> DEFINE T == [from : Nat, to : Nat]
  <2>2. line \in T /\ shown[n].lines \in Seq(T)
    BY <1>2, <2>1 DEF Lines
  <2> HIDE DEF T
  <2>3. Append(shown[n].lines, line) \in Seq(T)
    BY <2>2, AppendProperties
  <2> QED
    BY <2>3 DEF Lines, T
<1> DEFINE last == [shown[n] EXCEPT !.lines = lines]
<1>4. last \in ShownOption /\ last.option = shown[n].option /\ last.lines = lines
  <2> HIDE DEF lines
  <2> QED
    BY <1>2, <1>3 DEF ShownOption, Lines
<1>5. shown' = [shown EXCEPT ![n] = last]
  BY DEF AppendLine
<1> HIDE DEF last
<1>6. shown' \in Seq(ShownOption) /\ Len(shown') = n
  BY <1>1, <1>4, <1>5, ExceptSeq
<1>7. DOMAIN shown' = DOMAIN shown /\ shown'[n] = last
      /\ \A k \in DOMAIN shown : k # n => shown'[k] = shown[k]
  BY <1>1, <1>5
<1> QED
  BY <1>1, <1>4, <1>6, <1>7

\* ShownInv where no option is added to those that are shown.
LEMMA ShownKept ==
  ASSUME ShownInv, UNCHANGED list,
         current' \in Nat, startLine' \in Nat, lastSpace' \in Nat,
         shown' \in Seq(ShownOption), Len(shown') = Len(shown), DOMAIN shown' = DOMAIN shown,
         \A k \in DOMAIN shown : shown'[k].option = shown[k].option,
         phase' \in {"usage", "options", "description", "done", "undefined"},
         option' \in 1..(Len(list) + 1),
         \A k \in DOMAIN shown : shown[k].option < option' \/ (IsWriting' /\ k = Len(shown)),
         \A i \in 1..Len(list) :
            ~list[i].positional /\ (i < option' \/ (IsWriting' /\ i = option')) =>
                i < option \/ (IsWriting /\ i = option),
         IsWriting' => IsWriting /\ option' = option,
         phase' = "done" => option' = Len(list) + 1
  PROVE  ShownInv'
<1>1. \A k \in DOMAIN shown' :
          /\ shown'[k].option \in 1..Len(list') /\ ~list'[shown'[k].option].positional
          /\ shown'[k].option < option' \/ (IsWriting' /\ k = Len(shown'))
  BY DEF ShownInv
<1>2. \A i \in 1..Len(list') :
          ~list'[i].positional /\ (i < option' \/ (IsWriting' /\ i = option')) =>
                \E k \in DOMAIN shown' : shown'[k].option = i
  BY DEF ShownInv
<1>3. \A j, k \in DOMAIN shown' : j < k => shown'[j].option < shown'[k].option
  BY DEF ShownInv
<1>4. IsWriting' => shown' # <<>> /\ shown'[Len(shown')].option = option'
  <2> SUFFICES ASSUME IsWriting' PROVE shown' # <<>> /\ shown'[Len(shown')].option = option'
    OBVIOUS
  <2>1. shown # <<>> /\ shown[Len(shown)].option = option /\ shown \in Seq(ShownOption)
    BY DEF ShownInv
  <2>2. Len(shown) \in DOMAIN shown
    BY <2>1, ShownIs
  <2>3. shown'[Len(shown')].option = option'
    BY <2>1, <2>2
  <2>4. shown' # <<>>
    <3>1. DOMAIN shown' # {}
      BY <2>2
    <3> QED
      BY <3>1
  <2> QED
    BY <2>3, <2>4
<1>5. list' \in OptionLists
  BY DEF ShownInv
<1> QED
  BY <1>1, <1>2, <1>3, <1>4, <1>5 DEF ShownInv

\* The options that were shown have all been come to before, but for the last one while
\* its description is being written.
LEMMA ShownBefore ==
  ASSUME ShownInv
  PROVE  /\ list \in OptionLists /\ Len(list) \in Nat /\ DOMAIN list = 1..Len(list)
         /\ option \in 1..(Len(list) + 1)
         /\ current \in Nat /\ startLine \in Nat /\ lastSpace \in Nat
         /\ shown \in Seq(ShownOption)
         /\ \A k \in DOMAIN shown :
               (IsWriting /\ k = Len(shown)) \/ shown[k].option < option
         /\ IsWriting =>
               /\ shown # <<>> /\ Len(shown) \in DOMAIN shown
               /\ shown[Len(shown)].option = option /\ IsWritten(list[option])
<1>1. /\ list \in OptionLists /\ option \in 1..(Len(list) + 1) /\ shown \in Seq(ShownOption)
      /\ current \in Nat /\ startLine \in Nat /\ lastSpace \in Nat
      /\ \A k \in DOMAIN shown :
            /\ shown[k].option \in 1..Len(list) /\ ~list[shown[k].option].positional
            /\ shown[k].option < option \/ (IsWriting /\ k = Len(shown))
      /\ IsWriting => shown # <<>> /\ shown[Len(shown)].option = option
  BY DEF ShownInv
<1>2. Len(list) \in Nat /\ DOMAIN list = 1..Len(list)
  BY <1>1, DeclaredIs
<1>3. IsWriting => Len(shown) \in DOMAIN shown
  BY <1>1, ShownIs
<1>4. IsWriting => IsWritten(list[option])
  BY <1>1, <1>3 DEF IsWritten
<1> QED
  BY <1>1, <1>2, <1>3, <1>4

\* What DescriptionsInv says of the description that is being written.
LEMMA IsBeingWritten ==
  ASSUME DescriptionsInv, NEW k \in DOMAIN shown, ~(shown[k].option < option),
         NEW o \in {list[shown[k].option]}, NEW lines \in {shown[k].lines}, OthersFit(o)
  PROVE  WritingInv(o, lines)
BY DEF DescriptionsInv

\* The description of an option that the loop has left stays.
LEMMA WrittenStays ==
  ASSUME DescriptionsInv, UNCHANGED list,
         NEW k \in DOMAIN shown, shown[k].option < option,
         shown'[k] = shown[k], shown[k].option < option',
         NEW o \in {list'[shown'[k].option]}, NEW lines \in {shown'[k].lines},
         OthersFit(o)'
  PROVE  IF shown'[k].option < option' THEN WrittenInv(o, lines)' ELSE WritingInv(o, lines)'
<1>1. o \in {list[shown[k].option]} /\ lines \in {shown[k].lines}
  OBVIOUS
<1>2. /\ OthersFit(o)' = OthersFit(o) /\ LinesAreWell(o, lines)' = LinesAreWell(o, lines)
  BY SameOption
<1>3. WrittenInv(o, lines)
  BY <1>1, <1>2 DEF DescriptionsInv
<1>4. WrittenInv(o, lines)'
  BY <1>2, <1>3 DEF WrittenInv
<1> QED
  BY <1>4

\* Nothing is shown at first.
LEMMA InitShows == HelpInit => HelpInv
<1> SUFFICES ASSUME HelpInit PROVE HelpInv
  OBVIOUS
<1>1. /\ list \in OptionLists /\ Len(list) \in Nat /\ option = 1 /\ phase = "usage"
      /\ shown = <<>> /\ DOMAIN shown = {}
      /\ current = 1 /\ startLine = 1 /\ lastSpace = 1
  BY DeclaredIs DEF HelpInit
<1>2. shown \in Seq(ShownOption)
  BY <1>1, EmptySeq
<1>3. ShownInv
  BY <1>1, <1>2 DEF ShownInv, IsWriting
<1>4. DescriptionsInv
  BY <1>1 DEF DescriptionsInv
<1> QED
  BY <1>3, <1>4 DEF HelpInv

\* The steps between two descriptions.
LEMMA StepBetween ==
  ASSUME HelpInv, help \/ SkipPositional \/ EndOfOptions
  PROVE  HelpInv'
<1>1. /\ phase \in {"usage", "options"} /\ phase' \in {"options", "done"}
      /\ UNCHANGED <<list, iterators, shown>>
      /\ option' \in {option, option + 1}
      /\ option' # option => option <= Len(list) /\ list[option].positional
      /\ phase' = "done" => option' = option /\ option > Len(list)
  BY DEF help, SkipPositional, EndOfOptions
<1>2. ~IsWriting /\ ~IsWriting' /\ ShownInv /\ DescriptionsInv
  BY <1>1 DEF IsWriting, HelpInv
<1>3. /\ Len(list) \in Nat /\ option \in 1..(Len(list) + 1) /\ shown \in Seq(ShownOption)
      /\ \A k \in DOMAIN shown : shown[k].option \in Nat /\ shown[k].option < option
      /\ current \in Nat /\ startLine \in Nat /\ lastSpace \in Nat
  BY <1>2, ShownBefore, ShownIs
<1>4. option' \in 1..(Len(list) + 1) /\ option' >= option
  BY <1>1, <1>3
<1>5. \A k \in DOMAIN shown : shown[k].option < option'
  BY <1>3, <1>4
<1>6. ShownInv'
  <2>1. \A i \in 1..Len(list) :
            ~list[i].positional /\ (i < option' \/ (IsWriting' /\ i = option')) =>
                i < option \/ (IsWriting /\ i = option)
    BY <1>1, <1>2, <1>3
  <2>2. phase' = "done" => option' = Len(list) + 1
    BY <1>1, <1>3
  <2> QED
    BY <1>1, <1>2, <1>3, <1>4, <1>5, <2>1, <2>2, ShownKept DEF iterators
<1>7. DescriptionsInv'
  BY <1>1, <1>2, <1>3, <1>5, WrittenStays DEF DescriptionsInv
<1> QED
  BY <1>6, <1>7 DEF HelpInv

\* Nothing of the description is there yet.
LEMMA BeginWrites ==
  ASSUME NEW o, Declared(o), allowed \in Nat, allowed' = allowed,
         current' = 1, startLine' = 1, lastSpace' = 1, size' = 0, phase' = "description"
  PROVE  WritingInv(o, <<>>)'
<1>1. /\ TextEnd(o) \in Nat /\ TextEnd(o) >= 1
      /\ \A p \in Spaces(o) : p \in Nat /\ p >= 2
  BY SpacesAre
<1>2. LastBreak' = 0
  BY DEF LastBreak
<1>3. AfterBreak(o)' /\ HasNoSpace(o)' /\ lastSpace' = startLine'
  BY <1>1, <1>2 DEF AfterBreak, HasNoSpace
<1>4. Place(o)'
  <2>1. current' \in 1..TextEnd(o) /\ size' \in 0..(allowed + 1)
    BY <1>1
  <2> QED
    BY <1>2, <1>3, <2>1 DEF Place
<1>5. LinesAreWell(o, <<>>)' /\ IsNext(o, <<>>)'
  BY <1>2 DEF LinesAreWell, IsNext
<1>6. LastBreak' = Len(<<>>) * (allowed' + 2)
  <2>1. allowed + 2 \in Nat /\ Len(<<>>) = 0
    BY EmptySeq
  <2>2. LastBreak' = Len(<<>>) * (allowed + 2)
    BY <1>2, <2>1
  <2> QED
    BY <2>2
<1> QED
  BY <1>4, <1>5, <1>6 DEF WritingInv

\* The next option is added to those that are shown.
LEMMA StepBegin ==
  ASSUME HelpInv, BeginOption
  PROVE  HelpInv'
<1> DEFINE n == Len(shown)
           entry == [option |-> option, lines |-> <<>>,
                     own_line |-> format_option(list[option]) > longest]
<1>1. /\ phase = "options" /\ phase' = "description" /\ UNCHANGED <<list, option>>
      /\ option <= Len(list) /\ ~list[option].positional
      /\ shown' = Append(shown, entry)
      /\ current' = 1 /\ startLine' = 1 /\ lastSpace' = 1 /\ size' = 0
  BY DEF BeginOption
<1>2. ~IsWriting /\ IsWriting' /\ ShownInv /\ DescriptionsInv
  BY <1>1 DEF IsWriting, HelpInv
<1>3. /\ list \in OptionLists /\ Len(list) \in Nat /\ DOMAIN list = 1..Len(list)
      /\ option \in 1..Len(list) /\ shown \in Seq(ShownOption)
      /\ n \in Nat /\ DOMAIN shown = 1..n
      /\ \A k \in DOMAIN shown : shown[k].option \in Nat /\ shown[k].option < option
  BY <1>1, <1>2, ShownBefore, ShownIs
<1>4. entry \in ShownOption /\ entry.option = option /\ entry.lines = <<>>
  BY <1>3, EmptySeq DEF ShownOption
<1> HIDE DEF entry
<1>5. /\ shown' \in Seq(ShownOption) /\ shown' # <<>> /\ Len(shown') = n + 1
      /\ \A k \in 1..n : shown'[k] = shown[k]
      /\ shown'[n + 1] = entry
  BY <1>1, <1>3, <1>4, AppendProperties
<1>6. DOMAIN shown' = 1..(n + 1)
  BY <1>5, LenProperties
<1>7. ASSUME NEW k \in DOMAIN shown'
      PROVE  \/ k \in 1..n /\ k \in DOMAIN shown /\ shown'[k] = shown[k]
             \/ k = n + 1 /\ shown'[k] = entry
  BY <1>3, <1>5, <1>6
<1> HIDE DEF n
<1>8. ShownInv'
  <2>1. \A k \in DOMAIN shown' :
            /\ shown'[k].option \in 1..Len(list') /\ ~list'[shown'[k].option].positional
            /\ shown'[k].option < option' \/ (IsWriting' /\ k = Len(shown'))
    BY <1>1, <1>2, <1>3, <1>4, <1>5, <1>7 DEF ShownInv
  <2>2. \A i \in 1..Len(list') :
            ~list'[i].positional /\ (i < option' \/ (IsWriting' /\ i = option')) =>
                \E k \in DOMAIN shown' : shown'[k].option = i
    <3> SUFFICES ASSUME NEW i \in 1..Len(list), ~list[i].positional,
                        i < option \/ i = option
                 PROVE  \E k \in DOMAIN shown' : shown'[k].option = i
      BY <1>1
    <3>1. CASE i < option
      <4>1. PICK k \in DOMAIN shown : shown[k].option = i
        BY <1>2, <3>1 DEF ShownInv
      <4>2. k \in DOMAIN shown' /\ shown'[k].option = i
        BY <1>3, <1>5, <1>6, <4>1
      <4> QED
        BY <4>2
    <3>2. CASE i = option
      <4>1. n + 1 \in DOMAIN shown' /\ shown'[n + 1].option = i
        BY <1>3, <1>4, <1>5, <1>6, <3>2
      <4> QED
        BY <4>1
    <3> QED
      BY <3>1, <3>2
  <2>3. \A j, k \in DOMAIN shown' : j < k => shown'[j].option < shown'[k].option
    <3> SUFFICES ASSUME NEW j \in DOMAIN shown', NEW k \in DOMAIN shown', j < k
                 PROVE  shown'[j].option < shown'[k].option
      OBVIOUS
    <3>1. j \in 1..n /\ j \in DOMAIN shown /\ shown'[j] = shown[j]
      BY <1>3, <1>6, <1>7
    <3>2. CASE k \in 1..n /\ k \in DOMAIN shown /\ shown'[k] = shown[k]
      BY <1>2, <3>1, <3>2 DEF ShownInv
    <3>3. CASE k = n + 1 /\ shown'[k] = entry
      BY <1>3, <1>4, <3>1, <3>3
    <3> QED
      BY <1>7, <3>2, <3>3
  <2>4. shown'[Len(shown')].option = option'
    BY <1>1, <1>4, <1>5
  <2>5. list' \in OptionLists /\ option' \in 1..(Len(list') + 1)
    BY <1>1, <1>3
  <2> QED
    BY <1>1, <1>2, <1>5, <2>1, <2>2, <2>3, <2>4, <2>5 DEF ShownInv
<1>9. DescriptionsInv'
  <2> SUFFICES ASSUME NEW k \in DOMAIN shown',
                      NEW o \in {list'[shown'[k].option]}, NEW lines \in {shown'[k].lines},
                      OthersFit(o)'
               PROVE  IF shown'[k].option < option' THEN WrittenInv(o, lines)'
                                                    ELSE WritingInv(o, lines)'
    BY DEF DescriptionsInv
  <2>1. CASE k \in 1..n /\ k \in DOMAIN shown /\ shown'[k] = shown[k]
    <3>1. shown[k].option < option /\ shown[k].option < option'
      BY <1>1, <1>3, <2>1
    <3> QED
      BY <1>1, <1>2, <2>1, <3>1, WrittenStays
  <2>2. CASE k = n + 1 /\ shown'[k] = entry
    <3>1. o = list[option] /\ lines = <<>> /\ ~(shown'[k].option < option')
      BY <1>1, <1>3, <1>4, <2>2
    <3>2. Declared(o) /\ allowed \in Nat /\ allowed' = allowed
      BY <1>1, <1>3, <3>1, DeclaredIs, AllowedIs DEF allowed
    <3>3. WritingInv(o, <<>>)'
      BY <1>1, <3>2, BeginWrites
    <3> QED
      BY <3>1, <3>3
  <2> QED
    BY <1>7, <2>1, <2>2
<1> QED
  BY <1>8, <1>9 DEF HelpInv

\* A step inside a description that adds nothing to it.
LEMMA StepNextCharacter ==
  ASSUME HelpInv, NextCharacter
  PROVE  HelpInv'
<1> DEFINE n == Len(shown)
<1>1. PICK space \in {current, lastSpace} : AtCharacter(space) /\ lastSpace' = space
  BY DEF NextCharacter
<1>2. /\ phase = "description" /\ current' = current + 1
      /\ UNCHANGED <<list, phase, option, startLine, shown>>
  BY <1>1 DEF NextCharacter, AtCharacter
<1>3. IsWriting /\ IsWriting' /\ ShownInv /\ DescriptionsInv
  BY <1>2 DEF IsWriting, HelpInv
<1>4. /\ option \in 1..(Len(list) + 1) /\ shown \in Seq(ShownOption)
      /\ current \in Nat /\ startLine \in Nat /\ lastSpace \in Nat
      /\ \A k \in DOMAIN shown : k = n \/ shown[k].option < option
      /\ n \in DOMAIN shown /\ shown[n].option = option /\ IsWritten(list[option])
      /\ option \in Nat /\ shown[n].lines \in Lines
  BY <1>3, ShownBefore, ShownIs
<1>5. ShownInv'
  <2>1. current' \in Nat /\ startLine' \in Nat /\ lastSpace' \in Nat
    BY <1>1, <1>2, <1>4
  <2>2. \A k \in DOMAIN shown : shown[k].option < option' \/ (IsWriting' /\ k = Len(shown))
    BY <1>2, <1>3, <1>4
  <2> QED
    BY <1>2, <1>3, <1>4, <2>1, <2>2, ShownKept
<1>6. DescriptionsInv'
  <2> SUFFICES ASSUME NEW k \in DOMAIN shown',
                      NEW o \in {list'[shown'[k].option]}, NEW lines \in {shown'[k].lines},
                      OthersFit(o)'
               PROVE  IF shown'[k].option < option' THEN WrittenInv(o, lines)'
                                                    ELSE WritingInv(o, lines)'
    BY DEF DescriptionsInv
  <2>1. CASE k # n
    <3>1. shown[k].option < option /\ shown[k].option < option'
      BY <1>2, <1>4, <2>1
    <3> QED
      BY <1>2, <1>3, <3>1, WrittenStays
  <2>2. CASE k = n
    <3>1. /\ o = list[option] /\ o \in {list[shown[k].option]} /\ IsWritten(o)
          /\ lines \in {shown[k].lines} /\ lines \in Lines
          /\ ~(shown[k].option < option) /\ ~(shown'[k].option < option')
      BY <1>2, <1>4, <2>2
    <3>2. OthersFit(o)
      BY <1>2, SameOption
    <3>3. WritingInv(o, lines)
      BY <1>2, <1>3, <3>1, <3>2, IsBeingWritten
    <3>4. WritingInv(o, lines)'
      BY <3>1, <3>3, NextCharacterWrites
    <3> QED
      BY <3>1, <3>4
  <2> QED
    BY <2>1, <2>2
<1> QED
  BY <1>5, <1>6 DEF HelpInv

\* A step that adds a line to the description, and perhaps leaves it.
LEMMA StepAppends ==
  ASSUME HelpInv, UNCHANGED list, phase = "description",
         NEW from \in Nat, NEW to \in Nat, AppendLine(from, to),
         current' \in Nat, startLine' \in Nat, lastSpace' \in Nat,
         \/ option' = option /\ phase' = "description"
         \/ option' = option + 1 /\ phase' = "options",
         \A o \in {list[option]} : \A lines \in {shown[Len(shown)].lines} :
            \A new \in {Append(lines, [from |-> from, to |-> to])} :
               IsWritten(o) /\ OthersFit(o) /\ lines \in Lines /\ WritingInv(o, lines) =>
                   IF option' = option THEN WritingInv(o, new)' ELSE WrittenInv(o, new)'
  PROVE  HelpInv'
<1> DEFINE n == Len(shown)
<1>1. IsWriting /\ ShownInv /\ DescriptionsInv
  BY DEF IsWriting, HelpInv
<1>2. /\ option \in 1..Len(list) /\ option \in Nat /\ Len(list) \in Nat
      /\ shown \in Seq(ShownOption) /\ shown # <<>>
      /\ \A k \in DOMAIN shown :
            shown[k].option \in Nat /\ (k = n \/ shown[k].option < option)
      /\ n \in DOMAIN shown /\ shown[n].option = option /\ IsWritten(list[option])
      /\ shown[n].lines \in Lines
  BY <1>1, ShownBefore, ShownIs DEF IsWritten
<1>3. /\ shown' \in Seq(ShownOption) /\ Len(shown') = n /\ DOMAIN shown' = DOMAIN shown
      /\ \A k \in DOMAIN shown :
            shown'[k].option = shown[k].option /\ (k # n => shown'[k] = shown[k])
      /\ shown'[n].lines = Append(shown[n].lines, [from |-> from, to |-> to])
  BY <1>2, AppendLineIs
<1> HIDE DEF n
<1>4. /\ IsWriting' <=> option' = option
      /\ option' = option \/ option' = option + 1
      /\ phase' \in {"description", "options"}
  <2>1. option # option + 1
    BY <1>2
  <2> QED
    BY <2>1 DEF IsWriting
<1>5. ShownInv'
  <2>1. option' \in 1..(Len(list) + 1)
    BY <1>2, <1>4
  <2>2. \A k \in DOMAIN shown : shown[k].option < option' \/ (IsWriting' /\ k = Len(shown))
    BY <1>2, <1>4 DEF n
  <2>3. \A i \in 1..Len(list) :
            ~list[i].positional /\ (i < option' \/ (IsWriting' /\ i = option')) =>
                i < option \/ (IsWriting /\ i = option)
    BY <1>1, <1>2, <1>4
  <2>4. /\ phase' \in {"usage", "options", "description", "done", "undefined"}
        /\ phase' # "done" /\ (IsWriting' => IsWriting /\ option' = option)
    BY <1>1, <1>4
  <2>5. Len(shown') = Len(shown) /\ \A k \in DOMAIN shown : shown'[k].option = shown[k].option
    BY <1>3 DEF n
  <2> QED
    BY <1>1, <1>3, <2>1, <2>2, <2>3, <2>4, <2>5, ShownKept
<1>6. DescriptionsInv'
  <2> SUFFICES ASSUME NEW k \in DOMAIN shown',
                      NEW o \in {list'[shown'[k].option]}, NEW lines \in {shown'[k].lines},
                      OthersFit(o)'
               PROVE  IF shown'[k].option < option' THEN WrittenInv(o, lines)'
                                                    ELSE WritingInv(o, lines)'
    BY DEF DescriptionsInv
  <2>1. CASE k # n
    <3>1. k \in DOMAIN shown /\ shown'[k] = shown[k] /\ shown[k].option < option
      BY <1>2, <1>3, <2>1
    <3>2. shown[k].option < option'
      BY <1>2, <1>4, <3>1
    <3> QED
      BY <1>1, <3>1, <3>2, WrittenStays
  <2>2. CASE k = n
    <3>1. PICK before : before = shown[n].lines
      OBVIOUS
    <3>2. /\ o = list[option] /\ o \in {list[shown[n].option]} /\ IsWritten(o)
          /\ before \in {shown[n].lines} /\ before \in Lines
          /\ lines \in {Append(before, [from |-> from, to |-> to])}
      BY <1>2, <1>3, <2>2, <3>1
    <3>3. OthersFit(o)
      BY SameOption
    <3>4. WritingInv(o, before)
      <4>1. n \in DOMAIN shown /\ ~(shown[n].option < option)
        BY <1>2
      <4>2. o \in {list[shown[n].option]} /\ before \in {shown[n].lines}
        BY <3>2
      <4> QED
        BY <1>1, <3>3, <4>1, <4>2, IsBeingWritten, Zenon
    <3>5. IF option' = option THEN WritingInv(o, lines)' ELSE WrittenInv(o, lines)'
      <4>1. o \in {list[option]} /\ before \in {shown[Len(shown)].lines}
        BY <3>2 DEF n
      <4> QED
        BY <3>2, <3>3, <3>4, <4>1, Zenon
    <3>6. shown'[k].option < option' <=> option' # option
      BY <1>2, <1>3, <1>4, <2>2
    <3> QED
      BY <3>5, <3>6
  <2> QED
    BY <2>1, <2>2
<1> QED
  BY <1>5, <1>6 DEF HelpInv

\* The steps that add a line.
LEMMA StepBreakInWord ==
  ASSUME HelpInv, BreakInWord
  PROVE  HelpInv'
<1>1. /\ phase = "description" /\ UNCHANGED <<list, phase, option>>
      /\ AppendLine(startLine, current + 1)
      /\ startLine' = current + 1 /\ lastSpace' = current + 1 /\ current' = current + 1
  BY DEF BreakInWord, AtCharacter
<1>2. current \in Nat /\ startLine \in Nat
  BY ShownBefore DEF HelpInv
<1>3. current + 1 \in Nat
  BY <1>2
<1>4. ASSUME NEW o \in {list[option]}, NEW lines \in {shown[Len(shown)].lines},
             NEW new \in {Append(lines, [from |-> startLine, to |-> current + 1])},
             IsWritten(o), OthersFit(o), lines \in Lines, WritingInv(o, lines)
      PROVE  WritingInv(o, new)'
  BY <1>4, BreakInWordWrites
<1> QED
  BY <1>1, <1>2, <1>3, <1>4, StepAppends

LEMMA StepBreakAtSpace ==
  ASSUME HelpInv, BreakAtSpace
  PROVE  HelpInv'
<1>1. PICK space \in {current, lastSpace} :
            /\ AtCharacter(space) /\ space > startLine
            /\ AppendLine(startLine, space)
            /\ startLine' = space + 1
            /\ lastSpace' = space
  BY DEF BreakAtSpace
<1>2. /\ phase = "description" /\ UNCHANGED <<list, phase, option>>
      /\ size > allowed /\ size' = 0 /\ current' = current + 1
  BY <1>1 DEF BreakAtSpace, AtCharacter
<1>3. current \in Nat /\ startLine \in Nat /\ space \in Nat
  BY <1>1, ShownBefore DEF HelpInv
<1>4. current' \in Nat /\ startLine' \in Nat /\ lastSpace' \in Nat
  BY <1>1, <1>2, <1>3
<1>5. ASSUME NEW o \in {list[option]}, NEW lines \in {shown[Len(shown)].lines},
             NEW new \in {Append(lines, [from |-> startLine, to |-> space])},
             IsWritten(o), OthersFit(o), lines \in Lines, WritingInv(o, lines)
      PROVE  WritingInv(o, new)'
  BY <1>1, <1>2, <1>5, BreakAtSpaceWrites
<1> QED
  BY <1>1, <1>2, <1>3, <1>4, <1>5, StepAppends

LEMMA StepEndOfDescription ==
  ASSUME HelpInv, EndOfDescription
  PROVE  HelpInv'
<1>1. /\ phase = "description" /\ phase' = "options" /\ option' = option + 1
      /\ AppendLine(startLine, current) /\ UNCHANGED <<list, iterators>>
  BY DEF EndOfDescription
<1>2. /\ current \in Nat /\ startLine \in Nat /\ lastSpace \in Nat
      /\ option \in 1..(Len(list) + 1)
  BY ShownBefore DEF HelpInv
<1>3. /\ current' \in Nat /\ startLine' \in Nat /\ lastSpace' \in Nat
      /\ option' # option
  BY <1>1, <1>2 DEF iterators
<1>4. ASSUME NEW o \in {list[option]}, NEW lines \in {shown[Len(shown)].lines},
             NEW new \in {Append(lines, [from |-> startLine, to |-> current])},
             IsWritten(o), OthersFit(o), lines \in Lines, WritingInv(o, lines)
      PROVE  WrittenInv(o, new)'
  BY <1>4, EndOfDescriptionWrites
<1> QED
  BY <1>1, <1>2, <1>3, <1>4, StepAppends

\* The loop does not come to the end of the range before its beginning, unless a word
\* other than the first does not fit.
LEMMA StepBreakUndefined ==
  ASSUME HelpInv, BreakUndefined
  PROVE  HelpInv'
<1> DEFINE n == Len(shown)
<1>1. PICK space \in {current, lastSpace} : AtCharacter(space) /\ space < startLine
  BY DEF BreakUndefined
<1>2. /\ phase = "description" /\ phase' = "undefined" /\ size > allowed
      /\ current < TextEnd(list[option])
      /\ space = IF current \in Spaces(list[option]) THEN current ELSE lastSpace
      /\ UNCHANGED <<list, option, shown>> /\ UNCHANGED iterators
  BY <1>1 DEF BreakUndefined, AtCharacter
<1>3. IsWriting /\ IsWriting' /\ ShownInv /\ DescriptionsInv
  BY <1>2 DEF IsWriting, HelpInv
<1>4. /\ option \in 1..(Len(list) + 1) /\ shown \in Seq(ShownOption)
      /\ current \in Nat /\ startLine \in Nat /\ lastSpace \in Nat
      /\ \A k \in DOMAIN shown : k = n \/ shown[k].option < option
      /\ n \in DOMAIN shown /\ shown[n].option = option /\ IsWritten(list[option])
      /\ option \in Nat
  BY <1>3, ShownBefore, ShownIs
<1>5. ShownInv'
  <2>1. current' \in Nat /\ startLine' \in Nat /\ lastSpace' \in Nat
    BY <1>2, <1>4 DEF iterators
  <2>2. \A k \in DOMAIN shown : shown[k].option < option' \/ (IsWriting' /\ k = Len(shown))
    BY <1>2, <1>3, <1>4
  <2> QED
    BY <1>2, <1>3, <1>4, <2>1, <2>2, ShownKept
<1>6. DescriptionsInv'
  <2> SUFFICES ASSUME NEW k \in DOMAIN shown',
                      NEW o \in {list'[shown'[k].option]}, NEW lines \in {shown'[k].lines},
                      OthersFit(o)'
               PROVE  IF shown'[k].option < option' THEN WrittenInv(o, lines)'
                                                    ELSE WritingInv(o, lines)'
    BY DEF DescriptionsInv
  <2>1. CASE k # n
    <3>1. shown[k].option < option /\ shown[k].option < option'
      BY <1>2, <1>4, <2>1
    <3> QED
      BY <1>2, <1>3, <3>1, WrittenStays
  <2>2. CASE k = n
    <3>1. /\ o = list[option] /\ o \in {list[shown[k].option]} /\ IsWritten(o)
          /\ lines \in {shown[k].lines} /\ ~(shown[k].option < option)
      BY <1>2, <1>4, <2>2
    <3>2. OthersFit(o)
      BY <1>2, SameOption
    <3>3. Place(o)
      BY <1>2, <1>3, <3>1, <3>2, IsBeingWritten DEF WritingInv
    <3>4. startLine <= space
      BY <1>2, <3>1, <3>2, <3>3, AtBreak
    <3>5. space \in Nat
      BY <1>4
    <3> QED
      BY <1>1, <1>4, <3>4, <3>5
  <2> QED
    BY <2>1, <2>2
<1> QED
  BY <1>5, <1>6 DEF HelpInv

\* No step.
LEMMA HelpStutters ==
  ASSUME HelpInv, UNCHANGED helpVars
  PROVE  HelpInv'
<1>1. UNCHANGED <<list, phase, option, current, startLine, lastSpace, size, shown>>
  BY DEF helpVars, iterators
<1>2. ShownInv'
  BY <1>1 DEF HelpInv, ShownInv, IsWriting
<1>3. DescriptionsInv'
  <2> SUFFICES ASSUME NEW k \in DOMAIN shown,
                      NEW o \in {list[shown[k].option]}, NEW lines \in {shown[k].lines},
                      OthersFit(o)'
               PROVE  IF shown[k].option < option THEN WrittenInv(o, lines)'
                                                  ELSE WritingInv(o, lines)'
    BY <1>1 DEF DescriptionsInv
  <2>1. /\ allowed' = allowed /\ LinesAreWell(o, lines)' = LinesAreWell(o, lines)
        /\ FirstFits(o)' = FirstFits(o) /\ OthersFit(o)
    BY <1>1, SameOption
  <2>2. IF shown[k].option < option THEN WrittenInv(o, lines) ELSE WritingInv(o, lines)
    BY <2>1 DEF HelpInv, DescriptionsInv
  <2>3. WrittenInv(o, lines) => WrittenInv(o, lines)'
    BY <2>1 DEF WrittenInv
  <2>4. WritingInv(o, lines) => WritingInv(o, lines)'
    <3>1. Place(o) => Place(o)'
      BY <1>1, <2>1 DEF Place, AfterSpace, AfterBreak, HasSpace, HasNoSpace, LastBreak
    <3>2. IsNext(o, lines) => IsNext(o, lines)'
      BY <1>1, <2>1 DEF IsNext, LastBreak
    <3>3. LastBreak' = LastBreak
      BY <1>1 DEF LastBreak
    <3> QED
      BY <1>1, <2>1, <3>1, <3>2, <3>3 DEF WritingInv
  <2> QED
    BY <2>2, <2>3, <2>4
<1> QED
  BY <1>2, <1>3 DEF HelpInv

\* HelpInv is inductive.
LEMMA HelpIsInductive ==
  ASSUME HelpInv, [HelpNext]_helpVars
  PROVE  HelpInv'
BY StepBetween, StepBegin, StepNextCharacter, StepBreakInWord, StepBreakAtSpace,
   StepBreakUndefined, StepEndOfDescription, HelpStutters DEF HelpNext, Finished

\* HelpInv is as strong as the property.
LEMMA HelpIsWhole ==
  ASSUME HelpInv
  PROVE  HelpTextIsWhole
<1>1. ShownInv /\ DescriptionsInv
  BY DEF HelpInv
<1>2. /\ option \in 1..(Len(list) + 1) /\ Len(list) \in Nat /\ DOMAIN list = 1..Len(list)
      /\ shown \in Seq(ShownOption)
  BY <1>1, ShownBefore
<1>3. phase = "done" =>
        {shown[k].option : k \in DOMAIN shown} = {i \in DOMAIN list : ~list[i].positional}
  <2> SUFFICES ASSUME phase = "done"
               PROVE  {shown[k].option : k \in DOMAIN shown} =
                          {i \in DOMAIN list : ~list[i].positional}
    OBVIOUS
  <2>1. option = Len(list) + 1
    BY <1>1 DEF ShownInv
  <2>2. \A k \in DOMAIN shown :
            shown[k].option \in DOMAIN list /\ ~list[shown[k].option].positional
    BY <1>1, <1>2 DEF ShownInv
  <2>3. ASSUME NEW i \in DOMAIN list, ~list[i].positional
        PROVE  \E k \in DOMAIN shown : shown[k].option = i
    <3>1. i \in 1..Len(list) /\ i < option
      BY <1>2, <2>1
    <3> QED
      BY <1>1, <2>3, <3>1 DEF ShownInv
  <2> QED
    BY <2>2, <2>3
<1>4. \A j, k \in DOMAIN shown : j < k => shown[j].option < shown[k].option
  BY <1>1 DEF ShownInv
<1>5. ASSUME NEW k \in DOMAIN shown,
             NEW o \in {list[shown[k].option]}, NEW lines \in {shown[k].lines},
             \A i \in 2..Len(WordsOf(o)) : Fits(WordsOf(o)[i])
      PROVE  /\ shown[k].option = option => phase # "undefined"
             /\ LinesAreWell(o, lines)
             /\ shown[k].option < option => lines # <<>> /\ lines[Len(lines)].to = TextEnd(o)
  <2>1. OthersFit(o)
    BY <1>5 DEF OthersFit
  <2>2. IF shown[k].option < option THEN WrittenInv(o, lines) ELSE WritingInv(o, lines)
    BY <1>1, <2>1 DEF DescriptionsInv
  <2>3. shown[k].option = option => ~(shown[k].option < option)
    BY <1>2
  <2> QED
    BY <2>2, <2>3 DEF WrittenInv, WritingInv
<1> QED
  BY <1>3, <1>4, <1>5 DEF HelpTextIsWhole, LinesAreWell

\* What format_description() keeps while it breaks descriptions into lines
\* (cxxopts.hpp:1453), for all options: see HelpInv.
THEOREM HelpSafe == HelpSpec => []HelpInv
<1>1. HelpInit => HelpInv
  BY InitShows
<1>2. HelpInv /\ [HelpNext]_helpVars => HelpInv'
  BY HelpIsInductive
<1> QED
  BY <1>1, <1>2, PTL DEF HelpSpec

\* --help prints every option with its whole description (cxxopts.hpp:1453), for all
\* options and descriptions: nothing is lost or moved where a line is broken, and the
\* range of a line never ends before it begins.
THEOREM HelpTextWhole == HelpSpec => []HelpTextIsWhole
<1>1. HelpInv => HelpTextIsWhole
  BY HelpIsWhole
<1> QED
  BY <1>1, HelpSafe, PTL

\* The help text of this program never gives append() a range that ends before it
\* begins (cxxopts.hpp:1510): all words of its options fit.
THEOREM OwnHelpIsDefined == HelpSpec => [](list \in OwnOptions => phase # "undefined")
<1>1. ASSUME HelpInv, list \in OwnOptions PROVE phase # "undefined"
  <2> SUFFICES ASSUME phase = "undefined" PROVE FALSE
    OBVIOUS
  <2> DEFINE n == Len(shown)
  <2>1. ShownInv /\ DescriptionsInv /\ IsWriting
    BY <1>1 DEF HelpInv, IsWriting
  <2>2. /\ n \in DOMAIN shown /\ shown[n].option = option /\ IsWritten(list[option])
        /\ option \in Nat
    BY <2>1, ShownBefore, ShownIs
  <2>3. PICK o \in {list[option]}, lines \in {shown[n].lines} : TRUE
    OBVIOUS
  <2>4. Declared(o) /\ LinesFitInto(allowed, o)
    BY <1>1, <2>2, WrittenIs
  <2>5. OthersFit(o)
    BY <2>4, WordsAre DEF LinesFitInto, OthersFit, Fits
  <2>6. o \in {list[shown[n].option]} /\ ~(shown[n].option < option)
    BY <2>2
  <2>7. WritingInv(o, lines)
    BY <2>1, <2>2, <2>5, <2>6, IsBeingWritten
  <2> QED
    BY <2>7 DEF WritingInv
<1> QED
  BY <1>1, HelpSafe, PTL
=============================================================================
