---------------------------- MODULE FixedDecimal ----------------------------
(***************************************************************************)
(* ParseFixedDecimalString (lib/binance/parser.cpp): a decimal string as   *)
(* an unsigned integer, scaled by a power of ten, without floating point   *)
(* and without overflow.  Every price and quantity of a message goes       *)
(* through it.                                                             *)
(*                                                                         *)
(* A string is a sequence of characters.  A word that no decimal contains  *)
(* ("depthUpdate") is taken for a single character.                        *)
(***************************************************************************)
EXTENDS Integers, SequencesExt

CONSTANTS
  UintMax,        \* kUint64Max
  PriceShift,     \* kPriceShift: decimal places of a price
  QuantityShift   \* kQuantityShift

ASSUME DecimalAssumption ==
  /\ UintMax \in Nat /\ UintMax >= 9
  /\ {PriceShift, QuantityShift} \subseteq 0 .. 18

Digits     == <<"0", "1", "2", "3", "4", "5", "6", "7", "8", "9">>
IsDigit(c) == \E i \in DOMAIN Digits : Digits[i] = c
DigitOf(c) == (CHOOSE i \in DOMAIN Digits : Digits[i] = c) - 1

\* Arithmetic of the type.
Uint(n) == n % (UintMax + 1)

\* Faulty: the digit that is added is not allowed for.
OverflowsEarly(part, digit) == part > UintMax \div 10

\* part * 10 + digit does not fit.
Overflows(part, digit) == part > (UintMax - digit) \div 10

\* The locals of the function before the first character.
Start == [valid |-> TRUE, hasDigit |-> FALSE, sawDot |-> FALSE,
          intPart |-> 0, fracPart |-> 0, fracDigits |-> 0]

ReadDigit(s, digit, places) ==
  CASE ~s.sawDot ->
         [s EXCEPT !.hasDigit = TRUE, !.valid = ~Overflows(s.intPart, digit),
                   !.intPart = Uint(@ * 10 + digit)]
    [] s.sawDot /\ s.fracDigits < places ->
         [s EXCEPT !.hasDigit = TRUE, !.valid = ~Overflows(s.fracPart, digit),
                   !.fracPart = Uint(@ * 10 + digit), !.fracDigits = @ + 1]
    [] s.sawDot /\ s.fracDigits >= places ->
         [s EXCEPT !.hasDigit = TRUE]

\* One turn of the loop; a string that is not valid stays so.
Read(s, c, places) ==
  CASE ~s.valid                      -> s
    [] s.valid /\ IsDigit(c)         -> ReadDigit(s, DigitOf(c), places)
    [] s.valid /\ c = "."            -> [s EXCEPT !.valid = ~s.sawDot, !.sawDot = TRUE]
    [] s.valid /\ ~IsDigit(c) /\ c # "." -> [s EXCEPT !.valid = FALSE]

\* The powers of ten there is a table of.
kPow10U64[n \in 0 .. 18] == IF n = 0 THEN 1 ELSE 10 * kPow10U64[n - 1]

\* What stands for FALSE where the result is a number.
NotADecimal == -1

Assemble(intPart, scaleInt, fracPart, scaleFrac) ==
  IF /\ intPart <= UintMax \div scaleInt
     /\ fracPart <= UintMax \div scaleFrac
     /\ intPart * scaleInt <= UintMax - fracPart * scaleFrac
  THEN Uint(intPart * scaleInt + fracPart * scaleFrac)
  ELSE NotADecimal

ParseFixedDecimalString(text, places) ==
  LET s == FoldLeft(LAMBDA before, c : Read(before, c, places), Start, text)
  IN  IF s.valid /\ s.hasDigit
      THEN Assemble(s.intPart, kPow10U64[places], s.fracPart, kPow10U64[places - s.fracDigits])
      ELSE NotADecimal

Price(text)    == ParseFixedDecimalString(text, PriceShift)
Quantity(text) == ParseFixedDecimalString(text, QuantityShift)

=============================================================================
