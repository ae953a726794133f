--------------------------- MODULE MarketDataProofs ---------------------------
(***************************************************************************)
(* Proofs about the market data on its way in: the messages of the parser  *)
(* (BinanceParser) and the window that trades are added to                 *)
(* (TradeFlowWindow), which only meet in that the one's trades become the  *)
(* other's.                                                                *)
(*                                                                         *)
(* The parser's decimals, for every UintMax, text and number of places: no *)
(* digit that does not fit is accepted, and ParseFixedDecimalString        *)
(* returns the number of the digits, scaled, for exactly the decimals      *)
(* whose number fits (DecimalExact).  The loop is a fold, so it is a run   *)
(* of locals, one per character (FoldExists, FoldUnique, ReadingExists).   *)
(* While the string is valid the locals hold the number that the digits    *)
(* read so far make (Counted); once it is not, it stays so, and either the *)
(* text is no decimal (Seen) or its number does not fit, because more      *)
(* digits make no smaller number (ValueGrows).  At the end Assemble        *)
(* appends the places that were not written (AssembledIsValue).            *)
(*                                                                         *)
(* The snapshots, for every message of any length: while a snapshot is     *)
(* read, the reader is at one of six places in its message, and the        *)
(* handler has what the fields and rows read so far say (InSnapshot).  A   *)
(* callback leads to another place or refuses what is no snapshot          *)
(* (ReadInSnapshot), and behind the object nothing is left to be read      *)
(* (NotYetRead) and the handler has the snapshot (SnapshotIsWhole).        *)
(*                                                                         *)
(* Events of trades likewise, with a handler within a handler: the reader  *)
(* is at one of the places of the wrapper, of which one holds the places   *)
(* of the data (InEvent, InTrade).  What the handler knows after some of   *)
(* the fields is what the fields so far say (TradeAfter); a field of the   *)
(* wrapper that is ignored, an array that is taken for granted, changes    *)
(* none of it (ReadsSome).  A callback leads on or refuses what is no      *)
(* trade (ReadInEvent).                                                    *)
(*                                                                         *)
(* The window, for every capacity, window and sequence of trades: it is a  *)
(* suffix of the trades, the two running sums, which are only ever changed *)
(* by single additions and subtractions, are the volumes of exactly that   *)
(* suffix, and a trade only leaves it for a good reason.  The invariant    *)
(* writes the volume of trades m+1 to n as cumBuy[n] - cumBuy[m]; that it  *)
(* is the sum over the set of these trades takes an induction, as a least  *)
(* counterexample of numbers or of finite sets.                            *)
(***************************************************************************)
EXTENDS BinanceParser, TradeFlowWindow, FiniteSetTheorems, SequenceTheorems,
        WellFoundedInduction, TLAPS

\* A set of numbers that is not empty has a least one: what each induction below rests on,
\* as the least number that a claim is false of.
LEMMA Least ==
  ASSUME NEW T \in SUBSET Nat, T # {}
  PROVE  \E m \in T : \A n \in T : m <= n
<1>1. PICK m \in T : \A n \in T : ~(<<n, m>> \in OpToRel(<, Nat))
  BY NatLessThanWellFounded, WFMin
<1>2. \A n \in T : ~(n < m)
  BY <1>1 DEF OpToRel
<1> QED BY <1>2

\* Max is the greatest of a set of numbers.
LEMMA MaxOf ==
  ASSUME NEW N \in Nat, NEW T \in SUBSET (1 .. N), T # {}
  PROVE  Max(T) \in T /\ \A n \in T : n <= Max(T)
<1> DEFINE Q == {k \in Nat : \A n \in T : n <= k}
<1>1. Q \in SUBSET Nat /\ N \in Q
  OBVIOUS
<1>2. PICK k \in Q : \A n \in Q : k <= n
  <2> HIDE DEF Q
  <2> QED BY <1>1, Least
<1>3. k \in T
  <2> SUFFICES ASSUME k \notin T PROVE FALSE
    OBVIOUS
  <2>1. \A n \in T : n <= k - 1
    BY <1>2
  <2>2. k - 1 \in Nat
    <3>1. PICK n \in T : n \in 1 .. N /\ n <= k
      BY <1>2
    <3> HIDE DEF Q
    <3> QED BY <1>1, <1>2, <3>1
  <2>3. k - 1 \in Q
    BY <2>1, <2>2
  <2> HIDE DEF Q
  <2> QED BY <1>1, <1>2, <2>3
<1>4. \A n \in T : n <= k
  BY <1>2
<1> HIDE DEF Q
<1> QED BY <1>3, <1>4 DEF Max

\* The last of a run of numbers.
LEMMA MaxOfRun ==
  ASSUME NEW n \in Nat \ {0}
  PROVE  Max(1 .. n) = n /\ (1 .. n) \ {n} = 1 .. n - 1
<1>1. /\ Max(1 .. n) \in 1 .. n /\ \A i \in 1 .. n : i <= Max(1 .. n)
  <2>1. 1 .. n \in SUBSET (1 .. n) /\ 1 \in 1 .. n
    OBVIOUS
  <2>2. 1 .. n # {}
    BY <2>1
  <2> QED BY <2>1, <2>2, MaxOf
<1>2. (1 .. n) \ {n} = 1 .. n - 1
  OBVIOUS
<1> QED BY <1>1, <1>2

\* The values of a fold of N elements from the left.
IsFold(N, S, base, step, h) ==
  /\ h \in [SUBSET (1 .. N) -> S]
  /\ \A T \in SUBSET (1 .. N) :
       h[T] = IF T = {} THEN base ELSE step[<<h[T \ {Max(T)}], Max(T)>>]

\* There is such a function, for every number of elements.
LEMMA FoldExists ==
  ASSUME NEW N \in Nat, NEW S, NEW base \in S, NEW step \in [S \X (1 .. N) -> S]
  PROVE  \E h : IsFold(N, S, base, step, h)
<1> DEFINE Q == {n \in 0 .. N : ~\E h : IsFold(n, S, base, step, h)}
<1>1. SUFFICES ASSUME Q # {} PROVE FALSE
  OBVIOUS
<1>2. PICK n \in Q : \A m \in Q : n <= m
  <2>1. Q \in SUBSET Nat
    OBVIOUS
  <2> HIDE DEF Q
  <2> QED BY <1>1, <2>1, Least
<1>3. n \in 0 .. N /\ ~\E h : IsFold(n, S, base, step, h)
  OBVIOUS
<1>4. CASE n = 0
  <2>1. 1 .. 0 = {}
    OBVIOUS
  <2>2. IsFold(0, S, base, step, [T \in SUBSET (1 .. 0) |-> base])
    BY <2>1 DEF IsFold
  <2> QED BY <1>3, <1>4, <2>2
<1>5. CASE n # 0
  <2>1. n - 1 \in 0 .. N /\ n \in 1 .. N /\ n \in Nat \ {0} /\ ~(n <= n - 1)
    BY <1>3, <1>5
  <2>2. n - 1 \notin Q
    <3> HIDE DEF Q
    <3> QED BY <1>2, <2>1
  <2>3. PICK g : IsFold(n - 1, S, base, step, g)
    BY <2>1, <2>2
  <2> HIDE DEF Q
  <2>4. /\ g \in [SUBSET (1 .. n - 1) -> S]
        /\ \A T \in SUBSET (1 .. n - 1) :
             g[T] = IF T = {} THEN base ELSE step[<<g[T \ {Max(T)}], Max(T)>>]
    BY <2>3 DEF IsFold
  <2> DEFINE h == [T \in SUBSET (1 .. n) |-> IF n \in T THEN step[<<g[T \ {n}], n>>] ELSE g[T]]
  <2>5. \A T \in SUBSET (1 .. n) : T \ {n} \in SUBSET (1 .. n - 1)
    BY <2>1
  <2>6. \A T \in SUBSET (1 .. n) : n \notin T => T \in SUBSET (1 .. n - 1)
    BY <2>1
  <2>7. h \in [SUBSET (1 .. n) -> S]
    BY <2>1, <2>4, <2>5, <2>6
  <2>8. ASSUME NEW T \in SUBSET (1 .. n)
        PROVE  h[T] = IF T = {} THEN base ELSE step[<<h[T \ {Max(T)}], Max(T)>>]
    <3>1. CASE n \in T
      <4>1. Max(T) \in T /\ n <= Max(T)
        BY <2>1, <3>1, MaxOf
      <4>2. Max(T) = n
        <5>1. Max(T) \in 1 .. n
          BY <4>1
        <5> QED BY <2>1, <4>1, <5>1
      <4>3. h[T \ {n}] = g[T \ {n}]
        BY <2>5
      <4> QED BY <3>1, <4>2, <4>3
    <3>2. CASE n \notin T
      <4>1. T \in SUBSET (1 .. n - 1) /\ h[T] = g[T]
        BY <2>6, <3>2
      <4>2. CASE T = {}
        BY <2>4, <4>1, <4>2
      <4>3. CASE T # {}
        <5>1. h[T \ {Max(T)}] = g[T \ {Max(T)}]
          BY <2>6, <3>2
        <5> QED BY <2>4, <4>1, <4>3, <5>1
      <4> QED BY <4>2, <4>3
    <3> QED BY <3>1, <3>2
  <2> HIDE DEF h
  <2>9. IsFold(n, S, base, step, h)
    BY <2>7, <2>8 DEF IsFold
  <2> QED BY <1>3, <2>9
<1> QED BY <1>4, <1>5

\* What takes its value from the one before as the fold does is the fold.
LEMMA FoldUnique ==
  ASSUME NEW N \in Nat, NEW h, NEW g, g[{}] = h[{}],
         \A T \in SUBSET (1 .. N) :
           T # {} /\ g[T \ {Max(T)}] = h[T \ {Max(T)}] => g[T] = h[T]
  PROVE  g[1 .. N] = h[1 .. N]
<1> DEFINE Q == {k \in 0 .. N : g[1 .. k] # h[1 .. k]}
<1>1. SUFFICES ASSUME Q # {} PROVE FALSE
  OBVIOUS
<1>2. PICK k \in Q : \A m \in Q : k <= m
  <2>1. Q \in SUBSET Nat
    OBVIOUS
  <2> HIDE DEF Q
  <2> QED BY <1>1, <2>1, Least
<1>3. k \in 0 .. N /\ g[1 .. k] # h[1 .. k]
  OBVIOUS
<1>4. \A m \in 0 .. N : m < k => g[1 .. m] = h[1 .. m]
  BY <1>2
<1> HIDE DEF Q
<1>5. k # 0
  <2>1. 1 .. 0 = {}
    OBVIOUS
  <2> QED BY <1>3, <2>1
<1>6. k \in Nat \ {0} /\ k - 1 \in 0 .. N /\ k - 1 < k
  BY <1>3, <1>5
<1>7. PICK T : T = 1 .. k
  OBVIOUS
<1>8. T \in SUBSET (1 .. N) /\ T # {} /\ T \ {Max(T)} = 1 .. k - 1
  <2>1. Max(1 .. k) = k /\ (1 .. k) \ {k} = 1 .. k - 1
    BY <1>6, MaxOfRun
  <2>2. k \in T /\ T \in SUBSET (1 .. N)
    BY <1>3, <1>6, <1>7
  <2> QED BY <1>7, <2>1, <2>2
<1>9. g[1 .. k - 1] = h[1 .. k - 1]
  BY <1>4, <1>6
<1> QED BY <1>3, <1>7, <1>8, <1>9

\* The values one after the other.
LEMMA FoldRuns ==
  ASSUME NEW N \in Nat, NEW S, NEW base, NEW step, NEW h, IsFold(N, S, base, step, h)
  PROVE  /\ h[1 .. 0] = base
         /\ \A n \in 1 .. N : h[1 .. n] = step[<<h[1 .. n - 1], n>>]
         /\ \A n \in 0 .. N : h[1 .. n] \in S
<1>1. 1 .. 0 = {} /\ 1 .. 0 \in SUBSET (1 .. N)
  OBVIOUS
<1>2. h[1 .. 0] = base
  BY <1>1 DEF IsFold
<1>3. ASSUME NEW n \in 1 .. N PROVE h[1 .. n] = step[<<h[1 .. n - 1], n>>]
  <2>1. PICK T : T = 1 .. n
    OBVIOUS
  <2>2. T \in SUBSET (1 .. N) /\ T # {} /\ Max(T) = n /\ T \ {n} = 1 .. n - 1
    BY <2>1, MaxOfRun
  <2>3. h[T] = step[<<h[T \ {Max(T)}], Max(T)>>]
    BY <2>2 DEF IsFold
  <2> QED BY <2>1, <2>2, <2>3
<1>4. ASSUME NEW n \in 0 .. N PROVE h[1 .. n] \in S
  <2>1. 1 .. n \in SUBSET (1 .. N)
    OBVIOUS
  <2> QED BY <2>1 DEF IsFold
<1> QED BY <1>2, <1>3, <1>4

-----------------------------------------------------------------------------
(* Arithmetic of the type.                                                 *)

\* Division rounds down.
LEMMA Quotient ==
  ASSUME NEW n \in Nat, NEW d \in Nat \ {0}
  PROVE  /\ n \div d \in Nat
         /\ d * (n \div d) <= n
         /\ n < d * (n \div d + 1)
<1>1. /\ n = d * (n \div d) + (n % d)
      /\ n % d \in 0 .. d - 1
      /\ n \div d \in Int
  OBVIOUS
<1> DEFINE q == n \div d
<1> DEFINE r == n % d
<1>2. q \in Int /\ r \in 0 .. d - 1 /\ n = d * q + r
  BY <1>1
<1> HIDE DEF q, r
<1>3. d * (q + 1) = d * q + d
  BY <1>2
<1>4. d * q <= n /\ n < d * (q + 1)
  BY <1>2, <1>3
<1>5. q >= 0
  BY <1>2, <1>4
<1> QED
  BY <1>2, <1>4, <1>5 DEF q

\* A number is within the quotient exactly if its product is within the
\* dividend: the form of each check of the parser.
LEMMA WithinQuotient ==
  ASSUME NEW n \in Nat, NEW d \in Nat \ {0}, NEW k \in Nat
  PROVE  k <= n \div d <=> k * d <= n
<1> DEFINE q == n \div d
<1>1. q \in Nat /\ d * q <= n /\ n < d * (q + 1)
  BY Quotient
<1> HIDE DEF q
<1>2. ASSUME k <= q PROVE k * d <= n
  BY <1>1, <1>2
<1>3. ASSUME k > q PROVE k * d > n
  BY <1>1, <1>3
<1> QED
  BY <1>1, <1>2, <1>3 DEF q

\* A digit is refused exactly if the number it would make does not fit.
THEOREM DigitFits ==
  ASSUME NEW part \in 0 .. UintMax, NEW digit \in 0 .. 9
  PROVE  Overflows(part, digit) <=> part * 10 + digit > UintMax
<1>1. UintMax - digit \in Nat
  BY DecimalAssumption
<1>2. part <= (UintMax - digit) \div 10 <=> part * 10 <= UintMax - digit
  BY <1>1, WithinQuotient
<1>3. (UintMax - digit) \div 10 \in Nat
  BY <1>1, Quotient
<1> DEFINE q == (UintMax - digit) \div 10
<1> HIDE DEF q
<1>4. part > q <=> ~(part <= q)
  BY <1>3 DEF q
<1> QED
  BY <1>2, <1>4, DecimalAssumption DEF Overflows, q

\* Assemble returns the sum exactly if the sum fits, unreduced.
THEOREM AssembleFits ==
  ASSUME NEW intPart \in Nat, NEW scaleInt \in Nat \ {0},
         NEW fracPart \in Nat, NEW scaleFrac \in Nat \ {0}
  PROVE  LET sum == intPart * scaleInt + fracPart * scaleFrac
         IN  Assemble(intPart, scaleInt, fracPart, scaleFrac)
               = IF sum <= UintMax THEN sum ELSE NotADecimal
<1> DEFINE int == intPart * scaleInt
<1> DEFINE frac == fracPart * scaleFrac
<1>1. int \in Nat /\ frac \in Nat
  OBVIOUS
<1>2. intPart <= UintMax \div scaleInt <=> int <= UintMax
  BY WithinQuotient, DecimalAssumption
<1>3. fracPart <= UintMax \div scaleFrac <=> frac <= UintMax
  BY WithinQuotient, DecimalAssumption
<1>4. Assemble(intPart, scaleInt, fracPart, scaleFrac)
        = IF int <= UintMax /\ frac <= UintMax /\ int <= UintMax - frac
          THEN Uint(int + frac) ELSE NotADecimal
  BY <1>2, <1>3 DEF Assemble
<1> HIDE DEF int, frac
<1>5. int <= UintMax /\ frac <= UintMax /\ int <= UintMax - frac <=> int + frac <= UintMax
  BY <1>1, DecimalAssumption
<1>6. int + frac <= UintMax => Uint(int + frac) = int + frac
  BY <1>1, DecimalAssumption DEF Uint
<1> QED
  BY <1>4, <1>5, <1>6 DEF int, frac

\* What the locals of the function hold between two characters.
Locals(places) ==
  [valid : BOOLEAN, hasDigit : BOOLEAN, sawDot : BOOLEAN,
   intPart : 0 .. UintMax, fracPart : 0 .. UintMax, fracDigits : 0 .. places]

\* A digit that is accepted is appended to its part, which does not wrap
\* around, and the digits after the dot are counted up to the places asked for;
\* so the power of ten that Assemble is given exists.
THEOREM DigitAppended ==
  ASSUME NEW places \in 0 .. 18, NEW s \in Locals(places), NEW digit \in 0 .. 9
  PROVE  LET t == ReadDigit(s, digit, places)
         IN  /\ t \in Locals(places)
             /\ t.valid /\ ~s.sawDot =>
                  t.intPart = s.intPart * 10 + digit /\ t.fracPart = s.fracPart
             /\ t.valid /\ s.sawDot /\ s.fracDigits < places =>
                  /\ t.fracPart = s.fracPart * 10 + digit /\ t.intPart = s.intPart
                  /\ t.fracDigits = s.fracDigits + 1
<1> DEFINE part == s.intPart
<1> DEFINE frac == s.fracPart
<1> DEFINE read == s.fracDigits
<1>1. part \in 0 .. UintMax /\ frac \in 0 .. UintMax /\ read \in 0 .. places
  BY DEF Locals
<1>2. ASSUME NEW n \in 0 .. UintMax
      PROVE  /\ Uint(n * 10 + digit) \in 0 .. UintMax
             /\ ~Overflows(n, digit) => Uint(n * 10 + digit) = n * 10 + digit
  <2>1. Overflows(n, digit) <=> n * 10 + digit > UintMax
    BY DigitFits
  <2> QED
    BY <2>1, DecimalAssumption DEF Uint
<1>3. \A n \in 0 .. UintMax : Overflows(n, digit) \in BOOLEAN
  BY DEF Overflows
<1>4. CASE ~s.sawDot
  <2>1. ReadDigit(s, digit, places) =
          [s EXCEPT !.hasDigit = TRUE, !.valid = ~Overflows(part, digit),
                    !.intPart = Uint(part * 10 + digit)]
    BY <1>4 DEF ReadDigit, Locals
  <2> QED
    BY <1>1, <1>2, <1>3, <1>4, <2>1 DEF Locals
<1>5. CASE s.sawDot /\ read < places
  <2>1. ReadDigit(s, digit, places) =
          [s EXCEPT !.hasDigit = TRUE, !.valid = ~Overflows(frac, digit),
                    !.fracPart = Uint(frac * 10 + digit), !.fracDigits = read + 1]
    BY <1>5 DEF ReadDigit, Locals
  <2>2. read + 1 \in 0 .. places
    BY <1>1, <1>5
  <2> QED
    BY <1>1, <1>2, <1>3, <1>5, <2>1, <2>2 DEF Locals
<1>6. CASE s.sawDot /\ ~(read < places)
  <2>1. ReadDigit(s, digit, places) = [s EXCEPT !.hasDigit = TRUE]
    BY <1>1, <1>6 DEF ReadDigit, Locals
  <2> QED
    BY <1>1, <1>6, <2>1 DEF Locals
<1> QED
  BY <1>4, <1>5, <1>6

-----------------------------------------------------------------------------
(* The loop over a text.                                                   *)

\* What a digit stands for.
LEMMA DigitType ==
  ASSUME NEW c, IsDigit(c)
  PROVE  DigitOf(c) \in 0 .. 9
<1>1. DOMAIN Digits = 1 .. 10
  BY DEF Digits
<1>2. PICK i \in 1 .. 10 : i = CHOOSE j \in DOMAIN Digits : Digits[j] = c
  BY <1>1 DEF IsDigit
<1> QED BY <1>2 DEF DigitOf

\* The dot is none.
LEMMA DotIsNoDigit == ~IsDigit(".")
<1>1. DOMAIN Digits = 1 .. 10
  BY DEF Digits
<1>2. \A i \in 1 .. 10 : Digits[i] # "."
  <2>1. \A i \in 1 .. 10 :
           i = 1 \/ i = 2 \/ i = 3 \/ i = 4 \/ i = 5 \/ i = 6 \/ i = 7 \/ i = 8 \/ i = 9 \/ i = 10
    OBVIOUS
  <2> QED BY <2>1 DEF Digits
<1> QED BY <1>1, <1>2 DEF IsDigit

\* A turn of the loop leaves the locals in their types.
LEMMA ReadType ==
  ASSUME NEW places \in 0 .. 18, NEW s \in Locals(places), NEW c
  PROVE  Read(s, c, places) \in Locals(places)
<1>1. CASE ~s.valid
  BY <1>1 DEF Read
<1>2. CASE s.valid /\ IsDigit(c)
  <2>1. DigitOf(c) \in 0 .. 9
    BY <1>2, DigitType
  <2>2. Read(s, c, places) = ReadDigit(s, DigitOf(c), places)
    <3>1. IsDigit(c) \in BOOLEAN /\ s.valid \in BOOLEAN
      BY DEF IsDigit, Locals
    <3>2. c # "."
      BY <1>2, DotIsNoDigit
    <3> HIDE DEF IsDigit
    <3> QED BY <1>2, <3>1, <3>2 DEF Read
  <2> QED BY <2>1, <2>2, DigitAppended
<1>3. CASE s.valid /\ ~IsDigit(c) /\ c = "."
  <2>1. Read(s, c, places) = [s EXCEPT !.valid = ~s.sawDot, !.sawDot = TRUE]
    BY <1>3 DEF Read
  <2> QED BY <2>1 DEF Locals
<1>4. CASE s.valid /\ ~IsDigit(c) /\ c # "."
  <2>1. Read(s, c, places) = [s EXCEPT !.valid = FALSE]
    BY <1>4 DEF Read
  <2> QED BY <2>1 DEF Locals
<1>5. IsDigit(c) \in BOOLEAN /\ s.valid \in BOOLEAN
  BY DEF IsDigit, Locals
<1> QED BY <1>1, <1>2, <1>3, <1>4, <1>5

\* r holds the locals after each character.
IsReading(text, places, r) ==
  /\ r \in [0 .. Len(text) -> Locals(places)] /\ r[0] = Start
  /\ \A k \in 1 .. Len(text) : r[k] = Read(r[k - 1], text[k], places)

\* The loop over a text.
LEMMA ReadingExists ==
  ASSUME NEW places \in 0 .. 18, NEW C, NEW text \in Seq(C)
  PROVE  \E r : /\ IsReading(text, places, r)
                /\ ParseFixedDecimalString(text, places) =
                     LET s == r[Len(text)]
                     IN  IF s.valid /\ s.hasDigit
                         THEN Assemble(s.intPart, kPow10U64[places], s.fracPart,
                                       kPow10U64[places - s.fracDigits])
                         ELSE NotADecimal
<1> DEFINE N == Len(text)
<1> DEFINE step == [p \in Locals(places) \X (1 .. N) |-> Read(p[1], text[p[2]], places)]
<1>1. N \in Nat /\ DOMAIN text = 1 .. N
  OBVIOUS
<1>2. Start \in Locals(places)
  BY DecimalAssumption DEF Start, Locals
<1>3. step \in [Locals(places) \X (1 .. N) -> Locals(places)]
  BY ReadType
<1>4. PICK h : IsFold(N, Locals(places), Start, step, h)
  <2> HIDE DEF step, N
  <2> QED BY <1>1, <1>2, <1>3, FoldExists
<1>5. /\ h[1 .. 0] = Start
      /\ \A n \in 1 .. N : h[1 .. n] = step[<<h[1 .. n - 1], n>>]
      /\ \A n \in 0 .. N : h[1 .. n] \in Locals(places)
  <2> HIDE DEF step, N
  <2> QED BY <1>1, <1>4, FoldRuns
<1> DEFINE r == [k \in 0 .. N |-> h[1 .. k]]
<1>6. IsReading(text, places, r)
  <2>1. \A n \in 1 .. N : n - 1 \in 0 .. N /\ n \in 0 .. N
    BY <1>1
  <2>2. \A n \in 1 .. N : h[1 .. n] = Read(h[1 .. n - 1], text[n], places)
    BY <1>5, <2>1
  <2>3. r \in [0 .. N -> Locals(places)] /\ r[0] = Start
    BY <1>1, <1>5
  <2>4. \A n \in 1 .. N : r[n] = Read(r[n - 1], text[n], places)
    BY <2>1, <2>2
  <2> HIDE DEF r
  <2> QED BY <2>3, <2>4 DEF IsReading
<1> DEFINE F(g) == [T \in SUBSET (1 .. N) |->
                      IF T = {} THEN Start ELSE Read(g[T \ {Max(T)}], text[Max(T)], places)]
<1> DEFINE I == CHOOSE g : g = F(g)
<1>7. FoldLeft(LAMBDA before, c : Read(before, c, places), Start, text) = I[1 .. N]
  BY <1>1 DEF FoldLeft, MapThenFoldSet
<1>8. h = F(h)
  <2>1. ASSUME NEW T \in SUBSET (1 .. N), T # {}
        PROVE  h[T] = Read(h[T \ {Max(T)}], text[Max(T)], places)
    <3>1. Max(T) \in 1 .. N
      BY <1>1, <2>1, MaxOf
    <3>2. T \ {Max(T)} \in SUBSET (1 .. N)
      OBVIOUS
    <3>3. h[T \ {Max(T)}] \in Locals(places)
      BY <1>4, <3>2 DEF IsFold
    <3>4. h[T] = step[<<h[T \ {Max(T)}], Max(T)>>]
      <4> HIDE DEF step
      <4> QED BY <1>4, <2>1 DEF IsFold
    <3> QED BY <3>1, <3>3, <3>4
  <2>2. h[{}] = Start /\ DOMAIN h = SUBSET (1 .. N)
    <3> HIDE DEF step
    <3> QED BY <1>4 DEF IsFold
  <2>3. h = [T \in SUBSET (1 .. N) |-> h[T]]
    <3> HIDE DEF step
    <3> QED BY <1>4 DEF IsFold
  <2> QED BY <2>1, <2>2, <2>3
<1>9. I = F(I)
  BY <1>8
<1>10. \A T \in SUBSET (1 .. N) :
         I[T] = IF T = {} THEN Start ELSE Read(I[T \ {Max(T)}], text[Max(T)], places)
  <2> HIDE DEF I
  <2> QED BY <1>9
<1> HIDE DEF I
<1>11. \A T \in SUBSET (1 .. N) :
         h[T] = IF T = {} THEN Start ELSE Read(h[T \ {Max(T)}], text[Max(T)], places)
  <2> HIDE DEF step
  <2> QED BY <1>8
<1>12. I[1 .. N] = h[1 .. N]
  <2>1. I[{}] = h[{}]
    BY <1>10, <1>11
  <2>2. \A T \in SUBSET (1 .. N) :
           T # {} /\ I[T \ {Max(T)}] = h[T \ {Max(T)}] => I[T] = h[T]
    BY <1>10, <1>11
  <2> QED BY <1>1, <2>1, <2>2, FoldUnique
<1> HIDE DEF r
<1>13. r[Len(text)] = I[1 .. N]
  BY <1>1, <1>12 DEF r
<1> QED BY <1>6, <1>7, <1>13 DEF ParseFixedDecimalString

-----------------------------------------------------------------------------
(* Powers of ten.                                                          *)

\* What the table holds.
LEMMA Powers ==
  /\ kPow10U64 \in [0 .. 18 -> Nat \ {0}] /\ kPow10U64[0] = 1
  /\ \A n \in 1 .. 18 : kPow10U64[n] = 10 * kPow10U64[n - 1]
<1> DEFINE N == 18
<1> DEFINE F(g) == [n \in 0 .. N |-> IF n = 0 THEN 1 ELSE 10 * g[n - 1]]
<1> DEFINE step == [p \in (Nat \ {0}) \X (1 .. N) |-> 10 * p[1]]
<1>1. step \in [(Nat \ {0}) \X (1 .. N) -> Nat \ {0}]
  OBVIOUS
<1>2. PICK h : IsFold(N, Nat \ {0}, 1, step, h)
  <2>1. N \in Nat /\ 1 \in Nat \ {0}
    OBVIOUS
  <2> HIDE DEF step, N
  <2> QED BY <1>1, <2>1, FoldExists
<1>3. /\ h[1 .. 0] = 1
      /\ \A n \in 1 .. N : h[1 .. n] = step[<<h[1 .. n - 1], n>>]
      /\ \A n \in 0 .. N : h[1 .. n] \in Nat \ {0}
  <2>1. N \in Nat
    OBVIOUS
  <2> HIDE DEF step, N
  <2> QED BY <1>2, <2>1, FoldRuns
<1> DEFINE r == [n \in 0 .. N |-> h[1 .. n]]
<1>4. /\ r \in [0 .. N -> Nat \ {0}] /\ r[0] = 1
      /\ \A n \in 1 .. N : r[n] = 10 * r[n - 1]
  <2>1. \A n \in 1 .. N : n - 1 \in 0 .. N /\ n \in 0 .. N
    OBVIOUS
  <2>2. \A n \in 1 .. N : h[1 .. n] = 10 * h[1 .. n - 1]
    BY <1>3, <2>1
  <2>3. 0 \in 0 .. N
    OBVIOUS
  <2> QED BY <1>3, <2>1, <2>2, <2>3
<1> HIDE DEF r
<1>5. r = F(r)
  BY <1>4
<1> DEFINE I == CHOOSE g : g = F(g)
<1>6. I = F(I)
  BY <1>5
<1>7. kPow10U64 = I
  BY DEF kPow10U64
<1> HIDE DEF I
<1>8. \A n \in 0 .. N : I[n] = IF n = 0 THEN 1 ELSE 10 * I[n - 1]
  BY <1>6
<1>9. I = [n \in 0 .. N |-> I[n]]
  BY <1>6
<1> DEFINE Q == {n \in 0 .. N : I[n] # r[n]}
<1>10. Q = {}
  <2> SUFFICES ASSUME Q # {} PROVE FALSE
    OBVIOUS
  <2>1. PICK n \in Q : \A m \in Q : n <= m
    <3>1. Q \in SUBSET Nat
      OBVIOUS
    <3> HIDE DEF Q
    <3> QED BY <3>1, Least
  <2>2. n # 0
    BY <1>4, <1>8
  <2>3. n - 1 \in 0 .. N /\ n \in 1 .. N
    BY <2>2
  <2>4. I[n - 1] = r[n - 1]
    BY <2>1, <2>3
  <2> QED BY <1>4, <1>8, <2>1, <2>2, <2>3, <2>4
<1>11. \A n \in 0 .. N : I[n] = r[n]
  BY <1>10
<1>12. I \in [0 .. N -> Nat \ {0}]
  BY <1>4, <1>9, <1>11
<1> QED BY <1>4, <1>7, <1>8, <1>12

\* The table holds powers.
LEMMA PowersMultiply ==
  ASSUME NEW a \in 0 .. 18, NEW b \in 0 .. 18, a + b <= 18
  PROVE  kPow10U64[a + b] = kPow10U64[a] * kPow10U64[b]
<1> DEFINE Q == {j \in 0 .. b : kPow10U64[a + j] # kPow10U64[a] * kPow10U64[j]}
<1>b. Q = {} => kPow10U64[a + b] = kPow10U64[a] * kPow10U64[b]
  <2>1. b \in 0 .. b
    OBVIOUS
  <2> QED BY <2>1
<1> SUFFICES ASSUME Q # {} PROVE FALSE
  BY <1>b
<1>1. PICK j \in Q : \A m \in Q : j <= m
  <2>1. Q \in SUBSET Nat
    OBVIOUS
  <2> HIDE DEF Q
  <2> QED BY <2>1, Least
<1>2. j \in 0 .. b /\ kPow10U64[a + j] # kPow10U64[a] * kPow10U64[j]
  BY <1>1
<1>3. kPow10U64[a] \in Nat /\ a + 0 = a
  BY Powers
<1>4. j # 0
  <2>1. kPow10U64[a + 0] = kPow10U64[a] * kPow10U64[0]
    BY <1>3, Powers
  <2> QED BY <1>2, <2>1
<1>5. j - 1 \in 0 .. b /\ j \in 1 .. 18 /\ j - 1 \in 0 .. 18 /\ a + j \in 1 .. 18
      /\ a + (j - 1) = (a + j) - 1 /\ a + j - 1 \in 0 .. 18
  BY <1>2, <1>4
<1>6. kPow10U64[a + (j - 1)] = kPow10U64[a] * kPow10U64[j - 1]
  BY <1>1, <1>5
<1> HIDE DEF Q
<1>7. kPow10U64[a + j] = 10 * (kPow10U64[a] * kPow10U64[j - 1])
  BY <1>5, <1>6, Powers
<1>8. kPow10U64[j] = 10 * kPow10U64[j - 1] /\ kPow10U64[j - 1] \in Nat
  BY <1>5, Powers
<1>9. \A x, y \in Nat : 10 * (x * y) = x * (10 * y)
  OBVIOUS
<1> QED BY <1>2, <1>3, <1>7, <1>8, <1>9

-----------------------------------------------------------------------------
(* The number that the digits of a text make.                              *)

\* Where the dot is, one after the end if there is none.
IsFirstDot(text, d) ==
  /\ d \in 1 .. Len(text) + 1 /\ (d <= Len(text) => text[d] = ".")
  /\ \A i \in 1 .. d - 1 : text[i] # "."

\* Every text has it somewhere.
LEMMA FirstDotExists ==
  ASSUME NEW C, NEW text \in Seq(C)
  PROVE  \E d : IsFirstDot(text, d)
<1> DEFINE Q == {i \in 1 .. Len(text) + 1 : i <= Len(text) => text[i] = "."}
<1>1. Q \in SUBSET Nat /\ Len(text) + 1 \in Q
  OBVIOUS
<1>2. PICK d \in Q : \A m \in Q : d <= m
  <2> HIDE DEF Q
  <2> QED BY <1>1, Least
<1>3. \A i \in 1 .. d - 1 : i \in 1 .. Len(text) + 1 /\ i <= Len(text) /\ ~(d <= i)
  OBVIOUS
<1>4. \A i \in 1 .. d - 1 : text[i] # "."
  BY <1>2, <1>3
<1> QED BY <1>4 DEF IsFirstDot

\* What precedes it.
LEMMA BeforeDot ==
  ASSUME NEW C, NEW text \in Seq(C), NEW d, IsFirstDot(text, d)
  PROVE  Prefix(text, LAMBDA c : c = ".") = SubSeq(text, 1, d - 1)
<1> DEFINE kept == {k \in 0 .. Len(text) : \A i \in 1 .. k : ~(text[i] = ".")}
<1>1. d - 1 \in kept
  BY DEF IsFirstDot
<1>2. \A k \in kept : k <= d - 1
  <2> SUFFICES ASSUME NEW k \in kept, ~(k <= d - 1) PROVE FALSE
    OBVIOUS
  <2>1. d \in 1 .. k /\ d <= Len(text)
    BY DEF IsFirstDot
  <2> QED BY <2>1 DEF IsFirstDot
<1>3. kept \in SUBSET Nat
  OBVIOUS
<1>4. Prefix(text, LAMBDA c : c = ".")
        = SubSeq(text, 1, CHOOSE k \in kept : \A other \in kept : other <= k)
  BY DEF Prefix
<1> HIDE DEF kept
<1>5. d - 1 = CHOOSE k \in kept : \A other \in kept : other <= k
  <2>1. ASSUME NEW k \in kept, \A other \in kept : other <= k PROVE k = d - 1
    <3>1. d - 1 <= k /\ k <= d - 1 /\ k \in Nat /\ d - 1 \in Nat
      BY <1>1, <1>2, <1>3, <2>1
    <3>2. \A x, y \in Nat : x <= y /\ y <= x => x = y
      OBVIOUS
    <3> QED BY <3>1, <3>2
  <2> QED BY <1>1, <1>2, <2>1
<1> QED BY <1>4, <1>5

\* The digits of a text with as many places as are asked for.
DigitAt(text, d, m) ==
  IF m < d THEN text[m] ELSE IF m < Len(text) THEN text[m + 1] ELSE "0"

\* The digits that Scaled lays out are those.
LEMMA DigitsOfText ==
  ASSUME NEW C, NEW text \in Seq(C), NEW d, IsFirstDot(text, d), NEW places \in 0 .. 18
  PROVE  LET before == Prefix(text, LAMBDA c : c = ".")
             after  == SubSeq(text, Len(before) + 2, Len(text))
             digits == before \o [i \in 1 .. places |-> IF i <= Len(after) THEN after[i]
                                                                            ELSE "0"]
         IN  /\ Len(digits) = d - 1 + places
             /\ \A m \in 1 .. d - 1 + places : digits[m] = DigitAt(text, d, m)
<1>1. d \in 1 .. Len(text) + 1 /\ Len(text) \in Nat
  BY DEF IsFirstDot
<1> DEFINE A == C \union {"0"}
<1>2. PICK before : before = SubSeq(text, 1, d - 1)
  OBVIOUS
<1>3. before = Prefix(text, LAMBDA c : c = ".")
  BY <1>2, BeforeDot
<1>4. before \in Seq(A) /\ Len(before) = d - 1 /\ \A i \in 1 .. d - 1 : before[i] = text[i]
  <2>1. \A i \in 1 .. d - 1 : text[i] \in A
    BY <1>1
  <2>2. 1 \in Int /\ d - 1 \in Int /\ d - 1 - 1 + 1 = d - 1
    BY <1>1
  <2> HIDE DEF A
  <2>3. /\ SubSeq(text, 1, d - 1) \in Seq(A)
        /\ Len(SubSeq(text, 1, d - 1)) = IF 1 <= d - 1 THEN d - 1 - 1 + 1 ELSE 0
        /\ \A i \in 1 .. d - 1 - 1 + 1 : SubSeq(text, 1, d - 1)[i] = text[1 + i - 1]
    BY <2>1, <2>2, SubSeqProperties
  <2> QED BY <1>1, <1>2, <2>2, <2>3
<1>5. PICK after : after = SubSeq(text, d + 1, Len(text))
  OBVIOUS
<1>6. /\ after \in Seq(A) /\ Len(after) = IF d <= Len(text) THEN Len(text) - d ELSE 0
      /\ \A i \in 1 .. Len(text) - d : after[i] = text[d + i]
  <2>1. \A i \in d + 1 .. Len(text) : text[i] \in A
    BY <1>1
  <2>2. d + 1 \in Int /\ Len(text) \in Int
    BY <1>1
  <2> HIDE DEF A
  <2>3. /\ SubSeq(text, d + 1, Len(text)) \in Seq(A)
        /\ Len(SubSeq(text, d + 1, Len(text)))
             = IF d + 1 <= Len(text) THEN Len(text) - (d + 1) + 1 ELSE 0
        /\ \A i \in 1 .. Len(text) - (d + 1) + 1 :
             SubSeq(text, d + 1, Len(text))[i] = text[d + 1 + i - 1]
    BY <2>1, <2>2, SubSeqProperties
  <2> QED BY <1>1, <1>5, <2>3
<1> DEFINE ending == [i \in 1 .. places |-> IF i <= Len(after) THEN after[i] ELSE "0"]
<1>7. \A i \in 1 .. places : ending[i] = DigitAt(text, d, d - 1 + i)
  BY <1>1, <1>6 DEF DigitAt
<1>8. ending \in Seq(A) /\ Len(ending) = places
  <2>1. \A i \in 1 .. places : i <= Len(after) => after[i] \in A
    BY <1>6
  <2>2. ending \in [1 .. places -> A]
    BY <2>1
  <2> QED BY <2>2
<1> DEFINE digits == before \o ending
<1>9. Len(digits) = d - 1 + places
  BY <1>4, <1>8
<1>10. ASSUME NEW m \in 1 .. d - 1 + places PROVE digits[m] = DigitAt(text, d, m)
  <2>1. digits[m] = IF m <= Len(before) THEN before[m] ELSE ending[m - Len(before)]
    <3> HIDE DEF ending, A
    <3> QED BY <1>1, <1>4, <1>8
  <2>2. CASE m <= d - 1
    BY <1>1, <1>4, <2>1, <2>2 DEF DigitAt
  <2>3. CASE ~(m <= d - 1)
    <3>1. m - (d - 1) \in 1 .. places /\ d - 1 + (m - (d - 1)) = m
      BY <1>1, <2>3
    <3>2. ending[m - (d - 1)] = DigitAt(text, d, m)
      <4> HIDE DEF ending
      <4> QED BY <1>7, <3>1
    <3> QED BY <1>4, <2>1, <2>3, <3>2
  <2> QED BY <2>2, <2>3
<1>11. Len(before) + 2 = d + 1
  BY <1>1, <1>4
<1> QED BY <1>3, <1>5, <1>9, <1>10, <1>11

\* Nothing but digits and at most one dot.
IsPlain(text) ==
  /\ \A i \in 1 .. Len(text) : IsDigit(text[i]) \/ text[i] = "."
  /\ \A i, j \in 1 .. Len(text) : text[i] = "." /\ text[j] = "." => i = j

\* The digit that fills up.
LEMMA ZeroIsDigit == IsDigit("0") /\ DigitOf("0") = 0
<1>1. DOMAIN Digits = 1 .. 10 /\ 1 \in 1 .. 10
  BY DEF Digits
<1>2. Digits[1] = "0"
  BY DEF Digits
<1>3. ASSUME NEW i \in 1 .. 10, Digits[i] = "0" PROVE i = 1
  <2>1. i = 1 \/ i = 2 \/ i = 3 \/ i = 4 \/ i = 5 \/ i = 6 \/ i = 7 \/ i = 8 \/ i = 9 \/ i = 10
    OBVIOUS
  <2> QED BY <1>3, <2>1 DEF Digits
<1>4. 1 = CHOOSE i \in DOMAIN Digits : Digits[i] = "0"
  BY <1>1, <1>2, <1>3
<1>5. IsDigit("0")
  BY <1>1, <1>2 DEF IsDigit
<1> QED BY <1>4, <1>5 DEF DigitOf

\* What is not the dot of a plain text is a digit.
LEMMA DigitsOfPlain ==
  ASSUME NEW C, NEW text \in Seq(C), NEW d, IsFirstDot(text, d), IsPlain(text)
  PROVE  /\ \A m \in Nat \ {0} : IsDigit(DigitAt(text, d, m))
         /\ \A i \in 1 .. Len(text) : i # d => IsDigit(text[i])
<1>1. d \in 1 .. Len(text) + 1 /\ Len(text) \in Nat
  BY DEF IsFirstDot
<1>2. ASSUME NEW i \in 1 .. Len(text), i # d PROVE IsDigit(text[i])
  <2>1. CASE i < d
    <3>1. i \in 1 .. d - 1
      BY <1>1, <2>1
    <3> QED BY <3>1 DEF IsFirstDot, IsPlain
  <2>2. CASE d < i
    <3>1. d \in 1 .. Len(text) /\ text[d] = "."
      BY <1>1, <2>2 DEF IsFirstDot
    <3>2. text[i] # "."
      BY <1>2, <3>1 DEF IsPlain
    <3> QED BY <3>2 DEF IsPlain
  <2> QED BY <1>1, <1>2, <2>1, <2>2
<1>3. ASSUME NEW m \in Nat \ {0} PROVE IsDigit(DigitAt(text, d, m))
  <2>1. CASE m < d
    <3>1. m \in 1 .. Len(text) /\ m # d
      BY <1>1, <2>1
    <3> QED BY <1>2, <2>1, <3>1 DEF DigitAt
  <2>2. CASE ~(m < d) /\ m < Len(text)
    <3>1. m + 1 \in 1 .. Len(text) /\ m + 1 # d
      BY <1>1, <2>2
    <3> QED BY <1>2, <2>2, <3>1 DEF DigitAt
  <2>3. CASE ~(m < d) /\ ~(m < Len(text))
    BY <2>3, ZeroIsDigit DEF DigitAt
  <2> QED BY <2>1, <2>2, <2>3
<1> QED BY <1>2, <1>3

\* v holds the number that each number of digits makes.
IsValue(text, d, M, v) ==
  /\ v \in [0 .. M -> Nat] /\ v[0] = 0
  /\ \A m \in 1 .. M : v[m] = v[m - 1] * 10 + DigitOf(DigitAt(text, d, m))

\* Scaled is the last of these numbers.
LEMMA ScaledIsValue ==
  ASSUME NEW C, NEW text \in Seq(C), NEW d, IsFirstDot(text, d), NEW places \in 0 .. 18,
         IsPlain(text)
  PROVE  \E v : IsValue(text, d, d - 1 + places, v) /\ Scaled(text, places) = v[d - 1 + places]
<1> DEFINE M == d - 1 + places
<1>1. M \in Nat
  BY DEF IsFirstDot
<1> DEFINE step == [p \in Nat \X (1 .. M) |-> p[1] * 10 + DigitOf(DigitAt(text, d, p[2]))]
<1>2. \A m \in 1 .. M : DigitOf(DigitAt(text, d, m)) \in 0 .. 9
  <2>1. \A m \in 1 .. M : IsDigit(DigitAt(text, d, m))
    BY <1>1, DigitsOfPlain
  <2> QED BY <2>1, DigitType
<1>3. step \in [Nat \X (1 .. M) -> Nat]
  BY <1>2
<1>4. PICK h : IsFold(M, Nat, 0, step, h)
  <2> HIDE DEF step, M
  <2> QED BY <1>1, <1>3, FoldExists
<1>5. /\ h[1 .. 0] = 0
      /\ \A n \in 1 .. M : h[1 .. n] = step[<<h[1 .. n - 1], n>>]
      /\ \A n \in 0 .. M : h[1 .. n] \in Nat
  <2> HIDE DEF step, M
  <2> QED BY <1>1, <1>4, FoldRuns
<1> DEFINE v == [n \in 0 .. M |-> h[1 .. n]]
<1>6. IsValue(text, d, M, v)
  <2>1. \A n \in 1 .. M : n - 1 \in 0 .. M /\ n \in 0 .. M
    BY <1>1
  <2>2. \A n \in 1 .. M : h[1 .. n] = h[1 .. n - 1] * 10 + DigitOf(DigitAt(text, d, n))
    BY <1>5, <2>1
  <2>3. v \in [0 .. M -> Nat] /\ v[0] = 0
    BY <1>1, <1>5
  <2>4. \A n \in 1 .. M : v[n] = v[n - 1] * 10 + DigitOf(DigitAt(text, d, n))
    BY <2>1, <2>2
  <2> HIDE DEF v
  <2> QED BY <2>3, <2>4 DEF IsValue
<1> HIDE DEF v
<1> DEFINE before == Prefix(text, LAMBDA c : c = ".")
<1> DEFINE after  == SubSeq(text, Len(before) + 2, Len(text))
<1> DEFINE digits == before \o [i \in 1 .. places |-> IF i <= Len(after) THEN after[i] ELSE "0"]
<1>7. Len(digits) = M /\ \A m \in 1 .. M : digits[m] = DigitAt(text, d, m)
  BY DigitsOfText
<1> DEFINE F(g) == [n \in 0 .. Len(digits) |->
                      IF n = 0 THEN 0 ELSE g[n - 1] * 10 + DigitOf(digits[n])]
<1> DEFINE I == CHOOSE g : g = F(g)
<1>8. Scaled(text, places) = I[Len(digits)]
  BY DEF Scaled
<1> HIDE DEF digits
<1>9. v = F(v)
  BY <1>6, <1>7 DEF IsValue
<1>10. I = F(I)
  BY <1>9
<1> HIDE DEF I
<1>11. \A n \in 0 .. M : I[n] = IF n = 0 THEN 0
                                ELSE I[n - 1] * 10 + DigitOf(DigitAt(text, d, n))
  BY <1>1, <1>7, <1>10
<1> DEFINE Q == {n \in 0 .. M : I[n] # v[n]}
<1>12. Q = {}
  <2> SUFFICES ASSUME Q # {} PROVE FALSE
    OBVIOUS
  <2>1. PICK n \in Q : \A m \in Q : n <= m
    <3>1. Q \in SUBSET Nat
      BY <1>1
    <3> HIDE DEF Q
    <3> QED BY <3>1, Least
  <2>a. n \in 0 .. M /\ I[n] # v[n]
    BY <2>1
  <2>2. n # 0
    BY <1>6, <1>11, <2>a DEF IsValue
  <2>3. n - 1 \in 0 .. M /\ n \in 1 .. M
    BY <1>1, <2>a, <2>2
  <2>4. I[n - 1] = v[n - 1]
    BY <2>1, <2>3
  <2>5. I[n] = I[n - 1] * 10 + DigitOf(DigitAt(text, d, n))
    BY <1>11, <2>a, <2>2
  <2>6. v[n] = v[n - 1] * 10 + DigitOf(DigitAt(text, d, n))
    BY <1>6, <2>3 DEF IsValue
  <2> QED BY <2>a, <2>4, <2>5, <2>6
<1>13. I[M] = v[M]
  <2>1. M \in 0 .. M
    BY <1>1
  <2> QED BY <1>12, <2>1
<1> QED BY <1>6, <1>7, <1>8, <1>13

\* More digits make no smaller number.
LEMMA ValueGrows ==
  ASSUME NEW text, NEW d, NEW M \in Nat, NEW v, IsValue(text, d, M, v),
         \A m \in Nat \ {0} : IsDigit(DigitAt(text, d, m)), NEW k \in 0 .. M
  PROVE  v[k] <= v[M]
<1> DEFINE Q == {j \in 0 .. M - k : ~(v[k] <= v[k + j])}
<1>1. ASSUME Q # {} PROVE FALSE
  <2>1. PICK j \in Q : \A m \in Q : j <= m
    <3>1. Q \in SUBSET Nat
      OBVIOUS
    <3> HIDE DEF Q
    <3> QED BY <1>1, <3>1, Least
  <2>2. j \in 0 .. M - k /\ ~(v[k] <= v[k + j])
    BY <2>1
  <2>3. v[k] \in Nat /\ k + 0 = k
    BY DEF IsValue
  <2>4. j # 0
    BY <2>2, <2>3
  <2>5. j - 1 \in 0 .. M - k /\ k + j \in 1 .. M /\ k + (j - 1) = k + j - 1 /\ k + j - 1 \in 0 .. M
    BY <2>2, <2>4
  <2>6. v[k] <= v[k + j - 1]
    BY <2>1, <2>5
  <2>7. v[k + j] = v[k + j - 1] * 10 + DigitOf(DigitAt(text, d, k + j)) /\ v[k + j - 1] \in Nat
        /\ v[k + j] \in Nat
    BY <2>5 DEF IsValue
  <2>8. DigitOf(DigitAt(text, d, k + j)) \in 0 .. 9
    <3>1. IsDigit(DigitAt(text, d, k + j))
      BY <2>5
    <3> QED BY <3>1, DigitType
  <2> QED BY <2>2, <2>3, <2>6, <2>7, <2>8
<1>2. M - k \in 0 .. M - k /\ k + (M - k) = M
  OBVIOUS
<1> QED BY <1>1, <1>2

\* Zeros at the end multiply.
LEMMA ZerosMultiply ==
  ASSUME NEW text, NEW d, NEW M \in Nat, NEW v, IsValue(text, d, M, v), NEW k \in 0 .. M,
         M - k <= 18, \A m \in k + 1 .. M : DigitAt(text, d, m) = "0"
  PROVE  v[M] = v[k] * kPow10U64[M - k]
<1> DEFINE Q == {j \in 0 .. M - k : v[k + j] # v[k] * kPow10U64[j]}
<1>1. ASSUME Q # {} PROVE FALSE
  <2>1. PICK j \in Q : \A m \in Q : j <= m
    <3>1. Q \in SUBSET Nat
      OBVIOUS
    <3> HIDE DEF Q
    <3> QED BY <1>1, <3>1, Least
  <2>2. j \in 0 .. M - k /\ v[k + j] # v[k] * kPow10U64[j]
    BY <2>1
  <2>3. v[k] \in Nat /\ k + 0 = k
    BY DEF IsValue
  <2>4. j # 0
    <3>1. v[k + 0] = v[k] * kPow10U64[0]
      BY <2>3, Powers
    <3> QED BY <2>2, <3>1
  <2>5. /\ j - 1 \in 0 .. M - k /\ k + j \in 1 .. M /\ k + (j - 1) = k + j - 1
        /\ k + j - 1 \in 0 .. M /\ k + j \in k + 1 .. M /\ j \in 1 .. 18 /\ j - 1 \in 0 .. 18
    BY <2>2, <2>4
  <2>6. v[k + j - 1] = v[k] * kPow10U64[j - 1]
    BY <2>1, <2>5
  <2>7. v[k + j] = v[k + j - 1] * 10 + DigitOf(DigitAt(text, d, k + j))
    BY <2>5 DEF IsValue
  <2>8. DigitOf(DigitAt(text, d, k + j)) = 0
    BY <2>5, ZeroIsDigit
  <2>9. kPow10U64[j] = 10 * kPow10U64[j - 1] /\ kPow10U64[j - 1] \in Nat
    BY <2>5, Powers
  <2>10. \A x, y \in Nat : (x * y) * 10 + 0 = x * (10 * y)
    OBVIOUS
  <2> QED BY <2>2, <2>3, <2>6, <2>7, <2>8, <2>9, <2>10
<1>2. M - k \in 0 .. M - k /\ k + (M - k) = M
  OBVIOUS
<1> QED BY <1>1, <1>2

-----------------------------------------------------------------------------
(* The loop reads that number, or the number does not fit.                 *)

\* What a turn does.
LEMMA Turn ==
  ASSUME NEW places \in 0 .. 18, NEW s \in Locals(places), s.valid, NEW c
  PROVE  /\ IsDigit(c) => Read(s, c, places) = ReadDigit(s, DigitOf(c), places)
         /\ c = "." => Read(s, c, places) = [s EXCEPT !.valid = ~s.sawDot, !.sawDot = TRUE]
         /\ ~IsDigit(c) /\ c # "." => Read(s, c, places) = [s EXCEPT !.valid = FALSE]
<1>1. IsDigit(c) \in BOOLEAN /\ s.valid \in BOOLEAN
  BY DEF IsDigit, Locals
<1>2. IsDigit(c) => c # "."
  BY DotIsNoDigit
<1> HIDE DEF IsDigit
<1>3. IsDigit(c) => Read(s, c, places) = ReadDigit(s, DigitOf(c), places)
  BY <1>1, <1>2 DEF Read
<1>4. c = "." => Read(s, c, places) = [s EXCEPT !.valid = ~s.sawDot, !.sawDot = TRUE]
  BY <1>1, <1>2 DEF Read
<1>5. ~IsDigit(c) /\ c # "." => Read(s, c, places) = [s EXCEPT !.valid = FALSE]
  BY <1>1 DEF Read
<1> QED BY <1>3, <1>4, <1>5

\* What a digit makes of the locals; it is refused only if its part would not fit.
AfterDigit(s, t, digit, places) ==
  /\ t.hasDigit = TRUE /\ t.sawDot = s.sawDot /\ t.valid \in BOOLEAN
  /\ ~s.sawDot =>
       /\ t.valid <=> s.intPart * 10 + digit <= UintMax
       /\ t.valid => t.intPart = s.intPart * 10 + digit
       /\ t.fracPart = s.fracPart /\ t.fracDigits = s.fracDigits
  /\ s.sawDot /\ s.fracDigits < places =>
       /\ t.valid <=> s.fracPart * 10 + digit <= UintMax
       /\ t.valid => t.fracPart = s.fracPart * 10 + digit
       /\ t.valid => t.fracDigits = s.fracDigits + 1
       /\ t.intPart = s.intPart
  /\ s.sawDot /\ ~(s.fracDigits < places) =>
       /\ t.valid = s.valid /\ t.intPart = s.intPart /\ t.fracPart = s.fracPart
       /\ t.fracDigits = s.fracDigits

\* ReadDigit does that.
LEMMA DigitTurn ==
  ASSUME NEW places \in 0 .. 18, NEW s \in Locals(places), NEW digit \in 0 .. 9
  PROVE  AfterDigit(s, ReadDigit(s, digit, places), digit, places)
<1> DEFINE part == s.intPart
<1> DEFINE frac == s.fracPart
<1> DEFINE read == s.fracDigits
<1>1. part \in 0 .. UintMax /\ frac \in 0 .. UintMax /\ read \in 0 .. places /\ UintMax \in Nat
      /\ s.sawDot \in BOOLEAN /\ s.valid \in BOOLEAN
  BY DecimalAssumption DEF Locals
<1>2. \A n \in 0 .. UintMax :
        /\ Overflows(n, digit) \in BOOLEAN
        /\ ~Overflows(n, digit) <=> n * 10 + digit <= UintMax
        /\ ~Overflows(n, digit) => Uint(n * 10 + digit) = n * 10 + digit
  <2>1. ASSUME NEW n \in 0 .. UintMax
        PROVE  /\ ~Overflows(n, digit) <=> n * 10 + digit <= UintMax
               /\ ~Overflows(n, digit) => Uint(n * 10 + digit) = n * 10 + digit
    <3>1. Overflows(n, digit) <=> n * 10 + digit > UintMax
      BY DigitFits
    <3>2. n * 10 + digit \in Nat
      BY <1>1
    <3> QED BY <1>1, <3>1, <3>2 DEF Uint
  <2> QED BY <2>1 DEF Overflows
<1> DEFINE t == ReadDigit(s, digit, places)
<1>3. CASE ~s.sawDot
  <2>1. t = [s EXCEPT !.hasDigit = TRUE, !.valid = ~Overflows(part, digit),
                      !.intPart = Uint(part * 10 + digit)]
    BY <1>3 DEF ReadDigit, Locals
  <2>2. /\ t.hasDigit = TRUE /\ t.sawDot = s.sawDot /\ t.valid = ~Overflows(part, digit)
        /\ t.intPart = Uint(part * 10 + digit) /\ t.fracPart = frac /\ t.fracDigits = read
    BY <2>1 DEF Locals
  <2>3. AfterDigit(s, t, digit, places)
    <3> HIDE DEF t
    <3> QED BY <1>1, <1>2, <1>3, <2>2 DEF AfterDigit
  <2> QED BY <2>3
<1>4. CASE s.sawDot /\ read < places
  <2>1. t = [s EXCEPT !.hasDigit = TRUE, !.valid = ~Overflows(frac, digit),
                      !.fracPart = Uint(frac * 10 + digit), !.fracDigits = read + 1]
    BY <1>4 DEF ReadDigit, Locals
  <2>2. /\ t.hasDigit = TRUE /\ t.sawDot = s.sawDot /\ t.valid = ~Overflows(frac, digit)
        /\ t.fracPart = Uint(frac * 10 + digit) /\ t.intPart = part /\ t.fracDigits = read + 1
    BY <2>1 DEF Locals
  <2>3. AfterDigit(s, t, digit, places)
    <3> HIDE DEF t
    <3> QED BY <1>1, <1>2, <1>4, <2>2 DEF AfterDigit
  <2> QED BY <2>3
<1>5. CASE s.sawDot /\ ~(read < places)
  <2>1. t = [s EXCEPT !.hasDigit = TRUE]
    BY <1>1, <1>5 DEF ReadDigit, Locals
  <2>2. /\ t.hasDigit = TRUE /\ t.sawDot = s.sawDot /\ t.valid = s.valid
        /\ t.fracPart = frac /\ t.intPart = part /\ t.fracDigits = read /\ s.valid \in BOOLEAN
    BY <2>1 DEF Locals
  <2>3. AfterDigit(s, t, digit, places)
    <3> HIDE DEF t
    <3> QED BY <1>1, <1>5, <2>2 DEF AfterDigit
  <2> QED BY <2>3
<1> QED BY <1>3, <1>4, <1>5

\* A digit that is read.
LEMMA DigitRead ==
  ASSUME NEW places \in 0 .. 18, NEW s \in Locals(places), s.valid, NEW c, IsDigit(c)
  PROVE  AfterDigit(s, Read(s, c, places), DigitOf(c), places)
<1>1. PICK digit \in 0 .. 9 : digit = DigitOf(c)
  BY DigitType
<1>2. Read(s, c, places) = ReadDigit(s, digit, places)
  BY <1>1, Turn
<1>3. AfterDigit(s, ReadDigit(s, digit, places), digit, places)
  BY DigitTurn
<1> QED BY <1>1, <1>2, <1>3

\* A digit is appended to the places after the dot.
PlaceIsAppended(whole, part, digit, f) ==
  /\ (whole * kPow10U64[f] + part) * 10 + digit
       = whole * kPow10U64[f + 1] + (part * 10 + digit)
  /\ whole * kPow10U64[f + 1] \in Nat

\* Whatever the parts.
LEMMA PlaceAppended ==
  ASSUME NEW whole \in Nat, NEW part \in Nat, NEW digit \in Nat, NEW f \in 0 .. 17
  PROVE  PlaceIsAppended(whole, part, digit, f)
<1>1. f + 1 \in 1 .. 18 /\ f + 1 - 1 = f /\ f \in 0 .. 18
  OBVIOUS
<1>2. PICK p \in Nat : p = kPow10U64[f] /\ kPow10U64[f + 1] = 10 * p
  BY <1>1, Powers
<1>3. (whole * p + part) * 10 + digit = whole * (10 * p) + (part * 10 + digit)
  OBVIOUS
<1>4. whole * (10 * p) \in Nat
  OBVIOUS
<1> QED BY <1>2, <1>3, <1>4 DEF PlaceIsAppended

\* What the locals say of the first k characters of a text.
Seen(text, k, s) ==
  /\ \A i \in 1 .. k : IsDigit(text[i]) \/ text[i] = "."
  /\ s.hasDigit <=> \E i \in 1 .. k : IsDigit(text[i])
  /\ s.sawDot <=> \E i \in 1 .. k : text[i] = "."
  /\ \A i, j \in 1 .. k : text[i] = "." /\ text[j] = "." => i = j

\* A string that is still valid has been seen as it is, and one that is not
\* stays so.
LEMMA ReadingSees ==
  ASSUME NEW places \in 0 .. 18, NEW C, NEW text \in Seq(C), NEW r,
         IsReading(text, places, r), NEW n \in 0 .. Len(text)
  PROVE  r[n].valid => Seen(text, n, r[n])
<1> DEFINE Q == {k \in 0 .. Len(text) : ~(r[k].valid => Seen(text, k, r[k]))}
<1> SUFFICES ASSUME Q # {} PROVE FALSE
  OBVIOUS
<1>1. PICK k \in Q : \A m \in Q : k <= m
  <2>1. Q \in SUBSET Nat
    OBVIOUS
  <2> HIDE DEF Q
  <2> QED BY <2>1, Least
<1>2. k \in 0 .. Len(text) /\ r[k].valid /\ ~Seen(text, k, r[k])
  BY <1>1
<1>3. k # 0
  <2>1. r[0] = Start /\ 1 .. 0 = {}
    BY DEF IsReading
  <2>2. Seen(text, 0, Start)
    BY <2>1 DEF Seen, Start
  <2> QED BY <1>2, <2>1, <2>2
<1>4. k - 1 \in 0 .. Len(text) /\ k \in 1 .. Len(text) /\ ~(k <= k - 1)
  BY <1>2, <1>3
<1>5. r[k - 1] \in Locals(places) /\ r[k] = Read(r[k - 1], text[k], places)
  BY <1>4 DEF IsReading
<1> DEFINE s == r[k - 1]
<1> DEFINE t == r[k]
<1> DEFINE c == text[k]
<1>6. s.valid
  <2> SUFFICES ASSUME ~s.valid PROVE FALSE
    BY DEF Locals
  <2>1. t = s
    BY <1>5 DEF Read
  <2> QED BY <1>2, <2>1
<1>7. Seen(text, k - 1, s)
  <2>1. k - 1 \notin Q
    <3> HIDE DEF Q
    <3> QED BY <1>1, <1>4
  <2> QED BY <1>4, <1>6, <2>1
<1>a. s \in Locals(places) /\ t = Read(s, c, places) /\ t.valid /\ ~Seen(text, k, t)
  BY <1>2, <1>5
<1>b. c = text[k]
  OBVIOUS
<1> HIDE DEF Q, s, t, c
<1>8. \A i \in 1 .. k : i = k \/ i \in 1 .. k - 1
  BY <1>4
<1>9. \A i \in 1 .. k - 1 : i \in 1 .. k
  BY <1>4
<1>10. k \in 1 .. k
  BY <1>4
<1>11. CASE IsDigit(c)
  <2>1. DigitOf(c) \in 0 .. 9 /\ c # "."
    BY <1>11, DigitType, DotIsNoDigit
  <2>2. t = ReadDigit(s, DigitOf(c), places)
    BY <1>a, <1>6, <1>11, Turn
  <2>3. t.hasDigit /\ t.sawDot = s.sawDot
    <3>1. AfterDigit(s, t, DigitOf(c), places)
      BY <1>a, <1>6, <1>11, DigitRead
    <3> QED BY <3>1 DEF AfterDigit
  <2>4. Seen(text, k, t)
    BY <1>b, <1>7, <1>8, <1>9, <1>10, <1>11, <2>1, <2>3, Zenon DEF Seen
  <2> QED BY <1>a, <2>4
<1>12. CASE c = "."
  <2>1. t = [s EXCEPT !.valid = ~s.sawDot, !.sawDot = TRUE]
    BY <1>a, <1>6, <1>12, Turn
  <2>2. t.hasDigit = s.hasDigit /\ t.sawDot /\ ~s.sawDot /\ ~IsDigit(c)
    BY <1>a, <1>12, <2>1, DotIsNoDigit DEF Locals
  <2>3. Seen(text, k, t)
    BY <1>b, <1>7, <1>8, <1>9, <1>10, <1>12, <2>2, Zenon DEF Seen
  <2> QED BY <1>a, <2>3
<1>13. CASE ~IsDigit(c) /\ c # "."
  <2>1. t = [s EXCEPT !.valid = FALSE]
    BY <1>a, <1>6, <1>13, Turn
  <2> QED BY <1>a, <2>1 DEF Locals
<1> QED BY <1>11, <1>12, <1>13

\* What the locals hold of the number v that the digits of a text make.
Counted(d, places, v, k, s) ==
  /\ k < d => s.intPart = v[k] /\ s.fracPart = 0 /\ s.fracDigits = 0 /\ ~s.sawDot
  /\ ~(k < d) => /\ s.intPart = v[d - 1] /\ s.sawDot
                 /\ s.fracDigits = IF k - d < places THEN k - d ELSE places
                 /\ v[d - 1 + s.fracDigits] = s.intPart * kPow10U64[s.fracDigits] + s.fracPart

\* v holds the numbers that the first digits of a text make, whose dot is at d.
CountsDigits(text, N, d, M, v) ==
  /\ v \in [0 .. M -> Nat] /\ v[0] = 0 /\ \A m \in 0 .. M : v[m] <= v[M]
  /\ \A i \in 1 .. N : i # d => IsDigit(text[i])
  /\ d <= N => text[d] = "."
  /\ \A m \in 1 .. M : m < d => v[m] = v[m - 1] * 10 + DigitOf(text[m])
  /\ \A m \in 1 .. M : d <= m /\ m < N => v[m] = v[m - 1] * 10 + DigitOf(text[m + 1])

\* A character is counted as it is, or the number does not fit.
LEMMA CountsOn ==
  ASSUME NEW places \in 0 .. 18, NEW text, NEW N \in Nat, NEW d \in 1 .. N + 1,
         NEW M, M = d - 1 + places, NEW v, CountsDigits(text, N, d, M, v),
         NEW k \in 1 .. N, NEW s \in Locals(places), s.valid,
         Counted(d, places, v, k - 1, s), NEW t, t = Read(s, text[k], places)
  PROVE  /\ t.valid => Counted(d, places, v, k, t)
         /\ ~t.valid => v[M] > UintMax
<1>1. PICK c : c = text[k] /\ t = Read(s, c, places) /\ Read(s, c, places) = t
  OBVIOUS
<1>2. M \in Nat /\ UintMax \in Nat
  BY DecimalAssumption
<1>3. /\ v \in [0 .. M -> Nat] /\ v[0] = 0 /\ \A m \in 0 .. M : v[m] <= v[M]
      /\ \A i \in 1 .. N : i # d => IsDigit(text[i])
      /\ d <= N => text[d] = "."
      /\ \A m \in 1 .. M : m < d => v[m] = v[m - 1] * 10 + DigitOf(text[m])
      /\ \A m \in 1 .. M : d <= m /\ m < N => v[m] = v[m - 1] * 10 + DigitOf(text[m + 1])
  BY DEF CountsDigits
<1>4. \A m \in 0 .. M : v[m] \in Nat
  BY <1>2, <1>3
<1>6. s.intPart \in Nat /\ s.fracPart \in Nat /\ s.fracDigits \in 0 .. places
       /\ s.valid \in BOOLEAN /\ s.sawDot \in BOOLEAN
  BY <1>2 DEF Locals
<1>7. CASE k < d
  <2>1. IsDigit(c) /\ DigitOf(c) \in 0 .. 9
    BY <1>1, <1>3, <1>7, DigitType
  <2>3. k - 1 < d /\ k \in 1 .. M /\ k \in 0 .. M
    BY <1>2, <1>1, <1>7
  <2>4. s.intPart = v[k - 1] /\ s.fracPart = 0 /\ s.fracDigits = 0 /\ ~s.sawDot
    BY <2>3 DEF Counted
  <2>5. v[k] = s.intPart * 10 + DigitOf(c)
    BY <1>1, <1>3, <1>7, <2>3, <2>4
  <2>6. /\ t.valid => t.intPart = s.intPart * 10 + DigitOf(c)
        /\ t.valid <=> s.intPart * 10 + DigitOf(c) <= UintMax
        /\ t.fracPart = s.fracPart /\ t.fracDigits = s.fracDigits /\ t.sawDot = s.sawDot
    <3>1. AfterDigit(s, t, DigitOf(c), places)
      BY <1>1, <2>1, DigitRead
    <3> QED BY <2>4, <3>1 DEF AfterDigit
  <2>7. t.valid => Counted(d, places, v, k, t)
    BY <1>7, <2>4, <2>5, <2>6 DEF Counted
  <2>8. ~t.valid => v[M] > UintMax
    <3> SUFFICES ASSUME ~t.valid PROVE v[M] > UintMax
      OBVIOUS
    <3>1. v[k] > UintMax
      <4>1. ~(v[k] <= UintMax) /\ v[k] \in Nat
        BY <1>4, <2>3, <2>5, <2>6
      <4> QED BY <1>2, <4>1
    <3>2. v[k] <= v[M] /\ v[k] \in Nat /\ v[M] \in Nat
      BY <1>2, <1>3, <1>4, <2>3
    <3> QED BY <1>2, <3>1, <3>2
  <2> QED BY <1>1, <2>7, <2>8
<1>8. CASE k = d
  <2>1. c = "."
    BY <1>1, <1>3, <1>8
  <2>2. t = [s EXCEPT !.valid = ~s.sawDot, !.sawDot = TRUE]
    <3>1. c = "." => Read(s, c, places) = [s EXCEPT !.valid = ~s.sawDot, !.sawDot = TRUE]
      BY Turn
    <3> QED BY <1>1, <2>1, <3>1
  <2>3. k - 1 < d
    BY <1>8
  <2>4. s.intPart = v[k - 1] /\ s.fracPart = 0 /\ s.fracDigits = 0 /\ ~s.sawDot
    BY <2>3 DEF Counted
  <2>5. t.valid /\ t.sawDot /\ t.intPart = s.intPart /\ t.fracPart = 0 /\ t.fracDigits = 0
    BY <1>1, <2>2, <2>4 DEF Locals
  <2>6. t.fracDigits = IF k - d < places THEN k - d ELSE places
    BY <1>2, <1>1, <1>8, <2>5
  <2>7. v[d - 1 + t.fracDigits] = t.intPart * kPow10U64[t.fracDigits] + t.fracPart
    <3>1. v[d - 1] \in Nat /\ d - 1 + 0 = d - 1
      BY <1>2, <1>1, <1>3
    <3>2. t.intPart = v[d - 1]
      BY <1>8, <2>4, <2>5
    <3> QED BY <2>5, <3>1, <3>2, Powers
  <2>8. ~(k < d)
    BY <1>2, <1>1, <1>8
  <2>9. Counted(d, places, v, k, t)
    BY <1>8, <2>4, <2>5, <2>6, <2>7, <2>8 DEF Counted
  <2> QED BY <1>1, <2>5, <2>9
<1>9. CASE k > d
  <2>1. ~(k - 1 < d) /\ ~(k < d) /\ k # d
    BY <1>2, <1>1, <1>9
  <2>2. IsDigit(c) /\ DigitOf(c) \in 0 .. 9
    BY <1>1, <1>3, <2>1, DigitType
  <2>4. /\ s.intPart = v[d - 1] /\ s.sawDot
        /\ s.fracDigits = IF k - 1 - d < places THEN k - 1 - d ELSE places
        /\ v[d - 1 + s.fracDigits] = s.intPart * kPow10U64[s.fracDigits] + s.fracPart
    BY <2>1 DEF Counted
  <2>5. CASE s.fracDigits < places
    <3>1. s.fracDigits = k - 1 - d /\ k - d <= places
      BY <1>2, <1>1, <2>4, <2>5
    <3>2. /\ t.valid => t.fracPart = s.fracPart * 10 + DigitOf(c) /\ t.fracDigits = s.fracDigits + 1
          /\ t.valid <=> s.fracPart * 10 + DigitOf(c) <= UintMax
          /\ t.intPart = s.intPart /\ t.sawDot
      <4>1. AfterDigit(s, t, DigitOf(c), places)
        BY <1>1, <2>2, DigitRead
      <4> QED BY <2>4, <2>5, <4>1 DEF AfterDigit
    <3>3. /\ d - 1 + s.fracDigits = k - 2 /\ k - 1 \in 1 .. M /\ k - 1 \in 0 .. M
          /\ k - 1 - 1 = k - 2 /\ ~(k - 1 < d) /\ k - 1 < N /\ k - 1 + 1 = k
          /\ d - 1 + (s.fracDigits + 1) = k - 1 /\ s.fracDigits + 1 \in 1 .. 18
          /\ s.fracDigits + 1 = k - d /\ s.fracDigits + 1 - 1 = s.fracDigits
      BY <1>2, <1>1, <1>6, <2>1, <3>1
    <3>4. c = text[k - 1 + 1] /\ d <= k - 1
      BY <1>1, <3>3
    <3>5. v[k - 1] = v[k - 2] * 10 + DigitOf(c)
      BY <1>3, <3>3, <3>4
    <3>6. v[k - 2] = s.intPart * kPow10U64[s.fracDigits] + s.fracPart
      BY <2>4, <3>3
    <3>7. s.fracDigits \in 0 .. 17
      BY <1>6, <2>5
    <3>8. /\ (s.intPart * kPow10U64[s.fracDigits] + s.fracPart) * 10 + DigitOf(c)
                = s.intPart * kPow10U64[s.fracDigits + 1] + (s.fracPart * 10 + DigitOf(c))
          /\ s.intPart * kPow10U64[s.fracDigits + 1] \in Nat
      <4>1. DigitOf(c) \in Nat /\ s.intPart \in Nat /\ s.fracPart \in Nat
        BY <1>6, <2>2
      <4>2. PICK whole \in Nat, part \in Nat, digit \in Nat, f \in 0 .. 17 :
              whole = s.intPart /\ part = s.fracPart /\ digit = DigitOf(c) /\ f = s.fracDigits
        BY <4>1, <3>7
      <4>3. PlaceIsAppended(whole, part, digit, f)
        BY PlaceAppended
      <4> QED BY <4>2, <4>3 DEF PlaceIsAppended
    <3>9. v[k - 1] = s.intPart * kPow10U64[s.fracDigits + 1] + (s.fracPart * 10 + DigitOf(c))
      BY <3>5, <3>6, <3>8
    <3>10. ASSUME t.valid PROVE Counted(d, places, v, k, t)
      <4>1. t.fracDigits = k - d /\ d - 1 + t.fracDigits = k - 1
        BY <3>2, <3>3, <3>10
      <4>2. t.fracDigits = IF k - d < places THEN k - d ELSE places
        BY <1>2, <1>1, <3>1, <4>1
      <4>3. v[d - 1 + t.fracDigits] = t.intPart * kPow10U64[t.fracDigits] + t.fracPart
        BY <3>2, <3>3, <3>9, <3>10, <4>1
      <4> QED BY <2>1, <2>4, <3>2, <4>2, <4>3 DEF Counted
    <3>11. ASSUME ~t.valid PROVE v[M] > UintMax
      <4>1. s.fracPart * 10 + DigitOf(c) > UintMax
        BY <1>2, <1>1, <1>6, <2>2, <3>2, <3>11
      <4>2. s.intPart * kPow10U64[s.fracDigits + 1] \in Nat
        BY <3>8
      <4>3. v[k - 1] > UintMax
        BY <1>2, <1>1, <1>6, <2>2, <3>9, <4>1, <4>2
      <4>4. v[k - 1] <= v[M] /\ v[k - 1] \in Nat /\ v[M] \in Nat
        BY <1>2, <1>3, <1>4, <3>3
      <4> QED BY <1>2, <4>3, <4>4
    <3> QED BY <1>1, <3>10, <3>11
  <2>6. CASE ~(s.fracDigits < places)
    <3>1. /\ t.valid /\ t.sawDot /\ t.intPart = s.intPart /\ t.fracPart = s.fracPart
          /\ t.fracDigits = s.fracDigits
      <4>1. AfterDigit(s, t, DigitOf(c), places)
        BY <1>1, <2>2, DigitRead
      <4> QED BY <2>4, <2>6, <4>1 DEF AfterDigit
    <3>2. t.fracDigits = IF k - d < places THEN k - d ELSE places
      BY <1>2, <1>1, <1>6, <2>4, <2>6, <3>1
    <3>3. Counted(d, places, v, k, t)
      BY <2>1, <2>4, <3>1, <3>2 DEF Counted
    <3> QED BY <1>1, <3>1, <3>3
  <2> QED BY <2>5, <2>6
<1> QED BY <1>2, <1>1, <1>7, <1>8, <1>9

\* The numbers that the digits of a plain text make are such.
LEMMA TextCounts ==
  ASSUME NEW places \in 0 .. 18, NEW C, NEW text \in Seq(C), NEW d, IsFirstDot(text, d),
         IsPlain(text), NEW M, M = d - 1 + places, NEW v, IsValue(text, d, M, v)
  PROVE  CountsDigits(text, Len(text), d, M, v)
<1>1. d \in 1 .. Len(text) + 1 /\ Len(text) \in Nat /\ M \in Nat
  BY DEF IsFirstDot
<1>2. /\ v \in [0 .. M -> Nat] /\ v[0] = 0
      /\ \A m \in 1 .. M : v[m] = v[m - 1] * 10 + DigitOf(DigitAt(text, d, m))
  BY DEF IsValue
<1>3. /\ \A m \in Nat \ {0} : IsDigit(DigitAt(text, d, m))
      /\ \A i \in 1 .. Len(text) : i # d => IsDigit(text[i])
  BY DigitsOfPlain
<1>4. \A m \in 0 .. M : v[m] <= v[M]
  BY <1>1, <1>3, ValueGrows
<1>5. d <= Len(text) => text[d] = "."
  BY DEF IsFirstDot
<1>6. \A m \in 1 .. M : m < d => DigitAt(text, d, m) = text[m]
  BY DEF DigitAt
<1>7. \A m \in 1 .. M : d <= m /\ m < Len(text) => DigitAt(text, d, m) = text[m + 1]
  BY <1>1 DEF DigitAt
<1> QED BY <1>2, <1>3, <1>4, <1>5, <1>6, <1>7 DEF CountsDigits

\* A plain string that is still valid has been counted as it is, and one that
\* is not makes a number that does not fit.
LEMMA ReadingCounts ==
  ASSUME NEW places \in 0 .. 18, NEW C, NEW text \in Seq(C), NEW r,
         IsReading(text, places, r), NEW d, IsFirstDot(text, d), IsPlain(text),
         NEW M, M = d - 1 + places, NEW v, IsValue(text, d, M, v), NEW n \in 0 .. Len(text)
  PROVE  /\ r[n].valid => Counted(d, places, v, n, r[n])
         /\ ~r[n].valid => v[M] > UintMax
<1> DEFINE Holds(k) == /\ r[k].valid => Counted(d, places, v, k, r[k])
                       /\ ~r[k].valid => v[M] > UintMax
<1> DEFINE Q == {k \in 0 .. Len(text) : ~Holds(k)}
<1> SUFFICES ASSUME Q # {} PROVE FALSE
  OBVIOUS
<1>1. PICK k \in Q : \A m \in Q : k <= m
  <2>1. Q \in SUBSET Nat
    OBVIOUS
  <2> HIDE DEF Q
  <2> QED BY <2>1, Least
<1>2. k \in 0 .. Len(text) /\ ~Holds(k)
  BY <1>1
<1>3. k # 0
  <2>1. r[0] = Start /\ 0 < d
    BY DEF IsReading, IsFirstDot
  <2>2. Start.valid /\ Counted(d, places, v, 0, Start)
    BY <2>1 DEF Counted, Start, IsValue
  <2> QED BY <1>2, <2>1, <2>2
<1>4. k - 1 \in 0 .. Len(text) /\ k \in 1 .. Len(text) /\ ~(k <= k - 1)
  BY <1>2, <1>3
<1>5. r[k - 1] \in Locals(places) /\ r[k] = Read(r[k - 1], text[k], places)
  BY <1>4 DEF IsReading
<1>6. Holds(k - 1)
  <2>1. k - 1 \notin Q
    <3> HIDE DEF Q
    <3> QED BY <1>1, <1>4
  <2> QED BY <1>4, <2>1
<1>9. /\ Len(text) \in Nat /\ d \in 1 .. Len(text) + 1
      /\ CountsDigits(text, Len(text), d, M, v)
  <2>1. CountsDigits(text, Len(text), d, M, v)
    BY TextCounts
  <2>2. Len(text) \in Nat
    OBVIOUS
  <2> QED BY <2>1, <2>2 DEF IsFirstDot
<1>7. CASE ~r[k - 1].valid
  <2>1. r[k] = r[k - 1]
    BY <1>5, <1>7 DEF Read
  <2> QED BY <1>2, <1>6, <1>7, <2>1
<1>8. CASE r[k - 1].valid
  <2>1. Counted(d, places, v, k - 1, r[k - 1])
    BY <1>6, <1>8
  <2>2. Holds(k)
    BY <1>4, <1>5, <1>8, <1>9, <2>1, CountsOn
  <2> QED BY <1>2, <2>2
<1> QED BY <1>7, <1>8

\* The table has the power that is left.
LEMMA PlacesLeft ==
  ASSUME NEW places \in 0 .. 18, NEW f \in 0 .. places
  PROVE  places - f \in 0 .. 18
OBVIOUS

\* The number that the locals make at the end.
Made(s, places) ==
  s.intPart * kPow10U64[places] + s.fracPart * kPow10U64[places - s.fracDigits]

\* What the locals hold at the end makes the number.
LEMMA AssembledIsValue ==
  ASSUME NEW places \in 0 .. 18, NEW text, NEW N \in Nat, N = Len(text), NEW d \in 1 .. N + 1,
         NEW M \in Nat, M = d - 1 + places, NEW v, IsValue(text, d, M, v),
         NEW s \in Locals(places), Counted(d, places, v, N, s)
  PROVE  v[M] = Made(s, places)
<1>1. PICK int \in Nat, frac \in Nat, f \in 0 .. places :
        int = s.intPart /\ frac = s.fracPart /\ f = s.fracDigits
  BY DecimalAssumption DEF Locals
<1>2. PICK k : k = d - 1 + f
  OBVIOUS
<1>3. k \in 0 .. M /\ M - k = places - f /\ d - 1 \in 0 .. M
  BY <1>2
<1>4. v[k] = int * kPow10U64[f] + frac
  <2>1. CASE N < d
    <3>1. int = v[N] /\ frac = 0 /\ f = 0 /\ N = d - 1
      BY <1>1, <2>1 DEF Counted
    <3>2. k = N /\ v[k] \in Nat
      BY <1>2, <1>3, <3>1 DEF IsValue
    <3>3. int * 1 + 0 = int
      OBVIOUS
    <3> QED BY <3>1, <3>2, <3>3, Powers
  <2>2. CASE ~(N < d)
    BY <1>1, <1>2, <2>2 DEF Counted
  <2> QED BY <2>1, <2>2
<1>5. \A m \in k + 1 .. M : DigitAt(text, d, m) = "0"
  <2> SUFFICES ASSUME NEW m \in k + 1 .. M PROVE DigitAt(text, d, m) = "0"
    OBVIOUS
  <2>1. m \in Nat /\ m >= d /\ m <= M /\ m > k
    BY <1>2, <1>3
  <2>2. N < d => m >= N
    BY <2>1
  <2>3. ~(N < d) => f = IF N - d < places THEN N - d ELSE places
    BY <1>1 DEF Counted
  <2>4. ~(N < d) => m >= N
    BY <1>2, <2>1, <2>3
  <2> QED BY <2>1, <2>2, <2>4 DEF DigitAt
<1>6. v[M] = v[k] * kPow10U64[places - f]
  <2>1. M - k <= 18
    BY <1>3
  <2>2. v[M] = v[k] * kPow10U64[M - k]
    BY <1>3, <1>5, <2>1, ZerosMultiply
  <2> QED BY <1>3, <2>2, Zenon
<1>7. kPow10U64[places] = kPow10U64[f] * kPow10U64[places - f]
  <2>1. PICK g : g = places - f
    OBVIOUS
  <2>2. f \in 0 .. 18 /\ g \in 0 .. 18 /\ f + g = places /\ f + g <= 18
    BY <2>1
  <2>3. kPow10U64[f + g] = kPow10U64[f] * kPow10U64[g]
    BY <2>2, PowersMultiply, Zenon
  <2> QED BY <2>1, <2>2, <2>3, Zenon
<1>8. PICK p \in Nat, q \in Nat : p = kPow10U64[f] /\ q = kPow10U64[places - f]
  <2>1. f \in 0 .. 18 /\ places - f \in 0 .. 18
    OBVIOUS
  <2> QED BY <2>1, Powers
<1>9. (int * p + frac) * q = int * (p * q) + frac * q
  OBVIOUS
<1> QED BY <1>1, <1>4, <1>6, <1>7, <1>8, <1>9 DEF Made

\* For every string and every number of places: the number of its digits if it
\* is a decimal whose number fits, and FALSE otherwise.
THEOREM DecimalExact ==
  ASSUME NEW places \in 0 .. 18, NEW C, NEW text \in Seq(C)
  PROVE  ParseFixedDecimalString(text, places)
           = IF IsDecimal(text, places) THEN Scaled(text, places) ELSE NotADecimal
<1> DEFINE N == Len(text)
<1>1. PICK r : /\ IsReading(text, places, r)
               /\ ParseFixedDecimalString(text, places) =
                    LET s == r[N]
                    IN  IF s.valid /\ s.hasDigit
                        THEN Assemble(s.intPart, kPow10U64[places], s.fracPart,
                                      kPow10U64[places - s.fracDigits])
                        ELSE NotADecimal
  BY ReadingExists
<1>2. PICK s \in Locals(places) : s = r[N]
  BY <1>1 DEF IsReading
<1>3. ParseFixedDecimalString(text, places) =
        IF s.valid /\ s.hasDigit
        THEN Assemble(s.intPart, kPow10U64[places], s.fracPart, kPow10U64[places - s.fracDigits])
        ELSE NotADecimal
  BY <1>1, <1>2
<1>4. s.valid => Seen(text, N, s)
  <2>1. N \in 0 .. Len(text)
    OBVIOUS
  <2> QED BY <1>1, <1>2, <2>1, ReadingSees
<1>5. s.valid \in BOOLEAN /\ s.hasDigit \in BOOLEAN
  BY DEF Locals
<1>6. DOMAIN text = 1 .. N
  OBVIOUS
<1>7. IsDecimal(text, places) <=>
        /\ IsPlain(text) /\ \E i \in 1 .. N : IsDigit(text[i])
        /\ Scaled(text, places) <= UintMax
  BY <1>6, Zenon DEF IsDecimal, IsPlain
<1>8. s.valid => IsPlain(text) /\ (s.hasDigit <=> \E i \in 1 .. N : IsDigit(text[i]))
  BY <1>4, Zenon DEF Seen, IsPlain
<1>9. CASE ~IsPlain(text)
  BY <1>3, <1>7, <1>8, <1>9
<1>10. CASE IsPlain(text)
  <2>1. PICK d : IsFirstDot(text, d)
    BY FirstDotExists
  <2>2. PICK M : M = d - 1 + places
    OBVIOUS
  <2>3. PICK v : IsValue(text, d, M, v) /\ Scaled(text, places) = v[M]
    BY <1>10, <2>1, <2>2, ScaledIsValue
  <2>4. /\ s.valid => Counted(d, places, v, N, s)
        /\ ~s.valid => v[M] > UintMax
    <3>1. N \in 0 .. Len(text)
      OBVIOUS
    <3> QED BY <1>1, <1>2, <1>10, <2>1, <2>2, <2>3, <3>1, ReadingCounts
  <2>5. M \in Nat /\ N \in Nat /\ d \in 1 .. N + 1 /\ UintMax \in Nat
    BY <2>1, <2>2, DecimalAssumption DEF IsFirstDot
  <2>6. v[M] \in Nat
    BY <2>3, <2>5 DEF IsValue
  <2>7. CASE ~s.valid
    <3>1. ~(v[M] <= UintMax)
      BY <2>4, <2>5, <2>6, <2>7
    <3> QED BY <1>3, <1>7, <2>3, <2>7, <3>1
  <2>8. CASE s.valid /\ ~s.hasDigit
    BY <1>3, <1>7, <1>8, <2>8
  <2>9. CASE s.valid /\ s.hasDigit
    <3>1. Counted(d, places, v, N, s)
      BY <2>4, <2>9
    <3>2. v[M] = Made(s, places)
      <4>1. N = Len(text)
        OBVIOUS
      <4> HIDE DEF N
      <4>2. /\ places \in 0 .. 18 /\ N \in Nat /\ N = Len(text) /\ d \in 1 .. N + 1
            /\ M \in Nat /\ M = d - 1 + places
        BY <2>2, <2>5, <4>1
      <4>3. IsValue(text, d, M, v) /\ s \in Locals(places) /\ Counted(d, places, v, N, s)
        BY <2>3, <3>1
      <4> QED BY <4>2, <4>3, AssembledIsValue
    <3>3. /\ s.intPart \in Nat /\ s.fracPart \in Nat /\ kPow10U64[places] \in Nat \ {0}
          /\ kPow10U64[places - s.fracDigits] \in Nat \ {0}
      <4>1. /\ s.intPart \in Nat /\ s.fracPart \in Nat /\ s.fracDigits \in 0 .. places
        BY <2>5 DEF Locals
      <4>2. places - s.fracDigits \in 0 .. 18
        BY <4>1, PlacesLeft
      <4> QED BY <4>1, <4>2, Powers
    <3>4. Assemble(s.intPart, kPow10U64[places], s.fracPart, kPow10U64[places - s.fracDigits])
            = IF v[M] <= UintMax THEN v[M] ELSE NotADecimal
      BY <3>2, <3>3, AssembleFits, Zenon DEF Made
    <3>5. IsDecimal(text, places) <=> v[M] <= UintMax
      BY <1>7, <1>8, <1>10, <2>3, <2>9
    <3> QED BY <1>3, <2>3, <2>9, <3>4, <3>5
  <2> QED BY <1>5, <2>7, <2>8, <2>9
<1> QED BY <1>9, <1>10

-----------------------------------------------------------------------------
(* Sequences of sequences.                                                 *)

\* A recursion over the numbers up to N ...
IsRun(N, S, base, step, r) ==
  r \in [0 .. N -> S] /\ r[0] = base /\ \A n \in 1 .. N : r[n] = step[<<r[n - 1], n>>]

\* ... has a solution.
LEMMA RunExists ==
  ASSUME NEW N \in Nat, NEW S, NEW base \in S, NEW step \in [S \X (1 .. N) -> S]
  PROVE  \E r : IsRun(N, S, base, step, r)
<1>1. PICK h : IsFold(N, S, base, step, h)
  BY FoldExists
<1>2. /\ h[1 .. 0] = base
      /\ \A n \in 1 .. N : h[1 .. n] = step[<<h[1 .. n - 1], n>>]
      /\ \A n \in 0 .. N : h[1 .. n] \in S
  BY <1>1, FoldRuns
<1> DEFINE r == [n \in 0 .. N |-> h[1 .. n]]
<1>3. r \in [0 .. N -> S] /\ r[0] = base
  BY <1>2
<1>4. \A n \in 1 .. N : n - 1 \in 0 .. N /\ n \in 0 .. N
  OBVIOUS
<1>5. \A n \in 1 .. N : r[n] = step[<<r[n - 1], n>>]
  BY <1>2, <1>4
<1> HIDE DEF r
<1> QED BY <1>3, <1>5 DEF IsRun

\* The sequences are joined one after the other.
IsJoined(N, s, S, r) ==
  r \in [0 .. N -> S] /\ r[0] = <<>> /\ \A n \in 1 .. N : r[n] = r[n - 1] \o s[n]

\* Of a set of sequences.
IsClosed(S) ==
  /\ <<>> \in S /\ \A x \in S : <<>> \o x = x /\ x \o <<>> = x
  /\ \A x, y \in S : x \o y \in S
  /\ \A x, y, z \in S : (x \o y) \o z = x \o (y \o z)

\* Finite sequences are one.
LEMMA SeqIsClosed == ASSUME NEW T PROVE IsClosed(Seq(T))
<1>1. \A x \in Seq(T) : <<>> \o x = x /\ x \o <<>> = x
  BY ConcatEmptySeq
<1>2. \A x, y \in Seq(T) : x \o y \in Seq(T)
  OBVIOUS
<1>3. ASSUME NEW x \in Seq(T), NEW y \in Seq(T), NEW z \in Seq(T)
      PROVE  (x \o y) \o z = x \o (y \o z)
  BY ConcatAssociative
<1>4. <<>> \in Seq(T)
  OBVIOUS
<1> QED BY <1>1, <1>2, <1>3, <1>4, Zenon DEF IsClosed

\* Two that agree on the first of a run, and on each if they do on the one before, agree.
Agree(N, a, b)     == \A n \in 1 .. N : a[n] = b[n]
AgreeStep(N, a, b) == a[1] = b[1] /\ \A n \in 2 .. N : a[n - 1] = b[n - 1] => a[n] = b[n]

\* By the least number at which they would not.
LEMMA RunsAgree ==
  ASSUME NEW N \in Nat, NEW a, NEW b, AgreeStep(N, a, b)
  PROVE  Agree(N, a, b)
<1> DEFINE Q == {n \in 1 .. N : a[n] # b[n]}
<1> SUFFICES ASSUME Q # {} PROVE FALSE
  BY DEF Agree
<1>1. PICK n \in Q : \A m \in Q : n <= m
  <2>1. Q \in SUBSET Nat
    OBVIOUS
  <2> HIDE DEF Q
  <2> QED BY <2>1, Least
<1>2. n \in 1 .. N /\ a[n] # b[n]
  BY <1>1
<1>3. n \in 2 .. N /\ n - 1 \in 1 .. N /\ ~(n <= n - 1)
  BY <1>2 DEF AgreeStep
<1>4. a[n - 1] = b[n - 1]
  BY <1>1, <1>3
<1> QED BY <1>2, <1>3, <1>4 DEF AgreeStep

\* What is joined, and what FlattenSeq computes.
AllIn(N, s, S) == \A n \in 1 .. N : s[n] \in S
Flattens(N, s, I) == I = [i \in 1 .. N |-> IF i = 1 THEN s[i] ELSE I[i - 1] \o s[i]]

\* There is such a run: it is a recursion.
LEMMA JoinExists ==
  ASSUME NEW N \in Nat, NEW S, IsClosed(S), NEW s, AllIn(N, s, S)
  PROVE  \E r : IsJoined(N, s, S, r)
<1> DEFINE step == [p \in S \X (1 .. N) |-> p[1] \o s[p[2]]]
<1>1. step \in [S \X (1 .. N) -> S]
  BY DEF IsClosed, AllIn
<1>b. <<>> \in S
  BY DEF IsClosed
<1>2. PICK r : IsRun(N, S, <<>>, step, r)
  <2> HIDE DEF step
  <2> QED BY <1>1, <1>b, RunExists, Zenon
<1>3. ASSUME NEW n \in 1 .. N PROVE r[n] = r[n - 1] \o s[n]
  <2>1. n - 1 \in 0 .. N
    OBVIOUS
  <2>2. <<r[n - 1], n>> \in S \X (1 .. N)
    BY <1>2, <2>1 DEF IsRun
  <2>3. r[n] = step[<<r[n - 1], n>>]
    BY <1>2 DEF IsRun
  <2> QED BY <2>2, <2>3
<1> HIDE DEF step
<1> QED BY <1>2, <1>3 DEF IsJoined, IsRun

\* What FlattenSeq computes is what is joined.
LEMMA JoinUnique ==
  ASSUME NEW N \in Nat \ {0}, NEW S, IsClosed(S), NEW s, AllIn(N, s, S),
         NEW r, IsJoined(N, s, S, r), NEW I, Flattens(N, s, I)
  PROVE  I[N] = r[N]
<1>1. 1 \in 1 .. N /\ N \in 1 .. N
  OBVIOUS
<1>2. r[1] = s[1]
  <2>1. r[1] = r[1 - 1] \o s[1] /\ s[1] \in S
    BY <1>1 DEF IsJoined, AllIn
  <2>2. 1 - 1 = 0
    OBVIOUS
  <2> QED BY <2>1, <2>2 DEF IsJoined, IsClosed
<1>3. \A n \in 1 .. N : I[n] = IF n = 1 THEN s[n] ELSE I[n - 1] \o s[n]
  BY DEF Flattens
<1>4. I[1] = r[1]
  BY <1>1, <1>2, <1>3
<1>5. \A n \in 2 .. N : I[n - 1] = r[n - 1] => I[n] = r[n]
  <2>1. \A n \in 2 .. N : n \in 1 .. N /\ n # 1
    OBVIOUS
  <2> QED BY <1>3, <2>1 DEF IsJoined
<1>6. Agree(N, I, r)
  <2>1. N \in Nat
    OBVIOUS
  <2>2. AgreeStep(N, I, r)
    BY <1>4, <1>5 DEF AgreeStep
  <2> QED BY <2>1, <2>2, RunsAgree
<1> QED BY <1>1, <1>6 DEF Agree

\* ... of which there is a solution.
LEMMA JoinRecurs ==
  ASSUME NEW N \in Nat \ {0}, NEW S, IsClosed(S), NEW s, AllIn(N, s, S),
         NEW r, IsJoined(N, s, S, r), NEW f, f = [n \in 1 .. N |-> r[n]]
  PROVE  Flattens(N, s, f)
<1>1. 1 \in 1 .. N
  OBVIOUS
<1>2. r[1] = s[1]
  <2>1. r[1] = r[1 - 1] \o s[1] /\ s[1] \in S
    BY <1>1 DEF IsJoined, AllIn
  <2>2. 1 - 1 = 0
    OBVIOUS
  <2> QED BY <2>1, <2>2 DEF IsJoined, IsClosed
<1>3. \A n \in 1 .. N : n # 1 => n - 1 \in 1 .. N
  OBVIOUS
<1>4. \A n \in 1 .. N : r[n] = r[n - 1] \o s[n]
  BY DEF IsJoined
<1> QED BY <1>2, <1>3, <1>4 DEF Flattens

\* What the least number that is not 0 has before it.
LEMMA Predecessor == \A n \in Nat \ {0} : n \in Nat /\ n - 1 \in Nat
OBVIOUS

\* The others are those behind the first.
IsShifted(N, s, t) == \A n \in 1 .. N - 1 : t[n] = s[n + 1]

\* All of them are joined, and the others are.
BothJoined(N, s, S, a, M, t, b) ==
  /\ N \in Nat \ {0} /\ IsClosed(S) /\ AllIn(N, s, S) /\ IsJoined(N, s, S, a)
  /\ M = N - 1 /\ IsShifted(N, s, t) /\ IsJoined(M, t, S, b)

\* As a predicate, which the provers do not rewrite.
IsConcat(whole, first, others) == whole = first \o others

\* All of them joined are the first and the others joined.
LEMMA JoinFirst ==
  ASSUME NEW N, NEW S, NEW s, NEW a, NEW M, NEW t, NEW b, BothJoined(N, s, S, a, M, t, b)
  PROVE  IsConcat(a[N], s[1], b[M])
<1>0. /\ N \in Nat \ {0} /\ IsClosed(S) /\ AllIn(N, s, S) /\ IsJoined(N, s, S, a)
      /\ M = N - 1 /\ IsShifted(N, s, t) /\ IsJoined(M, t, S, b)
  BY DEF BothJoined
<1>1. 1 \in 1 .. N /\ N \in 1 .. N /\ s[1] \in S
  BY <1>0 DEF AllIn
<1>2. 1 - 1 = 0
  OBVIOUS
<1> DEFINE c == [n \in 1 .. N |-> s[1] \o b[n - 1]]
<1>3. \A n \in 1 .. N : c[n] = s[1] \o b[n - 1]
  OBVIOUS
<1> HIDE DEF c
<1>4. c[1] = s[1] \o b[0]
  BY <1>1, <1>2, <1>3
<1>5. a[1] = c[1]
  <2>1. a[1] = a[0] \o s[1]
    BY <1>0, <1>1, <1>2 DEF IsJoined
  <2> QED BY <1>0, <1>1, <1>4, <2>1 DEF IsJoined, IsClosed
<1>6. ASSUME NEW n \in 2 .. N, a[n - 1] = c[n - 1] PROVE a[n] = c[n]
  <2>1. /\ n - 1 \in 1 .. N - 1 /\ n - 1 \in 1 .. N /\ n \in 1 .. N /\ (n - 1) + 1 = n
        /\ (n - 1) - 1 \in 0 .. N - 1
    BY <1>0
  <2>2. PICK k \in 0 .. N - 1 : k = (n - 1) - 1
    BY <2>1
  <2>3. b[n - 1] = b[k] \o s[n]
    BY <1>0, <2>1, <2>2 DEF IsJoined, IsShifted
  <2>4. c[n - 1] = s[1] \o b[k]
    BY <1>3, <2>1, <2>2
  <2>5. a[n] = c[n - 1] \o s[n]
    BY <1>0, <1>6, <2>1 DEF IsJoined
  <2>6. c[n] = s[1] \o b[n - 1]
    BY <1>3, <2>1
  <2>7. b[k] \in S /\ s[n] \in S /\ s[1] \in S
    BY <1>0, <1>1, <2>1 DEF IsJoined, AllIn
  <2>8. (s[1] \o b[k]) \o s[n] = s[1] \o (b[k] \o s[n])
    BY <1>0, <2>7, Zenon DEF IsClosed
  <2> QED BY <2>3, <2>4, <2>5, <2>6, <2>8
<1>7. Agree(N, a, c)
  <2>1. N \in Nat
    BY <1>0
  <2>2. AgreeStep(N, a, c)
    BY <1>5, <1>6 DEF AgreeStep
  <2> QED BY <2>1, <2>2, RunsAgree
<1> QED BY <1>0, <1>1, <1>3, <1>7 DEF Agree, IsConcat

\* FlattenSeq joins.
LEMMA FlattenJoins ==
  ASSUME NEW T, NEW s \in Seq(Seq(T)), NEW N \in Nat, N = Len(s), NEW S, S = Seq(T)
  PROVE  \E r : IsJoined(N, s, S, r) /\ FlattenSeq(s) = r[N]
<1>1. AllIn(N, s, S)
  BY DEF AllIn
<1>2. IsClosed(S)
  BY SeqIsClosed
<1>3. PICK r : IsJoined(N, s, S, r)
  BY <1>1, <1>2, JoinExists, Zenon
<1>4. CASE N = 0
  <2>1. s = <<>>
    BY <1>4, EmptySeq, Zenon
  <2>2. FlattenSeq(s) = <<>>
    BY <2>1 DEF FlattenSeq
  <2>3. r[N] = <<>>
    BY <1>3, <1>4, Zenon DEF IsJoined
  <2> QED BY <1>3, <2>2, <2>3
<1>5. CASE N # 0
  <2> DEFINE F(g) == [i \in 1 .. N |-> IF i = 1 THEN s[i] ELSE g[i - 1] \o s[i]]
  <2> DEFINE I == CHOOSE g : g = F(g)
  <2>1. FlattenSeq(s) = I[N]
    BY <1>5 DEF FlattenSeq
  <2>2. N \in Nat \ {0}
    BY <1>5
  <2>3. PICK f : f = [n \in 1 .. N |-> r[n]]
    OBVIOUS
  <2>4. Flattens(N, s, f)
    BY <1>1, <1>2, <1>3, <2>2, <2>3, JoinRecurs, Zenon
  <2>5. Flattens(N, s, I)
    BY <2>4 DEF Flattens
  <2> HIDE DEF I
  <2>6. I[N] = r[N]
    <3>1. PICK g : g = I
      OBVIOUS
    <3>2. Flattens(N, s, g)
      BY <2>5, <3>1
    <3> QED BY <1>1, <1>2, <1>3, <2>2, <3>1, <3>2, JoinUnique
  <2> QED BY <1>3, <2>1, <2>6
<1> QED BY <1>4, <1>5

\* Nothing is joined of nothing.
LEMMA FlattenEmpty == FlattenSeq(<<>>) = <<>>
BY DEF FlattenSeq

\* What is joined begins with the first of the sequences.
LEMMA FlattenFirst ==
  ASSUME NEW T, NEW s \in Seq(Seq(T)), s # <<>>
  PROVE  /\ IsConcat(FlattenSeq(s), s[1], FlattenSeq(Tail(s)))
         /\ FlattenSeq(Tail(s)) \in Seq(T)
<1>1. PICK N \in Nat \ {0} : N = Len(s)
  <2>1. Len(s) \in Nat /\ Len(s) # 0
    BY EmptySeq, LenProperties
  <2> QED BY <2>1
<1>2. PICK S : S = Seq(T)
  OBVIOUS
<1>3. PICK t \in Seq(Seq(T)) : t = Tail(s)
  BY HeadTailProperties
<1>4. PICK M \in Nat : M = N - 1
  BY Predecessor, Zenon
<1>5. M = Len(t)
  <2>1. Len(t) = Len(s) - 1
    BY <1>3, HeadTailProperties, Zenon
  <2> QED BY <1>1, <1>4, <2>1, Zenon
<1>a. N \in Nat
  BY Predecessor, Zenon
<1>6. IsShifted(N, s, t)
  BY <1>1, <1>3 DEF IsShifted
<1>7. AllIn(N, s, S)
  BY <1>1, <1>2 DEF AllIn
<1>8. IsClosed(S)
  BY <1>2, SeqIsClosed
<1>9. PICK a : IsJoined(N, s, S, a) /\ FlattenSeq(s) = a[N]
  BY <1>1, <1>2, <1>a, FlattenJoins, Zenon
<1>10. PICK b : IsJoined(M, t, S, b) /\ FlattenSeq(t) = b[M]
  BY <1>2, <1>5, FlattenJoins, Zenon
<1>11. IsConcat(a[N], s[1], b[M])
  <2>1. IsJoined(N, s, S, a) /\ IsJoined(M, t, S, b)
    BY <1>9, <1>10
  <2>2. N \in Nat \ {0} /\ M = N - 1
    BY <1>4, Zenon
  <2>3. BothJoined(N, s, S, a, M, t, b)
    BY <1>6, <1>7, <1>8, <2>1, <2>2, Zenon DEF BothJoined
  <2> QED BY <2>3, JoinFirst, Zenon
<1>12. b[M] \in S
  <2>1. M \in 0 .. M
    OBVIOUS
  <2> QED BY <1>10, <2>1, Zenon DEF IsJoined
<1> QED BY <1>2, <1>3, <1>9, <1>10, <1>11, <1>12

-----------------------------------------------------------------------------
(* What is left to be read of a message.                                   *)

\* The tokens of messages.
Values    == STRING \cup {"data"} \cup Seq(STRING) \cup Nat \cup BOOLEAN
Calls     == {"StartArray", "EndArray", "StartObject", "EndObject", "Key",
              "String", "Number", "Bool", "Other"}
AnyToken  == [call : Calls, value : Values]

\* The next token is this one, and after it comes next.
Reads(tokens, token, next) == tokens # <<>> /\ Head(tokens) = token /\ Tail(tokens) = next

\* One element makes a sequence.
LEMMA Singleton == \A T : \A t \in T : <<t>> \in Seq(T)
OBVIOUS

\* Of three sequences, the first is taken off.
LEMMA Joint ==
  ASSUME NEW T, NEW x \in Seq(T), NEW y \in Seq(T), NEW z \in Seq(T), NEW xyz, NEW yz,
         IsConcat(xyz, x \o y, z), IsConcat(yz, y, z)
  PROVE  IsConcat(xyz, x, yz)
<1>1. xyz = (x \o y) \o z /\ yz = y \o z
  BY DEF IsConcat
<1>2. IsClosed(Seq(T))
  BY SeqIsClosed, Zenon
<1>3. (x \o y) \o z = x \o (y \o z)
  BY <1>2, Zenon DEF IsClosed
<1>4. xyz = x \o (y \o z)
  BY <1>1, <1>3, Zenon
<1>5. x \o (y \o z) = x \o yz
  BY <1>1, Zenon
<1> QED BY <1>4, <1>5, Zenon DEF IsConcat

\* The token is one to read, and what is behind it can be read.
LEMMA ReadsOne ==
  ASSUME NEW T, NEW token \in T, NEW others \in Seq(T)
  PROVE  Reads(<<token>> \o others, token, others)
<1>1. <<token>> \in Seq(T)
  OBVIOUS
<1>2. PICK s \in Seq(T) : s = <<token>> \o others
  BY <1>1, ConcatProperties
<1>3. Len(s) = 1 + Len(others)
  BY <1>2
<1>4. s # <<>>
  BY <1>3
<1>5. Head(s) = token
  BY <1>2
<1>6. Tail(s) = others
  BY <1>2, <1>3
<1> QED BY <1>2, <1>4, <1>5, <1>6, Zenon DEF Reads

\* Joined sequences are a sequence.
LEMMA FlattenIsSeq ==
  ASSUME NEW T, NEW s \in Seq(Seq(T))
  PROVE  FlattenSeq(s) \in Seq(T)
<1>1. CASE s = <<>>
  <2>1. FlattenSeq(s) = <<>>
    BY <1>1, FlattenEmpty
  <2> QED BY <2>1
<1>2. CASE s # <<>>
  <2>1. PICK N \in Nat : N = Len(s)
    OBVIOUS
  <2>2. PICK S : S = Seq(T)
    OBVIOUS
  <2>3. PICK r : IsJoined(N, s, S, r) /\ FlattenSeq(s) = r[N]
    BY <2>1, <2>2, FlattenJoins, Zenon
  <2>4. N \in 0 .. N
    OBVIOUS
  <2> QED BY <2>2, <2>3, <2>4, Zenon DEF IsJoined
<1> QED BY <1>1, <1>2

\* The tokens of the parts from the i-th on, the token at their end, and what comes
\* behind it.
RestOf(parts, i, end, behind) ==
  FlattenSeq([l \in 1 .. Len(parts) - i |-> parts[i + l]]) \o (<<end>> \o behind)

\* It is a sequence.
LEMMA RestIsSeq ==
  ASSUME NEW T, NEW parts \in Seq(Seq(T)), NEW i \in 0 .. Len(parts), NEW end \in T,
         NEW behind \in Seq(T)
  PROVE  RestOf(parts, i, end, behind) \in Seq(T)
<1>1. PICK s : s = [l \in 1 .. Len(parts) - i |-> parts[i + l]]
  OBVIOUS
<1>2. s \in Seq(Seq(T))
  BY <1>1
<1>3. FlattenSeq(s) \in Seq(T)
  BY <1>2, FlattenIsSeq, Zenon
<1>4. <<end>> \o behind \in Seq(T)
  BY Singleton, ConcatProperties, Zenon
<1> QED BY <1>1, <1>3, <1>4, ConcatProperties, Zenon DEF RestOf

\* At the end of the parts comes the token at their end.
LEMMA RestEnds ==
  ASSUME NEW T, NEW parts \in Seq(Seq(T)), NEW i, i = Len(parts), NEW end \in T,
         NEW behind \in Seq(T)
  PROVE  Reads(RestOf(parts, i, end, behind), end, behind)
<1>1. [l \in 1 .. Len(parts) - i |-> parts[i + l]] = <<>>
  OBVIOUS
<1>2. PICK s \in Seq(T) : s = <<end>> \o behind
  BY Singleton, ConcatProperties, Zenon
<1>3. RestOf(parts, i, end, behind) = <<>> \o s
  BY <1>1, <1>2, FlattenEmpty, Zenon DEF RestOf
<1>4. <<>> \o s = s
  BY ConcatEmptySeq, Zenon
<1> QED BY <1>2, <1>3, <1>4, ReadsOne, Zenon

\* Before it they come one by one.
LEMMA RestNext ==
  ASSUME NEW T, NEW parts \in Seq(Seq(T)), NEW i \in 0 .. Len(parts) - 1, NEW end \in T,
         NEW behind \in Seq(T)
  PROVE  IsConcat(RestOf(parts, i, end, behind), parts[i + 1], RestOf(parts, i + 1, end, behind))
<1> DEFINE s == [l \in 1 .. Len(parts) - i |-> parts[i + l]]
<1> DEFINE u == [l \in 1 .. Len(parts) - (i + 1) |-> parts[i + 1 + l]]
<1>1. s \in Seq(Seq(T)) /\ u \in Seq(Seq(T))
  OBVIOUS
<1>2. Len(s) = Len(parts) - i /\ Len(u) = Len(parts) - (i + 1)
  <2>1. Len(parts) \in Nat
    OBVIOUS
  <2>2. Len(parts) - i \in Nat /\ Len(parts) - (i + 1) \in Nat
    BY <2>1
  <2> QED BY <2>2
<1>3. s # <<>>
  <2>1. Len(s) \in Nat \ {0}
    BY <1>2
  <2> HIDE DEF s
  <2> QED BY <2>1, EmptySeq
<1>4. Tail(s) = u
  <2>1. Tail(s) \in Seq(Seq(T)) /\ Len(Tail(s)) = Len(s) - 1
    BY <1>1, <1>3, HeadTailProperties
  <2>2. Len(Tail(s)) = Len(u)
    BY <1>2, <2>1
  <2>3. ASSUME NEW k \in 1 .. Len(u) PROVE Tail(s)[k] = u[k]
    <3>1. Tail(s)[k] = s[k + 1]
      BY <1>1, <1>3, <2>2, <2>3, HeadTailProperties
    <3>2. s[k + 1] = parts[i + (k + 1)] /\ u[k] = parts[i + 1 + k] /\ i + (k + 1) = i + 1 + k
      BY <1>2, <2>3
    <3> QED BY <3>1, <3>2
  <2> HIDE DEF s, u
  <2> QED BY <1>1, <2>1, <2>2, <2>3, SeqEqual
<1>5. s[1] = parts[i + 1]
  BY <1>2
<1> HIDE DEF s, u
<1>6. IsConcat(FlattenSeq(s), s[1], FlattenSeq(Tail(s))) /\ FlattenSeq(Tail(s)) \in Seq(T)
  BY <1>1, <1>3, FlattenFirst, Zenon
<1>7. PICK e \in Seq(T) : e = <<end>> \o behind
  BY Singleton, ConcatProperties, Zenon
<1>8. RestOf(parts, i, end, behind) = FlattenSeq(s) \o e
  BY <1>7, Zenon DEF RestOf, s
<1>9. RestOf(parts, i + 1, end, behind) = FlattenSeq(u) \o e
  BY <1>7, Zenon DEF RestOf, u
<1>10. IsConcat(FlattenSeq(s), s[1], FlattenSeq(u)) /\ FlattenSeq(u) \in Seq(T)
  BY <1>4, <1>6, Zenon
<1>11. s[1] \in Seq(T)
  BY <1>1, <1>3
<1>12. IsConcat(RestOf(parts, i, end, behind), s[1] \o FlattenSeq(u), e)
  BY <1>8, <1>10, Zenon DEF IsConcat
<1>13. IsConcat(RestOf(parts, i + 1, end, behind), FlattenSeq(u), e)
  BY <1>9, Zenon DEF IsConcat
<1>14. IsConcat(RestOf(parts, i, end, behind), s[1], RestOf(parts, i + 1, end, behind))
  <2>1. PICK x : x = s[1]
    OBVIOUS
  <2>2. PICK f : f = FlattenSeq(u)
    OBVIOUS
  <2>3. PICK v : v = RestOf(parts, i, end, behind)
    OBVIOUS
  <2>4. PICK w : w = RestOf(parts, i + 1, end, behind)
    OBVIOUS
  <2>5. x \in Seq(T) /\ f \in Seq(T) /\ e \in Seq(T)
    BY <1>10, <1>11, <2>1, <2>2
  <2>6. IsConcat(v, x \o f, e)
    BY <1>12, <2>1, <2>2, <2>3, Zenon
  <2>7. IsConcat(w, f, e)
    BY <1>13, <2>2, <2>4, Zenon
  <2>8. IsConcat(v, x, w)
    BY <2>5, <2>6, <2>7, Joint, Zenon
  <2> QED BY <2>1, <2>3, <2>4, <2>8, Zenon
<1> QED BY <1>5, <1>14, Zenon

\* Of what begins with a part the tokens of the part come first.
LEMMA ReadsPart ==
  ASSUME NEW T, NEW whole, NEW token \in T, NEW more \in Seq(T), NEW others \in Seq(T),
         IsConcat(whole, <<token>> \o more, others)
  PROVE  Reads(whole, token, more \o others)
<1>1. <<token>> \in Seq(T)
  OBVIOUS
<1>2. PICK w : IsConcat(w, more, others)
  BY Zenon DEF IsConcat
<1>3. IsConcat(whole, <<token>>, w)
  BY <1>1, <1>2, Joint, Zenon
<1>4. w \in Seq(T)
  BY <1>2, ConcatProperties, Zenon DEF IsConcat
<1>5. Reads(<<token>> \o w, token, w)
  BY <1>4, ReadsOne, Zenon
<1>6. Reads(whole, token, w) 
  BY <1>3, <1>5, Zenon DEF IsConcat
<1> QED BY <1>2, <1>6, Zenon DEF IsConcat

-----------------------------------------------------------------------------
(* The tokens of fields, values and rows, and the order in which they are read. *)

\* The tokens.
KeyToken(field)   == Token("Key", field.key)
StringToken(text) == Token("String", text)
StartArrayToken   == Token("StartArray", 0)
EndArrayToken     == Token("EndArray", 0)
StartObjectToken  == Token("StartObject", 0)
EndObjectToken    == Token("EndObject", 0)

\* They are tokens.
LEMMA TokenTypes ==
  /\ StartArrayToken \in AnyToken /\ EndArrayToken \in AnyToken
  /\ StartObjectToken \in AnyToken /\ EndObjectToken \in AnyToken
  /\ \A text \in Seq(STRING) : StringToken(text) \in AnyToken
<1>1. 0 \in Values /\ \A text \in Seq(STRING) : text \in Values
  BY DEF Values
<1>2. \A c \in Calls : \A value \in Values : Token(c, value) \in AnyToken
  BY DEF Token, AnyToken
<1>3. {"StartArray", "EndArray", "StartObject", "EndObject", "String"} \subseteq Calls
  BY DEF Calls
<1> QED BY <1>1, <1>2, <1>3, Zenon DEF StartArrayToken, EndArrayToken, StartObjectToken,
                                       EndObjectToken, StringToken

\* The tokens of each field of an object, and of each row of a side.
PartsOf(fields)   == [i \in DOMAIN fields |-> <<KeyToken(fields[i])>> \o TokensOfValue(fields[i])]
RowParts(rows)    == [i \in DOMAIN rows |-> TokensOfRow(rows[i])]
RowTokens(row)    == [i \in DOMAIN row |-> StringToken(row[i])]

\* What is left of an object after i of its fields, of an array of rows after j of them, and
\* of a row after k of its strings, with what comes behind it.
RestOfFields(fields, i, behind) == RestOf(PartsOf(fields), i, EndObjectToken, behind)
RestOfRows(rows, j, behind)     == RestOf(RowParts(rows), j, EndArrayToken, behind)
RestOfRow(row, k, behind) ==
  [l \in 1 .. Len(row) - k |-> StringToken(row[k + l])] \o (<<EndArrayToken>> \o behind)

\* Four sequences, joined from either end.
IsReassociated(a, b, c, d) == ((a \o b) \o c) \o d = a \o (b \o (c \o d))

\* They are the same.
LEMMA Reassociated ==
  ASSUME NEW S, IsClosed(S), NEW a \in S, NEW b \in S, NEW c \in S, NEW d \in S
  PROVE  IsReassociated(a, b, c, d)
<1>1. \A x, y, z \in S : (x \o y) \o z = x \o (y \o z)
  BY Zenon DEF IsClosed
<1>2. PICK ab \in S : ab = a \o b
  BY Zenon DEF IsClosed
<1>3. PICK cd \in S : cd = c \o d
  BY Zenon DEF IsClosed
<1>4. (ab \o c) \o d = ab \o (c \o d)
  BY <1>1
<1>5. (a \o b) \o cd = a \o (b \o cd)
  BY <1>1
<1> QED BY <1>2, <1>3, <1>4, <1>5 DEF IsReassociated

\* A sequence between two tokens.
LEMMA Framed ==
  ASSUME NEW T, NEW start \in T, NEW middle \in Seq(T), NEW end \in T, NEW behind \in Seq(T)
  PROVE  Reads((<<start>> \o middle \o <<end>>) \o behind, start, middle \o (<<end>> \o behind))
<1>1. IsClosed(Seq(T))
  BY SeqIsClosed, Zenon
<1>2. <<start>> \in Seq(T) /\ <<end>> \in Seq(T)
  BY Singleton, Zenon
<1>3. PICK s \in Seq(T) : s = <<start>>
  BY <1>2, Zenon
<1>4. PICK e \in Seq(T) : e = <<end>>
  BY <1>2, Zenon
<1>5. PICK b \in Seq(T) : b = e \o behind
  BY <1>1, Zenon DEF IsClosed
<1>6. IsReassociated(s, middle, e, behind)
  BY <1>1, Reassociated, Zenon
<1>7. middle \o b \in Seq(T)
  BY <1>1, Zenon DEF IsClosed
<1>8. Reads(<<start>> \o (middle \o b), start, middle \o b)
  BY <1>7, ReadsOne, Zenon
<1>9. ((s \o middle) \o e) \o behind = <<start>> \o (middle \o b)
  BY <1>3, <1>5, <1>6 DEF IsReassociated
<1> QED BY <1>3, <1>4, <1>5, <1>8, <1>9, Zenon

\* The tokens of a sequence of parts between two tokens begin with the first of them.
LEMMA FramedParts ==
  ASSUME NEW T, NEW start \in T, NEW parts \in Seq(Seq(T)), NEW end \in T, NEW behind \in Seq(T)
  PROVE  Reads((<<start>> \o FlattenSeq(parts) \o <<end>>) \o behind, start,
               RestOf(parts, 0, end, behind))
<1>1. [l \in 1 .. Len(parts) - 0 |-> parts[0 + l]] = parts
  OBVIOUS
<1>2. FlattenSeq(parts) \in Seq(T)
  BY FlattenIsSeq, Zenon
<1>3. RestOf(parts, 0, end, behind) = FlattenSeq(parts) \o (<<end>> \o behind)
  BY <1>1, Zenon DEF RestOf
<1> QED BY <1>2, <1>3, Framed, Zenon

\* A key, and after it the value.
LEMMA KeyThen ==
  ASSUME NEW T, NEW parts \in Seq(Seq(T)), NEW i \in 0 .. Len(parts) - 1, NEW end \in T,
         NEW behind \in Seq(T), NEW token \in T, NEW value \in Seq(T),
         IsConcat(parts[i + 1], <<token>>, value)
  PROVE  Reads(RestOf(parts, i, end, behind), token, value \o RestOf(parts, i + 1, end, behind))
<1>1. IsConcat(RestOf(parts, i, end, behind), parts[i + 1], RestOf(parts, i + 1, end, behind))
  BY RestNext, Zenon
<1>2. i + 1 \in 0 .. Len(parts)
  <2>1. Len(parts) \in Nat
    OBVIOUS
  <2> QED BY <2>1
<1>3. RestOf(parts, i + 1, end, behind) \in Seq(T)
  BY <1>2, RestIsSeq, Zenon
<1>4. IsConcat(RestOf(parts, i, end, behind), <<token>> \o value, RestOf(parts, i + 1, end, behind))
  BY <1>1, Zenon DEF IsConcat
<1> QED BY <1>3, <1>4, ReadsPart, Zenon

\* The tokens of a row, one string after the other, and its end.
LEMMA RowIsRead ==
  ASSUME NEW row \in Seq(Seq(STRING)), NEW behind \in Seq(AnyToken), NEW k \in 0 .. Len(row)
  PROVE  /\ RestOfRow(row, k, behind) \in Seq(AnyToken)
         /\ k < Len(row) =>
              Reads(RestOfRow(row, k, behind), StringToken(row[k + 1]),
                    RestOfRow(row, k + 1, behind))
         /\ k = Len(row) => Reads(RestOfRow(row, k, behind), EndArrayToken, behind)
<1> DEFINE s == [l \in 1 .. Len(row) - k |-> StringToken(row[k + l])]
<1> DEFINE u == [l \in 1 .. Len(row) - (k + 1) |-> StringToken(row[k + 1 + l])]
<1>1. PICK L \in Nat : L = Len(row)
  OBVIOUS
<1>2. \A l \in 1 .. L : StringToken(row[l]) \in AnyToken
  BY <1>1, TokenTypes
<1>3. s \in Seq(AnyToken) /\ Len(s) = L - k
  <2>1. L - k \in Nat /\ \A l \in 1 .. L - k : k + l \in 1 .. L
    BY <1>1
  <2> QED BY <1>1, <1>2, <2>1
<1>4. EndArrayToken \in AnyToken
  BY TokenTypes
<1>5. PICK e \in Seq(AnyToken) : e = <<EndArrayToken>> \o behind
  BY <1>4, Singleton, ConcatProperties, Zenon
<1>6. RestOfRow(row, k, behind) = s \o e
  BY <1>5, Zenon DEF RestOfRow
<1> HIDE DEF s
<1>7. RestOfRow(row, k, behind) \in Seq(AnyToken)
  BY <1>3, <1>6, ConcatProperties, Zenon
<1>8. ASSUME k < Len(row)
      PROVE Reads(RestOfRow(row, k, behind), StringToken(row[k + 1]), RestOfRow(row, k + 1, behind))
  <2>1. L - (k + 1) \in Nat /\ L - k = 1 + (L - (k + 1))
    BY <1>1, <1>8
  <2>2. u \in Seq(AnyToken) /\ Len(u) = L - (k + 1)
    <3>1. \A l \in 1 .. L - (k + 1) : k + 1 + l \in 1 .. L
      BY <1>1, <2>1
    <3> QED BY <1>1, <1>2, <2>1, <3>1
  <2>3. RestOfRow(row, k + 1, behind) = u \o e
    BY <1>5, Zenon DEF RestOfRow
  <2>4. StringToken(row[k + 1]) \in AnyToken
    BY <1>1, <1>2, <1>8
  <2>5. PICK t \in AnyToken : t = StringToken(row[k + 1])
    BY <2>4
  <2>6. \A l \in 1 .. L - k : s[l] = StringToken(row[k + l])
    BY <1>1 DEF s
  <2>7. \A l \in 1 .. L - (k + 1) : u[l] = StringToken(row[k + 1 + l])
    BY <1>1
  <2> HIDE DEF u
  <2>8. s = <<t>> \o u
    <3>1. <<t>> \in Seq(AnyToken) /\ Len(<<t>>) = 1
      OBVIOUS
    <3>2. PICK w \in Seq(AnyToken) : w = <<t>> \o u
      BY <2>2, <3>1, ConcatProperties, Zenon
    <3>3. Len(w) = 1 + Len(u) /\ \A l \in 1 .. 1 + Len(u) : w[l] = IF l <= 1 THEN t ELSE u[l - 1]
      BY <2>2, <3>2
    <3>4. Len(w) = Len(s)
      BY <1>3, <2>1, <2>2, <3>3
    <3>5. ASSUME NEW l \in 1 .. Len(s) PROVE s[l] = w[l]
      <4>1. l \in 1 .. L - k
        BY <1>3
      <4>2. CASE l = 1
        BY <2>5, <2>6, <3>3, <3>4, <4>1, <4>2
      <4>3. CASE l # 1
        <5>1. l - 1 \in 1 .. L - (k + 1) /\ ~(l <= 1) /\ k + 1 + (l - 1) = k + l
          BY <1>1, <4>1, <4>3
        <5>2. w[l] = u[l - 1]
          BY <3>3, <3>4, <5>1
        <5>3. u[l - 1] = StringToken(row[k + l])
          BY <2>7, <5>1
        <5> QED BY <2>6, <4>1, <5>2, <5>3
      <4> QED BY <4>2, <4>3
    <3> QED BY <1>3, <3>2, <3>4, <3>5, SeqEqual
  <2>9. Reads(RestOfRow(row, k, behind), t, u \o e)
    <3>1. IsConcat(RestOfRow(row, k, behind), <<t>> \o u, e)
      BY <1>6, <2>8, Zenon DEF IsConcat
    <3>2. PICK r : r = RestOfRow(row, k, behind)
      OBVIOUS
    <3>3. IsConcat(r, <<t>> \o u, e)
      BY <3>1, <3>2, Zenon
    <3>4. Reads(r, t, u \o e)
      BY <2>2, <3>3, ReadsPart, Zenon
    <3> QED BY <3>2, <3>4, Zenon
  <2> QED BY <2>3, <2>5, <2>9, Zenon
<1>9. ASSUME k = Len(row) PROVE Reads(RestOfRow(row, k, behind), EndArrayToken, behind)
  <2>1. Len(s) = 0
    BY <1>1, <1>3, <1>9
  <2>2. s = <<>>
    BY <1>3, <2>1, EmptySeq
  <2>3. s \o e = e
    BY <2>2, ConcatEmptySeq, Zenon
  <2> QED BY <1>4, <1>5, <1>6, <2>3, ReadsOne, Zenon
<1> QED BY <1>7, <1>8, <1>9

\* The tokens of a row begin with its first string.
LEMMA RowBegins ==
  ASSUME NEW row \in Seq(Seq(STRING)), NEW behind \in Seq(AnyToken)
  PROVE  /\ TokensOfRow(row) \in Seq(AnyToken)
         /\ Reads(TokensOfRow(row) \o behind, StartArrayToken, RestOfRow(row, 0, behind))
<1> DEFINE s == [i \in DOMAIN row |-> Token("String", row[i])]
<1>1. s \in Seq(AnyToken)
  <2>1. PICK L \in Nat : L = Len(row) /\ DOMAIN row = 1 .. L
    OBVIOUS
  <2>2. \A i \in 1 .. L : Token("String", row[i]) \in AnyToken
    BY <2>1, TokenTypes DEF StringToken
  <2> QED BY <2>1, <2>2
<1>2. [l \in 1 .. Len(row) - 0 |-> StringToken(row[0 + l])] = s
  BY DEF StringToken
<1>3. TokensOfRow(row) = <<StartArrayToken>> \o s \o <<EndArrayToken>>
  BY Zenon DEF TokensOfRow, StartArrayToken, EndArrayToken
<1> HIDE DEF s
<1>4. RestOfRow(row, 0, behind) = s \o (<<EndArrayToken>> \o behind)
  BY <1>2, Zenon DEF RestOfRow
<1>5. Reads(TokensOfRow(row) \o behind, StartArrayToken, RestOfRow(row, 0, behind))
  BY <1>1, <1>3, <1>4, TokenTypes, Framed, Zenon
<1>6. TokensOfRow(row) \in Seq(AnyToken)
  <2>1. <<StartArrayToken>> \in Seq(AnyToken) /\ <<EndArrayToken>> \in Seq(AnyToken)
    BY TokenTypes, Singleton, Zenon
  <2>2. <<StartArrayToken>> \o s \in Seq(AnyToken)
    BY <1>1, <2>1, ConcatProperties, Zenon
  <2> QED BY <1>3, <2>1, <2>2, ConcatProperties, Zenon
<1> QED BY <1>5, <1>6

\* The tokens of rows are sequences of tokens.
LEMMA RowPartsType ==
  ASSUME NEW rows \in Seq(Rows)
  PROVE  RowParts(rows) \in Seq(Seq(AnyToken)) /\ Len(RowParts(rows)) = Len(rows)
<1>1. PICK L \in Nat : L = Len(rows) /\ DOMAIN rows = 1 .. L /\ rows \in [1 .. L -> Rows]
  OBVIOUS
<1>2. \A row \in Rows : row \in Seq(Seq(STRING))
  BY DEF Rows
<1>3. \A row \in Rows : TokensOfRow(row) \in Seq(AnyToken)
  <2>1. <<>> \in Seq(AnyToken)
    OBVIOUS
  <2> QED BY <1>2, <2>1, RowBegins
<1>4. \A i \in 1 .. L : TokensOfRow(rows[i]) \in Seq(AnyToken)
  BY <1>1, <1>3
<1>5. RowParts(rows) \in [1 .. L -> Seq(AnyToken)]
  BY <1>1, <1>4, Zenon DEF RowParts
<1>6. PICK S : S = Seq(AnyToken)
  OBVIOUS
<1>7. RowParts(rows) \in [1 .. L -> S]
  BY <1>5, <1>6
<1>8. PICK p : p = RowParts(rows)
  OBVIOUS
<1>9. p \in Seq(S) /\ Len(p) = L
  BY <1>7, <1>8
<1> QED BY <1>1, <1>6, <1>8, <1>9

\* The tokens of rows, one row after the other, and their end.
LEMMA RowsAreRead ==
  ASSUME NEW rows \in Seq(Rows), NEW behind \in Seq(AnyToken), NEW j \in 0 .. Len(rows)
  PROVE  /\ RestOfRows(rows, j, behind) \in Seq(AnyToken)
         /\ j < Len(rows) =>
              Reads(RestOfRows(rows, j, behind), StartArrayToken,
                    RestOfRow(rows[j + 1], 0, RestOfRows(rows, j + 1, behind)))
         /\ j = Len(rows) => Reads(RestOfRows(rows, j, behind), EndArrayToken, behind)
<1>1. RowParts(rows) \in Seq(Seq(AnyToken)) /\ Len(RowParts(rows)) = Len(rows)
  BY RowPartsType
<1>2. EndArrayToken \in AnyToken
  BY TokenTypes
<1>3. \A l \in 0 .. Len(rows) : RestOfRows(rows, l, behind) \in Seq(AnyToken)
  BY <1>1, <1>2, RestIsSeq, Zenon DEF RestOfRows
<1>4. ASSUME j < Len(rows)
      PROVE  Reads(RestOfRows(rows, j, behind), StartArrayToken,
                   RestOfRow(rows[j + 1], 0, RestOfRows(rows, j + 1, behind)))
  <2>1. PICK L \in Nat : L = Len(rows) /\ DOMAIN rows = 1 .. L /\ rows \in [1 .. L -> Rows]
    OBVIOUS
  <2>2. j + 1 \in 1 .. L /\ j \in 0 .. L - 1 /\ j + 1 \in 0 .. L
    BY <1>4, <2>1
  <2>3. PICK row \in Seq(Seq(STRING)) : row = rows[j + 1]
    BY <2>1, <2>2 DEF Rows
  <2>4. PICK more \in Seq(AnyToken) : more = RestOfRows(rows, j + 1, behind)
    BY <1>3, <2>1, <2>2
  <2>5. RowParts(rows)[j + 1] = TokensOfRow(row)
    BY <2>1, <2>2, <2>3 DEF RowParts
  <2>6. IsConcat(RestOfRows(rows, j, behind), RowParts(rows)[j + 1], more)
    <3>1. j \in 0 .. Len(RowParts(rows)) - 1
      BY <1>1, <2>1, <2>2, Zenon
    <3> QED BY <1>1, <1>2, <2>4, <3>1, RestNext, Zenon DEF RestOfRows
  <2>7. IsConcat(RestOfRows(rows, j, behind), TokensOfRow(row), more)
    BY <2>5, <2>6, Zenon
  <2>8. Reads(TokensOfRow(row) \o more, StartArrayToken, RestOfRow(row, 0, more))
    BY RowBegins, Zenon
  <2>9. Reads(RestOfRows(rows, j, behind), StartArrayToken, RestOfRow(row, 0, more))
    BY <2>7, <2>8, Zenon DEF IsConcat
  <2> QED BY <2>3, <2>4, <2>9, Zenon
<1>5. ASSUME j = Len(rows) PROVE Reads(RestOfRows(rows, j, behind), EndArrayToken, behind)
  <2>1. j = Len(RowParts(rows))
    BY <1>1, <1>5, Zenon
  <2> QED BY <1>1, <1>2, <2>1, RestEnds, Zenon DEF RestOfRows
<1>6. RestOfRows(rows, j, behind) \in Seq(AnyToken)
  BY <1>3, Zenon
<1> QED BY <1>4, <1>5, <1>6, Zenon

\* The types whose values are one token.
Plain == {"String", "Number", "Bool", "Other"}

\* Three arrays begin.
ReadsDeep(tokens) ==
  \E b1, b2, b3 \in Seq(AnyToken) :
    /\ Reads(tokens, StartArrayToken, b1) /\ Reads(b1, StartArrayToken, b2)
    /\ Reads(b2, StartArrayToken, b3)

\* What the types of fields have as values.
LEMMA FieldTypes ==
  ASSUME NEW field \in Fields
  PROVE  /\ field.type \in Plain \cup {"rows", "nested", "deep"}
         /\ field.key \in STRING
         /\ field.type # "rows" => field.value \in Values
         /\ field.type = "String" => field.value \in Seq(STRING)
         /\ field.type = "Number" => field.value \in Nat
         /\ field.type = "rows" => field.value \in Seq(Rows)
         /\ KeyToken(field) \in AnyToken
<1>1. CASE field \in [key : STRING, type : {"String"}, value : Seq(STRING)]
  BY <1>1 DEF Plain, Values, KeyToken, Token, AnyToken, Calls
<1>2. CASE field \in [key : STRING, type : {"Number", "Other", "nested", "deep"}, value : Nat]
  BY <1>2 DEF Plain, Values, KeyToken, Token, AnyToken, Calls
<1>3. CASE field \in [key : STRING, type : {"Bool"}, value : BOOLEAN]
  BY <1>3 DEF Plain, Values, KeyToken, Token, AnyToken, Calls
<1>4. CASE field \in [key : STRING, type : {"rows"}, value : Seq(Rows)]
  BY <1>4 DEF Plain, Values, KeyToken, Token, AnyToken, Calls
<1> QED BY <1>1, <1>2, <1>3, <1>4, Zenon DEF Fields

\* What is behind the first of several tokens.
IsFirst(w, s, n) == Len(w) > n /\ w[1] = s
ReadsFrom(T, w, s, n) ==
  \E b \in Seq(T) : Reads(w, s, b) /\ Len(b) = Len(w) - 1 /\ \A i \in 1 .. n : b[i] = w[i + 1]

\* They are there.
LEMMA ReadsFirst ==
  ASSUME NEW T, NEW w \in Seq(T), NEW s, NEW n \in Nat, IsFirst(w, s, n)
  PROVE  ReadsFrom(T, w, s, n)
<1>1. w # <<>> /\ Len(w) \in Nat /\ Len(w) > n /\ w[1] = s
  BY DEF IsFirst
<1>2. Head(w) = s
  BY <1>1
<1>3. Tail(w) \in Seq(T) /\ Len(Tail(w)) = Len(w) - 1
  BY <1>1, HeadTailProperties
<1>4. \A i \in 1 .. n : Tail(w)[i] = w[i + 1]
  BY <1>1, <1>3, HeadTailProperties
<1> QED BY <1>1, <1>2, <1>3, <1>4, Zenon DEF Reads, ReadsFrom

\* A token, and another one behind it.
LEMMA OneThen ==
  ASSUME NEW T, NEW s \in T, NEW e \in T, NEW behind \in Seq(T), NEW v, v = <<s, e>>
  PROVE  v \in Seq(T) /\ \E b \in Seq(T) : Reads(v \o behind, s, b)
<1>1. v \in Seq(T) /\ Len(v) = 2 /\ v[1] = s
  OBVIOUS
<1>2. PICK w \in Seq(T) : w = v \o behind
  BY <1>1, ConcatProperties, Zenon
<1>3. Len(w) = 2 + Len(behind) /\ w[1] = s
  BY <1>1, <1>2, ConcatProperties
<1>4. 0 \in Nat /\ IsFirst(w, s, 0)
  BY <1>3 DEF IsFirst
<1>5. ReadsFrom(T, w, s, 0)
  BY <1>4, ReadsFirst, Zenon
<1> QED BY <1>1, <1>2, <1>5, Zenon DEF ReadsFrom

\* Three tokens, and three others behind them.
LEMMA ThreeThen ==
  ASSUME NEW T, NEW s \in T, NEW e \in T, NEW behind \in Seq(T), NEW v, v = <<s, s, s, e, e, e>>
  PROVE  /\ v \in Seq(T)
         /\ \E b1, b2, b3 \in Seq(T) :
              Reads(v \o behind, s, b1) /\ Reads(b1, s, b2) /\ Reads(b2, s, b3)
<1>1. v \in Seq(T) /\ Len(v) = 6 /\ v[1] = s /\ v[2] = s /\ v[3] = s
  OBVIOUS
<1>2. PICK w \in Seq(T) : w = v \o behind
  BY <1>1, ConcatProperties, Zenon
<1>3. Len(w) = 6 + Len(behind) /\ w[1] = s /\ w[2] = s /\ w[3] = s
  BY <1>1, <1>2, ConcatProperties
<1>4. PICK n \in Nat : n = 2
  OBVIOUS
<1>5. PICK m \in Nat : m = 1
  OBVIOUS
<1>6. PICK b1 \in Seq(T) : /\ Reads(w, s, b1) /\ Len(b1) = Len(w) - 1
                           /\ \A i \in 1 .. n : b1[i] = w[i + 1]
  <2>1. IsFirst(w, s, n)
    BY <1>3, <1>4 DEF IsFirst
  <2>2. ReadsFrom(T, w, s, n)
    BY <2>1, ReadsFirst, Zenon
  <2> QED BY <2>2, Zenon DEF ReadsFrom
<1>7. Len(b1) > 1 /\ b1[1] = s /\ b1[2] = s
  BY <1>3, <1>4, <1>6
<1>8. PICK b2 \in Seq(T) : /\ Reads(b1, s, b2) /\ Len(b2) = Len(b1) - 1
                           /\ \A i \in 1 .. m : b2[i] = b1[i + 1]
  <2>1. IsFirst(b1, s, m)
    BY <1>5, <1>7 DEF IsFirst
  <2>2. ReadsFrom(T, b1, s, m)
    BY <2>1, ReadsFirst, Zenon
  <2> QED BY <2>2, Zenon DEF ReadsFrom
<1>9. 0 \in Nat /\ IsFirst(b2, s, 0)
  BY <1>5, <1>7, <1>8 DEF IsFirst
<1>10. PICK b3 \in Seq(T) : Reads(b2, s, b3)
  <2>1. ReadsFrom(T, b2, s, 0)
    BY <1>9, ReadsFirst, Zenon
  <2> QED BY <2>1, Zenon DEF ReadsFrom
<1> QED BY <1>1, <1>2, <1>6, <1>8, <1>10, Zenon

\* The tokens of a value, by its type.
LEMMA ValueIsRead ==
  ASSUME NEW field \in Fields, NEW behind \in Seq(AnyToken)
  PROVE  /\ TokensOfValue(field) \in Seq(AnyToken)
         /\ field.type \in Plain =>
              Reads(TokensOfValue(field) \o behind, Token(field.type, field.value), behind)
         /\ field.type = "nested" =>
              \E b \in Seq(AnyToken) : Reads(TokensOfValue(field) \o behind, StartObjectToken, b)
         /\ field.type = "deep" => ReadsDeep(TokensOfValue(field) \o behind)
         /\ field.type = "rows" =>
              Reads(TokensOfValue(field) \o behind, StartArrayToken,
                    RestOfRows(field.value, 0, behind))
<1>0. /\ StartArrayToken \in AnyToken /\ EndArrayToken \in AnyToken
      /\ StartObjectToken \in AnyToken /\ EndObjectToken \in AnyToken
  BY TokenTypes, Zenon
<1>1. ASSUME field.type \in Plain
      PROVE  /\ TokensOfValue(field) \in Seq(AnyToken)
             /\ Reads(TokensOfValue(field) \o behind, Token(field.type, field.value), behind)
  <2>1. PICK t \in AnyToken : t = Token(field.type, field.value)
    <3>1. field.value \in Values
      <4>1. field.type # "rows"
        BY <1>1 DEF Plain
      <4> QED BY <4>1, FieldTypes, Zenon
    <3> QED BY <1>1, <3>1 DEF Plain, Calls, Token, AnyToken
  <2>2. TokensOfValue(field) = <<t>>
    BY <1>1, <2>1 DEF TokensOfValue, Plain
  <2>3. Reads(<<t>> \o behind, t, behind)
    BY ReadsOne, Zenon
  <2>4. <<t>> \in Seq(AnyToken)
    BY Singleton, Zenon
  <2> QED BY <2>1, <2>2, <2>3, <2>4, Zenon
<1>2. ASSUME field.type = "nested"
      PROVE  /\ TokensOfValue(field) \in Seq(AnyToken)
             /\ \E b \in Seq(AnyToken) : Reads(TokensOfValue(field) \o behind, StartObjectToken, b)
  <2>1. TokensOfValue(field) = <<StartObjectToken, EndObjectToken>>
    BY <1>2 DEF TokensOfValue, StartObjectToken, EndObjectToken
  <2>2. PICK v : v = <<StartObjectToken, EndObjectToken>>
    OBVIOUS
  <2>3. v \in Seq(AnyToken) /\ \E b \in Seq(AnyToken) : Reads(v \o behind, StartObjectToken, b)
    BY <1>0, <2>2, OneThen
  <2> QED BY <2>1, <2>2, <2>3, Zenon
<1>3. ASSUME field.type = "deep"
      PROVE  TokensOfValue(field) \in Seq(AnyToken) /\ ReadsDeep(TokensOfValue(field) \o behind)
  <2>1. PICK s \in AnyToken : s = StartArrayToken
    BY <1>0
  <2>2. PICK e \in AnyToken : e = EndArrayToken
    BY <1>0
  <2>3. TokensOfValue(field) = <<s, s, s, e, e, e>>
    BY <1>3, <2>1, <2>2 DEF TokensOfValue, StartArrayToken, EndArrayToken
  <2>4. PICK v : v = <<s, s, s, e, e, e>>
    OBVIOUS
  <2>5. /\ v \in Seq(AnyToken)
        /\ \E b1, b2, b3 \in Seq(AnyToken) :
             Reads(v \o behind, s, b1) /\ Reads(b1, s, b2) /\ Reads(b2, s, b3)
    BY <2>4, ThreeThen
  <2> QED BY <2>1, <2>3, <2>4, <2>5, Zenon DEF ReadsDeep
<1>4. ASSUME field.type = "rows"
      PROVE  /\ TokensOfValue(field) \in Seq(AnyToken)
             /\ Reads(TokensOfValue(field) \o behind, StartArrayToken,
                      RestOfRows(field.value, 0, behind))
  <2>1. PICK rows \in Seq(Rows) : rows = field.value
    BY <1>4, FieldTypes, Zenon
  <2>2. TokensOfValue(field) =
          <<StartArrayToken>> \o FlattenSeq(RowParts(rows)) \o <<EndArrayToken>>
    BY <1>4, <2>1 DEF TokensOfValue, StartArrayToken, EndArrayToken, RowParts
  <2>3. RowParts(rows) \in Seq(Seq(AnyToken))
    BY RowPartsType, Zenon
  <2>4. Reads((<<StartArrayToken>> \o FlattenSeq(RowParts(rows)) \o <<EndArrayToken>>) \o behind,
              StartArrayToken, RestOfRows(rows, 0, behind))
    BY <1>0, <2>3, FramedParts, Zenon DEF RestOfRows
  <2>5. <<StartArrayToken>> \o FlattenSeq(RowParts(rows)) \o <<EndArrayToken>> \in Seq(AnyToken)
    <3>1. FlattenSeq(RowParts(rows)) \in Seq(AnyToken)
      BY <2>3, FlattenIsSeq, Zenon
    <3>2. <<StartArrayToken>> \in Seq(AnyToken) /\ <<EndArrayToken>> \in Seq(AnyToken)
      BY <1>0, Singleton, Zenon
    <3> QED BY <3>1, <3>2, ConcatProperties, Zenon
  <2> QED BY <2>1, <2>2, <2>4, <2>5, Zenon
<1>5. field.type \in Plain \cup {"rows", "nested", "deep"}
  BY FieldTypes, Zenon
<1> QED BY <1>1, <1>2, <1>3, <1>4, <1>5 DEF Plain

\* The tokens of fields are sequences of tokens.
LEMMA PartsType ==
  ASSUME NEW fields \in Seq(Fields)
  PROVE  PartsOf(fields) \in Seq(Seq(AnyToken)) /\ Len(PartsOf(fields)) = Len(fields)
<1>1. PICK L \in Nat : L = Len(fields) /\ DOMAIN fields = 1 .. L /\ fields \in [1 .. L -> Fields]
  OBVIOUS
<1>2. ASSUME NEW field \in Fields
      PROVE  <<KeyToken(field)>> \o TokensOfValue(field) \in Seq(AnyToken)
  <2>1. KeyToken(field) \in AnyToken
    BY FieldTypes, Zenon
  <2>2. <<>> \in Seq(AnyToken)
    OBVIOUS
  <2>3. TokensOfValue(field) \in Seq(AnyToken)
    BY <2>2, ValueIsRead, Zenon
  <2> QED BY <2>1, <2>3, Singleton, ConcatProperties, Zenon
<1>3. \A i \in 1 .. L : <<KeyToken(fields[i])>> \o TokensOfValue(fields[i]) \in Seq(AnyToken)
  BY <1>1, <1>2
<1>4. PartsOf(fields) \in [1 .. L -> Seq(AnyToken)]
  BY <1>1, <1>3, Zenon DEF PartsOf
<1>5. PICK S : S = Seq(AnyToken)
  OBVIOUS
<1>6. PICK p : p = PartsOf(fields)
  OBVIOUS
<1>7. p \in [1 .. L -> S]
  BY <1>4, <1>5, <1>6
<1>8. p \in Seq(S) /\ Len(p) = L
  BY <1>7
<1> QED BY <1>1, <1>5, <1>6, <1>8

\* The tokens of an object, one field after the other, and its end.
LEMMA FieldsAreRead ==
  ASSUME NEW fields \in Seq(Fields), NEW behind \in Seq(AnyToken), NEW i \in 0 .. Len(fields)
  PROVE  /\ RestOfFields(fields, i, behind) \in Seq(AnyToken)
         /\ i < Len(fields) =>
              Reads(RestOfFields(fields, i, behind), KeyToken(fields[i + 1]),
                    TokensOfValue(fields[i + 1]) \o RestOfFields(fields, i + 1, behind))
         /\ i = Len(fields) => Reads(RestOfFields(fields, i, behind), EndObjectToken, behind)
<1>1. PartsOf(fields) \in Seq(Seq(AnyToken)) /\ Len(PartsOf(fields)) = Len(fields)
  BY PartsType
<1>2. EndObjectToken \in AnyToken
  BY TokenTypes
<1>3. \A l \in 0 .. Len(fields) : RestOfFields(fields, l, behind) \in Seq(AnyToken)
  BY <1>1, <1>2, RestIsSeq, Zenon DEF RestOfFields
<1>4. ASSUME i < Len(fields)
      PROVE  Reads(RestOfFields(fields, i, behind), KeyToken(fields[i + 1]),
                   TokensOfValue(fields[i + 1]) \o RestOfFields(fields, i + 1, behind))
  <2>1. PICK L \in Nat : L = Len(fields) /\ DOMAIN fields = 1 .. L /\ fields \in [1 .. L -> Fields]
    OBVIOUS
  <2>2. i + 1 \in 1 .. L /\ i \in 0 .. L - 1 /\ i + 1 \in 0 .. L
    BY <1>4, <2>1
  <2>3. PICK field \in Fields : field = fields[i + 1]
    BY <2>1, <2>2
  <2>4. <<>> \in Seq(AnyToken)
    OBVIOUS
  <2>5. TokensOfValue(field) \in Seq(AnyToken) /\ KeyToken(field) \in AnyToken
    BY <2>4, ValueIsRead, FieldTypes, Zenon
  <2>6. IsConcat(PartsOf(fields)[i + 1], <<KeyToken(field)>>, TokensOfValue(field))
    <3>1. PartsOf(fields)[i + 1] = <<KeyToken(fields[i + 1])>> \o TokensOfValue(fields[i + 1])
      BY <2>1, <2>2, Zenon DEF PartsOf
    <3> QED BY <2>3, <3>1, Zenon DEF IsConcat
  <2>7. i \in 0 .. Len(PartsOf(fields)) - 1
    BY <1>1, <2>1, <2>2, Zenon
  <2>8. Reads(RestOfFields(fields, i, behind), KeyToken(field),
              TokensOfValue(field) \o RestOfFields(fields, i + 1, behind))
    BY <1>1, <1>2, <2>5, <2>6, <2>7, KeyThen, Zenon DEF RestOfFields
  <2> QED BY <2>3, <2>8, Zenon
<1>5. ASSUME i = Len(fields) PROVE Reads(RestOfFields(fields, i, behind), EndObjectToken, behind)
  <2>1. i = Len(PartsOf(fields))
    BY <1>1, <1>5, Zenon
  <2> QED BY <1>1, <1>2, <2>1, RestEnds, Zenon DEF RestOfFields
<1>6. RestOfFields(fields, i, behind) \in Seq(AnyToken)
  BY <1>3, Zenon
<1> QED BY <1>4, <1>5, <1>6, Zenon

\* They begin with the object.
LEMMA FieldsBegin ==
  ASSUME NEW fields \in Seq(Fields), NEW behind \in Seq(AnyToken)
  PROVE  /\ TokensOfFields(fields) \in Seq(AnyToken)
         /\ Reads(TokensOfFields(fields) \o behind, StartObjectToken,
                  RestOfFields(fields, 0, behind))
<1>1. /\ StartObjectToken \in AnyToken /\ EndObjectToken \in AnyToken
      /\ PartsOf(fields) \in Seq(Seq(AnyToken))
  BY TokenTypes, PartsType, Zenon
<1>2. TokensOfFields(fields) =
        <<StartObjectToken>> \o FlattenSeq(PartsOf(fields)) \o <<EndObjectToken>>
  BY Zenon DEF TokensOfFields, PartsOf, StartObjectToken, EndObjectToken, KeyToken
<1>3. Reads(TokensOfFields(fields) \o behind, StartObjectToken, RestOfFields(fields, 0, behind))
  BY <1>1, <1>2, FramedParts, Zenon DEF RestOfFields
<1>4. TokensOfFields(fields) \in Seq(AnyToken)
  <2>1. FlattenSeq(PartsOf(fields)) \in Seq(AnyToken)
    BY <1>1, FlattenIsSeq, Zenon
  <2>2. <<StartObjectToken>> \in Seq(AnyToken) /\ <<EndObjectToken>> \in Seq(AnyToken)
    BY <1>1, Singleton, Zenon
  <2>3. <<StartObjectToken>> \o FlattenSeq(PartsOf(fields)) \in Seq(AnyToken)
    BY <2>1, <2>2, ConcatProperties, Zenon
  <2> QED BY <1>2, <2>2, <2>3, ConcatProperties, Zenon
<1> QED BY <1>3, <1>4

-----------------------------------------------------------------------------
(* Rows and the levels that they are.                                      *)

\* A price and a quantity that are read are those of the text.
LEMMA DecimalsRead ==
  ASSUME NEW text \in Seq(STRING)
  PROVE  /\ IsDecimal(text, PriceShift) <=> Price(text) # NotADecimal
         /\ IsDecimal(text, PriceShift) => Price(text) = Scaled(text, PriceShift)
         /\ IsDecimal(text, QuantityShift) <=> Quantity(text) # NotADecimal
         /\ IsDecimal(text, QuantityShift) => Quantity(text) = Scaled(text, QuantityShift)
<1>1. PriceShift \in 0 .. 18 /\ QuantityShift \in 0 .. 18
  BY DecimalAssumption
<1>2. ASSUME NEW places \in 0 .. 18, IsDecimal(text, places)
      PROVE  Scaled(text, places) # NotADecimal
  <2>1. IsPlain(text)
    <3>1. DOMAIN text = 1 .. Len(text)
      OBVIOUS
    <3> QED BY <1>2, <3>1, Zenon DEF IsDecimal, IsPlain
  <2>2. PICK d : IsFirstDot(text, d)
    BY FirstDotExists
  <2>3. PICK v : IsValue(text, d, d - 1 + places, v) /\ Scaled(text, places) = v[d - 1 + places]
    BY <2>1, <2>2, ScaledIsValue
  <2>4. d - 1 + places \in 0 .. d - 1 + places
    BY <2>2 DEF IsFirstDot
  <2>5. Scaled(text, places) \in Nat
    BY <2>3, <2>4 DEF IsValue
  <2> QED BY <2>5 DEF NotADecimal
<1>3. ASSUME NEW places \in 0 .. 18
      PROVE  /\ IsDecimal(text, places) <=> ParseFixedDecimalString(text, places) # NotADecimal
             /\ IsDecimal(text, places) =>
                  ParseFixedDecimalString(text, places) = Scaled(text, places)
  <2>1. ParseFixedDecimalString(text, places)
          = IF IsDecimal(text, places) THEN Scaled(text, places) ELSE NotADecimal
    BY DecimalExact
  <2>2. IsDecimal(text, places) \in BOOLEAN
    BY DEF IsDecimal
  <2> QED BY <1>2, <2>1, <2>2
<1> QED BY <1>1, <1>3, Zenon DEF Price, Quantity

\* The level that RowString makes of two strings.
ReadLevel(row) == [price |-> Price(row[1]), quantity |-> Quantity(row[2])]

\* A row is usable exactly if its first string fits and both are read, and then what is read
\* is its level.
LEMMA LevelRead ==
  ASSUME NEW row \in Rows, Len(row) >= 2, Len(row[1]) <= Row0Cap
  PROVE  /\ Usable(row) <=> NotADecimal \notin {ReadLevel(row).price, ReadLevel(row).quantity}
         /\ Usable(row) => ReadLevel(row) = LevelOf(row)
<1>1. row[1] \in Seq(STRING) /\ row[2] \in Seq(STRING)
  BY DEF Rows
<1>2. PICK a \in Seq(STRING) : a = row[1]
  BY <1>1
<1>3. PICK b \in Seq(STRING) : b = row[2]
  BY <1>1
<1>4. /\ IsDecimal(a, PriceShift) <=> Price(a) # NotADecimal
      /\ IsDecimal(a, PriceShift) => Price(a) = Scaled(a, PriceShift)
      /\ IsDecimal(b, QuantityShift) <=> Quantity(b) # NotADecimal
      /\ IsDecimal(b, QuantityShift) => Quantity(b) = Scaled(b, QuantityShift)
  BY DecimalsRead
<1>5. Usable(row) <=> IsDecimal(a, PriceShift) /\ IsDecimal(b, QuantityShift)
  BY <1>2, <1>3 DEF Usable
<1>6. ReadLevel(row).price = Price(a) /\ ReadLevel(row).quantity = Quantity(b)
  BY <1>2, <1>3 DEF ReadLevel
<1>7. ASSUME Usable(row) PROVE ReadLevel(row) = LevelOf(row)
  <2>1. Price(a) = Scaled(a, PriceShift) /\ Quantity(b) = Scaled(b, QuantityShift)
    BY <1>4, <1>5, <1>7
  <2> QED BY <1>2, <1>3, <2>1, Zenon DEF ReadLevel, LevelOf
<1> QED BY <1>4, <1>5, <1>6, <1>7

LevelSet(rows) == {LevelOf(rows[n]) : n \in DOMAIN rows}

\* The levels of the first n rows, for every n.
LevelStep(rows, before, n) ==
  IF Usable(rows[n]) THEN Append(before, LevelOf(rows[n])) ELSE before

AreLevels(rows, N, h) ==
  /\ h \in [0 .. N -> Seq(LevelSet(rows))] /\ h[0] = <<>>
  /\ \A n \in 1 .. N : h[n] = LevelStep(rows, h[n - 1], n)

\* There are such.
LEMMA LevelsExist ==
  ASSUME NEW rows \in Seq(Rows), NEW N \in Nat, N = Len(rows)
  PROVE  \E h : AreLevels(rows, N, h)
<1>1. PICK S : S = Seq(LevelSet(rows))
  OBVIOUS
<1> DEFINE step == [p \in S \X (1 .. N) |-> LevelStep(rows, p[1], p[2])]
<1>2. \A x \in S : \A n \in 1 .. N : LevelStep(rows, x, n) \in S
  <2>1. \A n \in 1 .. N : LevelOf(rows[n]) \in LevelSet(rows)
    BY DEF LevelSet
  <2>2. \A x \in S : \A n \in 1 .. N : Append(x, LevelOf(rows[n])) \in S
    BY <1>1, <2>1
  <2> QED BY <2>2 DEF LevelStep
<1>3. step \in [S \X (1 .. N) -> S]
  BY <1>2
<1>4. <<>> \in S
  BY <1>1
<1>5. PICK h : IsRun(N, S, <<>>, step, h)
  <2> HIDE DEF step
  <2> QED BY <1>3, <1>4, RunExists, Zenon
<1>6. ASSUME NEW n \in 1 .. N PROVE h[n] = LevelStep(rows, h[n - 1], n)
  <2>1. n - 1 \in 0 .. N
    OBVIOUS
  <2>2. <<h[n - 1], n>> \in S \X (1 .. N)
    BY <1>5, <2>1 DEF IsRun
  <2>3. h[n] = step[<<h[n - 1], n>>]
    BY <1>5 DEF IsRun
  <2> QED BY <2>2, <2>3
<1> HIDE DEF step
<1>7. AreLevels(rows, N, h)
  BY <1>1, <1>5, <1>6, Zenon DEF AreLevels, IsRun
<1> QED BY <1>7

\* The levels of the first j rows.
Upto(rows, j) == Levels(SubSeq(rows, 1, j))

\* Levels computes them.
LEMMA LevelsOfPrefix ==
  ASSUME NEW rows \in Seq(Rows), NEW N \in Nat, N = Len(rows), NEW h, AreLevels(rows, N, h),
         NEW j \in 0 .. N
  PROVE  Upto(rows, j) = h[j]
<1>1. PICK q : q = SubSeq(rows, 1, j)
  OBVIOUS
<1>2. Len(q) = j /\ \A n \in 1 .. j : q[n] = rows[n]
  BY <1>1
<1> DEFINE F(g) == [n \in 0 .. Len(q) |->
                      IF n = 0 THEN <<>>
                      ELSE IF Usable(q[n]) THEN Append(g[n - 1], LevelOf(q[n])) ELSE g[n - 1]]
<1> DEFINE I == CHOOSE g : g = F(g)
<1>3. Upto(rows, j) = I[Len(q)]
  BY <1>1, Zenon DEF Upto, Levels
<1>4. PICK f : f = [n \in 0 .. j |-> h[n]]
  OBVIOUS
<1>5. \A n \in 1 .. j : n \in 1 .. N /\ n - 1 \in 0 .. j /\ n \in 0 .. j
  OBVIOUS
<1>6. \A n \in 0 .. j : n # 0 => n \in 1 .. j
  OBVIOUS
<1>7. \A n \in 1 .. j : f[n] = IF Usable(q[n]) THEN Append(f[n - 1], LevelOf(q[n])) ELSE f[n - 1]
  BY <1>2, <1>4, <1>5 DEF AreLevels, LevelStep
<1>8. f = F(f)
  <2>1. 0 \in 0 .. j /\ f[0] = <<>>
    BY <1>4 DEF AreLevels
  <2>2. \A n \in 0 .. j : f[n] = IF n = 0 THEN <<>>
          ELSE IF Usable(q[n]) THEN Append(f[n - 1], LevelOf(q[n])) ELSE f[n - 1]
    BY <1>6, <1>7, <2>1
  <2>3. PICK w : w = F(f)
    OBVIOUS
  <2>4. DOMAIN w = 0 .. j /\ DOMAIN f = 0 .. j
    BY <1>2, <1>4, <2>3
  <2>5. \A n \in 0 .. j : w[n] = f[n]
    BY <1>2, <2>2, <2>3
  <2>6. w = [n \in 0 .. j |-> w[n]] /\ f = [n \in 0 .. j |-> f[n]]
    BY <1>2, <1>4, <2>3
  <2> QED BY <2>3, <2>5, <2>6
<1>9. I = F(I)
  BY <1>8
<1> HIDE DEF I
<1>10. I[0] = <<>> /\ \A n \in 1 .. j :
         I[n] = IF Usable(q[n]) THEN Append(I[n - 1], LevelOf(q[n])) ELSE I[n - 1]
  <2>1. PICK w : w = I
    OBVIOUS
  <2>2. w = [n \in 0 .. j |->
               IF n = 0 THEN <<>>
               ELSE IF Usable(q[n]) THEN Append(w[n - 1], LevelOf(q[n])) ELSE w[n - 1]]
    BY <1>2, <1>9, <2>1
  <2>3. \A n \in 0 .. j : w[n] =
               IF n = 0 THEN <<>>
               ELSE IF Usable(q[n]) THEN Append(w[n - 1], LevelOf(q[n])) ELSE w[n - 1]
    BY <2>2
  <2>4. 0 \in 0 .. j /\ \A n \in 1 .. j : n # 0
    OBVIOUS
  <2> QED BY <1>5, <2>1, <2>3, <2>4
<1>11. CASE j = 0
  BY <1>2, <1>3, <1>10, <1>11 DEF AreLevels
<1>12. CASE j # 0
  <2>1. j \in Nat /\ j \in 1 .. j /\ 1 \in 1 .. j /\ 1 - 1 = 0
    BY <1>12
  <2>2. I[1] = f[1]
    <3>1. f[0] = <<>>
      BY <1>4 DEF AreLevels
    <3> QED BY <1>7, <1>10, <2>1, <3>1
  <2>3. \A n \in 2 .. j : n \in 1 .. j
    OBVIOUS
  <2>4. \A n \in 2 .. j : I[n - 1] = f[n - 1] => I[n] = f[n]
    BY <1>7, <1>10, <2>3
  <2>5. PICK g : g = I
    OBVIOUS
  <2>6. AgreeStep(j, g, f)
    BY <2>2, <2>4, <2>5 DEF AgreeStep
  <2>7. Agree(j, g, f)
    BY <2>1, <2>6, RunsAgree, Zenon
  <2>8. I[j] = f[j]
    BY <2>1, <2>5, <2>7 DEF Agree
  <2> QED BY <1>2, <1>3, <1>4, <2>1, <2>8
<1> QED BY <1>11, <1>12

\* A later row takes no level away.
Begins(s, t) == Len(s) <= Len(t) /\ \A i \in 1 .. Len(s) : t[i] = s[i]

\* More rows begin with the levels of fewer.
LEMMA LevelsGrow ==
  ASSUME NEW rows, NEW N \in Nat, NEW h, AreLevels(rows, N, h),
         NEW j \in 0 .. N, NEW p \in j .. N
  PROVE  Begins(h[j], h[p])
<1> DEFINE Q == {m \in j .. N : ~Begins(h[j], h[m])}
<1> SUFFICES ASSUME Q # {} PROVE FALSE
  BY DEF Begins
<1>1. Q \in SUBSET Nat
  OBVIOUS
<1>2. PICK m \in Q : \A other \in Q : m <= other
  <2> HIDE DEF Q
  <2> QED BY <1>1, Least
<1>3. m \in j .. N /\ ~Begins(h[j], h[m])
  BY <1>2
<1>4. PICK T : \A n \in 0 .. N : h[n] \in Seq(T)
  BY DEF AreLevels
<1>5. m # j
  <2>1. Begins(h[j], h[j])
    BY <1>4 DEF Begins
  <2> QED BY <1>3, <2>1
<1>6. m - 1 \in j .. N /\ m - 1 \in 0 .. N /\ m \in 1 .. N /\ ~(m <= m - 1)
  BY <1>3, <1>5
<1>7. Begins(h[j], h[m - 1])
  BY <1>2, <1>6
<1>8. h[m] = LevelStep(rows, h[m - 1], m)
  BY <1>6 DEF AreLevels
<1>9. PICK s \in Seq(T), t \in Seq(T) : s = h[j] /\ t = h[m - 1]
  BY <1>4, <1>6
<1>10. CASE Usable(rows[m])
  <2>1. PICK x : h[m] = Append(t, x)
    BY <1>8, <1>9, <1>10 DEF LevelStep
  <2>2. Len(s) <= Len(t) /\ \A i \in 1 .. Len(s) : t[i] = s[i]
    BY <1>7, <1>9 DEF Begins
  <2>3. Len(Append(t, x)) = Len(t) + 1 /\ \A i \in 1 .. Len(t) : Append(t, x)[i] = t[i]
    OBVIOUS
  <2>4. Len(s) \in Nat /\ Len(t) \in Nat
    OBVIOUS
  <2>5. Begins(s, Append(t, x))
    BY <2>2, <2>3, <2>4 DEF Begins
  <2> QED BY <1>3, <1>9, <2>1, <2>5
<1>11. CASE ~Usable(rows[m])
  BY <1>3, <1>7, <1>8, <1>11 DEF LevelStep
<1> QED BY <1>10, <1>11

\* What fewer rows are, step by step.
LEMMA UptoSteps ==
  ASSUME NEW rows \in Seq(Rows)
  PROVE  /\ Upto(rows, 0) = <<>>
         /\ \A j \in 0 .. Len(rows) : Upto(rows, j) \in Seq(LevelSet(rows))
         /\ \A j \in 0 .. Len(rows) - 1 :
              Upto(rows, j + 1) = LevelStep(rows, Upto(rows, j), j + 1)
<1>1. PICK N \in Nat : N = Len(rows)
  OBVIOUS
<1>2. PICK h : AreLevels(rows, N, h)
  BY <1>1, LevelsExist
<1>3. \A j \in 0 .. N : Upto(rows, j) = h[j]
  BY <1>1, <1>2, LevelsOfPrefix
<1>4. Upto(rows, 0) = <<>>
  BY <1>2, <1>3 DEF AreLevels
<1>5. \A j \in 0 .. N : Upto(rows, j) \in Seq(LevelSet(rows))
  BY <1>2, <1>3, Zenon DEF AreLevels
<1>6. ASSUME NEW j \in 0 .. N - 1
      PROVE Upto(rows, j + 1) = LevelStep(rows, Upto(rows, j), j + 1)
  <2>1. j + 1 \in 1 .. N /\ j \in 0 .. N /\ j + 1 \in 0 .. N /\ (j + 1) - 1 = j
    OBVIOUS
  <2>2. h[j + 1] = LevelStep(rows, h[(j + 1) - 1], j + 1)
    BY <1>2, <2>1, Zenon DEF AreLevels
  <2> QED BY <1>3, <2>1, <2>2
<1> QED BY <1>1, <1>4, <1>5, <1>6

\* Full levels stay the first ones.
LEMMA UptoFull ==
  ASSUME NEW rows \in Seq(Rows), NEW p \in 0 .. Len(rows), NEW j \in 0 .. p,
         Len(Upto(rows, j)) = BookDepth
  PROVE  /\ Len(Upto(rows, p)) >= BookDepth
         /\ SubSeq(Upto(rows, p), 1, BookDepth) = Upto(rows, j)
<1>1. PICK N \in Nat : N = Len(rows)
  OBVIOUS
<1>2. PICK h : AreLevels(rows, N, h)
  BY <1>1, LevelsExist
<1>3. \A i \in 0 .. N : Upto(rows, i) = h[i]
  BY <1>1, <1>2, LevelsOfPrefix
<1>4. p \in 0 .. N /\ j \in 0 .. N /\ p \in j .. N
  BY <1>1
<1>5. Begins(h[j], h[p])
  BY <1>2, <1>4, LevelsGrow, Zenon
<1>6. PICK T : T = LevelSet(rows)
  OBVIOUS
<1>7. PICK s \in Seq(T), t \in Seq(T) : s = h[j] /\ t = h[p]
  BY <1>2, <1>4, <1>6 DEF AreLevels
<1>8. Len(s) = BookDepth /\ Len(s) <= Len(t) /\ \A i \in 1 .. Len(s) : t[i] = s[i]
  BY <1>3, <1>4, <1>5, <1>7 DEF Begins
<1>9. Len(t) >= BookDepth /\ SubSeq(t, 1, Len(s)) = s
  BY <1>8
<1>10. Upto(rows, p) = t /\ Upto(rows, j) = s
  BY <1>3, <1>4, <1>7
<1> QED BY <1>8, <1>9, <1>10

-----------------------------------------------------------------------------
(* The levels of a snapshot.                                               *)

\* A row that ends the levels of its side.
Spoils(row) ==
  \/ Len(row) >= 1 /\ Len(row[1]) > Row0Cap
  \/ Len(row) >= 2 /\ ~Usable(row)

\* None of the first j rows does.
SoundUpto(rows, j) == \A i \in 1 .. j : ~Spoils(rows[i])

\* The first row that does.
EndsAt(rows, p) ==
  p \in 0 .. Len(rows) /\ SoundUpto(rows, p) /\ (p < Len(rows) => Spoils(rows[p + 1]))

\* As many levels as the book is deep.
AsDeep(levels) == SubSeq(levels, 1, IF Len(levels) < BookDepth THEN Len(levels) ELSE BookDepth)

\* The levels of SnapshotLevels, of the rows of a side.
Kept(rows) ==
  AsDeep(Levels(Prefix(rows, LAMBDA row :
           \/ Len(row) >= 1 /\ Len(row[1]) > Row0Cap
           \/ Len(row) >= 2 /\ ~Usable(row))))

\* The rows end somewhere.
LEMMA EndExists ==
  ASSUME NEW rows \in Seq(Rows)
  PROVE  \E p : EndsAt(rows, p)
<1>1. PICK N \in Nat : N = Len(rows)
  OBVIOUS
<1> DEFINE Q == {i \in 1 .. N + 1 : i <= N => Spoils(rows[i])}
<1>2. Q \in SUBSET Nat /\ N + 1 \in Q
  OBVIOUS
<1>3. PICK d \in Q : \A m \in Q : d <= m
  <2> HIDE DEF Q
  <2> QED BY <1>2, Least
<1>4. \A i \in 1 .. d - 1 : i \in 1 .. N + 1 /\ i <= N /\ ~(d <= i)
  OBVIOUS
<1>5. \A i \in 1 .. d - 1 : ~Spoils(rows[i])
  BY <1>3, <1>4
<1>6. d - 1 \in 0 .. N /\ (d - 1 < N => d <= N) /\ (d - 1) + 1 = d
  OBVIOUS
<1>7. d - 1 < N => Spoils(rows[(d - 1) + 1])
  BY <1>6
<1> QED BY <1>1, <1>5, <1>6, <1>7 DEF EndsAt, SoundUpto

\* What precedes it.
LEMMA KeptIs ==
  ASSUME NEW rows \in Seq(Rows), NEW p, EndsAt(rows, p)
  PROVE  Kept(rows) = AsDeep(Upto(rows, p))
<1> DEFINE kept == {k \in 0 .. Len(rows) : \A i \in 1 .. k : ~Spoils(rows[i])}
<1>1. p \in kept
  BY DEF EndsAt, SoundUpto
<1>2. \A k \in kept : k <= p
  <2> SUFFICES ASSUME NEW k \in kept, ~(k <= p) PROVE FALSE
    OBVIOUS
  <2>1. p + 1 \in 1 .. k /\ p < Len(rows)
    BY DEF EndsAt
  <2> QED BY <2>1 DEF EndsAt
<1>3. kept \in SUBSET Nat
  OBVIOUS
<1>4. Kept(rows) =
        AsDeep(Levels(SubSeq(rows, 1, CHOOSE k \in kept : \A other \in kept : other <= k)))
  BY DEF Kept, Prefix, Spoils
<1> HIDE DEF kept
<1>5. p = CHOOSE k \in kept : \A other \in kept : other <= k
  <2>1. ASSUME NEW k \in kept, \A other \in kept : other <= k PROVE k = p
    <3>1. p <= k /\ k <= p /\ k \in Nat /\ p \in Nat
      BY <1>1, <1>2, <1>3, <2>1
    <3>2. \A x, y \in Nat : x <= y /\ y <= x => x = y
      OBVIOUS
    <3> QED BY <3>1, <3>2
  <2> QED BY <1>1, <1>2, <2>1
<1> QED BY <1>4, <1>5 DEF Upto

\* The levels of the first rows are what is kept once they are as many as the book is deep, or
\* the next row ends them.
LEMMA KeptAt ==
  ASSUME NEW rows \in Seq(Rows), NEW j \in 0 .. Len(rows), SoundUpto(rows, j)
  PROVE  /\ Len(Upto(rows, j)) = BookDepth => Kept(rows) = Upto(rows, j)
         /\ /\ Len(Upto(rows, j)) < BookDepth
            /\ j < Len(rows) => Spoils(rows[j + 1])
            => Kept(rows) = Upto(rows, j)
<1>1. PICK L \in Nat : L = Len(rows)
  OBVIOUS
<1>a. BookDepth \in Nat
  BY ParserAssumption
<1>2. \A i \in 0 .. L : Upto(rows, i) \in Seq(LevelSet(rows))
  BY <1>1, UptoSteps
<1>3. ASSUME Len(Upto(rows, j)) = BookDepth PROVE Kept(rows) = Upto(rows, j)
  <2>1. PICK p : EndsAt(rows, p)
    BY EndExists
  <2>2. p \in 0 .. L /\ j \in 0 .. p
    <3> SUFFICES ASSUME ~(j <= p) PROVE FALSE
      BY <1>1, <2>1 DEF EndsAt
    <3>1. p + 1 \in 1 .. j /\ p < L
      BY <1>1, <2>1 DEF EndsAt
    <3> QED BY <1>1, <2>1, <3>1 DEF EndsAt, SoundUpto
  <2>3. /\ Len(Upto(rows, p)) >= BookDepth
        /\ SubSeq(Upto(rows, p), 1, BookDepth) = Upto(rows, j)
    BY <1>1, <1>3, <2>2, UptoFull
  <2>4. Kept(rows) = AsDeep(Upto(rows, p))
    BY <2>1, KeptIs
  <2>5. PICK t \in Seq(LevelSet(rows)) : t = Upto(rows, p)
    BY <1>2, <2>2
  <2>6. ~(Len(t) < BookDepth)
    BY <1>a, <2>3, <2>5
  <2> QED BY <2>3, <2>4, <2>5, <2>6 DEF AsDeep
<1>4. ASSUME Len(Upto(rows, j)) < BookDepth, j < L => Spoils(rows[j + 1])
      PROVE  Kept(rows) = Upto(rows, j)
  <2>1. EndsAt(rows, j)
    BY <1>1, <1>4 DEF EndsAt
  <2>2. Kept(rows) = AsDeep(Upto(rows, j))
    BY <2>1, KeptIs
  <2>3. PICK t \in Seq(LevelSet(rows)) : t = Upto(rows, j)
    BY <1>1, <1>2
  <2>4. SubSeq(t, 1, Len(t)) = t
    OBVIOUS
  <2> QED BY <1>4, <2>2, <2>3, <2>4 DEF AsDeep
<1> QED BY <1>1, <1>3, <1>4

-----------------------------------------------------------------------------
(* What the callbacks of the handler of snapshots do.                      *)

\* The sides of a snapshot, and the types of the members of the handler.
Sides == {"bids", "asks"}

LevelType == [price : Nat, quantity : Nat]

SnapshotType(s) ==
  s \in [objects : {0, 1}, arrays : 0 .. 2,
         pending : {"none", "lastUpdateId", "bids", "asks"}, side : {"none", "bids", "asks"},
         done : SUBSET Sides, index : {0, 1}, row0 : Seq(STRING),
         out : [lastUpdateId : Nat, bids : Seq(LevelType), asks : Seq(LevelType)]]

\* Nothing changes but the levels of the side.
Steady(s, t) ==
  /\ t.objects = s.objects /\ t.arrays = s.arrays /\ t.pending = s.pending /\ t.side = s.side
  /\ t.out.lastUpdateId = s.out.lastUpdateId
  /\ \A y \in Sides : y # s.side => t.out[y] = s.out[y] /\ (y \in t.done <=> y \in s.done)

\* What a string of a row does to the levels of the side.
Collects(s, text, t) ==
  LET x == s.side
      level == [price |-> Price(s.row0), quantity |-> Quantity(text)]
  IN  /\ x \in s.done \/ Len(s.out[x]) >= BookDepth => t = s
      /\ x \notin s.done /\ ~(Len(s.out[x]) >= BookDepth) =>
           /\ s.index = 0 /\ Len(text) > Row0Cap => x \in t.done /\ t.out[x] = s.out[x]
           /\ s.index = 0 /\ ~(Len(text) > Row0Cap) =>
                x \notin t.done /\ t.out[x] = s.out[x] /\ t.index = 1 /\ t.row0 = text
           /\ s.index = 1 /\ NotADecimal \in {level.price, level.quantity} =>
                x \in t.done /\ t.out[x] = s.out[x]
           /\ s.index = 1 /\ NotADecimal \notin {level.price, level.quantity} =>
                x \notin t.done /\ t.out[x] = Append(s.out[x], level) /\ t.index = 0

\* A price or a quantity that is read is a number.
LEMMA DecimalsType ==
  ASSUME NEW text \in Seq(STRING)
  PROVE  /\ Price(text) # NotADecimal => Price(text) \in Nat
         /\ Quantity(text) # NotADecimal => Quantity(text) \in Nat
<1>1. PriceShift \in 0 .. 18 /\ QuantityShift \in 0 .. 18
  BY DecimalAssumption
<1>2. ASSUME NEW places \in 0 .. 18, ParseFixedDecimalString(text, places) # NotADecimal
      PROVE  ParseFixedDecimalString(text, places) \in Nat
  <2>1. IsDecimal(text, places) /\ ParseFixedDecimalString(text, places) = Scaled(text, places)
    BY <1>2, DecimalExact
  <2>2. IsPlain(text)
    <3>1. DOMAIN text = 1 .. Len(text)
      OBVIOUS
    <3> QED BY <2>1, <3>1, Zenon DEF IsDecimal, IsPlain
  <2>3. PICK d : IsFirstDot(text, d)
    BY FirstDotExists
  <2>4. PICK v : IsValue(text, d, d - 1 + places, v) /\ Scaled(text, places) = v[d - 1 + places]
    BY <2>2, <2>3, ScaledIsValue
  <2>5. d - 1 + places \in 0 .. d - 1 + places
    BY <2>3 DEF IsFirstDot
  <2> QED BY <2>1, <2>4, <2>5 DEF IsValue
<1> QED BY <1>1, <1>2, Zenon DEF Price, Quantity

\* A string of a row.
LEMMA RowStringCollects ==
  ASSUME SnapshotType(snapshot), snapshot.side \in Sides, NEW text \in Seq(STRING),
         SnapshotHandler!RowString(text)
  PROVE  /\ accepted' /\ SnapshotType(snapshot') /\ Steady(snapshot, snapshot')
         /\ Collects(snapshot, text, snapshot')
<1> DEFINE s == snapshot
<1> DEFINE x == s.side
<1> DEFINE level == [price |-> Price(s.row0), quantity |-> Quantity(text)]
<1>1. CASE x \in s.done \/ Len(s.out[x]) >= BookDepth
  <2>1. snapshot' = s /\ accepted'
    BY <1>1 DEF SnapshotHandler!RowString, SnapshotHandler!Full, SnapshotHandler!Take
  <2> QED BY <1>1, <2>1 DEF Steady, Collects
<1>2. CASE ~(x \in s.done \/ Len(s.out[x]) >= BookDepth) /\ s.index = 0
  <2>1. CASE Len(text) > Row0Cap
    <3>1. snapshot' = [s EXCEPT !.done = @ \union {x}, !.index = 0] /\ accepted'
      BY <1>2, <2>1 DEF SnapshotHandler!RowString, SnapshotHandler!Full, SnapshotHandler!Take,
                        SnapshotHandler!SideDone
    <3>2. SnapshotType(snapshot')
      BY <1>2, <2>1, <3>1 DEF SnapshotType, Sides
    <3>3. Steady(snapshot, snapshot')
      BY <1>2, <2>1, <3>1 DEF SnapshotType, Steady, Sides
    <3>4. Collects(snapshot, text, snapshot')
      BY <1>2, <2>1, <3>1 DEF SnapshotType, Collects, Sides
    <3> QED BY <3>1, <3>2, <3>3, <3>4
  <2>2. CASE ~(Len(text) > Row0Cap)
    <3>1. snapshot' = [s EXCEPT !.row0 = text, !.index = 1] /\ accepted'
      BY <1>2, <2>2 DEF SnapshotHandler!RowString, SnapshotHandler!Full, SnapshotHandler!Take,
                        SnapshotHandler!SideDone
    <3>2. SnapshotType(snapshot')
      BY <1>2, <2>2, <3>1 DEF SnapshotType, Sides
    <3>3. Steady(snapshot, snapshot')
      BY <1>2, <2>2, <3>1 DEF SnapshotType, Steady, Sides
    <3>4. Collects(snapshot, text, snapshot')
      BY <1>2, <2>2, <3>1 DEF SnapshotType, Collects, Sides
    <3> QED BY <3>1, <3>2, <3>3, <3>4
  <2> QED BY <2>1, <2>2
<1>3. CASE ~(x \in s.done \/ Len(s.out[x]) >= BookDepth) /\ s.index = 1
  <2>1. CASE NotADecimal \in {level.price, level.quantity}
    <3>1. snapshot' = [s EXCEPT !.done = @ \union {x}, !.index = 0] /\ accepted'
      BY <1>3, <2>1 DEF SnapshotHandler!RowString, SnapshotHandler!Full, SnapshotHandler!Take,
                        SnapshotHandler!SideDone
    <3>2. SnapshotType(snapshot')
      BY <1>3, <2>1, <3>1 DEF SnapshotType, Sides
    <3>3. Steady(snapshot, snapshot')
      BY <1>3, <2>1, <3>1 DEF SnapshotType, Steady, Sides
    <3>4. Collects(snapshot, text, snapshot')
      BY <1>3, <2>1, <3>1 DEF SnapshotType, Collects, Sides
    <3> QED BY <3>1, <3>2, <3>3, <3>4
  <2>2. CASE NotADecimal \notin {level.price, level.quantity}
    <3>1. snapshot' = [s EXCEPT !.index = 0, !.out[x] = Append(@, level)] /\ accepted'
      BY <1>3, <2>2 DEF SnapshotHandler!RowString, SnapshotHandler!Full, SnapshotHandler!Take,
                        SnapshotHandler!SideDone
    <3>2. level \in LevelType
      <4>1. s.row0 \in Seq(STRING)
        BY DEF SnapshotType
      <4>2. PICK row0 \in Seq(STRING) : row0 = s.row0
        BY <4>1
      <4>3. Price(row0) # NotADecimal /\ Quantity(text) # NotADecimal
        BY <2>2, <4>2
      <4>4. Price(row0) \in Nat /\ Quantity(text) \in Nat
        BY <4>3, DecimalsType
      <4> QED BY <4>2, <4>4 DEF LevelType
    <3>3. PICK l \in LevelType : l = level
      BY <3>2
    <3> HIDE DEF level
    <3>4. CASE x = "bids"
      <4>1. snapshot' = [s EXCEPT !.index = 0, !.out.bids = Append(@, l)]
        BY <3>1, <3>3, <3>4
      <4>2. SnapshotType(snapshot') /\ Steady(snapshot, snapshot')
        <5>1. SnapshotType(snapshot')
          <6>1. s.out.bids \in Seq(LevelType)
            BY DEF SnapshotType
          <6>2. PICK b \in Seq(LevelType) : b = Append(s.out.bids, l)
            BY <6>1, AppendProperties, Zenon
          <6>3. snapshot' = [s EXCEPT !.index = 0, !.out.bids = b]
            BY <4>1, <6>2
          <6> QED BY <6>3 DEF SnapshotType
        <5>2. Steady(snapshot, snapshot')
          BY <3>4, <4>1 DEF SnapshotType, Steady, Sides
        <5> QED BY <5>1, <5>2
      <4>3. x \notin snapshot'.done /\ snapshot'.out[x] = Append(s.out[x], l) /\ snapshot'.index = 0
        BY <1>3, <3>4, <4>1 DEF SnapshotType
      <4> QED BY <1>3, <2>2, <3>1, <3>3, <4>2, <4>3 DEF Collects, level
    <3>5. CASE x = "asks"
      <4>1. snapshot' = [s EXCEPT !.index = 0, !.out.asks = Append(@, l)]
        BY <3>1, <3>3, <3>5
      <4>2. SnapshotType(snapshot') /\ Steady(snapshot, snapshot')
        <5>1. SnapshotType(snapshot')
          <6>1. s.out.asks \in Seq(LevelType)
            BY DEF SnapshotType
          <6>2. PICK b \in Seq(LevelType) : b = Append(s.out.asks, l)
            BY <6>1, AppendProperties, Zenon
          <6>3. snapshot' = [s EXCEPT !.index = 0, !.out.asks = b]
            BY <4>1, <6>2
          <6> QED BY <6>3 DEF SnapshotType
        <5>2. Steady(snapshot, snapshot')
          BY <3>5, <4>1 DEF SnapshotType, Steady, Sides
        <5> QED BY <5>1, <5>2
      <4>3. x \notin snapshot'.done /\ snapshot'.out[x] = Append(s.out[x], l) /\ snapshot'.index = 0
        BY <1>3, <3>5, <4>1 DEF SnapshotType
      <4> QED BY <1>3, <2>2, <3>1, <3>3, <4>2, <4>3 DEF Collects, level
    <3> QED BY <3>4, <3>5 DEF Sides
  <2> QED BY <2>1, <2>2
<1>4. s.index \in {0, 1}
  BY DEF SnapshotType
<1> QED BY <1>1, <1>2, <1>3, <1>4

-----------------------------------------------------------------------------
(* The levels of a side while its rows are read.                           *)

\* They will not change: a row ended them, or they are as many as the book is deep.
Settled(rows, s) ==
  /\ s.out[s.side] = Kept(rows)
  /\ s.side \in s.done \/ Len(Kept(rows)) >= BookDepth

\* They are those of the first j rows, and there is room for more.
Open(rows, j, s) ==
  /\ s.side \notin s.done /\ SoundUpto(rows, j)
  /\ s.out[s.side] = Upto(rows, j) /\ Len(Upto(rows, j)) < BookDepth

\* After j rows, and after k strings of the next one.
AfterRows(rows, j, s) == Settled(rows, s) \/ Open(rows, j, s)

AfterStrings(rows, j, k, s) ==
  \/ Settled(rows, s)
  \/ k = 0 /\ Open(rows, j, s) /\ s.index = 0
  \/ /\ k = 1 /\ Open(rows, j, s) /\ s.index = 1
     /\ s.row0 = rows[j + 1][1] /\ Len(rows[j + 1][1]) <= Row0Cap
  \/ k = 2 /\ Open(rows, j + 1, s) /\ s.index = 0
  \/ k = 3 /\ Open(rows, j + 1, s) /\ s.index = 1

\* The rows of a field.
LEMMA RowOf ==
  ASSUME NEW rows \in Seq(Rows), NEW j \in 0 .. Len(rows) - 1
  PROVE  /\ rows[j + 1] \in Rows /\ rows[j + 1] \in Seq(Seq(STRING)) /\ Len(rows[j + 1]) \in 0 .. 3
         /\ Len(rows[j + 1]) = 3 => Len(rows[j + 1][3]) <= Row0Cap
         /\ j \in 0 .. Len(rows) /\ j + 1 \in 0 .. Len(rows) /\ j < Len(rows)
<1>1. rows[j + 1] \in Rows
  OBVIOUS
<1>2. PICK row \in Rows : row = rows[j + 1]
  BY <1>1
<1>3. row \in Seq(Seq(STRING)) /\ Len(row) \in 0 .. 3 /\ (Len(row) = 3 => Len(row[3]) <= Row0Cap)
  <2>1. row \in Seq(Seq(STRING)) /\ Len(row) <= 3 /\ (Len(row) = 3 => Len(row[3]) <= Row0Cap)
    BY DEF Rows
  <2>2. Len(row) \in Nat
    BY <2>1, LenProperties, Zenon
  <2>3. \A n \in Nat : n <= 3 => n \in 0 .. 3
    OBVIOUS
  <2> QED BY <2>1, <2>2, <2>3
<1>4. PICK L \in Nat : L = Len(rows)
  OBVIOUS
<1>5. j \in 0 .. L /\ j + 1 \in 0 .. L /\ j < L
  BY <1>4
<1> QED BY <1>2, <1>3, <1>4, <1>5

\* Nothing is read yet.
LEMMA RowsStart ==
  ASSUME NEW rows \in Seq(Rows), NEW s, s.out[s.side] = <<>>, s.side \notin s.done
  PROVE  AfterRows(rows, 0, s)
<1>1. Upto(rows, 0) = <<>> /\ Len(<<>>) = 0 /\ BookDepth \in Nat
  BY UptoSteps, ParserAssumption
<1>2. SoundUpto(rows, 0) /\ 0 \in 0 .. Len(rows)
  BY DEF SoundUpto
<1>3. CASE BookDepth = 0
  <2>1. Kept(rows) = Upto(rows, 0)
    BY <1>1, <1>2, <1>3, KeptAt
  <2> QED BY <1>1, <1>3, <2>1 DEF AfterRows, Settled
<1>4. CASE BookDepth # 0
  BY <1>1, <1>2, <1>4 DEF AfterRows, Open
<1> QED BY <1>3, <1>4

\* All rows are read.
LEMMA RowsEnd ==
  ASSUME NEW rows \in Seq(Rows), NEW s, AfterRows(rows, Len(rows), s)
  PROVE  s.out[s.side] = Kept(rows)
<1>1. CASE Settled(rows, s)
  BY <1>1 DEF Settled
<1>2. CASE Open(rows, Len(rows), s)
  <2>1. Len(rows) \in 0 .. Len(rows) /\ ~(Len(rows) < Len(rows))
    OBVIOUS
  <2>2. Kept(rows) = Upto(rows, Len(rows))
    BY <1>2, <2>1, KeptAt DEF Open
  <2> QED BY <1>2, <2>2 DEF Open
<1> QED BY <1>1, <1>2 DEF AfterRows

\* A row begins with no string read.
LEMMA RowStart ==
  ASSUME NEW rows, NEW j, NEW s, AfterRows(rows, j, s), NEW t, t.index = 0, t.out = s.out,
         t.side = s.side, t.done = s.done
  PROVE  AfterStrings(rows, j, 0, t)
BY DEF AfterRows, AfterStrings, Settled, Open

\* One more row is sound.
LEMMA SoundNext ==
  ASSUME NEW rows \in Seq(Rows), NEW j \in 0 .. Len(rows) - 1, SoundUpto(rows, j),
         ~Spoils(rows[j + 1])
  PROVE  SoundUpto(rows, j + 1)
<1>1. \A i \in 1 .. j + 1 : i \in 1 .. j \/ i = j + 1
  OBVIOUS
<1> QED BY <1>1 DEF SoundUpto

\* A row is read to its end.
LEMMA RowEnd ==
  ASSUME NEW rows \in Seq(Rows), NEW j \in 0 .. Len(rows) - 1, NEW s,
         AfterStrings(rows, j, Len(rows[j + 1]), s),
         NEW t, t.out = s.out, t.side = s.side, t.done = s.done
  PROVE  AfterRows(rows, j + 1, t)
<1>1. PICK row \in Rows : row = rows[j + 1] /\ Len(row) \in 0 .. 3
  BY RowOf
<1>2. CASE Settled(rows, s)
  BY <1>2 DEF AfterRows, Settled
<1>3. CASE Len(row) \in {0, 1} /\ Open(rows, j, s) /\ (Len(row) = 1 => Len(row[1]) <= Row0Cap)
  <2>1. ~Spoils(row) /\ ~Usable(row)
    <3>1. Row0Cap \in Nat
      BY ParserAssumption
    <3>2. CASE Len(row) = 0
      BY <3>2 DEF Spoils, Usable
    <3>3. CASE Len(row) = 1
      <4>1. Len(row[1]) \in Nat
        BY <3>3 DEF Rows
      <4>2. ~(Len(row[1]) > Row0Cap)
        BY <1>3, <3>1, <3>3, <4>1
      <4> QED BY <3>3, <4>2 DEF Spoils, Usable
    <3> QED BY <1>3, <3>2, <3>3
  <2>2. Upto(rows, j + 1) = Upto(rows, j)
    BY <1>1, <2>1, UptoSteps DEF LevelStep
  <2>3. SoundUpto(rows, j + 1)
    BY <1>1, <1>3, <2>1, SoundNext DEF Open
  <2> QED BY <1>3, <2>2, <2>3 DEF AfterRows, Open
<1>4. CASE Open(rows, j + 1, s)
  BY <1>4 DEF AfterRows, Open
<1> QED BY <1>1, <1>2, <1>3, <1>4 DEF AfterStrings

\* One more string of a row is read.
LEMMA StringRead ==
  ASSUME NEW rows \in Seq(Rows), NEW j \in 0 .. Len(rows) - 1, NEW k \in 0 .. Len(rows[j + 1]) - 1,
         NEW s, AfterStrings(rows, j, k, s), s.side \in Sides,
         NEW t, Steady(s, t), Collects(s, rows[j + 1][k + 1], t)
  PROVE  AfterStrings(rows, j, k + 1, t)
<1>1. PICK row \in Rows : /\ row = rows[j + 1] /\ Len(row) \in 0 .. 3 /\ row \in Seq(Seq(STRING))
                          /\ Len(row) = 3 => Len(row[3]) <= Row0Cap
  BY RowOf
<1>2. k \in 0 .. 2 /\ k < Len(row) /\ k + 1 \in 1 .. Len(row)
  <2>1. PICK n \in 0 .. 3 : n = Len(row)
    BY <1>1, Zenon
  <2>2. k \in 0 .. n - 1
    BY <1>1, <2>1, Zenon
  <2>3. k \in 0 .. 2 /\ k < n /\ k + 1 \in 1 .. n
    BY <2>2
  <2> QED BY <2>1, <2>3, Zenon
<1>3. PICK text \in Seq(STRING) : text = row[k + 1]
  BY <1>1, <1>2
<1>4. Row0Cap \in Nat /\ BookDepth \in Nat /\ Len(text) \in Nat
  BY ParserAssumption
<1>5. t.side = s.side
  BY DEF Steady
<1>6. Collects(s, text, t)
  BY <1>1, <1>3, Zenon
<1>7. CASE Settled(rows, s)
  <2>1. t = s
    BY <1>6, <1>7 DEF Settled, Collects
  <2> QED BY <1>7, <2>1 DEF AfterStrings
<1>8. ASSUME NEW i, Open(rows, i, s), i \in 0 .. Len(rows)
      PROVE  s.side \notin s.done /\ ~(Len(s.out[s.side]) >= BookDepth)
  <2>1. PICK l \in Seq(LevelSet(rows)) : l = Upto(rows, i)
    BY <1>8, UptoSteps
  <2>2. Len(l) \in Nat /\ Len(l) < BookDepth
    BY <1>8, <2>1 DEF Open
  <2> QED BY <1>4, <1>8, <2>1, <2>2 DEF Open
<1>9. j \in 0 .. Len(rows) /\ j + 1 \in 0 .. Len(rows) /\ j < Len(rows)
  BY RowOf
<1>10. CASE k = 0 /\ Open(rows, j, s) /\ s.index = 0
  <2>0. s.side \notin s.done /\ ~(Len(s.out[s.side]) >= BookDepth)
    BY <1>8, <1>9, <1>10
  <2>a. text = row[1] /\ Len(row) >= 1
    BY <1>2, <1>3, <1>10
  <2>1. CASE Len(text) > Row0Cap
    <3>1. t.side \in t.done /\ t.out[t.side] = s.out[s.side]
      BY <1>5, <1>6, <1>10, <2>0, <2>1 DEF Collects
    <3>2. Spoils(rows[j + 1])
      BY <1>1, <2>1, <2>a DEF Spoils
    <3>3. Kept(rows) = Upto(rows, j)
      BY <1>9, <1>10, <3>2, KeptAt DEF Open
    <3> QED BY <1>10, <3>1, <3>3 DEF AfterStrings, Settled, Open
  <2>2. CASE ~(Len(text) > Row0Cap)
    <3>1. t.side \notin t.done /\ t.out[t.side] = s.out[s.side] /\ t.index = 1 /\ t.row0 = text
      BY <1>5, <1>6, <1>10, <2>0, <2>2 DEF Collects
    <3>2. Len(text) <= Row0Cap
      BY <1>4, <2>2
    <3>3. Open(rows, j, t)
      BY <1>10, <3>1 DEF Open
    <3> QED BY <1>1, <1>10, <2>a, <3>1, <3>2, <3>3 DEF AfterStrings
  <2> QED BY <2>1, <2>2
<1>11. CASE /\ k = 1 /\ Open(rows, j, s) /\ s.index = 1
            /\ s.row0 = row[1] /\ Len(row[1]) <= Row0Cap
  <2>0. s.side \notin s.done /\ ~(Len(s.out[s.side]) >= BookDepth)
    BY <1>8, <1>9, <1>11
  <2>a. text = row[2] /\ Len(row) >= 2 /\ Len(row) >= 1
    BY <1>2, <1>3, <1>11
  <2>b. PICK level : level = ReadLevel(row)
    OBVIOUS
  <2>c. /\ Usable(row) <=> NotADecimal \notin {level.price, level.quantity}
        /\ Usable(row) => level = LevelOf(row)
    BY <1>11, <2>a, <2>b, LevelRead
  <2>d. level = [price |-> Price(s.row0), quantity |-> Quantity(text)]
    BY <1>11, <2>a, <2>b DEF ReadLevel
  <2>e. /\ NotADecimal \in {level.price, level.quantity} =>
              t.side \in t.done /\ t.out[t.side] = s.out[s.side]
        /\ NotADecimal \notin {level.price, level.quantity} =>
              t.side \notin t.done /\ t.out[t.side] = Append(s.out[s.side], level) /\ t.index = 0
    BY <1>5, <1>6, <1>11, <2>0, <2>d DEF Collects
  <2>1. CASE ~Usable(row)
    <3>1. Spoils(rows[j + 1])
      BY <1>1, <2>1, <2>a DEF Spoils
    <3>2. Kept(rows) = Upto(rows, j)
      BY <1>9, <1>11, <3>1, KeptAt DEF Open
    <3> QED BY <1>11, <2>1, <2>c, <2>e, <3>2 DEF AfterStrings, Settled, Open
  <2>2. CASE Usable(row)
    <3>1. Upto(rows, j + 1) = Append(Upto(rows, j), LevelOf(row))
      BY <1>1, <2>2, UptoSteps DEF LevelStep
    <3>2. ~Spoils(row)
      <4>1. Len(row[1]) \in Nat
        BY <1>1, <2>a
      <4>2. ~(Len(row[1]) > Row0Cap)
        BY <1>4, <1>11, <4>1
      <4> QED BY <2>2, <4>2 DEF Spoils
    <3>3. SoundUpto(rows, j + 1)
      BY <1>1, <1>11, <3>2, SoundNext DEF Open
    <3>4. t.side \notin t.done /\ t.out[t.side] = Upto(rows, j + 1) /\ t.index = 0
      BY <1>11, <2>2, <2>c, <2>e, <3>1 DEF Open
    <3>5. CASE Len(Upto(rows, j + 1)) < BookDepth
      BY <1>11, <3>3, <3>4, <3>5 DEF AfterStrings, Open
    <3>6. CASE ~(Len(Upto(rows, j + 1)) < BookDepth)
      <4>1. PICK l \in Seq(LevelSet(rows)) : l = Upto(rows, j)
        BY <1>9, UptoSteps
      <4>2. Len(Append(l, LevelOf(row))) = Len(l) + 1 /\ Len(l) \in Nat
        OBVIOUS
      <4>3. Len(l) < BookDepth
        BY <1>11, <4>1 DEF Open
      <4>4. Len(Upto(rows, j + 1)) = BookDepth
        BY <1>4, <3>1, <3>6, <4>1, <4>2, <4>3
      <4>5. Kept(rows) = Upto(rows, j + 1)
        BY <1>9, <3>3, <4>4, KeptAt
      <4>6. Len(Kept(rows)) >= BookDepth
        BY <1>4, <4>4, <4>5
      <4> QED BY <3>4, <4>5, <4>6 DEF AfterStrings, Settled
    <3> QED BY <3>5, <3>6
  <2> QED BY <2>1, <2>2
<1>12. CASE k = 2 /\ Open(rows, j + 1, s) /\ s.index = 0
  <2>0. s.side \notin s.done /\ ~(Len(s.out[s.side]) >= BookDepth)
    BY <1>8, <1>9, <1>12
  <2>1. Len(row) = 3 /\ text = row[3]
    BY <1>1, <1>2, <1>3, <1>12
  <2>2. ~(Len(text) > Row0Cap)
    BY <1>1, <1>4, <2>1
  <2>3. t.side \notin t.done /\ t.out[t.side] = s.out[s.side] /\ t.index = 1
    BY <1>5, <1>6, <1>12, <2>0, <2>2 DEF Collects
  <2> QED BY <1>12, <2>3 DEF AfterStrings, Open
<1>13. k # 3
  BY <1>2
<1> QED BY <1>1, <1>7, <1>10, <1>11, <1>12, <1>13 DEF AfterStrings

-----------------------------------------------------------------------------
(* What the fields that were read say.                                     *)

\* None of the first i fields has this key and this type.
None(fields, i, key, type) == \A l \in 1 .. i : ~(fields[l].key = key /\ fields[l].type = type)

\* The value is that of the field with this key and this type among the first i, if there is
\* one, and otherwise the default.
Holds(fields, i, key, type, value, default) ==
  /\ \A l \in 1 .. i : fields[l].key = key /\ fields[l].type = type => value = fields[l].value
  /\ None(fields, i, key, type) => value = default

\* No field is read yet.
LEMMA HoldsAtStart ==
  \A fields, key, type, default : Holds(fields, 0, key, type, default, default)
BY DEF Holds

\* The next field is another one.
LEMMA HoldsOn ==
  ASSUME NEW fields, NEW i \in Nat, NEW key, NEW type, NEW value, NEW default,
         Holds(fields, i, key, type, value, default),
         ~(fields[i + 1].key = key /\ fields[i + 1].type = type)
  PROVE  /\ Holds(fields, i + 1, key, type, value, default)
         /\ None(fields, i + 1, key, type) <=> None(fields, i, key, type)
<1>1. \A l : l \in 1 .. i + 1 <=> l \in 1 .. i \/ l = i + 1
  OBVIOUS
<1>2. None(fields, i + 1, key, type) <=> None(fields, i, key, type)
  BY <1>1, Zenon DEF None
<1>3. \A l \in 1 .. i + 1 : fields[l].key = key /\ fields[l].type = type => value = fields[l].value
  BY <1>1, Zenon DEF Holds
<1> QED BY <1>2, <1>3, Zenon DEF Holds

\* The next field is the one: there was none before it.
LEMMA HoldsHere ==
  ASSUME NEW fields, NEW i \in Nat, i + 1 \in DOMAIN fields, 1 .. i \subseteq DOMAIN fields,
         Distinct(fields), NEW key, NEW type, NEW default,
         fields[i + 1].key = key, fields[i + 1].type = type
  PROVE  /\ Holds(fields, i + 1, key, type, fields[i + 1].value, default)
         /\ None(fields, i, key, type) /\ ~None(fields, i + 1, key, type)
<1>1. \A l : l \in 1 .. i + 1 <=> l \in 1 .. i \/ l = i + 1
  OBVIOUS
<1>2. \A l \in 1 .. i : l # i + 1
  OBVIOUS
<1>3. \A l \in 1 .. i : fields[l].key # key
  BY <1>2, Zenon DEF Distinct
<1>4. ~None(fields, i + 1, key, type)
  BY <1>1, Zenon DEF None
<1>5. None(fields, i, key, type)
  BY <1>3, Zenon DEF None
<1>6. \A l \in 1 .. i + 1 : fields[l].key = key => l = i + 1
  BY <1>1, <1>3, Zenon
<1>7. \A l \in 1 .. i + 1 : fields[l].key = key /\ fields[l].type = type =>
                              fields[i + 1].value = fields[l].value
  BY <1>6, Zenon
<1> QED BY <1>4, <1>5, <1>7, Zenon DEF Holds

\* All fields are read.
LEMMA HoldsAll ==
  ASSUME NEW fields, NEW n \in Nat, DOMAIN fields = 1 .. n, Distinct(fields),
         NEW key, NEW type, NEW value, NEW default, Holds(fields, n, key, type, value, default)
  PROVE  /\ value = ValueOf(fields, key, type, default)
         /\ Has(fields, key, type) <=> ~None(fields, n, key, type)
<1>1. CASE Has(fields, key, type)
  <2>1. PICK l \in 1 .. n : fields[l].key = key /\ fields[l].type = type
    BY <1>1 DEF Has
  <2>2. \A m \in 1 .. n : fields[m].key = key <=> m = l
    BY <2>1, Zenon DEF Distinct
  <2>3. (CHOOSE m \in DOMAIN fields : fields[m].key = key) = l
    BY <2>1, <2>2
  <2>4. ValueOf(fields, key, type, default) = fields[l].value
    BY <1>1, <2>3, Zenon DEF ValueOf
  <2>5. value = fields[l].value
    BY <2>1, Zenon DEF Holds
  <2>6. ~None(fields, n, key, type)
    BY <2>1, Zenon DEF None
  <2> QED BY <1>1, <2>4, <2>5, <2>6
<1>2. CASE ~Has(fields, key, type)
  <2>1. None(fields, n, key, type)
    BY <1>2, Zenon DEF Has, None
  <2>2. value = default
    BY <2>1, Zenon DEF Holds
  <2> QED BY <1>2, <2>1, <2>2, Zenon DEF ValueOf
<1> QED BY <1>1, <1>2

\* No rows have no levels.
LEMMA KeptOfNone == Kept(<<>>) = <<>>
<1>1. PICK rows \in Seq(Rows) : rows = <<>>
  <2>1. \A T : <<>> \in Seq(T)
    OBVIOUS
  <2> QED BY <2>1, Zenon
<1>2. Len(rows) = 0
  BY <1>1
<1>3. EndsAt(rows, 0)
  BY <1>2 DEF EndsAt, SoundUpto
<1>4. Kept(rows) = AsDeep(Upto(rows, 0)) /\ Upto(rows, 0) = <<>>
  BY <1>3, KeptIs, UptoSteps
<1>5. BookDepth \in Nat
  BY ParserAssumption
<1>6. AsDeep(<<>>) = <<>>
  BY <1>5 DEF AsDeep
<1> QED BY <1>1, <1>4, <1>6

-----------------------------------------------------------------------------
(* Where in a snapshot the reader is, and what the handler knows there.    *)

\* The levels of a side after i fields.
SideAfter(fields, i, s, side) ==
  \E rows : /\ Holds(fields, i, side, "rows", rows, <<>>)
            /\ s.out[side] = Kept(rows)
            /\ None(fields, i, side, "rows") => side \notin s.done

\* The number after i fields.
NumberAfter(fields, i, s) ==
  Holds(fields, i, "lastUpdateId", "Number", s.out.lastUpdateId, 0)

\* Nothing was in the fields that does not belong into a snapshot.
Proper(field) ==
  field.type \in {"String", "Number", "rows"} /\ (field.type = "rows" => field.key \in Sides)

\* Nor in the first i of them.
ProperUpto(fields, i) == \A l \in 1 .. i : Proper(fields[l])

\* What the handler has after i fields.
AfterFields(fields, i, s) ==
  /\ NumberAfter(fields, i, s) /\ ProperUpto(fields, i)
  /\ \A side \in Sides : SideAfter(fields, i, s, side)

\* Inside of the rows of field i + 1.
AmongRows(fields, i, s) ==
  /\ fields[i + 1].type = "rows" /\ s.side = fields[i + 1].key /\ s.side \in Sides
  /\ s.objects = 1 /\ s.pending = "none"
  /\ NumberAfter(fields, i, s) /\ ProperUpto(fields, i)
  /\ \A side \in Sides : side # s.side => SideAfter(fields, i, s, side)

\* The object has not begun: the reset left nothing of an earlier message.
BeforeObject(fields, tokens, s) ==
  /\ tokens = TokensOfFields(fields) \o <<>>
  /\ s.objects = 0 /\ s.arrays = 0 /\ s.done = {}
  /\ s.out = [lastUpdateId |-> 0, bids |-> <<>>, asks |-> <<>>]

\* The object has been read.
BehindObject(fields, tokens, s) == tokens = <<>> /\ AfterFields(fields, Len(fields), s)

\* Field i + 1 is to come, or the end of the object.
BetweenFields(fields, i, tokens, s) ==
  /\ tokens = RestOfFields(fields, i, <<>>)
  /\ s.objects = 1 /\ s.arrays = 0 /\ AfterFields(fields, i, s)

\* The value of field i + 1 is to come: its key is the one that is pending.
BeforeValue(fields, i, tokens, s) ==
  /\ tokens = TokensOfValue(fields[i + 1]) \o RestOfFields(fields, i + 1, <<>>)
  /\ s.objects = 1 /\ s.arrays = 0 /\ AfterFields(fields, i, s)
  /\ s.pending = IF fields[i + 1].key \in {"lastUpdateId", "bids", "asks"}
                 THEN fields[i + 1].key ELSE "none"

\* Row j + 1 of field i + 1 is to come, or the end of the rows.
BetweenRows(fields, i, j, tokens, s) ==
  /\ tokens = RestOfRows(fields[i + 1].value, j, RestOfFields(fields, i + 1, <<>>))
  /\ s.arrays = 1 /\ AmongRows(fields, i, s) /\ AfterRows(fields[i + 1].value, j, s)

\* The string k + 1 of row j + 1 of field i + 1 is to come, or the end of the row.
InRow(fields, i, j, k, tokens, s) ==
  /\ tokens = RestOfRow(fields[i + 1].value[j + 1], k,
                RestOfRows(fields[i + 1].value, j + 1, RestOfFields(fields, i + 1, <<>>)))
  /\ s.arrays = 2 /\ AmongRows(fields, i, s) /\ AfterStrings(fields[i + 1].value, j, k, s)

\* Inside of the arrays of field i + 1, n of them begun.
InArrays(fields, i, n, tokens, s) ==
  /\ fields[i + 1].type = "deep" /\ s.arrays = n /\ s.pending = "none"
  /\ \E b2, b3 : /\ n = 1 => Reads(tokens, StartArrayToken, b2)
                 /\ n = 2 => b2 = tokens
                 /\ Reads(b2, StartArrayToken, b3)

\* Anywhere in field i + 1, in the object, in the message.
InField(fields, i, tokens, s) ==
  \/ BeforeValue(fields, i, tokens, s)
  \/ \E n \in {1, 2} : InArrays(fields, i, n, tokens, s)
  \/ \E j \in 0 .. Len(fields[i + 1].value) : BetweenRows(fields, i, j, tokens, s)
  \/ \E j \in 0 .. Len(fields[i + 1].value) - 1 :
       \E k \in 0 .. Len(fields[i + 1].value[j + 1]) : InRow(fields, i, j, k, tokens, s)

InObject(fields, tokens, s) ==
  \/ \E i \in 0 .. Len(fields) : BetweenFields(fields, i, tokens, s)
  \/ \E i \in 0 .. Len(fields) - 1 : InField(fields, i, tokens, s)

InSnapshot(fields, tokens, s) ==
  \/ BeforeObject(fields, tokens, s) \/ InObject(fields, tokens, s)
  \/ BehindObject(fields, tokens, s)

\* What the last callback made of it.
Reached(fields, tokens) ==
  /\ SnapshotType(snapshot')
  /\ \/ accepted' /\ InSnapshot(fields, tokens, snapshot')
     \/ ~accepted' /\ ~IsSnapshot(fields)

\* The token that is read is the first one.
LEMMA ReadsSame ==
  ASSUME NEW tokens, NEW token, NEW next, NEW token2, NEW next2,
         Reads(tokens, token, next), Reads(tokens, token2, next2)
  PROVE  token = token2 /\ next = next2
BY Zenon DEF Reads

\* The fields of an object.
LEMMA FieldOf ==
  ASSUME NEW fields \in Objects, NEW i \in 0 .. Len(fields) - 1
  PROVE  /\ fields[i + 1] \in Fields /\ i \in Nat /\ i \in 0 .. Len(fields)
         /\ i + 1 \in 0 .. Len(fields)
         /\ i < Len(fields) /\ i + 1 \in DOMAIN fields /\ 1 .. i \subseteq DOMAIN fields
         /\ DOMAIN fields = 1 .. Len(fields) /\ Len(fields) \in Nat
<1>1. fields \in Seq(Fields)
  BY DEF Objects
<1>2. PICK L \in Nat : L = Len(fields) /\ DOMAIN fields = 1 .. L /\ fields \in [1 .. L -> Fields]
  BY <1>1
<1>3. i + 1 \in 1 .. L /\ i \in Nat /\ i \in 0 .. L /\ i + 1 \in 0 .. L /\ i < L
      /\ 1 .. i \subseteq 1 .. L
  BY <1>2
<1>4. fields[i + 1] \in Fields
  BY <1>2, <1>3
<1> QED BY <1>2, <1>3, <1>4

\* A field that does not belong into a snapshot.
LEMMA NotASnapshot ==
  ASSUME NEW fields \in Objects, NEW i \in 0 .. Len(fields) - 1, ~Proper(fields[i + 1])
  PROVE  ~IsSnapshot(fields)
<1>1. i + 1 \in DOMAIN fields
  BY FieldOf
<1> QED BY <1>1 DEF Proper, IsSnapshot, OnlyTypes, RowsOnlyAt, Sides

\* Another proper field is passed.
LEMMA ProperNext ==
  ASSUME NEW fields, NEW i \in Nat, ProperUpto(fields, i), Proper(fields[i + 1])
  PROVE  ProperUpto(fields, i + 1)
<1>1. \A l : l \in 1 .. i + 1 <=> l \in 1 .. i \/ l = i + 1
  OBVIOUS
<1> QED BY <1>1, Zenon DEF ProperUpto

\* The levels of a side stay when a field is passed that is not its rows.
LEMMA SideOn ==
  ASSUME NEW fields, NEW i \in Nat, NEW s, NEW side, SideAfter(fields, i, s, side),
         ~(fields[i + 1].key = side /\ fields[i + 1].type = "rows"),
         NEW t, t.out[side] = s.out[side], side \in t.done <=> side \in s.done
  PROVE  SideAfter(fields, i + 1, t, side)
<1>1. PICK rows : /\ Holds(fields, i, side, "rows", rows, <<>>)
                  /\ s.out[side] = Kept(rows)
                  /\ None(fields, i, side, "rows") => side \notin s.done
  BY Zenon DEF SideAfter
<1>2. /\ Holds(fields, i + 1, side, "rows", rows, <<>>)
      /\ None(fields, i + 1, side, "rows") <=> None(fields, i, side, "rows")
  BY <1>1, HoldsOn, Zenon
<1> QED BY <1>1, <1>2, Zenon DEF SideAfter

\* The object begins.
LEMMA ReadBeforeObject ==
  ASSUME NEW fields \in Objects, NEW tokens, SnapshotType(snapshot),
         BeforeObject(fields, tokens, snapshot), NEW token, NEW next, Reads(tokens, token, next),
         SnapshotCallback(token)
  PROVE  Reached(fields, next)
<1>1. fields \in Seq(Fields) /\ <<>> \in Seq(AnyToken)
  BY DEF Objects
<1>2. Reads(tokens, StartObjectToken, RestOfFields(fields, 0, <<>>))
  BY <1>1, FieldsBegin, Zenon DEF BeforeObject
<1>3. token = StartObjectToken /\ next = RestOfFields(fields, 0, <<>>)
  BY <1>2, ReadsSame, Zenon
<1>4. snapshot' = [snapshot EXCEPT !.objects = 1] /\ accepted'
  BY <1>3 DEF SnapshotCallback, StartObjectToken, Token, BeforeObject,
              SnapshotHandler!SnapshotStartObject, SnapshotHandler!Take
<1>5. /\ SnapshotType(snapshot') /\ snapshot'.objects = 1 /\ snapshot'.arrays = 0
      /\ snapshot'.done = {} /\ snapshot'.out = [lastUpdateId |-> 0, bids |-> <<>>, asks |-> <<>>]
  BY <1>4 DEF SnapshotType, BeforeObject
<1>6. PICK t : t = snapshot'
  OBVIOUS
<1>7. t.out.lastUpdateId = 0 /\ \A side \in Sides : t.out[side] = <<>> /\ side \notin t.done
  BY <1>5, <1>6 DEF Sides
<1>8. NumberAfter(fields, 0, t)
  BY <1>7, HoldsAtStart, Zenon DEF NumberAfter
<1>9. \A side \in Sides : SideAfter(fields, 0, t, side)
  BY <1>7, HoldsAtStart, KeptOfNone, Zenon DEF SideAfter
<1>10. ProperUpto(fields, 0)
  BY DEF ProperUpto
<1>11. BetweenFields(fields, 0, next, t)
  BY <1>3, <1>5, <1>6, <1>8, <1>9, <1>10, Zenon DEF BetweenFields, AfterFields
<1>12. 0 \in 0 .. Len(fields)
  BY <1>1
<1> QED BY <1>4, <1>5, <1>6, <1>11, <1>12, Zenon DEF Reached, InSnapshot, InObject

\* A key is read, or the end of the object.
LEMMA ReadBetweenFields ==
  ASSUME NEW fields \in Objects, NEW i \in 0 .. Len(fields), NEW tokens, SnapshotType(snapshot),
         BetweenFields(fields, i, tokens, snapshot), NEW token, NEW next,
         Reads(tokens, token, next), SnapshotCallback(token)
  PROVE  Reached(fields, next)
<1>1. fields \in Seq(Fields) /\ <<>> \in Seq(AnyToken) /\ Len(fields) \in Nat
  BY DEF Objects
<1>2. CASE i < Len(fields)
  <2>1. Reads(tokens, KeyToken(fields[i + 1]),
              TokensOfValue(fields[i + 1]) \o RestOfFields(fields, i + 1, <<>>))
    BY <1>1, <1>2, FieldsAreRead, Zenon DEF BetweenFields
  <2>2. /\ token = KeyToken(fields[i + 1])
        /\ next = TokensOfValue(fields[i + 1]) \o RestOfFields(fields, i + 1, <<>>)
    BY <2>1, Zenon DEF Reads
  <2>3. PICK key : key = fields[i + 1].key
    OBVIOUS
  <2>4. /\ snapshot' = [snapshot EXCEPT !.pending =
                          IF key \in {"lastUpdateId", "bids", "asks"} THEN key ELSE "none"]
        /\ accepted'
    BY <2>2, <2>3 DEF SnapshotCallback, KeyToken, Token, BetweenFields,
         SnapshotHandler!SnapshotKey, SnapshotHandler!SnapshotKeys, SnapshotHandler!Take
  <2>5. /\ SnapshotType(snapshot')
        /\ snapshot'.objects = 1 /\ snapshot'.arrays = 0
        /\ snapshot'.pending = IF key \in {"lastUpdateId", "bids", "asks"} THEN key ELSE "none"
        /\ snapshot'.out = snapshot.out /\ snapshot'.done = snapshot.done
    BY <2>4 DEF SnapshotType, BetweenFields
  <2>6. PICK t : t = snapshot'
    OBVIOUS
  <2>7. AfterFields(fields, i, t)
    BY <2>5, <2>6 DEF AfterFields, NumberAfter, SideAfter, BetweenFields
  <2>8. BeforeValue(fields, i, next, t)
    BY <2>2, <2>3, <2>5, <2>6, <2>7, Zenon DEF BeforeValue
  <2>9. i \in 0 .. Len(fields) - 1
    BY <1>1, <1>2
  <2> QED BY <2>4, <2>5, <2>6, <2>8, <2>9, Zenon DEF Reached, InSnapshot, InObject, InField
<1>3. CASE ~(i < Len(fields))
  <2>1. i = Len(fields)
    BY <1>1, <1>3
  <2>2. Reads(tokens, EndObjectToken, <<>>)
    BY <1>1, <2>1, FieldsAreRead, Zenon DEF BetweenFields
  <2>3. token = EndObjectToken /\ next = <<>>
    BY <2>2, ReadsSame, Zenon
  <2>4. snapshot' = [snapshot EXCEPT !.objects = 0] /\ accepted'
    BY <2>3 DEF SnapshotCallback, EndObjectToken, Token,
         SnapshotHandler!SnapshotEndObject, SnapshotHandler!Take
  <2>5. /\ SnapshotType(snapshot')
        /\ snapshot'.out = snapshot.out /\ snapshot'.done = snapshot.done
    BY <2>4 DEF SnapshotType
  <2>6. AfterFields(fields, Len(fields), snapshot')
    BY <2>1, <2>5 DEF AfterFields, NumberAfter, SideAfter, BetweenFields
  <2> QED BY <2>3, <2>4, <2>5, <2>6, Zenon DEF Reached, InSnapshot, BehindObject
<1> QED BY <1>2, <1>3

\* The callbacks that a snapshot refuses.
LEMMA RefusedAt ==
  ASSUME NEW fields \in Objects, NEW i \in 0 .. Len(fields) - 1, ~Proper(fields[i + 1]),
         SnapshotType(snapshot), snapshot' = snapshot, accepted' = FALSE, NEW next
  PROVE  Reached(fields, next)
<1>1. ~IsSnapshot(fields)
  BY NotASnapshot
<1>2. SnapshotType(snapshot') /\ ~accepted'
  OBVIOUS
<1> QED BY <1>1, <1>2, Zenon DEF Reached

\* A field with one value is passed.
LEMMA PassedAt ==
  ASSUME NEW fields \in Objects, NEW i \in 0 .. Len(fields) - 1, NEW s, NEW t,
         AfterFields(fields, i, s), fields[i + 1].type \in {"String", "Number"},
         t.out.bids = s.out.bids, t.out.asks = s.out.asks, t.done = s.done,
         t.out.lastUpdateId = IF fields[i + 1].type = "Number" /\ fields[i + 1].key = "lastUpdateId"
                              THEN fields[i + 1].value ELSE s.out.lastUpdateId
  PROVE  AfterFields(fields, i + 1, t)
<1>1. /\ i \in Nat /\ i + 1 \in DOMAIN fields /\ 1 .. i \subseteq DOMAIN fields
  BY FieldOf
<1>2. Distinct(fields)
  BY DEF Objects
<1>3. Proper(fields[i + 1]) /\ fields[i + 1].type # "rows"
  BY DEF Proper
<1>4. ProperUpto(fields, i + 1)
  BY <1>1, <1>3, ProperNext DEF AfterFields
<1>5. ASSUME NEW side \in Sides PROVE SideAfter(fields, i + 1, t, side)
  <2>1. t.out[side] = s.out[side] /\ (side \in t.done <=> side \in s.done)
    BY DEF Sides
  <2>2. SideAfter(fields, i, s, side)
    BY Zenon DEF AfterFields
  <2> QED BY <1>1, <1>3, <2>1, <2>2, SideOn, Zenon
<1>6. NumberAfter(fields, i + 1, t)
  <2>1. CASE fields[i + 1].type = "Number" /\ fields[i + 1].key = "lastUpdateId"
    BY <1>1, <1>2, <2>1, HoldsHere, Zenon DEF NumberAfter
  <2>2. CASE ~(fields[i + 1].type = "Number" /\ fields[i + 1].key = "lastUpdateId")
    <3>1. t.out.lastUpdateId = s.out.lastUpdateId
      BY <2>2, Zenon
    <3>2. Holds(fields, i, "lastUpdateId", "Number", s.out.lastUpdateId, 0)
      BY Zenon DEF AfterFields, NumberAfter
    <3>3. Holds(fields, i + 1, "lastUpdateId", "Number", s.out.lastUpdateId, 0)
      BY <1>1, <2>2, <3>2, HoldsOn, Zenon
    <3> QED BY <3>1, <3>3, Zenon DEF NumberAfter
  <2> QED BY <2>1, <2>2
<1> QED BY <1>4, <1>5, <1>6 DEF AfterFields

\* The value of a field is read, or its first token.
LEMMA ReadBeforeValue ==
  ASSUME NEW fields \in Objects, NEW i \in 0 .. Len(fields) - 1, NEW tokens, SnapshotType(snapshot),
         BeforeValue(fields, i, tokens, snapshot), NEW token, NEW next,
         Reads(tokens, token, next), SnapshotCallback(token)
  PROVE  Reached(fields, next)
<1> DEFINE s == snapshot
<1>1. /\ fields[i + 1] \in Fields /\ i \in Nat /\ i + 1 \in 0 .. Len(fields)
      /\ i + 1 \in DOMAIN fields /\ 1 .. i \subseteq DOMAIN fields
  BY FieldOf
<1>2. fields \in Seq(Fields) /\ <<>> \in Seq(AnyToken) /\ Distinct(fields)
  BY DEF Objects
<1>3. PICK field \in Fields : field = fields[i + 1]
  BY <1>1
<1>4. PICK behind \in Seq(AnyToken) : behind = RestOfFields(fields, i + 1, <<>>)
  BY <1>1, <1>2, FieldsAreRead, Zenon
<1>5. Reads(TokensOfValue(field) \o behind, token, next)
  BY <1>3, <1>4, Zenon DEF BeforeValue
<1>6. /\ s.objects = 1 /\ s.arrays = 0 /\ AfterFields(fields, i, s)
      /\ s.pending = IF field.key \in {"lastUpdateId", "bids", "asks"} THEN field.key ELSE "none"
  BY <1>3, Zenon DEF BeforeValue
<1>7. field.type \in Plain \cup {"rows", "nested", "deep"}
  BY FieldTypes
<1>8. ASSUME NEW t, AfterFields(fields, i + 1, t), t = snapshot', t.objects = 1, t.arrays = 0,
             next = behind, accepted', SnapshotType(t)
      PROVE  Reached(fields, next)
  <2>1. BetweenFields(fields, i + 1, next, t)
    BY <1>4, <1>8, Zenon DEF BetweenFields
  <2> QED BY <1>1, <1>8, <2>1, Zenon DEF Reached, InSnapshot, InObject
<1>9. CASE field.type \in Plain
  <2>1. Reads(TokensOfValue(field) \o behind, Token(field.type, field.value), behind)
    BY <1>9, ValueIsRead, Zenon
  <2>2. token = Token(field.type, field.value) /\ next = behind
    BY <1>5, <2>1, Zenon DEF Reads
  <2>3. token.call = field.type /\ token.value = field.value
    BY <2>2 DEF Token
  <2>4. CASE field.type = "String"
    <3>1. snapshot' = [s EXCEPT !.pending = "none"] /\ accepted'
      BY <1>6, <2>3, <2>4 DEF SnapshotCallback, SnapshotHandler!SnapshotString,
           SnapshotHandler!Take, SnapshotHandler!NotPending
    <3>2. PICK t : t = snapshot'
      OBVIOUS
    <3>3. /\ SnapshotType(t) /\ t.objects = 1 /\ t.arrays = 0 /\ t.done = s.done
          /\ t.out.bids = s.out.bids /\ t.out.asks = s.out.asks
          /\ t.out.lastUpdateId = s.out.lastUpdateId
      BY <1>6, <3>1, <3>2 DEF SnapshotType
    <3>4. AfterFields(fields, i + 1, t)
      BY <1>3, <1>6, <2>4, <3>3, PassedAt
    <3> QED BY <1>8, <2>2, <3>1, <3>2, <3>3, <3>4, Zenon
  <2>5. CASE field.type = "Number"
    <3>1. /\ snapshot' = IF s.pending = "lastUpdateId"
                         THEN [s EXCEPT !.pending = "none", !.out.lastUpdateId = field.value]
                         ELSE [s EXCEPT !.pending = "none"]
          /\ accepted'
      BY <2>3, <2>5 DEF SnapshotCallback, SnapshotHandler!SnapshotNumber,
           SnapshotHandler!Take, SnapshotHandler!NotPending
    <3>2. PICK t : t = snapshot'
      OBVIOUS
    <3>3. s.pending = "lastUpdateId" <=> field.key = "lastUpdateId"
      BY <1>6
    <3>4. field.value \in Nat
      BY <2>5, FieldTypes, Zenon
    <3>5. /\ SnapshotType(t) /\ t.objects = 1 /\ t.arrays = 0 /\ t.done = s.done
          /\ t.out.bids = s.out.bids /\ t.out.asks = s.out.asks
          /\ t.out.lastUpdateId = IF field.key = "lastUpdateId" THEN field.value
                                  ELSE s.out.lastUpdateId
      <4>1. CASE field.key = "lastUpdateId"
        BY <1>6, <3>1, <3>2, <3>3, <3>4, <4>1 DEF SnapshotType
      <4>2. CASE field.key # "lastUpdateId"
        BY <1>6, <3>1, <3>2, <3>3, <4>2 DEF SnapshotType
      <4> QED BY <4>1, <4>2
    <3>6. AfterFields(fields, i + 1, t)
      BY <1>3, <1>6, <2>5, <3>5, PassedAt
    <3> QED BY <1>8, <2>2, <3>1, <3>2, <3>5, <3>6, Zenon
  <2>6. CASE field.type \in {"Bool", "Other"}
    <3>1. snapshot' = snapshot /\ accepted' = FALSE
      BY <2>3, <2>6 DEF SnapshotCallback, SnapshotHandler!Refuse, SnapshotHandler!RefuseAs
    <3>2. ~Proper(fields[i + 1])
      BY <1>3, <2>6 DEF Proper
    <3> QED BY <3>1, <3>2, RefusedAt
  <2> QED BY <1>9, <2>4, <2>5, <2>6 DEF Plain
<1>10. CASE field.type = "nested"
  <2>1. PICK b : Reads(TokensOfValue(field) \o behind, StartObjectToken, b)
    BY <1>10, ValueIsRead, Zenon
  <2>2. token = StartObjectToken
    BY <1>5, <2>1, Zenon DEF Reads
  <2>3. snapshot' = snapshot /\ accepted' = FALSE
    BY <1>6, <2>2 DEF StartObjectToken, Token, SnapshotCallback, SnapshotHandler!Refuse,
         SnapshotHandler!RefuseAs, SnapshotHandler!SnapshotStartObject
  <2>4. ~Proper(fields[i + 1])
    BY <1>3, <1>10 DEF Proper
  <2> QED BY <2>3, <2>4, RefusedAt
<1>11. CASE field.type \in {"rows", "deep"}
  <2>1. token = StartArrayToken
    <3>1. PICK b : Reads(TokensOfValue(field) \o behind, StartArrayToken, b)
      BY <1>11, ValueIsRead DEF ReadsDeep
    <3> QED BY <1>5, <3>1, Zenon DEF Reads
  <2>2. CASE field.key \notin Sides
    <3>1. s.pending \notin Sides
      BY <1>6, <2>2 DEF Sides
    <3>2. snapshot' = snapshot /\ accepted' = FALSE
      BY <1>6, <2>1, <3>1 DEF StartArrayToken, Token, SnapshotCallback,
         SnapshotHandler!Refuse, Sides,
           SnapshotHandler!RefuseAs, SnapshotHandler!SnapshotStartArray, SnapshotHandler!Sides
    <3>3. ~Proper(fields[i + 1])
      BY <1>3, <1>11, <2>2 DEF Proper
    <3> QED BY <3>2, <3>3, RefusedAt
  <2>3. CASE field.key \in Sides
    <3>1. s.pending = field.key
      BY <1>6, <2>3 DEF Sides
    <3>2. /\ snapshot' = [[s EXCEPT !.pending = "none"] EXCEPT !.side = s.pending, !.arrays = @ + 1]
          /\ accepted'
      BY <2>1, <2>3, <3>1 DEF StartArrayToken, Token, SnapshotCallback, Sides,
         SnapshotHandler!SnapshotStartArray, SnapshotHandler!Sides, SnapshotHandler!Take,
         SnapshotHandler!NotPending
    <3>3. PICK t : t = snapshot'
      OBVIOUS
    <3>4. /\ SnapshotType(t) /\ t.objects = 1 /\ t.arrays = 1 /\ t.pending = "none"
          /\ t.side = field.key /\ t.done = s.done /\ t.out = s.out
      <4>1. PICK key : key = s.pending
        OBVIOUS
      <4>2. key \in {"bids", "asks"}
        BY <2>3, <3>1, <4>1 DEF Sides
      <4>3. PICK n : n = s.arrays + 1
        OBVIOUS
      <4>4. n = 1 /\ n \in 0 .. 2
        BY <1>6, <4>3
      <4>5. PICK w : w = [s EXCEPT !.pending = "none"]
        OBVIOUS
      <4>6. SnapshotType(w) /\ w.objects = 1 /\ w.arrays = s.arrays /\ w.pending = "none"
            /\ w.done = s.done /\ w.out = s.out
        BY <1>6, <4>5 DEF SnapshotType
      <4>7. t = [w EXCEPT !.side = key, !.arrays = n]
        BY <3>2, <3>3, <4>1, <4>3, <4>5, <4>6
      <4>8. SnapshotType(t)
        BY <4>2, <4>4, <4>6, <4>7 DEF SnapshotType
      <4>9. t.objects = 1 /\ t.arrays = 1 /\ t.pending = "none"
            /\ t.side = key /\ t.done = s.done /\ t.out = s.out
        BY <4>4, <4>6, <4>7 DEF SnapshotType
      <4> QED BY <3>1, <4>1, <4>8, <4>9
    <3>5. CASE field.type = "deep"
      <4>1. PICK b1, b2, b3 : /\ Reads(TokensOfValue(field) \o behind, StartArrayToken, b1)
                              /\ Reads(b1, StartArrayToken, b2) /\ Reads(b2, StartArrayToken, b3)
        BY <3>5, ValueIsRead, Zenon DEF ReadsDeep
      <4>2. next = b1
        BY <1>5, <4>1, Zenon DEF Reads
      <4>3. InArrays(fields, i, 1, next, t)
        BY <1>3, <3>4, <3>5, <4>1, <4>2 DEF InArrays
      <4> QED BY <3>2, <3>3, <3>4, <4>3 DEF Reached, InSnapshot, InObject, InField
    <3>6. CASE field.type = "rows"
      <4>1. next = RestOfRows(field.value, 0, behind)
        <5>1. Reads(TokensOfValue(field) \o behind, StartArrayToken,
                    RestOfRows(field.value, 0, behind))
          BY <3>6, ValueIsRead, Zenon
        <5> QED BY <1>5, <5>1, Zenon DEF Reads
      <4>2. PICK rows \in Seq(Rows) : rows = field.value
        BY <3>6, FieldTypes, Zenon
      <4>3. None(fields, i, field.key, "rows")
        BY <1>1, <1>2, <1>3, <3>6, HoldsHere, Zenon
      <4>4. SideAfter(fields, i, s, field.key)
        BY <1>6, <2>3, Zenon DEF AfterFields
      <4>5. s.out[field.key] = <<>> /\ field.key \notin s.done
        BY <4>3, <4>4, KeptOfNone, Zenon DEF SideAfter, Holds
      <4>6. AfterRows(rows, 0, t)
        BY <3>4, <4>5, RowsStart
      <4>7. AmongRows(fields, i, t)
        BY <1>3, <1>6, <2>3, <3>4, <3>6 DEF AmongRows, AfterFields, NumberAfter, SideAfter
      <4>8. BetweenRows(fields, i, 0, next, t)
        BY <1>3, <1>4, <3>4, <4>1, <4>2, <4>6, <4>7, Zenon DEF BetweenRows
      <4>9. 0 \in 0 .. Len(fields[i + 1].value)
        BY <1>3, <4>2
      <4> QED BY <3>2, <3>3, <3>4, <4>8, <4>9, Zenon DEF Reached, InSnapshot, InObject, InField
    <3> QED BY <1>11, <3>5, <3>6
  <2> QED BY <2>2, <2>3
<1> QED BY <1>7, <1>9, <1>10, <1>11

\* The members stay of their types when an array begins or ends.
IsRowBegun(s, n, t) == t = [s EXCEPT !.arrays = n, !.index = 0]

\* So they do when a row begins ...
LEMMA RowBegun ==
  ASSUME NEW s, SnapshotType(s), NEW n \in 0 .. 2, NEW t, IsRowBegun(s, n, t)
  PROVE  /\ SnapshotType(t) /\ t.arrays = n /\ t.objects = s.objects
         /\ t.index = 0 /\ t.pending = s.pending /\ t.side = s.side
         /\ t.done = s.done /\ t.out = s.out
<1>1. SnapshotType(t)
  BY DEF SnapshotType, IsRowBegun
<1>2. /\ t.arrays = n /\ t.objects = s.objects
         /\ t.index = 0 /\ t.pending = s.pending /\ t.side = s.side
      /\ t.done = s.done /\ t.out = s.out
  BY DEF SnapshotType, IsRowBegun
<1> QED BY <1>1, <1>2

IsRowEnded(s, n, t) == t = [s EXCEPT !.index = 0, !.arrays = n]

\* ... or ends ...
LEMMA RowEnded ==
  ASSUME NEW s, SnapshotType(s), NEW n \in 0 .. 2, NEW t, IsRowEnded(s, n, t)
  PROVE  /\ SnapshotType(t) /\ t.arrays = n /\ t.objects = s.objects
         /\ t.index = 0 /\ t.pending = s.pending /\ t.side = s.side
         /\ t.done = s.done /\ t.out = s.out
<1>1. SnapshotType(t)
  BY DEF SnapshotType, IsRowEnded
<1>2. /\ t.arrays = n /\ t.objects = s.objects
         /\ t.index = 0 /\ t.pending = s.pending /\ t.side = s.side
      /\ t.done = s.done /\ t.out = s.out
  BY DEF SnapshotType, IsRowEnded
<1> QED BY <1>1, <1>2

IsRowsEnded(s, n, t) == t = [s EXCEPT !.side = "none", !.arrays = n]

\* ... or the rows end.
LEMMA RowsEnded ==
  ASSUME NEW s, SnapshotType(s), NEW n \in 0 .. 2, NEW t, IsRowsEnded(s, n, t)
  PROVE  /\ SnapshotType(t) /\ t.arrays = n /\ t.objects = s.objects
         /\ t.done = s.done /\ t.out = s.out
<1>1. SnapshotType(t)
  BY DEF SnapshotType, IsRowsEnded
<1>2. /\ t.arrays = n /\ t.objects = s.objects
      /\ t.done = s.done /\ t.out = s.out
  BY DEF SnapshotType, IsRowsEnded
<1> QED BY <1>1, <1>2

\* An array too many is refused.
LEMMA ReadInArrays ==
  ASSUME NEW fields \in Objects, NEW i \in 0 .. Len(fields) - 1, NEW n \in {1, 2}, NEW tokens,
         SnapshotType(snapshot), InArrays(fields, i, n, tokens, snapshot), NEW token, NEW next,
         Reads(tokens, token, next), SnapshotCallback(token)
  PROVE  Reached(fields, next)
<1>1. PICK b2, b3 : /\ n = 1 => Reads(tokens, StartArrayToken, b2)
                    /\ n = 2 => b2 = tokens
                    /\ Reads(b2, StartArrayToken, b3)
  BY Zenon DEF InArrays
<1>2. token = StartArrayToken /\ (n = 1 => next = b2)
  BY <1>1 DEF Reads
<1>3. /\ fields[i + 1].type = "deep" /\ snapshot.arrays = n /\ snapshot.pending = "none"
  BY DEF InArrays
<1>4. CASE n = 1
  <2>1. snapshot' = [snapshot EXCEPT !.arrays = 2, !.index = 0] /\ accepted'
    BY <1>2, <1>3, <1>4 DEF StartArrayToken, Token, SnapshotCallback, SnapshotHandler!Sides,
         SnapshotHandler!SnapshotStartArray, SnapshotHandler!Take
  <2>2. PICK t : t = snapshot'
    OBVIOUS
  <2>3. SnapshotType(t) /\ t.arrays = 2 /\ t.pending = "none"
    <3>1. PICK m \in 0 .. 2 : m = 2
      OBVIOUS
    <3>9. IsRowBegun(snapshot, m, t)
      BY <3>1, <2>1, <2>2 DEF IsRowBegun
    <3>10. /\ SnapshotType(t) /\ t.arrays = m /\ t.objects = snapshot.objects
           /\ t.index = 0 /\ t.pending = snapshot.pending /\ t.side = snapshot.side
           /\ t.done = snapshot.done /\ t.out = snapshot.out
      BY <3>9, RowBegun
    <3> QED BY <1>3, <3>1, <3>10
  <2>4. InArrays(fields, i, 2, next, t)
    BY <1>1, <1>2, <1>3, <1>4, <2>3 DEF InArrays
  <2> QED BY <2>1, <2>2, <2>3, <2>4 DEF Reached, InSnapshot, InObject, InField
<1>5. CASE n = 2
  <2>1. snapshot' = snapshot /\ accepted' = FALSE
    BY <1>2, <1>3, <1>5 DEF StartArrayToken, Token, SnapshotCallback, SnapshotHandler!Sides,
         SnapshotHandler!SnapshotStartArray, SnapshotHandler!Refuse, SnapshotHandler!RefuseAs
  <2>2. ~Proper(fields[i + 1])
    BY <1>3 DEF Proper
  <2> QED BY <2>1, <2>2, RefusedAt
<1> QED BY <1>4, <1>5

\* A row begins, or the rows end.
LEMMA ReadBetweenRows ==
  ASSUME NEW fields \in Objects, NEW i \in 0 .. Len(fields) - 1,
         NEW j \in 0 .. Len(fields[i + 1].value), NEW tokens, SnapshotType(snapshot),
         BetweenRows(fields, i, j, tokens, snapshot), NEW token, NEW next,
         Reads(tokens, token, next), SnapshotCallback(token)
  PROVE  Reached(fields, next)
<1> DEFINE s == snapshot
<1>1. /\ fields[i + 1] \in Fields /\ i \in Nat /\ i + 1 \in 0 .. Len(fields)
      /\ i + 1 \in DOMAIN fields /\ 1 .. i \subseteq DOMAIN fields
  BY FieldOf
<1>2. fields \in Seq(Fields) /\ <<>> \in Seq(AnyToken) /\ Distinct(fields)
  BY DEF Objects
<1>3. PICK field \in Fields : field = fields[i + 1]
  BY <1>1
<1>4. PICK behind \in Seq(AnyToken) : behind = RestOfFields(fields, i + 1, <<>>)
  BY <1>1, <1>2, FieldsAreRead, Zenon
<1>5. AmongRows(fields, i, s) /\ s.arrays = 1
  BY Zenon DEF BetweenRows
<1>6. PICK rows \in Seq(Rows) : rows = field.value
  BY <1>3, <1>5, FieldTypes, Zenon DEF AmongRows
<1>7. tokens = RestOfRows(rows, j, behind) /\ AfterRows(rows, j, s)
  BY <1>3, <1>4, <1>6, Zenon DEF BetweenRows
<1>8. j \in 0 .. Len(rows)
  BY <1>3, <1>6
<1>9. Len(rows) \in Nat
  OBVIOUS
<1>10. CASE j < Len(rows)
  <2>1. token = StartArrayToken /\ next = RestOfRow(rows[j + 1], 0, RestOfRows(rows, j + 1, behind))
    <3>1. Reads(tokens, StartArrayToken, RestOfRow(rows[j + 1], 0, RestOfRows(rows, j + 1, behind)))
      BY <1>7, <1>8, <1>10, RowsAreRead, Zenon
    <3> QED BY <3>1, Zenon DEF Reads
  <2>2. snapshot' = [s EXCEPT !.arrays = 2, !.index = 0] /\ accepted'
    BY <1>5, <2>1 DEF AmongRows, StartArrayToken, Token, SnapshotCallback, SnapshotHandler!Sides,
         SnapshotHandler!SnapshotStartArray, SnapshotHandler!Take
  <2>3. PICK t : t = snapshot'
    OBVIOUS
  <2>4. SnapshotType(t) /\ t.arrays = 2 /\ t.index = 0 /\ t.objects = s.objects
        /\ t.pending = s.pending /\ t.side = s.side /\ t.done = s.done /\ t.out = s.out
    <3>1. PICK m \in 0 .. 2 : m = 2
      OBVIOUS
    <3>9. IsRowBegun(snapshot, m, t)
      BY <3>1, <2>2, <2>3 DEF IsRowBegun
    <3>10. /\ SnapshotType(t) /\ t.arrays = m /\ t.objects = snapshot.objects
           /\ t.index = 0 /\ t.pending = snapshot.pending /\ t.side = snapshot.side
           /\ t.done = snapshot.done /\ t.out = snapshot.out
      BY <3>9, RowBegun, Zenon
    <3> QED BY <3>1, <3>10
  <2>5. AmongRows(fields, i, t)
    BY <1>5, <2>4 DEF AmongRows, NumberAfter, SideAfter
  <2>6. AfterStrings(rows, j, 0, t)
    BY <1>7, <2>4, RowStart
  <2>7. InRow(fields, i, j, 0, next, t)
    BY <1>3, <1>4, <1>6, <2>1, <2>4, <2>5, <2>6, Zenon DEF InRow
  <2>8. j \in 0 .. Len(rows) - 1
    BY <1>8, <1>9, <1>10
  <2>9. 0 \in 0 .. Len(rows[j + 1])
    BY <2>8, RowOf
  <2>10. j \in 0 .. Len(fields[i + 1].value) - 1 /\ 0 \in 0 .. Len(fields[i + 1].value[j + 1])
    BY <1>3, <1>6, <2>8, <2>9, Zenon
  <2>11. i \in 0 .. Len(fields) - 1
    OBVIOUS
  <2> QED BY <2>2, <2>3, <2>4, <2>7, <2>10, <2>11, Zenon DEF Reached, InSnapshot, InObject, InField
<1>11. CASE ~(j < Len(rows))
  <2>0. j = Len(rows)
    BY <1>8, <1>9, <1>11
  <2>1. token = EndArrayToken /\ next = behind
    <3>1. Reads(tokens, EndArrayToken, behind)
      BY <1>7, <1>8, <2>0, RowsAreRead, Zenon
    <3> QED BY <3>1, Zenon DEF Reads
  <2>2. snapshot' = [s EXCEPT !.side = "none", !.arrays = 0] /\ accepted'
    BY <1>5, <2>1 DEF EndArrayToken, Token, SnapshotCallback,
         SnapshotHandler!SnapshotEndArray, SnapshotHandler!Take
  <2>3. PICK t : t = snapshot'
    OBVIOUS
  <2>4. SnapshotType(t) /\ t.arrays = 0 /\ t.objects = 1 /\ t.done = s.done /\ t.out = s.out
    <3>1. 0 \in 0 .. 2
      OBVIOUS
    <3>2. s.objects = 1
      BY <1>5 DEF AmongRows
    <3>9. IsRowsEnded(snapshot, 0, t)
      BY <2>2, <2>3 DEF IsRowsEnded
    <3> QED BY <3>1, <3>2, <3>9, RowsEnded, Zenon
  <2>5. s.out[s.side] = Kept(rows)
    BY <1>7, <2>0, RowsEnd
  <2>6. /\ field.type = "rows" /\ s.side = field.key /\ s.side \in Sides
        /\ \A side \in Sides : side # s.side => SideAfter(fields, i, s, side)
    BY <1>3, <1>5, Zenon DEF AmongRows
  <2>7. ASSUME NEW side \in Sides PROVE SideAfter(fields, i + 1, t, side)
    <3>1. CASE side = s.side
      <4>1. /\ Holds(fields, i + 1, side, "rows", rows, <<>>)
            /\ ~None(fields, i + 1, side, "rows")
        BY <1>1, <1>2, <1>3, <1>6, <2>6, <3>1, HoldsHere, Zenon
      <4> QED BY <2>4, <2>5, <3>1, <4>1, Zenon DEF SideAfter
    <3>2. CASE side # s.side
      <4>1. SideAfter(fields, i, s, side)
        BY <2>6, <3>2, Zenon
      <4>2. ~(fields[i + 1].key = side /\ fields[i + 1].type = "rows")
        BY <1>3, <2>6, <3>2
      <4>3. t.out[side] = s.out[side] /\ (side \in t.done <=> side \in s.done)
        BY <2>4
      <4> QED BY <1>1, <4>1, <4>2, <4>3, SideOn, Zenon
    <3> QED BY <3>1, <3>2
  <2>8. ProperUpto(fields, i + 1)
    <3>1. Proper(fields[i + 1])
      BY <1>3, <2>6 DEF Proper
    <3> QED BY <1>1, <1>5, <3>1, ProperNext DEF AmongRows
  <2>9. NumberAfter(fields, i + 1, t)
    <3>1. Holds(fields, i, "lastUpdateId", "Number", s.out.lastUpdateId, 0)
      BY <1>5, Zenon DEF AmongRows, NumberAfter
    <3>2. ~(fields[i + 1].key = "lastUpdateId" /\ fields[i + 1].type = "Number")
      BY <1>3, <2>6
    <3>3. Holds(fields, i + 1, "lastUpdateId", "Number", s.out.lastUpdateId, 0)
      BY <1>1, <3>1, <3>2, HoldsOn, Zenon
    <3> QED BY <2>4, <3>3, Zenon DEF NumberAfter
  <2>10. BetweenFields(fields, i + 1, next, t)
    BY <1>4, <2>1, <2>4, <2>7, <2>8, <2>9, Zenon DEF BetweenFields, AfterFields
  <2> QED BY <1>1, <2>2, <2>3, <2>4, <2>10, Zenon DEF Reached, InSnapshot, InObject
<1> QED BY <1>10, <1>11

\* A string of a row is read, or its end.
LEMMA ReadInRow ==
  ASSUME NEW fields \in Objects, NEW i \in 0 .. Len(fields) - 1,
         NEW j \in 0 .. Len(fields[i + 1].value) - 1,
         NEW k \in 0 .. Len(fields[i + 1].value[j + 1]), NEW tokens, SnapshotType(snapshot),
         InRow(fields, i, j, k, tokens, snapshot), NEW token, NEW next,
         Reads(tokens, token, next), SnapshotCallback(token)
  PROVE  Reached(fields, next)
<1> DEFINE s == snapshot
<1>1. fields[i + 1] \in Fields /\ i + 1 \in 0 .. Len(fields)
  BY FieldOf
<1>2. fields \in Seq(Fields) /\ <<>> \in Seq(AnyToken)
  BY DEF Objects
<1>3. PICK field \in Fields : field = fields[i + 1]
  BY <1>1
<1>4. PICK behind \in Seq(AnyToken) : behind = RestOfFields(fields, i + 1, <<>>)
  BY <1>1, <1>2, FieldsAreRead, Zenon
<1>5. AmongRows(fields, i, s) /\ s.arrays = 2
  BY Zenon DEF InRow
<1>6. PICK rows \in Seq(Rows) : rows = field.value
  BY <1>3, <1>5, FieldTypes, Zenon DEF AmongRows
<1>7. j \in 0 .. Len(rows) - 1
  BY <1>3, <1>6
<1>8. PICK row \in Seq(Seq(STRING)) : row = rows[j + 1]
  BY <1>7, RowOf
<1>9. PICK more \in Seq(AnyToken) : more = RestOfRows(rows, j + 1, behind)
  <2>1. j + 1 \in 0 .. Len(rows)
    BY <1>7, RowOf, Zenon
  <2> QED BY <2>1, RowsAreRead, Zenon
<1>10. tokens = RestOfRow(row, k, more) /\ AfterStrings(rows, j, k, s)
  BY <1>3, <1>4, <1>6, <1>8, <1>9, Zenon DEF InRow
<1>11. k \in 0 .. Len(row) /\ Len(row) \in Nat
  BY <1>3, <1>6, <1>8
<1>12. CASE k < Len(row)
  <2>0. k \in 0 .. Len(row) - 1 /\ k + 1 \in 0 .. Len(row) /\ k + 1 \in 1 .. Len(row)
    BY <1>11, <1>12
  <2>1. PICK text \in Seq(STRING) : text = row[k + 1]
    BY <2>0
  <2>2. token = StringToken(text) /\ next = RestOfRow(row, k + 1, more)
    <3>1. Reads(tokens, StringToken(text), RestOfRow(row, k + 1, more))
      BY <1>10, <1>11, <1>12, <2>1, RowIsRead, Zenon
    <3> QED BY <3>1, Zenon DEF Reads
  <2>3. SnapshotHandler!RowString(text)
    BY <1>5, <2>2 DEF StringToken, Token, SnapshotCallback, SnapshotHandler!SnapshotString
  <2>4. s.side \in Sides
    BY <1>5 DEF AmongRows
  <2>5. /\ accepted' /\ SnapshotType(snapshot') /\ Steady(s, snapshot')
        /\ Collects(s, text, snapshot')
    BY <2>3, <2>4, RowStringCollects
  <2>6. PICK t : t = snapshot'
    OBVIOUS
  <2>7. AfterStrings(rows, j, k + 1, t)
    <3>1. Steady(s, t) /\ Collects(s, rows[j + 1][k + 1], t)
      BY <1>8, <2>1, <2>5, <2>6, Zenon
    <3>2. k \in 0 .. Len(rows[j + 1]) - 1
      BY <1>8, <2>0, Zenon
    <3> QED BY <1>7, <1>10, <2>4, <3>1, <3>2, StringRead, Zenon
  <2>8. AmongRows(fields, i, t) /\ t.arrays = 2
    <3>1. Steady(s, t)
      BY <2>5, <2>6, Zenon
    <3>2. /\ t.objects = s.objects /\ t.arrays = s.arrays
          /\ t.pending = s.pending /\ t.side = s.side
          /\ t.out.lastUpdateId = s.out.lastUpdateId
          /\ \A y \in Sides : y # s.side => t.out[y] = s.out[y] /\ (y \in t.done <=> y \in s.done)
      BY <3>1, Zenon DEF Steady
    <3>3. \A side \in Sides : side # s.side => SideAfter(fields, i, t, side)
      BY <1>5, <3>2, Zenon DEF AmongRows, SideAfter
    <3>4. NumberAfter(fields, i, t)
      BY <1>5, <3>2, Zenon DEF AmongRows, NumberAfter
    <3> QED BY <1>5, <3>2, <3>3, <3>4, Zenon DEF AmongRows
  <2>9. InRow(fields, i, j, k + 1, next, t)
    BY <1>3, <1>4, <1>6, <1>8, <1>9, <2>2, <2>7, <2>8, Zenon DEF InRow
  <2>10. /\ k + 1 \in 0 .. Len(fields[i + 1].value[j + 1])
         /\ j \in 0 .. Len(fields[i + 1].value) - 1
         /\ i \in 0 .. Len(fields) - 1
    BY <1>3, <1>6, <1>8, <2>0, Zenon
  <2> QED BY <2>5, <2>6, <2>9, <2>10, Zenon DEF Reached, InSnapshot, InObject, InField
<1>13. CASE ~(k < Len(row))
  <2>0. k = Len(row)
    BY <1>11, <1>13
  <2>1. token = EndArrayToken /\ next = more
    <3>1. Reads(tokens, EndArrayToken, more)
      BY <1>10, <1>11, <2>0, RowIsRead, Zenon
    <3> QED BY <3>1, Zenon DEF Reads
  <2>2. snapshot' = [s EXCEPT !.index = 0, !.arrays = 1] /\ accepted'
    BY <1>5, <2>1 DEF EndArrayToken, Token, SnapshotCallback,
         SnapshotHandler!SnapshotEndArray, SnapshotHandler!Take
  <2>3. PICK t : t = snapshot'
    OBVIOUS
  <2>4. SnapshotType(t) /\ t.arrays = 1 /\ t.objects = s.objects
        /\ t.pending = s.pending /\ t.side = s.side /\ t.done = s.done /\ t.out = s.out
    <3>1. PICK m \in 0 .. 2 : m = 1
      OBVIOUS
    <3>9. IsRowEnded(snapshot, m, t)
      BY <3>1, <2>2, <2>3 DEF IsRowEnded
    <3>10. /\ SnapshotType(t) /\ t.arrays = m /\ t.objects = snapshot.objects
           /\ t.index = 0 /\ t.pending = snapshot.pending /\ t.side = snapshot.side
           /\ t.done = snapshot.done /\ t.out = snapshot.out
      BY <3>9, RowEnded, Zenon
    <3> QED BY <3>1, <3>10
  <2>5. AfterRows(rows, j + 1, t)
    <3>1. AfterStrings(rows, j, Len(rows[j + 1]), s)
      BY <1>8, <1>10, <2>0, Zenon
    <3> QED BY <1>7, <2>4, <3>1, RowEnd
  <2>6. AmongRows(fields, i, t)
    BY <1>5, <2>4 DEF AmongRows, NumberAfter, SideAfter
  <2>7. BetweenRows(fields, i, j + 1, next, t)
    BY <1>3, <1>4, <1>6, <1>9, <2>1, <2>4, <2>5, <2>6, Zenon DEF BetweenRows
  <2>8. j + 1 \in 0 .. Len(fields[i + 1].value)
    <3>1. j + 1 \in 0 .. Len(rows)
      BY <1>7, RowOf, Zenon
    <3> QED BY <1>3, <1>6, <3>1, Zenon
  <2> QED BY <2>2, <2>3, <2>4, <2>7, <2>8, Zenon DEF Reached, InSnapshot, InObject, InField
<1> QED BY <1>12, <1>13

\* One more token is read, wherever the reader is.
LEMMA ReadInSnapshot ==
  ASSUME NEW fields \in Objects, NEW tokens, tokens # <<>>, SnapshotType(snapshot),
         InSnapshot(fields, tokens, snapshot), NEW token, NEW next, Reads(tokens, token, next),
         SnapshotCallback(token)
  PROVE  Reached(fields, next)
<1>1. CASE BeforeObject(fields, tokens, snapshot)
  BY <1>1, ReadBeforeObject
<1>2. CASE BehindObject(fields, tokens, snapshot)
  BY <1>2 DEF BehindObject
<1>3. ASSUME NEW i \in 0 .. Len(fields), BetweenFields(fields, i, tokens, snapshot)
      PROVE  Reached(fields, next)
  BY <1>3, ReadBetweenFields
<1>4. ASSUME NEW i \in 0 .. Len(fields) - 1, InField(fields, i, tokens, snapshot)
      PROVE  Reached(fields, next)
  <2>1. CASE BeforeValue(fields, i, tokens, snapshot)
    BY <2>1, ReadBeforeValue
  <2>2. ASSUME NEW n \in {1, 2}, InArrays(fields, i, n, tokens, snapshot)
        PROVE  Reached(fields, next)
    BY <2>2, ReadInArrays
  <2>3. ASSUME NEW j \in 0 .. Len(fields[i + 1].value),
               BetweenRows(fields, i, j, tokens, snapshot)
        PROVE  Reached(fields, next)
    BY <2>3, ReadBetweenRows
  <2>4. ASSUME NEW j \in 0 .. Len(fields[i + 1].value) - 1,
               NEW k \in 0 .. Len(fields[i + 1].value[j + 1]),
               InRow(fields, i, j, k, tokens, snapshot)
        PROVE  Reached(fields, next)
    BY <2>4, ReadInRow
  <2> QED BY <1>4, <2>1, <2>2, <2>3, <2>4, Zenon DEF InField
<1> QED BY <1>1, <1>2, <1>3, <1>4, Zenon DEF InSnapshot, InObject

\* There is always a token to be read before the object has ended.
LEMMA NotYetRead ==
  ASSUME NEW fields \in Objects, NEW tokens, tokens = <<>>, NEW s, InSnapshot(fields, tokens, s)
  PROVE  BehindObject(fields, tokens, s)
<1> SUFFICES ASSUME ~BehindObject(fields, tokens, s)
             PROVE  \E token, next : Reads(tokens, token, next)
  BY Zenon DEF Reads
<1>1. fields \in Seq(Fields) /\ <<>> \in Seq(AnyToken) /\ Len(fields) \in Nat
  BY DEF Objects
<1>2. CASE BeforeObject(fields, tokens, s)
  BY <1>1, <1>2, FieldsBegin, Zenon DEF BeforeObject
<1>3. ASSUME NEW i \in 0 .. Len(fields), BetweenFields(fields, i, tokens, s)
      PROVE  \E token, next : Reads(tokens, token, next)
  <2>1. i < Len(fields) \/ i = Len(fields)
    BY <1>1
  <2>2. tokens = RestOfFields(fields, i, <<>>)
    BY <1>3, Zenon DEF BetweenFields
  <2>3. CASE i < Len(fields)
    <3>1. Reads(RestOfFields(fields, i, <<>>), KeyToken(fields[i + 1]),
                TokensOfValue(fields[i + 1]) \o RestOfFields(fields, i + 1, <<>>))
      BY <1>1, <2>3, FieldsAreRead
    <3> QED BY <2>2, <3>1, Zenon
  <2>4. CASE i = Len(fields)
    <3>1. Reads(RestOfFields(fields, i, <<>>), EndObjectToken, <<>>)
      BY <1>1, <2>4, FieldsAreRead
    <3> QED BY <2>2, <3>1, Zenon
  <2> QED BY <2>1, <2>3, <2>4
<1>4. ASSUME NEW i \in 0 .. Len(fields) - 1, InField(fields, i, tokens, s)
      PROVE  \E token, next : Reads(tokens, token, next)
  <2>1. PICK field \in Fields : field = fields[i + 1]
    BY FieldOf
  <2>2. PICK behind \in Seq(AnyToken) : behind = RestOfFields(fields, i + 1, <<>>)
    <3>1. i + 1 \in 0 .. Len(fields)
      BY FieldOf
    <3> QED BY <1>1, <3>1, FieldsAreRead, Zenon
  <2>3. CASE BeforeValue(fields, i, tokens, s)
    <3>1. tokens = TokensOfValue(field) \o behind
      BY <2>1, <2>2, <2>3, Zenon DEF BeforeValue
    <3>2. field.type \in Plain \cup {"rows", "nested", "deep"}
      BY FieldTypes
    <3>3. CASE field.type \in Plain
      BY <3>1, <3>3, ValueIsRead, Zenon
    <3>4. CASE field.type = "nested"
      BY <3>1, <3>4, ValueIsRead, Zenon
    <3>5. CASE field.type = "deep"
      <4>1. ReadsDeep(TokensOfValue(field) \o behind)
        BY <3>5, ValueIsRead
      <4>2. PICK b1, b2, b3 \in Seq(AnyToken) :
              Reads(TokensOfValue(field) \o behind, StartArrayToken, b1)
        BY <4>1, Zenon DEF ReadsDeep
      <4> QED BY <3>1, <4>2, Zenon
    <3>6. CASE field.type = "rows"
      BY <3>1, <3>6, ValueIsRead, Zenon
    <3> QED BY <3>2, <3>3, <3>4, <3>5, <3>6
  <2>4. ASSUME NEW n \in {1, 2}, InArrays(fields, i, n, tokens, s)
        PROVE  \E token, next : Reads(tokens, token, next)
    <3>1. n = 1 \/ n = 2
      OBVIOUS
    <3> QED BY <2>4, <3>1, Zenon DEF InArrays
  <2>5. ASSUME NEW j \in 0 .. Len(fields[i + 1].value), BetweenRows(fields, i, j, tokens, s)
        PROVE  \E token, next : Reads(tokens, token, next)
    <3>1. PICK rows \in Seq(Rows) : rows = field.value
      BY <2>1, <2>5, FieldTypes, Zenon DEF BetweenRows, AmongRows
    <3>2. tokens = RestOfRows(rows, j, behind)
      BY <2>1, <2>2, <2>5, <3>1, Zenon DEF BetweenRows
    <3>3. j \in 0 .. Len(rows) /\ (j < Len(rows) \/ j = Len(rows))
      BY <2>1, <3>1
    <3> QED BY <3>2, <3>3, RowsAreRead, Zenon
  <2>6. ASSUME NEW j \in 0 .. Len(fields[i + 1].value) - 1,
               NEW k \in 0 .. Len(fields[i + 1].value[j + 1]), InRow(fields, i, j, k, tokens, s)
        PROVE  \E token, next : Reads(tokens, token, next)
    <3>1. PICK rows \in Seq(Rows) : rows = field.value
      BY <2>1, <2>6, FieldTypes, Zenon DEF InRow, AmongRows
    <3>2. j \in 0 .. Len(rows) - 1
      BY <2>1, <3>1
    <3>3. PICK row \in Seq(Seq(STRING)) : row = rows[j + 1]
      BY <3>2, RowOf
    <3>4. PICK more \in Seq(AnyToken) : more = RestOfRows(rows, j + 1, behind)
      <4>1. j + 1 \in 0 .. Len(rows)
        BY <3>2, RowOf, Zenon
      <4> QED BY <4>1, RowsAreRead, Zenon
    <3>5. tokens = RestOfRow(row, k, more)
      BY <2>1, <2>2, <2>6, <3>1, <3>3, <3>4, Zenon DEF InRow
    <3>6. k \in 0 .. Len(row) /\ (k < Len(row) \/ k = Len(row))
      BY <2>1, <3>1, <3>3
    <3>7. CASE k < Len(row)
      <4>1. Reads(RestOfRow(row, k, more), StringToken(row[k + 1]), RestOfRow(row, k + 1, more))
        BY <3>6, <3>7, RowIsRead
      <4> QED BY <3>5, <4>1, Zenon
    <3>8. CASE k = Len(row)
      <4>1. Reads(RestOfRow(row, k, more), EndArrayToken, more)
        BY <3>6, <3>8, RowIsRead
      <4> QED BY <3>5, <4>1, Zenon
    <3> QED BY <3>6, <3>7, <3>8
  <2> QED BY <1>4, <2>3, <2>4, <2>5, <2>6, Zenon DEF InField
<1> QED BY <1>2, <1>3, <1>4, Zenon DEF InSnapshot, InObject

\* What the handler has behind the object is what was sent.
LEMMA SnapshotIsWhole ==
  ASSUME NEW fields \in Objects, NEW tokens, NEW s, SnapshotType(s), BehindObject(fields, tokens, s)
  PROVE  IsSnapshot(fields) /\ s.out = SnapshotOf(fields)
<1>1. fields \in Seq(Fields) /\ Distinct(fields)
  BY DEF Objects
<1>2. PICK n \in Nat : n = Len(fields) /\ DOMAIN fields = 1 .. n
  BY <1>1
<1>3. AfterFields(fields, n, s)
  BY <1>2, Zenon DEF BehindObject
<1>4. IsSnapshot(fields)
  BY <1>2, <1>3 DEF AfterFields, ProperUpto, Proper, IsSnapshot, OnlyTypes, RowsOnlyAt, Sides
<1>5. s.out.lastUpdateId = ValueOf(fields, "lastUpdateId", "Number", 0)
  <2>1. Holds(fields, n, "lastUpdateId", "Number", s.out.lastUpdateId, 0)
    BY <1>3, Zenon DEF AfterFields, NumberAfter
  <2>2. PICK id : id = s.out.lastUpdateId
    OBVIOUS
  <2>3. Holds(fields, n, "lastUpdateId", "Number", id, 0)
    BY <2>1, <2>2, Zenon
  <2>4. id = ValueOf(fields, "lastUpdateId", "Number", 0)
    BY <1>1, <1>2, <2>3, HoldsAll
  <2> QED BY <2>2, <2>4
<1>6. ASSUME NEW side \in Sides PROVE s.out[side] = SnapshotLevels(fields, side)
  <2>1. PICK rows : Holds(fields, n, side, "rows", rows, <<>>) /\ s.out[side] = Kept(rows)
    BY <1>3, Zenon DEF AfterFields, SideAfter
  <2>2. rows = ValueOf(fields, side, "rows", <<>>)
    <3>1. Holds(fields, n, side, "rows", rows, <<>>)
      BY <2>1
    <3> QED BY <1>1, <1>2, <3>1, HoldsAll
  <2>3. SnapshotLevels(fields, side) = Kept(rows)
    BY <2>2, Zenon DEF SnapshotLevels, Kept, AsDeep
  <2> QED BY <2>1, <2>3
<1>7. s.out.bids = SnapshotLevels(fields, "bids") /\ s.out.asks = SnapshotLevels(fields, "asks")
  BY <1>6 DEF Sides
<1>8. s.out = [lastUpdateId |-> s.out.lastUpdateId, bids |-> s.out.bids, asks |-> s.out.asks]
  BY DEF SnapshotType
<1> QED BY <1>4, <1>5, <1>7, <1>8, Zenon DEF SnapshotOf

-----------------------------------------------------------------------------
(* The invariant of ParseOrderBookSnapshot.                                *)

\* The function of the last call.
Called(function) == messages > 0 /\ message.call = function

\* While it reads a snapshot, the reader is at one of the places, and has not returned.
InvSnapshot ==
  /\ messages \in Nat /\ SnapshotType(snapshot)
  /\ reading => Called("ParseEvent") \/ Called("ParseOrderBookSnapshot")
  /\ reading /\ Called("ParseOrderBookSnapshot") =>
       /\ ~result /\ released = <<>> /\ ~cut
       /\ message.root = "object" /\ message.fields \in Objects
       /\ InSnapshot(message.fields, rest, snapshot)
  /\ SnapshotAsSent

\* It holds before the first message.
LEMMA InvSnapshotInit == ParserInit => InvSnapshot
<1> SUFFICES ASSUME ParserInit PROVE InvSnapshot
  OBVIOUS
<1>1. SnapshotType(snapshot)
  <2>1. <<>> \in Seq(STRING) /\ <<>> \in Seq(LevelType)
    OBVIOUS
  <2> QED BY <2>1 DEF ParserInit, SnapshotHandler!SnapshotInit, SnapshotHandler!Fresh, SnapshotType
<1> QED BY <1>1 DEF ParserInit, InvSnapshot, SnapshotAsSent, Returned

\* A message begins.
LEMMA InvSnapshotBegin ==
  ASSUME InvSnapshot, NEW m \in FirstMessages \union Messages, Begin(m)
  PROVE  InvSnapshot'
<1>1. messages' \in Nat /\ messages' > 0 /\ message' = m /\ ~result' /\ released' = <<>>
  BY DEF InvSnapshot, Begin
<1>2. CASE m.call = "ParseEvent"
  <2>1. snapshot' = snapshot
    BY <1>2 DEF Begin
  <2> QED BY <1>1, <1>2, <2>1 DEF InvSnapshot, Called, SnapshotAsSent, Returned
<1>3. CASE m.call = "ParseOrderBookSnapshot" /\ m.root # "object"
  <2>1. ~reading' /\ snapshot' = snapshot
    BY <1>3 DEF Begin, RootIsObject
  <2>2. SnapshotAsSent'
    BY <1>1, <1>3 DEF SnapshotAsSent, Outcome
  <2> QED BY <1>1, <2>1, <2>2 DEF InvSnapshot
<1>4. CASE m.call = "ParseOrderBookSnapshot" /\ m.root = "object" /\ m.fields \in Objects
  <2>1. snapshot' = [SnapshotHandler!Fresh EXCEPT !.row0 = snapshot.row0]
    BY <1>4 DEF Begin, RootIsObject, SnapshotHandler!SnapshotReset
  <2>2. snapshot.row0 \in Seq(STRING)
    BY DEF InvSnapshot, SnapshotType
  <2>3. PICK row0 \in Seq(STRING) : row0 = snapshot.row0
    BY <2>2
  <2>4. PICK t : t = snapshot'
    OBVIOUS
  <2>5. t = [objects |-> 0, arrays |-> 0, pending |-> "none", side |-> "none",
             done |-> {}, index |-> 0, row0 |-> row0,
             out |-> [lastUpdateId |-> 0, bids |-> <<>>, asks |-> <<>>]]
    BY <2>1, <2>3, <2>4 DEF SnapshotHandler!Fresh
  <2>6. SnapshotType(t)
    <3>1. <<>> \in Seq(LevelType)
      OBVIOUS
    <3> QED BY <2>5, <3>1 DEF SnapshotType
  <2>7. BeforeObject(m.fields, rest', t)
    <3>1. m.fields \in Seq(Fields) /\ <<>> \in Seq(AnyToken)
      BY <1>4 DEF Objects
    <3>2. TokensOfFields(m.fields) \in Seq(AnyToken)
      BY <3>1, FieldsBegin, Zenon
    <3>3. TokensOfFields(m.fields) \o <<>> = TokensOfFields(m.fields)
      BY <3>2, ConcatEmptySeq, Zenon
    <3>4. rest' = TokensOfFields(m.fields)
      BY <1>4 DEF Begin, RootIsObject, Tokens
    <3>5. rest' = TokensOfFields(m.fields) \o <<>>
      BY <3>3, <3>4
    <3> QED BY <2>5, <3>5 DEF BeforeObject
  <2>8. reading' /\ ~cut'
    BY <1>4 DEF Begin, RootIsObject
  <2>9. InSnapshot(message'.fields, rest', snapshot')
    BY <1>1, <2>4, <2>7, Zenon DEF InSnapshot
  <2> QED BY <1>1, <1>4, <2>4, <2>6, <2>8, <2>9 DEF InvSnapshot, Called, SnapshotAsSent, Returned
<1>5. \/ m.call = "ParseEvent"
      \/ m.call = "ParseOrderBookSnapshot" /\ m.fields \in Objects
  BY ParserAssumption
<1> QED BY <1>2, <1>3, <1>4, <1>5

\* A token is read.
LEMMA InvSnapshotRead ==
  ASSUME InvSnapshot, ReadToken
  PROVE  InvSnapshot'
<1>1. /\ reading /\ rest # <<>> /\ rest' = IF accepted' THEN Tail(rest) ELSE <<>>
      /\ reading' = accepted'
      /\ message' = message /\ result' = result /\ released' = released /\ cut' = cut
      /\ messages' = messages
  BY DEF ReadToken, outcome
<1>2. CASE EventCallback(Head(rest))
  <2>1. snapshot' = snapshot /\ message.call = "ParseEvent"
    BY <1>2 DEF EventCallback, IsEvent
  <2> QED BY <1>1, <2>1 DEF InvSnapshot, Called, SnapshotAsSent, Returned
<1>3. CASE SnapshotCallback(Head(rest))
  <2>1. message.call # "ParseEvent"
    BY <1>3 DEF SnapshotCallback, IsEvent
  <2>2. /\ Called("ParseOrderBookSnapshot") /\ messages \in Nat /\ SnapshotType(snapshot)
        /\ ~result /\ released = <<>> /\ ~cut
        /\ message.root = "object" /\ message.fields \in Objects
        /\ InSnapshot(message.fields, rest, snapshot)
    BY <1>1, <2>1 DEF InvSnapshot, Called
  <2>3. PICK F \in Objects : F = message.fields
    BY <2>2
  <2>4. Reached(F, Tail(rest))
    <3>1. Reads(rest, Head(rest), Tail(rest))
      BY <1>1 DEF Reads
    <3>2. InSnapshot(F, rest, snapshot)
      BY <2>2, <2>3, Zenon
    <3> QED BY <1>1, <1>3, <2>2, <3>1, <3>2, ReadInSnapshot
  <2>5. SnapshotType(snapshot')
    BY <2>4, Zenon DEF Reached
  <2>6. CASE accepted' /\ InSnapshot(F, Tail(rest), snapshot')
    <3>1. reading' /\ rest' = Tail(rest)
      BY <1>1, <2>6
    <3>2. InSnapshot(message'.fields, rest', snapshot')
      BY <1>1, <2>3, <2>6, <3>1, Zenon
    <3> QED BY <1>1, <2>2, <2>5, <3>1, <3>2 DEF InvSnapshot, Called, SnapshotAsSent, Returned
  <2>7. CASE ~accepted' /\ ~IsSnapshot(F)
    <3>1. ~reading'
      BY <1>1, <2>7
    <3>2. ~IsSnapshot(message'.fields)
      BY <1>1, <2>3, <2>7, Zenon
    <3>3. SnapshotAsSent'
      BY <1>1, <2>2, <3>2 DEF SnapshotAsSent, Outcome
    <3> QED BY <1>1, <2>2, <2>5, <3>1, <3>3 DEF InvSnapshot
  <2> QED BY <2>4, <2>6, <2>7, Zenon DEF Reached
<1> QED BY <1>2, <1>3 DEF ReadToken

\* The message is cut off.
LEMMA InvSnapshotCut ==
  ASSUME InvSnapshot, SyntaxError
  PROVE  InvSnapshot'
<1>1. /\ reading /\ ~reading' /\ cut'
      /\ message' = message /\ result' = result /\ released' = released
      /\ messages' = messages /\ snapshot' = snapshot
  BY DEF SyntaxError, outcome
<1>2. SnapshotAsSent'
  <2> SUFFICES ASSUME Returned("ParseOrderBookSnapshot")'
               PROVE  ~result' /\ released' = <<>>
    BY <1>1 DEF SnapshotAsSent, Outcome
  <2>1. Called("ParseOrderBookSnapshot")
    BY <1>1 DEF Returned, Called
  <2> QED BY <1>1, <2>1 DEF InvSnapshot
<1> QED BY <1>1, <1>2 DEF InvSnapshot

\* The message is read to its end.
LEMMA InvSnapshotRelease ==
  ASSUME InvSnapshot, Release
  PROVE  InvSnapshot'
<1>1. /\ reading /\ rest = <<>> /\ ~reading' /\ snapshot' = snapshot /\ message' = message
      /\ messages' = messages /\ cut' = cut
  BY DEF Release
<1>2. SnapshotAsSent'
  <2> SUFFICES ASSUME Returned("ParseOrderBookSnapshot")'
               PROVE  result' /\ released' = <<SnapshotOf(message.fields)>>
                      /\ ~cut' /\ message.root = "object" /\ IsSnapshot(message.fields)
    BY <1>1 DEF SnapshotAsSent, Outcome
  <2>1. Called("ParseOrderBookSnapshot") /\ message.call # "ParseEvent"
    BY <1>1 DEF Returned, Called
  <2>2. /\ ~cut /\ message.root = "object" /\ message.fields \in Objects
        /\ InSnapshot(message.fields, rest, snapshot) /\ SnapshotType(snapshot)
    BY <1>1, <2>1 DEF InvSnapshot
  <2>3. result' = TRUE /\ released' = <<snapshot.out>>
    BY <2>1 DEF Release, IsEvent, SnapshotHandler!SnapshotRelease
  <2>4. PICK F \in Objects : F = message.fields
    BY <2>2
  <2>5. BehindObject(F, rest, snapshot)
    BY <1>1, <2>2, <2>4, NotYetRead, Zenon
  <2>6. IsSnapshot(F) /\ snapshot.out = SnapshotOf(F)
    BY <2>2, <2>5, SnapshotIsWhole
  <2> QED BY <1>1, <2>2, <2>3, <2>4, <2>6
<1> QED BY <1>1, <1>2 DEF InvSnapshot

\* Every step keeps it.
LEMMA InvSnapshotNext == InvSnapshot /\ [ParserNext]_parser => InvSnapshot'
<1> SUFFICES ASSUME InvSnapshot, [ParserNext]_parser PROVE InvSnapshot'
  OBVIOUS
<1>1. ASSUME NEW m \in MayCome, Begin(m) PROVE InvSnapshot'
  <2>1. m \in FirstMessages \union Messages
    BY <1>1 DEF MayCome
  <2> QED BY <1>1, <2>1, InvSnapshotBegin
<1>2. CASE ReadToken
  BY <1>2, InvSnapshotRead
<1>3. CASE SyntaxError
  BY <1>3, InvSnapshotCut
<1>4. CASE Release
  BY <1>4, InvSnapshotRelease
<1>5. CASE UNCHANGED parser
  <2>1. /\ snapshot' = snapshot /\ message' = message /\ reading' = reading /\ rest' = rest
        /\ result' = result /\ released' = released /\ cut' = cut /\ messages' = messages
    BY <1>5 DEF parser, outcome
  <2>2. SnapshotAsSent' = SnapshotAsSent
    BY <2>1 DEF SnapshotAsSent, Returned, Outcome
  <2> QED BY <2>1, <2>2 DEF InvSnapshot, Called
<1> QED BY <1>1, <1>2, <1>3, <1>4, <1>5 DEF ParserNext

\* ParseOrderBookSnapshot returns a snapshot exactly if its message was read to its end and
\* has nothing else than a snapshot has, and the snapshot has the number of its message and
\* on either side the levels up to a row that cannot be read, never more than the book is
\* deep: for every message, of any length, and whatever was read before it.
THEOREM SnapshotsExact == ParserSpec => []SnapshotAsSent
<1>1. InvSnapshot => SnapshotAsSent
  BY DEF InvSnapshot
<1> QED BY <1>1, InvSnapshotInit, InvSnapshotNext, PTL DEF ParserSpec

-----------------------------------------------------------------------------
(* The tokens of events.                                                   *)

\* The tokens of the fields of an event, and what is left of them after i fields.
EventParts(fields) ==
  [i \in DOMAIN fields |-> <<KeyToken(fields[i])>> \o TokensOfWrapped(fields[i])]
RestOfEvent(fields, i) == RestOf(EventParts(fields), i, EndObjectToken, <<>>)

\* The fields of an event are fields or the data.
LEMMA EventFieldTypes ==
  ASSUME NEW field \in EventFields
  PROVE  /\ field.type = "object" =>
              /\ field.key = "data" /\ field.value \in DataObjects /\ field.value \in Objects
              /\ field.value \in Seq(Fields)
         /\ field.type # "object" => field \in Fields
         /\ KeyToken(field) \in AnyToken
<1>1. CASE field \in Fields
  <2>1. field.type \in Plain \cup {"rows", "nested", "deep"} /\ KeyToken(field) \in AnyToken
    BY <1>1, FieldTypes
  <2> QED BY <1>1, <2>1 DEF Plain
<1>2. CASE field \in [key : {"data"}, type : {"object"}, value : DataObjects]
  <2>1. field.key = "data" /\ field.type = "object" /\ field.value \in DataObjects
    BY <1>2
  <2>2. field.value \in Objects
    BY <2>1 DEF DataObjects
  <2>3. field.value \in Seq(Fields)
    BY <2>2 DEF Objects
  <2>4. KeyToken(field) \in AnyToken
    BY <2>1 DEF KeyToken, Token, AnyToken, Calls, Values
  <2> QED BY <2>1, <2>2, <2>3, <2>4
<1> QED BY <1>1, <1>2 DEF EventFields

\* Their tokens are tokens.
LEMMA WrappedTokens ==
  ASSUME NEW field \in EventFields
  PROVE  TokensOfWrapped(field) \in Seq(AnyToken)
<1>1. <<>> \in Seq(AnyToken)
  OBVIOUS
<1>2. CASE field.type = "object"
  <2>1. field.value \in Seq(Fields)
    BY <1>2, EventFieldTypes
  <2>2. TokensOfFields(field.value) \in Seq(AnyToken)
    BY <1>1, <2>1, FieldsBegin, Zenon
  <2> QED BY <1>2, <2>2, Zenon DEF TokensOfWrapped
<1>3. CASE field.type # "object"
  <2>1. field \in Fields
    BY <1>3, EventFieldTypes
  <2>2. TokensOfValue(field) \in Seq(AnyToken)
    BY <1>1, <2>1, ValueIsRead, Zenon
  <2> QED BY <1>3, <2>2, Zenon DEF TokensOfWrapped
<1> QED BY <1>2, <1>3

\* The tokens of the fields are sequences of tokens.
LEMMA EventPartsType ==
  ASSUME NEW fields \in Seq(EventFields)
  PROVE  EventParts(fields) \in Seq(Seq(AnyToken)) /\ Len(EventParts(fields)) = Len(fields)
<1>1. PICK L \in Nat :
        L = Len(fields) /\ DOMAIN fields = 1 .. L /\ fields \in [1 .. L -> EventFields]
  OBVIOUS
<1>2. ASSUME NEW field \in EventFields
      PROVE  <<KeyToken(field)>> \o TokensOfWrapped(field) \in Seq(AnyToken)
  <2>1. KeyToken(field) \in AnyToken
    BY EventFieldTypes, Zenon
  <2>2. TokensOfWrapped(field) \in Seq(AnyToken)
    BY WrappedTokens, Zenon
  <2> QED BY <2>1, <2>2, Singleton, ConcatProperties, Zenon
<1>3. \A i \in 1 .. L : <<KeyToken(fields[i])>> \o TokensOfWrapped(fields[i]) \in Seq(AnyToken)
  BY <1>1, <1>2
<1>4. EventParts(fields) \in [1 .. L -> Seq(AnyToken)]
  BY <1>1, <1>3, Zenon DEF EventParts
<1>5. PICK S : S = Seq(AnyToken)
  OBVIOUS
<1>6. PICK p : p = EventParts(fields)
  OBVIOUS
<1>7. p \in [1 .. L -> S]
  BY <1>4, <1>5, <1>6
<1>8. p \in Seq(S) /\ Len(p) = L
  BY <1>7
<1> QED BY <1>1, <1>5, <1>6, <1>8

\* The tokens of an event, one field after the other, and its end.
LEMMA EventIsRead ==
  ASSUME NEW fields \in Seq(EventFields), NEW i \in 0 .. Len(fields)
  PROVE  /\ RestOfEvent(fields, i) \in Seq(AnyToken)
         /\ i < Len(fields) =>
              Reads(RestOfEvent(fields, i), KeyToken(fields[i + 1]),
                    TokensOfWrapped(fields[i + 1]) \o RestOfEvent(fields, i + 1))
         /\ i = Len(fields) => Reads(RestOfEvent(fields, i), EndObjectToken, <<>>)
<1>1. EventParts(fields) \in Seq(Seq(AnyToken)) /\ Len(EventParts(fields)) = Len(fields)
  BY EventPartsType
<1>2. EndObjectToken \in AnyToken /\ <<>> \in Seq(AnyToken)
  BY TokenTypes
<1>3. \A l \in 0 .. Len(fields) : RestOfEvent(fields, l) \in Seq(AnyToken)
  BY <1>1, <1>2, RestIsSeq, Zenon DEF RestOfEvent
<1>4. ASSUME i < Len(fields)
      PROVE  Reads(RestOfEvent(fields, i), KeyToken(fields[i + 1]),
                   TokensOfWrapped(fields[i + 1]) \o RestOfEvent(fields, i + 1))
  <2>1. PICK L \in Nat :
          L = Len(fields) /\ DOMAIN fields = 1 .. L /\ fields \in [1 .. L -> EventFields]
    OBVIOUS
  <2>2. i + 1 \in 1 .. L /\ i \in 0 .. L - 1 /\ i + 1 \in 0 .. L
    BY <1>4, <2>1
  <2>3. PICK field \in EventFields : field = fields[i + 1]
    BY <2>1, <2>2
  <2>4. TokensOfWrapped(field) \in Seq(AnyToken) /\ KeyToken(field) \in AnyToken
    BY WrappedTokens, EventFieldTypes, Zenon
  <2>5. IsConcat(EventParts(fields)[i + 1], <<KeyToken(field)>>, TokensOfWrapped(field))
    <3>1. EventParts(fields)[i + 1] = <<KeyToken(fields[i + 1])>> \o TokensOfWrapped(fields[i + 1])
      BY <2>1, <2>2, Zenon DEF EventParts
    <3> QED BY <2>3, <3>1, Zenon DEF IsConcat
  <2>6. i \in 0 .. Len(EventParts(fields)) - 1
    BY <1>1, <2>1, <2>2, Zenon
  <2>7. Reads(RestOfEvent(fields, i), KeyToken(field),
              TokensOfWrapped(field) \o RestOfEvent(fields, i + 1))
    BY <1>1, <1>2, <2>4, <2>5, <2>6, KeyThen, Zenon DEF RestOfEvent
  <2> QED BY <2>3, <2>7, Zenon
<1>5. ASSUME i = Len(fields) PROVE Reads(RestOfEvent(fields, i), EndObjectToken, <<>>)
  <2>1. i = Len(EventParts(fields))
    BY <1>1, <1>5, Zenon
  <2> QED BY <1>1, <1>2, <2>1, RestEnds, Zenon DEF RestOfEvent
<1>6. RestOfEvent(fields, i) \in Seq(AnyToken)
  BY <1>3, Zenon
<1> QED BY <1>4, <1>5, <1>6, Zenon

\* They begin with the object.
LEMMA EventBegins ==
  ASSUME NEW fields \in Seq(EventFields), NEW m, m.call = "ParseEvent", m.root = "object",
         m.fields = fields
  PROVE  Reads(Tokens(m), StartObjectToken, RestOfEvent(fields, 0))
<1>1. /\ StartObjectToken \in AnyToken /\ EndObjectToken \in AnyToken /\ <<>> \in Seq(AnyToken)
      /\ EventParts(fields) \in Seq(Seq(AnyToken))
  BY TokenTypes, EventPartsType
<1>2. PICK whole :
        whole = <<StartObjectToken>> \o FlattenSeq(EventParts(fields)) \o <<EndObjectToken>>
  OBVIOUS
<1>3. Tokens(m) = whole
  BY <1>2 DEF Tokens, EventParts, StartObjectToken, EndObjectToken, KeyToken
<1>4. Reads(whole \o <<>>, StartObjectToken, RestOfEvent(fields, 0))
  BY <1>1, <1>2, FramedParts, Zenon DEF RestOfEvent
<1>5. whole \in Seq(AnyToken)
  <2>1. FlattenSeq(EventParts(fields)) \in Seq(AnyToken)
    BY <1>1, FlattenIsSeq, Zenon
  <2>2. <<StartObjectToken>> \in Seq(AnyToken) /\ <<EndObjectToken>> \in Seq(AnyToken)
    BY <1>1, Singleton, Zenon
  <2>3. <<StartObjectToken>> \o FlattenSeq(EventParts(fields)) \in Seq(AnyToken)
    BY <2>1, <2>2, ConcatProperties, Zenon
  <2> QED BY <1>2, <2>2, <2>3, ConcatProperties, Zenon
<1>6. whole \o <<>> = whole
  BY <1>5, ConcatEmptySeq, Zenon
<1> QED BY <1>3, <1>4, <1>6, Zenon

-----------------------------------------------------------------------------
(* Arrays that are taken for granted.                                      *)

\* The tokens of arrays, and those of arrays and strings.
ArrayTokens == {StartArrayToken, EndArrayToken}
TokensOfRows  == ArrayTokens \cup {StringToken(text) : text \in Seq(STRING)}

\* There is nothing else in rows.
LEMMA RowsOfTokens ==
  ASSUME NEW field \in Fields, field.type = "rows"
  PROVE  TokensOfValue(field) \in Seq(TokensOfRows)
<1>1. PICK rows \in Seq(Rows) : rows = field.value
  BY FieldTypes, Zenon
<1>2. StartArrayToken \in TokensOfRows /\ EndArrayToken \in TokensOfRows
  BY DEF TokensOfRows, ArrayTokens
<1>3. <<StartArrayToken>> \in Seq(TokensOfRows) /\ <<EndArrayToken>> \in Seq(TokensOfRows)
  BY <1>2, Singleton, Zenon
<1>4. ASSUME NEW row \in Rows PROVE TokensOfRow(row) \in Seq(TokensOfRows)
  <2>1. PICK L \in Nat : L = Len(row) /\ DOMAIN row = 1 .. L /\ row \in [1 .. L -> Seq(STRING)]
    BY DEF Rows
  <2>2. \A i \in 1 .. L : Token("String", row[i]) \in TokensOfRows
    BY <2>1 DEF TokensOfRows, StringToken
  <2>3. PICK s : s = [i \in DOMAIN row |-> Token("String", row[i])]
    OBVIOUS
  <2>4. s \in [1 .. L -> TokensOfRows]
    BY <2>1, <2>2, <2>3
  <2>5. s \in Seq(TokensOfRows)
    BY <2>4
  <2>6. <<StartArrayToken>> \o s \in Seq(TokensOfRows)
    BY <1>3, <2>5, ConcatProperties, Zenon
  <2>7. <<StartArrayToken>> \o s \o <<EndArrayToken>> \in Seq(TokensOfRows)
    BY <1>3, <2>6, ConcatProperties, Zenon
  <2> QED BY <2>3, <2>7, Zenon DEF TokensOfRow, StartArrayToken, EndArrayToken
<1>5. PICK p : p = [i \in DOMAIN rows |-> TokensOfRow(rows[i])]
  OBVIOUS
<1>6. p \in Seq(Seq(TokensOfRows))
  <2>1. PICK L \in Nat : L = Len(rows) /\ DOMAIN rows = 1 .. L /\ rows \in [1 .. L -> Rows]
    OBVIOUS
  <2>2. PICK S : S = Seq(TokensOfRows)
    OBVIOUS
  <2>3. \A i \in 1 .. L : TokensOfRow(rows[i]) \in S
    BY <1>4, <2>1, <2>2
  <2>4. p \in [1 .. L -> S]
    BY <1>5, <2>1, <2>3
  <2>5. p \in Seq(S)
    BY <2>4
  <2> QED BY <2>2, <2>5
<1>7. FlattenSeq(p) \in Seq(TokensOfRows)
  BY <1>6, FlattenIsSeq, Zenon
<1>8. <<StartArrayToken>> \o FlattenSeq(p) \in Seq(TokensOfRows)
  BY <1>3, <1>7, ConcatProperties, Zenon
<1>9. <<StartArrayToken>> \o FlattenSeq(p) \o <<EndArrayToken>> \in Seq(TokensOfRows)
  BY <1>3, <1>8, ConcatProperties, Zenon
<1>10. TokensOfValue(field) = <<StartArrayToken>> \o FlattenSeq(p) \o <<EndArrayToken>>
  BY <1>1, <1>5 DEF TokensOfValue, StartArrayToken, EndArrayToken
<1> QED BY <1>9, <1>10, Zenon

\* Nor in arrays of arrays.
LEMMA DeepOfTokens ==
  ASSUME NEW field \in Fields, field.type = "deep"
  PROVE  TokensOfValue(field) \in Seq(ArrayTokens)
<1>1. PICK s \in ArrayTokens : s = StartArrayToken
  BY DEF ArrayTokens
<1>2. PICK e \in ArrayTokens : e = EndArrayToken
  BY DEF ArrayTokens
<1>3. <<s, s, s, e, e, e>> \in Seq(ArrayTokens)
  OBVIOUS
<1>4. TokensOfValue(field) = <<s, s, s, e, e, e>>
  BY <1>1, <1>2 DEF TokensOfValue, StartArrayToken, EndArrayToken
<1> QED BY <1>3, <1>4

\* Tokens of some kind.
AreTokens(T) == T \subseteq AnyToken

\* Some of them are left, with the others behind.
AreLeft(T, others, tokens) == \E xs \in Seq(T) : tokens = xs \o others

\* Of some of them with others behind, the first is read, or there are none left.
LEMMA ReadsSome ==
  ASSUME NEW T, AreTokens(T), NEW xs \in Seq(T), NEW others \in Seq(AnyToken),
         NEW token, NEW next, Reads(xs \o others, token, next)
  PROVE  \/ Reads(others, token, next)
         \/ token \in T /\ AreLeft(T, others, next)
<1>1. CASE xs = <<>>
  <2>1. xs \o others = others
    BY <1>1, ConcatEmptySeq, Zenon
  <2> QED BY <2>1, Zenon
<1>2. CASE xs # <<>>
  <2>1. PICK x \in T : x = Head(xs)
    BY <1>2
  <2>11. x \in AnyToken
    BY <2>1, Zenon DEF AreTokens
  <2>2. PICK ys \in Seq(T) : ys = Tail(xs)
    BY <1>2, HeadTailProperties
  <2>3. PICK first \in Seq(AnyToken) : first = <<x>>
    BY <2>11, Singleton, Zenon
  <2>4. xs = first \o ys
    BY <1>2, <2>1, <2>2, <2>3
  <2>5. ys \in Seq(AnyToken)
    BY <2>2 DEF AreTokens
  <2>9. IsClosed(Seq(AnyToken))
    BY SeqIsClosed, Zenon
  <2>10. (first \o ys) \o others = first \o (ys \o others)
    BY <2>5, <2>9, Zenon DEF IsClosed
  <2>6. ys \o others \in Seq(AnyToken)
    BY <2>5, ConcatProperties, Zenon
  <2>7. Reads(<<x>> \o (ys \o others), x, ys \o others)
    BY <2>6, <2>11, ReadsOne, Zenon
  <2>8. token = x /\ next = ys \o others
    BY <2>3, <2>4, <2>10, <2>7, Zenon DEF Reads
  <2> QED BY <2>8, Zenon DEF AreLeft
<1> QED BY <1>1, <1>2

-----------------------------------------------------------------------------
(* What the handler of trades knows after some of the fields.              *)

\* The types of its members.
TradeType(t) ==
  t \in [objects : {0, 1}, pending : {"none", "e", "E", "s", "p", "q", "m"},
         validType : BOOLEAN, havePrice : BOOLEAN, haveQty : BOOLEAN, haveMaker : BOOLEAN,
         out : [symbol : Seq(STRING), price : Nat, quantity : Nat, isBuyerMaker : BOOLEAN]]

\* A field of a key and a type.
IsAt(field, key, type) == field.key = key /\ field.type = type

\* The fields that may be in a trade.
InTrades(field)         == field.type \in {"String", "Number", "Bool", "rows", "deep"}
InTradesUpto(fields, i) == \A l \in 1 .. i : InTrades(fields[l])

\* The event type, the symbol, the price, the quantity and the side of the buyer are those
\* of the fields so far, or what they are if there is none.
TypeKnown(fields, i, t) ==
  \E v : Holds(fields, i, "e", "String", v, <<>>) /\ (t.validType <=> v = <<"trade">>)

\* What SymbolFromString returns.
KnownSymbol(text) == IF text \in Symbols THEN text ELSE <<>>

SymbolKnown(fields, i, t) ==
  \E v : Holds(fields, i, "s", "String", v, <<>>) /\ t.out.symbol = KnownSymbol(v)

PriceKnown(fields, i, t) ==
  \E v : /\ Holds(fields, i, "p", "String", v, <<>>)
         /\ t.havePrice <=> IsDecimal(v, PriceShift)
         /\ t.havePrice => t.out.price = Scaled(v, PriceShift)

QuantityKnown(fields, i, t) ==
  \E v : /\ Holds(fields, i, "q", "String", v, <<>>)
         /\ t.haveQty <=> IsDecimal(v, QuantityShift)
         /\ t.haveQty => t.out.quantity = Scaled(v, QuantityShift)

MakerKnown(fields, i, t) ==
  /\ Holds(fields, i, "m", "Bool", t.out.isBuyerMaker, FALSE)
  /\ t.haveMaker <=> ~None(fields, i, "m", "Bool")

\* All of it.
TradeAfter(fields, i, t) ==
  /\ InTradesUpto(fields, i)
  /\ TypeKnown(fields, i, t) /\ SymbolKnown(fields, i, t)
  /\ PriceKnown(fields, i, t) /\ QuantityKnown(fields, i, t) /\ MakerKnown(fields, i, t)

\* A text without digits is no decimal.
LEMMA NoDecimal == \A places : ~IsDecimal(<<>>, places)
<1>1. DOMAIN <<>> = {}
  OBVIOUS
<1> QED BY <1>1, Zenon DEF IsDecimal

\* Nothing is known before the first field.
LEMMA TradeStarts ==
  ASSUME NEW fields, NEW t, ~t.validType, ~t.havePrice, ~t.haveQty, ~t.haveMaker,
         t.out = TradeHandler!NoTrade
  PROVE  TradeAfter(fields, 0, t)
<1>1. /\ t.out.symbol = <<>> /\ t.out.isBuyerMaker = FALSE
  BY DEF TradeHandler!NoTrade, TradeHandler!kUnknown
<1>2. InTradesUpto(fields, 0)
  BY DEF InTradesUpto
<1>3. TypeKnown(fields, 0, t)
  <2>1. <<>> # <<"trade">>
    OBVIOUS
  <2> QED BY <2>1, HoldsAtStart, Zenon DEF TypeKnown
<1>4. SymbolKnown(fields, 0, t)
  <2>1. KnownSymbol(<<>>) = <<>>
    BY Zenon DEF KnownSymbol
  <2> QED BY <1>1, <2>1, HoldsAtStart, Zenon DEF SymbolKnown
<1>5. PriceKnown(fields, 0, t)
  BY HoldsAtStart, NoDecimal, Zenon DEF PriceKnown
<1>6. QuantityKnown(fields, 0, t)
  BY HoldsAtStart, NoDecimal, Zenon DEF QuantityKnown
<1>7. MakerKnown(fields, 0, t)
  <2>1. None(fields, 0, "m", "Bool")
    BY DEF None
  <2>2. Holds(fields, 0, "m", "Bool", FALSE, FALSE)
    BY HoldsAtStart, Zenon
  <2> QED BY <1>1, <2>1, <2>2, Zenon DEF MakerKnown
<1> QED BY <1>2, <1>3, <1>4, <1>5, <1>6, <1>7 DEF TradeAfter

\* What a field does.
Learns(s, field, t) ==
  /\ IsAt(field, "e", "String") => (t.validType <=> field.value = <<"trade">>)
  /\ ~IsAt(field, "e", "String") => (t.validType <=> s.validType)
  /\ IsAt(field, "s", "String") => t.out.symbol = KnownSymbol(field.value)
  /\ ~IsAt(field, "s", "String") => t.out.symbol = s.out.symbol
  /\ IsAt(field, "p", "String") =>
       /\ t.havePrice <=> IsDecimal(field.value, PriceShift)
       /\ t.havePrice => t.out.price = Scaled(field.value, PriceShift)
  /\ ~IsAt(field, "p", "String") =>
       (t.havePrice <=> s.havePrice) /\ t.out.price = s.out.price
  /\ IsAt(field, "q", "String") =>
       /\ t.haveQty <=> IsDecimal(field.value, QuantityShift)
       /\ t.haveQty => t.out.quantity = Scaled(field.value, QuantityShift)
  /\ ~IsAt(field, "q", "String") =>
       (t.haveQty <=> s.haveQty) /\ t.out.quantity = s.out.quantity
  /\ IsAt(field, "m", "Bool") => t.out.isBuyerMaker = field.value /\ t.haveMaker
  /\ ~IsAt(field, "m", "Bool") =>
       t.out.isBuyerMaker = s.out.isBuyerMaker /\ (t.haveMaker <=> s.haveMaker)

\* After it, that is known of one field more.
LEMMA TradeLearns ==
  ASSUME NEW fields \in Objects, NEW i \in 0 .. Len(fields) - 1, NEW s, NEW t,
         TradeAfter(fields, i, s), InTrades(fields[i + 1]), Learns(s, fields[i + 1], t)
  PROVE  TradeAfter(fields, i + 1, t)
<1>1. /\ i \in Nat /\ i + 1 \in DOMAIN fields /\ 1 .. i \subseteq DOMAIN fields
      /\ Distinct(fields)
  BY FieldOf DEF Objects
<1>2. InTradesUpto(fields, i + 1)
  <2>1. \A l : l \in 1 .. i + 1 <=> l \in 1 .. i \/ l = i + 1
    BY <1>1
  <2> QED BY <2>1, Zenon DEF InTradesUpto, TradeAfter
<1>3. ASSUME NEW key, NEW type, NEW v, NEW default, Holds(fields, i, key, type, v, default)
      PROVE  /\ IsAt(fields[i + 1], key, type) =>
                  /\ Holds(fields, i + 1, key, type, fields[i + 1].value, default)
                  /\ ~None(fields, i + 1, key, type)
             /\ ~IsAt(fields[i + 1], key, type) =>
                  /\ Holds(fields, i + 1, key, type, v, default)
                  /\ None(fields, i + 1, key, type) <=> None(fields, i, key, type)
  <2>1. CASE IsAt(fields[i + 1], key, type)
    BY <1>1, <2>1, HoldsHere, Zenon DEF IsAt
  <2>2. CASE ~IsAt(fields[i + 1], key, type)
    BY <1>1, <1>3, <2>2, HoldsOn, Zenon DEF IsAt
  <2> QED BY <2>1, <2>2
<1>4. TypeKnown(fields, i + 1, t)
  <2>1. PICK v : Holds(fields, i, "e", "String", v, <<>>) /\ (s.validType <=> v = <<"trade">>)
    BY Zenon DEF TradeAfter, TypeKnown
  <2> QED BY <1>3, <2>1, Zenon DEF Learns, TypeKnown
<1>5. SymbolKnown(fields, i + 1, t)
  <2>1. PICK v : Holds(fields, i, "s", "String", v, <<>>) /\ s.out.symbol = KnownSymbol(v)
    BY Zenon DEF TradeAfter, SymbolKnown
  <2> QED BY <1>3, <2>1, Zenon DEF Learns, SymbolKnown
<1>6. PriceKnown(fields, i + 1, t)
  <2>1. PICK v : /\ Holds(fields, i, "p", "String", v, <<>>)
                 /\ s.havePrice <=> IsDecimal(v, PriceShift)
                 /\ s.havePrice => s.out.price = Scaled(v, PriceShift)
    BY Zenon DEF TradeAfter, PriceKnown
  <2> QED BY <1>3, <2>1, Zenon DEF Learns, PriceKnown
<1>7. QuantityKnown(fields, i + 1, t)
  <2>1. PICK v : /\ Holds(fields, i, "q", "String", v, <<>>)
                 /\ s.haveQty <=> IsDecimal(v, QuantityShift)
                 /\ s.haveQty => s.out.quantity = Scaled(v, QuantityShift)
    BY Zenon DEF TradeAfter, QuantityKnown
  <2> QED BY <1>3, <2>1, Zenon DEF Learns, QuantityKnown
<1>8. MakerKnown(fields, i + 1, t)
  <2>1. /\ Holds(fields, i, "m", "Bool", s.out.isBuyerMaker, FALSE)
        /\ s.haveMaker <=> ~None(fields, i, "m", "Bool")
    BY Zenon DEF TradeAfter, MakerKnown
  <2>2. CASE IsAt(fields[i + 1], "m", "Bool")
    <3>1. t.out.isBuyerMaker = fields[i + 1].value /\ t.haveMaker
      BY <2>2, Zenon DEF Learns
    <3>2. /\ Holds(fields, i + 1, "m", "Bool", fields[i + 1].value, FALSE)
          /\ ~None(fields, i + 1, "m", "Bool")
      BY <1>3, <2>1, <2>2, Zenon
    <3> QED BY <3>1, <3>2, Zenon DEF MakerKnown
  <2>3. CASE ~IsAt(fields[i + 1], "m", "Bool")
    <3>1. t.out.isBuyerMaker = s.out.isBuyerMaker /\ (t.haveMaker <=> s.haveMaker)
      BY <2>3, Zenon DEF Learns
    <3>2. /\ Holds(fields, i + 1, "m", "Bool", s.out.isBuyerMaker, FALSE)
          /\ None(fields, i + 1, "m", "Bool") <=> None(fields, i, "m", "Bool")
      BY <1>3, <2>1, <2>3, Zenon
    <3> QED BY <2>1, <3>1, <3>2, Zenon DEF MakerKnown
  <2> QED BY <2>2, <2>3
<1> QED BY <1>2, <1>4, <1>5, <1>6, <1>7, <1>8 DEF TradeAfter

\* The members that count are the same.
SameTrade(s, t) ==
  /\ t.validType = s.validType /\ t.havePrice = s.havePrice /\ t.haveQty = s.haveQty
  /\ t.haveMaker = s.haveMaker /\ t.out = s.out

\* So is what is known.
LEMMA TradeStays ==
  ASSUME NEW fields, NEW i, NEW s, NEW t, TradeAfter(fields, i, s), SameTrade(s, t)
  PROVE  TradeAfter(fields, i, t)
BY Zenon DEF TradeAfter, TypeKnown, SymbolKnown, PriceKnown, QuantityKnown, MakerKnown, SameTrade

\* After all fields the handler has a trade exactly if they are one, and then it has that one.
LEMMA TradeIsWhole ==
  ASSUME NEW fields \in Objects, NEW t, TradeType(t), TradeAfter(fields, Len(fields), t)
  PROVE  /\ IsTrade(fields) <=> t.validType /\ t.havePrice /\ t.haveQty /\ t.haveMaker
         /\ IsTrade(fields) => t.out = TradeOf(fields)
<1>1. fields \in Seq(Fields) /\ Distinct(fields)
  BY DEF Objects
<1>2. PICK n \in Nat : n = Len(fields) /\ DOMAIN fields = 1 .. n
  BY <1>1
<1>3. ASSUME NEW key, NEW type, NEW v, NEW default, Holds(fields, n, key, type, v, default)
      PROVE  /\ v = ValueOf(fields, key, type, default)
             /\ Has(fields, key, type) <=> ~None(fields, n, key, type)
  BY <1>1, <1>2, <1>3, HoldsAll
<1>4. TradeAfter(fields, n, t)
  BY <1>2
<1>5. t.validType <=> ValueOf(fields, "e", "String", <<>>) = <<"trade">>
  BY <1>3, <1>4, Zenon DEF TradeAfter, TypeKnown
<1>6. t.out.symbol = KnownSymbol(SymbolOf(fields))
  BY <1>3, <1>4, Zenon DEF TradeAfter, SymbolKnown, SymbolOf
<1>7. /\ t.havePrice <=> IsDecimal(ValueOf(fields, "p", "String", <<>>), PriceShift)
      /\ t.havePrice => t.out.price = Scaled(ValueOf(fields, "p", "String", <<>>), PriceShift)
  BY <1>3, <1>4, Zenon DEF TradeAfter, PriceKnown
<1>8. /\ t.haveQty <=> IsDecimal(ValueOf(fields, "q", "String", <<>>), QuantityShift)
      /\ t.haveQty => t.out.quantity = Scaled(ValueOf(fields, "q", "String", <<>>), QuantityShift)
  BY <1>3, <1>4, Zenon DEF TradeAfter, QuantityKnown
<1>9. /\ t.out.isBuyerMaker = ValueOf(fields, "m", "Bool", FALSE)
      /\ t.haveMaker <=> Has(fields, "m", "Bool")
  BY <1>3, <1>4, Zenon DEF TradeAfter, MakerKnown
<1>10. OnlyTypes(fields, {"String", "Number", "Bool", "rows", "deep"})
  BY <1>2, <1>4, Zenon DEF TradeAfter, InTradesUpto, InTrades, OnlyTypes
<1>11. IsTrade(fields) <=> t.validType /\ t.havePrice /\ t.haveQty /\ t.haveMaker
  BY <1>5, <1>7, <1>8, <1>9, <1>10, Zenon DEF IsTrade
<1>12. ASSUME IsTrade(fields) PROVE t.out = TradeOf(fields)
  <2>1. t.out = [symbol |-> t.out.symbol, price |-> t.out.price, quantity |-> t.out.quantity,
                 isBuyerMaker |-> t.out.isBuyerMaker]
    BY DEF TradeType
  <2> QED BY <1>6, <1>7, <1>8, <1>9, <1>11, <1>12, <2>1, Zenon DEF TradeOf, KnownSymbol
<1> QED BY <1>11, <1>12

\* The value of a field is what ValueOf finds.
LEMMA ValueIs ==
  ASSUME NEW fields \in Objects, NEW i \in 0 .. Len(fields) - 1, NEW key, NEW type, NEW default,
         IsAt(fields[i + 1], key, type)
  PROVE  ValueOf(fields, key, type, default) = fields[i + 1].value
<1>1. i + 1 \in DOMAIN fields /\ Distinct(fields)
  BY FieldOf DEF Objects
<1>2. Has(fields, key, type)
  BY <1>1, Zenon DEF Has, IsAt
<1>3. \A m \in DOMAIN fields : fields[m].key = key <=> m = i + 1
  BY <1>1, Zenon DEF Distinct, IsAt
<1>4. (CHOOSE m \in DOMAIN fields : fields[m].key = key) = i + 1
  BY <1>1, <1>3
<1> QED BY <1>2, <1>4, Zenon DEF ValueOf

\* The fields that a trade refuses.
Refused(field) ==
  \/ ~InTrades(field)
  \/ IsAt(field, "e", "String") /\ field.value # <<"trade">>
  \/ IsAt(field, "p", "String") /\ ~IsDecimal(field.value, PriceShift)
  \/ IsAt(field, "q", "String") /\ ~IsDecimal(field.value, QuantityShift)

\* There are none in a trade.
LEMMA NoTradeRefused ==
  ASSUME NEW fields \in Objects, NEW i \in 0 .. Len(fields) - 1, Refused(fields[i + 1])
  PROVE  ~IsTrade(fields)
<1>1. i + 1 \in DOMAIN fields
  BY FieldOf
<1>2. CASE ~InTrades(fields[i + 1])
  BY <1>1, <1>2, Zenon DEF IsTrade, OnlyTypes, InTrades
<1>3. CASE IsAt(fields[i + 1], "e", "String") /\ fields[i + 1].value # <<"trade">>
  <2>1. ValueOf(fields, "e", "String", <<>>) = fields[i + 1].value
    BY <1>3, ValueIs, Zenon
  <2> QED BY <1>3, <2>1, Zenon DEF IsTrade
<1>4. CASE IsAt(fields[i + 1], "p", "String") /\ ~IsDecimal(fields[i + 1].value, PriceShift)
  <2>1. ValueOf(fields, "p", "String", <<>>) = fields[i + 1].value
    BY <1>4, ValueIs, Zenon
  <2> QED BY <1>4, <2>1, Zenon DEF IsTrade
<1>5. CASE IsAt(fields[i + 1], "q", "String") /\ ~IsDecimal(fields[i + 1].value, QuantityShift)
  <2>1. ValueOf(fields, "q", "String", <<>>) = fields[i + 1].value
    BY <1>5, ValueIs, Zenon
  <2> QED BY <1>5, <2>1, Zenon DEF IsTrade
<1> QED BY <1>2, <1>3, <1>4, <1>5 DEF Refused

-----------------------------------------------------------------------------
(* The handler of trades at a field.                                       *)

\* The keys of strings, and the one that is pending after a key.
TextKeys == {"e", "s", "p", "q"}

PendingOf(field) ==
  IF field.key \in {"e", "E", "s", "p", "q", "m"} THEN field.key ELSE "none"

\* What the callback of a value did: the field is learned, or refused for a good reason.
Learned(s, field, t) ==
  /\ TradeType(t) /\ t.objects = s.objects
  /\ \/ accepted' = TRUE /\ Learns(s, field, t) /\ InTrades(field)
     \/ accepted' = FALSE /\ Refused(field)

\* A string is learned.
LEMMA StringLearned ==
  ASSUME TradeType(trade), NEW field \in Fields, field.type = "String",
         trade.pending = PendingOf(field), TradeHandler!TradeString(field.value)
  PROVE  Learned(trade, field, trade')
<1>1. PICK text \in Seq(STRING) : text = field.value
  BY FieldTypes, Zenon
<1>2. PICK s : s = trade
  OBVIOUS
<1>3. PICK t : t = trade'
  OBVIOUS
<1>4. TradeType(s) /\ s.pending = PendingOf(field)
  BY <1>2
<1>5. InTrades(field)
  BY DEF InTrades
<1>6. ~IsAt(field, "m", "Bool")
  BY DEF IsAt
<1>7. \A key : IsAt(field, key, "String") <=> field.key = key
  BY DEF IsAt
<1>8. /\ IsDecimal(text, PriceShift) <=> Price(text) # NotADecimal
      /\ IsDecimal(text, PriceShift) => Price(text) = Scaled(text, PriceShift)
      /\ IsDecimal(text, QuantityShift) <=> Quantity(text) # NotADecimal
      /\ IsDecimal(text, QuantityShift) => Quantity(text) = Scaled(text, QuantityShift)
      /\ Price(text) # NotADecimal => Price(text) \in Nat
      /\ Quantity(text) # NotADecimal => Quantity(text) \in Nat
  BY DecimalsRead, DecimalsType
<1>9. CASE s.pending = "e" /\ text = <<"trade">>
  <2>1. t = [s EXCEPT !.pending = "none", !.validType = TRUE] /\ accepted' = TRUE
    BY <1>1, <1>2, <1>3, <1>9 DEF TradeHandler!TradeString,
       TradeHandler!Take, TradeHandler!NotPending
  <2>2. TradeType(t) /\ t.objects = s.objects
    BY <1>4, <2>1 DEF TradeType
  <2>3. /\ t.validType /\ t.out = s.out /\ t.havePrice = s.havePrice /\ t.haveQty = s.haveQty
        /\ t.haveMaker = s.haveMaker
    BY <1>4, <2>1 DEF TradeType
  <2>4. field.key = "e"
    BY <1>4, <1>9 DEF PendingOf
  <2>5. Learns(s, field, t)
    BY <1>1, <1>6, <1>7, <1>9, <2>3, <2>4 DEF Learns
  <2> QED BY <1>2, <1>3, <1>5, <2>1, <2>2, <2>5 DEF Learned
<1>10. CASE s.pending = "s"
  <2>1. t = [s EXCEPT !.pending = "none", !.out.symbol = KnownSymbol(text)] /\ accepted' = TRUE
    BY <1>1, <1>2, <1>3, <1>10 DEF TradeHandler!TradeString, TradeHandler!Take,
       TradeHandler!NotPending, TradeHandler!SymbolFromString, KnownSymbol, TradeHandler!kUnknown
  <2>2. PICK symbol \in Seq(STRING) : symbol = KnownSymbol(text)
    <3>1. <<>> \in Seq(STRING)
      OBVIOUS
    <3>2. KnownSymbol(text) \in Seq(STRING)
      BY <3>1, Zenon DEF KnownSymbol
    <3> QED BY <3>2, Zenon
  <2>3. TradeType(t) /\ t.objects = s.objects
    BY <1>4, <2>1, <2>2 DEF TradeType
  <2>4. /\ t.validType = s.validType /\ t.havePrice = s.havePrice /\ t.haveQty = s.haveQty
        /\ t.haveMaker = s.haveMaker /\ t.out.symbol = symbol /\ t.out.price = s.out.price
        /\ t.out.quantity = s.out.quantity /\ t.out.isBuyerMaker = s.out.isBuyerMaker
    BY <1>4, <2>1, <2>2 DEF TradeType
  <2>5. field.key = "s"
    BY <1>4, <1>10 DEF PendingOf
  <2>6. Learns(s, field, t)
    BY <1>1, <1>6, <1>7, <2>2, <2>4, <2>5 DEF Learns
  <2> QED BY <1>2, <1>3, <1>5, <2>1, <2>3, <2>6 DEF Learned
<1>11. CASE s.pending = "p" /\ Price(text) # NotADecimal
  <2>1. t = [s EXCEPT !.pending = "none", !.out.price = Price(text), !.havePrice = TRUE]
        /\ accepted' = TRUE
    BY <1>1, <1>2, <1>3, <1>11 DEF TradeHandler!TradeString, TradeHandler!Take,
       TradeHandler!NotPending
  <2>2. PICK price \in Nat : price = Price(text)
    BY <1>8, <1>11
  <2>3. TradeType(t) /\ t.objects = s.objects
    BY <1>4, <2>1, <2>2 DEF TradeType
  <2>4. /\ t.validType = s.validType /\ t.havePrice /\ t.haveQty = s.haveQty
        /\ t.haveMaker = s.haveMaker /\ t.out.symbol = s.out.symbol /\ t.out.price = price
        /\ t.out.quantity = s.out.quantity /\ t.out.isBuyerMaker = s.out.isBuyerMaker
    BY <1>4, <2>1, <2>2 DEF TradeType
  <2>5. field.key = "p"
    BY <1>4, <1>11 DEF PendingOf
  <2>6. IsDecimal(field.value, PriceShift) /\ price = Scaled(field.value, PriceShift)
    BY <1>1, <1>8, <1>11, <2>2
  <2>7. Learns(s, field, t)
    BY <1>6, <1>7, <2>4, <2>5, <2>6 DEF Learns
  <2> QED BY <1>2, <1>3, <1>5, <2>1, <2>3, <2>7 DEF Learned
<1>12. CASE s.pending = "q" /\ Quantity(text) # NotADecimal
  <2>1. t = [s EXCEPT !.pending = "none", !.out.quantity = Quantity(text), !.haveQty = TRUE]
        /\ accepted' = TRUE
    BY <1>1, <1>2, <1>3, <1>12 DEF TradeHandler!TradeString, TradeHandler!Take,
       TradeHandler!NotPending
  <2>2. PICK quantity \in Nat : quantity = Quantity(text)
    BY <1>8, <1>12
  <2>3. TradeType(t) /\ t.objects = s.objects
    BY <1>4, <2>1, <2>2 DEF TradeType
  <2>4. /\ t.validType = s.validType /\ t.haveQty /\ t.havePrice = s.havePrice
        /\ t.haveMaker = s.haveMaker /\ t.out.symbol = s.out.symbol /\ t.out.quantity = quantity
        /\ t.out.price = s.out.price /\ t.out.isBuyerMaker = s.out.isBuyerMaker
    BY <1>4, <2>1, <2>2 DEF TradeType
  <2>5. field.key = "q"
    BY <1>4, <1>12 DEF PendingOf
  <2>6. IsDecimal(field.value, QuantityShift) /\ quantity = Scaled(field.value, QuantityShift)
    BY <1>1, <1>8, <1>12, <2>2
  <2>7. Learns(s, field, t)
    BY <1>6, <1>7, <2>4, <2>5, <2>6 DEF Learns
  <2> QED BY <1>2, <1>3, <1>5, <2>1, <2>3, <2>7 DEF Learned
<1>13. CASE \/ s.pending = "e" /\ text # <<"trade">>
            \/ s.pending = "p" /\ Price(text) = NotADecimal
            \/ s.pending = "q" /\ Quantity(text) = NotADecimal
  <2>1. t = [s EXCEPT !.pending = "none"] /\ accepted' = FALSE
    BY <1>1, <1>2, <1>3, <1>13 DEF TradeHandler!TradeString, TradeHandler!RefuseAs,
       TradeHandler!NotPending
  <2>2. TradeType(t) /\ t.objects = s.objects
    BY <1>4, <2>1 DEF TradeType
  <2>3. field.key = s.pending
    BY <1>4, <1>13 DEF PendingOf
  <2>4. Refused(field)
    BY <1>1, <1>7, <1>8, <1>13, <2>3 DEF Refused
  <2> QED BY <1>2, <1>3, <2>1, <2>2, <2>4 DEF Learned
<1>14. CASE s.pending \notin TextKeys
  <2>1. t = [s EXCEPT !.pending = "none"] /\ accepted' = TRUE
    BY <1>1, <1>2, <1>3, <1>14 DEF TradeHandler!TradeString, TradeHandler!Take,
       TradeHandler!NotPending, TextKeys
  <2>2. TradeType(t) /\ t.objects = s.objects /\ t.out = s.out
        /\ t.validType = s.validType /\ t.havePrice = s.havePrice /\ t.haveQty = s.haveQty
        /\ t.haveMaker = s.haveMaker
    BY <1>4, <2>1 DEF TradeType
  <2>3. field.key \notin TextKeys
    BY <1>4, <1>14 DEF PendingOf, TextKeys
  <2>4. Learns(s, field, t)
    BY <1>6, <1>7, <2>2, <2>3 DEF Learns, TextKeys
  <2> QED BY <1>2, <1>3, <1>5, <2>1, <2>2, <2>4 DEF Learned
<1> QED BY <1>9, <1>10, <1>11, <1>12, <1>13, <1>14 DEF TextKeys

\* So is the side of the buyer.
LEMMA BoolLearned ==
  ASSUME TradeType(trade), NEW field \in Fields, field.type = "Bool",
         trade.pending = PendingOf(field), TradeHandler!TradeBool(field.value)
  PROVE  Learned(trade, field, trade')
<1>1. PICK bool \in BOOLEAN : bool = field.value
  <2>1. field.value \in BOOLEAN
    BY DEF Fields
  <2> QED BY <2>1
<1>2. PICK s : s = trade
  OBVIOUS
<1>3. PICK t : t = trade'
  OBVIOUS
<1>4. TradeType(s) /\ s.pending = PendingOf(field)
  BY <1>2
<1>5. InTrades(field)
  BY DEF InTrades
<1>6. \A key : ~IsAt(field, key, "String")
  BY DEF IsAt
<1>7. IsAt(field, "m", "Bool") <=> field.key = "m"
  BY DEF IsAt
<1>8. CASE s.pending = "m"
  <2>1. t = [s EXCEPT !.pending = "none", !.out.isBuyerMaker = bool, !.haveMaker = TRUE]
        /\ accepted' = TRUE
    BY <1>1, <1>2, <1>3, <1>8 DEF TradeHandler!TradeBool, TradeHandler!Take,
       TradeHandler!NotPending
  <2>2. TradeType(t) /\ t.objects = s.objects
    BY <1>4, <2>1 DEF TradeType
  <2>3. /\ t.validType = s.validType /\ t.havePrice = s.havePrice /\ t.haveQty = s.haveQty
        /\ t.haveMaker /\ t.out.isBuyerMaker = bool /\ t.out.symbol = s.out.symbol
        /\ t.out.price = s.out.price /\ t.out.quantity = s.out.quantity
    BY <1>4, <2>1 DEF TradeType
  <2>4. field.key = "m"
    BY <1>4, <1>8 DEF PendingOf
  <2>5. Learns(s, field, t)
    BY <1>1, <1>6, <1>7, <2>3, <2>4 DEF Learns
  <2> QED BY <1>2, <1>3, <1>5, <2>1, <2>2, <2>5 DEF Learned
<1>9. CASE s.pending # "m"
  <2>1. t = [s EXCEPT !.pending = "none"] /\ accepted' = TRUE
    BY <1>1, <1>2, <1>3, <1>9 DEF TradeHandler!TradeBool, TradeHandler!Take,
       TradeHandler!NotPending
  <2>2. TradeType(t) /\ t.objects = s.objects /\ t.out = s.out
        /\ t.validType = s.validType /\ t.havePrice = s.havePrice /\ t.haveQty = s.haveQty
        /\ t.haveMaker = s.haveMaker
    BY <1>4, <2>1 DEF TradeType
  <2>3. field.key # "m"
    BY <1>4, <1>9 DEF PendingOf
  <2>4. Learns(s, field, t)
    BY <1>6, <1>7, <2>2, <2>3 DEF Learns
  <2> QED BY <1>2, <1>3, <1>5, <2>1, <2>2, <2>4 DEF Learned
<1> QED BY <1>8, <1>9

\* A number is passed.
LEMMA NumberLearned ==
  ASSUME TradeType(trade), NEW field \in Fields, field.type = "Number",
         TradeHandler!TradeNumber
  PROVE  Learned(trade, field, trade')
<1>1. PICK s : s = trade
  OBVIOUS
<1>2. PICK t : t = trade'
  OBVIOUS
<1>3. t = [s EXCEPT !.pending = "none"] /\ accepted' = TRUE
  BY <1>1, <1>2 DEF TradeHandler!TradeNumber, TradeHandler!Take, TradeHandler!NotPending
<1>4. TradeType(t) /\ t.objects = s.objects /\ t.out = s.out
      /\ t.validType = s.validType /\ t.havePrice = s.havePrice /\ t.haveQty = s.haveQty
      /\ t.haveMaker = s.haveMaker
  BY <1>1, <1>3 DEF TradeType
<1>5. InTrades(field) /\ \A key : ~IsAt(field, key, "String") /\ ~IsAt(field, key, "Bool")
  BY DEF InTrades, IsAt
<1>6. Learns(s, field, t)
  BY <1>4, <1>5 DEF Learns
<1> QED BY <1>1, <1>2, <1>3, <1>4, <1>5, <1>6 DEF Learned

\* Arrays are passed, and teach nothing.
LEMMA ArraysLearned ==
  ASSUME NEW s, NEW field, field.type \in {"rows", "deep"}
  PROVE  InTrades(field) /\ Learns(s, field, s)
<1>1. InTrades(field) /\ \A key : ~IsAt(field, key, "String") /\ ~IsAt(field, key, "Bool")
  BY DEF InTrades, IsAt
<1> QED BY <1>1, Zenon DEF Learns

-----------------------------------------------------------------------------
(* The handler of trades, while the data are read.                         *)

\* The callbacks that reach it.
TradeCallback(token) ==
  \/ token.call = "String" /\ TradeHandler!TradeString(token.value)
  \/ token.call = "Number" /\ TradeHandler!TradeNumber
  \/ token.call = "Bool" /\ TradeHandler!TradeBool(token.value)
  \/ token.call = "Key" /\ TradeHandler!TradeKey(token.value)
  \/ token.call = "EndObject" /\ TradeHandler!TradeEndObject
  \/ token.call \in {"StartArray", "EndArray"} /\ TradeHandler!TradeArray
  \/ token.call \in {"StartObject", "Other"} /\ TradeHandler!Refuse

\* Between two fields, with some tokens of an array still to come.
Passed(t, xs) ==
  \/ xs \in Seq(ArrayTokens)
  \/ xs \in Seq(TokensOfRows) /\ t.pending \notin TextKeys

\* A field is to come, or the end of the data.
BetweenTraded(data, i, behind, tokens, t) ==
  /\ t.objects = 1 /\ TradeAfter(data, i, t)
  /\ \E xs : Passed(t, xs) /\ tokens = xs \o RestOfFields(data, i, behind)

\* Before the value of a field.
BeforeTraded(data, i, behind, tokens, t) ==
  /\ t.objects = 1 /\ TradeAfter(data, i, t) /\ t.pending = PendingOf(data[i + 1])
  /\ tokens = TokensOfValue(data[i + 1]) \o RestOfFields(data, i + 1, behind)

\* Anywhere in the data.
InTrade(data, behind, tokens, t) ==
  \/ \E i \in 0 .. Len(data) : BetweenTraded(data, i, behind, tokens, t)
  \/ \E i \in 0 .. Len(data) - 1 : BeforeTraded(data, i, behind, tokens, t)

\* A callback leads on, or to the end of the data, or is refused for a good reason.
TradeReached(data, behind, token, tokens) ==
  /\ TradeType(trade')
  /\ \/ accepted' = TRUE /\ token.call # "EndObject" /\ InTrade(data, behind, tokens, trade')
     \/ /\ accepted' = TRUE /\ token.call = "EndObject" /\ tokens = behind
        /\ IsTrade(data) /\ trade'.out = TradeOf(data)
     \/ accepted' = FALSE /\ ~IsTrade(data)

\* The types stay.
IsPendingSet(s, pending, t) == t = [s EXCEPT !.pending = pending]

\* So they do when a key is taken or its value passed ...
LEMMA PendingSet ==
  ASSUME NEW s, TradeType(s), NEW pending \in {"none", "e", "E", "s", "p", "q", "m"}, NEW t,
         IsPendingSet(s, pending, t)
  PROVE  TradeType(t) /\ t.pending = pending /\ t.objects = s.objects /\ SameTrade(s, t)
BY DEF TradeType, SameTrade, IsPendingSet

\* ... and when the data end.
LEMMA ObjectEnded ==
  ASSUME NEW s, TradeType(s), NEW t, t = [s EXCEPT !.objects = 0]
  PROVE  TradeType(t) /\ t.out = s.out
BY DEF TradeType

\* An array, or what comes behind it.
LEMMA ReadPassed ==
  ASSUME NEW data \in DataObjects, NEW i \in 0 .. Len(data), NEW behind \in Seq(AnyToken),
         NEW tokens, TradeType(trade), BetweenTraded(data, i, behind, tokens, trade),
         NEW token, NEW next, Reads(tokens, token, next), TradeCallback(token)
  PROVE  TradeReached(data, behind, token, next)
<1>1. data \in Objects /\ data \in Seq(Fields) /\ Len(data) \in Nat
  BY DEF DataObjects, Objects
<1>2. PICK others \in Seq(AnyToken) : others = RestOfFields(data, i, behind)
  BY <1>1, FieldsAreRead, Zenon
<1>3. trade.objects = 1 /\ TradeAfter(data, i, trade)
  BY DEF BetweenTraded
<1>4. PICK xs : Passed(trade, xs) /\ tokens = xs \o others
  BY <1>2, Zenon DEF BetweenTraded
<1>5. CASE Reads(others, token, next)
  <2>1. CASE i < Len(data)
    <3>1. Reads(others, KeyToken(data[i + 1]),
                TokensOfValue(data[i + 1]) \o RestOfFields(data, i + 1, behind))
      BY <1>1, <1>2, <2>1, FieldsAreRead, Zenon
    <3>2. /\ token = KeyToken(data[i + 1])
          /\ next = TokensOfValue(data[i + 1]) \o RestOfFields(data, i + 1, behind)
      BY <1>5, <3>1, Zenon DEF Reads
    <3>3. i \in 0 .. Len(data) - 1
      BY <1>1, <2>1
    <3>4. PICK field : field = data[i + 1]
      OBVIOUS
    <3>5. token.call = "Key" /\ token.value = field.key
      BY <3>2, <3>4 DEF KeyToken, Token
    <3>6. TradeHandler!TradeKey(field.key)
      BY <3>5 DEF TradeCallback
    <3>7. PICK pending \in {"none", "e", "E", "s", "p", "q", "m"} : pending = PendingOf(field)
      BY DEF PendingOf
    <3>8. IsPendingSet(trade, pending, trade') /\ accepted' = TRUE
      BY <1>3, <3>6, <3>7 DEF IsPendingSet, TradeHandler!TradeKey, TradeHandler!Take,
         TradeHandler!TradeKeys, PendingOf
    <3>9. /\ TradeType(trade') /\ trade'.pending = pending /\ trade'.objects = trade.objects
          /\ SameTrade(trade, trade')
      BY <3>8, PendingSet, Zenon
    <3>10. TradeAfter(data, i, trade')
      BY <1>3, <3>9, TradeStays, Zenon
    <3>11. BeforeTraded(data, i, behind, next, trade')
      BY <1>3, <3>2, <3>4, <3>7, <3>9, <3>10, Zenon DEF BeforeTraded
    <3>12. token.call # "EndObject"
      BY <3>5
    <3> QED BY <3>3, <3>8, <3>9, <3>11, <3>12, Zenon DEF TradeReached, InTrade
  <2>2. CASE ~(i < Len(data))
    <3>0. i = Len(data)
      BY <1>1, <2>2
    <3>1. Reads(others, EndObjectToken, behind)
      BY <1>1, <1>2, <3>0, FieldsAreRead, Zenon
    <3>2. token = EndObjectToken /\ next = behind
      BY <1>5, <3>1, Zenon DEF Reads
    <3>3. token.call = "EndObject"
      BY <3>2 DEF EndObjectToken, Token
    <3>4. TradeHandler!TradeEndObject
      BY <3>3 DEF TradeCallback
    <3>5. /\ IsTrade(data) <=>
               trade.validType /\ trade.havePrice /\ trade.haveQty /\ trade.haveMaker
          /\ IsTrade(data) => trade.out = TradeOf(data)
      BY <1>1, <1>3, <3>0, TradeIsWhole
    <3>6. /\ trade' = [trade EXCEPT !.objects = 0]
          /\ \/ accepted' = TRUE /\ IsTrade(data)
             \/ accepted' = FALSE /\ ~IsTrade(data)
      BY <3>4, <3>5 DEF TradeHandler!TradeEndObject, TradeHandler!Take, TradeHandler!RefuseAs
    <3>7. TradeType(trade') /\ trade'.out = trade.out
      BY <3>6, ObjectEnded, Zenon
    <3> QED BY <3>2, <3>3, <3>5, <3>6, <3>7, Zenon DEF TradeReached
  <2> QED BY <2>1, <2>2
<1>6. CASE token \in ArrayTokens /\ \E ys : Passed(trade, ys) /\ next = ys \o others
  <2>1. token.call \in {"StartArray", "EndArray"}
    BY <1>6 DEF ArrayTokens, StartArrayToken, EndArrayToken, Token
  <2>2. trade' = trade /\ accepted' = TRUE
    BY <2>1 DEF TradeCallback, TradeHandler!TradeArray, TradeHandler!Take
  <2>3. BetweenTraded(data, i, behind, next, trade')
    BY <1>2, <1>3, <1>6, <2>2, Zenon DEF BetweenTraded
  <2>4. token.call # "EndObject"
    BY <2>1
  <2> QED BY <2>2, <2>3, <2>4, Zenon DEF TradeReached, InTrade
<1>7. CASE /\ \E text \in Seq(STRING) : token = StringToken(text)
           /\ \E ys \in Seq(TokensOfRows) : next = ys \o others
           /\ trade.pending \notin TextKeys
  <2>1. token.call = "String"
    BY <1>7 DEF StringToken, Token
  <2>2. TradeHandler!TradeString(token.value)
    BY <2>1 DEF TradeCallback
  <2>3. IsPendingSet(trade, "none", trade') /\ accepted' = TRUE
    BY <1>7, <2>2 DEF IsPendingSet, TradeHandler!TradeString, TradeHandler!Take,
       TradeHandler!NotPending, TextKeys
  <2>4. "none" \in {"none", "e", "E", "s", "p", "q", "m"} /\ "none" \notin TextKeys
    BY DEF TextKeys
  <2>5. /\ TradeType(trade') /\ trade'.pending = "none" /\ trade'.objects = trade.objects
        /\ SameTrade(trade, trade')
    BY <2>3, <2>4, PendingSet, Zenon
  <2>6. TradeAfter(data, i, trade')
    BY <1>3, <2>5, TradeStays, Zenon
  <2>7. \E ys : Passed(trade', ys) /\ next = ys \o others
    BY <1>7, <2>4, <2>5, Zenon DEF Passed
  <2>8. BetweenTraded(data, i, behind, next, trade')
    BY <1>2, <1>3, <2>5, <2>6, <2>7, Zenon DEF BetweenTraded
  <2>9. token.call # "EndObject"
    BY <2>1
  <2> QED BY <2>3, <2>5, <2>8, <2>9, Zenon DEF TradeReached, InTrade
<1>8. AreTokens(TokensOfRows) /\ AreTokens(ArrayTokens)
  BY TokenTypes DEF AreTokens, TokensOfRows, ArrayTokens
<1>9. CASE xs \in Seq(ArrayTokens)
  <2>1. \/ Reads(others, token, next)
        \/ token \in ArrayTokens /\ AreLeft(ArrayTokens, others, next)
    <3>1. Reads(xs \o others, token, next)
      BY <1>4, Zenon
    <3> QED BY <1>8, <1>9, <3>1, ReadsSome, Zenon
  <2> QED BY <1>5, <1>6, <2>1, Zenon DEF Passed, AreLeft
<1>10. CASE xs \in Seq(TokensOfRows) /\ trade.pending \notin TextKeys
  <2>1. \/ Reads(others, token, next)
        \/ token \in TokensOfRows /\ AreLeft(TokensOfRows, others, next)
    <3>1. Reads(xs \o others, token, next)
      BY <1>4, Zenon
    <3> QED BY <1>8, <1>10, <3>1, ReadsSome, Zenon
  <2>2. token \in TokensOfRows =>
          token \in ArrayTokens \/ \E text \in Seq(STRING) : token = StringToken(text)
    BY DEF TokensOfRows
  <2> QED BY <1>5, <1>6, <1>7, <1>10, <2>1, <2>2, Zenon DEF Passed, AreLeft
<1> QED BY <1>4, <1>9, <1>10, Zenon DEF Passed

\* The value of a field.
LEMMA ReadTraded ==
  ASSUME NEW data \in DataObjects, NEW i \in 0 .. Len(data) - 1, NEW behind \in Seq(AnyToken),
         NEW tokens, TradeType(trade), BeforeTraded(data, i, behind, tokens, trade),
         NEW token, NEW next, Reads(tokens, token, next), TradeCallback(token)
  PROVE  TradeReached(data, behind, token, next)
<1>1. data \in Objects /\ data \in Seq(Fields) /\ <<>> \in Seq(TokensOfRows)
  BY DEF DataObjects, Objects
<1>2. /\ data[i + 1] \in Fields /\ i \in Nat /\ i + 1 \in 0 .. Len(data) /\ i + 1 \in DOMAIN data
  BY <1>1, FieldOf
<1>3. PICK field \in Fields : field = data[i + 1]
  BY <1>2, Zenon
<1>4. PICK others \in Seq(AnyToken) : others = RestOfFields(data, i + 1, behind)
  BY <1>1, <1>2, FieldsAreRead, Zenon
<1>5. /\ trade.objects = 1 /\ TradeAfter(data, i, trade) /\ trade.pending = PendingOf(field)
      /\ tokens = TokensOfValue(field) \o others
  BY <1>3, <1>4, Zenon DEF BeforeTraded
<1>6. field.type \in Plain \cup {"rows", "nested", "deep"}
  BY FieldTypes
<1>7. Refused(field) => ~IsTrade(data)
  BY <1>1, <1>3, NoTradeRefused, Zenon
<1>8. CASE field.type \in {"String", "Number", "Bool"}
  <2>1. Reads(tokens, Token(field.type, field.value), others)
    <3>1. field.type \in Plain
      BY <1>8 DEF Plain
    <3> QED BY <1>5, <3>1, ValueIsRead, Zenon
  <2>2. token = Token(field.type, field.value) /\ next = others
    BY <2>1, Zenon DEF Reads
  <2>3. token.call = field.type /\ token.value = field.value
    BY <2>2 DEF Token
  <2>4. Learned(trade, field, trade')
    <3>1. CASE field.type = "String"
      <4>1. TradeHandler!TradeString(field.value)
        BY <2>3, <3>1 DEF TradeCallback
      <4> QED BY <1>5, <3>1, <4>1, StringLearned, Zenon
    <3>2. CASE field.type = "Number"
      <4>1. TradeHandler!TradeNumber
        BY <2>3, <3>2 DEF TradeCallback
      <4> QED BY <1>5, <3>2, <4>1, NumberLearned, Zenon
    <3>3. CASE field.type = "Bool"
      <4>1. TradeHandler!TradeBool(field.value)
        BY <2>3, <3>3 DEF TradeCallback
      <4> QED BY <1>5, <3>3, <4>1, BoolLearned, Zenon
    <3> QED BY <1>8, <3>1, <3>2, <3>3
  <2>5. TradeType(trade') /\ trade'.objects = trade.objects
    BY <2>4, Zenon DEF Learned
  <2>6. token.call # "EndObject"
    BY <1>8, <2>3
  <2>7. CASE accepted' = TRUE /\ Learns(trade, field, trade') /\ InTrades(field)
    <3>1. TradeAfter(data, i + 1, trade')
      BY <1>1, <1>3, <1>5, <2>7, TradeLearns, Zenon
    <3>2. <<>> \o others = others
      BY ConcatEmptySeq, Zenon
    <3>3. Passed(trade', <<>>)
      <4>1. <<>> \in Seq(ArrayTokens)
        OBVIOUS
      <4> QED BY <4>1, Zenon DEF Passed
    <3>4. BetweenTraded(data, i + 1, behind, next, trade')
      BY <1>4, <1>5, <2>2, <2>5, <3>1, <3>2, <3>3, Zenon DEF BetweenTraded
    <3> QED BY <1>2, <2>5, <2>6, <2>7, <3>4, Zenon DEF TradeReached, InTrade
  <2>8. CASE accepted' = FALSE /\ Refused(field)
    BY <1>7, <2>5, <2>8, Zenon DEF TradeReached
  <2> QED BY <2>4, <2>7, <2>8, Zenon DEF Learned
<1>9. CASE field.type \in {"Other", "nested"}
  <2>1. token.call \in {"Other", "StartObject"}
    <3>1. CASE field.type = "Other"
      <4>1. Reads(tokens, Token(field.type, field.value), others)
        <5>1. field.type \in Plain
          BY <3>1 DEF Plain
        <5> QED BY <1>5, <5>1, ValueIsRead, Zenon
      <4> QED BY <3>1, <4>1 DEF Reads, Token
    <3>2. CASE field.type = "nested"
      <4>1. PICK b : Reads(tokens, StartObjectToken, b)
        BY <1>5, <3>2, ValueIsRead, Zenon
      <4> QED BY <4>1 DEF Reads, StartObjectToken, Token
    <3> QED BY <1>9, <3>1, <3>2
  <2>2. trade' = trade /\ accepted' = FALSE
    BY <2>1 DEF TradeCallback, TradeHandler!Refuse, TradeHandler!RefuseAs
  <2>3. Refused(field)
    BY <1>9 DEF Refused, InTrades
  <2> QED BY <1>7, <2>2, <2>3, Zenon DEF TradeReached
<1>10. CASE field.type \in {"rows", "deep"}
  <2>1. InTrades(field) /\ Learns(trade, field, trade)
    BY <1>10, ArraysLearned
  <2>2. TradeAfter(data, i + 1, trade)
    BY <1>1, <1>3, <1>5, <2>1, TradeLearns, Zenon
  <2>3. Passed(trade, TokensOfValue(field))
    <3>1. CASE field.type = "deep"
      BY <3>1, DeepOfTokens, Zenon DEF Passed
    <3>2. CASE field.type = "rows"
      <4>1. TokensOfValue(field) \in Seq(TokensOfRows)
        BY <3>2, RowsOfTokens, Zenon
      <4>2. field.key \notin TextKeys
        BY <1>2, <1>3, <3>2 DEF DataObjects, TextKeys
      <4>3. trade.pending \notin TextKeys
        BY <1>5, <4>2 DEF PendingOf, TextKeys
      <4> QED BY <4>1, <4>3, Zenon DEF Passed
    <3> QED BY <1>10, <3>1, <3>2
  <2>4. BetweenTraded(data, i + 1, behind, tokens, trade)
    BY <1>4, <1>5, <2>2, <2>3, Zenon DEF BetweenTraded
  <2> QED BY <1>2, <2>4, ReadPassed, Zenon
<1> QED BY <1>6, <1>8, <1>9, <1>10 DEF Plain

\* A token of the data.
LEMMA ReadInTrade ==
  ASSUME NEW data \in DataObjects, NEW behind \in Seq(AnyToken), NEW tokens,
         TradeType(trade), InTrade(data, behind, tokens, trade), NEW token, NEW next,
         Reads(tokens, token, next), TradeCallback(token)
  PROVE  TradeReached(data, behind, token, next)
BY ReadPassed, ReadTraded, Zenon DEF InTrade

-----------------------------------------------------------------------------
(* The handler of the wrapper, while it reads an event of trades.          *)

\* The types of its members.
WrapperType(w) ==
  w \in [pendingStream : BOOLEAN, stream : Seq(STRING), expectData : BOOLEAN, sawData : BOOLEAN,
         inData : BOOLEAN, isDepth : BOOLEAN, release : BOOLEAN, releaseDepth : BOOLEAN]

\* The stream has been named, the data have been given.
Named(fields, i) == \E l \in 1 .. i : fields[l].key = "stream"
Given(fields, i) == \E l \in 1 .. i : fields[l].type = "object"

\* One field more.
LEMMA NamedNext ==
  ASSUME NEW fields, NEW i \in Nat
  PROVE  /\ Named(fields, i + 1) <=> Named(fields, i) \/ fields[i + 1].key = "stream"
         /\ Given(fields, i + 1) <=> Given(fields, i) \/ fields[i + 1].type = "object"
<1>1. \A l : l \in 1 .. i + 1 <=> l \in 1 .. i \/ l = i + 1
  OBVIOUS
<1> QED BY <1>1, Zenon DEF Named, Given

\* The numbers of fields.
LEMMA EventFieldOf ==
  ASSUME NEW fields \in Events, NEW i \in 0 .. Len(fields) - 1
  PROVE  /\ fields[i + 1] \in EventFields /\ i \in Nat /\ i \in 0 .. Len(fields)
         /\ i + 1 \in 0 .. Len(fields) /\ i + 1 \in DOMAIN fields /\ i < Len(fields)
<1>1. fields \in Seq(EventFields)
  BY DEF Events
<1>2. PICK L \in Nat : L = Len(fields) /\ DOMAIN fields = 1 .. L
                        /\ fields \in [1 .. L -> EventFields]
  BY <1>1
<1>3. i + 1 \in 1 .. L /\ i \in Nat /\ i \in 0 .. L /\ i + 1 \in 0 .. L /\ i < L
  BY <1>2
<1>4. fields[i + 1] \in EventFields
  BY <1>2, <1>3
<1> QED BY <1>2, <1>3, <1>4

\* What a field of such an event can be.
LEMMA FieldOfTrades ==
  ASSUME NEW fields \in Events, Wrapped(fields, <<"@trade">>), NEW i \in 0 .. Len(fields) - 1
  PROVE  /\ fields[i + 1].type \in {"String", "object", "nested"}
         /\ fields[i + 1].key = "stream" =>
              fields[i + 1].type = "String" /\ fields[i + 1].value = <<"@trade">>
         /\ fields[i + 1].key = "data" => fields[i + 1].type = "object"
         /\ fields[i + 1].type = "object" =>
              /\ fields[i + 1].key = "data" /\ fields[i + 1].value \in DataObjects
              /\ fields[i + 1].value = DataOf(fields)
              /\ Named(fields, i) /\ ~Given(fields, i)
         /\ fields[i + 1].type = "nested" => fields[i + 1].key \notin {"stream", "data"}
<1>1. /\ fields \in Seq(EventFields) /\ Distinct(fields)
      /\ \A m \in DOMAIN fields : fields[m].key \in {"stream", "data"} => fields[m].type # "nested"
  BY DEF Events
<1>2. PICK field \in EventFields : field = fields[i + 1]
  BY EventFieldOf, Zenon
<1>3. i + 1 \in DOMAIN fields /\ i \in Nat
  BY EventFieldOf
<1>4. PICK a, b \in DOMAIN fields :
        /\ a < b /\ fields[a] = [key |-> "stream", type |-> "String", value |-> <<"@trade">>]
        /\ fields[b].key = "data" /\ fields[b].type = "object"
  BY Zenon DEF Wrapped
<1>5. fields[a].key = "stream" /\ fields[a].type = "String" /\ fields[a].value = <<"@trade">>
  BY <1>4
<1>6. field.type \in {"String", "object", "nested"}
  BY <1>2, <1>3, Zenon DEF Wrapped, OnlyTypes
<1>7. ASSUME field.key = "stream" PROVE field.type = "String" /\ field.value = <<"@trade">>
  <2>1. i + 1 = a
    BY <1>1, <1>2, <1>3, <1>4, <1>5, <1>7, Zenon DEF Distinct
  <2> QED BY <1>2, <1>5, <2>1
<1>8. ASSUME field.key = "data" PROVE field.type = "object"
  <2>1. i + 1 = b
    BY <1>1, <1>2, <1>3, <1>4, <1>8, Zenon DEF Distinct
  <2> QED BY <1>2, <1>4, <2>1
<1>9. ASSUME field.type = "object"
      PROVE  /\ field.key = "data" /\ field.value \in DataObjects
             /\ field.value = DataOf(fields)
             /\ Named(fields, i) /\ ~Given(fields, i)
  <2>1. field.key = "data" /\ field.value \in DataObjects
    BY <1>9, EventFieldTypes
  <2>2. i + 1 = b
    BY <1>1, <1>2, <1>3, <1>4, <2>1, Zenon DEF Distinct
  <2>3. \A m \in DOMAIN fields : fields[m].key = "data" <=> m = i + 1
    BY <1>1, <1>2, <1>3, <2>1, Zenon DEF Distinct
  <2>4. (CHOOSE m \in DOMAIN fields : fields[m].key = "data") = i + 1
    BY <1>3, <2>3
  <2>5. Has(fields, "data", "object")
    BY <1>2, <1>3, <1>9, <2>1, Zenon DEF Has
  <2>6. field.value = DataOf(fields)
    BY <1>2, <2>4, <2>5, Zenon DEF DataOf, ValueOf
  <2>7. Named(fields, i)
    <3>1. a \in 1 .. i
      BY <1>1, <1>3, <1>4, <2>2
    <3> QED BY <1>5, <3>1, Zenon DEF Named
  <2>8. ~Given(fields, i)
    <3> SUFFICES ASSUME NEW l \in 1 .. i, fields[l].type = "object" PROVE FALSE
      BY Zenon DEF Given
    <3>1. l \in DOMAIN fields /\ l # i + 1
      BY <1>1, <1>3
    <3>2. fields[l] \in EventFields
      BY <1>1, <3>1
    <3>3. fields[l].key = "data"
      BY <3>2, EventFieldTypes
    <3> QED BY <2>3, <3>1, <3>3, Zenon
  <2> QED BY <2>1, <2>6, <2>7, <2>8
<1>10. ASSUME field.type = "nested" PROVE field.key \notin {"stream", "data"}
  BY <1>1, <1>2, <1>3, <1>10, Zenon
<1> QED BY <1>2, <1>6, <1>7, <1>8, <1>9, <1>10, Zenon

\* The data are given in the end.
LEMMA GivenInTheEnd ==
  ASSUME NEW fields \in Events, Wrapped(fields, <<"@trade">>)
  PROVE  Given(fields, Len(fields))
<1>1. fields \in Seq(EventFields)
  BY DEF Events
<1>2. DOMAIN fields = 1 .. Len(fields)
  BY <1>1
<1> QED BY <1>2, Zenon DEF Wrapped, Given

\* What the handlers know outside of the data, after some of the fields.
EventAfter(fields, i, w, t) ==
  /\ ~w.inData /\ ~w.releaseDepth
  /\ Named(fields, i) => w.stream = <<"@trade">>
  /\ w.sawData <=> Given(fields, i)
  /\ ~Given(fields, i) => t = TradeHandler!Fresh
  /\ Given(fields, i) =>
       w.release /\ IsTrade(DataOf(fields)) /\ t.out = TradeOf(DataOf(fields))

\* Between two fields, with some tokens of an object that is ignored still to come.
ObjectTokens == {StartObjectToken, EndObjectToken}

\* A field is to come, or the end of the event.
BetweenEventFields(fields, i, tokens, w, t) ==
  /\ EventAfter(fields, i, w, t) /\ ~w.pendingStream /\ ~w.expectData
  /\ AreLeft(ObjectTokens, RestOfEvent(fields, i), tokens)

\* A value is to come: its key is noted.
BeforeEventValue(fields, i, tokens, w, t) ==
  /\ EventAfter(fields, i, w, t)
  /\ w.pendingStream <=> fields[i + 1].key = "stream"
  /\ w.expectData <=> fields[i + 1].key = "data"
  /\ tokens = TokensOfWrapped(fields[i + 1]) \o RestOfEvent(fields, i + 1)

\* The data are read.
InData(fields, i, tokens, w, t) ==
  /\ fields[i + 1].type = "object"
  /\ w.inData /\ ~w.isDepth /\ ~w.expectData /\ ~w.pendingStream /\ ~w.releaseDepth
  /\ w.sawData /\ w.stream = <<"@trade">>
  /\ InTrade(DataOf(fields), RestOfEvent(fields, i + 1), tokens, t)

\* The event has not begun: the reset left nothing of an earlier message.
BeforeEvent(fields, tokens, w, t) ==
  Reads(tokens, StartObjectToken, RestOfEvent(fields, 0)) /\ w = Fresh /\ t = TradeHandler!Fresh

\* The event has been read.
BehindEvent(fields, tokens, w, t) == tokens = <<>> /\ EventAfter(fields, Len(fields), w, t)

\* Anywhere in the event.
InEvent(fields, tokens, w, t) ==
  \/ BeforeEvent(fields, tokens, w, t)
  \/ \E i \in 0 .. Len(fields) : BetweenEventFields(fields, i, tokens, w, t)
  \/ \E i \in 0 .. Len(fields) - 1 :
       BeforeEventValue(fields, i, tokens, w, t) \/ InData(fields, i, tokens, w, t)
  \/ BehindEvent(fields, tokens, w, t)

\* A callback leads on, or refuses data that are no trade.
EventReached(fields, tokens) ==
  /\ WrapperType(wrapper') /\ TradeType(trade')
  /\ \/ accepted' = TRUE /\ InEvent(fields, tokens, wrapper', trade')
     \/ accepted' = FALSE /\ ~IsTrade(DataOf(fields))

\* The types of the handlers that are fresh.
LEMMA FreshTypes == WrapperType(Fresh) /\ TradeType(TradeHandler!Fresh)
<1>1. <<>> \in Seq(STRING)
  OBVIOUS
<1>2. WrapperType(Fresh)
  BY <1>1 DEF WrapperType, Fresh
<1>3. TradeType(TradeHandler!Fresh)
  BY <1>1 DEF TradeType, TradeHandler!Fresh, TradeHandler!NoTrade, TradeHandler!kUnknown
<1> QED BY <1>2, <1>3

\* The object of the event begins.
LEMMA ReadBeforeEvent ==
  ASSUME NEW fields \in Events, NEW tokens, BeforeEvent(fields, tokens, wrapper, trade),
         NEW token, NEW next, Reads(tokens, token, next), EventCallback(token)
  PROVE  EventReached(fields, next)
<1>1. token = StartObjectToken /\ next = RestOfEvent(fields, 0)
  BY Zenon DEF BeforeEvent, Reads
<1>2. wrapper = Fresh /\ trade = TradeHandler!Fresh
  BY DEF BeforeEvent
<1>3. ~wrapper.expectData /\ ~wrapper.inData /\ ~wrapper.pendingStream /\ ~wrapper.releaseDepth
      /\ ~wrapper.sawData
  BY <1>2 DEF Fresh
<1>4. CombinedStartObject
  BY <1>1 DEF EventCallback, StartObjectToken, Token
<1>5. wrapper' = wrapper /\ trade' = trade /\ accepted' = TRUE
  BY <1>3, <1>4 DEF CombinedStartObject, Wrap
<1>6. ~Named(fields, 0) /\ ~Given(fields, 0)
  BY DEF Named, Given
<1>7. EventAfter(fields, 0, wrapper, trade)
  BY <1>2, <1>3, <1>6, Zenon DEF EventAfter
<1>8. AreLeft(ObjectTokens, next, next)
  <2>1. <<>> \in Seq(ObjectTokens)
    OBVIOUS
  <2>2. fields \in Seq(EventFields) /\ 0 \in 0 .. Len(fields)
    BY DEF Events
  <2>3. next \in Seq(AnyToken)
    BY <1>1, <2>2, EventIsRead, Zenon
  <2>4. <<>> \o next = next
    BY <2>3, ConcatEmptySeq, Zenon
  <2> QED BY <2>1, <2>4, Zenon DEF AreLeft
<1>9. BetweenEventFields(fields, 0, next, wrapper', trade')
  BY <1>1, <1>3, <1>5, <1>7, <1>8, Zenon DEF BetweenEventFields
<1>10. 0 \in 0 .. Len(fields)
  BY DEF Events
<1> QED BY <1>2, <1>5, <1>9, <1>10, FreshTypes, Zenon DEF EventReached, InEvent

\* A key of the wrapper is noted.
KeyNoted(w, key, v) ==
  v = [w EXCEPT !.pendingStream = @ \/ key = "stream", !.expectData = @ \/ key = "data"]

\* It leaves the other members alone.
LEMMA KeyIsNoted ==
  ASSUME NEW w, WrapperType(w), ~w.pendingStream, ~w.expectData, NEW key, NEW v, KeyNoted(w, key, v)
  PROVE  /\ WrapperType(v) /\ v.stream = w.stream /\ v.sawData = w.sawData /\ v.inData = w.inData
         /\ v.release = w.release /\ v.releaseDepth = w.releaseDepth
         /\ v.pendingStream <=> key = "stream"
         /\ v.expectData <=> key = "data"
<1>1. PICK p \in BOOLEAN : p <=> key = "stream"
  OBVIOUS
<1>2. PICK e \in BOOLEAN : e <=> key = "data"
  OBVIOUS
<1>3. v = [w EXCEPT !.pendingStream = p, !.expectData = e]
  BY <1>1, <1>2 DEF KeyNoted, WrapperType
<1> QED BY <1>1, <1>2, <1>3 DEF WrapperType

\* What is known stays, whatever comes next.
LEMMA EventStays ==
  ASSUME NEW fields, NEW i, NEW w, NEW v, NEW t, EventAfter(fields, i, w, t),
         v.inData = w.inData, v.releaseDepth = w.releaseDepth, v.stream = w.stream,
         v.sawData = w.sawData, v.release = w.release
  PROVE  EventAfter(fields, i, v, t)
BY Zenon DEF EventAfter

\* An object that is ignored, or what comes behind it.
LEMMA ReadBetweenEvent ==
  ASSUME NEW fields \in Events, NEW i \in 0 .. Len(fields), NEW tokens,
         WrapperType(wrapper), TradeType(trade),
         BetweenEventFields(fields, i, tokens, wrapper, trade),
         NEW token, NEW next, Reads(tokens, token, next), EventCallback(token)
  PROVE  EventReached(fields, next)
<1>1. fields \in Seq(EventFields) /\ Len(fields) \in Nat
  BY DEF Events
<1>2. PICK others \in Seq(AnyToken) : others = RestOfEvent(fields, i)
  BY <1>1, EventIsRead, Zenon
<1>3. /\ EventAfter(fields, i, wrapper, trade) /\ ~wrapper.pendingStream /\ ~wrapper.expectData
      /\ AreLeft(ObjectTokens, others, tokens) /\ ~wrapper.inData
  BY <1>2, Zenon DEF BetweenEventFields, EventAfter
<1>4. PICK xs \in Seq(ObjectTokens) : tokens = xs \o others
  BY <1>3, Zenon DEF AreLeft
<1>5. \/ Reads(others, token, next)
      \/ token \in ObjectTokens /\ AreLeft(ObjectTokens, others, next)
  <2>1. AreTokens(ObjectTokens)
    BY TokenTypes DEF AreTokens, ObjectTokens
  <2>2. Reads(xs \o others, token, next)
    BY <1>4, Zenon
  <2> QED BY <2>1, <2>2, ReadsSome, Zenon
<1>6. ASSUME token \in ObjectTokens
      PROVE  wrapper' = wrapper /\ trade' = trade /\ accepted' = TRUE
  <2>1. token.call \in {"StartObject", "EndObject"}
    BY <1>6 DEF ObjectTokens, StartObjectToken, EndObjectToken, Token
  <2> QED BY <1>3, <2>1 DEF EventCallback, CombinedStartObject, CombinedEndObject, Wrap
<1>7. CASE token \in ObjectTokens /\ AreLeft(ObjectTokens, others, next)
  <2>1. BetweenEventFields(fields, i, next, wrapper', trade')
    BY <1>2, <1>3, <1>6, <1>7, Zenon DEF BetweenEventFields
  <2> QED BY <1>6, <1>7, <2>1, Zenon DEF EventReached, InEvent
<1>8. CASE Reads(others, token, next) /\ i < Len(fields)
  <2>1. Reads(others, KeyToken(fields[i + 1]),
              TokensOfWrapped(fields[i + 1]) \o RestOfEvent(fields, i + 1))
    BY <1>1, <1>2, <1>8, EventIsRead, Zenon
  <2>2. /\ token = KeyToken(fields[i + 1])
        /\ next = TokensOfWrapped(fields[i + 1]) \o RestOfEvent(fields, i + 1)
    BY <1>8, <2>1, Zenon DEF Reads
  <2>3. token.call = "Key" /\ token.value = fields[i + 1].key
    BY <2>2 DEF KeyToken, Token
  <2>4. CombinedKey(fields[i + 1].key)
    BY <2>3 DEF EventCallback
  <2>5. KeyNoted(wrapper, fields[i + 1].key, wrapper') /\ trade' = trade /\ accepted' = TRUE
    BY <1>3, <2>4 DEF CombinedKey, Wrap, KeyNoted
  <2>6. /\ WrapperType(wrapper') /\ wrapper'.stream = wrapper.stream
        /\ wrapper'.sawData = wrapper.sawData /\ wrapper'.inData = wrapper.inData
        /\ wrapper'.release = wrapper.release /\ wrapper'.releaseDepth = wrapper.releaseDepth
        /\ wrapper'.pendingStream <=> fields[i + 1].key = "stream"
        /\ wrapper'.expectData <=> fields[i + 1].key = "data"
    BY <1>3, <2>5, KeyIsNoted, Zenon
  <2>7. EventAfter(fields, i, wrapper', trade)
    BY <1>3, <2>6, EventStays, Zenon
  <2>8. BeforeEventValue(fields, i, next, wrapper', trade')
    BY <2>2, <2>5, <2>6, <2>7, Zenon DEF BeforeEventValue
  <2>9. i \in 0 .. Len(fields) - 1
    BY <1>1, <1>8
  <2> QED BY <2>5, <2>6, <2>8, <2>9, Zenon DEF EventReached, InEvent
<1>9. CASE Reads(others, token, next) /\ ~(i < Len(fields))
  <2>1. i = Len(fields)
    BY <1>1, <1>9
  <2>2. Reads(others, EndObjectToken, <<>>)
    BY <1>1, <1>2, <2>1, EventIsRead, Zenon
  <2>3. token = EndObjectToken /\ next = <<>>
    BY <1>9, <2>2, Zenon DEF Reads
  <2>4. wrapper' = wrapper /\ trade' = trade /\ accepted' = TRUE
    BY <1>6, <2>3 DEF ObjectTokens
  <2>5. BehindEvent(fields, next, wrapper', trade')
    BY <1>3, <2>1, <2>3, <2>4, Zenon DEF BehindEvent
  <2> QED BY <2>4, <2>5, Zenon DEF EventReached, InEvent
<1> QED BY <1>5, <1>7, <1>8, <1>9

\* A string is noted if it names the stream.
StringNoted(w, string, v) ==
  v = IF w.pendingStream THEN [w EXCEPT !.pendingStream = FALSE, !.stream = string] ELSE w

\* So does that.
LEMMA StringIsNoted ==
  ASSUME NEW w, WrapperType(w), NEW string \in Seq(STRING), NEW v, StringNoted(w, string, v)
  PROVE  /\ WrapperType(v) /\ v.sawData = w.sawData /\ v.inData = w.inData
         /\ v.release = w.release /\ v.releaseDepth = w.releaseDepth /\ v.expectData = w.expectData
         /\ ~v.pendingStream
         /\ v.stream = IF w.pendingStream THEN string ELSE w.stream
BY DEF WrapperType, StringNoted

\* The data begin.
DataBegun(w, v) ==
  v = [w EXCEPT !.expectData = FALSE, !.sawData = TRUE, !.inData = TRUE, !.isDepth = FALSE]

\* What the handler of the wrapper has then.
LEMMA DataAreBegun ==
  ASSUME NEW w, WrapperType(w), NEW v, DataBegun(w, v)
  PROVE  /\ WrapperType(v) /\ v.sawData /\ v.inData /\ ~v.expectData /\ ~v.isDepth
         /\ v.releaseDepth = w.releaseDepth /\ v.stream = w.stream
         /\ v.pendingStream = w.pendingStream
BY DEF WrapperType, DataBegun

\* The data end.
DataEnded(w, v) == v = [w EXCEPT !.release = TRUE, !.inData = FALSE, !.releaseDepth = FALSE]

\* What it has then.
LEMMA DataAreEnded ==
  ASSUME NEW w, WrapperType(w), NEW v, DataEnded(w, v)
  PROVE  /\ WrapperType(v) /\ v.sawData = w.sawData /\ ~v.inData /\ v.expectData = w.expectData
         /\ v.release /\ ~v.releaseDepth /\ v.stream = w.stream
         /\ v.pendingStream = w.pendingStream
BY DEF WrapperType, DataEnded

\* The handler of trades is fresh when they begin.
Begun(s, t) == t = [s EXCEPT !.objects = 1]

\* It knows nothing yet.
LEMMA TradeIsBegun ==
  ASSUME NEW s, s = TradeHandler!Fresh, NEW t, Begun(s, t), NEW fields
  PROVE  TradeType(t) /\ t.objects = 1 /\ TradeAfter(fields, 0, t)
<1>1. TradeType(s)
  BY FreshTypes
<1>2. TradeType(t) /\ t.objects = 1
  BY <1>1 DEF Begun, TradeType
<1>3. ~t.validType /\ ~t.havePrice /\ ~t.haveQty /\ ~t.haveMaker /\ t.out = TradeHandler!NoTrade
  BY DEF Begun, TradeHandler!Fresh
<1> QED BY <1>2, <1>3, TradeStarts, Zenon

\* Nothing is left of the object that is ignored.
LEMMA NothingLeft ==
  ASSUME NEW T, NEW others \in Seq(AnyToken)
  PROVE  AreLeft(T, others, others)
<1>1. <<>> \in Seq(T)
  OBVIOUS
<1>2. <<>> \o others = others
  BY ConcatEmptySeq, Zenon
<1> QED BY <1>1, <1>2, Zenon DEF AreLeft

\* The value of a field of the wrapper.
LEMMA ReadEventValue ==
  ASSUME NEW fields \in Events, Wrapped(fields, <<"@trade">>), NEW i \in 0 .. Len(fields) - 1,
         NEW tokens, WrapperType(wrapper), TradeType(trade),
         BeforeEventValue(fields, i, tokens, wrapper, trade),
         NEW token, NEW next, Reads(tokens, token, next), EventCallback(token)
  PROVE  EventReached(fields, next)
<1>1. fields \in Seq(EventFields) /\ Len(fields) \in Nat
  BY DEF Events
<1>2. i \in Nat /\ i + 1 \in 0 .. Len(fields) /\ fields[i + 1] \in EventFields
  BY EventFieldOf
<1>3. PICK field \in EventFields : field = fields[i + 1]
  BY <1>2, Zenon
<1>4. PICK others \in Seq(AnyToken) : others = RestOfEvent(fields, i + 1)
  BY <1>1, <1>2, EventIsRead, Zenon
<1>5. /\ EventAfter(fields, i, wrapper, trade)
      /\ wrapper.pendingStream <=> field.key = "stream"
      /\ wrapper.expectData <=> field.key = "data"
      /\ tokens = TokensOfWrapped(field) \o others
  BY <1>3, <1>4, Zenon DEF BeforeEventValue
<1>6. ~wrapper.inData /\ ~wrapper.releaseDepth
  BY <1>5, Zenon DEF EventAfter
<1>7. /\ field.type \in {"String", "object", "nested"}
      /\ field.key = "stream" => field.type = "String" /\ field.value = <<"@trade">>
      /\ field.key = "data" => field.type = "object"
      /\ field.type = "object" =>
           /\ field.key = "data" /\ field.value \in DataObjects /\ field.value = DataOf(fields)
           /\ Named(fields, i) /\ ~Given(fields, i)
      /\ field.type = "nested" => field.key \notin {"stream", "data"}
  BY <1>3, FieldOfTrades, Zenon
<1>8. /\ Named(fields, i + 1) <=> Named(fields, i) \/ field.key = "stream"
      /\ Given(fields, i + 1) <=> Given(fields, i) \/ field.type = "object"
  BY <1>2, <1>3, NamedNext, Zenon
<1>9. CASE field.type = "String"
  <2>1. field \in Fields /\ field.type # "object"
    BY <1>9, EventFieldTypes
  <2>2. PICK string \in Seq(STRING) : string = field.value
    BY <1>9, <2>1, FieldTypes, Zenon
  <2>3. Reads(tokens, Token("String", string), others)
    <3>1. TokensOfWrapped(field) = TokensOfValue(field)
      BY <2>1, Zenon DEF TokensOfWrapped
    <3>2. field.type \in Plain
      BY <1>9 DEF Plain
    <3>3. Reads(TokensOfValue(field) \o others, Token(field.type, field.value), others)
      BY <2>1, <3>2, ValueIsRead, Zenon
    <3> QED BY <1>5, <1>9, <2>2, <3>1, <3>3, Zenon
  <2>4. token = Token("String", string) /\ next = others
    BY <2>3, Zenon DEF Reads
  <2>5. CombinedString(string)
    BY <2>4 DEF Token, EventCallback
  <2>6. ~wrapper.expectData
    BY <1>5, <1>7, <1>9
  <2>7. StringNoted(wrapper, string, wrapper') /\ trade' = trade /\ accepted' = TRUE
    BY <1>6, <2>5, <2>6 DEF CombinedString, Wrap, StringNoted
  <2>8. PICK v : v = wrapper'
    OBVIOUS
  <2>9. /\ WrapperType(v) /\ v.sawData = wrapper.sawData /\ v.inData = wrapper.inData
        /\ v.release = wrapper.release /\ v.releaseDepth = wrapper.releaseDepth
        /\ v.expectData = wrapper.expectData /\ ~v.pendingStream
        /\ v.stream = IF wrapper.pendingStream THEN string ELSE wrapper.stream
    BY <2>7, <2>8, StringIsNoted, Zenon
  <2>10. EventAfter(fields, i + 1, v, trade)
    BY <1>5, <1>7, <1>8, <2>1, <2>2, <2>9, Zenon DEF EventAfter
  <2>11. AreLeft(ObjectTokens, others, next)
    BY <2>4, NothingLeft, Zenon
  <2>12. BetweenEventFields(fields, i + 1, next, v, trade)
    BY <1>4, <2>6, <2>9, <2>10, <2>11, Zenon DEF BetweenEventFields
  <2> QED BY <1>2, <2>7, <2>8, <2>9, <2>12, Zenon DEF EventReached, InEvent
<1>10. CASE field.type = "nested"
  <2>1. field.type # "object"
    BY <1>10
  <2>2. TokensOfWrapped(field) \in Seq(ObjectTokens)
    <3>1. TokensOfWrapped(field) = <<StartObjectToken, EndObjectToken>>
      BY <1>10 DEF TokensOfWrapped, TokensOfValue, StartObjectToken, EndObjectToken
    <3>2. PICK s \in ObjectTokens : s = StartObjectToken
      BY DEF ObjectTokens
    <3>3. PICK e \in ObjectTokens : e = EndObjectToken
      BY DEF ObjectTokens
    <3>4. <<s, e>> \in Seq(ObjectTokens)
      OBVIOUS
    <3> QED BY <3>1, <3>2, <3>3, <3>4
  <2>3. AreLeft(ObjectTokens, others, tokens)
    BY <1>5, <2>2, Zenon DEF AreLeft
  <2>4. ~wrapper.pendingStream /\ ~wrapper.expectData /\ field.key # "stream"
    BY <1>5, <1>7, <1>10
  <2>5. EventAfter(fields, i + 1, wrapper, trade)
    BY <1>5, <1>8, <2>1, <2>4, Zenon DEF EventAfter
  <2>6. BetweenEventFields(fields, i + 1, tokens, wrapper, trade)
    BY <1>4, <2>3, <2>4, <2>5, Zenon DEF BetweenEventFields
  <2> QED BY <1>2, <2>6, ReadBetweenEvent, Zenon
<1>11. CASE field.type = "object"
  <2>1. PICK data \in DataObjects : data = DataOf(fields)
    BY <1>7, <1>11, Zenon
  <2>2. TokensOfWrapped(field) = TokensOfFields(data)
    BY <1>7, <1>11, <2>1, Zenon DEF TokensOfWrapped
  <2>3. data \in Seq(Fields) /\ Len(data) \in Nat
    BY DEF DataObjects, Objects
  <2>4. Reads(tokens, StartObjectToken, RestOfFields(data, 0, others))
    BY <1>5, <2>2, <2>3, FieldsBegin, Zenon
  <2>5. token = StartObjectToken /\ next = RestOfFields(data, 0, others)
    BY <2>4, Zenon DEF Reads
  <2>6. /\ wrapper.stream = <<"@trade">> /\ trade = TradeHandler!Fresh /\ wrapper.expectData
        /\ ~wrapper.pendingStream
    <3>1. ~wrapper.pendingStream
      BY <1>5, <1>7, <1>11
    <3> QED BY <1>5, <1>7, <1>11, <3>1, Zenon DEF EventAfter
  <2>7. CombinedStartObject
    BY <2>5 DEF EventCallback, StartObjectToken, Token
  <2>8. <<"@trade">> # <<"@depth">> /\ <<"@trade">> \in Streams
    <3>1. "@trade" # "@depth"
      OBVIOUS
    <3> QED BY <3>1 DEF Streams
  <2>9. /\ DataBegun(wrapper, wrapper') /\ ~wrapper'.isDepth /\ TradeHandler!TradeStartObject
    <3>1. /\ wrapper' = [wrapper EXCEPT !.expectData = FALSE, !.sawData = TRUE, !.inData = TRUE,
                                       !.isDepth = (wrapper.stream = <<"@depth">>)]
          /\ \/ wrapper'.isDepth /\ DepthHandler!DepthStartObject /\ UNCHANGED trade
             \/ ~wrapper'.isDepth /\ TradeHandler!TradeStartObject /\ UNCHANGED depth
      BY <2>6, <2>7, <2>8, Zenon DEF CombinedStartObject
    <3>2. DataBegun(wrapper, wrapper')
      BY <2>6, <2>8, <3>1 DEF DataBegun
    <3>3. ~wrapper'.isDepth
      BY <3>2, DataAreBegun, Zenon
    <3> QED BY <3>1, <3>2, <3>3, Zenon
  <2>10. Begun(trade, trade') /\ accepted' = TRUE
    <3>1. ~(trade.objects > 0)
      BY <2>6 DEF TradeHandler!Fresh
    <3> QED BY <2>9, <3>1 DEF TradeHandler!TradeStartObject, TradeHandler!Take, Begun
  <2>11. /\ WrapperType(wrapper') /\ wrapper'.sawData /\ wrapper'.inData /\ ~wrapper'.expectData
         /\ ~wrapper'.isDepth /\ wrapper'.releaseDepth = wrapper.releaseDepth
         /\ wrapper'.stream = wrapper.stream /\ wrapper'.pendingStream = wrapper.pendingStream
    BY <2>9, DataAreBegun, Zenon
  <2>12. TradeType(trade') /\ trade'.objects = 1 /\ TradeAfter(data, 0, trade')
    BY <2>6, <2>10, TradeIsBegun, Zenon
  <2>13. InTrade(data, others, next, trade')
    <3>1. <<>> \in Seq(ArrayTokens) /\ 0 \in 0 .. Len(data)
      BY <2>3
    <3>2. RestOfFields(data, 0, others) \in Seq(AnyToken)
      BY <2>3, <3>1, FieldsAreRead, Zenon
    <3>3. <<>> \o RestOfFields(data, 0, others) = RestOfFields(data, 0, others)
      BY <3>2, ConcatEmptySeq, Zenon
    <3>4. Passed(trade', <<>>)
      BY <3>1, Zenon DEF Passed
    <3>5. BetweenTraded(data, 0, others, next, trade')
      BY <2>5, <2>12, <3>3, <3>4, Zenon DEF BetweenTraded
    <3> QED BY <3>1, <3>5, Zenon DEF InTrade
  <2>14. InData(fields, i, next, wrapper', trade')
    BY <1>3, <1>4, <1>6, <1>11, <2>1, <2>6, <2>11, <2>13, Zenon DEF InData
  <2> QED BY <2>10, <2>11, <2>12, <2>14, Zenon DEF EventReached, InEvent
<1> QED BY <1>7, <1>9, <1>10, <1>11

\* Inside of the data the handler of trades is called back.
LEMMA DataCallback ==
  ASSUME NEW token, EventCallback(token), WrapperType(wrapper), wrapper.inData, ~wrapper.isDepth,
         ~wrapper.expectData
  PROVE  /\ TradeCallback(token)
         /\ token.call # "EndObject" => wrapper' = wrapper
         /\ token.call = "EndObject" /\ accepted' = TRUE => DataEnded(wrapper, wrapper')
         /\ token.call = "EndObject" /\ accepted' = FALSE => wrapper' = wrapper
<1>1. CASE token.call = "String"
  BY <1>1 DEF EventCallback, CombinedString, ToDepth, ToTrade, TradeCallback
<1>2. CASE token.call = "Number"
  BY <1>2 DEF EventCallback, CombinedNumber, ToDepth, ToTrade, TradeCallback
<1>3. CASE token.call = "Bool"
  BY <1>3 DEF EventCallback, CombinedBool, ToTrade, TradeCallback
<1>4. CASE token.call = "Other"
  BY <1>4 DEF EventCallback, CombinedOther, Wrap, TradeCallback, TradeHandler!Refuse,
     TradeHandler!RefuseAs
<1>5. CASE token.call = "Key"
  BY <1>5 DEF EventCallback, CombinedKey, ToDepth, ToTrade, TradeCallback
<1>6. CASE token.call = "StartObject"
  BY <1>6 DEF EventCallback, CombinedStartObject, Wrap, TradeCallback, TradeHandler!Refuse,
     TradeHandler!RefuseAs
<1>7. CASE token.call = "EndObject"
  <2>1. /\ TradeHandler!TradeEndObject
        /\ wrapper' = IF accepted' THEN [wrapper EXCEPT !.release = TRUE, !.inData = FALSE,
                                                        !.releaseDepth = wrapper.isDepth]
                                   ELSE wrapper
    BY <1>7 DEF EventCallback, CombinedEndObject
  <2>2. TradeCallback(token)
    BY <1>7, <2>1 DEF TradeCallback
  <2>3. accepted' = FALSE => wrapper' = wrapper
    BY <2>1
  <2>4. ASSUME accepted' = TRUE PROVE DataEnded(wrapper, wrapper')
    <3>1. wrapper' = [wrapper EXCEPT !.release = TRUE, !.inData = FALSE,
                                     !.releaseDepth = wrapper.isDepth]
      BY <2>1, <2>4
    <3>2. wrapper.isDepth = FALSE
      BY DEF WrapperType
    <3> QED BY <3>1, <3>2 DEF DataEnded
  <2> QED BY <1>7, <2>2, <2>3, <2>4
<1>8. CASE token.call \in {"StartArray", "EndArray"}
  BY <1>8 DEF EventCallback, CombinedStartArray, CombinedEndArray, ToDepth, ToTrade, TradeCallback
<1> QED BY <1>1, <1>2, <1>3, <1>4, <1>5, <1>6, <1>7, <1>8 DEF EventCallback

\* A token of the data.
LEMMA ReadInData ==
  ASSUME NEW fields \in Events, Wrapped(fields, <<"@trade">>), NEW i \in 0 .. Len(fields) - 1,
         NEW tokens, WrapperType(wrapper), TradeType(trade),
         InData(fields, i, tokens, wrapper, trade),
         NEW token, NEW next, Reads(tokens, token, next), EventCallback(token)
  PROVE  EventReached(fields, next)
<1>1. fields \in Seq(EventFields)
  BY DEF Events
<1>2. i \in Nat /\ i + 1 \in 0 .. Len(fields)
  BY EventFieldOf
<1>3. PICK others \in Seq(AnyToken) : others = RestOfEvent(fields, i + 1)
  BY <1>1, <1>2, EventIsRead, Zenon
<1>4. fields[i + 1].type = "object" /\ fields[i + 1].value = DataOf(fields)
      /\ fields[i + 1].value \in DataObjects
  BY FieldOfTrades, Zenon DEF InData
<1>5. PICK data \in DataObjects : data = DataOf(fields)
  BY <1>4, Zenon
<1>6. /\ wrapper.inData /\ ~wrapper.isDepth /\ ~wrapper.expectData /\ ~wrapper.pendingStream
      /\ ~wrapper.releaseDepth /\ wrapper.sawData /\ wrapper.stream = <<"@trade">>
      /\ InTrade(data, others, tokens, trade)
  BY <1>3, <1>5, Zenon DEF InData
<1>7. /\ TradeCallback(token)
      /\ token.call # "EndObject" => wrapper' = wrapper
      /\ token.call = "EndObject" /\ accepted' = TRUE => DataEnded(wrapper, wrapper')
      /\ token.call = "EndObject" /\ accepted' = FALSE => wrapper' = wrapper
  BY <1>6, DataCallback, Zenon
<1>8. TradeReached(data, others, token, next)
  BY <1>6, <1>7, ReadInTrade, Zenon
<1>9. TradeType(trade')
  BY <1>8, Zenon DEF TradeReached
<1>10. CASE accepted' = TRUE /\ token.call # "EndObject" /\ InTrade(data, others, next, trade')
  <2>1. wrapper' = wrapper
    BY <1>7, <1>10, Zenon
  <2>2. InData(fields, i, next, wrapper', trade')
    BY <1>3, <1>4, <1>5, <1>6, <1>10, <2>1, Zenon DEF InData
  <2> QED BY <1>9, <1>10, <2>1, <2>2, Zenon DEF EventReached, InEvent
<1>11. CASE /\ accepted' = TRUE /\ token.call = "EndObject" /\ next = others
            /\ IsTrade(data) /\ trade'.out = TradeOf(data)
  <2>1. PICK v : v = wrapper'
    OBVIOUS
  <2>2. /\ WrapperType(v) /\ v.sawData = wrapper.sawData /\ ~v.inData
        /\ v.expectData = wrapper.expectData /\ v.release /\ ~v.releaseDepth
        /\ v.stream = wrapper.stream /\ v.pendingStream = wrapper.pendingStream
    BY <1>7, <1>11, <2>1, DataAreEnded, Zenon
  <2>3. Given(fields, i + 1)
    BY <1>2, <1>4, NamedNext, Zenon
  <2>4. EventAfter(fields, i + 1, v, trade')
    BY <1>5, <1>6, <1>11, <2>2, <2>3, Zenon DEF EventAfter
  <2>5. AreLeft(ObjectTokens, others, next)
    BY <1>11, NothingLeft, Zenon
  <2>6. BetweenEventFields(fields, i + 1, next, v, trade')
    BY <1>3, <1>6, <2>2, <2>4, <2>5, Zenon DEF BetweenEventFields
  <2> QED BY <1>2, <1>9, <1>11, <2>1, <2>2, <2>6, Zenon DEF EventReached, InEvent
<1>12. CASE accepted' = FALSE /\ ~IsTrade(data)
  <2>1. wrapper' = wrapper
    BY <1>7, <1>12, Zenon
  <2> QED BY <1>5, <1>9, <1>12, <2>1, Zenon DEF EventReached
<1> QED BY <1>8, <1>10, <1>11, <1>12, Zenon DEF TradeReached

\* A sequence with tokens behind it is not empty.
LEMMA NotEmpty ==
  ASSUME NEW xs \in Seq(AnyToken), NEW others \in Seq(AnyToken), NEW token, NEW next,
         Reads(others, token, next)
  PROVE  xs \o others # <<>>
<1>1. others # <<>> /\ Len(others) \in Nat /\ Len(xs) \in Nat
  BY DEF Reads
<1>2. Len(others) > 0
  BY <1>1
<1>3. Len(xs \o others) = Len(xs) + Len(others)
  BY ConcatProperties
<1>4. Len(xs \o others) # 0
  BY <1>1, <1>2, <1>3
<1>5. PICK whole : whole = xs \o others
  OBVIOUS
<1>6. whole = <<>> => Len(whole) = 0
  OBVIOUS
<1> QED BY <1>4, <1>5, <1>6

\* So there is a token left of the data until they end.
LEMMA DataNotRead ==
  ASSUME NEW data \in DataObjects, NEW behind \in Seq(AnyToken), NEW tokens, NEW t,
         InTrade(data, behind, tokens, t)
  PROVE  tokens # <<>>
<1>1. data \in Objects /\ data \in Seq(Fields) /\ Len(data) \in Nat
  BY DEF DataObjects, Objects
<1>2. ASSUME NEW i \in 0 .. Len(data)
      PROVE  /\ RestOfFields(data, i, behind) \in Seq(AnyToken)
             /\ \E token, next : Reads(RestOfFields(data, i, behind), token, next)
  <2>1. i < Len(data) \/ i = Len(data)
    BY <1>1
  <2> QED BY <1>1, <2>1, FieldsAreRead, Zenon
<1>3. ASSUME NEW i \in 0 .. Len(data), BetweenTraded(data, i, behind, tokens, t)
      PROVE  tokens # <<>>
  <2>1. PICK xs : Passed(t, xs) /\ tokens = xs \o RestOfFields(data, i, behind)
    BY <1>3, Zenon DEF BetweenTraded
  <2>2. AreTokens(TokensOfRows) /\ AreTokens(ArrayTokens)
    BY TokenTypes DEF AreTokens, TokensOfRows, ArrayTokens
  <2>3. xs \in Seq(AnyToken)
    <3>1. CASE xs \in Seq(ArrayTokens)
      BY <2>2, <3>1 DEF AreTokens
    <3>2. CASE xs \in Seq(TokensOfRows)
      BY <2>2, <3>2 DEF AreTokens
    <3> QED BY <2>1, <3>1, <3>2, Zenon DEF Passed
  <2> QED BY <1>2, <2>1, <2>3, NotEmpty, Zenon
<1>4. ASSUME NEW i \in 0 .. Len(data) - 1, BeforeTraded(data, i, behind, tokens, t)
      PROVE  tokens # <<>>
  <2>1. data[i + 1] \in Fields /\ i + 1 \in 0 .. Len(data)
    BY <1>1, FieldOf
  <2>2. TokensOfValue(data[i + 1]) \in Seq(AnyToken)
    BY <2>1, ValueIsRead, Zenon
  <2>3. tokens = TokensOfValue(data[i + 1]) \o RestOfFields(data, i + 1, behind)
    BY <1>4, Zenon DEF BeforeTraded
  <2> QED BY <1>2, <2>1, <2>2, <2>3, NotEmpty, Zenon
<1> QED BY <1>3, <1>4, Zenon DEF InTrade

\* And of the event.
LEMMA EventNotRead ==
  ASSUME NEW fields \in Events, Wrapped(fields, <<"@trade">>), NEW tokens, tokens = <<>>,
         NEW w, NEW t, InEvent(fields, tokens, w, t)
  PROVE  BehindEvent(fields, tokens, w, t)
<1>1. fields \in Seq(EventFields) /\ Len(fields) \in Nat
  BY DEF Events
<1>2. ASSUME NEW i \in 0 .. Len(fields)
      PROVE  /\ RestOfEvent(fields, i) \in Seq(AnyToken)
             /\ \E token, next : Reads(RestOfEvent(fields, i), token, next)
  <2>1. i < Len(fields) \/ i = Len(fields)
    BY <1>1
  <2> QED BY <1>1, <2>1, EventIsRead, Zenon
<1>3. CASE BeforeEvent(fields, tokens, w, t)
  BY <1>3, Zenon DEF BeforeEvent, Reads
<1>4. ASSUME NEW i \in 0 .. Len(fields), BetweenEventFields(fields, i, tokens, w, t)
      PROVE  FALSE
  <2>1. PICK xs \in Seq(ObjectTokens) : tokens = xs \o RestOfEvent(fields, i)
    BY <1>4, Zenon DEF BetweenEventFields, AreLeft
  <2>2. xs \in Seq(AnyToken)
    <3>1. ObjectTokens \subseteq AnyToken
      BY TokenTypes DEF ObjectTokens
    <3> QED BY <3>1
  <2>3. xs \o RestOfEvent(fields, i) # <<>>
    BY <1>2, <2>2, NotEmpty, Zenon
  <2> QED BY <2>1, <2>3, Zenon
<1>5. ASSUME NEW i \in 0 .. Len(fields) - 1, BeforeEventValue(fields, i, tokens, w, t)
      PROVE  FALSE
  <2>1. fields[i + 1] \in EventFields /\ i + 1 \in 0 .. Len(fields)
    BY EventFieldOf
  <2>2. TokensOfWrapped(fields[i + 1]) \in Seq(AnyToken)
    BY <2>1, WrappedTokens, Zenon
  <2>3. tokens = TokensOfWrapped(fields[i + 1]) \o RestOfEvent(fields, i + 1)
    BY <1>5, Zenon DEF BeforeEventValue
  <2>4. TokensOfWrapped(fields[i + 1]) \o RestOfEvent(fields, i + 1) # <<>>
    BY <1>2, <2>1, <2>2, NotEmpty, Zenon
  <2> QED BY <2>3, <2>4, Zenon
<1>6. ASSUME NEW i \in 0 .. Len(fields) - 1, InData(fields, i, tokens, w, t)
      PROVE  FALSE
  <2>1. i + 1 \in 0 .. Len(fields)
    BY EventFieldOf
  <2>2. DataOf(fields) \in DataObjects
    <3>1. fields[i + 1].type = "object"
      BY <1>6, Zenon DEF InData
    <3>2. fields[i + 1].value = DataOf(fields) /\ fields[i + 1].value \in DataObjects
      BY <3>1, FieldOfTrades, Zenon
    <3> QED BY <3>2, Zenon
  <2>3. InTrade(DataOf(fields), RestOfEvent(fields, i + 1), tokens, t)
    BY <1>6, Zenon DEF InData
  <2>4. RestOfEvent(fields, i + 1) \in Seq(AnyToken)
    BY <1>2, <2>1, Zenon
  <2>5. tokens # <<>>
    BY <2>2, <2>3, <2>4, DataNotRead, Zenon
  <2> QED BY <2>5
<1> QED BY <1>3, <1>4, <1>5, <1>6, Zenon DEF InEvent

\* A token of the event.
LEMMA ReadInEvent ==
  ASSUME NEW fields \in Events, Wrapped(fields, <<"@trade">>), NEW tokens,
         WrapperType(wrapper), TradeType(trade), InEvent(fields, tokens, wrapper, trade),
         NEW token, NEW next, Reads(tokens, token, next), EventCallback(token)
  PROVE  EventReached(fields, next)
<1>1. CASE BeforeEvent(fields, tokens, wrapper, trade)
  BY <1>1, ReadBeforeEvent, Zenon
<1>2. ASSUME NEW i \in 0 .. Len(fields), BetweenEventFields(fields, i, tokens, wrapper, trade)
      PROVE  EventReached(fields, next)
  BY <1>2, ReadBetweenEvent, Zenon
<1>3. ASSUME NEW i \in 0 .. Len(fields) - 1, BeforeEventValue(fields, i, tokens, wrapper, trade)
      PROVE  EventReached(fields, next)
  BY <1>3, ReadEventValue, Zenon
<1>4. ASSUME NEW i \in 0 .. Len(fields) - 1, InData(fields, i, tokens, wrapper, trade)
      PROVE  EventReached(fields, next)
  BY <1>4, ReadInData, Zenon
<1>5. ~BehindEvent(fields, tokens, wrapper, trade)
  BY Zenon DEF BehindEvent, Reads
<1> QED BY <1>1, <1>2, <1>3, <1>4, <1>5, Zenon DEF InEvent

-----------------------------------------------------------------------------
(* The invariant of ParseEvent, for trades.                                *)

\* The last message was an event of trades.
TradesCalled == Called("ParseEvent") /\ Wrapped(message.fields, <<"@trade">>)

\* While it reads one, the reader is at one of the places, and has not returned.
InvTrades ==
  /\ messages \in Nat
  /\ reading => Called("ParseEvent") \/ Called("ParseOrderBookSnapshot")
  /\ reading /\ TradesCalled =>
       /\ ~result /\ released = <<>> /\ ~cut /\ message.fields \in Events
       /\ WrapperType(wrapper) /\ TradeType(trade)
       /\ InEvent(message.fields, rest, wrapper, trade)
  /\ TradeAsSent

\* It holds before the first message.
LEMMA InvTradesInit == ParserInit => InvTrades
BY DEF ParserInit, InvTrades, TradeAsSent, Returned

\* A message begins.
LEMMA InvTradesBegin ==
  ASSUME InvTrades, NEW m \in FirstMessages \union Messages, Begin(m)
  PROVE  InvTrades'
<1>1. messages' \in Nat /\ messages' > 0 /\ message' = m
  BY DEF InvTrades, Begin
<1>2. CASE m.call = "ParseOrderBookSnapshot"
  BY <1>1, <1>2 DEF InvTrades, TradesCalled, Called, TradeAsSent, Returned
<1>3. CASE m.call = "ParseEvent" /\ Len(m.fields) = 1
  <2>1. reading' /\ ~Wrapped(m.fields, <<"@trade">>)
    BY <1>3 DEF Begin, Wrapped
  <2> QED BY <1>1, <1>3, <2>1 DEF InvTrades, TradesCalled, Called, TradeAsSent, Returned
<1>4. CASE m.call = "ParseEvent" /\ m.root = "object" /\ m.fields \in Events
  <2>1. PICK fields \in Events : fields = m.fields
    BY <1>4
  <2>2. wrapper' = Fresh /\ trade' = TradeHandler!Fresh
    BY <1>4 DEF Begin, CombinedReset, TradeHandler!TradeReset
  <2>3. reading' /\ rest' = Tokens(m)
    BY <1>4 DEF Begin
  <2>4. fields \in Seq(EventFields)
    BY DEF Events
  <2>5. Reads(Tokens(m), StartObjectToken, RestOfEvent(fields, 0))
    BY <1>4, <2>1, <2>4, EventBegins, Zenon
  <2>6. BeforeEvent(fields, rest', wrapper', trade')
    BY <2>2, <2>3, <2>5, Zenon DEF BeforeEvent
  <2>7. InEvent(message'.fields, rest', wrapper', trade')
    BY <1>1, <2>1, <2>6, Zenon DEF InEvent
  <2>8. WrapperType(wrapper') /\ TradeType(trade')
    BY <2>2, FreshTypes, Zenon
  <2>9. ~result' /\ released' = <<>> /\ ~cut'
    BY DEF Begin
  <2> QED BY <1>1, <1>4, <2>3, <2>7, <2>8, <2>9 DEF InvTrades, TradesCalled, Called, TradeAsSent, Returned
<1>5. \/ m.call = "ParseEvent" /\ m.fields \in Events /\ m.root = "object"
      \/ m.call = "ParseEvent" /\ Len(m.fields) = 1
      \/ m.call = "ParseOrderBookSnapshot"
  BY ParserAssumption
<1> QED BY <1>2, <1>3, <1>4, <1>5

\* A token is read.
LEMMA InvTradesRead ==
  ASSUME InvTrades, ReadToken
  PROVE  InvTrades'
<1>1. /\ reading /\ rest # <<>> /\ rest' = IF accepted' THEN Tail(rest) ELSE <<>>
      /\ reading' = accepted'
      /\ message' = message /\ result' = result /\ released' = released /\ cut' = cut
      /\ messages' = messages
  BY DEF ReadToken, outcome
<1>2. TradesCalled' <=> TradesCalled
  BY <1>1 DEF TradesCalled, Called
<1>3. CASE ~TradesCalled
  <2>1. TradeAsSent'
    BY <1>1, <1>2, <1>3 DEF TradeAsSent, Returned, TradesCalled, Called
  <2>2. reading => Called("ParseEvent")' \/ Called("ParseOrderBookSnapshot")'
    BY <1>1 DEF InvTrades, Called
  <2> QED BY <1>1, <1>2, <1>3, <2>1, <2>2 DEF InvTrades
<1>4. CASE TradesCalled
  <2>1. message.call = "ParseEvent" /\ Wrapped(message.fields, <<"@trade">>)
    BY <1>4, Zenon DEF TradesCalled, Called
  <2>2. EventCallback(Head(rest))
    BY <2>1 DEF ReadToken, SnapshotCallback, IsEvent
  <2>3. /\ messages \in Nat /\ ~result /\ released = <<>> /\ ~cut /\ message.fields \in Events
        /\ WrapperType(wrapper) /\ TradeType(trade)
        /\ InEvent(message.fields, rest, wrapper, trade)
    BY <1>1, <1>4, Zenon DEF InvTrades
  <2>4. PICK F \in Events : F = message.fields
    BY <2>3
  <2>5. EventReached(F, Tail(rest))
    <3>1. Reads(rest, Head(rest), Tail(rest))
      BY <1>1 DEF Reads
    <3>2. InEvent(F, rest, wrapper, trade) /\ Wrapped(F, <<"@trade">>)
      BY <2>1, <2>3, <2>4, Zenon
    <3> QED BY <2>2, <2>3, <3>1, <3>2, ReadInEvent, Zenon
  <2>6. WrapperType(wrapper') /\ TradeType(trade')
    BY <2>5, Zenon DEF EventReached
  <2>7. Called("ParseEvent")'
    BY <1>1, <1>4 DEF TradesCalled, Called
  <2>8. CASE accepted' = TRUE /\ InEvent(F, Tail(rest), wrapper', trade')
    <3>1. reading' /\ rest' = Tail(rest)
      BY <1>1, <2>8
    <3>2. InEvent(message'.fields, rest', wrapper', trade')
      BY <1>1, <2>4, <2>8, <3>1, Zenon
    <3>3. TradeAsSent'
      BY <3>1 DEF TradeAsSent, Returned
    <3> QED BY <1>1, <2>3, <2>6, <2>7, <3>2, <3>3 DEF InvTrades
  <2>9. CASE accepted' = FALSE /\ ~IsTrade(DataOf(F))
    <3>1. ~reading'
      BY <1>1, <2>9
    <3>2. ~IsTrade(DataOf(message'.fields))
      BY <1>1, <2>4, <2>9, Zenon
    <3>3. TradeAsSent'
      BY <1>1, <2>3, <3>2 DEF TradeAsSent, Outcome
    <3> QED BY <1>1, <2>3, <3>1, <3>3 DEF InvTrades
  <2> QED BY <2>5, <2>8, <2>9, Zenon DEF EventReached
<1> QED BY <1>3, <1>4

\* The message is cut off.
LEMMA InvTradesCut ==
  ASSUME InvTrades, SyntaxError
  PROVE  InvTrades'
<1>1. /\ reading /\ ~reading' /\ cut'
      /\ message' = message /\ result' = result /\ released' = released
      /\ messages' = messages
  BY DEF SyntaxError, outcome
<1>2. TradeAsSent'
  <2> SUFFICES ASSUME Returned("ParseEvent")', Wrapped(message.fields, <<"@trade">>)
               PROVE  ~result' /\ released' = <<>>
    BY <1>1 DEF TradeAsSent, Outcome
  <2>1. TradesCalled
    BY <1>1 DEF Returned, Called, TradesCalled
  <2> QED BY <1>1, <2>1 DEF InvTrades
<1> QED BY <1>1, <1>2 DEF InvTrades

\* The message is read to its end.
LEMMA InvTradesRelease ==
  ASSUME InvTrades, Release
  PROVE  InvTrades'
<1>1. /\ reading /\ rest = <<>> /\ ~reading' /\ message' = message
      /\ messages' = messages /\ cut' = cut
  BY DEF Release
<1>2. TradeAsSent'
  <2> SUFFICES ASSUME Returned("ParseEvent")', Wrapped(message.fields, <<"@trade">>)
               PROVE  result' /\ released' = <<TradeOf(DataOf(message.fields))>>
                      /\ ~cut' /\ IsTrade(DataOf(message.fields))
    BY <1>1 DEF TradeAsSent, Outcome
  <2>1. TradesCalled /\ message.call = "ParseEvent"
    BY <1>1 DEF Returned, Called, TradesCalled
  <2>2. /\ ~cut /\ message.fields \in Events /\ InEvent(message.fields, rest, wrapper, trade)
    BY <1>1, <2>1, Zenon DEF InvTrades
  <2>3. PICK F \in Events : F = message.fields
    BY <2>2
  <2>4. Wrapped(F, <<"@trade">>)
    BY <2>3
  <2>5. BehindEvent(F, rest, wrapper, trade)
    BY <1>1, <2>2, <2>3, <2>4, EventNotRead, Zenon
  <2>6. /\ wrapper.sawData /\ ~wrapper.releaseDepth
        /\ IsTrade(DataOf(F)) /\ trade.out = TradeOf(DataOf(F))
    BY <2>4, <2>5, GivenInTheEnd, Zenon DEF BehindEvent, EventAfter
  <2>7. result' = TRUE /\ released' = <<trade.out>>
    BY <2>1, <2>6 DEF Release, IsEvent, TradeHandler!TradeRelease
  <2> QED BY <1>1, <2>2, <2>3, <2>6, <2>7
<1> QED BY <1>1, <1>2 DEF InvTrades

\* Every step keeps it.
LEMMA InvTradesNext == InvTrades /\ [ParserNext]_parser => InvTrades'
<1> SUFFICES ASSUME InvTrades, [ParserNext]_parser PROVE InvTrades'
  OBVIOUS
<1>1. ASSUME NEW m \in MayCome, Begin(m) PROVE InvTrades'
  <2>1. m \in FirstMessages \union Messages
    BY <1>1 DEF MayCome
  <2> QED BY <1>1, <2>1, InvTradesBegin
<1>2. CASE ReadToken
  BY <1>2, InvTradesRead
<1>3. CASE SyntaxError
  BY <1>3, InvTradesCut
<1>4. CASE Release
  BY <1>4, InvTradesRelease
<1>5. CASE UNCHANGED parser
  <2>1. /\ wrapper' = wrapper /\ trade' = trade /\ message' = message /\ reading' = reading
        /\ rest' = rest /\ result' = result /\ released' = released /\ cut' = cut
        /\ messages' = messages
    BY <1>5 DEF parser, outcome
  <2>2. TradeAsSent' = TradeAsSent
    BY <2>1 DEF TradeAsSent, Returned, Outcome
  <2>3. TradesCalled' = TradesCalled
    BY <2>1 DEF TradesCalled, Called
  <2> QED BY <2>1, <2>2, <2>3 DEF InvTrades, Called
<1> QED BY <1>1, <1>2, <1>3, <1>4, <1>5 DEF ParserNext

\* Of an event of trades ParseEvent passes on the trade exactly if its message was read to
\* its end and its data are a whole trade, and the trade has the symbol, the price, the
\* quantity and the side of its own message: for every message, of any length, whatever else
\* is in the wrapper or the data, and whatever was read before it.
THEOREM TradesExact == ParserSpec => []TradeAsSent
<1>1. InvTrades => TradeAsSent
  BY DEF InvTrades
<1> QED BY <1>1, InvTradesInit, InvTradesNext, PTL DEF ParserSpec

-----------------------------------------------------------------------------
\* Sums over sets.

\* G is a sum of values of f over the subsets of S: it does not matter which element
\* of a set is added last.
Additive(f, S, G) ==
  /\ G \in [SUBSET S -> Nat] /\ G[{}] = 0
  /\ \A T \in SUBSET S : \A x \in T : G[T] = f[x] + G[T \ {x}]

\* Among finite sets there is one that no other is a part of: induction over sets.
LEMMA SmallestSet ==
  ASSUME NEW S, NEW Q \in SUBSET FiniteSubsetsOf(S), Q # {}
  PROVE  \E T \in Q : \A U \in Q : ~(U \subseteq T /\ U # T)
<1>1. IsWellFoundedOn(StrictSubsetOrdering(S), FiniteSubsetsOf(S))
  BY FS_StrictSubsetOrderingWellFounded
<1>2. PICK T \in Q : \A U \in Q : ~(<<U, T>> \in StrictSubsetOrdering(S))
  BY <1>1, WFMin
<1>3. ASSUME NEW U \in Q, U \subseteq T, U # T PROVE FALSE
  <2>1. U \in SUBSET S /\ T \in SUBSET S
    BY DEF FiniteSubsetsOf
  <2> QED BY <1>2, <1>3, <2>1 DEF StrictSubsetOrdering
<1> QED BY <1>3

\* From a sum over all elements but one, a sum over all.
LEMMA AddOne ==
  ASSUME NEW f, NEW S, NEW x0 \in S, \A x \in S : f[x] \in Nat, NEW H, Additive(f, S \ {x0}, H)
  PROVE  \E G : Additive(f, S, G)
<1> DEFINE G == [T \in SUBSET S |-> H[T \ {x0}] + (IF x0 \in T THEN f[x0] ELSE 0)]
<1>1. /\ H \in [SUBSET (S \ {x0}) -> Nat] /\ H[{}] = 0
      /\ \A T \in SUBSET (S \ {x0}) : \A x \in T : H[T] = f[x] + H[T \ {x}]
  BY DEF Additive
<1>2. G \in [SUBSET S -> Nat]
  BY <1>1
<1>3. G[{}] = 0
  <2>1. {} \ {x0} = {} /\ {} \in SUBSET S
    OBVIOUS
  <2> QED BY <1>1, <2>1
<1>4. ASSUME NEW T \in SUBSET S, NEW x \in T PROVE G[T] = f[x] + G[T \ {x}]
  <2>1. /\ T \ {x0} \in SUBSET (S \ {x0}) /\ H[T \ {x0}] \in Nat /\ T \ {x} \in SUBSET S
        /\ (T \ {x}) \ {x0} \in SUBSET (S \ {x0}) /\ H[(T \ {x}) \ {x0}] \in Nat
    BY <1>1
  <2>2. CASE x = x0
    <3>1. (T \ {x}) \ {x0} = T \ {x0} /\ ~(x0 \in T \ {x})
      BY <2>2
    <3>2. G[T \ {x}] = H[T \ {x0}] /\ G[T] = H[T \ {x0}] + f[x0]
      BY <2>1, <2>2, <3>1
    <3> QED BY <2>1, <2>2, <3>2
  <2>3. CASE x # x0
    <3>1. /\ x \in T \ {x0} /\ (T \ {x}) \ {x0} = (T \ {x0}) \ {x}
          /\ (x0 \in T \ {x} <=> x0 \in T)
      BY <2>3
    <3>2. H[T \ {x0}] = f[x] + H[(T \ {x}) \ {x0}]
      BY <1>1, <2>1, <3>1
    <3> DEFINE c == IF x0 \in T THEN f[x0] ELSE 0
    <3>3. G[T \ {x}] = H[(T \ {x}) \ {x0}] + c /\ G[T] = H[T \ {x0}] + c /\ c \in Nat
      BY <2>1, <3>1
    <3>4. f[x] \in Nat
      OBVIOUS
    <3> HIDE DEF c, G
    <3> QED BY <2>1, <3>2, <3>3, <3>4
  <2> QED BY <2>2, <2>3
<1> HIDE DEF G
<1> QED BY <1>2, <1>3, <1>4 DEF Additive

\* There is a sum over every finite set: none is the smallest without one.
LEMMA AdditiveExists ==
  ASSUME NEW f, NEW S, IsFiniteSet(S), \A x \in S : f[x] \in Nat
  PROVE  \E G : Additive(f, S, G)
<1> DEFINE Q == {T \in FiniteSubsetsOf(S) : ~\E G : Additive(f, T, G)}
<1>1. SUFFICES Q = {}
  BY DEF FiniteSubsetsOf
<1>2. SUFFICES ASSUME Q # {} PROVE FALSE
  OBVIOUS
<1>3. PICK T \in Q : \A U \in Q : ~(U \subseteq T /\ U # T)
  <2>1. Q \in SUBSET FiniteSubsetsOf(S)
    OBVIOUS
  <2> HIDE DEF Q
  <2> QED BY <1>2, <2>1, SmallestSet
<1>4. T \in SUBSET S /\ IsFiniteSet(T) /\ ~\E G : Additive(f, T, G)
  BY DEF FiniteSubsetsOf
<1>5. CASE T = {}
  <2>1. Additive(f, {}, [U \in SUBSET {} |-> 0])
    BY DEF Additive
  <2> QED BY <1>4, <1>5, <2>1
<1>6. ASSUME NEW x \in T PROVE FALSE
  <2>1. T \ {x} \subseteq T /\ T \ {x} # T /\ T \ {x} \in SUBSET S /\ IsFiniteSet(T \ {x})
    BY <1>4, FS_RemoveElement
  <2>2. PICK H : Additive(f, T \ {x}, H)
    BY <1>3, <2>1 DEF FiniteSubsetsOf
  <2>3. \A y \in T : f[y] \in Nat
    BY <1>4
  <2> QED BY <1>4, <2>2, <2>3, AddOne
<1> QED BY <1>5, <1>6

\* SumFunctionOnSet, a recursion that takes any element first, is that sum.
LEMMA FoldIsSum ==
  ASSUME NEW f, NEW S, IsFiniteSet(S), NEW G, Additive(f, S, G)
  PROVE  SumFunctionOnSet(f, S) = G[S]
<1> DEFINE Step(h) == [T \in SUBSET S |->
                         IF T = {} THEN 0
                         ELSE f[CHOOSE x \in T : TRUE] + h[T \ {CHOOSE x \in T : TRUE}]]
<1> DEFINE I == CHOOSE h : h = Step(h)
<1>1. SumFunctionOnSet(f, S) = I[S]
  BY DEF SumFunctionOnSet, FoldFunctionOnSet, MapThenFoldSet
<1>2. \A T \in SUBSET S : T # {} => (CHOOSE x \in T : TRUE) \in T
  OBVIOUS
<1>3. G = Step(G)
  <2>1. \A T \in SUBSET S :
          G[T] = IF T = {} THEN 0
                 ELSE f[CHOOSE x \in T : TRUE] + G[T \ {CHOOSE x \in T : TRUE}]
    BY <1>2 DEF Additive
  <2> QED BY <2>1 DEF Additive
<1>4. I = Step(I)
  BY <1>3
<1>5. \A T \in SUBSET S :
        I[T] = IF T = {} THEN 0
               ELSE f[CHOOSE x \in T : TRUE] + I[T \ {CHOOSE x \in T : TRUE}]
  <2> HIDE DEF I
  <2> QED BY <1>4
<1> HIDE DEF I
<1> DEFINE Q == {T \in FiniteSubsetsOf(S) : I[T] # G[T]}
<1>6. ASSUME Q # {} PROVE FALSE
  <2>1. Q \in SUBSET FiniteSubsetsOf(S)
    OBVIOUS
  <2>2. PICK T \in Q : \A U \in Q : ~(U \subseteq T /\ U # T)
    <3> HIDE DEF Q
    <3> QED BY <1>6, <2>1, SmallestSet
  <2>3. T \in SUBSET S /\ IsFiniteSet(T) /\ I[T] # G[T]
    BY DEF FiniteSubsetsOf
  <2>4. T # {}
    BY <1>5, <2>3 DEF Additive
  <2>5. PICK x : x = CHOOSE y \in T : TRUE
    OBVIOUS
  <2>6. /\ x \in T /\ I[T] = f[x] + I[T \ {x}]
    BY <1>5, <2>3, <2>4, <2>5
  <2>7. /\ T \ {x} \in SUBSET S /\ T \ {x} \subseteq T /\ T \ {x} # T
        /\ IsFiniteSet(T \ {x})
    BY <2>3, <2>6, FS_RemoveElement
  <2>8. I[T \ {x}] = G[T \ {x}]
    BY <2>2, <2>7 DEF FiniteSubsetsOf
  <2>9. G[T] = f[x] + G[T \ {x}]
    BY <2>3, <2>6 DEF Additive
  <2> QED BY <2>3, <2>6, <2>8, <2>9
<1>7. S \in FiniteSubsetsOf(S)
  BY DEF FiniteSubsetsOf
<1> QED BY <1>1, <1>6, <1>7

\* ... so that it is a number, whatever it takes first.
LEMMA SumExists ==
  ASSUME NEW f, NEW S, IsFiniteSet(S), \A x \in S : f[x] \in Nat
  PROVE  \E G : Additive(f, S, G) /\ SumFunctionOnSet(f, S) = G[S]
BY AdditiveExists, FoldIsSum

\* The sum of a run of values is the difference of two of their cumulated sums.
LEMMA SumOfRun ==
  ASSUME NEW m \in Nat \ {0}, NEW k \in Nat, m <= k + 1,
         NEW f, DOMAIN f = m .. k, NEW cum,
         \A n \in m - 1 .. k : cum[n] \in Nat,
         \A n \in m .. k : f[n] \in Nat /\ cum[n] = cum[n - 1] + f[n]
  PROVE  SumFunction(f) = cum[k] - cum[m - 1]
<1>1. IsFiniteSet(m .. k)
  BY FS_Interval
<1>2. PICK G : Additive(f, m .. k, G) /\ SumFunctionOnSet(f, m .. k) = G[m .. k]
  BY <1>1, SumExists
<1>3. SumFunction(f) = G[m .. k]
  BY <1>2 DEF SumFunction
<1> DEFINE Q == {n \in m - 1 .. k : G[m .. n] # cum[n] - cum[m - 1]}
<1>4. ASSUME Q # {} PROVE FALSE
  <2>1. PICK n \in Q : \A l \in Q : n <= l
    <3>1. Q \in SUBSET Nat
      OBVIOUS
    <3> HIDE DEF Q
    <3> QED BY <1>4, <3>1, Least
  <2>2. n \in m - 1 .. k /\ G[m .. n] # cum[n] - cum[m - 1]
    OBVIOUS
  <2>3. CASE n = m - 1
    <3>1. m .. n = {}
      BY <2>3
    <3> QED BY <1>2, <2>2, <2>3, <3>1 DEF Additive
  <2>4. CASE n # m - 1
    <3>1. n - 1 \in m - 1 .. k /\ n \in m .. k
      BY <2>2, <2>4
    <3>2. ~(n - 1 \in Q)
      <4>1. ~(n <= n - 1)
        BY <2>2
      <4> HIDE DEF Q
      <4> QED BY <2>1, <4>1
    <3>3. G[m .. n - 1] = cum[n - 1] - cum[m - 1]
      BY <3>1, <3>2
    <3>4. /\ m .. n \in SUBSET (m .. k) /\ n \in m .. n
          /\ (m .. n) \ {n} = m .. n - 1
      <4>0. n \in Nat /\ m <= n /\ n <= k
        BY <2>2, <3>1
      <4> HIDE DEF Q
      <4>1. (m .. n) \ {n} = m .. n - 1
        BY <4>0
      <4>2. m .. n \in SUBSET (m .. k) /\ n \in m .. n
        BY <4>0
      <4> QED BY <4>1, <4>2
    <3>5. G[m .. n] = f[n] + G[m .. n - 1]
      <4>1. \A T \in SUBSET (m .. k) : \A x \in T : G[T] = f[x] + G[T \ {x}]
        BY <1>2 DEF Additive
      <4>2. G[m .. n] = f[n] + G[(m .. n) \ {n}]
        BY <3>4, <4>1
      <4> QED BY <3>4, <4>2
    <3>6. cum[n] = cum[n - 1] + f[n] /\ f[n] \in Nat /\ cum[n - 1] \in Nat /\ cum[m - 1] \in Nat
      BY <3>1
    <3> QED BY <2>2, <3>3, <3>5, <3>6
  <2> QED BY <2>3, <2>4
<1>5. k \in m - 1 .. k
  OBVIOUS
<1> QED BY <1>3, <1>4, <1>5

-----------------------------------------------------------------------------
\* The window and its sums.

\* An index of the ring advanced by at most a lap.
LEMMA RingWrap ==
  ASSUME NEW a \in Slots, NEW i \in 0 .. Capacity
  PROVE  /\ (a + i) % Capacity = IF a + i < Capacity THEN a + i ELSE a + i - Capacity
         /\ (a + i) % Capacity \in Slots
<1>1. CASE a + i < Capacity
  BY <1>1, WindowAssumption DEF Slots
<1>2. CASE ~(a + i < Capacity)
  <2>1. /\ a + i - Capacity \in 0 .. Capacity - 1
        /\ a + i = Capacity + (a + i - Capacity)
    BY <1>2, WindowAssumption DEF Slots
  <2> QED BY <1>2, <2>1, WindowAssumption DEF Slots
<1> QED BY <1>1, <1>2

\* Advancing by one.
LEMMA AfterSlot ==
  ASSUME NEW a \in Slots
  PROVE  /\ After(a) = IF a + 1 = Capacity THEN 0 ELSE a + 1
         /\ After(a) \in Slots
<1>1. 1 \in 0 .. Capacity /\ a + 1 <= Capacity
  BY WindowAssumption DEF Slots
<1>2. /\ (a + 1) % Capacity = IF a + 1 < Capacity THEN a + 1 ELSE a + 1 - Capacity
      /\ (a + 1) % Capacity \in Slots
  BY <1>1, RingWrap
<1> QED BY <1>1, <1>2, WindowAssumption DEF After, Slots

\* An index counted from the next slot.
LEMMA AfterPlus ==
  ASSUME NEW a \in Slots, NEW i \in 0 .. Capacity - 1
  PROVE  (After(a) + i) % Capacity = (a + (i + 1)) % Capacity
<1> USE WindowAssumption
<1>1. /\ i \in 0 .. Capacity /\ i + 1 \in 0 .. Capacity
      /\ a \in 0 .. Capacity - 1
  BY DEF Slots
<1>2. (a + (i + 1)) % Capacity =
        IF a + (i + 1) < Capacity THEN a + (i + 1) ELSE a + (i + 1) - Capacity
  BY <1>1, RingWrap
<1>3. (After(a) + i) % Capacity =
        IF After(a) + i < Capacity THEN After(a) + i ELSE After(a) + i - Capacity
  BY <1>1, RingWrap, AfterSlot
<1>4. CASE a + 1 = Capacity
  <2>1. After(a) = 0
    BY <1>4, AfterSlot
  <2> QED BY <1>1, <1>2, <1>3, <1>4, <2>1
<1>5. CASE a + 1 # Capacity
  <2>1. After(a) = a + 1
    BY <1>5, AfterSlot
  <2> QED BY <1>1, <1>2, <1>3, <1>5, <2>1
<1> QED BY <1>4, <1>5

\* The inductive invariant holds of a new window.
THEOREM InitIInv == Init => IInv
<1> SUFFICES ASSUME Init PROVE IInv
  OBVIOUS
<1> USE WindowAssumption
<1>1. 0 % Capacity = 0
  OBVIOUS
<1>2. TypeOK
  BY DEF Init, TypeOK, Slots, Entries, NoEntry
<1>3. WindowIsSuffix
  BY DEF Init, WindowIsSuffix
<1> QED BY <1>1, <1>2, <1>3 DEF Init, IInv

\* What PopOldest does to the window: it loses the oldest of its trades.
LEMMA PopKeeps ==
  ASSUME IInv, PopOldest, size > 0
  PROVE  /\ head' \in Slots /\ size' \in 0 .. Capacity - 1 /\ size' = size - 1
         /\ sumBuy' \in Nat /\ sumSell' \in Nat
         /\ WindowIsSuffix'
         /\ tail = (head' + size') % Capacity
<1> USE WindowAssumption
<1>0. /\ TypeOK /\ WindowIsSuffix
      /\ ring \in [Slots -> Entries] /\ head \in Slots /\ tail \in Slots
      /\ size \in 0 .. Capacity /\ count \in 0 .. MaxTrades
      /\ cumBuy \in [0 .. MaxTrades -> Nat] /\ cumSell \in [0 .. MaxTrades -> Nat]
      /\ trades \in [1 .. MaxTrades -> Entries]
  BY DEF IInv, TypeOK
<1>1. /\ head' = After(head) /\ size' = size - 1
      /\ sumBuy' = sumBuy - ring[head].buy /\ sumSell' = sumSell - ring[head].sell
      /\ UNCHANGED <<ring, tail, count, trades, cumBuy, cumSell>>
  BY DEF PopOldest, history
<1>2. head' \in Slots /\ size' \in 0 .. Capacity - 1 /\ size <= count
  BY <1>0, <1>1, AfterSlot DEF WindowIsSuffix
<1> DEFINE old == count - size + 1
<1>3. ring[head] = trades[old]
  <2>1. ring[(head + 0) % Capacity] = trades[count - size + 1 + 0]
    BY <1>0 DEF WindowIsSuffix
  <2>2. (head + 0) % Capacity = head
    <3>1. (head + 0) % Capacity = IF head + 0 < Capacity THEN head + 0 ELSE head + 0 - Capacity
      BY <1>0, RingWrap, 0 \in 0 .. Capacity
    <3> QED BY <1>0, <3>1 DEF Slots
  <2> QED BY <1>0, <2>1, <2>2
<1>4. /\ old \in 1 .. count /\ old - 1 = count - size /\ count - size' = old
      /\ old \in 0 .. count
  BY <1>0, <1>1, <1>2
<1>5. /\ cumBuy[old] = cumBuy[old - 1] + trades[old].buy
      /\ cumSell[old] = cumSell[old - 1] + trades[old].sell
      /\ cumBuy[old] <= cumBuy[count] /\ cumSell[old] <= cumSell[count]
  <2>1. \A n \in 1 .. count :
          /\ cumBuy[n] = cumBuy[n - 1] + trades[n].buy
          /\ cumSell[n] = cumSell[n - 1] + trades[n].sell
    BY DEF IInv
  <2>2. \A m, n \in 0 .. count :
          m <= n => cumBuy[m] <= cumBuy[n] /\ cumSell[m] <= cumSell[n]
    BY DEF IInv
  <2>3. count \in 0 .. count /\ old <= count
    BY <1>0, <1>4
  <2> HIDE DEF old
  <2> QED BY <1>4, <2>1, <2>2, <2>3
<1>6. /\ trades[old].buy \in Nat /\ trades[old].sell \in Nat
      /\ cumBuy[old] \in Nat /\ cumBuy[old - 1] \in Nat /\ cumBuy[count] \in Nat
      /\ cumSell[old] \in Nat /\ cumSell[old - 1] \in Nat /\ cumSell[count] \in Nat
  <2>1. /\ old \in 1 .. MaxTrades /\ old \in 0 .. MaxTrades
        /\ old - 1 \in 0 .. MaxTrades /\ count \in 0 .. MaxTrades
    BY <1>0, <1>4
  <2> HIDE DEF old
  <2>2. trades[old] \in Entries
    BY <1>0, <2>1
  <2> QED BY <1>0, <2>1, <2>2 DEF Entries
<1>7. /\ sumBuy = cumBuy[count] - cumBuy[old - 1]
      /\ sumSell = cumSell[count] - cumSell[old - 1]
  BY <1>4 DEF IInv, WindowIsSuffix
<1>8. /\ sumBuy' = cumBuy[count] - cumBuy[old]
      /\ sumSell' = cumSell[count] - cumSell[old]
  BY <1>1, <1>3, <1>5, <1>6, <1>7
<1>9. sumBuy' \in Nat /\ sumSell' \in Nat
  BY <1>5, <1>6, <1>8
<1>10. ASSUME NEW i \in 0 .. size - 2
       PROVE  ring[(After(head) + i) % Capacity] = trades[count - size + 2 + i]
  <2>1. (After(head) + i) % Capacity = (head + (i + 1)) % Capacity
    BY <1>0, AfterPlus
  <2>2. ring[(head + (i + 1)) % Capacity] = trades[count - size + 1 + (i + 1)]
    BY <1>0 DEF WindowIsSuffix
  <2>3. count - size + 1 + (i + 1) = count - size + 2 + i
    BY <1>0
  <2> QED BY <2>1, <2>2, <2>3
<1>11. tail = (After(head) + (size - 1)) % Capacity
  <2>1. tail = (head + ((size - 1) + 1)) % Capacity
    BY <1>0 DEF IInv
  <2>2. size - 1 \in 0 .. Capacity - 1
    BY <1>0
  <2> QED BY <1>0, <2>1, <2>2, AfterPlus
<1>12. WindowIsSuffix'
  <2>1. size' <= count'
    BY <1>0, <1>1, <1>2
  <2>2. /\ sumBuy' = cumBuy'[count'] - cumBuy'[count' - size']
        /\ sumSell' = cumSell'[count'] - cumSell'[count' - size']
    BY <1>1, <1>4, <1>8
  <2>3. \A i \in 0 .. size' - 1 :
          ring'[(head' + i) % Capacity] = trades'[count' - size' + 1 + i]
    BY <1>0, <1>1, <1>10
  <2> QED BY <2>1, <2>2, <2>3 DEF WindowIsSuffix
<1> QED BY <1>1, <1>2, <1>9, <1>11, <1>12

\* The indices of a lap are those of different slots.
LEMMA WrapInjective ==
  ASSUME NEW a \in Slots, NEW i \in 0 .. Capacity - 1, NEW j \in 0 .. Capacity - 1, i < j
  PROVE  (a + i) % Capacity # (a + j) % Capacity
<1> USE WindowAssumption
<1>1. i \in 0 .. Capacity /\ j \in 0 .. Capacity /\ a \in 0 .. Capacity - 1
  BY DEF Slots
<1>2. (a + i) % Capacity = IF a + i < Capacity THEN a + i ELSE a + i - Capacity
  BY <1>1, RingWrap
<1>3. (a + j) % Capacity = IF a + j < Capacity THEN a + j ELSE a + j - Capacity
  BY <1>1, RingWrap
<1> QED BY <1>1, <1>2, <1>3

\* The parts of the invariant that only speak of the history.
History ==
  /\ \A n \in 1 .. count :
       /\ cumBuy[n] = cumBuy[n - 1] + trades[n].buy
       /\ cumSell[n] = cumSell[n - 1] + trades[n].sell
  /\ \A m, n \in 0 .. count :
       m <= n => cumBuy[m] <= cumBuy[n] /\ cumSell[m] <= cumSell[n]

\* Push keeps the cumulated volumes those of the trades, and monotone.
LEMMA PushHistory ==
  ASSUME IInv, Push
  PROVE  History'
<1> USE WindowAssumption
<1>0. /\ count \in 0 .. MaxTrades /\ count < MaxTrades
      /\ cumBuy \in [0 .. MaxTrades -> Nat] /\ cumSell \in [0 .. MaxTrades -> Nat]
      /\ trades \in [1 .. MaxTrades -> Entries]
      /\ entry.buy \in Nat /\ entry.sell \in Nat
  BY DEF IInv, TypeOK, Push, Entries
<1>1. /\ count' = count + 1 /\ trades' = [trades EXCEPT ![count + 1] = entry]
      /\ cumBuy' = [cumBuy EXCEPT ![count + 1] = cumBuy[count] + entry.buy]
      /\ cumSell' = [cumSell EXCEPT ![count + 1] = cumSell[count] + entry.sell]
  BY DEF Push
<1>2. /\ \A n \in 1 .. count :
           /\ cumBuy[n] = cumBuy[n - 1] + trades[n].buy
           /\ cumSell[n] = cumSell[n - 1] + trades[n].sell
      /\ \A m, n \in 0 .. count :
           m <= n => cumBuy[m] <= cumBuy[n] /\ cumSell[m] <= cumSell[n]
  BY DEF IInv
<1>3. /\ \A n \in 0 .. count : cumBuy'[n] = cumBuy[n] /\ cumSell'[n] = cumSell[n]
      /\ \A n \in 1 .. count : trades'[n] = trades[n]
      /\ cumBuy'[count + 1] = cumBuy[count] + entry.buy
      /\ cumSell'[count + 1] = cumSell[count] + entry.sell
      /\ trades'[count + 1] = entry
  <2>1. /\ count + 1 \in 1 .. MaxTrades /\ count + 1 \in 0 .. MaxTrades
        /\ \A n \in 0 .. count : n \in 0 .. MaxTrades /\ n # count + 1
        /\ \A n \in 1 .. count : n \in 1 .. MaxTrades /\ n # count + 1
    BY <1>0
  <2>2. /\ DOMAIN cumBuy = 0 .. MaxTrades /\ DOMAIN cumSell = 0 .. MaxTrades
        /\ DOMAIN trades = 1 .. MaxTrades
    BY <1>0
  <2>3. /\ \A n \in 0 .. count : cumBuy'[n] = cumBuy[n]
        /\ cumBuy'[count + 1] = cumBuy[count] + entry.buy
    BY <1>1, <2>1, <2>2
  <2>4. /\ \A n \in 0 .. count : cumSell'[n] = cumSell[n]
        /\ cumSell'[count + 1] = cumSell[count] + entry.sell
    BY <1>1, <2>1, <2>2
  <2>5. /\ \A n \in 1 .. count : trades'[n] = trades[n]
        /\ trades'[count + 1] = entry
    BY <1>1, <2>1, <2>2
  <2> QED BY <2>3, <2>4, <2>5
<1>4. ASSUME NEW n \in 1 .. count + 1
      PROVE  /\ cumBuy'[n] = cumBuy'[n - 1] + trades'[n].buy
             /\ cumSell'[n] = cumSell'[n - 1] + trades'[n].sell
  <2>1. CASE n = count + 1
    <3>1. n - 1 = count /\ count \in 0 .. count
      BY <1>0, <2>1
    <3>2. /\ cumBuy'[n - 1] = cumBuy[count] /\ cumSell'[n - 1] = cumSell[count]
          /\ trades'[n] = entry
          /\ cumBuy'[n] = cumBuy[count] + entry.buy
          /\ cumSell'[n] = cumSell[count] + entry.sell
      BY <1>3, <2>1, <3>1
    <3> QED BY <3>2
  <2>2. CASE n # count + 1
    <3>1. n \in 1 .. count /\ n \in 0 .. count /\ n - 1 \in 0 .. count
      BY <1>0, <2>2
    <3>2. /\ cumBuy'[n - 1] = cumBuy[n - 1] /\ cumSell'[n - 1] = cumSell[n - 1]
          /\ cumBuy'[n] = cumBuy[n] /\ cumSell'[n] = cumSell[n]
          /\ trades'[n] = trades[n]
      BY <1>3, <3>1
    <3>3. /\ cumBuy[n] = cumBuy[n - 1] + trades[n].buy
          /\ cumSell[n] = cumSell[n - 1] + trades[n].sell
      BY <1>2, <3>1
    <3> QED BY <3>2, <3>3
  <2> QED BY <2>1, <2>2
<1>5. ASSUME NEW m \in 0 .. count + 1, NEW n \in 0 .. count + 1, m <= n
      PROVE  cumBuy'[m] <= cumBuy'[n] /\ cumSell'[m] <= cumSell'[n]
  <2>1. CASE n # count + 1
    <3>1. m \in 0 .. count /\ n \in 0 .. count
      BY <1>0, <1>5, <2>1
    <3>2. /\ cumBuy'[m] = cumBuy[m] /\ cumSell'[m] = cumSell[m]
          /\ cumBuy'[n] = cumBuy[n] /\ cumSell'[n] = cumSell[n]
      BY <1>3, <3>1
    <3>3. cumBuy[m] <= cumBuy[n] /\ cumSell[m] <= cumSell[n]
      BY <1>2, <1>5, <3>1
    <3> QED BY <3>2, <3>3
  <2>2. CASE m = count + 1
    <3>1. n = m
      BY <1>0, <1>5, <2>2
    <3>2. /\ cumBuy[count] \in Nat /\ cumSell[count] \in Nat
      BY <1>0
    <3>3. /\ cumBuy[count] + entry.buy <= cumBuy[count] + entry.buy
          /\ cumSell[count] + entry.sell <= cumSell[count] + entry.sell
      <4>1. \A x, e \in Nat : x + e <= x + e
        OBVIOUS
      <4> QED BY <1>0, <3>2, <4>1
    <3>4. /\ cumBuy'[m] = cumBuy[count] + entry.buy /\ cumBuy'[n] = cumBuy[count] + entry.buy
          /\ cumSell'[m] = cumSell[count] + entry.sell
          /\ cumSell'[n] = cumSell[count] + entry.sell
      BY <1>3, <2>2, <3>1
    <3> QED BY <3>3, <3>4
  <2>3. CASE n = count + 1 /\ m # count + 1
    <3>1. m \in 0 .. count /\ count \in 0 .. count /\ m <= count
      BY <1>0, <2>3
    <3>2. /\ cumBuy[m] \in Nat /\ cumBuy[count] \in Nat
          /\ cumSell[m] \in Nat /\ cumSell[count] \in Nat
      BY <1>0, <3>1
    <3>3. cumBuy[m] <= cumBuy[count] /\ cumSell[m] <= cumSell[count]
      BY <1>2, <3>1
    <3>4. cumBuy'[m] = cumBuy[m] /\ cumSell'[m] = cumSell[m]
      BY <1>3, <3>1
    <3>5. /\ cumBuy[m] <= cumBuy[count] + entry.buy
          /\ cumSell[m] <= cumSell[count] + entry.sell
      <4>1. \A x, y, e \in Nat : x <= y => x <= y + e
        OBVIOUS
      <4>2. entry.buy \in Nat /\ entry.sell \in Nat
        BY <1>0
      <4> QED BY <3>2, <3>3, <4>1, <4>2
    <3>6. /\ cumBuy'[n] = cumBuy[count] + entry.buy
          /\ cumSell'[n] = cumSell[count] + entry.sell
      BY <1>3, <2>3
    <3> QED BY <3>4, <3>5, <3>6
  <2> QED BY <2>1, <2>2, <2>3
<1>6. /\ \A n \in 1 .. count' :
           /\ cumBuy'[n] = cumBuy'[n - 1] + trades'[n].buy
           /\ cumSell'[n] = cumSell'[n - 1] + trades'[n].sell
      /\ \A m, n \in 0 .. count' :
           m <= n => cumBuy'[m] <= cumBuy'[n] /\ cumSell'[m] <= cumSell'[n]
  BY <1>1, <1>4, <1>5
<1> QED BY <1>6 DEF History

\* Push adds the trade at the young end of the window.
LEMMA PushKeeps ==
  ASSUME IInv, Push
  PROVE  WindowIsSuffix' /\ tail' = (head' + size') % Capacity
<1> USE WindowAssumption
<1>0. /\ ring \in [Slots -> Entries] /\ head \in Slots /\ tail \in Slots
      /\ size \in 0 .. Capacity - 1 /\ count \in 0 .. MaxTrades /\ count < MaxTrades
      /\ cumBuy \in [0 .. MaxTrades -> Nat] /\ cumSell \in [0 .. MaxTrades -> Nat]
      /\ trades \in [1 .. MaxTrades -> Entries]
      /\ entry.buy \in Nat /\ entry.sell \in Nat
      /\ size <= count /\ tail = (head + size) % Capacity
  <2>1. TypeOK /\ size <= count /\ tail = (head + size) % Capacity
        /\ count < MaxTrades /\ size < Capacity
    BY DEF IInv, WindowIsSuffix, Push
  <2>2. size \in 0 .. Capacity - 1
    BY <2>1 DEF TypeOK
  <2> QED BY <2>1, <2>2 DEF TypeOK, Entries
<1>1. /\ head' = head /\ tail' = After(tail) /\ size' = size + 1
      /\ ring' = [ring EXCEPT ![tail] = entry]
      /\ sumBuy' = sumBuy + entry.buy /\ sumSell' = sumSell + entry.sell
      /\ count' = count + 1 /\ trades' = [trades EXCEPT ![count + 1] = entry]
      /\ cumBuy' = [cumBuy EXCEPT ![count + 1] = cumBuy[count] + entry.buy]
      /\ cumSell' = [cumSell EXCEPT ![count + 1] = cumSell[count] + entry.sell]
  BY DEF Push
<1>2. count' - size' = count - size
  BY <1>0, <1>1
<1>3. ASSUME NEW i \in 0 .. size
      PROVE  ring'[(head + i) % Capacity] = trades'[count - size + 1 + i]
  <2>1. i \in 0 .. Capacity - 1 /\ i \in 0 .. Capacity /\ size \in 0 .. Capacity - 1
    BY <1>0
  <2>2. (head + i) % Capacity \in Slots
    BY <1>0, <2>1, RingWrap
  <2>3. CASE i = size
    <3>1. count - size + 1 + i = count + 1
      BY <1>0, <2>3
    <3>2. (head + i) % Capacity = tail
      BY <1>0, <2>3
    <3>3. count + 1 \in 1 .. MaxTrades
      BY <1>0
    <3> QED BY <1>0, <1>1, <3>1, <3>2, <3>3
  <2>4. CASE i # size
    <3>1. i < size /\ i \in 0 .. size - 1
      BY <1>0, <2>4
    <3>2. (head + i) % Capacity # tail
      BY <1>0, <2>1, <3>1, WrapInjective
    <3>3. /\ count - size + 1 + i \in 1 .. MaxTrades
          /\ count - size + 1 + i # count + 1
      BY <1>0, <3>1
    <3>4. ring[(head + i) % Capacity] = trades[count - size + 1 + i]
      BY <3>1 DEF IInv, WindowIsSuffix
    <3> QED BY <1>0, <1>1, <2>2, <3>2, <3>3, <3>4
  <2> QED BY <2>3, <2>4
<1>4. /\ count \in 0 .. MaxTrades /\ count + 1 \in 0 .. MaxTrades
      /\ count - size \in 0 .. MaxTrades /\ count - size # count + 1
  BY <1>0
<1>5. /\ cumBuy[count] \in Nat /\ cumBuy[count - size] \in Nat
      /\ cumSell[count] \in Nat /\ cumSell[count - size] \in Nat
  BY <1>0, <1>4
<1>6. /\ cumBuy'[count + 1] = cumBuy[count] + entry.buy
      /\ cumBuy'[count - size] = cumBuy[count - size]
      /\ cumSell'[count + 1] = cumSell[count] + entry.sell
      /\ cumSell'[count - size] = cumSell[count - size]
  BY <1>0, <1>1, <1>4
<1>7. /\ sumBuy = cumBuy[count] - cumBuy[count - size]
      /\ sumSell = cumSell[count] - cumSell[count - size]
  BY DEF IInv, WindowIsSuffix
<1>8. /\ sumBuy' = cumBuy'[count + 1] - cumBuy'[count - size]
      /\ sumSell' = cumSell'[count + 1] - cumSell'[count - size]
  <2>1. /\ sumBuy + entry.buy = (cumBuy[count] + entry.buy) - cumBuy[count - size]
        /\ sumSell + entry.sell = (cumSell[count] + entry.sell) - cumSell[count - size]
    <3>2. sumBuy \in Nat /\ sumSell \in Nat
      BY DEF IInv, TypeOK
    <3>3. entry.buy \in Nat /\ entry.sell \in Nat
      BY <1>0
    <3>4. sumBuy + entry.buy = (cumBuy[count] + entry.buy) - cumBuy[count - size]
      <4> DEFINE x == sumBuy
      <4> DEFINE a == cumBuy[count]
      <4> DEFINE b == cumBuy[count - size]
      <4> DEFINE e == entry.buy
      <4>1. x \in Nat /\ a \in Nat /\ b \in Nat /\ e \in Nat /\ x = a - b
        BY <1>5, <1>7, <3>2, <3>3
      <4> HIDE DEF x, a, b, e
      <4>2. x + e = (a + e) - b
        BY <4>1
      <4> QED BY <4>2 DEF x, a, b, e
    <3>5. sumSell + entry.sell = (cumSell[count] + entry.sell) - cumSell[count - size]
      <4> DEFINE x == sumSell
      <4> DEFINE a == cumSell[count]
      <4> DEFINE b == cumSell[count - size]
      <4> DEFINE e == entry.sell
      <4>1. x \in Nat /\ a \in Nat /\ b \in Nat /\ e \in Nat /\ x = a - b
        BY <1>5, <1>7, <3>2, <3>3
      <4> HIDE DEF x, a, b, e
      <4>2. x + e = (a + e) - b
        BY <4>1
      <4> QED BY <4>2 DEF x, a, b, e
    <3> QED BY <3>4, <3>5
  <2> QED BY <1>1, <1>6, <2>1
<1>9. WindowIsSuffix'
  <2>1. size' <= count'
    BY <1>0, <1>1
  <2>2. \A i \in 0 .. size' - 1 :
          ring'[(head' + i) % Capacity] = trades'[count' - size' + 1 + i]
    <3>1. size' - 1 = size
      BY <1>0, <1>1
    <3> QED BY <1>1, <1>2, <1>3, <3>1
  <2> QED BY <1>1, <1>2, <1>8, <2>1, <2>2 DEF WindowIsSuffix
<1>10. After(tail) = (head + (size + 1)) % Capacity
  <2>1. /\ size \in 0 .. Capacity /\ size + 1 \in 0 .. Capacity /\ head \in 0 .. Capacity - 1
        /\ tail \in 0 .. Capacity - 1
    BY <1>0 DEF Slots
  <2>2. tail = IF head + size < Capacity THEN head + size ELSE head + size - Capacity
    BY <1>0, <2>1, RingWrap
  <2>3. (head + (size + 1)) % Capacity =
          IF head + (size + 1) < Capacity THEN head + (size + 1)
          ELSE head + (size + 1) - Capacity
    BY <1>0, <2>1, RingWrap
  <2>4. After(tail) = IF tail + 1 = Capacity THEN 0 ELSE tail + 1
    BY <1>0, AfterSlot
  <2> QED BY <1>0, <2>1, <2>2, <2>3, <2>4
<1> QED BY <1>1, <1>9, <1>10

\* Every step keeps the invariant.
THEOREM NextIInv == IInv /\ [Next]_vars => IInv'
<1> SUFFICES ASSUME IInv, [Next]_vars PROVE IInv'
  OBVIOUS
<1> USE WindowAssumption
<1>0. TypeOK /\ WindowIsSuffix /\ History /\ tail = (head + size) % Capacity
  BY DEF IInv, History
\* What is kept by a step that only moves the call on.
<1>1. ASSUME UNCHANGED <<window, history>>, TypeOK',
             pc' # "idle" => count < MaxTrades, pc' = "push" => size < Capacity
      PROVE  IInv'
  <2>1. WindowIsSuffix'
    BY <1>0, <1>1 DEF WindowIsSuffix, window, history
  <2>2. History'
    BY <1>0, <1>1 DEF History, history
  <2> QED BY <1>0, <1>1, <2>1, <2>2 DEF IInv, History, window, history
\* What is kept by a step that evicts the oldest trade.
<1>2. ASSUME PopOldest, size > 0, pc' \in {"evict", "push"}, count < MaxTrades
      PROVE  IInv'
  <2>1. /\ head' \in Slots /\ size' \in 0 .. Capacity - 1 /\ size' = size - 1
        /\ sumBuy' \in Nat /\ sumSell' \in Nat /\ WindowIsSuffix'
        /\ tail = (head' + size') % Capacity
    BY <1>2, PopKeeps
  <2>2. UNCHANGED <<ring, tail, entry, cutoff, count, trades, cumBuy, cumSell>>
    BY <1>2 DEF PopOldest, history
  <2>3. size' \in 0 .. Capacity /\ (pc' = "push" => size' < Capacity)
    <3>1. size - 1 \in 0 .. Capacity - 1 => size - 1 \in 0 .. Capacity /\ size - 1 < Capacity
      BY <1>0 DEF TypeOK
    <3> QED BY <2>1, <3>1
  <2>4. TypeOK'
    BY <1>0, <1>2, <2>1, <2>2, <2>3 DEF TypeOK
  <2>5. History'
    BY <1>0, <2>2 DEF History
  <2> QED BY <1>2, <2>1, <2>2, <2>3, <2>4, <2>5 DEF IInv, History
<1>3. CASE UNCHANGED vars
  <2>1. UNCHANGED <<window, history>> /\ UNCHANGED <<pc, entry, cutoff>>
    BY <1>3 DEF vars, call
  <2>2. TypeOK'
    BY <1>0, <2>1 DEF TypeOK, window, history
  <2> QED BY <1>1, <2>1, <2>2 DEF IInv
<1>4. ASSUME NEW ts \in Timestamps, NEW isBuyerMaker \in BOOLEAN, NEW quantity \in Quantities,
             OnTrade(ts, isBuyerMaker, quantity)
      PROVE  IInv'
  <2>1. UNCHANGED <<window, history>> /\ pc' = "evict" /\ count < MaxTrades
    BY <1>4 DEF OnTrade
  <2>2. ts \in Nat /\ quantity \in Nat
    OBVIOUS
  <2>3. cutoff' \in Nat
    BY <1>4, <2>2 DEF OnTrade, Cutoff
  <2>4. entry' \in Entries
    BY <1>4, <2>2 DEF OnTrade, Entries
  <2>5. TypeOK'
    BY <1>0, <2>1, <2>3, <2>4 DEF TypeOK, window, history
  <2> QED BY <1>1, <2>1, <2>5
<1>5. CASE Evict
  BY <1>2, <1>5 DEF Evict, IInv
<1>6. CASE EvictDone
  <2>1. UNCHANGED <<window, history>> /\ pc' = "room" /\ pc = "evict"
        /\ UNCHANGED <<entry, cutoff>>
    BY <1>6 DEF EvictDone
  <2>2. TypeOK'
    BY <1>0, <2>1 DEF TypeOK, window, history
  <2> QED BY <1>1, <2>1, <2>2 DEF IInv
<1>7. CASE MakeRoom
  <2>1. pc = "room" /\ pc' = "push" /\ count < MaxTrades
    BY <1>7 DEF MakeRoom, IInv
  <2>2. CASE size = Capacity /\ PopOldest
    BY <1>0, <1>2, <2>1, <2>2 DEF TypeOK
  <2>3. CASE size # Capacity /\ UNCHANGED <<window, entry, cutoff, history>>
    <3>1. TypeOK'
      BY <1>0, <2>1, <2>3 DEF TypeOK, window, history
    <3>2. size < Capacity
      BY <1>0, <2>3 DEF TypeOK
    <3> QED BY <1>1, <2>1, <2>3, <3>1, <3>2
  <2> QED BY <1>7, <2>2, <2>3 DEF MakeRoom
<1>8. CASE Push
  <2>1. WindowIsSuffix' /\ tail' = (head' + size') % Capacity
    BY <1>8, PushKeeps
  <2>2. History'
    BY <1>8, PushHistory
  <2>3. pc' = "idle"
    BY <1>8 DEF Push
  <2>4. TypeOK'
    <3>1. /\ size < Capacity /\ count < MaxTrades
          /\ ring \in [Slots -> Entries] /\ tail \in Slots /\ size \in 0 .. Capacity
          /\ sumBuy \in Nat /\ sumSell \in Nat /\ entry \in Entries
          /\ count \in 0 .. MaxTrades /\ trades \in [1 .. MaxTrades -> Entries]
          /\ cumBuy \in [0 .. MaxTrades -> Nat] /\ cumSell \in [0 .. MaxTrades -> Nat]
      BY <1>0, <1>8 DEF IInv, TypeOK, Push
    <3>2. /\ entry.buy \in Nat /\ entry.sell \in Nat
          /\ cumBuy[count] \in Nat /\ cumSell[count] \in Nat
      BY <3>1 DEF Entries
    <3>3. \A x, y \in Nat : x + y \in Nat
      OBVIOUS
    <3>4. sumBuy' \in Nat /\ sumSell' \in Nat
      BY <1>8, <3>1, <3>2, <3>3 DEF Push
    <3>5. size + 1 \in 0 .. Capacity /\ count + 1 \in 0 .. MaxTrades /\ After(tail) \in Slots
      BY <3>1, AfterSlot
    <3>6. /\ cumBuy[count] + entry.buy \in Nat /\ cumSell[count] + entry.sell \in Nat
      BY <3>2, <3>3
    <3>7. cumBuy' \in [0 .. MaxTrades -> Nat] /\ cumSell' \in [0 .. MaxTrades -> Nat]
      BY <1>8, <3>1, <3>6 DEF Push
    <3>8. trades' \in [1 .. MaxTrades -> Entries] /\ ring' \in [Slots -> Entries]
      BY <1>8, <3>1 DEF Push
    <3> QED BY <1>0, <1>8, <2>3, <3>4, <3>5, <3>7, <3>8 DEF TypeOK, Push
  <2> QED BY <2>1, <2>2, <2>3, <2>4 DEF IInv, History
<1> QED BY <1>3, <1>4, <1>5, <1>6, <1>7, <1>8 DEF Next

\* In every reachable state the inductive invariant holds: among others, the
\* sums the trader compares are the volumes of the trades in the window.
THEOREM Invariant == Spec => []IInv
BY InitIInv, NextIInv, PTL DEF Spec

-----------------------------------------------------------------------------
\* What is dropped, and what is kept.

\* The timestamps of the trades never go back.
Ordered == \A n \in 1 .. count - 1 : trades[n].ts <= trades[n + 1].ts

\* Trade n left the window with good reason: Capacity trades came since, the
\* one being added included, or one of them made it too old.
LeftRightly(n) ==
  \/ count - n >= Capacity
  \/ pc = "push" /\ count + 1 - n >= Capacity
  \/ \E m \in n + 1 .. count : trades[n].ts < Cutoff(trades[m].ts)
  \/ pc # "idle" /\ trades[n].ts < cutoff

\* The trades in the window are recent, for the trade being added once the
\* loop of EvictOlderThan is through, else for the last trade.
KeptRightly ==
  \A n \in count - size + 1 .. count :
    /\ pc \in {"room", "push"} => trades[n].ts >= cutoff
    /\ pc = "idle" => trades[n].ts >= Cutoff(trades[count].ts)

\* The inductive invariant, with that of the sums.
DropInv ==
  /\ IInv
  /\ pc # "idle" => cutoff = Cutoff(entry.ts)
  /\ \A n \in 1 .. count - size : LeftRightly(n)
  /\ Ordered => \A m, n \in 1 .. count : m <= n => trades[m].ts <= trades[n].ts
  /\ Ordered => KeptRightly

\* The window, when no call is under way and timestamps never went back, is
\* exactly the trades that are recent and among the last Capacity.
WindowIsExact ==
  pc = "idle" /\ count > 0 /\ Ordered => InWindow = count - size + 1 .. count

\* The entry at the head is the oldest trade of the window.
LEMMA HeadIsOldest ==
  ASSUME IInv, size > 0
  PROVE  ring[head] = trades[count - size + 1] /\ count - size + 1 \in 1 .. count
<1> USE WindowAssumption
<1>1. /\ size \in 0 .. Capacity /\ head \in 0 .. Capacity - 1 /\ size <= count
      /\ count \in Nat /\ head \in Slots
  BY DEF IInv, TypeOK, WindowIsSuffix, Slots
<1>2. ring[(head + 0) % Capacity] = trades[count - size + 1 + 0]
  BY <1>1 DEF IInv, WindowIsSuffix
<1>3. (head + 0) % Capacity = head
  <2>1. (head + 0) % Capacity = IF head + 0 < Capacity THEN head + 0 ELSE head + 0 - Capacity
    BY <1>1, RingWrap, 0 \in 0 .. Capacity
  <2> QED BY <1>1, <2>1
<1> QED BY <1>1, <1>2, <1>3

\* Timestamps and cutoffs are numbers, and a cutoff is none later.
LEMMA CutoffType ==
  ASSUME NEW t \in Nat
  PROVE  Cutoff(t) \in Nat /\ Cutoff(t) <= t
BY WindowAssumption DEF Cutoff

\* A later trade has a later cutoff.
LEMMA CutoffMonotone ==
  ASSUME NEW t \in Nat, NEW u \in Nat, t <= u
  PROVE  Cutoff(t) <= Cutoff(u)
BY WindowAssumption DEF Cutoff

\* The facts about types that the steps below use.
LEMMA DropTypes ==
  ASSUME IInv
  PROVE  /\ count \in Nat /\ size \in Nat /\ size <= count /\ size <= Capacity
         /\ Capacity \in Nat \ {0} /\ count <= MaxTrades /\ MaxTrades \in Nat
         /\ trades \in [1 .. MaxTrades -> Entries] /\ entry \in Entries
         /\ \A n \in 1 .. count : trades[n].ts \in Nat
         /\ entry.ts \in Nat /\ cutoff \in Nat
<1>1. /\ count \in Nat /\ size \in Nat /\ size <= count /\ size <= Capacity
      /\ Capacity \in Nat \ {0} /\ count <= MaxTrades /\ MaxTrades \in Nat
      /\ trades \in [1 .. MaxTrades -> Entries] /\ entry \in Entries /\ cutoff \in Nat
  BY WindowAssumption DEF IInv, TypeOK, WindowIsSuffix
<1>2. ASSUME NEW n \in 1 .. count PROVE trades[n].ts \in Nat
  <2>1. n \in 1 .. MaxTrades
    BY <1>1
  <2>2. trades[n] \in Entries
    BY <1>1, <2>1
  <2> QED BY <2>2 DEF Entries
<1> QED BY <1>1, <1>2 DEF Entries

\* A step that changes neither the window nor the history.
LEMMA DropCallMoves ==
  ASSUME DropInv, IInv', UNCHANGED <<window, history>>,
         pc' # "idle" => cutoff' = Cutoff(entry'.ts),
         pc = "idle" \/ (cutoff' = cutoff /\ pc' # "idle"),
         pc = "push" => pc' = "push",
         (Ordered => KeptRightly)'
  PROVE  DropInv'
<1>1. count' = count /\ size' = size /\ trades' = trades
  BY DEF window, history
<1>2. \A n \in 1 .. count - size : LeftRightly(n)'
  BY <1>1 DEF DropInv, LeftRightly, Cutoff
<1>3. (Ordered => \A m, n \in 1 .. count : m <= n => trades[m].ts <= trades[n].ts)'
  BY <1>1 DEF DropInv, Ordered
<1> QED BY <1>1, <1>2, <1>3 DEF DropInv

\* A step that takes the oldest trade out of the window for a good reason.
LEMMA DropOldest ==
  ASSUME DropInv, IInv', PopOldest, size > 0,
         \/ pc = "evict" /\ pc' = "evict"
         \/ pc = "room" /\ pc' = "push",
         NEW old, old = count - size + 1, LeftRightly(old)'
  PROVE  DropInv'
<1>1. /\ count' = count /\ size' = size - 1 /\ trades' = trades
      /\ cutoff' = cutoff /\ entry' = entry
  BY DEF PopOldest, history
<1>2. count \in Nat /\ size \in Nat /\ size <= count
  BY DropTypes DEF DropInv
<1>3. ASSUME NEW n \in 1 .. count' - size'
      PROVE  LeftRightly(n)'
  <2>1. n \in 1 .. count - size \/ n = old
    BY <1>1, <1>2
  <2>2. CASE n \in 1 .. count - size
    BY <1>1, <2>2 DEF DropInv, LeftRightly, Cutoff
  <2> QED BY <2>1, <2>2
<1>4. (Ordered => \A m, n \in 1 .. count : m <= n => trades[m].ts <= trades[n].ts)'
  BY <1>1 DEF DropInv, Ordered
<1>5. ASSUME Ordered'
      PROVE  KeptRightly'
  <2>1. KeptRightly
    BY <1>1, <1>5 DEF DropInv, Ordered
  <2>2. \A n \in count' - size' + 1 .. count' : n \in count - size + 1 .. count
    BY <1>1, <1>2
  <2> QED BY <1>1, <2>1, <2>2 DEF KeptRightly
<1>6. pc' # "idle" => cutoff' = Cutoff(entry.ts)'
  BY <1>1 DEF DropInv, Cutoff
<1> QED BY <1>3, <1>4, <1>5, <1>6 DEF DropInv, Cutoff

\* Push adds the trade that the call is about.
LEMMA DropPush ==
  ASSUME DropInv, IInv', Push
  PROVE  DropInv'
<1>1. /\ pc = "push" /\ pc' = "idle"
      /\ count' = count + 1 /\ size' = size + 1
      /\ trades' = [trades EXCEPT ![count + 1] = entry]
  BY DEF Push
<1>2. /\ count \in Nat /\ size \in Nat /\ size <= count /\ count < MaxTrades
      /\ Capacity \in Nat \ {0} /\ MaxTrades \in Nat
      /\ trades \in [1 .. MaxTrades -> Entries]
      /\ \A n \in 1 .. count : trades[n].ts \in Nat
      /\ entry.ts \in Nat /\ cutoff \in Nat
  BY <1>1, DropTypes DEF DropInv, IInv
<1>3. /\ \A n \in 1 .. count : trades'[n] = trades[n]
      /\ trades'[count + 1] = entry
  <2>1. \A n \in 1 .. count : n \in 1 .. MaxTrades /\ n # count + 1
    BY <1>2
  <2>2. count + 1 \in 1 .. MaxTrades
    BY <1>2
  <2> QED BY <1>1, <1>2, <2>1, <2>2
<1>4. cutoff = Cutoff(entry.ts)
  BY <1>1 DEF DropInv
<1>5. ASSUME NEW n \in 1 .. count' - size'
      PROVE  LeftRightly(n)'
  <2>1. n \in 1 .. count - size /\ n \in 1 .. count /\ LeftRightly(n)
    BY <1>1, <1>2 DEF DropInv
  <2>2. CASE count - n >= Capacity \/ (pc = "push" /\ count + 1 - n >= Capacity)
    <3>1. count' - n >= Capacity
      BY <1>1, <1>2, <2>1, <2>2
    <3> QED BY <3>1 DEF LeftRightly
  <2>3. CASE \E m \in n + 1 .. count : trades[n].ts < Cutoff(trades[m].ts)
    <3>1. PICK m \in n + 1 .. count : trades[n].ts < Cutoff(trades[m].ts)
      BY <2>3
    <3>2. m \in 1 .. count /\ m \in n + 1 .. count'
      BY <1>1, <1>2, <2>1, <3>1
    <3>3. trades'[n].ts < Cutoff(trades'[m].ts)
      BY <1>3, <2>1, <3>1, <3>2
    <3> QED BY <3>2, <3>3 DEF LeftRightly, Cutoff
  <2>4. CASE trades[n].ts < cutoff
    <3>1. count' \in n + 1 .. count'
      BY <1>1, <1>2, <2>1
    <3>2. trades'[n].ts < Cutoff(trades'[count'].ts)
      BY <1>1, <1>3, <1>4, <2>1, <2>4
    <3> QED BY <3>1, <3>2 DEF LeftRightly, Cutoff
  <2> QED BY <2>1, <2>2, <2>3, <2>4 DEF LeftRightly
<1>6. ASSUME Ordered'
      PROVE  /\ Ordered
             /\ count > 0 => trades[count].ts <= entry.ts
  <2>1. \A n \in 1 .. count - 1 : n \in 1 .. count' - 1 /\ n \in 1 .. count /\ n + 1 \in 1 .. count
    BY <1>1, <1>2
  <2>2. Ordered
    BY <1>3, <1>6, <2>1 DEF Ordered
  <2>3. ASSUME count > 0
        PROVE  trades[count].ts <= entry.ts
    <3>1. count \in 1 .. count' - 1 /\ count \in 1 .. count
      BY <1>1, <1>2, <2>3
    <3>2. trades'[count].ts <= trades'[count + 1].ts
      BY <1>6, <3>1 DEF Ordered
    <3> QED BY <1>3, <3>1, <3>2
  <2> QED BY <2>2, <2>3
<1>7. ASSUME Ordered', NEW m \in 1 .. count', NEW n \in 1 .. count', m <= n
      PROVE  trades'[m].ts <= trades'[n].ts
  <2>1. \A i, j \in 1 .. count : i <= j => trades[i].ts <= trades[j].ts
    BY <1>6, <1>7 DEF DropInv
  <2>2. CASE n # count + 1
    <3>1. m \in 1 .. count /\ n \in 1 .. count
      BY <1>1, <1>2, <1>7, <2>2
    <3> QED BY <1>3, <1>7, <2>1, <3>1
  <2>3. CASE n = count + 1 /\ m # count + 1
    <3>1. m \in 1 .. count /\ count \in 1 .. count /\ count > 0 /\ m <= count
      BY <1>1, <1>2, <1>7, <2>3
    <3>2. trades[m].ts <= trades[count].ts /\ trades[count].ts <= entry.ts
      BY <1>6, <1>7, <2>1, <3>1
    <3>3. trades[m].ts \in Nat /\ trades[count].ts \in Nat
      BY <1>2, <3>1
    <3> QED BY <1>2, <1>3, <2>3, <3>1, <3>2, <3>3
  <2>4. CASE m = count + 1
    <3>1. n = m /\ trades'[n].ts \in Nat
      BY <1>1, <1>2, <1>3, <1>7, <2>4
    <3> QED BY <3>1
  <2> QED BY <2>2, <2>3, <2>4
<1>8. ASSUME Ordered', NEW n \in count' - size' + 1 .. count'
      PROVE  trades'[n].ts >= Cutoff(trades'[count'].ts)
  <2>1. CASE n = count + 1
    <3>1. entry.ts >= Cutoff(entry.ts)
      BY <1>2, CutoffType
    <3> QED BY <1>1, <1>3, <2>1, <3>1
  <2>2. CASE n # count + 1
    <3>1. n \in count - size + 1 .. count /\ n \in 1 .. count
      BY <1>1, <1>2, <1>8, <2>2
    <3> QED BY <1>1, <1>3, <1>4, <1>6, <1>8, <3>1 DEF DropInv, KeptRightly
  <2> QED BY <2>1, <2>2
<1>9. Ordered' => KeptRightly'
  BY <1>1, <1>8 DEF KeptRightly, Cutoff
<1> QED BY <1>1, <1>5, <1>7, <1>9 DEF DropInv

\* A new window has lost nothing.
LEMMA InitDropInv == Init => DropInv
<1> SUFFICES ASSUME Init PROVE DropInv
  OBVIOUS
<1>1. pc = "idle" /\ count = 0 /\ size = 0
  BY DEF Init
<1>2. count - size = 0 /\ count - size + 1 = 1
  BY <1>1
<1>3. IInv
  BY InitIInv
<1> QED BY <1>1, <1>2, <1>3 DEF DropInv, KeptRightly

\* Every step keeps the invariant.
THEOREM NextDropInv == DropInv /\ [Next]_vars => DropInv'
<1> SUFFICES ASSUME DropInv, [Next]_vars PROVE DropInv'
  OBVIOUS
<1>1. IInv /\ IInv'
  BY NextIInv DEF DropInv
<1>2. /\ count \in Nat /\ size \in Nat /\ size <= count /\ size <= Capacity
      /\ Capacity \in Nat \ {0} /\ cutoff \in Nat
      /\ \A n \in 1 .. count : trades[n].ts \in Nat
  BY <1>1, DropTypes
<1>3. CASE UNCHANGED vars
  BY <1>1, <1>3 DEF vars, window, call, history, DropInv, LeftRightly, Ordered, KeptRightly, Cutoff
<1>4. ASSUME NEW ts \in Timestamps, NEW isBuyerMaker \in BOOLEAN, NEW quantity \in Quantities,
             OnTrade(ts, isBuyerMaker, quantity)
      PROVE  DropInv'
  <2>1. /\ UNCHANGED <<window, history>> /\ pc = "idle" /\ pc' = "evict"
        /\ cutoff' = Cutoff(entry'.ts)
    BY <1>4 DEF OnTrade
  <2>2. KeptRightly'
    BY <2>1 DEF KeptRightly
  <2> QED BY <1>1, <2>1, <2>2, DropCallMoves
<1>5. CASE Evict
  <2>1. pc = "evict" /\ size > 0 /\ ring[head].ts < cutoff /\ PopOldest /\ pc' = pc
    BY <1>5 DEF Evict
  <2>2. PICK old : old = count - size + 1
    OBVIOUS
  <2>3. trades[old].ts < cutoff
    BY <1>1, <2>1, <2>2, HeadIsOldest
  <2>4. LeftRightly(old)'
    BY <2>1, <2>3 DEF LeftRightly, PopOldest, history
  <2> QED BY <1>1, <2>1, <2>2, <2>4, DropOldest
<1>6. CASE EvictDone
  <2>1. /\ pc = "evict" /\ pc' = "room" /\ ~(size > 0 /\ ring[head].ts < cutoff)
        /\ UNCHANGED <<window, history>> /\ entry' = entry /\ cutoff' = cutoff
        /\ count' = count /\ size' = size /\ trades' = trades
    BY <1>6 DEF EvictDone, window, history
  <2>2. ASSUME Ordered', NEW n \in count - size + 1 .. count
        PROVE  trades[n].ts >= cutoff
    <3>1. size > 0 /\ n \in 1 .. count
      BY <1>2, <2>2
    <3>2. /\ ~(trades[count - size + 1].ts < cutoff)
          /\ count - size + 1 \in 1 .. count
      BY <1>1, <2>1, <3>1, HeadIsOldest
    <3>3. \A i, j \in 1 .. count : i <= j => trades[i].ts <= trades[j].ts
      BY <2>1, <2>2 DEF DropInv, Ordered
    <3> DEFINE old == count - size + 1
    <3>4. old \in 1 .. count /\ old <= n /\ ~(trades[old].ts < cutoff)
      BY <1>2, <3>1, <3>2
    <3> HIDE DEF old
    <3>5. trades[old].ts <= trades[n].ts /\ trades[old].ts \in Nat /\ trades[n].ts \in Nat
      BY <1>2, <3>1, <3>3, <3>4
    <3> QED BY <1>2, <3>4, <3>5
  <2>3. (Ordered => KeptRightly)'
    BY <2>1, <2>2 DEF KeptRightly
  <2>4. pc' # "idle" => cutoff' = Cutoff(entry'.ts)
    BY <2>1 DEF DropInv
  <2> QED BY <1>1, <2>1, <2>3, <2>4, DropCallMoves
<1>7. CASE MakeRoom
  <2>1. pc = "room" /\ pc' = "push"
    BY <1>7 DEF MakeRoom
  <2>2. CASE size = Capacity /\ PopOldest
    <3>1. PICK old : old = count - size + 1
      OBVIOUS
    <3>2. size > 0 /\ count + 1 - old >= Capacity
      BY <1>2, <2>2, <3>1
    <3>3. LeftRightly(old)'
      BY <2>1, <2>2, <3>2 DEF LeftRightly, PopOldest, history
    <3> QED BY <1>1, <2>1, <2>2, <3>1, <3>2, <3>3, DropOldest
  <2>3. CASE UNCHANGED <<window, entry, cutoff, history>>
    <3>1. /\ UNCHANGED <<window, history>> /\ entry' = entry /\ cutoff' = cutoff
          /\ count' = count /\ size' = size /\ trades' = trades
      BY <2>3 DEF window, history
    <3>2. (Ordered => KeptRightly)'
      BY <2>1, <3>1 DEF DropInv, Ordered, KeptRightly
    <3>3. pc' # "idle" => cutoff' = Cutoff(entry'.ts)
      BY <2>1, <3>1 DEF DropInv
    <3> QED BY <1>1, <2>1, <3>1, <3>2, <3>3, DropCallMoves
  <2> QED BY <1>7, <2>2, <2>3 DEF MakeRoom
<1>8. CASE Push
  BY <1>1, <1>8, DropPush
<1> QED BY <1>3, <1>4, <1>5, <1>6, <1>7, <1>8 DEF Next

\* Between two calls the window is exactly what it should be.
LEMMA DropInvExact == DropInv => WindowIsExact
<1> SUFFICES ASSUME DropInv, pc = "idle", count > 0, Ordered
             PROVE  InWindow = count - size + 1 .. count
  BY DEF WindowIsExact
<1>1. /\ count \in Nat /\ size \in Nat /\ size <= count /\ size <= Capacity
      /\ Capacity \in Nat \ {0} /\ \A n \in 1 .. count : trades[n].ts \in Nat
  BY DropTypes DEF DropInv
<1>2. ASSUME NEW n \in count - size + 1 .. count
      PROVE  n \in InWindow
  <2>1. n \in 1 .. count /\ n > count - Capacity
    BY <1>1
  <2>2. trades[n].ts >= Cutoff(trades[count].ts)
    BY DEF DropInv, KeptRightly
  <2> QED BY <2>1, <2>2 DEF InWindow
<1>3. ASSUME NEW n \in InWindow, n \notin count - size + 1 .. count
      PROVE  FALSE
  <2>1. n \in 1 .. count /\ n > count - Capacity /\ trades[n].ts >= Cutoff(trades[count].ts)
    BY DEF InWindow
  <2>2. n \in 1 .. count - size /\ ~(count - n >= Capacity)
    BY <1>1, <1>3, <2>1
  <2>3. PICK m \in n + 1 .. count : trades[n].ts < Cutoff(trades[m].ts)
    BY <2>2 DEF DropInv, LeftRightly
  <2>4. m \in 1 .. count /\ count \in 1 .. count /\ m <= count
    BY <1>1, <2>1, <2>3
  <2>5. trades[m].ts <= trades[count].ts
    BY <2>4 DEF DropInv
  <2>6. /\ trades[m].ts \in Nat /\ trades[count].ts \in Nat /\ trades[n].ts \in Nat
    BY <1>1, <2>1, <2>4
  <2>7. /\ Cutoff(trades[m].ts) <= Cutoff(trades[count].ts)
        /\ Cutoff(trades[m].ts) \in Nat /\ Cutoff(trades[count].ts) \in Nat
    BY <2>5, <2>6, CutoffMonotone, CutoffType
  <2> QED BY <2>1, <2>3, <2>6, <2>7
<1>4. \A n \in InWindow : n \in count - size + 1 .. count
  BY <1>3
<1> QED BY <1>2, <1>4

\* A trade only leaves the window because it is too old for a later trade, or
\* because Capacity later trades came: EvictOlderThan and MakeRoom drop no
\* other.
THEOREM TradesDroppedWereOld == Spec => []DroppedWereOld
<1>1. DropInv => DroppedWereOld
  BY DEF DropInv, DroppedWereOld, LeftRightly
<1> QED BY <1>1, InitDropInv, NextDropInv, PTL DEF Spec

\* With timestamps that never go back the window is exactly the trades that are
\* recent and among the last Capacity, so that the sums are their volumes.
THEOREM TradesInWindow == Spec => [](WindowIsExact /\ WindowIsSuffix)
<1>1. DropInv => WindowIsExact /\ WindowIsSuffix
  BY DropInvExact DEF DropInv, IInv
<1> QED BY <1>1, InitDropInv, NextDropInv, PTL DEF Spec

-----------------------------------------------------------------------------
\* What an old trade that is still counted is behind.

\* The oldest trade in the window, or the one that made room before the push, is recent.
HeadShields ==
  /\ pc = "room" => size = 0 \/ trades[count - size + 1].ts >= cutoff
  /\ pc = "push" =>
       \/ size = 0
       \/ trades[count - size + 1].ts >= cutoff
       \/ size = Capacity - 1 /\ count - size \in 1 .. count /\ trades[count - size].ts >= cutoff

\* The inductive invariant, with those of the sums and of what was dropped.
ShieldInv == DropInv /\ HeadShields /\ KeptWereShielded

\* Push puts a trade behind them.
LEMMA ShieldPush ==
  ASSUME DropInv, HeadShields, Push
  PROVE  KeptWereShielded'
<1>1. /\ pc = "push" /\ count' = count + 1 /\ size' = size + 1
      /\ trades' = [trades EXCEPT ![count + 1] = entry]
  BY DEF Push
<1>2. /\ count \in Nat /\ size \in Nat /\ size <= count /\ count < MaxTrades
      /\ Capacity \in Nat \ {0} /\ MaxTrades \in Nat
      /\ trades \in [1 .. MaxTrades -> Entries]
      /\ \A n \in 1 .. count : trades[n].ts \in Nat
      /\ entry.ts \in Nat /\ cutoff \in Nat
  BY <1>1, DropTypes DEF DropInv, IInv
<1>3. (\A n \in 1 .. count : trades'[n] = trades[n]) /\ trades'[count + 1] = entry
  <2>1. \A n \in 1 .. count : n \in 1 .. MaxTrades /\ n # count + 1
    BY <1>2
  <2>2. count + 1 \in 1 .. MaxTrades
    BY <1>2
  <2> QED BY <1>1, <1>2, <2>1, <2>2
<1>4. cutoff = Cutoff(entry.ts) /\ cutoff = Cutoff(trades'[count'].ts)
  BY <1>1, <1>3 DEF DropInv
<1>5. ASSUME NEW n \in count' - size' + 1 .. count', ~(trades'[n].ts >= cutoff)
      PROVE  \E m \in 1 .. n - 1 :
               /\ trades'[m].ts >= cutoff
               /\ m > count' - size' \/ (m = count' - size' /\ size' = Capacity)
  <2>1. n # count + 1
    <3>1. entry.ts >= Cutoff(entry.ts)
      BY <1>2, CutoffType
    <3> QED BY <1>2, <1>3, <1>4, <1>5, <3>1
  <2>2. /\ n \in count - size + 1 .. count /\ n \in 1 .. count /\ size # 0
        /\ count - size + 1 \in 1 .. count /\ ~(trades[n].ts >= cutoff)
    BY <1>1, <1>2, <1>3, <1>5, <2>1
  <2>3. PICK oldest \in 1 .. count : oldest = count - size + 1
    BY <2>2
  <2>4. CASE trades[oldest].ts >= cutoff
    <3>1. oldest # n /\ oldest \in 1 .. n - 1 /\ oldest > count' - size'
      BY <1>1, <1>2, <2>2, <2>3, <2>4
    <3> QED BY <1>3, <2>3, <2>4, <3>1
  <2>5. CASE size = Capacity - 1 /\ count - size \in 1 .. count /\ trades[count - size].ts >= cutoff
    <3>1. PICK last \in 1 .. count : last = count - size
      BY <2>5
    <3>2. last \in 1 .. n - 1 /\ last = count' - size' /\ size' = Capacity
      BY <1>1, <1>2, <2>2, <2>5, <3>1
    <3>3. trades'[last].ts >= cutoff
      BY <1>3, <2>5, <3>1
    <3> QED BY <3>2, <3>3
  <2> QED BY <1>1, <2>2, <2>3, <2>4, <2>5 DEF HeadShields
<1> QED BY <1>4, <1>5 DEF KeptWereShielded, Cutoff

\* Every step keeps the invariant.
THEOREM NextShieldInv == ShieldInv /\ [Next]_vars => ShieldInv'
<1> SUFFICES ASSUME ShieldInv, [Next]_vars PROVE HeadShields' /\ KeptWereShielded'
  BY NextDropInv DEF ShieldInv
<1>1. DropInv /\ IInv /\ HeadShields
  BY DEF ShieldInv, DropInv
<1>2. /\ count \in Nat /\ size \in Nat /\ size <= count /\ size <= Capacity
      /\ Capacity \in Nat \ {0} /\ cutoff \in Nat
      /\ \A n \in 1 .. count : trades[n].ts \in Nat
  BY <1>1, DropTypes
<1>3. CASE UNCHANGED vars
  BY <1>3 DEF vars, window, call, history, ShieldInv, HeadShields, KeptWereShielded, Cutoff
<1>4. CASE pc' = "evict"
  BY <1>4 DEF HeadShields, KeptWereShielded
<1>5. CASE EvictDone
  <2>1. /\ pc' = "room" /\ ~(size > 0 /\ ring[head].ts < cutoff)
        /\ cutoff' = cutoff /\ count' = count /\ size' = size /\ trades' = trades
    BY <1>5 DEF EvictDone, window, history
  <2>2. ASSUME size # 0 PROVE trades[count - size + 1].ts >= cutoff
    <3>1. /\ ~(trades[count - size + 1].ts < cutoff) /\ count - size + 1 \in 1 .. count
      BY <1>1, <1>2, <2>1, <2>2, HeadIsOldest
    <3>2. PICK oldest \in 1 .. count : oldest = count - size + 1
      BY <3>1
    <3>3. trades[oldest].ts \in Nat /\ ~(trades[oldest].ts < cutoff)
      BY <1>2, <3>1, <3>2
    <3> QED BY <1>2, <3>2, <3>3
  <2> QED BY <2>1, <2>2 DEF HeadShields, KeptWereShielded
<1>6. CASE MakeRoom
  <2>1. pc = "room" /\ pc' = "push"
    BY <1>6 DEF MakeRoom
  <2>2. CASE size = Capacity /\ PopOldest
    <3>1. /\ cutoff' = cutoff /\ count' = count /\ size' = size - 1 /\ trades' = trades
      BY <2>2 DEF PopOldest, history
    <3>2. /\ size' = Capacity - 1 /\ count' - size' = count - size + 1
          /\ count' - size' \in 1 .. count'
      BY <1>2, <2>2, <3>1
    <3>3. trades[count - size + 1].ts >= cutoff
      BY <1>1, <1>2, <2>1, <2>2 DEF HeadShields
    <3> QED BY <2>1, <3>1, <3>2, <3>3 DEF HeadShields, KeptWereShielded
  <2>3. CASE UNCHANGED <<window, entry, cutoff, history>>
    BY <1>1, <2>1, <2>3 DEF window, history, HeadShields, KeptWereShielded
  <2> QED BY <1>6, <2>2, <2>3 DEF MakeRoom
<1>7. CASE Push
  <2>1. pc' = "idle" /\ KeptWereShielded'
    BY <1>1, <1>7, ShieldPush DEF Push
  <2> QED BY <2>1 DEF HeadShields
<1> QED BY <1>3, <1>4, <1>5, <1>6, <1>7 DEF Next, OnTrade, Evict

\* Whatever the order of timestamps, a trade older than the window is only still counted
\* behind one that is recent: EvictOlderThan does not stop before.
THEOREM TradesKeptWereShielded == Spec => []KeptWereShielded
<1>1. Init => ShieldInv
  <2> SUFFICES ASSUME Init PROVE HeadShields /\ KeptWereShielded
    BY InitDropInv DEF ShieldInv
  <2>1. pc = "idle" /\ count = 0 /\ size = 0
    BY DEF Init
  <2>2. count - size + 1 .. count = {}
    BY <2>1
  <2> QED BY <2>1, <2>2 DEF HeadShields, KeptWereShielded
<1>2. ShieldInv => KeptWereShielded
  BY DEF ShieldInv
<1> QED BY <1>1, <1>2, NextShieldInv, PTL DEF Spec

-----------------------------------------------------------------------------
\* The sums.

\* The cumulated volumes up to the first of the trades in the window and up to the
\* last differ by the sums of theirs.
LEMMA SumsOfWindow ==
  ASSUME IInv, NEW S, S = count - size + 1 .. count
  PROVE  sumBuy = BuyVolume(S) /\ sumSell = SellVolume(S)
<1>1. /\ count \in 0 .. MaxTrades /\ size \in Nat /\ size <= count /\ MaxTrades \in Nat
      /\ trades \in [1 .. MaxTrades -> Entries]
      /\ cumBuy \in [0 .. MaxTrades -> Nat] /\ cumSell \in [0 .. MaxTrades -> Nat]
  <2>1. TypeOK /\ WindowIsSuffix
    BY DEF IInv
  <2>2. size \in Nat
    BY <2>1, WindowAssumption DEF TypeOK
  <2> QED BY <2>1, <2>2, WindowAssumption DEF TypeOK, WindowIsSuffix
<1>2. PICK m \in Nat \ {0} : m = count - size + 1
  BY <1>1
<1>3. /\ m - 1 = count - size /\ m <= count + 1 /\ S = m .. count
      /\ \A n \in m .. count : n \in 1 .. count /\ n \in 1 .. MaxTrades
      /\ \A n \in m - 1 .. count : n \in 0 .. MaxTrades
  BY <1>1, <1>2
<1>4. /\ \A n \in m - 1 .. count : cumBuy[n] \in Nat /\ cumSell[n] \in Nat
      /\ \A n \in m .. count : trades[n].buy \in Nat /\ trades[n].sell \in Nat
  BY <1>1, <1>3 DEF Entries
<1>5. \A n \in m .. count :
        cumBuy[n] = cumBuy[n - 1] + trades[n].buy /\ cumSell[n] = cumSell[n - 1] + trades[n].sell
  BY <1>3 DEF IInv
<1>6. ASSUME NEW f, NEW cum, f = [n \in S |-> trades[n].buy], cum = cumBuy
      PROVE  SumFunction(f) = cum[count] - cum[m - 1]
  <2>1. /\ DOMAIN f = m .. count /\ \A n \in m - 1 .. count : cum[n] \in Nat
        /\ \A n \in m .. count : f[n] \in Nat /\ cum[n] = cum[n - 1] + f[n]
    BY <1>3, <1>4, <1>5, <1>6
  <2>2. count \in Nat /\ m <= count + 1
    BY <1>1, <1>3
  <2> QED BY <2>1, <2>2, SumOfRun
<1>7. ASSUME NEW f, NEW cum, f = [n \in S |-> trades[n].sell], cum = cumSell
      PROVE  SumFunction(f) = cum[count] - cum[m - 1]
  <2>1. /\ DOMAIN f = m .. count /\ \A n \in m - 1 .. count : cum[n] \in Nat
        /\ \A n \in m .. count : f[n] \in Nat /\ cum[n] = cum[n - 1] + f[n]
    BY <1>3, <1>4, <1>5, <1>7
  <2>2. count \in Nat /\ m <= count + 1
    BY <1>1, <1>3
  <2> QED BY <2>1, <2>2, SumOfRun
<1>8. /\ sumBuy = cumBuy[count] - cumBuy[m - 1]
      /\ sumSell = cumSell[count] - cumSell[m - 1]
  BY <1>3 DEF IInv, WindowIsSuffix
<1>9. sumBuy = BuyVolume(S)
  <2>1. PICK f : f = [n \in S |-> trades[n].buy]
    OBVIOUS
  <2>2. SumFunction(f) = cumBuy[count] - cumBuy[m - 1]
    BY <1>6, <2>1
  <2>3. BuyVolume(S) = SumFunction(f)
    BY <2>1 DEF BuyVolume
  <2> QED BY <1>8, <2>2, <2>3
<1>10. sumSell = SellVolume(S)
  <2>1. PICK f : f = [n \in S |-> trades[n].sell]
    OBVIOUS
  <2>2. SumFunction(f) = cumSell[count] - cumSell[m - 1]
    BY <1>7, <2>1
  <2>3. SellVolume(S) = SumFunction(f)
    BY <2>1 DEF SellVolume
  <2> QED BY <1>8, <2>2, <2>3
<1> QED BY <1>9, <1>10

\* What AggressiveBuyVolume and AggressiveSellVolume return between two calls of
\* OnTrade, when timestamps never go back, are the volumes of exactly the trades that
\* are recent and among the last Capacity.
THEOREM VolumesExact == Spec => []VolumesAreExact
<1>1. DropInv => VolumesAreExact
  <2> SUFFICES ASSUME DropInv, pc = "idle", count > 0, Ordered
               PROVE  sumBuy = BuyVolume(InWindow) /\ sumSell = SellVolume(InWindow)
    BY DEF VolumesAreExact, Ordered
  <2>1. IInv /\ InWindow = count - size + 1 .. count
    BY DropInvExact DEF DropInv, WindowIsExact
  <2> QED BY <2>1, SumsOfWindow
<1> QED BY <1>1, InitDropInv, NextDropInv, PTL DEF Spec

=============================================================================
