--------------------------- MODULE VinEntryProofs ---------------------------
(***************************************************************************)
(* What the check digit of VinValidator detects, proved for every text:    *)
(* TLC enters a few VINs, these theorems hold for all of them; and that it *)
(* is the check digit of the standard.                                     *)
(***************************************************************************)
EXTENDS VinStandard, TLAPS

\* Texts of the right length and alphabet: what reaches the weighted sum.
WellFormed(vin) ==
    vin \in Seq(Char) /\ Len(vin) = VinLength /\ \A i \in Places : vin[i].symbol \in VinSymbols

LEMMA ValueType == ASSUME NEW s \in VinSymbols PROVE ValueOf(s) \in 0 .. 9
BY DEF VinSymbols, Letters, Digits, ExcludedChars, ValueOf

LEMMA WeightType ==
    ASSUME NEW i \in Places
    PROVE  /\ Weights[i] \in 0 .. 10
           /\ i # CheckDigitPosition => Weights[i] \in 2 .. 10
           /\ i = CheckDigitPosition => Weights[i] = 0
BY DEF Places, VinLength, CheckDigitPosition, Weights

LEMMA TermType ==
    ASSUME NEW vin, WellFormed(vin), NEW i \in Places
    PROVE  Term(vin, i) \in 0 .. 90
<1>1. Weights[i] \in 0 .. 10 /\ ValueOf(vin[i].symbol) \in 0 .. 9
  BY WeightType, ValueType DEF WellFormed
<1>2. ASSUME NEW w \in 0 .. 10, NEW v \in 0 .. 9 PROVE w * v \in 0 .. 90
  BY <1>2, SMT
<1> QED BY <1>1, <1>2 DEF Term

LEMMA DigitsDiffer ==
    ASSUME NEW r \in 0 .. 10, NEW q \in 0 .. 10, DigitOf(r) = DigitOf(q)
    PROVE  r = q
BY DEF DigitOf

\* A change of the sum that is no multiple of 11 changes the check digit.
LEMMA DigitChanges ==
    ASSUME NEW s \in Int, NEW w \in -10 .. 10, NEW d \in -9 .. 9, w # 0, d # 0
    PROVE  DigitOf(s % 11) # DigitOf((s + w * d) % 11)
<1>1. \A k \in -10 .. 10, e \in -9 .. 9 :
        k # 0 /\ e # 0 => k * e \in -90 .. 90 /\ (k * e) % 11 # 0
  <2>1. \A e \in -9 .. 9, k \in 1 .. 10 : e # 0 =>
          k * e \in -90 .. 90 /\ (k * e) % 11 # 0
    BY SMT
  <2>2. \A e \in -9 .. 9, k \in -10 .. -1 : e # 0 =>
          k * e \in -90 .. 90 /\ (k * e) % 11 # 0
    BY SMT
  <2> QED BY <2>1, <2>2
<1>2. \A e \in -90 .. 90 : e % 11 # 0 =>
        s % 11 \in 0 .. 10 /\ (s + e) % 11 \in 0 .. 10 /\ s % 11 # (s + e) % 11
  BY SMT
<1> QED BY <1>1, <1>2, DigitsDiffer

LEMMA TotalType ==
    ASSUME NEW t \in [Places -> Int]
    PROVE  Total(t) \in Int
BY DEF Total, Places, VinLength

\* Only the places that change make a difference to a sum.
LEMMA TotalOfOneChange ==
    ASSUME NEW t \in [Places -> Int], NEW i \in Places, NEW x \in Int
    PROVE  Total([t EXCEPT ![i] = x]) = Total(t) + (x - t[i])
BY DEF Total, Places, VinLength

LEMMA TotalOfTwoChanges ==
    ASSUME NEW t \in [Places -> Int], NEW u \in [Places -> Int],
           NEW i \in Places, NEW j \in Places, i # j,
           \A k \in Places \ {i, j} : u[k] = t[k]
    PROVE  Total(u) = Total(t) + (u[i] - t[i]) + (u[j] - t[j])
<1> DEFINE m == [t EXCEPT ![i] = u[i]]
<1>1. m \in [Places -> Int] /\ m[j] = t[j] /\ u = [m EXCEPT ![j] = u[j]]
  OBVIOUS
<1>2. Total(m) = Total(t) + (u[i] - t[i])
  BY TotalOfOneChange
<1> HIDE DEF m
<1>3. Total([m EXCEPT ![j] = u[j]]) = Total(m) + (u[j] - m[j])
  BY <1>1, TotalOfOneChange
<1>4. Total(t) \in Int /\ Total(m) \in Int /\ t[i] \in Int /\ t[j] \in Int
  BY <1>1, TotalType
<1> QED BY <1>1, <1>2, <1>3, <1>4

-----------------------------------------------------------------------------
Terms(vin) == [k \in Places |-> Term(vin, k)]

LEMMA TermsType ==
    ASSUME NEW vin, WellFormed(vin)
    PROVE  Terms(vin) \in [Places -> Int] /\ WeightedSum(vin) = Total(Terms(vin))
BY TermType DEF Terms, WeightedSum

\* An accepted text is well-formed, and a well-formed one is accepted when
\* its ninth symbol is the digit of its sum.
LEMMA AcceptedIsWellFormed ==
    ASSUME NEW vin \in Seq(Char), Validate(vin)
    PROVE  WellFormed(vin)
BY DEF Validate, CheckLength, CheckCharset, WellFormed, Places, VinLength, VinSymbols

LEMMA AcceptedByDigit ==
    ASSUME NEW vin, WellFormed(vin)
    PROVE  Validate(vin) <=>
              DigitOf(Total(Terms(vin)) % 11) = vin[CheckDigitPosition].symbol
<1>1. CheckLength(vin) /\ CheckCharset(vin)
  BY DEF CheckLength, CheckCharset, WellFormed, Places, VinLength, VinSymbols
<1>2. CalculateCheckDigit(vin) = DigitOf(Total(Terms(vin)) % 11)
  BY TermsType DEF CalculateCheckDigit, WellFormed
<1> QED BY <1>1, <1>2 DEF Validate, CheckDigit, WellFormed

LEMMA Distribute ==
    \A w \in -10 .. 10, a \in 0 .. 9, b \in 0 .. 9 :
        w * b - w * a = w * (b - a) /\ w * a \in Int /\ w * b \in Int
BY SMT

\* The verdict on a text that differs from an accepted one in one character.
LEMMA VerdictOnReplaced ==
    ASSUME NEW vin \in Seq(Char), Validate(vin), NEW i \in Places, NEW c \in Char
    PROVE  Validate(Replaced(vin, i, c)) <=> SameWeight(i, vin[i].symbol, c.symbol)
<1> DEFINE new == Replaced(vin, i, c)
<1> DEFINE old == vin[i].symbol
<1>1. WellFormed(vin)
  BY AcceptedIsWellFormed
<1>2. /\ new \in Seq(Char) /\ Len(new) = VinLength
      /\ new[i] = c /\ \A k \in Places \ {i} : new[k] = vin[k]
  BY <1>1 DEF WellFormed, Replaced, Places
<1>3. CASE c.symbol \notin VinSymbols
  <2>1. ~Validate(new)
    BY <1>2, <1>3, AcceptedIsWellFormed DEF WellFormed
  <2> QED BY <2>1, <1>3 DEF SameWeight
<1>4. CASE c.symbol \in VinSymbols
  <2> DEFINE w == Weights[i]
             a == ValueOf(old)
             b == ValueOf(c.symbol)
  <2>1. WellFormed(new)
    BY <1>1, <1>2, <1>4 DEF WellFormed
  <2>2. a \in 0 .. 9 /\ b \in 0 .. 9 /\ w \in 0 .. 10
    BY <1>1, <1>4, ValueType, WeightType DEF WellFormed
  <2>3. Terms(new) = [Terms(vin) EXCEPT ![i] = w * b] /\ Terms(vin)[i] = w * a
    BY <1>2 DEF Terms, Term
  <2>4. Terms(vin) \in [Places -> Int] /\ Total(Terms(vin)) \in Int
    BY <1>1, TermsType, TotalType
  <2> HIDE DEF new, a, b, w
  <2>5. Total(Terms(new)) = Total(Terms(vin)) + w * (b - a)
    <3>1. w * b - w * a = w * (b - a) /\ w * b \in Int
      BY <2>2, Distribute
    <3>2. Total([Terms(vin) EXCEPT ![i] = w * b])
            = Total(Terms(vin)) + (w * b - Terms(vin)[i])
      BY <2>4, <3>1, TotalOfOneChange
    <3> QED BY <2>3, <3>1, <3>2
  <2>6. DigitOf(Total(Terms(vin)) % 11) = vin[CheckDigitPosition].symbol
    BY <1>1, AcceptedByDigit
  <2>7. Validate(new) <=>
          DigitOf(Total(Terms(new)) % 11) = new[CheckDigitPosition].symbol
    BY <2>1, AcceptedByDigit
  <2>8. CASE i = CheckDigitPosition
    <3>1. w = 0 /\ w * (b - a) = 0
      BY <2>8, <2>2, WeightType DEF w
    <3>2. Total(Terms(new)) = Total(Terms(vin))
      BY <2>4, <2>5, <3>1
    <3>3. new[CheckDigitPosition] = c /\ vin[CheckDigitPosition].symbol = old
      BY <1>2, <2>8
    <3> QED BY <1>4, <2>6, <2>7, <2>8, <3>2, <3>3 DEF SameWeight, new
  <2>9. CASE i # CheckDigitPosition
    <3>1. new[CheckDigitPosition] = vin[CheckDigitPosition]
      BY <1>2, <2>9 DEF CheckDigitPosition, Places, VinLength
    <3>2. SameWeight(i, old, c.symbol) <=> a = b
      BY <1>4, <2>9 DEF SameWeight, a, b
    <3>3. CASE a = b
      <4>1. w * (b - a) = 0
        BY <2>2, <3>3
      <4>2. Total(Terms(new)) = Total(Terms(vin))
        BY <2>4, <2>5, <4>1
      <4> QED BY <2>6, <2>7, <3>1, <3>2, <3>3, <4>2 DEF new
    <3>4. CASE a # b
      <4>1. w \in -10 .. 10 /\ w # 0 /\ b - a \in -9 .. 9 /\ b - a # 0
        BY <2>2, <2>9, <3>4, WeightType DEF w
      <4>2. DigitOf(Total(Terms(vin)) % 11) # DigitOf(Total(Terms(new)) % 11)
        BY <2>4, <2>5, <4>1, DigitChanges
      <4> QED BY <2>6, <2>7, <3>1, <3>2, <3>4, <4>2 DEF new
    <3> QED BY <3>3, <3>4
  <2> QED BY <2>8, <2>9 DEF new
<1> QED BY <1>3, <1>4

\* Neighbours weigh differently, and never by a multiple of 11.
LEMMA NeighbourWeights ==
    ASSUME NEW i \in Places \ {CheckDigitPosition - 1, CheckDigitPosition, VinLength}
    PROVE  Weights[i] - Weights[i + 1] \in -10 .. 10 /\ Weights[i] # Weights[i + 1]
<1>1. i \in {1, 2, 3, 4, 5, 6, 7, 10, 11, 12, 13, 14, 15, 16}
  BY DEF Places, VinLength, CheckDigitPosition
<1>2. Weights[i] \in {1 + Weights[i + 1], Weights[i + 1] - 8} /\ Weights[i + 1] \in 2 .. 10
  BY <1>1 DEF Weights
<1> QED BY <1>2

\* The verdict on an accepted text with two neighbours swapped.
LEMMA VerdictOnSwapped ==
    ASSUME NEW vin \in Seq(Char), Validate(vin),
           NEW i \in Places \ {CheckDigitPosition - 1, CheckDigitPosition, VinLength}
    PROVE  Validate(Swapped(vin, i)) <=>
              ValueOf(vin[i].symbol) = ValueOf(vin[i + 1].symbol)
<1> DEFINE j == i + 1
           new == Swapped(vin, i)
           a == ValueOf(vin[i].symbol)
           b == ValueOf(vin[j].symbol)
           w == Weights[i]
           v == Weights[j]
<1>1. WellFormed(vin)
  BY AcceptedIsWellFormed
<1>2. i \in Places /\ j \in Places /\ i # j /\ j # CheckDigitPosition
  BY DEF Places, VinLength, CheckDigitPosition
<1>3. /\ new \in Seq(Char) /\ Len(new) = VinLength
      /\ new[i] = vin[j] /\ new[j] = vin[i]
      /\ \A k \in Places \ {i, j} : new[k] = vin[k]
  BY <1>1, <1>2 DEF WellFormed, Swapped, Places
<1>4. WellFormed(new)
  BY <1>1, <1>2, <1>3 DEF WellFormed
<1>5. a \in 0 .. 9 /\ b \in 0 .. 9 /\ w \in 0 .. 10 /\ v \in 0 .. 10
  BY <1>1, <1>2, ValueType, WeightType DEF WellFormed
<1>6. w - v \in -10 .. 10 /\ w # v
  BY NeighbourWeights
<1>7. /\ Terms(new)[i] = w * b /\ Terms(new)[j] = v * a
      /\ Terms(vin)[i] = w * a /\ Terms(vin)[j] = v * b
      /\ \A k \in Places \ {i, j} : Terms(new)[k] = Terms(vin)[k]
  BY <1>2, <1>3 DEF Terms, Term
<1>8. /\ Terms(vin) \in [Places -> Int] /\ Total(Terms(vin)) \in Int
      /\ Terms(new) \in [Places -> Int]
  BY <1>1, <1>4, TermsType, TotalType
<1>9. DigitOf(Total(Terms(vin)) % 11) = vin[CheckDigitPosition].symbol
  BY <1>1, AcceptedByDigit
<1>10. Validate(new) <=>
         DigitOf(Total(Terms(new)) % 11) = new[CheckDigitPosition].symbol
  BY <1>4, AcceptedByDigit
<1>11. new[CheckDigitPosition] = vin[CheckDigitPosition]
  BY <1>2, <1>3 DEF CheckDigitPosition, Places, VinLength
<1> HIDE DEF new, a, b, w, v, j
<1>12. Total(Terms(new)) = Total(Terms(vin)) + (w - v) * (b - a)
  <2>1. /\ w * b - w * a = w * (b - a) /\ v * b - v * a = v * (b - a)
        /\ w * a \in Int /\ w * b \in Int /\ v * a \in Int /\ v * b \in Int
    BY <1>5, Distribute
  <2>2. w * (b - a) - v * (b - a) = (w - v) * (b - a) /\ (w - v) * (b - a) \in Int
    BY <1>5, SMT
  <2>3. Total(Terms(new)) = Total(Terms(vin))
          + (Terms(new)[i] - Terms(vin)[i]) + (Terms(new)[j] - Terms(vin)[j])
    BY <1>2, <1>7, <1>8, TotalOfTwoChanges
  <2> QED BY <1>7, <1>8, <2>1, <2>2, <2>3
<1>13. CASE a = b
  <2>1. (w - v) * (b - a) = 0
    BY <1>5, <1>13
  <2> QED BY <1>8, <1>9, <1>10, <1>11, <1>12, <1>13, <2>1 DEF new, a, b, j
<1>14. CASE a # b
  <2>1. w - v \in -10 .. 10 /\ w - v # 0 /\ b - a \in -9 .. 9 /\ b - a # 0
    BY <1>5, <1>6, <1>14
  <2>2. DigitOf(Total(Terms(vin)) % 11) # DigitOf(Total(Terms(new)) % 11)
    BY <1>8, <1>12, <2>1, DigitChanges
  <2> QED BY <1>9, <1>10, <1>11, <1>14, <2>2 DEF new, a, b, j
<1> QED BY <1>13, <1>14

-----------------------------------------------------------------------------
LEMMA SlipsType ==
    ASSUME FieldOK, [Next]_evars
    PROVE  FieldOK'
<1> SUFFICES ASSUME Next PROVE FieldOK'
  BY DEF FieldOK, evars
<1>1. ASSUME NEW i \in Places, NEW c \in Typeable, Substitute(i, c) PROVE FieldOK'
  BY <1>1, EntryAssumption DEF FieldOK, Substitute, Slip, Replaced
<1>2. ASSUME NEW i \in Places, Swap(i) PROVE FieldOK'
  <2>1. i \in 1 .. Len(typed) /\ i + 1 \in 1 .. Len(typed)
    BY <1>2 DEF FieldOK, Swap, Places, VinLength
  <2>2. typed[i] \in Char /\ typed[i + 1] \in Char
    BY <2>1 DEF FieldOK
  <2>3. typed' \in Seq(Char)
    BY <1>2, <2>1, <2>2 DEF FieldOK, Swap, Swapped
  <2> QED BY <1>2, <2>3, EntryAssumption DEF FieldOK, Swap, Slip
<1>3. ASSUME NEW i \in Places, Omit(i) PROVE FieldOK'
  <2>1. SubSeq(typed, 1, i - 1) \in Seq(Char) /\ SubSeq(typed, i + 1, Len(typed)) \in Seq(Char)
    BY <1>3 DEF FieldOK, Omit, Places, VinLength
  <2> QED BY <1>3, <2>1, EntryAssumption DEF FieldOK, Omit, Slip
<1>4. ASSUME NEW i \in Places, Repeat(i) PROVE FieldOK'
  <2>1. SubSeq(typed, 1, i) \in Seq(Char) /\ SubSeq(typed, i, Len(typed)) \in Seq(Char)
    BY <1>4 DEF FieldOK, Repeat, Places, VinLength
  <2> QED BY <1>4, <2>1, EntryAssumption DEF FieldOK, Repeat, Slip
<1>5. ASSUME OtherCase PROVE FieldOK'
  <2>1. \A i \in DOMAIN typed : typed[i] \in Char
    BY DEF FieldOK
  <2>2. \A c \in Char : [c EXCEPT !.lower = c.symbol \in Letters /\ ~c.lower] \in Char
    BY DEF Char
  <2>3. typed' \in [1 .. Len(typed) -> Char]
    BY <1>5, <2>1, <2>2 DEF FieldOK, OtherCase
  <2>4. typed' \in Seq(Char)
    BY <2>3 DEF FieldOK
  <2> QED BY <1>5, <2>4, EntryAssumption DEF FieldOK, OtherCase, Slip
<1> QED BY <1>1, <1>2, <1>3, <1>4, <1>5 DEF Next

(***************************************************************************)
(* Whatever is typed, the field holds a text of characters.                *)
(***************************************************************************)
LEMMA FieldHoldsText == Spec => []FieldOK
<1>1. Init => FieldOK
  BY EntryAssumption DEF Init, FieldOK
<1>2. FieldOK /\ [Next]_evars => FieldOK'
  BY SlipsType
<1> QED BY <1>1, <1>2, PTL DEF Spec

(***************************************************************************)
(* For every VIN and every character: one substituted character passes     *)
(* just when it has the weight of the one it replaces.                     *)
(***************************************************************************)
THEOREM SubstitutionIsJudged == Spec => SubstitutionVerdict
<1>1. ASSUME FieldOK, NEW i \in Places, NEW c \in Typeable, Validate(typed),
             typed' = Replaced(typed, i, c)
      PROVE  Validate(typed') <=> SameWeight(i, typed[i].symbol, typed'[i].symbol)
  <2>1. typed'[i] = c
    BY <1>1, AcceptedIsWellFormed DEF FieldOK, WellFormed, Replaced, Places
  <2> QED BY <1>1, <2>1, VerdictOnReplaced, EntryAssumption DEF FieldOK
<1>2. FieldOK => \A i \in Places :
        Validate(typed) /\ (\E c \in Typeable : typed' = Replaced(typed, i, c)) =>
            (Validate(typed') <=> SameWeight(i, typed[i].symbol, typed'[i].symbol))
  BY <1>1
<1> QED BY <1>2, FieldHoldsText, PTL DEF SubstitutionVerdict

(***************************************************************************)
(* For every VIN: two swapped neighbours pass just when they weigh the     *)
(* same, unless one of them is the check digit.                            *)
(***************************************************************************)
THEOREM SwapIsJudged == Spec => SwapVerdict
<1>1. FieldOK => \A i \in Places \ {CheckDigitPosition - 1, CheckDigitPosition, VinLength} :
        Validate(typed) /\ typed' = Swapped(typed, i) =>
            (Validate(typed') <=>
                ValueOf(typed[i].symbol) = ValueOf(typed[i + 1].symbol))
  BY VerdictOnSwapped DEF FieldOK
<1> QED BY <1>1, FieldHoldsText, PTL DEF SwapVerdict
-----------------------------------------------------------------------------
(* The tables and the loop of the code against the standard.               *)

LEMMA IndexInNumerals ==
    ASSUME NEW n \in 1 .. 10
    PROVE  IndexIn(Numerals[n], Numerals) = n
<1>1. \A m \in DOMAIN Numerals : Numerals[m] = Numerals[n] => m = n
  BY DEF Numerals
<1>2. n \in DOMAIN Numerals
  BY DEF Numerals
<1> QED BY <1>1, <1>2 DEF IndexIn

LEMMA IndexInAlphabet ==
    ASSUME NEW n \in 1 .. 26
    PROVE  IndexIn(Alphabet[n], Alphabet) = n
<1>1. \A m \in DOMAIN Alphabet : Alphabet[m] = Alphabet[n] => m = n
  BY DEF Alphabet
<1>2. n \in DOMAIN Alphabet
  BY DEF Alphabet
<1> QED BY <1>1, <1>2 DEF IndexIn

\* The transliteration table is the count through the alphabet.
LEMMA ValuesAreStandard ==
    ASSUME NEW s \in VinSymbols
    PROVE  StandardValue[s] = ValueOf(s)
<1>1. CASE s \in Digits
  <2>1. PICK n \in 1 .. 10 : s = Numerals[n] /\ ValueOf(s) = n - 1
    <3>1. \E n \in 1 .. 10 : s = Numerals[n]
      BY <1>1 DEF Digits, Numerals
    <3>2. \A n \in 1 .. 10 : ValueOf(Numerals[n]) = n - 1
      BY DEF Numerals, ValueOf
    <3> QED BY <3>1, <3>2
  <2>2. IndexIn(s, Numerals) = n
    BY <2>1, IndexInNumerals
  <2> QED BY <1>1, <2>1, <2>2 DEF StandardValue
<1>2. CASE s \notin Digits
  <2> DEFINE rank(n) == IF n < 19 THEN ((n - 1) % 9) + 1 ELSE (n % 9) + 1
  <2>1. PICK n \in 1 .. 26 : s = Alphabet[n] /\ ValueOf(s) = rank(n)
    <3>1. PICK n \in 1 .. 26 \ {9, 15, 17} : s = Alphabet[n]
      BY <1>2 DEF VinSymbols, Letters, ExcludedChars, Alphabet
    <3>2. \A m \in 1 .. 18 \ {9, 15, 17} : ValueOf(Alphabet[m]) = ((m - 1) % 9) + 1
      <4>1. \A m \in 1 .. 8 : ValueOf(Alphabet[m]) = m /\ ((m - 1) % 9) + 1 = m
        BY DEF Alphabet, ValueOf
      <4>2. \A m \in {10, 11, 12, 13, 14, 16, 18} : ValueOf(Alphabet[m]) = m - 9
        BY DEF Alphabet, ValueOf
      <4>3. \A m \in {10, 11, 12, 13, 14, 16, 18} : ((m - 1) % 9) + 1 = m - 9
        OBVIOUS
      <4> QED BY <4>1, <4>2, <4>3
    <3>3. \A m \in 19 .. 26 : ValueOf(Alphabet[m]) = (m % 9) + 1
      BY DEF Alphabet, ValueOf
    <3> QED BY <3>1, <3>2, <3>3
  <2>2. IndexIn(s, Alphabet) = n
    BY <2>1, IndexInAlphabet
  <2>3. s \in Letters
    BY <1>2 DEF VinSymbols
  <2> QED BY <1>2, <2>1, <2>2, <2>3 DEF StandardValue
<1> QED BY <1>1, <1>2

LEMMA WeightsAreStandard ==
    ASSUME NEW i \in Places
    PROVE  StandardWeight(i) = Weights[i]
BY DEF Places, VinLength, StandardWeight, Weights

\* A running sum, as the standard and the loop take it.
IsRunningSum(f, t) == f = [n \in 0 .. 17 |-> IF n = 0 THEN 0 ELSE f[n - 1] + t[n]]

LEMMA RunningSumExists ==
    ASSUME NEW t \in [Places -> Int]
    PROVE  \E f : IsRunningSum(f, t)
<1> DEFINE upto(n) == [i \in Places |-> IF i <= n THEN t[i] ELSE 0]
           g == [n \in 0 .. 17 |-> Total(upto(n))]
<1>1. \A n \in 0 .. 17 : upto(n) \in [Places -> Int]
  BY DEF Places, VinLength
<1>2. Total(upto(0)) = 0
  BY DEF Total, Places, VinLength
<1>3. ASSUME NEW n \in 1 .. 17 PROVE Total(upto(n)) = Total(upto(n - 1)) + t[n]
  <2>1. n \in Places /\ n - 1 \in 0 .. 17 /\ t[n] \in Int
    BY DEF Places, VinLength
  <2>2. upto(n - 1) \in [Places -> Int] /\ upto(n - 1)[n] = 0
    BY <1>1, <2>1
  <2>3. upto(n) = [upto(n - 1) EXCEPT ![n] = t[n]]
    <3>1. \A i \in Places : (i <= n <=> i <= n - 1 \/ i = n)
      BY DEF Places, VinLength
    <3> QED BY <3>1
  <2> HIDE DEF upto
  <2>4. Total(upto(n)) = Total(upto(n - 1)) + (t[n] - 0)
    BY <2>1, <2>2, <2>3, TotalOfOneChange
  <2> QED BY <2>1, <2>2, <2>4, TotalType
<1> HIDE DEF upto
<1>4. \A n \in 0 .. 17 : g[n] = IF n = 0 THEN 0 ELSE g[n - 1] + t[n]
  BY <1>2, <1>3
<1>5. IsRunningSum(g, t)
  BY <1>4 DEF IsRunningSum
<1> QED BY <1>5

LEMMA RunningSumIsTotal ==
    ASSUME NEW t \in [Places -> Int], NEW f, IsRunningSum(f, t)
    PROVE  f[17] = Total(t)
<1>1. f[0] = 0 /\ \A n \in 1 .. 17 : f[n] = f[n - 1] + t[n]
  BY DEF IsRunningSum
<1>2. \A n \in Places : t[n] \in Int
  OBVIOUS
<1>3. f[4] = t[1] + t[2] + t[3] + t[4]
  BY <1>1, <1>2 DEF Places, VinLength
<1>4. f[8] = f[4] + t[5] + t[6] + t[7] + t[8] /\ f[4] \in Int
  BY <1>1, <1>2, <1>3 DEF Places, VinLength
<1>5. f[12] = f[8] + t[9] + t[10] + t[11] + t[12] /\ f[8] \in Int
  BY <1>1, <1>2, <1>4 DEF Places, VinLength
<1>6. f[17] = f[12] + t[13] + t[14] + t[15] + t[16] + t[17] /\ f[12] \in Int
  BY <1>1, <1>2, <1>5 DEF Places, VinLength
<1> QED BY <1>2, <1>3, <1>4, <1>5, <1>6 DEF Total, Places, VinLength

\* The sum of the standard is the sum of the code.
LEMMA SumsAgree ==
    ASSUME NEW vin, WellFormed(vin)
    PROVE  StandardSum(vin) = WeightedSum(vin)
<1> DEFINE t == Terms(vin)
           Step(f) == [n \in 0 .. 17 |-> IF n = 0 THEN 0
                          ELSE f[n - 1] + StandardWeight(n) * StandardValue[vin[n].symbol]]
<1>1. \A n \in 1 .. 17 : StandardWeight(n) * StandardValue[vin[n].symbol] = t[n]
  BY ValuesAreStandard, WeightsAreStandard DEF WellFormed, Terms, Term, Places, VinLength
<1>2. StandardSum(vin) = (CHOOSE f : f = Step(f))[17]
  BY DEF StandardSum
<1>3. \A f : f = Step(f) <=> IsRunningSum(f, t)
  BY <1>1 DEF IsRunningSum
<1>4. t \in [Places -> Int] /\ WeightedSum(vin) = Total(t)
  BY TermsType
<1>5. \E f : f = Step(f)
  BY <1>3, <1>4, RunningSumExists
<1> DEFINE chosen == CHOOSE f : f = Step(f)
<1>6. chosen = Step(chosen)
  BY <1>5
<1> QED BY <1>2, <1>3, <1>4, <1>6, RunningSumIsTotal

\* A text is accepted just when the standard calls it a VIN.
LEMMA StandardVerdict ==
    ASSUME NEW vin \in Seq(Char)
    PROVE  Validate(vin) <=> StandardVin(vin)
<1>1. CASE ~ WellFormed(vin)
  <2>1. ~ Validate(vin)
    BY <1>1, AcceptedIsWellFormed
  <2>2. ~ StandardVin(vin)
    BY <1>1 DEF StandardVin, WellFormed, VinLength, VinSymbols, ExcludedChars
  <2> QED BY <2>1, <2>2
<1>2. CASE WellFormed(vin)
  <2> DEFINE r == Total(Terms(vin)) % 11
  <2>1. StandardSum(vin) % 11 = r
    BY <1>2, SumsAgree, TermsType
  <2>2. DigitOf(r) = IF r = 10 THEN "X" ELSE Numerals[r + 1]
    BY DEF DigitOf, Numerals
  <2>3. Validate(vin) <=> DigitOf(r) = vin[9].symbol
    BY <1>2, AcceptedByDigit DEF CheckDigitPosition
  <2>4. /\ Len(vin) = 17
        /\ \A i \in Places : vin[i].symbol \in (Digits \cup Letters) \ {"I", "O", "Q"}
    BY <1>2 DEF WellFormed, VinLength, VinSymbols, ExcludedChars
  <2> HIDE DEF r
  <2>5. StandardVin(vin) <=> vin[9].symbol = IF r = 10 THEN "X" ELSE Numerals[r + 1]
    BY <2>1, <2>4 DEF StandardVin
  <2> QED BY <2>2, <2>3, <2>5
<1> QED BY <1>1, <1>2

(***************************************************************************)
(* For every text somebody may have typed: validate accepts it just when   *)
(* it is a VIN of the standard with a right check digit, and               *)
(* get_validation_error has no complaint just then.                        *)
(***************************************************************************)
THEOREM StandardIsMet == Spec => []AcceptsStandardVins
<1>1. FieldOK => AcceptsStandardVins
  <2>1. GetValidationError(typed) = "" <=> Validate(typed)
    BY DEF GetValidationError, Validate
  <2> QED BY <2>1, StandardVerdict DEF FieldOK, AcceptsStandardVins
<1> QED BY <1>1, FieldHoldsText, PTL
=============================================================================
