---------------------------- MODULE VinValidator ----------------------------
(***************************************************************************)
(* VinValidator: which texts pass for a VIN.  A character is its upper     *)
(* case form and whether it was typed in lower case, so that std::toupper  *)
(* reads the symbol.  Bytes outside ASCII are no letters in the C locale   *)
(* the program runs in and count as Marks.                                 *)
(***************************************************************************)
EXTENDS Integers, Sequences

CONSTANT Mark    \* characters that are neither letters nor digits

Letters == {"A", "B", "C", "D", "E", "F", "G", "H", "I", "J", "K", "L", "M",
            "N", "O", "P", "Q", "R", "S", "T", "U", "V", "W", "X", "Y", "Z"}
Digits == {"0", "1", "2", "3", "4", "5", "6", "7", "8", "9"}

ASSUME MarkAssumption == Mark \cap (Letters \cup Digits) = {}

Char ==
    {c \in [symbol : Letters \cup Digits \cup Mark, lower : BOOLEAN] :
        c.lower => c.symbol \in Letters}

VinLength == 17
CheckDigitPosition == 9
ExcludedChars == {"I", "O", "Q"}

\* The places of a VIN and the characters that may stand there.
Places == 1 .. VinLength
VinSymbols == (Letters \cup Digits) \ ExcludedChars

CheckLength(vin) == Len(vin) = VinLength

\* Slip: a letter that is typed in lower case is not looked up.
CharsetOfUpperCase(vin) ==
    \A i \in DOMAIN vin :
        /\ vin[i].symbol \in Letters \cup Digits
        /\ vin[i].lower \/ vin[i].symbol \notin ExcludedChars

CheckCharset(vin) ==
    \A i \in DOMAIN vin :
        /\ vin[i].symbol \in Letters \cup Digits
        /\ vin[i].symbol \notin ExcludedChars

-----------------------------------------------------------------------------
(* The check digit: a weighted sum modulo 11.                              *)

\* Slip: the letters count on through the alphabet without its gaps.
RunningValue(s) ==
    CASE s \in {"A", "J", "S", "1"} -> 1
      [] s \in {"B", "K", "T", "2"} -> 2
      [] s \in {"C", "L", "U", "3"} -> 3
      [] s \in {"D", "M", "V", "4"} -> 4
      [] s \in {"E", "N", "W", "5"} -> 5
      [] s \in {"F", "X", "6"} -> 6
      [] s \in {"G", "P", "Y", "7"} -> 7
      [] s \in {"H", "Z", "8"} -> 8
      [] s \in {"R", "9"} -> 9
      [] s = "0" -> 0

ValueOf(s) ==
    CASE s \in {"A", "J", "1"} -> 1
      [] s \in {"B", "K", "S", "2"} -> 2
      [] s \in {"C", "L", "T", "3"} -> 3
      [] s \in {"D", "M", "U", "4"} -> 4
      [] s \in {"E", "N", "V", "5"} -> 5
      [] s \in {"F", "W", "6"} -> 6
      [] s \in {"G", "P", "X", "7"} -> 7
      [] s \in {"H", "Y", "8"} -> 8
      [] s \in {"R", "Z", "9"} -> 9
      [] s = "0" -> 0

\* Slips: the first weight is 11; the seventh is 3.
WeightsFromEleven == <<11, 7, 6, 5, 4, 3, 2, 10, 0, 9, 8, 7, 6, 5, 4, 3, 2>>
WeightsEven == <<8, 7, 6, 5, 4, 3, 3, 10, 0, 9, 8, 7, 6, 5, 4, 3, 2>>

Weights == <<8, 7, 6, 5, 4, 3, 2, 10, 0, 9, 8, 7, 6, 5, 4, 3, 2>>

Term(vin, i) == Weights[i] * ValueOf(vin[i].symbol)

\* Written out: behind a fold of the library the prover sees no sum.
Total(t) ==
    t[1] + t[2] + t[3] + t[4] + t[5] + t[6] + t[7] + t[8] + t[9]
    + t[10] + t[11] + t[12] + t[13] + t[14] + t[15] + t[16] + t[17]

WeightedSum(vin) == Total([i \in Places |-> Term(vin, i)])

DigitOf(remainder) ==
    IF remainder = 10 THEN "X"
    ELSE <<"0", "1", "2", "3", "4", "5", "6", "7", "8", "9">>[remainder + 1]

\* An unknown character gives "X" too, which is a check digit as well.
CalculateCheckDigit(vin) ==
    IF \E i \in Places : vin[i].symbol \notin VinSymbols
    THEN "X"
    ELSE DigitOf(WeightedSum(vin) % 11)

CheckDigit(vin) ==
    /\ Len(vin) = VinLength
    /\ CalculateCheckDigit(vin) = vin[CheckDigitPosition].symbol

\* Slip: the check digit alone is trusted.
ValidateDigit(vin) == CheckDigit(vin)

Validate(vin) == CheckLength(vin) /\ CheckCharset(vin) /\ CheckDigit(vin)

\* Slip: the last check forgets to report.
ErrorOfCharset(vin) ==
    IF ~CheckLength(vin) THEN "length"
    ELSE IF ~CheckCharset(vin) THEN "charset"
    ELSE ""

GetValidationError(vin) ==
    IF ~CheckLength(vin) THEN "length"
    ELSE IF ~CheckCharset(vin) THEN "charset"
    ELSE IF ~CheckDigit(vin) THEN "check digit"
    ELSE ""
=============================================================================
