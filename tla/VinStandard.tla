---------------------------- MODULE VinStandard -----------------------------
(***************************************************************************)
(* What the VinValidator is held to: ISO 3779, from the order of the       *)
(* alphabet instead of the tables of the code.  The letters count from 1   *)
(* to 9 over and over, S begins again at 2; the weights fall by one with   *)
(* the place, 8 to 2, then 10, 0, then 9 to 2.                             *)
(***************************************************************************)
EXTENDS VinEntry

Alphabet == <<"A", "B", "C", "D", "E", "F", "G", "H", "I", "J", "K", "L", "M",
              "N", "O", "P", "Q", "R", "S", "T", "U", "V", "W", "X", "Y", "Z">>
Numerals == <<"0", "1", "2", "3", "4", "5", "6", "7", "8", "9">>

IndexIn(s, order) == CHOOSE n \in DOMAIN order : order[n] = s

StandardValue ==
    [s \in Digits \cup Letters |->
        IF s \in Digits THEN IndexIn(s, Numerals) - 1
        ELSE LET n == IndexIn(s, Alphabet)
             IN IF n < 19 THEN ((n - 1) % 9) + 1 ELSE (n % 9) + 1]

StandardWeight(i) ==
    CASE i < 8 -> 9 - i [] i = 8 -> 10 [] i = 9 -> 0 [] i > 9 -> 19 - i

StandardSum(vin) ==
    LET sum[n \in 0 .. 17] ==
            IF n = 0 THEN 0
            ELSE sum[n - 1] + StandardWeight(n) * StandardValue[vin[n].symbol]
    IN sum[17]

StandardVin(vin) ==
    /\ Len(vin) = 17
    /\ \A i \in Places : vin[i].symbol \in (Digits \cup Letters) \ {"I", "O", "Q"}
    /\ vin[9].symbol =
          LET r == StandardSum(vin) % 11 IN IF r = 10 THEN "X" ELSE Numerals[r + 1]

(***************************************************************************)
(* validate accepts what ISO 3779 calls a VIN with a right check digit,    *)
(* and nothing else; get_validation_error has no complaint about the same  *)
(* texts.  In particular the "X" that calculate_check_digit returns for an *)
(* unknown character lets nothing through (vin_validator.cpp:10,14,70).    *)
(***************************************************************************)
AcceptsStandardVins ==
    /\ Validate(typed) <=> StandardVin(typed)
    /\ GetValidationError(typed) = "" <=> StandardVin(typed)
=============================================================================
