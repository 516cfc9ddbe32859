----------------------------- MODULE MCVinEntry -----------------------------
(* A small instance of VinEntry. *)
EXTENDS VinStandard

Upper(symbols) == [i \in DOMAIN symbols |-> [symbol |-> symbols[i], lower |-> FALSE]]

\* Two VINs of test_vin_validator.cpp:16-17; the check digits are X and 1.
MCMeant == {Upper(<<"1", "H", "G", "B", "H", "4", "1", "J", "X",
                    "M", "N", "1", "0", "9", "1", "8", "6">>),
            Upper([i \in 1 .. 17 |-> "1"])}

\* Light and heavy symbols, twins of one value, the letters that are
\* excluded, in both cases, and a mark.
MCTypeable ==
    [symbol : {"0", "1", "8", "H", "J", "Q", "W", "X", "Z"}, lower : {FALSE}]
    \cup [symbol : {"I", "Z"}, lower : {TRUE}]
    \cup [symbol : Mark, lower : {FALSE}]
=============================================================================
