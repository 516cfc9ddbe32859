------------------------------ MODULE VinEntry ------------------------------
(***************************************************************************)
(* A VIN on its way from the plate of a vehicle to the service: somebody   *)
(* reads it off and types it, and slips while typing.  The slips are the   *)
(* environment; what they do to the verdict of the VinValidator is what    *)
(* the check digit is for.                                                 *)
(***************************************************************************)
EXTENDS VinValidator

CONSTANTS
    Meant,       \* the VINs on the plates
    Typeable,    \* the characters at hand
    MaxSlips     \* bound on the slips in one entry

ASSUME EntryAssumption ==
    /\ Meant \subseteq Seq(Char)
    /\ Typeable \subseteq Char
    /\ MaxSlips \in Nat

VARIABLES
    typed,    \* what the VIN field holds
    slips     \* the slips so far
evars == <<typed, slips>>

Init == typed \in Meant /\ slips = 0

Slip == slips < MaxSlips /\ slips' = slips + 1

Replaced(vin, i, c) == [vin EXCEPT ![i] = c]

Swapped(vin, i) == [vin EXCEPT ![i] = vin[i + 1], ![i + 1] = vin[i]]

\* One character typed for another.
Substitute(i, c) == Slip /\ i \in DOMAIN typed /\ typed' = Replaced(typed, i, c)

\* Two neighbours typed in the wrong order.
Swap(i) == Slip /\ i + 1 \in DOMAIN typed /\ typed' = Swapped(typed, i)

\* A character left out.
Omit(i) ==
    /\ Slip /\ i \in DOMAIN typed
    /\ typed' = SubSeq(typed, 1, i - 1) \o SubSeq(typed, i + 1, Len(typed))

\* A character typed twice.
Repeat(i) ==
    /\ Slip /\ i \in DOMAIN typed
    /\ typed' = SubSeq(typed, 1, i) \o SubSeq(typed, i, Len(typed))

\* The whole entry typed in the other case.
OtherCase ==
    /\ Slip
    /\ typed' = [i \in DOMAIN typed |->
                   [typed[i] EXCEPT !.lower = typed[i].symbol \in Letters /\ ~@]]

Next ==
    \/ \E i \in Places, c \in Typeable : Substitute(i, c)
    \/ \E i \in Places : Swap(i) \/ Omit(i) \/ Repeat(i)
    \/ OtherCase

Spec == Init /\ [][Next]_evars

-----------------------------------------------------------------------------
\* The field holds characters, whatever the slips (used by the proofs only).
FieldOK == typed \in Seq(Char) /\ slips \in 0 .. MaxSlips

\* What a verdict cannot tell apart at a place: the check digit has to be
\* the symbol itself, anything else has to have its value.
SameWeight(i, old, new) ==
    /\ new \in VinSymbols
    /\ IF i = CheckDigitPosition THEN new = old ELSE ValueOf(new) = ValueOf(old)

(***************************************************************************)
(* One character typed for another in a VIN the validator accepts: the     *)
(* result is accepted just when the new character may stand in a VIN and   *)
(* weighs the same, and at the place of the check digit just when it is    *)
(* the same symbol (vin_validator.cpp:43-80).                              *)
(***************************************************************************)
SubstitutionVerdict ==
    [][\A i \in Places :
        Validate(typed) /\ (\E c \in Typeable : typed' = Replaced(typed, i, c)) =>
            (Validate(typed') <=> SameWeight(i, typed[i].symbol, typed'[i].symbol))]_evars

(***************************************************************************)
(* Two neighbours swapped in an accepted VIN, neither of them the check    *)
(* digit: the result is accepted just when both weigh the same, the jump   *)
(* of the weights from 2 to 10 at the eighth place included.               *)
(***************************************************************************)
SwapVerdict ==
    [][\A i \in Places \ {CheckDigitPosition - 1, CheckDigitPosition, VinLength} :
        Validate(typed) /\ typed' = Swapped(typed, i) =>
            (Validate(typed') <=>
                ValueOf(typed[i].symbol) = ValueOf(typed[i + 1].symbol))]_evars

=============================================================================
