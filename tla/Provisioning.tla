---------------------------- MODULE Provisioning ----------------------------
(***************************************************************************)
(* What provisioning promises: a VIN is written, bound, sealed, and the    *)
(* VIN the service has acknowledged stays the VIN of the vehicle.  Before  *)
(* the seal any VIN may replace the current one; after it nothing changes. *)
(***************************************************************************)
CONSTANTS
    Vin,          \* the VINs that may be written
    NoVin,        \* no VIN
    SealFirst     \* the VIN is acknowledged only once it is sealed

VARIABLES vin, state, sealed, promised
pvars == <<vin, state, sealed, promised>>

Init ==
    /\ \/ vin = NoVin /\ state = "NONE"
       \/ vin \in Vin /\ state = "BOUND"
    /\ sealed = FALSE
    /\ promised = NoVin

Put(v) ==
    /\ ~sealed
    /\ vin' = v
    /\ state' = "VIN_WRITTEN"
    /\ UNCHANGED <<sealed, promised>>

Bind ==
    /\ ~sealed
    /\ state = "VIN_WRITTEN"
    /\ state' = "BOUND"
    /\ UNCHANGED <<vin, sealed, promised>>

Seal ==
    /\ ~sealed
    /\ state = "BOUND"
    /\ sealed' = TRUE
    /\ UNCHANGED <<vin, state, promised>>

Promise ==
    /\ state = "BOUND"
    /\ SealFirst => sealed
    /\ promised' = vin
    /\ UNCHANGED <<vin, state, sealed>>

Next == (\E v \in Vin : Put(v)) \/ Bind \/ Seal \/ Promise

Spec == Init /\ [][Next]_pvars
=============================================================================
