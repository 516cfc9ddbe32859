------------------------- MODULE ProvServiceClaims -------------------------
(***************************************************************************)
(* What the documentation says of ProvService and the code does not do:    *)
(* each claim is the subject of a run that ends with a counterexample.     *)
(***************************************************************************)
EXTENDS ProvServiceProps

(***************************************************************************)
(* README.md:8, api.md:118: an authorized rewrite replaces the VIN of a    *)
(* provisioned vehicle.  With a sound disk it would never be a write       *)
(* failure; but nothing lifts the write protection that the first          *)
(* successful write_vin has set, and establish_binding is refused.         *)
(***************************************************************************)
AuthorizedRewriteIsWritten ==
    \A p \in Process :
        ~(call[p].op = "authorize_rewrite" /\ call[p].answer = "VIN_WRITE_FAILED")

(***************************************************************************)
(* api.md:139, PROV-1005: a vehicle bound to one VIN keeps it when another *)
(* VIN is written without authorization.  write_vin never compares the     *)
(* VINs and leaves that to the protection flag, which is set only after    *)
(* the binding is complete.                                                *)
(***************************************************************************)
BoundVinNeedsAuthorization ==
    [][Bound(bindingFile) /\ bindingFile' # bindingFile
         /\ IsBinding(bindingFile') /\ bindingFile'.vin # bindingFile.vin =>
            \E p \in Process : call[p].op = "authorize_rewrite"]_vars

(***************************************************************************)
(* implementation-summary.md:107-108: VIN and ECU UID are the idempotency  *)
(* key, sending them again does not bind again.  establish_binding goes    *)
(* back to VIN_WRITTEN and counts a rewrite.                               *)
(***************************************************************************)
ResendKeepsBinding ==
    [][Bound(bindingFile) /\ IsBinding(bindingFile')
         /\ bindingFile'.vin = bindingFile.vin /\ bindingFile'.uid = bindingFile.uid =>
            bindingFile' = bindingFile]_vars

(***************************************************************************)
(* api.md:137, PROV-1003: a failed VIN write can be retried, so a line     *)
(* that keeps sending is acknowledged in the end.  A process that dies     *)
(* between the protection file and the answer leaves a sealed store that   *)
(* answers every retry with PROV-1003 for ever.                            *)
(***************************************************************************)
FailedWriteCanBeRetried ==
    (\E p \in Process : call[p].op = "write_vin" /\ call[p].answer = "VIN_WRITE_FAILED")
        ~> acked # Absent
=============================================================================
