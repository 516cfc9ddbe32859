-------------------------- MODULE ProvServiceProps --------------------------
(***************************************************************************)
(* The properties of ProvService: what is checked by TLC on small          *)
(* instances, and proved in ProvServiceProofs.                             *)
(***************************************************************************)
EXTENDS ProvService

\* The steps between the first read of execute_vin_binding_flow and its answer.
BindingLabels ==
    {"establish", "saveWritten", "saveBound", "verify", "protect", "finish"}

Ops == WriteOps \cup QueryOps \cup {"none"}
Args == Vin \cup Coding \cup Info \cup {Absent}
Answers == Codes \cup Vin \cup {Absent, "none", "pending", "NONE", "VIN_WRITTEN", "BOUND"}

\* A running call has the local data its next step uses: the binding of
\* establish_binding, the coding that the stored one is compared with.
LocalsOK ==
    \A p \in Process :
        /\ pc[p] \in BindingLabels =>
              draft[p] \in VehicleBinding /\ draft[p].state = "VIN_WRITTEN"
        /\ pc[p] \in {"readConfig", "markVerified"} => call[p].arg \in Coding

(***************************************************************************)
(* Every variable has its type, the files those of types.h with the        *)
(* counter in its range, and every running call its local data.            *)
(***************************************************************************)
TypeOK ==
    /\ bindingFile \in VehicleBinding \cup {Absent, Torn}
    /\ configFile \in VehicleConfig \cup {Absent, Torn}
    /\ infoFile \in Info \cup {Absent, Torn}
    /\ protectionFile \in {Absent, Torn, "1"}
    /\ pc \in [Process -> Labels]
    /\ initialized \in [Process -> BOOLEAN]
    /\ writeProtected \in [Process -> BOOLEAN]
    /\ shuttingDown \in [Process -> BOOLEAN]
    /\ call \in [Process -> [op : Ops, arg : Args, answer : Answers]]
    /\ draft \in [Process -> VehicleBinding \cup {Absent}]
    /\ acked \in Vin \cup {Absent}
    /\ LocalsOK

-----------------------------------------------------------------------------
(* Processes that take turns at the store.                                 *)

BoundDraft(p) == [draft[p] EXCEPT !.state = "BOUND"]

(***************************************************************************)
(* The cached flag of an initialized storage is at least as closed as the  *)
(* protection file, at every point of every call, across restarts: what    *)
(* the checks of protected_storage.cpp:57,92,127 rely on.                  *)
(***************************************************************************)
FlagFollowsFile ==
    \A p \in Process : initialized[p] /\ protectionFile = "1" => writeProtected[p]

\* A running call is a call of an initialized service, and past its first
\* save the storage was open.
CallsAreAdmitted ==
    \A p \in Process :
        /\ pc[p] \notin {"down", "idle"} => initialized[p]
        /\ pc[p] \in {"saveBound", "verify", "protect"} => ~writeProtected[p]

\* What the binding file holds while establish_binding and verify_write run.
BindingInFlight ==
    \A p \in Process :
        /\ pc[p] = "saveBound" => bindingFile \in {Torn, draft[p]}
        /\ pc[p] = "verify" => bindingFile \in {Torn, BoundDraft(p)}
        /\ pc[p] \in {"protect", "finish"} => bindingFile = BoundDraft(p)
        /\ pc[p] = "finish" /\ EnableWriteProtection => writeProtected[p]

(***************************************************************************)
(* The store is sealed only around a complete binding: protection "1" and  *)
(* a binding that is missing, cut short or still VIN_WRITTEN never come    *)
(* together, whatever fails and wherever the process dies.                 *)
(***************************************************************************)
SealedMeansBound == protectionFile = "1" => Bound(bindingFile)

\* What a running call relies on, on any disk.
FlightInv == CallsAreAdmitted /\ BindingInFlight

SealInv ==
    /\ FlagFollowsFile
    /\ FlightInv
    /\ SealedMeansBound

\* Between the seal and the answer nothing has reopened the store.
FinishIsSealed ==
    \A p \in Process :
        pc[p] = "finish" /\ EnableWriteProtection => protectionFile = "1"

(***************************************************************************)
(* A VIN that write_vin or authorize_rewrite answered with SUCCESS is kept *)
(* for good: the store is sealed and still holds a complete binding of     *)
(* that VIN after every later call, failure, crash and restart.            *)
(***************************************************************************)
AckedVinKept ==
    EnableWriteProtection /\ acked # Absent =>
        /\ protectionFile = "1"
        /\ Bound(bindingFile)
        /\ bindingFile.vin = acked

(***************************************************************************)
(* Once the protection file says "1", no step of any call, no start and no *)
(* crash changes any of the four files.                                    *)
(***************************************************************************)
FrozenOnceProtected == [][protectionFile = "1" => UNCHANGED files]_vars

(***************************************************************************)
(* While the file keeps one VIN, each rewrite of it is counted exactly     *)
(* once, by the save that begins it; completing it changes no count, and   *)
(* neither do failures, crashes and retries (prov_service.cpp:513-527).    *)
(***************************************************************************)
RewritesAreCounted ==
    [][IsBinding(bindingFile) /\ IsBinding(bindingFile')
         /\ bindingFile' # bindingFile /\ bindingFile'.vin = bindingFile.vin =>
            bindingFile'.rewriteCount =
                IF bindingFile'.state = "VIN_WRITTEN"
                THEN (bindingFile.rewriteCount + 1) % CountMod
                ELSE bindingFile.rewriteCount]_vars

(***************************************************************************)
(* An initialized service that has acknowledged a VIN answers read_vin     *)
(* with that VIN, in the same process and after restarts.                  *)
(***************************************************************************)
AckedVinIsRead ==
    [][\A p \in Process :
        EnableWriteProtection /\ acked # Absent /\ initialized[p]
          /\ call' # call /\ pc[p] = "idle" /\ call'[p].op = "read_vin"
            => call'[p].answer = acked]_vars

-----------------------------------------------------------------------------
(* What SUCCESS says about the store at the moment it is answered.         *)

Succeeds(p, ops) ==
    /\ call[p].op \in ops /\ call[p].answer = "pending"
    /\ call'[p].answer = "SUCCESS"

(***************************************************************************)
(* SUCCESS of write_vin or authorize_rewrite: the file holds a complete    *)
(* binding of the VIN of this call, whatever the disk did meanwhile.       *)
(***************************************************************************)
VinSuccessIsStored ==
    [][\A p \in Process : Succeeds(p, BindingOps) =>
        Bound(bindingFile') /\ bindingFile'.vin = call[p].arg]_vars

(***************************************************************************)
(* SUCCESS of write_production_info: the file holds that info.             *)
(***************************************************************************)
InfoSuccessIsStored ==
    [][\A p \in Process : Succeeds(p, {"write_production_info"}) =>
        infoFile' = call[p].arg]_vars

(***************************************************************************)
(* SUCCESS of write_vehicle_config: the file holds that coding.  Two saves *)
(* stand behind it and only the first is read back, so this needs a disk   *)
(* that does not cut files short.                                          *)
(***************************************************************************)
ConfigSuccessIsStored ==
    [][\A p \in Process : Succeeds(p, {"write_vehicle_config"}) =>
        configFile' \notin {Absent, Torn} /\ configFile'.coding = call[p].arg]_vars

(***************************************************************************)
(* The protection file turns to "1" only over a complete binding whose VIN *)
(* is the one the sealing call was asked to write: no fault makes a call   *)
(* seal somebody else's VIN or an incomplete binding.                      *)
(***************************************************************************)
SealsItsOwnVin ==
    [][protectionFile # "1" /\ protectionFile' = "1" =>
        \E p \in Process :
            /\ pc[p] = "protect" /\ Bound(bindingFile)
            /\ bindingFile.vin = call[p].arg]_vars

(***************************************************************************)
(* Sealed is provisioned: once the protection file says "1" the only       *)
(* SUCCESS a write may still be answered with is that of the call that     *)
(* sealed the store.  A rewrite, a coding or an info is refused ever after *)
(* or fails, and no save whose result is not looked at, like the second of *)
(* write_vehicle_config, reports a success that never reached the file.    *)
(***************************************************************************)
SealEndsWriting ==
    [][\A p \in Process : protectionFile = "1" /\ Succeeds(p, WriteOps) =>
        acked = Absent /\ pc[p] = "finish"]_vars

-----------------------------------------------------------------------------
(* The service implements the abstract provisioning.                       *)

Promised == INSTANCE Provisioning WITH
    NoVin <- Absent,
    SealFirst <- EnableWriteProtection,
    vin <- IF IsBinding(bindingFile) THEN bindingFile.vin ELSE Absent,
    state <- IF IsBinding(bindingFile) THEN bindingFile.state ELSE "NONE",
    sealed <- protectionFile = "1",
    promised <- acked

(***************************************************************************)
(* Every behaviour of the service is one of Provisioning: a save is a Put  *)
(* or a Bind, the protection file the Seal, the SUCCESS answer a Promise,  *)
(* and every other step, failure, crash and restart leaves it alone.       *)
(***************************************************************************)
RefinesProvisioning == Promised!Spec

\* A call that takes more than one step is a write; queries answer at once.
LifeOf(p) == INSTANCE ServiceLife WITH
    MayCrash <- "crash" \in Faults,
    status <- IF pc[p] \in {"down", "idle"} THEN pc[p] ELSE "write",
    initialized <- initialized[p],
    shuttingDown <- shuttingDown[p]

(***************************************************************************)
(* Each service lives as ServiceLife has it, the module ProvApplication    *)
(* implements for the connection threads: no write begins uninitialized or *)
(* after beginShutdown, and only a crash ends a service under a call.      *)
(***************************************************************************)
LivesAsPromised ==
    /\ \A p \in Process : LifeOf(p)!Init
    /\ [][\A p \in Process : LifeOf(p)!Next \/ UNCHANGED LifeOf(p)!life]_vars

-----------------------------------------------------------------------------
(* Progress.                                                               *)

\* A step that neither fails nor is refused.
Proceed(p, label) ==
    pc[p] = label /\ Step(p) /\ call'[p].answer \in {"pending", "SUCCESS"}

(***************************************************************************)
(* systemd restarts a daemon that failed and the next power-up one that    *)
(* was stopped, an orderly shutdown completes, a call that runs takes its  *)
(* steps; no fault and no crash hits the same step every time; and the     *)
(* production line keeps sending VINs.                                     *)
(***************************************************************************)
Fairness ==
    \A p \in Process :
        /\ WF_vars(ProcessStart(p))
        /\ WF_vars(shuttingDown[p] /\ Stop(p))
        /\ WF_vars(Step(p))
        /\ SF_vars(~shuttingDown[p] /\ Initialize(p) /\ initialized'[p])
        /\ SF_vars(\E v \in ValidVin : WriteVin(p, v) /\ pc'[p] = "establish")
        /\ \A label \in BindingLabels : SF_vars(Proceed(p, label))

FairSpec == Spec /\ Fairness

(***************************************************************************)
(* A production line that keeps sending VINs ends with a bound and sealed  *)
(* vehicle, although any step may fail or be cut by a crash many times.    *)
(***************************************************************************)
EventuallySealed ==
    EnableWriteProtection => <>[](protectionFile = "1" /\ Bound(bindingFile))
=============================================================================
