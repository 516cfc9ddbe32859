---------------------------- MODULE ProvService ----------------------------
(***************************************************************************)
(* The provisioning service on top of its protected storage.               *)
(*                                                                         *)
(* A process runs one ProvService; its mutex lets one call at a time run,  *)
(* so a call is a sequence of steps of its process, one per access to the  *)
(* store.  The daemon and every invocation of prov_cli are processes of    *)
(* their own: only the files are common to them, and nothing in the code   *)
(* keeps two of them apart.  Whether whoever runs them does is TakeTurns.  *)
(* A process may die between any two steps and start again.                *)
(***************************************************************************)
EXTENDS Store, UidProvider

CONSTANTS
    Process,                \* the processes that open the store
    TakeTurns,              \* none of them is started while another runs
    Vin,                    \* the VINs that are asked for
    ValidVin,               \* those VinValidator::validate accepts
    Coding,                 \* variant codings
    Info,                   \* production infos, their time stamp left out
    LegacyVin,              \* VINs of locked snapshots an older release left
    EnableWriteProtection,  \* storage.enable_write_protection
    CountMod                \* rewrite_count wraps at it, 2^32 in the code

ASSUME ServiceAssumption ==
    /\ TakeTurns \in BOOLEAN
    /\ ValidVin \subseteq Vin
    /\ LegacyVin \subseteq Vin
    /\ EnableWriteProtection \in BOOLEAN
    /\ CountMod \in Nat \ {0}

VehicleBinding ==
    [vin : Vin, uid : Uid, state : {"VIN_WRITTEN", "BOUND"}, locked : BOOLEAN,
     rewriteCount : 0 .. CountMod - 1]

VehicleConfig == [coding : Coding, verified : BOOLEAN]

\* No saved value is mistaken for a missing or for a torn file.
ASSUME FileAssumption ==
    \A nothing \in {Absent, Torn} :
        /\ nothing \notin VehicleBinding
        /\ nothing \notin VehicleConfig
        /\ nothing \notin Info
        /\ nothing \notin Vin
        /\ nothing # "1"

VARIABLES
    bindingFile,     \* the file under the key "binding"
    configFile,      \* ... "config"
    infoFile,        \* ... "production_info"
    protectionFile,  \* ... "protection"
    pc,              \* where the call of each process stands
    initialized,     \* initialized_
    writeProtected,  \* ProtectedStorageImpl::write_protected_
    shuttingDown,    \* shutting_down_
    call,            \* the call of each process: its argument and its answer
    draft,           \* the local VehicleBinding of the running call
    acked            \* history: the VIN last answered with SUCCESS

files == <<bindingFile, configFile, infoFile, protectionFile>>
vars == <<files, pc, initialized, writeProtected, shuttingDown, call, draft, acked>>

Labels == {"down", "idle", "establish", "saveWritten", "saveBound", "verify",
           "protect", "finish", "readConfig", "markVerified", "readInfo"}

BindingOps == {"write_vin", "authorize_rewrite"}
QueryOps == {"read_vin", "get_provision_state"}
WriteOps == BindingOps \cup {"write_vehicle_config", "write_production_info"}
Codes == {"SUCCESS", "INVALID_STATE", "INVALID_VIN_FORMAT", "VIN_WRITE_FAILED",
          "READBACK_VERIFICATION_FAILED", "VIN_CONFLICT_UNAUTHORIZED", "STORAGE_ERROR",
          "SECURITY_ACCESS_NOT_GRANTED", "CONFIG_WRITE_FAILED",
          "PRODUCTION_INFO_WRITE_FAILED", "SE_UID_READ_FAILED",
          "SE_MISSING_CONFIG_NOT_FOUND", "SE_MISSING_PRODUCTION_FAIL_CLOSED"}

NoCall == [op |-> "none", arg |-> Absent, answer |-> "none"]

\* What the binding file, or a load of it, says.
IsBinding(file) == file \notin {Absent, Torn}
Bound(file) == IsBinding(file) /\ file.state = "BOUND"

LegacyBinding(v, uid) ==
    [vin |-> v, uid |-> uid, state |-> "BOUND", locked |-> TRUE, rewriteCount |-> 0]

Init ==
    /\ bindingFile \in {Absent} \cup {LegacyBinding(v, u) : v \in LegacyVin, u \in Uid}
    /\ configFile = Absent
    /\ infoFile = Absent
    /\ protectionFile = Absent
    /\ pc = [p \in Process |-> "down"]
    /\ initialized = [p \in Process |-> FALSE]
    /\ writeProtected = [p \in Process |-> FALSE]
    /\ shuttingDown = [p \in Process |-> FALSE]
    /\ call = [p \in Process |-> NoCall]
    /\ draft = [p \in Process |-> Absent]
    /\ acked = Absent

-----------------------------------------------------------------------------
(* The steps of a call.                                                    *)

Goto(p, label) == pc' = [pc EXCEPT ![p] = label]

Begin(p, op, arg, label) ==
    /\ Goto(p, label)
    /\ call' = [call EXCEPT ![p] = [op |-> op, arg |-> arg, answer |-> "pending"]]

\* The call answers at once and takes no further step.
Answer(p, op, arg, answer) ==
    /\ Goto(p, "idle")
    /\ call' = [call EXCEPT ![p] = [op |-> op, arg |-> arg, answer |-> answer]]

Return(p, answer) ==
    /\ Goto(p, "idle")
    /\ call' = [call EXCEPT ![p].answer = answer]
    /\ draft' = [draft EXCEPT ![p] = Absent]

\* Slip: the check of the flag left out.
UnguardedWrite(p, old, new) == Save(old, new)

\* A write of ProtectedStorageImpl: refused while the cached flag is set.
ProtectedWrite(p, old, new) ==
    IF writeProtected[p] THEN {Outcome(FALSE, old)} ELSE Save(old, new)

\* Slip: a service that is shutting down still accepts writes.
RefusesUninitialized(p) == ~initialized[p]

\* The early returns every write begins with.
Refuses(p) == ~initialized[p] \/ shuttingDown[p]

-----------------------------------------------------------------------------
(* The life of a process.                                                  *)

ProcessStart(p) ==
    /\ pc[p] = "down"
    /\ TakeTurns => \A q \in Process : pc[q] = "down"
    /\ Goto(p, "idle")
    /\ UNCHANGED <<files, initialized, writeProtected, shuttingDown, call, draft, acked>>

\* Slips: the file is not consulted; a missing file counts as locked.
ProtectionForgotten(loaded) == FALSE
ProtectionByDefault(loaded) == loaded # "0"

\* The flag a storage takes over from the file: anything but "1" is open.
ProtectionFrom(loaded) == loaded = "1"

Initialize(p) ==
    /\ pc[p] = "idle"
    /\ ~initialized[p]
    /\ \E ok \in Initializes, loaded \in Load(protectionFile) :
        /\ initialized' = [initialized EXCEPT ![p] = ok]
        /\ writeProtected' = [writeProtected EXCEPT ![p] = ok /\ ProtectionFrom(loaded)]
    /\ UNCHANGED <<files, pc, shuttingDown, call, draft, acked>>

BeginShutdown(p) ==
    /\ pc[p] # "down"
    /\ shuttingDown' = [shuttingDown EXCEPT ![p] = TRUE]
    /\ UNCHANGED <<files, pc, initialized, writeProtected, call, draft, acked>>

Forget(p) ==
    /\ Goto(p, "down")
    /\ initialized' = [initialized EXCEPT ![p] = FALSE]
    /\ writeProtected' = [writeProtected EXCEPT ![p] = FALSE]
    /\ shuttingDown' = [shuttingDown EXCEPT ![p] = FALSE]
    /\ call' = [call EXCEPT ![p] = NoCall]
    /\ draft' = [draft EXCEPT ![p] = Absent]
    /\ UNCHANGED <<files, acked>>

\* An orderly stop waits for the running call, a crash does not.
Stop(p) == pc[p] = "idle" /\ Forget(p)

Crash(p) == "crash" \in Faults /\ pc[p] # "down" /\ Forget(p)

-----------------------------------------------------------------------------
(* write_vin and authorize_rewrite: execute_vin_binding_flow.              *)

\* Slip: the binding is marked complete before its first save.
NewBindingBound(v, uid) ==
    [vin |-> v, uid |-> uid, state |-> "BOUND", locked |-> FALSE, rewriteCount |-> 0]

NewBinding(v, uid) ==
    [vin |-> v, uid |-> uid, state |-> "VIN_WRITTEN", locked |-> FALSE, rewriteCount |-> 0]

BeginBindingFlow(p, op, v) ==
    \E read \in ReadUidDetailed :
        \/ /\ read.uid = NoUid
           /\ Answer(p, op, v, read.code)
           /\ UNCHANGED draft
        \/ /\ read.uid # NoUid
           /\ Begin(p, op, v, "establish")
           /\ draft' = [draft EXCEPT ![p] = NewBinding(v, read.uid)]

\* authorize_rewrite: a locked binding of another VIN stays.
Conflicts(v, existing) == IsBinding(existing) /\ existing.locked /\ existing.vin # v

RefuseVin(p, op, v) ==
    /\ \/ Refuses(p) /\ Answer(p, op, v, "INVALID_STATE")
       \/ ~Refuses(p) /\ v \notin ValidVin /\ Answer(p, op, v, "INVALID_VIN_FORMAT")
    /\ UNCHANGED draft

WriteVin(p, v) ==
    /\ pc[p] = "idle"
    /\ \/ RefuseVin(p, "write_vin", v)
       \/ ~Refuses(p) /\ v \in ValidVin /\ BeginBindingFlow(p, "write_vin", v)
    /\ UNCHANGED <<files, initialized, writeProtected, shuttingDown, acked>>

AuthorizeRewrite(p, v) ==
    /\ pc[p] = "idle"
    /\ \/ RefuseVin(p, "authorize_rewrite", v)
       \/ /\ ~Refuses(p) /\ v \in ValidVin
          /\ \E existing \in Load(bindingFile) :
              \/ /\ Conflicts(v, existing)
                 /\ Answer(p, "authorize_rewrite", v, "VIN_CONFLICT_UNAUTHORIZED")
                 /\ UNCHANGED draft
              \/ /\ ~Conflicts(v, existing)
                 /\ BeginBindingFlow(p, "authorize_rewrite", v)
    /\ UNCHANGED <<files, initialized, writeProtected, shuttingDown, acked>>

\* Slips: no rewrite counts on; the counter is wider than it is stored.
CountRestarts(existing, v) == 0

CountUnbounded(existing, v) ==
    IF IsBinding(existing) /\ existing.vin = v THEN existing.rewriteCount + 1 ELSE 0

\* A rewrite of the same VIN counts on, another VIN starts again.
CountAfter(existing, v) ==
    IF IsBinding(existing) /\ existing.vin = v
    THEN (existing.rewriteCount + 1) % CountMod
    ELSE 0

ReadExisting(p) ==
    /\ pc[p] = "establish"
    /\ \E existing \in Load(bindingFile) :
        draft' = [draft EXCEPT ![p].rewriteCount = CountAfter(existing, draft[p].vin)]
    /\ Goto(p, "saveWritten")
    /\ UNCHANGED <<files, initialized, writeProtected, shuttingDown, call, acked>>

WriteBinding(p, binding, next) ==
    /\ \E write \in ProtectedWrite(p, bindingFile, binding) :
        /\ bindingFile' = write.file
        /\ \/ write.ok /\ Goto(p, next) /\ UNCHANGED <<call, draft>>
           \/ ~write.ok /\ Return(p, "VIN_WRITE_FAILED")
    /\ UNCHANGED <<configFile, infoFile, protectionFile,
                   initialized, writeProtected, shuttingDown, acked>>

SaveVinWritten(p) ==
    pc[p] = "saveWritten" /\ WriteBinding(p, draft[p], "saveBound")

SaveBound(p) ==
    pc[p] = "saveBound" /\ WriteBinding(p, [draft[p] EXCEPT !.state = "BOUND"], "verify")

\* Slips: no read-back; no protection after it.
VerifiesNothing(stored, v) == TRUE
AfterVerifyOpen == "finish"

\* The read-back looks at the VIN alone.
Verifies(stored, v) == IsBinding(stored) /\ stored.vin = v

AfterVerify == IF EnableWriteProtection THEN "protect" ELSE "finish"

VerifyWrite(p) ==
    /\ pc[p] = "verify"
    /\ \E stored \in Load(bindingFile) :
        \/ Verifies(stored, draft[p].vin) /\ Goto(p, AfterVerify) /\ UNCHANGED <<call, draft>>
        \/ ~Verifies(stored, draft[p].vin) /\ Return(p, "READBACK_VERIFICATION_FAILED")
    /\ UNCHANGED <<files, initialized, writeProtected, shuttingDown, acked>>

\* The only write no flag refuses; the cached flag follows the file.
SetWriteProtection(p) ==
    /\ pc[p] = "protect"
    /\ \E write \in Save(protectionFile, "1") :
        /\ protectionFile' = write.file
        /\ writeProtected' = [writeProtected EXCEPT ![p] = @ \/ write.ok]
        /\ \/ write.ok /\ Goto(p, "finish") /\ UNCHANGED <<call, draft>>
           \/ ~write.ok /\ Return(p, "STORAGE_ERROR")
    /\ UNCHANGED <<bindingFile, configFile, infoFile, initialized, shuttingDown, acked>>

Finish(p) ==
    /\ pc[p] = "finish"
    /\ Return(p, "SUCCESS")
    /\ acked' = draft[p].vin
    /\ UNCHANGED <<files, initialized, writeProtected, shuttingDown>>

-----------------------------------------------------------------------------
(* write_vehicle_config: save, read back, save again as verified.          *)

Config(c, verified) == [coding |-> c, verified |-> verified]

\* What a config or info write answers before it touches the store.
RefuseData(p, op, arg) ==
    /\ \/ Refuses(p) /\ Answer(p, op, arg, "INVALID_STATE")
       \/ /\ ~Refuses(p) /\ writeProtected[p]
          /\ Answer(p, op, arg, "SECURITY_ACCESS_NOT_GRANTED")
    /\ UNCHANGED files

Accepts(p) == ~Refuses(p) /\ ~writeProtected[p]

WriteVehicleConfig(p, c) ==
    /\ pc[p] = "idle"
    /\ \/ RefuseData(p, "write_vehicle_config", c)
       \/ /\ Accepts(p)
          /\ \E write \in Save(configFile, Config(c, FALSE)) :
              /\ configFile' = write.file
              /\ \/ write.ok /\ Begin(p, "write_vehicle_config", c, "readConfig")
                 \/ ~write.ok /\ Answer(p, "write_vehicle_config", c, "CONFIG_WRITE_FAILED")
          /\ UNCHANGED <<bindingFile, infoFile, protectionFile>>
    /\ UNCHANGED <<initialized, writeProtected, shuttingDown, draft, acked>>

ReadBackConfig(p) ==
    /\ pc[p] = "readConfig"
    /\ \E stored \in Load(configFile) :
        \/ stored = Absent /\ Return(p, "CONFIG_WRITE_FAILED")
        \/ /\ stored # Absent /\ stored.coding # call[p].arg
           /\ Return(p, "READBACK_VERIFICATION_FAILED")
        \/ /\ stored # Absent /\ stored.coding = call[p].arg
           /\ Goto(p, "markVerified") /\ UNCHANGED <<call, draft>>
    /\ UNCHANGED <<files, initialized, writeProtected, shuttingDown, acked>>

\* Neither the result nor the contents of the second save are looked at.
MarkVerified(p) ==
    /\ pc[p] = "markVerified"
    /\ \E write \in ProtectedWrite(p, configFile, Config(call[p].arg, TRUE)) :
        configFile' = write.file
    /\ Return(p, "SUCCESS")
    /\ UNCHANGED <<bindingFile, infoFile, protectionFile,
                   initialized, writeProtected, shuttingDown, acked>>

-----------------------------------------------------------------------------
(* write_production_info: save and read back.                              *)

WriteProductionInfo(p, i) ==
    /\ pc[p] = "idle"
    /\ \/ RefuseData(p, "write_production_info", i)
       \/ /\ Accepts(p)
          /\ \E write \in Save(infoFile, i) :
              /\ infoFile' = write.file
              /\ \/ write.ok /\ Begin(p, "write_production_info", i, "readInfo")
                 \/ ~write.ok
                    /\ Answer(p, "write_production_info", i, "PRODUCTION_INFO_WRITE_FAILED")
          /\ UNCHANGED <<bindingFile, configFile, protectionFile>>
    /\ UNCHANGED <<initialized, writeProtected, shuttingDown, draft, acked>>

\* Slip: a stored info that is missing is not an error.
InfoReadBackLax(stored, i) ==
    IF stored # Absent /\ stored # i THEN "READBACK_VERIFICATION_FAILED" ELSE "SUCCESS"

InfoReadBack(stored, i) ==
    IF stored = Absent THEN "PRODUCTION_INFO_WRITE_FAILED"
    ELSE IF stored # i THEN "READBACK_VERIFICATION_FAILED"
    ELSE "SUCCESS"

ReadBackInfo(p) ==
    /\ pc[p] = "readInfo"
    /\ \E stored \in Load(infoFile) : Return(p, InfoReadBack(stored, call[p].arg))
    /\ UNCHANGED <<files, initialized, writeProtected, shuttingDown, acked>>

-----------------------------------------------------------------------------
(* read_vin and get_provision_state; read_binding reads the same file.     *)

QueryAnswer(op, stored) ==
    CASE ~IsBinding(stored) /\ op = "read_vin" -> Absent
      [] ~IsBinding(stored) /\ op = "get_provision_state" -> "NONE"
      [] IsBinding(stored) /\ op = "read_vin" -> stored.vin
      [] IsBinding(stored) /\ op = "get_provision_state" -> stored.state

Query(p, op) ==
    /\ pc[p] = "idle"
    /\ \E loaded \in Load(bindingFile) :
        Answer(p, op, Absent, QueryAnswer(op, IF initialized[p] THEN loaded ELSE Absent))
    /\ UNCHANGED <<files, initialized, writeProtected, shuttingDown, draft, acked>>

-----------------------------------------------------------------------------
Call(p) ==
    \/ \E v \in Vin : WriteVin(p, v) \/ AuthorizeRewrite(p, v)
    \/ \E c \in Coding : WriteVehicleConfig(p, c)
    \/ \E i \in Info : WriteProductionInfo(p, i)
    \/ \E op \in QueryOps : Query(p, op)

Step(p) ==
    \/ ReadExisting(p) \/ SaveVinWritten(p) \/ SaveBound(p)
    \/ VerifyWrite(p) \/ SetWriteProtection(p) \/ Finish(p)
    \/ ReadBackConfig(p) \/ MarkVerified(p) \/ ReadBackInfo(p)

Life(p) == ProcessStart(p) \/ Initialize(p) \/ BeginShutdown(p) \/ Stop(p) \/ Crash(p)

Next == \E p \in Process : Call(p) \/ Step(p) \/ Life(p)

Spec == Init /\ [][Next]_vars
=============================================================================
