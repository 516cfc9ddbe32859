------------------------- MODULE ProvServiceProofs -------------------------
(***************************************************************************)
(* Proofs about ProvService for every number of VINs, UIDs, codings and    *)
(* infos, every bound of the rewrite counter and every set of faults the   *)
(* statement allows.                                                       *)
(***************************************************************************)
EXTENDS ProvServiceProps, TLAPS

-----------------------------------------------------------------------------
(* The accesses to the store and to the providers.                         *)

(***************************************************************************)
(* A save that fails leaves the file alone, one that succeeds leaves the   *)
(* new value or, on a disk that cuts files short, a torn one.              *)
(***************************************************************************)
LEMMA SaveOutcomes ==
    ASSUME NEW old, NEW new, NEW write \in Save(old, new)
    PROVE  /\ write.ok \in BOOLEAN
           /\ write.file \in {old, new, Torn}
           /\ ~write.ok => write.file = old
           /\ write.ok => write.file \in {new, Torn}
           /\ write.ok /\ "torn" \notin Faults => write.file = new
<1>1. \/ write = [ok |-> TRUE, file |-> new]
      \/ write = [ok |-> FALSE, file |-> old]
      \/ "torn" \in Faults /\ write = [ok |-> TRUE, file |-> Torn]
  BY Zenon DEF Save, Outcome, Under
<1>2. CASE write = [ok |-> TRUE, file |-> new]
  <2>1. write.ok = TRUE /\ write.file = new
    BY <1>2
  <2>2. QED
    BY <2>1
<1>3. CASE write = [ok |-> FALSE, file |-> old]
  <2>1. write.ok = FALSE /\ write.file = old
    BY <1>3
  <2>2. QED
    BY <2>1
<1>4. CASE "torn" \in Faults /\ write = [ok |-> TRUE, file |-> Torn]
  <2>1. write.ok = TRUE /\ write.file = Torn
    BY <1>4
  <2>2. QED
    BY <1>4, <2>1
<1>5. QED
  BY <1>1, <1>2, <1>3, <1>4

(***************************************************************************)
(* The protected storage writes nothing while its cached flag is set.      *)
(***************************************************************************)
LEMMA ProtectedWriteOutcomes ==
    ASSUME NEW p \in Process, NEW old, NEW new, NEW write \in ProtectedWrite(p, old, new)
    PROVE  /\ write.ok \in BOOLEAN
           /\ write.file \in {old, new, Torn}
           /\ ~write.ok => write.file = old
           /\ write.ok => write.file \in {new, Torn} /\ ~writeProtected[p]
           /\ write.ok /\ "torn" \notin Faults => write.file = new
<1>1. CASE writeProtected[p]
  <2>1. write = [ok |-> FALSE, file |-> old]
    BY <1>1 DEF ProtectedWrite, Outcome
  <2>2. write.ok = FALSE /\ write.file = old
    BY <2>1
  <2>3. QED
    BY <2>2
<1>2. CASE ~writeProtected[p]
  <2>1. write \in Save(old, new)
    BY <1>2 DEF ProtectedWrite
  <2>2. QED
    BY <1>2, <2>1, SaveOutcomes
<1>3. QED
  BY <1>1, <1>2

(***************************************************************************)
(* A load gives the contents of the file or nothing, never a torn file,    *)
(* and with a disk that can be read it misses only a torn one.             *)
(***************************************************************************)
LEMMA LoadOutcomes ==
    ASSUME NEW file, NEW loaded \in Load(file)
    PROVE  /\ loaded \in {file, Absent}
           /\ loaded # Torn
           /\ "read" \notin Faults /\ file # Torn => loaded = file
BY AbsentAssumption DEF Load, Under

(***************************************************************************)
(* A UID read gives a UID of the sources or a PROV code.                   *)
(***************************************************************************)
LEMMA UidOutcomes ==
    ASSUME NEW read \in ReadUidDetailed
    PROVE  /\ read.uid \in Uid \cup {NoUid}
           /\ read.code \in Codes
BY UidAssumption DEF ReadUidDetailed, UidReadFrom, Found, Missing, SeHardwarePresent, Codes

LEMMA CountAfterType ==
    ASSUME NEW existing \in VehicleBinding \cup {Absent}, NEW v \in Vin
    PROVE  CountAfter(existing, v) \in 0 .. CountMod - 1
<1>1. CountMod \in Nat /\ CountMod > 0
  BY ServiceAssumption
<1>2. CASE IsBinding(existing)
  <2>1. existing.rewriteCount \in 0 .. CountMod - 1
    BY <1>2 DEF IsBinding, VehicleBinding
  <2>2. (existing.rewriteCount + 1) % CountMod \in 0 .. CountMod - 1
    BY <1>1, <2>1
  <2>3. QED
    BY <1>1, <2>2 DEF CountAfter
<1>3. CASE ~IsBinding(existing)
  BY <1>1, <1>3 DEF CountAfter
<1>4. QED
  BY <1>2, <1>3

LEMMA BoundBindingType ==
    ASSUME NEW b \in VehicleBinding
    PROVE  [b EXCEPT !.state = "BOUND"] \in VehicleBinding
BY DEF VehicleBinding

-----------------------------------------------------------------------------
(* Type correctness.                                                       *)

\* The control variables of a process, without the local data of its call.
ControlType ==
    /\ pc \in [Process -> Labels]
    /\ call \in [Process -> [op : Ops, arg : Args, answer : Answers]]
    /\ draft \in [Process -> VehicleBinding \cup {Absent}]

(***************************************************************************)
(* An answer at once leaves the process idle and the others alone.         *)
(***************************************************************************)
LEMMA AnswerType ==
    ASSUME TypeOK, NEW p \in Process, NEW op \in Ops, NEW arg \in Args,
           NEW answer \in Answers, Answer(p, op, arg, answer), draft' = draft
    PROVE  ControlType' /\ LocalsOK'
<1>1. ControlType'
  BY DEF TypeOK, ControlType, Answer, Goto, Labels
<1>2. LocalsOK'
  BY DEF TypeOK, LocalsOK, Answer, Goto, BindingLabels
<1>3. QED
  BY <1>1, <1>2

(***************************************************************************)
(* So does the return of a running call.                                   *)
(***************************************************************************)
LEMMA ReturnType ==
    ASSUME TypeOK, NEW p \in Process, NEW answer \in Answers, Return(p, answer)
    PROVE  ControlType' /\ LocalsOK'
<1>1. ControlType'
  BY DEF TypeOK, ControlType, Return, Goto, Labels
<1>2. LocalsOK'
  BY DEF TypeOK, LocalsOK, Return, Goto, BindingLabels
<1>3. QED
  BY <1>1, <1>2

(***************************************************************************)
(* A call that goes on with its binding keeps it.                          *)
(***************************************************************************)
LEMMA GotoType ==
    ASSUME TypeOK, NEW p \in Process, NEW label \in BindingLabels,
           pc[p] \in BindingLabels, Goto(p, label), call' = call, draft' = draft
    PROVE  ControlType' /\ LocalsOK'
<1>1. ControlType'
  BY DEF TypeOK, ControlType, Goto, Labels, BindingLabels
<1>2. LocalsOK'
  BY DEF TypeOK, LocalsOK, Goto, BindingLabels
<1>3. QED
  BY <1>1, <1>2

(***************************************************************************)
(* The start of a binding flow creates a well-formed binding.              *)
(***************************************************************************)
LEMMA BeginBindingFlowType ==
    ASSUME TypeOK, NEW p \in Process, NEW op \in BindingOps, NEW v \in ValidVin,
           BeginBindingFlow(p, op, v)
    PROVE  ControlType' /\ LocalsOK'
<1>1. PICK read \in ReadUidDetailed :
        \/ /\ read.uid = NoUid
           /\ Answer(p, op, v, read.code)
           /\ UNCHANGED draft
        \/ /\ read.uid # NoUid
           /\ Begin(p, op, v, "establish")
           /\ draft' = [draft EXCEPT ![p] = NewBinding(v, read.uid)]
  BY DEF BeginBindingFlow
<1>2. read.uid \in Uid \cup {NoUid} /\ read.code \in Codes
  BY UidOutcomes
<1>3. op \in Ops /\ v \in Args /\ v \in Vin
  BY ServiceAssumption DEF Ops, WriteOps, Args
<1>4. CASE Answer(p, op, v, read.code) /\ UNCHANGED draft
  BY <1>2, <1>3, <1>4, AnswerType DEF Answers
<1>5. CASE /\ read.uid # NoUid
           /\ Begin(p, op, v, "establish")
           /\ draft' = [draft EXCEPT ![p] = NewBinding(v, read.uid)]
  <2>1. NewBinding(v, read.uid) \in VehicleBinding /\ NewBinding(v, read.uid).state = "VIN_WRITTEN"
    <3>1. 0 \in 0 .. CountMod - 1
      BY ServiceAssumption
    <3>2. QED
      BY <1>2, <1>3, <1>5, <3>1 DEF NewBinding, VehicleBinding
  <2>2. ControlType'
    BY <1>3, <1>5, <2>1 DEF TypeOK, ControlType, Begin, Goto, Labels, Answers
  <2>3. LocalsOK'
    BY <1>5, <2>1 DEF TypeOK, LocalsOK, Begin, Goto, BindingLabels
  <2>4. QED
    BY <2>2, <2>3
<1>6. QED
  BY <1>1, <1>4, <1>5

LEMMA RefuseVinType ==
    ASSUME TypeOK, NEW p \in Process, NEW op \in BindingOps, NEW v \in Vin,
           RefuseVin(p, op, v)
    PROVE  ControlType' /\ LocalsOK'
BY AnswerType DEF RefuseVin, Ops, WriteOps, Args, Answers, Codes

LEMMA RefuseDataType ==
    ASSUME TypeOK, NEW p \in Process, NEW op \in Ops, NEW arg \in Args,
           RefuseData(p, op, arg), draft' = draft
    PROVE  ControlType' /\ LocalsOK'
BY AnswerType DEF RefuseData, Answers, Codes

(***************************************************************************)
(* A save of the binding file leaves a binding, the old file or a torn one.*)
(***************************************************************************)
LEMMA WriteBindingType ==
    ASSUME TypeOK, NEW p \in Process, NEW binding \in VehicleBinding,
           NEW next \in BindingLabels, pc[p] \in BindingLabels,
           WriteBinding(p, binding, next)
    PROVE  TypeOK'
<1>1. PICK write \in ProtectedWrite(p, bindingFile, binding) :
        /\ bindingFile' = write.file
        /\ \/ write.ok /\ Goto(p, next) /\ UNCHANGED <<call, draft>>
           \/ ~write.ok /\ Return(p, "VIN_WRITE_FAILED")
  BY DEF WriteBinding
<1>2. bindingFile' \in VehicleBinding \cup {Absent, Torn}
  BY <1>1, ProtectedWriteOutcomes DEF TypeOK
<1>3. ControlType' /\ LocalsOK'
  BY <1>1, GotoType, ReturnType DEF Answers, Codes
<1>4. QED
  BY <1>2, <1>3 DEF WriteBinding, TypeOK, ControlType

LEMMA LegacyBindingType ==
    ASSUME NEW v \in LegacyVin, NEW u \in Uid
    PROVE  LegacyBinding(v, u) \in VehicleBinding
<1>1. 0 \in 0 .. CountMod - 1
  BY ServiceAssumption
<1>2. QED
  BY <1>1, ServiceAssumption DEF LegacyBinding, VehicleBinding

LEMMA TypeInit == Init => TypeOK
<1> SUFFICES ASSUME Init PROVE TypeOK
  OBVIOUS
<1>1. bindingFile \in VehicleBinding \cup {Absent, Torn}
  BY LegacyBindingType DEF Init
<1>2. LocalsOK
  BY DEF Init, LocalsOK, BindingLabels
<1>3. NoCall \in [op : Ops, arg : Args, answer : Answers]
  BY DEF NoCall, Ops, Args, Answers
<1>4. QED
  BY <1>1, <1>2, <1>3 DEF Init, TypeOK, Labels

LEMMA TypeNext ==
    ASSUME TypeOK, [Next]_vars
    PROVE  TypeOK'
<1>1. CASE UNCHANGED vars
  BY <1>1 DEF vars, files, TypeOK, LocalsOK
<1> SUFFICES ASSUME NEW p \in Process, Call(p) \/ Step(p) \/ Life(p)
             PROVE  TypeOK'
  BY <1>1 DEF Next
<1>2. ASSUME NEW v \in Vin, WriteVin(p, v) PROVE TypeOK'
  <2>1. ControlType' /\ LocalsOK'
    BY <1>2, RefuseVinType, BeginBindingFlowType DEF WriteVin, BindingOps
  <2>2. QED
    BY <1>2, <2>1 DEF WriteVin, files, TypeOK, ControlType
<1>3. ASSUME NEW v \in Vin, AuthorizeRewrite(p, v) PROVE TypeOK'
  <2>1. ControlType' /\ LocalsOK'
    <3>1. "authorize_rewrite" \in BindingOps /\ "authorize_rewrite" \in Ops
             /\ v \in Args /\ "VIN_CONFLICT_UNAUTHORIZED" \in Answers
      BY DEF BindingOps, Ops, WriteOps, Args, Answers, Codes
    <3>2. CASE RefuseVin(p, "authorize_rewrite", v)
      BY <3>1, <3>2, RefuseVinType
    <3>3. CASE Answer(p, "authorize_rewrite", v, "VIN_CONFLICT_UNAUTHORIZED") /\ UNCHANGED draft
      BY <3>1, <3>3, AnswerType
    <3>4. CASE v \in ValidVin /\ BeginBindingFlow(p, "authorize_rewrite", v)
      BY <3>1, <3>4, BeginBindingFlowType
    <3>5. QED
      BY <1>3, <3>2, <3>3, <3>4 DEF AuthorizeRewrite
  <2>2. QED
    BY <1>3, <2>1 DEF AuthorizeRewrite, files, TypeOK, ControlType
<1>4. ASSUME NEW c \in Coding, WriteVehicleConfig(p, c) PROVE TypeOK'
  <2>0. UNCHANGED <<initialized, writeProtected, shuttingDown, draft, acked>>
    BY <1>4 DEF WriteVehicleConfig
  <2>1. "write_vehicle_config" \in Ops /\ c \in Args
          /\ "CONFIG_WRITE_FAILED" \in Answers /\ "pending" \in Answers
    BY DEF Ops, WriteOps, Args, Answers, Codes
  <2>2. draft' = draft
    BY <2>0
  <2>3. CASE RefuseData(p, "write_vehicle_config", c)
    <3>1. ControlType' /\ LocalsOK'
      BY <2>1, <2>2, <2>3, RefuseDataType
    <3>2. QED
      BY <2>0, <2>3, <3>1 DEF RefuseData, files, TypeOK, ControlType
  <2>4. CASE \E write \in Save(configFile, Config(c, FALSE)) :
              /\ configFile' = write.file
              /\ \/ write.ok /\ Begin(p, "write_vehicle_config", c, "readConfig")
                 \/ ~write.ok /\ Answer(p, "write_vehicle_config", c, "CONFIG_WRITE_FAILED")
    <3>1. configFile' \in VehicleConfig \cup {Absent, Torn}
      <4>1. Config(c, FALSE) \in VehicleConfig
        BY DEF Config, VehicleConfig
      <4>2. PICK write \in Save(configFile, Config(c, FALSE)) : configFile' = write.file
        BY <2>4
      <4>3. write.file \in {configFile, Config(c, FALSE), Torn}
        BY SaveOutcomes
      <4>4. QED
        BY <4>1, <4>2, <4>3 DEF TypeOK
    <3>2. ASSUME Begin(p, "write_vehicle_config", c, "readConfig")
          PROVE  ControlType' /\ LocalsOK'
      <4>1. ControlType'
        BY <2>1, <2>2, <3>2 DEF TypeOK, ControlType, Begin, Goto, Labels
      <4>2. LocalsOK'
        BY <2>2, <3>2 DEF TypeOK, LocalsOK, Begin, Goto, BindingLabels
      <4>3. QED
        BY <4>1, <4>2
    <3>3. ASSUME Answer(p, "write_vehicle_config", c, "CONFIG_WRITE_FAILED")
          PROVE  ControlType' /\ LocalsOK'
      BY <2>1, <2>2, <3>3, AnswerType
    <3>5. ControlType' /\ LocalsOK'
      BY <2>4, <3>2, <3>3
    <3>4. UNCHANGED <<bindingFile, infoFile, protectionFile>>
      BY <1>4 DEF WriteVehicleConfig, RefuseData, files
    <3>6. QED
      BY <2>0, <3>1, <3>4, <3>5 DEF TypeOK, ControlType
  <2>5. QED
    BY <1>4, <2>3, <2>4 DEF WriteVehicleConfig
<1>5. ASSUME NEW i \in Info, WriteProductionInfo(p, i) PROVE TypeOK'
  <2>0. UNCHANGED <<initialized, writeProtected, shuttingDown, draft, acked>>
    BY <1>5 DEF WriteProductionInfo
  <2>1. "write_production_info" \in Ops /\ i \in Args
          /\ "PRODUCTION_INFO_WRITE_FAILED" \in Answers /\ "pending" \in Answers
    BY DEF Ops, WriteOps, Args, Answers, Codes
  <2>2. draft' = draft
    BY <2>0
  <2>3. CASE RefuseData(p, "write_production_info", i)
    <3>1. ControlType' /\ LocalsOK'
      BY <2>1, <2>2, <2>3, RefuseDataType
    <3>2. QED
      BY <2>0, <2>3, <3>1 DEF RefuseData, files, TypeOK, ControlType
  <2>4. CASE \E write \in Save(infoFile, i) :
              /\ infoFile' = write.file
              /\ \/ write.ok /\ Begin(p, "write_production_info", i, "readInfo")
                 \/ ~write.ok
                    /\ Answer(p, "write_production_info", i, "PRODUCTION_INFO_WRITE_FAILED")
    <3>1. infoFile' \in Info \cup {Absent, Torn}
      BY <2>4, SaveOutcomes DEF TypeOK
    <3>2. ASSUME Begin(p, "write_production_info", i, "readInfo")
          PROVE  ControlType' /\ LocalsOK'
      <4>1. ControlType'
        BY <2>1, <2>2, <3>2 DEF TypeOK, ControlType, Begin, Goto, Labels
      <4>2. LocalsOK'
        BY <2>2, <3>2 DEF TypeOK, LocalsOK, Begin, Goto, BindingLabels
      <4>3. QED
        BY <4>1, <4>2
    <3>3. ASSUME Answer(p, "write_production_info", i, "PRODUCTION_INFO_WRITE_FAILED")
          PROVE  ControlType' /\ LocalsOK'
      BY <2>1, <2>2, <3>3, AnswerType
    <3>5. ControlType' /\ LocalsOK'
      BY <2>4, <3>2, <3>3
    <3>4. UNCHANGED <<bindingFile, configFile, protectionFile>>
      BY <1>5 DEF WriteProductionInfo, RefuseData, files
    <3>6. QED
      BY <2>0, <3>1, <3>4, <3>5 DEF TypeOK, ControlType
  <2>5. QED
    BY <1>5, <2>3, <2>4 DEF WriteProductionInfo
<1>6. ASSUME NEW op \in QueryOps, Query(p, op) PROVE TypeOK'
  <2>1. PICK loaded \in Load(bindingFile) :
          Answer(p, op, Absent, QueryAnswer(op, IF initialized[p] THEN loaded ELSE Absent))
    BY <1>6 DEF Query
  <2>2. DEFINE stored == IF initialized[p] THEN loaded ELSE Absent
  <2>3. stored \in VehicleBinding \cup {Absent}
    BY LoadOutcomes DEF TypeOK
  <2>4. QueryAnswer(op, stored) \in Answers
    BY <2>3 DEF QueryAnswer, QueryOps, Answers, IsBinding, VehicleBinding
  <2>5. op \in Ops /\ Absent \in Args
    BY DEF Ops, Args
  <2>6. ControlType' /\ LocalsOK'
    BY <1>6, <2>1, <2>4, <2>5, AnswerType DEF Query
  <2>7. QED
    BY <1>6, <2>6 DEF Query, files, TypeOK, ControlType
<1>7. CASE ReadExisting(p)
  <2>1. PICK existing \in Load(bindingFile) :
          draft' = [draft EXCEPT ![p].rewriteCount = CountAfter(existing, draft[p].vin)]
    BY <1>7 DEF ReadExisting
  <2>2. draft[p] \in VehicleBinding
    BY <1>7 DEF ReadExisting, TypeOK, LocalsOK, BindingLabels
  <2>3. CountAfter(existing, draft[p].vin) \in 0 .. CountMod - 1
    <3>1. existing \in VehicleBinding \cup {Absent} /\ draft[p].vin \in Vin
      BY <2>2, LoadOutcomes DEF TypeOK, VehicleBinding
    <3>2. QED
      BY <3>1, CountAfterType
  <2>4. /\ draft' \in [Process -> VehicleBinding \cup {Absent}]
        /\ draft'[p] \in VehicleBinding /\ draft'[p].state = draft[p].state
    BY <2>1, <2>2, <2>3 DEF TypeOK, VehicleBinding
  <2>5. ControlType'
    BY <1>7, <2>4 DEF ReadExisting, Goto, TypeOK, ControlType, Labels
  <2>6. LocalsOK'
    BY <1>7, <2>1, <2>4 DEF ReadExisting, Goto, TypeOK, LocalsOK, BindingLabels
  <2>7. QED
    BY <1>7, <2>5, <2>6 DEF ReadExisting, files, TypeOK, ControlType
<1>8. CASE SaveVinWritten(p)
  <2>1. pc[p] \in BindingLabels /\ "saveBound" \in BindingLabels /\ draft[p] \in VehicleBinding
    BY <1>8 DEF SaveVinWritten, TypeOK, LocalsOK, BindingLabels
  <2>2. QED
    BY <1>8, <2>1, WriteBindingType DEF SaveVinWritten
<1>9. CASE SaveBound(p)
  <2>1. pc[p] \in BindingLabels /\ "verify" \in BindingLabels /\ draft[p] \in VehicleBinding
    BY <1>9 DEF SaveBound, TypeOK, LocalsOK, BindingLabels
  <2>2. [draft[p] EXCEPT !.state = "BOUND"] \in VehicleBinding
    BY <2>1, BoundBindingType
  <2>3. QED
    BY <1>9, <2>1, <2>2, WriteBindingType DEF SaveBound
<1>10. CASE VerifyWrite(p)
  <2>1. AfterVerify \in BindingLabels /\ pc[p] \in BindingLabels
    BY <1>10 DEF VerifyWrite, AfterVerify, BindingLabels
  <2>2. ControlType' /\ LocalsOK'
    BY <1>10, <2>1, GotoType, ReturnType DEF VerifyWrite, Answers, Codes
  <2>3. QED
    BY <1>10, <2>2 DEF VerifyWrite, files, TypeOK, ControlType
<1>11. CASE SetWriteProtection(p)
  <2>1. "finish" \in BindingLabels /\ pc[p] \in BindingLabels
    BY <1>11 DEF SetWriteProtection, BindingLabels
  <2>2. ControlType' /\ LocalsOK'
    BY <1>11, <2>1, GotoType, ReturnType DEF SetWriteProtection, Answers, Codes
  <2>3. protectionFile' \in {Absent, Torn, "1"}
    BY <1>11, SaveOutcomes DEF SetWriteProtection, TypeOK
  <2>4. writeProtected' \in [Process -> BOOLEAN]
    BY <1>11 DEF SetWriteProtection, TypeOK
  <2>5. QED
    BY <1>11, <2>2, <2>3, <2>4 DEF SetWriteProtection, TypeOK, ControlType
<1>12. CASE Finish(p)
  <2>1. ControlType' /\ LocalsOK'
    BY <1>12, ReturnType DEF Finish, Answers, Codes
  <2>2. acked' \in Vin
    BY <1>12 DEF Finish, TypeOK, LocalsOK, BindingLabels, VehicleBinding
  <2>3. QED
    BY <1>12, <2>1, <2>2 DEF Finish, files, TypeOK, ControlType
<1>13. CASE ReadBackConfig(p)
  <2>1. CASE Goto(p, "markVerified") /\ UNCHANGED <<call, draft>>
    <3>1. ControlType'
      BY <2>1 DEF Goto, TypeOK, ControlType, Labels
    <3>2. LocalsOK'
      BY <1>13, <2>1 DEF ReadBackConfig, Goto, TypeOK, LocalsOK, BindingLabels
    <3>3. QED
      BY <1>13, <3>1, <3>2 DEF ReadBackConfig, files, TypeOK, ControlType
  <2>2. CASE Return(p, "CONFIG_WRITE_FAILED") \/ Return(p, "READBACK_VERIFICATION_FAILED")
    <3>1. ControlType' /\ LocalsOK'
      BY <2>2, ReturnType DEF Answers, Codes
    <3>2. QED
      BY <1>13, <3>1 DEF ReadBackConfig, files, TypeOK, ControlType
  <2>3. QED
    BY <1>13, <2>1, <2>2 DEF ReadBackConfig
<1>14. CASE MarkVerified(p)
  <2> DEFINE verified == Config(call[p].arg, TRUE)
  <2>1. verified \in VehicleConfig
    BY <1>14 DEF MarkVerified, TypeOK, LocalsOK, Config, VehicleConfig
  <2>2. configFile' \in VehicleConfig \cup {Absent, Torn}
    <3>1. PICK write \in ProtectedWrite(p, configFile, verified) : configFile' = write.file
      BY <1>14 DEF MarkVerified
    <3> HIDE DEF verified
    <3>2. write.file \in {configFile, verified, Torn}
      BY ProtectedWriteOutcomes
    <3>3. QED
      BY <2>1, <3>1, <3>2 DEF TypeOK
  <2>3. ControlType' /\ LocalsOK'
    BY <1>14, ReturnType DEF MarkVerified, Answers, Codes
  <2>4. QED
    BY <1>14, <2>2, <2>3 DEF MarkVerified, TypeOK, ControlType
<1>15. CASE ReadBackInfo(p)
  <2>1. ControlType' /\ LocalsOK'
    BY <1>15, ReturnType DEF ReadBackInfo, InfoReadBack, Answers, Codes
  <2>2. QED
    BY <1>15, <2>1 DEF ReadBackInfo, files, TypeOK, ControlType
<1>16. CASE ProcessStart(p)
  BY <1>16 DEF ProcessStart, Goto, files, TypeOK, LocalsOK, Labels, BindingLabels
<1>17. CASE Initialize(p)
  <2>1. initialized' \in [Process -> BOOLEAN] /\ writeProtected' \in [Process -> BOOLEAN]
    BY <1>17 DEF Initialize, Initializes, Under, ProtectionFrom, TypeOK
  <2>2. QED
    BY <1>17, <2>1 DEF Initialize, files, TypeOK, LocalsOK
<1>18. CASE BeginShutdown(p)
  BY <1>18 DEF BeginShutdown, files, TypeOK, LocalsOK
<1>19. CASE Stop(p) \/ Crash(p)
  <2>1. NoCall \in [op : Ops, arg : Args, answer : Answers]
    BY DEF NoCall, Ops, Args, Answers
  <2>2. Forget(p)
    BY <1>19 DEF Stop, Crash
  <2>3. LocalsOK'
    BY <2>2 DEF Forget, Goto, TypeOK, LocalsOK, BindingLabels
  <2>4. QED
    BY <2>1, <2>2, <2>3 DEF Forget, Goto, files, TypeOK, Labels
<1>20. QED
  BY <1>2, <1>3, <1>4, <1>5, <1>6, <1>7, <1>8, <1>9, <1>10, <1>11, <1>12, <1>13, <1>14,
     <1>15, <1>16, <1>17, <1>18, <1>19 DEF Call, Step, Life

(***************************************************************************)
(* Type correctness, for any number of processes and every set of faults:  *)
(* the files keep their shape, the rewrite counter its range, and a        *)
(* running call always has the local data its next step reads.             *)
(***************************************************************************)
THEOREM TypeCorrect == Spec => []TypeOK
<1>1. Init => TypeOK
  BY TypeInit
<1>2. TypeOK /\ [Next]_vars => TypeOK'
  BY TypeNext
<1>3. QED
  BY <1>1, <1>2, PTL DEF Spec

-----------------------------------------------------------------------------
(* Steps and processes.                                                    *)

\* What an answer, a return and a begin do to the label of their process.
LEMMA Labelled ==
    ASSUME TypeOK, NEW p \in Process
    PROVE  /\ \A label : Goto(p, label) => pc'[p] = label
           /\ \A op, arg, answer : Answer(p, op, arg, answer) => pc'[p] = "idle"
           /\ \A answer : Return(p, answer) => pc'[p] = "idle"
           /\ \A op, arg, label : Begin(p, op, arg, label) => pc'[p] = label
BY DEF TypeOK, Goto, Answer, Return, Begin

LEMMA FlowLabelled ==
    ASSUME TypeOK, NEW p \in Process, NEW op, NEW v, BeginBindingFlow(p, op, v)
    PROVE  pc'[p] \in {"idle", "establish"}
BY Labelled DEF BeginBindingFlow

\* What a process knows of its call, its flags included.
Own(p) == <<pc[p], call[p], draft[p], initialized[p], shuttingDown[p], writeProtected[p]>>

(***************************************************************************)
(* A step of one process leaves the calls of the others alone.             *)
(***************************************************************************)
LEMMA OthersStay ==
    ASSUME TypeOK, NEW p \in Process, Call(p) \/ Step(p) \/ Life(p),
           NEW q \in Process, q # p
    PROVE  UNCHANGED Own(q)
<1> USE DEF TypeOK, Own, Goto, Answer, Begin, Return
<1>1. ASSUME NEW v \in Vin, WriteVin(p, v) PROVE UNCHANGED Own(q)
  BY <1>1 DEF WriteVin, RefuseVin, BeginBindingFlow
<1>2. ASSUME NEW v \in Vin, AuthorizeRewrite(p, v) PROVE UNCHANGED Own(q)
  BY <1>2 DEF AuthorizeRewrite, RefuseVin, BeginBindingFlow
<1>3. ASSUME NEW c \in Coding, WriteVehicleConfig(p, c) PROVE UNCHANGED Own(q)
  BY <1>3 DEF WriteVehicleConfig, RefuseData
<1>4. ASSUME NEW i \in Info, WriteProductionInfo(p, i) PROVE UNCHANGED Own(q)
  BY <1>4 DEF WriteProductionInfo, RefuseData
<1>5. ASSUME NEW op \in QueryOps, Query(p, op) PROVE UNCHANGED Own(q)
  BY <1>5 DEF Query
<1>6. ASSUME ReadExisting(p) PROVE UNCHANGED Own(q)
  BY <1>6 DEF ReadExisting
<1>7. ASSUME SaveVinWritten(p) PROVE UNCHANGED Own(q)
  BY <1>7 DEF SaveVinWritten, WriteBinding
<1>8. ASSUME SaveBound(p) PROVE UNCHANGED Own(q)
  BY <1>8 DEF SaveBound, WriteBinding
<1>9. ASSUME VerifyWrite(p) PROVE UNCHANGED Own(q)
  BY <1>9 DEF VerifyWrite, AfterVerify
<1>10. ASSUME SetWriteProtection(p) PROVE UNCHANGED Own(q)
  BY <1>10 DEF SetWriteProtection
<1>11. ASSUME Finish(p) PROVE UNCHANGED Own(q)
  BY <1>11 DEF Finish
<1>12. ASSUME ReadBackConfig(p) PROVE UNCHANGED Own(q)
  BY <1>12 DEF ReadBackConfig
<1>13. ASSUME MarkVerified(p) PROVE UNCHANGED Own(q)
  BY <1>13 DEF MarkVerified
<1>14. ASSUME ReadBackInfo(p) PROVE UNCHANGED Own(q)
  BY <1>14 DEF ReadBackInfo
<1>15. ASSUME ProcessStart(p) PROVE UNCHANGED Own(q)
  BY <1>15 DEF ProcessStart
<1>16. ASSUME Initialize(p) PROVE UNCHANGED Own(q)
  BY <1>16 DEF Initialize
<1>17. ASSUME BeginShutdown(p) PROVE UNCHANGED Own(q)
  BY <1>17 DEF BeginShutdown
<1>18. ASSUME Stop(p) PROVE UNCHANGED Own(q)
  BY <1>18 DEF Stop, Forget
<1>19. ASSUME Crash(p) PROVE UNCHANGED Own(q)
  BY <1>19 DEF Crash, Forget
<1> QED
  BY <1>1, <1>2, <1>3, <1>4, <1>5, <1>6, <1>7, <1>8, <1>9, <1>10, <1>11, <1>12, <1>13, <1>14,
     <1>15, <1>16, <1>17, <1>18, <1>19
     DEF Call, Step, Life

(***************************************************************************)
(* Outside the two saves of establish_binding, the protection file and the *)
(* last step of the flow, nothing that Provisioning sees changes.          *)
(***************************************************************************)
LEMMA SeenStepsOf ==
    ASSUME NEW p \in Process, Call(p) \/ Step(p) \/ Life(p)
    PROVE  \/ UNCHANGED <<bindingFile, protectionFile, acked>>
           \/ SaveVinWritten(p) \/ SaveBound(p) \/ SetWriteProtection(p) \/ Finish(p)
BY DEF files, Call, Step, Life, WriteVin, AuthorizeRewrite, WriteVehicleConfig,
   RefuseData, WriteProductionInfo, Query, ReadExisting, VerifyWrite, ReadBackConfig,
   MarkVerified, ReadBackInfo, ProcessStart, Initialize, BeginShutdown, Stop, Crash, Forget

LEMMA SeenSteps ==
    ASSUME [Next]_vars
    PROVE  \/ UNCHANGED <<bindingFile, protectionFile, acked>>
           \/ \E p \in Process : \/ SaveVinWritten(p) \/ SaveBound(p)
                                 \/ SetWriteProtection(p) \/ Finish(p)
<1>1. CASE UNCHANGED vars
  BY <1>1 DEF vars, files
<1>2. ASSUME NEW p \in Process, Call(p) \/ Step(p) \/ Life(p)
      PROVE  \/ UNCHANGED <<bindingFile, protectionFile, acked>>
             \/ \E q \in Process : \/ SaveVinWritten(q) \/ SaveBound(q)
                                   \/ SetWriteProtection(q) \/ Finish(q)
  BY <1>2, SeenStepsOf
<1> QED BY <1>1, <1>2 DEF Next

-----------------------------------------------------------------------------
(* Processes that take turns.                                              *)

\* A process that is down has no flags left.
DownForgets(p) == pc[p] = "down" => ~initialized[p] /\ ~writeProtected[p]

OneAtATime == \A p, q \in Process : pc[p] # "down" /\ pc[q] # "down" => p = q

TurnInv == (\A p \in Process : DownForgets(p)) /\ (TakeTurns => OneAtATime)

\* The others are down, and what they know is gone.
Alone(p) ==
    \A q \in Process : q # p => pc[q] = "down" /\ ~initialized[q] /\ ~writeProtected[q]

LEMMA OwnDownStep ==
    ASSUME TypeOK, NEW p \in Process, DownForgets(p), Call(p) \/ Step(p) \/ Life(p)
    PROVE  /\ DownForgets(p)'
           /\ pc[p] = "down" => ProcessStart(p)
<1> USE DEF DownForgets
<1>1. CASE Call(p)
  BY <1>1, Labelled, FlowLabelled DEF Call, WriteVin, AuthorizeRewrite, RefuseVin,
     WriteVehicleConfig, WriteProductionInfo, RefuseData, Query
<1>2. CASE Step(p)
  BY <1>2, Labelled DEF Step, ReadExisting, SaveVinWritten, SaveBound, WriteBinding,
     VerifyWrite, AfterVerify, SetWriteProtection, Finish, ReadBackConfig, MarkVerified,
     ReadBackInfo
<1>3. CASE Stop(p) \/ Crash(p)
  BY <1>3 DEF Stop, Crash, Forget, TypeOK
<1>4. CASE ProcessStart(p) \/ Initialize(p) \/ BeginShutdown(p)
  BY <1>4, Labelled DEF ProcessStart, Initialize, BeginShutdown
<1> QED BY <1>1, <1>2, <1>3, <1>4 DEF Life

(***************************************************************************)
(* A process that takes a step is the only one that runs, before and after.*)
(***************************************************************************)
LEMMA StepsAlone ==
    ASSUME TakeTurns, TypeOK, TurnInv, NEW p \in Process, Call(p) \/ Step(p) \/ Life(p)
    PROVE  Alone(p) /\ Alone(p)'
<1>1. \A q \in Process : q # p => pc[q] = "down"
  <2>1. CASE pc[p] = "down"
    BY <2>1, OwnDownStep DEF TurnInv, ProcessStart
  <2>2. CASE pc[p] # "down"
    BY <2>2 DEF TurnInv, OneAtATime
  <2> QED BY <2>1, <2>2
<1>2. Alone(p)
  BY <1>1 DEF Alone, TurnInv, DownForgets
<1> QED BY <1>2, OthersStay DEF Alone, Own

LEMMA TurnNext == TypeOK /\ TurnInv /\ [Next]_vars => TurnInv'
<1> SUFFICES ASSUME TypeOK, TurnInv, [Next]_vars PROVE TurnInv'
  OBVIOUS
<1>1. CASE UNCHANGED vars
  BY <1>1 DEF vars, TurnInv, DownForgets, OneAtATime
<1>2. ASSUME NEW p \in Process, Call(p) \/ Step(p) \/ Life(p) PROVE TurnInv'
  <2>1. ASSUME NEW q \in Process PROVE DownForgets(q)'
    <3>1. CASE q = p
      BY <1>2, <3>1, OwnDownStep DEF TurnInv
    <3>2. CASE q # p
      BY <1>2, <3>2, OthersStay DEF Own, TurnInv, DownForgets
    <3> QED BY <3>1, <3>2
  <2>2. TakeTurns => OneAtATime'
    BY <1>2, StepsAlone DEF Alone, OneAtATime
  <2> QED BY <2>1, <2>2 DEF TurnInv
<1> QED BY <1>1, <1>2 DEF Next

LEMMA TurnsAreTaken == Spec => []TurnInv
<1>1. Init => TurnInv
  BY DEF Init, TurnInv, DownForgets, OneAtATime
<1> QED BY <1>1, TurnNext, TypeCorrect, PTL DEF Spec

-----------------------------------------------------------------------------
(* A running call, for processes that take turns, on any disk.             *)

(***************************************************************************)
(* Steps that do not stand between the first save and the answer.          *)
(***************************************************************************)
LEMMA CalmFlight ==
    ASSUME NEW p \in Process, Alone(p)',
           pc'[p] \notin {"saveBound", "verify", "protect", "finish"},
           pc'[p] \notin {"down", "idle"} => initialized'[p]
    PROVE  FlightInv'
BY DEF Alone, FlightInv, CallsAreAdmitted, BindingInFlight

LEMMA SaveVinWrittenFlight ==
    ASSUME TypeOK, FlightInv, NEW p \in Process, Alone(p)', SaveVinWritten(p)
    PROVE  FlightInv'
<1>1. PICK write \in ProtectedWrite(p, bindingFile, draft[p]) :
        /\ bindingFile' = write.file
        /\ \/ write.ok /\ Goto(p, "saveBound") /\ UNCHANGED <<call, draft>>
           \/ ~write.ok /\ Return(p, "VIN_WRITE_FAILED")
  BY DEF SaveVinWritten, WriteBinding
<1>2. UNCHANGED <<initialized, writeProtected>> /\ initialized[p]
  BY DEF SaveVinWritten, WriteBinding, FlightInv, CallsAreAdmitted
<1>3. CASE ~write.ok
  BY <1>1, <1>2, <1>3, Labelled, CalmFlight
<1>4. CASE write.ok
  <2>1. pc'[p] = "saveBound" /\ draft' = draft
    BY <1>1, <1>4, Labelled
  <2>2. bindingFile' \in {draft[p], Torn} /\ ~writeProtected[p]
    BY <1>1, <1>4, ProtectedWriteOutcomes
  <2> QED BY <1>2, <2>1, <2>2 DEF Alone, FlightInv, CallsAreAdmitted, BindingInFlight
<1> QED BY <1>3, <1>4

LEMMA SaveBoundFlight ==
    ASSUME TypeOK, FlightInv, NEW p \in Process, Alone(p)', SaveBound(p)
    PROVE  FlightInv'
<1>1. PICK write \in ProtectedWrite(p, bindingFile, BoundDraft(p)) :
        /\ bindingFile' = write.file
        /\ \/ write.ok /\ Goto(p, "verify") /\ UNCHANGED <<call, draft>>
           \/ ~write.ok /\ Return(p, "VIN_WRITE_FAILED")
  BY DEF SaveBound, WriteBinding, BoundDraft
<1>2. UNCHANGED <<initialized, writeProtected>> /\ initialized[p]
  BY DEF SaveBound, WriteBinding, FlightInv, CallsAreAdmitted
<1>3. CASE ~write.ok
  BY <1>1, <1>2, <1>3, Labelled, CalmFlight
<1>4. CASE write.ok
  <2>1. pc'[p] = "verify" /\ draft' = draft
    BY <1>1, <1>4, Labelled
  <2>2. bindingFile' \in {BoundDraft(p), Torn} /\ ~writeProtected[p]
    BY <1>1, <1>4, ProtectedWriteOutcomes
  <2>3. BoundDraft(p)' = BoundDraft(p)
    BY <2>1 DEF BoundDraft
  <2> QED BY <1>2, <2>1, <2>2, <2>3 DEF Alone, FlightInv, CallsAreAdmitted, BindingInFlight
<1> QED BY <1>3, <1>4

(***************************************************************************)
(* The read-back lets a call go on only over the binding it has saved.     *)
(***************************************************************************)
LEMMA VerifyWriteFlight ==
    ASSUME TypeOK, FlightInv, NEW p \in Process, Alone(p)', VerifyWrite(p)
    PROVE  FlightInv'
<1>1. PICK stored \in Load(bindingFile) :
        \/ Verifies(stored, draft[p].vin) /\ Goto(p, AfterVerify) /\ UNCHANGED <<call, draft>>
        \/ ~Verifies(stored, draft[p].vin) /\ Return(p, "READBACK_VERIFICATION_FAILED")
  BY DEF VerifyWrite
<1>2. UNCHANGED <<bindingFile, initialized, writeProtected>> /\ pc[p] = "verify"
  BY DEF VerifyWrite, files
<1>3. initialized[p] /\ ~writeProtected[p] /\ bindingFile \in {Torn, BoundDraft(p)}
  BY <1>2 DEF FlightInv, CallsAreAdmitted, BindingInFlight
<1>4. CASE Return(p, "READBACK_VERIFICATION_FAILED")
  BY <1>2, <1>3, <1>4, Labelled, CalmFlight
<1>5. CASE Verifies(stored, draft[p].vin) /\ Goto(p, AfterVerify) /\ UNCHANGED <<call, draft>>
  <2>1. bindingFile = BoundDraft(p)
    BY <1>3, <1>5, LoadOutcomes DEF Verifies, IsBinding
  <2>2. /\ pc'[p] \in {"protect", "finish"} /\ draft' = draft
        /\ pc'[p] = "finish" => ~EnableWriteProtection
    BY <1>5, Labelled DEF AfterVerify
  <2>3. BoundDraft(p)' = BoundDraft(p)
    BY <2>2 DEF BoundDraft
  <2> QED BY <1>2, <1>3, <2>1, <2>2, <2>3
          DEF Alone, FlightInv, CallsAreAdmitted, BindingInFlight
<1> QED BY <1>1, <1>4, <1>5

LEMMA SetWriteProtectionFlight ==
    ASSUME TypeOK, FlightInv, NEW p \in Process, Alone(p)', SetWriteProtection(p)
    PROVE  FlightInv'
<1>1. PICK write \in Save(protectionFile, "1") :
        /\ writeProtected' = [writeProtected EXCEPT ![p] = @ \/ write.ok]
        /\ \/ write.ok /\ Goto(p, "finish") /\ UNCHANGED <<call, draft>>
           \/ ~write.ok /\ Return(p, "STORAGE_ERROR")
  BY DEF SetWriteProtection
<1>2. UNCHANGED <<bindingFile, initialized>> /\ pc[p] = "protect"
  BY DEF SetWriteProtection
<1>3. initialized[p] /\ bindingFile = BoundDraft(p)
  BY <1>2 DEF FlightInv, CallsAreAdmitted, BindingInFlight
<1>4. CASE ~write.ok
  BY <1>1, <1>2, <1>3, <1>4, Labelled, CalmFlight
<1>5. CASE write.ok
  <2>1. pc'[p] = "finish" /\ draft' = draft
    BY <1>1, <1>5, Labelled
  <2>2. writeProtected'[p]
    BY <1>1, <1>5 DEF TypeOK
  <2>3. BoundDraft(p)' = BoundDraft(p)
    BY <2>1 DEF BoundDraft
  <2> QED BY <1>2, <1>3, <2>1, <2>2, <2>3
          DEF Alone, FlightInv, CallsAreAdmitted, BindingInFlight
<1> QED BY <1>4, <1>5

LEMMA FlightNext ==
    ASSUME TakeTurns, TypeOK, TurnInv, FlightInv, [Next]_vars
    PROVE  FlightInv'
<1>1. CASE UNCHANGED vars
  BY <1>1 DEF vars, files, FlightInv, CallsAreAdmitted, BindingInFlight, BoundDraft
<1> SUFFICES ASSUME NEW p \in Process, Call(p) \/ Step(p) \/ Life(p)
             PROVE  FlightInv'
  BY <1>1 DEF Next
<1>2. Alone(p)'
  BY StepsAlone
<1>3. pc[p] \notin {"down", "idle"} => initialized[p]
  BY DEF FlightInv, CallsAreAdmitted
<1>4. ASSUME NEW v \in Vin, WriteVin(p, v) \/ AuthorizeRewrite(p, v) PROVE FlightInv'
  <2>1. /\ pc'[p] \in {"idle", "establish"}
        /\ pc'[p] = "establish" => initialized'[p]
    BY <1>4, Labelled, FlowLabelled DEF WriteVin, AuthorizeRewrite, RefuseVin, Refuses
  <2> QED BY <1>2, <2>1, CalmFlight
<1>5. ASSUME \/ \E c \in Coding : WriteVehicleConfig(p, c)
             \/ \E i \in Info : WriteProductionInfo(p, i)
      PROVE  FlightInv'
  <2>1. /\ pc'[p] \in {"idle", "readConfig", "readInfo"}
        /\ pc'[p] # "idle" => initialized'[p]
    BY <1>5, Labelled DEF WriteVehicleConfig, WriteProductionInfo, RefuseData, Accepts, Refuses
  <2> QED BY <1>2, <2>1, CalmFlight
<1>6. CASE \/ \E op \in QueryOps : Query(p, op)
           \/ MarkVerified(p) \/ ReadBackInfo(p) \/ Finish(p)
           \/ ProcessStart(p) \/ Stop(p) \/ Crash(p)
  <2>1. pc'[p] \in {"idle", "down"}
    BY <1>6, Labelled DEF Query, MarkVerified, ReadBackInfo, Finish, ProcessStart, Stop, Crash, Forget
  <2> QED BY <1>2, <2>1, CalmFlight
<1>7. CASE ReadExisting(p) \/ ReadBackConfig(p)
  <2>1. pc'[p] \in {"idle", "saveWritten", "markVerified"} /\ initialized'[p]
    BY <1>3, <1>7, Labelled DEF ReadExisting, ReadBackConfig
  <2> QED BY <1>2, <2>1, CalmFlight
<1>8. CASE Initialize(p)
  BY <1>2, <1>8, CalmFlight DEF Initialize
<1>9. CASE BeginShutdown(p)
  BY <1>9 DEF BeginShutdown, files, FlightInv, CallsAreAdmitted, BindingInFlight, BoundDraft
<1> QED
  BY <1>2, <1>4, <1>5, <1>6, <1>7, <1>8, <1>9, SaveVinWrittenFlight, SaveBoundFlight,
     VerifyWriteFlight, SetWriteProtectionFlight DEF Call, Step, Life

LEMMA FlightCorrect ==
    ASSUME TakeTurns
    PROVE  Spec => []FlightInv
<1>1. Init => FlightInv
  BY DEF Init, FlightInv, CallsAreAdmitted, BindingInFlight
<1> QED BY <1>1, FlightNext, TypeCorrect, TurnsAreTaken, PTL DEF Spec

LEMMA BoundDraftIsBound ==
    ASSUME TypeOK, NEW p \in Process, pc[p] \in BindingLabels
    PROVE  Bound(BoundDraft(p))
<1>1. BoundDraft(p) \in VehicleBinding
  BY BoundBindingType DEF TypeOK, LocalsOK, BoundDraft
<1>2. BoundDraft(p).state = "BOUND"
  BY DEF TypeOK, LocalsOK, BoundDraft, VehicleBinding
<1>3. QED
  BY <1>1, <1>2, FileAssumption DEF Bound, IsBinding

-----------------------------------------------------------------------------
(* The seal, for processes that take turns on a disk that can be read.     *)

(***************************************************************************)
(* Over a closed flag no step but the sealing itself touches a file; this  *)
(* holds for any number of processes and on any disk.                      *)
(***************************************************************************)
LEMMA ClosedFlagWritesNothing ==
    ASSUME TypeOK, NEW p \in Process, Call(p) \/ Step(p) \/ Life(p),
           initialized[p] => writeProtected[p],
           pc[p] \notin {"down", "idle"} => initialized[p]
    PROVE  SetWriteProtection(p) \/ UNCHANGED files
<1>1. ASSUME NEW old, NEW new, NEW write \in ProtectedWrite(p, old, new), writeProtected[p]
      PROVE  ~write.ok /\ write.file = old
  BY <1>1, ProtectedWriteOutcomes
<1>2. CASE SaveVinWritten(p) \/ SaveBound(p)
  <2>1. writeProtected[p] /\ UNCHANGED <<configFile, infoFile, protectionFile>>
    BY <1>2 DEF SaveVinWritten, SaveBound, WriteBinding
  <2>2. bindingFile' = bindingFile
    BY <1>1, <1>2, <2>1 DEF SaveVinWritten, SaveBound, WriteBinding
  <2> QED BY <2>1, <2>2 DEF files
<1>3. CASE MarkVerified(p)
  <2> DEFINE verified == Config(call[p].arg, TRUE)
  <2>1. PICK write \in ProtectedWrite(p, configFile, verified) : configFile' = write.file
    BY <1>3 DEF MarkVerified
  <2>2. writeProtected[p] /\ UNCHANGED <<bindingFile, infoFile, protectionFile>>
    BY <1>3 DEF MarkVerified
  <2> HIDE DEF verified
  <2> QED BY <1>1, <2>1, <2>2 DEF files
<1>4. CASE \/ \E c \in Coding : WriteVehicleConfig(p, c)
           \/ \E i \in Info : WriteProductionInfo(p, i)
  BY <1>4 DEF WriteVehicleConfig, WriteProductionInfo, RefuseData, Accepts, Refuses
<1>5. CASE \/ \E v \in Vin : WriteVin(p, v) \/ AuthorizeRewrite(p, v)
           \/ \E op \in QueryOps : Query(p, op)
  BY <1>5 DEF WriteVin, AuthorizeRewrite, Query
<1>6. CASE ReadExisting(p) \/ VerifyWrite(p) \/ Finish(p) \/ ReadBackConfig(p) \/ ReadBackInfo(p)
  BY <1>6 DEF ReadExisting, VerifyWrite, Finish, ReadBackConfig, ReadBackInfo
<1>7. CASE Life(p)
  BY <1>7 DEF Life, ProcessStart, Initialize, BeginShutdown, Stop, Crash, Forget
<1> QED BY <1>2, <1>3, <1>4, <1>5, <1>6, <1>7 DEF Call, Step

(***************************************************************************)
(* A process that takes over a sealed store closes its flag, and none      *)
(* opens it.                                                               *)
(***************************************************************************)
LEMMA FlagStaysClosed ==
    ASSUME "read" \notin Faults, TypeOK, FlagFollowsFile, protectionFile = "1",
           NEW p \in Process, Call(p) \/ Step(p) \/ Life(p)
    PROVE  initialized'[p] => writeProtected'[p]
<1>1. initialized[p] => writeProtected[p]
  BY DEF FlagFollowsFile
<1>2. CASE Initialize(p)
  <2>1. PICK ok \in Initializes, loaded \in Load(protectionFile) :
          /\ initialized' = [initialized EXCEPT ![p] = ok]
          /\ writeProtected' = [writeProtected EXCEPT ![p] = ok /\ ProtectionFrom(loaded)]
    BY <1>2 DEF Initialize
  <2>2. loaded = "1"
    BY LoadOutcomes, FileAssumption
  <2> QED BY <2>1, <2>2 DEF TypeOK, ProtectionFrom
<1>3. CASE SetWriteProtection(p)
  <2>1. PICK write \in Save(protectionFile, "1") :
          writeProtected' = [writeProtected EXCEPT ![p] = @ \/ write.ok]
    BY <1>3 DEF SetWriteProtection
  <2>2. writeProtected'[p] = (writeProtected[p] \/ write.ok)
    BY <2>1 DEF TypeOK
  <2>3. initialized' = initialized
    BY <1>3 DEF SetWriteProtection
  <2> QED BY <1>1, <2>2, <2>3
<1>4. CASE Stop(p) \/ Crash(p)
  BY <1>4 DEF Stop, Crash, Forget, TypeOK
<1>5. CASE ProcessStart(p) \/ BeginShutdown(p)
  BY <1>1, <1>5 DEF ProcessStart, BeginShutdown
<1>6. CASE Call(p)
  BY <1>1, <1>6 DEF Call, WriteVin, AuthorizeRewrite, WriteVehicleConfig, WriteProductionInfo, Query
<1>7. CASE Step(p) /\ ~SetWriteProtection(p)
  BY <1>1, <1>7 DEF Step, ReadExisting, SaveVinWritten, SaveBound, WriteBinding, VerifyWrite,
                    Finish, ReadBackConfig, MarkVerified, ReadBackInfo
<1> QED BY <1>2, <1>3, <1>4, <1>5, <1>6, <1>7 DEF Life

(***************************************************************************)
(* Only the sealing step of a call seals, over the binding the call saved. *)
(***************************************************************************)
LEMMA SealedBySealing ==
    ASSUME TypeOK, FlightInv, NEW p \in Process, Call(p) \/ Step(p) \/ Life(p),
           protectionFile # "1", protectionFile' = "1"
    PROVE  /\ SetWriteProtection(p) /\ writeProtected'[p]
           /\ bindingFile = BoundDraft(p) /\ Bound(bindingFile) /\ bindingFile' = bindingFile
<1>1. SetWriteProtection(p)
  BY SeenStepsOf DEF SaveVinWritten, SaveBound, WriteBinding, Finish, files
<1>2. bindingFile = BoundDraft(p) /\ Bound(BoundDraft(p)) /\ bindingFile' = bindingFile
  BY <1>1, BoundDraftIsBound DEF SetWriteProtection, FlightInv, BindingInFlight, BindingLabels
<1>3. PICK write \in Save(protectionFile, "1") :
        /\ protectionFile' = write.file
        /\ writeProtected' = [writeProtected EXCEPT ![p] = @ \/ write.ok]
  BY <1>1 DEF SetWriteProtection
<1>4. write.ok
  BY <1>3, SaveOutcomes
<1>5. writeProtected'[p]
  BY <1>3, <1>4 DEF TypeOK
<1> QED BY <1>1, <1>2, <1>5

LEMMA FrozenStep ==
    ASSUME TypeOK, SealInv, [Next]_vars, protectionFile = "1"
    PROVE  UNCHANGED files
<1>1. CASE UNCHANGED vars
  BY <1>1 DEF vars
<1>2. ASSUME NEW p \in Process, Call(p) \/ Step(p) \/ Life(p) PROVE UNCHANGED files
  <2>1. /\ initialized[p] => writeProtected[p]
        /\ pc[p] \notin {"down", "idle"} => initialized[p]
    BY DEF SealInv, FlightInv, FlagFollowsFile, CallsAreAdmitted
  <2>2. ~ SetWriteProtection(p)
    BY <2>1 DEF SetWriteProtection, SealInv, FlightInv, CallsAreAdmitted
  <2> QED BY <1>2, <2>1, <2>2, ClosedFlagWritesNothing
<1> QED BY <1>1, <1>2 DEF Next

LEMMA SealNext ==
    ASSUME TakeTurns, "read" \notin Faults, TypeOK, TurnInv, SealInv, [Next]_vars
    PROVE  SealInv'
<1>1. FlightInv'
  BY FlightNext DEF SealInv
<1>2. CASE UNCHANGED vars
  BY <1>1, <1>2 DEF vars, files, SealInv, FlagFollowsFile, SealedMeansBound, Bound, IsBinding
<1>3. ASSUME NEW p \in Process, Call(p) \/ Step(p) \/ Life(p) PROVE SealInv'
  <2>1. Alone(p)'
    BY <1>3, StepsAlone
  <2>2. CASE protectionFile = "1"
    <3>1. UNCHANGED files
      BY <2>2, FrozenStep
    <3>2. initialized'[p] => writeProtected'[p]
      BY <1>3, <2>2, FlagStaysClosed DEF SealInv
    <3>3. FlagFollowsFile' /\ SealedMeansBound'
      BY <2>1, <3>1, <3>2
         DEF Alone, files, SealInv, FlagFollowsFile, SealedMeansBound, Bound, IsBinding
    <3> QED BY <1>1, <3>3 DEF SealInv
  <2>3. CASE protectionFile # "1" /\ protectionFile' = "1"
    <3>1. writeProtected'[p] /\ Bound(bindingFile')
      BY <1>3, <2>3, SealedBySealing DEF SealInv
    <3>2. FlagFollowsFile' /\ SealedMeansBound'
      BY <2>1, <3>1 DEF Alone, FlagFollowsFile, SealedMeansBound, Bound, IsBinding
    <3> QED BY <1>1, <3>2 DEF SealInv
  <2>4. CASE protectionFile' # "1"
    BY <1>1, <2>4 DEF SealInv, FlagFollowsFile, SealedMeansBound
  <2> QED BY <2>2, <2>3, <2>4
<1> QED BY <1>2, <1>3 DEF Next

(***************************************************************************)
(* With processes that take turns on a disk that can be read, the cached   *)
(* flag is never more open than the protection file and a sealed store     *)
(* always holds a complete binding, whatever save is refused or cut short  *)
(* and wherever a process dies.                                            *)
(***************************************************************************)
THEOREM SealCorrect ==
    ASSUME TakeTurns, "read" \notin Faults
    PROVE  Spec => []SealInv
<1>1. Init => SealInv
  <2>1. ASSUME Init PROVE protectionFile # "1"
    BY <2>1, FileAssumption DEF Init
  <2>2. Init => FlightInv
    BY DEF Init, FlightInv, CallsAreAdmitted, BindingInFlight
  <2> QED BY <2>1, <2>2 DEF SealInv, FlagFollowsFile, SealedMeansBound
<1>2. TypeOK /\ TurnInv /\ SealInv /\ [Next]_vars => SealInv'
  BY SealNext
<1> QED BY <1>1, <1>2, TypeCorrect, TurnsAreTaken, PTL DEF Spec

(***************************************************************************)
(* Once the protection file says "1" nothing writes a file again, when     *)
(* processes take turns on a disk that can be read: the write protection   *)
(* survives every call, failure, crash, restart and change of process.     *)
(***************************************************************************)
THEOREM FrozenCorrect ==
    ASSUME TakeTurns, "read" \notin Faults
    PROVE  Spec => FrozenOnceProtected
<1>1. TypeOK /\ SealInv /\ [Next]_vars => [protectionFile = "1" => UNCHANGED files]_vars
  BY FrozenStep
<1>2. QED
  BY <1>1, TypeCorrect, SealCorrect, PTL DEF Spec, FrozenOnceProtected

-----------------------------------------------------------------------------
(* The acknowledged VIN, when the disk cuts no file short either.          *)

AckInv == FinishIsSealed /\ AckedVinKept

(***************************************************************************)
(* Only the last step of a binding flow acknowledges a VIN.                *)
(***************************************************************************)
LEMMA AcknowledgedByFinish ==
    ASSUME [Next]_vars
    PROVE  acked' = acked \/ \E p \in Process : Finish(p)
BY DEF Next, vars, Call, Step, Life, WriteVin, AuthorizeRewrite, WriteVehicleConfig,
   WriteProductionInfo, Query, ReadExisting, SaveVinWritten, SaveBound, WriteBinding,
   VerifyWrite, SetWriteProtection, ReadBackConfig, MarkVerified, ReadBackInfo,
   ProcessStart, Initialize, BeginShutdown, Stop, Crash, Forget

(***************************************************************************)
(* With write protection enabled a call comes to its answer through the    *)
(* protection file alone.                                                  *)
(***************************************************************************)
LEMMA FinishBehindSeal ==
    ASSUME "torn" \notin Faults, EnableWriteProtection, TypeOK, [Next]_vars,
           NEW p \in Process, pc'[p] = "finish", pc[p] # "finish"
    PROVE  protectionFile' = "1"
<1>1. CASE UNCHANGED vars
  BY <1>1 DEF vars
<1>2. ASSUME NEW q \in Process, q # p PROVE ~(Call(q) \/ Step(q) \/ Life(q))
  BY <1>2, OthersStay DEF Own
<1>3. SUFFICES ASSUME Call(p) \/ Step(p) \/ Life(p)
               PROVE  protectionFile' = "1"
  BY <1>1, <1>2 DEF Next
<1>4. CASE SetWriteProtection(p)
  <2>1. PICK write \in Save(protectionFile, "1") :
          /\ protectionFile' = write.file
          /\ write.ok \/ Return(p, "STORAGE_ERROR")
    BY <1>4 DEF SetWriteProtection
  <2>2. write.ok
    BY <2>1, Labelled
  <2>3. QED
    BY <2>1, <2>2, SaveOutcomes
<1>5. CASE SaveVinWritten(p) \/ SaveBound(p) \/ VerifyWrite(p)
  BY <1>5, Labelled DEF SaveVinWritten, SaveBound, WriteBinding, VerifyWrite, AfterVerify
<1>6. CASE \/ ReadExisting(p) \/ Finish(p)
           \/ ReadBackConfig(p) \/ MarkVerified(p) \/ ReadBackInfo(p)
  BY <1>6, Labelled DEF ReadExisting, Finish, ReadBackConfig, MarkVerified, ReadBackInfo
<1>7. CASE \E v \in Vin : WriteVin(p, v) \/ AuthorizeRewrite(p, v)
  BY <1>7, Labelled, FlowLabelled DEF WriteVin, AuthorizeRewrite, RefuseVin
<1>8. CASE \/ \E c \in Coding : WriteVehicleConfig(p, c)
           \/ \E i \in Info : WriteProductionInfo(p, i)
           \/ \E op \in QueryOps : Query(p, op)
  BY <1>8, Labelled DEF WriteVehicleConfig, WriteProductionInfo, RefuseData, Query
<1>9. CASE Life(p)
  BY <1>9, Labelled DEF Life, ProcessStart, Initialize, BeginShutdown, Stop, Crash, Forget
<1>10. QED
  BY <1>3, <1>4, <1>5, <1>6, <1>7, <1>8, <1>9 DEF Call, Step

LEMMA AckNext ==
    ASSUME "torn" \notin Faults, TypeOK, SealInv, AckInv, [Next]_vars
    PROVE  AckInv'
<1>1. FinishIsSealed'
  <2> SUFFICES ASSUME NEW p \in Process, pc'[p] = "finish", EnableWriteProtection
               PROVE  protectionFile' = "1"
    BY DEF FinishIsSealed
  <2>1. CASE pc[p] = "finish"
    BY <2>1, FrozenStep DEF AckInv, FinishIsSealed, files
  <2>2. CASE pc[p] # "finish"
    BY <2>2, FinishBehindSeal
  <2>3. QED
    BY <2>1, <2>2
<1>2. AckedVinKept'
  <2> SUFFICES ASSUME EnableWriteProtection, acked' # Absent
               PROVE  /\ protectionFile' = "1"
                      /\ Bound(bindingFile') /\ bindingFile'.vin = acked'
    BY DEF AckedVinKept, Bound, IsBinding
  <2>1. CASE acked' = acked
    BY <2>1, FrozenStep DEF AckInv, AckedVinKept, files
  <2>2. ASSUME NEW p \in Process, Finish(p)
        PROVE  /\ protectionFile' = "1"
               /\ Bound(bindingFile') /\ bindingFile'.vin = acked'
    <3>1. /\ pc[p] = "finish" /\ acked' = draft[p].vin
          /\ UNCHANGED <<bindingFile, protectionFile>>
      BY <2>2 DEF Finish, files
    <3>2. protectionFile = "1" /\ bindingFile = BoundDraft(p)
      BY <3>1 DEF AckInv, FinishIsSealed, SealInv, FlightInv, BindingInFlight
    <3>3. BoundDraft(p).vin = draft[p].vin
      BY <3>1 DEF BoundDraft, TypeOK, LocalsOK, BindingLabels, VehicleBinding
    <3>4. QED
      BY <3>1, <3>2, <3>3 DEF SealInv, SealedMeansBound
  <2>3. QED
    BY <2>1, <2>2, AcknowledgedByFinish
<1>3. QED
  BY <1>1, <1>2 DEF AckInv

(***************************************************************************)
(* A VIN acknowledged with SUCCESS is kept for good, with its seal, when   *)
(* processes take turns on a disk that can be read and cuts no file short: *)
(* saves may be refused and a process may die at any point.                *)
(***************************************************************************)
THEOREM AckedVinKeptCorrect ==
    ASSUME TakeTurns, "read" \notin Faults, "torn" \notin Faults
    PROVE  Spec => []AckedVinKept
<1>1. Init => AckInv
  BY DEF Init, AckInv, FinishIsSealed, AckedVinKept
<1>2. TypeOK /\ SealInv /\ AckInv /\ [Next]_vars => AckInv'
  BY AckNext
<1>3. AckInv => AckedVinKept
  BY DEF AckInv
<1>4. QED
  BY <1>1, <1>2, <1>3, TypeCorrect, SealCorrect, PTL DEF Spec

-----------------------------------------------------------------------------
(* The service implements Provisioning.                                    *)

BindingNotTorn == bindingFile # Torn

(***************************************************************************)
(* A save of the binding file on a disk that cuts nothing short: the old   *)
(* file when it fails, the binding otherwise.                              *)
(***************************************************************************)
LEMMA WriteBindingSound ==
    ASSUME "torn" \notin Faults, NEW p \in Process, NEW binding, NEW next,
           WriteBinding(p, binding, next)
    PROVE  /\ bindingFile' = bindingFile \/ (bindingFile' = binding /\ ~writeProtected[p])
           /\ UNCHANGED <<protectionFile, acked>>
<1>1. PICK write \in ProtectedWrite(p, bindingFile, binding) : bindingFile' = write.file
  BY DEF WriteBinding
<1>2. bindingFile' = bindingFile \/ (bindingFile' = binding /\ ~writeProtected[p])
  BY <1>1, ProtectedWriteOutcomes
<1>3. QED
  BY <1>2 DEF WriteBinding

LEMMA NotTornNext ==
    ASSUME "torn" \notin Faults, TypeOK, BindingNotTorn, [Next]_vars
    PROVE  BindingNotTorn'
<1>1. CASE UNCHANGED <<bindingFile, protectionFile, acked>>
  BY <1>1 DEF BindingNotTorn
<1>2. ASSUME NEW p \in Process, SaveVinWritten(p) \/ SaveBound(p)
      PROVE  BindingNotTorn'
  <2>1. draft[p] \in VehicleBinding
    BY <1>2 DEF SaveVinWritten, SaveBound, TypeOK, LocalsOK, BindingLabels
  <2>2. draft[p] # Torn /\ [draft[p] EXCEPT !.state = "BOUND"] # Torn
    BY <2>1, BoundBindingType, FileAssumption
  <2>3. QED
    BY <1>2, <2>2, WriteBindingSound DEF SaveVinWritten, SaveBound, BindingNotTorn
<1>3. ASSUME NEW p \in Process, SetWriteProtection(p) \/ Finish(p)
      PROVE  BindingNotTorn'
  BY <1>3 DEF SetWriteProtection, Finish, files, BindingNotTorn
<1>4. QED
  BY <1>1, <1>2, <1>3, SeenSteps

LEMMA RefinementInit == Init => Promised!Init
<1> SUFFICES ASSUME Init PROVE Promised!Init
  OBVIOUS
<1>1. protectionFile # "1" /\ acked = Absent
  BY FileAssumption DEF Init
<1>2. CASE bindingFile = Absent
  BY <1>1, <1>2 DEF Promised!Init, IsBinding
<1>3. CASE bindingFile # Absent
  <2>1. PICK v \in LegacyVin, u \in Uid : bindingFile = LegacyBinding(v, u)
    BY <1>3 DEF Init
  <2>2. bindingFile \in VehicleBinding
    BY <2>1, LegacyBindingType
  <2>3. IsBinding(bindingFile)
    BY <2>2, FileAssumption DEF IsBinding
  <2>4. bindingFile.vin \in Vin /\ bindingFile.state = "BOUND"
    BY <2>1, ServiceAssumption DEF LegacyBinding
  <2>5. QED
    BY <1>1, <2>3, <2>4 DEF Promised!Init
<1>4. QED
  BY <1>2, <1>3

LEMMA RefinementNext ==
    ASSUME "torn" \notin Faults, TypeOK, SealInv, AckInv, BindingNotTorn, [Next]_vars
    PROVE  [Promised!Next]_Promised!pvars
<1>1. CASE UNCHANGED <<bindingFile, protectionFile, acked>>
  BY <1>1 DEF Promised!pvars, IsBinding
<1>2. ASSUME NEW p \in Process, pc[p] \in BindingLabels
      PROVE  /\ IsBinding(draft[p]) /\ draft[p].vin \in Vin /\ draft[p].state = "VIN_WRITTEN"
             /\ Bound(BoundDraft(p)) /\ BoundDraft(p).vin = draft[p].vin
             /\ ~writeProtected[p] => protectionFile # "1"
  <2>1. draft[p] \in VehicleBinding /\ draft[p].state = "VIN_WRITTEN"
    BY <1>2 DEF TypeOK, LocalsOK
  <2>2. IsBinding(draft[p]) /\ draft[p].vin \in Vin /\ BoundDraft(p).vin = draft[p].vin
    BY <2>1, FileAssumption DEF IsBinding, BoundDraft, VehicleBinding
  <2>3. initialized[p]
    BY <1>2 DEF SealInv, FlightInv, CallsAreAdmitted, BindingLabels
  <2>4. QED
    BY <1>2, <2>1, <2>2, <2>3, BoundDraftIsBound DEF SealInv, FlagFollowsFile
<1>3. ASSUME NEW p \in Process, SaveVinWritten(p)
      PROVE  [Promised!Next]_Promised!pvars
  <2>1. pc[p] \in BindingLabels
    BY <1>3 DEF SaveVinWritten, BindingLabels
  <2>2. /\ bindingFile' = bindingFile \/ (bindingFile' = draft[p] /\ ~writeProtected[p])
        /\ UNCHANGED <<protectionFile, acked>>
    BY <1>3, WriteBindingSound DEF SaveVinWritten
  <2>3. CASE bindingFile' = bindingFile
    BY <1>1, <2>2, <2>3
  <2>4. CASE bindingFile' = draft[p] /\ ~writeProtected[p]
    <3>1. Promised!Put(draft[p].vin)
      BY <1>2, <2>1, <2>2, <2>4 DEF Promised!Put, IsBinding
    <3>2. QED
      BY <1>2, <2>1, <3>1 DEF Promised!Next
  <2>5. QED
    BY <2>2, <2>3, <2>4
<1>4. ASSUME NEW p \in Process, SaveBound(p)
      PROVE  [Promised!Next]_Promised!pvars
  <2>1. pc[p] \in BindingLabels
    BY <1>4 DEF SaveBound, BindingLabels
  <2>2. /\ bindingFile' = bindingFile \/ (bindingFile' = BoundDraft(p) /\ ~writeProtected[p])
        /\ UNCHANGED <<protectionFile, acked>>
    BY <1>4, WriteBindingSound DEF SaveBound, BoundDraft
  <2>3. CASE bindingFile' = bindingFile
    BY <1>1, <2>2, <2>3
  <2>4. CASE bindingFile' = BoundDraft(p) /\ ~writeProtected[p]
    <3>1. bindingFile = draft[p]
      BY <1>4 DEF SaveBound, SealInv, FlightInv, BindingInFlight, BindingNotTorn
    <3>2. Promised!Bind
      BY <1>2, <2>1, <2>2, <2>4, <3>1 DEF Promised!Bind, IsBinding, Bound
    <3>3. QED
      BY <3>2 DEF Promised!Next
  <2>5. QED
    BY <2>2, <2>3, <2>4
<1>5. ASSUME NEW p \in Process, SetWriteProtection(p)
      PROVE  [Promised!Next]_Promised!pvars
  <2>1. PICK write \in Save(protectionFile, "1") : protectionFile' = write.file
    BY <1>5 DEF SetWriteProtection
  <2>2. protectionFile' \in {protectionFile, "1"} /\ UNCHANGED <<bindingFile, acked>>
    BY <1>5, <2>1, SaveOutcomes DEF SetWriteProtection
  <2>3. /\ bindingFile = BoundDraft(p) /\ protectionFile # "1"
    BY <1>2, <1>5 DEF SetWriteProtection, SealInv, FlightInv, BindingInFlight, CallsAreAdmitted, BindingLabels
  <2>4. CASE protectionFile' = "1"
    <3>1. Bound(bindingFile)
      BY <1>2, <1>5, <2>3 DEF SetWriteProtection, BindingLabels
    <3>2. Promised!Seal
      BY <2>2, <2>3, <2>4, <3>1 DEF Promised!Seal, IsBinding, Bound
    <3>3. QED
      BY <3>2 DEF Promised!Next
  <2>5. QED
    BY <1>1, <2>2, <2>4
<1>6. ASSUME NEW p \in Process, Finish(p)
      PROVE  [Promised!Next]_Promised!pvars
  <2>1. /\ acked' = draft[p].vin /\ UNCHANGED <<bindingFile, protectionFile>>
        /\ pc[p] = "finish"
    BY <1>6 DEF Finish, files
  <2>2. /\ bindingFile = BoundDraft(p)
        /\ EnableWriteProtection => protectionFile = "1"
    BY <2>1 DEF SealInv, FlightInv, BindingInFlight, AckInv, FinishIsSealed
  <2>3. Bound(bindingFile) /\ bindingFile.vin = draft[p].vin
    BY <1>2, <2>1, <2>2 DEF BindingLabels
  <2>4. Promised!Promise
    BY <2>1, <2>2, <2>3 DEF Promised!Promise, Bound, IsBinding
  <2>5. QED
    BY <2>4 DEF Promised!Next
<1>7. QED
  BY <1>1, <1>3, <1>4, <1>5, <1>6, SeenSteps

(***************************************************************************)
(* The service, as processes that take turns on a disk that can be read    *)
(* and cuts no file short, implements the abstract provisioning: write,    *)
(* bind, seal, promise.                                                    *)
(***************************************************************************)
THEOREM ServiceRefinesProvisioning ==
    ASSUME TakeTurns, "read" \notin Faults, "torn" \notin Faults
    PROVE  Spec => RefinesProvisioning
<1>1. Init => AckInv /\ BindingNotTorn
  <2>1. Init => BindingNotTorn
    BY LegacyBindingType, FileAssumption, AbsentAssumption DEF Init, BindingNotTorn
  <2>2. QED
    BY <2>1 DEF Init, AckInv, FinishIsSealed, AckedVinKept
<1>2. TypeOK /\ SealInv /\ AckInv /\ BindingNotTorn /\ [Next]_vars => (AckInv /\ BindingNotTorn)'
  BY AckNext, NotTornNext
<1>3. TypeOK /\ SealInv /\ AckInv /\ BindingNotTorn /\ [Next]_vars => [Promised!Next]_Promised!pvars
  BY RefinementNext
<1>4. QED
  BY <1>1, <1>2, <1>3, RefinementInit, TypeCorrect, SealCorrect, PTL
     DEF Spec, RefinesProvisioning, Promised!Spec
=============================================================================
