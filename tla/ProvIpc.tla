------------------------------- MODULE ProvIpc ------------------------------
(***************************************************************************)
(* Clients of the provisioning daemon: ProvClient on one side, the         *)
(* dispatcher behind the server's connection threads on the other.         *)
(*                                                                         *)
(* A call of ProvClient is one request to the daemon.  When the transport  *)
(* fails or the answer is late the framework's client drops the            *)
(* connection, connects again and repeats the request once; the first      *)
(* request may have been carried out, may be running, or may still lie     *)
(* unread in the abandoned connection.  What a write does to the vehicle   *)
(* is that of Provisioning, which ProvService implements.                  *)
(***************************************************************************)
EXTENDS Naturals

CONSTANTS
    Client,        \* the users of ProvClient
    Connection,    \* the connections the server has room for
    NoOne,         \* neither a client nor a connection
    Vin,           \* the VINs that are asked for
    ValidVin,      \* those VinValidator::validate accepts
    NoVin,         \* the empty string
    SealFirst,     \* storage.enable_write_protection
    Request,       \* the requests that are made: see ipc_protocol.h
    MaxCalls       \* bound on the calls of all clients

VinOps == {"write_vin", "authorize_rewrite"}
DataOps == {"write_vehicle_config", "write_production_info"}
ReadOps == {"read_vin", "read_binding", "get_provision_state"}
Ops == VinOps \cup DataOps \cup ReadOps \cup {"initialize"}

ASSUME IpcAssumption ==
    /\ NoOne \notin Client \cup Connection
    /\ ValidVin \subseteq Vin
    /\ NoVin \notin Vin
    /\ SealFirst \in BOOLEAN
    /\ MaxCalls \in Nat
    /\ Request \subseteq [op : Ops, arg : Vin \cup {NoVin}]

\* The framework's client repeats a failed call once.
MaxTries == 2

Codes == {"SUCCESS", "INVALID_STATE", "INVALID_VIN_FORMAT", "FAILED",
          "CONFIG_WRITE_FAILED", "PRODUCTION_INFO_WRITE_FAILED", "HANDLER_FAILED",
          "SERVER_ERROR"}

VARIABLES
    vin, state, sealed, promised,    \* the vehicle, as in Provisioning
    daemon,        \* "down", "starting", "up" or "closing"
    mutex,         \* the connection whose call is in the service
    conn,          \* the connections
    phase,         \* where the call of each client stands
    link,          \* the connection each client believes it has
    tries,         \* how often its call has been sent or was to be sent
    asked,         \* its request
    calls,         \* how many calls have been made
    told,          \* history: the VINs a client was told SUCCESS for
    seen           \* history: the vehicle between the writes, since a query

vehicle == <<vin, state, sealed, promised>>
clients == <<phase, link, tries, asked, calls, told>>
vars == <<vehicle, daemon, mutex, conn, clients, seen>>

Vehicle == INSTANCE Provisioning WITH Vin <- ValidVin

Phases == {"idle", "connecting", "sending", "waiting"}

\* The stages of a request.  One that is sent lies in the socket or waits
\* for the mutex; one inside is running in the service.
Inside == {"begun", "written", "bound", "sealed"}
Stages == {"free", "open", "sent", "replied"} \cup Inside

NoRequest == [op |-> "none", arg |-> NoVin]

\* A reply is a status and the fields of a binding.  A field that is left
\* out reads as its default, the empty VIN and NONE.
Said(status) == [status |-> status, vin |-> NoVin, state |-> "NONE"]
Free == [stage |-> "free", owner |-> NoOne, request |-> NoRequest, reply |-> Said("none")]

\* What the vehicle is, and the part of it each query answers with.
Now == [status |-> "SUCCESS", vin |-> vin, state |-> state]

View(op, snapshot) ==
    CASE op = "read_vin" -> [snapshot EXCEPT !.state = "NONE"]
      [] op = "get_provision_state" -> [snapshot EXCEPT !.vin = NoVin]
      [] op = "read_binding" -> snapshot

Init ==
    /\ Vehicle!Init
    /\ daemon = "down"
    /\ mutex = NoOne
    /\ conn = [c \in Connection |-> Free]
    /\ phase = [k \in Client |-> "idle"]
    /\ link = [k \in Client |-> NoOne]
    /\ tries = [k \in Client |-> 0]
    /\ asked = [k \in Client |-> NoRequest]
    /\ calls = 0
    /\ told = {}
    /\ seen = [k \in Client |-> {}]

\* The vehicle as every step leaves it, if a query could read it now.
Observe ==
    seen' = [k \in Client |->
                IF asked'[k].op \notin ReadOps THEN {}
                ELSE seen[k] \cup (IF mutex' = NoOne THEN {Now'} ELSE {})]

-----------------------------------------------------------------------------
(* ProvClient.                                                             *)

Holds(k) == link[k] # NoOne /\ conn[link[k]].owner = k

Invoke(k, r) ==
    /\ phase[k] = "idle"
    /\ phase' = [phase EXCEPT ![k] = IF link[k] = NoOne THEN "connecting" ELSE "sending"]
    /\ tries' = [tries EXCEPT ![k] = 1]
    /\ asked' = [asked EXCEPT ![k] = r]
    /\ calls < MaxCalls /\ calls' = calls + 1
    /\ UNCHANGED <<vehicle, daemon, mutex, conn, link, told>>

\* A request put into a connection.
Carry(k, c) ==
    /\ conn' = [conn EXCEPT ![c] =
                   [Free EXCEPT !.stage = "sent", !.owner = k, !.request = asked[k]]]
    /\ phase' = [phase EXCEPT ![k] = "waiting"]
    /\ UNCHANGED <<vehicle, daemon, mutex, tries, asked, calls, told>>

\* connect() of a client that makes no call yet.
Open(k) ==
    /\ phase[k] = "idle" /\ link[k] = NoOne
    /\ daemon = "up"
    /\ \E c \in Connection :
        /\ conn[c].stage = "free"
        /\ conn' = [conn EXCEPT ![c] = [Free EXCEPT !.stage = "open", !.owner = k]]
        /\ link' = [link EXCEPT ![k] = c]
    /\ UNCHANGED <<vehicle, daemon, mutex, phase, tries, asked, calls, told>>

Connect(k) ==
    /\ phase[k] = "connecting"
    /\ daemon = "up"
    /\ \E c \in Connection :
        /\ conn[c].stage = "free"
        /\ Carry(k, c)
        /\ link' = [link EXCEPT ![k] = c]

Send(k) ==
    /\ phase[k] = "sending"
    /\ Holds(k)
    /\ Carry(k, link[k])
    /\ UNCHANGED link

\* What a call returns when no reply or an error of the server came: a query has no status to tell.
Unanswered(op) == Said(IF op \in ReadOps THEN "none" ELSE "INVALID_STATE")

\* What a call returns of the reply.
Decoded(op, reply) ==
    IF reply.status = "SERVER_ERROR" THEN Unanswered(op)
    ELSE IF op \in ReadOps THEN [reply EXCEPT !.status = "none"] ELSE reply

Return(k, ans) ==
    /\ phase' = [phase EXCEPT ![k] = "idle"]
    /\ tries' = [tries EXCEPT ![k] = 0]
    /\ asked' = [asked EXCEPT ![k] = NoRequest]
    /\ UNCHANGED calls
    /\ told' = told \cup (IF asked[k].op \in VinOps /\ ans.status = "SUCCESS"
                          THEN {asked[k].arg} ELSE {})

Receive(k) ==
    /\ phase[k] = "waiting"
    /\ Holds(k)
    /\ conn[link[k]].stage = "replied"
    /\ Return(k, Decoded(asked[k].op, conn[link[k]].reply))
    /\ conn' = [conn EXCEPT ![link[k]] = [Free EXCEPT !.stage = "open", !.owner = k]]
    /\ UNCHANGED <<vehicle, daemon, mutex, link>>

\* The client's end is closed.  A request the thread has not finished is
\* carried out all the same.
Abandoned(k) ==
    IF ~Holds(k) THEN conn
    ELSE IF conn[link[k]].stage \in {"open", "replied"}
         THEN [conn EXCEPT ![link[k]] = Free]
         ELSE [conn EXCEPT ![link[k]].owner = NoOne]

\* Slips: one try too many; tries are not counted.
FailOnceMore(k) ==
    /\ phase[k] # "idle"
    /\ conn' = Abandoned(k)
    /\ link' = [link EXCEPT ![k] = NoOne]
    /\ \/ /\ tries[k] <= MaxTries
          /\ tries' = [tries EXCEPT ![k] = @ + 1]
          /\ phase' = [phase EXCEPT ![k] = "connecting"]
          /\ UNCHANGED <<asked, calls, told>>
       \/ tries[k] > MaxTries /\ Return(k, Unanswered(asked[k].op))
    /\ UNCHANGED <<vehicle, daemon, mutex>>

FailUncounted(k) ==
    /\ phase[k] # "idle"
    /\ conn' = Abandoned(k)
    /\ link' = [link EXCEPT ![k] = NoOne]
    /\ phase' = [phase EXCEPT ![k] = "connecting"]
    /\ UNCHANGED <<vehicle, daemon, mutex, tries, asked, calls, told>>

\* No connection, a broken one, or no answer in time.
Fail(k) ==
    /\ phase[k] # "idle"
    /\ conn' = Abandoned(k)
    /\ link' = [link EXCEPT ![k] = NoOne]
    /\ \/ /\ tries[k] < MaxTries
          /\ tries' = [tries EXCEPT ![k] = @ + 1]
          /\ phase' = [phase EXCEPT ![k] = "connecting"]
          /\ UNCHANGED <<asked, calls, told>>
       \/ tries[k] = MaxTries /\ Return(k, Unanswered(asked[k].op))
    /\ UNCHANGED <<vehicle, daemon, mutex>>

Disconnect(k) ==
    /\ phase[k] = "idle" /\ link[k] # NoOne
    /\ conn' = Abandoned(k)
    /\ link' = [link EXCEPT ![k] = NoOne]
    /\ UNCHANGED <<vehicle, daemon, mutex, phase, tries, asked, calls, told>>

-----------------------------------------------------------------------------
(* The connection threads and the dispatcher.                              *)

Move(c, stage) == conn' = [conn EXCEPT ![c].stage = stage]

\* A reply to a client that is gone goes nowhere.
Reply(c, reply) ==
    conn' = IF conn[c].owner = NoOne
            THEN [conn EXCEPT ![c] = Free]
            ELSE [conn EXCEPT ![c].stage = "replied", ![c].reply = reply]

\* What the dispatcher answers without asking the service, if anything.
Rejection(r) ==
    CASE r.op \in VinOps /\ r.arg = NoVin -> "INVALID_VIN_FORMAT"
      [] r.op = "write_vehicle_config" -> "CONFIG_WRITE_FAILED"
      [] r.op = "write_production_info" -> "PRODUCTION_INFO_WRITE_FAILED"
      [] OTHER -> "none"

\* Before the mutex; the server may also answer with an error of its own.
Reject(c) ==
    /\ conn[c].stage = "sent"
    /\ \E code \in {Rejection(conn[c].request), "SERVER_ERROR"} \ {"none"} :
          Reply(c, Said(code))
    /\ UNCHANGED <<vehicle, daemon, mutex, clients>>

\* Slip: the service has no mutex.
AdmittedAlways(c) ==
    /\ conn[c].stage = "sent"
    /\ Rejection(conn[c].request) = "none"

\* The service's turn: its mutex is free.
Admitted(c) ==
    /\ conn[c].stage = "sent" /\ mutex = NoOne
    /\ Rejection(conn[c].request) = "none"

\* Queries and initialize answer at once.  A binding file that does not load
\* reads as the defaults; what else is thrown is caught in dispatch.
Answers(r) ==
    {Said("SUCCESS"), Said("HANDLER_FAILED")}
      \cup (IF r.op \in ReadOps THEN {View(r.op, Now)} ELSE {})

Query(c) ==
    /\ Admitted(c)
    /\ conn[c].request.op \notin VinOps
    /\ \E reply \in Answers(conn[c].request) : Reply(c, reply)
    /\ UNCHANGED <<vehicle, daemon, mutex, clients>>

\* Slip: a service that is shutting down still accepts writes.
RefusalsOfVin(r) == IF r.arg \notin ValidVin THEN {"INVALID_VIN_FORMAT"} ELSE {}

\* What a write is refused with before it begins.
Refusals(r) ==
    IF daemon = "closing" THEN {"INVALID_STATE"}
    ELSE IF r.arg \notin ValidVin THEN {"INVALID_VIN_FORMAT"} ELSE {}

Refuse(c) ==
    /\ Admitted(c)
    /\ conn[c].request.op \in VinOps
    /\ \E code \in Refusals(conn[c].request) : Reply(c, Said(code))
    /\ UNCHANGED <<vehicle, daemon, mutex, clients>>

Enter(c) ==
    /\ Admitted(c)
    /\ conn[c].request.op \in VinOps /\ Refusals(conn[c].request) = {}
    /\ mutex' = c
    /\ Move(c, "begun")
    /\ UNCHANGED <<vehicle, daemon, clients>>

-----------------------------------------------------------------------------
(* execute_vin_binding_flow, as far as Provisioning sees it.               *)

SaveVinWritten(c) ==
    /\ conn[c].stage = "begun" /\ Vehicle!Put(conn[c].request.arg)
    /\ Move(c, "written")
    /\ UNCHANGED <<daemon, mutex, clients>>

SaveBound(c) ==
    /\ conn[c].stage = "written" /\ Vehicle!Bind
    /\ Move(c, "bound")
    /\ UNCHANGED <<daemon, mutex, clients>>

SetWriteProtection(c) ==
    /\ SealFirst
    /\ conn[c].stage = "bound" /\ Vehicle!Seal
    /\ Move(c, "sealed")
    /\ UNCHANGED <<daemon, mutex, clients>>

\* Slip: a client that is told so need not find the store sealed.
FinishEarly(c) ==
    /\ conn[c].stage \in {"bound", "sealed"}
    /\ promised' = vin
    /\ UNCHANGED <<vin, state, sealed>>
    /\ Reply(c, Said("SUCCESS"))
    /\ mutex' = NoOne
    /\ UNCHANGED <<daemon, clients>>

Finish(c) ==
    /\ conn[c].stage = (IF SealFirst THEN "sealed" ELSE "bound")
    /\ Vehicle!Promise
    /\ Reply(c, Said("SUCCESS"))
    /\ mutex' = NoOne
    /\ UNCHANGED <<daemon, clients>>

\* Slip: an error path that keeps the mutex.
GiveUpLocked(c) ==
    /\ conn[c].stage \in {"begun", "written", "bound"}
    /\ Reply(c, Said("FAILED"))
    /\ UNCHANGED <<vehicle, daemon, mutex, clients>>

\* Every error of the flow ends it where it stands, the sealing is the last
\* that may fail.  "FAILED" is each of their codes, FW_HANDLER_FAILED too.
GiveUp(c) ==
    /\ conn[c].stage \in {"begun", "written", "bound"}
    /\ Reply(c, Said("FAILED"))
    /\ mutex' = NoOne
    /\ UNCHANGED <<vehicle, daemon, clients>>

-----------------------------------------------------------------------------
(* The daemon.                                                             *)

\* The service is constructed; nothing listens yet.
Launch ==
    /\ daemon = "down"
    /\ daemon' = "starting"
    /\ UNCHANGED <<vehicle, mutex, conn, clients>>

\* The service is initialized and the server listens.
Start ==
    /\ daemon = "starting"
    /\ daemon' = "up"
    /\ UNCHANGED <<vehicle, mutex, conn, clients>>

BeginShutdown ==
    /\ daemon = "up"
    /\ daemon' = "closing"
    /\ UNCHANGED <<vehicle, mutex, conn, clients>>

\* A start that fails is rolled back; at the end of a run the server's
\* threads are joined, so that no request is left half way.
Stop ==
    /\ daemon \in {"starting", "closing"}
    /\ \A c \in Connection : conn[c].stage \notin Inside
    /\ daemon' = "down"
    /\ conn' = [c \in Connection |-> Free]
    /\ UNCHANGED <<vehicle, mutex, clients>>

Crash ==
    /\ daemon # "down"
    /\ daemon' = "down"
    /\ mutex' = NoOne
    /\ conn' = [c \in Connection |-> Free]
    /\ UNCHANGED <<vehicle, clients>>

-----------------------------------------------------------------------------
ClientStep(k) == Connect(k) \/ Send(k) \/ Receive(k) \/ Fail(k)

ServiceStep(c) ==
    \/ SaveVinWritten(c) \/ SaveBound(c) \/ SetWriteProtection(c)
    \/ Finish(c) \/ GiveUp(c)

Thread(c) == Reject(c) \/ Query(c) \/ Refuse(c) \/ Enter(c) \/ ServiceStep(c)

Daemon == Launch \/ Start \/ BeginShutdown \/ Stop \/ Crash

Next ==
    /\ \/ \E k \in Client : ClientStep(k) \/ Open(k) \/ Disconnect(k)
       \/ \E k \in Client, r \in Request : Invoke(k, r)
       \/ \E c \in Connection : Thread(c)
       \/ Daemon
    /\ Observe

Spec == Init /\ [][Next]_vars

(***************************************************************************)
(* A client waits no longer than its timeouts and a call in the service    *)
(* takes its steps.  The daemon need not run and nobody need call it.      *)
(***************************************************************************)
Fairness ==
    /\ \A k \in Client : WF_clients(ClientStep(k))
    /\ \A c \in Connection : WF_conn(ServiceStep(c))

FairSpec == Spec /\ Fairness
=============================================================================
