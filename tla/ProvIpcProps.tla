----------------------------- MODULE ProvIpcProps ---------------------------
(***************************************************************************)
(* What a user of ProvClient can rely on, whatever happens to the daemon   *)
(* and to the connections.                                                 *)
(***************************************************************************)
EXTENDS ProvIpc

Messages ==
    [status : Codes \cup {"none"}, vin : ValidVin \cup {NoVin},
     state : {"NONE", "VIN_WRITTEN", "BOUND"}]
Requests == Request \cup {NoRequest}

Connections ==
    [stage : Stages, owner : Client \cup {NoOne}, request : Requests, reply : Messages]

\* The types of all but the history.
StateOK ==
    /\ vin \in ValidVin \cup {NoVin}
    /\ state \in {"NONE", "VIN_WRITTEN", "BOUND"}
    /\ sealed \in BOOLEAN
    /\ promised \in ValidVin \cup {NoVin}
    /\ daemon \in {"down", "starting", "up", "closing"}
    /\ mutex \in Connection \cup {NoOne}
    /\ conn \in [Connection -> Connections]
    /\ phase \in [Client -> Phases]
    /\ link \in [Client -> Connection \cup {NoOne}]
    /\ tries \in [Client -> 0 .. MaxTries]
    /\ asked \in [Client -> Requests]
    /\ calls \in 0 .. MaxCalls

(***************************************************************************)
(* Every variable has its type, and no call is tried more often than       *)
(* MaxTries.                                                               *)
(***************************************************************************)
TypeOK ==
    /\ StateOK
    /\ told \subseteq ValidVin
    /\ seen \in [Client -> SUBSET Messages]

-----------------------------------------------------------------------------
\* The service holds one call, and that call has done what its stage says.
OneCallInside ==
    /\ \A c \in Connection : conn[c].stage \in Inside <=> mutex = c
    /\ mutex # NoOne =>
        /\ conn[mutex].request.op \in VinOps
        /\ conn[mutex].request.arg \in ValidVin
        /\ conn[mutex].stage # "begun" => vin = conn[mutex].request.arg
        /\ conn[mutex].stage = "written" => state = "VIN_WRITTEN" /\ ~sealed
        /\ conn[mutex].stage = "bound" => state = "BOUND" /\ ~sealed
        /\ conn[mutex].stage = "sealed" => state = "BOUND" /\ sealed

\* A VIN told to a client and a SUCCESS on its way to one.
Kept(v) == sealed /\ state = "BOUND" /\ vin = v

(***************************************************************************)
(* A client that was told SUCCESS for a VIN is right for good: whatever    *)
(* was sent twice, is carried out late from an abandoned connection or     *)
(* runs for another client, the vehicle is sealed and bound to that VIN    *)
(* (prov_client.cpp:40-75, prov_ipc_dispatcher.cpp:159-171).               *)
(***************************************************************************)
SuccessIsKept ==
    SealFirst => \A v \in told : Kept(v)

\* The same of a SUCCESS that has not been received yet.
SuccessIsUnderway ==
    \A c \in Connection :
        conn[c].stage = "replied" /\ conn[c].request.op \in VinOps
          /\ conn[c].reply.status = "SUCCESS" =>
            /\ conn[c].request.arg \in ValidVin
            /\ SealFirst => Kept(conn[c].request.arg)

\* An owned connection is its owner's link, and what is in it belongs to the
\* owner's running call.
LinksAgree ==
    /\ \A k \in Client : phase[k] = "connecting" => link[k] = NoOne
    /\ \A k \in Client : phase[k] = "idle" <=> asked[k].op = "none"
    /\ \A c \in Connection : conn[c].stage = "free" => conn[c].owner = NoOne
    /\ \A c \in Connection, k \in Client : conn[c].owner = k =>
        /\ link[k] = c
        /\ conn[c].stage = "open" => phase[k] # "waiting"
        /\ conn[c].stage # "open" => phase[k] = "waiting" /\ conn[c].request = asked[k]

\* A client with a query has seen what the vehicle is, and the reply on its
\* way to it is of something it has seen.
RepliesInSight ==
    /\ \A k \in Client : asked[k].op \in ReadOps /\ mutex = NoOne => Now \in seen[k]
    /\ \A c \in Connection, k \in Client :
        conn[c].owner = k /\ conn[c].stage = "replied" /\ asked[k].op \in ReadOps =>
            \/ conn[c].reply \in {Said("SUCCESS"), Said("HANDLER_FAILED"), Said("SERVER_ERROR")}
            \/ \E snapshot \in seen[k] : conn[c].reply = View(asked[k].op, snapshot)

\* Without a daemon that serves there is no connection and no call.
NobodyServes ==
    daemon \in {"down", "starting"} =>
        mutex = NoOne /\ \A c \in Connection : conn[c] = Free

IpcInv ==
    /\ TypeOK /\ NobodyServes /\ OneCallInside /\ LinksAgree
    /\ SuccessIsUnderway /\ SuccessIsKept /\ RepliesInSight

(***************************************************************************)
(* A call that returns a VIN, a state or a binding returns what the        *)
(* vehicle had at one moment between the call and its return at which no   *)
(* write was running: never the middle of a write, never the answer to an  *)
(* earlier request; a query that fails returns the defaults, the empty VIN *)
(* and NONE (prov_client.cpp:110-154).                                     *)
(***************************************************************************)
ReadsAreCurrent ==
    \A k \in Client :
        phase[k] = "waiting" /\ asked[k].op \in ReadOps
          /\ Holds(k) /\ conn[link[k]].stage = "replied" =>
            \E known \in seen[k] \cup {Said("none")} :
                Decoded(asked[k].op, conn[link[k]].reply)
                  = Decoded(asked[k].op, View(asked[k].op, known))

Life == INSTANCE ServiceLife WITH
    MayCrash <- TRUE,
    status <- IF daemon = "down" THEN "down" ELSE IF mutex = NoOne THEN "idle" ELSE "write",
    initialized <- daemon \in {"up", "closing"},
    shuttingDown <- daemon = "closing"

(***************************************************************************)
(* Clients that repeat, abandon and race their requests drive the service  *)
(* through the life that ProvService and ProvApplication promise each      *)
(* other: one write at a time, none before the start and none that begins  *)
(* after beginShutdown, a request left over from before it included.       *)
(***************************************************************************)
ImplementsServiceLife == Life!Spec

\* What a running call has before it at most: each try is a request sent and
\* an answer awaited.
WaitsLeft(k) ==
    IF phase[k] = "idle" THEN 0
    ELSE 3 * (MaxTries - tries[k]) + (IF phase[k] = "waiting" THEN 1 ELSE 2)

(***************************************************************************)
(* Whatever happens to a running call of a client brings it nearer to its  *)
(* return: a connection that is lost again and again, a daemon that starts *)
(* over and the calls of others give it no further try                     *)
(* (prov_client.cpp:40-64).                                                *)
(***************************************************************************)
CallsDrain ==
    [][\A k \in Client :
        phase[k] # "idle" /\ <<phase'[k], tries'[k]>> # <<phase[k], tries[k]>> =>
            WaitsLeft(k)' < WaitsLeft(k)]_vars

\* What a write in the service has before it at most.
StepsInside == [begun |-> 4, written |-> 3, bound |-> 2, sealed |-> 1]

(***************************************************************************)
(* A write that has entered the service goes through it to its end: its    *)
(* mutex passes to nobody else before it is given back, and no step of the *)
(* write is taken twice, abandoned by its client or not                    *)
(* (prov_service.cpp:99, 402-475).                                         *)
(***************************************************************************)
MutexIsGivenBack ==
    [][mutex # NoOne /\ mutex' # NoOne =>
        /\ mutex' = mutex
        /\ conn'[mutex].stage # conn[mutex].stage =>
              StepsInside[conn'[mutex].stage] < StepsInside[conn[mutex].stage]]_vars

(***************************************************************************)
(* Every call of a client returns, whatever the daemon does.               *)
(***************************************************************************)
EveryCallReturns == \A k \in Client : []<>(phase[k] = "idle")

(***************************************************************************)
(* No call stays in the service: its mutex comes free again and again.     *)
(***************************************************************************)
MutexComesFree == []<>(mutex = NoOne)
=============================================================================
