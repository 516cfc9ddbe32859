--------------------------- MODULE ProvIpcProofs ----------------------------
(***************************************************************************)
(* What a user of ProvClient can rely on, proved for any number of         *)
(* clients, connections, VINs and calls.                                   *)
(***************************************************************************)
EXTENDS ProvIpcProps, TLAPS

\* The constants the types are made of.
LEMMA Constants ==
    /\ Free \in Connections
    /\ NoRequest \in Requests
    /\ Request \subseteq Requests
    /\ \A status \in Codes \cup {"none"} : Said(status) \in Messages
BY IpcAssumption
   DEF Free, NoRequest, Requests, Connections, Stages, Messages, Said, Codes

\* How the steps change a connection keeps its type.
LEMMA ConnectionType ==
    ASSUME NEW x \in Connections
    PROVE  /\ x.stage \in Stages /\ x.owner \in Client \cup {NoOne}
           /\ x.request \in Requests /\ x.reply \in Messages
           /\ \A stage \in Stages : [x EXCEPT !.stage = stage] \in Connections
           /\ [x EXCEPT !.owner = NoOne] \in Connections
           /\ \A reply \in Messages :
                 [x EXCEPT !.stage = "replied", !.reply = reply] \in Connections
           /\ \A k \in Client : [Free EXCEPT !.stage = "open", !.owner = k] \in Connections
           /\ \A k \in Client, r \in Requests :
                 [Free EXCEPT !.stage = "sent", !.owner = k, !.request = r] \in Connections
<1>1. Free \in Connections
  BY Constants
<1> QED BY <1>1 DEF Connections, Stages, Inside

LEMMA ViewType ==
    ASSUME StateOK, NEW op \in ReadOps
    PROVE  Now \in Messages /\ View(op, Now) \in Messages
BY DEF StateOK, Now, View, Messages, ReadOps, Codes

LEMMA ReplyType ==
    ASSUME StateOK, NEW c \in Connection, NEW reply \in Messages, Reply(c, reply)
    PROVE  conn' \in [Connection -> Connections]
<1>1. conn[c] \in Connections
  BY DEF StateOK
<1> QED BY <1>1, ConnectionType, Constants DEF StateOK, Reply

LEMMA MoveType ==
    ASSUME StateOK, NEW c \in Connection, NEW stage \in Stages, Move(c, stage)
    PROVE  conn' \in [Connection -> Connections]
<1>1. conn[c] \in Connections
  BY DEF StateOK
<1> QED BY <1>1, ConnectionType DEF StateOK, Move

LEMMA AbandonedType ==
    ASSUME StateOK, NEW k \in Client
    PROVE  Abandoned(k) \in [Connection -> Connections]
<1>1. Holds(k) => link[k] \in Connection /\ conn[link[k]] \in Connections
  BY DEF StateOK, Holds
<1> QED BY <1>1, ConnectionType, Constants DEF StateOK, Abandoned

LEMMA StateStep ==
    ASSUME StateOK, OneCallInside, Next
    PROVE  StateOK'
<1> USE DEF StateOK, vehicle, clients, Phases
<1>1. ASSUME NEW k \in Client, Open(k) PROVE StateOK'
  BY <1>1, Constants, ConnectionType DEF Open
<1>2. ASSUME NEW k \in Client, Connect(k) PROVE StateOK'
  <2>1. PICK c \in Connection :
          Carry(k, c) /\ link' = [link EXCEPT ![k] = c]
    BY <1>2 DEF Connect
  <2>2. asked[k] \in Requests
    OBVIOUS
  <2>3. conn' \in [Connection -> Connections]
    BY <2>1, <2>2, ConnectionType DEF Carry
  <2> QED BY <2>1, <2>3 DEF Carry
<1>3. ASSUME NEW k \in Client, Send(k) PROVE StateOK'
  BY <1>3, Constants, ConnectionType DEF Send, Carry, Holds
<1>4. ASSUME NEW k \in Client, Receive(k) PROVE StateOK'
  <2>1. conn' \in [Connection -> Connections]
    BY <1>4, ConnectionType DEF Receive, Holds
  <2>2. asked' \in [Client -> Requests] /\ tries' \in [Client -> 0 .. MaxTries]
    BY <1>4, Constants DEF Receive, Return, MaxTries
  <2>3. phase' \in [Client -> {"idle", "connecting", "sending", "waiting"}]
    BY <1>4 DEF Receive, Return
  <2> QED BY <1>4, <2>1, <2>2, <2>3 DEF Receive, Return
<1>5. ASSUME NEW k \in Client, Fail(k) PROVE StateOK'
  <2>1. conn' \in [Connection -> Connections]
    BY <1>5, AbandonedType DEF Fail
  <2>2. asked' \in [Client -> Requests]
    BY <1>5, Constants DEF Fail, Return
  <2>3. tries' \in [Client -> 0 .. MaxTries]
    BY <1>5 DEF Fail, Return, MaxTries
  <2>4. phase' \in [Client -> {"idle", "connecting", "sending", "waiting"}]
    BY <1>5 DEF Fail, Return
  <2>5. link' \in [Client -> Connection \cup {NoOne}] /\ calls' = calls
    BY <1>5 DEF Fail, Return
  <2> QED BY <1>5, <2>1, <2>2, <2>3, <2>4, <2>5 DEF Fail
<1>6. ASSUME NEW k \in Client, Disconnect(k) PROVE StateOK'
  BY <1>6, Constants, ConnectionType, AbandonedType DEF Disconnect
<1>7. ASSUME NEW k \in Client, NEW r \in Request, Invoke(k, r) PROVE StateOK'
  <2>1. calls' \in 0 .. MaxCalls
    BY <1>7, IpcAssumption DEF Invoke
  <2>2. asked' \in [Client -> Requests] /\ tries' \in [Client -> 0 .. MaxTries]
    BY <1>7, Constants DEF Invoke, MaxTries
  <2>3. phase' \in [Client -> {"idle", "connecting", "sending", "waiting"}]
    BY <1>7 DEF Invoke
  <2> QED BY <1>7, <2>1, <2>2, <2>3 DEF Invoke
<1>8. ASSUME NEW c \in Connection, Reject(c) PROVE StateOK'
  BY <1>8, Constants, ConnectionType, ReplyType DEF Reject, Rejection, Codes
<1>9. ASSUME NEW c \in Connection, Query(c) PROVE StateOK'
  BY <1>9, Constants, ConnectionType, ReplyType, ViewType DEF Query, Admitted, Answers, Codes
<1>10. ASSUME NEW c \in Connection, Refuse(c) PROVE StateOK'
  BY <1>10, Constants, ConnectionType, ReplyType DEF Refuse, Admitted, Refusals, Codes
<1>11. ASSUME NEW c \in Connection, Enter(c) PROVE StateOK'
  BY <1>11, Constants, ConnectionType, MoveType DEF Enter, Admitted, Stages, Inside
<1>12. ASSUME NEW c \in Connection, SaveVinWritten(c) PROVE StateOK'
  <2>1. conn[c].request.arg \in ValidVin
    BY <1>12, IpcAssumption DEF SaveVinWritten, OneCallInside, Inside
  <2>2. conn' \in [Connection -> Connections]
    BY <1>12, MoveType DEF SaveVinWritten, Stages, Inside
  <2> QED BY <1>12, <2>1, <2>2 DEF SaveVinWritten, Vehicle!Put
<1>13. ASSUME NEW c \in Connection, SaveBound(c) PROVE StateOK'
  BY <1>13, Constants, ConnectionType, MoveType DEF SaveBound, Vehicle!Bind, Stages, Inside
<1>14. ASSUME NEW c \in Connection, SetWriteProtection(c) PROVE StateOK'
  BY <1>14, Constants, ConnectionType, MoveType DEF SetWriteProtection, Vehicle!Seal, Stages, Inside
<1>15. ASSUME NEW c \in Connection, Finish(c) PROVE StateOK'
  BY <1>15, Constants, ConnectionType, ReplyType DEF Finish, Vehicle!Promise, Codes
<1>16. ASSUME NEW c \in Connection, GiveUp(c) PROVE StateOK'
  BY <1>16, Constants, ConnectionType, ReplyType DEF GiveUp, Codes
<1>17. ASSUME Start PROVE StateOK'
  BY <1>17, Constants, ConnectionType DEF Start
<1>21. ASSUME Launch PROVE StateOK'
  BY <1>21, Constants, ConnectionType DEF Launch
<1>18. ASSUME BeginShutdown PROVE StateOK'
  BY <1>18, Constants, ConnectionType DEF BeginShutdown
<1>19. ASSUME Stop PROVE StateOK'
  BY <1>19, Constants, ConnectionType DEF Stop
<1>20. ASSUME Crash PROVE StateOK'
  BY <1>20, Constants, ConnectionType DEF Crash
<1> QED BY <1>1, <1>2, <1>3, <1>4, <1>5, <1>6, <1>7, <1>8, <1>9, <1>10, <1>11, <1>12, <1>13, <1>14, <1>15, <1>16, <1>17, <1>18, <1>19, <1>20, <1>21
       DEF Next, ClientStep, Thread, ServiceStep, Daemon

-----------------------------------------------------------------------------
\* What the steps leave in a connection, field by field.
LEMMA FreeFields ==
    /\ Free.stage = "free" /\ Free.owner = NoOne
    /\ Free.request = NoRequest /\ Free.reply = Said("none")
BY DEF Free

LEMMA Moved ==
    ASSUME StateOK, NEW c \in Connection, NEW stage, Move(c, stage)
    PROVE  /\ conn'[c].stage = stage /\ conn'[c].owner = conn[c].owner
           /\ conn'[c].request = conn[c].request /\ conn'[c].reply = conn[c].reply
           /\ \A d \in Connection \ {c} : conn'[d] = conn[d]
BY DEF StateOK, Connections, Move

LEMMA Replied ==
    ASSUME StateOK, NEW c \in Connection, NEW reply, Reply(c, reply)
    PROVE  /\ conn[c].owner = NoOne => conn'[c] = Free
           /\ conn[c].owner # NoOne =>
                 /\ conn'[c].stage = "replied" /\ conn'[c].reply = reply
                 /\ conn'[c].owner = conn[c].owner /\ conn'[c].request = conn[c].request
           /\ \A d \in Connection \ {c} : conn'[d] = conn[d]
BY DEF StateOK, Connections, Reply

LEMMA Dropped ==
    ASSUME StateOK, NEW k \in Client, conn' = Abandoned(k)
    PROVE  \A d \in Connection :
              \/ conn'[d] = conn[d] /\ (conn[d].owner # k \/ link[k] # d)
              \/ /\ link[k] = d /\ conn[d].owner = k
                 /\ conn[d].stage \in {"open", "replied"} /\ conn'[d] = Free
              \/ /\ link[k] = d /\ conn[d].owner = k
                 /\ conn[d].stage \notin {"open", "replied"}
                 /\ conn'[d].owner = NoOne /\ conn'[d].stage = conn[d].stage
                 /\ conn'[d].request = conn[d].request /\ conn'[d].reply = conn[d].reply
<1>1. CASE ~Holds(k)
  BY <1>1, IpcAssumption DEF StateOK, Abandoned, Holds
<1>2. CASE Holds(k)
  <2>1. link[k] \in Connection /\ conn[link[k]].owner = k
    BY <1>2 DEF StateOK, Holds
  <2> QED BY <1>2, <2>1 DEF StateOK, Connections, Abandoned
<1> QED BY <1>1, <1>2

LEMMA Carried ==
    ASSUME StateOK, NEW k \in Client, NEW c \in Connection, Carry(k, c)
    PROVE  /\ conn'[c].stage = "sent" /\ conn'[c].owner = k /\ conn'[c].request = asked[k]
           /\ \A d \in Connection \ {c} : conn'[d] = conn[d]
BY DEF StateOK, Free, Carry

LEMMA Opened ==
    ASSUME StateOK, NEW k, NEW c \in Connection,
           conn' = [conn EXCEPT ![c] = [Free EXCEPT !.stage = "open", !.owner = k]]
    PROVE  /\ conn'[c].stage = "open" /\ conn'[c].owner = k /\ conn'[c].request = NoRequest
           /\ \A d \in Connection \ {c} : conn'[d] = conn[d]
BY DEF StateOK, Free

\* A connection that is outside before and after does not matter to the service.
LEMMA Outside ==
    ASSUME StateOK, OneCallInside, NEW c \in Connection,
           conn[c].stage \notin Inside, conn'[c].stage \notin Inside,
           \A d \in Connection \ {c} : conn'[d] = conn[d],
           UNCHANGED vehicle, UNCHANGED mutex
    PROVE  OneCallInside'
<1>1. mutex # c
  BY DEF OneCallInside
<1>2. \A d \in Connection : conn'[d].stage \in Inside <=> mutex' = d
  BY <1>1 DEF OneCallInside
<1>3. mutex # NoOne => conn'[mutex] = conn[mutex]
  BY <1>1 DEF StateOK
<1> QED BY <1>2, <1>3 DEF OneCallInside, vehicle

LEMMA OneCallStep ==
    ASSUME StateOK, OneCallInside, LinksAgree, Next
    PROVE  OneCallInside'
<1> USE DEF StateOK, OneCallInside, Inside, vehicle, clients
<1>1. ASSUME NEW k \in Client, Open(k) PROVE OneCallInside'
  <2>1. PICK c \in Connection :
          /\ conn[c].stage = "free"
          /\ conn' = [conn EXCEPT ![c] = [Free EXCEPT !.stage = "open", !.owner = k]]
    BY <1>1 DEF Open
  <2>2. conn[c].stage \notin Inside /\ conn'[c].stage \notin Inside
    BY <2>1, Opened
  <2> HIDE DEF StateOK, OneCallInside
  <2> QED BY <1>1, <2>1, <2>2, Opened, Outside DEF Open
<1>2. ASSUME NEW k \in Client, Connect(k) PROVE OneCallInside'
  <2>1. PICK c \in Connection : conn[c].stage = "free" /\ Carry(k, c)
    BY <1>2 DEF Connect
  <2>2. conn[c].stage \notin Inside /\ conn'[c].stage \notin Inside
    BY <2>1, Carried
  <2> HIDE DEF StateOK, OneCallInside
  <2> QED BY <1>2, <2>1, <2>2, Carried, Outside DEF Carry
<1>3. ASSUME NEW k \in Client, Send(k) PROVE OneCallInside'
  <2>1. PICK c \in Connection : c = link[k] /\ conn[c].owner = k /\ Carry(k, c)
    BY <1>3 DEF Send, Holds
  <2>2. conn[c].stage = "open"
    BY <1>3, <2>1 DEF LinksAgree, Send
  <2>3. conn[c].stage \notin Inside /\ conn'[c].stage \notin Inside
    BY <2>1, <2>2, Carried
  <2>4. \A d \in Connection \ {c} : conn'[d] = conn[d]
    BY <2>1, Carried
  <2> HIDE DEF StateOK, OneCallInside
  <2> QED BY <2>1, <2>3, <2>4, Outside DEF Carry
<1>4. ASSUME NEW k \in Client, Receive(k) PROVE OneCallInside'
  <2>1. PICK c \in Connection :
          /\ conn[c].stage = "replied"
          /\ conn' = [conn EXCEPT ![c] = [Free EXCEPT !.stage = "open", !.owner = k]]
    BY <1>4 DEF Receive, Holds
  <2>2. conn[c].stage \notin Inside /\ conn'[c].stage \notin Inside
    BY <2>1, Opened
  <2>3. \A d \in Connection \ {c} : conn'[d] = conn[d]
    BY <2>1, Opened
  <2> HIDE DEF StateOK, OneCallInside
  <2> QED BY <1>4, <2>1, <2>2, <2>3, Outside DEF Receive
<1>5. ASSUME NEW k \in Client, Fail(k) PROVE OneCallInside'
  BY <1>5, IpcAssumption, FreeFields, Dropped DEF Fail, Return
<1>6. ASSUME NEW k \in Client, Disconnect(k) PROVE OneCallInside'
  BY <1>6, IpcAssumption, FreeFields, Dropped DEF Disconnect
<1>7. ASSUME NEW k \in Client, NEW r \in Request, Invoke(k, r) PROVE OneCallInside'
  BY <1>7, IpcAssumption, FreeFields DEF Invoke
<1>8. ASSUME NEW c \in Connection, Reject(c) PROVE OneCallInside'
  BY <1>8, IpcAssumption, FreeFields, Replied DEF Reject
<1>9. ASSUME NEW c \in Connection, Query(c) PROVE OneCallInside'
  BY <1>9, IpcAssumption, FreeFields, Replied DEF Query, Admitted, Answers
<1>10. ASSUME NEW c \in Connection, Refuse(c) PROVE OneCallInside'
  BY <1>10, IpcAssumption, FreeFields, Replied DEF Refuse, Admitted, Refusals
<1>11. ASSUME NEW c \in Connection, Enter(c) PROVE OneCallInside'
  <2>1. conn[c].stage = "sent" /\ mutex = NoOne /\ mutex' = c /\ Move(c, "begun")
    BY <1>11 DEF Enter, Admitted
  <2>2. conn[c].request.arg \in ValidVin
    BY <1>11 DEF Enter, Refusals
  <2> QED BY <1>11, <2>1, <2>2, Moved, IpcAssumption DEF Enter
<1>12. ASSUME NEW c \in Connection, SaveVinWritten(c) PROVE OneCallInside'
  BY <1>12, IpcAssumption, FreeFields, Moved DEF SaveVinWritten, Vehicle!Put
<1>13. ASSUME NEW c \in Connection, SaveBound(c) PROVE OneCallInside'
  BY <1>13, IpcAssumption, FreeFields, Moved DEF SaveBound, Vehicle!Bind
<1>14. ASSUME NEW c \in Connection, SetWriteProtection(c) PROVE OneCallInside'
  BY <1>14, IpcAssumption, FreeFields, Moved DEF SetWriteProtection, Vehicle!Seal
<1>15. ASSUME NEW c \in Connection, Finish(c) PROVE OneCallInside'
  BY <1>15, IpcAssumption, FreeFields, Replied DEF Finish, Vehicle!Promise
<1>16. ASSUME NEW c \in Connection, GiveUp(c) PROVE OneCallInside'
  BY <1>16, IpcAssumption, FreeFields, Replied DEF GiveUp
<1>17. ASSUME Start PROVE OneCallInside'
  BY <1>17, IpcAssumption, FreeFields DEF Start
<1>21. ASSUME Launch PROVE OneCallInside'
  BY <1>21, IpcAssumption, FreeFields DEF Launch
<1>18. ASSUME BeginShutdown PROVE OneCallInside'
  BY <1>18, IpcAssumption, FreeFields DEF BeginShutdown
<1>19. ASSUME Stop PROVE OneCallInside'
  BY <1>19, IpcAssumption, FreeFields DEF Stop
<1>20. ASSUME Crash PROVE OneCallInside'
  BY <1>20, IpcAssumption, FreeFields DEF Crash
<1> QED BY <1>1, <1>2, <1>3, <1>4, <1>5, <1>6, <1>7, <1>8, <1>9, <1>10, <1>11, <1>12, <1>13, <1>14, <1>15, <1>16, <1>17, <1>18, <1>19, <1>20, <1>21
       DEF Next, ClientStep, Thread, ServiceStep, Daemon

LEMMA RequestOps ==
    /\ \A r \in Request : r.op \in Ops /\ r.op # "none"
    /\ NoRequest.op = "none" /\ NoRequest.op \notin ReadOps \cup VinOps
BY IpcAssumption DEF Ops, VinOps, DataOps, ReadOps, NoRequest

LEMMA LinksStep ==
    ASSUME StateOK, OneCallInside, LinksAgree, Next
    PROVE  LinksAgree'
<1> USE DEF StateOK, LinksAgree, vehicle, clients
<1>1. ASSUME NEW k \in Client, Open(k) PROVE LinksAgree'
  <2> HIDE DEF LinksAgree
  <2>1. PICK c \in Connection :
          /\ conn' = [conn EXCEPT ![c] = [Free EXCEPT !.stage = "open", !.owner = k]]
          /\ link' = [link EXCEPT ![k] = c]
          /\ conn[c].stage = "free"
    BY <1>1 DEF Open
  <2>2. /\ conn'[c].stage = "open" /\ conn'[c].owner = k
        /\ \A d \in Connection \ {c} : conn'[d] = conn[d]
    BY <2>1, Opened
  <2>3. link[k] = NoOne /\ phase[k] = "idle" /\ UNCHANGED <<phase, asked>>
    BY <1>1 DEF Open
  <2>4. \A d \in Connection \ {c} : conn'[d].owner # k
    BY <2>2, <2>3, IpcAssumption DEF LinksAgree
  <2> QED BY <2>1, <2>2, <2>3, <2>4 DEF LinksAgree
<1>2. ASSUME NEW k \in Client, Connect(k) PROVE LinksAgree'
  <2>1. PICK c \in Connection : Carry(k, c) /\ link' = [link EXCEPT ![k] = c]
    BY <1>2 DEF Connect
  <2>2. /\ conn'[c].stage = "sent" /\ conn'[c].owner = k /\ conn'[c].request = asked[k]
        /\ \A d \in Connection \ {c} : conn'[d] = conn[d]
    BY <2>1, Carried
  <2>3. /\ link[k] = NoOne /\ phase[k] = "connecting"
        /\ phase' = [phase EXCEPT ![k] = "waiting"] /\ asked' = asked
    BY <1>2, <2>1 DEF Connect, Carry
  <2>4. \A d \in Connection \ {c} : conn'[d].owner # k
    BY <2>2, <2>3, IpcAssumption
  <2> QED BY <2>1, <2>2, <2>3, <2>4
<1>3. ASSUME NEW k \in Client, Send(k) PROVE LinksAgree'
  <2>1. PICK c \in Connection : c = link[k] /\ conn[c].owner = k /\ Carry(k, c)
    BY <1>3 DEF Send, Holds
  <2>2. /\ conn'[c].stage = "sent" /\ conn'[c].owner = k /\ conn'[c].request = asked[k]
        /\ \A d \in Connection \ {c} : conn'[d] = conn[d]
    BY <2>1, Carried
  <2>3. /\ link' = link /\ phase[k] = "sending"
        /\ phase' = [phase EXCEPT ![k] = "waiting"] /\ asked' = asked
    BY <1>3, <2>1 DEF Send, Carry
  <2>4. \A d \in Connection \ {c} : conn'[d].owner # k
    BY <2>1, <2>2
  <2> QED BY <2>1, <2>2, <2>3, <2>4
<1>4. ASSUME NEW k \in Client, Receive(k) PROVE LinksAgree'
  <2> HIDE DEF LinksAgree
  <2>1. PICK c \in Connection :
          /\ c = link[k] /\ conn[c].owner = k
          /\ conn' = [conn EXCEPT ![c] = [Free EXCEPT !.stage = "open", !.owner = k]]
    BY <1>4 DEF Receive, Holds
  <2>2. /\ conn'[c].stage = "open" /\ conn'[c].owner = k
        /\ \A d \in Connection \ {c} : conn'[d] = conn[d]
    BY <2>1, Opened
  <2>3. /\ link' = link /\ phase[k] = "waiting"
        /\ phase' = [phase EXCEPT ![k] = "idle"]
        /\ asked' = [asked EXCEPT ![k] = NoRequest]
    BY <1>4 DEF Receive, Return
  <2>4. \A d \in Connection \ {c} : conn'[d].owner # k
    BY <2>1, <2>2 DEF LinksAgree
  <2> QED BY <2>1, <2>2, <2>3, <2>4, RequestOps DEF LinksAgree
<1>5. ASSUME NEW k \in Client, Fail(k) PROVE LinksAgree'
  BY <1>5, IpcAssumption, FreeFields, RequestOps, Dropped DEF Fail, Return
<1>6. ASSUME NEW k \in Client, Disconnect(k) PROVE LinksAgree'
  BY <1>6, IpcAssumption, FreeFields, RequestOps, Dropped DEF Disconnect
<1>7. ASSUME NEW k \in Client, NEW r \in Request, Invoke(k, r) PROVE LinksAgree'
  BY <1>7, IpcAssumption, FreeFields, RequestOps DEF Invoke
<1>8. ASSUME NEW c \in Connection, Reject(c) PROVE LinksAgree'
  BY <1>8, IpcAssumption, FreeFields, RequestOps, Replied DEF Reject
<1>9. ASSUME NEW c \in Connection, Query(c) PROVE LinksAgree'
  BY <1>9, IpcAssumption, FreeFields, RequestOps, Replied DEF Query, Admitted, Answers
<1>10. ASSUME NEW c \in Connection, Refuse(c) PROVE LinksAgree'
  BY <1>10, IpcAssumption, FreeFields, RequestOps, Replied DEF Refuse, Admitted, Refusals
<1>11. ASSUME NEW c \in Connection, Enter(c) PROVE LinksAgree'
  BY <1>11, IpcAssumption, FreeFields, RequestOps, Moved DEF Enter, Admitted, Refusals
<1>12. ASSUME NEW c \in Connection, SaveVinWritten(c) PROVE LinksAgree'
  BY <1>12, IpcAssumption, FreeFields, RequestOps, Moved DEF SaveVinWritten, Vehicle!Put
<1>13. ASSUME NEW c \in Connection, SaveBound(c) PROVE LinksAgree'
  BY <1>13, IpcAssumption, FreeFields, RequestOps, Moved DEF SaveBound, Vehicle!Bind
<1>14. ASSUME NEW c \in Connection, SetWriteProtection(c) PROVE LinksAgree'
  BY <1>14, IpcAssumption, FreeFields, RequestOps, Moved DEF SetWriteProtection, Vehicle!Seal
<1>15. ASSUME NEW c \in Connection, Finish(c) PROVE LinksAgree'
  BY <1>15, IpcAssumption, FreeFields, RequestOps, Replied DEF Finish, Vehicle!Promise
<1>16. ASSUME NEW c \in Connection, GiveUp(c) PROVE LinksAgree'
  BY <1>16, IpcAssumption, FreeFields, RequestOps, Replied DEF GiveUp
<1>17. ASSUME Start PROVE LinksAgree'
  BY <1>17, IpcAssumption, FreeFields, RequestOps DEF Start
<1>21. ASSUME Launch PROVE LinksAgree'
  BY <1>21, IpcAssumption, FreeFields, RequestOps DEF Launch
<1>18. ASSUME BeginShutdown PROVE LinksAgree'
  BY <1>18, IpcAssumption, FreeFields, RequestOps DEF BeginShutdown
<1>19. ASSUME Stop PROVE LinksAgree'
  BY <1>19, IpcAssumption, FreeFields, RequestOps DEF Stop
<1>20. ASSUME Crash PROVE LinksAgree'
  BY <1>20, IpcAssumption, FreeFields, RequestOps DEF Crash
<1> QED BY <1>1, <1>2, <1>3, <1>4, <1>5, <1>6, <1>7, <1>8, <1>9, <1>10, <1>11, <1>12, <1>13, <1>14, <1>15, <1>16, <1>17, <1>18, <1>19, <1>20, <1>21
       DEF Next, ClientStep, Thread, ServiceStep, Daemon

\* A sealed vehicle keeps its VIN.
LEMMA SealedStays ==
    ASSUME NEW v, Kept(v), Next
    PROVE  Kept(v)'
<1> USE DEF Kept, vehicle
<1>1. ASSUME NEW k \in Client, Open(k) PROVE Kept(v)'
  BY <1>1 DEF Open
<1>2. ASSUME NEW k \in Client, Connect(k) PROVE Kept(v)'
  BY <1>2 DEF Connect, Carry
<1>3. ASSUME NEW k \in Client, Send(k) PROVE Kept(v)'
  BY <1>3 DEF Send, Carry
<1>4. ASSUME NEW k \in Client, Receive(k) PROVE Kept(v)'
  BY <1>4 DEF Receive
<1>5. ASSUME NEW k \in Client, Fail(k) PROVE Kept(v)'
  BY <1>5 DEF Fail
<1>6. ASSUME NEW k \in Client, Disconnect(k) PROVE Kept(v)'
  BY <1>6 DEF Disconnect
<1>7. ASSUME NEW k \in Client, NEW r \in Request, Invoke(k, r) PROVE Kept(v)'
  BY <1>7 DEF Invoke
<1>8. ASSUME NEW c \in Connection, Reject(c) PROVE Kept(v)'
  BY <1>8 DEF Reject
<1>9. ASSUME NEW c \in Connection, Query(c) PROVE Kept(v)'
  BY <1>9 DEF Query
<1>10. ASSUME NEW c \in Connection, Refuse(c) PROVE Kept(v)'
  BY <1>10 DEF Refuse
<1>11. ASSUME NEW c \in Connection, Enter(c) PROVE Kept(v)'
  BY <1>11 DEF Enter
<1>12. ASSUME NEW c \in Connection, SaveVinWritten(c) PROVE Kept(v)'
  BY <1>12 DEF SaveVinWritten, Vehicle!Put
<1>13. ASSUME NEW c \in Connection, SaveBound(c) PROVE Kept(v)'
  BY <1>13 DEF SaveBound, Vehicle!Bind
<1>14. ASSUME NEW c \in Connection, SetWriteProtection(c) PROVE Kept(v)'
  BY <1>14 DEF SetWriteProtection, Vehicle!Seal
<1>15. ASSUME NEW c \in Connection, Finish(c) PROVE Kept(v)'
  BY <1>15 DEF Finish, Vehicle!Promise
<1>16. ASSUME NEW c \in Connection, GiveUp(c) PROVE Kept(v)'
  BY <1>16 DEF GiveUp
<1>17. ASSUME Start PROVE Kept(v)'
  BY <1>17 DEF Start
<1>21. ASSUME Launch PROVE Kept(v)'
  BY <1>21 DEF Launch
<1>18. ASSUME BeginShutdown PROVE Kept(v)'
  BY <1>18 DEF BeginShutdown
<1>19. ASSUME Stop PROVE Kept(v)'
  BY <1>19 DEF Stop
<1>20. ASSUME Crash PROVE Kept(v)'
  BY <1>20 DEF Crash
<1> QED BY <1>1, <1>2, <1>3, <1>4, <1>5, <1>6, <1>7, <1>8, <1>9, <1>10, <1>11, <1>12, <1>13, <1>14, <1>15, <1>16, <1>17, <1>18, <1>19, <1>20, <1>21
       DEF Next, ClientStep, Thread, ServiceStep, Daemon

LEMMA UnderwayStep ==
    ASSUME StateOK, OneCallInside, LinksAgree, SuccessIsUnderway, Next
    PROVE  SuccessIsUnderway'
<1> USE DEF SuccessIsUnderway, vehicle, clients
<1>1. ASSUME NEW k \in Client, Open(k) PROVE SuccessIsUnderway'
  <2>1. \E c \in Connection :
          conn'[c].stage # "replied" /\ \A d \in Connection \ {c} : conn'[d] = conn[d]
    <3>1. PICK c \in Connection : conn' = [conn EXCEPT ![c] = [Free EXCEPT !.stage = "open", !.owner = k]]
      BY <1>1 DEF Open
    <3>2. conn'[c].stage # "replied" /\ \A d \in Connection \ {c} : conn'[d] = conn[d]
      BY <3>1, Opened
    <3> QED BY <3>2
  <2> QED BY <2>1, SealedStays
<1>2. ASSUME NEW k \in Client, Connect(k) PROVE SuccessIsUnderway'
  <2>1. \E c \in Connection :
          conn'[c].stage # "replied" /\ \A d \in Connection \ {c} : conn'[d] = conn[d]
    <3>1. PICK c \in Connection : Carry(k, c)
      BY <1>2 DEF Connect
    <3>2. conn'[c].stage # "replied" /\ \A d \in Connection \ {c} : conn'[d] = conn[d]
      BY <3>1, Carried
    <3> QED BY <3>2
  <2> QED BY <2>1, SealedStays
<1>3. ASSUME NEW k \in Client, Send(k) PROVE SuccessIsUnderway'
  <2>1. \E c \in Connection :
          conn'[c].stage # "replied" /\ \A d \in Connection \ {c} : conn'[d] = conn[d]
    <3>1. PICK c \in Connection : Carry(k, c)
      BY <1>3 DEF Send, Holds, StateOK
    <3>2. conn'[c].stage # "replied" /\ \A d \in Connection \ {c} : conn'[d] = conn[d]
      BY <3>1, Carried
    <3> QED BY <3>2
  <2> QED BY <2>1, SealedStays
<1>4. ASSUME NEW k \in Client, Receive(k) PROVE SuccessIsUnderway'
  <2>1. \E c \in Connection :
          conn'[c].stage # "replied" /\ \A d \in Connection \ {c} : conn'[d] = conn[d]
    <3>1. PICK c \in Connection : conn' = [conn EXCEPT ![c] = [Free EXCEPT !.stage = "open", !.owner = k]]
      BY <1>4 DEF Receive, Holds, StateOK
    <3>2. conn'[c].stage # "replied" /\ \A d \in Connection \ {c} : conn'[d] = conn[d]
      BY <3>1, Opened
    <3> QED BY <3>2
  <2> QED BY <2>1, SealedStays
<1>5. ASSUME NEW k \in Client, Fail(k) PROVE SuccessIsUnderway'
  BY <1>5, FreeFields, SealedStays, RequestOps, Dropped DEF Fail
<1>6. ASSUME NEW k \in Client, Disconnect(k) PROVE SuccessIsUnderway'
  BY <1>6, FreeFields, SealedStays, RequestOps, Dropped DEF Disconnect
<1>7. ASSUME NEW k \in Client, NEW r \in Request, Invoke(k, r) PROVE SuccessIsUnderway'
  BY <1>7, FreeFields, SealedStays, RequestOps DEF Invoke
<1>8. ASSUME NEW c \in Connection, Reject(c) PROVE SuccessIsUnderway'
  BY <1>8, FreeFields, SealedStays, RequestOps, Replied DEF Reject, Rejection, Said
<1>9. ASSUME NEW c \in Connection, Query(c) PROVE SuccessIsUnderway'
  BY <1>9, FreeFields, SealedStays, RequestOps, Replied DEF Query
<1>10. ASSUME NEW c \in Connection, Refuse(c) PROVE SuccessIsUnderway'
  BY <1>10, FreeFields, SealedStays, RequestOps, Replied DEF Refuse, Refusals, Said
<1>11. ASSUME NEW c \in Connection, Enter(c) PROVE SuccessIsUnderway'
  BY <1>11, FreeFields, SealedStays, RequestOps, Moved DEF Enter
<1>12. ASSUME NEW c \in Connection, SaveVinWritten(c) PROVE SuccessIsUnderway'
  BY <1>12, FreeFields, SealedStays, RequestOps, Moved DEF SaveVinWritten
<1>13. ASSUME NEW c \in Connection, SaveBound(c) PROVE SuccessIsUnderway'
  BY <1>13, FreeFields, SealedStays, RequestOps, Moved DEF SaveBound
<1>14. ASSUME NEW c \in Connection, SetWriteProtection(c) PROVE SuccessIsUnderway'
  BY <1>14, FreeFields, SealedStays, RequestOps, Moved DEF SetWriteProtection
<1>15. ASSUME NEW c \in Connection, Finish(c) PROVE SuccessIsUnderway'
  <2>1. conn[c].request.arg \in ValidVin /\ (SealFirst => Kept(conn[c].request.arg))
    BY <1>15, IpcAssumption DEF Finish, OneCallInside, Inside, Kept
  <2>2. Reply(c, Said("SUCCESS"))
    BY <1>15 DEF Finish
  <2>3. \A d \in Connection :
          \/ conn'[d].stage = "free"
          \/ conn'[d].request = conn[d].request /\ (d # c => conn'[d] = conn[d])
    BY <2>2, Replied, FreeFields
  <2> QED BY <2>1, <2>3, SealedStays
<1>16. ASSUME NEW c \in Connection, GiveUp(c) PROVE SuccessIsUnderway'
  BY <1>16, FreeFields, SealedStays, RequestOps, Replied DEF GiveUp, Said
<1>17. ASSUME Start PROVE SuccessIsUnderway'
  BY <1>17, FreeFields, SealedStays, RequestOps DEF Start
<1>21. ASSUME Launch PROVE SuccessIsUnderway'
  BY <1>21, FreeFields, SealedStays, RequestOps DEF Launch
<1>18. ASSUME BeginShutdown PROVE SuccessIsUnderway'
  BY <1>18, FreeFields, SealedStays, RequestOps DEF BeginShutdown
<1>19. ASSUME Stop PROVE SuccessIsUnderway'
  BY <1>19, FreeFields, SealedStays, RequestOps DEF Stop
<1>20. ASSUME Crash PROVE SuccessIsUnderway'
  BY <1>20, FreeFields, SealedStays, RequestOps DEF Crash
<1> QED BY <1>1, <1>2, <1>3, <1>4, <1>5, <1>6, <1>7, <1>8, <1>9, <1>10, <1>11, <1>12, <1>13, <1>14, <1>15, <1>16, <1>17, <1>18, <1>19, <1>20, <1>21
       DEF Next, ClientStep, Thread, ServiceStep, Daemon

\* What a client is told comes with a reply of its own request.
LEMMA ToldStep ==
    ASSUME StateOK, LinksAgree, SuccessIsUnderway, SuccessIsKept, told \subseteq ValidVin, Next
    PROVE  told' \subseteq ValidVin /\ SuccessIsKept'
<1> DEFINE Right == \A v \in told' : v \in ValidVin /\ (SealFirst => Kept(v))
<1>1. ASSUME NEW k \in Client, Receive(k) PROVE Right
  <2>1. PICK c \in Connection :
          /\ conn[c].owner = k /\ conn[c].stage = "replied"
          /\ Return(k, Decoded(asked[k].op, conn[c].reply))
    BY <1>1 DEF Receive, Holds, StateOK
  <2>2. conn[c].request = asked[k]
    BY <2>1 DEF LinksAgree
  <2>3. asked[k].op \in VinOps /\ Decoded(asked[k].op, conn[c].reply).status = "SUCCESS" =>
          conn[c].reply.status = "SUCCESS"
    BY DEF Decoded, Unanswered, Said, VinOps, ReadOps
  <2>4. \A v \in told' :
          \/ v \in told
          \/ v = asked[k].arg /\ asked[k].op \in VinOps /\ conn[c].reply.status = "SUCCESS"
    BY <2>1, <2>3 DEF Return
  <2> QED BY <2>1, <2>2, <2>4 DEF SuccessIsUnderway, SuccessIsKept
<1>2. ASSUME NEW k \in Client, Fail(k) PROVE Right
  <2>1. Unanswered(asked[k].op).status # "SUCCESS"
    BY DEF Unanswered, Said
  <2>2. told' = told
    BY <1>2, <2>1 DEF Fail, Return
  <2> QED BY <2>2 DEF SuccessIsKept
<1>3. (\E k \in Client : Receive(k) \/ Fail(k)) \/ told' = told
  BY DEF Next, ClientStep, Thread, ServiceStep, Daemon, clients, Open, Connect, Carry, Send, Disconnect, Invoke,
      Reject, Query, Refuse, Enter, SaveVinWritten, SaveBound, SetWriteProtection, Finish, GiveUp,
      Launch, Start, BeginShutdown, Stop, Crash
<1>4. Right
  BY <1>1, <1>2, <1>3 DEF SuccessIsKept
<1> QED BY <1>4, SealedStays DEF SuccessIsKept

-----------------------------------------------------------------------------
\* Where the reply of a query comes from: it was there before the step, or the
\* step made it of the vehicle that the client could see.
ReplyOrigin ==
    \A c \in Connection, k \in Client :
        conn'[c].owner = k /\ conn'[c].stage = "replied" /\ asked'[k].op \in ReadOps =>
            /\ asked'[k] = asked[k]
            /\ \/ /\ conn[c].owner = k /\ conn[c].stage = "replied"
                  /\ conn'[c].reply = conn[c].reply
               \/ conn'[c].reply \in {Said("SUCCESS"), Said("HANDLER_FAILED"), Said("SERVER_ERROR")}
               \/ mutex = NoOne /\ conn'[c].reply = View(asked[k].op, Now)

LEMMA OpsApart ==
    /\ VinOps \cap ReadOps = {}
    /\ \A r : Rejection(r) # "none" => r.op \notin ReadOps
BY DEF VinOps, ReadOps, Rejection

LEMMA ReplyOriginStep ==
    ASSUME StateOK, OneCallInside, LinksAgree, Next
    PROVE  ReplyOrigin
<1> USE DEF StateOK, LinksAgree, OneCallInside, vehicle, clients, ReplyOrigin
<1>1. ASSUME NEW k \in Client, Open(k) PROVE ReplyOrigin
  <2> HIDE DEF LinksAgree, OneCallInside, ReplyOrigin
  <2>1. PICK c \in Connection : conn' = [conn EXCEPT ![c] = [Free EXCEPT !.stage = "open", !.owner = k]]
    BY <1>1 DEF Open
  <2>2. conn'[c].stage # "replied" /\ \A d \in Connection \ {c} : conn'[d] = conn[d]
    BY <2>1, Opened
  <2>3. asked' = asked
    BY <1>1 DEF Open
  <2> QED BY <2>2, <2>3 DEF ReplyOrigin
<1>2. ASSUME NEW k \in Client, Connect(k) PROVE ReplyOrigin
  <2>1. PICK c \in Connection : Carry(k, c)
    BY <1>2 DEF Connect
  <2>2. conn'[c].stage # "replied" /\ \A d \in Connection \ {c} : conn'[d] = conn[d]
    BY <2>1, Carried
  <2>3. asked' = asked
    BY <1>2 DEF Connect, Carry
  <2> QED BY <2>2, <2>3
<1>3. ASSUME NEW k \in Client, Send(k) PROVE ReplyOrigin
  <2>1. PICK c \in Connection : Carry(k, c)
    BY <1>3 DEF Send, Holds
  <2>2. conn'[c].stage # "replied" /\ \A d \in Connection \ {c} : conn'[d] = conn[d]
    BY <2>1, Carried
  <2>3. asked' = asked
    BY <1>3 DEF Send, Carry
  <2> QED BY <2>2, <2>3
<1>4. ASSUME NEW k \in Client, Receive(k) PROVE ReplyOrigin
  <2> HIDE DEF LinksAgree, OneCallInside, ReplyOrigin
  <2>1. PICK c \in Connection :
          conn' = [conn EXCEPT ![c] = [Free EXCEPT !.stage = "open", !.owner = k]]
    BY <1>4 DEF Receive, Holds
  <2>2. conn'[c].stage # "replied" /\ \A d \in Connection \ {c} : conn'[d] = conn[d]
    BY <2>1, Opened
  <2>3. asked' = [asked EXCEPT ![k] = NoRequest]
    BY <1>4 DEF Receive, Return
  <2> QED BY <2>2, <2>3, RequestOps DEF ReplyOrigin
<1>5. ASSUME NEW k \in Client, Fail(k) PROVE ReplyOrigin
  BY <1>5, IpcAssumption, FreeFields, RequestOps, OpsApart, Dropped DEF Fail, Return
<1>6. ASSUME NEW k \in Client, Disconnect(k) PROVE ReplyOrigin
  BY <1>6, IpcAssumption, FreeFields, RequestOps, OpsApart, Dropped DEF Disconnect
<1>7. ASSUME NEW k \in Client, NEW r \in Request, Invoke(k, r) PROVE ReplyOrigin
  BY <1>7, IpcAssumption, FreeFields, RequestOps, OpsApart DEF Invoke
<1>8. ASSUME NEW c \in Connection, Reject(c) PROVE ReplyOrigin
  BY <1>8, IpcAssumption, FreeFields, RequestOps, OpsApart, Replied DEF Reject
<1>9. ASSUME NEW c \in Connection, Query(c) PROVE ReplyOrigin
  BY <1>9, IpcAssumption, FreeFields, RequestOps, OpsApart, Replied DEF Query, Admitted, Answers
<1>10. ASSUME NEW c \in Connection, Refuse(c) PROVE ReplyOrigin
  <2>1. PICK reply : Reply(c, reply)
    BY <1>10 DEF Refuse
  <2>2. /\ conn[c].stage = "sent" /\ conn[c].request.op \in VinOps
        /\ asked' = asked
    BY <1>10 DEF Refuse, Admitted
  <2>3. \A l \in Client : conn[c].owner = l => asked[l].op \notin ReadOps
    BY <2>2, OpsApart DEF LinksAgree
  <2>4. \A l \in Client : conn'[c].owner = l => conn[c].owner = l
    BY <2>1, Replied, FreeFields, IpcAssumption
  <2>5. \A d \in Connection \ {c} : conn'[d] = conn[d]
    BY <2>1, Replied
  <2> HIDE DEF LinksAgree, OneCallInside
  <2> QED BY <2>2, <2>3, <2>4, <2>5
<1>11. ASSUME NEW c \in Connection, Enter(c) PROVE ReplyOrigin
  BY <1>11, IpcAssumption, FreeFields, RequestOps, OpsApart, Moved DEF Enter
<1>12. ASSUME NEW c \in Connection, SaveVinWritten(c) PROVE ReplyOrigin
  BY <1>12, IpcAssumption, FreeFields, RequestOps, OpsApart, Moved DEF SaveVinWritten
<1>13. ASSUME NEW c \in Connection, SaveBound(c) PROVE ReplyOrigin
  BY <1>13, IpcAssumption, FreeFields, RequestOps, OpsApart, Moved DEF SaveBound
<1>14. ASSUME NEW c \in Connection, SetWriteProtection(c) PROVE ReplyOrigin
  BY <1>14, IpcAssumption, FreeFields, RequestOps, OpsApart, Moved DEF SetWriteProtection
<1>15. ASSUME NEW c \in Connection, Finish(c) PROVE ReplyOrigin
  BY <1>15, IpcAssumption, FreeFields, RequestOps, OpsApart, Replied DEF Finish, Inside
<1>16. ASSUME NEW c \in Connection, GiveUp(c) PROVE ReplyOrigin
  BY <1>16, IpcAssumption, FreeFields, RequestOps, OpsApart, Replied DEF GiveUp, Inside
<1>17. ASSUME Start PROVE ReplyOrigin
  BY <1>17, IpcAssumption, FreeFields, RequestOps, OpsApart DEF Start
<1>21. ASSUME Launch PROVE ReplyOrigin
  BY <1>21, IpcAssumption, FreeFields, RequestOps, OpsApart DEF Launch
<1>18. ASSUME BeginShutdown PROVE ReplyOrigin
  BY <1>18, IpcAssumption, FreeFields, RequestOps, OpsApart DEF BeginShutdown
<1>19. ASSUME Stop PROVE ReplyOrigin
  BY <1>19, IpcAssumption, FreeFields, RequestOps, OpsApart DEF Stop
<1>20. ASSUME Crash PROVE ReplyOrigin
  BY <1>20, IpcAssumption, FreeFields, RequestOps, OpsApart DEF Crash
<1> QED BY <1>1, <1>2, <1>3, <1>4, <1>5, <1>6, <1>7, <1>8, <1>9, <1>10, <1>11, <1>12, <1>13, <1>14, <1>15, <1>16, <1>17, <1>18, <1>19, <1>20, <1>21
       DEF Next, ClientStep, Thread, ServiceStep, Daemon

\* The history of a query has the vehicle in it, whenever no write is running.
LEMMA SeenType ==
    ASSUME seen \in [Client -> SUBSET Messages], StateOK', Observe
    PROVE  seen' \in [Client -> SUBSET Messages]
<1>1. Now' \in Messages
  BY DEF StateOK, Now, Messages, Codes
<1> QED BY <1>1 DEF Observe

LEMMA SightStep ==
    ASSUME StateOK, OneCallInside, LinksAgree, RepliesInSight, Next
    PROVE  RepliesInSight'
<1>1. Observe /\ ReplyOrigin
  BY ReplyOriginStep DEF Next
<1>2. \A k \in Client : asked'[k].op \in ReadOps =>
        /\ seen[k] \subseteq seen'[k]
        /\ mutex' = NoOne => Now' \in seen'[k]
  BY <1>1 DEF Observe
<1>3. ASSUME NEW c \in Connection, NEW k \in Client,
             conn'[c].owner = k, conn'[c].stage = "replied", asked'[k].op \in ReadOps
      PROVE  \/ conn'[c].reply \in {Said("SUCCESS"), Said("HANDLER_FAILED"), Said("SERVER_ERROR")}
             \/ \E snapshot \in seen'[k] : conn'[c].reply = View(asked'[k].op, snapshot)
  <2>1. asked'[k] = asked[k]
    BY <1>1, <1>3 DEF ReplyOrigin
  <2>2. CASE /\ conn[c].owner = k /\ conn[c].stage = "replied"
             /\ conn'[c].reply = conn[c].reply
    BY <1>2, <1>3, <2>1, <2>2 DEF RepliesInSight
  <2>3. CASE mutex = NoOne /\ conn'[c].reply = View(asked[k].op, Now)
    <3>1. Now \in seen[k]
      BY <1>3, <2>1, <2>3 DEF RepliesInSight
    <3> QED BY <1>2, <1>3, <2>1, <2>3, <3>1
  <2> QED BY <1>1, <1>3, <2>2, <2>3 DEF ReplyOrigin
<1> QED BY <1>2, <1>3 DEF RepliesInSight

-----------------------------------------------------------------------------
(* The life of the service.                                                *)

\* What a thread works on is in a connection that is not free.
LEMMA ThreadsServe ==
    ASSUME NEW c \in Connection, conn[c] = Free
    PROVE  ~ Thread(c)
BY FreeFields
   DEF Thread, ServiceStep, Reject, Query, Refuse, Enter, Admitted, SaveVinWritten, SaveBound,
       SetWriteProtection, Finish, GiveUp

(***************************************************************************)
(* Connections and calls begin while the daemon is up and end with it.     *)
(***************************************************************************)
LEMMA NobodyStep == StateOK /\ OneCallInside /\ NobodyServes /\ Next => NobodyServes'
<1> SUFFICES ASSUME StateOK, OneCallInside, NobodyServes, Next,
                    daemon' \in {"down", "starting"}
             PROVE  mutex' = NoOne /\ \A c \in Connection : conn'[c] = Free
  BY DEF NobodyServes
<1>1. CASE Stop
  BY <1>1 DEF Stop, OneCallInside, StateOK
<1>2. CASE Crash
  BY <1>2 DEF Crash
<1>3. CASE ~ Stop /\ ~ Crash
  <2>1. daemon \in {"down", "starting"}
    BY <1>3 DEF Next, ClientStep, Thread, ServiceStep, Daemon, Open, Connect, Carry, Send, Receive,
        Fail, Disconnect, Invoke, Reject, Query, Refuse, Enter, SaveVinWritten, SaveBound,
        SetWriteProtection, Finish, GiveUp, Launch, Start, BeginShutdown
  <2>2. mutex = NoOne /\ \A c \in Connection : conn[c] = Free
    BY <2>1 DEF NobodyServes
  <2>3. \A k \in Client : ~ Holds(k)
    BY <2>2, FreeFields, IpcAssumption DEF Holds, StateOK
  <2>4. \A k \in Client : Abandoned(k) = conn
    BY <2>3 DEF Abandoned
  <2>5. \A k \in Client : ~ Open(k) /\ ~ Connect(k) /\ ~ Send(k) /\ ~ Receive(k)
    BY <2>1, <2>3 DEF Open, Connect, Send, Receive
  <2>6. \A c \in Connection : ~ Thread(c)
    BY <2>2, ThreadsServe
  <2>7. UNCHANGED <<mutex, conn>>
    BY <1>3, <2>4, <2>5, <2>6
       DEF Next, ClientStep, Fail, Disconnect, Invoke, Daemon, Launch, Start, BeginShutdown
  <2> QED BY <2>2, <2>7
<1> QED BY <1>1, <1>2, <1>3

-----------------------------------------------------------------------------
LEMMA IpcInit == Init => IpcInv
<1> SUFFICES ASSUME Init PROVE IpcInv
  OBVIOUS
<1> USE DEF Init
<1>1. StateOK
  <2>1. vin \in ValidVin \cup {NoVin} /\ state \in {"NONE", "VIN_WRITTEN", "BOUND"}
    BY DEF Vehicle!Init
  <2>2. sealed \in BOOLEAN /\ promised \in ValidVin \cup {NoVin}
    BY DEF Vehicle!Init
  <2>3. conn \in [Connection -> Connections] /\ asked \in [Client -> Requests]
    BY Constants
  <2>4. tries \in [Client -> 0 .. MaxTries] /\ calls \in 0 .. MaxCalls
    BY IpcAssumption DEF MaxTries
  <2> QED BY <2>1, <2>2, <2>3, <2>4 DEF StateOK, Phases
<1>2. told \subseteq ValidVin /\ seen \in [Client -> SUBSET Messages]
  OBVIOUS
<1>3. OneCallInside
  BY FreeFields, IpcAssumption DEF OneCallInside, Inside
<1>4. LinksAgree
  BY FreeFields, RequestOps, IpcAssumption DEF LinksAgree
<1>5. SuccessIsUnderway /\ SuccessIsKept
  BY FreeFields DEF SuccessIsUnderway, SuccessIsKept
<1>6. RepliesInSight
  BY FreeFields, RequestOps DEF RepliesInSight
<1>7. NobodyServes
  BY DEF NobodyServes
<1> QED BY <1>1, <1>2, <1>3, <1>4, <1>5, <1>6, <1>7 DEF IpcInv, TypeOK

LEMMA IpcStep == IpcInv /\ [Next]_vars => IpcInv'
<1> SUFFICES ASSUME IpcInv, [Next]_vars PROVE IpcInv'
  OBVIOUS
<1>1. CASE UNCHANGED vars
  BY <1>1 DEF vars, vehicle, clients, IpcInv, TypeOK, StateOK, NobodyServes, OneCallInside, LinksAgree,
       SuccessIsUnderway, SuccessIsKept, Kept, RepliesInSight, Now
<1>2. CASE Next
  <2>1. StateOK' /\ OneCallInside' /\ LinksAgree'
    BY <1>2, StateStep, OneCallStep, LinksStep DEF IpcInv, TypeOK
  <2>2. SuccessIsUnderway'
    BY <1>2, UnderwayStep DEF IpcInv, TypeOK
  <2>3. told' \subseteq ValidVin /\ SuccessIsKept'
    BY <1>2, ToldStep DEF IpcInv, TypeOK
  <2>4. seen' \in [Client -> SUBSET Messages]
    BY <1>2, <2>1, SeenType DEF IpcInv, TypeOK, Next
  <2>5. RepliesInSight'
    BY <1>2, SightStep DEF IpcInv, TypeOK
  <2>6. NobodyServes'
    BY <1>2, NobodyStep DEF IpcInv, TypeOK
  <2> QED BY <2>1, <2>2, <2>3, <2>4, <2>5, <2>6 DEF IpcInv, TypeOK
<1> QED BY <1>1, <1>2 DEF vars

(***************************************************************************)
(* The inductive invariant: nobody serves without a daemon, the service    *)
(* holds one call which has done what its stage says, connections belong   *)
(* to the calls they carry, every SUCCESS told or on its way is true of    *)
(* the vehicle, and replies to queries are of what was seen.               *)
(***************************************************************************)
THEOREM IpcInvariant == Spec => []IpcInv
BY IpcInit, IpcStep, PTL DEF Spec

(***************************************************************************)
(* Every variable of the clients, the connections and the vehicle has its  *)
(* type, and the framework's client tries no call more than MaxTries       *)
(* times.                                                                  *)
(***************************************************************************)
THEOREM IpcTypeCorrect == Spec => []TypeOK
<1>1. IpcInv => TypeOK
  BY DEF IpcInv
<1> QED BY <1>1, IpcInvariant, PTL

(***************************************************************************)
(* A client that was told SUCCESS is right for good, however many clients, *)
(* connections and calls there are and whatever is repeated, abandoned or  *)
(* lost: of every VIN a write was acknowledged for, the vehicle is sealed  *)
(* and bound to it.                                                        *)
(***************************************************************************)
THEOREM SuccessIsKeptAlways == Spec => []SuccessIsKept
<1>1. IpcInv => SuccessIsKept
  BY DEF IpcInv
<1> QED BY <1>1, IpcInvariant, PTL

(***************************************************************************)
(* A query returns what the vehicle was between two writes, at one moment  *)
(* while the call lasted, or the defaults.                                 *)
(***************************************************************************)
THEOREM ReadsAreCurrentAlways == Spec => []ReadsAreCurrent
<1>1. ASSUME IpcInv PROVE ReadsAreCurrent
  <2> SUFFICES ASSUME NEW k \in Client, asked[k].op \in ReadOps,
                      Holds(k), conn[link[k]].stage = "replied"
               PROVE  \E known \in seen[k] \cup {Said("none")} :
                        Decoded(asked[k].op, conn[link[k]].reply)
                          = Decoded(asked[k].op, View(asked[k].op, known))
    BY DEF ReadsAreCurrent
  <2>1. link[k] \in Connection /\ conn[link[k]].owner = k
    BY <1>1 DEF IpcInv, TypeOK, StateOK, Holds
  <2>2. \/ conn[link[k]].reply \in {Said("SUCCESS"), Said("HANDLER_FAILED"), Said("SERVER_ERROR")}
        \/ \E snapshot \in seen[k] : conn[link[k]].reply = View(asked[k].op, snapshot)
    BY <1>1, <2>1 DEF IpcInv, RepliesInSight
  <2>3. \A status : Decoded(asked[k].op, Said(status))
                     = Decoded(asked[k].op, View(asked[k].op, Said("none")))
    BY DEF Decoded, Unanswered, View, Said, ReadOps
  <2> QED BY <2>2, <2>3
<1> QED BY <1>1, IpcInvariant, PTL

\* A step of the daemon or of its clients is a step of the service or none.
LEMMA LifeStep ==
    ASSUME IpcInv, Next
    PROVE  Life!Next \/ UNCHANGED Life!life
<1> USE IpcAssumption DEF IpcInv, TypeOK, StateOK
<1> DEFINE Lives == Life!Next \/ UNCHANGED Life!life
<1>1. ASSUME NEW k \in Client,
             ClientStep(k) \/ Open(k) \/ Disconnect(k) \/ \E r \in Request : Invoke(k, r)
      PROVE  Lives
  <2>1. UNCHANGED <<daemon, mutex>>
    BY <1>1 DEF ClientStep, Open, Connect, Carry, Send, Receive, Fail, Disconnect, Invoke
  <2> QED BY <2>1 DEF Life!life
<1>2. ASSUME NEW c \in Connection, Thread(c) PROVE Lives
  <2>1. conn[c] # Free
    BY <1>2, ThreadsServe
  <2>2. daemon \in {"up", "closing"} /\ daemon' = daemon
    BY <1>2, <2>1 DEF NobodyServes, Thread, ServiceStep, Reject, Query, Refuse, Enter, SaveVinWritten,
        SaveBound, SetWriteProtection, Finish, GiveUp
  <2>3. CASE Enter(c)
    <3>1. mutex = NoOne /\ mutex' # NoOne
      BY <2>3 DEF Enter, Admitted
    <3>2. daemon = "up"
      BY <2>2, <2>3 DEF Enter, Refusals
    <3> QED BY <2>2, <3>1, <3>2 DEF Life!Next, Life!Admit, Life!Calls
  <2>4. CASE Finish(c) \/ GiveUp(c)
    <3>1. conn[c].stage \in Inside
      BY <2>4 DEF Finish, GiveUp, Inside
    <3>2. mutex # NoOne /\ mutex' = NoOne
      BY <2>4, <3>1 DEF Finish, GiveUp, OneCallInside
    <3> QED BY <2>2, <3>2 DEF Life!Next, Life!Complete, Life!Calls
  <2>5. CASE ~ Enter(c) /\ ~ Finish(c) /\ ~ GiveUp(c)
    <3>1. mutex' = mutex
      BY <1>2, <2>5 DEF Thread, ServiceStep, Reject, Query, Refuse, SaveVinWritten, SaveBound,
          SetWriteProtection
    <3> QED BY <2>2, <3>1 DEF Life!life
  <2> QED BY <2>3, <2>4, <2>5
<1>3. CASE Launch
  <2>1. mutex = NoOne
    BY <1>3 DEF Launch, NobodyServes
  <2> QED BY <1>3, <2>1 DEF Launch, Life!Next, Life!Create
<1>4. CASE Start
  <2>1. mutex = NoOne
    BY <1>4 DEF Start, NobodyServes
  <2> QED BY <1>4, <2>1 DEF Start, Life!Next, Life!Initialize
<1>5. CASE BeginShutdown
  BY <1>5 DEF BeginShutdown, Life!Next, Life!BeginShutdown
<1>6. CASE Stop
  <2>1. mutex = NoOne
    BY <1>6 DEF Stop, OneCallInside
  <2> QED BY <1>6, <2>1 DEF Stop, Life!Next, Life!Halt
<1>7. CASE Crash
  BY <1>7 DEF Crash, Life!Next, Life!Halt
<1> QED BY <1>1, <1>2, <1>3, <1>4, <1>5, <1>6, <1>7 DEF Next, Daemon

(***************************************************************************)
(* For any number of clients and connections: what they do, taken          *)
(* together, is a life of one service.  A write in the service is one      *)
(* call, it begins only while the daemon is up, and the daemon leaves no   *)
(* call behind unless it crashes.                                          *)
(***************************************************************************)
THEOREM DaemonImplementsServiceLife == Spec => ImplementsServiceLife
<1>1. Init => Life!Init
  BY DEF Init, Life!Init
<1>2. IpcInv /\ [Next]_vars => [Life!Next]_Life!life
  <2>1. UNCHANGED vars => UNCHANGED Life!life
    BY DEF vars, Life!life
  <2> QED BY <2>1, LifeStep
<1> QED BY <1>1, <1>2, IpcInvariant, PTL DEF Spec, ImplementsServiceLife, Life!Spec

-----------------------------------------------------------------------------
(* What brings a call to its end.                                          *)

LEMMA ClientDrains ==
    ASSUME IpcInv, NEW k \in Client, phase[k] # "idle", ClientStep(k)
    PROVE  WaitsLeft(k)' < WaitsLeft(k)
<1> USE DEF IpcInv, TypeOK, StateOK, Phases, MaxTries, WaitsLeft, clients
<1>1. ASSUME NEW c \in Connection, Carry(k, c), phase[k] # "waiting"
      PROVE  WaitsLeft(k)' < WaitsLeft(k)
  BY <1>1 DEF Carry
<1>2. CASE Connect(k) \/ Send(k)
  BY <1>1, <1>2 DEF Connect, Send, Holds
<1>3. ASSUME NEW ans, Return(k, ans) PROVE WaitsLeft(k)' < WaitsLeft(k)
  BY <1>3 DEF Return
<1>4. CASE Receive(k)
  BY <1>3, <1>4 DEF Receive
<1>5. CASE Fail(k)
  BY <1>3, <1>5 DEF Fail
<1> QED BY <1>2, <1>4, <1>5 DEF ClientStep

\* Nobody but the client itself touches its call.
LEMMA OthersWait ==
    ASSUME IpcInv, Next, NEW k \in Client, phase[k] # "idle", ~ ClientStep(k)
    PROVE  phase'[k] = phase[k] /\ tries'[k] = tries[k]
<1> USE DEF IpcInv, TypeOK, StateOK, clients
<1>1. ASSUME NEW j \in Client, j # k, ClientStep(j)
      PROVE  phase'[k] = phase[k] /\ tries'[k] = tries[k]
  BY <1>1 DEF ClientStep, Connect, Carry, Send, Receive, Return, Fail
<1>2. ASSUME NEW j \in Client, Open(j) \/ Disconnect(j) \/ \E r \in Request : Invoke(j, r)
      PROVE  phase'[k] = phase[k] /\ tries'[k] = tries[k]
  BY <1>2 DEF Open, Disconnect, Invoke
<1>3. ASSUME NEW c \in Connection, Thread(c)
      PROVE  phase'[k] = phase[k] /\ tries'[k] = tries[k]
  BY <1>3 DEF Thread, ServiceStep, Reject, Query, Refuse, Enter, SaveVinWritten, SaveBound,
      SetWriteProtection, Finish, GiveUp
<1>4. CASE Daemon
  BY <1>4 DEF Daemon, Launch, Start, BeginShutdown, Stop, Crash
<1> QED BY <1>1, <1>2, <1>3, <1>4 DEF Next

(***************************************************************************)
(* With any number of clients and connections, a running call only ever    *)
(* gets nearer to its return, and by steps of its own client alone: the    *)
(* half of EveryCallReturns that needs no fairness.                        *)
(***************************************************************************)
THEOREM CallsDrainAlways == Spec => CallsDrain
<1>1. ASSUME IpcInv, [Next]_vars, NEW k \in Client,
             phase[k] # "idle", <<phase'[k], tries'[k]>> # <<phase[k], tries[k]>>
      PROVE  WaitsLeft(k)' < WaitsLeft(k)
  <2>1. Next
    BY <1>1 DEF vars, clients
  <2> QED BY <1>1, <2>1, ClientDrains, OthersWait
<1>2. IpcInv /\ [Next]_vars =>
        [\A k \in Client :
            phase[k] # "idle" /\ <<phase'[k], tries'[k]>> # <<phase[k], tries[k]>> =>
                WaitsLeft(k)' < WaitsLeft(k)]_vars
  BY <1>1
<1> QED BY <1>2, IpcInvariant, PTL DEF Spec, CallsDrain

\* What the holder of the mutex, if it keeps it, has left to do.
LEMMA HolderGoesOn ==
    ASSUME IpcInv, Next, mutex # NoOne, mutex' # NoOne
    PROVE  /\ mutex' = mutex
           /\ conn'[mutex].stage # conn[mutex].stage =>
                 StepsInside[conn'[mutex].stage] < StepsInside[conn[mutex].stage]
<1> USE DEF IpcInv, TypeOK, StateOK, OneCallInside
<1> DEFINE GoesOn == /\ mutex' = mutex
                     /\ conn'[mutex].stage # conn[mutex].stage =>
                           StepsInside[conn'[mutex].stage] < StepsInside[conn[mutex].stage]
<1>1. mutex \in Connection /\ conn[mutex].stage \in Inside
  OBVIOUS
<1>2. ASSUME NEW k \in Client, conn' = Abandoned(k), mutex' = mutex PROVE GoesOn
  <2>1. conn'[mutex].stage = conn[mutex].stage
    BY <1>1, <1>2 DEF Abandoned, Inside
  <2> QED BY <1>2, <2>1
<1>3. ASSUME NEW k \in Client, Fail(k) \/ Disconnect(k) PROVE GoesOn
  BY <1>2, <1>3 DEF Fail, Disconnect
<1>4. ASSUME NEW c \in Connection \ {mutex}, mutex' = mutex,
             \A d \in Connection \ {c} : conn'[d] = conn[d]
      PROVE  GoesOn
  BY <1>1, <1>4
<1>5. ASSUME NEW k \in Client, Open(k) PROVE GoesOn
  <2>1. PICK c \in Connection :
          /\ conn[c].stage = "free"
          /\ conn' = [conn EXCEPT ![c] = [Free EXCEPT !.stage = "open", !.owner = k]]
    BY <1>5 DEF Open
  <2> QED BY <1>1, <1>4, <1>5, <2>1, Opened DEF Open, Inside
<1>6. ASSUME NEW k \in Client, Connect(k) \/ Send(k) PROVE GoesOn
  <2>1. PICK c \in Connection : Carry(k, c) /\ conn[c].stage \notin Inside
    BY <1>6 DEF Connect, Send, Holds, LinksAgree, Inside
  <2>2. mutex' = mutex /\ c # mutex
    BY <1>1, <2>1 DEF Carry
  <2>3. \A d \in Connection \ {c} : conn'[d] = conn[d]
    BY <2>1, Carried
  <2> QED BY <1>4, <2>2, <2>3
<1>7. ASSUME NEW k \in Client, Receive(k) PROVE GoesOn
  BY <1>1, <1>4, <1>7, Opened DEF Receive, Holds, Inside
<1>8. ASSUME NEW k \in Client, NEW r \in Request, Invoke(k, r) PROVE GoesOn
  BY <1>8 DEF Invoke
<1>9. ASSUME NEW c \in Connection, Reject(c) PROVE GoesOn
  BY <1>1, <1>4, <1>9, Replied DEF Reject, Inside
<1>10. ASSUME NEW c \in Connection, Query(c) \/ Refuse(c) \/ Enter(c) PROVE FALSE
  BY <1>10 DEF Query, Refuse, Enter, Admitted
<1>11. ASSUME NEW c \in Connection, Finish(c) \/ GiveUp(c) PROVE FALSE
  BY <1>11 DEF Finish, GiveUp
<1>12. ASSUME NEW c \in Connection,
              SaveVinWritten(c) \/ SaveBound(c) \/ SetWriteProtection(c)
       PROVE  GoesOn
  <2>1. c = mutex /\ mutex' = mutex
    BY <1>12 DEF SaveVinWritten, SaveBound, SetWriteProtection, Inside
  <2>2. \/ conn[c].stage = "begun" /\ conn'[c].stage = "written"
        \/ conn[c].stage = "written" /\ conn'[c].stage = "bound"
        \/ conn[c].stage = "bound" /\ conn'[c].stage = "sealed"
    BY <1>12, Moved DEF SaveVinWritten, SaveBound, SetWriteProtection
  <2> QED BY <2>1, <2>2 DEF StepsInside
<1>13. CASE Daemon
  BY <1>1, <1>13 DEF Daemon, Launch, Start, BeginShutdown, Stop, Crash
<1> QED BY <1>3, <1>5, <1>6, <1>7, <1>8, <1>9, <1>10, <1>11, <1>12, <1>13
        DEF Next, ClientStep, Thread, ServiceStep

(***************************************************************************)
(* With any number of clients and connections, a write that has entered    *)
(* the service hands its mutex to nobody and takes each step once: the     *)
(* half of MutexComesFree that needs no fairness.                          *)
(***************************************************************************)
THEOREM MutexIsGivenBackAlways == Spec => MutexIsGivenBack
<1>1. ASSUME IpcInv, [Next]_vars, mutex # NoOne, mutex' # NoOne
      PROVE  /\ mutex' = mutex
             /\ conn'[mutex].stage # conn[mutex].stage =>
                   StepsInside[conn'[mutex].stage] < StepsInside[conn[mutex].stage]
  BY <1>1, HolderGoesOn DEF vars
<1>2. IpcInv /\ [Next]_vars =>
        [mutex # NoOne /\ mutex' # NoOne =>
            /\ mutex' = mutex
            /\ conn'[mutex].stage # conn[mutex].stage =>
                  StepsInside[conn'[mutex].stage] < StepsInside[conn[mutex].stage]]_vars
  BY <1>1
<1> QED BY <1>2, IpcInvariant, PTL DEF Spec, MutexIsGivenBack
=============================================================================
