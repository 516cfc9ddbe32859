----------------------------- MODULE ServiceLife -----------------------------
(***************************************************************************)
(* What the owner of a ProvService and the service itself promise each     *)
(* other: one call at a time, none before initialize succeeded, no new     *)
(* write once beginShutdown was called, and no end of the service under a  *)
(* running call unless the process crashes.                                *)
(***************************************************************************)
CONSTANT MayCrash

VARIABLES
    status,        \* "down", "idle", or the kind of the call that is running
    initialized,
    shuttingDown

life == <<status, initialized, shuttingDown>>

Calls == {"write", "query"}

Init ==
    /\ status = "down"
    /\ initialized = FALSE
    /\ shuttingDown = FALSE

Create ==
    /\ status = "down"
    /\ status' = "idle"
    /\ UNCHANGED <<initialized, shuttingDown>>

Initialize ==
    /\ status = "idle"
    /\ initialized' = TRUE
    /\ UNCHANGED <<status, shuttingDown>>

BeginShutdown ==
    /\ status # "down"
    /\ shuttingDown' = TRUE
    /\ UNCHANGED <<status, initialized>>

Admit(op) ==
    /\ status = "idle" /\ initialized
    /\ op = "write" => ~shuttingDown
    /\ status' = op
    /\ UNCHANGED <<initialized, shuttingDown>>

Complete ==
    /\ status \in Calls
    /\ status' = "idle"
    /\ UNCHANGED <<initialized, shuttingDown>>

Halt ==
    /\ status = "idle" \/ MayCrash
    /\ status' = "down"
    /\ initialized' = FALSE
    /\ shuttingDown' = FALSE

Next ==
    \/ Create \/ Initialize \/ BeginShutdown \/ Complete \/ Halt
    \/ \E op \in Calls : Admit(op)

Spec == Init /\ [][Next]_life
=============================================================================
