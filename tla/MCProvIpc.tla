----------------------------- MODULE MCProvIpc ------------------------------
(* A small instance of ProvIpc for TLC. *)
EXTENDS ProvIpcProps
CONSTANTS v1, v2

MCRequest == {[op |-> "write_vin", arg |-> v1], [op |-> "authorize_rewrite", arg |-> v2],
              [op |-> "write_vin", arg |-> NoVin], [op |-> "read_binding", arg |-> NoVin]}
=============================================================================
