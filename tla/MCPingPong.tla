----------------------------- MODULE MCPingPong -----------------------------
(***************************************************************************)
(* PingPong with the one thread that kern_init creates.                    *)
(***************************************************************************)
EXTENDS PingPong

ASSUME ProgramAssumption
=============================================================================
