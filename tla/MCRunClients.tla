---------------------------- MODULE MCRunClients ----------------------------
(***************************************************************************)
(* An instance of RunClients for TLC: MCP clients that count their         *)
(* requests from one and the same number.                                  *)
(***************************************************************************)
EXTENDS RunClients

MCKeyOf == [r \in Runs |-> CHOOSE k \in Keys : TRUE]
=============================================================================
