------------------------------ MODULE MCBridge ------------------------------
(* Instances of McpBridge small enough for TLC. *)
EXTENDS McpBridge
=============================================================================
