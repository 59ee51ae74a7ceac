-------------------------------- MODULE Errors --------------------------------
(***************************************************************************)
(* The errors of packages/errors, by the code each class carries, and what *)
(* the entry point makes of whatever a command throws.  "Error" is an      *)
(* error of no class of its own, "AbortError" that of an aborted call, and *)
(* "CLIError" what the argument parser throws.                             *)
(***************************************************************************)
EXTENDS Naturals

exitCode == [
  GENERIC |-> 1, USAGE |-> 2, INPUT_INVALID |-> 2,
  CONFIG |-> 10, SECRET |-> 11, NO_SIGNER |-> 12,
  RPC |-> 20, RPC_TIMEOUT |-> 20, RPC_RATELIMIT |-> 21, BLOCKHASH_EXPIRED |-> 22,
  INSUFFICIENT_FUNDS |-> 23, SIM_FAILED |-> 24,
  PROVIDER |-> 30, PROVIDER_CAPABILITY_UNSUPPORTED |-> 31,
  NO_INPUT |-> 40, EX_UNAVAILABLE |-> 69, INTERNAL |-> 70, IO |-> 74,
  SIGNER_NOT_AVAILABLE |-> 69, SIGNER_REFUSED |-> 77,
  SIGNER_PERMISSIONS_INSECURE |-> 77,
  SAFETY_BUDGET_EXCEEDED |-> 65, SAFETY_INTENT_REQUIRED |-> 78,
  SAFETY_PROGRAM_DENIED |-> 65, TX_BLOCKHASH_EXPIRED |-> 75,
  TX_SIMULATE_FAILED |-> 65, PLUGIN_INVALID_MANIFEST |-> 65,
  PLUGIN_INTEGRITY_MISMATCH |-> 77, PLUGIN_UNVERIFIED |-> 78,
  IDL_NOT_FOUND |-> 65, MCP_TRANSPORT_UNSUPPORTED |-> 64,
  EVENT_SINK_UNAVAILABLE |-> 65 ]

ERROR_CODES == DOMAIN exitCode

\* An error that is no SolcliError is an internal one.
toSolcliError(e) == IF e \in ERROR_CODES THEN e ELSE "INTERNAL"

normalizeError(e) == IF e = "CLIError" THEN "USAGE" ELSE toSolcliError(e)

Thrown == ERROR_CODES \cup {"Error", "AbortError", "CLIError"}
=============================================================================
