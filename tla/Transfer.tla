------------------------------- MODULE Transfer -------------------------------
(***************************************************************************)
(* The two commands that pay, transfer and token transfer, over            *)
(* operations/tx-execute.ts: what is checked, in which order, before the   *)
(* transaction service of ctx.tx is called.  TxPipeline has that service;  *)
(* here a call of it ends in a signature, returns an error or rejects with *)
(* one, before something was submitted or after.                           *)
(***************************************************************************)
EXTENDS Providers, Integers

CONSTANT NetworkFee  \* what the network charges for one transaction, at least

ASSUME FeeAssumption == NetworkFee \in Nat \ {0}

\* What the arguments of either command may hold.  Addresses and amounts are well
\* formed or not; "other" is a ceiling that is no integer.
WriteRequests ==
  [ command : {"transfer", "token transfer"}, execute : BOOLEAN, key : STRING,
    ceiling : [state : {"none", "other", "integer"}, lamports : Int],
    malformed : {"none", "input", "plan", "policy"}, payer : BOOLEAN,
    mintProgram : {"none", "token", "token-2022"},
    mintOwner : {"none", "token", "token-2022"} ]

ASSUME RequestsAssumption == Writes \subseteq WriteRequests

VARIABLES
  simulation,  \* the pre-flight simulation: by which provider, and its result
  sent         \* what the transaction service was called with, by whom it sends

payVars == <<simulation, sent>>
allVars == <<registryVars, request, processVars, askVars, abortVars, payVars>>

NoSimulation == [by |-> "none", ok |-> FALSE, feeLamports |-> 0, deltas |-> << >>]
NotSent == [by |-> "none", programs |-> {}, submitted |-> FALSE]

-----------------------------------------------------------------------------
(* packages/safety.  A verdict is "none", or the code of its rejection. *)

evaluateSimulateFirst(execute) ==
  IF execute THEN "none" ELSE "SAFETY_INTENT_REQUIRED"

\* The set of keys seen is empty: nothing ever adds to it.
evaluateIdempotency(key, seen) ==
  IF key \in seen THEN "SAFETY_INTENT_REQUIRED" ELSE "none"

evaluateAllowedPrograms(plan, allowed) ==
  IF plan.programs \subseteq allowed THEN "none" ELSE "SAFETY_PROGRAM_DENIED"

evaluateCostBudget(sim, budget, outflow) ==
  IF sim.feeLamports + outflow > budget THEN "SAFETY_BUDGET_EXCEEDED" ELSE "none"

\* What leaves the accounts that lose lamports.
Outflow(sim) ==
  FoldLeft(LAMBDA sum, d : IF d < 0 THEN sum - d ELSE sum, 0, sim.deltas)

compose(verdicts) == First(verdicts)

evaluateBuild(plan, opts) ==
  compose(<<evaluateSimulateFirst(opts.execute),
            evaluateIdempotency(opts.key, {}),
            evaluateAllowedPrograms(plan, opts.allowed)>>)

evaluateSimulation(plan, sim, opts) ==
  compose(<<evaluateCostBudget(sim, opts.ceiling, Outflow(sim)),
            evaluateAllowedPrograms(plan, opts.allowed)>>)

toSafetyError(code) ==
  IF code \in {"SAFETY_BUDGET_EXCEEDED", "SAFETY_PROGRAM_DENIED"} THEN code
  ELSE "SAFETY_INTENT_REQUIRED"

-----------------------------------------------------------------------------
(* The commands' own checks. *)

IsToken == request.command = "token transfer"

\* Each transfer is one instruction of one program, and may name no other.
Program == IF IsToken THEN "Token" ELSE "System"
buildTransferMessage == [programs |-> {"System"}]
buildTokenTransferMessage == [programs |-> {"Token"}]
Plan == IF IsToken THEN buildTokenTransferMessage ELSE buildTransferMessage
Options == [execute |-> request.execute, key |-> request.key,
            ceiling |-> request.ceiling.lamports, allowed |-> {Program}]

\* --execute needs its two companions, before anything else is looked at.
IntentRefusal ==
  IF request.execute /\ (request.key = "none" \/ request.ceiling.state = "none")
  THEN "SAFETY_INTENT_REQUIRED" ELSE "none"

\* The arguments read before the plan is built: addresses, amount, decimals, and
\* the payer, which --execute cannot do without.
InputRefusal ==
  IF \/ request.malformed = "input"
     \/ request.execute /\ ~request.payer
  THEN "INPUT_INVALID" ELSE "none"

\* refuseToken2022, for a program named by --mint-program.
MintRefusal ==
  IF IsToken /\ request.mintProgram = "token-2022" THEN "INPUT_INVALID" ELSE "none"

\* Arguments that are well formed may still make no message, as an amount beyond
\* the width of its field: the encoder throws an error of no class.
PlanRefusal == IF request.malformed = "plan" THEN "Error" ELSE "none"

\* --priority-fee and --via, read after the plan is built.
PolicyRefusal == IF request.malformed = "policy" THEN "INPUT_INVALID" ELSE "none"

\* BigInt of --max-cost-lamports throws for anything but an integer.
CeilingRefusal == IF request.ceiling.state = "other" THEN "Error" ELSE "none"

\* txExecute up to its simulation: the port, then the gate on the plan.
BuildRefusal ==
  First(<<IF Aborted THEN "INTERNAL" ELSE "none",
          resolvePort("simulateTransaction").error,
          LET v == evaluateBuild(Plan, Options)
          IN IF v = "none" THEN "none" ELSE toSafetyError(v)>>)

\* From the making of the plan to the first simulation.  Without --execute nothing that
\* goes wrong from here on fails the command.
Built ==
  LET policy == First(<<PlanRefusal, PolicyRefusal>>)
      port == resolvePort("simulateTransaction")
      refusal == First(<<policy, CeilingRefusal, BuildRefusal>>)
  IN CASE policy # "none" -> Throw(policy) /\ UNCHANGED candidates
       [] policy = "none" /\ ~request.execute ->
            /\ candidates' = port.names
            /\ Goto(IF port.error = "none" THEN "simulating" ELSE "answered")
       [] policy = "none" /\ request.execute ->
            IF refusal # "none" THEN Throw(refusal) /\ UNCHANGED candidates
            ELSE Goto("pre-flight") /\ candidates' = port.names

\* Mutant: the checks of the arguments come before those of the intent, and the
\* ceiling is not asked for.
BeginWithoutIntent ==
  /\ pc = "run" /\ request \in Writes
  /\ IF InputRefusal # "none" THEN Throw(InputRefusal) /\ UNCHANGED candidates
     ELSE Built
  /\ UNCHANGED <<registryVars, request, asked, abortVars, payVars>>

\* run of either command, up to its first await: the lookup of the mint's owner if
\* the port for it is there, or the simulation.
BeginTransfer ==
  /\ pc = "run" /\ request \in Writes
  /\ LET refusal == First(<<IntentRefusal, InputRefusal, MintRefusal>>)
         lookup == resolvePort("getAccountInfo")
     IN IF refusal # "none" THEN Throw(refusal) /\ UNCHANGED candidates
        ELSE IF IsToken /\ request.mintProgram = "none" /\ lookup.error = "none"
             THEN Goto("looking up") /\ candidates' = lookup.names
             ELSE Built
  /\ UNCHANGED <<registryVars, request, asked, abortVars, payVars>>

\* The owner of the mint is looked up.  The refusal of a Token-2022 mint is thrown
\* inside the try whose catch passes over a missing port, and is passed over too.
LookUpMint ==
  /\ pc = "looking up"
  /\ \E o \in Outcomes("getAccountInfo") : Call("getAccountInfo", Head(candidates), o)
  /\ Built
  /\ UNCHANGED <<registryVars, request, abortVars, payVars>>

\* The simulate-only path: whatever comes back, the command answers.
SimulateOnly ==
  /\ pc = "simulating"
  /\ \E o \in Outcomes("simulateTransaction") :
       Call("simulateTransaction", Head(candidates), o)
  /\ Goto("answered")
  /\ UNCHANGED <<registryVars, request, candidates, abortVars, payVars>>

\* makeSimulateTransactionPort: the fee is 0 and no account's change is given.
simulate(name, ok) ==
  [by |-> name, ok |-> ok, feeLamports |-> 0, deltas |-> << >>]

\* The getter of ctx.tx: the active provider, if it is registered, is a vendor's
\* own instance and can simulate.
ServiceRefusal ==
  IF settings.active \in ToSet(registered)
     /\ "simulateTransaction" \in Manifest(settings.active)
  THEN "none" ELSE "CONFIG"

\* The pre-flight simulation and the gate on its result; then ctx.tx.
PreFlight ==
  /\ pc = "pre-flight"
  /\ \E o \in Outcomes("simulateTransaction"), ok \in BOOLEAN :
       LET sim == simulate(Head(candidates), ok)
           verdict == evaluateSimulation(Plan, sim, Options)
           refusal == First(<<IF o = "answer" THEN "none" ELSE o,
                              IF ok THEN "none" ELSE "TX_SIMULATE_FAILED",
                              IF verdict = "none" THEN "none" ELSE toSafetyError(verdict),
                              IF Aborted THEN "INTERNAL" ELSE "none",
                              ServiceRefusal>>)
       IN /\ Call("simulateTransaction", Head(candidates), o)
          /\ simulation' = IF o = "answer" THEN sim ELSE NoSimulation
          /\ IF refusal = "none"
             THEN /\ Goto("executing")
                  /\ sent' = [by |-> settings.active, programs |-> Plan.programs,
                              submitted |-> FALSE]
             ELSE Throw(refusal) /\ UNCHANGED sent
  /\ UNCHANGED <<registryVars, request, candidates, abortVars>>

\* The service submits, to the provider it was made for.
Submit ==
  /\ pc = "executing" /\ ~sent.submitted
  /\ sent' = [sent EXCEPT !.submitted = TRUE]
  /\ UNCHANGED <<registryVars, request, processVars, askVars, abortVars, simulation>>

\* Mutant: the service's errors keep their own codes.
SurfaceErrors(e) == e

\* txExecute wraps every error that the service returns.
wrapped(e) == "INTERNAL"

\* What the service returns: its own gates, a simulation or confirmation that
\* failed, a blockhash that expired once too often, a submission that failed.
Returned == {"SAFETY_BUDGET_EXCEEDED", "TX_SIMULATE_FAILED", "TX_BLOCKHASH_EXPIRED", "RPC"}

\* What it rejects with instead, and txExecute lets through: the simulation, the
\* refresh of the blockhash, and either signing, before and after a submission.
Rejections ==
  {"RPC", "INPUT_INVALID", "SECRET", "NO_INPUT", "SIGNER_NOT_AVAILABLE", "SIGNER_REFUSED",
   "SIGNER_PERMISSIONS_INSECURE", "INTERNAL", "Error"}

Executed ==
  /\ pc = "executing"
  /\ \/ sent.submitted /\ Goto("answered")
     \/ \E e \in Returned : Throw(wrapped(e))
     \/ \E e \in Rejections : Throw(e)
     \/ abort = "AbortError" /\ Throw("AbortError")
  /\ UNCHANGED <<registryVars, request, askVars, abortVars, payVars>>

TransferNext == BeginTransfer \/ LookUpMint \/ SimulateOnly \/ PreFlight \/ Submit
                \/ Executed

CommandInit == Init /\ simulation = NoSimulation /\ sent = NotSent

CommandNext == (ProcessNext /\ UNCHANGED payVars) \/ TransferNext

CommandSpec == CommandInit /\ [][CommandNext]_allVars

-----------------------------------------------------------------------------
\* The transaction service is called only for a command that asked for it with
\* both companions and well-formed arguments, with the plan's own program, after a
\* pre-flight simulation that went well; and the provider that submits is the one
\* that simulated, although the one is the registry's first choice for a port and
\* the other its active entry (transfer.command.ts, tx-execute.ts, context.ts).
SentThroughGates ==
  sent # NotSent =>
    /\ request \in Writes
    /\ request.execute /\ request.key # "none" /\ request.ceiling.state = "integer"
    /\ request.malformed = "none" /\ request.payer
    /\ sent.programs = {Program}
    /\ simulation.ok /\ simulation.by = sent.by
    /\ simulation.feeLamports <= request.ceiling.lamports
    /\ sent.by \in ToSet(registered)

\* The exit codes of the gates, of a simulation that failed, of a configuration and
\* of a port that nobody has.
RefusalExits ==
  {exitCode[e] : e \in {"SAFETY_BUDGET_EXCEEDED", "SAFETY_INTENT_REQUIRED",
                        "TX_SIMULATE_FAILED", "CONFIG", "PROVIDER_CAPABILITY_UNSUPPORTED"}}

\* An exit code of a refusal says that nothing was submitted, and agrees with the
\* code in the envelope: a caller that dispatches on either may safely correct its
\* command and repeat it, although the service has the same gates and reports a
\* transaction that failed on the chain like a simulation that failed
\* (tx-execute.ts:140-154).  No other code says so: a signer or a refresh may
\* fail after a submission, and its error is not wrapped.
RefusedIsUnsent ==
  exit \in RefusalExits =>
    /\ ~sent.submitted
    /\ exit = exitCode[reported]

\* The description of --max-cost-lamports calls it a hard cost ceiling enforced by
\* the safety gate: nothing is submitted whose network fee alone is above it.
CostCeiling == sent.submitted => NetworkFee <= request.ceiling.lamports

\* A comment of token/transfer.command.ts (208-211) says that Token-2022 mints are
\* refused: nothing is submitted when the lookup has shown that the mint is one.
Token2022Refused ==
  ~ /\ sent.submitted
    /\ request.command = "token transfer" /\ request.mintOwner = "token-2022"
    /\ \E i \in DOMAIN asked : asked[i].port = "getAccountInfo"
                               /\ asked[i].outcome = "answer"
=============================================================================
