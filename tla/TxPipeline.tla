----------------------------- MODULE TxPipeline -----------------------------
(***************************************************************************)
(* The write pipeline of packages/tx: runExecute wraps runExecuteOnce in   *)
(* withIdempotency.  Several calls may be in flight in one process (the    *)
(* MCP server keeps one service for its lifetime); each await of the code  *)
(* is a point where calls interleave, an abort arrives, or the process     *)
(* dies.  One action runs from the answer of one port to the call of the   *)
(* next, which JavaScript executes without interruption.                   *)
(***************************************************************************)
EXTENDS Integers, Sequences, FiniteSets

CONSTANTS
  Requests,      \* calls of TransactionService.execute
  Keys,          \* idempotency keys; one key stands for one payload
  Options,       \* the option records a caller may pass
  Simulations,   \* the answers of the simulate port
  HasBundle,     \* TRUE when the optional bundle port is wired
  MAX_SEND_ATTEMPTS, \* signed versions of one transaction; 3 in the code
  maxAttempts,   \* submissions of one signed version; 3 in the code
  AbortReasons,  \* reasons a signal may be aborted with
  SerialKeys,    \* TRUE when callers wait for an answer before reusing a key
  MayExpire,     \* TRUE when cache entries may outlive their TTL
  MaxRestarts,   \* bound on process deaths
  MaxTip,        \* bound on blockhashes the chain produces
  Window         \* how many newer blockhashes a blockhash survives

AbortKinds == {"AbortError", "string"}

ASSUME OptionsAssumption ==
  Options \subseteq [key : Keys, execute : BOOLEAN, via : {"rpc", "jito"},
                     priced : BOOLEAN, budget : Nat]
ASSUME SimulationsAssumption ==
  Simulations \subseteq [ok : BOOLEAN, delta : Int, fee : Nat]
ASSUME FlagsAssumption ==
  HasBundle \in BOOLEAN /\ SerialKeys \in BOOLEAN /\ MayExpire \in BOOLEAN
ASSUME LoopAssumption ==
  MAX_SEND_ATTEMPTS \in Nat \ {0} /\ maxAttempts \in Nat \ {0}
ASSUME AbortAssumption == AbortReasons \subseteq AbortKinds
ASSUME BoundsAssumption ==
  MaxRestarts \in Nat /\ MaxTip \in Nat \ {0} /\ Window \in Nat

\* A signature is determined by what is signed: the payload and its blockhash.
Signatures == [key : Keys, blockhash : 1..MaxTip]
NoSignature == [key |-> "none", blockhash |-> 0]
NoOptions == [key |-> "none"]
NoSimulation == [ok |-> FALSE, delta |-> 0, fee |-> 0]

Codes == {"INTENT_REQUIRED", "SIMULATE_FAILED", "BUDGET_EXCEEDED",
          "BLOCKHASH_EXPIRED", "RATE_LIMIT", "RPC", "GENERIC"}
Ok(s) == [ok |-> TRUE, signature |-> s, code |-> "none"]
Err(c) == [ok |-> FALSE, signature |-> NoSignature, code |-> c]
Results == {Ok(s) : s \in Signatures} \cup {Err(c) : c \in Codes}
NoResult == [ok |-> FALSE, signature |-> NoSignature, code |-> "none"]

\* serializeResult keeps the verdict, the signature and the code ...
serializeResult(result) == result
\* ... and deserializeResult turns every cached failure into one error class.
deserializeResult(cached) ==
  IF cached.ok THEN cached ELSE Err("SIMULATE_FAILED")

EventKinds == {"tx.build", "safety.gate.rejected", "tx.simulate",
               "tx.fee.estimated", "intent.emitted", "tx.signed", "tx.sent",
               "tx.confirmed", "tx.failed"}
Event(kind) == [kind |-> kind, signature |-> NoSignature]
EventOf(kind, s) == [kind |-> kind, signature |-> s]
Events == [kind : EventKinds, signature : Signatures \cup {NoSignature}]
Failed == <<Event("tx.failed")>>
\* Mutant: a gate that rejects without the terminal event.
RejectedOnly == <<Event("safety.gate.rejected")>>

Rejected == <<Event("safety.gate.rejected"), Event("tx.failed")>>

Awaiting == {"begin", "simulating", "pricing", "signing", "sending", "backoff",
             "refreshing", "resigning", "confirming", "storing"}
Ended == {"returned", "thrown", "lost"}
\* Suspended somewhere after the first submission.
Submitted == {"sending", "backoff", "refreshing", "resigning", "confirming"}

VARIABLES
  pc,          \* where each call is suspended
  opts,        \* its options
  plan,        \* the blockhash of its plan
  simulation,  \* the simulation it acts on
  signed,      \* the transaction signed last
  attempt,     \* the outer send loop's counter
  tries,       \* withRetries' counter
  result,      \* what it will return, or returned
  replayed,    \* TRUE when the answer came from the cache
  log,         \* events it emitted
  abort,       \* "none" or the reason its signal was aborted with
  cache,       \* the in-process idempotency cache
  tip,         \* newest blockhash of the chain (external)
  afloat,      \* signatures each call may still get landed (external)
  landed,      \* signatures processed successfully (external)
  reverted,    \* signatures processed with an error, fee paid (external)
  submits,     \* history: submissions made by each call
  restarts     \* process deaths so far

callVars == <<pc, opts, plan, simulation, signed, attempt, tries, result,
              replayed, log>>
netVars == <<tip, landed, reverted>>
vars == <<callVars, abort, cache, netVars, afloat, submits, restarts>>

Init ==
  /\ pc = [r \in Requests |-> "idle"]
  /\ opts = [r \in Requests |-> NoOptions]
  /\ plan = [r \in Requests |-> 0]
  /\ simulation = [r \in Requests |-> NoSimulation]
  /\ signed = [r \in Requests |-> NoSignature]
  /\ attempt = [r \in Requests |-> 0]
  /\ tries = [r \in Requests |-> 0]
  /\ result = [r \in Requests |-> NoResult]
  /\ replayed = [r \in Requests |-> FALSE]
  /\ log = [r \in Requests |-> <<>>]
  /\ abort = [r \in Requests |-> "none"]
  /\ cache = [k \in Keys |-> NoResult]
  /\ tip = 1
  /\ afloat = [r \in Requests |-> {}]
  /\ landed = {}
  /\ reverted = {}
  /\ submits = [r \in Requests |-> 0]
  /\ restarts = 0

-----------------------------------------------------------------------------
(* Shared pieces of the handlers. *)

Aborted(r) == abort[r] # "none"
Running(r) == pc[r] \in Awaiting
Valid(b) == tip - b <= Window
Recent == {b \in 1..tip : Valid(b)}
Processed == landed \cup reverted
ViaBundle(r) == opts[r].via = "jito" /\ HasBundle

Goto(r, where) == pc' = [pc EXCEPT ![r] = where]
Emit(r, events) == log' = [log EXCEPT ![r] = @ \o events]
\* throwIfAborted, then the call of the next stage's port.
Enter(r, stage) == Goto(r, IF Aborted(r) THEN "thrown" ELSE stage)
\* The execution settles; withIdempotency goes on to cache.set.
Settle(r, res) == Goto(r, "storing") /\ result' = [result EXCEPT ![r] = res]

\* Mutant: the balance change taken with its sign.
SignedDelta(sim) == sim.delta

\* lamportsDeltaForPayer: the absolute value of the payer's balance change.
lamportsDeltaForPayer(sim) == IF sim.delta < 0 THEN -sim.delta ELSE sim.delta
totalOutflow(sim) == lamportsDeltaForPayer(sim) + sim.fee
WithinBudget(r) == totalOutflow(simulation[r]) <= opts[r].budget

\* runSend hands the signed transaction to the network.
Submit(r, s) ==
  /\ Goto(r, "sending")
  /\ afloat' = [afloat EXCEPT ![r] = @ \cup {s}]
  /\ submits' = [submits EXCEPT ![r] = @ + 1]
\* An answer that says the network refused this submission.  Another call may
\* have landed the very same signature.
Refused(r) ==
  /\ signed[r] \in Processed => \E q \in Requests \ {r} : signed[r] \in afloat[q]
  /\ afloat' = [afloat EXCEPT ![r] = @ \ {signed[r]}]

-----------------------------------------------------------------------------
(* The call and its gates. *)

\* withIdempotency: cache.get decides whether the pipeline runs at all.  The
\* plan was built around a blockhash that was recent when it was read.
Call(r, o, b) ==
  /\ pc[r] = "idle"
  /\ SerialKeys => \A q \in Requests : ~(Running(q) /\ opts[q].key = o.key)
  /\ opts' = [opts EXCEPT ![r] = o]
  /\ plan' = [plan EXCEPT ![r] = b]
  /\ IF cache[o.key] # NoResult
       THEN /\ Goto(r, "returned")
            /\ result' = [result EXCEPT ![r] = deserializeResult(cache[o.key])]
            /\ replayed' = [replayed EXCEPT ![r] = TRUE]
       ELSE Goto(r, "begin") /\ UNCHANGED <<result, replayed>>
  /\ UNCHANGED <<simulation, signed, attempt, tries, log, abort, cache, netVars,
                 afloat, submits, restarts>>

\* runExecuteOnce up to the first port call: the simulate-first gate.
Begin(r) ==
  /\ pc[r] = "begin"
  /\ IF Aborted(r)
       THEN Goto(r, "thrown") /\ UNCHANGED <<result, log>>
       ELSE IF opts[r].execute
         THEN /\ Goto(r, "simulating")
              /\ Emit(r, <<Event("tx.build")>>)
              /\ UNCHANGED result
         ELSE /\ Settle(r, Err("INTENT_REQUIRED"))
              /\ Emit(r, <<Event("tx.build")>> \o Rejected)
  /\ UNCHANGED <<opts, plan, simulation, signed, attempt, tries, replayed,
                 abort, cache, netVars, afloat, submits, restarts>>

\* The simulate port answers; estimateFee checks the signal first.
SimulateReturns(r, sim) ==
  /\ pc[r] = "simulating"
  /\ simulation' = [simulation EXCEPT ![r] = sim]
  /\ IF sim.ok
       THEN /\ Enter(r, "pricing")
            /\ Emit(r, <<Event("tx.simulate")>>)
            /\ UNCHANGED result
       ELSE /\ Settle(r, Err("SIMULATE_FAILED"))
            /\ Emit(r, <<Event("tx.simulate")>> \o Failed)
  /\ UNCHANGED <<opts, plan, signed, attempt, tries, replayed, abort, cache,
                 netVars, afloat, submits, restarts>>

\* The fee is known; the cost-budget gate, then the intent, then runSign.
FeeReturns(r) ==
  /\ pc[r] = "pricing"
  /\ IF WithinBudget(r)
       THEN /\ Enter(r, "signing")
            /\ Emit(r, <<Event("tx.fee.estimated"), Event("intent.emitted")>>)
            /\ UNCHANGED result
       ELSE /\ Settle(r, Err("BUDGET_EXCEEDED"))
            /\ Emit(r, <<Event("tx.fee.estimated")>> \o Rejected)
  /\ UNCHANGED <<opts, plan, simulation, signed, attempt, tries, replayed,
                 abort, cache, netVars, afloat, submits, restarts>>

\* A port other than send and confirm rejects: the whole call rejects, nothing
\* is cached.  Policies "none" and "jito" ask no fee port.
PortRaises(r) ==
  /\ \/ pc[r] \in {"simulating", "signing", "refreshing", "resigning"}
     \/ pc[r] = "pricing" /\ opts[r].priced
     \/ pc[r] = "confirming" /\ Aborted(r)
  /\ Goto(r, "thrown")
  /\ UNCHANGED <<opts, plan, simulation, signed, attempt, tries, result,
                 replayed, log, abort, cache, netVars, afloat, submits,
                 restarts>>

-----------------------------------------------------------------------------
(* Signing, sending, refreshing. *)

Sign(r) == [key |-> opts[r].key, blockhash |-> plan[r]]

\* The signer answers; the send loop checks the signal and submits.
SubmitSigned(r) ==
  /\ signed' = [signed EXCEPT ![r] = Sign(r)]
  /\ attempt' = [attempt EXCEPT ![r] = @ + 1]
  /\ tries' = [tries EXCEPT ![r] = 1]
  /\ IF Aborted(r)
       THEN Goto(r, "thrown") /\ UNCHANGED <<afloat, submits>>
       ELSE Submit(r, Sign(r))
  /\ UNCHANGED <<opts, plan, simulation, result, replayed, abort, cache,
                 netVars, restarts>>

SignReturns(r) ==
  /\ pc[r] = "signing"
  /\ Emit(r, <<EventOf("tx.signed", Sign(r))>>)
  /\ SubmitSigned(r)

\* The signature made after a refresh is not announced by an event.
ResignReturns(r) ==
  /\ pc[r] = "resigning"
  /\ SubmitSigned(r)
  /\ UNCHANGED log

\* The network took the transaction; runConfirm checks the signal first.
SendAccepted(r) ==
  /\ pc[r] = "sending"
  /\ Enter(r, "confirming")
  /\ Emit(r, <<EventOf("tx.sent", signed[r])>>)
  /\ UNCHANGED <<opts, plan, simulation, signed, attempt, tries, result,
                 replayed, abort, cache, netVars, afloat, submits, restarts>>

\* What the send loop's catch block makes of an aborted signal: isAbortError
\* recognises an AbortError and rethrows it; any other reason is a failure.
AbortSurfaces(r, reason) ==
  IF reason = "AbortError"
    THEN Goto(r, "thrown") /\ UNCHANGED <<result, log>>
    ELSE Settle(r, Err("GENERIC")) /\ Emit(r, Failed)

\* RpcRateLimitError: withRetries sleeps unless this was its last try.  The
\* sleep starts by checking the signal.
SendRateLimited(r) ==
  /\ pc[r] = "sending"
  /\ Refused(r)
  /\ CASE tries[r] = maxAttempts -> Settle(r, Err("RATE_LIMIT")) /\ Emit(r, Failed)
       [] tries[r] < maxAttempts /\ Aborted(r) -> AbortSurfaces(r, abort[r])
       [] OTHER -> Goto(r, "backoff") /\ UNCHANGED <<result, log>>
  /\ UNCHANGED <<opts, plan, simulation, signed, attempt, tries, replayed,
                 abort, cache, netVars, submits, restarts>>

\* Mutant: the sleep and the loop ignore the signal.
BackoffIgnoresAbort(r) ==
  /\ pc[r] = "backoff"
  /\ tries' = [tries EXCEPT ![r] = @ + 1]
  /\ Submit(r, signed[r])
  /\ UNCHANGED <<opts, plan, simulation, signed, attempt, result, replayed, log,
                 abort, cache, netVars, restarts>>

\* The backoff timer fires: the next try submits the same signed transaction.
BackoffElapses(r) ==
  /\ pc[r] = "backoff"
  /\ ~Aborted(r)
  /\ tries' = [tries EXCEPT ![r] = @ + 1]
  /\ Submit(r, signed[r])
  /\ UNCHANGED <<opts, plan, simulation, signed, attempt, result, replayed, log,
                 abort, cache, netVars, restarts>>

\* Mutant: a sleep that an abort leaves hanging.
BackoffHangs(r) == FALSE /\ UNCHANGED vars

\* The abort interrupts the sleep with an AbortError of the timer's own,
\* whatever the reason.
BackoffInterrupted(r) ==
  /\ pc[r] = "backoff"
  /\ Aborted(r)
  /\ AbortSurfaces(r, "AbortError")
  /\ UNCHANGED <<opts, plan, simulation, signed, attempt, tries, replayed,
                 abort, cache, netVars, afloat, submits, restarts>>

\* Mutant: one attempt too many.
ExpireOneMore(r) ==
  /\ IF attempt[r] > MAX_SEND_ATTEMPTS
       THEN Settle(r, Err("BLOCKHASH_EXPIRED")) /\ Emit(r, Failed)
       ELSE Goto(r, "refreshing") /\ UNCHANGED <<result, log>>
  /\ UNCHANGED <<opts, plan, simulation, signed, attempt, tries, replayed,
                 abort, cache, netVars, submits, restarts>>

\* TxBlockhashExpiredV2Error: refresh unless this was the last attempt.
Expire(r) ==
  /\ IF attempt[r] = MAX_SEND_ATTEMPTS
       THEN Settle(r, Err("BLOCKHASH_EXPIRED")) /\ Emit(r, Failed)
       ELSE Goto(r, "refreshing") /\ UNCHANGED <<result, log>>
  /\ UNCHANGED <<opts, plan, simulation, signed, attempt, tries, replayed,
                 abort, cache, netVars, submits, restarts>>

\* "Blockhash not found": the network refused the transaction.
SendExpired(r) ==
  /\ pc[r] = "sending"
  /\ Refused(r)
  /\ Expire(r)

\* A bundle submission that returned no signatures is treated as expired too,
\* although nothing says the bundle was refused.
BundleUnsigned(r) ==
  /\ pc[r] = "sending"
  /\ ViaBundle(r)
  /\ Expire(r)
  /\ UNCHANGED afloat

\* Mutant: every send error refreshes and re-signs.
SendFailsRefreshes(r) ==
  /\ pc[r] = "sending"
  /\ Expire(r)
  /\ UNCHANGED afloat

\* Any other error: the transaction may or may not have reached the network.
SendFails(r) ==
  /\ pc[r] = "sending"
  /\ Settle(r, Err("RPC"))
  /\ Emit(r, Failed)
  /\ UNCHANGED <<opts, plan, simulation, signed, attempt, tries, replayed,
                 abort, cache, netVars, afloat, submits, restarts>>

\* The abort interrupts the submission, which may have reached the network: the
\* port rejects with the reason.  (The RPC adapter wraps a string reason in an
\* RpcError, which is SendFails.)
SendInterrupted(r) ==
  /\ pc[r] = "sending"
  /\ Aborted(r)
  /\ AbortSurfaces(r, abort[r])
  /\ UNCHANGED <<opts, plan, simulation, signed, attempt, tries, replayed,
                 abort, cache, netVars, afloat, submits, restarts>>

\* refreshBlockhash answers; runSign checks the signal.
RefreshReturns(r, b) ==
  /\ pc[r] = "refreshing"
  /\ plan' = [plan EXCEPT ![r] = b]
  /\ Enter(r, "resigning")
  /\ UNCHANGED <<opts, simulation, signed, attempt, tries, result, replayed,
                 log, abort, cache, netVars, afloat, submits, restarts>>

-----------------------------------------------------------------------------
(* Confirmation, caching, and the environment. *)

ConfirmOk(r) ==
  /\ pc[r] = "confirming"
  /\ signed[r] \in landed
  /\ Settle(r, Ok(signed[r]))
  /\ Emit(r, <<EventOf("tx.confirmed", signed[r])>>)
  /\ UNCHANGED <<opts, plan, simulation, signed, attempt, tries, replayed,
                 abort, cache, netVars, afloat, submits, restarts>>

\* Mutant: result.err is not looked at.
ConfirmErrIgnored(r) ==
  /\ pc[r] = "confirming"
  /\ Settle(r, Ok(signed[r]))
  /\ Emit(r, <<EventOf("tx.confirmed", signed[r])>>)
  /\ UNCHANGED <<opts, plan, simulation, signed, attempt, tries, replayed,
                 abort, cache, netVars, afloat, submits, restarts>>

\* The confirm adapter folds every non-abort failure, a lost websocket
\* included, into { err }.
ConfirmErr(r) ==
  /\ pc[r] = "confirming"
  /\ Settle(r, Err("SIMULATE_FAILED"))
  /\ Emit(r, <<EventOf("tx.failed", signed[r])>>)
  /\ UNCHANGED <<opts, plan, simulation, signed, attempt, tries, replayed,
                 abort, cache, netVars, afloat, submits, restarts>>

\* Mutant: only successes are cached.
StoreSuccess(r) ==
  /\ pc[r] = "storing"
  /\ Goto(r, "returned")
  /\ cache' = IF result[r].ok
                THEN [cache EXCEPT ![opts[r].key] = serializeResult(result[r])]
                ELSE cache
  /\ UNCHANGED <<opts, plan, simulation, signed, attempt, tries, result,
                 replayed, log, abort, netVars, afloat, submits, restarts>>

\* cache.set, then the promise of execute resolves.
Store(r) ==
  /\ pc[r] = "storing"
  /\ Goto(r, "returned")
  /\ cache' = [cache EXCEPT ![opts[r].key] = serializeResult(result[r])]
  /\ UNCHANGED <<opts, plan, simulation, signed, attempt, tries, result,
                 replayed, log, abort, netVars, afloat, submits, restarts>>

Abort(r, reason) ==
  /\ Running(r) /\ ~Aborted(r)
  /\ abort' = [abort EXCEPT ![r] = reason]
  /\ UNCHANGED <<callVars, cache, netVars, afloat, submits, restarts>>

\* The TTL of an entry runs out; the next get deletes it and misses.
ExpireEntry(k) ==
  /\ MayExpire /\ cache[k] # NoResult
  /\ cache' = [cache EXCEPT ![k] = NoResult]
  /\ UNCHANGED <<callVars, abort, netVars, afloat, submits, restarts>>

\* The process exits or dies: calls in flight are lost and so is the cache,
\* but not what they put on the wire.
Restart ==
  /\ restarts < MaxRestarts
  /\ restarts' = restarts + 1
  /\ pc' = [r \in Requests |-> IF Running(r) THEN "lost" ELSE pc[r]]
  /\ cache' = [k \in Keys |-> NoResult]
  /\ UNCHANGED <<opts, plan, simulation, signed, attempt, tries, result,
                 replayed, log, abort, netVars, afloat, submits>>

\* The chain (external): a new blockhash, and transactions processed while
\* their blockhash is valid.
NewBlockhash ==
  /\ tip < MaxTip
  /\ tip' = tip + 1
  /\ UNCHANGED <<callVars, abort, cache, landed, reverted, afloat, submits,
                 restarts>>

Process(s) ==
  /\ \E r \in Requests : s \in afloat[r]
  /\ s \notin Processed /\ Valid(s.blockhash)
  /\ \/ landed' = landed \cup {s} /\ UNCHANGED reverted
     \/ reverted' = reverted \cup {s} /\ UNCHANGED landed
  /\ UNCHANGED <<callVars, abort, cache, tip, afloat, submits, restarts>>

Step(r) ==
  \/ Begin(r)
  \/ \E sim \in Simulations : SimulateReturns(r, sim)
  \/ FeeReturns(r)
  \/ PortRaises(r)
  \/ SignReturns(r)
  \/ SendAccepted(r)
  \/ SendRateLimited(r)
  \/ BackoffElapses(r)
  \/ BackoffInterrupted(r)
  \/ SendExpired(r)
  \/ BundleUnsigned(r)
  \/ SendFails(r)
  \/ SendInterrupted(r)
  \/ \E b \in Recent : RefreshReturns(r, b)
  \/ ResignReturns(r)
  \/ ConfirmOk(r)
  \/ ConfirmErr(r)
  \/ Store(r)

Next ==
  \/ \E r \in Requests, o \in Options, b \in Recent : Call(r, o, b)
  \/ \E r \in Requests : Step(r)
  \/ \E r \in Requests, reason \in AbortReasons : Abort(r, reason)
  \/ \E k \in Keys : ExpireEntry(k)
  \/ Restart
  \/ NewBlockhash
  \/ \E s \in Signatures : Process(s)

Spec == Init /\ [][Next]_vars
\* The event loop runs every continuation, the signer answers or rejects, and a
\* request over HTTP is answered or given up by the client.  A confirmation
\* need not come: the subscription has no timeout, no last valid block height
\* and no polling, so only an abort is sure to end that wait.  Nothing obliges
\* the chain, the caller or an abort.
Progress(r) == (pc[r] = "confirming" => Aborted(r)) /\ Step(r)
FairSpec == Spec /\ \A r \in Requests : WF_vars(Progress(r))

-----------------------------------------------------------------------------
(* Properties. *)

\* Every variable has its type; the counters stay within their loops' bounds.
TypeOK ==
  /\ pc \in [Requests -> {"idle"} \cup Awaiting \cup Ended]
  /\ opts \in [Requests -> Options \cup {NoOptions}]
  /\ plan \in [Requests -> 0..MaxTip]
  /\ simulation \in [Requests -> Simulations \cup {NoSimulation}]
  /\ signed \in [Requests -> Signatures \cup {NoSignature}]
  /\ attempt \in [Requests -> 0..MAX_SEND_ATTEMPTS]
  /\ tries \in [Requests -> 0..maxAttempts]
  /\ result \in [Requests -> Results \cup {NoResult}]
  /\ replayed \in [Requests -> BOOLEAN]
  /\ log \in [Requests -> Seq(Events)]
  /\ abort \in [Requests -> {"none"} \cup AbortReasons]
  /\ cache \in [Keys -> Results \cup {NoResult}]
  /\ tip \in 1..MaxTip
  /\ afloat \in [Requests -> SUBSET Signatures]
  /\ landed \in SUBSET Signatures
  /\ reverted \in SUBSET Signatures
  /\ submits \in [Requests -> Nat]
  /\ restarts \in 0..MaxRestarts
  /\ \A r \in Requests : pc[r] # "idle" => opts[r] \in Options /\ plan[r] # 0
  /\ \A r \in Requests : pc[r] \in Submitted => signed[r] \in Signatures

\* Default-deny: nothing reaches the network for a call that did not pass
\* --execute, whose simulation failed, or that costs the payer more than the
\* budget, across every retry, refresh and re-sign (ADR-0013, execute.ts).
GatesBeforeSubmit ==
  \A r \in Requests : submits[r] > 0 =>
    /\ opts[r].execute
    /\ simulation[r].ok
    /\ simulation[r].fee - simulation[r].delta <= opts[r].budget

\* A call is re-signed only once its previous signature cannot land any more:
\* at no time can two signatures of one call both land.  (Not so on the bundle
\* path: see BundleUnsigned.)
OneSignatureAfloat ==
  \A r \in Requests : pc[r] # "idle" /\ ~ViaBundle(r) =>
    \A s, t \in afloat[r] : s = t

\* A failure that is not about an ambiguous send or confirmation is definite:
\* nothing of that call can land after it, so a caller may start afresh.
DefiniteCodes == {"INTENT_REQUIRED", "BUDGET_EXCEEDED", "BLOCKHASH_EXPIRED",
                  "RATE_LIMIT"}
DefiniteFailures ==
  \A r \in Requests :
    pc[r] \in {"storing", "returned"} /\ result[r].code \in DefiniteCodes
      /\ ~ViaBundle(r) => afloat[r] = {}

\* A reported signature landed and belongs to the caller's key, whether it was
\* confirmed by this call or replayed from the cache.
ReportedSignatureLanded ==
  \A r \in Requests : pc[r] = "returned" /\ result[r].ok =>
    result[r].signature \in landed /\ result[r].signature.key = opts[r].key

\* A call that settles leaves exactly one terminal event, its last, and it says
\* what the answer says; a call that rejects or dies leaves none.
Terminals(r) == {i \in 1..Len(log[r]) :
                   log[r][i].kind \in {"tx.confirmed", "tx.failed"}}
Settled(r) == result[r] # NoResult /\ ~replayed[r]
OneTerminalEvent ==
  \A r \in Requests :
    /\ Terminals(r) = IF Settled(r) THEN {Len(log[r])} ELSE {}
    /\ Settled(r) => (log[r][Len(log[r])].kind = "tx.confirmed" <=> result[r].ok)

\* Each of the signed versions gets its tries and no more (nine submissions in
\* the code), whatever mixture of rate limits and expiries the network answers.
SubmissionBound ==
  \A r \in Requests : submits[r] <= MAX_SEND_ATTEMPTS * maxAttempts

\* Once the signal is aborted no further submission leaves the process.
NoSubmissionAfterAbort ==
  [][\A r \in Requests : submits'[r] # submits[r] => ~Aborted(r)]_vars

\* One key, one payment: at most one transaction per idempotency key is ever
\* processed.  Holds for callers that wait, keep the process and never abort.
AtMostOncePerKey ==
  \A s, t \in Processed : s.key = t.key => s = t

\* A call ends, whatever mixture of answers and aborts its loops and sleeps see,
\* or it waits for the confirmation of what it sent with nobody aborting it; an
\* abort ends that wait too.
EndsOrAwaitsConfirmation ==
  \A r \in Requests :
    pc[r] # "idle" ~> pc[r] \in Ended \/ (pc[r] = "confirming" /\ ~Aborted(r))

\* tests/service.test.ts: "aborting during send propagates": an abort rejects
\* the call and never becomes its (cached) answer.
AbortPropagates ==
  \A r \in Requests : result[r].code # "GENERIC"

\* ADR-0008: a bundle that was asked for and is unavailable is an error, so
\* nothing is sent by another route.
BundleOrNothing ==
  \A r \in Requests :
    pc[r] # "idle" /\ opts[r].via = "jito" /\ ~HasBundle => submits[r] = 0

\* ADR-0014: the events are "an audit log of ... every transaction the runner
\* submitted": once a call is over, each signature it may land was announced.
EverySubmissionLogged ==
  \A r \in Requests : pc[r] \in {"returned", "thrown"} =>
    afloat[r] \subseteq {log[r][i].signature : i \in 1..Len(log[r])}
=============================================================================
