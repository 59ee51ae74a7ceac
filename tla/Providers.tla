------------------------------ MODULE Providers ------------------------------
(***************************************************************************)
(* One command from its bootstrap to its exit code: the providers that the *)
(* configuration names are registered, a port is resolved to the providers *)
(* that have it, and the commands that read ask them (context.ts, the      *)
(* registry and vendors of packages/providers, operations/, and the        *)
(* balance, token balance and account info commands).  An action is what   *)
(* runs between two awaits; a signal may come at any of them.              *)
(***************************************************************************)
EXTENDS Errors, Sequences, SequencesExt

CONSTANTS
  Settings,     \* provider settings a command may start with
  Reads,        \* what the reading commands may be asked
  Writes,       \* what the writing commands may be asked
  AbortReasons  \* what a signal may be aborted with: "AbortError", "string"

ASSUME AbortAssumption == AbortReasons \subseteq {"AbortError", "string"}
ASSUME SettingsAssumption ==
  \A s \in Settings : s.active \in STRING /\ s.fallback \in Seq(STRING)
\* Only a command that walks over the providers may be told which one to ask.
ASSUME ReadsAssumption ==
  /\ Reads \subseteq [port : STRING, walks : BOOLEAN, pinned : STRING, valid : BOOLEAN]
  /\ \A r \in Reads : r.pinned # "none" => r.walks
  /\ Reads \cap Writes = {}

VARIABLES
  settings,    \* config.provider: active, fallback and a section per vendor
  request,     \* the command and its arguments
  pc,          \* what the command does next
  pending,     \* vendors still to be registered
  registered,  \* names of the registered providers, in order
  failures,    \* vendors whose registration failed
  candidates,  \* names of the providers the port was resolved to
  asked,       \* history: the calls made and what came of each
  error,       \* what the command threw
  abort,       \* "none" or the reason the signal was aborted with
  heard,       \* how many calls had been begun when it was
  reported,    \* the code in the error's envelope
  exit         \* the exit code, once the process has ended

processVars == <<pc, error, reported, exit>>
registryVars == <<settings, pending, registered, failures>>
askVars == <<candidates, asked>>
abortVars == <<abort, heard>>

Running == 256  \* no exit code yet
Aborted == abort # "none"

-----------------------------------------------------------------------------
(* The vendors.  Each binds the six ports of a standard RPC client and     *)
(* declares the same six.                                                  *)

createStandardRpcPorts ==
  {"getAccountInfo", "getBalance", "getTokenBalances", "simulateTransaction",
   "getTransaction", "getTransactionHistory"}
HELIUS_MANIFEST ==
  {"getAccountInfo", "getBalance", "getTokenBalances", "simulateTransaction",
   "getTransaction", "getTransactionHistory"}
TRITON_MANIFEST == HELIUS_MANIFEST
Manifest(v) == IF v = "helius" THEN HELIUS_MANIFEST ELSE TRITON_MANIFEST

\* A manifest and its bindings name the same ports.
makeProviderInstance(v) ==
  IF Manifest(v) = createStandardRpcPorts THEN "none" ELSE "INTERNAL"

NoSection == [apiKey |-> "none", bearer |-> "none", endpoint |-> "absent"]

\* A secret is not named, named and missing, refused by its backend, or there.
readConfiguredSecret(s) ==
  CASE s = "missing" -> "CONFIG" [] s = "refused" -> "SECRET" [] OTHER -> "none"

createHeliusProvider(s) ==
  IF s.endpoint = "other" \/ (s.endpoint = "none" /\ s.apiKey # "value")
  THEN "CONFIG" ELSE makeProviderInstance("helius")

createTritonProvider(s) ==
  IF s.endpoint = "http" THEN makeProviderInstance("triton") ELSE "CONFIG"

\* The first of some refusals, in the order the code comes to them.
First(refusals) ==
  LET real == {i \in DOMAIN refusals : refusals[i] # "none"}
  IN IF real = {} THEN "none" ELSE refusals[Min(real)]

\* Why a vendor cannot be registered with its section, or "none".
Misconfigured(v, s) ==
  First(<<IF s = NoSection THEN "CONFIG" ELSE "none",
          readConfiguredSecret(s.apiKey), readConfiguredSecret(s.bearer),
          IF s.apiKey = "none" /\ s.bearer = "none" THEN "CONFIG" ELSE "none",
          IF v = "helius" THEN createHeliusProvider(s) ELSE createTritonProvider(s)>>)

knownProviderNames == <<"helius", "triton">>

Referenced(v) ==
  \/ settings.active = v
  \/ v \in ToSet(settings.fallback)
  \/ settings.section[v] # NoSection

-----------------------------------------------------------------------------
(* InMemoryProviderRegistry and resolvePort. *)

Capable(n, port) == n \in ToSet(registered) /\ port \in Manifest(n)

\* A name that has the port is put behind the others, unless it is one of them.
Keep(names, n, port) ==
  IF Capable(n, port) /\ n \notin ToSet(names) THEN Append(names, n) ELSE names

\* The active provider, then the fallbacks, then the others as registered, each
\* where it comes first.
Order == <<settings.active>> \o settings.fallback \o registered
capableFor(port) ==
  LET out[i \in 0..Len(Order)] ==
        IF i = 0 THEN << >> ELSE Keep(out[i - 1], Order[i], port)
  IN out[Len(Order)]

\* The providers of a port, or the error that resolving it throws.
resolvePortCandidates(port, pinned) ==
  IF pinned = "none"
  THEN [names |-> capableFor(port),
        error |-> IF capableFor(port) = << >>
                  THEN "PROVIDER_CAPABILITY_UNSUPPORTED" ELSE "none"]
  ELSE [names |-> <<pinned>>,
        error |-> CASE pinned \notin ToSet(registered) -> "USAGE"
                    [] pinned \in ToSet(registered) /\ ~Capable(pinned, port) ->
                         "PROVIDER_CAPABILITY_UNSUPPORTED"
                    [] OTHER -> "none"]

\* resolvePort takes the first of them.
resolvePort(port) ==
  LET r == resolvePortCandidates(port, "none")
  IN [r EXCEPT !.names = IF r.error = "none" THEN <<Head(r.names)>> ELSE << >>]

\* callRpc: an aborted call rejects with the signal's reason, which is rethrown
\* only if it is an AbortError; any other failure is an RpcError.
callRpc == IF abort = "AbortError" THEN "AbortError" ELSE "RPC"

\* The call under way was begun after the abort, and is refused at once.
BegunAborted == Aborted /\ Len(asked) >= heard

\* What a port's call may come to: an answer, a failed call, or, where a message is
\* put together or the answer taken apart, an error of that.  An answer or a failure
\* may have come in when the abort does.
Outcomes(port) ==
  LET malformed == \/ port = "simulateTransaction"
                   \/ ~BegunAborted /\ port \in {"getTokenBalances", "getAccountInfo"}
  IN (IF BegunAborted THEN {callRpc} ELSE {"answer", "RPC", callRpc})
     \cup (IF malformed THEN {"Error"} ELSE {})

Call(port, name, outcome) ==
  /\ outcome \in Outcomes(port)
  /\ asked' = Append(asked, [port |-> port, name |-> name, outcome |-> outcome])

-----------------------------------------------------------------------------
(* The process. *)

Init ==
  /\ settings \in Settings
  /\ request \in Reads \cup Writes
  /\ pc = "bootstrap"
  /\ pending = knownProviderNames
  /\ registered = << >> /\ failures = {}
  /\ candidates = << >> /\ asked = << >>
  /\ error = "none"
  /\ abort = "none" /\ heard = 0
  /\ reported = "none" /\ exit = Running

Goto(label) == pc' = label /\ UNCHANGED <<error, reported, exit>>
Throw(e) == pc' = "failed" /\ error' = e /\ UNCHANGED <<reported, exit>>

\* registerConfiguredProviders, one vendor: a failure is noted and passed over.
Register ==
  /\ pc = "bootstrap" /\ pending # << >>
  /\ LET v == Head(pending)
         refused == Misconfigured(v, settings.section[v]) # "none"
     IN /\ registered' = IF Referenced(v) /\ ~refused THEN Append(registered, v)
                         ELSE registered
        /\ failures' = IF Referenced(v) /\ refused THEN failures \cup {v}
                       ELSE failures
  /\ pending' = Tail(pending)
  /\ UNCHANGED <<settings, request, processVars, askVars, abortVars>>

\* buildContext has returned and the command's run is called.
Bootstrapped ==
  /\ pc = "bootstrap" /\ pending = << >>
  /\ Goto("run")
  /\ UNCHANGED <<registryVars, request, askVars, abortVars>>

\* A reading command checks its arguments and resolves its port: the operations
\* walk over all candidates, the other commands take the first.
BeginRead ==
  /\ pc = "run" /\ request \in Reads
  /\ LET r == IF request.walks THEN resolvePortCandidates(request.port, request.pinned)
              ELSE resolvePort(request.port)
         refusal == First(<<IF request.valid THEN "none" ELSE "INPUT_INVALID", r.error>>)
     IN IF refusal # "none"
        THEN Throw(refusal) /\ UNCHANGED candidates
        ELSE Goto("asking") /\ candidates' = r.names
  /\ UNCHANGED <<registryVars, request, asked, abortVars>>

\* Mutant: whatever went wrong, the next provider is asked.
AnyFallbackError(e) == e \in Thrown

isFallbackError(e) == e \in {"PROVIDER", "RPC", "RPC_TIMEOUT", "RPC_RATELIMIT"}

\* One turn of the loop of getBalance and getPortfolio; the other commands call
\* their one port.
Ask ==
  /\ pc = "asking"
  /\ \E o \in Outcomes(request.port) :
       /\ Call(request.port, Head(candidates), o)
       /\ CASE o = "answer" -> Goto("answered") /\ UNCHANGED candidates
            [] o # "answer" /\ isFallbackError(o) /\ Len(candidates) > 1
                 /\ request.pinned = "none" ->
                 Goto("asking") /\ candidates' = Tail(candidates)
            [] OTHER -> Throw(o) /\ UNCHANGED candidates
  /\ UNCHANGED <<registryVars, request, abortVars>>

\* handleError: the envelope, on the formatter or on stderr.
HandleError ==
  /\ pc = "failed"
  /\ reported' = normalizeError(error)
  /\ pc' = "reported"
  /\ UNCHANGED <<registryVars, request, askVars, error, abortVars, exit>>

\* flushContext, then process.exit.
Leave ==
  /\ pc \in {"answered", "reported"}
  /\ pc' = "left"
  /\ exit' = IF pc = "reported" THEN exitCode[reported] ELSE 0
  /\ UNCHANGED <<registryVars, request, askVars, error, abortVars, reported>>

\* Where a command waits for the answer of a port.
Waiting == {"asking", "looking up", "simulating", "pre-flight"}

\* SIGINT aborts the process's signal and asks for the exit on the next turn; the
\* MCP server and tests abort with reasons of their own.
Signal ==
  /\ pc \notin {"bootstrap", "left"}
  /\ ~Aborted
  /\ abort' \in AbortReasons
  /\ heard' = Len(asked) + IF pc \in Waiting THEN 1 ELSE 0
  /\ UNCHANGED <<registryVars, request, processVars, askVars>>

\* 130 after SIGINT, 143 after SIGTERM.
Killed ==
  /\ Aborted /\ pc # "left"
  /\ pc' = "left" /\ exit' \in {130, 143}
  /\ UNCHANGED <<registryVars, request, askVars, error, abortVars, reported>>

ProcessNext == Register \/ Bootstrapped \/ BeginRead \/ Ask \/ HandleError \/ Leave
               \/ Signal \/ Killed

-----------------------------------------------------------------------------
\* What a reading command answers or fails with is what the last provider it asked
\* said.  Those asked before it failed in a way another provider may make good;
\* nobody is asked twice, the active provider is asked first, a pinned one alone,
\* and such a failure is final for an operation only when every provider that has
\* the port was asked (get-balance.ts, registry.ts, resolve-port.ts).  ADR 0016 wants
\* more: see ExhaustedIsUnavailable.
FinalAnswerStands ==
  request \in Reads /\ pc \in {"answered", "failed"} /\ asked # << >> =>
    LET final == Last(asked).outcome
        whom == [i \in 1..Len(asked) |-> asked[i].name]
        able == {n \in ToSet(registered) : request.port \in Manifest(n)}
    IN /\ IsInjective(whom) /\ ToSet(whom) \subseteq able
       /\ \A i \in 1..Len(asked) - 1 : asked[i].outcome = "RPC"
       /\ final = "answer" <=> pc = "answered"
       /\ final # "answer" => error = final
       /\ IF request.pinned # "none" THEN whom = <<request.pinned>>
          ELSE /\ settings.active \in able => whom[1] = settings.active
               /\ final = "RPC" /\ request.walks => ToSet(whom) = able

\* docs/adr/0016-provider-fallback-policy.md, lines 92 to 101: when every provider
\* that has the port has failed, or none has it, the command is unavailable, with
\* exit code 69.
ExhaustedIsUnavailable ==
  LET able == {n \in ToSet(registered) : request.port \in Manifest(n)}
  IN request \in Reads /\ request.walks /\ request.pinned = "none" /\ request.valid
     /\ pc = "left" /\ ~Aborted /\ (\A i \in DOMAIN asked : asked[i].outcome = "RPC")
     /\ ToSet([i \in DOMAIN asked |-> asked[i].name]) = able
     => exit = exitCode["EX_UNAVAILABLE"]
=============================================================================
