# solcli in TLA+

A verification development for solcli, a Solana command-line client with a
hexagonal core: commands call operations, operations call ports, and ports are
implemented by providers (RPC vendors), signers, a transaction service, a cache,
a configuration file, a secret store and an extension host.  The same process
can serve every command to agents as an MCP server, so what is one call per
process on the command line may overlap in one process there.

The modules are translated from the TypeScript sources; paths below are relative
to the repository.  Nearly every part of the system that keeps state or decides
something is modelled and model-checked; eight of the modules have machine-checked proofs.

## The system and its parts

| Part | State it keeps | Operations | What is hard | What makes it correct |
|---|---|---|---|---|
| Transaction pipeline (`packages/tx`, `apps/cli/src/wiring/tx-service.ts`) | an idempotency map per process; per call the plan, the signed transaction, two loop counters | `execute`: gates, simulate, fee, intent, sign, send with retries, refresh and re-sign, confirm, cache | lost answers, aborts, overlapping calls, process exit | nothing is sent past a closed gate; one payment per key and per call; answers tell the truth; a call ends or awaits its confirmation |
| Signers (`packages/signer`) | records by alias, cache of initialised adapters, key bytes, an audit file | add, remove, get, list; init, sign, read, dispose of an adapter | asynchronous init racing with remove and with itself | the adapter handed out is alive and of the registration asked for; keys are zeroed; the audit is truthful |
| MCP bridge (`apps/cli/src/mcp`) | one context with one output formatter, shared by all calls | dispatch of a tool call with captured output | overlapping calls, failing commands | an answer holds the output of its own command and of no call it did not overlap; while calls nest, stdout carries the protocol only |
| Configuration (`packages/config`) | a TOML file, a merged view in the process | init, set, switch profile, load with precedence | several processes, half-done writes, defaults filled in by parsing | an acknowledged setting is in the file and is what a later process reads; readers see whole files |
| Secrets (`packages/secrets`) | encrypted vault, its salt, a derived key per process; or the OS keyring and an index | get, set, delete, list | creation of salt and file by racing processes; a crash under the lock | as for the configuration, and every stored secret can be read back |
| Extension host (`apps/cli/src/extensions`) | installation directories, `plugins.json`, a registry in memory | install, remove, reload, verify, list | four places to keep in step, with failures between any two; no lock | nothing unadmitted is installed or loaded; the store is never partial; calls leave other plugins alone |
| Cache (`packages/cache`) | LRU in memory, files with expiry on disk | get with promotion, set, delete, clear, prune | expiry, readers and writers of one file, awaits between a read and its promotion | a hit is no staler than the time to live allows; a process does not go back to a value it has replaced |
| Transaction operation and its commands (`operations/tx-execute.ts`, `commands/transfer`, `commands/token`) | what the command has seen so far | arguments, plan, gates, simulation, the service, exit code | many early exits, signals at any await, two choices of a provider | nothing is sent past a check; the exit code does not hide a submission |
| Safety gates (`packages/safety`) | none | simulate-first, idempotency, programs, budget | boundaries of the arithmetic | gates compose without a hole |
| Providers (`packages/providers`, `resolve-port.ts`, `context.ts`) | registry, active provider, fallbacks | register what the configuration names, resolve a port, fall back along a chain, confirm a signature | which error falls through; vendors that cannot be registered | a fallback never hides a final answer |
| Events (`packages/events`) | a sink, opened lazily, and its write chain | emit, flush, close | order, failure of the sink, flushing at exit | lines are in order and none is lost after a flush |
| IDL store (`idl-load.ts`, `idl-synth.ts`, `commands/idl`) | IDL files, a labels file | add, list, remove, call | two files changed one after the other without a lock; integers cut to a width | an acknowledged label stays and names a stored IDL; a call's data means what its flags say |
| Manifest, output, logger, prompts, errors, contracts, protocol builders, commands | configuration of a run | pure functions, parsing and wiring | nothing concurrent | - |

How they interact.  A command builds a context (`context.ts`), which holds every
port.  Transaction operations call the pipeline, which calls the simulate, fee,
sign, send, refresh and confirm ports; the sign port goes through the signer
registry.  Signals of the process abort one controller, whose signal every call
carries.  The MCP bridge swaps the context's formatter around each command.
Configuration, vault, plugin store, cache and labels are files that several
processes share.

## What is modelled

### TxPipeline (with OncePerKey, TxOncePerKey, MCTx)

`runExecute` and `runExecuteOnce` of `packages/tx/src/execute.ts` with
`withIdempotency`, `withRetries`, `runSend`, `runSign`, `runConfirm`, and the
chain as its environment.  `pc[r]` is the port a call waits for; an action runs
from the answer of that port to the call of the next, which JavaScript does not
interrupt: `SimulateReturns` is the stretch from the answer of simulate to the
call of the fee port, `SendRateLimited` the catch block of one failed submission,
`Store` the write to the idempotency cache.  `attempt` and `tries` are the
counters of the two send loops.  `Abort` may come at any await, with the reasons
the code uses (an AbortError, or the string `signals.ts` and `context.ts` pass);
`Restart` ends the process, with its cache and its calls, but not what has been
submitted.  `afloat[r]` are the signatures call `r` has submitted that no answer
has ruled out, `Process` lands or reverts one of them while its blockhash is
valid.  A transaction is identified with its payload (one per key) and its
blockhash, and money with small integers, so that sums and comparisons are those
of the code.

The cache of the pipeline is the Map of `context.ts:259`; entries may expire.
The answer of confirm may never come: `rpc-confirm.ts:57-67` only awaits Kit's
subscription to the signature, with no timeout, last valid block height or polling, and
nothing reads the configuration's `rpc.timeoutMs`.  A transaction that was dropped keeps
its call waiting on a live websocket until the call is aborted, and the model obliges
confirm to answer only then (`Progress`).
The RPC adapter turns a string abort reason into an `RpcError`, and every other
error of a send as well (`tx-service.ts:142`), so with the adapter the CLI ships
the rate-limit loop never turns; the pipeline is modelled for any port.

### SignerRegistry (MCSigner)

`registry.ts`, the adapters and `audit.ts`.  A task is a sign (get, then sign) or
a list.  `add` and `remove` are single actions, as they are synchronous up to
their effect.  `made` is the sequence of adapter objects, `adapters` the cache,
which points into it; `loadAdapter` is the part of a get before the await of
init and `InitReturns` the part after it.  `Ahead` is the iteration order of a
JavaScript Map that changes under its iterator.  A list looks at its signal at the top of a turn
only (`registry.ts:154-166`): an abort with entries ahead fails it, but the error of an
abort during an entry's init or read is caught like any other, and if that entry was
the last one the list is returned without it, as a success.  Key bytes are followed from
their arrival to their zeroing; a keychain entry of the wrong length (`KeyMissing`)
throws with its bytes in memory.  The adapters shipped await no I/O in init, so
the window of the overlaps is a microtask there; the registry accepts any adapter,
and the command line builds a registry per process.

### McpBridge (MCBridge)

`dispatchToolCall` and `withCapturedOutput`: one action per stretch between
awaits, `output` is `ctx.output`, `previous[c]` the formatter a dispatch has saved,
and `captured` what every buffer and stdout have received.  Nothing queues the calls: the
comment at `captured-sink.ts:28-30` has them serialized by the server's request loop,
but neither `server.ts` nor `tool-router.ts` does that, and ADR-0011:77 allows concurrent
ones.  `before[c]`, the dispatches in flight when `c` began, and `crossed`, whether one
has ended before one begun after it, are history variables.

### LockedFile (with AtomicMap, MCLocked)

The vault (`encrypted-file.ts`) and the configuration file (`updateTomlConfig`,
`initTomlConfig`, `FileConfigManager`), which follow one protocol: create the
file if it is missing, lock, read, change one binding, write a temporary file
named after the process, rename, release.  An action is one file operation.
`Truncate` and `Fill` split a `writeFile` at the point where a reader or a crash
would see it half done.  `request[c]` is fixed when the vault seals the entry,
before the file is read.  The salt file is opened with `wx` and written in a
second step.  `proper-lockfile` is modelled from its use: the lock is taken or
refused at once, refused as often as `retries` allows, taken over atomically once
its holder is dead, never taken from a live holder, and its release does not
fail.  All processes have the one master passphrase.  A `dotted.path` of the
configuration is one name.

### PluginHost (MCPlugins)

`host.ts` and `registry.ts` of the extensions, one host per process, with the
default store `plugins.json`, which has a temporary file named after the process
and no lock.  An action is one asynchronous operation; recursive removal is two
(`Clear`, `Erase`).  Files are inodes, known by the call that made them: a rename
moves one, opening an existing one truncates it, and a writer keeps the file it
has opened, so that two calls of one process can write into the file one of
them has just published.  `Fail` stands for any failing operation and for the
`throwIfAborted` checks.  `trusted[i]` is a history variable with what the last
call about plugin `i` left, if it ran alone.  The `plugins` commands build a host
of their own each time; nothing in the CLI calls `reload` yet.  A plugin's
`fromPath` differs from a fetched one only in where its bytes come from.

### IdlStore and IdlEncode (Local, MCLocal)

`IdlStore` is `idl-load.ts` under `idl add`, `list`, `remove` and `call`: a file per
program and one file of labels, which an add writes after the IDL and a removal after
deleting it, neither under a lock.  An action is one file operation; `Begin` is what runs
before the first.  A call reads the IDL (`ReadIdl`) and then the labels, which name the
synthesized commands, and takes the first command whose path, in lower case, ends in what
was asked (`path`, `endsWith`, `Call`).  `mem[c]` are the labels a command has read and
will write back; `Stop` is a failing operation or a death.  `given` remembers the label
that was acknowledged last; `stale`, `clobbered`, `mixed` and `cut` are history variables
that say which race or stop a behaviour has had, so that each property excludes exactly
that.  `atomicWriteFile` is one action: its temporary file has a random name, and no
reader looks for it.

`IdlEncode` is the pure part of `idl-synth.ts`: types to tags, flags to bytes, accounts to
metas, and what the schema of a synthesized command asks for.  A type is a name and the
options, vectors and arrays around it, innermost first: each wraps one type, so the code's
recursion over a type is a function on the depth (`encodeValue`, `propertyAdmits`).  A
byte has `Base` values, so that every width of the code is kept in proportion; a flag is a
sequence of pieces, of which the model knows whether they are an integer, a key or a
word.  The flags the handler gets are not those that were typed: `extraFlags` drops the 13
names of `RESERVED` (`call.command.ts:81-95`, `103-135`) and `callFlags` then puts in
`signer`, `idempotency-key`, `simulate` and `execute` (`idl-load.ts:242-246`), in the one
namespace of the arguments.  So an argument of a reserved name is lost or overridden, and
the model hands on what the code does (`Handle`). `SaidAssumption` is that true and false
can be said; `RawsAssumption` says what strings are: a key has its length, and what is
counted in four bytes is less than they hold, as the longest string of the language
is.  `CallEncodes` reads the bytes back as an Anchor program does (`ReadArgs`),
independently of the encoder, and compares with what the caller meant (`Meant`), for an
argument of a reserved name with what is handed on under that name.

### KeyringIndex (Local, MCLocal)

`keyring.ts`: entries in the operating system's keyring, which cannot be listed, and an
index of their names beside it.  The entry changes with the call (`Begin`), the index is
read, written to a temporary file named after the process, and renamed.  A call keeps the
file it has opened: `into` says what that is by now (the temporary file, the published
one, or one that is gone), so that a write after another call's rename reaches the
published index (`Written`, `Moved`, `Replaced`).  `clobbered`, `shared`, `mixed` and
`cut` again name the races and stops.

### TwoTierCache (Local, MCLocal)

One entry of the cache: the memory of each process (`lru`), the file (`disk`) and the
temporary file of each process, with `into` as in `KeyringIndex`.  A `get` is `Get`,
`ReadFile` and `Promote`, with the awaits between them; `Promote` gives what was read the
default time to live in memory. `Tick` is the clock.  Pruning and the LRU's bound show as
evictions.  `superseded[p]` are the values process `p` has replaced, `raced` the processes
in which a get overlapped a change.

### EventFile (Local, MCLocal)

`createFileSink` of `sinks.ts`.  Lines are numbered; `settled` counts those that had
their turn in the chain, `opening` is the promise of the file and `handle` what
flush and close look at.  Nothing in the CLI builds this sink yet.

`Local` puts the four stores side by side, `part` saying which one a behaviour is
about, so that one run checks them and one module proves about them; `MCLocal` gives
its constants values and starts the second program with one of two files.

### Errors, Providers and Transfer (MCCommands)

One command, from the bootstrap to its exit code; an action is the stretch between
two awaits.  `Register` takes one vendor of `registerConfiguredProviders`, `Ask` is one
turn of the loop of `getBalance` and `getPortfolio` or the one call of the other
reading commands, `BeginTransfer`, `LookUpMint`, `SimulateOnly` and `PreFlight` are the
stretches of the two paying commands and `txExecute`.  Each refusal is an operator of its
own, and `First` puts them in the code's order.  A call of `ctx.tx` is
abstracted to what the command can see of it: `Submit`, and an end (`Executed`) with a
signature, an error or an abort; `TxPipeline` is the detail.  `txExecute` has no `try`:
it wraps the errors the service returns (`Returned`) and lets those it rejects with
through (`Rejections`), each with its own exit code, also after a submission, when the
refresh (`execute.ts:190`) or the re-signing (`:199`) rejects.  `PreFlight` is the answer of
the simulation, also one that comes in after the abort, or an error of building or encoding
the plan.  `Signal` may come at any await with either kind of reason, and `Killed` is the
`process.exit` that follows, with 130 or 143.

### Config (MCCommands)

A configuration is a function from keys (table and leaf) to where the value comes
from.  `deepMerge`, `envOverrides`, `cliOverlay` and `resolveConfig` are the code's
sources in their order, with what the code does at the edges: one variable of a table
fills the table's other leaves, a bad log level drops what is read after it.
`Parsed` is what the schema's defaults add when a file is read; whether they reach into
a section's optional tables depends on the schema library, so the model has both
(`fills`).  Processes follow one another, each with an environment; `Set`,
`SetDefault` and `SwitchProfile` write the file.

## What the runs check

`tlc -config <name>.cfg <module>` in this directory.  "pass" runs are exhaustive for
their constants.

| Run | Module | Properties | What it shows |
|---|---|---|---|
| tx_one_call | MCTx | TypeOK, GatesBeforeSubmit, DefiniteFailures, OneTerminalEvent, OneSignatureAfloat, NoSubmissionAfterAbort, EndsOrAwaitsConfirmation | one call, all its options, every answer of every port, a bundle port, expiring entries, aborts with both reasons, a restart |
| tx_serial | MCTx | ReportedSignatureLanded, ImplementsOncePerKey | two calls of a caller that waits: the pipeline implements one payment and one verdict per key, and a signature it reports, from the chain or the cache, has landed |
| signer_overlap | MCSigner | TypeOK, CachedAlive, AuditOnlySigned, ListExact, CacheMatches, OncePerAlias | gets, a list, adds, removes and an abort, interleaved |
| mcp_calls | MCBridge | TypeOK, CleanStdout, AnswersOwnOutput, OutputRestored | three calls of two records each, overlapping in every way, failing at any step, and an abort |
| locked_files | MCLocked | TypeOK, FileWhole, OneSalt, LockReturned, EveryCallEnds, ImplementsAtomicMap | three calls of two processes on either file, present or created by a lone first call, with failures and a dying process |
| plugin_host | MCPlugins | TypeOK, StoreWhole, OnlyAdmitted, Undisturbed | three calls of two processes on two plugins, with failures and a dying process |
| local_files | MCLocal | TypeOK, LabelKept, NoDangling, CallEncodes, MemoryTrue, IndexTrue, LinesKept | the four stores without a lock, each on its own: three commands or calls of two processes, or two waiters and three lines, with failures, deaths and a clock; and each of 24 types, wrapped up to twice, called with every string, arguments of a reserved name among them |
| commands | MCCommands | FinalAnswerStands, SentThroughGates, RefusedIsUnsent, SetIsRead | one command with any of 189 provider settings, reading or paying, with failures of every call, before and after a submission, and signals; or `config set` and `switchProfile` over several processes |
| tx_retry_after_exit, mcp_overlap, transfer_ceiling, config_unreadable | MCTx, MCBridge, MCCommands, MCCommands | one each | the code does otherwise than the repository says: see the findings |

The properties, by what they protect:

- *Money.*  `GatesBeforeSubmit`: nothing is submitted for a call that did not pass
  `--execute`, the simulation and the budget, whatever the retries and refreshes.
  `OneSignatureAfloat`: no two versions of one transaction can both land.
  `NoSubmissionAfterAbort`.  `ImplementsOncePerKey`: see below.
  `SentThroughGates`: the service is called only with both companions of `--execute`
  and after a simulation that went well, by the provider that will send, although
  one is found by port and the other by name.  `CallEncodes`: a synthesized
  instruction carries what its flags say, or the command is refused; an argument of a
  reserved name gets what the command hands on under that name.
- *Answers.*  `DefiniteFailures`: after a failure with a definite code nothing of
  the call can land.  `ReportedSignatureLanded`.  `OneTerminalEvent`: the last event
  of a settled call, and no other, is terminal, and agrees with the answer.
  `AnswersOwnOutput`: an answer holds records of its own command and of those that
  overlapped it; one that overlapped none holds all of its own and nothing else, even
  after others have left `ctx.output` at the wrong buffer.  `CleanStdout`,
  `OutputRestored`: stdout and `ctx.output` are the protocol's as long as dispatches end
  in the reverse order of their beginning.  `RefusedIsUnsent`: the exit codes of the gates,
  the simulation, the configuration and a missing port (65, 78, 10, 31) say that nothing
  was submitted; no other code says so.  `EndsOrAwaitsConfirmation`.
  `FinalAnswerStands`: an answer or final error is that of the provider asked last,
  those before it failed in a way that another may make good, and nobody was asked
  twice.  That is what the code does; ADR 0016 wants more (see `provider_exhausted.cfg`).
- *Objects that are shared.*  `CachedAlive`, `CacheMatches`, `OncePerAlias` of the
  signer cache; `ListExact`: a list names what was registered throughout, once; the one
  entry that may be missing is the last, when the abort came while the list was at it.
  `AuditOnlySigned`: no line for a signature nobody got.
- *Files that are shared.*  `FileWhole` and `StoreWhole`: readers find whole files.
  `OneSalt`: one salt for all keys and entries.  `LockReturned`.  `OnlyAdmitted`: what
  is installed, recorded or loaded passed the gates of an install.
  `Undisturbed`: what a finished install or remove has left stays until the next
  call about that plugin, whatever calls of other processes do to other plugins.
  `LabelKept`, `NoDangling`, `IndexTrue`: two places that are written one after the
  other agree, but for the calls under way and the races the code leaves open.
  `MemoryTrue`: how stale an answer of the cache may be.  `LinesKept`: a flush or close
  that has returned has written what came before it.
- *Settings.*  `SetIsRead`: what was set under a profile is what a later process reads
  there, and never another profile's.

Two abstract specifications are implemented, as PROPERTYs.  `OncePerKey` has two
variables, the transactions that took effect and the answers; the pipeline maps
`Processed` and the results of its returned calls to them (`TxOncePerKey`).
`AtomicMap` has a map, a request per call and the sets of calls that took effect
and were told so; `LockedFile` maps its file, `request`, `committed` and the
answered calls to them.

### Bounds, and why they are enough

- `tx_one_call` has the code's own `MAX_SEND_ATTEMPTS = 3` and three tries, so both
  loops run to their end; its simulations put the outflow below, at and above the
  budget, with the fee or a negative change making the difference.  Two
  blockhashes (`MaxTip = 2`) with `Window` 0 make the first one expire under a call
  in flight.  Calls with different keys share no state but the chain, so one key
  and two calls show what overlap can do.
- `signer_overlap` has two of each: a list needs a second alias to go on to after a
  failure, and a race needs two tasks.  Two adds suffice to remove an alias and
  add it again; tasks and aliases are symmetric (`Permuted`).
- `mcp_calls` needs two calls to disturb one another and has three, so that one may
  begin or run alone after two that crossed; two records each, one before and one after
  what another call does.
- The file models have two calls in one process, which share a temporary file, and
  one in another.  Two names tell "changed my binding" from "changed another's".
  `retries = 1` stands for the code's 5: refused again, and refused for good.
- `plugin_host` has an admissible package, another version of it that needs
  consent, another plugin, and a pin that only one of them matches.

- `local_files`: two calls of one process and one of another, as above; two programs
  and two labels, so that a label may name the other program, shadow an IDL's own
  name, or be a program's short label.  `Base = 2` and three-byte keys make all
  widths reachable: u8 is 0..1, u16 0..3, u64 0..255.  Of the reserved names there are one
  that is dropped and some that are put in, as a boolean and as a string, for arguments of
  either kind.  In the sweep of all types and
  strings the other commands wait (`MCNext`): the answer depends on the IDL the call
  found and on its flags alone, and the interleavings are those of the other calls.
  The clock runs to 4 with a default term of 2, so that an entry expires on disk while a
  promotion holds it.  Three lines: one before, between and after two waiters.
- `commands`: seven sections of one vendor and three of the other cover every branch of
  `Misconfigured`; the writing commands' arguments vary one refusal at a time and the
  ceilings around 0 with a fee of 1.  There are two vendors in the code.  The
  configuration has two profiles, a top-level key and two of one table, and the four
  environments that touch a table, name a profile, or hold an invalid value.

### Fairness

`TxPipeline` has weak fairness of `Progress(r)`, a `Step` that is not the answer of a
confirmation nobody has aborted.  The other ports are requests over HTTP, which the client
of Node answers or gives up, and every port is passed the signal and gives up on it; the
event loop then runs the continuation.  A confirmation has no bound of its own, so what
follows is `EndsOrAwaitsConfirmation`: a call ends, or it waits for the confirmation of what
it has sent and nobody aborts it.  `LockedFile` has weak fairness of every call's `Step`: a
file operation completes or fails.  Under it every call ends: `EveryCallEnds`.  Nothing
obliges the chain to land a transaction, a caller to call, an abort, a failure or a
death to come.  The other models state safety only: each of their calls is straight-line
code, or a loop over a list that was read.

`CHECK_DEADLOCK FALSE` is used where a behaviour ends once all calls have ended.

## What is proved

By TLAPS, for all values of the constants that satisfy the named assumptions;
`tlapm <Module>Proofs.tla`.

- **TxPipelineProofs.**  `TypeInv` is `TypeOK` with `LoopOK`: the outer counter has not
  started before the first signature, and a refresh or a backoff leaves room for
  one more attempt or try.  `SafetyInv` says that a call has passed the gates of the
  stages behind it (`GatesPassed`) and that on the RPC path only the transaction
  signed last is afloat, and none at all during a backoff, a refresh or a
  re-signing or after a definite failure (`OnlyLastAfloat`).  That makes
  `OneSignatureAfloat` inductive: a refresh is reached only from an answer that
  rules out the old version.  `CountInv` bounds the submissions of a call in the
  send loop by `(attempt - 1) * maxAttempts + tries`.  Theorems: `TypeCorrect`,
  `GatesHold`, `AtMostOneAfloat`, `FailuresDefinite`, `SubmissionsBounded`,
  `AbortStops`, `EventsAgree`, `SuccessIsTrue`.  The last two sort the handlers into
  steps that leave a call without an answer (`Quiet`) and steps that settle it
  (`Settles`); `LogInv` then has a terminal event exactly where there is an answer,
  and `LandedInv` makes answers and cache entries alike name what has landed.
  `SubmissionBound` is a property of no run: the theorem has it for all attempts and
  tries.  `OnePaymentPerKey` is the refinement: if callers are patient, that is, wait
  for an answer before they repeat a key, do not abort, keep their process and its
  entries, and send no bundle (`PatientCallers`), the pipeline implements `OncePerKey`.
  Its invariant `OnceInv` gives each key to one call at most at any time: only that call
  can get the key's transaction landed, a call that rejects leaves nothing afloat, and
  once a call has answered the cache keeps everybody else from starting.
- **SignerRegistryProofs.**  `TypeInv` says too which tasks hold a signer (`HoldInv`).  A
  signer in the cache is the one its alias was registered with last, and so is a promise
  that will become one, as long as nothing was removed since it was made (`CacheInv`).
  Registrations differ in their stamps, and an adapter for one that is still there is
  cached or about to be, unless another is (`OnceInv`).  A list has each alias it has
  passed once, if it was there throughout and is not the one at which the abort found it,
  and what it holds for the one it is at is that alias's own (`ListInv`).  Theorems:
  `TypeCorrect`, `AuditedSigned`, `CacheUsable`, `CacheCurrent`, `FactoryOnce`,
  `ListsExactly`.
- **McpBridgeProofs.**  Nothing is assumed of the order of calls.  A dispatch that has not
  begun has left no trace (`Untouched`), and of two in flight one began while the other
  was (`Ordered`); so a buffer holds records of its owner and of those that overlapped it,
  and if there are none its owner has `ctx.output` and all of its records (`OwnBuffers`).
  `Apart` joins these with `AnswersOwnOutput`, which they make inductive.  As long as
  nothing has crossed, the dispatches in flight are a stack, each has saved the top of those
  below it, and `ctx.output` is the top of all (`Stacked`); with the empty stdout this is
  `Nested`.  Theorems: `TypeCorrect`, `AnswersAreOwn`, `StdoutStaysClean`, `OutputComesBack`.
- **LockedFileProofs.**  `TypeInv` ties each request to the stage of its call.
  `AtomInv` has four parts: a call in the critical section holds the lock, and at
  its rename the temporary file is its update, whole (`LockInv`); a rename is what
  commits, and only a committed update is answered (`CommitInv`); when nothing
  overlaps the creation of the file, what the holder has loaded stays what the
  file holds until it renames (`AloneInv`); and `FileWhole`.  `SaltInv` says that keys,
  requests, entries, and copies of entries in memory and in temporary files are
  sealed under the salt on disk, and that one call at most is writing it.
  Theorems: `TypeCorrect`, `NeverHalfWritten`, `LockAlwaysReturned`, `OneSaltForAll`,
  and `Implementation`: if `FirstAlone`, every step is a step of `AtomicMap` or a
  stutter.
- **PluginHostProofs.**  `TypeInv` ties the local variables of a call to its stage.
  `GateInv`: an install past its gates holds an admitted package, under the
  requested name, and every entry a call has read was admitted.  `FileInv`: while
  calls of one process do not overlap, each process writes to a file of its own,
  which no other refers to and which is not the store, and it is whole when it is
  renamed.  Theorems: `TypeCorrect`, `GatesNeverBypassed`, `StoreNeverPartial`.  For
  `Undisturbed` three parts are added: calls that have run beside one another are on
  record (`BesideInv`); nobody is at a plugin of which something is known, and what any
  call has read or is about to rename agrees with the store about it (`TrustInv`); and
  what a lone call has done up to its stage is there still (`DoneInv`).  `OthersUndisturbed`
  assumes `SlugsApart`: two plugins with one directory name do disturb one another.
- **IdlStoreProofs.**  `TypeInv` ties a command's program and job to its stage.
  `ReadInv`: the labels in the memory of a command that is not `stale` are those of the
  file, and a removal about to clear a label has withdrawn it already; that makes
  `LabelKept` inductive.  For `NoDangling` four facts are added in `StoreInv`: two
  commands at one program are on record (`MixedInv`), a program about to be labelled
  is cached (`CachedInv`), and a removal knows its program's label although others
  may have been written (`HoldInv`).  Theorems: `TypeCorrect`, `LabelsKept`,
  `NoneDangling`.  For `CallEncodes` there is a proof that the encoder and the reader are
  inverse: the digits of an integer sum up to its remainder (`NextDigit`, `FromBytes`), a
  signed one is got back from it (`IntegerRead`), readers that each read their part
  read the parts one after the other (`ConcatRead`), one more wrap keeps what its content
  has (`WrapRead`, `WrapOk`), and so do all wraps (`ValueRead`, `ValueOk`).  `CallInv`
  then says that an answer is the handler's, for an instruction of an IDL and the flags
  that were handed on from those asked, with `SaidAssumption` for the booleans among the
  reserved names.  Theorems: `IntegerRead`, `ValueRead`, `CallsEncode`.
- **LocalProofs.**  A step of `Local` is a step of each store or leaves it alone
  (`Projects`), so each store has an invariant of its own.  The keyring: the names in
  memory follow the index until somebody else renames (`KeyringMemInv`); unless two calls
  of a process were writing at once, the temporary file is where its call has opened it
  and holds what that wrote (`KeyringTmpInv`), so that a write reaches nothing else
  (`KeyringFilled`, and `CacheFilled` for the cache); the entry of a name follows the one
  call that works on it (`KeyringEntryInv`).  The cache: an entry carries the expiry its
  call gave it, and memory holds it no longer than that and the default term
  (`CacheTermInv`); what is on disk, in a get or in memory cannot come to the disk again
  (`CachePastInv`); in a process that has not raced only gets overlap (`CacheApart`), so
  what it has replaced or deleted is gone from its memory and its reads
  (`CacheGoneInv`).  The file of events: every line that had its turn is in the file,
  refused, or behind an earlier close (`SinkAccounted`); a waiter past the chain has seen
  its lines settle (`SinkPastChain`); the handle is given up only by a close that waited
  (`SinkGivenUp`). Theorems: `LocalTyped`, `IndexFollowsKeyring`, `MemoryIsTrue`,
  `FlushedLinesKept`.
- **CommandsProofs.**  Transfer: once something was submitted, the errors that can follow
  are the wrapped one, those the service rejects with and that of an abort, none with the
  exit code of a refusal (`SubmittedInv`), and the exit code is the envelope's, 0 or the
  signal's (`ExitInv`).  `CapableFor` is what the loop of `capableFor` computes from an
  order of any length: the registered providers that have the port, each once, the active
  one in front; `FirstNone`, that where the first of some refusals is none there is no
  refusal. With the one, the providers a reading command has asked and those it has left
  are its line, in order (`ReadInv`); with both, a paying command at an await has passed
  the checks before it, and the provider about to simulate is the one that `ctx.tx` will
  be made for (`SendInv`).  Config: a section of the file holds everything that was
  asserted for it, and nothing else but built-in values (`SettingsInv`); parsing and
  merging keep that (`ParsingKeeps`, `MergeKeeps`).  Theorems: `ExitCodeTells`,
  `LastAnswerStands`, `NothingAroundTheGates`, `SetValuesAreRead`.

`CapableFor` and the encoder need inductions over data, and `CHOOSE` hides their recursive
functions.  The library's induction theorems have an operator for a parameter, which the
provers cannot instantiate; the induction is made from the least counterexample instead
(`Least`, from the well-foundedness of `<`, and `UpTo`, for sets of numbers), and each
recursive function is first shown to exist (`BuildsAll`, `Stepwise`, and the lemmas that
end in `Layered`).

Only model-checked: `EndsOrAwaitsConfirmation` and `EveryCallEnds`, which are liveness under
fairness and out of the prover's reach, as ENABLED is.

## Findings

1. *A key is not safe to retry from the shell* (`tx_retry_after_exit`).  The
   idempotency cache lives in the process, and `--idempotency-key` promises "to make
   --execute retries safe".
2. *Concurrent tool calls share one output* (`mcp_overlap`).  ADR-0011 has "The capture
   buffer is per-call and bounded" (line 68) and "Multiple concurrent tool calls are allowed"
   (line 77), but every dispatch points the one `ctx.output` at its buffer across an await: a
   call's record lands in another's answer, or, once two have crossed, on stdout between the
   frames of the protocol.
3. *The cost ceiling measures nothing* (`transfer_ceiling`).  The simulation port returns a
   fee of 0 and no account changes, so any transaction is within
   `--max-cost-lamports`, the "hard cost ceiling enforced by the safety gate".
4. *`config set` can lock the user out* (`config_unreadable`).  It writes what the schema
   refuses to read; from then on every command fails at its start, `config set`
   included, which a comment of `context.ts` means to keep working.

Further configurations, each of which ends in a counterexample, show known limits
of the code:

- `tx_abort.cfg`: an abort during send is cached as the answer of its key
  (`AbortPropagates`; `packages/tx/tests/service.test.ts:145`).  The process aborts with a
  string; only an AbortError is recognised.
- `signer_stale.cfg`: an alias can sign with the key of its former registration
  (`AdapterOfRecord`); a remove during init is undone by the cache write after it.
- `provider_exhausted.cfg`: when all providers have failed, the last one's own error and
  exit code stand, and a missing port is exit 31 (`ExhaustedIsUnavailable`); ADR-0016:92-101
  makes both unavailable, with exit 69.  Nor does the code do what else that decision
  says: three attempts with a backoff at each provider (`:40-48`; it makes one), the public
  RPC as last resort (`:31-34`), the chain in `meta` (`:67-90`).
- `locked_create.cfg`: the first write of a configuration or vault can erase another
  process's (`IndependentWritesKept`); the file is created, empty, before the lock is
  taken.
- `transfer_token_2022.cfg`: a Token-2022 mint is paid although the lookup has shown what
  it is (`Token2022Refused`); the refusal is thrown inside the `try` whose `catch` is
  meant for a missing port (`token/transfer.command.ts:224`).
- `config_precedence.cfg`: `RPC_FALLBACK` in the environment resets the file's
  `rpc.timeoutMs`, and the flags' overlay overrides `SOLCLI_NO_INPUT` with false
  (`PrecedenceKept`; the order is in `apps/cli/README.md:109`).
- `tx_overlap.cfg`: two overlapping calls of one key both pay (`AtMostOncePerKey`);
  the cache is read before and written after.
- `tx_jito.cfg`: `via = "jito"` without a bundle port goes by RPC (`BundleOrNothing`;
  ADR-0008 makes it an error).
- `tx_log.cfg`: a version signed after a refresh whose submission fails is in no
  event (`EverySubmissionLogged`).
- `signer_key.cfg`: a throw between the arrival of the key and the `try` leaves it in
  memory (`KeyZeroed`).
- `plugin_partial.cfg`: two calls of one process on `plugins.json` publish a
  half-written store, and can leave one that no longer parses (`NeverPartial`; the
  comment at `host.ts:382` says readers never see a partial file).
- `plugin_verify.cfg`: `plugins verify` promises "manifest and integrity" and compares
  no hash (`VerifiedIntegrity`).
- `plugin_slug.cfg`: two ids that differ in replaced characters share a directory,
  and one's removal erases the other (`Undisturbed` with such ids).

Two overlapping gets of an alias each create an adapter; `OncePerAlias` excludes
exactly these.  On the bundle path a submission that was answered without
signatures is re-signed while the first may still land; `OneSignatureAfloat` and
`DefiniteFailures` exclude that path, which the CLI does not wire.

Met while modelling, and in the models, without a configuration of their own:

- `idl call --simulate` and `--execute` plan the instruction and are then refused, as nothing
  gives the context a `txExecute`; u64 and
  i64 arguments out of range wrap silently (`readInt` has no bounds for 64 bits).
- A label whose IDL is gone cannot be removed by `idl remove`, which fails at the
  unlink; the answer of a removal reports the short label, not the one removed.
- The pre-flight simulation runs before the pipeline looks at its idempotency cache,
  with the placeholder blockhash and without `replaceRecentBlockhash`
  (`tx-execute.ts:90-94`): a repeated key may fail there.
- An error the service returns is wrapped into an internal one: its code and exit code are
  lost.  One it rejects with keeps its own (20, 77, 69, 2 ...), also after a submission, so
  that these codes do not say whether something was sent.  A simulate-only transfer exits
  with 0 even when its simulation failed.
- An argument of an instruction that has one of the `RESERVED` names cannot be given, although
  the comment at `call.command.ts:97-102` speaks of arbitrary `--<arg>` values; and through the
  MCP server no argument can, as `rawArgs` is empty there (`tool-router.ts:66`).
- The confirmation of a dropped transaction is awaited without end (see `TxPipeline`).
- A string as reason of an abort becomes an `RpcError`: after Ctrl-C `getBalance` goes on
  to the next provider until the process ends.
- The default provider `rpc-only` is never registered; Triton's section needs a key or
  bearer that is never sent.
- A provider that cannot be registered is passed over: the pre-flight
  simulation may then go to a provider that `ctx.tx` does not send by, which fails
  with a configuration error (`ServiceRefusal`).

## Not modelled

- `packages/logger`, `packages/output`, `packages/prompts`, the manifest projection, help
  and completion: text and layout.
- Ciphers and key derivation (a key is the salt it comes from), tar, TOML and JSON
  text, ledger devices.
- The stake, vote and associated-account builders, which no command of the CLI calls;
  the bytes of a transfer (a plan is the program it names); generated decoders.
- Fetching and inflating an IDL, and the decoding of account data from it.
- `summarizeIntent`, which words a message, and `evaluateSlippage`, which nothing calls.
- The composition of `Transfer` with `TxPipeline`, and of the pipeline's events with
  `EventFile`: the product is out of TLC's reach and the interface is narrow (a call and an
  answer; a line).
