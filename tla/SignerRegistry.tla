--------------------------- MODULE SignerRegistry ---------------------------
(***************************************************************************)
(* packages/signer: the registry of aliases, its cache of adapters, and    *)
(* the signing path of the file, keychain and env adapters.  A task is one *)
(* signing call (registry.get, then adapter.sign, as the transaction       *)
(* service does it) or one registry.list.  add and remove do their work in *)
(* one synchronous stretch; get, list and sign are suspended at each await *)
(* and other tasks run there.                                              *)
(***************************************************************************)
EXTENDS Integers, Sequences, FiniteSets

CONSTANTS
  Tasks,    \* calls of sign or list
  Aliases,
  Kinds,    \* adapter kinds callers register
  MaxAdds,  \* bound on calls of add
  MaxLists, \* bound on calls of list
  MaxAborts \* bound on tasks whose signal aborts

AllKinds == {"file", "keychain", "env", "ledger"}
ASSUME KindsAssumption == Kinds \subseteq AllKinds
ASSUME SignerBounds == MaxAdds \in Nat /\ MaxLists \in Nat /\ MaxAborts \in Nat

\* What add registers; the stamp is its place in the Map's insertion order.
\* complete is FALSE for a file signer without a file path.
NoRecord == [stamp |-> 0, kind |-> "none", complete |-> FALSE]
Records == [stamp : 1..MaxAdds, kind : Kinds, complete : BOOLEAN]
\* An adapter object: what it was initialised for, and whether it still has
\* its deps (dispose drops them).
Adapters == [alias : Aliases, record : Records, alive : BOOLEAN]

Idle == "idle"
Suspended == {"init", "got", "keystore", "fetching", "signing", "auditing",
              "next", "reading"}
Over == {"signed", "listed", "failed"}

VARIABLES
  aliases,   \* alias -> record
  adds,      \* calls of add that succeeded
  made,      \* every adapter object created, in order
  adapters,  \* alias -> index in made of the cached adapter, 0 for none
  pc,        \* where each task is suspended
  op,        \* "sign" or "list"
  target,    \* the alias a task works on
  record,    \* the record it read
  adapter,   \* the adapter it holds
  cursor,    \* stamp of the Map entry a list visited last
  out,       \* what a list collected
  aborted,   \* its signal
  key,       \* the buffer with its decrypted key
  audit,     \* tasks with a line in the audit log
  kept,      \* history: aliases registered during the whole of a list
  raced      \* history: adapters whose init another get or a remove overlapped

taskVars == <<pc, op, target, record, adapter, cursor, out, key>>
vars == <<aliases, adds, made, adapters, taskVars, aborted, audit, kept, raced>>

Init ==
  /\ aliases = [a \in Aliases |-> NoRecord]
  /\ adds = 0
  /\ made = <<>>
  /\ adapters = [a \in Aliases |-> 0]
  /\ pc = [t \in Tasks |-> Idle]
  /\ op = [t \in Tasks |-> "none"]
  /\ target = [t \in Tasks |-> "none"]
  /\ record = [t \in Tasks |-> NoRecord]
  /\ adapter = [t \in Tasks |-> 0]
  /\ cursor = [t \in Tasks |-> 0]
  /\ out = [t \in Tasks |-> <<>>]
  /\ aborted = [t \in Tasks |-> FALSE]
  /\ key = [t \in Tasks |-> "none"]
  /\ audit = {}
  /\ kept = [t \in Tasks |-> {}]
  /\ raced = {}

-----------------------------------------------------------------------------
Running(t) == pc[t] \in Suspended
Registered == {a \in Aliases : aliases[a] # NoRecord}
\* The adapters whose init is under way for an alias.
Initialising(a) == {adapter[t] : t \in {u \in Tasks : pc[u] = "init" /\ target[u] = a}}
Goto(t, where) == pc' = [pc EXCEPT ![t] = where]
\* A rejection ends a sign; a list logs it and goes on with the next entry.
Rejects(t) == Goto(t, IF op[t] = "list" THEN "next" ELSE "failed")

\* add rejects an alias that is already there.
Add(a, kind, complete) ==
  /\ adds < MaxAdds
  /\ a \notin Registered
  /\ adds' = adds + 1
  /\ aliases' = [aliases EXCEPT ![a] =
       [stamp |-> adds + 1, kind |-> kind, complete |-> complete]]
  /\ UNCHANGED <<made, adapters, taskVars, aborted, audit, kept, raced>>

\* Mutant: the cached adapter is disposed but stays in the map.
RemoveKeepsAdapter(a) ==
  /\ aliases' = [aliases EXCEPT ![a] = NoRecord]
  /\ made' = IF adapters[a] = 0 THEN made
             ELSE [made EXCEPT ![adapters[a]].alive = FALSE]
  /\ raced' = raced \cup Initialising(a)
  /\ kept' = [t \in Tasks |-> kept[t] \ {a}]
  /\ UNCHANGED <<adds, adapters, taskVars, aborted, audit>>

\* remove forgets the alias and its adapter before it disposes the adapter.
Remove(a) ==
  /\ aliases' = [aliases EXCEPT ![a] = NoRecord]
  /\ adapters' = [adapters EXCEPT ![a] = 0]
  /\ made' = IF adapters[a] = 0 THEN made
             ELSE [made EXCEPT ![adapters[a]].alive = FALSE]
  /\ raced' = raced \cup Initialising(a)
  /\ kept' = [t \in Tasks |-> kept[t] \ {a}]
  /\ UNCHANGED <<adds, taskVars, aborted, audit>>

-----------------------------------------------------------------------------
(* get, list and the adapter cache. *)

\* The cached adapter, or a new one whose init runs up to its first await.
\* The factory has no adapter for a ledger and throws.
loadAdapter(t, a) ==
  /\ target' = [target EXCEPT ![t] = a]
  /\ record' = [record EXCEPT ![t] = aliases[a]]
  /\ \/ /\ adapters[a] # 0
        /\ Goto(t, "got")
        /\ adapter' = [adapter EXCEPT ![t] = adapters[a]]
        /\ UNCHANGED <<made, raced>>
     \/ /\ adapters[a] = 0 /\ aliases[a].kind = "ledger"
        /\ Rejects(t)
        /\ UNCHANGED <<made, adapter, raced>>
     \/ /\ adapters[a] = 0 /\ aliases[a].kind # "ledger"
        /\ Goto(t, "init")
        /\ adapter' = [adapter EXCEPT ![t] = Len(made) + 1]
        /\ made' = Append(made, [alias |-> a, record |-> aliases[a],
                                 alive |-> aliases[a].complete])
        /\ raced' = IF Initialising(a) = {} THEN raced
                    ELSE raced \cup Initialising(a) \cup {Len(made) + 1}

\* Mutant: an alias nobody registered is loaded all the same.
SignUnregistered(t, a) ==
  /\ pc[t] = Idle
  /\ op' = [op EXCEPT ![t] = "sign"]
  /\ loadAdapter(t, a)
  /\ UNCHANGED <<aliases, adds, adapters, cursor, out, aborted, key, audit, kept>>

\* The sign port of the transaction service: signers.get rejects an alias that
\* is not registered and a signal that is aborted already.
Sign(t, a) ==
  /\ pc[t] = Idle
  /\ op' = [op EXCEPT ![t] = "sign"]
  /\ IF a \in Registered /\ ~aborted[t]
       THEN loadAdapter(t, a)
       ELSE Goto(t, "failed") /\ UNCHANGED <<made, target, record, adapter, raced>>
  /\ UNCHANGED <<aliases, adds, adapters, cursor, out, aborted, key, audit, kept>>

List(t) ==
  /\ pc[t] = Idle
  /\ Cardinality({u \in Tasks : op[u] = "list"}) < MaxLists
  /\ op' = [op EXCEPT ![t] = "list"]
  /\ Goto(t, "next")
  /\ kept' = [kept EXCEPT ![t] = Registered]
  /\ UNCHANGED <<aliases, adds, made, adapters, target, record, adapter, cursor,
                 out, aborted, key, audit, raced>>

\* Mutant: an iterator that counts the entries it saw and so skips one after a
\* deletion.
AheadByPosition(t) ==
  {a \in Registered :
     Cardinality({b \in Registered : aliases[b].stamp <= aliases[a].stamp})
       > Len(out[t])}

\* The entries a Map iterator still has to visit: it follows insertions and
\* deletions made behind its back.
Ahead(t) == {a \in Registered : aliases[a].stamp > cursor[t]}

\* One turn of list's loop.  The signal is checked at the top of a turn, outside
\* its try; when no entry is left there is no turn, and the list is returned.
ListNext(t) ==
  /\ pc[t] = "next"
  /\ \/ /\ aborted[t] \/ Ahead(t) = {}
        /\ Goto(t, IF Ahead(t) = {} THEN "listed" ELSE "failed")
        /\ UNCHANGED <<made, target, record, adapter, cursor, raced>>
     \/ /\ ~aborted[t]
        /\ \E a \in Ahead(t) :
             /\ \A b \in Ahead(t) : aliases[a].stamp <= aliases[b].stamp
             /\ cursor' = [cursor EXCEPT ![t] = aliases[a].stamp]
             /\ loadAdapter(t, a)
  /\ UNCHANGED <<aliases, adds, adapters, op, out, aborted, key, audit, kept>>

\* Mutant: the adapter is not put into the cache.
InitForgotten(t) ==
  /\ pc[t] = "init"
  /\ IF record[t].complete THEN Goto(t, "got") ELSE Rejects(t)
  /\ UNCHANGED <<aliases, adds, made, adapters, op, target, record, adapter,
                 cursor, out, aborted, key, audit, kept, raced>>

\* init settles.  It rejects a file signer without a path.
InitReturns(t) ==
  /\ pc[t] = "init"
  /\ IF record[t].complete
       THEN Goto(t, "got") /\ adapters' = [adapters EXCEPT ![target[t]] = adapter[t]]
       ELSE Rejects(t) /\ UNCHANGED adapters
  /\ UNCHANGED <<aliases, adds, made, op, target, record, adapter, cursor, out,
                 aborted, key, audit, kept, raced>>

\* signWithKeyBytes checks the signal and serializes the message before it
\* enters the block that zeroes the key.
signWithKeyBytes(t, serializable) ==
  /\ key' = [key EXCEPT ![t] = "live"]
  /\ Goto(t, IF aborted[t] \/ ~serializable THEN "failed" ELSE "signing")

\* adapter.sign or adapter.read, up to its first await: both need the deps and
\* check the signal.  The env adapter refuses or has its key at hand.
Use(t) ==
  /\ pc[t] = "got"
  /\ LET usable == made[adapter[t]].alive /\ ~aborted[t]
         kind == made[adapter[t]].record.kind
         signs == usable /\ op[t] = "sign"
     IN \/ ~usable /\ Rejects(t) /\ UNCHANGED key
        \/ usable /\ op[t] = "list" /\ Goto(t, "reading") /\ UNCHANGED key
        \/ signs /\ kind = "file" /\ Goto(t, "keystore") /\ UNCHANGED key
        \/ signs /\ kind = "keychain" /\ Goto(t, "fetching") /\ UNCHANGED key
        \/ signs /\ kind = "env" /\ Rejects(t) /\ UNCHANGED key
        \/ signs /\ kind = "env" /\ \E ok \in BOOLEAN : signWithKeyBytes(t, ok)
  /\ UNCHANGED <<aliases, adds, made, adapters, op, target, record, adapter,
                 cursor, out, aborted, audit, kept, raced>>

\* readInfo returns: listed, or omitted with a warning.  Only the keychain's
\* read can reject; the others swallow a key they cannot read.
ReadReturns(t, readable) ==
  /\ pc[t] = "reading"
  /\ readable \/ made[adapter[t]].record.kind = "keychain"
  /\ Goto(t, "next")
  /\ out' = IF readable THEN [out EXCEPT ![t] = Append(@, target[t])] ELSE out
  /\ UNCHANGED <<aliases, adds, made, adapters, op, target, record, adapter,
                 cursor, aborted, key, audit, kept, raced>>

-----------------------------------------------------------------------------
(* Signing. *)

\* The keystore's mode, its content and the password are checked, then the
\* signal; a failure of any of them rejects.
KeystoreReturns(t, usable) ==
  /\ pc[t] = "keystore"
  /\ Goto(t, IF usable /\ ~aborted[t] THEN "fetching" ELSE "failed")
  /\ UNCHANGED <<aliases, adds, made, adapters, op, target, record, adapter,
                 cursor, out, aborted, key, audit, kept, raced>>

\* The decrypted key, or the keychain's entry, arrives.
KeyArrives(t, serializable) ==
  /\ pc[t] = "fetching"
  /\ signWithKeyBytes(t, serializable)
  /\ UNCHANGED <<aliases, adds, made, adapters, op, target, record, adapter,
                 cursor, out, aborted, audit, kept, raced>>

\* No such key, or a wrong password.  A keychain entry of a wrong length is
\* refused with its bytes in memory.
KeyMissing(t) ==
  /\ pc[t] = "fetching"
  /\ Goto(t, "failed")
  /\ \/ UNCHANGED key
     \/ /\ made[adapter[t]].record.kind = "keychain"
        /\ key' = [key EXCEPT ![t] = "live"]
  /\ UNCHANGED <<aliases, adds, made, adapters, op, target, record, adapter,
                 cursor, out, aborted, audit, kept, raced>>

\* Mutant: the line is written before the signal is checked.
SignatureAuditedFirst(t, ok) ==
  /\ pc[t] = "signing"
  /\ key' = [key EXCEPT ![t] = "zeroed"]
  /\ audit' = IF ok THEN audit \cup {t} ELSE audit
  /\ Goto(t, IF ok /\ ~aborted[t] THEN "signed" ELSE "failed")
  /\ UNCHANGED <<aliases, adds, made, adapters, op, target, record, adapter,
                 cursor, out, aborted, kept, raced>>

\* The finally block runs whether or not the signature was made; appendAudit
\* checks the signal before its try.
SignatureReturns(t, ok) ==
  /\ pc[t] = "signing"
  /\ key' = [key EXCEPT ![t] = "zeroed"]
  /\ Goto(t, IF ok /\ ~aborted[t] THEN "auditing" ELSE "failed")
  /\ UNCHANGED <<aliases, adds, made, adapters, op, target, record, adapter,
                 cursor, out, aborted, audit, kept, raced>>

\* A line that cannot be written is a warning, not a failure.
AuditReturns(t, written) ==
  /\ pc[t] = "auditing"
  /\ Goto(t, "signed")
  /\ audit' = IF written THEN audit \cup {t} ELSE audit
  /\ UNCHANGED <<aliases, adds, made, adapters, op, target, record, adapter,
                 cursor, out, aborted, key, kept, raced>>

Abort(t) ==
  /\ ~aborted[t] /\ pc[t] \notin Over
  /\ Cardinality({u \in Tasks : aborted[u]}) < MaxAborts
  /\ aborted' = [aborted EXCEPT ![t] = TRUE]
  /\ UNCHANGED <<aliases, adds, made, adapters, taskVars, audit, kept, raced>>

Step(t) ==
  \/ ListNext(t)
  \/ InitReturns(t)
  \/ Use(t)
  \/ \E readable \in BOOLEAN : ReadReturns(t, readable)
  \/ \E usable \in BOOLEAN : KeystoreReturns(t, usable)
  \/ \E serializable \in BOOLEAN : KeyArrives(t, serializable)
  \/ KeyMissing(t)
  \/ \E ok \in BOOLEAN : SignatureReturns(t, ok)
  \/ \E written \in BOOLEAN : AuditReturns(t, written)

Next ==
  \/ \E a \in Aliases, k \in Kinds, c \in BOOLEAN : (k # "file" => c) /\ Add(a, k, c)
  \/ \E a \in Aliases : Remove(a)
  \/ \E t \in Tasks, a \in Aliases : Sign(t, a)
  \/ \E t \in Tasks : List(t) \/ Step(t) \/ Abort(t)

Spec == Init /\ [][Next]_vars

-----------------------------------------------------------------------------
(* Properties. *)

\* Every variable has its type; adapter indices name adapters that exist.
TypeOK ==
  /\ aliases \in [Aliases -> Records \cup {NoRecord}]
  /\ adds \in 0..MaxAdds
  /\ made \in Seq(Adapters)
  /\ adapters \in [Aliases -> 0..Len(made)]
  /\ pc \in [Tasks -> {Idle} \cup Suspended \cup Over]
  /\ op \in [Tasks -> {"none", "sign", "list"}]
  /\ target \in [Tasks -> Aliases \cup {"none"}]
  /\ record \in [Tasks -> Records \cup {NoRecord}]
  /\ adapter \in [Tasks -> 0..Len(made)]
  /\ cursor \in [Tasks -> 0..MaxAdds]
  /\ out \in [Tasks -> Seq(Aliases)]
  /\ aborted \in [Tasks -> BOOLEAN]
  /\ key \in [Tasks -> {"none", "live", "zeroed"}]
  /\ audit \subseteq Tasks
  /\ kept \in [Tasks -> SUBSET Aliases]
  /\ raced \subseteq DOMAIN made

\* However gets, lists, adds and removes overlap, what the cache would hand out
\* was initialised for that alias and has not been disposed.
CachedAlive ==
  \A a \in Aliases : adapters[a] # 0 =>
    made[adapters[a]].alias = a /\ made[adapters[a]].alive

\* A list reports an alias that was registered all the while exactly once when
\* its read cannot fail and no earlier registration's adapter stands in for it,
\* and never twice, whatever is added or removed behind the iterator and however
\* many other entries fail (registry.ts: "signer info read failed; entry omitted
\* from list").  A list that succeeds although its signal was aborted has lost
\* the entry it was busy with, the last one it visited, and no other.
Occurrences(t, a) == {i \in 1..Len(out[t]) : out[t][i] = a}
Readable(a) ==
  /\ aliases[a].kind \in {"file", "env"} /\ aliases[a].complete
  /\ \A i \in raced : made[i].alias # a
ListExact ==
  \A t \in Tasks : pc[t] = "listed" =>
    \A a \in kept[t] :
      /\ Cardinality(Occurrences(t, a)) <= 1
      /\ Readable(a) =>
           Occurrences(t, a) # {} \/ (aborted[t] /\ target[t] = a)

\* A call that got its signature left one line in the audit log at most, and a
\* call that rejected left none: the log never names a signature nobody got.
AuditOnlySigned == \A t \in audit : pc[t] = "signed"

\* The cache agrees with the registrations: a cached adapter was initialised
\* with the record its alias has now, but for an adapter that a remove or
\* another get overlapped during its init.
CacheMatches ==
  \A a \in Aliases : adapters[a] # 0 /\ adapters[a] \notin raced =>
    made[adapters[a]].record = aliases[a]

\* wiring/signer-adapter-factory.ts: the factory is called "lazily, once per
\* alias": a registration whose adapter could be initialised gets a second one
\* only from gets that overlap during init.
OncePerAlias ==
  \A i, j \in DOMAIN made :
    made[i].record = made[j].record /\ made[i].record.complete /\ i # j =>
      {i, j} \subseteq raced

\* port.ts: "Init carries the per-alias configuration ... so the adapter knows
\* which path/env var/keychain entry to operate on": the adapter a call gets
\* operates on the configuration its alias was registered with.
AdapterOfRecord ==
  \A t \in Tasks : pc[t] = "got" => made[adapter[t]].record = record[t]

\* common.ts: "Zero the original buffer regardless of success so secret bytes
\* do not linger when the adapter throws."
KeyZeroed == \A t \in Tasks : pc[t] \in Over => key[t] # "live"
=============================================================================
