------------------------ MODULE SignerRegistryProofs ------------------------
(***************************************************************************)
(* Proofs about SignerRegistry, for any tasks, aliases and kinds, and any  *)
(* number of registrations, lists and aborts.                              *)
(***************************************************************************)
EXTENDS SignerRegistry, FiniteSetTheorems, TLAPS

\* Where a task works with the adapter it was given.
Holding == {"init", "got", "keystore", "fetching", "signing", "auditing", "reading"}
PcValues == {Idle} \cup Suspended \cup Over

\* A task that works with an adapter has one, for a registered record.
HoldInv ==
  \A t \in Tasks : pc[t] \in Holding =>
    adapter[t] \in 1..Len(made) /\ target[t] \in Aliases /\ record[t] \in Records
TypeInv == TypeOK /\ HoldInv

-----------------------------------------------------------------------------
(* The steps, by what they do to the registry. *)

\* An absent record is none that was registered.
LEMMA NoRecordApart == NoRecord \notin Records
  BY KindsAssumption DEF NoRecord, Records, AllKinds

\* A new adapter comes after all others.
LEMMA AppendMade ==
  ASSUME NEW m \in Seq(Adapters), NEW x \in Adapters
  PROVE  /\ Append(m, x) \in Seq(Adapters)
         /\ Len(Append(m, x)) = Len(m) + 1
         /\ Append(m, x)[Len(m) + 1] = x
         /\ \A i \in 1..Len(m) : Append(m, x)[i] = m[i]
  OBVIOUS

\* An adapter that is disposed keeps what it was made for.
LEMMA DisposeMade ==
  ASSUME NEW m \in Seq(Adapters), NEW k \in 1..Len(m)
  PROVE  /\ [m EXCEPT ![k].alive = FALSE] \in Seq(Adapters)
         /\ Len([m EXCEPT ![k].alive = FALSE]) = Len(m)
         /\ \A i \in 1..Len(m) :
              /\ [m EXCEPT ![k].alive = FALSE][i].alias = m[i].alias
              /\ [m EXCEPT ![k].alive = FALSE][i].record = m[i].record
              /\ i # k => [m EXCEPT ![k].alive = FALSE][i] = m[i]
<1> DEFINE d == [m[k] EXCEPT !.alive = FALSE]
           n == [m EXCEPT ![k] = d]
<1>1. m[k] \in Adapters
  OBVIOUS
<1>2. d \in Adapters /\ d.alias = m[k].alias /\ d.record = m[k].record
  BY <1>1 DEF Adapters
<1>3. n \in Seq(Adapters) /\ Len(n) = Len(m)
  BY <1>2
<1>4. \A i \in 1..Len(m) : n[i] = IF i = k THEN d ELSE m[i]
  OBVIOUS
<1>5. n = [m EXCEPT ![k].alive = FALSE]
  OBVIOUS
<1> HIDE DEF n, d
<1>6. \A i \in 1..Len(m) : /\ n[i].alias = m[i].alias
                           /\ n[i].record = m[i].record
                           /\ i # k => n[i] = m[i]
  BY <1>2, <1>4
<1> QED
  BY <1>3, <1>5, <1>6

-----------------------------------------------------------------------------
(* Types. *)

LEMMA TypeInit == Init => TypeInv
<1> SUFFICES ASSUME Init PROVE TypeInv
  OBVIOUS
<1>1. made = <<>> /\ made \in Seq(Adapters) /\ Len(made) = 0
  BY DEF Init
<1>2. TypeOK
  BY <1>1, SignerBounds DEF Init, TypeOK
<1> QED
  BY <1>2 DEF Init, TypeInv, HoldInv, Idle, Holding

\* What a task may do to its own variables without touching an adapter.
LEMMA OwnStepType ==
  ASSUME TypeInv, NEW t \in Tasks, NEW x \in PcValues, pc' = [pc EXCEPT ![t] = x],
         x \in Holding => pc[t] \in Holding,
         UNCHANGED <<aliases, adds, made, target, record, adapter, cursor, aborted,
                     raced>>,
         adapters' \in [Aliases -> 0..Len(made)],
         op' \in [Tasks -> {"none", "sign", "list"}],
         out' \in [Tasks -> Seq(Aliases)],
         key' \in [Tasks -> {"none", "live", "zeroed"}],
         audit' \subseteq Tasks,
         kept' \in [Tasks -> SUBSET Aliases]
  PROVE  TypeInv'
<1>1. pc' \in [Tasks -> PcValues] /\ \A u \in Tasks : pc'[u] \in Holding => pc[u] \in Holding
  BY DEF TypeInv, TypeOK, PcValues
<1>2. HoldInv'
  BY <1>1 DEF TypeInv, HoldInv
<1> QED
  BY <1>1, <1>2 DEF TypeInv, TypeOK, PcValues

\* A task gets the cached adapter, a new one, or none.
LEMMA LoadType ==
  ASSUME TypeInv, NEW t \in Tasks, NEW a \in Registered, loadAdapter(t, a),
         UNCHANGED <<aliases, adds, adapters, out, aborted, key, audit, kept>>,
         op' \in [Tasks -> {"none", "sign", "list"}],
         cursor' \in [Tasks -> 0..MaxAdds]
  PROVE  TypeInv'
<1>0. a \in Aliases /\ aliases[a] \in Records
  BY DEF Registered, TypeInv, TypeOK
<1>1. /\ target' \in [Tasks -> Aliases \cup {"none"}] /\ target'[t] = a
      /\ record' \in [Tasks -> Records \cup {NoRecord}] /\ record'[t] = aliases[a]
      /\ \A u \in Tasks \ {t} : target'[u] = target[u] /\ record'[u] = record[u]
  BY <1>0 DEF loadAdapter, TypeInv, TypeOK
<1>2. ASSUME NEW x \in PcValues, pc' = [pc EXCEPT ![t] = x],
             x \in Holding => adapter'[t] \in 1..Len(made'),
             adapter' \in [Tasks -> 0..Len(made')],
             \A u \in Tasks \ {t} : adapter'[u] = adapter[u],
             made' \in Seq(Adapters), Len(made) <= Len(made'),
             raced' \subseteq 1..Len(made')
      PROVE  TypeInv'
  <2>1. pc' \in [Tasks -> PcValues] /\ pc'[t] = x
        /\ \A u \in Tasks \ {t} : pc'[u] = pc[u]
    BY <1>2 DEF TypeInv, TypeOK, PcValues
  <2>2. Len(made) \in Nat /\ Len(made') \in Nat
    BY <1>2 DEF TypeInv, TypeOK
  <2>3. HoldInv'
    <3> SUFFICES ASSUME NEW u \in Tasks, pc'[u] \in Holding
                 PROVE  adapter'[u] \in 1..Len(made') /\ target'[u] \in Aliases
                        /\ record'[u] \in Records
      BY DEF HoldInv
    <3>1. CASE u = t
      BY <1>0, <1>1, <1>2, <2>1, <3>1
    <3>2. CASE u # t
      BY <1>1, <1>2, <2>1, <2>2, <3>2 DEF TypeInv, HoldInv
    <3> QED
      BY <3>1, <3>2
  <2>4. adapters \in [Aliases -> 0..Len(made')]
    BY <1>2, <2>2 DEF TypeInv, TypeOK
  <2>5. DOMAIN made' = 1..Len(made')
    BY <1>2
  <2> QED
    BY <1>1, <1>2, <2>1, <2>3, <2>4, <2>5 DEF TypeInv, TypeOK, PcValues
<1>3. raced \subseteq 1..Len(made) /\ made \in Seq(Adapters) /\ Len(made) \in Nat
      /\ adapter \in [Tasks -> 0..Len(made)]
  BY DEF TypeInv, TypeOK
<1>4. \A x \in {"got", "init", "next", "failed"} : x \in PcValues
  BY DEF PcValues, Suspended, Over
<1>5. CASE adapters[a] # 0
  <2>1. /\ pc' = [pc EXCEPT ![t] = "got"] /\ adapter' = [adapter EXCEPT ![t] = adapters[a]]
        /\ UNCHANGED <<made, raced>>
    BY <1>5 DEF loadAdapter, Goto
  <2>2. adapters[a] \in 1..Len(made)
    BY <1>0, <1>3, <1>5 DEF TypeInv, TypeOK
  <2>3. /\ adapter' \in [Tasks -> 0..Len(made')] /\ adapter'[t] \in 1..Len(made')
        /\ \A u \in Tasks \ {t} : adapter'[u] = adapter[u]
        /\ made' \in Seq(Adapters) /\ Len(made) <= Len(made')
        /\ raced' \subseteq 1..Len(made')
    BY <1>3, <2>1, <2>2
  <2> QED
    BY <1>2, <1>4, <2>1, <2>3
<1>6. CASE adapters[a] = 0 /\ aliases[a].kind = "ledger"
  <2>1. PICK x \in {"next", "failed"} : pc' = [pc EXCEPT ![t] = x]
    BY <1>6 DEF loadAdapter, Rejects, Goto
  <2>2. UNCHANGED <<made, adapter, raced>>
    BY <1>6 DEF loadAdapter
  <2>3. /\ adapter' \in [Tasks -> 0..Len(made')]
        /\ \A u \in Tasks \ {t} : adapter'[u] = adapter[u]
        /\ made' \in Seq(Adapters) /\ Len(made) <= Len(made')
        /\ raced' \subseteq 1..Len(made')
    BY <1>3, <2>2
  <2>4. x \notin Holding
    BY DEF Holding
  <2> QED
    BY <1>2, <1>4, <2>1, <2>3, <2>4
<1>7. CASE adapters[a] = 0 /\ aliases[a].kind # "ledger"
  <2> DEFINE x == [alias |-> a, record |-> aliases[a], alive |-> aliases[a].complete]
  <2>1. /\ pc' = [pc EXCEPT ![t] = "init"]
        /\ adapter' = [adapter EXCEPT ![t] = Len(made) + 1]
        /\ made' = Append(made, x)
        /\ raced' \subseteq raced \cup Initialising(a) \cup {Len(made) + 1}
    BY <1>7 DEF loadAdapter, Goto
  <2>2. x \in Adapters
    BY <1>0 DEF Adapters, Records
  <2>3. Initialising(a) \subseteq 1..Len(made)
    BY DEF Initialising, TypeInv, HoldInv, Holding
  <2>4. made' \in Seq(Adapters) /\ Len(made') = Len(made) + 1
    BY <1>3, <2>1, <2>2, AppendMade
  <2>5. /\ adapter' \in [Tasks -> 0..Len(made')] /\ adapter'[t] \in 1..Len(made')
        /\ \A u \in Tasks \ {t} : adapter'[u] = adapter[u]
    <3>1. Len(made) + 1 \in 1..Len(made') /\ 0..Len(made) \subseteq 0..Len(made')
      BY <1>3, <2>4
    <3> QED
      BY <1>3, <2>1, <3>1
  <2>6. raced' \subseteq 1..Len(made')
    <3>1. 1..Len(made) \subseteq 1..Len(made') /\ Len(made) + 1 \in 1..Len(made')
      BY <1>3, <2>4
    <3> QED
      BY <1>3, <2>1, <2>3, <3>1
  <2>7. Len(made) <= Len(made')
    BY <1>3, <2>4
  <2> QED
    BY <1>2, <1>4, <2>1, <2>4, <2>5, <2>6, <2>7
<1> QED
  BY <1>5, <1>6, <1>7

\* What the registrations do: add and remove.
LEMMA RegistryType ==
  ASSUME TypeInv, NEW a \in Aliases,
         Remove(a) \/ \E k \in Kinds, c \in BOOLEAN : Add(a, k, c)
  PROVE  TypeInv'
<1>1. ASSUME NEW k \in Kinds, NEW c \in BOOLEAN, Add(a, k, c) PROVE TypeInv'
  <2>1. adds + 1 \in 1..MaxAdds
    BY <1>1, SignerBounds DEF Add, TypeInv, TypeOK
  <2>2. [stamp |-> adds + 1, kind |-> k, complete |-> c] \in Records
    BY <2>1 DEF Records
  <2> QED
    BY <1>1, <2>1, <2>2 DEF Add, TypeInv, TypeOK, HoldInv, taskVars
<1>2. CASE Remove(a)
  <2>1. /\ made' \in Seq(Adapters) /\ Len(made') = Len(made)
    BY <1>2, DisposeMade DEF Remove, TypeInv, TypeOK
  <2>2. Initialising(a) \subseteq 1..Len(made)
    BY DEF Initialising, TypeInv, HoldInv, Holding
  <2>3. raced' \subseteq DOMAIN made'
    BY <1>2, <2>1, <2>2 DEF Remove, TypeInv, TypeOK
  <2>4. /\ aliases' \in [Aliases -> Records \cup {NoRecord}]
        /\ adapters' \in [Aliases -> 0..Len(made')]
        /\ kept' \in [Tasks -> SUBSET Aliases]
    BY <1>2, <2>1 DEF Remove, TypeInv, TypeOK
  <2> QED
    BY <1>2, <2>1, <2>3, <2>4 DEF Remove, TypeInv, TypeOK, HoldInv, taskVars
<1> QED
  BY <1>1, <1>2

\* What a call of sign or list, an abort, or a step of a task does to its task.
LEMMA TaskType ==
  ASSUME TypeInv, NEW t \in Tasks,
         Step(t) \/ List(t) \/ Abort(t) \/ \E a \in Aliases : Sign(t, a)
  PROVE  TypeInv'
<1>P. /\ {Idle, "init", "got", "keystore", "fetching", "signing", "auditing", "next",
          "reading", "signed", "listed", "failed"} = PcValues
      /\ \A x \in {"next", "signed", "listed", "failed"} : x \notin Holding
      /\ \A x \in {"init", "got", "keystore", "fetching", "signing", "auditing",
                   "reading"} : x \in Holding
  BY DEF PcValues, Suspended, Over, Holding
<1>T. /\ adapters \in [Aliases -> 0..Len(made)] /\ audit \subseteq Tasks
      /\ op \in [Tasks -> {"none", "sign", "list"}] /\ out \in [Tasks -> Seq(Aliases)]
      /\ key \in [Tasks -> {"none", "live", "zeroed"}]
      /\ kept \in [Tasks -> SUBSET Aliases] /\ Registered \subseteq Aliases
      /\ target \in [Tasks -> Aliases \cup {"none"}]
      /\ adapter \in [Tasks -> 0..Len(made)]
  BY DEF TypeInv, TypeOK, Registered
<1>1. ASSUME NEW a \in Aliases, Sign(t, a) PROVE TypeInv'
  <2>1. op' \in [Tasks -> {"none", "sign", "list"}]
    BY <1>1, <1>T DEF Sign
  <2>2. CASE a \in Registered /\ ~aborted[t]
    <3>1. loadAdapter(t, a)
      BY <1>1, <2>2 DEF Sign
    <3>2. UNCHANGED <<aliases, adds, adapters, out, aborted, key, audit, kept>>
          /\ cursor' \in [Tasks -> 0..MaxAdds]
      BY <1>1 DEF Sign, TypeInv, TypeOK
    <3> QED
      BY <2>1, <2>2, <3>1, <3>2, LoadType
  <2>3. CASE ~(a \in Registered /\ ~aborted[t])
    <3>1. /\ pc' = [pc EXCEPT ![t] = "failed"]
          /\ UNCHANGED <<made, target, record, adapter, raced>>
          /\ UNCHANGED <<aliases, adds, adapters, cursor, out, aborted, key, audit, kept>>
      BY <1>1, <2>3 DEF Sign, Goto
    <3> QED
      BY <1>P, <1>T, <2>1, <3>1, OwnStepType
  <2> QED
    BY <2>2, <2>3
<1>2. CASE List(t)
  <2>1. /\ pc' = [pc EXCEPT ![t] = "next"]
        /\ op' = [op EXCEPT ![t] = "list"] /\ kept' = [kept EXCEPT ![t] = Registered]
        /\ UNCHANGED <<aliases, adds, made, adapters, target, record, adapter, cursor,
                       out, aborted, key, audit, raced>>
    BY <1>2 DEF List, Goto
  <2> QED
    BY <1>P, <1>T, <2>1, OwnStepType
<1>3. CASE Abort(t)
  BY <1>3 DEF Abort, taskVars, TypeInv, TypeOK, HoldInv
<1>4. CASE ListNext(t)
  <2>1. UNCHANGED <<aliases, adds, adapters, op, out, aborted, key, audit, kept>>
    BY <1>4 DEF ListNext
  <2>2. ASSUME NEW a \in Ahead(t), cursor' = [cursor EXCEPT ![t] = aliases[a].stamp],
               loadAdapter(t, a)
        PROVE  TypeInv'
    <3>1. a \in Registered /\ aliases[a].stamp \in 0..MaxAdds
      BY SignerBounds DEF Ahead, Registered, Records, TypeInv, TypeOK
    <3>2. cursor' \in [Tasks -> 0..MaxAdds]
      BY <2>2, <3>1 DEF TypeInv, TypeOK
    <3> QED
      BY <1>T, <2>1, <2>2, <3>1, <3>2, LoadType
  <2>3. ASSUME NEW x \in {"failed", "listed"}, pc' = [pc EXCEPT ![t] = x],
               UNCHANGED <<made, target, record, adapter, cursor, raced>>
        PROVE  TypeInv'
    BY <1>P, <1>T, <2>1, <2>3, OwnStepType
  <2> QED
    BY <1>4, <2>2, <2>3 DEF ListNext, Goto
<1>5. CASE InitReturns(t)
  <2>1. pc[t] \in Holding /\ adapter[t] \in 0..Len(made) /\ target[t] \in Aliases
    BY <1>5, <1>P, <1>T DEF InitReturns, TypeInv, HoldInv
  <2>2. adapters' \in [Aliases -> 0..Len(made)]
    BY <1>5, <1>T, <2>1 DEF InitReturns
  <2>3. PICK x \in {"got", "next", "failed"} : pc' = [pc EXCEPT ![t] = x]
    BY <1>5 DEF InitReturns, Rejects, Goto
  <2>4. UNCHANGED <<aliases, adds, made, op, target, record, adapter, cursor, out,
                    aborted, key, audit, kept, raced>>
    BY <1>5 DEF InitReturns
  <2> QED
    BY <1>P, <1>T, <2>1, <2>2, <2>3, <2>4, OwnStepType
<1>6. ASSUME NEW x \in PcValues, pc' = [pc EXCEPT ![t] = x], pc[t] \in Holding,
             UNCHANGED <<aliases, adds, made, adapters, op, target, record, adapter,
                         cursor, aborted, kept, raced>>,
             out' = out \/ out' = [out EXCEPT ![t] = Append(@, target[t])],
             key' = key \/ \E k \in {"live", "zeroed"} : key' = [key EXCEPT ![t] = k],
             audit' = audit \/ audit' = audit \cup {t}
      PROVE  TypeInv'
  <2>1. target[t] \in Aliases
    BY <1>6 DEF TypeInv, HoldInv
  <2>2. out' \in [Tasks -> Seq(Aliases)]
    <3>1. out[t] \in Seq(Aliases)
      BY <1>T
    <3>2. Append(out[t], target[t]) \in Seq(Aliases)
      BY <2>1, <3>1
    <3> QED
      BY <1>6, <1>T, <3>2
  <2>3. key' \in [Tasks -> {"none", "live", "zeroed"}] /\ audit' \subseteq Tasks
    BY <1>6, <1>T
  <2> QED
    BY <1>6, <1>T, <2>2, <2>3, OwnStepType
<1>7. CASE Use(t)
  <2>1. pc[t] \in Holding /\ UNCHANGED <<aliases, adds, made, adapters, op, target, record,
                  adapter, cursor, out, aborted, audit, kept, raced>>
    BY <1>7, <1>P DEF Use
  <2>2. \E x \in {"next", "failed", "reading", "keystore", "fetching", "signing"} :
          pc' = [pc EXCEPT ![t] = x]
    BY <1>7 DEF Use, Rejects, signWithKeyBytes, Goto
  <2>3. key' = key \/ key' = [key EXCEPT ![t] = "live"]
    BY <1>7 DEF Use, signWithKeyBytes
  <2> QED
    BY <1>6, <1>P, <2>1, <2>2, <2>3
<1>8. ASSUME NEW b \in BOOLEAN, ReadReturns(t, b) \/ KeystoreReturns(t, b)
                                \/ AuditReturns(t, b)
      PROVE  TypeInv'
  BY <1>6, <1>8, <1>P DEF ReadReturns, KeystoreReturns, AuditReturns, Goto
<1>9. ASSUME NEW b \in BOOLEAN, KeyArrives(t, b) \/ KeyMissing(t) \/ SignatureReturns(t, b)
      PROVE  TypeInv'
  BY <1>6, <1>9, <1>P DEF KeyArrives, KeyMissing, SignatureReturns, signWithKeyBytes, Goto
<1> QED
  BY <1>1, <1>2, <1>3, <1>4, <1>5, <1>7, <1>8, <1>9 DEF Step

LEMMA TypeStep == TypeInv /\ [Next]_vars => TypeInv'
<1> SUFFICES ASSUME TypeInv, [Next]_vars PROVE TypeInv'
  OBVIOUS
<1>1. CASE UNCHANGED vars
  BY <1>1 DEF TypeInv, TypeOK, HoldInv, vars, taskVars
<1> QED
  BY <1>1, RegistryType, TaskType DEF Next

\* Every variable of the registry and of the tasks keeps its type, and the indices
\* of adapters name adapters that exist (registry.ts).
THEOREM TypeCorrect == Spec => []TypeOK
<1>1. TypeInv => TypeOK
  BY DEF TypeInv
<1> QED
  BY <1>1, TypeInit, TypeStep, PTL DEF Spec

\* Only a call that has its signature leaves a line, and it ends there.
THEOREM AuditedSigned == Spec => []AuditOnlySigned
<1>1. Init => AuditOnlySigned
  BY DEF Init, AuditOnlySigned
<1>2. AuditOnlySigned /\ TypeInv /\ [Next]_vars => AuditOnlySigned'
  <2> SUFFICES ASSUME AuditOnlySigned, TypeInv, [Next]_vars, NEW u \in audit'
               PROVE  pc'[u] = "signed"
    BY DEF AuditOnlySigned
  <2>0. pc \in [Tasks -> PcValues] /\ audit \subseteq Tasks
    BY DEF TypeInv, TypeOK, PcValues
  <2>1. CASE pc' = pc /\ audit' = audit
    BY <2>1 DEF AuditOnlySigned
  <2>2. ASSUME NEW t \in Tasks, NEW x, pc' = [pc EXCEPT ![t] = x], pc[t] # "signed",
               audit' = audit \/ (x = "signed" /\ audit' \subseteq audit \cup {t})
        PROVE  pc'[u] = "signed"
    BY <2>0, <2>2 DEF AuditOnlySigned
  <2>3. ASSUME NEW t \in Tasks, Step(t) \/ List(t) \/ \E a \in Aliases : Sign(t, a)
        PROVE  pc'[u] = "signed"
    <3>1. CASE \E b \in BOOLEAN : AuditReturns(t, b)
      BY <2>2, <3>1 DEF AuditReturns, Goto
    <3>2. CASE ~\E b \in BOOLEAN : AuditReturns(t, b)
      <4>1. audit' = audit /\ pc[t] # "signed" /\ \E x : pc' = [pc EXCEPT ![t] = x]
        BY <2>3, <3>2 DEF Step, List, Sign, ListNext, InitReturns, Use, ReadReturns,
             KeystoreReturns, KeyArrives, KeyMissing, SignatureReturns, loadAdapter,
             signWithKeyBytes, Rejects, Goto, Idle
      <4> QED
        BY <2>2, <4>1
    <3> QED
      BY <3>1, <3>2
  <2>4. CASE \/ \E a \in Aliases : Remove(a) \/ \E k \in Kinds, c \in BOOLEAN : Add(a, k, c)
             \/ \E t \in Tasks : Abort(t)
             \/ UNCHANGED vars
    BY <2>1, <2>4 DEF Remove, Add, Abort, vars, taskVars
  <2> QED
    BY <2>3, <2>4 DEF Next
<1> QED
  BY <1>1, <1>2, TypeInit, TypeStep, PTL DEF Spec

-----------------------------------------------------------------------------
(* The cache of adapters. *)

\* A step that leaves the registry alone, and the tasks that await an init.
Calm ==
  /\ UNCHANGED <<aliases, adds, made, adapters, raced>>
  /\ \A u \in Tasks :
       /\ pc'[u] = "init" <=> pc[u] = "init"
       /\ pc[u] = "init" =>
            adapter'[u] = adapter[u] /\ target'[u] = target[u] /\ record'[u] = record[u]

\* A task calls the factory for an alias.
Creates(t, a) ==
  /\ a \in Registered /\ adapters[a] = 0 /\ pc[t] # "init"
  /\ UNCHANGED <<aliases, adds, adapters>>
  /\ made' = Append(made, [alias |-> a, record |-> aliases[a],
                           alive |-> aliases[a].complete])
  /\ pc'[t] = "init" /\ adapter'[t] = Len(made) + 1
  /\ target'[t] = a /\ record'[t] = aliases[a]
  /\ \A u \in Tasks \ {t} :
       pc'[u] = pc[u] /\ adapter'[u] = adapter[u] /\ target'[u] = target[u]
       /\ record'[u] = record[u]
  /\ raced' = IF Initialising(a) = {} THEN raced
              ELSE raced \cup Initialising(a) \cup {Len(made) + 1}

\* Every step of the system is one of these, the end of an init, or an add or remove.
LEMMA StepKinds ==
  ASSUME TypeInv, [Next]_vars
  PROVE  \/ Calm
         \/ \E t \in Tasks, a \in Aliases : Creates(t, a)
         \/ \E t \in Tasks : InitReturns(t)
         \/ \E a \in Aliases : Remove(a) \/ \E k \in Kinds, c \in BOOLEAN : Add(a, k, c)
<1>T. /\ DOMAIN pc = Tasks /\ DOMAIN adapter = Tasks /\ DOMAIN target = Tasks
      /\ DOMAIN record = Tasks
  BY DEF TypeInv, TypeOK
<1>1. ASSUME NEW t \in Tasks, NEW a \in Registered, loadAdapter(t, a), pc[t] # "init",
             UNCHANGED <<aliases, adds, adapters>>
      PROVE  Calm \/ Creates(t, a)
  <2>1. CASE adapters[a] = 0 /\ aliases[a].kind # "ledger"
    BY <1>1, <1>T, <2>1 DEF loadAdapter, Creates, Goto
  <2>2. CASE ~(adapters[a] = 0 /\ aliases[a].kind # "ledger")
    <3>1. \E x \in {"got", "next", "failed"} : pc' = [pc EXCEPT ![t] = x]
      BY <1>1, <2>2 DEF loadAdapter, Rejects, Goto
    <3>2. /\ \E x : adapter' = [adapter EXCEPT ![t] = x] \/ adapter' = adapter
          /\ \E x : target' = [target EXCEPT ![t] = x]
          /\ \E x : record' = [record EXCEPT ![t] = x]
          /\ UNCHANGED <<made, raced>>
      BY <1>1, <2>2 DEF loadAdapter
    <3> QED
      BY <1>1, <1>T, <3>1, <3>2 DEF Calm
  <2> QED
    BY <2>1, <2>2
<1>2. ASSUME NEW t \in Tasks, NEW x, pc' = [pc EXCEPT ![t] = x], x # "init", pc[t] # "init",
             UNCHANGED <<aliases, adds, made, adapters, target, record, adapter, raced>>
      PROVE  Calm
  BY <1>2, <1>T DEF Calm
<1>3. ASSUME NEW t \in Tasks, NEW a \in Aliases, Sign(t, a)
      PROVE  Calm \/ \E b \in Aliases : Creates(t, b)
  <2>1. pc[t] # "init" /\ UNCHANGED <<aliases, adds, adapters>>
    BY <1>3 DEF Sign, Idle
  <2>2. CASE a \in Registered /\ ~aborted[t]
    BY <1>1, <1>3, <2>1, <2>2 DEF Sign
  <2>3. CASE ~(a \in Registered /\ ~aborted[t])
    BY <1>2, <1>3, <2>1, <2>3 DEF Sign, Goto
  <2> QED
    BY <2>2, <2>3
<1>4. ASSUME NEW t \in Tasks, ListNext(t)
      PROVE  Calm \/ \E b \in Aliases : Creates(t, b)
  <2>1. pc[t] # "init" /\ UNCHANGED <<aliases, adds, adapters>>
    BY <1>4 DEF ListNext
  <2>2. ASSUME NEW a \in Ahead(t), loadAdapter(t, a)
        PROVE  Calm \/ \E b \in Aliases : Creates(t, b)
    <3>1. a \in Registered /\ a \in Aliases
      BY DEF Ahead, Registered
    <3> QED
      BY <1>1, <2>1, <2>2, <3>1
  <2>3. ASSUME NEW x \in {"failed", "listed"}, pc' = [pc EXCEPT ![t] = x],
               UNCHANGED <<made, target, record, adapter, cursor, raced>>
        PROVE  Calm
    BY <1>2, <2>1, <2>3
  <2> QED
    BY <1>4, <2>2, <2>3 DEF ListNext, Goto
<1>5. ASSUME NEW t \in Tasks, Step(t), ~ListNext(t), ~InitReturns(t) PROVE Calm
  <2>1. \E x \in {"next", "failed", "reading", "keystore", "fetching", "signing",
                  "auditing", "signed"} : pc' = [pc EXCEPT ![t] = x]
    BY <1>5 DEF Step, Use, ReadReturns, KeystoreReturns, KeyArrives, KeyMissing,
                SignatureReturns, AuditReturns, signWithKeyBytes, Rejects, Goto
  <2>2. /\ pc[t] # "init"
        /\ UNCHANGED <<aliases, adds, made, adapters, target, record, adapter, raced>>
    BY <1>5 DEF Step, Use, ReadReturns, KeystoreReturns, KeyArrives, KeyMissing,
                SignatureReturns, AuditReturns
  <2> QED
    BY <1>2, <2>1, <2>2
<1>6. ASSUME NEW t \in Tasks, List(t) \/ Abort(t) PROVE Calm
  <2>1. CASE List(t)
    BY <1>2, <2>1 DEF List, Goto, Idle
  <2>2. CASE Abort(t)
    BY <2>2 DEF Abort, Calm, taskVars
  <2> QED
    BY <1>6, <2>1, <2>2
<1>7. CASE UNCHANGED vars
  BY <1>7 DEF Calm, vars, taskVars
<1> QED
  BY <1>3, <1>4, <1>5, <1>6, <1>7 DEF Next

\* An adapter whose init is awaited is new: it is for its task's alias and record, no
\* other task awaits it and it is not cached.
Fresh ==
  \A t \in Tasks : pc[t] = "init" =>
    /\ made[adapter[t]].alias = target[t] /\ made[adapter[t]].record = record[t]
    /\ made[adapter[t]].alive = record[t].complete
    /\ \A a \in Aliases : adapters[a] # adapter[t]
    /\ \A u \in Tasks \ {t} : pc[u] = "init" => adapter[u] # adapter[t]

\* What an init that nothing overlapped will cache is for the record of its alias.
PendingMatches ==
  \A t \in Tasks : pc[t] = "init" /\ adapter[t] \notin raced =>
    record[t] = aliases[target[t]]

CacheInv == Fresh /\ CachedAlive /\ CacheMatches /\ PendingMatches

LEMMA CacheInit == Init => CacheInv
  BY DEF Init, CacheInv, Fresh, CachedAlive, CacheMatches, PendingMatches, Idle

LEMMA CacheStep == TypeInv /\ CacheInv /\ [Next]_vars => CacheInv'
<1> SUFFICES ASSUME TypeInv, CacheInv, [Next]_vars PROVE CacheInv'
  OBVIOUS
<1>T. /\ made \in Seq(Adapters) /\ Len(made) \in Nat
      /\ adapters \in [Aliases -> 0..Len(made)]
      /\ aliases \in [Aliases -> Records \cup {NoRecord}]
      /\ adapter \in [Tasks -> 0..Len(made)] /\ raced \subseteq 1..Len(made)
      /\ \A i \in 1..Len(made) : made[i] \in Adapters
  BY DEF TypeInv, TypeOK
<1>H. \A t \in Tasks : pc[t] = "init" =>
        adapter[t] \in 1..Len(made) /\ target[t] \in Aliases /\ record[t] \in Records
  BY DEF TypeInv, HoldInv, Holding
<1>R. \A i \in 1..Len(made) : made[i].record # NoRecord
  BY <1>T, NoRecordApart DEF Adapters
<1>1. CASE Calm
  <2>1. Fresh' /\ PendingMatches'
    BY <1>1 DEF Calm, CacheInv, Fresh, PendingMatches
  <2> QED
    BY <1>1, <2>1 DEF Calm, CacheInv, CachedAlive, CacheMatches
<1>2. ASSUME NEW t \in Tasks, NEW a \in Aliases, Creates(t, a) PROVE CacheInv'
  <2> DEFINE x == [alias |-> a, record |-> aliases[a], alive |-> aliases[a].complete]
  <2>1. x \in Adapters
    BY <1>2, <1>T DEF Creates, Registered, Adapters, Records
  <2>2. /\ made'[Len(made) + 1] = x
        /\ \A i \in 1..Len(made) : made'[i] = made[i]
    BY <1>2, <1>T, <2>1, AppendMade DEF Creates
  <2>3. /\ UNCHANGED <<aliases, adapters>>
        /\ pc'[t] = "init" /\ adapter'[t] = Len(made) + 1
        /\ target'[t] = a /\ record'[t] = aliases[a]
        /\ \A u \in Tasks \ {t} :
             pc'[u] = pc[u] /\ adapter'[u] = adapter[u] /\ target'[u] = target[u]
             /\ record'[u] = record[u]
        /\ raced \subseteq raced'
    BY <1>2 DEF Creates
  <2>4. \A b \in Aliases : adapters[b] \in 0..Len(made) /\ adapters[b] # Len(made) + 1
    BY <1>T
  <2>5. Fresh'
    <3> SUFFICES ASSUME NEW u \in Tasks, pc'[u] = "init"
                 PROVE  /\ made'[adapter'[u]].alias = target'[u]
                        /\ made'[adapter'[u]].record = record'[u]
                        /\ made'[adapter'[u]].alive = record'[u].complete
                        /\ \A b \in Aliases : adapters'[b] # adapter'[u]
                        /\ \A w \in Tasks \ {u} : pc'[w] = "init" => adapter'[w] # adapter'[u]
      BY DEF Fresh
    <3>1. CASE u = t
      <4>1. \A w \in Tasks \ {t} : pc'[w] = "init" => adapter'[w] # Len(made) + 1
        BY <1>T, <1>H, <2>3
      <4> QED
        BY <2>2, <2>3, <2>4, <3>1, <4>1
    <3>2. CASE u # t
      <4>1. pc[u] = "init" /\ adapter'[u] = adapter[u] /\ adapter[u] \in 1..Len(made)
        BY <1>H, <2>3, <3>2
      <4>2. adapter'[t] # adapter[u]
        BY <1>T, <2>3, <4>1
      <4> QED
        BY <2>2, <2>3, <3>2, <4>1, <4>2 DEF CacheInv, Fresh
    <3> QED
      BY <3>1, <3>2
  <2>6. CachedAlive' /\ CacheMatches'
    <3>1. \A b \in Aliases : adapters[b] # 0 => made'[adapters[b]] = made[adapters[b]]
      BY <1>T, <2>2
    <3> QED
      BY <2>3, <3>1 DEF CacheInv, CachedAlive, CacheMatches
  <2>7. PendingMatches'
    BY <2>3 DEF CacheInv, PendingMatches
  <2> QED
    BY <2>5, <2>6, <2>7 DEF CacheInv
<1>3. ASSUME NEW t \in Tasks, InitReturns(t) PROVE CacheInv'
  <2>1. /\ pc[t] = "init" /\ UNCHANGED <<aliases, made, target, record, adapter, raced>>
        /\ \E x \in {"got", "next", "failed"} : pc' = [pc EXCEPT ![t] = x]
        /\ \/ adapters' = adapters
           \/ record[t].complete /\ adapters' = [adapters EXCEPT ![target[t]] = adapter[t]]
    BY <1>3 DEF InitReturns, Rejects, Goto
  <2>2. pc'[t] # "init" /\ \A u \in Tasks \ {t} : pc'[u] = pc[u]
    BY <2>1 DEF TypeInv, TypeOK
  <2>3. \A a \in Aliases :
          \/ adapters'[a] = adapters[a]
          \/ adapters'[a] = adapter[t] /\ a = target[t] /\ record[t].complete
    BY <1>T, <1>H, <2>1
  <2>4. Fresh'
    BY <2>1, <2>2, <2>3 DEF CacheInv, Fresh
  <2>5. CachedAlive' /\ CacheMatches'
    BY <2>1, <2>3 DEF CacheInv, CachedAlive, CacheMatches, PendingMatches, Fresh
  <2>6. PendingMatches'
    BY <2>1, <2>2 DEF CacheInv, PendingMatches
  <2> QED
    BY <2>4, <2>5, <2>6 DEF CacheInv
<1>4. ASSUME NEW a \in Aliases, Remove(a) PROVE CacheInv'
  <2>1. /\ UNCHANGED <<pc, target, record, adapter>>
        /\ \A b \in Aliases \ {a} : aliases'[b] = aliases[b] /\ adapters'[b] = adapters[b]
        /\ adapters'[a] = 0
        /\ raced' = raced \cup Initialising(a)
    BY <1>4, <1>T DEF Remove, taskVars
  <2>2. \A i \in 1..Len(made) :
          /\ made'[i].alias = made[i].alias /\ made'[i].record = made[i].record
          /\ adapters[a] = 0 \/ adapters[a] # i => made'[i] = made[i]
    <3>1. CASE adapters[a] = 0
      BY <1>4, <3>1 DEF Remove
    <3>2. CASE adapters[a] # 0
      <4>1. adapters[a] \in 1..Len(made) /\ made' = [made EXCEPT ![adapters[a]].alive = FALSE]
        BY <1>4, <1>T, <3>2 DEF Remove
      <4> QED
        BY <1>T, <4>1, DisposeMade
    <3> QED
      BY <3>1, <3>2
  <2>3. Fresh'
    <3> SUFFICES ASSUME NEW u \in Tasks, pc[u] = "init"
                 PROVE  /\ made'[adapter[u]].alias = target[u]
                        /\ made'[adapter[u]].record = record[u]
                        /\ made'[adapter[u]].alive = record[u].complete
                        /\ \A b \in Aliases : adapters'[b] # adapter[u]
                        /\ \A w \in Tasks \ {u} : pc[w] = "init" => adapter[w] # adapter[u]
      BY <2>1 DEF Fresh
    <3>1. adapter[u] \in 1..Len(made) /\ adapters[a] # adapter[u]
      BY <1>H DEF CacheInv, Fresh
    <3>2. made'[adapter[u]] = made[adapter[u]]
      BY <2>2, <3>1
    <3>3. \A b \in Aliases : adapters'[b] # adapter[u]
      BY <1>T, <2>1, <3>1 DEF CacheInv, Fresh
    <3> QED
      BY <3>2, <3>3 DEF CacheInv, Fresh
  <2>4. \A b \in Aliases : adapters'[b] # 0 =>
          /\ b # a /\ adapters'[b] = adapters[b] /\ adapters[b] \in 1..Len(made)
          /\ made'[adapters[b]] = made[adapters[b]]
    <3> SUFFICES ASSUME NEW b \in Aliases, adapters'[b] # 0
                 PROVE  /\ b # a /\ adapters'[b] = adapters[b] /\ adapters[b] \in 1..Len(made)
                        /\ made'[adapters[b]] = made[adapters[b]]
      OBVIOUS
    <3>1. b # a /\ adapters'[b] = adapters[b] /\ adapters[b] \in 1..Len(made)
      BY <1>T, <2>1
    <3>2. adapters[a] = 0 \/ adapters[a] # adapters[b]
      BY <3>1 DEF CacheInv, CachedAlive
    <3> QED
      BY <2>2, <3>1, <3>2
  <2>5. CachedAlive' /\ CacheMatches'
    BY <2>1, <2>4 DEF CacheInv, CachedAlive, CacheMatches
  <2>6. PendingMatches'
    <3> SUFFICES ASSUME NEW u \in Tasks, pc[u] = "init", adapter[u] \notin raced'
                 PROVE  record[u] = aliases'[target[u]]
      BY <2>1 DEF PendingMatches
    <3>1. target[u] # a
      BY <2>1 DEF Initialising
    <3> QED
      BY <1>H, <2>1, <3>1 DEF CacheInv, PendingMatches
  <2> QED
    BY <2>3, <2>5, <2>6 DEF CacheInv
<1>5. ASSUME NEW a \in Aliases, NEW k \in Kinds, NEW c \in BOOLEAN, Add(a, k, c)
      PROVE  CacheInv'
  <2>1. /\ UNCHANGED <<pc, target, record, adapter, made, adapters, raced>>
        /\ aliases[a] = NoRecord
        /\ \A b \in Aliases \ {a} : aliases'[b] = aliases[b]
    BY <1>5, <1>T DEF Add, taskVars, Registered
  <2>2. Fresh' /\ CachedAlive'
    BY <2>1 DEF CacheInv, Fresh, CachedAlive
  <2>3. CacheMatches'
    <3> SUFFICES ASSUME NEW b \in Aliases, adapters[b] # 0, adapters[b] \notin raced
                 PROVE  made[adapters[b]].record = aliases'[b]
      BY <2>1 DEF CacheMatches
    <3>1. made[adapters[b]].record = aliases[b] /\ adapters[b] \in 1..Len(made)
      BY <1>T DEF CacheInv, CacheMatches
    <3>2. b # a
      BY <1>R, <2>1, <3>1
    <3> QED
      BY <2>1, <3>1, <3>2
  <2>4. PendingMatches'
    <3> SUFFICES ASSUME NEW u \in Tasks, pc[u] = "init", adapter[u] \notin raced
                 PROVE  record[u] = aliases'[target[u]]
      BY <2>1 DEF PendingMatches
    <3>1. record[u] = aliases[target[u]] /\ record[u] # NoRecord /\ target[u] \in Aliases
      BY <1>H, NoRecordApart DEF CacheInv, PendingMatches
    <3> QED
      BY <2>1, <3>1
  <2> QED
    BY <2>2, <2>3, <2>4 DEF CacheInv
<1> QED
  BY <1>1, <1>2, <1>3, <1>4, <1>5, StepKinds

\* However gets, lists, adds and removes overlap, an adapter in the cache was made
\* for its alias and has not been disposed (registry.ts).
THEOREM CacheUsable == Spec => []CachedAlive
<1>1. CacheInv => CachedAlive
  BY DEF CacheInv
<1> QED
  BY <1>1, TypeInit, TypeStep, CacheInit, CacheStep, PTL DEF Spec

\* An adapter in the cache was initialised with the record its alias has now, but for
\* one that a remove or another get overlapped during its init (registry.ts).
THEOREM CacheCurrent == Spec => []CacheMatches
<1>1. CacheInv => CacheMatches
  BY DEF CacheInv
<1> QED
  BY <1>1, TypeInit, TypeStep, CacheInit, CacheStep, PTL DEF Spec

-----------------------------------------------------------------------------
(* One adapter for a registration. *)

\* Registrations are told apart by their stamps, and an adapter is for one of them.
Stamped ==
  /\ \A a \in Registered : aliases[a].stamp <= adds
  /\ \A i \in 1..Len(made) : made[i].record.stamp <= adds
  /\ \A a, b \in Registered : aliases[a].stamp = aliases[b].stamp => a = b
  /\ \A i \in 1..Len(made), a \in Registered : made[i].record = aliases[a] => made[i].alias = a

\* An adapter for a registration that is still there is cached, or its init is awaited,
\* or another one is cached; unless it cannot be initialised.
Found ==
  \A i \in 1..Len(made) :
    made[i].record.complete /\ made[i].record = aliases[made[i].alias] =>
      adapters[made[i].alias] # 0 \/ i \in Initialising(made[i].alias)

OnceInv == Stamped /\ Found /\ OncePerAlias

LEMMA OnceInit == Init => OnceInv
  BY DEF Init, OnceInv, Stamped, Found, OncePerAlias, Registered

LEMMA OnceStep == TypeInv /\ CacheInv /\ OnceInv /\ [Next]_vars => OnceInv'
<1> SUFFICES ASSUME TypeInv, CacheInv, OnceInv, [Next]_vars PROVE OnceInv'
  OBVIOUS
<1>T. /\ made \in Seq(Adapters) /\ Len(made) \in Nat /\ DOMAIN made = 1..Len(made)
      /\ adapters \in [Aliases -> 0..Len(made)] /\ adds \in Nat
      /\ aliases \in [Aliases -> Records \cup {NoRecord}]
      /\ adapter \in [Tasks -> 0..Len(made)] /\ raced \subseteq 1..Len(made)
      /\ \A i \in 1..Len(made) : made[i] \in Adapters
  BY SignerBounds DEF TypeInv, TypeOK
<1>H. \A t \in Tasks : pc[t] = "init" =>
        adapter[t] \in 1..Len(made) /\ target[t] \in Aliases /\ record[t] \in Records
  BY DEF TypeInv, HoldInv, Holding
<1>R. \A i \in 1..Len(made) : made[i].record # NoRecord /\ made[i].alias \in Aliases
                              /\ made[i].record \in Records
  BY <1>T, NoRecordApart DEF Adapters
<1>S. \A r \in Records : r.stamp \in Nat
  BY DEF Records
<1>1. CASE Calm
  <2>1. \A a : Initialising(a)' = Initialising(a)
    BY <1>1 DEF Calm, Initialising
  <2> QED
    BY <1>1, <2>1 DEF Calm, OnceInv, Stamped, Found, OncePerAlias, Registered
<1>2. ASSUME NEW t \in Tasks, NEW a \in Aliases, Creates(t, a) PROVE OnceInv'
  <2> DEFINE n == Len(made) + 1
             x == [alias |-> a, record |-> aliases[a], alive |-> aliases[a].complete]
  <2>1. x \in Adapters /\ aliases[a] \in Records /\ a \in Registered
    BY <1>2, <1>T DEF Creates, Registered, Adapters, Records
  <2>2. /\ made'[n] = x /\ \A i \in 1..Len(made) : made'[i] = made[i]
        /\ Len(made') = n /\ DOMAIN made' = 1..n
    BY <1>2, <1>T, <2>1, AppendMade DEF Creates
  <2>3. /\ 1..n = 1..Len(made) \cup {n}
        /\ n \notin 1..Len(made)
    BY <1>T DEF n
  <2>4. UNCHANGED <<aliases, adds, adapters>> /\ Registered' = Registered
    BY <1>2 DEF Creates, Registered
  <2>5. \A b \in Aliases : Initialising(b) \subseteq Initialising(b)'
    BY <1>2 DEF Creates, Initialising
  <2>6. n \in Initialising(a)'
    BY <1>2 DEF Creates, Initialising
  <2>7. Stamped'
    <3>1. \A i \in 1..n : made'[i].record.stamp <= adds
      BY <2>1, <2>2, <2>3 DEF OnceInv, Stamped
    <3>2. \A i \in 1..n, b \in Registered : made'[i].record = aliases[b] => made'[i].alias = b
      BY <2>1, <2>2, <2>3 DEF OnceInv, Stamped
    <3> QED
      BY <2>2, <2>4, <3>1, <3>2 DEF OnceInv, Stamped
  <2>8. Found'
    <3> SUFFICES ASSUME NEW i \in 1..n, NEW b, b = made'[i].alias,
                        made'[i].record.complete, made'[i].record = aliases[b]
                 PROVE  adapters[b] # 0 \/ i \in Initialising(b)'
      BY <2>2, <2>4 DEF Found, Initialising
    <3>1. CASE i = n
      BY <2>2, <2>6, <3>1
    <3>2. CASE i \in 1..Len(made)
      <4>1. made[i].alias = b /\ b \in Aliases
        BY <1>R, <2>2, <3>2
      <4>2. adapters[b] # 0 \/ i \in Initialising(b)
        BY <2>2, <3>2, <4>1 DEF OnceInv, Found
      <4> QED
        BY <2>5, <4>1, <4>2
    <3> QED
      BY <2>3, <3>1, <3>2
  <2>9. OncePerAlias'
    <3> SUFFICES ASSUME NEW i \in 1..n, NEW j \in 1..n, made'[i].record = made'[j].record,
                        made'[i].record.complete, i # j
                 PROVE  {i, j} \subseteq raced'
      BY <2>2 DEF OncePerAlias
    <3>0. raced \subseteq raced'
      BY <1>2 DEF Creates
    <3>1. CASE i # n /\ j # n
      BY <1>T, <2>2, <2>3, <3>0, <3>1 DEF OnceInv, OncePerAlias
    <3>2. ASSUME NEW k \in 1..Len(made), made[k].record = aliases[a],
                 made[k].record.complete
          PROVE  {k, n} \subseteq raced'
      <4>1. made[k].alias = a
        BY <2>1, <3>2 DEF OnceInv, Stamped
      <4>2. k \in Initialising(a)
        BY <1>2, <3>2, <4>1 DEF Creates, OnceInv, Found
      <4> QED
        BY <1>2, <4>2 DEF Creates
    <3> QED
      BY <2>2, <2>3, <3>1, <3>2
  <2> QED
    BY <2>7, <2>8, <2>9 DEF OnceInv
<1>3. ASSUME NEW t \in Tasks, InitReturns(t) PROVE OnceInv'
  <2>1. /\ pc[t] = "init" /\ UNCHANGED <<aliases, adds, made, target, record, adapter, raced>>
        /\ \E x \in {"got", "next", "failed"} : pc' = [pc EXCEPT ![t] = x]
        /\ IF record[t].complete THEN adapters' = [adapters EXCEPT ![target[t]] = adapter[t]]
           ELSE adapters' = adapters
    BY <1>3 DEF InitReturns, Rejects, Goto
  <2>2. pc'[t] # "init" /\ \A u \in Tasks \ {t} : pc'[u] = pc[u]
    BY <2>1 DEF TypeInv, TypeOK
  <2>3. Registered' = Registered /\ Stamped'
    BY <2>1 DEF OnceInv, Stamped, Registered
  <2>4. Found'
    <3> SUFFICES ASSUME NEW i \in 1..Len(made), made[i].record.complete,
                        made[i].record = aliases[made[i].alias]
                 PROVE  \/ adapters'[made[i].alias] # 0
                        \/ i \in Initialising(made[i].alias)'
      BY <2>1 DEF Found
    <3>1. CASE adapters[made[i].alias] # 0
      BY <1>T, <1>H, <1>R, <2>1, <3>1
    <3>2. CASE i \in Initialising(made[i].alias)
      <4>1. PICK u \in Tasks : pc[u] = "init" /\ target[u] = made[i].alias /\ adapter[u] = i
        BY <3>2 DEF Initialising
      <4>2. CASE u = t
        <5>1. record[t].complete
          BY <4>1, <4>2 DEF CacheInv, Fresh
        <5> QED
          BY <1>T, <1>H, <2>1, <4>1, <4>2, <5>1
      <4>3. CASE u # t
        BY <2>1, <2>2, <4>1, <4>3 DEF Initialising
      <4> QED
        BY <4>2, <4>3
    <3> QED
      BY <3>1, <3>2 DEF OnceInv, Found
  <2> QED
    BY <2>1, <2>3, <2>4 DEF OnceInv, OncePerAlias
<1>4. ASSUME NEW a \in Aliases, Remove(a) PROVE OnceInv'
  <2>1. /\ UNCHANGED <<pc, adds, target, record, adapter>>
        /\ \A b \in Aliases \ {a} : aliases'[b] = aliases[b] /\ adapters'[b] = adapters[b]
        /\ aliases'[a] = NoRecord
        /\ raced \subseteq raced'
    BY <1>4, <1>T DEF Remove, taskVars
  <2>2. /\ Len(made') = Len(made) /\ DOMAIN made' = 1..Len(made)
        /\ \A i \in 1..Len(made) :
             made'[i].alias = made[i].alias /\ made'[i].record = made[i].record
    <3>1. CASE adapters[a] = 0
      BY <1>4, <1>T, <3>1 DEF Remove
    <3>2. CASE adapters[a] # 0
      <4>1. adapters[a] \in 1..Len(made) /\ made' = [made EXCEPT ![adapters[a]].alive = FALSE]
        BY <1>4, <1>T, <3>2 DEF Remove
      <4> QED
        BY <1>T, <4>1, DisposeMade
    <3> QED
      BY <3>1, <3>2
  <2>3. Registered' = Registered \ {a} /\ \A b : Initialising(b)' = Initialising(b)
    BY <2>1 DEF Registered, Initialising
  <2>4. Stamped'
    BY <2>1, <2>2, <2>3 DEF OnceInv, Stamped, Registered
  <2>5. Found'
    BY <1>R, <2>1, <2>2, <2>3 DEF OnceInv, Found
  <2>6. OncePerAlias'
    BY <1>T, <2>1, <2>2 DEF OnceInv, OncePerAlias
  <2> QED
    BY <2>4, <2>5, <2>6 DEF OnceInv
<1>5. ASSUME NEW a \in Aliases, NEW k \in Kinds, NEW c \in BOOLEAN, Add(a, k, c)
      PROVE  OnceInv'
  <2>1. /\ UNCHANGED <<pc, target, record, adapter, made, adapters, raced>>
        /\ a \notin Registered /\ adds' = adds + 1
        /\ \A b \in Aliases \ {a} : aliases'[b] = aliases[b]
        /\ aliases'[a] = [stamp |-> adds + 1, kind |-> k, complete |-> c]
    BY <1>5, <1>T DEF Add, taskVars
  <2>2. aliases'[a] # NoRecord
    BY <2>1, <1>T DEF NoRecord
  <2>3. Registered' = Registered \cup {a} /\ \A b : Initialising(b)' = Initialising(b)
    BY <2>1, <2>2 DEF Registered, Initialising
  <2>4. /\ aliases'[a].stamp = adds + 1
        /\ \A b \in Registered : aliases'[b] = aliases[b] /\ aliases[b].stamp \in Nat
                                 /\ aliases[b].stamp <= adds
        /\ \A i \in 1..Len(made) : made[i].record.stamp \in Nat /\ made[i].record.stamp <= adds
    BY <1>T, <1>R, <1>S, <2>1 DEF OnceInv, Stamped, Registered
  <2>5. \A i \in 1..Len(made) : made[i].record # aliases'[a]
    BY <1>T, <2>4
  <2>6. Stamped'
    <3>1. /\ \A b \in Registered' : aliases'[b].stamp <= adds'
          /\ \A i \in 1..Len(made) : made[i].record.stamp <= adds'
      <4>1. \A b \in Registered : aliases'[b].stamp <= adds + 1
        BY <1>T, <2>4
      <4>2. \A i \in 1..Len(made) : made[i].record.stamp <= adds + 1
        BY <1>T, <2>4
      <4>3. aliases'[a].stamp <= adds + 1
        BY <1>T, <2>4
      <4> QED
        BY <2>1, <2>3, <4>1, <4>2, <4>3
    <3>2. \A b, d \in Registered' : aliases'[b].stamp = aliases'[d].stamp => b = d
      BY <1>T, <2>3, <2>4 DEF OnceInv, Stamped
    <3>3. \A i \in 1..Len(made), b \in Registered' :
            made[i].record = aliases'[b] => made[i].alias = b
      BY <2>3, <2>4, <2>5 DEF OnceInv, Stamped
    <3> QED
      BY <2>1, <3>1, <3>2, <3>3 DEF Stamped
  <2>7. Found'
    BY <1>R, <2>1, <2>3, <2>5 DEF OnceInv, Found
  <2> QED
    BY <2>1, <2>6, <2>7 DEF OnceInv, OncePerAlias
<1> QED
  BY <1>1, <1>2, <1>3, <1>4, <1>5, StepKinds

\* A registration whose adapter could be initialised gets a second one only from gets
\* that overlap during init (signer-adapter-factory.ts).
THEOREM FactoryOnce == Spec => []OncePerAlias
<1>1. OnceInv => OncePerAlias
  BY DEF OnceInv
<1> QED
  BY <1>1, TypeInit, TypeStep, CacheInit, CacheStep, OnceInit, OnceStep, PTL DEF Spec

-----------------------------------------------------------------------------
(* What a list reports. *)

\* The list is busy with the entry of an alias.
At(t, a) == pc[t] \in {"init", "got", "reading"} /\ target[t] = a

\* Where a list stands with an alias that was registered all the while.  It reports
\* what its cursor has passed, once, but for the entry it is busy with; and the
\* adapter it holds for a readable one is alive and of the registration.
ItemOf(t, a) ==
  /\ a \in Registered
  /\ Occurrences(t, a) # {} \/ At(t, a) \/ pc[t] = "listed" => aliases[a].stamp <= cursor[t]
  /\ At(t, a) => Occurrences(t, a) = {}
  /\ \A i, j \in Occurrences(t, a) : i = j
  /\ Readable(a) =>
       /\ aliases[a].stamp <= cursor[t] =>
            Occurrences(t, a) # {} \/ At(t, a) \/ (aborted[t] /\ target[t] = a)
       /\ At(t, a) /\ pc[t] = "init" => record[t] = aliases[a]
       /\ At(t, a) /\ pc[t] # "init" =>
            /\ made[adapter[t]].record = aliases[a] /\ made[adapter[t]].alias = a
            /\ made[adapter[t]].alive

ListPcs == {"next", "init", "got", "reading", "listed", "failed"}
ListOf(t) ==
  /\ op[t] = "list" => pc[t] \in ListPcs
  /\ op[t] # "list" => kept[t] = {}
  /\ pc[t] = Idle => op[t] = "none" /\ cursor[t] = 0 /\ out[t] = <<>>
  /\ \A a \in kept[t] : ItemOf(t, a)
ListInv == \A t \in Tasks : ListOf(t)

LEMMA ListInit == Init => ListInv
  BY DEF Init, ListInv, ListOf, Idle

\* What any step leaves of an alias that stays registered: its record, the adapters
\* made for it, and that it was not readable if it was not.
World(a) ==
  /\ aliases'[a] = aliases[a]
  /\ \A i \in 1..Len(made) : made[i].alias = a => made'[i] = made[i]
  /\ Readable(a)' => Readable(a)

LEMMA WorldStep ==
  ASSUME TypeInv, CacheInv, [Next]_vars, NEW a \in Registered, a \in Registered'
  PROVE  World(a)
<1>T. /\ made \in Seq(Adapters) /\ Len(made) \in Nat
      /\ adapters \in [Aliases -> 0..Len(made)] /\ raced \subseteq 1..Len(made)
      /\ aliases \in [Aliases -> Records \cup {NoRecord}]
  BY DEF TypeInv, TypeOK
<1>A. a \in Aliases /\ aliases[a] \in Records
  BY <1>T DEF Registered
<1>1. ASSUME aliases'[a] = aliases[a], raced \subseteq raced',
             \A i \in 1..Len(made) : made'[i].alias = made[i].alias
                                     /\ (made[i].alias = a => made'[i] = made[i])
      PROVE  World(a)
  BY <1>1, <1>T DEF World, Readable
<1>2. CASE Calm
  BY <1>1, <1>2 DEF Calm
<1>3. ASSUME NEW t \in Tasks, NEW b \in Aliases, Creates(t, b) PROVE World(a)
  <2>1. [alias |-> b, record |-> aliases[b], alive |-> aliases[b].complete] \in Adapters
    BY <1>3, <1>T DEF Creates, Registered, Adapters, Records
  <2>2. \A i \in 1..Len(made) : made'[i] = made[i]
    BY <1>3, <1>T, <2>1, AppendMade DEF Creates
  <2>3. aliases' = aliases /\ raced \subseteq raced'
    BY <1>3 DEF Creates
  <2> QED
    BY <1>1, <2>2, <2>3
<1>4. ASSUME NEW t \in Tasks, InitReturns(t) PROVE World(a)
  BY <1>1, <1>4 DEF InitReturns
<1>5. ASSUME NEW b \in Aliases, Remove(b) PROVE World(a)
  <2>1. b # a
    BY <1>5, <1>T, <1>A DEF Remove, Registered
  <2>2. aliases'[a] = aliases[a] /\ raced \subseteq raced'
    BY <1>5, <1>T, <1>A, <2>1 DEF Remove
  <2>3. \A i \in 1..Len(made) : made'[i].alias = made[i].alias
                                /\ (made[i].alias = a => made'[i] = made[i])
    <3>1. CASE adapters[b] = 0
      BY <1>5, <3>1 DEF Remove
    <3>2. CASE adapters[b] # 0
      <4>1. adapters[b] \in 1..Len(made) /\ made' = [made EXCEPT ![adapters[b]].alive = FALSE]
        BY <1>5, <1>T, <3>2 DEF Remove
      <4>2. made[adapters[b]].alias = b
        BY <3>2 DEF CacheInv, CachedAlive
      <4> QED
        BY <1>T, <2>1, <4>1, <4>2, DisposeMade
    <3> QED
      BY <3>1, <3>2
  <2> QED
    BY <1>1, <2>2, <2>3
<1>6. ASSUME NEW b \in Aliases, NEW k \in Kinds, NEW c \in BOOLEAN, Add(b, k, c)
      PROVE  World(a)
  <2>1. b # a
    BY <1>6 DEF Add
  <2> QED
    BY <1>1, <1>6, <1>T, <1>A, <2>1 DEF Add
<1> QED
  BY <1>2, <1>3, <1>4, <1>5, <1>6, StepKinds

\* A list that does not move itself stands as before with what is still registered.
LEMMA ItemStays ==
  ASSUME TypeInv, NEW t \in Tasks, NEW a, ItemOf(t, a), World(a), a \in Registered',
         pc'[t] = pc[t], target'[t] = target[t], record'[t] = record[t],
         adapter'[t] = adapter[t], cursor'[t] = cursor[t], out'[t] = out[t],
         aborted[t] => aborted'[t]
  PROVE  ItemOf(t, a)'
<1>1. Occurrences(t, a)' = Occurrences(t, a) /\ At(t, a)' = At(t, a)
  BY DEF Occurrences, At
<1>2. At(t, a) => adapter[t] \in 1..Len(made)
  BY DEF At, TypeInv, HoldInv, Holding
<1> QED
  BY <1>1, <1>2 DEF ItemOf, World

LEMMA ListStays ==
  ASSUME TypeInv, CacheInv, ListInv, [Next]_vars, NEW t \in Tasks,
         pc'[t] = pc[t], op'[t] = op[t], target'[t] = target[t], record'[t] = record[t],
         adapter'[t] = adapter[t], cursor'[t] = cursor[t], out'[t] = out[t],
         aborted[t] => aborted'[t], kept'[t] \subseteq kept[t],
         kept'[t] \subseteq Registered'
  PROVE  ListOf(t)'
<1>1. ASSUME NEW a \in kept'[t] PROVE ItemOf(t, a)'
  <2>1. ItemOf(t, a) /\ a \in Registered
    BY <1>1 DEF ListInv, ListOf, ItemOf
  <2> QED
    BY <1>1, <2>1, WorldStep, ItemStays
<1> QED
  BY <1>1 DEF ListInv, ListOf

\* The signing path is none of a list.
LEMMA SignMoves ==
  ASSUME NEW t \in Tasks, op'[t] # "list", kept'[t] = {}, pc'[t] # Idle
  PROVE  ListOf(t)'
  BY DEF ListOf

\* An alias the list is about to visit, or has no more to visit.
LEMMA ListNextItem ==
  ASSUME TypeInv, CacheInv, Stamped, ListInv, [Next]_vars, NEW t \in Tasks, ListNext(t),
         op[t] = "list"
  PROVE  ListOf(t)'
<1>T. /\ made \in Seq(Adapters) /\ Len(made) \in Nat
      /\ adapters \in [Aliases -> 0..Len(made)] /\ adapter \in [Tasks -> 0..Len(made)]
      /\ aliases \in [Aliases -> Records \cup {NoRecord}] /\ raced \subseteq 1..Len(made)
      /\ pc \in [Tasks -> PcValues] /\ target \in [Tasks -> Aliases \cup {"none"}]
      /\ record \in [Tasks -> Records \cup {NoRecord}] /\ cursor \in [Tasks -> 0..MaxAdds]
  BY DEF TypeInv, TypeOK, PcValues
<1>0. /\ pc[t] = "next"
      /\ UNCHANGED <<aliases, adds, adapters, op, out, aborted, key, audit, kept>>
  BY DEF ListNext
<1>R. /\ Registered' = Registered
      /\ \A a \in Registered : aliases[a].stamp \in Nat /\ cursor[t] \in Nat /\ a \in Aliases
  BY <1>0, <1>T, SignerBounds DEF Registered, Records
<1>K. ASSUME NEW a \in kept[t]
      PROVE  /\ a \in Registered /\ World(a)
             /\ Occurrences(t, a)' = Occurrences(t, a) /\ ~At(t, a)
             /\ Occurrences(t, a) # {} => aliases[a].stamp <= cursor[t]
             /\ \A i, j \in Occurrences(t, a) : i = j
             /\ Readable(a)' /\ aliases[a].stamp <= cursor[t]
                  => Occurrences(t, a) # {} \/ (aborted[t] /\ target[t] = a)
  <2>1. ItemOf(t, a) /\ a \in Registered
    BY <1>K DEF ListInv, ListOf, ItemOf
  <2>2. World(a)
    BY <1>R, <2>1, WorldStep
  <2> QED
    BY <1>0, <2>1, <2>2 DEF ItemOf, World, Occurrences, At
<1>1. ASSUME aborted[t] \/ Ahead(t) = {},
             pc' = [pc EXCEPT ![t] = IF Ahead(t) = {} THEN "listed" ELSE "failed"],
             UNCHANGED <<made, target, record, adapter, cursor, raced>>
      PROVE  ListOf(t)'
  <2>1. pc'[t] = IF Ahead(t) = {} THEN "listed" ELSE "failed"
    BY <1>1, <1>T
  <2>2. ASSUME NEW a \in kept[t] PROVE ItemOf(t, a)'
    <3>1. ~At(t, a)'
      BY <2>1 DEF At
    <3>2. Ahead(t) = {} => aliases[a].stamp <= cursor[t]
      BY <1>1, <1>K, <1>R DEF Ahead
    <3> QED
      BY <1>0, <1>1, <1>K, <1>R, <2>1, <3>1, <3>2 DEF ItemOf
  <2> QED
    BY <1>0, <2>1, <2>2 DEF ListOf, ListPcs, Idle
<1>2. ASSUME NEW b \in Ahead(t), ~aborted[t],
             \A a \in Ahead(t) : aliases[b].stamp <= aliases[a].stamp,
             cursor' = [cursor EXCEPT ![t] = aliases[b].stamp], loadAdapter(t, b)
      PROVE  ListOf(t)'
  <2>0. b \in Registered /\ aliases[b].stamp > cursor[t] /\ cursor'[t] = aliases[b].stamp
        /\ target'[t] = b /\ record'[t] = aliases[b]
    BY <1>2, <1>T, <1>R DEF Ahead, loadAdapter
  <2>1. pc'[t] \in {"got", "init", "next"}
    BY <1>0, <1>2, <1>T DEF loadAdapter, Rejects, Goto
  <2>2. ASSUME NEW a \in kept[t] PROVE ItemOf(t, a)'
    <3>1. CASE a # b
      <4>1. ~At(t, a)'
        BY <2>0, <3>1 DEF At
      <4>2. aliases[a].stamp <= cursor[t] => aliases[a].stamp <= cursor'[t]
        BY <1>K, <1>R, <2>0
      <4>3. aliases[a].stamp <= cursor'[t] => aliases[a].stamp <= cursor[t]
        <5> SUFFICES ASSUME aliases[a].stamp <= aliases[b].stamp,
                            ~(aliases[a].stamp <= cursor[t])
                     PROVE  FALSE
          BY <2>0
        <5>1. a \in Ahead(t)
          BY <1>K, <1>R DEF Ahead
        <5>2. aliases[a].stamp = aliases[b].stamp
          BY <1>2, <1>K, <1>R, <2>0, <5>1
        <5> QED
          BY <1>K, <2>0, <3>1, <5>2 DEF Stamped
      <4>4. ~aborted[t] /\ ~aborted'[t]
        BY <1>0, <1>2
      <4> QED
        BY <1>0, <1>K, <1>R, <2>0, <2>1, <4>1, <4>2, <4>3, <4>4 DEF ItemOf
    <3>2. CASE a = b
      <4>1. Occurrences(t, a)' = {} /\ aliases'[a].stamp <= cursor'[t]
        BY <1>0, <1>K, <1>R, <2>0, <3>2
      <4>2. ASSUME Readable(a)'
            PROVE  /\ pc'[t] \in {"got", "init"}
                   /\ pc'[t] = "init" => record'[t] = aliases'[a]
                   /\ pc'[t] = "got" =>
                        /\ made'[adapter'[t]].record = aliases'[a]
                        /\ made'[adapter'[t]].alias = a /\ made'[adapter'[t]].alive
        <5>0. Readable(a) /\ aliases[a].kind # "ledger"
          BY <1>K, <4>2 DEF World, Readable
        <5>1. CASE adapters[a] # 0
          <6>1. /\ pc'[t] = "got" /\ adapter'[t] = adapters[a] /\ made' = made
            BY <1>2, <1>T, <3>2, <5>1 DEF loadAdapter, Goto
          <6>2. made[adapters[a]].alias = a /\ made[adapters[a]].alive
            BY <1>K, <1>R, <5>1 DEF CacheInv, CachedAlive
          <6>3. adapters[a] \notin raced
            BY <5>0, <6>2 DEF Readable
          <6>4. made[adapters[a]].record = aliases[a]
            BY <1>K, <1>R, <5>1, <6>3 DEF CacheInv, CacheMatches
          <6> QED
            BY <1>0, <6>1, <6>2, <6>4
        <5>2. CASE adapters[a] = 0
          BY <1>0, <1>2, <1>T, <2>0, <3>2, <5>0, <5>2 DEF loadAdapter, Goto
        <5> QED
          BY <5>1, <5>2
      <4> QED
        BY <1>0, <1>K, <1>R, <2>0, <2>1, <3>2, <4>1, <4>2 DEF ItemOf, At
    <3> QED
      BY <3>1, <3>2
  <2> QED
    BY <1>0, <2>1, <2>2 DEF ListOf, ListPcs, Idle
<1> QED
  BY <1>1, <1>2 DEF ListNext, Goto

\* A list gets, uses and reads the adapter of the entry it is busy with.
LEMMA ListWorks ==
  ASSUME TypeInv, CacheInv, ListInv, [Next]_vars, NEW t \in Tasks, op[t] = "list",
         InitReturns(t) \/ Use(t) \/ \E b \in BOOLEAN : ReadReturns(t, b)
  PROVE  ListOf(t)'
<1>T. /\ pc \in [Tasks -> PcValues] /\ out \in [Tasks -> Seq(Aliases)]
      /\ aliases \in [Aliases -> Records \cup {NoRecord}]
  BY DEF TypeInv, TypeOK, PcValues
<1>0. /\ UNCHANGED <<aliases, made, op, target, record, adapter, cursor, aborted, kept, raced>>
      /\ pc[t] \in {"init", "got", "reading"} /\ At(t, target[t])
      /\ target[t] \in Aliases /\ adapter[t] \in 1..Len(made)
  BY DEF InitReturns, Use, ReadReturns, At, TypeInv, HoldInv, Holding
<1>R. Registered' = Registered /\ \A a : Readable(a)' = Readable(a)
  BY <1>0 DEF Registered, Readable
<1>1. ASSUME NEW x \in {"next", "got", "reading"}, pc' = [pc EXCEPT ![t] = x],
             \/ out'[t] = out[t]
             \/ pc[t] = "reading" /\ x = "next" /\ out'[t] = Append(out[t], target[t]),
             \A a \in kept[t] : a = target[t] /\ Readable(a) /\ ~aborted[t] =>
               \/ x = "next" /\ out'[t] # out[t]
               \/ x # "next" /\ (pc[t] = "init" => record[t].complete),
             x = "got" => pc[t] = "init", x = "reading" => pc[t] = "got"
      PROVE  ListOf(t)'
  <2>1. pc'[t] = x
    BY <1>1, <1>T
  <2>2. ASSUME NEW a \in kept[t] PROVE ItemOf(t, a)'
    <3>0. ItemOf(t, a)
      BY <1>0 DEF ListInv, ListOf
    <3>1. CASE a # target[t]
      <4>1. ~At(t, a)' /\ ~At(t, a)
        BY <1>0, <3>1 DEF At
      <4>2. Occurrences(t, a)' = Occurrences(t, a)
        <5>1. CASE out'[t] = out[t]
          BY <5>1 DEF Occurrences
        <5>2. CASE out'[t] = Append(out[t], target[t])
          BY <1>T, <3>1, <5>2 DEF Occurrences
        <5> QED
          BY <1>1, <5>1, <5>2
      <4> QED
        BY <1>0, <1>R, <2>1, <3>0, <4>1, <4>2 DEF ItemOf
    <3>2. CASE a = target[t] /\ out'[t] = out[t]
      <4>1. Occurrences(t, a)' = {} /\ aliases[a].stamp <= cursor[t]
            /\ (At(t, a)' <=> x # "next")
        BY <1>0, <1>1, <2>1, <3>0, <3>2 DEF ItemOf, Occurrences, At
      <4>2. ASSUME Readable(a), x # "next"
            PROVE  made[adapter[t]].record = aliases[a] /\ made[adapter[t]].alias = a
                   /\ made[adapter[t]].alive
        <5>1. CASE pc[t] = "init"
          <6>1. record[t] = aliases[a] /\ aliases[a].complete
            BY <1>0, <3>0, <3>2, <4>2, <5>1 DEF ItemOf, Readable
          <6> QED
            BY <3>2, <5>1, <6>1 DEF CacheInv, Fresh
        <5>2. CASE pc[t] # "init"
          BY <1>0, <3>0, <3>2, <4>2, <5>2 DEF ItemOf
        <5> QED
          BY <5>1, <5>2
      <4>3. Readable(a) /\ ~aborted[t] => x # "next"
        BY <1>1, <3>2
      <4>4. x # "init" /\ x # "listed"
        BY <1>1
      <4> QED
        BY <1>0, <1>R, <2>1, <3>0, <3>2, <4>1, <4>2, <4>3, <4>4 DEF ItemOf, At
    <3>3. CASE a = target[t] /\ out'[t] = Append(out[t], target[t]) /\ x = "next"
      <4>1. Occurrences(t, a) = {} /\ aliases[a].stamp <= cursor[t] /\ ~At(t, a)'
        BY <1>0, <2>1, <3>0, <3>3 DEF ItemOf, At
      <4>2. Occurrences(t, a)' = {Len(out[t]) + 1}
        <5>1. /\ out[t] \in Seq(Aliases) /\ Len(out[t]) \in Nat
              /\ \A i \in 1..Len(out[t]) : out[t][i] # a
          BY <1>T, <4>1 DEF Occurrences
        <5>2. /\ Len(out'[t]) = Len(out[t]) + 1 /\ out'[t][Len(out[t]) + 1] = a
              /\ \A i \in 1..Len(out[t]) : out'[t][i] = out[t][i]
          BY <1>0, <3>3, <5>1
        <5>3. \A i \in 1..Len(out[t]) + 1 : i \in 1..Len(out[t]) \/ i = Len(out[t]) + 1
          BY <5>1
        <5>4. Len(out[t]) + 1 \in 1..Len(out'[t])
          BY <5>1, <5>2
        <5> QED
          BY <5>1, <5>2, <5>3, <5>4 DEF Occurrences
      <4> QED
        BY <1>0, <1>R, <2>1, <3>0, <3>3, <4>1, <4>2 DEF ItemOf
    <3> QED
      BY <1>1, <3>1, <3>2, <3>3
  <2>3. x \in ListPcs /\ x # Idle
    BY DEF ListPcs, Idle
  <2> QED
    BY <1>0, <2>1, <2>2, <2>3 DEF ListInv, ListOf
<1>2. CASE InitReturns(t)
  <2>1. pc[t] = "init" /\ out'[t] = out[t]
    BY <1>2 DEF InitReturns
  <2>2. ASSUME NEW a \in kept[t], a = target[t], Readable(a) PROVE record[t].complete
    BY <1>0, <2>1, <2>2 DEF ListInv, ListOf, ItemOf, At, Readable
  <2>3. pc' = [pc EXCEPT ![t] = IF record[t].complete THEN "got" ELSE "next"]
    BY <1>2 DEF InitReturns, Rejects, Goto
  <2> QED
    BY <1>1, <2>1, <2>2, <2>3
<1>3. CASE Use(t)
  <2>1. pc[t] = "got" /\ out'[t] = out[t]
    BY <1>3 DEF Use
  <2>2. pc' = [pc EXCEPT ![t] = IF made[adapter[t]].alive /\ ~aborted[t]
                                THEN "reading" ELSE "next"]
    BY <1>3 DEF Use, Rejects, Goto
  <2>3. ASSUME NEW a \in kept[t], a = target[t], Readable(a) PROVE made[adapter[t]].alive
    BY <1>0, <2>1, <2>3 DEF ListInv, ListOf, ItemOf
  <2> QED
    BY <1>1, <2>1, <2>2, <2>3
<1>4. ASSUME NEW b \in BOOLEAN, ReadReturns(t, b) PROVE ListOf(t)'
  <2>1. pc[t] = "reading" /\ pc' = [pc EXCEPT ![t] = "next"]
    BY <1>4 DEF ReadReturns, Goto
  <2>2. out'[t] = (IF b THEN Append(out[t], target[t]) ELSE out[t])
    BY <1>4, <1>T DEF ReadReturns
  <2>3. ASSUME NEW a \in kept[t], a = target[t], Readable(a) PROVE b
    BY <1>0, <1>4, <2>1, <2>3 DEF ReadReturns, ListInv, ListOf, ItemOf, Readable
  <2>4. Append(out[t], target[t]) # out[t]
    BY <1>0, <1>T
  <2> QED
    BY <1>1, <2>1, <2>2, <2>3, <2>4
<1> QED
  BY <1>2, <1>3, <1>4

LEMMA ListStep ==
  TypeInv /\ CacheInv /\ OnceInv /\ ListInv /\ [Next]_vars => ListInv'
<1> SUFFICES ASSUME TypeInv, CacheInv, OnceInv, ListInv, [Next]_vars PROVE ListInv'
  OBVIOUS
<1>T. /\ pc \in [Tasks -> PcValues] /\ aliases \in [Aliases -> Records \cup {NoRecord}]
      /\ DOMAIN op = Tasks /\ DOMAIN target = Tasks /\ DOMAIN record = Tasks
      /\ DOMAIN adapter = Tasks /\ DOMAIN cursor = Tasks /\ DOMAIN out = Tasks
      /\ DOMAIN kept = Tasks /\ DOMAIN aborted = Tasks
  BY DEF TypeInv, TypeOK, PcValues
<1>K. \A t \in Tasks : kept[t] \subseteq Registered
  BY DEF ListInv, ListOf, ItemOf
<1>1. ASSUME UNCHANGED taskVars, \A t \in Tasks : aborted[t] => aborted'[t],
             \A t \in Tasks : kept'[t] \subseteq kept[t] /\ kept'[t] \subseteq Registered'
      PROVE  ListInv'
  <2> SUFFICES ASSUME NEW t \in Tasks PROVE ListOf(t)'
    BY DEF ListInv
  <2>1. /\ pc'[t] = pc[t] /\ op'[t] = op[t] /\ target'[t] = target[t]
        /\ record'[t] = record[t] /\ adapter'[t] = adapter[t] /\ cursor'[t] = cursor[t]
        /\ out'[t] = out[t]
    BY <1>1 DEF taskVars
  <2> QED
    BY <1>1, <2>1, ListStays
<1>2. ASSUME NEW a \in Aliases, Remove(a) PROVE ListInv'
  <2>1. Registered \ {a} \subseteq Registered'
    BY <1>2, <1>T DEF Remove, Registered
  <2> QED
    BY <1>1, <1>2, <1>K, <2>1 DEF Remove
<1>3. ASSUME NEW a \in Aliases, NEW k \in Kinds, NEW c \in BOOLEAN, Add(a, k, c)
      PROVE  ListInv'
  <2>1. Registered \subseteq Registered'
    BY <1>3, <1>T DEF Add, Registered
  <2> QED
    BY <1>1, <1>3, <1>K, <2>1 DEF Add
<1>4. CASE UNCHANGED vars \/ \E t \in Tasks : Abort(t)
  <2>1. UNCHANGED <<aliases, kept, taskVars>>
    BY <1>4 DEF Abort, vars
  <2>2. \A t \in Tasks : aborted[t] => aborted'[t]
    BY <1>4, <1>T DEF Abort, vars
  <2>3. Registered' = Registered
    BY <2>1 DEF Registered
  <2> QED
    BY <1>1, <1>K, <2>1, <2>2, <2>3
<1>5. ASSUME NEW t \in Tasks, Step(t) \/ List(t) \/ \E a \in Aliases : Sign(t, a)
      PROVE  ListInv'
  <2>1. /\ UNCHANGED <<aliases, aborted>>
        /\ \A u \in Tasks \ {t} :
             /\ pc'[u] = pc[u] /\ op'[u] = op[u] /\ target'[u] = target[u]
             /\ record'[u] = record[u] /\ adapter'[u] = adapter[u]
             /\ cursor'[u] = cursor[u] /\ out'[u] = out[u] /\ kept'[u] = kept[u]
    <3>1. CASE List(t) \/ ListNext(t) \/ \E a \in Aliases : Sign(t, a)
      <4>1. CASE List(t)
        BY <1>T, <4>1 DEF List, Goto
      <4>2. ASSUME NEW a \in Aliases, loadAdapter(t, a)
            PROVE  \A u \in Tasks \ {t} :
                     /\ pc'[u] = pc[u] /\ target'[u] = target[u]
                     /\ record'[u] = record[u] /\ adapter'[u] = adapter[u]
        BY <1>T, <4>2 DEF loadAdapter, Rejects, Goto
      <4>3. CASE ListNext(t)
        <5>1. /\ UNCHANGED <<aliases, aborted, op, out, kept>>
              /\ \A u \in Tasks \ {t} : cursor'[u] = cursor[u]
          BY <1>T, <4>3 DEF ListNext
        <5>2. \A u \in Tasks \ {t} :
                     /\ pc'[u] = pc[u] /\ target'[u] = target[u]
                     /\ record'[u] = record[u] /\ adapter'[u] = adapter[u]
          <6>1. CASE \E a \in Aliases : loadAdapter(t, a)
            BY <4>2, <6>1
          <6>2. CASE ~\E a \in Aliases : loadAdapter(t, a)
            BY <1>T, <4>3, <6>2 DEF ListNext, Ahead, Registered, Goto
          <6> QED
            BY <6>1, <6>2
        <5> QED
          BY <5>1, <5>2
      <4>4. ASSUME NEW a \in Aliases, Sign(t, a)
            PROVE  /\ UNCHANGED <<aliases, aborted>>
                   /\ \A u \in Tasks \ {t} :
                        /\ pc'[u] = pc[u] /\ op'[u] = op[u] /\ target'[u] = target[u]
                        /\ record'[u] = record[u] /\ adapter'[u] = adapter[u]
                        /\ cursor'[u] = cursor[u] /\ out'[u] = out[u]
                        /\ kept'[u] = kept[u]
        <5>1. /\ UNCHANGED <<aliases, aborted, cursor, out, kept>>
              /\ \A u \in Tasks \ {t} : op'[u] = op[u]
          BY <1>T, <4>4 DEF Sign
        <5>2. CASE loadAdapter(t, a)
          BY <4>2, <5>1, <5>2
        <5>3. CASE ~loadAdapter(t, a)
          BY <1>T, <4>4, <5>1, <5>3 DEF Sign, Goto
        <5> QED
          BY <5>2, <5>3
      <4> QED
        BY <3>1, <4>1, <4>3, <4>4
    <3>2. CASE InitReturns(t) \/ Use(t)
      BY <1>T, <3>2 DEF InitReturns, Use, signWithKeyBytes, Rejects, Goto
    <3>3. CASE ~(List(t) \/ ListNext(t) \/ InitReturns(t) \/ Use(t)
                 \/ \E a \in Aliases : Sign(t, a))
      BY <1>5, <1>T, <3>3 DEF Step, ReadReturns, KeystoreReturns, KeyArrives, KeyMissing,
           SignatureReturns, AuditReturns, signWithKeyBytes, Goto
    <3> QED
      BY <3>1, <3>2, <3>3
  <2>2. Registered' = Registered
    BY <2>1 DEF Registered
  <2>3. ASSUME NEW u \in Tasks \ {t} PROVE ListOf(u)'
    BY <1>K, <2>1, <2>2, ListStays
  <2>4. ListOf(t)'
    <3>0. ListOf(t)
      BY DEF ListInv
    <3>1. ASSUME NEW a \in Aliases, Sign(t, a) PROVE ListOf(t)'
      <4>1. op'[t] = "sign" /\ kept'[t] = {}
        BY <1>T, <3>0, <3>1 DEF Sign, ListOf
      <4>2. pc'[t] # Idle
        BY <1>T, <3>1 DEF Sign, loadAdapter, Rejects, Goto, Idle
      <4> QED
        BY <4>1, <4>2, SignMoves
    <3>2. CASE List(t)
      <4>1. /\ op'[t] = "list" /\ pc'[t] = "next" /\ kept'[t] = Registered
            /\ cursor'[t] = 0 /\ out'[t] = <<>>
        BY <1>T, <3>0, <3>2 DEF List, Goto, ListOf
      <4>2. ASSUME NEW a \in Registered PROVE ItemOf(t, a)'
        <5>1. aliases'[a].stamp >= 1 /\ aliases'[a].stamp \in Nat
          BY <1>T, <2>1 DEF Registered, Records
        <5>2. Occurrences(t, a)' = {} /\ ~At(t, a)'
          BY <4>1 DEF Occurrences, At
        <5> QED
          BY <2>2, <4>1, <5>1, <5>2 DEF ItemOf
      <4> QED
        BY <4>1, <4>2 DEF ListOf, ListPcs, Idle
    <3>3. CASE Step(t) /\ op[t] = "list"
      <4>1. pc[t] \in ListPcs
        BY <3>0, <3>3 DEF ListOf
      <4>2. \/ ListNext(t) \/ InitReturns(t) \/ Use(t)
            \/ \E b \in BOOLEAN : ReadReturns(t, b)
        BY <3>3, <4>1 DEF Step, ListPcs, KeystoreReturns, KeyArrives, KeyMissing,
                          SignatureReturns, AuditReturns
      <4> QED
        BY <3>3, <4>2, ListNextItem, ListWorks DEF OnceInv
    <3>4. CASE Step(t) /\ op[t] # "list"
      <4>1. op' = op /\ kept' = kept
        BY <3>4 DEF Step, ListNext, InitReturns, Use, ReadReturns, KeystoreReturns,
                    KeyArrives, KeyMissing, SignatureReturns, AuditReturns
      <4>2. pc'[t] # Idle
        BY <1>T, <3>4 DEF Step, ListNext, InitReturns, Use, ReadReturns, KeystoreReturns,
                    KeyArrives, KeyMissing, SignatureReturns, AuditReturns, loadAdapter,
                    signWithKeyBytes, Rejects, Goto, Idle
      <4> QED
        BY <3>0, <3>4, <4>1, <4>2, SignMoves DEF ListOf
    <3> QED
      BY <1>5, <3>1, <3>2, <3>3, <3>4
  <2> QED
    BY <2>3, <2>4 DEF ListInv
<1> QED
  BY <1>2, <1>3, <1>4, <1>5 DEF Next

\* A list reports an alias that was registered all the while at most once, and exactly
\* once if its read cannot fail and no earlier registration's adapter stands in for it,
\* whatever is added or removed behind the iterator (registry.ts).
THEOREM ListsExactly == Spec => []ListExact
<1>1. ListInv => ListExact
  <2> SUFFICES ASSUME ListInv, NEW t \in Tasks, pc[t] = "listed", NEW a \in kept[t]
               PROVE  /\ Cardinality(Occurrences(t, a)) <= 1
                      /\ Readable(a) =>
                           Occurrences(t, a) # {} \/ (aborted[t] /\ target[t] = a)
    BY DEF ListExact
  <2>1. ItemOf(t, a)
    BY DEF ListInv, ListOf
  <2>2. CASE Occurrences(t, a) = {}
    BY <2>1, <2>2, FS_EmptySet DEF ItemOf, At
  <2>3. ASSUME NEW i, i \in Occurrences(t, a)
        PROVE  Cardinality(Occurrences(t, a)) <= 1 /\ Occurrences(t, a) # {}
    <3>1. Occurrences(t, a) = {i}
      BY <2>1, <2>3 DEF ItemOf
    <3> QED
      BY <3>1, FS_Singleton
  <2> QED
    BY <2>2, <2>3
<1> QED
  BY <1>1, TypeInit, TypeStep, CacheInit, CacheStep, OnceInit, OnceStep, ListInit,
     ListStep, PTL DEF Spec

=============================================================================
