-------------------------- MODULE TxPipelineProofs --------------------------
(***************************************************************************)
(* Proofs about TxPipeline for every set of calls, keys and options, every *)
(* bound on the send loops and every environment the constants allow.      *)
(***************************************************************************)
EXTENDS TxOncePerKey, TLAPS

USE OptionsAssumption, SimulationsAssumption, FlagsAssumption, AbortAssumption,
    LoopAssumption, BoundsAssumption

-----------------------------------------------------------------------------
(* Facts about the helpers the actions share. *)

\* What Event and EventOf build are events.
LEMMA EventType ==
  /\ \A kind \in EventKinds : Event(kind) \in Events
  /\ \A kind \in EventKinds, s \in Signatures : EventOf(kind, s) \in Events
  BY DEF Event, EventOf, Events

\* Every batch of events a handler emits is a sequence of events.
LEMMA BatchType ==
  /\ <<Event("tx.build")>> \in Seq(Events)
  /\ <<Event("tx.build")>> \o Rejected \in Seq(Events)
  /\ <<Event("tx.simulate")>> \in Seq(Events)
  /\ <<Event("tx.simulate")>> \o Failed \in Seq(Events)
  /\ <<Event("tx.fee.estimated"), Event("intent.emitted")>> \in Seq(Events)
  /\ <<Event("tx.fee.estimated")>> \o Rejected \in Seq(Events)
  /\ Failed \in Seq(Events)
  /\ \A kind \in EventKinds, s \in Signatures : <<EventOf(kind, s)>> \in
       Seq(Events)
<1>1. /\ Event("tx.build") \in Events /\ Event("tx.simulate") \in Events
      /\ Event("tx.fee.estimated") \in Events /\ Event("intent.emitted") \in
           Events
      /\ Event("tx.failed") \in Events /\ Event("safety.gate.rejected") \in
           Events
  BY EventType DEF EventKinds
<1>2. Rejected \in Seq(Events) /\ Failed \in Seq(Events)
  BY <1>1 DEF Rejected, Failed
<1> QED
  BY <1>1, <1>2, EventType

\* Appending events to one log keeps all logs sequences of events.
LEMMA EmitType ==
  ASSUME log \in [Requests -> Seq(Events)], NEW r \in Requests,
         NEW events \in Seq(Events), Emit(r, events)
  PROVE  log' \in [Requests -> Seq(Events)]
<1>1. log[r] \o events \in Seq(Events)
  OBVIOUS
<1> QED
  BY <1>1 DEF Emit

\* Successes, failures and replayed cache entries are results.
LEMMA ResultType ==
  /\ \A s \in Signatures : Ok(s) \in Results
  /\ \A c \in Codes : Err(c) \in Results
  /\ \A c \in Results \cup {NoResult} : c # NoResult => deserializeResult(c)
       \in Results
  BY DEF Results, deserializeResult, Codes

\* Submitting a signature keeps what is afloat a set of signatures.
LEMMA AfloatType ==
  ASSUME afloat \in [Requests -> SUBSET Signatures], NEW r \in Requests,
         NEW s \in Signatures,
         afloat' = afloat \/ afloat' = [afloat EXCEPT ![r] = @ \cup {s}]
  PROVE  afloat' \in [Requests -> SUBSET Signatures]
<1>1. afloat[r] \cup {s} \in SUBSET Signatures
  OBVIOUS
<1> QED
  BY <1>1

\* What a call signs is a signature.
LEMMA SignType ==
  ASSUME TypeOK, NEW r \in Requests, pc[r] # "idle"
  PROVE  Sign(r) \in Signatures
  BY DEF TypeOK, Sign, Signatures

-----------------------------------------------------------------------------
(* Type correctness, with the loop conditions that keep the counters bounded. *)

\* Where a call has not signed, its attempt counter is untouched; a refresh
\* follows an attempt that was not the last, a sleep a try that was not the last.
LoopOK ==
  \A r \in Requests :
    /\ pc[r] \in {"idle", "begin", "simulating", "pricing", "signing"} =>
         attempt[r] = 0
    /\ pc[r] \in {"refreshing", "resigning"} => attempt[r] < MAX_SEND_ATTEMPTS
    /\ pc[r] = "backoff" => tries[r] < maxAttempts

TypeInv == TypeOK /\ LoopOK
PcTypes == {"idle"} \cup Awaiting \cup Ended

\* The types and the loop conditions hold initially.
LEMMA TypeInit == Init => TypeInv
  BY DEF Init, TypeInv, TypeOK, LoopOK, Awaiting, Ended, Submitted

\* Begin keeps the types and the loop conditions.
LEMMA BeginType ==
  ASSUME TypeInv, NEW r \in Requests, Begin(r)
  PROVE  TypeInv'
<1>1. PICK x \in {"thrown", "simulating", "storing"} : pc' = [pc EXCEPT ![r] =
     x]
  BY DEF Begin, Settle, Goto
<1>2. result' \in [Requests -> Results \cup {NoResult}]
  BY ResultType DEF TypeInv, TypeOK, Begin, Settle, Codes
<1>3. log' \in [Requests -> Seq(Events)]
  BY BatchType, EmitType DEF TypeInv, TypeOK, Begin, Settle, EventKinds
<1>4. pc[r] = "begin"
  BY DEF Begin
<1>5. UNCHANGED <<opts, plan, simulation, signed, attempt, tries, replayed,
     abort, cache, tip, afloat, landed, reverted, submits, restarts>>
  BY DEF Begin, netVars
<1>6. TypeOK'
  BY <1>1, <1>2, <1>3, <1>4, <1>5 DEF TypeInv, TypeOK, LoopOK, Awaiting, Ended,
       Submitted
<1>7. LoopOK'
  BY <1>1, <1>2, <1>3, <1>4, <1>5 DEF TypeInv, TypeOK, LoopOK
<1> QED
  BY <1>6, <1>7 DEF TypeInv

\* SimulateReturns keeps the types and the loop conditions.
LEMMA SimulateReturnsType ==
  ASSUME TypeInv, NEW r \in Requests, NEW sim \in Simulations,
       SimulateReturns(r, sim)
  PROVE  TypeInv'
<1>1. PICK x \in {"thrown", "pricing", "storing"} : pc' = [pc EXCEPT ![r] = x]
  BY DEF SimulateReturns, Settle, Enter, Goto
<1>2. simulation' \in [Requests -> Simulations \cup {NoSimulation}]
  BY DEF TypeInv, TypeOK, SimulateReturns, Settle, Enter
<1>3. result' \in [Requests -> Results \cup {NoResult}]
  BY ResultType DEF TypeInv, TypeOK, SimulateReturns, Settle, Enter, Codes
<1>4. log' \in [Requests -> Seq(Events)]
  BY BatchType, EmitType DEF TypeInv, TypeOK, SimulateReturns, Settle, Enter,
       EventKinds
<1>5. pc[r] = "simulating"
  BY DEF SimulateReturns
<1>6. UNCHANGED <<opts, plan, signed, attempt, tries, replayed, abort, cache,
     tip, afloat, landed, reverted, submits, restarts>>
  BY DEF SimulateReturns, netVars
<1>7. TypeOK'
  BY <1>1, <1>2, <1>3, <1>4, <1>5, <1>6 DEF TypeInv, TypeOK, LoopOK, Awaiting,
       Ended, Submitted
<1>8. LoopOK'
  BY <1>1, <1>2, <1>3, <1>4, <1>5, <1>6 DEF TypeInv, TypeOK, LoopOK
<1> QED
  BY <1>7, <1>8 DEF TypeInv

\* FeeReturns keeps the types and the loop conditions.
LEMMA FeeReturnsType ==
  ASSUME TypeInv, NEW r \in Requests, FeeReturns(r)
  PROVE  TypeInv'
<1>1. PICK x \in {"thrown", "signing", "storing"} : pc' = [pc EXCEPT ![r] = x]
  BY DEF FeeReturns, Settle, Enter, Goto
<1>2. result' \in [Requests -> Results \cup {NoResult}]
  BY ResultType DEF TypeInv, TypeOK, FeeReturns, Settle, Enter, Codes
<1>3. log' \in [Requests -> Seq(Events)]
  BY BatchType, EmitType DEF TypeInv, TypeOK, FeeReturns, Settle, Enter,
       EventKinds
<1>4. pc[r] = "pricing"
  BY DEF FeeReturns
<1>5. UNCHANGED <<opts, plan, simulation, signed, attempt, tries, replayed,
     abort, cache, tip, afloat, landed, reverted, submits, restarts>>
  BY DEF FeeReturns, netVars
<1>6. TypeOK'
  BY <1>1, <1>2, <1>3, <1>4, <1>5 DEF TypeInv, TypeOK, LoopOK, Awaiting, Ended,
       Submitted
<1>7. LoopOK'
  BY <1>1, <1>2, <1>3, <1>4, <1>5 DEF TypeInv, TypeOK, LoopOK
<1> QED
  BY <1>6, <1>7 DEF TypeInv

\* PortRaises keeps the types and the loop conditions.
LEMMA PortRaisesType ==
  ASSUME TypeInv, NEW r \in Requests, PortRaises(r)
  PROVE  TypeInv'
<1>1. PICK x \in {"thrown"} : pc' = [pc EXCEPT ![r] = x]
  BY DEF PortRaises, Goto
<1>2. pc[r] # "idle"
  BY DEF PortRaises
<1>3. UNCHANGED <<opts, plan, simulation, signed, attempt, tries, result,
     replayed, log, abort, cache, tip, afloat, landed, reverted, submits,
     restarts>>
  BY DEF PortRaises, netVars
<1>4. TypeOK'
  BY <1>1, <1>2, <1>3 DEF TypeInv, TypeOK, LoopOK, Awaiting, Ended, Submitted
<1>5. LoopOK'
  BY <1>1, <1>2, <1>3 DEF TypeInv, TypeOK, LoopOK
<1> QED
  BY <1>4, <1>5 DEF TypeInv

\* SignReturns keeps the types and the loop conditions.
LEMMA SignReturnsType ==
  ASSUME TypeInv, NEW r \in Requests, SignReturns(r)
  PROVE  TypeInv'
<1>1. PICK x \in {"thrown", "sending"} : pc' = [pc EXCEPT ![r] = x]
  BY DEF SignReturns, SubmitSigned, Submit, Goto
<1>2. Sign(r) \in Signatures
  BY SignType DEF TypeInv, SignReturns
<1>3. signed' = [signed EXCEPT ![r] = Sign(r)]
  BY DEF SignReturns, SubmitSigned, Submit
<1>4. signed' \in [Requests -> Signatures \cup {NoSignature}]
  BY <1>2, <1>3 DEF TypeInv, TypeOK
<1>5. \A q \in Requests : signed'[q] = IF q = r THEN Sign(r) ELSE signed[q]
  BY <1>3 DEF TypeInv, TypeOK
<1>6. attempt' = [attempt EXCEPT ![r] = @ + 1]
  BY DEF SignReturns, SubmitSigned, Submit
<1>7. attempt' \in [Requests -> 0..MAX_SEND_ATTEMPTS]
  BY <1>6 DEF TypeInv, TypeOK, LoopOK, SignReturns
<1>8. tries' = [tries EXCEPT ![r] = 1]
  BY DEF SignReturns, SubmitSigned, Submit
<1>9. tries' \in [Requests -> 0..maxAttempts]
  BY <1>8 DEF TypeInv, TypeOK, LoopOK, SignReturns
<1>10. log' \in [Requests -> Seq(Events)]
  BY BatchType, EmitType, <1>2 DEF TypeInv, TypeOK, SignReturns, SubmitSigned,
       Submit, EventKinds
<1>11. afloat' = afloat \/ afloat' = [afloat EXCEPT ![r] = @ \cup {Sign(r)}]
  BY DEF SignReturns, SubmitSigned, Submit
<1>12. afloat' \in [Requests -> SUBSET Signatures]
  BY <1>2, <1>11, AfloatType DEF TypeInv, TypeOK
<1>13. submits' \in [Requests -> Nat]
  BY DEF TypeInv, TypeOK, SignReturns, SubmitSigned, Submit, Submit
<1>14. pc[r] = "signing"
  BY DEF SignReturns
<1>15. UNCHANGED <<opts, plan, simulation, result, replayed, abort, cache, tip,
     landed, reverted, restarts>>
  BY DEF SignReturns, netVars, SubmitSigned
<1>16. TypeOK'
  BY <1>1, <1>2, <1>3, <1>4, <1>5, <1>6, <1>7, <1>8, <1>9, <1>10, <1>11, <1>12,
       <1>13, <1>14, <1>15 DEF TypeInv, TypeOK, LoopOK, Awaiting, Ended,
       Submitted
<1>17. LoopOK'
  BY <1>1, <1>2, <1>3, <1>4, <1>5, <1>6, <1>7, <1>8, <1>9, <1>10, <1>11, <1>12,
       <1>13, <1>14, <1>15 DEF TypeInv, TypeOK, LoopOK
<1> QED
  BY <1>16, <1>17 DEF TypeInv

\* SendAccepted keeps the types and the loop conditions.
LEMMA SendAcceptedType ==
  ASSUME TypeInv, NEW r \in Requests, SendAccepted(r)
  PROVE  TypeInv'
<1>1. PICK x \in {"thrown", "confirming"} : pc' = [pc EXCEPT ![r] = x]
  BY DEF SendAccepted, Enter, Goto
<1>2. signed[r] \in Signatures
  BY DEF TypeInv, TypeOK, SendAccepted, Submitted
<1>3. log' \in [Requests -> Seq(Events)]
  BY BatchType, EmitType, <1>2 DEF TypeInv, TypeOK, SendAccepted, Enter,
       EventKinds
<1>4. pc[r] = "sending"
  BY DEF SendAccepted
<1>5. UNCHANGED <<opts, plan, simulation, signed, attempt, tries, result,
     replayed, abort, cache, tip, afloat, landed, reverted, submits, restarts>>
  BY DEF SendAccepted, netVars
<1>6. TypeOK'
  BY <1>1, <1>2, <1>3, <1>4, <1>5 DEF TypeInv, TypeOK, LoopOK, Awaiting, Ended,
       Submitted
<1>7. LoopOK'
  BY <1>1, <1>2, <1>3, <1>4, <1>5 DEF TypeInv, TypeOK, LoopOK
<1> QED
  BY <1>6, <1>7 DEF TypeInv

\* SendRateLimited keeps the types and the loop conditions.
LEMMA SendRateLimitedType ==
  ASSUME TypeInv, NEW r \in Requests, SendRateLimited(r)
  PROVE  TypeInv'
<1>1. PICK x \in {"thrown", "storing", "backoff"} : pc' = [pc EXCEPT ![r] = x]
  BY DEF SendRateLimited, Settle, AbortSurfaces, Goto
<1>2. result' \in [Requests -> Results \cup {NoResult}]
  BY ResultType DEF TypeInv, TypeOK, SendRateLimited, Settle, AbortSurfaces,
       Codes
<1>3. log' \in [Requests -> Seq(Events)]
  BY BatchType, EmitType DEF TypeInv, TypeOK, SendRateLimited, Settle,
       AbortSurfaces, EventKinds
<1>4. afloat' \in [Requests -> SUBSET Signatures]
  BY DEF TypeInv, TypeOK, SendRateLimited, Settle, AbortSurfaces, Refused,
       Submit
<1>5. x = "backoff" => tries[r] < maxAttempts
  BY <1>1 DEF TypeInv, TypeOK, SendRateLimited, Settle, AbortSurfaces, Goto
<1>6. pc[r] = "sending"
  BY DEF SendRateLimited
<1>7. UNCHANGED <<opts, plan, simulation, signed, attempt, tries, replayed,
     abort, cache, tip, landed, reverted, submits, restarts>>
  BY DEF SendRateLimited, netVars
<1>8. TypeOK'
  BY <1>1, <1>2, <1>3, <1>4, <1>5, <1>6, <1>7 DEF TypeInv, TypeOK, LoopOK,
       Awaiting, Ended, Submitted
<1>9. LoopOK'
  BY <1>1, <1>2, <1>3, <1>4, <1>5, <1>6, <1>7 DEF TypeInv, TypeOK, LoopOK
<1> QED
  BY <1>8, <1>9 DEF TypeInv

\* BackoffElapses keeps the types and the loop conditions.
LEMMA BackoffElapsesType ==
  ASSUME TypeInv, NEW r \in Requests, BackoffElapses(r)
  PROVE  TypeInv'
<1>1. PICK x \in {"sending"} : pc' = [pc EXCEPT ![r] = x]
  BY DEF BackoffElapses, Submit, Goto
<1>2. signed[r] \in Signatures
  BY DEF TypeInv, TypeOK, BackoffElapses, Submitted
<1>3. tries' = [tries EXCEPT ![r] = @ + 1]
  BY DEF BackoffElapses, Submit
<1>4. tries' \in [Requests -> 0..maxAttempts]
  BY <1>3 DEF TypeInv, TypeOK, LoopOK, BackoffElapses
<1>5. afloat' \in [Requests -> SUBSET Signatures]
  BY <1>2 DEF TypeInv, TypeOK, BackoffElapses, Submit, Refused, Submit
<1>6. submits' \in [Requests -> Nat]
  BY DEF TypeInv, TypeOK, BackoffElapses, Submit, Submit
<1>7. pc[r] = "backoff"
  BY DEF BackoffElapses
<1>8. UNCHANGED <<opts, plan, simulation, signed, attempt, result, replayed,
     log, abort, cache, tip, landed, reverted, restarts>>
  BY DEF BackoffElapses, netVars
<1>9. TypeOK'
  BY <1>1, <1>2, <1>3, <1>4, <1>5, <1>6, <1>7, <1>8 DEF TypeInv, TypeOK,
       LoopOK, Awaiting, Ended, Submitted
<1>10. LoopOK'
  BY <1>1, <1>2, <1>3, <1>4, <1>5, <1>6, <1>7, <1>8 DEF TypeInv, TypeOK, LoopOK
<1> QED
  BY <1>9, <1>10 DEF TypeInv

\* BackoffInterrupted keeps the types and the loop conditions.
LEMMA BackoffInterruptedType ==
  ASSUME TypeInv, NEW r \in Requests, BackoffInterrupted(r)
  PROVE  TypeInv'
<1>1. PICK x \in {"thrown", "storing"} : pc' = [pc EXCEPT ![r] = x]
  BY DEF BackoffInterrupted, Settle, AbortSurfaces, Goto
<1>2. result' \in [Requests -> Results \cup {NoResult}]
  BY ResultType DEF TypeInv, TypeOK, BackoffInterrupted, Settle, AbortSurfaces,
       Codes
<1>3. log' \in [Requests -> Seq(Events)]
  BY BatchType, EmitType DEF TypeInv, TypeOK, BackoffInterrupted, Settle,
       AbortSurfaces, EventKinds
<1>4. pc[r] = "backoff"
  BY DEF BackoffInterrupted
<1>5. UNCHANGED <<opts, plan, simulation, signed, attempt, tries, replayed,
     abort, cache, tip, afloat, landed, reverted, submits, restarts>>
  BY DEF BackoffInterrupted, netVars
<1>6. TypeOK'
  BY <1>1, <1>2, <1>3, <1>4, <1>5 DEF TypeInv, TypeOK, LoopOK, Awaiting, Ended,
       Submitted
<1>7. LoopOK'
  BY <1>1, <1>2, <1>3, <1>4, <1>5 DEF TypeInv, TypeOK, LoopOK
<1> QED
  BY <1>6, <1>7 DEF TypeInv

\* SendExpired keeps the types and the loop conditions.
LEMMA SendExpiredType ==
  ASSUME TypeInv, NEW r \in Requests, SendExpired(r)
  PROVE  TypeInv'
<1>1. PICK x \in {"storing", "refreshing"} : pc' = [pc EXCEPT ![r] = x]
  BY DEF SendExpired, Settle, Expire, Goto
<1>2. result' \in [Requests -> Results \cup {NoResult}]
  BY ResultType DEF TypeInv, TypeOK, SendExpired, Settle, Expire, Codes
<1>3. log' \in [Requests -> Seq(Events)]
  BY BatchType, EmitType DEF TypeInv, TypeOK, SendExpired, Settle, Expire,
       EventKinds
<1>4. afloat' \in [Requests -> SUBSET Signatures]
  BY DEF TypeInv, TypeOK, SendExpired, Settle, Expire, Refused, Submit
<1>5. x = "refreshing" => attempt[r] < MAX_SEND_ATTEMPTS
  BY <1>1 DEF TypeInv, TypeOK, SendExpired, Expire, Settle, Goto
<1>6. pc[r] = "sending"
  BY DEF SendExpired
<1>7. UNCHANGED <<opts, plan, simulation, signed, attempt, tries, replayed,
     abort, cache, tip, landed, reverted, submits, restarts>>
  BY DEF SendExpired, netVars, Expire
<1>8. TypeOK'
  BY <1>1, <1>2, <1>3, <1>4, <1>5, <1>6, <1>7 DEF TypeInv, TypeOK, LoopOK,
       Awaiting, Ended, Submitted
<1>9. LoopOK'
  BY <1>1, <1>2, <1>3, <1>4, <1>5, <1>6, <1>7 DEF TypeInv, TypeOK, LoopOK
<1> QED
  BY <1>8, <1>9 DEF TypeInv

\* BundleUnsigned keeps the types and the loop conditions.
LEMMA BundleUnsignedType ==
  ASSUME TypeInv, NEW r \in Requests, BundleUnsigned(r)
  PROVE  TypeInv'
<1>1. PICK x \in {"storing", "refreshing"} : pc' = [pc EXCEPT ![r] = x]
  BY DEF BundleUnsigned, Settle, Expire, Goto
<1>2. result' \in [Requests -> Results \cup {NoResult}]
  BY ResultType DEF TypeInv, TypeOK, BundleUnsigned, Settle, Expire, Codes
<1>3. log' \in [Requests -> Seq(Events)]
  BY BatchType, EmitType DEF TypeInv, TypeOK, BundleUnsigned, Settle, Expire,
       EventKinds
<1>4. x = "refreshing" => attempt[r] < MAX_SEND_ATTEMPTS
  BY <1>1 DEF TypeInv, TypeOK, BundleUnsigned, Expire, Settle, Goto
<1>5. pc[r] = "sending"
  BY DEF BundleUnsigned
<1>6. UNCHANGED <<opts, plan, simulation, signed, attempt, tries, replayed,
     abort, cache, tip, afloat, landed, reverted, submits, restarts>>
  BY DEF BundleUnsigned, netVars, Expire
<1>7. TypeOK'
  BY <1>1, <1>2, <1>3, <1>4, <1>5, <1>6 DEF TypeInv, TypeOK, LoopOK, Awaiting,
       Ended, Submitted
<1>8. LoopOK'
  BY <1>1, <1>2, <1>3, <1>4, <1>5, <1>6 DEF TypeInv, TypeOK, LoopOK
<1> QED
  BY <1>7, <1>8 DEF TypeInv

\* SendFails keeps the types and the loop conditions.
LEMMA SendFailsType ==
  ASSUME TypeInv, NEW r \in Requests, SendFails(r)
  PROVE  TypeInv'
<1>1. PICK x \in {"storing"} : pc' = [pc EXCEPT ![r] = x]
  BY DEF SendFails, Settle, Goto
<1>2. result' \in [Requests -> Results \cup {NoResult}]
  BY ResultType DEF TypeInv, TypeOK, SendFails, Settle, Codes
<1>3. log' \in [Requests -> Seq(Events)]
  BY BatchType, EmitType DEF TypeInv, TypeOK, SendFails, Settle, EventKinds
<1>4. pc[r] = "sending"
  BY DEF SendFails
<1>5. UNCHANGED <<opts, plan, simulation, signed, attempt, tries, replayed,
     abort, cache, tip, afloat, landed, reverted, submits, restarts>>
  BY DEF SendFails, netVars
<1>6. TypeOK'
  BY <1>1, <1>2, <1>3, <1>4, <1>5 DEF TypeInv, TypeOK, LoopOK, Awaiting, Ended,
       Submitted
<1>7. LoopOK'
  BY <1>1, <1>2, <1>3, <1>4, <1>5 DEF TypeInv, TypeOK, LoopOK
<1> QED
  BY <1>6, <1>7 DEF TypeInv

\* SendInterrupted keeps the types and the loop conditions.
LEMMA SendInterruptedType ==
  ASSUME TypeInv, NEW r \in Requests, SendInterrupted(r)
  PROVE  TypeInv'
<1>1. PICK x \in {"thrown", "storing"} : pc' = [pc EXCEPT ![r] = x]
  BY DEF SendInterrupted, Settle, AbortSurfaces, Goto
<1>2. result' \in [Requests -> Results \cup {NoResult}]
  BY ResultType DEF TypeInv, TypeOK, SendInterrupted, Settle, AbortSurfaces,
       Codes
<1>3. log' \in [Requests -> Seq(Events)]
  BY BatchType, EmitType DEF TypeInv, TypeOK, SendInterrupted, Settle,
       AbortSurfaces, EventKinds
<1>4. pc[r] = "sending"
  BY DEF SendInterrupted
<1>5. UNCHANGED <<opts, plan, simulation, signed, attempt, tries, replayed,
     abort, cache, tip, afloat, landed, reverted, submits, restarts>>
  BY DEF SendInterrupted, netVars
<1>6. TypeOK'
  BY <1>1, <1>2, <1>3, <1>4, <1>5 DEF TypeInv, TypeOK, LoopOK, Awaiting, Ended,
       Submitted
<1>7. LoopOK'
  BY <1>1, <1>2, <1>3, <1>4, <1>5 DEF TypeInv, TypeOK, LoopOK
<1> QED
  BY <1>6, <1>7 DEF TypeInv

\* RefreshReturns keeps the types and the loop conditions.
LEMMA RefreshReturnsType ==
  ASSUME TypeInv, NEW r \in Requests, NEW b \in Recent, RefreshReturns(r, b)
  PROVE  TypeInv'
<1>1. PICK x \in {"thrown", "resigning"} : pc' = [pc EXCEPT ![r] = x]
  BY DEF RefreshReturns, Enter, Goto
<1>2. b \in 1..MaxTip
  BY DEF TypeInv, TypeOK, Recent
<1>3. plan' \in [Requests -> 0..MaxTip]
  BY <1>2 DEF TypeInv, TypeOK, RefreshReturns
<1>4. \A q \in Requests : plan[q] # 0 => plan'[q] # 0
  BY <1>2 DEF TypeInv, TypeOK, RefreshReturns
<1>5. pc[r] = "refreshing"
  BY DEF RefreshReturns
<1>6. UNCHANGED <<opts, simulation, signed, attempt, tries, result, replayed,
     log, abort, cache, tip, afloat, landed, reverted, submits, restarts>>
  BY DEF RefreshReturns, netVars
<1>7. TypeOK'
  BY <1>1, <1>2, <1>3, <1>4, <1>5, <1>6 DEF TypeInv, TypeOK, LoopOK, Awaiting,
       Ended, Submitted
<1>8. LoopOK'
  BY <1>1, <1>2, <1>3, <1>4, <1>5, <1>6 DEF TypeInv, TypeOK, LoopOK
<1> QED
  BY <1>7, <1>8 DEF TypeInv

\* ResignReturns keeps the types and the loop conditions.
LEMMA ResignReturnsType ==
  ASSUME TypeInv, NEW r \in Requests, ResignReturns(r)
  PROVE  TypeInv'
<1>1. PICK x \in {"thrown", "sending"} : pc' = [pc EXCEPT ![r] = x]
  BY DEF ResignReturns, SubmitSigned, Submit, Goto
<1>2. Sign(r) \in Signatures
  BY SignType DEF TypeInv, ResignReturns
<1>3. signed' = [signed EXCEPT ![r] = Sign(r)]
  BY DEF ResignReturns, SubmitSigned, Submit
<1>4. signed' \in [Requests -> Signatures \cup {NoSignature}]
  BY <1>2, <1>3 DEF TypeInv, TypeOK
<1>5. \A q \in Requests : signed'[q] = IF q = r THEN Sign(r) ELSE signed[q]
  BY <1>3 DEF TypeInv, TypeOK
<1>6. attempt' = [attempt EXCEPT ![r] = @ + 1]
  BY DEF ResignReturns, SubmitSigned, Submit
<1>7. attempt' \in [Requests -> 0..MAX_SEND_ATTEMPTS]
  BY <1>6 DEF TypeInv, TypeOK, LoopOK, ResignReturns
<1>8. tries' = [tries EXCEPT ![r] = 1]
  BY DEF ResignReturns, SubmitSigned, Submit
<1>9. tries' \in [Requests -> 0..maxAttempts]
  BY <1>8 DEF TypeInv, TypeOK, LoopOK, ResignReturns
<1>10. afloat' = afloat \/ afloat' = [afloat EXCEPT ![r] = @ \cup {Sign(r)}]
  BY DEF ResignReturns, SubmitSigned, Submit
<1>11. afloat' \in [Requests -> SUBSET Signatures]
  BY <1>2, <1>10, AfloatType DEF TypeInv, TypeOK
<1>12. submits' \in [Requests -> Nat]
  BY DEF TypeInv, TypeOK, ResignReturns, SubmitSigned, Submit, Submit
<1>13. pc[r] = "resigning"
  BY DEF ResignReturns
<1>14. UNCHANGED <<opts, plan, simulation, result, replayed, log, abort, cache,
     tip, landed, reverted, restarts>>
  BY DEF ResignReturns, netVars, SubmitSigned
<1>15. TypeOK'
  BY <1>1, <1>2, <1>3, <1>4, <1>5, <1>6, <1>7, <1>8, <1>9, <1>10, <1>11, <1>12,
       <1>13, <1>14 DEF TypeInv, TypeOK, LoopOK, Awaiting, Ended, Submitted
<1>16. LoopOK'
  BY <1>1, <1>2, <1>3, <1>4, <1>5, <1>6, <1>7, <1>8, <1>9, <1>10, <1>11, <1>12,
       <1>13, <1>14 DEF TypeInv, TypeOK, LoopOK
<1> QED
  BY <1>15, <1>16 DEF TypeInv

\* ConfirmOk keeps the types and the loop conditions.
LEMMA ConfirmOkType ==
  ASSUME TypeInv, NEW r \in Requests, ConfirmOk(r)
  PROVE  TypeInv'
<1>1. PICK x \in {"storing"} : pc' = [pc EXCEPT ![r] = x]
  BY DEF ConfirmOk, Settle, Goto
<1>2. signed[r] \in Signatures
  BY DEF TypeInv, TypeOK, ConfirmOk, Submitted
<1>3. result' \in [Requests -> Results \cup {NoResult}]
  BY ResultType DEF TypeInv, TypeOK, ConfirmOk, Settle, Codes
<1>4. log' \in [Requests -> Seq(Events)]
  BY BatchType, EmitType, <1>2 DEF TypeInv, TypeOK, ConfirmOk, Settle,
       EventKinds
<1>5. pc[r] = "confirming"
  BY DEF ConfirmOk
<1>6. UNCHANGED <<opts, plan, simulation, signed, attempt, tries, replayed,
     abort, cache, tip, afloat, landed, reverted, submits, restarts>>
  BY DEF ConfirmOk, netVars
<1>7. TypeOK'
  BY <1>1, <1>2, <1>3, <1>4, <1>5, <1>6 DEF TypeInv, TypeOK, LoopOK, Awaiting,
       Ended, Submitted
<1>8. LoopOK'
  BY <1>1, <1>2, <1>3, <1>4, <1>5, <1>6 DEF TypeInv, TypeOK, LoopOK
<1> QED
  BY <1>7, <1>8 DEF TypeInv

\* ConfirmErr keeps the types and the loop conditions.
LEMMA ConfirmErrType ==
  ASSUME TypeInv, NEW r \in Requests, ConfirmErr(r)
  PROVE  TypeInv'
<1>1. PICK x \in {"storing"} : pc' = [pc EXCEPT ![r] = x]
  BY DEF ConfirmErr, Settle, Goto
<1>2. signed[r] \in Signatures
  BY DEF TypeInv, TypeOK, ConfirmErr, Submitted
<1>3. result' \in [Requests -> Results \cup {NoResult}]
  BY ResultType DEF TypeInv, TypeOK, ConfirmErr, Settle, Codes
<1>4. log' \in [Requests -> Seq(Events)]
  BY BatchType, EmitType, <1>2 DEF TypeInv, TypeOK, ConfirmErr, Settle,
       EventKinds
<1>5. pc[r] = "confirming"
  BY DEF ConfirmErr
<1>6. UNCHANGED <<opts, plan, simulation, signed, attempt, tries, replayed,
     abort, cache, tip, afloat, landed, reverted, submits, restarts>>
  BY DEF ConfirmErr, netVars
<1>7. TypeOK'
  BY <1>1, <1>2, <1>3, <1>4, <1>5, <1>6 DEF TypeInv, TypeOK, LoopOK, Awaiting,
       Ended, Submitted
<1>8. LoopOK'
  BY <1>1, <1>2, <1>3, <1>4, <1>5, <1>6 DEF TypeInv, TypeOK, LoopOK
<1> QED
  BY <1>7, <1>8 DEF TypeInv

\* Store keeps the types and the loop conditions.
LEMMA StoreType ==
  ASSUME TypeInv, NEW r \in Requests, Store(r)
  PROVE  TypeInv'
<1>1. PICK x \in {"returned"} : pc' = [pc EXCEPT ![r] = x]
  BY DEF Store, serializeResult, Goto
<1>2. cache' \in [Keys -> Results \cup {NoResult}]
  BY DEF TypeInv, TypeOK, Store, serializeResult
<1>3. pc[r] = "storing"
  BY DEF Store
<1>4. UNCHANGED <<opts, plan, simulation, signed, attempt, tries, result,
     replayed, log, abort, tip, afloat, landed, reverted, submits, restarts>>
  BY DEF Store, netVars
<1>5. TypeOK'
  BY <1>1, <1>2, <1>3, <1>4 DEF TypeInv, TypeOK, LoopOK, Awaiting, Ended,
       Submitted
<1>6. LoopOK'
  BY <1>1, <1>2, <1>3, <1>4 DEF TypeInv, TypeOK, LoopOK
<1> QED
  BY <1>5, <1>6 DEF TypeInv

\* A call starts well typed, whether the cache answers it or not.
LEMMA CallType ==
  ASSUME TypeInv, NEW r \in Requests, NEW o \in Options, NEW b \in Recent,
         Call(r, o, b)
  PROVE  TypeInv'
<1>1. PICK x \in {"returned", "begin"} : pc' = [pc EXCEPT ![r] = x]
  BY DEF Call, Goto
<1>2. b \in 1..MaxTip /\ o.key \in Keys
  BY DEF TypeInv, TypeOK, Recent
<1>3. result' \in [Requests -> Results \cup {NoResult}]
  <2>1. cache[o.key] # NoResult => deserializeResult(cache[o.key]) \in Results
    BY <1>2, ResultType DEF TypeInv, TypeOK
  <2>2. \/ result' = result
        \/ /\ cache[o.key] # NoResult
           /\ result' = [result EXCEPT ![r] = deserializeResult(cache[o.key])]
    BY DEF Call
  <2> QED
    BY <2>1, <2>2 DEF TypeInv, TypeOK
<1>4. replayed' \in [Requests -> BOOLEAN]
  BY DEF TypeInv, TypeOK, Call
<1>5. /\ opts' = [opts EXCEPT ![r] = o]
      /\ plan' = [plan EXCEPT ![r] = b]
  BY DEF Call
<1>6. pc[r] = "idle"
  BY DEF Call
<1>7. UNCHANGED <<simulation, signed, attempt, tries, log, abort, cache, tip,
                  landed, reverted, afloat, submits, restarts>>
  BY DEF Call, netVars
<1>8. opts' \in [Requests -> Options \cup {NoOptions}]
      /\ plan' \in [Requests -> 0..MaxTip]
  BY <1>2, <1>5 DEF TypeInv, TypeOK
<1>9. \A q \in Requests : pc'[q] # "idle" => opts'[q] \in Options /\ plan'[q] #
     0
  BY <1>1, <1>2, <1>5 DEF TypeInv, TypeOK
<1>10. TypeOK'
  BY <1>1, <1>3, <1>4, <1>6, <1>7, <1>8, <1>9
  DEF TypeInv, TypeOK, Awaiting, Ended, Submitted
<1>11. LoopOK'
  BY <1>1, <1>6, <1>7 DEF TypeInv, TypeOK, LoopOK
<1> QED
  BY <1>10, <1>11 DEF TypeInv

\* Aborts, expiring entries, restarts and the chain keep the types too.
LEMMA EnvironmentType ==
  ASSUME TypeInv,
         \/ \E r \in Requests, reason \in AbortReasons : Abort(r, reason)
         \/ \E k \in Keys : ExpireEntry(k)
         \/ Restart
         \/ NewBlockhash
         \/ \E s \in Signatures : Process(s)
         \/ UNCHANGED vars
  PROVE  TypeInv'
<1>1. CASE \E r \in Requests, reason \in AbortReasons : Abort(r, reason)
  BY <1>1 DEF TypeInv, TypeOK, LoopOK, Abort, callVars, netVars
<1>2. CASE \E k \in Keys : ExpireEntry(k)
  BY <1>2 DEF TypeInv, TypeOK, LoopOK, ExpireEntry, callVars, netVars
<1>3. CASE Restart
  <2>1. pc' = [r \in Requests |-> IF Running(r) THEN "lost" ELSE pc[r]]
    BY <1>3 DEF Restart
  <2>2. pc' \in [Requests -> PcTypes]
    BY <2>1 DEF TypeInv, TypeOK, PcTypes, Ended
  <2>3. \A r \in Requests : pc'[r] = "lost" \/ pc'[r] = pc[r]
    BY <2>1
  <2>4. \A r \in Requests : pc[r] = "idle" => pc'[r] = "idle"
    BY <2>1 DEF Running, Awaiting
  <2>5. cache' \in [Keys -> Results \cup {NoResult}]
    BY <1>3 DEF Restart
  <2>6. restarts' \in 0..MaxRestarts
    BY <1>3 DEF Restart, TypeInv, TypeOK
  <2>7. UNCHANGED <<opts, plan, simulation, signed, attempt, tries, result,
                    replayed, log, abort, tip, landed, reverted, afloat,
                         submits>>
    BY <1>3 DEF Restart, netVars
  <2>8. TypeOK'
    BY <2>2, <2>3, <2>4, <2>5, <2>6, <2>7 DEF TypeInv, TypeOK, PcTypes,
         Submitted
  <2>9. LoopOK'
    BY <2>3, <2>7 DEF TypeInv, LoopOK
  <2> QED
    BY <2>8, <2>9 DEF TypeInv
<1>4. CASE NewBlockhash
  BY <1>4 DEF TypeInv, TypeOK, LoopOK, NewBlockhash, callVars
<1>5. CASE \E s \in Signatures : Process(s)
  BY <1>5 DEF TypeInv, TypeOK, LoopOK, Process, callVars
<1>6. CASE UNCHANGED vars
  BY <1>6 DEF TypeInv, TypeOK, LoopOK, vars, callVars, netVars
<1> QED
  BY <1>1, <1>2, <1>3, <1>4, <1>5, <1>6

\* No step of the pipeline or of its environment breaks the types.
LEMMA TypeStep == TypeInv /\ [Next]_vars => TypeInv'
<1> SUFFICES ASSUME TypeInv, [Next]_vars PROVE TypeInv'
  OBVIOUS
<1>1. ASSUME NEW r \in Requests, Step(r) PROVE TypeInv'
  BY <1>1, BeginType, SimulateReturnsType, FeeReturnsType, PortRaisesType,
     SignReturnsType, SendAcceptedType, SendRateLimitedType, BackoffElapsesType,
     BackoffInterruptedType, SendExpiredType, BundleUnsignedType, SendFailsType,
     SendInterruptedType, RefreshReturnsType, ResignReturnsType, ConfirmOkType,
     ConfirmErrType, StoreType DEF Step
<1> QED
  BY <1>1, CallType, EnvironmentType DEF Next

\* Every reachable state is well typed: the counters stay within their loops, a
\* call past its first submission holds a signature, what is cached is a result.
THEOREM TypeCorrect == Spec => []TypeOK
<1>1. Spec => []TypeInv
  BY TypeInit, TypeStep, PTL DEF Spec
<1> QED
  BY <1>1, PTL DEF TypeInv

-----------------------------------------------------------------------------
(* The gates, and what can still land. *)

\* What the place a call has reached says about its gates: nothing is submitted
\* before they passed, and what they looked at does not change afterwards.
GatesPassed(r) ==
  /\ pc[r] \in {"idle", "begin", "simulating", "pricing", "signing"} =>
       submits[r] = 0 /\ afloat[r] = {}
  /\ pc[r] \in {"simulating", "pricing", "signing"} \cup Submitted =>
       opts[r].execute
  /\ pc[r] \in {"pricing", "signing"} \cup Submitted => simulation[r].ok
  /\ pc[r] \in {"signing"} \cup Submitted => WithinBudget(r)
  /\ submits[r] > 0 => opts[r].execute /\ simulation[r].ok /\ WithinBudget(r)

\* On the rpc path only the last signature can land, and where the code is about
\* to sign or submit again, or answers with a definite failure, not even that.
OnlyLastAfloat(r) ==
  pc[r] # "idle" /\ ~ViaBundle(r) =>
    /\ afloat[r] \subseteq {signed[r]}
    /\ pc[r] \in {"backoff", "refreshing", "resigning"} => afloat[r] = {}
    /\ pc[r] \in {"storing", "returned"} /\ result[r].code \in DefiniteCodes =>
         afloat[r] = {}

SafeCall(r) == GatesPassed(r) /\ OnlyLastAfloat(r)
SafetyInv == \A r \in Requests : SafeCall(r)

\* A call whose own state does not change stays safe.
LEMMA FrameSafe ==
  ASSUME NEW r \in Requests, SafeCall(r),
         pc'[r] = pc[r], opts'[r] = opts[r], simulation'[r] = simulation[r],
         signed'[r] = signed[r], result'[r] = result[r],
         afloat'[r] = afloat[r], submits'[r] = submits[r]
  PROVE  SafeCall(r)'
  BY DEF SafeCall, GatesPassed, OnlyLastAfloat, WithinBudget, ViaBundle

\* So a step of call r is safe when it leaves the other calls alone and keeps r
\* safe.
LEMMA OneCallSafe ==
  ASSUME SafetyInv, NEW r \in Requests, SafeCall(r)',
         \A q \in Requests \ {r} :
           /\ pc'[q] = pc[q] /\ opts'[q] = opts[q]
           /\ simulation'[q] = simulation[q] /\ signed'[q] = signed[q]
           /\ result'[q] = result[q] /\ afloat'[q] = afloat[q]
           /\ submits'[q] = submits[q]
  PROVE  SafetyInv'
  BY FrameSafe DEF SafetyInv

\* No call is anywhere near the network initially.
LEMMA SafetyInit == Init => SafetyInv
  BY DEF Init, SafetyInv, SafeCall, GatesPassed, OnlyLastAfloat, Submitted

\* A call that starts, or is answered from the cache, has submitted nothing.
LEMMA CallSafe ==
  ASSUME TypeInv, SafetyInv, NEW r \in Requests, NEW o \in Options, NEW b \in
       Recent, Call(r, o, b)
  PROVE  SafetyInv'
<1>1. SafeCall(r)
  BY DEF SafetyInv
<1>8. SafeCall(r)'
  BY <1>1 DEF TypeInv, TypeOK, SafeCall, GatesPassed, OnlyLastAfloat,
       WithinBudget, ViaBundle, Submitted, Call, Goto, netVars
<1> QED
  BY <1>8, OneCallSafe DEF TypeInv, TypeOK, Call, Goto, netVars

\* The simulate-first gate is passed only with --execute.
LEMMA BeginSafe ==
  ASSUME TypeInv, SafetyInv, NEW r \in Requests, Begin(r)
  PROVE  SafetyInv'
<1>1. SafeCall(r)
  BY DEF SafetyInv
<1>8. SafeCall(r)'
  BY <1>1 DEF TypeInv, TypeOK, SafeCall, GatesPassed, OnlyLastAfloat,
       WithinBudget, ViaBundle, Submitted, Begin, Settle, Goto, netVars
<1> QED
  BY <1>8, OneCallSafe DEF TypeInv, TypeOK, Begin, Settle, Goto, netVars

\* A failed simulation ends the call.
LEMMA SimulateReturnsSafe ==
  ASSUME TypeInv, SafetyInv, NEW r \in Requests, NEW sim \in Simulations,
       SimulateReturns(r, sim)
  PROVE  SafetyInv'
<1>1. SafeCall(r)
  BY DEF SafetyInv
<1>8. SafeCall(r)'
  BY <1>1 DEF TypeInv, TypeOK, SafeCall, GatesPassed, OnlyLastAfloat,
       WithinBudget, ViaBundle, Submitted, SimulateReturns, Settle, Enter,
       Goto, netVars
<1> QED
  BY <1>8, OneCallSafe DEF TypeInv, TypeOK, SimulateReturns, Settle, Enter,
       Goto, netVars

\* The budget gate is passed only within the budget.
LEMMA FeeReturnsSafe ==
  ASSUME TypeInv, SafetyInv, NEW r \in Requests, FeeReturns(r)
  PROVE  SafetyInv'
<1>1. SafeCall(r)
  BY DEF SafetyInv
<1>8. SafeCall(r)'
  BY <1>1 DEF TypeInv, TypeOK, SafeCall, GatesPassed, OnlyLastAfloat,
       WithinBudget, ViaBundle, Submitted, FeeReturns, Settle, Enter, Goto,
       netVars
<1> QED
  BY <1>8, OneCallSafe DEF TypeInv, TypeOK, FeeReturns, Settle, Enter, Goto,
       netVars

\* A port that rejects ends the call.
LEMMA PortRaisesSafe ==
  ASSUME TypeInv, SafetyInv, NEW r \in Requests, PortRaises(r)
  PROVE  SafetyInv'
<1>1. SafeCall(r)
  BY DEF SafetyInv
<1>8. SafeCall(r)'
  BY <1>1 DEF TypeInv, TypeOK, SafeCall, GatesPassed, OnlyLastAfloat,
       WithinBudget, ViaBundle, Submitted, PortRaises, Goto, netVars
<1> QED
  BY <1>8, OneCallSafe DEF TypeInv, TypeOK, PortRaises, Goto, netVars

\* The first submission has passed every gate.
LEMMA SignReturnsSafe ==
  ASSUME TypeInv, SafetyInv, NEW r \in Requests, SignReturns(r)
  PROVE  SafetyInv'
<1>1. SafeCall(r)
  BY DEF SafetyInv
<1>8. SafeCall(r)'
  BY <1>1 DEF TypeInv, TypeOK, SafeCall, GatesPassed, OnlyLastAfloat,
       WithinBudget, ViaBundle, Submitted, SignReturns, SubmitSigned, Submit,
       Goto, netVars
<1> QED
  BY <1>8, OneCallSafe DEF TypeInv, TypeOK, SignReturns, SubmitSigned, Submit,
       Goto, netVars

\* Acceptance changes nothing about what can land.
LEMMA SendAcceptedSafe ==
  ASSUME TypeInv, SafetyInv, NEW r \in Requests, SendAccepted(r)
  PROVE  SafetyInv'
<1>1. SafeCall(r)
  BY DEF SafetyInv
<1>8. SafeCall(r)'
  BY <1>1 DEF TypeInv, TypeOK, SafeCall, GatesPassed, OnlyLastAfloat,
       WithinBudget, ViaBundle, Submitted, SendAccepted, Enter, Goto, netVars
<1> QED
  BY <1>8, OneCallSafe DEF TypeInv, TypeOK, SendAccepted, Enter, Goto, netVars

\* A refused submission can no longer land.
LEMMA SendRateLimitedSafe ==
  ASSUME TypeInv, SafetyInv, NEW r \in Requests, SendRateLimited(r)
  PROVE  SafetyInv'
<1>1. SafeCall(r)
  BY DEF SafetyInv
<1>8. SafeCall(r)'
  BY <1>1 DEF TypeInv, TypeOK, SafeCall, GatesPassed, OnlyLastAfloat,
       WithinBudget, ViaBundle, Submitted, SendRateLimited, Settle,
       AbortSurfaces, Refused, Err, Ok, Goto, netVars
<1> QED
  BY <1>8, OneCallSafe DEF TypeInv, TypeOK, SendRateLimited, Settle,
       AbortSurfaces, Refused, Err, Ok, Goto, netVars

\* The next try submits the same signature.
LEMMA BackoffElapsesSafe ==
  ASSUME TypeInv, SafetyInv, NEW r \in Requests, BackoffElapses(r)
  PROVE  SafetyInv'
<1>1. SafeCall(r)
  BY DEF SafetyInv
<1>8. SafeCall(r)'
  BY <1>1 DEF TypeInv, TypeOK, SafeCall, GatesPassed, OnlyLastAfloat,
       WithinBudget, ViaBundle, Submitted, BackoffElapses, Submit, Goto,
       netVars
<1> QED
  BY <1>8, OneCallSafe DEF TypeInv, TypeOK, BackoffElapses, Submit, Goto,
       netVars

\* An interrupted sleep submits nothing.
LEMMA BackoffInterruptedSafe ==
  ASSUME TypeInv, SafetyInv, NEW r \in Requests, BackoffInterrupted(r)
  PROVE  SafetyInv'
<1>1. SafeCall(r)
  BY DEF SafetyInv
<1>8. SafeCall(r)'
  BY <1>1 DEF TypeInv, TypeOK, SafeCall, GatesPassed, OnlyLastAfloat,
       WithinBudget, ViaBundle, Submitted, BackoffInterrupted, Settle,
       AbortSurfaces, Goto, netVars
<1> QED
  BY <1>8, OneCallSafe DEF TypeInv, TypeOK, BackoffInterrupted, Settle,
       AbortSurfaces, Goto, netVars

\* A submission refused for its blockhash can no longer land.
LEMMA SendExpiredSafe ==
  ASSUME TypeInv, SafetyInv, NEW r \in Requests, SendExpired(r)
  PROVE  SafetyInv'
<1>1. SafeCall(r)
  BY DEF SafetyInv
<1>8. SafeCall(r)'
  BY <1>1 DEF TypeInv, TypeOK, SafeCall, GatesPassed, OnlyLastAfloat,
       WithinBudget, ViaBundle, Submitted, SendExpired, Settle, Expire,
       Refused, Goto, netVars
<1> QED
  BY <1>8, OneCallSafe DEF TypeInv, TypeOK, SendExpired, Settle, Expire,
       Refused, Goto, netVars

\* The bundle path makes no promise.
LEMMA BundleUnsignedSafe ==
  ASSUME TypeInv, SafetyInv, NEW r \in Requests, BundleUnsigned(r)
  PROVE  SafetyInv'
<1>1. SafeCall(r)
  BY DEF SafetyInv
<1>8. SafeCall(r)'
  BY <1>1 DEF TypeInv, TypeOK, SafeCall, GatesPassed, OnlyLastAfloat,
       WithinBudget, ViaBundle, Submitted, BundleUnsigned, Settle, Expire,
       Goto, netVars
<1> QED
  BY <1>8, OneCallSafe DEF TypeInv, TypeOK, BundleUnsigned, Settle, Expire,
       Goto, netVars

\* An ambiguous failure is not reported as a definite one.
LEMMA SendFailsSafe ==
  ASSUME TypeInv, SafetyInv, NEW r \in Requests, SendFails(r)
  PROVE  SafetyInv'
<1>1. SafeCall(r)
  BY DEF SafetyInv
<1>8. SafeCall(r)'
  BY <1>1 DEF TypeInv, TypeOK, SafeCall, GatesPassed, OnlyLastAfloat,
       WithinBudget, ViaBundle, Submitted, SendFails, Settle, DefiniteCodes,
       Err, Goto, netVars
<1> QED
  BY <1>8, OneCallSafe DEF TypeInv, TypeOK, SendFails, Settle, DefiniteCodes,
       Err, Goto, netVars

\* Neither is an interrupted submission.
LEMMA SendInterruptedSafe ==
  ASSUME TypeInv, SafetyInv, NEW r \in Requests, SendInterrupted(r)
  PROVE  SafetyInv'
<1>1. SafeCall(r)
  BY DEF SafetyInv
<1>8. SafeCall(r)'
  BY <1>1 DEF TypeInv, TypeOK, SafeCall, GatesPassed, OnlyLastAfloat,
       WithinBudget, ViaBundle, Submitted, SendInterrupted, Settle,
       AbortSurfaces, DefiniteCodes, Err, Goto, netVars
<1> QED
  BY <1>8, OneCallSafe DEF TypeInv, TypeOK, SendInterrupted, Settle,
       AbortSurfaces, DefiniteCodes, Err, Goto, netVars

\* Refreshing submits nothing.
LEMMA RefreshReturnsSafe ==
  ASSUME TypeInv, SafetyInv, NEW r \in Requests, NEW b \in Recent,
       RefreshReturns(r, b)
  PROVE  SafetyInv'
<1>1. SafeCall(r)
  BY DEF SafetyInv
<1>8. SafeCall(r)'
  BY <1>1 DEF TypeInv, TypeOK, SafeCall, GatesPassed, OnlyLastAfloat,
       WithinBudget, ViaBundle, Submitted, RefreshReturns, Enter, Goto, netVars
<1> QED
  BY <1>8, OneCallSafe DEF TypeInv, TypeOK, RefreshReturns, Enter, Goto, netVars

\* A new signature replaces one that cannot land.
LEMMA ResignReturnsSafe ==
  ASSUME TypeInv, SafetyInv, NEW r \in Requests, ResignReturns(r)
  PROVE  SafetyInv'
<1>1. SafeCall(r)
  BY DEF SafetyInv
<1>8. SafeCall(r)'
  BY <1>1 DEF TypeInv, TypeOK, SafeCall, GatesPassed, OnlyLastAfloat,
       WithinBudget, ViaBundle, Submitted, ResignReturns, SubmitSigned, Submit,
       Goto, netVars
<1> QED
  BY <1>8, OneCallSafe DEF TypeInv, TypeOK, ResignReturns, SubmitSigned,
       Submit, Goto, netVars

\* A success is no definite failure.
LEMMA ConfirmOkSafe ==
  ASSUME TypeInv, SafetyInv, NEW r \in Requests, ConfirmOk(r)
  PROVE  SafetyInv'
<1>1. SafeCall(r)
  BY DEF SafetyInv
<1>8. SafeCall(r)'
  BY <1>1 DEF TypeInv, TypeOK, SafeCall, GatesPassed, OnlyLastAfloat,
       WithinBudget, ViaBundle, Submitted, ConfirmOk, Settle, DefiniteCodes,
       Ok, Goto, netVars
<1> QED
  BY <1>8, OneCallSafe DEF TypeInv, TypeOK, ConfirmOk, Settle, DefiniteCodes,
       Ok, Goto, netVars

\* A failed confirmation is ambiguous too.
LEMMA ConfirmErrSafe ==
  ASSUME TypeInv, SafetyInv, NEW r \in Requests, ConfirmErr(r)
  PROVE  SafetyInv'
<1>1. SafeCall(r)
  BY DEF SafetyInv
<1>8. SafeCall(r)'
  BY <1>1 DEF TypeInv, TypeOK, SafeCall, GatesPassed, OnlyLastAfloat,
       WithinBudget, ViaBundle, Submitted, ConfirmErr, Settle, DefiniteCodes,
       Err, Goto, netVars
<1> QED
  BY <1>8, OneCallSafe DEF TypeInv, TypeOK, ConfirmErr, Settle, DefiniteCodes,
       Err, Goto, netVars

\* Caching changes nothing about what can land.
LEMMA StoreSafe ==
  ASSUME TypeInv, SafetyInv, NEW r \in Requests, Store(r)
  PROVE  SafetyInv'
<1>1. SafeCall(r)
  BY DEF SafetyInv
<1>8. SafeCall(r)'
  BY <1>1 DEF TypeInv, TypeOK, SafeCall, GatesPassed, OnlyLastAfloat,
       WithinBudget, ViaBundle, Submitted, Store, Goto, netVars
<1> QED
  BY <1>8, OneCallSafe DEF TypeInv, TypeOK, Store, Goto, netVars

\* Aborts, expiry, restarts and the chain make nothing submitted or afloat.
LEMMA EnvironmentSafe ==
  ASSUME TypeInv, SafetyInv,
         \/ \E r \in Requests, reason \in AbortReasons : Abort(r, reason)
         \/ \E k \in Keys : ExpireEntry(k)
         \/ Restart
         \/ NewBlockhash
         \/ \E s \in Signatures : Process(s)
         \/ UNCHANGED vars
  PROVE  SafetyInv'
<1>1. CASE Restart
  <2>1. \A r \in Requests : pc'[r] = pc[r] \/ (pc[r] # "idle" /\ pc'[r] =
       "lost")
    BY <1>1 DEF Restart, Running, Awaiting
  <2>2. UNCHANGED <<opts, simulation, signed, result, afloat, submits>>
    BY <1>1 DEF Restart
  <2> QED
    BY <2>1, <2>2 DEF SafetyInv, SafeCall, GatesPassed, OnlyLastAfloat,
       WithinBudget, ViaBundle, Submitted
<1>2. CASE ~Restart
  <2>1. UNCHANGED <<pc, opts, simulation, signed, result, afloat, submits>>
    BY <1>2 DEF Abort, ExpireEntry, NewBlockhash, Process, vars, callVars
  <2> QED
    BY <2>1, FrameSafe DEF SafetyInv
<1> QED
  BY <1>1, <1>2

\* Safety is preserved by every step.
LEMMA SafetyStep == TypeInv /\ SafetyInv /\ [Next]_vars => SafetyInv'
<1> SUFFICES ASSUME TypeInv, SafetyInv, [Next]_vars PROVE SafetyInv'
  OBVIOUS
<1>1. ASSUME NEW r \in Requests, Step(r) PROVE SafetyInv'
  BY <1>1, BeginSafe, SimulateReturnsSafe, FeeReturnsSafe, PortRaisesSafe,
     SignReturnsSafe, SendAcceptedSafe, SendRateLimitedSafe, BackoffElapsesSafe,
     BackoffInterruptedSafe, SendExpiredSafe, BundleUnsignedSafe, SendFailsSafe,
     SendInterruptedSafe, RefreshReturnsSafe, ResignReturnsSafe, ConfirmOkSafe,
     ConfirmErrSafe, StoreSafe DEF Step
<1> QED
  BY <1>1, CallSafe, EnvironmentSafe DEF Next

\* Types and safety hold in every reachable state.
LEMMA SafetyCorrect == Spec => [](TypeInv /\ SafetyInv)
  BY TypeInit, SafetyInit, TypeStep, SafetyStep, PTL DEF Spec

\* The budget gate bounds what the payer can lose: the absolute balance change
\* it compares is never less than the net outflow.
LEMMA OutflowBound ==
  ASSUME TypeOK, NEW r \in Requests, opts[r] \in Options, simulation[r].ok,
         WithinBudget(r)
  PROVE  simulation[r].fee - simulation[r].delta <= opts[r].budget
<1>1. simulation[r] \in [ok : BOOLEAN, delta : Int, fee : Nat]
  BY DEF TypeOK, NoSimulation
<1>2. opts[r].budget \in Nat
  OBVIOUS
<1> QED
  BY <1>1, <1>2 DEF WithinBudget, totalOutflow, lamportsDeltaForPayer

\* Default-deny, for every budget, simulation and schedule of retries: what was
\* submitted passed --execute, the simulation and the budget.
THEOREM GatesHold == Spec => []GatesBeforeSubmit
<1>1. ASSUME TypeInv, SafetyInv, NEW r \in Requests, submits[r] > 0
      PROVE  /\ opts[r].execute
             /\ simulation[r].ok
             /\ simulation[r].fee - simulation[r].delta <= opts[r].budget
  <2>1. opts[r].execute /\ simulation[r].ok /\ WithinBudget(r)
    BY <1>1 DEF SafetyInv, SafeCall, GatesPassed
  <2>2. opts[r] \in Options
    BY <1>1 DEF TypeInv, TypeOK, SafetyInv, SafeCall, GatesPassed
  <2> QED
    BY <1>1, <2>1, <2>2, OutflowBound DEF TypeInv
<1>2. TypeInv /\ SafetyInv => GatesBeforeSubmit
  BY <1>1 DEF GatesBeforeSubmit
<1> QED
  BY <1>2, SafetyCorrect, PTL

\* On the rpc path the retries and re-signatures of one call never leave two
\* different transactions that could both be processed.
THEOREM AtMostOneAfloat == Spec => []OneSignatureAfloat
<1>1. SafetyInv => OneSignatureAfloat
  BY DEF SafetyInv, SafeCall, OnlyLastAfloat, OneSignatureAfloat
<1> QED
  BY <1>1, SafetyCorrect, PTL

\* After a failure that names a gate, an exhausted refresh or an exhausted
\* backoff, nothing of the call can land.
THEOREM FailuresDefinite == Spec => []DefiniteFailures
<1>1. TypeInv /\ SafetyInv => DefiniteFailures
  BY DEF TypeInv, TypeOK, SafetyInv, SafeCall, GatesPassed, OnlyLastAfloat,
     DefiniteFailures
<1> QED
  BY <1>1, SafetyCorrect, PTL

-----------------------------------------------------------------------------
(* How many submissions a call makes, and when. *)

\* Every attempt so far used at most all its tries; the one under way used as
\* many as withRetries has counted.
CountInv ==
  \A r \in Requests :
    /\ submits[r] <= attempt[r] * maxAttempts
    /\ pc[r] \in {"sending", "backoff"} =>
         submits[r] <= (attempt[r] - 1) * maxAttempts + tries[r]

\* Only a signature and an elapsed backoff are followed by a submission; every
\* other step leaves the counts alone.
LEMMA QuietSteps ==
  ASSUME TypeInv, [Next]_vars,
         \A r \in Requests : ~(SignReturns(r) \/ ResignReturns(r) \/
              BackoffElapses(r))
  PROVE  /\ UNCHANGED <<submits, attempt, tries>>
         /\ \A q \in Requests : pc'[q] \in {"sending", "backoff"} =>
                                  pc[q] \in {"sending", "backoff"}
<1> USE DEF TypeInv, TypeOK, Goto, callVars
<1>1. CASE UNCHANGED vars
  BY <1>1 DEF vars
<1>2. ASSUME NEW r \in Requests, NEW o \in Options, NEW b \in Recent, Call(r,
     o, b)
      PROVE  /\ UNCHANGED <<submits, attempt, tries>>
             /\ \A q \in Requests : pc'[q] \in {"sending", "backoff"} =>
                                      pc[q] \in {"sending", "backoff"}
  <2>1. pc' = [pc EXCEPT ![r] = "returned"] \/ pc' = [pc EXCEPT ![r] = "begin"]
    BY <1>2 DEF Call
  <2> QED
    BY <1>2, <2>1 DEF Call
<1>3. ASSUME NEW r \in Requests, Step(r)
      PROVE  /\ UNCHANGED <<submits, attempt, tries>>
             /\ \A q \in Requests : pc'[q] \in {"sending", "backoff"} =>
                                      pc[q] \in {"sending", "backoff"}
  <2>1. UNCHANGED <<submits, attempt, tries>>
    BY <1>3 DEF Step, Begin, SimulateReturns, FeeReturns, PortRaises,
       SendAccepted, SendRateLimited, BackoffInterrupted, SendExpired,
       BundleUnsigned, Expire, SendFails, SendInterrupted, RefreshReturns,
       ConfirmOk, ConfirmErr, Store
  <2>2. \/ pc[r] \in {"sending", "backoff"}
        \/ pc'[r] \notin {"sending", "backoff"}
    BY <1>3 DEF Step, Begin, SimulateReturns, FeeReturns, PortRaises,
       RefreshReturns, ConfirmOk, ConfirmErr, Store, Enter, Settle,
       SendAccepted, SendRateLimited, BackoffInterrupted, SendExpired,
       BundleUnsigned, SendFails, SendInterrupted
  <2>3. \A q \in Requests \ {r} : pc'[q] = pc[q]
    BY <1>3 DEF Step, Begin, SimulateReturns, FeeReturns, PortRaises,
       SendAccepted, SendRateLimited, BackoffInterrupted, SendExpired,
       BundleUnsigned, Expire, SendFails, SendInterrupted, RefreshReturns,
       ConfirmOk, ConfirmErr, Store, Enter, Settle, AbortSurfaces
  <2> QED
    BY <2>1, <2>2, <2>3
<1>4. CASE Restart
  BY <1>4 DEF Restart
<1>5. CASE \/ \E r \in Requests, reason \in AbortReasons : Abort(r, reason)
           \/ \E k \in Keys : ExpireEntry(k)
           \/ NewBlockhash
           \/ \E s \in Signatures : Process(s)
  BY <1>5 DEF Abort, ExpireEntry, NewBlockhash, Process
<1> QED
  BY <1>1, <1>2, <1>3, <1>4, <1>5 DEF Next

\* The counts are kept by the steps that submit.
LEMMA CountStep == TypeInv /\ CountInv /\ [Next]_vars => CountInv'
<1> SUFFICES ASSUME TypeInv, CountInv, [Next]_vars PROVE CountInv'
  OBVIOUS
<1>1. \A n, m \in Nat : (n + 1) * m = n * m + m
  OBVIOUS
<1>2. ASSUME NEW r \in Requests, SignReturns(r) \/ ResignReturns(r)
      PROVE  CountInv'
  <2>1. /\ attempt' = [attempt EXCEPT ![r] = @ + 1]
        /\ tries' = [tries EXCEPT ![r] = 1]
        /\ \/ pc' = [pc EXCEPT ![r] = "thrown"] /\ submits' = submits
           \/ /\ pc' = [pc EXCEPT ![r] = "sending"]
              /\ submits' = [submits EXCEPT ![r] = @ + 1]
    BY <1>2 DEF SignReturns, ResignReturns, SubmitSigned, Submit, Goto
  <2>2. submits[r] <= attempt[r] * maxAttempts
    BY DEF CountInv
  <2>3. (attempt[r] + 1) * maxAttempts = attempt[r] * maxAttempts + maxAttempts
    BY <1>1 DEF TypeInv, TypeOK
  <2>4. attempt[r] * maxAttempts \in Nat
    BY DEF TypeInv, TypeOK
  <2>5. /\ attempt'[r] = attempt[r] + 1 /\ attempt'[r] - 1 = attempt[r]
        /\ tries'[r] = 1
        /\ submits'[r] \in Nat /\ submits'[r] <= submits[r] + 1
    BY <2>1 DEF TypeInv, TypeOK
  <2>6. submits'[r] <= attempt[r] * maxAttempts + 1
    BY <2>2, <2>4, <2>5 DEF TypeInv, TypeOK
  <2>7. /\ submits'[r] <= attempt'[r] * maxAttempts
        /\ submits'[r] <= (attempt'[r] - 1) * maxAttempts + tries'[r]
    BY <2>3, <2>4, <2>5, <2>6
  <2> QED
    BY <2>1, <2>7 DEF CountInv, TypeInv, TypeOK
<1>3. ASSUME NEW r \in Requests, BackoffElapses(r) PROVE CountInv'
  <2>1. /\ pc' = [pc EXCEPT ![r] = "sending"]
        /\ tries' = [tries EXCEPT ![r] = @ + 1]
        /\ submits' = [submits EXCEPT ![r] = @ + 1]
        /\ attempt' = attempt
    BY <1>3 DEF BackoffElapses, Submit, Goto
  <2>2. /\ submits[r] <= (attempt[r] - 1) * maxAttempts + tries[r]
        /\ tries[r] < maxAttempts
    BY <1>3 DEF BackoffElapses, CountInv, TypeInv, LoopOK
  <2>3. (attempt[r] - 1) * maxAttempts + maxAttempts = attempt[r] * maxAttempts
    BY DEF TypeInv, TypeOK
  <2>4. (attempt[r] - 1) * maxAttempts \in Int
    BY DEF TypeInv, TypeOK
  <2>5. /\ attempt'[r] = attempt[r]
        /\ tries'[r] = tries[r] + 1 /\ tries[r] \in Nat
        /\ submits'[r] = submits[r] + 1 /\ submits[r] \in Nat
    BY <2>1 DEF TypeInv, TypeOK
  <2>6. submits'[r] <= (attempt'[r] - 1) * maxAttempts + tries'[r]
    BY <2>2, <2>4, <2>5
  <2>7. submits'[r] <= attempt'[r] * maxAttempts
    BY <2>2, <2>3, <2>4, <2>5
  <2> QED
    BY <2>1, <2>6, <2>7 DEF CountInv, TypeInv, TypeOK
<1>4. CASE \A r \in Requests :
             ~(SignReturns(r) \/ ResignReturns(r) \/ BackoffElapses(r))
  BY <1>4, QuietSteps DEF CountInv
<1> QED
  BY <1>2, <1>3, <1>4

\* No call submits more often than its two loops multiply to, nine times in the
\* code, whatever the network answers.
THEOREM SubmissionsBounded == Spec => []SubmissionBound
<1>1. Init => CountInv
  BY DEF Init, CountInv
<1>2. TypeInv /\ CountInv => SubmissionBound
  <2> SUFFICES ASSUME TypeInv, CountInv, NEW r \in Requests
               PROVE  submits[r] <= MAX_SEND_ATTEMPTS * maxAttempts
    BY DEF SubmissionBound
  <2>1. attempt[r] * maxAttempts <= MAX_SEND_ATTEMPTS * maxAttempts
    BY DEF TypeInv, TypeOK
  <2>2. submits[r] <= attempt[r] * maxAttempts
    BY DEF CountInv
  <2>3. /\ submits[r] \in Int /\ attempt[r] * maxAttempts \in Int
        /\ MAX_SEND_ATTEMPTS * maxAttempts \in Int
    BY DEF TypeInv, TypeOK
  <2> QED
    BY <2>1, <2>2, <2>3
<1> QED
  BY <1>1, <1>2, TypeInit, TypeStep, CountStep, PTL DEF Spec

\* Once a signal is aborted, no step of its call submits anything more.
THEOREM AbortStops == Spec => NoSubmissionAfterAbort
<1>1. ASSUME TypeInv, [Next]_vars
      PROVE  [\A r \in Requests : submits'[r] # submits[r] => ~Aborted(r)]_vars
  <2>1. ASSUME NEW q \in Requests,
               SignReturns(q) \/ ResignReturns(q) \/ BackoffElapses(q)
        PROVE  \A r \in Requests : submits'[r] # submits[r] => ~Aborted(r)
    <3>1. \/ submits' = submits
          \/ ~Aborted(q) /\ submits' = [submits EXCEPT ![q] = @ + 1]
      BY <2>1 DEF SignReturns, ResignReturns, BackoffElapses, SubmitSigned, Submit
    <3> QED
      BY <1>1, <3>1 DEF TypeInv, TypeOK
  <2>2. CASE \A r \in Requests :
               ~(SignReturns(r) \/ ResignReturns(r) \/ BackoffElapses(r))
    BY <1>1, <2>2, QuietSteps
  <2> QED
    BY <2>1, <2>2
<1> QED
  BY <1>1, TypeInit, TypeStep, PTL DEF Spec, NoSubmissionAfterAbort

-----------------------------------------------------------------------------
(* What a call has told: its events and its answer. *)

TerminalKinds == {"tx.confirmed", "tx.failed"}
NoTerminal(e) == \A i \in 1..Len(e) : e[i].kind \notin TerminalKinds
\* The last of some events is terminal and says "ok", the others are not terminal.
EndsWith(e, ok) ==
  /\ Len(e) > 0
  /\ \A i \in 1..Len(e) - 1 : e[i].kind \notin TerminalKinds
  /\ e[Len(e)].kind = IF ok THEN "tx.confirmed" ELSE "tx.failed"

\* What follows a log without a terminal event decides how the log ends.
LEMMA JoinedLogs ==
  ASSUME NEW l \in Seq(Events), NEW e \in Seq(Events), NoTerminal(l)
  PROVE  /\ NoTerminal(e) => NoTerminal(l \o e)
         /\ \A ok \in BOOLEAN : EndsWith(e, ok) => EndsWith(l \o e, ok)
<1>1. /\ Len(l \o e) = Len(l) + Len(e)
      /\ \A i \in 1..Len(l) : (l \o e)[i] = l[i]
      /\ \A i \in Len(l) + 1..Len(l) + Len(e) :
           i - Len(l) \in 1..Len(e) /\ (l \o e)[i] = e[i - Len(l)]
  OBVIOUS
<1>2. Len(l) \in Nat /\ Len(e) \in Nat
  OBVIOUS
<1>3. ASSUME NoTerminal(e) PROVE NoTerminal(l \o e)
  <2> SUFFICES ASSUME NEW i \in 1..Len(l) + Len(e)
               PROVE  (l \o e)[i].kind \notin TerminalKinds
    BY <1>1 DEF NoTerminal
  <2>1. i \in 1..Len(l) \/ i \in Len(l) + 1..Len(l) + Len(e)
    BY <1>2
  <2> QED
    BY <1>1, <1>3, <2>1 DEF NoTerminal
<1>4. ASSUME NEW ok \in BOOLEAN, EndsWith(e, ok) PROVE EndsWith(l \o e, ok)
  <2>1. Len(e) > 0
    BY <1>4 DEF EndsWith
  <2>2. (l \o e)[Len(l) + Len(e)] = e[Len(e)]
    <3>1. Len(l) + Len(e) \in Len(l) + 1..Len(l) + Len(e)
          /\ (Len(l) + Len(e)) - Len(l) = Len(e)
      BY <1>2, <2>1
    <3> QED
      BY <1>1, <3>1
  <2>3. ASSUME NEW i \in 1..(Len(l) + Len(e)) - 1
        PROVE  (l \o e)[i].kind \notin TerminalKinds
    <3>1. CASE i \in 1..Len(l)
      BY <1>1, <3>1 DEF NoTerminal
    <3>2. CASE i \notin 1..Len(l)
      <4>1. i \in Len(l) + 1..Len(l) + Len(e) /\ i - Len(l) \in 1..Len(e) - 1
        BY <1>2, <2>1, <3>2
      <4> QED
        BY <1>1, <1>4, <4>1 DEF EndsWith
    <3> QED
      BY <3>1, <3>2
  <2> QED
    BY <1>1, <1>2, <1>4, <2>1, <2>2, <2>3 DEF EndsWith
<1> QED
  BY <1>3, <1>4

\* How the batches of events end that the handlers emit.
LEMMA BatchEnds ==
  /\ NoTerminal(<<Event("tx.build")>>) /\ NoTerminal(<<Event("tx.simulate")>>)
  /\ NoTerminal(<<Event("tx.fee.estimated"), Event("intent.emitted")>>)
  /\ \A s : NoTerminal(<<EventOf("tx.signed", s)>>)
  /\ \A s : NoTerminal(<<EventOf("tx.sent", s)>>)
  /\ \A s : EndsWith(<<EventOf("tx.confirmed", s)>>, TRUE)
  /\ \A s : EndsWith(<<EventOf("tx.failed", s)>>, FALSE)
  /\ EndsWith(Failed, FALSE)
  /\ EndsWith(<<Event("tx.build")>> \o Rejected, FALSE)
  /\ EndsWith(<<Event("tx.simulate")>> \o Failed, FALSE)
  /\ EndsWith(<<Event("tx.fee.estimated")>> \o Rejected, FALSE)
<1>2. ASSUME NEW a, NEW b, a.kind \notin TerminalKinds
      PROVE  /\ NoTerminal(<<a>>)
             /\ b.kind \notin TerminalKinds => NoTerminal(<<a, b>>)
  BY <1>2 DEF NoTerminal
<1>3. ASSUME NEW a, NEW b, NEW c, NEW ok \in BOOLEAN,
             c.kind = IF ok THEN "tx.confirmed" ELSE "tx.failed"
      PROVE  /\ EndsWith(<<c>>, ok)
             /\ a.kind \notin TerminalKinds => EndsWith(<<a, c>>, ok)
             /\ a.kind \notin TerminalKinds /\ b.kind \notin TerminalKinds
                  => EndsWith(<<a, b, c>>, ok)
  <2>1. /\ Len(<<c>>) = 1 /\ <<c>>[1] = c
        /\ Len(<<a, c>>) = 2 /\ <<a, c>>[1] = a /\ <<a, c>>[2] = c
        /\ Len(<<a, b, c>>) = 3 /\ <<a, b, c>>[1] = a /\ <<a, b, c>>[2] = b
        /\ <<a, b, c>>[3] = c
    OBVIOUS
  <2>2. EndsWith(<<c>>, ok)
    BY <1>3, <2>1 DEF EndsWith
  <2>3. a.kind \notin TerminalKinds => EndsWith(<<a, c>>, ok)
    BY <1>3, <2>1 DEF EndsWith
  <2>4. a.kind \notin TerminalKinds /\ b.kind \notin TerminalKinds
          => EndsWith(<<a, b, c>>, ok)
    BY <1>3, <2>1 DEF EndsWith
  <2> QED
    BY <2>2, <2>3, <2>4
<1>4. /\ \A kind : Event(kind).kind = kind
      /\ \A kind, s : EventOf(kind, s).kind = kind
  BY DEF Event, EventOf
<1>5. /\ "tx.build" \notin TerminalKinds /\ "tx.simulate" \notin TerminalKinds
      /\ "tx.fee.estimated" \notin TerminalKinds /\ "intent.emitted" \notin TerminalKinds
      /\ "tx.signed" \notin TerminalKinds /\ "tx.sent" \notin TerminalKinds
      /\ "safety.gate.rejected" \notin TerminalKinds
  BY DEF TerminalKinds
<1>6. /\ NoTerminal(<<Event("tx.build")>>) /\ NoTerminal(<<Event("tx.simulate")>>)
      /\ NoTerminal(<<Event("tx.fee.estimated"), Event("intent.emitted")>>)
      /\ \A s : NoTerminal(<<EventOf("tx.signed", s)>>)
      /\ \A s : NoTerminal(<<EventOf("tx.sent", s)>>)
  BY <1>2, <1>4, <1>5
<1>7. /\ \A s : EndsWith(<<EventOf("tx.confirmed", s)>>, TRUE)
      /\ \A s : EndsWith(<<EventOf("tx.failed", s)>>, FALSE)
      /\ EndsWith(Failed, FALSE)
  BY <1>3, <1>4 DEF Failed
<1>8. /\ Failed \in Seq(Events) /\ Rejected \in Seq(Events)
      /\ <<Event("tx.build")>> \in Seq(Events) /\ <<Event("tx.simulate")>> \in Seq(Events)
      /\ <<Event("tx.fee.estimated")>> \in Seq(Events)
  <2>1. /\ Event("tx.build") \in Events /\ Event("tx.simulate") \in Events
        /\ Event("tx.fee.estimated") \in Events
        /\ Event("tx.failed") \in Events /\ Event("safety.gate.rejected") \in Events
    BY EventType DEF EventKinds
  <2> QED
    BY <2>1 DEF Failed, Rejected
<1>9. EndsWith(Rejected, FALSE) /\ NoTerminal(<<Event("tx.fee.estimated")>>)
  BY <1>2, <1>3, <1>4, <1>5 DEF Rejected
<1>10. /\ EndsWith(<<Event("tx.simulate")>> \o Failed, FALSE)
       /\ EndsWith(<<Event("tx.build")>> \o Rejected, FALSE)
       /\ EndsWith(<<Event("tx.fee.estimated")>> \o Rejected, FALSE)
  BY <1>6, <1>7, <1>8, <1>9, JoinedLogs
<1> QED
  BY <1>6, <1>7, <1>10

\* Before the promise of execute settles.
Open == Awaiting \ {"storing"}

\* A step of an open call that does not settle it.
Quiet(r) ==
  /\ pc[r] \in Open /\ pc' = [pc EXCEPT ![r] = pc'[r]]
  /\ pc'[r] \in Open \cup {"thrown"}
  /\ UNCHANGED <<result, replayed, opts, cache, landed>>
  /\ \/ log' = log
     \/ \E e \in Seq(Events) : NoTerminal(e) /\ log' = [log EXCEPT ![r] = @ \o e]

\* A step that settles it; with a success only for a signature that has landed.
Settles(r) ==
  /\ pc[r] \in Open /\ pc' = [pc EXCEPT ![r] = "storing"]
  /\ UNCHANGED <<replayed, opts, cache, landed, signed>>
  /\ \E e \in Seq(Events), x \in Results :
       /\ result' = [result EXCEPT ![r] = x]
       /\ EndsWith(e, x.ok) /\ log' = [log EXCEPT ![r] = @ \o e]
       /\ x.ok => pc[r] = "confirming" /\ x = Ok(signed[r]) /\ signed[r] \in landed

\* A failure is a result that is not a success, and no result is either.
LEMMA ResultKinds ==
  /\ \A c \in Codes : Err(c) \in Results /\ ~Err(c).ok
  /\ \A s \in Signatures : Ok(s) \in Results /\ Ok(s).ok /\ Ok(s).signature = s
  /\ NoResult \notin Results /\ ~NoResult.ok
  /\ \A x \in Results : x.ok \in BOOLEAN
<1>1. \A c \in Codes : Err(c) \in Results /\ ~Err(c).ok
  BY DEF Results, Err
<1>2. \A s \in Signatures : Ok(s) \in Results /\ Ok(s).ok /\ Ok(s).signature = s
  BY DEF Results, Ok
<1>3. ASSUME NEW x \in Results PROVE x.ok \in BOOLEAN /\ (x.ok \/ x.code \in Codes)
  <2>1. CASE \E t \in Signatures : x = Ok(t)
    BY <2>1 DEF Ok
  <2>2. CASE \E c \in Codes : x = Err(c)
    <3>1. \A c \in Codes : Err(c).ok = FALSE /\ Err(c).code = c
      BY DEF Err
    <3> QED
      BY <2>2, <3>1
  <2> QED
    BY <1>3, <2>1, <2>2 DEF Results
<1>4. ~NoResult.ok /\ NoResult.code \notin Codes
  BY DEF NoResult, Codes
<1> QED
  BY <1>1, <1>2, <1>3, <1>4

\* What a handler does that goes on, or gives up without an answer.
LEMMA QuietIntro ==
  ASSUME TypeInv, NEW r \in Requests, pc[r] \in Open,
         NEW x \in Open \cup {"thrown"}, pc' = [pc EXCEPT ![r] = x],
         UNCHANGED <<result, replayed, opts, cache, landed>>,
         \/ log' = log
         \/ \E e \in Seq(Events) : NoTerminal(e) /\ Emit(r, e)
  PROVE  Quiet(r)
<1>1. pc'[r] = x
  BY DEF TypeInv, TypeOK
<1> QED
  BY <1>1 DEF Quiet, Emit

\* What a handler does that settles the call with a failure.
LEMMA FailIntro ==
  ASSUME NEW r \in Requests, pc[r] \in Open, NEW c \in Codes, Settle(r, Err(c)),
         UNCHANGED <<replayed, opts, cache, landed, signed>>,
         NEW e \in Seq(Events), EndsWith(e, FALSE), Emit(r, e)
  PROVE  Settles(r)
<1>1. Err(c) \in Results /\ Err(c).ok = FALSE
  BY DEF Results, Err
<1> QED
  BY <1>1 DEF Settles, Settle, Goto, Emit

\* Every step of a call but the write to the cache is of one of the two kinds.
LEMMA OpenStep ==
  ASSUME TypeInv, NEW r \in Requests, Step(r), ~Store(r)
  PROVE  Quiet(r) \/ Settles(r)
<1>C. /\ {"INTENT_REQUIRED", "SIMULATE_FAILED", "BUDGET_EXCEEDED",
          "BLOCKHASH_EXPIRED", "RATE_LIMIT", "RPC", "GENERIC"} = Codes
      /\ {"begin", "simulating", "pricing", "signing", "sending", "backoff",
          "refreshing", "resigning", "confirming"} = Open
  BY DEF Codes, Open, Awaiting
<1>S. pc[r] \in Submitted => signed[r] \in Signatures
  BY DEF TypeInv, TypeOK
<1>1. CASE Begin(r)
  BY <1>1, <1>C, BatchType, BatchEnds, QuietIntro, FailIntro DEF Begin, Goto, netVars
<1>2. ASSUME NEW sim \in Simulations, SimulateReturns(r, sim)
      PROVE  Quiet(r) \/ Settles(r)
  BY <1>2, <1>C, BatchType, BatchEnds, QuietIntro, FailIntro
     DEF SimulateReturns, Enter, Goto, netVars
<1>3. CASE FeeReturns(r)
  BY <1>3, <1>C, BatchType, BatchEnds, QuietIntro, FailIntro
     DEF FeeReturns, Enter, Goto, netVars
<1>4. CASE PortRaises(r)
  BY <1>4, <1>C, QuietIntro DEF PortRaises, Goto, netVars
<1>5. CASE SignReturns(r) \/ ResignReturns(r)
  <2>1. \E x \in {"sending", "thrown"} : pc' = [pc EXCEPT ![r] = x]
    BY <1>5 DEF SignReturns, ResignReturns, SubmitSigned, Submit, Goto
  <2>2. pc[r] \in Open /\ UNCHANGED <<result, replayed, opts, cache, landed>>
    BY <1>5, <1>C DEF SignReturns, ResignReturns, SubmitSigned, netVars
  <2>3. Sign(r) \in Signatures
    BY <1>5, SignType DEF SignReturns, ResignReturns, TypeInv
  <2>4. \/ log' = log
        \/ \E e \in Seq(Events) : NoTerminal(e) /\ Emit(r, e)
    <3>1. <<EventOf("tx.signed", Sign(r))>> \in Seq(Events)
      BY <2>3, BatchType DEF EventKinds
    <3> QED
      BY <1>5, <3>1, BatchEnds DEF SignReturns, ResignReturns
  <2> QED
    BY <1>C, <2>1, <2>2, <2>4, QuietIntro
<1>6. CASE SendAccepted(r)
  <2>1. <<EventOf("tx.sent", signed[r])>> \in Seq(Events)
    BY <1>6, <1>S, BatchType DEF SendAccepted, Submitted, EventKinds
  <2> QED
    BY <1>6, <1>C, <2>1, BatchEnds, QuietIntro DEF SendAccepted, Enter, Goto, netVars
<1>7. ASSUME NEW reason, AbortSurfaces(r, reason), pc[r] \in Open,
             UNCHANGED <<replayed, opts, cache, landed, signed>>
      PROVE  Quiet(r) \/ Settles(r)
  BY <1>7, <1>C, BatchType, BatchEnds, QuietIntro, FailIntro DEF AbortSurfaces, Goto
<1>8. CASE SendRateLimited(r)
  <2>1. pc[r] \in Open /\ UNCHANGED <<replayed, opts, cache, landed, signed>>
    BY <1>8, <1>C DEF SendRateLimited, netVars
  <2>2. \/ Settle(r, Err("RATE_LIMIT")) /\ Emit(r, Failed)
        \/ AbortSurfaces(r, abort[r])
        \/ Goto(r, "backoff") /\ UNCHANGED <<result, log>>
    BY <1>8 DEF SendRateLimited
  <2> QED
    BY <1>7, <1>C, <2>1, <2>2, BatchType, BatchEnds, QuietIntro, FailIntro DEF Goto
<1>9. CASE BackoffElapses(r)
  BY <1>9, <1>C, QuietIntro DEF BackoffElapses, Submit, Goto, netVars
<1>10. CASE BackoffInterrupted(r) \/ SendInterrupted(r)
  BY <1>7, <1>10, <1>C DEF BackoffInterrupted, SendInterrupted, netVars
<1>11. CASE SendExpired(r) \/ BundleUnsigned(r)
  <2>1. pc[r] \in Open /\ UNCHANGED <<replayed, opts, cache, landed, signed>>
    BY <1>11, <1>C DEF SendExpired, BundleUnsigned, Expire, netVars
  <2>2. \/ Settle(r, Err("BLOCKHASH_EXPIRED")) /\ Emit(r, Failed)
        \/ Goto(r, "refreshing") /\ UNCHANGED <<result, log>>
    BY <1>11 DEF SendExpired, BundleUnsigned, Expire
  <2> QED
    BY <1>C, <2>1, <2>2, BatchType, BatchEnds, QuietIntro, FailIntro DEF Goto
<1>12. CASE SendFails(r)
  BY <1>12, <1>C, BatchType, BatchEnds, FailIntro DEF SendFails, netVars
<1>13. ASSUME NEW b \in Recent, RefreshReturns(r, b) PROVE Quiet(r) \/ Settles(r)
  BY <1>13, <1>C, QuietIntro DEF RefreshReturns, Enter, Goto, netVars
<1>14. CASE ConfirmOk(r)
  <2>1. signed[r] \in Signatures /\ pc[r] \in Open /\ pc[r] = "confirming"
    BY <1>14, <1>S, <1>C DEF ConfirmOk, Submitted
  <2>2. <<EventOf("tx.confirmed", signed[r])>> \in Seq(Events)
    BY <2>1, BatchType DEF EventKinds
  <2>3. Ok(signed[r]) \in Results /\ Ok(signed[r]).ok = TRUE
    BY <2>1 DEF Results, Ok
  <2> QED
    BY <1>14, <2>1, <2>2, <2>3, BatchEnds
       DEF ConfirmOk, Settles, Settle, Goto, Emit, netVars
<1>15. CASE ConfirmErr(r)
  <2>1. <<EventOf("tx.failed", signed[r])>> \in Seq(Events)
    BY <1>15, <1>S, BatchType DEF ConfirmErr, Submitted, EventKinds
  <2> QED
    BY <1>15, <1>C, <2>1, BatchEnds, FailIntro DEF ConfirmErr, netVars
<1> QED
  BY <1>1, <1>2, <1>3, <1>4, <1>5, <1>6, <1>8, <1>9, <1>10, <1>11, <1>12, <1>13,
     <1>14, <1>15 DEF Step

\* A log ends with the verdict of the answer; without an answer of the call's own it
\* has no terminal event.  Only a call that has settled has an answer.
LogOf(r) ==
  /\ IF Settled(r) THEN EndsWith(log[r], result[r].ok) ELSE NoTerminal(log[r])
  /\ result[r] # NoResult => pc[r] \in {"storing", "returned", "lost"}
  /\ replayed[r] => pc[r] = "returned"
LogInv == \A r \in Requests : LogOf(r)

\* Other calls' answers and logs do not change with a call's step.
LEMMA OneLogMoves ==
  ASSUME LogInv, NEW r \in Requests, LogOf(r)',
         \A q \in Requests \ {r} :
           /\ pc'[q] = pc[q] /\ result'[q] = result[q]
           /\ replayed'[q] = replayed[q] /\ log'[q] = log[q]
  PROVE  LogInv'
  BY DEF LogInv, LogOf, Settled

LEMMA LogStep == TypeInv /\ LogInv /\ [Next]_vars => LogInv'
<1> SUFFICES ASSUME TypeInv, LogInv, [Next]_vars PROVE LogInv'
  OBVIOUS
<1>T. /\ DOMAIN pc = Requests /\ DOMAIN result = Requests /\ DOMAIN log = Requests
      /\ DOMAIN replayed = Requests /\ \A q \in Requests : log[q] \in Seq(Events)
  BY DEF TypeInv, TypeOK
<1>O. \A r \in Requests : pc[r] \in Open \cup {"idle"} =>
        NoTerminal(log[r]) /\ result[r] = NoResult /\ ~replayed[r]
  BY DEF LogInv, LogOf, Settled, Open, Awaiting
<1>1. ASSUME NEW r \in Requests, Quiet(r) PROVE LogInv'
  <2>1. NoTerminal(log'[r])
    <3>1. CASE log' = log
      BY <1>1, <1>O, <3>1 DEF Quiet
    <3>2. ASSUME NEW e \in Seq(Events), NoTerminal(e), log' = [log EXCEPT ![r] = @ \o e]
          PROVE  NoTerminal(log'[r])
      BY <1>1, <1>T, <1>O, <3>2, JoinedLogs DEF Quiet
    <3> QED
      BY <1>1, <3>1, <3>2 DEF Quiet
  <2>2. LogOf(r)'
    BY <1>1, <1>O, <2>1 DEF Quiet, LogOf, Settled
  <2>3. \A q \in Requests \ {r} :
          /\ pc'[q] = pc[q] /\ result'[q] = result[q]
          /\ replayed'[q] = replayed[q] /\ log'[q] = log[q]
    BY <1>1, <1>T DEF Quiet
  <2> QED
    BY <2>2, <2>3, OneLogMoves
<1>2. ASSUME NEW r \in Requests, Settles(r) PROVE LogInv'
  <2>1. PICK e \in Seq(Events), x \in Results :
          /\ result' = [result EXCEPT ![r] = x] /\ EndsWith(e, x.ok)
          /\ log' = [log EXCEPT ![r] = @ \o e]
    BY <1>2 DEF Settles
  <2>2. EndsWith(log'[r], x.ok)
    BY <1>2, <1>T, <1>O, <2>1, JoinedLogs, ResultKinds DEF Settles
  <2>3. LogOf(r)'
    BY <1>2, <1>T, <1>O, <2>1, <2>2, ResultKinds DEF Settles, LogOf, Settled
  <2>4. \A q \in Requests \ {r} :
          /\ pc'[q] = pc[q] /\ result'[q] = result[q]
          /\ replayed'[q] = replayed[q] /\ log'[q] = log[q]
    BY <1>2, <1>T, <2>1 DEF Settles
  <2> QED
    BY <2>3, <2>4, OneLogMoves
<1>3. ASSUME NEW r \in Requests, Store(r) PROVE LogInv'
  <2>1. /\ pc[r] = "storing" /\ pc' = [pc EXCEPT ![r] = "returned"]
        /\ UNCHANGED <<result, replayed, log>>
    BY <1>3 DEF Store, Goto
  <2> QED
    BY <1>T, <2>1 DEF LogInv, LogOf, Settled
<1>4. ASSUME NEW r \in Requests, NEW o \in Options, NEW b \in Recent, Call(r, o, b)
      PROVE  LogInv'
  <2>1. /\ pc[r] = "idle" /\ log' = log
        /\ \/ /\ pc' = [pc EXCEPT ![r] = "returned"]
              /\ replayed' = [replayed EXCEPT ![r] = TRUE]
              /\ \E x : result' = [result EXCEPT ![r] = x]
           \/ pc' = [pc EXCEPT ![r] = "begin"] /\ UNCHANGED <<result, replayed>>
    BY <1>4 DEF Call, Goto
  <2>2. LogOf(r)'
    BY <1>T, <1>O, <2>1 DEF LogOf, Settled
  <2>3. \A q \in Requests \ {r} :
          /\ pc'[q] = pc[q] /\ result'[q] = result[q]
          /\ replayed'[q] = replayed[q] /\ log'[q] = log[q]
    BY <1>T, <2>1
  <2> QED
    BY <2>2, <2>3, OneLogMoves
<1>5. CASE Restart
  <2>3. /\ pc' = [r \in Requests |-> IF Running(r) THEN "lost" ELSE pc[r]]
        /\ UNCHANGED <<result, replayed, log>>
    BY <1>5 DEF Restart
  <2>1. /\ \A r \in Requests :
             pc'[r] = pc[r] \/ (pc[r] \in Awaiting /\ pc'[r] = "lost")
        /\ UNCHANGED <<result, replayed, log>>
    BY <2>3 DEF Running
  <2>2. "returned" \notin Awaiting
    BY DEF Awaiting
  <2> QED
    BY <2>1, <2>2 DEF LogInv, LogOf, Settled
<1>6. CASE \/ \E r \in Requests, reason \in AbortReasons : Abort(r, reason)
           \/ \E k \in Keys : ExpireEntry(k)
           \/ NewBlockhash
           \/ \E s \in Signatures : Process(s)
           \/ UNCHANGED vars
  <2>1. UNCHANGED <<pc, result, replayed, log>>
    BY <1>6 DEF Abort, ExpireEntry, NewBlockhash, Process, vars, callVars
  <2> QED
    BY <2>1 DEF LogInv, LogOf, Settled
<1> QED
  BY <1>1, <1>2, <1>3, <1>4, <1>5, <1>6, OpenStep DEF Next

\* A settled call has one terminal event, its last, and it agrees with the answer; a
\* call that rejected, died or was answered from the cache has none, whatever way
\* it took through execute.ts.
THEOREM EventsAgree == Spec => []OneTerminalEvent
<1>1. Init => LogInv
  BY DEF Init, LogInv, LogOf, Settled, NoTerminal
<1>2. TypeInv /\ LogInv => OneTerminalEvent
  <2> SUFFICES ASSUME TypeInv, LogInv, NEW r \in Requests
               PROVE  /\ Terminals(r) = IF Settled(r) THEN {Len(log[r])} ELSE {}
                      /\ Settled(r) =>
                           (log[r][Len(log[r])].kind = "tx.confirmed" <=> result[r].ok)
    BY DEF OneTerminalEvent
  <2>1. log[r] \in Seq(Events) /\ LogOf(r)
    BY DEF TypeInv, TypeOK, LogInv
  <2>2. CASE Settled(r)
    <3>1. EndsWith(log[r], result[r].ok)
      BY <2>1, <2>2 DEF LogOf
    <3>2. Len(log[r]) \in 1..Len(log[r])
      BY <2>1, <3>1 DEF EndsWith
    <3>3. \A i \in 1..Len(log[r]) :
            log[r][i].kind \in TerminalKinds => i = Len(log[r])
      BY <2>1, <3>1 DEF EndsWith
    <3>4. log[r][Len(log[r])].kind \in TerminalKinds
      BY <3>1 DEF EndsWith, TerminalKinds
    <3>5. log[r][Len(log[r])].kind = "tx.confirmed" <=> result[r].ok
      BY <3>1 DEF EndsWith
    <3> QED
      BY <2>2, <3>2, <3>3, <3>4, <3>5 DEF Terminals, TerminalKinds
  <2>3. CASE ~Settled(r)
    BY <2>1, <2>3 DEF LogOf, NoTerminal, Terminals, TerminalKinds
  <2> QED
    BY <2>2, <2>3
<1> QED
  BY <1>1, <1>2, TypeInit, TypeStep, LogStep, PTL DEF Spec

-----------------------------------------------------------------------------
(* An answer that says success names a transaction that landed. *)

\* What an answer, given or cached, may say under a key.
TrueAnswer(x, k) == x.ok => x.signature \in landed /\ x.signature.key = k
LandedOf(r) ==
  /\ pc[r] \in Submitted => signed[r].key = opts[r].key
  /\ pc[r] # "idle" => TrueAnswer(result[r], opts[r].key)
LandedInv ==
  /\ \A r \in Requests : LandedOf(r)
  /\ \A k \in Keys : TrueAnswer(cache[k], k)

\* Every signature is over the plan of its own call, and a step signs for one call.
LEMMA SignedStep ==
  ASSUME TypeInv, NEW r \in Requests, Step(r),
         pc[r] \in Submitted => signed[r].key = opts[r].key
  PROVE  /\ pc'[r] \in Submitted => signed'[r].key = opts[r].key
         /\ \A q \in Requests \ {r} : pc'[q] = pc[q] /\ signed'[q] = signed[q]
<1>T. DOMAIN pc = Requests /\ DOMAIN signed = Requests
  BY DEF TypeInv, TypeOK
<1>1. CASE SignReturns(r) \/ ResignReturns(r)
  <2>1. /\ signed' = [signed EXCEPT ![r] = Sign(r)]
        /\ \E x : pc' = [pc EXCEPT ![r] = x]
    BY <1>1 DEF SignReturns, ResignReturns, SubmitSigned, Submit, Goto
  <2> QED
    BY <1>T, <2>1 DEF Sign
<1>2. CASE ~SignReturns(r) /\ ~ResignReturns(r)
  <2>1. signed' = signed
    BY <1>2 DEF Step, Begin, SimulateReturns, FeeReturns, PortRaises, SendAccepted,
                SendRateLimited, BackoffElapses, BackoffInterrupted, SendExpired,
                BundleUnsigned, Expire, SendFails, SendInterrupted, RefreshReturns,
                ConfirmOk, ConfirmErr, Store
  <2>2. \E x : /\ pc' = [pc EXCEPT ![r] = x]
               /\ x \in Submitted => pc[r] \in Submitted
    BY <1>2 DEF Step, Begin, SimulateReturns, FeeReturns, PortRaises, SendAccepted,
                SendRateLimited, BackoffElapses, BackoffInterrupted, SendExpired,
                BundleUnsigned, Expire, SendFails, SendInterrupted, RefreshReturns,
                ConfirmOk, ConfirmErr, Store, AbortSurfaces, Submit, Enter, Settle,
                Goto, Submitted
  <2> QED
    BY <1>T, <2>1, <2>2
<1> QED
  BY <1>1, <1>2

\* A call's step settles with what the chain showed it or leaves the answers alone.
LEMMA LandedStep == TypeInv /\ LogInv /\ LandedInv /\ [Next]_vars => LandedInv'
<1> SUFFICES ASSUME TypeInv, LogInv, LandedInv, [Next]_vars PROVE LandedInv'
  OBVIOUS
<1>T. /\ DOMAIN pc = Requests /\ DOMAIN result = Requests /\ DOMAIN opts = Requests
      /\ DOMAIN cache = Keys
  BY DEF TypeInv, TypeOK
<1>1. ASSUME NEW r \in Requests, Step(r), Quiet(r) PROVE LandedInv'
  <2>1. /\ UNCHANGED <<result, opts, cache, landed>> /\ pc[r] # "idle"
    BY <1>1 DEF Quiet, Open, Awaiting
  <2>2. /\ pc'[r] \in Submitted => signed'[r].key = opts[r].key
        /\ \A q \in Requests \ {r} : pc'[q] = pc[q] /\ signed'[q] = signed[q]
    BY <1>1, SignedStep DEF LandedInv, LandedOf
  <2> QED
    BY <2>1, <2>2 DEF LandedInv, LandedOf, TrueAnswer
<1>2. ASSUME NEW r \in Requests, Step(r), Settles(r) PROVE LandedInv'
  <2>1. /\ UNCHANGED <<opts, cache, landed, signed>>
        /\ pc' = [pc EXCEPT ![r] = "storing"]
    BY <1>2 DEF Settles
  <2>2. PICK x \in Results :
          /\ result' = [result EXCEPT ![r] = x]
          /\ x.ok => pc[r] = "confirming" /\ x = Ok(signed[r]) /\ signed[r] \in landed
    BY <1>2 DEF Settles
  <2>3. TrueAnswer(x, opts[r].key)
    BY <2>2 DEF TrueAnswer, Ok, LandedInv, LandedOf, Submitted
  <2>4. LandedOf(r)'
    BY <1>T, <2>1, <2>2, <2>3 DEF LandedOf, TrueAnswer, Submitted
  <2>5. \A q \in Requests \ {r} : pc'[q] = pc[q] /\ result'[q] = result[q]
    BY <1>T, <2>1, <2>2
  <2> QED
    BY <2>1, <2>4, <2>5 DEF LandedInv, LandedOf, TrueAnswer
<1>3. ASSUME NEW r \in Requests, Store(r) PROVE LandedInv'
  <2>1. /\ pc[r] = "storing" /\ pc' = [pc EXCEPT ![r] = "returned"]
        /\ cache' = [cache EXCEPT ![opts[r].key] = result[r]]
        /\ UNCHANGED <<opts, result, signed, landed>>
    BY <1>3 DEF Store, Goto, serializeResult, netVars
  <2>2. TrueAnswer(result[r], opts[r].key)
    BY <2>1 DEF LandedInv, LandedOf
  <2>3. \A q \in Requests : pc'[q] = pc[q] \/ (pc[q] = "storing" /\ pc'[q] = "returned")
    BY <1>T, <2>1
  <2>4. \A k \in Keys : TrueAnswer(cache[k], k)'
    BY <1>T, <2>1, <2>2 DEF LandedInv, TrueAnswer
  <2>5. \A q \in Requests : LandedOf(q)'
    BY <2>1, <2>3 DEF LandedInv, LandedOf, TrueAnswer, Submitted
  <2> QED
    BY <2>4, <2>5 DEF LandedInv
<1>4. ASSUME NEW r \in Requests, NEW o \in Options, NEW b \in Recent, Call(r, o, b)
      PROVE  LandedInv'
  <2>1. /\ pc[r] = "idle" /\ opts' = [opts EXCEPT ![r] = o]
        /\ UNCHANGED <<signed, cache, landed>>
    BY <1>4 DEF Call, netVars
  <2>2. \/ /\ pc' = [pc EXCEPT ![r] = "returned"]
           /\ result' = [result EXCEPT ![r] = deserializeResult(cache[o.key])]
        \/ pc' = [pc EXCEPT ![r] = "begin"] /\ result' = result
    BY <1>4 DEF Call, Goto
  <2>3. TrueAnswer(deserializeResult(cache[o.key]), o.key)
    <3>1. o.key \in Keys
      BY OptionsAssumption
    <3>2. ~Err("SIMULATE_FAILED").ok
      BY DEF Err
    <3> QED
      BY <3>1, <3>2 DEF deserializeResult, TrueAnswer, LandedInv
  <2>4. ~result[r].ok
    BY <2>1, ResultKinds DEF LogInv, LogOf
  <2>5. LandedOf(r)'
    BY <1>T, <2>1, <2>2, <2>3, <2>4 DEF LandedOf, TrueAnswer, Submitted
  <2>6. \A q \in Requests \ {r} :
          pc'[q] = pc[q] /\ result'[q] = result[q] /\ opts'[q] = opts[q]
    BY <1>T, <2>1, <2>2
  <2> QED
    BY <2>1, <2>5, <2>6 DEF LandedInv, LandedOf, TrueAnswer
<1>5. CASE Restart
  <2>1. /\ pc' = [r \in Requests |-> IF Running(r) THEN "lost" ELSE pc[r]]
        /\ cache' = [k \in Keys |-> NoResult]
        /\ UNCHANGED <<opts, result, signed, landed>>
    BY <1>5 DEF Restart, netVars
  <2>2. \A r \in Requests :
          pc'[r] = pc[r] \/ (pc[r] \in Awaiting /\ pc'[r] = "lost")
    BY <2>1 DEF Running
  <2>3. "idle" \notin Awaiting /\ "lost" \notin Submitted
    BY DEF Awaiting, Submitted
  <2>4. \A k \in Keys : TrueAnswer(cache[k], k)'
    BY <2>1, ResultKinds DEF TrueAnswer
  <2>5. \A r \in Requests : LandedOf(r)'
    BY <2>1, <2>2, <2>3 DEF LandedInv, LandedOf, TrueAnswer
  <2> QED
    BY <2>4, <2>5 DEF LandedInv
<1>6. ASSUME NEW k \in Keys, ExpireEntry(k) PROVE LandedInv'
  <2>1. /\ cache' = [cache EXCEPT ![k] = NoResult]
        /\ UNCHANGED <<pc, opts, result, signed, landed>>
    BY <1>6 DEF ExpireEntry, callVars, netVars
  <2>2. \A q \in Keys : TrueAnswer(cache[q], q)'
    BY <1>T, <2>1, ResultKinds DEF LandedInv, TrueAnswer
  <2> QED
    BY <2>1, <2>2 DEF LandedInv, LandedOf, TrueAnswer
<1>7. CASE \/ \E r \in Requests, reason \in AbortReasons : Abort(r, reason)
           \/ NewBlockhash
           \/ \E s \in Signatures : Process(s)
           \/ UNCHANGED vars
  <2>1. /\ UNCHANGED <<pc, opts, result, signed, cache>>
        /\ landed \subseteq landed'
    BY <1>7 DEF Abort, NewBlockhash, Process, vars, callVars, netVars
  <2> QED
    BY <2>1 DEF LandedInv, LandedOf, TrueAnswer
<1> QED
  BY <1>1, <1>2, <1>3, <1>4, <1>5, <1>6, <1>7, OpenStep DEF Next

\* Nothing is answered or cached initially.
LEMMA InitAnswers == Init => LogInv /\ LandedInv
<1>1. Init => LogInv
  BY DEF Init, LogInv, LogOf, Settled, NoTerminal
<1>2. Init => LandedInv
  BY ResultKinds DEF Init, LandedInv, LandedOf, TrueAnswer, Submitted
<1> QED
  BY <1>1, <1>2

\* A call that answers success names a signature of its own key that has landed,
\* whether it ran the pipeline or was answered from the cache.
THEOREM SuccessIsTrue == Spec => []ReportedSignatureLanded
<1>1. LandedInv => ReportedSignatureLanded
  BY DEF LandedInv, LandedOf, TrueAnswer, ReportedSignatureLanded
<1> QED
  BY <1>1, InitAnswers, TypeInit, TypeStep, LogStep, LandedStep, PTL DEF Spec

-----------------------------------------------------------------------------
(* One payment and one verdict per key.                                    *)

\* Callers wait for an answer before they repeat a key, never abort, stay in one
\* process whose cache keeps its entries, and no bundle is sent.
PatientCallers ==
  /\ SerialKeys /\ ~MayExpire /\ MaxRestarts = 0 /\ AbortReasons = {}
  /\ HasBundle => \A o \in Options : o.via = "rpc"

\* A call works on a key nobody has answered for, and an answer is that of the
\* cache.  What a call may still get landed is for its own key, and it has not
\* rejected.
OnceOf(r) ==
  /\ Running(r) => cache[opts[r].key] = NoResult
  /\ pc[r] = "storing" => result[r] # NoResult
  /\ pc[r] = "returned" =>
       /\ cache[opts[r].key] # NoResult
       /\ result[r].ok = cache[opts[r].key].ok
       /\ result[r].signature = cache[opts[r].key].signature
  /\ \A s \in afloat[r] : s.key = opts[r].key
  /\ afloat[r] # {} => Running(r) \/ pc[r] = "returned"

\* Calls that are under way together have different keys, so one call at most can
\* get a key's transaction landed, and it is still afloat when it has been.
OnceInv ==
  /\ \A r \in Requests : OnceOf(r)
  /\ \A q, r \in Requests : q # r /\ Running(q) /\ Running(r) => opts[q].key # opts[r].key
  /\ \A q, r \in Requests : q # r =>
       \A s \in afloat[q], t \in afloat[r] : s.key # t.key
  /\ \A s \in Processed : \E r \in Requests : s \in afloat[r]

\* No call has started.
LEMMA InitOnce == Init => OnceInv
BY DEF Init, OnceInv, OnceOf, Running, Awaiting, Processed

\* A patient caller's call is not aborted and not lost, and uses the rpc path.
LEMMA Patient ==
  ASSUME PatientCallers, TypeInv, NEW r \in Requests
  PROVE  ~Aborted(r) /\ (pc[r] # "idle" => ~ViaBundle(r))
BY DEF PatientCallers, TypeInv, TypeOK, Aborted, ViaBundle

\* What a step of a call does to what it may still get landed: it adds a signature
\* for its own key before it waits for an answer, or drops the one the network has
\* refused.  A call that rejects has nothing afloat.
LEMMA AfloatStep ==
  ASSUME PatientCallers, TypeInv, SafetyInv, LandedInv, NEW r \in Requests, Step(r)
  PROVE  /\ UNCHANGED <<landed, reverted>>
         /\ \/ /\ afloat' = afloat
               /\ pc'[r] = "thrown" => afloat[r] = {}
            \/ /\ pc'[r] # "thrown" /\ pc[r] = "sending"
               /\ afloat' = [afloat EXCEPT ![r] = @ \ {signed[r]}]
               /\ signed[r] \in Processed =>
                    \E q \in Requests \ {r} : signed[r] \in afloat[q]
            \/ /\ pc'[r] # "thrown" /\ pc[r] \in Open
               /\ \E s \in Signatures :
                    /\ s.key = opts[r].key
                    /\ afloat' = [afloat EXCEPT ![r] = @ \cup {s}]
<1>P. ~Aborted(r) /\ (pc[r] # "idle" => ~ViaBundle(r))
  BY Patient
<1>T. pc \in [Requests -> PcTypes]
  BY DEF TypeInv, TypeOK, PcTypes
<1>1. CASE SignReturns(r) \/ ResignReturns(r)
  <2>1. /\ pc' = [pc EXCEPT ![r] = "sending"]
        /\ afloat' = [afloat EXCEPT ![r] = @ \cup {Sign(r)}]
        /\ pc[r] \in Open /\ UNCHANGED <<landed, reverted>>
    BY <1>1, <1>P DEF SignReturns, ResignReturns, SubmitSigned, Submit, Goto, Open,
                      Awaiting, netVars
  <2>2. Sign(r) \in Signatures /\ Sign(r).key = opts[r].key
    <3>1. pc[r] # "idle"
      BY <2>1 DEF Open, Awaiting
    <3> QED
      BY <3>1, SignType DEF Sign, TypeInv
  <2> QED
    BY <1>T, <2>1, <2>2
<1>2. CASE BackoffElapses(r)
  <2>1. /\ pc' = [pc EXCEPT ![r] = "sending"] /\ pc[r] = "backoff"
        /\ afloat' = [afloat EXCEPT ![r] = @ \cup {signed[r]}]
        /\ UNCHANGED <<landed, reverted>>
    BY <1>2 DEF BackoffElapses, Submit, Goto, netVars
  <2>2. signed[r] \in Signatures /\ signed[r].key = opts[r].key
    BY <2>1 DEF TypeInv, TypeOK, LandedInv, LandedOf, Submitted
  <2> QED
    BY <1>T, <2>1, <2>2 DEF Open, Awaiting
<1>3. CASE SendRateLimited(r) \/ SendExpired(r)
  <2>1. /\ pc[r] = "sending" /\ Refused(r) /\ UNCHANGED <<landed, reverted>>
        /\ \E x \in {"storing", "backoff", "refreshing"} : pc' = [pc EXCEPT ![r] = x]
    BY <1>3, <1>P DEF SendRateLimited, SendExpired, Expire, Settle, Goto, netVars
  <2> QED
    BY <1>T, <2>1 DEF Refused
<1>4. CASE PortRaises(r)
  <2>1. /\ pc[r] \in {"simulating", "pricing", "signing", "refreshing", "resigning"}
        /\ UNCHANGED <<afloat, landed, reverted>>
    BY <1>4, <1>P DEF PortRaises, netVars
  <2>2. afloat[r] = {}
    BY <1>P, <2>1 DEF SafetyInv, SafeCall, GatesPassed, OnlyLastAfloat
  <2> QED
    BY <2>1, <2>2
<1>5. CASE /\ ~SignReturns(r) /\ ~ResignReturns(r) /\ ~BackoffElapses(r)
           /\ ~SendRateLimited(r) /\ ~SendExpired(r) /\ ~PortRaises(r)
  <2>1. ~BackoffInterrupted(r) /\ ~SendInterrupted(r) /\ ~BundleUnsigned(r)
    BY <1>P DEF BackoffInterrupted, SendInterrupted, BundleUnsigned
  <2>2. UNCHANGED <<afloat, landed, reverted>>
    BY <1>5, <2>1 DEF Step, Begin, SimulateReturns, FeeReturns, SendAccepted,
                      SendFails, RefreshReturns, ConfirmOk, ConfirmErr, Store, netVars
  <2>3. \E x \in PcTypes \ {"thrown"} : pc' = [pc EXCEPT ![r] = x]
    BY <1>5, <1>P, <2>1 DEF Step, Begin, SimulateReturns, FeeReturns, SendAccepted,
                            SendFails, RefreshReturns, ConfirmOk, ConfirmErr, Store,
                            Enter, Settle, Goto, PcTypes, Awaiting, Ended
  <2> QED
    BY <1>T, <2>2, <2>3
<1> QED
  BY <1>1, <1>2, <1>3, <1>4, <1>5

\* While a call is under way, nobody else can get its key's transaction landed.
LEMMA NobodyElse ==
  ASSUME OnceInv, NEW r \in Requests, Running(r), NEW q \in Requests, q # r,
         NEW s \in afloat[q]
  PROVE  s.key # opts[r].key
BY DEF OnceInv, OnceOf

\* A step of one call that neither answers nor touches the cache keeps the invariant.
LEMMA CallOnce ==
  ASSUME PatientCallers, TypeInv, SafetyInv, LandedInv, OnceInv,
         NEW r \in Requests, Step(r), Running(r), UNCHANGED <<opts, cache>>,
         \E x \in Awaiting \cup {"thrown"} : pc' = [pc EXCEPT ![r] = x],
         pc'[r] = "storing" => result'[r] # NoResult,
         \A q \in Requests \ {r} : result'[q] = result[q]
  PROVE  OnceInv'
<1>T. pc \in [Requests -> PcTypes] /\ afloat \in [Requests -> SUBSET Signatures]
  BY DEF TypeInv, TypeOK, PcTypes
<1>1. /\ pc'[r] \in Awaiting \cup {"thrown"}
      /\ \A q \in Requests \ {r} : pc'[q] = pc[q]
  BY <1>T
<1>2. \A q \in Requests : Running(q)' => Running(q)
  BY <1>1 DEF Running
<1>3. UNCHANGED Processed
  BY AfloatStep DEF Processed
<1>4. \A q \in Requests \ {r} : afloat'[q] = afloat[q]
  BY <1>T, AfloatStep
<1>5. \A s \in afloat'[r] : s \in afloat[r] \/ s.key = opts[r].key
  BY <1>T, AfloatStep
<1>6. \A s \in afloat'[r] : s.key = opts[r].key
  BY <1>5 DEF OnceInv, OnceOf
<1>7. afloat'[r] # {} => Running(r)'
  <2>1. pc'[r] = "thrown" => afloat'[r] = {}
    BY AfloatStep
  <2> QED
    BY <1>1, <2>1 DEF Running
<1>8. \A q \in Requests : OnceOf(q)'
  <2>1. OnceOf(r)'
    <3>1. Running(r)' => cache'[opts'[r].key] = NoResult
      BY DEF OnceInv, OnceOf
    <3>2. pc'[r] # "returned"
      BY <1>1 DEF Awaiting
    <3> QED
      BY <1>6, <1>7, <3>1, <3>2 DEF OnceOf
  <2>2. ASSUME NEW q \in Requests \ {r} PROVE OnceOf(q)'
    <3>1. OnceOf(q) /\ (Running(q) <=> Running(q)')
      BY <1>1 DEF OnceInv, Running
    <3> QED
      BY <1>1, <1>4, <3>1 DEF OnceOf
  <2> QED
    BY <2>1, <2>2
<1>9. \A q, u \in Requests : q # u =>
        \A s \in afloat'[q], t \in afloat'[u] : s.key # t.key
  <2>1. ASSUME NEW q \in Requests \ {r}, NEW s \in afloat[q], NEW t \in afloat'[r]
        PROVE  s.key # t.key
    BY <1>6, <2>1, NobodyElse
  <2>2. \A q, u \in Requests \ {r} : q # u =>
          \A s \in afloat'[q], t \in afloat'[u] : s.key # t.key
    BY <1>4 DEF OnceInv
  <2> QED
    BY <1>4, <2>1, <2>2
<1>10. \A s \in Processed : \E q \in Requests : s \in afloat'[q]
  <2>1. ASSUME NEW s \in Processed, NEW q \in Requests, s \in afloat[q], s \notin afloat'[q]
        PROVE  FALSE
    <3>1. q = r
      BY <1>4, <2>1
    <3>2. /\ s = signed[r]
          /\ \E u \in Requests \ {r} : s \in afloat[u]
      BY <1>T, <2>1, <3>1, AfloatStep
    <3> QED
      BY <2>1, <3>1, <3>2 DEF OnceInv
  <2> QED
    BY <2>1 DEF OnceInv
<1>11. \A q, u \in Requests : q # u /\ Running(q)' /\ Running(u)' => opts'[q].key # opts'[u].key
  BY <1>2 DEF OnceInv
<1> QED
  BY <1>3, <1>8, <1>9, <1>10, <1>11 DEF OnceInv

\* A result says yes or no, and a failure names no signature.
LEMMA VerdictKinds ==
  \A x \in Results : /\ x.ok \in BOOLEAN
                     /\ x.signature \in Signatures \cup {NoSignature}
                     /\ ~x.ok => x.signature = NoSignature
<1> SUFFICES ASSUME NEW x \in Results
             PROVE  /\ x.ok \in BOOLEAN
                    /\ x.signature \in Signatures \cup {NoSignature}
                    /\ ~x.ok => x.signature = NoSignature
  OBVIOUS
<1>1. CASE \E t \in Signatures : x = Ok(t)
  BY <1>1 DEF Ok
<1>2. CASE \E c \in Codes : x = Err(c)
  <2>1. \A c \in Codes : Err(c).ok = FALSE /\ Err(c).signature = NoSignature
    BY DEF Err
  <2> QED
    BY <1>2, <2>1
<1> QED
  BY <1>1, <1>2 DEF Results

\* What the cache gives back has the verdict and the signature that went in.
LEMMA SameVerdict ==
  \A x \in Results : /\ deserializeResult(x).ok = x.ok
                     /\ deserializeResult(x).signature = x.signature
BY VerdictKinds DEF deserializeResult, Err

\* The handlers, the cache and the chain keep one call per key at work.
LEMMA OnceStep ==
  ASSUME PatientCallers
  PROVE  TypeInv /\ SafetyInv /\ LogInv /\ LandedInv /\ OnceInv /\ [Next]_vars => OnceInv'
<1> SUFFICES ASSUME TypeInv, SafetyInv, LogInv, LandedInv, OnceInv, [Next]_vars
             PROVE  OnceInv'
  OBVIOUS
<1>T. /\ pc \in [Requests -> PcTypes] /\ DOMAIN result = Requests
      /\ DOMAIN opts = Requests /\ DOMAIN cache = Keys
      /\ \A r \in Requests : pc[r] # "idle" => opts[r].key \in Keys
  BY DEF TypeInv, TypeOK, PcTypes
<1>1. ASSUME NEW r \in Requests, Step(r), ~Store(r) PROVE OnceInv'
  <2>1. CASE Quiet(r)
    <3>1. /\ Running(r) /\ UNCHANGED <<opts, cache, result>>
          /\ pc' = [pc EXCEPT ![r] = pc'[r]]
          /\ pc'[r] \in Awaiting \cup {"thrown"} /\ pc'[r] # "storing"
      BY <2>1 DEF Quiet, Running, Open
    <3> QED
      BY <1>1, <3>1, CallOnce
  <2>2. CASE Settles(r)
    <3>1. /\ Running(r) /\ UNCHANGED <<opts, cache>>
          /\ pc' = [pc EXCEPT ![r] = "storing"]
      BY <2>2 DEF Settles, Running, Open
    <3>2. /\ result'[r] # NoResult
          /\ \A q \in Requests \ {r} : result'[q] = result[q]
      BY <1>T, <2>2, ResultKinds DEF Settles
    <3> QED
      BY <1>1, <3>1, <3>2, CallOnce DEF Awaiting
  <2> QED
    BY <1>1, <2>1, <2>2, OpenStep
<1>2. ASSUME NEW r \in Requests, Store(r) PROVE OnceInv'
  <2>1. /\ pc[r] = "storing" /\ pc' = [pc EXCEPT ![r] = "returned"]
        /\ cache' = [cache EXCEPT ![opts[r].key] = result[r]]
        /\ UNCHANGED <<opts, result, afloat, landed, reverted>>
    BY <1>2 DEF Store, Goto, serializeResult, netVars
  <2>2. /\ Running(r) /\ opts[r].key \in Keys /\ result[r] # NoResult
        /\ cache[opts[r].key] = NoResult
    BY <1>T, <2>1 DEF Running, Awaiting, OnceInv, OnceOf
  <2>3. /\ cache'[opts[r].key] = result[r]
        /\ \A k \in Keys : k # opts[r].key => cache'[k] = cache[k]
    BY <1>T, <2>1, <2>2
  <2>4. /\ pc'[r] = "returned" /\ ~Running(r)'
        /\ \A q \in Requests \ {r} : pc'[q] = pc[q] /\ (Running(q)' <=> Running(q))
    BY <1>T, <2>1 DEF Running, Awaiting
  <2>5. ASSUME NEW q \in Requests \ {r} PROVE OnceOf(q)'
    <3>1. OnceOf(q)
      BY DEF OnceInv
    <3>2. CASE Running(q)
      <4>1. opts[q].key # opts[r].key /\ opts[q].key \in Keys /\ pc[q] # "returned"
        BY <1>T, <2>2, <3>2 DEF OnceInv, Running, Awaiting
      <4> QED
        BY <2>1, <2>3, <2>4, <3>1, <4>1 DEF OnceOf
    <3>3. CASE pc[q] = "returned"
      <4>1. opts[q].key # opts[r].key /\ opts[q].key \in Keys /\ ~Running(q)
        BY <1>T, <2>2, <3>1, <3>3 DEF OnceOf, Running, Awaiting
      <4> QED
        BY <2>1, <2>3, <2>4, <3>1, <4>1 DEF OnceOf
    <3>4. CASE ~Running(q) /\ pc[q] # "returned"
      BY <2>1, <2>4, <3>1, <3>4 DEF OnceOf, Running, Awaiting
    <3> QED
      BY <3>2, <3>3, <3>4
  <2>6. OnceOf(r)'
    BY <2>1, <2>2, <2>3, <2>4 DEF OnceInv, OnceOf
  <2>7. UNCHANGED Processed
    BY <2>1 DEF Processed
  <2> QED
    BY <2>1, <2>4, <2>5, <2>6, <2>7 DEF OnceInv
<1>3. ASSUME NEW r \in Requests, NEW o \in Options, NEW b \in Recent, Call(r, o, b)
      PROVE  OnceInv'
  <2>1. /\ pc[r] = "idle" /\ opts' = [opts EXCEPT ![r] = o]
        /\ UNCHANGED <<cache, afloat, landed, reverted>>
        /\ \A q \in Requests : Running(q) => opts[q].key # o.key
    BY <1>3 DEF Call, netVars, PatientCallers
  <2>2. \/ /\ pc' = [pc EXCEPT ![r] = "returned"] /\ cache[o.key] # NoResult
           /\ result' = [result EXCEPT ![r] = deserializeResult(cache[o.key])]
        \/ /\ pc' = [pc EXCEPT ![r] = "begin"] /\ cache[o.key] = NoResult
           /\ result' = result
    BY <1>3 DEF Call, Goto
  <2>3. opts'[r] = o /\ \A q \in Requests \ {r} :
          /\ pc'[q] = pc[q] /\ result'[q] = result[q] /\ opts'[q] = opts[q]
          /\ (Running(q)' <=> Running(q))
    BY <1>T, <2>1, <2>2 DEF Running
  <2>4. afloat[r] = {}
    BY <2>1 DEF SafetyInv, SafeCall, GatesPassed
  <2>5. OnceOf(r)'
    <3>1. CASE pc' = [pc EXCEPT ![r] = "returned"] /\ cache[o.key] # NoResult
      <4>1. pc'[r] = "returned" /\ ~Running(r)'
        BY <1>T, <3>1 DEF Running, Awaiting
      <4>2. result'[r] = deserializeResult(cache[o.key])
        BY <1>T, <2>2, <3>1
      <4>3. /\ deserializeResult(cache[o.key]).ok = cache[o.key].ok
            /\ deserializeResult(cache[o.key]).signature = cache[o.key].signature
        BY <3>1, SameVerdict DEF TypeInv, TypeOK
      <4> QED
        BY <2>1, <2>3, <2>4, <3>1, <4>1, <4>2, <4>3 DEF OnceOf
    <3>2. CASE pc' = [pc EXCEPT ![r] = "begin"] /\ cache[o.key] = NoResult
      BY <1>T, <2>1, <2>3, <2>4, <3>2 DEF OnceOf, Running, Awaiting
    <3> QED
      BY <2>2, <3>1, <3>2
  <2>6. \A q \in Requests \ {r} : OnceOf(q)'
    BY <2>1, <2>3 DEF OnceInv, OnceOf
  <2>7. UNCHANGED Processed
    BY <2>1 DEF Processed
  <2> QED
    BY <2>1, <2>3, <2>5, <2>6, <2>7 DEF OnceInv
<1>4. ASSUME NEW s \in Signatures, Process(s) PROVE OnceInv'
  <2>1. /\ UNCHANGED <<pc, opts, result, cache, afloat>>
        /\ Processed' = Processed \cup {s}
        /\ \E r \in Requests : s \in afloat[r]
    BY <1>4 DEF Process, Processed, callVars
  <2> QED
    BY <2>1 DEF OnceInv, OnceOf, Running
<1>5. CASE NewBlockhash \/ UNCHANGED vars
  <2>1. UNCHANGED <<pc, opts, result, cache, afloat, landed, reverted>>
    BY <1>5 DEF NewBlockhash, vars, callVars, netVars
  <2> QED
    BY <2>1 DEF OnceInv, OnceOf, Running, Processed
<1>6. /\ ~\E k \in Keys : ExpireEntry(k)
      /\ ~Restart
      /\ ~\E r \in Requests, reason \in AbortReasons : Abort(r, reason)
  BY DEF PatientCallers, ExpireEntry, Restart, TypeInv, TypeOK
<1> QED
  BY <1>1, <1>2, <1>3, <1>4, <1>5, <1>6 DEF Next

\* Every step that has a call answered is an answer of the abstract promise, a
\* transaction's taking effect is one, and the rest are stutters.
LEMMA OnceSimulates ==
  ASSUME PatientCallers
  PROVE  TypeInv /\ SafetyInv /\ LogInv /\ LandedInv /\ OnceInv /\ [Next]_vars
           => [Once!Next]_<<Processed, answersOfCalls>>
<1> SUFFICES ASSUME TypeInv, SafetyInv, LogInv, LandedInv, OnceInv, [Next]_vars
             PROVE  Once!Next \/ UNCHANGED <<Processed, answersOfCalls>>
  OBVIOUS
<1>T. /\ pc \in [Requests -> PcTypes] /\ DOMAIN result = Requests
      /\ DOMAIN opts = Requests /\ cache \in [Keys -> Results \cup {NoResult}]
      /\ result \in [Requests -> Results \cup {NoResult}]
      /\ \A r \in Requests : pc[r] # "idle" => opts[r].key \in Keys
  BY DEF TypeInv, TypeOK, PcTypes
<1>1. ASSUME NEW r \in Requests,
             pc[r] # "returned", pc' = [pc EXCEPT ![r] = "returned"],
             opts'[r].key \in Keys, result'[r] \in Results,
             \A q \in Requests \ {r} : opts'[q] = opts[q] /\ result'[q] = result[q],
             Processed' = Processed,
             result'[r].ok => result'[r].signature \in Processed
                                /\ result'[r].signature.key = opts'[r].key,
             \A q \in Requests : pc[q] = "returned" /\ opts[q].key = opts'[r].key =>
               /\ result[q].ok = result'[r].ok
               /\ result[q].signature = result'[r].signature
      PROVE  Once!Next
  <2>1. /\ result'[r].ok \in BOOLEAN
        /\ result'[r].signature \in Signatures \cup {NoSignature}
    BY <1>1, VerdictKinds
  <2>2. answersOfCalls[r] = Once!NoAnswer
    BY <1>1 DEF answersOfCalls, Answered, Once!NoAnswer
  <2>3. \A q \in Requests :
          answersOfCalls[q] # Once!NoAnswer /\ answersOfCalls[q].key = opts'[r].key =>
            /\ answersOfCalls[q].ok = result'[r].ok
            /\ answersOfCalls[q].signature = result'[r].signature
    BY <1>1 DEF answersOfCalls, Answered, Once!NoAnswer
  <2>4. answersOfCalls' =
          [answersOfCalls EXCEPT ![r] =
             [key |-> opts'[r].key, ok |-> result'[r].ok,
              signature |-> result'[r].signature]]
    <3>1. /\ pc'[r] = "returned"
          /\ \A q \in Requests \ {r} : pc'[q] = pc[q]
      BY <1>T, <1>1
    <3> QED
      BY <1>1, <3>1 DEF answersOfCalls, Answered
  <2>5. Once!Answer(r, opts'[r].key, result'[r].ok, result'[r].signature)
    BY <1>1, <2>2, <2>3, <2>4 DEF Once!Answer
  <2> QED
    BY <1>1, <2>1, <2>5 DEF Once!Next
<1>2. ASSUME NEW r \in Requests, Step(r), ~Store(r)
      PROVE  UNCHANGED <<Processed, answersOfCalls>>
  <2>1. UNCHANGED Processed
    BY <1>2, AfloatStep DEF Processed
  <2>2. /\ pc[r] # "returned" /\ pc'[r] # "returned" /\ opts' = opts
        /\ \A q \in Requests \ {r} : pc'[q] = pc[q] /\ result'[q] = result[q]
    BY <1>T, <1>2, OpenStep DEF Quiet, Settles, Open, Awaiting
  <2>3. \A q \in Requests :
          /\ Answered(q)' <=> Answered(q)
          /\ Answered(q) => result'[q] = result[q]
    BY <2>2 DEF Answered
  <2> QED
    BY <2>1, <2>2, <2>3 DEF answersOfCalls
<1>3. ASSUME NEW r \in Requests, Store(r) PROVE Once!Next
  <2>1. /\ pc[r] = "storing" /\ pc' = [pc EXCEPT ![r] = "returned"]
        /\ UNCHANGED <<opts, result, landed, reverted>>
    BY <1>3 DEF Store, Goto, netVars
  <2>2. /\ opts[r].key \in Keys /\ result[r] \in Results
        /\ cache[opts[r].key] = NoResult
    BY <1>T, <2>1 DEF Running, Awaiting, OnceInv, OnceOf
  <2>3. result[r].ok => result[r].signature \in Processed
                          /\ result[r].signature.key = opts[r].key
    BY <2>1 DEF LandedInv, LandedOf, TrueAnswer, Processed
  <2>4. \A q \in Requests : pc[q] = "returned" => opts[q].key # opts[r].key
    BY <2>2 DEF OnceInv, OnceOf
  <2>5. Processed' = Processed
    BY <2>1 DEF Processed
  <2> QED
    BY <1>1, <2>1, <2>2, <2>3, <2>4, <2>5
<1>4. ASSUME NEW r \in Requests, NEW o \in Options, NEW b \in Recent, Call(r, o, b)
      PROVE  Once!Next \/ UNCHANGED <<Processed, answersOfCalls>>
  <2>1. /\ pc[r] = "idle" /\ opts' = [opts EXCEPT ![r] = o]
        /\ UNCHANGED <<landed, reverted>> /\ o.key \in Keys
    BY <1>4 DEF Call, netVars
  <2>2. CASE cache[o.key] # NoResult
    <3>1. /\ pc' = [pc EXCEPT ![r] = "returned"]
          /\ result' = [result EXCEPT ![r] = deserializeResult(cache[o.key])]
      BY <1>4, <2>2 DEF Call, Goto
    <3>2. cache[o.key] \in Results
      BY <1>T, <2>1, <2>2
    <3>3. /\ opts'[r].key = o.key
          /\ result'[r] = deserializeResult(cache[o.key])
          /\ \A q \in Requests \ {r} : opts'[q] = opts[q] /\ result'[q] = result[q]
      BY <1>T, <2>1, <3>1
    <3>4. /\ result'[r] \in Results /\ result'[r].ok = cache[o.key].ok
          /\ result'[r].signature = cache[o.key].signature
      BY <2>2, <3>2, <3>3, SameVerdict, ResultType
    <3>5. result'[r].ok => result'[r].signature \in Processed
                             /\ result'[r].signature.key = opts'[r].key
      BY <2>1, <3>3, <3>4 DEF LandedInv, TrueAnswer, Processed
    <3>6. \A q \in Requests : pc[q] = "returned" /\ opts[q].key = opts'[r].key =>
            /\ result[q].ok = result'[r].ok
            /\ result[q].signature = result'[r].signature
      BY <3>3, <3>4 DEF OnceInv, OnceOf
    <3>7. pc[r] # "returned" /\ opts'[r].key \in Keys /\ Processed' = Processed
      BY <2>1, <3>3 DEF Processed
    <3> QED
      BY <1>1, <3>1, <3>3, <3>4, <3>5, <3>6, <3>7
  <2>3. CASE cache[o.key] = NoResult
    <3>1. pc' = [pc EXCEPT ![r] = "begin"] /\ result' = result
      BY <1>4, <2>3 DEF Call, Goto
    <3>2. \A q \in Requests :
            /\ Answered(q)' <=> Answered(q)
            /\ Answered(q) => opts'[q] = opts[q]
      BY <1>T, <2>1, <3>1 DEF Answered
    <3> QED
      BY <2>1, <3>1, <3>2 DEF answersOfCalls, Processed
  <2> QED
    BY <2>2, <2>3
<1>5. ASSUME NEW s \in Signatures, Process(s) PROVE Once!Next
  <2>1. /\ UNCHANGED <<pc, opts, result>> /\ Processed' = Processed \cup {s}
        /\ s \notin Processed
    BY <1>5 DEF Process, Processed, callVars
  <2>2. PICK r \in Requests : s \in afloat[r]
    BY <1>5 DEF Process
  <2>3. ASSUME NEW e \in Processed, e.key = s.key PROVE FALSE
    <3>1. PICK q \in Requests : e \in afloat[q]
      BY DEF OnceInv
    <3>2. q = r
      BY <2>2, <2>3, <3>1 DEF OnceInv
    <3>3. pc[r] # "idle"
      BY <2>2 DEF SafetyInv, SafeCall, GatesPassed
    <3>4. e = s
      BY <2>2, <3>1, <3>2, <3>3, Patient DEF SafetyInv, SafeCall, OnlyLastAfloat
    <3> QED
      BY <2>1, <3>4
  <2>4. UNCHANGED answersOfCalls
    BY <2>1 DEF answersOfCalls, Answered
  <2> QED
    BY <2>1, <2>3, <2>4 DEF Once!Next, Once!TakeEffect
<1>6. CASE NewBlockhash \/ UNCHANGED vars
  BY <1>6 DEF NewBlockhash, vars, callVars, netVars, answersOfCalls, Answered, Processed
<1>7. /\ ~\E k \in Keys : ExpireEntry(k)
      /\ ~Restart
      /\ ~\E r \in Requests, reason \in AbortReasons : Abort(r, reason)
  BY DEF PatientCallers, ExpireEntry, Restart, TypeInv, TypeOK
<1> QED
  BY <1>2, <1>3, <1>4, <1>5, <1>6, <1>7 DEF Next

\* For callers that wait, keep their process and do not abort, the pipeline implements
\* one payment and one verdict per key: no two transactions of a key take effect, a
\* success names the one that did, and every repetition is answered as the first.
THEOREM OnePaymentPerKey ==
  ASSUME PatientCallers
  PROVE  Spec => ImplementsOncePerKey
<1>1. Init => Once!Init
  BY DEF Init, Once!Init, Once!NoAnswer, answersOfCalls, Answered, Processed
<1> QED
  BY <1>1, InitAnswers, TypeInit, TypeStep, SafetyInit, SafetyStep, LogStep, LandedStep,
     InitOnce, OnceStep, OnceSimulates, PTL DEF Spec, ImplementsOncePerKey, Once!Spec

=============================================================================
