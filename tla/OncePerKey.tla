----------------------------- MODULE OncePerKey -----------------------------
(***************************************************************************)
(* What an idempotency key promises: however often a caller repeats a call *)
(* with one key, at most one transaction takes effect, a success names a   *)
(* transaction that took effect, and every repetition gets the verdict of  *)
(* the first.                                                              *)
(***************************************************************************)
CONSTANTS Requests, Keys, Signatures,
          NoSignature  \* what an answer without a signature holds
VARIABLES effects,  \* signatures the chain processed
          answers   \* what each call returned

NoAnswer == [key |-> "none"]
Init == effects = {} /\ answers = [r \in Requests |-> NoAnswer]

TakeEffect(s) ==
  /\ \A e \in effects : e.key # s.key
  /\ effects' = effects \cup {s}
  /\ UNCHANGED answers

Answer(r, k, ok, s) ==
  /\ answers[r] = NoAnswer
  /\ ok => s \in effects /\ s.key = k
  /\ \A q \in Requests : answers[q] # NoAnswer /\ answers[q].key = k =>
       answers[q].ok = ok /\ answers[q].signature = s
  /\ answers' = [answers EXCEPT ![r] = [key |-> k, ok |-> ok, signature |-> s]]
  /\ UNCHANGED effects

Next ==
  \/ \E s \in Signatures : TakeEffect(s)
  \/ \E r \in Requests, k \in Keys, ok \in BOOLEAN,
        s \in Signatures \cup {NoSignature} : Answer(r, k, ok, s)

Spec == Init /\ [][Next]_<<effects, answers>>
=============================================================================
