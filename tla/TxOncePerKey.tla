---------------------------- MODULE TxOncePerKey ----------------------------
(***************************************************************************)
(* TxPipeline implements OncePerKey for callers that wait for an answer    *)
(* before they repeat a key, in a process that lives, with entries that do *)
(* not expire and signals that are not aborted.                            *)
(***************************************************************************)
EXTENDS TxPipeline

Answered(r) == pc[r] = "returned"
answersOfCalls ==
  [r \in Requests |->
    IF Answered(r)
      THEN [key |-> opts[r].key, ok |-> result[r].ok,
            signature |-> result[r].signature]
      ELSE [key |-> "none"]]

Once == INSTANCE OncePerKey WITH effects <- Processed, answers <- answersOfCalls

\* Every step of the pipeline is a step of the abstract promise or a stutter:
\* repeated calls with one key never pay twice and never disagree.
ImplementsOncePerKey == Once!Spec
=============================================================================
