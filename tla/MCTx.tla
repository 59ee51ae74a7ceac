-------------------------------- MODULE MCTx --------------------------------
(* Instances of TxPipeline small enough for TLC. *)
EXTENDS TxOncePerKey

Option(k, execute, via, priced) ==
  [key |-> k, execute |-> execute, via |-> via, priced |-> priced, budget |-> 2]
\* Every way to ask, and the ways that reach the network.
AllOptions == {Option(k, e, v, p) : k \in Keys, e \in BOOLEAN,
                                    v \in {"rpc", "jito"}, p \in BOOLEAN}
RpcOptions == {Option(k, TRUE, "rpc", TRUE) : k \in Keys}
JitoOptions == {Option(k, TRUE, "jito", FALSE) : k \in Keys}

\* Outflows below, at and above the budget, with the fee or the balance change
\* making the difference; a credit larger than the budget; a failure.
Sim(ok, delta, fee) == [ok |-> ok, delta |-> delta, fee |-> fee]
AllSimulations ==
  {Sim(TRUE, -1, 1), Sim(TRUE, -2, 1), Sim(TRUE, 3, 0), Sim(FALSE, 0, 1)}
GoodSimulation == {Sim(TRUE, -1, 1)}
=============================================================================
