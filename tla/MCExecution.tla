---------------------------- MODULE MCExecution ----------------------------
(* An instance of Execution for TLC: one contract, and others it creates; gas for a few steps. *)
EXTENDS Execution

MCContracts == {<<"A">>}
MCCost == [warm |-> 1, cold |-> 2, coldSload |-> 2, set |-> 5, reset |-> 4, clears |-> 3, sentry |-> 0,
           value |-> 2, stipend |-> 1, newAccount |-> 2, precompile |-> 1, log |-> 1, create |-> 2,
           codeDeposit |-> 1, destruct |-> 1, refundQuotient |-> 5]
=============================================================================
