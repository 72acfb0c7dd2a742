------------------------------- MODULE MCTxPool -------------------------------
(* Two senders; the first has four transactions of one nonce, so that one  *)
(* can replace another or wait beside it, one of them too dear for it, and *)
(* one of the next nonce; the first transaction of the second sender       *)
(* creates a contract and takes two nonces.                                *)
EXTENDS TxPool

CONSTANTS a, b

Tx(id, from, n, price, gas, value, fpb, creates) ==
    [id |-> id, from |-> from, nonce |-> n, price |-> price, gas |-> gas,
     value |-> value, feePerByte |-> fpb, creates |-> creates]

MCTxs == {Tx(1, a, 0, 1, 1, 3, 1, FALSE), Tx(2, a, 0, 2, 1, 0, 2, FALSE),
          Tx(3, a, 1, 2, 1, 0, 2, FALSE), Tx(4, b, 0, 1, 1, 2, 2, TRUE),
          Tx(5, b, 2, 3, 1, 0, 2, FALSE), Tx(6, a, 0, 3, 2, 0, 2, FALSE),
          Tx(7, a, 0, 3, 1, 0, 2, FALSE)}
=============================================================================
