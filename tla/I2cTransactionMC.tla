-------------------------- MODULE I2cTransactionMC --------------------------
(***************************************************************************)
(* Two tasks, and transactions that are longer than the FIFOs or shorter.  *)
(***************************************************************************)
EXTENDS I2cTransaction

CONSTANTS a, b   \* the tasks

RequestsMC == {[w |-> 4, r |-> 0], [w |-> 0, r |-> 1], [w |-> 0, r |-> 5],
               [w |-> 2, r |-> 2]}

=============================================================================
