------------------------------ MODULE MCInvoicing ------------------------------
(***************************************************************************)
(* Small instances of Invoicing.                                           *)
(***************************************************************************)
EXTENDS Invoicing, TLC

Symmetric == Permutations(Worker) \cup Permutations(Invoice) \cup Permutations(Charge)
===============================================================================
