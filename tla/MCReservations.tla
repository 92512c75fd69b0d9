---------------------------- MODULE MCReservations ----------------------------
(***************************************************************************)
(* Small instances of Reservations.                                        *)
(***************************************************************************)
EXTENDS Reservations, TLC

Symmetric == Permutations(Fulfilment) \cup Permutations(Worker)
===============================================================================
