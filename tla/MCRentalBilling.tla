---------------------------- MODULE MCRentalBilling ----------------------------
(***************************************************************************)
(* Small instances of RentalBilling: a day has two clock units, a billing  *)
(* period is one day, so that a second period, a part of one and a period  *)
(* of no calendar day all fit under a small clock.                         *)
(***************************************************************************)
EXTENDS RentalBilling, TLC

MCCalendarDay == [t \in Time |-> t \div 2]

Workers == Permutations(Worker)
===============================================================================
