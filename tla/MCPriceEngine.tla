----------------------------- MODULE MCPriceEngine -----------------------------
(***************************************************************************)
(* A small instance of PriceEngine: prices around the degressive ones of   *)
(* 1, 3 and 9 cents, days up to past the second 28-day block, and terms    *)
(* that end before the start, on the first day, within and at a block.     *)
(***************************************************************************)
EXTENDS PriceEngine

MCRentalEnd == {-1, 0, 5, 27}
===============================================================================
