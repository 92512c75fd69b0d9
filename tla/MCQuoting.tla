------------------------------- MODULE MCQuoting -------------------------------
(***************************************************************************)
(* Small instances of Quoting: three quotes answer the request for quotes, *)
(* of which a page has two; the oldest has no revision, the second may get *)
(* another one.  A rental of two pieces, a sale and a service.             *)
(***************************************************************************)
EXTENDS Quoting, TLC

CONSTANTS r1, r2, r3, k1, k2

MCQuoteOf == (r1 :> 2) @@ (r2 :> 2) @@ (r3 :> 3)

L(n, k, type, priced) ==
    [id |-> n, key |-> k, type |-> type, quantity |-> 2, priced |-> priced]

MCStartItems == {L(1, k1, "RENTAL", TRUE), L(2, k2, "SERVICE", TRUE)}
MCLineSets == {{L(0, k1, "RENTAL", FALSE)}, {L(0, k2, "SALE", TRUE)}}

Workers == Permutations(Worker)
===============================================================================
