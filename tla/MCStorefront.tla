---------------------------- MODULE MCStorefront ----------------------------
(***************************************************************************)
(* The storefront in two tabs, the second of which is used once.           *)
(***************************************************************************)
EXTENDS Storefront

CONSTANTS t1, t2

MCMaxClicks == [t \in {t1, t2} |-> IF t = t1 THEN 2 ELSE 1]
=============================================================================
