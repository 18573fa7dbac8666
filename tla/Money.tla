------------------------------- MODULE Money -------------------------------
(***************************************************************************)
(* The sums of money in the order and payment services: int64 in Go and    *)
(* BIGINT in PostgreSQL, where a sum that does not fit wraps round.        *)
(* Quantities are INTEGER in PostgreSQL, which refuses what does not fit.  *)
(* The largest values are parameters, 2^63 - 1 and 2^31 - 1 in the code.   *)
(***************************************************************************)
EXTENDS Integers, SequencesExt

CONSTANTS MaxCents, MaxQuantity

ASSUME WidthsAssumption == MaxCents \in Nat /\ MaxQuantity \in Nat

Cents == -(MaxCents + 1) .. MaxCents
Wrap(n) == ((n + (MaxCents + 1)) % (2 * (MaxCents + 1))) - (MaxCents + 1)

FitsQuantity(quantity) == quantity <= MaxQuantity

Price(item) == item.quantity * item.price

(* Mutant of Total: the sum is kept in the width of a quantity.             *)
NarrowTotal(items) ==
  FoldSeq(LAMBDA item, sum : (sum + Price(item)) % (2 * (MaxQuantity + 1)), 0, items)

(* The total the order service stores. *)
Total(items) == FoldSeq(LAMBDA item, sum : Wrap(sum + Wrap(Price(item))), 0, items)

(* The amount the payment service decides on and records. *)
ChargedAmount(items) == FoldSeq(LAMBDA item, sum : Wrap(sum + Wrap(Price(item))), 0, items)

(* What the items cost. *)
ExactTotal(items) == FoldSeq(LAMBDA item, sum : sum + Price(item), 0, items)
=============================================================================
