------------------------- MODULE MCOutboxPublisher -------------------------
(***************************************************************************)
(* A small instance of OutboxPublisher: the broker refuses the oldest row, *)
(* and the two others carry the same created_at, so that the query may     *)
(* return them in either order.                                            *)
(***************************************************************************)
EXTENDS OutboxPublisher

CONSTANTS refused, e1, e2

MCEvents == {refused, e1, e2}
MCPoison == {refused}
MCCreatedAt == [e \in MCEvents |-> IF e = refused THEN 1 ELSE 2]
=============================================================================
