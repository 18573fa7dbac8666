------------------------------- MODULE Events -------------------------------
(***************************************************************************)
(* The event envelopes the services exchange.  An event's id is its        *)
(* parent's id with the suffix of the service that reacts to it, so that   *)
(* handling the same event twice makes the same id again: the id is the    *)
(* sequence of those suffixes.  Times, correlation ids and trace parents   *)
(* are left out, and so are the payload fields nobody reads.               *)
(***************************************************************************)
EXTENDS Naturals, Sequences

(* The event POST /api/orders writes, order.ID + "-created". *)
CreatedEvent(o, items) ==
  [id |-> <<o, "created">>, type |-> "order.created", order |-> o, items |-> items]

(* The event a service writes while it handles src. *)
FollowUp(src, suffix, type, items) ==
  [id |-> Append(src.id, suffix), type |-> type, order |-> src.order, items |-> items]

(* The topic a service publishes to: all its events go to one. *)
TopicOf(type) ==
  CASE type \in {"order.created", "order.confirmed", "order.cancelled"} -> "orders"
    [] type \in {"inventory.reserved", "inventory.rejected", "inventory.released"} -> "inventory"
    [] type \in {"payment.authorized", "payment.failed"} -> "payments"
=============================================================================
