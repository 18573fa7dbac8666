---------------------------- MODULE OutboxRelay ----------------------------
(***************************************************************************)
(* What the transactional outbox of the order, payment and inventory       *)
(* services promises to the rest of the system, without saying how the     *)
(* polling publisher does it.  A row of outbox_events is inserted by the   *)
(* transaction that changes the business state, is sent to its Kafka topic *)
(* at least once, and is marked published only after it has been sent.     *)
(*                                                                         *)
(* OutboxPublisher implements this specification; Checkout composes it     *)
(* with the services.                                                      *)
(***************************************************************************)
EXTENDS Sequences, Functions

CONSTANT Events          \* the outbox rows the service may ever insert

VARIABLES
  row,                   \* outbox_events: "absent", "pending" or "published"
  log                    \* the Kafka topic, in broker order

relayVars == <<row, log>>

RelayInit ==
  /\ row = [e \in Events |-> "absent"]
  /\ log = <<>>

(* The business transaction that inserts the row commits. *)
Insert(e) ==
  /\ row[e] = "absent"
  /\ row' = [row EXCEPT ![e] = "pending"]
  /\ UNCHANGED log

(* The broker accepts one copy of a committed row.  A row already marked   *)
(* may be sent again by a replica that loaded it before the mark.          *)
Send(e) ==
  /\ row[e] # "absent"
  /\ log' = Append(log, e)
  /\ UNCHANGED row

(* published_at is set, on a row whose event the broker has accepted. *)
Mark(e) ==
  /\ e \in Range(log)
  /\ row' = [row EXCEPT ![e] = "published"]
  /\ UNCHANGED log

RelayNext == \E e \in Events : Insert(e) \/ Send(e) \/ Mark(e)

RelaySpec == RelayInit /\ [][RelayNext]_relayVars
=============================================================================
