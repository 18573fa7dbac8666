------------------------ MODULE NotificationService ------------------------
(***************************************************************************)
(* The notification service: NotificationService.HandleEvent and the one   *)
(* transaction of StoreDelivered, which records the event first and stores *)
(* the notification with its delivery attempt only when the event was new. *)
(***************************************************************************)
EXTENDS Sequences, Events

VARIABLES
  notifications, \* rows of notifications: source event, order and type
  processed      \* processed_events

vars == <<notifications, processed>>

Init == notifications = {} /\ processed = {}

Wanted(src) == src.type \in {"order.confirmed", "order.cancelled"}

StoreDelivered(src) ==
  \/ /\ src.id \in processed
     /\ UNCHANGED vars
  \/ /\ src.id \notin processed
     /\ processed' = processed \cup {src.id}
     /\ notifications' = notifications \cup
          {[source |-> src.id, order |-> src.order, type |-> src.type]}

(* HandleEvent returning nil: other types are accepted and ignored. *)
HandleEvent(src) ==
  \/ Wanted(src) /\ StoreDelivered(src)
  \/ ~Wanted(src) /\ UNCHANGED vars
=============================================================================
