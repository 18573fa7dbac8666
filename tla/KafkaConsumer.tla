--------------------------- MODULE KafkaConsumer ---------------------------
(***************************************************************************)
(* Consumer.Run of the inventory, payment, order and notification services:*)
(* fetch a message, hand it to the service, commit its offset.  One        *)
(* partition of one topic, read by the replicas of a service as a consumer *)
(* group with CommitInterval 0.                                            *)
(*                                                                         *)
(* The kafka-go reader is external and modelled as the loop relies on it:  *)
(* FetchMessage returns the message after the last one it returned, and    *)
(* starts again at the group's committed offset only when the partition is *)
(* assigned anew.  A member that lost the partition finishes the message   *)
(* it holds; whether the broker still takes its offset is left open.       *)
(*                                                                         *)
(* The service's handler is one database transaction that starts by        *)
(* reading processed_events and whose unique keys (event id, outbox id)    *)
(* refuse a second run; what it changes is not modelled here, only the     *)
(* order in which handlers commit.  InventoryService, PaymentService,      *)
(* OrderService and NotificationService model the transactions.            *)
(***************************************************************************)
EXTENDS Naturals, FiniteSets, Sequences, Functions

CONSTANTS
  Messages,      \* event ids that can appear on the partition
  Ignored,       \* undecodable messages and event types of no interest
  Members,       \* replicas in the consumer group
  NoMember,
  MaxLog,        \* bound: messages on the partition, copies included
  MaxErrors,     \* bound: handlers that fail
  MaxMoves       \* bound: rebalances, crashes and failed offset commits

ASSUME MessagesAssumption == Ignored \subseteq Messages /\ NoMember \notin Members
ASSUME BoundsAssumption == MaxLog \in Nat /\ MaxErrors \in Nat /\ MaxMoves \in Nat

VARIABLES
  log,           \* the partition
  committed,     \* the group's committed offset: messages 1..committed
  owner,         \* the member the partition is assigned to
  pos,           \* how far each member's reader has fetched
  at,            \* the offset of the message a member is working on
  phase,         \* where each member is in Run
  handled,       \* processed_events, in the order of the transactions
  errors,        \* handlers that have failed
  moves          \* how much of MaxMoves is used

vars == <<log, committed, owner, pos, at, phase, handled, errors, moves>>

Init ==
  /\ log = <<>>
  /\ committed = 0
  /\ owner = NoMember
  /\ pos = [m \in Members |-> 0]
  /\ at = [m \in Members |-> 0]
  /\ phase = [m \in Members |-> "fetch"]
  /\ handled = <<>>
  /\ errors = 0
  /\ moves = 0

-----------------------------------------------------------------------------
Goto(m, p) == phase' = [phase EXCEPT ![m] = p]

Move ==
  /\ moves < MaxMoves
  /\ moves' = moves + 1

(* The relay of the producing service delivers a message, maybe once more. *)
Produce(e) ==
  /\ Len(log) < MaxLog
  /\ log' = Append(log, e)
  /\ UNCHANGED <<committed, owner, pos, at, phase, handled, errors, moves>>

(* Mutant of Assign: a reader that starts at the end of the partition.      *)
AssignAtEnd(m) ==
  /\ \/ owner = NoMember /\ UNCHANGED moves
     \/ owner \in Members \ {m} /\ Move
  /\ owner' = m
  /\ pos' = [pos EXCEPT ![m] = Len(log)]
  /\ UNCHANGED <<log, committed, at, phase, handled, errors>>

(* The group coordinator gives the partition to m, whose reader starts at   *)
(* the committed offset.  Its Run loop may still hold an older message.     *)
Assign(m) ==
  /\ \/ owner = NoMember /\ UNCHANGED moves
     \/ owner \in Members \ {m} /\ Move
  /\ owner' = m
  /\ pos' = [pos EXCEPT ![m] = committed]
  /\ UNCHANGED <<log, committed, at, phase, handled, errors>>

(* Mutant of Fetch: ReadMessage, which commits the offset by itself.        *)
FetchAutoCommit(m) ==
  /\ phase[m] = "fetch" /\ owner = m
  /\ pos[m] < Len(log)
  /\ pos' = [pos EXCEPT ![m] = @ + 1]
  /\ at' = [at EXCEPT ![m] = pos[m] + 1]
  /\ committed' = pos[m] + 1
  /\ Goto(m, IF log[pos[m] + 1] \in Ignored THEN "commit" ELSE "check")
  /\ UNCHANGED <<log, owner, handled, errors, moves>>

(* FetchMessage, and the checks Run makes before it calls the handler: a    *)
(* message it cannot decode or does not want is only committed.             *)
Fetch(m) ==
  /\ phase[m] = "fetch" /\ owner = m
  /\ pos[m] < Len(log)
  /\ pos' = [pos EXCEPT ![m] = @ + 1]
  /\ at' = [at EXCEPT ![m] = pos[m] + 1]
  /\ Goto(m, IF log[pos[m] + 1] \in Ignored THEN "commit" ELSE "check")
  /\ UNCHANGED <<log, committed, owner, handled, errors, moves>>

(* The handler's transaction reads processed_events. *)
CheckProcessed(m) ==
  /\ phase[m] = "check"
  /\ Goto(m, IF log[at[m]] \in Range(handled) THEN "commit" ELSE "apply")
  /\ UNCHANGED <<log, committed, owner, pos, at, handled, errors, moves>>

(* Mutant of ApplyEvent: no unique key, the earlier look is trusted.        *)
ApplyEventNoKey(m) ==
  /\ phase[m] = "apply"
  /\ handled' = Append(handled, log[at[m]])
  /\ Goto(m, "commit")
  /\ UNCHANGED <<log, committed, owner, pos, at, errors, moves>>

(* The handler's transaction commits, unless another member handled the     *)
(* same event since it looked: then it meets a unique key and returns an    *)
(* error, or finds nothing left to do and returns nil.                      *)
ApplyEvent(m) ==
  /\ phase[m] = "apply"
  /\ \/ /\ log[at[m]] \notin Range(handled)
        /\ handled' = Append(handled, log[at[m]])
        /\ Goto(m, "commit")
     \/ /\ log[at[m]] \in Range(handled)
        /\ UNCHANGED handled
        /\ Goto(m, "fetch") \/ Goto(m, "commit")
  /\ UNCHANGED <<log, committed, owner, pos, at, errors, moves>>

(* The handler returns an error: Run logs it and goes on to fetch the next  *)
(* message.  The transaction may have committed before the answer was lost. *)
HandlerError(m) ==
  /\ phase[m] \in {"check", "apply"}
  /\ errors < MaxErrors
  /\ errors' = errors + 1
  /\ \/ UNCHANGED handled
     \/ /\ phase[m] = "apply" /\ log[at[m]] \notin Range(handled)
        /\ handled' = Append(handled, log[at[m]])
  /\ Goto(m, "fetch")
  /\ UNCHANGED <<log, committed, owner, pos, at, moves>>

(* Mutant of CommitMessages: the offset after the next message.             *)
CommitMessagesOffByOne(m) ==
  /\ phase[m] = "commit"
  /\ committed' = at[m] + 1
  /\ Goto(m, "fetch")
  /\ UNCHANGED <<log, owner, pos, at, handled, errors, moves>>

(* CommitMessages.  The broker stores the offset it is given, be it lower   *)
(* than the one it has.                                                     *)
CommitMessages(m) ==
  /\ phase[m] = "commit"
  /\ committed' = at[m]
  /\ Goto(m, "fetch")
  /\ UNCHANGED <<log, owner, pos, at, handled, errors, moves>>

(* CommitMessages returns an error, which Run logs or ignores. *)
CommitError(m) ==
  /\ phase[m] = "commit"
  /\ IF owner = m THEN Move ELSE UNCHANGED moves
  /\ Goto(m, "fetch")
  /\ UNCHANGED <<log, committed, owner, pos, at, handled, errors>>

(* The process dies and comes back as a member without the partition. *)
Crash(m) ==
  /\ owner = m \/ phase[m] # "fetch"
  /\ Move
  /\ owner' = IF owner = m THEN NoMember ELSE owner
  /\ Goto(m, "fetch")
  /\ UNCHANGED <<log, committed, pos, at, handled, errors>>

Run(m) ==
  \/ Fetch(m)
  \/ CheckProcessed(m)
  \/ ApplyEvent(m)
  \/ HandlerError(m)
  \/ CommitMessages(m)
  \/ CommitError(m)

Next ==
  \/ \E e \in Messages : Produce(e)
  \/ \E m \in Members : Run(m) \/ Assign(m) \/ Crash(m)

Spec == Init /\ [][Next]_vars

(* Run loops for ever; the coordinator assigns a partition nobody has. *)
Fairness ==
  /\ \A m \in Members : WF_vars(Run(m))
  /\ WF_vars(owner = NoMember /\ \E m \in Members : Assign(m))

FairSpec == Spec /\ Fairness

-----------------------------------------------------------------------------
TypeOK ==
  /\ log \in Seq(Messages)
  /\ committed \in 0..Len(log)
  /\ owner \in Members \cup {NoMember}
  /\ pos \in [Members -> 0..Len(log)]
  /\ at \in [Members -> 0..Len(log)]
  /\ phase \in [Members -> {"fetch", "check", "apply", "commit"}]
  /\ handled \in Seq(Messages)
  /\ errors \in 0..MaxErrors
  /\ moves \in 0..MaxMoves

(* However often an event is delivered, and whoever races on it, one        *)
(* transaction takes effect (processed_events and the outbox's key).        *)
AppliedOnce == IsInjective(handled)

Settled(e) == e \in Ignored \/ e \in Range(handled)

(* The offset of the group passes a message that was not handled only after *)
(* a handler failed on it: rebalances, crashes, duplicates, concurrent      *)
(* handlers and stale offset commits lose nothing.                          *)
LossesBounded == Cardinality({k \in 1..committed : ~Settled(log[k])}) <= errors

(* README.md:45 "Kafka offsets are committed only after successful          *)
(* handling."                                                               *)
CommittedOnlyAfterHandling == \A k \in 1..committed : Settled(log[k])

(* While no handler fails, the events take effect in the order of the       *)
(* partition, redeliveries and members that lost the partition included.    *)
HandledInOrder ==
  [][errors' = 0 /\ handled' # handled =>
       \E k \in DOMAIN log :
         /\ handled' = Append(handled, log[k])
         /\ \A j \in 1..k-1 : Settled(log[j])]_vars

(* Every event of interest takes effect in the end, unless a handler fails: *)
(* however often the partition moves, and though the offset committed for   *)
(* the group may go backwards, no event is starved or skipped.              *)
EventuallyHandled ==
  \A e \in Messages \ Ignored :
    (e \in Range(log)) ~> (e \in Range(handled) \/ errors > 0)
=============================================================================
