-------------------------- MODULE OutboxPublisher --------------------------
(***************************************************************************)
(* The polling publisher of the transactional outbox: Publisher.Run and    *)
(* publishBatch with the three statements of OutboxRepository.  The order, *)
(* payment and inventory services each carry a copy of this code and run   *)
(* it in every replica of their deployment.                                *)
(*                                                                         *)
(* A replica reads a batch of unpublished rows, oldest first, with a plain *)
(* SELECT that locks nothing, and then, row by row, publishes to Kafka and *)
(* sets published_at.  Other replicas run between any two of those steps.  *)
(*                                                                         *)
(* Abstractions: one topic; the poll interval is the choice of when        *)
(* LoadBatch happens; a batch that cannot be loaded changes nothing and is *)
(* not a step.  Faults other than those on poison rows are at most         *)
(* MaxFaults: each write whose acknowledgement is lost is one, a write the *)
(* Kafka client repeats by itself included.  attempts is counted up to     *)
(* AttemptCap.                                                             *)
(***************************************************************************)
EXTENDS Naturals, FiniteSets, Sequences, SequencesExt

CONSTANTS
  Events,        \* the outbox rows the service may ever insert
  Poison,        \* rows the broker always refuses (no such topic, too large)
  CreatedAt,     \* created_at, taken before the inserting transaction commits
  Replicas,      \* replicas of the service, each with one publisher
  BatchSize,     \* LIMIT of the batch query
  MaxFaults,     \* bound: failed or ambiguous calls and crashes
  AttemptCap     \* bound: attempts is not counted further

ASSUME EventsAssumption == Poison \subseteq Events
ASSUME ReplicasAssumption == IsFiniteSet(Replicas)
ASSUME BoundsAssumption == /\ CreatedAt \in [Events -> Nat]
                           /\ BatchSize \in Nat \ {0}
                           /\ MaxFaults \in Nat
                           /\ AttemptCap \in Nat

VARIABLES
  row,           \* published_at of the committed rows, or "absent"
  attempts,      \* the attempts column
  log,           \* what the broker has accepted, in order
  pc,            \* where each replica is in publishBatch
  batch,         \* the rows of its batch it still has to handle
  faults         \* how much of the fault budget is used

vars == <<row, attempts, log, pc, batch, faults>>

Init ==
  /\ row = [e \in Events |-> "absent"]
  /\ attempts = [e \in Events |-> 0]
  /\ log = <<>>
  /\ pc = [r \in Replicas |-> "idle"]
  /\ batch = [r \in Replicas |-> <<>>]
  /\ faults = 0

-----------------------------------------------------------------------------
(* Mutants of Unpublished: a query without the condition on published_at,   *)
(* and one that reads rows of transactions that have not committed.         *)
UnpublishedNoWhere == {e \in Events : row[e] # "absent"}

UnpublishedDirtyRead == {e \in Events : row[e] # "published"}

(* SELECT ... WHERE published_at IS NULL ORDER BY created_at LIMIT n: every *)
(* answer the query may give, rows of equal created_at coming in any order. *)
Unpublished == {e \in Events : row[e] = "pending"}

Batches(S) ==
  {b \in BoundedSeq(S, BatchSize) :
     /\ IsInjective(b)
     /\ \A i, j \in DOMAIN b : i < j => CreatedAt[b[i]] <= CreatedAt[b[j]]
     /\ \A i \in DOMAIN b : \A e \in S \ ToSet(b) : CreatedAt[b[i]] <= CreatedAt[e]
     /\ Len(b) < BatchSize => ToSet(b) = S}

Fault ==
  /\ faults < MaxFaults
  /\ faults' = faults + 1

(* The replica is done with the head of its batch and turns to the next. *)
Advance(r) ==
  /\ batch' = [batch EXCEPT ![r] = Tail(@)]
  /\ pc' = [pc EXCEPT ![r] = IF Len(batch[r]) = 1 THEN "idle" ELSE "publish"]

(* A business transaction commits with its outbox row. *)
Insert(e) ==
  /\ row[e] = "absent"
  /\ row' = [row EXCEPT ![e] = "pending"]
  /\ UNCHANGED <<attempts, log, pc, batch, faults>>

LoadBatch(r) ==
  /\ pc[r] = "idle"
  /\ \E b \in Batches(Unpublished) :
       /\ b # <<>>
       /\ batch' = [batch EXCEPT ![r] = b]
  /\ pc' = [pc EXCEPT ![r] = "publish"]
  /\ UNCHANGED <<row, attempts, log, faults>>

PublishOk(r) ==
  /\ pc[r] = "publish"
  /\ Head(batch[r]) \notin Poison
  /\ log' = Append(log, Head(batch[r]))
  /\ pc' = [pc EXCEPT ![r] = "mark"]
  /\ UNCHANGED <<row, attempts, batch, faults>>

(* Inside Publish the Kafka client writes again when no acknowledgement     *)
(* came: the broker has a copy the publisher does not know of.              *)
PublishRetries(r) ==
  /\ pc[r] = "publish"
  /\ Head(batch[r]) \notin Poison
  /\ Fault
  /\ log' = Append(log, Head(batch[r]))
  /\ UNCHANGED <<row, attempts, pc, batch>>

(* Mutant of PublishError: the error is ignored and the row marked.         *)
PublishErrorIgnored(r) ==
  /\ pc[r] = "publish"
  /\ \/ /\ Head(batch[r]) \in Poison
        /\ UNCHANGED <<log, faults>>
     \/ /\ Head(batch[r]) \notin Poison
        /\ Fault
        /\ log' \in {log, Append(log, Head(batch[r]))}
  /\ pc' = [pc EXCEPT ![r] = "mark"]
  /\ UNCHANGED <<row, attempts, batch>>

(* Publish returns an error.  On a timeout the broker may have accepted the *)
(* message all the same.                                                    *)
PublishError(r) ==
  /\ pc[r] = "publish"
  /\ \/ /\ Head(batch[r]) \in Poison
        /\ UNCHANGED <<log, faults>>
     \/ /\ Head(batch[r]) \notin Poison
        /\ Fault
        /\ log' \in {log, Append(log, Head(batch[r]))}
  /\ pc' = [pc EXCEPT ![r] = "record"]
  /\ UNCHANGED <<row, attempts, batch>>

(* Mutants of RecordFailure: the count goes down, and publishBatch returns  *)
(* instead of going on.                                                     *)
RecordFailureDown(r) ==
  /\ pc[r] = "record"
  /\ attempts' = [attempts EXCEPT ![Head(batch[r])] = @ - 1]
  /\ Advance(r)
  /\ UNCHANGED <<row, log, faults>>

RecordFailureReturns(r) ==
  /\ pc[r] = "record"
  /\ pc' = [pc EXCEPT ![r] = "idle"]
  /\ batch' = [batch EXCEPT ![r] = <<>>]
  /\ UNCHANGED <<row, attempts, log, faults>>

(* attempts + 1; the error of this statement is ignored, and the loop goes  *)
(* on with the next row either way.                                         *)
RecordFailure(r) ==
  /\ pc[r] = "record"
  /\ LET e == Head(batch[r]) IN
       \/ attempts' = [attempts EXCEPT ![e] = IF @ < AttemptCap THEN @ + 1 ELSE @]
       \/ UNCHANGED attempts
  /\ Advance(r)
  /\ UNCHANGED <<row, log, faults>>

MarkPublished(r) ==
  /\ pc[r] = "mark"
  /\ row' = [row EXCEPT ![Head(batch[r])] = "published"]
  /\ Advance(r)
  /\ UNCHANGED <<attempts, log, faults>>

(* The UPDATE fails after the broker has accepted the message: the row      *)
(* stays unpublished and will be sent again.                                *)
MarkError(r) ==
  /\ pc[r] = "mark"
  /\ Fault
  /\ Advance(r)
  /\ UNCHANGED <<row, attempts, log>>

(* The process stops and starts again: the batch is gone. *)
Crash(r) ==
  /\ pc[r] # "idle"
  /\ Fault
  /\ pc' = [pc EXCEPT ![r] = "idle"]
  /\ batch' = [batch EXCEPT ![r] = <<>>]
  /\ UNCHANGED <<row, attempts, log>>

publishBatch(r) ==
  \/ LoadBatch(r)
  \/ PublishOk(r)
  \/ PublishRetries(r)
  \/ PublishError(r)
  \/ RecordFailure(r)
  \/ MarkPublished(r)
  \/ MarkError(r)

Next ==
  \/ \E e \in Events : Insert(e)
  \/ \E r \in Replicas : publishBatch(r) \/ Crash(r)

Spec == Init /\ [][Next]_vars

(* The ticker fires again and again, and a Kafka write or a statement       *)
(* returns, with success or with an error.                                  *)
Fairness == \A r \in Replicas : WF_vars(publishBatch(r))

FairSpec == Spec /\ Fairness

-----------------------------------------------------------------------------
TypeOK ==
  /\ row \in [Events -> {"absent", "pending", "published"}]
  /\ attempts \in [Events -> 0..AttemptCap]
  /\ log \in Seq(Events)
  /\ pc \in [Replicas -> {"idle", "publish", "record", "mark"}]
  /\ batch \in [Replicas -> Seq(Events)]
  /\ faults \in 0..MaxFaults

(* Whatever is on the topic was committed with its business transaction,    *)
(* and a row is marked published only when the broker has its event: the    *)
(* database and the topic diverge in neither direction                      *)
(* (order_repository.go Create and publisher.go publishBatch).              *)
OutboxMatchesTopic ==
  /\ \A e \in Range(log) : row[e] # "absent"
  /\ \A e \in Events : row[e] = "published" => e \in Range(log)

Copies(e) == Cardinality({i \in DOMAIN log : log[i] = e})

(* At-least-once costs at most one copy of an event for each replica and    *)
(* one for each fault, a lost acknowledgement of the broker counting as     *)
(* one: a replica that has marked a row never sends it again, and no other  *)
(* replica loads it afterwards.                                             *)
CopiesBounded == \A e \in Events : Copies(e) <= Cardinality(Replicas) + faults

(* Every committed row the broker does not refuse is published in the end,  *)
(* in spite of errors, of crashes and of rows that fail for ever: the loop  *)
(* of publishBatch goes on after an error.  It holds while fewer than       *)
(* BatchSize rows fail for ever; order-service/README.md:19 promises it     *)
(* without that condition.                                                  *)
EventuallyPublished ==
  \A e \in Events \ Poison : (row[e] = "pending") ~> (row[e] = "published")

(* The publisher implements the relay the composed system relies on. *)
Relay == INSTANCE OutboxRelay
RelaySpec == Relay!RelaySpec
=============================================================================
