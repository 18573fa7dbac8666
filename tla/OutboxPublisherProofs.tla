----------------------- MODULE OutboxPublisherProofs -----------------------
(***************************************************************************)
(* Proofs about OutboxPublisher, for any rows, replicas, batch size and    *)
(* fault budget.                                                           *)
(***************************************************************************)
EXTENDS OutboxPublisher, FiniteSetTheorems, TLAPS

(* Appending keeps what a sequence holds and adds the new element. *)
LEMMA RangeOfAppend ==
  ASSUME NEW S, NEW s \in Seq(S), NEW x \in S
  PROVE  /\ Append(s, x) \in Seq(S) /\ Len(Append(s, x)) = Len(s) + 1
         /\ \A i \in 1..Len(s) : Append(s, x)[i] = s[i]
         /\ Append(s, x)[Len(s) + 1] = x
         /\ Range(Append(s, x)) = Range(s) \cup {x}
<1>1. Append(s, x) \in Seq(S) /\ Len(Append(s, x)) = Len(s) + 1
  OBVIOUS
<1>2. \A i \in 1..Len(s) : Append(s, x)[i] = s[i]
  OBVIOUS
<1>3. Append(s, x)[Len(s) + 1] = x
  OBVIOUS
<1>. QED
  BY <1>1, <1>2, <1>3 DEF Range

(* The head and the tail of a sequence come from it. *)
LEMMA HeadAndTail ==
  ASSUME NEW S, NEW s \in Seq(S), s # <<>>
  PROVE  /\ Head(s) \in S /\ Head(s) \in Range(s)
         /\ Tail(s) \in Seq(S)
         /\ Range(Tail(s)) \subseteq Range(s)
         /\ Len(s) # 1 => Tail(s) # <<>>
<1>1. Len(s) \in Nat \ {0} /\ Head(s) = s[1]
  OBVIOUS
<1>2. Tail(s) \in Seq(S) /\ Len(Tail(s)) = Len(s) - 1
  OBVIOUS
<1>3. \A i \in 1..Len(Tail(s)) : Tail(s)[i] = s[i + 1] /\ i + 1 \in 1..Len(s)
  BY <1>1, <1>2
<1>4. Head(s) \in S /\ Head(s) \in Range(s)
  BY <1>1 DEF Range
<1>5. Range(Tail(s)) \subseteq Range(s)
  BY <1>2, <1>3 DEF Range
<1>. QED
  BY <1>1, <1>2, <1>4, <1>5

-----------------------------------------------------------------------------

(* A batch the query may return is a sequence of the rows it reads. *)
LEMMA BatchesAreSequences ==
  ASSUME NEW S, NEW b \in Batches(S)
  PROVE  /\ b \in Seq(S)
         /\ Range(b) \subseteq S
<1>1. PICK m \in 0..BatchSize : b \in [1..m -> S]
  BY BoundsAssumption DEF Batches, BoundedSeq, SeqOf
<1>2. b \in Seq(S)
  BY <1>1
<1>. QED
  BY <1>1, <1>2 DEF Range

-----------------------------------------------------------------------------
(* A replica in the middle of a batch has rows left in it, all of them      *)
(* committed, and it marks a row only when the topic has its event.         *)
BatchInv ==
  \A r \in Replicas :
    /\ pc[r] # "idle" => batch[r] # <<>>
    /\ \A e \in Range(batch[r]) : row[e] # "absent"
    /\ pc[r] = "mark" => Head(batch[r]) \in Range(log)

IInv == TypeOK /\ BatchInv /\ OutboxMatchesTopic

LEMMA InitIInv == Init => IInv
BY BoundsAssumption DEF Init, IInv, TypeOK, BatchInv, OutboxMatchesTopic, Range

(* Advance leaves a replica idle or with rows of its old batch. *)
LEMMA AdvanceProperties ==
  ASSUME TypeOK, BatchInv, NEW r \in Replicas, pc[r] # "idle", Advance(r)
  PROVE  /\ pc' \in [Replicas -> {"idle", "publish", "record", "mark"}]
         /\ batch' \in [Replicas -> Seq(Events)]
         /\ \A q \in Replicas \ {r} : pc'[q] = pc[q] /\ batch'[q] = batch[q]
         /\ pc'[r] \in {"idle", "publish"}
         /\ pc'[r] # "idle" => batch'[r] # <<>>
         /\ Range(batch'[r]) \subseteq Range(batch[r])
<1>1. batch[r] \in Seq(Events) /\ batch[r] # <<>>
  BY DEF TypeOK, BatchInv
<1>2. /\ Tail(batch[r]) \in Seq(Events)
      /\ Range(Tail(batch[r])) \subseteq Range(batch[r])
      /\ Len(batch[r]) # 1 => Tail(batch[r]) # <<>>
  BY <1>1, HeadAndTail
<1>. QED
  BY <1>2 DEF TypeOK, Advance

LEMMA NextIInv == IInv /\ [Next]_vars => IInv'
<1>. SUFFICES ASSUME TypeOK, BatchInv, OutboxMatchesTopic, [Next]_vars
              PROVE  IInv'
  BY DEF IInv
<1>h. ASSUME NEW r \in Replicas, pc[r] # "idle"
      PROVE  /\ Head(batch[r]) \in Events
             /\ Head(batch[r]) \in Range(batch[r])
             /\ row[Head(batch[r])] # "absent"
  BY <1>h, HeadAndTail DEF TypeOK, BatchInv
<1>1. ASSUME NEW e \in Events, Insert(e)
      PROVE  IInv'
  BY <1>1 DEF Insert, IInv, TypeOK, BatchInv, OutboxMatchesTopic
<1>2. ASSUME NEW r \in Replicas, LoadBatch(r)
      PROVE  IInv'
  <2>1. PICK b \in Batches(Unpublished) : b # <<>> /\ batch' = [batch EXCEPT ![r] = b]
    BY <1>2 DEF LoadBatch
  <2>2. b \in Seq(Unpublished) /\ Range(b) \subseteq Unpublished
    BY BatchesAreSequences
  <2>3. b \in Seq(Events)
    BY <2>2 DEF Unpublished
  <2>4. TypeOK'
    BY <1>2, <2>1, <2>3 DEF LoadBatch, TypeOK
  <2>5. BatchInv'
    BY <1>2, <2>1, <2>2 DEF LoadBatch, TypeOK, BatchInv, Unpublished
  <2>. QED
    BY <1>2, <2>4, <2>5 DEF LoadBatch, IInv, OutboxMatchesTopic
<1>3. ASSUME NEW r \in Replicas, PublishOk(r)
      PROVE  IInv'
  <2>1. /\ log' \in Seq(Events)
        /\ Range(log') = Range(log) \cup {Head(batch[r])}
    BY <1>3, <1>h, RangeOfAppend DEF PublishOk, TypeOK
  <2>2. TypeOK'
    BY <1>3, <2>1 DEF PublishOk, TypeOK
  <2>3. BatchInv'
    BY <1>3, <2>1 DEF PublishOk, TypeOK, BatchInv
  <2>4. OutboxMatchesTopic'
    BY <1>3, <1>h, <2>1 DEF PublishOk, OutboxMatchesTopic
  <2>. QED
    BY <2>2, <2>3, <2>4 DEF IInv
<1>4. ASSUME NEW r \in Replicas, PublishError(r)
      PROVE  IInv'
  <2>1. /\ log' \in Seq(Events)
        /\ Range(log) \subseteq Range(log')
        /\ Range(log') \subseteq Range(log) \cup {Head(batch[r])}
    <3>1. CASE log' = log
      BY <3>1 DEF TypeOK
    <3>2. CASE log' = Append(log, Head(batch[r]))
      BY <1>4, <1>h, <3>2, RangeOfAppend DEF PublishError, TypeOK
    <3>. QED
      BY <1>4, <3>1, <3>2 DEF PublishError
  <2>2. faults' \in 0..MaxFaults
    BY <1>4, BoundsAssumption DEF PublishError, Fault, TypeOK
  <2>3. TypeOK'
    BY <1>4, <2>1, <2>2 DEF PublishError, TypeOK
  <2>4. BatchInv'
    BY <1>4, <2>1 DEF PublishError, TypeOK, BatchInv
  <2>5. OutboxMatchesTopic'
    BY <1>4, <1>h, <2>1 DEF PublishError, OutboxMatchesTopic
  <2>. QED
    BY <2>3, <2>4, <2>5 DEF IInv
<1>5. ASSUME NEW r \in Replicas, RecordFailure(r)
      PROVE  IInv'
  <2>1. pc[r] # "idle" /\ Advance(r)
    BY <1>5 DEF RecordFailure
  <2>2. attempts' \in [Events -> 0..AttemptCap]
    <3>1. \A n \in 0..AttemptCap : (IF n < AttemptCap THEN n + 1 ELSE n) \in 0..AttemptCap
      BY BoundsAssumption
    <3>. QED
      BY <1>5, <3>1 DEF RecordFailure, TypeOK
  <2>3. TypeOK'
    BY <1>5, <2>1, <2>2, AdvanceProperties DEF RecordFailure, TypeOK
  <2>4. BatchInv'
    BY <1>5, <2>1, AdvanceProperties DEF RecordFailure, BatchInv
  <2>. QED
    BY <1>5, <2>3, <2>4 DEF RecordFailure, IInv, OutboxMatchesTopic
<1>6. ASSUME NEW r \in Replicas, MarkPublished(r)
      PROVE  IInv'
  <2>1. pc[r] # "idle" /\ Advance(r)
    BY <1>6 DEF MarkPublished
  <2>2. Head(batch[r]) \in Range(log)
    BY <1>6 DEF MarkPublished, BatchInv
  <2>3. TypeOK'
    BY <1>6, <2>1, AdvanceProperties DEF MarkPublished, TypeOK
  <2>4. BatchInv'
    <3>1. \A e \in Events : row[e] # "absent" => row'[e] # "absent"
      BY <1>6 DEF MarkPublished, TypeOK
    <3>2. \A q \in Replicas : Range(batch[q]) \subseteq Events
      BY DEF TypeOK, Range
    <3>. QED
      BY <1>6, <2>1, <3>1, <3>2, AdvanceProperties DEF MarkPublished, BatchInv
  <2>5. OutboxMatchesTopic'
    BY <1>6, <1>h, <2>2 DEF MarkPublished, OutboxMatchesTopic, TypeOK
  <2>. QED
    BY <2>3, <2>4, <2>5 DEF IInv
<1>7. ASSUME NEW r \in Replicas, MarkError(r)
      PROVE  IInv'
  <2>1. pc[r] # "idle" /\ Advance(r)
    BY <1>7 DEF MarkError
  <2>2. faults' \in 0..MaxFaults
    BY <1>7, BoundsAssumption DEF MarkError, Fault, TypeOK
  <2>3. TypeOK'
    BY <1>7, <2>1, <2>2, AdvanceProperties DEF MarkError, TypeOK
  <2>4. BatchInv'
    BY <1>7, <2>1, AdvanceProperties DEF MarkError, BatchInv
  <2>. QED
    BY <1>7, <2>3, <2>4 DEF MarkError, IInv, OutboxMatchesTopic
<1>r. ASSUME NEW r \in Replicas, PublishRetries(r)
      PROVE  IInv'
  <2>1. /\ log' \in Seq(Events)
        /\ Range(log') = Range(log) \cup {Head(batch[r])}
    BY <1>r, <1>h, RangeOfAppend DEF PublishRetries, TypeOK
  <2>2. faults' \in 0..MaxFaults
    BY <1>r, BoundsAssumption DEF PublishRetries, Fault, TypeOK
  <2>3. TypeOK'
    BY <1>r, <2>1, <2>2 DEF PublishRetries, TypeOK
  <2>4. BatchInv'
    BY <1>r, <2>1 DEF PublishRetries, BatchInv
  <2>5. OutboxMatchesTopic'
    BY <1>r, <1>h, <2>1 DEF PublishRetries, OutboxMatchesTopic
  <2>. QED
    BY <2>3, <2>4, <2>5 DEF IInv
<1>8. ASSUME NEW r \in Replicas, Crash(r)
      PROVE  IInv'
  <2>1. faults' \in 0..MaxFaults
    BY <1>8, BoundsAssumption DEF Crash, Fault, TypeOK
  <2>2. Range(<<>>) = {}
    BY DEF Range
  <2>. QED
    BY <1>8, <2>1, <2>2 DEF Crash, IInv, TypeOK, BatchInv, OutboxMatchesTopic
<1>9. CASE UNCHANGED vars
  BY <1>9 DEF vars, IInv, TypeOK, BatchInv, OutboxMatchesTopic
<1>. QED
  BY <1>1, <1>2, <1>3, <1>4, <1>5, <1>6, <1>7, <1>r, <1>8, <1>9 DEF Next, publishBatch

-----------------------------------------------------------------------------
(* The replicas that have sent a row and not yet marked it. *)
Marking(e) == {r \in Replicas : pc[r] = "mark" /\ Head(batch[r]) = e}

(* The replicas that have still to send it. *)
Holding(e) ==
  {r \in Replicas : \/ pc[r] = "publish" /\ e \in Range(batch[r])
                    \/ pc[r] # "idle" /\ e \in Range(Tail(batch[r]))}

(* No row is twice in a batch. *)
BatchesInjective == \A r \in Replicas : IsInjective(batch[r])

(* Until the row is marked, every copy is on account of a fault or of a     *)
(* replica about to mark it; afterwards only the replicas that still hold   *)
(* the row can send it, each once.                                          *)
CopyInv(e) ==
  /\ row[e] # "published" => Copies(e) <= Cardinality(Marking(e)) + faults
  /\ row[e] = "published" => Copies(e) + Cardinality(Holding(e)) <= Cardinality(Replicas) + faults

CopiesInv == IInv /\ BatchesInjective /\ \A e \in Events : CopyInv(e)

(* The copies of an event are counted one message at a time. *)
CopiesAt(s, e) == Cardinality({i \in DOMAIN s : s[i] = e})

LEMMA CopiesNat ==
  ASSUME NEW S, NEW s \in Seq(S), NEW e
  PROVE  IsFiniteSet({i \in DOMAIN s : s[i] = e}) /\ CopiesAt(s, e) \in Nat
<1>1. IsFiniteSet(1..Len(s)) /\ {i \in DOMAIN s : s[i] = e} \subseteq 1..Len(s)
  <2>1. DOMAIN s = 1..Len(s) /\ Len(s) \in Nat
    OBVIOUS
  <2>. QED
    BY <2>1, FS_Interval
<1>. QED
  BY <1>1, FS_Subset, FS_CardinalityType DEF CopiesAt

LEMMA CopiesOfAppend ==
  ASSUME NEW S, NEW s \in Seq(S), NEW x \in S, NEW e
  PROVE  CopiesAt(Append(s, x), e) = CopiesAt(s, e) + IF x = e THEN 1 ELSE 0
<1>. DEFINE at(q) == {i \in DOMAIN q : q[i] = e}
<1>1. /\ DOMAIN s = 1..Len(s) /\ Len(s) \in Nat
      /\ DOMAIN Append(s, x) = 1..Len(s) + 1
      /\ \A i \in 1..Len(s) : Append(s, x)[i] = s[i]
      /\ Append(s, x)[Len(s) + 1] = x
  OBVIOUS
<1>2. Len(s) + 1 \notin at(s)
  BY <1>1
<1>3. at(Append(s, x)) = at(s) \cup (IF x = e THEN {Len(s) + 1} ELSE {})
  BY <1>1
<1>4. IsFiniteSet(at(s)) /\ Cardinality(at(s)) \in Nat
  BY CopiesNat DEF CopiesAt
<1>5. Cardinality(at(Append(s, x))) = Cardinality(at(s)) + IF x = e THEN 1 ELSE 0
  <2>. HIDE DEF at
  <2>1. CASE x = e
    BY <1>2, <1>3, <1>4, <2>1, FS_AddElement
  <2>2. CASE x # e
    <3>1. at(Append(s, x)) = at(s)
      BY <1>3, <2>2
    <3>. QED
      BY <1>4, <2>2, <3>1
  <2>. QED
    BY <2>1, <2>2
<1>. QED
  BY <1>5 DEF CopiesAt

LEMMA CopiesOnTopic ==
  ASSUME TypeOK, NEW e
  PROVE  Copies(e) = CopiesAt(log, e) /\ Copies(e) \in Nat
<1>1. Copies(e) = CopiesAt(log, e)
  BY DEF Copies, CopiesAt
<1>2. log \in Seq(Events)
  BY DEF TypeOK
<1>. QED
  BY <1>1, <1>2, CopiesNat

(* The head of a sequence without repetitions is not in its tail. *)
LEMMA InjectiveTail ==
  ASSUME NEW S, NEW s \in Seq(S), s # <<>>, IsInjective(s)
  PROVE  /\ IsInjective(Tail(s)) /\ Head(s) \notin Range(Tail(s))
         /\ Range(s) = {Head(s)} \cup Range(Tail(s))
<1>1. Len(s) \in Nat \ {0} /\ Head(s) = s[1] /\ DOMAIN s = 1..Len(s)
  OBVIOUS
<1>2. DOMAIN Tail(s) = 1..(Len(s) - 1) /\ \A i \in 1..(Len(s) - 1) : Tail(s)[i] = s[i + 1]
  OBVIOUS
<1>3. \A i, j \in 1..Len(s) : s[i] = s[j] => i = j
  BY <1>1 DEF IsInjective
<1>4. \A i \in 1..(Len(s) - 1) : i + 1 \in 1..Len(s) /\ i + 1 # 1
  BY <1>1
<1>5. IsInjective(Tail(s))
  BY <1>2, <1>3, <1>4 DEF IsInjective
<1>6. Head(s) \notin Range(Tail(s))
  BY <1>1, <1>2, <1>3, <1>4 DEF Range
<1>7. \A i \in 1..Len(s) : i = 1 \/ (i - 1 \in 1..(Len(s) - 1) /\ Tail(s)[i - 1] = s[i])
  BY <1>1, <1>2
<1>8. Range(s) = {Head(s)} \cup Range(Tail(s))
  <2>1. Range(s) \subseteq {Head(s)} \cup Range(Tail(s))
    <3>. SUFFICES ASSUME NEW i \in 1..Len(s), i # 1
                  PROVE  s[i] \in Range(Tail(s))
      BY <1>1 DEF Range
    <3>1. i - 1 \in DOMAIN Tail(s) /\ Tail(s)[i - 1] = s[i]
      BY <1>2, <1>7
    <3>. QED
      BY <3>1 DEF Range
  <2>2. {Head(s)} \cup Range(Tail(s)) \subseteq Range(s)
    BY HeadAndTail
  <2>. QED
    BY <2>1, <2>2
<1>. QED
  BY <1>5, <1>6, <1>8

(* The replicas about to mark a row and those that still hold it are finite *)
(* disjoint sets.                                                           *)
LEMMA ReplicaSets ==
  ASSUME TypeOK, BatchInv, BatchesInjective, NEW e
  PROVE  /\ IsFiniteSet(Marking(e)) /\ IsFiniteSet(Holding(e))
         /\ Marking(e) \cap Holding(e) = {}
         /\ Cardinality(Marking(e)) \in Nat /\ Cardinality(Holding(e)) \in Nat
         /\ Cardinality(Replicas) \in Nat
         /\ Cardinality(Marking(e)) + Cardinality(Holding(e)) <= Cardinality(Replicas)
<1>1. Marking(e) \subseteq Replicas /\ Holding(e) \subseteq Replicas
  BY DEF Marking, Holding
<1>2. IsFiniteSet(Marking(e)) /\ IsFiniteSet(Holding(e))
  BY <1>1, ReplicasAssumption, FS_Subset
<1>3. Marking(e) \cap Holding(e) = {}
  <2>. SUFFICES ASSUME NEW r \in Replicas, pc[r] = "mark"
                PROVE  Head(batch[r]) \notin Range(Tail(batch[r]))
    BY DEF Marking, Holding
  <2>. QED
    BY InjectiveTail DEF TypeOK, BatchInv, BatchesInjective
<1>4. Marking(e) \cup Holding(e) \subseteq Replicas
  BY <1>1
<1>5. /\ Cardinality(Marking(e) \cup Holding(e)) = Cardinality(Marking(e)) + Cardinality(Holding(e))
      /\ Cardinality(Marking(e) \cup Holding(e)) <= Cardinality(Replicas)
  <2>1. Cardinality(Marking(e) \cap Holding(e)) = 0
    BY <1>3, FS_EmptySet
  <2>2. Cardinality(Marking(e)) \in Nat /\ Cardinality(Holding(e)) \in Nat
    BY <1>2, FS_CardinalityType
  <2>3. Cardinality(Marking(e) \cup Holding(e))
          = Cardinality(Marking(e)) + Cardinality(Holding(e)) - Cardinality(Marking(e) \cap Holding(e))
    BY <1>2, FS_Union
  <2>4. Cardinality(Marking(e) \cup Holding(e)) <= Cardinality(Replicas)
    BY <1>4, ReplicasAssumption, FS_Subset
  <2>. QED
    BY <2>1, <2>2, <2>3, <2>4
<1>. QED
  BY <1>2, <1>3, <1>5, ReplicasAssumption, FS_CardinalityType

-----------------------------------------------------------------------------
(* What a step can do to the copies of one event. *)
Quiet(e) ==        \* nothing, except that others may load the row before it is marked
  /\ (row[e] = "published") = (row'[e] = "published")
  /\ Copies(e)' = Copies(e) /\ faults' = faults
  /\ Marking(e)' = Marking(e)
  /\ row[e] = "published" => Holding(e)' \subseteq Holding(e)

Faulty(e) ==       \* a copy too many, or a copy that no replica will mark
  /\ (row[e] = "published") = (row'[e] = "published")
  /\ faults' = faults + 1
  /\ \/ Copies(e)' \in {Copies(e), Copies(e) + 1} /\ Marking(e)' = Marking(e)
     \/ Copies(e)' = Copies(e) /\ \E r \in Replicas : Marking(e)' = Marking(e) \ {r}
  /\ Holding(e)' \subseteq Holding(e)

Sends(e) ==        \* a replica that held the row sends it and will mark it
  /\ (row[e] = "published") = (row'[e] = "published")
  /\ Copies(e)' = Copies(e) + 1 /\ faults' = faults
  /\ \E r \in Holding(e) \ Marking(e) :
       Marking(e)' = Marking(e) \cup {r} /\ Holding(e)' = Holding(e) \ {r}

Marks(e) ==        \* a replica marks the row
  /\ row'[e] = "published"
  /\ Copies(e)' = Copies(e) /\ faults' = faults
  /\ Holding(e)' \subseteq Holding(e)

LEMMA CopyStep ==
  ASSUME TypeOK, BatchInv, BatchesInjective, NEW e \in Events, CopyInv(e),
         Quiet(e) \/ Faulty(e) \/ Sends(e) \/ Marks(e)
  PROVE  CopyInv(e)'
<1>. DEFINE c == Copies(e)
            m == Cardinality(Marking(e))
            h == Cardinality(Holding(e))
            n == Cardinality(Replicas)
<1>0. /\ c \in Nat /\ m \in Nat /\ h \in Nat /\ n \in Nat /\ faults \in Nat /\ m + h <= n
      /\ IsFiniteSet(Marking(e)) /\ IsFiniteSet(Holding(e))
  <2>1. c \in Nat
    BY CopiesOnTopic
  <2>2. faults \in Nat
    BY BoundsAssumption DEF TypeOK
  <2>. QED
    BY <2>1, <2>2, ReplicaSets
<1>1. Holding(e)' \subseteq Holding(e) => Cardinality(Holding(e)') \in Nat /\ Cardinality(Holding(e)') <= h
  BY <1>0, FS_Subset, FS_CardinalityType
<1>2. \A r : Cardinality(Marking(e) \ {r}) \in Nat /\ Cardinality(Marking(e) \ {r}) >= m - 1
  <2>. SUFFICES ASSUME NEW r
                PROVE  Cardinality(Marking(e) \ {r}) \in Nat /\ Cardinality(Marking(e) \ {r}) >= m - 1
    OBVIOUS
  <2>1. CASE r \in Marking(e)
    <3>1. Cardinality(Marking(e) \ {r}) = m - 1 /\ IsFiniteSet(Marking(e) \ {r})
      BY <1>0, <2>1, FS_RemoveElement
    <3>2. Cardinality(Marking(e) \ {r}) \in Nat
      BY <3>1, FS_CardinalityType
    <3>. QED
      BY <1>0, <3>1, <3>2
  <2>2. CASE r \notin Marking(e)
    <3>1. Marking(e) \ {r} = Marking(e)
      BY <2>2
    <3>. QED
      BY <1>0, <3>1
  <2>. QED
    BY <2>1, <2>2
<1>3. \A r \in Holding(e) \ Marking(e) :
        /\ Cardinality(Marking(e) \cup {r}) = m + 1
        /\ Cardinality(Holding(e) \ {r}) = h - 1
  BY <1>0, FS_AddElement, FS_RemoveElement
<1>4. /\ row[e] # "published" => c <= m + faults
      /\ row[e] = "published" => c + h <= n + faults
  BY DEF CopyInv
<1>. SUFFICES /\ row'[e] # "published" => c' <= Cardinality(Marking(e)') + faults'
              /\ row'[e] = "published" => c' + Cardinality(Holding(e)') <= n + faults'
  BY DEF CopyInv
<1>. HIDE DEF c, m, h, n
<1>c. c' = Copies(e)' /\ c = Copies(e) /\ m = Cardinality(Marking(e)) /\ h = Cardinality(Holding(e))
  BY DEF c, m, h
<1>5. CASE Quiet(e)
  BY <1>0, <1>1, <1>4, <1>5, <1>c DEF Quiet
<1>6. CASE Faulty(e)
  <2>1. faults' = faults + 1 /\ (row[e] = "published") = (row'[e] = "published")
    BY <1>6 DEF Faulty
  <2>2. Cardinality(Holding(e)') \in Nat /\ Cardinality(Holding(e)') <= h /\ c' \in {c, c + 1}
    BY <1>1, <1>6, <1>c DEF Faulty
  <2>3. c' <= Cardinality(Marking(e)') + 1 - m + c /\ Cardinality(Marking(e)') \in Nat
    <3>1. CASE c' \in {c, c + 1} /\ Marking(e)' = Marking(e)
      BY <1>0, <1>c, <3>1
    <3>2. CASE c' = c /\ \E r \in Replicas : Marking(e)' = Marking(e) \ {r}
      <4>1. PICK r \in Replicas : Marking(e)' = Marking(e) \ {r}
        BY <3>2
      <4>2. Cardinality(Marking(e)') \in Nat /\ Cardinality(Marking(e)') >= m - 1
        BY <1>2, <4>1
      <4>. QED
        BY <1>0, <3>2, <4>2
    <3>. QED
      BY <1>6, <1>c, <3>1, <3>2 DEF Faulty
  <2>. QED
    BY <1>0, <1>4, <2>1, <2>2, <2>3
<1>7. CASE Sends(e)
  <2>1. PICK r \in Holding(e) \ Marking(e) :
          Marking(e)' = Marking(e) \cup {r} /\ Holding(e)' = Holding(e) \ {r}
    BY <1>7 DEF Sends
  <2>2. Cardinality(Marking(e)') = m + 1 /\ Cardinality(Holding(e)') = h - 1
    BY <1>3, <2>1
  <2>. QED
    BY <1>0, <1>4, <1>7, <1>c, <2>2 DEF Sends
<1>8. CASE Marks(e)
  <2>1. c + h <= n + faults
    BY <1>0, <1>4
  <2>. QED
    BY <1>0, <1>1, <1>8, <1>c, <2>1 DEF Marks
<1>. QED
  BY <1>5, <1>6, <1>7, <1>8

(* A step of one replica changes the two sets by that replica at most. *)
LEMMA OneReplica ==
  ASSUME NEW r \in Replicas, NEW e,
         \A q \in Replicas \ {r} : pc'[q] = pc[q] /\ batch'[q] = batch[q]
  PROVE  /\ Marking(e)' \ {r} = Marking(e) \ {r}
         /\ Holding(e)' \ {r} = Holding(e) \ {r}
BY DEF Marking, Holding

(* A replica that turns to its next row no longer marks, and holds no row   *)
(* it did not hold before.                                                  *)
LEMMA AdvanceSets ==
  ASSUME TypeOK, BatchInv, BatchesInjective, NEW r \in Replicas, pc[r] # "idle", Advance(r), NEW e
  PROVE  /\ Marking(e)' = Marking(e) \ {r}
         /\ Holding(e)' \subseteq Holding(e)
         /\ BatchesInjective'
<1>1. /\ batch[r] \in Seq(Events) /\ batch[r] # <<>> /\ IsInjective(batch[r])
      /\ pc'[r] \in {"idle", "publish"} /\ batch'[r] = Tail(batch[r])
      /\ pc'[r] # "idle" => batch'[r] # <<>>
      /\ \A q \in Replicas \ {r} : pc'[q] = pc[q] /\ batch'[q] = batch[q]
  BY AdvanceProperties DEF TypeOK, BatchInv, BatchesInjective, Advance
<1>2. /\ Tail(batch[r]) \in Seq(Events) /\ IsInjective(Tail(batch[r]))
      /\ Tail(batch[r]) # <<>> => Range(Tail(Tail(batch[r]))) \subseteq Range(Tail(batch[r]))
  BY <1>1, HeadAndTail, InjectiveTail
<1>3. r \notin Marking(e)' /\ (r \in Holding(e)' => r \in Holding(e))
  BY <1>1, <1>2 DEF Marking, Holding
<1>4. Marking(e)' \ {r} = Marking(e) \ {r} /\ Holding(e)' \ {r} = Holding(e) \ {r}
  BY <1>1, OneReplica
<1>5. BatchesInjective'
  BY <1>1, <1>2 DEF BatchesInjective
<1>. QED
  BY <1>3, <1>4, <1>5

LEMMA NextCopies ==
  ASSUME TypeOK, BatchInv, BatchesInjective, [Next]_vars
  PROVE  /\ BatchesInjective'
         /\ \A e \in Events : Quiet(e) \/ Faulty(e) \/ Sends(e) \/ Marks(e)
<1>. DEFINE Kind(e) == Quiet(e) \/ Faulty(e) \/ Sends(e) \/ Marks(e)
<1>c. \A e : log' = log => Copies(e)' = Copies(e)
  BY DEF Copies
<1>h. ASSUME NEW r \in Replicas, pc[r] # "idle"
      PROVE  /\ batch[r] \in Seq(Events) /\ batch[r] # <<>>
             /\ Head(batch[r]) \in Events /\ Head(batch[r]) \in Range(batch[r])
             /\ Range(Tail(batch[r])) \subseteq Range(batch[r])
             /\ Head(batch[r]) \notin Range(Tail(batch[r]))
  BY <1>h, HeadAndTail, InjectiveTail DEF TypeOK, BatchInv, BatchesInjective
<1>a. ASSUME NEW e \in Events, NEW x \in Events, log' = Append(log, x)
      PROVE  Copies(e)' = Copies(e) + (IF x = e THEN 1 ELSE 0) /\ Copies(e) \in Nat
  <2>1. Copies(e) = CopiesAt(log, e) /\ Copies(e)' = CopiesAt(log', e)
    BY DEF Copies, CopiesAt
  <2>2. log \in Seq(Events)
    BY DEF TypeOK
  <2>3. CopiesAt(Append(log, x), e) = CopiesAt(log, e) + IF x = e THEN 1 ELSE 0
    BY <2>2, CopiesOfAppend
  <2>4. CopiesAt(log, e) \in Nat
    BY <2>2, CopiesNat
  <2>. QED
    BY <1>a, <2>1, <2>3, <2>4
<1>1. ASSUME NEW f \in Events, Insert(f)
      PROVE  BatchesInjective' /\ \A e \in Events : Kind(e)
  BY <1>1, <1>c DEF Insert, TypeOK, BatchesInjective, Quiet, Marking, Holding
<1>2. ASSUME NEW r \in Replicas, LoadBatch(r)
      PROVE  BatchesInjective' /\ \A e \in Events : Kind(e)
  <2>1. PICK b \in Batches(Unpublished) : b # <<>> /\ batch' = [batch EXCEPT ![r] = b]
    BY <1>2 DEF LoadBatch
  <2>2. /\ b \in Seq(Unpublished) /\ Range(b) \subseteq Unpublished
        /\ Range(Tail(b)) \subseteq Range(b) /\ IsInjective(b)
    BY <2>1, BatchesAreSequences, HeadAndTail DEF Batches
  <2>3. /\ batch'[r] = b /\ pc[r] = "idle" /\ pc'[r] = "publish"
        /\ \A q \in Replicas \ {r} : pc'[q] = pc[q] /\ batch'[q] = batch[q]
    BY <1>2, <2>1 DEF LoadBatch, TypeOK
  <2>4. BatchesInjective'
    BY <2>2, <2>3 DEF BatchesInjective
  <2>5. ASSUME NEW e \in Events
        PROVE  Quiet(e)
    <3>1. r \notin Marking(e) /\ r \notin Marking(e)' /\ Marking(e)' \ {r} = Marking(e) \ {r}
      BY <2>3, OneReplica DEF Marking
    <3>2. ASSUME row[e] = "published"
          PROVE  Holding(e)' \subseteq Holding(e)
      <4>1. r \notin Holding(e)'
        BY <2>2, <2>3, <3>2 DEF Holding, Unpublished
      <4>. QED
        BY <2>3, <4>1, OneReplica
    <3>. QED
      BY <1>2, <1>c, <3>1, <3>2 DEF LoadBatch, Quiet
  <2>. QED
    BY <2>4, <2>5
<1>3. ASSUME NEW r \in Replicas, PublishOk(r)
      PROVE  BatchesInjective' /\ \A e \in Events : Kind(e)
  <2>1. /\ pc[r] = "publish" /\ pc'[r] = "mark" /\ batch' = batch
        /\ row' = row /\ faults' = faults /\ log' = Append(log, Head(batch[r]))
        /\ \A q \in Replicas \ {r} : pc'[q] = pc[q] /\ batch'[q] = batch[q]
    BY <1>3 DEF PublishOk, TypeOK
  <2>2. ASSUME NEW e \in Events
        PROVE  Kind(e)
    <3>1. /\ Marking(e)' \ {r} = Marking(e) \ {r} /\ r \notin Marking(e)
          /\ Holding(e)' \ {r} = Holding(e) \ {r}
      BY <2>1, OneReplica DEF Marking
    <3>2. CASE Head(batch[r]) = e
      <4>1. /\ r \in Holding(e) /\ r \notin Holding(e)' /\ r \in Marking(e)'
        BY <1>h, <2>1, <3>2 DEF Holding, Marking
      <4>2. Marking(e)' = Marking(e) \cup {r} /\ Holding(e)' = Holding(e) \ {r}
        BY <3>1, <4>1
      <4>. QED
        BY <1>a, <1>h, <2>1, <3>1, <3>2, <4>1, <4>2 DEF Sends
    <3>3. CASE Head(batch[r]) # e
      <4>1. r \notin Marking(e)' /\ (r \in Holding(e)' => r \in Holding(e))
        BY <1>h, <2>1, <3>3 DEF Holding, Marking
      <4>2. Marking(e)' = Marking(e) /\ Holding(e)' \subseteq Holding(e)
        BY <3>1, <4>1
      <4>3. Copies(e)' = Copies(e)
        BY <1>a, <1>h, <2>1, <3>3
      <4>. QED
        BY <2>1, <4>2, <4>3 DEF Quiet
    <3>. QED
      BY <3>2, <3>3
  <2>. QED
    BY <2>1, <2>2 DEF BatchesInjective
<1>4. ASSUME NEW r \in Replicas, PublishError(r)
      PROVE  BatchesInjective' /\ \A e \in Events : Kind(e)
  <2>1. /\ pc[r] = "publish" /\ pc'[r] = "record" /\ batch' = batch /\ row' = row
        /\ \A q \in Replicas \ {r} : pc'[q] = pc[q] /\ batch'[q] = batch[q]
    BY <1>4 DEF PublishError, TypeOK
  <2>2. ASSUME NEW e \in Events
        PROVE  Kind(e)
    <3>1. Marking(e)' = Marking(e) /\ Holding(e)' \subseteq Holding(e)
      <4>1. /\ Marking(e)' \ {r} = Marking(e) \ {r}
            /\ Holding(e)' \ {r} = Holding(e) \ {r}
        BY <2>1, OneReplica
      <4>2. r \notin Marking(e) /\ r \notin Marking(e)' /\ (r \in Holding(e)' => r \in Holding(e))
        BY <1>h, <2>1 DEF Holding, Marking
      <4>. QED
        BY <4>1, <4>2
    <3>2. CASE log' = log /\ faults' = faults
      BY <1>c, <2>1, <3>1, <3>2 DEF Quiet
    <3>3. CASE faults' = faults + 1 /\ log' = log
      BY <1>c, <2>1, <3>1, <3>3 DEF Faulty
    <3>4. CASE faults' = faults + 1 /\ log' = Append(log, Head(batch[r]))
      <4>1. Copies(e)' \in {Copies(e), Copies(e) + 1}
        BY <1>a, <1>h, <2>1, <3>4
      <4>. QED
        BY <2>1, <3>1, <3>4, <4>1 DEF Faulty
    <3>. QED
      BY <1>4, <3>2, <3>3, <3>4 DEF PublishError, Fault
  <2>. QED
    BY <2>1, <2>2 DEF BatchesInjective
<1>5. ASSUME NEW r \in Replicas, RecordFailure(r)
      PROVE  BatchesInjective' /\ \A e \in Events : Kind(e)
  <2>1. pc[r] = "record" /\ Advance(r) /\ UNCHANGED <<row, log, faults>>
    BY <1>5 DEF RecordFailure
  <2>2. ASSUME NEW e \in Events
        PROVE  BatchesInjective' /\ Quiet(e)
    <3>1. r \notin Marking(e)
      BY <2>1 DEF Marking
    <3>. QED
      BY <1>c, <2>1, <3>1, AdvanceSets DEF Quiet
  <2>. QED
    BY <2>1, <2>2, AdvanceSets
<1>6. ASSUME NEW r \in Replicas, MarkPublished(r)
      PROVE  BatchesInjective' /\ \A e \in Events : Kind(e)
  <2>1. pc[r] = "mark" /\ Advance(r) /\ UNCHANGED <<log, faults>>
    BY <1>6 DEF MarkPublished
  <2>2. ASSUME NEW e \in Events
        PROVE  Kind(e)
    <3>1. CASE Head(batch[r]) = e
      <4>1. row'[e] = "published"
        BY <1>6, <3>1 DEF MarkPublished, TypeOK
      <4>. QED
        BY <1>c, <2>1, <4>1, AdvanceSets DEF Marks
    <3>2. CASE Head(batch[r]) # e
      <4>1. row'[e] = row[e] /\ r \notin Marking(e)
        BY <1>6, <3>2 DEF MarkPublished, TypeOK, Marking
      <4>. QED
        BY <1>c, <2>1, <4>1, AdvanceSets DEF Quiet
    <3>. QED
      BY <3>1, <3>2
  <2>. QED
    BY <2>1, <2>2, AdvanceSets
<1>7. ASSUME NEW r \in Replicas, MarkError(r)
      PROVE  BatchesInjective' /\ \A e \in Events : Kind(e)
  <2>1. pc[r] = "mark" /\ Advance(r) /\ UNCHANGED <<row, log>> /\ faults' = faults + 1
    BY <1>7 DEF MarkError, Fault
  <2>2. ASSUME NEW e \in Events
        PROVE  Faulty(e)
    BY <1>c, <2>1, AdvanceSets DEF Faulty
  <2>. QED
    BY <2>1, <2>2, AdvanceSets
<1>r. ASSUME NEW r \in Replicas, PublishRetries(r)
      PROVE  BatchesInjective' /\ \A e \in Events : Kind(e)
  <2>1. /\ pc[r] = "publish" /\ UNCHANGED <<row, pc, batch>> /\ faults' = faults + 1
        /\ log' = Append(log, Head(batch[r]))
    BY <1>r DEF PublishRetries, Fault
  <2>2. ASSUME NEW e \in Events
        PROVE  Faulty(e)
    <3>1. Marking(e)' = Marking(e) /\ Holding(e)' = Holding(e)
      BY <2>1 DEF Marking, Holding
    <3>2. Copies(e)' \in {Copies(e), Copies(e) + 1}
      BY <1>a, <1>h, <2>1
    <3>. QED
      BY <2>1, <3>1, <3>2 DEF Faulty
  <2>. QED
    BY <2>1, <2>2 DEF BatchesInjective
<1>8. ASSUME NEW r \in Replicas, Crash(r)
      PROVE  BatchesInjective' /\ \A e \in Events : Kind(e)
  <2>1. /\ pc'[r] = "idle" /\ batch'[r] = <<>> /\ UNCHANGED <<row, log>> /\ faults' = faults + 1
        /\ \A q \in Replicas \ {r} : pc'[q] = pc[q] /\ batch'[q] = batch[q]
    BY <1>8 DEF Crash, Fault, TypeOK
  <2>2. BatchesInjective'
    BY <2>1 DEF BatchesInjective, IsInjective
  <2>3. ASSUME NEW e \in Events
        PROVE  Faulty(e)
    <3>1. r \notin Marking(e)' /\ r \notin Holding(e)'
      BY <2>1 DEF Marking, Holding
    <3>2. /\ Marking(e)' \ {r} = Marking(e) \ {r}
          /\ Holding(e)' \ {r} = Holding(e) \ {r}
      BY <2>1, OneReplica
    <3>3. Marking(e)' = Marking(e) \ {r} /\ Holding(e)' \subseteq Holding(e)
      BY <3>1, <3>2
    <3>. QED
      BY <1>c, <2>1, <3>3 DEF Faulty
  <2>. QED
    BY <2>2, <2>3
<1>9. CASE UNCHANGED vars
  BY <1>9, <1>c DEF vars, BatchesInjective, Quiet, Marking, Holding
<1>. QED
  BY <1>1, <1>2, <1>3, <1>4, <1>5, <1>6, <1>7, <1>r, <1>8, <1>9 DEF Next, publishBatch

LEMMA InitCopies == Init => BatchesInjective /\ \A e \in Events : CopyInv(e)
<1>. SUFFICES ASSUME Init, NEW e \in Events
              PROVE  BatchesInjective /\ CopyInv(e)
  BY DEF Init, BatchesInjective, IsInjective
<1>1. Marking(e) = {} /\ {i \in DOMAIN log : log[i] = e} = {}
  BY DEF Init, Marking
<1>2. Copies(e) = 0 /\ Cardinality(Marking(e)) = 0
  BY <1>1, FS_EmptySet DEF Copies
<1>. QED
  BY <1>2 DEF Init, BatchesInjective, IsInjective, CopyInv

LEMMA NextCopiesInv == CopiesInv /\ [Next]_vars => CopiesInv'
<1>. SUFFICES ASSUME CopiesInv, [Next]_vars PROVE CopiesInv'
  OBVIOUS
<1>0. TypeOK /\ BatchInv /\ BatchesInjective /\ \A e \in Events : CopyInv(e)
  BY DEF CopiesInv, IInv
<1>1. IInv'
  BY NextIInv DEF CopiesInv
<1>2. BatchesInjective' /\ \A e \in Events : Quiet(e) \/ Faulty(e) \/ Sends(e) \/ Marks(e)
  BY <1>0, NextCopies
<1>3. ASSUME NEW e \in Events
      PROVE  CopyInv(e)'
  BY <1>0, <1>2, CopyStep
<1>. QED
  BY <1>1, <1>2, <1>3 DEF CopiesInv

-----------------------------------------------------------------------------
(* The inductive invariant holds in every reachable state. *)
THEOREM Invariance == Spec => []IInv
<1>. QED
  BY InitIInv, NextIInv, PTL DEF Spec

(* Type correctness of the publisher's rows, batches and counters. *)
THEOREM TypeCorrect == Spec => []TypeOK
<1>1. IInv => TypeOK
  BY DEF IInv
<1>. QED
  BY <1>1, Invariance, PTL

(* The outbox and the topic never diverge: nothing is on the topic without  *)
(* its committed row, no row is marked published without its event.         *)
THEOREM TopicMatchesOutbox == Spec => []OutboxMatchesTopic
<1>1. IInv => OutboxMatchesTopic
  BY DEF IInv
<1>. QED
  BY <1>1, Invariance, PTL

(* An event is on the topic at most once for each replica and once for each *)
(* fault, however the replicas' batches overlap.                            *)
THEOREM FewCopies == Spec => []CopiesBounded
<1>1. Init => CopiesInv
  BY InitIInv, InitCopies DEF CopiesInv
<1>2. CopiesInv => CopiesBounded
  <2>. SUFFICES ASSUME CopiesInv, NEW e \in Events
                PROVE  Copies(e) <= Cardinality(Replicas) + faults
    BY DEF CopiesBounded
  <2>0. TypeOK /\ BatchInv /\ BatchesInjective /\ CopyInv(e)
    BY DEF CopiesInv, IInv
  <2>1. /\ Cardinality(Marking(e)) \in Nat /\ Cardinality(Holding(e)) \in Nat
        /\ Cardinality(Replicas) \in Nat
        /\ Cardinality(Marking(e)) + Cardinality(Holding(e)) <= Cardinality(Replicas)
    BY <2>0, ReplicaSets
  <2>2. Copies(e) \in Nat /\ faults \in Nat
    BY <2>0, CopiesOnTopic, BoundsAssumption DEF TypeOK
  <2>. QED
    BY <2>0, <2>1, <2>2 DEF CopyInv
<1>. QED
  BY <1>1, <1>2, NextCopiesInv, PTL DEF Spec

(* The polling publisher implements the relay: each of its steps inserts,   *)
(* sends or marks one row, or changes nothing the relay sees.               *)
THEOREM ImplementsRelay == Spec => RelaySpec
<1>1. Init => Relay!RelayInit
  BY DEF Init, Relay!RelayInit
<1>2. IInv /\ [Next]_vars => [Relay!RelayNext]_(Relay!relayVars)
  <2>. SUFFICES ASSUME TypeOK, BatchInv, [Next]_vars
                PROVE  [Relay!RelayNext]_(Relay!relayVars)
    BY DEF IInv
  <2>. USE DEF Relay!RelayNext, Relay!relayVars
  <2>h. ASSUME NEW r \in Replicas, pc[r] # "idle"
        PROVE  /\ Head(batch[r]) \in Events
               /\ row[Head(batch[r])] # "absent"
    BY <2>h, HeadAndTail DEF TypeOK, BatchInv
  <2>1. ASSUME NEW e \in Events, Insert(e)
        PROVE  Relay!Insert(e)
    BY <2>1 DEF Insert, Relay!Insert
  <2>2. ASSUME NEW r \in Replicas, PublishOk(r) \/ PublishRetries(r)
        PROVE  Relay!Send(Head(batch[r]))
    BY <2>2, <2>h DEF PublishOk, PublishRetries, Relay!Send
  <2>3. ASSUME NEW r \in Replicas, PublishError(r)
        PROVE  Relay!Send(Head(batch[r])) \/ UNCHANGED <<row, log>>
    BY <2>3, <2>h DEF PublishError, Relay!Send
  <2>4. ASSUME NEW r \in Replicas, MarkPublished(r)
        PROVE  Relay!Mark(Head(batch[r]))
    BY <2>4 DEF MarkPublished, BatchInv, Range, Relay!Mark, Relay!Range
  <2>5. ASSUME NEW r \in Replicas,
               LoadBatch(r) \/ RecordFailure(r) \/ MarkError(r) \/ Crash(r)
        PROVE  UNCHANGED <<row, log>>
    BY <2>5 DEF LoadBatch, RecordFailure, MarkError, Crash
  <2>6. CASE UNCHANGED vars
    BY <2>6 DEF vars
  <2>7. ASSUME NEW r \in Replicas, pc[r] # "idle",
               Relay!Send(Head(batch[r])) \/ Relay!Mark(Head(batch[r]))
        PROVE  Relay!RelayNext
    BY <2>7, <2>h
  <2>8. ASSUME NEW r \in Replicas,
               PublishOk(r) \/ PublishRetries(r) \/ PublishError(r) \/ MarkPublished(r)
        PROVE  pc[r] # "idle"
    BY <2>8 DEF PublishOk, PublishRetries, PublishError, MarkPublished
  <2>. QED
    BY <2>1, <2>2, <2>3, <2>4, <2>5, <2>6, <2>7, <2>8 DEF Next, publishBatch
<1>. QED
  BY <1>1, <1>2, Invariance, PTL DEF Spec, RelaySpec, Relay!RelaySpec
=============================================================================
