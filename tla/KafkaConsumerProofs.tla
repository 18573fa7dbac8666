------------------------ MODULE KafkaConsumerProofs ------------------------
(***************************************************************************)
(* Proofs about KafkaConsumer, for any messages, members and bounds.       *)
(***************************************************************************)
EXTENDS KafkaConsumer, FiniteSetTheorems, TLAPS

(* Appending keeps what a sequence holds and adds the new element. *)
LEMMA RangeOfAppend ==
  ASSUME NEW S, NEW s \in Seq(S), NEW x \in S
  PROVE  /\ Append(s, x) \in Seq(S) /\ Len(Append(s, x)) = Len(s) + 1
         /\ \A i \in 1..Len(s) : Append(s, x)[i] = s[i]
         /\ Append(s, x)[Len(s) + 1] = x
         /\ Range(Append(s, x)) = Range(s) \cup {x}
<1>1. Append(s, x) \in Seq(S) /\ Len(Append(s, x)) = Len(s) + 1
  OBVIOUS
<1>2. \A i \in 1..Len(s) : Append(s, x)[i] = s[i]
  OBVIOUS
<1>3. Append(s, x)[Len(s) + 1] = x
  OBVIOUS
<1>. QED
  BY <1>1, <1>2, <1>3 DEF Range

(* Appending a new element repeats nothing. *)
LEMMA AppendInjective ==
  ASSUME NEW S, NEW s \in Seq(S), NEW x \in S, x \notin Range(s), IsInjective(s)
  PROVE  IsInjective(Append(s, x))
<1>1. DOMAIN s = 1..Len(s) /\ DOMAIN Append(s, x) = 1..Len(s) + 1
  OBVIOUS
<1>2. \A i \in 1..Len(s) : Append(s, x)[i] = s[i] /\ s[i] # x
  BY <1>1, RangeOfAppend DEF Range
<1>3. Append(s, x)[Len(s) + 1] = x
  BY RangeOfAppend
<1>. QED
  BY <1>1, <1>2, <1>3 DEF IsInjective

-----------------------------------------------------------------------------

(* The offsets up to n whose messages were neither handled nor ignored. *)
Lost(n) == {k \in 1..n : ~Settled(log[k])}

(* While a member works on a message, few messages before it are lost, and  *)
(* the message itself is settled when the member comes to commit it.        *)
MemberInv(m) ==
  /\ phase[m] # "fetch" => at[m] # 0 /\ Cardinality(Lost(at[m] - 1)) <= errors
  /\ phase[m] = "commit" => Settled(log[at[m]])

WorkInv == \A m \in Members : MemberInv(m)

(* What the reader of the partition's owner has passed is lost no more than *)
(* errors allow, the message it is working on apart.                        *)
ReaderInv(m) ==
  owner = m =>
    \/ Cardinality(Lost(pos[m])) <= errors
    \/ phase[m] # "fetch" /\ pos[m] = at[m]

ReadersInv == \A m \in Members : ReaderInv(m)

IInv == TypeOK /\ AppliedOnce /\ LossesBounded /\ WorkInv /\ ReadersInv

-----------------------------------------------------------------------------
(* The lost messages up to an offset are finitely many, one offset more     *)
(* adds at most one, and none if its message is settled.                    *)
LEMMA LostCounts ==
  ASSUME NEW n \in Nat
  PROVE  /\ IsFiniteSet(Lost(n)) /\ Cardinality(Lost(n)) \in Nat
         /\ n # 0 => /\ Cardinality(Lost(n)) <= Cardinality(Lost(n - 1)) + 1
                     /\ Settled(log[n]) => Lost(n) = Lost(n - 1)
<1>1. \A i \in Nat : IsFiniteSet(Lost(i)) /\ Cardinality(Lost(i)) \in Nat
  <2>. SUFFICES ASSUME NEW i \in Nat
                PROVE  IsFiniteSet(Lost(i)) /\ Cardinality(Lost(i)) \in Nat
    OBVIOUS
  <2>1. IsFiniteSet(1..i) /\ Lost(i) \subseteq 1..i
    BY FS_Interval DEF Lost
  <2>. QED
    BY <2>1, FS_Subset, FS_CardinalityType
<1>2. ASSUME n # 0
      PROVE  /\ Cardinality(Lost(n)) <= Cardinality(Lost(n - 1)) + 1
             /\ Settled(log[n]) => Lost(n) = Lost(n - 1)
  <2>1. n - 1 \in Nat /\ 1..n = (1..n-1) \cup {n} /\ n \notin 1..n-1
    BY <1>2
  <2>2. Lost(n) = Lost(n - 1) \cup (IF Settled(log[n]) THEN {} ELSE {n})
    BY <2>1 DEF Lost
  <2>3. n \notin Lost(n - 1)
    BY <2>1 DEF Lost
  <2>4. /\ IsFiniteSet(Lost(n - 1)) /\ Cardinality(Lost(n - 1)) \in Nat
        /\ Cardinality(Lost(n - 1) \cup {n}) = Cardinality(Lost(n - 1)) + 1
    BY <1>1, <2>1, <2>3, FS_AddElement
  <2>5. CASE Settled(log[n])
    <3>1. Lost(n) = Lost(n - 1)
      BY <2>2, <2>5
    <3>. QED
      BY <2>4, <3>1
  <2>6. CASE ~Settled(log[n])
    <3>1. Lost(n) = Lost(n - 1) \cup {n}
      BY <2>2, <2>6
    <3>. QED
      BY <2>4, <2>6, <3>1
  <2>. QED
    BY <2>5, <2>6
<1>. QED
  BY <1>1, <1>2

-----------------------------------------------------------------------------
(* What every step keeps: messages keep their offsets, what is handled      *)
(* stays handled and errors are never taken back.                           *)
Keeps ==
  /\ \A k \in 1..Len(log) : k \in 1..Len(log') /\ log'[k] = log[k]
  /\ Range(handled) \subseteq Range(handled')
  /\ errors <= errors'

LEMMA LostShrinks ==
  ASSUME TypeOK, TypeOK', Keeps, NEW n \in 0..Len(log)
  PROVE  /\ Cardinality(Lost(n))' \in Nat
         /\ Cardinality(Lost(n))' <= Cardinality(Lost(n))
         /\ \A k \in 1..Len(log) : Settled(log[k]) => Settled(log[k])'
         /\ n \in 0..Len(log')
<1>1. \A k \in 1..Len(log) : Settled(log[k]) => Settled(log[k])'
  BY DEF Keeps, Settled
<1>2. n \in Nat /\ Len(log) \in Nat /\ n <= Len(log)
  BY DEF TypeOK
<1>3. Lost(n)' \subseteq Lost(n)
  BY <1>1, <1>2 DEF Lost
<1>4. IsFiniteSet(Lost(n)) /\ Cardinality(Lost(n)) \in Nat
  BY <1>2, LostCounts
<1>5. n \in 0..Len(log')
  <2>1. Len(log') \in Nat
    BY DEF TypeOK
  <2>2. n # 0 => n \in 1..Len(log')
    BY <1>2 DEF Keeps
  <2>. QED
    BY <1>2, <2>1, <2>2
<1>6. Cardinality(Lost(n)') \in Nat /\ Cardinality(Lost(n)') <= Cardinality(Lost(n))
  BY <1>3, <1>4, FS_Subset, FS_CardinalityType
<1>. QED
  BY <1>1, <1>5, <1>6

LEMMA StepKeeps ==
  ASSUME TypeOK, WorkInv, [Next]_vars
  PROVE  TypeOK' /\ Keeps
<1>. USE BoundsAssumption DEF Goto, Move
<1>0. Len(log) \in Nat /\ Len(handled) \in Nat /\ errors \in Nat /\ moves \in Nat
  BY DEF TypeOK
<1>h. ASSUME NEW m \in Members, phase[m] # "fetch"
      PROVE  /\ log[at[m]] \in Messages /\ at[m] \in 1..Len(log)
             /\ Append(handled, log[at[m]]) \in Seq(Messages)
             /\ Range(handled) \subseteq Range(Append(handled, log[at[m]]))
  <2>1. log[at[m]] \in Messages /\ at[m] \in 1..Len(log)
    BY <1>h DEF TypeOK, WorkInv, MemberInv
  <2>. QED
    BY <2>1, RangeOfAppend DEF TypeOK
<1>1. ASSUME NEW e \in Messages, Produce(e)
      PROVE  TypeOK' /\ Keeps
  <2>1. /\ log' \in Seq(Messages) /\ Len(log') = Len(log) + 1
        /\ \A k \in 1..Len(log) : log'[k] = log[k]
    BY <1>1, RangeOfAppend DEF Produce, TypeOK
  <2>. QED
    BY <1>0, <1>1, <2>1 DEF Produce, TypeOK, Keeps
<1>2. ASSUME NEW m \in Members, Assign(m)
      PROVE  TypeOK' /\ Keeps
  BY <1>0, <1>2 DEF Assign, TypeOK, Keeps
<1>3. ASSUME NEW m \in Members, Fetch(m)
      PROVE  TypeOK' /\ Keeps
  BY <1>0, <1>3 DEF Fetch, TypeOK, Keeps
<1>4. ASSUME NEW m \in Members, CheckProcessed(m)
      PROVE  TypeOK' /\ Keeps
  BY <1>0, <1>4 DEF CheckProcessed, TypeOK, Keeps
<1>5. ASSUME NEW m \in Members, ApplyEvent(m)
      PROVE  TypeOK' /\ Keeps
  <2>1. handled' \in Seq(Messages) /\ Range(handled) \subseteq Range(handled')
    BY <1>5, <1>h DEF ApplyEvent, TypeOK
  <2>2. phase' \in [Members -> {"fetch", "check", "apply", "commit"}]
    BY <1>5 DEF ApplyEvent, TypeOK
  <2>. QED
    BY <1>0, <1>5, <2>1, <2>2 DEF ApplyEvent, TypeOK, Keeps
<1>6. ASSUME NEW m \in Members, HandlerError(m)
      PROVE  TypeOK' /\ Keeps
  <2>1. handled' \in Seq(Messages) /\ Range(handled) \subseteq Range(handled')
    BY <1>6, <1>h DEF HandlerError, TypeOK
  <2>2. phase' \in [Members -> {"fetch", "check", "apply", "commit"}]
    BY <1>6 DEF HandlerError, TypeOK
  <2>. QED
    BY <1>0, <1>6, <2>1, <2>2 DEF HandlerError, TypeOK, Keeps
<1>7. ASSUME NEW m \in Members, CommitMessages(m)
      PROVE  TypeOK' /\ Keeps
  BY <1>0, <1>7 DEF CommitMessages, TypeOK, Keeps
<1>8. ASSUME NEW m \in Members, CommitError(m)
      PROVE  TypeOK' /\ Keeps
  BY <1>0, <1>8 DEF CommitError, TypeOK, Keeps
<1>9. ASSUME NEW m \in Members, Crash(m)
      PROVE  TypeOK' /\ Keeps
  BY <1>0, <1>9 DEF Crash, TypeOK, Keeps
<1>10. CASE UNCHANGED vars
  BY <1>0, <1>10 DEF vars, TypeOK, Keeps
<1>. QED
  BY <1>1, <1>2, <1>3, <1>4, <1>5, <1>6, <1>7, <1>8, <1>9, <1>10 DEF Next, Run

-----------------------------------------------------------------------------
LEMMA InitIInv == Init => IInv
<1>. SUFFICES ASSUME Init PROVE IInv
  OBVIOUS
<1>1. TypeOK
  BY BoundsAssumption DEF Init, TypeOK
<1>2. Cardinality(Lost(0)) <= 0
  <2>1. Lost(0) = {}
    BY DEF Lost
  <2>. QED
    BY <2>1, FS_EmptySet
<1>3. AppliedOnce
  BY DEF Init, AppliedOnce, IsInjective
<1>4. LossesBounded
  BY <1>2 DEF Init, LossesBounded, Lost
<1>5. WorkInv /\ ReadersInv
  BY <1>2, MessagesAssumption DEF Init, WorkInv, MemberInv, ReadersInv, ReaderInv
<1>. QED
  BY <1>1, <1>3, <1>4, <1>5 DEF IInv

(* One transaction of each event: a handler appends only an event that is   *)
(* not there.                                                               *)
LEMMA NextAppliedOnce ==
  ASSUME TypeOK, WorkInv, AppliedOnce, [Next]_vars
  PROVE  AppliedOnce'
<1>1. CASE UNCHANGED handled
  BY <1>1 DEF AppliedOnce
<1>2. ASSUME NEW m \in Members, phase[m] # "fetch",
             log[at[m]] \notin Range(handled), handled' = Append(handled, log[at[m]])
      PROVE  AppliedOnce'
  <2>1. log[at[m]] \in Messages
    BY <1>2 DEF TypeOK, WorkInv, MemberInv
  <2>. QED
    BY <1>2, <2>1, AppendInjective DEF TypeOK, AppliedOnce
<1>. QED
  BY <1>1, <1>2 DEF Next, vars, Run, Produce, Assign, Fetch, CheckProcessed, ApplyEvent,
                    HandlerError, CommitMessages, CommitError, Crash

(* A bound on what is lost is kept by every step. *)
LEMMA BoundKept ==
  ASSUME TypeOK, TypeOK', Keeps, NEW n \in 0..Len(log), Cardinality(Lost(n)) <= errors
  PROVE  (Cardinality(Lost(n)) <= errors)'
<1>1. errors \in Nat /\ errors' \in Nat /\ errors <= errors' /\ n \in Nat
  BY BoundsAssumption DEF TypeOK, Keeps
<1>2. Cardinality(Lost(n)) \in Nat
  BY <1>1, LostCounts
<1>3. Cardinality(Lost(n))' \in Nat /\ Cardinality(Lost(n))' <= Cardinality(Lost(n))
  BY LostShrinks
<1>. QED
  BY <1>1, <1>2, <1>3

(* A member that is done with its message has lost no more than one, and    *)
(* none when the message is settled.                                        *)
LEMMA DoneWithMessage ==
  ASSUME TypeOK, NEW m \in Members, MemberInv(m), phase[m] # "fetch"
  PROVE  /\ at[m] \in 1..Len(log) /\ at[m] - 1 \in 0..Len(log)
         /\ Cardinality(Lost(at[m])) <= errors + 1
         /\ Settled(log[at[m]]) => Cardinality(Lost(at[m])) <= errors
<1>1. at[m] \in 0..Len(log) /\ Len(log) \in Nat /\ errors \in Nat
  BY BoundsAssumption DEF TypeOK
<1>2. at[m] # 0 /\ Cardinality(Lost(at[m] - 1)) <= errors
  BY DEF MemberInv
<1>3. at[m] \in 1..Len(log) /\ at[m] - 1 \in 0..Len(log) /\ at[m] - 1 \in Nat /\ at[m] \in Nat
  BY <1>1, <1>2
<1>4. /\ Cardinality(Lost(at[m])) \in Nat /\ Cardinality(Lost(at[m] - 1)) \in Nat
      /\ Cardinality(Lost(at[m])) <= Cardinality(Lost(at[m] - 1)) + 1
      /\ Settled(log[at[m]]) => Lost(at[m]) = Lost(at[m] - 1)
  BY <1>2, <1>3, LostCounts
<1>. QED
  BY <1>1, <1>2, <1>3, <1>4

(* What holds of a member, or of the committed offset, still holds after a  *)
(* step that leaves its variables alone: the log only grows, messages stay  *)
(* settled and errors are not taken back.                                   *)
LEMMA Untouched ==
  ASSUME TypeOK, TypeOK', Keeps
  PROVE  /\ LossesBounded /\ UNCHANGED committed => LossesBounded'
         /\ \A m \in Members :
              /\ MemberInv(m) /\ phase'[m] = phase[m] /\ at'[m] = at[m] => MemberInv(m)'
              /\ /\ ReaderInv(m) /\ owner' = owner /\ pos'[m] = pos[m]
                 /\ phase'[m] = phase[m] /\ at'[m] = at[m]
                 => ReaderInv(m)'
<1>0. errors \in Nat /\ errors' \in Nat /\ errors <= errors' /\ Len(log) \in Nat
  BY BoundsAssumption DEF TypeOK, Keeps
<1>1. ASSUME NEW n \in 0..Len(log), Cardinality(Lost(n)) <= errors
      PROVE  (Cardinality(Lost(n)) <= errors)'
  BY <1>1, BoundKept
<1>2. \A k \in 1..Len(log) : Settled(log[k]) => Settled(log[k])'
  BY <1>0, LostShrinks
<1>3. LossesBounded /\ UNCHANGED committed => LossesBounded'
  <2>. SUFFICES ASSUME Cardinality(Lost(committed)) <= errors, committed' = committed
                PROVE  Cardinality(Lost(committed)') <= errors'
    BY DEF LossesBounded, Lost
  <2>1. committed \in 0..Len(log)
    BY DEF TypeOK
  <2>. QED
    BY <1>1, <2>1
<1>4. ASSUME NEW m \in Members, MemberInv(m), phase'[m] = phase[m], at'[m] = at[m]
      PROVE  MemberInv(m)'
  <2>1. CASE phase[m] = "fetch"
    BY <1>4, <2>1 DEF MemberInv
  <2>2. CASE phase[m] # "fetch"
    <3>1. at[m] \in 1..Len(log) /\ at[m] - 1 \in 0..Len(log)
      BY <1>4, <2>2, DoneWithMessage
    <3>2. (Cardinality(Lost(at[m] - 1)) <= errors)'
      BY <1>1, <1>4, <2>2, <3>1 DEF MemberInv
    <3>3. log'[at[m]] = log[at[m]]
      BY <3>1 DEF Keeps
    <3>. QED
      BY <1>2, <1>4, <2>2, <3>1, <3>2, <3>3 DEF MemberInv
  <2>. QED
    BY <2>1, <2>2
<1>5. ASSUME NEW m \in Members, ReaderInv(m), owner' = owner, pos'[m] = pos[m],
             phase'[m] = phase[m], at'[m] = at[m]
      PROVE  ReaderInv(m)'
  <2>1. pos[m] \in 0..Len(log)
    BY DEF TypeOK
  <2>. QED
    BY <1>1, <1>5, <2>1 DEF ReaderInv
<1>. QED
  BY <1>3, <1>4, <1>5

(* The invariant is inductive. *)
LEMMA NextIInv == IInv /\ [Next]_vars => IInv'
<1>. SUFFICES ASSUME TypeOK, AppliedOnce, LossesBounded, WorkInv, ReadersInv, [Next]_vars
              PROVE  IInv'
  BY DEF IInv
<1>0. TypeOK' /\ Keeps /\ AppliedOnce'
  BY StepKeeps, NextAppliedOnce
<1>. SUFFICES LossesBounded' /\ WorkInv' /\ ReadersInv'
  BY <1>0 DEF IInv
<1>l. UNCHANGED committed => LossesBounded'
  BY <1>0, Untouched
<1>w. ASSUME NEW m \in Members, phase'[m] = phase[m], at'[m] = at[m]
      PROVE  MemberInv(m)'
  BY <1>0, <1>w, Untouched DEF WorkInv
<1>r. ASSUME NEW m \in Members, owner' = owner, pos'[m] = pos[m],
             phase'[m] = phase[m], at'[m] = at[m]
      PROVE  ReaderInv(m)'
  BY <1>0, <1>r, Untouched DEF ReadersInv
<1>d. ASSUME NEW m \in Members, phase[m] # "fetch"
      PROVE  /\ at[m] \in 1..Len(log) /\ at[m] - 1 \in 0..Len(log)
             /\ Cardinality(Lost(at[m])) <= errors + 1
             /\ Settled(log[at[m]]) => Cardinality(Lost(at[m])) <= errors
  BY <1>d, DoneWithMessage DEF WorkInv
<1>b. ASSUME NEW n \in 0..Len(log), Cardinality(Lost(n)) <= errors
      PROVE  (Cardinality(Lost(n)) <= errors)'
  BY <1>0, <1>b, BoundKept
<1>s. ASSUME NEW m \in Members, phase[m] # "fetch", phase'[m] # "fetch",
             owner' = owner, pos'[m] = pos[m], at'[m] = at[m],
             phase'[m] = "commit" => Settled(log[at[m]])'
      PROVE  MemberInv(m)' /\ ReaderInv(m)'
  <2>1. (Cardinality(Lost(at[m] - 1)) <= errors)' /\ at'[m] # 0
    BY <1>b, <1>d, <1>s DEF WorkInv, MemberInv
  <2>2. MemberInv(m)'
    BY <1>s, <2>1 DEF MemberInv
  <2>3. ReaderInv(m)'
    <3>1. pos[m] \in 0..Len(log)
      BY DEF TypeOK
    <3>. QED
      BY <1>b, <1>s, <3>1 DEF ReadersInv, ReaderInv
  <2>. QED
    BY <2>2, <2>3
<1>f. ASSUME NEW m \in Members, phase[m] # "fetch", phase'[m] = "fetch",
             owner' = owner, pos'[m] = pos[m],
             Settled(log[at[m]]) \/ errors' = errors + 1
      PROVE  MemberInv(m)' /\ ReaderInv(m)'
  <2>1. MemberInv(m)'
    BY <1>f DEF MemberInv
  <2>2. at[m] \in 0..Len(log) /\ pos[m] \in 0..Len(log) /\ errors \in Nat
    BY BoundsAssumption DEF TypeOK
  <2>3. ASSUME NEW n \in 0..Len(log), n = at[m]
        PROVE  (Cardinality(Lost(n)) <= errors)'
    <3>1. CASE Settled(log[at[m]])
      BY <1>b, <1>d, <1>f, <2>3, <3>1
    <3>2. CASE errors' = errors + 1
      <4>1. Cardinality(Lost(n)) <= errors + 1 /\ n \in Nat
        BY <1>d, <1>f, <2>3
      <4>2. /\ Cardinality(Lost(n)) \in Nat /\ Cardinality(Lost(n))' \in Nat
            /\ Cardinality(Lost(n))' <= Cardinality(Lost(n))
        BY <1>0, <4>1, LostCounts, LostShrinks
      <4>. QED
        BY <2>2, <3>2, <4>1, <4>2
    <3>. QED
      BY <1>f, <3>1, <3>2
  <2>4. CASE pos[m] = at[m]
    BY <1>f, <2>1, <2>2, <2>3, <2>4 DEF ReaderInv
  <2>5. CASE owner = m /\ pos[m] # at[m]
    BY <1>b, <1>f, <2>1, <2>2, <2>5 DEF ReadersInv, ReaderInv
  <2>6. CASE owner # m
    BY <1>f, <2>1, <2>6 DEF ReaderInv
  <2>. QED
    BY <2>1, <2>4, <2>5, <2>6
<1>1. ASSUME NEW e \in Messages, Produce(e)
      PROVE  LossesBounded' /\ WorkInv' /\ ReadersInv'
  BY <1>1, <1>l, <1>w, <1>r DEF Produce, WorkInv, ReadersInv
<1>2. ASSUME NEW m \in Members, Assign(m)
      PROVE  LossesBounded' /\ WorkInv' /\ ReadersInv'
  <2>1. LossesBounded' /\ WorkInv'
    BY <1>2, <1>l, <1>w DEF Assign, WorkInv
  <2>2. ReaderInv(m)'
    BY <1>2, <2>1 DEF Assign, TypeOK, ReaderInv, LossesBounded, Lost
  <2>. QED
    BY <1>2, <2>1, <2>2 DEF Assign, ReadersInv, ReaderInv
<1>3. ASSUME NEW m \in Members, Fetch(m)
      PROVE  LossesBounded' /\ WorkInv' /\ ReadersInv'
  <2>1. /\ pos[m] \in 0..Len(log) /\ Cardinality(Lost(pos[m])) <= errors
        /\ at'[m] = pos[m] + 1 /\ pos'[m] = pos[m] + 1
        /\ phase'[m] = IF log[pos[m] + 1] \in Ignored THEN "commit" ELSE "check"
    BY <1>3 DEF Fetch, Goto, TypeOK, ReadersInv, ReaderInv
  <2>2. (Cardinality(Lost(at[m] - 1)) <= errors)' /\ at'[m] # 0
    <3>1. at'[m] - 1 = pos[m] /\ at'[m] # 0
      BY <2>1
    <3>. QED
      BY <1>0, <2>1, <3>1, BoundKept
  <2>3. log'[at'[m]] = log[pos[m] + 1] /\ (log[pos[m] + 1] \in Ignored => Settled(log[at[m]])')
    BY <1>3, <2>1 DEF Fetch, Settled
  <2>4. MemberInv(m)' /\ ReaderInv(m)'
    BY <2>1, <2>2, <2>3 DEF MemberInv, ReaderInv
  <2>. QED
    BY <1>3, <1>l, <1>w, <1>r, <2>4 DEF Fetch, Goto, WorkInv, ReadersInv
<1>4. ASSUME NEW m \in Members, CheckProcessed(m)
      PROVE  LossesBounded' /\ WorkInv' /\ ReadersInv'
  <2>1. /\ phase[m] # "fetch" /\ phase'[m] # "fetch"
        /\ phase'[m] = "commit" => Settled(log[at[m]])'
    BY <1>4 DEF CheckProcessed, Goto, TypeOK, Settled
  <2>2. MemberInv(m)' /\ ReaderInv(m)'
    BY <1>4, <1>s, <2>1 DEF CheckProcessed
  <2>. QED
    BY <1>4, <1>l, <1>w, <1>r, <2>2 DEF CheckProcessed, Goto, WorkInv, ReadersInv
<1>5. ASSUME NEW m \in Members, ApplyEvent(m)
      PROVE  LossesBounded' /\ WorkInv' /\ ReadersInv'
  <2>0. /\ phase[m] = "apply" /\ phase'[m] \in {"fetch", "commit"}
        /\ owner' = owner /\ pos'[m] = pos[m] /\ at'[m] = at[m]
        /\ log' = log /\ committed' = committed
        /\ \A q \in Members : at'[q] = at[q] /\ pos'[q] = pos[q]
        /\ \A q \in Members \ {m} : phase'[q] = phase[q]
    BY <1>5 DEF ApplyEvent, Goto, TypeOK
  <2>1. log[at[m]] \in Messages /\ log'[at'[m]] = log[at[m]]
    BY <1>d, <2>0 DEF TypeOK
  <2>2. ASSUME log[at[m]] \in Range(handled), UNCHANGED handled
        PROVE  MemberInv(m)' /\ ReaderInv(m)'
    <3>1. Settled(log[at[m]]) /\ Settled(log[at[m]])'
      BY <2>0, <2>2 DEF Settled
    <3>. QED
      BY <1>f, <1>s, <2>0, <3>1
  <2>3. ASSUME handled' = Append(handled, log[at[m]]), phase'[m] = "commit"
        PROVE  MemberInv(m)' /\ ReaderInv(m)'
    <3>1. log[at[m]] \in Range(handled')
      BY <2>1, <2>3, RangeOfAppend DEF TypeOK
    <3>2. Settled(log[at[m]])'
      BY <2>1, <3>1 DEF Settled
    <3>. QED
      BY <1>s, <2>0, <2>3, <3>2
  <2>4. MemberInv(m)' /\ ReaderInv(m)'
    <3>1. \/ log[at[m]] \in Range(handled) /\ UNCHANGED handled
          \/ handled' = Append(handled, log[at[m]]) /\ phase'[m] = "commit"
      BY <1>5 DEF ApplyEvent, Goto, TypeOK
    <3>. QED
      BY <2>2, <2>3, <3>1
  <2>. QED
    BY <1>l, <1>w, <1>r, <2>0, <2>4 DEF WorkInv, ReadersInv
<1>6. ASSUME NEW m \in Members, HandlerError(m)
      PROVE  LossesBounded' /\ WorkInv' /\ ReadersInv'
  <2>1. MemberInv(m)' /\ ReaderInv(m)'
    BY <1>6, <1>f DEF HandlerError, Goto, TypeOK
  <2>. QED
    BY <1>6, <1>l, <1>w, <1>r, <2>1 DEF HandlerError, Goto, WorkInv, ReadersInv
<1>7. ASSUME NEW m \in Members, CommitMessages(m)
      PROVE  LossesBounded' /\ WorkInv' /\ ReadersInv'
  <2>1. phase[m] # "fetch" /\ Settled(log[at[m]])
    BY <1>7 DEF CommitMessages, WorkInv, MemberInv
  <2>2. MemberInv(m)' /\ ReaderInv(m)'
    BY <1>7, <1>f, <2>1 DEF CommitMessages, Goto, TypeOK
  <2>3. LossesBounded'
    <3>1. at[m] \in 0..Len(log) /\ Cardinality(Lost(at[m])) <= errors
      BY <1>d, <2>1 DEF TypeOK
    <3>2. committed' = at[m]
      BY <1>7 DEF CommitMessages
    <3>. QED
      BY <1>b, <3>1, <3>2 DEF LossesBounded, Lost
  <2>. QED
    BY <1>7, <1>w, <1>r, <2>2, <2>3 DEF CommitMessages, Goto, WorkInv, ReadersInv
<1>8. ASSUME NEW m \in Members, CommitError(m)
      PROVE  LossesBounded' /\ WorkInv' /\ ReadersInv'
  <2>1. phase[m] # "fetch" /\ Settled(log[at[m]])
    BY <1>8 DEF CommitError, WorkInv, MemberInv
  <2>2. MemberInv(m)' /\ ReaderInv(m)'
    BY <1>8, <1>f, <2>1 DEF CommitError, Goto, TypeOK
  <2>. QED
    BY <1>8, <1>l, <1>w, <1>r, <2>2 DEF CommitError, Goto, WorkInv, ReadersInv
<1>9. ASSUME NEW m \in Members, Crash(m)
      PROVE  LossesBounded' /\ WorkInv' /\ ReadersInv'
  <2>1. /\ phase'[m] = "fetch" /\ owner' # m /\ committed' = committed
        /\ owner' \in {owner, NoMember}
        /\ \A q \in Members \ {m} : phase'[q] = phase[q]
        /\ \A q \in Members : at'[q] = at[q] /\ pos'[q] = pos[q]
    BY <1>9, MessagesAssumption DEF Crash, Goto, TypeOK
  <2>2. MemberInv(m)' /\ ReaderInv(m)'
    BY <2>1 DEF MemberInv, ReaderInv
  <2>3. ASSUME NEW q \in Members \ {m}
        PROVE  MemberInv(q)' /\ ReaderInv(q)'
    <3>1. CASE owner' = owner
      BY <1>w, <1>r, <2>1, <2>3, <3>1
    <3>2. CASE owner' = NoMember
      BY <1>w, <2>1, <2>3, <3>2, MessagesAssumption DEF ReaderInv
    <3>. QED
      BY <2>1, <3>1, <3>2
  <2>. QED
    BY <1>l, <2>1, <2>2, <2>3 DEF WorkInv, ReadersInv
<1>10. CASE UNCHANGED vars
  BY <1>10, <1>l, <1>w, <1>r DEF vars, WorkInv, ReadersInv
<1>. QED
  BY <1>1, <1>2, <1>3, <1>4, <1>5, <1>6, <1>7, <1>8, <1>9, <1>10 DEF Next, Run

-----------------------------------------------------------------------------
(* The inductive invariant holds in every reachable state. *)
THEOREM Invariance == Spec => []IInv
<1>. QED
  BY InitIInv, NextIInv, PTL DEF Spec

(* Type correctness: offsets and positions stay within the partition. *)
THEOREM TypeCorrect == Spec => []TypeOK
<1>1. IInv => TypeOK
  BY DEF IInv
<1>. QED
  BY <1>1, Invariance, PTL

(* However often an event is delivered and whoever races on it, one         *)
(* transaction takes effect.                                                *)
THEOREM HandledOnce == Spec => []AppliedOnce
<1>1. IInv => AppliedOnce
  BY DEF IInv
<1>. QED
  BY <1>1, Invariance, PTL

(* The committed offset passes no more unhandled messages than handlers     *)
(* have failed, however the partition moves.                                *)
THEOREM LossesAreErrors == Spec => []LossesBounded
<1>1. IInv => LossesBounded
  BY DEF IInv
<1>. QED
  BY <1>1, Invariance, PTL

(* While no handler has failed, events take effect in the partition's       *)
(* order: all before the one applied are settled.                           *)
THEOREM OrderKept == Spec => HandledInOrder
<1>1. IInv /\ [Next]_vars =>
        [errors' = 0 /\ handled' # handled =>
           \E k \in DOMAIN log :
             /\ handled' = Append(handled, log[k])
             /\ \A j \in 1..k-1 : Settled(log[j])]_vars
  <2>. SUFFICES ASSUME IInv, [Next]_vars, errors' = 0, handled' # handled
                PROVE  \E k \in DOMAIN log :
                         /\ handled' = Append(handled, log[k])
                         /\ \A j \in 1..k-1 : Settled(log[j])
    OBVIOUS
  <2>0. TypeOK /\ WorkInv /\ errors = 0
    <3>1. TypeOK' /\ Keeps
      BY StepKeeps DEF IInv
    <3>. QED
      BY <3>1 DEF IInv, TypeOK, Keeps
  <2>1. PICK m \in Members : phase[m] # "fetch" /\ handled' = Append(handled, log[at[m]])
    BY DEF Next, vars, Run, Produce, Assign, Fetch, CheckProcessed, ApplyEvent,
           HandlerError, CommitMessages, CommitError, Crash
  <2>2. at[m] \in 1..Len(log) /\ at[m] - 1 \in Nat
    BY <2>0, <2>1, DoneWithMessage DEF WorkInv
  <2>3. Cardinality(Lost(at[m] - 1)) = 0 /\ IsFiniteSet(Lost(at[m] - 1))
    <3>1. Cardinality(Lost(at[m] - 1)) <= 0
      BY <2>0, <2>1 DEF WorkInv, MemberInv
    <3>2. Cardinality(Lost(at[m] - 1)) \in Nat /\ IsFiniteSet(Lost(at[m] - 1))
      BY <2>2, LostCounts
    <3>. QED
      BY <3>1, <3>2
  <2>4. Lost(at[m] - 1) = {}
    BY <2>3, FS_EmptySet
  <2>5. \A j \in 1..at[m]-1 : Settled(log[j])
    BY <2>4 DEF Lost
  <2>6. at[m] \in DOMAIN log
    BY <2>0, <2>2 DEF TypeOK
  <2>. QED
    BY <2>1, <2>5, <2>6
<1>. QED
  BY <1>1, Invariance, PTL DEF Spec, HandledInOrder
=============================================================================
