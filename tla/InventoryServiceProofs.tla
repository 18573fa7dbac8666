----------------------- MODULE InventoryServiceProofs -----------------------
(***************************************************************************)
(* Proofs about InventoryService, for any finite set of orders, any stock  *)
(* and any baskets the order service accepts.                              *)
(***************************************************************************)
EXTENDS InventoryService, FiniteSetTheorems, WellFoundedInduction, TLAPS

(***************************************************************************)
(* Sums. The community modules define a fold by recursion over the finite  *)
(* subsets of its domain; the induction here is done with the least        *)
(* element of a set of naturals.                                           *)
(***************************************************************************)

(* A non-empty set of naturals has a least element. *)
LEMMA LeastNatural ==
  ASSUME NEW T \in SUBSET Nat, T # {}
  PROVE  \E n \in T : \A m \in T : n <= m
<1>. DEFINE Less == {ss \in Nat \X Nat : ss[1] < ss[2]}
<1>1. \E x \in T : \A y \in T : ~(<<y, x>> \in OpToRel(<, Nat))
  BY NatLessThanWellFounded, WFMin
<1>2. OpToRel(<, Nat) = Less
  BY Zenon DEF OpToRel
<1>3. PICK x \in T : \A y \in T : <<y, x>> \notin Less
  BY Zenon, <1>1, <1>2
<1>4. ASSUME NEW y \in T
      PROVE  x <= y
  <2>1. x \in Nat /\ y \in Nat
    OBVIOUS
  <2>2. <<y, x>> \in Less <=> y < x
    BY <2>1
  <2>. QED
    BY <1>3, <2>1, <2>2
<1>. QED
  BY <1>4

(* A non-empty set of subsets of a finite set has a member none of whose    *)
(* proper subsets is in it.                                                 *)
LEMMA MinimalSubset ==
  ASSUME NEW S, IsFiniteSet(S), NEW B, B \subseteq SUBSET S, B # {}
  PROVE  \E s \in B : \A t \in B : t \subseteq s => t = s
<1>. DEFINE T == {Cardinality(s) : s \in B}
<1>1. \A s \in B : IsFiniteSet(s) /\ Cardinality(s) \in Nat
  BY FS_Subset, FS_CardinalityType
<1>2. T \in SUBSET Nat /\ T # {}
  BY <1>1
<1>3. PICK n \in T : \A m \in T : n <= m
  BY <1>2, LeastNatural
<1>4. PICK s \in B : n = Cardinality(s)
  OBVIOUS
<1>5. ASSUME NEW t \in B, t \subseteq s, t # s
      PROVE  FALSE
  <2>1. Cardinality(t) < Cardinality(s)
    BY <1>1, <1>5, FS_Subset
  <2>. QED
    BY <1>1, <1>3, <1>4, <2>1
<1>. QED
  BY <1>5

-----------------------------------------------------------------------------
Pick(s) == CHOOSE x \in s : TRUE

(* The equation that defines the fold: what is picked first, plus the sum   *)
(* over the rest.                                                           *)
SumStep(h, f, s) == IF s = {} THEN 0 ELSE f[Pick(s)] + h[s \ {Pick(s)}]
IsSum(h, f, S) == h = [s \in SUBSET S |-> SumStep(h, f, s)]

LEMMA PickProperties ==
  ASSUME NEW s, s # {}
  PROVE  Pick(s) \in s
BY DEF Pick

(* Some function satisfies the equation. *)
LEMMA SumExists ==
  ASSUME NEW S, IsFiniteSet(S), NEW f
  PROVE  \E h : IsSum(h, f, S)
<1>. DEFINE UpTo(n) == \E h : \A s \in SUBSET S : Cardinality(s) <= n => h[s] = SumStep(h, f, s)
            T == {n \in Nat : ~UpTo(n)}
<1>0. \A s \in SUBSET S : /\ IsFiniteSet(s) /\ Cardinality(s) \in Nat
                          /\ Cardinality(s) <= Cardinality(S)
                          /\ s # {} => /\ s \ {Pick(s)} \in SUBSET S
                                       /\ Cardinality(s \ {Pick(s)}) = Cardinality(s) - 1
  BY FS_Subset, FS_CardinalityType, FS_RemoveElement, PickProperties
<1>1. T = {}
  <2>. SUFFICES ASSUME T # {} PROVE FALSE
    OBVIOUS
  <2>1. PICK n \in T : \A m \in T : n <= m
    BY LeastNatural
  <2>2. n \in Nat /\ ~UpTo(n)
    OBVIOUS
  <2>3. CASE n = 0
    <3>. DEFINE h == [s \in SUBSET S |-> 0]
    <3>1. \A s \in SUBSET S : Cardinality(s) <= 0 => s = {}
      <4>1. \A s \in SUBSET S : Cardinality(s) \in Nat /\ (Cardinality(s) = 0 => s = {})
        BY <1>0, FS_EmptySet
      <4>. QED
        BY <4>1
    <3>2. \A s \in SUBSET S : Cardinality(s) <= 0 => h[s] = SumStep(h, f, s)
      BY <3>1 DEF SumStep
    <3>. QED
      BY <2>2, <2>3, <3>2
  <2>4. CASE n # 0
    <3>1. n - 1 \in Nat /\ n - 1 \notin T
      BY <2>1, <2>2, <2>4
    <3>2. UpTo(n - 1)
      BY <3>1
    <3>3. PICK g : \A s \in SUBSET S : Cardinality(s) <= n - 1 => g[s] = SumStep(g, f, s)
      BY <3>2
    <3>. DEFINE h == [s \in SUBSET S |-> IF Cardinality(s) <= n - 1 THEN g[s] ELSE SumStep(g, f, s)]
    <3>4. ASSUME NEW s \in SUBSET S, Cardinality(s) <= n
          PROVE  h[s] = SumStep(h, f, s)
      <4>1. h[s] = SumStep(g, f, s)
        BY <3>3
      <4>2. CASE s = {}
        BY <4>1, <4>2 DEF SumStep
      <4>3. CASE s # {}
        <5>1. /\ s \ {Pick(s)} \in SUBSET S
              /\ Cardinality(s \ {Pick(s)}) <= n - 1
          BY <1>0, <2>2, <3>4, <4>3
        <5>2. h[s \ {Pick(s)}] = g[s \ {Pick(s)}]
          BY <5>1
        <5>. QED
          BY <4>1, <5>2 DEF SumStep
      <4>. QED
        BY <4>2, <4>3
    <3>. HIDE DEF h
    <3>5. UpTo(n)
      BY <3>4
    <3>. QED
      BY <2>2, <3>5
  <2>. QED
    BY <2>3, <2>4
<1>2. UpTo(Cardinality(S))
  BY <1>1, FS_CardinalityType
<1>3. PICK g : \A s \in SUBSET S : g[s] = SumStep(g, f, s)
  BY <1>0, <1>2
<1>. DEFINE h == [s \in SUBSET S |-> g[s]]
<1>4. \A s \in SUBSET S : h[s] = SumStep(h, f, s)
  BY <1>0, <1>3 DEF SumStep
<1>5. h = [s \in SUBSET S |-> SumStep(h, f, s)]
  BY <1>4
<1>. QED
  BY <1>5 DEF IsSum

(* Two functions that satisfy it, on S and on a subset of S, agree there. *)
LEMMA SumUnique ==
  ASSUME NEW S, IsFiniteSet(S), NEW f, NEW h, IsSum(h, f, S),
         NEW T \in SUBSET S, NEW g, IsSum(g, f, T)
  PROVE  g[T] = h[T]
<1>. DEFINE B == {s \in SUBSET T : g[s] # h[s]}
<1>1. SUFFICES B = {}
  OBVIOUS
<1>2. IsFiniteSet(T)
  BY FS_Subset
<1>. SUFFICES ASSUME B # {} PROVE FALSE
  OBVIOUS
<1>0. B \subseteq SUBSET T
  OBVIOUS
<1>3. PICK s \in B : \A t \in B : t \subseteq s => t = s
  <2>. HIDE DEF B
  <2>. QED
    BY <1>0, <1>2, MinimalSubset
<1>4. g[s] = SumStep(g, f, s) /\ h[s] = SumStep(h, f, s)
  BY DEF IsSum
<1>5. s # {}
  BY <1>4 DEF SumStep
<1>6. Pick(s) \in s
  BY <1>5, PickProperties
<1>7. s \ {Pick(s)} \notin B
  BY <1>3, <1>6
<1>8. g[s \ {Pick(s)}] = h[s \ {Pick(s)}]
  BY <1>7
<1>. QED
  BY <1>4, <1>5, <1>8 DEF SumStep

(* Sums of integers are integers. *)
LEMMA SumTyped ==
  ASSUME NEW S, IsFiniteSet(S), NEW f, \A x \in S : f[x] \in Int,
         NEW h, IsSum(h, f, S)
  PROVE  \A s \in SUBSET S : h[s] \in Int
<1>. DEFINE B == {s \in SUBSET S : h[s] \notin Int}
<1>. SUFFICES ASSUME B # {} PROVE FALSE
  OBVIOUS
<1>0. B \subseteq SUBSET S
  OBVIOUS
<1>1. PICK s \in B : \A t \in B : t \subseteq s => t = s
  <2>. HIDE DEF B
  <2>. QED
    BY <1>0, MinimalSubset
<1>2. h[s] = SumStep(h, f, s)
  BY DEF IsSum
<1>3. s # {}
  BY <1>2 DEF SumStep
<1>4. Pick(s) \in s
  BY <1>3, PickProperties
<1>5. h[s \ {Pick(s)}] \in Int
  BY <1>1, <1>4
<1>6. f[Pick(s)] \in Int
  BY <1>4
<1>. QED
  BY <1>2, <1>3, <1>5, <1>6 DEF SumStep

-----------------------------------------------------------------------------
(* Sum(f, S) is what SumFunctionOnSet computes. *)
Sum(f, S) == SumFunctionOnSet(f, S)

LEMMA SumChoose ==
  ASSUME NEW S, NEW f
  PROVE  Sum(f, S) = (CHOOSE h : IsSum(h, f, S))[S]
BY DEF Sum, SumFunctionOnSet, FoldFunctionOnSet, MapThenFoldSet, IsSum, SumStep, Pick

LEMMA SumOf ==
  ASSUME NEW S, IsFiniteSet(S), NEW f, NEW h, IsSum(h, f, S)
  PROVE  \A T \in SUBSET S : Sum(f, T) = h[T]
<1>. SUFFICES ASSUME NEW T \in SUBSET S PROVE Sum(f, T) = h[T]
  OBVIOUS
<1>1. IsFiniteSet(T)
  BY FS_Subset
<1>2. IsSum(CHOOSE g : IsSum(g, f, T), f, T)
  BY <1>1, SumExists
<1>3. (CHOOSE g : IsSum(g, f, T))[T] = h[T]
  BY <1>2, SumUnique
<1>. QED
  BY <1>3, SumChoose

LEMMA SumSolves ==
  ASSUME NEW S, IsFiniteSet(S), NEW f, NEW h, IsSum(h, f, S)
  PROVE  Sum(f, S) = h[S]
BY SumOf

(* The sum over a finite set is an integer, 0 over the empty set, and any   *)
(* element may be taken out first.                                          *)
LEMMA SumInt ==
  ASSUME NEW S, IsFiniteSet(S), NEW f, \A x \in S : f[x] \in Int
  PROVE  Sum(f, S) \in Int
BY SumExists, SumOf, SumTyped

LEMMA SumEmpty ==
  ASSUME NEW f
  PROVE  Sum(f, {}) = 0
<1>1. IsFiniteSet({})
  BY FS_EmptySet
<1>2. PICK h : IsSum(h, f, {})
  BY <1>1, SumExists
<1>3. h[{}] = 0
  BY <1>2 DEF IsSum, SumStep
<1>. QED
  BY <1>1, <1>2, <1>3, SumOf

LEMMA SumPick ==
  ASSUME NEW S, IsFiniteSet(S), S # {}, NEW f
  PROVE  Sum(f, S) = f[Pick(S)] + Sum(f, S \ {Pick(S)})
<1>1. PICK h : IsSum(h, f, S)
  BY SumExists
<1>2. h[S] = f[Pick(S)] + h[S \ {Pick(S)}]
  BY <1>1 DEF IsSum, SumStep
<1>. QED
  BY <1>1, <1>2, SumOf

LEMMA SumRemove ==
  ASSUME NEW S, IsFiniteSet(S), NEW f, \A x \in S : f[x] \in Int, NEW x \in S
  PROVE  Sum(f, S) = f[x] + Sum(f, S \ {x})
<1>. DEFINE Good(s) == \A y \in s : Sum(f, s) = f[y] + Sum(f, s \ {y})
            B == {s \in SUBSET S : ~Good(s)}
<1>. SUFFICES ASSUME B # {} PROVE FALSE
  BY DEF Sum
<1>0. B \subseteq SUBSET S
  OBVIOUS
<1>1. PICK s \in B : \A t \in B : t \subseteq s => t = s
  <2>. HIDE DEF B
  <2>. QED
    BY <1>0, MinimalSubset
<1>2. PICK y \in s : Sum(f, s) # f[y] + Sum(f, s \ {y})
  OBVIOUS
<1>. DEFINE z == Pick(s)
<1>3. /\ IsFiniteSet(s) /\ z \in s
      /\ Sum(f, s) = f[z] + Sum(f, s \ {z})
  BY FS_Subset, SumPick, PickProperties
<1>4. y # z
  BY <1>2, <1>3
<1>5. Good(s \ {z}) /\ Good(s \ {y})
  BY <1>1, <1>3
<1>6. Sum(f, s \ {z}) = f[y] + Sum(f, (s \ {z}) \ {y})
  BY <1>4, <1>5
<1>7. Sum(f, s \ {y}) = f[z] + Sum(f, (s \ {y}) \ {z})
  BY <1>3, <1>4, <1>5
<1>8. Sum(f, s \ {y}) = f[z] + Sum(f, (s \ {z}) \ {y})
  <2>1. (s \ {z}) \ {y} = (s \ {y}) \ {z}
    OBVIOUS
  <2>. QED
    BY <1>7, <2>1
<1>9. /\ IsFiniteSet((s \ {z}) \ {y})
      /\ Sum(f, (s \ {z}) \ {y}) \in Int
  BY FS_Subset, SumInt
<1>10. f[y] \in Int /\ f[z] \in Int
  BY <1>3
<1>. HIDE DEF z, B
<1>. QED
  BY <1>2, <1>3, <1>6, <1>8, <1>9, <1>10

(* The sum depends on nothing but the values it adds up. *)
LEMMA SumEqual ==
  ASSUME NEW S, IsFiniteSet(S), NEW f, NEW g, \A x \in S : f[x] = g[x]
  PROVE  Sum(f, S) = Sum(g, S)
<1>. DEFINE B == {s \in SUBSET S : Sum(f, s) # Sum(g, s)}
<1>. SUFFICES ASSUME B # {} PROVE FALSE
  OBVIOUS
<1>0. B \subseteq SUBSET S
  OBVIOUS
<1>1. PICK s \in B : \A t \in B : t \subseteq s => t = s
  <2>. HIDE DEF B
  <2>. QED
    BY <1>0, MinimalSubset
<1>2. s # {}
  BY SumEmpty
<1>3. /\ IsFiniteSet(s) /\ Pick(s) \in s
      /\ Sum(f, s) = f[Pick(s)] + Sum(f, s \ {Pick(s)})
      /\ Sum(g, s) = g[Pick(s)] + Sum(g, s \ {Pick(s)})
  BY <1>2, FS_Subset, SumPick, PickProperties
<1>4. Sum(f, s \ {Pick(s)}) = Sum(g, s \ {Pick(s)})
  BY <1>1, <1>3
<1>. QED
  BY <1>3, <1>4

(* Changing one value changes the sum by the difference. *)
LEMMA SumUpdate ==
  ASSUME NEW S, IsFiniteSet(S), NEW f, NEW g, NEW x \in S,
         \A y \in S : f[y] \in Int /\ g[y] \in Int,
         \A y \in S \ {x} : f[y] = g[y]
  PROVE  Sum(g, S) = Sum(f, S) - f[x] + g[x]
<1>1. IsFiniteSet(S \ {x})
  BY FS_Subset
<1>2. Sum(f, S \ {x}) = Sum(g, S \ {x}) /\ Sum(f, S \ {x}) \in Int
  BY <1>1, SumEqual, SumInt
<1>3. /\ Sum(f, S) = f[x] + Sum(f, S \ {x})
      /\ Sum(g, S) = g[x] + Sum(g, S \ {x})
  BY SumRemove
<1>. QED
  BY <1>2, <1>3

(* A sum of naturals is a natural, and no smaller than any of its terms. *)
LEMMA SumNat ==
  ASSUME NEW S, IsFiniteSet(S), NEW f, \A x \in S : f[x] \in Nat
  PROVE  /\ Sum(f, S) \in Nat
         /\ \A x \in S : f[x] <= Sum(f, S)
<1>. DEFINE B == {s \in SUBSET S : Sum(f, s) \notin Nat}
<1>1. B = {}
  <2>. SUFFICES ASSUME B # {} PROVE FALSE
    OBVIOUS
  <2>0. B \subseteq SUBSET S
    OBVIOUS
  <2>1. PICK s \in B : \A t \in B : t \subseteq s => t = s
    <3>. HIDE DEF B
    <3>. QED
      BY <2>0, MinimalSubset
  <2>2. s # {}
    BY SumEmpty
  <2>3. /\ IsFiniteSet(s) /\ Pick(s) \in s
        /\ Sum(f, s) = f[Pick(s)] + Sum(f, s \ {Pick(s)})
    BY <2>2, FS_Subset, SumPick, PickProperties
  <2>4. Sum(f, s \ {Pick(s)}) \in Nat /\ f[Pick(s)] \in Nat
    BY <2>1, <2>3
  <2>. QED
    BY <2>3, <2>4
<1>2. ASSUME NEW x \in S
      PROVE  f[x] <= Sum(f, S)
  <2>1. Sum(f, S) = f[x] + Sum(f, S \ {x})
    BY SumRemove
  <2>2. Sum(f, S \ {x}) \in Nat
    BY <1>1
  <2>. QED
    BY <2>1, <2>2
<1>. QED
  BY <1>1, <1>2

(* A sum of zeros, and a sum of which one term counts. *)
LEMMA SumZero ==
  ASSUME NEW S, IsFiniteSet(S), NEW f, \A x \in S : f[x] = 0
  PROVE  Sum(f, S) = 0
<1>. DEFINE B == {s \in SUBSET S : Sum(f, s) # 0}
<1>. SUFFICES ASSUME B # {} PROVE FALSE
  OBVIOUS
<1>0. B \subseteq SUBSET S
  OBVIOUS
<1>1. PICK s \in B : \A t \in B : t \subseteq s => t = s
  <2>. HIDE DEF B
  <2>. QED
    BY <1>0, MinimalSubset
<1>2. s # {}
  BY SumEmpty
<1>3. /\ IsFiniteSet(s) /\ Pick(s) \in s
      /\ Sum(f, s) = f[Pick(s)] + Sum(f, s \ {Pick(s)})
  BY <1>2, FS_Subset, SumPick, PickProperties
<1>4. Sum(f, s \ {Pick(s)}) = 0
  BY <1>1, <1>3
<1>. QED
  BY <1>3, <1>4

LEMMA SumOne ==
  ASSUME NEW S, IsFiniteSet(S), NEW f, NEW x \in S, f[x] \in Int,
         \A y \in S \ {x} : f[y] = 0
  PROVE  Sum(f, S) = f[x]
<1>1. IsFiniteSet(S \ {x})
  BY FS_Subset
<1>2. Sum(f, S \ {x}) = 0
  BY <1>1, SumZero
<1>3. \A y \in S : f[y] \in Int
  OBVIOUS
<1>. QED
  BY <1>2, <1>3, SumRemove

-----------------------------------------------------------------------------

Created(o) == CreatedEvent(o, Basket[o])
ReservedEvent(o) == FollowUp(Created(o), "inventory", "inventory.reserved", Basket[o])
RejectedEvent(o) == FollowUp(Created(o), "inventory", "inventory.rejected", <<>>)
ReleasedEvent(o) ==
  FollowUp(CancelledEvent(o), "inventory-release", "inventory.released", <<>>)

(* The primary key of inventory_reservations. *)
RowKeys ==
  \A r, s \in reservations : r.order = s.order /\ r.product = s.product => r = s

OutboxKnown ==
  outbox \subseteq UNION {{ReservedEvent(o), RejectedEvent(o), ReleasedEvent(o)} : o \in Orders}

(* What processed_events, outbox_events and the rows of an order tell about *)
(* each other.                                                              *)
History(o) ==
  /\ Created(o).id \in processed <=> ReservedEvent(o) \in outbox \/ RejectedEvent(o) \in outbox
  /\ ~(ReservedEvent(o) \in outbox /\ RejectedEvent(o) \in outbox)
  /\ \A row \in reservations : row.order = o => ReservedEvent(o) \in outbox
  /\ CancelledEvent(o).id \in processed => ReservedEvent(o) \in outbox /\ HeldRows(o) = {}
  /\ ReleasedEvent(o) \in outbox
       <=> \E row \in reservations : row.order = o /\ row.status = "released"
  /\ ReleasedEvent(o) \in outbox => CancelledEvent(o).id \in processed

Histories == \A o \in Orders : History(o)

(* An order that is reserved holds stock for each of its lines until it is  *)
(* cancelled, if not always all that the line asks for.                     *)
LinesHeld ==
  \A o \in Orders :
    ReservedEvent(o) \in outbox /\ CancelledEvent(o).id \notin processed =>
      \A i \in DOMAIN Basket[o] : \E row \in HeldRows(o) : row.product = Basket[o][i].product

(* A reserved order keeps a row for each of its lines, released or not, and *)
(* no row comes from anything but a line of the basket.                     *)
FromALine(o, row) ==
  \E i \in DOMAIN Basket[o] :
    row.product = Basket[o][i].product /\ row.quantity = Basket[o][i].quantity

LinesRecorded ==
  \A o \in Orders :
    /\ ReservedEvent(o) \in outbox =>
         \A i \in DOMAIN Basket[o] : \E row \in RowsOf(o) : row.product = Basket[o][i].product
    /\ \A row \in RowsOf(o) : FromALine(o, row)

IInv ==
  /\ TypeOK /\ StockConserved /\ RowKeys /\ OutboxKnown /\ Histories
  /\ LinesHeld /\ LinesRecorded

(* No basket names a product twice. *)
DistinctLines ==
  \A o \in Orders : \A i, j \in DOMAIN Basket[o] :
    Basket[o][i].product = Basket[o][j].product => i = j

(* An order holds what its basket asks for, from the time it is reserved    *)
(* until it is cancelled.                                                   *)
HeldIsAsked ==
  \A o \in Orders :
    ReservedEvent(o) \in outbox /\ CancelledEvent(o).id \notin processed =>
      /\ HeldRows(o) # {}
      /\ \A p \in Products : HeldQuantity(o, p) = Demand(Basket[o], p)

RowsInv == IInv /\ HeldIsAsked /\ RowsAccountForReserved

-----------------------------------------------------------------------------
Lines == [product : Products, quantity : Nat \ {0}, price : Nat]

(* What each line adds to the demand for a product. *)
Wanted(items, p) ==
  [i \in DOMAIN items |-> IF items[i].product = p THEN items[i].quantity ELSE 0]

(* The equation that defines the fold of Demand. *)
DemandStep(h, items, p, s) ==
  IF s = {} THEN 0
  ELSE IF items[Pick(s)].product = p THEN items[Pick(s)].quantity + h[s \ {Pick(s)}]
  ELSE h[s \ {Pick(s)}]
IsDemand(h, items, p) == h = [s \in SUBSET DOMAIN items |-> DemandStep(h, items, p, s)]

LEMMA DemandChoose ==
  ASSUME NEW items, NEW p
  PROVE  Demand(items, p) = (CHOOSE h : IsDemand(h, items, p))[DOMAIN items]
BY DEF Demand, FoldSeq, FoldFunction, FoldFunctionOnSet, MapThenFoldSet,
       IsDemand, DemandStep, Pick

(* The demand for a product is the sum of what the lines ask of it. *)
LEMMA DemandIsSum ==
  ASSUME NEW items \in Seq(Lines), NEW p
  PROVE  /\ IsFiniteSet(DOMAIN items)
         /\ \A i \in DOMAIN items : Wanted(items, p)[i] \in Nat
         /\ Demand(items, p) = Sum(Wanted(items, p), DOMAIN items)
<1>. DEFINE S == DOMAIN items
            w == Wanted(items, p)
<1>1. IsFiniteSet(S)
  <2>1. S = 1..Len(items) /\ Len(items) \in Nat
    OBVIOUS
  <2>. QED
    BY <2>1, FS_Interval
<1>2. \A i \in S : items[i] \in Lines /\ w[i] \in Nat /\ w[i] \in Int
  <2>1. \A i \in S : items[i] \in Lines
    OBVIOUS
  <2>2. \A i \in S : items[i].quantity \in Nat
    BY <2>1 DEF Lines
  <2>. QED
    BY <2>1, <2>2 DEF Wanted
<1>3. PICK h : IsSum(h, w, S)
  BY <1>1, SumExists
<1>4. \A s \in SUBSET S : h[s] \in Int
  BY <1>1, <1>2, <1>3, SumTyped
<1>5. IsDemand(h, items, p)
  <2>1. \A s \in SUBSET S : SumStep(h, w, s) = DemandStep(h, items, p, s)
    <3>. SUFFICES ASSUME NEW s \in SUBSET S, s # {}
                  PROVE  SumStep(h, w, s) = DemandStep(h, items, p, s)
      BY DEF SumStep, DemandStep
    <3>1. Pick(s) \in S /\ h[s \ {Pick(s)}] \in Int
      BY <1>4, PickProperties
    <3>. QED
      BY <3>1 DEF SumStep, DemandStep, Wanted
  <2>2. h = [s \in SUBSET S |-> SumStep(h, w, s)]
    BY <1>3 DEF IsSum
  <2>. QED
    BY <2>1, <2>2 DEF IsDemand
<1>6. PICK g : /\ g = CHOOSE k : IsDemand(k, items, p)
               /\ IsDemand(g, items, p)
  BY <1>5
<1>7. \A s \in SUBSET S : g[s] = h[s]
  <2>. DEFINE B == {s \in SUBSET S : g[s] # h[s]}
  <2>. SUFFICES ASSUME B # {} PROVE FALSE
    OBVIOUS
  <2>0. B \subseteq SUBSET S
    OBVIOUS
  <2>1. PICK s \in B : \A t \in B : t \subseteq s => t = s
    <3>. HIDE DEF B
    <3>. QED
      BY <1>1, <2>0, MinimalSubset
  <2>2. s \in SUBSET S /\ g[s] # h[s]
    OBVIOUS
  <2>3. g[s] = DemandStep(g, items, p, s) /\ h[s] = DemandStep(h, items, p, s)
    BY <1>5, <1>6, <2>2 DEF IsDemand
  <2>4. CASE s = {}
    BY <2>2, <2>3, <2>4 DEF DemandStep
  <2>5. CASE s # {}
    <3>1. Pick(s) \in s /\ s \ {Pick(s)} \subseteq s /\ s \ {Pick(s)} # s
      BY <2>5, PickProperties
    <3>2. g[s \ {Pick(s)}] = h[s \ {Pick(s)}]
      BY <2>1, <2>2, <3>1
    <3>. QED
      BY <2>2, <2>3, <3>2 DEF DemandStep
  <2>. QED
    BY <2>4, <2>5
<1>8. Demand(items, p) = h[S]
  BY <1>6, <1>7, DemandChoose
<1>9. Sum(w, S) = h[S]
  BY <1>1, <1>3, SumOf
<1>. QED
  BY <1>1, <1>2, <1>8, <1>9

(* A demand is a natural number, at least what each of its lines asks for;  *)
(* it is exactly that when no other line names the product, and 0 when none *)
(* does.                                                                    *)
LEMMA DemandValue ==
  ASSUME NEW items \in Seq(Lines), NEW p
  PROVE  /\ Demand(items, p) \in Nat
         /\ \A i \in DOMAIN items :
              items[i].product = p =>
                /\ items[i].quantity <= Demand(items, p)
                /\ (\A j \in DOMAIN items : items[j].product = p => j = i)
                     => Demand(items, p) = items[i].quantity
         /\ (\A i \in DOMAIN items : items[i].product # p) => Demand(items, p) = 0
<1>. DEFINE S == DOMAIN items
            w == Wanted(items, p)
<1>1. /\ IsFiniteSet(S) /\ Demand(items, p) = Sum(w, S)
      /\ \A i \in S : w[i] \in Nat
  BY DemandIsSum
<1>2. Sum(w, S) \in Nat /\ \A i \in S : w[i] <= Sum(w, S)
  <2>. HIDE DEF w, S
  <2>. QED
    BY <1>1, SumNat
<1>3. \A i \in S : w[i] = IF items[i].product = p THEN items[i].quantity ELSE 0
  BY DEF Wanted
<1>4. ASSUME NEW i \in S, items[i].product = p,
             \A j \in S : items[j].product = p => j = i
      PROVE  Sum(w, S) = w[i]
  <2>1. w[i] \in Int /\ \A j \in S \ {i} : w[j] = 0
    BY <1>1, <1>3, <1>4
  <2>. HIDE DEF w, S
  <2>. QED
    BY <1>1, <2>1, SumOne
<1>5. ASSUME \A i \in S : items[i].product # p
      PROVE  Sum(w, S) = 0
  <2>1. \A i \in S : w[i] = 0
    BY <1>3, <1>5
  <2>. HIDE DEF w, S
  <2>. QED
    BY <1>1, <2>1, SumZero
<1>. QED
  BY <1>1, <1>2, <1>3, <1>4, <1>5

-----------------------------------------------------------------------------
(* No two of the events of the model have the same id or are equal, except  *)
(* the same event of the same order.                                        *)
LEMMA EventsDiffer ==
  ASSUME NEW o, NEW q
  PROVE  /\ Created(o).type = "order.created" /\ Created(o).order = o
         /\ Created(o).items = Basket[o]
         /\ CancelledEvent(o).type = "order.cancelled" /\ CancelledEvent(o).order = o
         /\ ReservedEvent(o).order = o /\ ReservedEvent(o).type = "inventory.reserved"
         /\ RejectedEvent(o).order = o /\ RejectedEvent(o).type = "inventory.rejected"
         /\ ReleasedEvent(o).order = o /\ ReleasedEvent(o).type = "inventory.released"
         /\ Created(o).id = Created(q).id => o = q
         /\ CancelledEvent(o).id = CancelledEvent(q).id => o = q
         /\ Created(o).id # CancelledEvent(q).id
<1>1. Created(o).id = <<o, "created">> /\ Created(q).id = <<q, "created">>
  BY DEF Created, CreatedEvent
<1>2. /\ CancelledEvent(o).id = <<o, "created", "inventory", "payment", "order">>
      /\ CancelledEvent(q).id = <<q, "created", "inventory", "payment", "order">>
  BY DEF CancelledEvent
<1>3. <<o, "created">> # <<q, "created", "inventory", "payment", "order">>
  <2>1. Len(<<o, "created">>) = 2 /\ Len(<<q, "created", "inventory", "payment", "order">>) = 5
    OBVIOUS
  <2>. QED
    BY <2>1
<1>4. /\ Created(o).type = "order.created" /\ Created(o).order = o
      /\ Created(o).items = Basket[o]
      /\ CancelledEvent(o).type = "order.cancelled" /\ CancelledEvent(o).order = o
  BY DEF Created, CreatedEvent, CancelledEvent
<1>5. /\ ReservedEvent(o).order = o /\ ReservedEvent(o).type = "inventory.reserved"
      /\ RejectedEvent(o).order = o /\ RejectedEvent(o).type = "inventory.rejected"
      /\ ReleasedEvent(o).order = o /\ ReleasedEvent(o).type = "inventory.released"
  BY <1>4 DEF ReservedEvent, RejectedEvent, ReleasedEvent, FollowUp
<1>. QED
  BY <1>1, <1>2, <1>3, <1>4, <1>5

(* The steps of the service alone, with the events written out. *)
Reserve(o) ==
  /\ Created(o).id \notin processed
  /\ LinesAvailable(Basket[o]) /\ DemandFits(Basket[o])
  /\ available' = [p \in Stocked |-> available[p] - Demand(Basket[o], p)]
  /\ reserved' = [p \in Stocked |-> reserved[p] + Demand(Basket[o], p)]
  /\ reservations' = reservations \cup NewReservations(o, Basket[o])
  /\ outbox' = outbox \cup {ReservedEvent(o)}
  /\ processed' = processed \cup {Created(o).id}

Reject(o) ==
  /\ Created(o).id \notin processed
  /\ ~LinesAvailable(Basket[o])
  /\ outbox' = outbox \cup {RejectedEvent(o)}
  /\ processed' = processed \cup {Created(o).id}
  /\ UNCHANGED <<available, reserved, reservations>>

Cancel(o) ==
  /\ WasReserved(o)
  /\ CancelledEvent(o).id \notin processed
  /\ HeldRows(o) = {}
  /\ processed' = processed \cup {CancelledEvent(o).id}
  /\ UNCHANGED <<available, reserved, reservations, outbox>>

Release(o) ==
  /\ WasReserved(o)
  /\ CancelledEvent(o).id \notin processed
  /\ HeldRows(o) # {}
  /\ \A row \in HeldRows(o) : reserved[row.product] >= row.quantity
  /\ available' = [p \in Stocked |-> available[p] + HeldQuantity(o, p)]
  /\ reserved' = [p \in Stocked |-> reserved[p] - HeldQuantity(o, p)]
  /\ reservations' = (reservations \ HeldRows(o))
       \cup {[row EXCEPT !.status = "released"] : row \in HeldRows(o)}
  /\ outbox' = outbox \cup {ReleasedEvent(o)}
  /\ processed' = processed \cup {CancelledEvent(o).id}

LEMMA StepCases ==
  ASSUME [Next]_vars
  PROVE  \/ UNCHANGED vars
         \/ \E o \in Orders : Reserve(o) \/ Reject(o) \/ Cancel(o) \/ Release(o)
<1>1. ASSUME NEW o \in Orders, ReserveForOrder(Created(o))
      PROVE  UNCHANGED vars \/ Reserve(o) \/ Reject(o)
  BY <1>1, EventsDiffer DEF ReserveForOrder, Remember, Reserve, Reject, ReservedEvent, RejectedEvent
<1>2. ASSUME NEW o \in Orders, WasReserved(o), ReleaseForOrder(CancelledEvent(o))
      PROVE  UNCHANGED vars \/ Cancel(o) \/ Release(o)
  BY <1>2, EventsDiffer DEF ReleaseForOrder, Remember, Cancel, Release, ReleasedEvent
<1>. QED
  BY <1>1, <1>2 DEF Next, Created

(* The quantity a set of rows of one order has for a product. *)
QuantityIn(R, p) ==
  LET rows == {row \in R : row.product = p}
  IN  IF rows = {} THEN 0 ELSE (CHOOSE row \in rows : TRUE).quantity

LEMMA QuantityOf ==
  ASSUME NEW R, NEW p
  PROVE  /\ (\A row \in R : row.product # p) => QuantityIn(R, p) = 0
         /\ \/ QuantityIn(R, p) = 0
            \/ \E row \in R : row.product = p /\ QuantityIn(R, p) = row.quantity
         /\ (\A r, s \in R : r.product = s.product => r = s)
              => \A row \in R : row.product = p => QuantityIn(R, p) = row.quantity
<1>. DEFINE rows == {row \in R : row.product = p}
<1>1. CASE rows = {}
  BY <1>1 DEF QuantityIn
<1>2. CASE rows # {}
  <2>1. PICK row \in rows : QuantityIn(R, p) = row.quantity
    BY <1>2 DEF QuantityIn
  <2>. QED
    BY <2>1
<1>. QED
  BY <1>1, <1>2

LEMMA HeldValue ==
  ASSUME TypeOK, NEW o \in Orders, NEW p
  PROVE  /\ HeldQuantity(o, p) = QuantityIn(HeldRows(o), p)
         /\ HeldQuantity(o, p) \in Nat
         /\ HeldRows(o) = {} => HeldQuantity(o, p) = 0
         /\ HeldQuantity(o, p) = 0
            \/ \E row \in HeldRows(o) : row.product = p /\ HeldQuantity(o, p) = row.quantity
<1>1. \A row \in HeldRows(o) : row.quantity \in Nat
  BY DEF TypeOK, HeldRows, Reservation
<1>2. HeldQuantity(o, p) = QuantityIn(HeldRows(o), p)
  BY DEF HeldQuantity, QuantityIn
<1>. QED
  BY <1>1, <1>2, QuantityOf

LEMMA BasketLines ==
  ASSUME NEW o \in Orders
  PROVE  /\ Basket[o] \in Seq(Lines) /\ Basket[o] # <<>> /\ 1 \in DOMAIN Basket[o]
         /\ \A i \in DOMAIN Basket[o] : /\ Basket[o][i].product \in Products
                                        /\ Basket[o][i].quantity \in Nat \ {0}
<1>1. Basket[o] \in Seq(Lines) /\ Basket[o] # <<>>
  BY BasketAssumption DEF Lines
<1>2. 1 \in DOMAIN Basket[o] /\ \A i \in DOMAIN Basket[o] : Basket[o][i] \in Lines
  BY <1>1
<1>. QED
  BY <1>1, <1>2 DEF Lines

(* The rows a reservation inserts. *)
LEMMA NewRows ==
  ASSUME NEW o \in Orders, LinesAvailable(Basket[o]),
         \A row \in reservations : row.order # o
  PROVE  /\ NewReservations(o, Basket[o]) \subseteq Reservation
         /\ NewReservations(o, Basket[o]) # {}
         /\ \A row \in NewReservations(o, Basket[o]) :
              row.order = o /\ row.status = "reserved"
         /\ \A r, s \in NewReservations(o, Basket[o]) : r.product = s.product => r = s
         /\ \A row \in NewReservations(o, Basket[o]) :
              \E i \in DOMAIN Basket[o] :
                row.product = Basket[o][i].product /\ row.quantity = Basket[o][i].quantity
         /\ \A i \in DOMAIN Basket[o] :
              \E row \in NewReservations(o, Basket[o]) : row.product = Basket[o][i].product
<1>. DEFINE items == Basket[o]
            first == {i \in DOMAIN items : \A j \in 1..i-1 : items[j].product # items[i].product}
            Row(i) == [order |-> o, product |-> items[i].product,
                       quantity |-> items[i].quantity, status |-> "reserved"]
<1>1. NewReservations(o, items) = {Row(i) : i \in first}
  BY DEF NewReservations
<1>2. DOMAIN items = 1..Len(items) /\ Len(items) \in Nat
  BY BasketLines
<1>3. \A i, j \in first : items[i].product = items[j].product => i = j
  <2>. SUFFICES ASSUME NEW i \in first, NEW j \in first, i < j
                PROVE  items[i].product # items[j].product
    BY <1>2
  <2>. QED
    BY <1>2
<1>4. 1 \in first
  BY BasketLines
<1>5. \A i \in first : Row(i) \in Reservation
  BY BasketLines DEF Reservation, LinesAvailable
<1>6. \A row \in NewReservations(o, items) : \E i \in first : row = Row(i)
  BY <1>1
<1>7. \A r, s \in NewReservations(o, items) : r.product = s.product => r = s
  <2>. SUFFICES ASSUME NEW i \in first, NEW j \in first, Row(i).product = Row(j).product
                PROVE  Row(i) = Row(j)
    BY <1>6
  <2>. QED
    BY <1>3
<1>8. NewReservations(o, items) # {}
  BY <1>1, <1>4
<1>9. ASSUME NEW row \in NewReservations(o, items)
      PROVE  /\ row \in Reservation /\ row.order = o /\ row.status = "reserved"
             /\ \E i \in DOMAIN items : row.product = items[i].product
                                        /\ row.quantity = items[i].quantity
  <2>1. PICK i \in first : row = Row(i)
    BY <1>6
  <2>2. i \in DOMAIN items /\ row \in Reservation
    BY <1>5, <2>1
  <2>. QED
    BY <2>1, <2>2
<1>10. ASSUME NEW i \in DOMAIN items
       PROVE  \E row \in NewReservations(o, items) : row.product = items[i].product
  <2>. DEFINE same == {j \in DOMAIN items : items[j].product = items[i].product}
  <2>1. same \subseteq Nat /\ i \in same
    BY <1>2
  <2>2. PICK k \in same : \A j \in same : k <= j
    <3>. HIDE DEF same
    <3>. QED
      BY <2>1, LeastNatural
  <2>3. ASSUME NEW j \in 1..k-1
        PROVE  items[j].product # items[k].product
    <3>1. j \in DOMAIN items /\ ~(k <= j)
      BY <1>2, <2>3
    <3>. QED
      BY <2>2, <3>1
  <2>4. k \in first
    BY <2>3
  <2>5. Row(k) \in NewReservations(o, items) /\ Row(k).product = items[i].product
    BY <1>1, <2>4
  <2>. QED
    BY <2>5
<1>. HIDE DEF items
<1>. QED
  BY <1>7, <1>8, <1>9, <1>10 DEF items

-----------------------------------------------------------------------------
LEMMA InitIInv == Init => IInv
<1>. SUFFICES ASSUME Init PROVE IInv
  OBVIOUS
<1>1. Stock \in [Stocked -> Nat]
  BY StockAssumption DEF Stocked
<1>2. TypeOK /\ StockConserved
  BY <1>1 DEF Init, TypeOK, StockConserved, Stocked
<1>3. RowKeys /\ OutboxKnown /\ Histories /\ LinesHeld /\ LinesRecorded
  BY DEF Init, RowKeys, OutboxKnown, Histories, History, LinesHeld, LinesRecorded,
         HeldRows, RowsOf
<1>. QED
  BY <1>2, <1>3 DEF IInv

(* What a step does to an order is seen in its rows, its events and its ids *)
(* in processed_events: an order for which none of these change keeps its   *)
(* history.                                                                 *)
SameOrder(o) ==
  /\ HeldRows(o)' = HeldRows(o)
  /\ \A row \in reservations \cup reservations' :
       row.order = o => row \in reservations /\ row \in reservations'
  /\ \A e \in {ReservedEvent(o), RejectedEvent(o), ReleasedEvent(o)} :
       e \in outbox' <=> e \in outbox
  /\ \A e \in {Created(o), CancelledEvent(o)} : e.id \in processed' <=> e.id \in processed

LEMMA SameHistory ==
  ASSUME NEW o, History(o), SameOrder(o)
  PROVE  History(o)'
<1>1. /\ UNCHANGED <<ReservedEvent(o), RejectedEvent(o), ReleasedEvent(o)>>
      /\ UNCHANGED <<Created(o), CancelledEvent(o)>>
  BY DEF ReservedEvent, RejectedEvent, ReleasedEvent, Created, CancelledEvent
<1>. QED
  BY DEF History, SameOrder

LEMMA NextTypeOK ==
  ASSUME IInv, [Next]_vars
  PROVE  TypeOK' /\ StockConserved'
<1>0. TypeOK /\ StockConserved /\ Histories /\ Stock \in [Stocked -> Nat]
  BY StockAssumption DEF IInv, Stocked
<1>1. CASE UNCHANGED vars
  BY <1>0, <1>1 DEF vars, TypeOK, StockConserved
<1>2. ASSUME NEW o \in Orders, Reserve(o)
      PROVE  TypeOK' /\ StockConserved'
  <2>1. \A p : Demand(Basket[o], p) \in Nat
    BY BasketLines, DemandValue
  <2>2. available' \in [Stocked -> Nat] /\ reserved' \in [Stocked -> Nat] /\ StockConserved'
    BY <1>0, <1>2, <2>1 DEF Reserve, DemandFits, TypeOK, StockConserved
  <2>3. \A row \in reservations : row.order # o
    BY <1>0, <1>2 DEF Reserve, Histories, History
  <2>4. NewReservations(o, Basket[o]) \subseteq Reservation
    BY <1>2, <2>3, NewRows DEF Reserve
  <2>. QED
    BY <1>0, <1>2, <2>2, <2>4 DEF Reserve, TypeOK
<1>3. ASSUME NEW o \in Orders, Reject(o)
      PROVE  TypeOK' /\ StockConserved'
  BY <1>0, <1>3 DEF Reject, TypeOK, StockConserved
<1>4. ASSUME NEW o \in Orders, Cancel(o)
      PROVE  TypeOK' /\ StockConserved'
  BY <1>0, <1>4 DEF Cancel, TypeOK, StockConserved
<1>5. ASSUME NEW o \in Orders, Release(o)
      PROVE  TypeOK' /\ StockConserved'
  <2>1. \A p \in Stocked : HeldQuantity(o, p) \in Nat /\ HeldQuantity(o, p) <= reserved[p]
    <3>. SUFFICES ASSUME NEW p \in Stocked
                  PROVE  HeldQuantity(o, p) \in Nat /\ HeldQuantity(o, p) <= reserved[p]
      OBVIOUS
    <3>1. reserved[p] \in Nat
      BY <1>0 DEF TypeOK
    <3>2. CASE HeldQuantity(o, p) = 0
      BY <3>1, <3>2
    <3>3. CASE HeldQuantity(o, p) # 0
      <4>1. PICK row \in HeldRows(o) : row.product = p /\ HeldQuantity(o, p) = row.quantity
        BY <1>0, <3>3, HeldValue
      <4>. QED
        BY <1>0, <1>5, <3>1, <4>1, HeldValue DEF Release
    <3>. QED
      BY <3>2, <3>3
  <2>2. available' \in [Stocked -> Nat] /\ reserved' \in [Stocked -> Nat] /\ StockConserved'
    BY <1>0, <1>5, <2>1 DEF Release, TypeOK, StockConserved
  <2>3. \A row \in HeldRows(o) : [row EXCEPT !.status = "released"] \in Reservation
    BY <1>0 DEF TypeOK, HeldRows, Reservation
  <2>. QED
    BY <1>0, <1>5, <2>2, <2>3 DEF Release, TypeOK
<1>. QED
  BY <1>1, <1>2, <1>3, <1>4, <1>5, StepCases

(* A step of one order leaves the others alone. *)
LEMMA OthersSame ==
  ASSUME IInv, NEW o \in Orders, Reserve(o) \/ Reject(o) \/ Cancel(o) \/ Release(o),
         NEW q \in Orders, q # o
  PROVE  SameOrder(q)
<1>1. /\ Created(o).id \notin {Created(q).id, CancelledEvent(q).id}
      /\ CancelledEvent(o).id \notin {Created(q).id, CancelledEvent(q).id}
      /\ {ReservedEvent(o), RejectedEvent(o), ReleasedEvent(o)}
           \cap {ReservedEvent(q), RejectedEvent(q), ReleasedEvent(q)} = {}
  BY EventsDiffer
<1>2. /\ \A e \in {ReservedEvent(q), RejectedEvent(q), ReleasedEvent(q)} :
           e \in outbox' <=> e \in outbox
      /\ \A e \in {Created(q), CancelledEvent(q)} : e.id \in processed' <=> e.id \in processed
  BY <1>1 DEF Reserve, Reject, Cancel, Release
<1>3. \A row \in reservations \cup reservations' :
        row.order = q => row \in reservations /\ row \in reservations'
  <2>1. CASE Reserve(o)
    <3>1. \A row \in reservations : row.order # o
      BY <2>1 DEF Reserve, IInv, Histories, History
    <3>2. \A row \in NewReservations(o, Basket[o]) : row.order = o
      BY <2>1, <3>1, NewRows DEF Reserve
    <3>. QED
      BY <2>1, <3>2 DEF Reserve
  <2>2. CASE Release(o)
    <3>1. \A row \in HeldRows(o) : row.order = o /\ row \in Reservation
      BY DEF HeldRows, IInv, TypeOK
    <3>2. \A row \in HeldRows(o) : [row EXCEPT !.status = "released"].order = o
      BY <3>1 DEF Reservation
    <3>. QED
      BY <2>2, <3>1, <3>2 DEF Release
  <2>3. CASE UNCHANGED reservations
    BY <2>3
  <2>. QED
    BY <2>1, <2>2, <2>3 DEF Reject, Cancel
<1>4. HeldRows(q)' = HeldRows(q)
  BY <1>3 DEF HeldRows
<1>. QED
  BY <1>2, <1>3, <1>4 DEF SameOrder

LEMMA NextHistories ==
  ASSUME IInv, [Next]_vars
  PROVE  RowKeys' /\ OutboxKnown' /\ Histories'
<1>0. TypeOK /\ RowKeys /\ OutboxKnown /\ Histories
  BY DEF IInv
<1>o. ASSUME NEW o \in Orders, Reserve(o) \/ Reject(o) \/ Cancel(o) \/ Release(o),
             NEW q \in Orders, q # o
      PROVE  History(q)'
  BY <1>0, <1>o, OthersSame, SameHistory DEF Histories
<1>f. ASSUME NEW o \in Orders
      PROVE  /\ ReservedEvent(o) # RejectedEvent(o) /\ ReservedEvent(o) # ReleasedEvent(o)
             /\ RejectedEvent(o) # ReleasedEvent(o)
             /\ Created(o).id # CancelledEvent(o).id
  BY EventsDiffer
<1>w. ASSUME NEW o \in Orders
      PROVE  WasReserved(o) <=> ReservedEvent(o) \in outbox
  <2>1. ASSUME NEW e \in outbox, e.order = o, e.type = "inventory.reserved"
        PROVE  e = ReservedEvent(o)
    <3>1. PICK q \in Orders : e \in {ReservedEvent(q), RejectedEvent(q), ReleasedEvent(q)}
      BY <1>0 DEF OutboxKnown
    <3>. QED
      BY <2>1, <3>1, EventsDiffer
  <2>. QED
    BY <2>1, EventsDiffer DEF WasReserved
<1>1. CASE UNCHANGED vars
  BY <1>0, <1>1 DEF vars, RowKeys, OutboxKnown, Histories, History, HeldRows
<1>2. ASSUME NEW o \in Orders, Reserve(o)
      PROVE  RowKeys' /\ OutboxKnown' /\ Histories'
  <2>. DEFINE new == NewReservations(o, Basket[o])
  <2>0. History(o)
    BY <1>0 DEF Histories
  <2>1. \A row \in reservations : row.order # o
    BY <1>2, <2>0 DEF Reserve, History
  <2>2. \A row \in new : row.order = o /\ row.status = "reserved"
    BY <1>2, <2>1, NewRows DEF Reserve
  <2>3. \A r, s \in new : r.product = s.product => r = s
    BY <1>2, <2>1, NewRows DEF Reserve
  <2>. HIDE DEF new
  <2>4. reservations' = reservations \cup new
    BY <1>2 DEF Reserve, new
  <2>5. RowKeys'
    BY <1>0, <2>1, <2>2, <2>3, <2>4 DEF RowKeys
  <2>6. OutboxKnown'
    BY <1>0, <1>2 DEF Reserve, OutboxKnown, ReservedEvent, RejectedEvent, ReleasedEvent, Created
  <2>7. History(o)'
    BY <1>2, <1>f, <2>0, <2>1, <2>2, <2>4 DEF Reserve, History
  <2>. QED
    BY <1>2, <1>o, <2>5, <2>6, <2>7 DEF Histories
<1>3. ASSUME NEW o \in Orders, Reject(o)
      PROVE  RowKeys' /\ OutboxKnown' /\ Histories'
  <2>0. History(o)
    BY <1>0 DEF Histories
  <2>1. RowKeys' /\ OutboxKnown'
    BY <1>0, <1>3 DEF Reject, RowKeys, OutboxKnown, ReservedEvent, RejectedEvent,
                      ReleasedEvent, Created
  <2>2. History(o)'
    BY <1>3, <1>f, <2>0 DEF Reject, History
  <2>. QED
    BY <1>3, <1>o, <2>1, <2>2 DEF Histories
<1>4. ASSUME NEW o \in Orders, Cancel(o)
      PROVE  RowKeys' /\ OutboxKnown' /\ Histories'
  <2>0. History(o) /\ ReservedEvent(o) \in outbox
    BY <1>0, <1>4, <1>w DEF Histories, Cancel
  <2>1. RowKeys' /\ OutboxKnown'
    BY <1>0, <1>4 DEF Cancel, RowKeys, OutboxKnown
  <2>2. History(o)'
    BY <1>4, <1>f, <2>0 DEF Cancel, History, HeldRows
  <2>. QED
    BY <1>4, <1>o, <2>1, <2>2 DEF Histories
<1>5. ASSUME NEW o \in Orders, Release(o)
      PROVE  RowKeys' /\ OutboxKnown' /\ Histories'
  <2>. DEFINE freed == {[row EXCEPT !.status = "released"] : row \in HeldRows(o)}
  <2>0. History(o) /\ ReservedEvent(o) \in outbox
    BY <1>0, <1>5, <1>w DEF Histories, Release
  <2>1. ASSUME NEW r \in freed
        PROVE  /\ r.order = o /\ r.status = "released"
               /\ \E row \in HeldRows(o) : row.product = r.product
                                           /\ r = [row EXCEPT !.status = "released"]
    <3>1. PICK row \in HeldRows(o) : r = [row EXCEPT !.status = "released"]
      BY <2>1
    <3>2. row \in Reservation /\ row.order = o
      BY <1>0 DEF TypeOK, HeldRows
    <3>. QED
      BY <3>1, <3>2 DEF Reservation
  <2>2. freed # {}
    BY <1>5 DEF Release
  <2>. HIDE DEF freed
  <2>3. reservations' = (reservations \ HeldRows(o)) \cup freed
    BY <1>5 DEF Release, freed
  <2>4. HeldRows(o) \subseteq reservations /\ \A row \in HeldRows(o) : row.order = o
    BY DEF HeldRows
  <2>5. RowKeys'
    BY <1>0, <2>1, <2>3, <2>4 DEF RowKeys
  <2>6. OutboxKnown'
    BY <1>0, <1>5 DEF Release, OutboxKnown, ReservedEvent, RejectedEvent, ReleasedEvent, Created
  <2>7. History(o)'
    <3>1. HeldRows(o)' = {}
      BY <2>1, <2>3 DEF HeldRows
    <3>2. /\ ReservedEvent(o) \in outbox' /\ ReleasedEvent(o) \in outbox'
          /\ RejectedEvent(o) \notin outbox'
          /\ Created(o).id \in processed' /\ CancelledEvent(o).id \in processed'
      BY <1>5, <1>f, <2>0 DEF Release, History
    <3>3. \E row \in reservations' : row.order = o /\ row.status = "released"
      BY <2>1, <2>2, <2>3
    <3>. QED
      BY <3>1, <3>2, <3>3 DEF History
  <2>. QED
    BY <1>5, <1>o, <2>5, <2>6, <2>7 DEF Histories
<1>. QED
  BY <1>1, <1>2, <1>3, <1>4, <1>5, StepCases

LEMMA NextLinesHeld ==
  ASSUME IInv, [Next]_vars
  PROVE  LinesHeld'
<1>0. Histories /\ Histories' /\ LinesHeld
  BY NextHistories DEF IInv
<1>1. ASSUME NEW o \in Orders, NEW q \in Orders, SameOrder(q),
             (ReservedEvent(q) \in outbox /\ CancelledEvent(q).id \notin processed)'
      PROVE  \A i \in DOMAIN Basket[q] : \E row \in HeldRows(q)' : row.product = Basket[q][i].product
  <2>1. ReservedEvent(q) \in outbox /\ CancelledEvent(q).id \notin processed
    BY <1>1 DEF SameOrder, ReservedEvent, CancelledEvent, Created
  <2>. QED
    BY <1>0, <1>1, <2>1 DEF SameOrder, LinesHeld
<1>2. CASE UNCHANGED vars
  BY <1>0, <1>2 DEF vars, LinesHeld, HeldRows
<1>3. ASSUME NEW o \in Orders, Reserve(o)
      PROVE  \A i \in DOMAIN Basket[o] : \E row \in HeldRows(o)' : row.product = Basket[o][i].product
  <2>1. \A row \in reservations : row.order # o
    BY <1>0, <1>3 DEF Reserve, Histories, History
  <2>2. NewReservations(o, Basket[o]) \subseteq HeldRows(o)'
    BY <1>3, <2>1, NewRows DEF Reserve, HeldRows
  <2>. QED
    BY <1>3, <2>1, <2>2, NewRows DEF Reserve
<1>4. ASSUME NEW o \in Orders, Cancel(o) \/ Release(o)
      PROVE  (CancelledEvent(o).id \in processed)'
  BY <1>4 DEF Cancel, Release, CancelledEvent
<1>5. ASSUME NEW o \in Orders, Reject(o)
      PROVE  (ReservedEvent(o) \notin outbox)'
  <2>1. (RejectedEvent(o) \in outbox)'
    BY <1>5 DEF Reject, RejectedEvent, Created
  <2>. QED
    BY <1>0, <2>1 DEF Histories, History
<1>6. ASSUME NEW o \in Orders, Reserve(o) \/ Reject(o) \/ Cancel(o) \/ Release(o),
             NEW q \in Orders, q # o
      PROVE  SameOrder(q)
  BY <1>6, OthersSame
<1>7. ASSUME NEW o \in Orders, Reserve(o) \/ Reject(o) \/ Cancel(o) \/ Release(o)
      PROVE  LinesHeld'
  <2>. SUFFICES ASSUME NEW q \in Orders,
                       (ReservedEvent(q) \in outbox /\ CancelledEvent(q).id \notin processed)'
                PROVE  \A i \in DOMAIN Basket[q] :
                         \E row \in HeldRows(q)' : row.product = Basket[q][i].product
    BY DEF LinesHeld
  <2>1. CASE q # o
    BY <1>1, <1>6, <1>7, <2>1
  <2>2. CASE q = o
    BY <1>3, <1>4, <1>5, <1>7, <2>2
  <2>. QED
    BY <2>1, <2>2
<1>. QED
  BY <1>2, <1>7, StepCases

LEMMA NextLinesRecorded ==
  ASSUME IInv, [Next]_vars
  PROVE  LinesRecorded'
<1>0. TypeOK /\ Histories /\ Histories' /\ LinesRecorded
  BY NextHistories DEF IInv
<1>. DEFINE Recorded(q) ==
       /\ ReservedEvent(q) \in outbox =>
            \A i \in DOMAIN Basket[q] : \E row \in RowsOf(q) : row.product = Basket[q][i].product
       /\ \A row \in RowsOf(q) : FromALine(q, row)
<1>1. CASE UNCHANGED vars
  BY <1>0, <1>1 DEF vars, LinesRecorded, RowsOf, ReservedEvent, Created
<1>2. ASSUME NEW q \in Orders, RowsOf(q)' = RowsOf(q),
             (ReservedEvent(q) \in outbox)' => ReservedEvent(q) \in outbox
      PROVE  Recorded(q)'
  BY <1>0, <1>2 DEF LinesRecorded, FromALine
<1>3. ASSUME NEW o \in Orders, Reserve(o) \/ Reject(o) \/ Cancel(o) \/ Release(o),
             NEW q \in Orders, q # o
      PROVE  Recorded(q)'
  <2>1. SameOrder(q)
    BY <1>3, OthersSame
  <2>2. RowsOf(q)' = RowsOf(q)
    BY <2>1 DEF SameOrder, RowsOf
  <2>3. (ReservedEvent(q) \in outbox)' => ReservedEvent(q) \in outbox
    BY <2>1 DEF SameOrder, ReservedEvent, Created
  <2>. QED
    BY <1>2, <2>2, <2>3
<1>4. ASSUME NEW o \in Orders, Reserve(o)
      PROVE  Recorded(o)'
  <2>1. \A row \in reservations : row.order # o
    BY <1>0, <1>4 DEF Reserve, Histories, History
  <2>2. RowsOf(o)' = NewReservations(o, Basket[o])
    BY <1>4, <2>1, NewRows DEF Reserve, RowsOf
  <2>. QED
    BY <1>4, <2>1, <2>2, NewRows DEF Reserve, FromALine
<1>5. ASSUME NEW o \in Orders, Reject(o) \/ Cancel(o)
      PROVE  Recorded(o)'
  <2>1. RowsOf(o)' = RowsOf(o)
    BY <1>5 DEF Reject, Cancel, RowsOf
  <2>2. ReservedEvent(o) # RejectedEvent(o)
    BY EventsDiffer
  <2>3. (ReservedEvent(o) \in outbox)' => ReservedEvent(o) \in outbox
    BY <1>5, <2>2 DEF Reject, Cancel, ReservedEvent, Created
  <2>. QED
    BY <1>2, <2>1, <2>3
<1>6. ASSUME NEW o \in Orders, Release(o)
      PROVE  Recorded(o)'
  <2>. DEFINE Freed(row) == [row EXCEPT !.status = "released"]
  <2>1. \A row \in HeldRows(o) : /\ row \in RowsOf(o)
                                 /\ Freed(row).order = o /\ Freed(row).product = row.product
                                 /\ Freed(row).quantity = row.quantity
    BY <1>0 DEF TypeOK, Reservation, HeldRows, RowsOf
  <2>2. reservations' = (reservations \ HeldRows(o)) \cup {Freed(row) : row \in HeldRows(o)}
    BY <1>6 DEF Release
  <2>. HIDE DEF Freed
  <2>3. RowsOf(o)' = (RowsOf(o) \ HeldRows(o)) \cup {Freed(row) : row \in HeldRows(o)}
    BY <2>1, <2>2 DEF RowsOf
  <2>4. ReservedEvent(o) \in outbox
    <3>1. CancelledEvent(o).id \in processed'
      BY <1>6 DEF Release
    <3>2. (ReservedEvent(o) \in outbox)'
      BY <1>0, <3>1 DEF Histories, History, CancelledEvent
    <3>3. ReservedEvent(o) # ReleasedEvent(o)
      BY EventsDiffer
    <3>. QED
      BY <1>6, <3>2, <3>3 DEF Release, ReservedEvent, Created
  <2>5. ASSUME NEW i \in DOMAIN Basket[o]
        PROVE  \E row \in RowsOf(o)' : row.product = Basket[o][i].product
    <3>1. PICK row \in RowsOf(o) : row.product = Basket[o][i].product
      BY <1>0, <2>4 DEF LinesRecorded
    <3>. QED
      BY <2>1, <2>3, <3>1
  <2>6. ASSUME NEW row \in RowsOf(o)'
        PROVE  FromALine(o, row)
    <3>1. CASE row \in RowsOf(o)
      BY <1>0, <3>1 DEF LinesRecorded
    <3>2. ASSUME NEW old \in HeldRows(o), row = Freed(old)
          PROVE  FromALine(o, row)
      <4>1. FromALine(o, old)
        BY <1>0, <2>1 DEF LinesRecorded
      <4>. QED
        BY <2>1, <3>2, <4>1 DEF FromALine
    <3>. QED
      BY <2>3, <2>6, <3>1, <3>2
  <2>. QED
    BY <2>5, <2>6 DEF FromALine
<1>7. ASSUME NEW o \in Orders, Reserve(o) \/ Reject(o) \/ Cancel(o) \/ Release(o),
             NEW q \in Orders
      PROVE  Recorded(q)'
  BY <1>3, <1>4, <1>5, <1>6, <1>7
<1>8. ASSUME \A q \in Orders : Recorded(q)'
      PROVE  LinesRecorded'
  BY <1>8 DEF LinesRecorded, FromALine
<1>. HIDE DEF Recorded
<1>. QED
  BY <1>1, <1>7, <1>8, StepCases

LEMMA NextIInv == IInv /\ [Next]_vars => IInv'
BY NextTypeOK, NextHistories, NextLinesHeld, NextLinesRecorded DEF IInv

-----------------------------------------------------------------------------
(* With baskets that name a product once, an order that is reserved holds   *)
(* what its basket asks for.                                                *)
LEMMA ReserveHolds ==
  ASSUME IInv, IInv', DistinctLines, NEW o \in Orders, Reserve(o)
  PROVE  /\ HeldRows(o)' # {}
         /\ \A p : HeldQuantity(o, p)' = Demand(Basket[o], p)
         /\ \A p : HeldQuantity(o, p) = 0
<1>. DEFINE new == NewReservations(o, Basket[o])
<1>0. TypeOK /\ History(o)
  BY DEF IInv, Histories
<1>1. \A row \in reservations : row.order # o
  BY <1>0 DEF Reserve, History
<1>2. LinesAvailable(Basket[o]) /\ reservations' = reservations \cup new
  BY DEF Reserve
<1>3. HeldRows(o)' = new
  <2>1. \A row \in new : row.order = o /\ row.status = "reserved"
    BY <1>1, <1>2, NewRows
  <2>. QED
    BY <1>1, <1>2, <2>1 DEF HeldRows
<1>4. ASSUME NEW p
      PROVE  QuantityIn(new, p) = Demand(Basket[o], p)
  <2>1. CASE \E i \in DOMAIN Basket[o] : Basket[o][i].product = p
    <3>1. PICK i \in DOMAIN Basket[o] : Basket[o][i].product = p
      BY <2>1
    <3>2. \A j \in DOMAIN Basket[o] : Basket[o][j].product = p => j = i
      BY <3>1 DEF DistinctLines
    <3>3. Demand(Basket[o], p) = Basket[o][i].quantity
      BY <3>1, <3>2, BasketLines, DemandValue
    <3>4. PICK row \in new : row.product = p
      BY <1>1, <1>2, <3>1, NewRows
    <3>5. row.quantity = Basket[o][i].quantity
      BY <1>1, <1>2, <3>2, <3>4, NewRows
    <3>6. QuantityIn(new, p) = row.quantity
      <4>1. \A r, s \in new : r.product = s.product => r = s
        BY <1>1, <1>2, NewRows
      <4>. HIDE DEF new
      <4>. QED
        BY <3>4, <4>1, QuantityOf
    <3>. QED
      BY <3>3, <3>5, <3>6
  <2>2. CASE \A i \in DOMAIN Basket[o] : Basket[o][i].product # p
    <3>1. Demand(Basket[o], p) = 0
      BY <2>2, BasketLines, DemandValue
    <3>2. \A row \in new : row.product # p
      BY <1>1, <1>2, <2>2, NewRows
    <3>. HIDE DEF new
    <3>. QED
      BY <3>1, <3>2, QuantityOf
  <2>. QED
    BY <2>1, <2>2
<1>5. \A p : HeldQuantity(o, p)' = QuantityIn(HeldRows(o)', p)
  BY DEF HeldQuantity, QuantityIn
<1>6. \A p : HeldQuantity(o, p) = 0
  <2>1. HeldRows(o) = {}
    BY <1>1 DEF HeldRows
  <2>. QED
    BY <2>1 DEF HeldQuantity
<1>7. new # {}
  BY <1>1, <1>2, NewRows
<1>. QED
  BY <1>3, <1>4, <1>5, <1>6, <1>7

(* A row of the sum is one order's share of what is reserved. *)
Held(p) == [o \in Orders |-> HeldQuantity(o, p)]

LEMMA HeldSum ==
  ASSUME NEW p
  PROVE  /\ SumFunction(Held(p)) = Sum(Held(p), Orders)
         /\ SumFunction(Held(p))' = Sum(Held(p)', Orders)
BY DEF SumFunction, Sum, Held

LEMMA InitRowsInv == Init => HeldIsAsked /\ RowsAccountForReserved
<1>. SUFFICES ASSUME Init PROVE HeldIsAsked /\ RowsAccountForReserved
  OBVIOUS
<1>1. HeldIsAsked
  BY DEF Init, HeldIsAsked
<1>2. ASSUME NEW p \in Stocked
      PROVE  reserved[p] = SumFunction(Held(p))
  <2>1. \A o \in Orders : Held(p)[o] = 0
    BY DEF Init, Held, HeldQuantity, HeldRows
  <2>2. Sum(Held(p), Orders) = 0
    BY <2>1, OrdersAssumption, SumZero
  <2>. QED
    BY <2>2, HeldSum DEF Init, Stocked
<1>. QED
  BY <1>1, <1>2 DEF RowsAccountForReserved, Held

LEMMA NextRowsInv ==
  ASSUME DistinctLines, RowsInv, [Next]_vars
  PROVE  HeldIsAsked' /\ RowsAccountForReserved'
<1>0. /\ IInv /\ IInv' /\ TypeOK /\ TypeOK' /\ Histories' /\ HeldIsAsked
      /\ RowsAccountForReserved
  BY NextIInv DEF RowsInv, IInv
<1>n. \A o \in Orders : \A p : HeldQuantity(o, p) \in Nat
  BY <1>0, HeldValue
<1>m. \A o \in Orders : \A p : HeldQuantity(o, p)' \in Nat
  <2>1. ASSUME NEW o \in Orders, NEW p
        PROVE  HeldQuantity(o, p)' \in Nat
    <3>1. HeldQuantity(o, p)' = QuantityIn(HeldRows(o)', p)
      BY DEF HeldQuantity, QuantityIn
    <3>2. \A row \in HeldRows(o)' : row.quantity \in Nat
      BY <1>0 DEF TypeOK, HeldRows, Reservation
    <3>. QED
      BY <3>1, <3>2, QuantityOf
  <2>. QED
    BY <2>1
<1>s. ASSUME NEW o \in Orders, \A q \in Orders \ {o} : SameOrder(q),
             \A p \in Stocked : reserved'[p] = reserved[p] - HeldQuantity(o, p) + HeldQuantity(o, p)'
      PROVE  RowsAccountForReserved'
  <2>. SUFFICES ASSUME NEW p \in Stocked
                PROVE  reserved'[p] = SumFunction(Held(p))'
    BY DEF RowsAccountForReserved, Held
  <2>1. \A q \in Orders : Held(p)[q] = HeldQuantity(q, p) /\ Held(p)'[q] = HeldQuantity(q, p)'
    BY DEF Held
  <2>2. \A q \in Orders \ {o} : Held(p)'[q] = Held(p)[q]
    BY <1>s, <2>1 DEF SameOrder, HeldQuantity
  <2>3. \A q \in Orders : Held(p)[q] \in Int /\ Held(p)'[q] \in Int
    BY <1>n, <1>m, <2>1
  <2>4. Sum(Held(p)', Orders) = Sum(Held(p), Orders) - Held(p)[o] + Held(p)'[o]
    BY <2>2, <2>3, OrdersAssumption, SumUpdate
  <2>5. reserved[p] = Sum(Held(p), Orders)
    BY <1>0, HeldSum DEF RowsAccountForReserved, Held
  <2>. QED
    BY <1>s, <2>1, <2>4, <2>5, HeldSum
<1>h. ASSUME NEW o \in Orders, NEW q \in Orders, q # o, SameOrder(q)
      PROVE  (ReservedEvent(q) \in outbox /\ CancelledEvent(q).id \notin processed =>
                /\ HeldRows(q) # {}
                /\ \A p \in Products : HeldQuantity(q, p) = Demand(Basket[q], p))'
  BY <1>0, <1>h DEF HeldIsAsked, SameOrder, HeldQuantity
<1>1. CASE UNCHANGED vars
  BY <1>0, <1>1 DEF vars, HeldIsAsked, RowsAccountForReserved, HeldQuantity, HeldRows
<1>2. ASSUME NEW o \in Orders, Reserve(o)
      PROVE  HeldIsAsked' /\ RowsAccountForReserved'
  <2>1. \A q \in Orders \ {o} : SameOrder(q)
    BY <1>0, <1>2, OthersSame
  <2>2. /\ HeldRows(o)' # {}
        /\ \A p : HeldQuantity(o, p)' = Demand(Basket[o], p) /\ HeldQuantity(o, p) = 0
    BY <1>0, <1>2, ReserveHolds
  <2>3. \A p \in Stocked : reserved'[p] = reserved[p] - HeldQuantity(o, p) + HeldQuantity(o, p)'
    <3>1. \A p \in Stocked : reserved'[p] = reserved[p] + Demand(Basket[o], p)
                             /\ reserved[p] \in Nat /\ Demand(Basket[o], p) \in Nat
      BY <1>0, <1>2, BasketLines, DemandValue DEF Reserve, TypeOK
    <3>. QED
      BY <2>2, <3>1
  <2>4. HeldIsAsked'
    BY <1>h, <2>1, <2>2 DEF HeldIsAsked
  <2>. QED
    BY <1>s, <2>1, <2>3, <2>4
<1>3. ASSUME NEW o \in Orders, Reject(o) \/ Cancel(o) \/ Release(o)
      PROVE  HeldIsAsked' /\ RowsAccountForReserved'
  <2>1. \A q \in Orders \ {o} : SameOrder(q)
    BY <1>0, <1>3, OthersSame
  <2>2. ~(ReservedEvent(o) \in outbox' /\ CancelledEvent(o).id \notin processed')
    <3>1. CASE Reject(o)
      <4>1. History(o)'
        BY <1>0 DEF Histories
      <4>. QED
        BY <3>1, <4>1 DEF Reject, History
    <3>2. CASE Cancel(o) \/ Release(o)
      BY <3>2 DEF Cancel, Release
    <3>. QED
      BY <1>3, <3>1, <3>2
  <2>3. \A p \in Stocked : reserved'[p] = reserved[p] - HeldQuantity(o, p) + HeldQuantity(o, p)'
    <3>1. \A p \in Stocked : reserved[p] \in Nat
      BY <1>0 DEF TypeOK
    <3>2. CASE Reject(o) \/ Cancel(o)
      <4>1. reserved' = reserved /\ HeldRows(o)' = HeldRows(o)
        BY <3>2 DEF Reject, Cancel, HeldRows
      <4>2. \A p : HeldQuantity(o, p)' = HeldQuantity(o, p)
        BY <4>1 DEF HeldQuantity
      <4>. QED
        BY <1>n, <3>1, <4>1, <4>2
    <3>3. CASE Release(o)
      <4>1. History(o)' /\ CancelledEvent(o).id \in processed'
        BY <1>0, <3>3 DEF Release, Histories
      <4>2. HeldRows(o)' = {}
        BY <4>1 DEF History
      <4>3. \A p : HeldQuantity(o, p)' = 0
        BY <4>2 DEF HeldQuantity
      <4>. QED
        BY <1>n, <3>1, <3>3, <4>3 DEF Release
    <3>. QED
      BY <1>3, <3>2, <3>3
  <2>4. HeldIsAsked'
    BY <1>h, <2>1, <2>2 DEF HeldIsAsked
  <2>. QED
    BY <1>s, <2>1, <2>3, <2>4
<1>. QED
  BY <1>1, <1>2, <1>3, StepCases

-----------------------------------------------------------------------------
(* At most one of the guards of Claim holds. *)
ClaimsTold ==
  \A o \in Orders :
    Claim(o) = IF ReleasedEvent(o) \in outbox THEN "freed"
               ELSE IF HeldRows(o) # {} THEN "held"
               ELSE IF RejectedEvent(o) \in outbox THEN "refused" ELSE "none"

LEMMA ClaimValue == IInv => ClaimsTold
<1>. SUFFICES ASSUME NEW o \in Orders, IInv
              PROVE  Claim(o) = IF ReleasedEvent(o) \in outbox THEN "freed"
                                ELSE IF HeldRows(o) # {} THEN "held"
                                ELSE IF RejectedEvent(o) \in outbox THEN "refused" ELSE "none"
  BY DEF ClaimsTold
<1>0. History(o) /\ OutboxKnown
  BY DEF IInv, Histories
<1>1. (\E row \in reservations : row.order = o /\ row.status = "released")
        <=> ReleasedEvent(o) \in outbox
  BY <1>0 DEF History
<1>2. (\E e \in outbox : e.order = o /\ e.type = "inventory.rejected")
        <=> RejectedEvent(o) \in outbox
  <2>1. ASSUME NEW e \in outbox, e.order = o, e.type = "inventory.rejected"
        PROVE  e = RejectedEvent(o)
    <3>1. PICK q \in Orders : e \in {ReservedEvent(q), RejectedEvent(q), ReleasedEvent(q)}
      BY <1>0 DEF OutboxKnown
    <3>2. q = o /\ e # ReservedEvent(q) /\ e # ReleasedEvent(q)
      BY <2>1, <3>1, EventsDiffer
    <3>. QED
      BY <3>1, <3>2
  <2>2. RejectedEvent(o).order = o /\ RejectedEvent(o).type = "inventory.rejected"
    BY EventsDiffer
  <2>. QED
    BY <2>1, <2>2
<1>3. /\ ReleasedEvent(o) \in outbox => HeldRows(o) = {} /\ RejectedEvent(o) \notin outbox
      /\ HeldRows(o) # {} => RejectedEvent(o) \notin outbox
  BY <1>0 DEF History, HeldRows
<1>. QED
  BY <1>1, <1>2, <1>3 DEF Claim

LEMMA ClaimValueNext == IInv' => ClaimsTold'
BY ClaimValue, PTL

(* While rows and demands agree, the units the ledger counts as held are    *)
(* the reserved quantities.                                                 *)
LEMMA LedgerUnits ==
  ASSUME RowsInv, NEW p \in Stocked
  PROVE  Ledger!HeldUnits(p) = reserved[p]
<1>. DEFINE share == [o \in Orders |->
                       IF Claim(o) = "held" THEN Demand(Basket[o], p) ELSE 0]
<1>0. IInv /\ HeldIsAsked /\ ClaimsTold /\ p \in Products
  BY ClaimValue, StockAssumption DEF RowsInv, Stocked
<1>1. ASSUME NEW o \in Orders
      PROVE  share[o] = Held(p)[o]
  <2>0. History(o) /\ share[o] = IF Claim(o) = "held" THEN Demand(Basket[o], p) ELSE 0
    BY <1>0 DEF IInv, Histories
  <2>1. CASE Claim(o) = "held"
    <3>1. HeldRows(o) # {}
      BY <1>0, <2>1 DEF ClaimsTold
    <3>2. ReservedEvent(o) \in outbox /\ CancelledEvent(o).id \notin processed
      BY <2>0, <3>1 DEF History, HeldRows
    <3>. QED
      BY <1>0, <2>0, <2>1, <3>2 DEF HeldIsAsked, Held
  <2>2. CASE Claim(o) # "held"
    <3>1. HeldRows(o) = {}
      BY <1>0, <2>0, <2>2 DEF ClaimsTold, History
    <3>. QED
      BY <2>0, <2>2, <3>1 DEF Held, HeldQuantity
  <2>. QED
    BY <2>1, <2>2
<1>2. Sum(share, Orders) = Sum(Held(p), Orders)
  <2>. HIDE DEF share
  <2>. QED
    BY <1>1, OrdersAssumption, SumEqual
<1>3. Sum(Held(p), Orders) = reserved[p]
  BY HeldSum DEF RowsInv, RowsAccountForReserved, Held
<1>4. Ledger!HeldUnits(p) = SumFunction(share)
  <2>1. ASSUME NEW o \in Orders
        PROVE  [q \in Orders |-> Claim(q)][o] = Claim(o)
               /\ [q \in Orders |-> BasketWant(q)][o][p] = Demand(Basket[o], p)
    BY <1>0 DEF BasketWant
  <2>2. share = [o \in Orders |-> IF [q \in Orders |-> Claim(q)][o] = "held"
                                  THEN [q \in Orders |-> BasketWant(q)][o][p] ELSE 0]
    BY <2>1
  <2>3. Ledger!SumFunction(share) = SumFunction(share)
    <3>. HIDE DEF share
    <3>. QED
      BY DEF SumFunction, SumFunctionOnSet, FoldFunctionOnSet, MapThenFoldSet,
             Ledger!SumFunction, Ledger!SumFunctionOnSet, Ledger!FoldFunctionOnSet,
             Ledger!MapThenFoldSet
  <2>. QED
    BY <2>2, <2>3 DEF Ledger!HeldUnits
<1>5. SumFunction(share) = Sum(share, Orders)
  BY DEF SumFunction, Sum
<1>. QED
  BY <1>2, <1>3, <1>4, <1>5

(* An order finds its demand in the ledger exactly when every line of its   *)
(* basket finds its quantity in the table.                                  *)
LEMMA LedgerFits ==
  ASSUME RowsInv, DistinctLines, NEW o \in Orders
  PROVE  Ledger!Fits(o) <=> LinesAvailable(Basket[o])
<1>. DEFINE D(p) == Demand(Basket[o], p)
<1>0. TypeOK /\ StockConserved /\ Stock \in [Stocked -> Nat]
  BY StockAssumption DEF RowsInv, IInv, Stocked
<1>1. Ledger!Fits(o) <=> \A p \in Products : D(p) > 0 => p \in Stocked /\ D(p) <= available[p]
  <2>1. /\ DOMAIN [q \in Orders |-> BasketWant(q)][o] = Products
        /\ \A p \in Products : [q \in Orders |-> BasketWant(q)][o][p] = D(p)
    BY DEF BasketWant
  <2>2. \A p \in Stocked : Stock[p] - Ledger!HeldUnits(p) = available[p]
    BY <1>0, LedgerUnits DEF TypeOK, StockConserved
  <2>. QED
    BY <2>1, <2>2 DEF Ledger!Fits, Stocked
<1>2. ASSUME NEW i \in DOMAIN Basket[o]
      PROVE  /\ D(Basket[o][i].product) = Basket[o][i].quantity
             /\ Basket[o][i].product \in Products /\ Basket[o][i].quantity > 0
    BY BasketLines, DemandValue DEF DistinctLines
<1>3. ASSUME NEW p \in Products, D(p) > 0
      PROVE  \E i \in DOMAIN Basket[o] : Basket[o][i].product = p
  BY <1>3, BasketLines, DemandValue
<1>. QED
  <2>. HIDE DEF D
  <2>. QED
    BY <1>1, <1>2, <1>3 DEF LinesAvailable

(* Every step of the service is a step of the ledger or leaves it alone. *)
LEMMA StepImplements ==
  ASSUME DistinctLines, RowsInv, [Next]_vars
  PROVE  [Ledger!LedgerNext]_[o \in Orders |-> Claim(o)]
<1>. DEFINE claim == [o \in Orders |-> Claim(o)]
<1>0. IInv /\ IInv' /\ ClaimsTold /\ ClaimsTold' /\ Histories /\ Histories' /\ OutboxKnown
  BY NextIInv, ClaimValue, ClaimValueNext DEF RowsInv, IInv
<1>h. \A o \in Orders : History(o) /\ History(o)'
  BY <1>0 DEF Histories
<1>c. ASSUME NEW o \in Orders
      PROVE  /\ Claim(o) = IF ReleasedEvent(o) \in outbox THEN "freed"
                           ELSE IF HeldRows(o) # {} THEN "held"
                           ELSE IF RejectedEvent(o) \in outbox THEN "refused" ELSE "none"
             /\ Claim(o)' = IF ReleasedEvent(o) \in outbox' THEN "freed"
                            ELSE IF HeldRows(o)' # {} THEN "held"
                            ELSE IF RejectedEvent(o) \in outbox' THEN "refused" ELSE "none"
  BY <1>0 DEF ClaimsTold, ReleasedEvent, RejectedEvent, Created
<1>o. ASSUME NEW o \in Orders, Reserve(o) \/ Reject(o) \/ Cancel(o) \/ Release(o)
      PROVE  claim' = [claim EXCEPT ![o] = Claim(o)']
  <2>1. ASSUME NEW q \in Orders, q # o
        PROVE  Claim(q)' = Claim(q)
    BY <1>0, <1>c, <1>o, <2>1, OthersSame DEF SameOrder
  <2>. QED
    BY <2>1
<1>1. CASE UNCHANGED vars
  <2>1. \A o \in Orders : Claim(o)' = Claim(o)
    BY <1>1, <1>c DEF vars, HeldRows
  <2>. QED
    BY <2>1
<1>2. ASSUME NEW o \in Orders, Reserve(o)
      PROVE  Ledger!LedgerNext
  <2>1. Claim(o) = "none"
    <3>1. HeldRows(o) = {}
      BY <1>2, <1>h DEF Reserve, History, HeldRows
    <3>. QED
      BY <1>2, <1>c, <1>h, <3>1 DEF Reserve, History
  <2>2. Claim(o)' = "held"
    <3>1. HeldRows(o)' # {}
      BY <1>0, <1>2, ReserveHolds
    <3>. QED
      BY <1>c, <1>h, <3>1 DEF History
  <2>3. Ledger!Fits(o)
    BY <1>2, LedgerFits DEF Reserve
  <2>. QED
    BY <1>2, <1>o, <2>1, <2>2, <2>3 DEF Ledger!LedgerNext, Ledger!Hold
<1>3. ASSUME NEW o \in Orders, Reject(o)
      PROVE  Ledger!LedgerNext
  <2>1. Claim(o) = "none" /\ HeldRows(o)' = {} /\ ReleasedEvent(o) \notin outbox'
    <3>1. HeldRows(o) = {} /\ HeldRows(o)' = HeldRows(o)
      BY <1>3, <1>h DEF Reject, History, HeldRows
    <3>2. ReleasedEvent(o) # RejectedEvent(o)
      BY EventsDiffer
    <3>. QED
      BY <1>3, <1>c, <1>h, <3>1, <3>2 DEF Reject, History
  <2>2. Claim(o)' = "refused"
    BY <1>3, <1>c, <2>1 DEF Reject
  <2>3. ~Ledger!Fits(o)
    BY <1>3, LedgerFits DEF Reject
  <2>. QED
    BY <1>3, <1>o, <2>1, <2>2, <2>3 DEF Ledger!LedgerNext, Ledger!Refuse
<1>4. ASSUME NEW o \in Orders, Cancel(o)
      PROVE  UNCHANGED claim
  <2>1. Claim(o)' = Claim(o)
    BY <1>4, <1>c DEF Cancel, HeldRows
  <2>. QED
    BY <1>4, <1>o, <2>1
<1>5. ASSUME NEW o \in Orders, Release(o)
      PROVE  Ledger!LedgerNext
  <2>1. Claim(o) = "held"
    BY <1>5, <1>c, <1>h DEF Release, History
  <2>2. Claim(o)' = "freed"
    BY <1>5, <1>c DEF Release
  <2>. QED
    BY <1>5, <1>o, <2>1, <2>2 DEF Ledger!LedgerNext, Ledger!Free
<1>. QED
  BY <1>1, <1>2, <1>3, <1>4, <1>5, StepCases

-----------------------------------------------------------------------------
(* In every reachable state the tables of the service agree with each       *)
(* other, whatever the baskets are.                                         *)
THEOREM Invariance == Spec => []IInv
BY InitIInv, NextIInv, PTL DEF Spec

(* Quantities stay natural numbers: the CHECKs of the inventory table are   *)
(* never violated by a transaction that commits.                            *)
THEOREM TypeCorrect == Spec => []TypeOK
<1>1. IInv => TypeOK
  BY DEF IInv
<1>. QED
  BY <1>1, Invariance, PTL

(* No unit of stock appears or disappears, whatever is reserved, refused,   *)
(* released or delivered twice.                                             *)
THEOREM StockIsConserved == Spec => []StockConserved
<1>1. IInv => StockConserved
  BY DEF IInv
<1>. QED
  BY <1>1, Invariance, PTL

(* A cancellation that was handled leaves nothing of the order reserved,    *)
(* also when order.created is delivered again after it.                     *)
THEOREM NothingHeldAfterCancel == Spec => []CancelledHoldsNothing
<1>1. IInv => CancelledHoldsNothing
  BY DEF IInv, Histories, History, CancelledHoldsNothing
<1>. QED
  BY <1>1, Invariance, PTL

(* What the outbox has of an order, with the events written out. *)
LEMMA SaidOf ==
  ASSUME OutboxKnown, NEW o \in Orders
  PROVE  /\ \A e \in Said(o, "inventory.reserved") : e = ReservedEvent(o)
         /\ \A e \in Said(o, "inventory.rejected") : e = RejectedEvent(o)
         /\ Said(o, "inventory.reserved") # {} <=> ReservedEvent(o) \in outbox
         /\ Said(o, "inventory.rejected") # {} <=> RejectedEvent(o) \in outbox
         /\ Said(o, "inventory.released") # {} <=> ReleasedEvent(o) \in outbox
<1>1. ASSUME NEW e \in outbox, e.order = o
      PROVE  e \in {ReservedEvent(o), RejectedEvent(o), ReleasedEvent(o)}
  <2>1. PICK q \in Orders : e \in {ReservedEvent(q), RejectedEvent(q), ReleasedEvent(q)}
    BY DEF OutboxKnown
  <2>2. ReservedEvent(q).order = q /\ RejectedEvent(q).order = q /\ ReleasedEvent(q).order = q
    BY EventsDiffer
  <2>3. q = o
    BY <1>1, <2>1, <2>2
  <2>. QED
    BY <2>1, <2>3
<1>2. /\ ReservedEvent(o).order = o /\ ReservedEvent(o).type = "inventory.reserved"
      /\ RejectedEvent(o).order = o /\ RejectedEvent(o).type = "inventory.rejected"
      /\ ReleasedEvent(o).order = o /\ ReleasedEvent(o).type = "inventory.released"
  BY EventsDiffer
<1>. QED
  BY <1>1, <1>2 DEF Said

(* The events the service publishes say what its rows say: an order whose   *)
(* order.created is processed has one answer, it has rows for its lines     *)
(* exactly when the answer was inventory.reserved, and they are released,   *)
(* all of them, exactly when inventory.released was announced.              *)
THEOREM AnswersAreRows == Spec => []AnswersMatchRows
<1>1. ASSUME IInv
      PROVE  AnswersMatchRows
  <2>. SUFFICES ASSUME NEW o \in Orders
                PROVE
         LET answers == Said(o, "inventory.reserved") \cup Said(o, "inventory.rejected") IN
         /\ answers # {} <=> CreatedEvent(o, Basket[o]).id \in processed
         /\ \A e, f \in answers : e = f
         /\ Said(o, "inventory.reserved") = {} => RowsOf(o) = {}
         /\ Said(o, "inventory.reserved") # {} =>
              \A i \in DOMAIN Basket[o] : \E row \in RowsOf(o) : row.product = Basket[o][i].product
         /\ \A row \in RowsOf(o) :
              /\ \E i \in DOMAIN Basket[o] :
                   row.product = Basket[o][i].product /\ row.quantity = Basket[o][i].quantity
              /\ row.status = IF Said(o, "inventory.released") # {} THEN "released" ELSE "reserved"
         /\ Said(o, "inventory.released") # {} => RowsOf(o) # {}
    BY DEF AnswersMatchRows
  <2>. DEFINE answers == Said(o, "inventory.reserved") \cup Said(o, "inventory.rejected")
  <2>0. TypeOK /\ OutboxKnown /\ History(o) /\ LinesRecorded
    BY <1>1 DEF IInv, Histories
  <2>s. /\ \A e \in Said(o, "inventory.reserved") : e = ReservedEvent(o)
        /\ \A e \in Said(o, "inventory.rejected") : e = RejectedEvent(o)
        /\ Said(o, "inventory.reserved") # {} <=> ReservedEvent(o) \in outbox
        /\ Said(o, "inventory.rejected") # {} <=> RejectedEvent(o) \in outbox
        /\ Said(o, "inventory.released") # {} <=> ReleasedEvent(o) \in outbox
    BY <2>0, SaidOf
  <2>1. answers # {} <=> CreatedEvent(o, Basket[o]).id \in processed
    BY <2>0, <2>s DEF History, Created
  <2>2. \A e, f \in answers : e = f
    BY <2>0, <2>s DEF History
  <2>3. Said(o, "inventory.reserved") = {} => RowsOf(o) = {}
    BY <2>0, <2>s DEF History, RowsOf
  <2>4. Said(o, "inventory.reserved") # {} =>
          \A i \in DOMAIN Basket[o] : \E row \in RowsOf(o) : row.product = Basket[o][i].product
    BY <2>0, <2>s DEF LinesRecorded
  <2>5. ASSUME NEW row \in RowsOf(o)
        PROVE  /\ \E i \in DOMAIN Basket[o] :
                    row.product = Basket[o][i].product /\ row.quantity = Basket[o][i].quantity
               /\ row.status = IF Said(o, "inventory.released") # {} THEN "released" ELSE "reserved"
    <3>1. FromALine(o, row)
      BY <2>0 DEF LinesRecorded
    <3>2. row.order = o /\ row \in reservations /\ row.status \in {"reserved", "released"}
      BY <2>0 DEF RowsOf, TypeOK, Reservation
    <3>3. ReleasedEvent(o) \in outbox => row.status = "released"
      BY <2>0, <3>2 DEF History, HeldRows
    <3>4. ReleasedEvent(o) \notin outbox => row.status = "reserved"
      BY <2>0, <3>2 DEF History
    <3>. QED
      BY <2>s, <3>1, <3>3, <3>4 DEF FromALine
  <2>6. Said(o, "inventory.released") # {} => RowsOf(o) # {}
    BY <2>0, <2>s DEF History, RowsOf
  <2>. QED
    BY <2>1, <2>2, <2>3, <2>4, <2>5, <2>6
<1>2. IInv => AnswersMatchRows
  BY <1>1
<1>. QED
  BY <1>2, Invariance, PTL

(* If no basket names a product twice, the rows of an order account for all *)
(* it has reserved.                                                         *)
LEMMA RowsInvariance == ASSUME DistinctLines PROVE Spec => []RowsInv
<1>1. Init => RowsInv
  BY InitIInv, InitRowsInv DEF RowsInv
<1>2. RowsInv /\ [Next]_vars => RowsInv'
  BY NextIInv, NextRowsInv DEF RowsInv
<1>. QED
  BY <1>1, <1>2, PTL DEF Spec

(* A cancellation gives back exactly what the order took, provided that no  *)
(* basket names a product twice; the run inventory_rows shows that the      *)
(* condition is needed.                                                     *)
THEOREM RowsAccount == DistinctLines => (Spec => []RowsAccountForReserved)
<1>. SUFFICES ASSUME DistinctLines PROVE Spec => []RowsAccountForReserved
  OBVIOUS
<1>1. RowsInv => RowsAccountForReserved
  BY DEF RowsInv
<1>. QED
  BY <1>1, RowsInvariance, PTL

(* Under the same condition the service implements the ledger: each order's *)
(* whole demand is held or refused, once, and freed at most once.           *)
THEOREM ImplementsLedger == DistinctLines => (Spec => LedgerSpec)
<1>. SUFFICES ASSUME DistinctLines PROVE Spec => LedgerSpec
  OBVIOUS
<1>1. Init => Ledger!LedgerInit
  <2>. SUFFICES ASSUME Init PROVE \A o \in Orders : Claim(o) = "none"
    BY DEF Ledger!LedgerInit
  <2>1. ClaimsTold
    BY InitIInv, ClaimValue
  <2>. QED
    BY <2>1 DEF ClaimsTold, Init, HeldRows
<1>2. RowsInv /\ [Next]_vars => [Ledger!LedgerNext]_[o \in Orders |-> Claim(o)]
  BY StepImplements
<1>. QED
  BY <1>1, <1>2, RowsInvariance, PTL DEF Spec, LedgerSpec, Ledger!LedgerSpec
=============================================================================
