--------------------------- MODULE OrderTxProofs ---------------------------
(***************************************************************************)
(* Proofs about OrderTx and the sums of Money, for any orders, baskets,    *)
(* sessions and widths.                                                    *)
(***************************************************************************)
EXTENDS OrderTx, FiniteSetTheorems, WellFoundedInduction, TLAPS

(***************************************************************************)
(* Sums. The community modules define a fold by recursion over the finite  *)
(* subsets of its domain; the induction here is done with the least        *)
(* element of a set of naturals.                                           *)
(***************************************************************************)

(* A non-empty set of naturals has a least element. *)
LEMMA LeastNatural ==
  ASSUME NEW T \in SUBSET Nat, T # {}
  PROVE  \E n \in T : \A m \in T : n <= m
<1>. DEFINE Less == {ss \in Nat \X Nat : ss[1] < ss[2]}
<1>1. \E x \in T : \A y \in T : ~(<<y, x>> \in OpToRel(<, Nat))
  BY NatLessThanWellFounded, WFMin
<1>2. OpToRel(<, Nat) = Less
  BY Zenon DEF OpToRel
<1>3. PICK x \in T : \A y \in T : <<y, x>> \notin Less
  BY Zenon, <1>1, <1>2
<1>4. ASSUME NEW y \in T
      PROVE  x <= y
  <2>1. x \in Nat /\ y \in Nat
    OBVIOUS
  <2>2. <<y, x>> \in Less <=> y < x
    BY <2>1
  <2>. QED
    BY <1>3, <2>1, <2>2
<1>. QED
  BY <1>4

(* A non-empty set of subsets of a finite set has a member none of whose    *)
(* proper subsets is in it.                                                 *)
LEMMA MinimalSubset ==
  ASSUME NEW S, IsFiniteSet(S), NEW B, B \subseteq SUBSET S, B # {}
  PROVE  \E s \in B : \A t \in B : t \subseteq s => t = s
<1>. DEFINE T == {Cardinality(s) : s \in B}
<1>1. \A s \in B : IsFiniteSet(s) /\ Cardinality(s) \in Nat
  BY FS_Subset, FS_CardinalityType
<1>2. T \in SUBSET Nat /\ T # {}
  BY <1>1
<1>3. PICK n \in T : \A m \in T : n <= m
  BY <1>2, LeastNatural
<1>4. PICK s \in B : n = Cardinality(s)
  OBVIOUS
<1>5. ASSUME NEW t \in B, t \subseteq s, t # s
      PROVE  FALSE
  <2>1. Cardinality(t) < Cardinality(s)
    BY <1>1, <1>5, FS_Subset
  <2>. QED
    BY <1>1, <1>3, <1>4, <2>1
<1>. QED
  BY <1>5

Pick(s) == CHOOSE x \in s : TRUE

LEMMA PickProperties ==
  ASSUME NEW s, s # {}
  PROVE  Pick(s) \in s
BY DEF Pick

-----------------------------------------------------------------------------

-----------------------------------------------------------------------------
(* Numbers that wrap round.                                                 *)
LEMMA Division ==
  ASSUME NEW n \in Int, NEW m \in Nat \ {0}
  PROVE  n \div m \in Int /\ n % m \in 0..m-1 /\ n = m * (n \div m) + (n % m)
<1>1. n \div m \in Int
  OBVIOUS
<1>2. n % m \in 0..m-1
  OBVIOUS
<1>3. n = m * (n \div m) + (n % m)
  OBVIOUS
<1>. QED
  BY <1>1, <1>2, <1>3

LEMMA Quotient ==
  ASSUME NEW n \in Int, NEW m \in Nat \ {0}, NEW q \in Int, NEW r \in 0..m-1, n = m * q + r
  PROVE  n \div m = q /\ n % m = r
<1>. DEFINE p == n \div m
            s == n % m
            d == q - p
<1>1. p \in Int /\ s \in 0..m-1 /\ n = m * p + s
  OBVIOUS
<1>. HIDE DEF p, s
<1>2. m * d = s - r
  BY <1>1
<1>3. d \in Int /\ s - r < m /\ r - s < m
  BY <1>1
<1>. HIDE DEF d
<1>4. ASSUME NEW k \in Nat
      PROVE  m * (k + 1) >= m
  <2>1. m * (k + 1) = m * k + m /\ m * k >= 0
    OBVIOUS
  <2>2. m * k \in Int
    OBVIOUS
  <2>. QED
    BY <2>1, <2>2
<1>5. d <= 0
  <2>. SUFFICES ASSUME d > 0 PROVE FALSE
    BY <1>3
  <2>1. d - 1 \in Nat /\ (d - 1) + 1 = d
    BY <1>3
  <2>. QED
    BY <1>1, <1>2, <1>3, <1>4, <2>1
<1>6. d >= 0
  <2>. SUFFICES ASSUME d < 0 PROVE FALSE
    BY <1>3
  <2>1. -d - 1 \in Nat /\ (-d - 1) + 1 = -d /\ m * (-d) = r - s
    BY <1>1, <1>2, <1>3
  <2>. QED
    BY <1>1, <1>3, <1>4, <2>1
<1>7. d = 0
  BY <1>3, <1>5, <1>6
<1>. QED
  BY <1>1, <1>2, <1>7 DEF d, p, s

LEMMA ModShift ==
  ASSUME NEW n \in Int, NEW k \in Int, NEW m \in Nat \ {0}
  PROVE  (n + m * k) % m = n % m
<1>. DEFINE q == n \div m
            r == n % m
<1>1. q \in Int /\ r \in 0..m-1 /\ n = m * q + r
  OBVIOUS
<1>. HIDE DEF q, r
<1>2. n + m * k = m * (q + k) + r
  BY <1>1
<1>3. q + k \in Int /\ n + m * k \in Int
  BY <1>1
<1>. QED
  BY <1>1, <1>2, <1>3, Quotient DEF r

(* Wrapping moves a number by a multiple of the range, into the range; a    *)
(* number of the range stays, and so does the sum of what was wrapped.      *)
Modulus == 2 * (MaxCents + 1)

LEMMA WrapProperties ==
  /\ Modulus \in Nat \ {0}
  /\ \A n \in Int : /\ Wrap(n) \in Cents /\ Wrap(n) \in Int
                    /\ \E k \in Int : Wrap(n) = n + Modulus * k
                    /\ \A k \in Int : Wrap(n + Modulus * k) = Wrap(n)
  /\ \A n \in Cents : n \in Int /\ Wrap(n) = n
  /\ 0 \in Cents
<1>. DEFINE h == MaxCents + 1
            m == Modulus
<1>1. h \in Nat \ {0} /\ m \in Nat \ {0} /\ m = h + h
  BY WidthsAssumption DEF Modulus
<1>2. \A n : Wrap(n) = ((n + h) % m) - h
  BY DEF Wrap, Modulus
<1>3. Cents = -h .. (h - 1)
  BY WidthsAssumption DEF Cents
<1>. HIDE DEF h, m
<1>4. ASSUME NEW n \in Int
      PROVE  /\ Wrap(n) \in Cents /\ Wrap(n) \in Int
             /\ \E k \in Int : Wrap(n) = n + m * k
             /\ \A k \in Int : Wrap(n + m * k) = Wrap(n)
  <2>. DEFINE q == (n + h) \div m
              r == (n + h) % m
  <2>0. n + h \in Int
    BY <1>1
  <2>1. q \in Int /\ r \in 0..m-1 /\ n + h = m * q + r
    BY <1>1, <2>0, Division
  <2>2. Wrap(n) = r - h
    BY <1>2
  <2>. HIDE DEF q, r
  <2>3. Wrap(n) \in Cents /\ Wrap(n) \in Int
    BY <1>1, <1>3, <2>1, <2>2
  <2>4. Wrap(n) = n + m * (-q) /\ -q \in Int
    BY <1>1, <2>1, <2>2
  <2>5. ASSUME NEW k \in Int
        PROVE  Wrap(n + m * k) = Wrap(n)
    <3>1. (n + m * k) + h = (n + h) + m * k /\ n + h \in Int
      BY <1>1
    <3>2. ((n + h) + m * k) % m = (n + h) % m
      BY <1>1, <3>1, ModShift
    <3>. QED
      BY <1>2, <3>1, <3>2
  <2>. QED
    BY <2>3, <2>4, <2>5
<1>5. ASSUME NEW n \in Cents
      PROVE  n \in Int /\ Wrap(n) = n
  <2>1. n \in Int /\ n + h \in 0..m-1
    BY <1>1, <1>3
  <2>2. n + h = m * 0 + (n + h) /\ n + h \in Int
    BY <1>1, <2>1
  <2>3. (n + h) % m = n + h
    BY <1>1, <2>1, <2>2, Quotient
  <2>. QED
    BY <1>1, <1>2, <2>1, <2>3
<1>6. 0 \in Cents
  BY <1>1, <1>3
<1>. QED
  BY <1>1, <1>4, <1>5, <1>6 DEF m

LEMMA WrapSum ==
  ASSUME NEW a \in Int, NEW b \in Int
  PROVE  Wrap(Wrap(a) + Wrap(b)) = Wrap(b + a)
<1>1. PICK i \in Int : Wrap(a) = a + Modulus * i
  BY WrapProperties
<1>2. PICK k \in Int : Wrap(b) = b + Modulus * k
  BY WrapProperties
<1>3. Modulus \in Int
  BY WrapProperties
<1>4. Wrap(a) + Wrap(b) = (b + a) + Modulus * (i + k) /\ i + k \in Int /\ b + a \in Int
  BY <1>1, <1>2, <1>3
<1>5. Wrap((b + a) + Modulus * (i + k)) = Wrap(b + a)
  BY <1>4, WrapProperties
<1>. QED
  BY <1>4, <1>5

-----------------------------------------------------------------------------
(* The totals.                                                              *)
ItemsOf(list) ==
  /\ list \in Seq(Range(list))
  /\ \A i \in DOMAIN list : list[i].quantity \in Int /\ list[i].price \in Int

(* The equations that define the folds of ExactTotal and Total. *)
ExactStep(h, list, s) == IF s = {} THEN 0 ELSE h[s \ {Pick(s)}] + Price(list[Pick(s)])
IsExact(h, list) == h = [s \in SUBSET DOMAIN list |-> ExactStep(h, list, s)]

WrapStep(h, list, s) ==
  IF s = {} THEN 0 ELSE Wrap(h[s \ {Pick(s)}] + Wrap(Price(list[Pick(s)])))
IsWrapped(h, list) == h = [s \in SUBSET DOMAIN list |-> WrapStep(h, list, s)]

LEMMA TotalsChoose ==
  ASSUME NEW list
  PROVE  /\ ExactTotal(list) = (CHOOSE h : IsExact(h, list))[DOMAIN list]
         /\ Total(list) = (CHOOSE h : IsWrapped(h, list))[DOMAIN list]
         /\ ChargedAmount(list) = (CHOOSE h : IsWrapped(h, list))[DOMAIN list]
<1>1. ExactTotal(list) = (CHOOSE h : IsExact(h, list))[DOMAIN list]
  BY DEF ExactTotal, FoldSeq, FoldFunction, FoldFunctionOnSet, MapThenFoldSet,
         IsExact, ExactStep, Pick
<1>2. Total(list) = (CHOOSE h : IsWrapped(h, list))[DOMAIN list]
  BY DEF Total, FoldSeq, FoldFunction, FoldFunctionOnSet, MapThenFoldSet,
         IsWrapped, WrapStep, Pick
<1>3. ChargedAmount(list) = (CHOOSE h : IsWrapped(h, list))[DOMAIN list]
  BY DEF ChargedAmount, FoldSeq, FoldFunction, FoldFunctionOnSet, MapThenFoldSet,
         IsWrapped, WrapStep, Pick
<1>. QED
  BY <1>1, <1>2, <1>3

LEMMA ItemsAreFinite ==
  ASSUME NEW list, ItemsOf(list)
  PROVE  IsFiniteSet(DOMAIN list) /\ \A i \in DOMAIN list : Price(list[i]) \in Int
<1>1. DOMAIN list = 1..Len(list) /\ Len(list) \in Nat
  BY DEF ItemsOf
<1>2. \A i \in DOMAIN list : Price(list[i]) \in Int
  BY DEF ItemsOf, Price
<1>. QED
  BY <1>1, <1>2, FS_Interval

(* Some function satisfies the exact equation. *)
LEMMA ExactExists ==
  ASSUME NEW list, ItemsOf(list)
  PROVE  \E h : IsExact(h, list)
<1>. DEFINE S == DOMAIN list
            UpTo(n) == \E h : \A s \in SUBSET S : Cardinality(s) <= n => h[s] = ExactStep(h, list, s)
            T == {n \in Nat : ~UpTo(n)}
<1>a. IsFiniteSet(S)
  BY ItemsAreFinite
<1>0. \A s \in SUBSET S : /\ IsFiniteSet(s) /\ Cardinality(s) \in Nat
                          /\ Cardinality(s) <= Cardinality(S)
                          /\ s # {} => /\ s \ {Pick(s)} \in SUBSET S
                                       /\ Cardinality(s \ {Pick(s)}) = Cardinality(s) - 1
  <2>. HIDE DEF S
  <2>. QED
    BY <1>a, FS_Subset, FS_CardinalityType, FS_RemoveElement, PickProperties
<1>1. T = {}
  <2>. SUFFICES ASSUME T # {} PROVE FALSE
    OBVIOUS
  <2>1. PICK n \in T : \A m \in T : n <= m
    BY LeastNatural
  <2>2. n \in Nat /\ ~UpTo(n)
    OBVIOUS
  <2>3. CASE n = 0
    <3>. DEFINE h == [s \in SUBSET S |-> 0]
    <3>1. \A s \in SUBSET S : Cardinality(s) <= 0 => s = {}
      <4>1. \A s \in SUBSET S : Cardinality(s) \in Nat /\ (Cardinality(s) = 0 => s = {})
        BY <1>0, FS_EmptySet
      <4>. QED
        BY <4>1
    <3>2. \A s \in SUBSET S : Cardinality(s) <= 0 => h[s] = ExactStep(h, list, s)
      BY <3>1 DEF ExactStep
    <3>. QED
      BY <2>2, <2>3, <3>2
  <2>4. CASE n # 0
    <3>1. n - 1 \in Nat /\ n - 1 \notin T
      BY <2>1, <2>2, <2>4
    <3>2. UpTo(n - 1)
      BY <3>1
    <3>3. PICK g : \A s \in SUBSET S : Cardinality(s) <= n - 1 => g[s] = ExactStep(g, list, s)
      BY <3>2
    <3>. DEFINE h == [s \in SUBSET S |-> IF Cardinality(s) <= n - 1 THEN g[s]
                                                                  ELSE ExactStep(g, list, s)]
    <3>4. ASSUME NEW s \in SUBSET S, Cardinality(s) <= n
          PROVE  h[s] = ExactStep(h, list, s)
      <4>1. h[s] = ExactStep(g, list, s)
        BY <3>3
      <4>2. CASE s = {}
        BY <4>1, <4>2 DEF ExactStep
      <4>3. CASE s # {}
        <5>1. /\ s \ {Pick(s)} \in SUBSET S
              /\ Cardinality(s \ {Pick(s)}) <= n - 1
          BY <1>0, <2>2, <3>4, <4>3
        <5>2. h[s \ {Pick(s)}] = g[s \ {Pick(s)}]
          BY <5>1
        <5>. QED
          BY <4>1, <5>2 DEF ExactStep
      <4>. QED
        BY <4>2, <4>3
    <3>. HIDE DEF h
    <3>5. UpTo(n)
      BY <3>4
    <3>. QED
      BY <2>2, <3>5
  <2>. QED
    BY <2>3, <2>4
<1>2. UpTo(Cardinality(S))
  BY <1>1, <1>a, FS_CardinalityType
<1>3. PICK g : \A s \in SUBSET S : g[s] = ExactStep(g, list, s)
  BY <1>0, <1>2
<1>. DEFINE h == [s \in SUBSET S |-> g[s]]
<1>4. \A s \in SUBSET S : h[s] = ExactStep(h, list, s)
  BY <1>0, <1>3 DEF ExactStep
<1>5. h = [s \in SUBSET S |-> ExactStep(h, list, s)]
  BY <1>4
<1>. QED
  BY <1>5 DEF IsExact

(* What satisfies it has integers for values. *)
LEMMA ExactTyped ==
  ASSUME NEW list, ItemsOf(list), NEW h, IsExact(h, list)
  PROVE  \A s \in SUBSET DOMAIN list : h[s] \in Int
<1>. DEFINE S == DOMAIN list
            B == {s \in SUBSET S : h[s] \notin Int}
<1>. SUFFICES ASSUME B # {} PROVE FALSE
  OBVIOUS
<1>0. B \subseteq SUBSET S
  OBVIOUS
<1>1. PICK s \in B : \A t \in B : t \subseteq s => t = s
  <2>1. IsFiniteSet(S)
    BY ItemsAreFinite
  <2>. HIDE DEF B, S
  <2>. QED
    BY <1>0, <2>1, MinimalSubset
<1>2. h[s] = ExactStep(h, list, s)
  BY DEF IsExact
<1>3. s # {}
  BY <1>2 DEF ExactStep
<1>4. Pick(s) \in s
  BY <1>3, PickProperties
<1>5. h[s \ {Pick(s)}] \in Int
  BY <1>1, <1>4
<1>6. Price(list[Pick(s)]) \in Int
  BY <1>4, ItemsAreFinite
<1>. QED
  BY <1>2, <1>3, <1>5, <1>6 DEF ExactStep

(* What satisfies the wrapped equation is the exact solution, wrapped. *)
LEMMA WrappedIsExact ==
  ASSUME NEW list, ItemsOf(list), NEW e, IsExact(e, list), NEW g, IsWrapped(g, list)
  PROVE  \A s \in SUBSET DOMAIN list : g[s] = Wrap(e[s])
<1>. DEFINE S == DOMAIN list
            B == {s \in SUBSET S : g[s] # Wrap(e[s])}
<1>. SUFFICES ASSUME B # {} PROVE FALSE
  OBVIOUS
<1>0. B \subseteq SUBSET S
  OBVIOUS
<1>1. PICK s \in B : \A t \in B : t \subseteq s => t = s
  <2>1. IsFiniteSet(S)
    BY ItemsAreFinite
  <2>. HIDE DEF B, S
  <2>. QED
    BY <1>0, <2>1, MinimalSubset
<1>2. s \in SUBSET S /\ g[s] # Wrap(e[s])
  OBVIOUS
<1>3. g[s] = WrapStep(g, list, s) /\ e[s] = ExactStep(e, list, s)
  BY <1>2 DEF IsWrapped, IsExact
<1>4. s # {}
  BY <1>2, <1>3, WrapProperties DEF WrapStep, ExactStep
<1>. DEFINE x == Pick(s)
            rest == s \ {Pick(s)}
<1>5. x \in s /\ rest \in SUBSET S /\ rest # s /\ rest \subseteq s
  BY <1>2, <1>4, PickProperties
<1>6. g[rest] = Wrap(e[rest])
  BY <1>1, <1>5
<1>7. e[rest] \in Int /\ Price(list[x]) \in Int
  BY <1>5, ExactTyped, ItemsAreFinite
<1>8. /\ g[s] = Wrap(g[rest] + Wrap(Price(list[x])))
      /\ e[s] = e[rest] + Price(list[x])
  BY <1>3, <1>4 DEF WrapStep, ExactStep
<1>. HIDE DEF x, rest
<1>. DEFINE a == e[rest]
            b == Price(list[x])
<1>9. a + b = b + a /\ a \in Int /\ b \in Int
  <2>1. a \in Int /\ b \in Int
    BY <1>7
  <2>. HIDE DEF a, b
  <2>. QED
    BY <2>1
<1>10. Wrap(Wrap(a) + Wrap(b)) = Wrap(b + a)
  BY <1>9, WrapSum
<1>. QED
  BY <1>2, <1>6, <1>8, <1>9, <1>10

(* Some function satisfies the wrapped equation. *)
LEMMA WrappedExists ==
  ASSUME NEW list, ItemsOf(list), NEW e, IsExact(e, list)
  PROVE  \E h : IsWrapped(h, list)
<1>. DEFINE S == DOMAIN list
            h == [s \in SUBSET S |-> Wrap(e[s])]
<1>1. ASSUME NEW s \in SUBSET S
      PROVE  Wrap(e[s]) = WrapStep(h, list, s)
  <2>0. e[s] = ExactStep(e, list, s)
    BY DEF IsExact
  <2>1. CASE s = {}
    BY <2>0, <2>1, WrapProperties DEF WrapStep, ExactStep
  <2>2. CASE s # {}
    <3>. DEFINE x == Pick(s)
                rest == s \ {Pick(s)}
                a == e[rest]
                b == Price(list[x])
    <3>1. x \in s /\ rest \in SUBSET S
      BY <2>2, PickProperties
    <3>2. a \in Int /\ b \in Int
      BY <3>1, ExactTyped, ItemsAreFinite
    <3>3. e[s] = a + b /\ h[rest] = Wrap(a) /\ WrapStep(h, list, s) = Wrap(h[rest] + Wrap(b))
      BY <2>0, <2>2, <3>1 DEF WrapStep, ExactStep
    <3>. HIDE DEF a, b, x, rest, h
    <3>4. a + b = b + a
      BY <3>2
    <3>. QED
      BY <3>2, <3>3, <3>4, WrapSum
  <2>. QED
    BY <2>1, <2>2
<1>. HIDE DEF h
<1>2. IsWrapped(h, list)
  BY <1>1 DEF IsWrapped, h
<1>. QED
  BY <1>2

(* The total that is stored, and the amount that is charged, are what the   *)
(* items cost, wrapped once.                                               *)
LEMMA TotalIsWrapped ==
  ASSUME NEW list, ItemsOf(list)
  PROVE  /\ ExactTotal(list) \in Int
         /\ Total(list) = Wrap(ExactTotal(list))
         /\ ChargedAmount(list) = Total(list)
<1>. DEFINE S == DOMAIN list
<1>1. PICK e : e = (CHOOSE h : IsExact(h, list)) /\ IsExact(e, list)
  BY ExactExists
<1>2. PICK g : g = (CHOOSE h : IsWrapped(h, list)) /\ IsWrapped(g, list)
  BY <1>1, WrappedExists
<1>3. e[S] \in Int /\ g[S] = Wrap(e[S])
  BY <1>1, <1>2, ExactTyped, WrappedIsExact
<1>. QED
  BY <1>1, <1>2, <1>3, TotalsChoose

-----------------------------------------------------------------------------
(* The transactions.                                                        *)
Statuses == {"none", "pending", "confirmed", "cancelled"}
Creating == {"insert", "lines", "commit", "created"}
Settling == {"lock", "settle", "ignore"}
Querying == {"items", "answer"}

RowType == [status : Statuses, total : Cents]
Partial(R) == UNION {[S -> R] : S \in SUBSET Orders}

SessionType ==
  [pc : {"idle"} \cup Creating \cup Settling \cup Querying, order : SUBSET Orders, line : Nat,
   known : SUBSET Orders, rows : Partial(RowType), lines : Partial({Basket[o] : o \in Orders})]

Types ==
  /\ orders \in [Orders -> Statuses]
  /\ totals \in [Orders -> Cents]
  /\ items \in [Orders -> {<<>>} \cup {Basket[o] : o \in Orders}]
  /\ session \in [Sessions -> SessionType]
  /\ acked \subseteq {o \in Orders : orders[o] # "none"}

(* An order that is stored is there with its total, all its lines and its   *)
(* event; nothing is known of one that is not.                              *)
Stored(o) ==
  /\ orders[o] = "none" => items[o] = <<>>
  /\ orders[o] # "none" =>
       /\ items[o] = Basket[o] /\ totals[o] = Total(Basket[o]) /\ totals[o] >= 0

StoredInv ==
  /\ \A o \in Orders : Stored(o)
  /\ \A e \in outbox : e.type = "order.created" =>
       e.order \in Orders /\ orders[e.order] # "none" /\ e.items = Basket[e.order]

(* The transaction that creates o in session s.  Nobody else creates it.    *)
CreatingInv(s, o) ==
  /\ Svc!ValidRequest(Basket[o])
  /\ session[s].pc \in {"lines", "commit"} => orders[o] = "none" /\ Total(Basket[o]) >= 0
  /\ session[s].pc = "lines" =>
       /\ session[s].line \in 1..Len(Basket[o])
       /\ \A i \in 1..session[s].line - 1 : FitsQuantity(Basket[o][i].quantity)
  /\ session[s].pc = "insert" => session[s].line = 1
  /\ session[s].pc = "commit" =>
       /\ session[s].line = Len(Basket[o])
       /\ \A i \in 1..Len(Basket[o]) : FitsQuantity(Basket[o][i].quantity)
  /\ session[s].pc = "created" => orders[o] # "none"

(* The transaction that settles o in session s.                             *)
SettlingInv(s, o) ==
  /\ orders[o] # "none"
  /\ session[s].pc = "settle" => orders[o] = "pending"
  /\ session[s].pc = "ignore" => orders[o] # "pending"

OneHolder ==
  \A s, q \in Sessions : s # q /\ session[s].order = session[q].order =>
    /\ ~(session[s].pc \in {"lines", "commit"} /\ session[q].pc \in {"lines", "commit"})
    /\ ~(session[s].pc \in {"settle", "ignore"} /\ session[q].pc \in {"settle", "ignore"})

(* What a query has read is still true, or the order has been settled since. *)
QueryInv(s) ==
  /\ session[s].known \subseteq DOMAIN session[s].rows
  /\ DOMAIN session[s].lines \subseteq DOMAIN session[s].rows
  /\ \A o \in DOMAIN session[s].rows :
       /\ orders[o] # "none"
       /\ session[s].rows[o].total = totals[o]
       /\ session[s].rows[o].status \in {"pending", orders[o]}
  /\ \A o \in DOMAIN session[s].lines : session[s].lines[o] = Basket[o]
  /\ session[s].pc = "answer" => DOMAIN session[s].lines = DOMAIN session[s].rows
  /\ session[s].pc = "items" => DOMAIN session[s].lines # DOMAIN session[s].rows

SessionInv(s) ==
  /\ session[s].pc \in Creating => \E o \in Orders : session[s].order = {o} /\ CreatingInv(s, o)
  /\ session[s].pc \in Settling => \E o \in Orders : session[s].order = {o} /\ SettlingInv(s, o)
  /\ QueryInv(s)

SessionsInv == \A s \in Sessions : SessionInv(s)

IInv == Types /\ StoredInv /\ OneHolder /\ SessionsInv

-----------------------------------------------------------------------------
LEMMA IdleSession ==
  /\ Idle \in SessionType /\ Idle.pc = "idle"
  /\ DOMAIN Idle.rows = {} /\ DOMAIN Idle.lines = {} /\ Idle.known = {}
<1>1. DOMAIN <<>> = {}
  OBVIOUS
<1>2. <<>> = [o \in {} |-> 0]
  BY <1>1
<1>3. <<>> \in Partial(RowType) /\ <<>> \in Partial({Basket[o] : o \in Orders})
  BY <1>2 DEF Partial
<1>. QED
  BY <1>1, <1>3 DEF Idle, SessionType

(* Whose order a transaction is about. *)
LEMMA OrderOf ==
  ASSUME NEW s \in Sessions, NEW o \in Orders, session[s].order = {o}
  PROVE  Order(s) = o /\ Lines(s) = Basket[o]
BY DEF Order, Lines

(* A step of one session that changes no table. *)
LEMMA SessionMoves ==
  ASSUME IInv, NEW s \in Sessions, NEW v \in SessionType, session' = [session EXCEPT ![s] = v],
         UNCHANGED tables, acked' \subseteq {o \in Orders : orders[o] # "none"}, SessionInv(s)',
         \A q \in Sessions \ {s} : session[q].order = v.order =>
           /\ ~(v.pc \in {"lines", "commit"} /\ session[q].pc \in {"lines", "commit"})
           /\ ~(v.pc \in {"settle", "ignore"} /\ session[q].pc \in {"settle", "ignore"})
  PROVE  IInv'
<1>1. session'[s] = v /\ \A q \in Sessions \ {s} : session'[q] = session[q]
  BY DEF IInv, Types
<1>2. Types'
  BY DEF IInv, Types, tables
<1>3. StoredInv'
  BY DEF IInv, StoredInv, Stored, tables
<1>4. OneHolder'
  BY <1>1 DEF IInv, OneHolder
<1>5. ASSUME NEW q \in Sessions
      PROVE  SessionInv(q)'
  <2>1. CASE q # s
    BY <1>1, <2>1 DEF IInv, SessionsInv, SessionInv, CreatingInv, SettlingInv, QueryInv, tables
  <2>. QED
    BY <2>1
<1>. QED
  BY <1>2, <1>3, <1>4, <1>5 DEF IInv, SessionsInv

LEMMA EndKeeps ==
  ASSUME IInv, NEW s \in Sessions, End(s), UNCHANGED tables,
         acked' \subseteq {o \in Orders : orders[o] # "none"}
  PROVE  IInv'
<1>1. session' = [session EXCEPT ![s] = Idle] /\ session'[s] = Idle
  BY DEF End, IInv, Types
<1>2. SessionInv(s)'
  BY <1>1, IdleSession DEF SessionInv, QueryInv, Creating, Settling
<1>. QED
  BY <1>1, <1>2, IdleSession, SessionMoves

LEMMA StartKeeps ==
  ASSUME IInv, NEW s \in Sessions, NEW o \in Orders, CreateOrder(s, o) \/ HandleEvent(s, o)
  PROVE  IInv'
<1>1. PICK pc \in {"insert", "lock"} :
        /\ Start(s, o, pc) /\ UNCHANGED <<tables, acked>>
        /\ pc = "insert" => Svc!ValidRequest(Basket[o])
        /\ pc = "lock" => orders[o] # "none"
  BY DEF CreateOrder, HandleEvent
<1>. DEFINE v == [Idle EXCEPT !.pc = pc, !.order = {o}]
<1>2. /\ v \in SessionType /\ v.pc = pc /\ v.order = {o} /\ v.line = 1
      /\ v.rows = Idle.rows /\ v.lines = Idle.lines /\ v.known = Idle.known
  BY IdleSession DEF SessionType, Idle, Creating, Settling
<1>3. session' = [session EXCEPT ![s] = v]
  BY <1>1 DEF Start
<1>. HIDE DEF v
<1>4. session'[s] = v
  BY <1>3 DEF IInv, Types
<1>5. QueryInv(s)'
  BY <1>2, <1>4, IdleSession DEF QueryInv
<1>6. SessionInv(s)'
  <2>1. CASE pc = "insert"
    <3>1. CreatingInv(s, o)'
      BY <1>1, <1>2, <1>4, <2>1 DEF CreatingInv
    <3>. QED
      BY <1>2, <1>4, <1>5, <2>1, <3>1 DEF SessionInv, Creating, Settling
  <2>2. CASE pc = "lock"
    <3>1. SettlingInv(s, o)'
      BY <1>1, <1>2, <1>4, <2>2 DEF SettlingInv, tables
    <3>. QED
      BY <1>2, <1>4, <1>5, <2>2, <3>1 DEF SessionInv, Creating, Settling
  <2>. QED
    BY <2>1, <2>2
<1>7. acked' \subseteq {x \in Orders : orders[x] # "none"}
  BY <1>1 DEF IInv, Types
<1>. QED
  BY <1>1, <1>2, <1>3, <1>6, <1>7, SessionMoves

(* The statements that create an order, up to the last one. *)
LEMMA InsertKeeps ==
  ASSUME IInv, NEW s \in Sessions, InsertOrder(s) \/ InsertLine(s)
  PROVE  IInv'
<1>0. Types /\ OneHolder /\ SessionInv(s)
  BY DEF IInv, SessionsInv
<1>1. session[s] \in SessionType /\ session[s].pc \in {"insert", "lines"}
  BY <1>0 DEF Types, InsertOrder, InsertLine, At
<1>2. PICK o \in Orders : session[s].order = {o} /\ CreatingInv(s, o)
  BY <1>0, <1>1 DEF SessionInv, Creating
<1>3. Order(s) = o /\ Lines(s) = Basket[o]
  BY <1>2, OrderOf
<1>4. Len(Basket[o]) \in Nat \ {0}
  BY <1>2, BasketAssumption DEF CreatingInv, Svc!ValidRequest
<1>5. \A q \in Sessions \ {s} : session[q].order = {o} => session[q].pc \notin {"lines", "commit"}
  <2>1. CASE session[s].pc = "insert"
    BY <1>2, <2>1 DEF InsertOrder, InsertLine, At, Blockers, Holders
  <2>2. CASE session[s].pc = "lines"
    BY <1>0, <1>2, <2>2 DEF OneHolder
  <2>. QED
    BY <1>1, <2>1, <2>2
<1>6. ASSUME NEW v \in SessionType, session' = [session EXCEPT ![s] = v],
             v.pc \in {"lines", "commit"}, v.order = {o},
             v.known = session[s].known, v.rows = session[s].rows, v.lines = session[s].lines,
             v.pc = "lines" =>
               /\ v.line \in 1..Len(Basket[o])
               /\ \A i \in 1..v.line - 1 : FitsQuantity(Basket[o][i].quantity),
             v.pc = "commit" =>
               /\ v.line = Len(Basket[o])
               /\ \A i \in 1..Len(Basket[o]) : FitsQuantity(Basket[o][i].quantity),
             orders[o] = "none" /\ Total(Basket[o]) >= 0, UNCHANGED <<tables, acked>>
      PROVE  IInv'
  <2>1. session'[s] = v
    BY <1>0, <1>6 DEF Types
  <2>2. CreatingInv(s, o)'
    BY <1>2, <1>6, <2>1 DEF CreatingInv, tables
  <2>3. QueryInv(s)'
    BY <1>0, <1>6, <2>1 DEF SessionInv, QueryInv, tables
  <2>4. SessionInv(s)'
    BY <1>6, <2>1, <2>2, <2>3 DEF SessionInv, Creating, Settling
  <2>5. acked' \subseteq {x \in Orders : orders[x] # "none"}
    BY <1>0, <1>6 DEF Types
  <2>6. v.pc \notin {"settle", "ignore"}
    BY <1>6
  <2>. QED
    BY <1>5, <1>6, <2>4, <2>5, <2>6, SessionMoves
<1>7. CASE InsertOrder(s)
  <2>. DEFINE v == [session[s] EXCEPT !.pc = "lines"]
  <2>1. /\ session' = [session EXCEPT ![s] = v] /\ UNCHANGED <<tables, acked>>
        /\ orders[o] = "none" /\ Total(Basket[o]) >= 0 /\ session[s].pc = "insert"
    BY <1>3, <1>7 DEF InsertOrder, Goto, At
  <2>2. /\ v \in SessionType /\ v.pc = "lines" /\ v.order = {o} /\ v.line = session[s].line
        /\ v.known = session[s].known /\ v.rows = session[s].rows /\ v.lines = session[s].lines
    BY <1>1, <1>2 DEF SessionType, Creating
  <2>3. v.line \in 1..Len(Basket[o]) /\ 1..v.line - 1 = {}
    BY <1>2, <1>4, <2>1, <2>2 DEF CreatingInv
  <2>. HIDE DEF v
  <2>. QED
    BY <1>6, <2>1, <2>2, <2>3
<1>8. CASE InsertLine(s)
  <2>1. /\ UNCHANGED <<tables, acked>> /\ session[s].pc = "lines"
        /\ session[s].line \in 1..Len(Basket[o])
        /\ orders[o] = "none" /\ Total(Basket[o]) >= 0
        /\ \A i \in 1..session[s].line : FitsQuantity(Basket[o][i].quantity)
    <3>1. /\ session[s].pc = "lines" /\ UNCHANGED <<tables, acked>>
          /\ FitsQuantity(Basket[o][session[s].line].quantity)
      BY <1>3, <1>8 DEF InsertLine, At
    <3>2. /\ session[s].line \in 1..Len(Basket[o])
          /\ \A i \in 1..session[s].line - 1 : FitsQuantity(Basket[o][i].quantity)
          /\ orders[o] = "none" /\ Total(Basket[o]) >= 0
      BY <1>2, <3>1 DEF CreatingInv
    <3>3. \A i \in 1..session[s].line : i = session[s].line \/ i \in 1..session[s].line - 1
      BY <1>4, <3>2
    <3>. QED
      BY <3>1, <3>2, <3>3
  <2>2. CASE session[s].line = Len(Basket[o])
    <3>. DEFINE v == [session[s] EXCEPT !.pc = "commit"]
    <3>1. session' = [session EXCEPT ![s] = v]
      BY <1>3, <1>8, <2>2 DEF InsertLine
    <3>2. /\ v \in SessionType /\ v.pc = "commit" /\ v.order = {o} /\ v.line = session[s].line
          /\ v.known = session[s].known /\ v.rows = session[s].rows /\ v.lines = session[s].lines
      BY <1>1, <1>2 DEF SessionType, Creating
    <3>. HIDE DEF v
    <3>. QED
      BY <1>6, <2>1, <2>2, <3>1, <3>2
  <2>3. CASE session[s].line # Len(Basket[o])
    <3>. DEFINE v == [session[s] EXCEPT !.line = session[s].line + 1]
    <3>1. session' = [session EXCEPT ![s] = v]
      BY <1>3, <1>8, <2>3 DEF InsertLine
    <3>2. /\ v \in SessionType /\ v.pc = "lines" /\ v.order = {o} /\ v.line = session[s].line + 1
          /\ v.known = session[s].known /\ v.rows = session[s].rows /\ v.lines = session[s].lines
      BY <1>1, <1>2, <2>1 DEF SessionType, Creating
    <3>. HIDE DEF v
    <3>3. v.line \in 1..Len(Basket[o])
      BY <1>4, <2>1, <2>3, <3>2
    <3>4. v.line - 1 = session[s].line
      <4>1. session[s].line \in Int
        BY <1>4, <2>1
      <4>. QED
        BY <3>2, <4>1
    <3>5. \A i \in 1..v.line - 1 : FitsQuantity(Basket[o][i].quantity)
      BY <2>1, <3>4
    <3>. QED
      BY <1>6, <2>1, <3>1, <3>2, <3>3, <3>5
  <2>. QED
    BY <2>2, <2>3
<1>. QED
  BY <1>7, <1>8

(* The order, its lines and its event are there at once. *)
LEMMA WholeSeq ==
  ASSUME NEW S, NEW l \in Seq(S)
  PROVE  SubSeq(l, 1, Len(l)) = l
<1>1. Len(SubSeq(l, 1, Len(l))) = Len(l) /\ SubSeq(l, 1, Len(l)) \in Seq(S)
  OBVIOUS
<1>2. \A i \in 1..Len(l) : SubSeq(l, 1, Len(l))[i] = l[i]
  OBVIOUS
<1>. QED
  BY <1>1, <1>2

LEMMA CommitCreates ==
  ASSUME IInv, NEW s \in Sessions, CommitCreate(s), NEW o \in Orders, session[s].order = {o}
  PROVE  /\ Svc!ValidRequest(Basket[o]) /\ orders[o] = "none" /\ Total(Basket[o]) >= 0
         /\ \A i \in 1..Len(Basket[o]) : FitsQuantity(Basket[o][i].quantity)
         /\ orders' = [orders EXCEPT ![o] = "pending"]
         /\ totals' = [totals EXCEPT ![o] = Total(Basket[o])]
         /\ items' = [items EXCEPT ![o] = Basket[o]]
         /\ outbox' = outbox \cup {CreatedEvent(o, Basket[o])}
         /\ session' = [session EXCEPT ![s] = [session[s] EXCEPT !.pc = "created"]]
         /\ UNCHANGED <<processed, acked>>
<1>1. session[s].pc = "commit" /\ SessionInv(s)
  BY DEF CommitCreate, At, IInv, SessionsInv
<1>2. CreatingInv(s, o)
  BY <1>1 DEF SessionInv, Creating
<1>3. Order(s) = o /\ Lines(s) = Basket[o]
  BY OrderOf
<1>4. SubSeq(Basket[o], 1, session[s].line) = Basket[o]
  BY <1>1, <1>2, WholeSeq, BasketAssumption DEF CreatingInv
<1>. QED
  BY <1>1, <1>2, <1>3, <1>4 DEF CommitCreate, CreatingInv, Goto

LEMMA TotalTyped ==
  ASSUME NEW o \in Orders
  PROVE  /\ Total(Basket[o]) \in Cents /\ ChargedAmount(Basket[o]) = Total(Basket[o])
         /\ ExactTotal(Basket[o]) \in Cents => Total(Basket[o]) = ExactTotal(Basket[o])
<1>1. ItemsOf(Basket[o])
  BY BasketAssumption DEF ItemsOf
<1>. QED
  BY <1>1, TotalIsWrapped, WrapProperties

LEMMA CommitKeeps ==
  ASSUME IInv, NEW s \in Sessions, CommitCreate(s)
  PROVE  IInv'
<1>0. Types /\ StoredInv /\ OneHolder /\ SessionsInv
  BY DEF IInv
<1>1. session[s].pc = "commit" /\ session[s] \in SessionType
  BY <1>0 DEF CommitCreate, At, Types
<1>2. PICK o \in Orders : session[s].order = {o}
  BY <1>0, <1>1 DEF SessionsInv, SessionInv, Creating
<1>3. /\ Svc!ValidRequest(Basket[o]) /\ orders[o] = "none" /\ Total(Basket[o]) >= 0
      /\ orders' = [orders EXCEPT ![o] = "pending"]
      /\ totals' = [totals EXCEPT ![o] = Total(Basket[o])]
      /\ items' = [items EXCEPT ![o] = Basket[o]]
      /\ outbox' = outbox \cup {CreatedEvent(o, Basket[o])}
      /\ UNCHANGED <<processed, acked>>
      /\ session' = [session EXCEPT ![s] = [session[s] EXCEPT !.pc = "created"]]
  BY <1>2, CommitCreates
<1>. DEFINE v == [session[s] EXCEPT !.pc = "created"]
<1>4. /\ v \in SessionType /\ v.pc = "created" /\ v.order = {o}
      /\ v.known = session[s].known /\ v.rows = session[s].rows /\ v.lines = session[s].lines
  BY <1>1, <1>2 DEF SessionType, Creating
<1>. HIDE DEF v
<1>5. session'[s] = v /\ \A q \in Sessions \ {s} : session'[q] = session[q]
  BY <1>0, <1>3 DEF Types, v
<1>6. orders'[o] = "pending" /\ \A x \in Orders \ {o} : orders'[x] = orders[x]
  BY <1>0, <1>3 DEF Types
<1>7. totals'[o] = Total(Basket[o]) /\ \A x \in Orders \ {o} : totals'[x] = totals[x]
  BY <1>0, <1>3 DEF Types
<1>8. items'[o] = Basket[o] /\ \A x \in Orders \ {o} : items'[x] = items[x]
  BY <1>0, <1>3 DEF Types
<1>9. Types'
  <2>1. orders' \in [Orders -> Statuses] /\ totals' \in [Orders -> Cents]
    BY <1>0, <1>3, TotalTyped DEF Types, Statuses
  <2>2. items' \in [Orders -> {<<>>} \cup {Basket[x] : x \in Orders}]
    BY <1>0, <1>3 DEF Types
  <2>3. session' \in [Sessions -> SessionType]
    BY <1>0, <1>3, <1>4 DEF Types, v
  <2>4. acked' \subseteq {x \in Orders : orders'[x] # "none"}
    BY <1>0, <1>3, <1>6 DEF Types
  <2>. QED
    BY <2>1, <2>2, <2>3, <2>4 DEF Types
<1>10. StoredInv'
  <2>1. \A x \in Orders : Stored(x)'
    BY <1>0, <1>3, <1>6, <1>7, <1>8 DEF StoredInv, Stored
  <2>2. ASSUME NEW e \in outbox', e.type = "order.created"
        PROVE  e.order \in Orders /\ orders'[e.order] # "none" /\ e.items = Basket[e.order]
    <3>1. CASE e \in outbox
      BY <1>0, <1>6, <2>2, <3>1 DEF StoredInv
    <3>2. CASE e = CreatedEvent(o, Basket[o])
      BY <1>6, <3>2 DEF CreatedEvent
    <3>. QED
      BY <1>3, <3>1, <3>2
  <2>. QED
    BY <2>1, <2>2 DEF StoredInv
<1>11. OneHolder'
  BY <1>0, <1>4, <1>5 DEF OneHolder
<1>12. ASSUME NEW q \in Sessions
       PROVE  SessionInv(q)'
  <2>0. SessionInv(q)
    BY <1>0 DEF SessionsInv
  <2>1. QueryInv(q)'
    <3>1. /\ session'[q].known = session[q].known
          /\ session'[q].rows = session[q].rows /\ session'[q].lines = session[q].lines
      BY <1>4, <1>5
    <3>2. session'[q].pc \in Querying => session'[q].pc = session[q].pc
      BY <1>4, <1>5 DEF Querying
    <3>3. \A x \in DOMAIN session[q].rows : x \in Orders
      BY <1>0 DEF Types, SessionType, Partial
    <3>4. \A x \in DOMAIN session[q].rows : x # o
      BY <1>3, <2>0 DEF SessionInv, QueryInv
    <3>. QED
      BY <1>6, <1>7, <2>0, <3>1, <3>2, <3>3, <3>4 DEF SessionInv, QueryInv, Querying
  <2>2. CASE q = s
    <3>1. CreatingInv(s, o)'
      BY <1>3, <1>4, <1>5, <1>6 DEF CreatingInv
    <3>. QED
      BY <1>4, <1>5, <2>1, <2>2, <3>1 DEF SessionInv, Creating, Settling
  <2>3. CASE q # s
    <3>1. session'[q] = session[q]
      BY <1>5, <2>3
    <3>2. ASSUME NEW x \in Orders, session[q].order = {x}, session[q].pc \in Creating, CreatingInv(q, x)
          PROVE  CreatingInv(q, x)'
      <4>1. x = o => session[q].pc \notin {"lines", "commit"}
        BY <1>0, <1>1, <1>2, <2>3, <3>2 DEF OneHolder
      <4>. QED
        BY <1>6, <3>1, <3>2, <4>1 DEF CreatingInv
    <3>3. ASSUME NEW x \in Orders, SettlingInv(q, x)
          PROVE  SettlingInv(q, x)'
      BY <1>3, <1>6, <3>1, <3>3 DEF SettlingInv
    <3>. QED
      BY <2>0, <2>1, <3>1, <3>2, <3>3 DEF SessionInv
  <2>. QED
    BY <2>2, <2>3
<1>. QED
  BY <1>9, <1>10, <1>11, <1>12 DEF IInv, SessionsInv

LEMMA AnswerCreatedKeeps ==
  ASSUME IInv, NEW s \in Sessions, AnswerCreated(s)
  PROVE  IInv'
<1>0. Types /\ SessionInv(s) /\ session[s].pc = "created"
  BY DEF IInv, SessionsInv, AnswerCreated, At
<1>1. PICK o \in Orders : session[s].order = {o} /\ CreatingInv(s, o)
  BY <1>0 DEF SessionInv, Creating
<1>2. Order(s) = o /\ orders[o] # "none"
  BY <1>0, <1>1, OrderOf DEF CreatingInv
<1>3. acked' \subseteq {x \in Orders : orders[x] # "none"}
  BY <1>0, <1>2 DEF Types, AnswerCreated
<1>. QED
  BY <1>3, EndKeeps DEF AnswerCreated

-----------------------------------------------------------------------------
(* A payment event is handled: the row is locked, and then settled, or left *)
(* as it is when that has been done.                                        *)
LEMMA LockKeeps ==
  ASSUME IInv, NEW s \in Sessions, LockOrder(s)
  PROVE  IInv'
<1>0. Types /\ OneHolder /\ SessionInv(s) /\ session[s].pc = "lock"
  BY DEF IInv, SessionsInv, LockOrder, At
<1>1. PICK o \in Orders : session[s].order = {o} /\ SettlingInv(s, o)
  BY <1>0 DEF SessionInv, Settling
<1>2. Order(s) = o
  BY <1>1, OrderOf
<1>. DEFINE pc == IF orders[o] = "pending" THEN "settle" ELSE "ignore"
            v == [session[s] EXCEPT !.pc = pc]
<1>3. session' = [session EXCEPT ![s] = v] /\ UNCHANGED <<tables, acked>>
  BY <1>2 DEF LockOrder, Goto
<1>4. /\ v \in SessionType /\ v.pc = pc /\ v.order = {o} /\ pc \in {"settle", "ignore"}
      /\ v.known = session[s].known /\ v.rows = session[s].rows /\ v.lines = session[s].lines
      /\ pc = "settle" <=> orders[o] = "pending"
  BY <1>0, <1>1 DEF Types, SessionType, Settling
<1>. HIDE DEF v, pc
<1>5. session'[s] = v
  BY <1>0, <1>3 DEF Types
<1>6. SettlingInv(s, o)'
  BY <1>1, <1>3, <1>4, <1>5 DEF SettlingInv, tables
<1>7. QueryInv(s)'
  BY <1>0, <1>3, <1>4, <1>5 DEF SessionInv, QueryInv, tables
<1>8. SessionInv(s)'
  BY <1>4, <1>5, <1>6, <1>7 DEF SessionInv, Creating, Settling
<1>9. \A q \in Sessions \ {s} : session[q].order = {o} => session[q].pc \notin {"settle", "ignore"}
  BY <1>0, <1>1 DEF LockOrder, At, Blockers, Holders
<1>10. acked' \subseteq {x \in Orders : orders[x] # "none"}
  BY <1>0, <1>3 DEF Types
<1>11. ASSUME NEW q \in Sessions \ {s}, session[q].order = v.order
       PROVE  /\ ~(v.pc \in {"lines", "commit"} /\ session[q].pc \in {"lines", "commit"})
              /\ ~(v.pc \in {"settle", "ignore"} /\ session[q].pc \in {"settle", "ignore"})
  BY <1>4, <1>9, <1>11
<1>12. v \in SessionType /\ UNCHANGED tables
  BY <1>3, <1>4
<1>. QED
  BY <1>3, <1>8, <1>10, <1>11, <1>12, SessionMoves

LEMMA SettleKeeps ==
  ASSUME IInv, NEW s \in Sessions, SettleOrder(s)
  PROVE  IInv'
<1>0. Types /\ StoredInv /\ OneHolder /\ SessionsInv /\ session[s].pc = "settle"
  BY DEF IInv, SettleOrder, At
<1>1. PICK o \in Orders : session[s].order = {o} /\ SettlingInv(s, o)
  BY <1>0 DEF SessionsInv, SessionInv, Settling
<1>. DEFINE new == Svc!NewStatus(Event(s))
            announced == Svc!StatusEvent(Event(s))
<1>2. /\ orders' = [orders EXCEPT ![o] = new] /\ outbox' = outbox \cup {announced}
      /\ session' = [session EXCEPT ![s] = Idle]
      /\ UNCHANGED <<totals, items, acked>>
  BY <1>1, OrderOf DEF SettleOrder, End
<1>3. new \in {"confirmed", "cancelled"} /\ announced.type # "order.created"
  BY DEF Svc!NewStatus, Svc!StatusEvent, Svc!FollowUp
<1>. HIDE DEF new, announced
<1>4. orders[o] = "pending"
  BY <1>0, <1>1 DEF SettlingInv
<1>5. orders'[o] \in {"confirmed", "cancelled"} /\ \A x \in Orders \ {o} : orders'[x] = orders[x]
  BY <1>0, <1>2, <1>3 DEF Types
<1>6. session'[s] = Idle /\ \A q \in Sessions \ {s} : session'[q] = session[q]
  BY <1>0, <1>2 DEF Types
<1>7. Types'
  BY <1>0, <1>2, <1>3, IdleSession DEF Types, Statuses
<1>8. StoredInv'
  BY <1>0, <1>2, <1>3, <1>4, <1>5 DEF StoredInv, Stored
<1>9. OneHolder'
  BY <1>0, <1>6, IdleSession DEF OneHolder
<1>10. ASSUME NEW q \in Sessions
       PROVE  SessionInv(q)'
  <2>1. CASE q = s
    BY <1>6, <2>1, IdleSession DEF SessionInv, QueryInv, Creating, Settling
  <2>2. CASE q # s
    <3>0. SessionInv(q) /\ session'[q] = session[q]
      BY <1>0, <1>6, <2>2 DEF SessionsInv
    <3>1. QueryInv(q)'
      <4>1. \A x \in DOMAIN session[q].rows : x \in Orders
        BY <1>0 DEF Types, SessionType, Partial
      <4>. QED
        BY <1>2, <1>4, <1>5, <3>0, <4>1 DEF SessionInv, QueryInv
    <3>2. ASSUME NEW x \in Orders, CreatingInv(q, x)
          PROVE  CreatingInv(q, x)'
      BY <1>4, <1>5, <3>0, <3>2 DEF CreatingInv
    <3>3. ASSUME NEW x \in Orders, session[q].order = {x}, SettlingInv(q, x)
          PROVE  SettlingInv(q, x)'
      <4>1. x = o => session[q].pc \notin {"settle", "ignore"}
        BY <1>0, <1>1, <2>2, <3>3 DEF OneHolder
      <4>. QED
        BY <1>5, <3>0, <3>3, <4>1 DEF SettlingInv
    <3>. QED
      BY <3>0, <3>1, <3>2, <3>3 DEF SessionInv
  <2>. QED
    BY <2>1, <2>2
<1>. QED
  BY <1>7, <1>8, <1>9, <1>10 DEF IInv, SessionsInv

LEMMA IgnoreKeeps ==
  ASSUME IInv, NEW s \in Sessions, IgnoreEvent(s)
  PROVE  IInv'
<1>0. Types /\ StoredInv /\ OneHolder /\ SessionsInv
  BY DEF IInv
<1>1. /\ session' = [session EXCEPT ![s] = Idle]
      /\ UNCHANGED <<orders, outbox, totals, items, acked>>
  BY DEF IgnoreEvent, End
<1>2. session'[s] = Idle /\ \A q \in Sessions \ {s} : session'[q] = session[q]
  BY <1>0, <1>1 DEF Types
<1>3. Types' /\ StoredInv' /\ OneHolder'
  BY <1>0, <1>1, <1>2, IdleSession DEF Types, StoredInv, Stored, OneHolder
<1>4. ASSUME NEW q \in Sessions
      PROVE  SessionInv(q)'
  <2>1. CASE q = s
    BY <1>2, <2>1, IdleSession DEF SessionInv, QueryInv, Creating, Settling
  <2>2. CASE q # s
    <3>1. session'[q] = session[q] /\ SessionInv(q)
      BY <1>0, <1>2, <2>2 DEF SessionsInv
    <3>2. QueryInv(q)'
      BY <1>1, <3>1 DEF SessionInv, QueryInv
    <3>3. ASSUME NEW o \in Orders PROVE CreatingInv(q, o) => CreatingInv(q, o)'
      BY <1>1, <3>1 DEF CreatingInv
    <3>4. ASSUME NEW o \in Orders PROVE SettlingInv(q, o) => SettlingInv(q, o)'
      BY <1>1, <3>1 DEF SettlingInv
    <3>. QED
      BY <3>1, <3>2, <3>3, <3>4 DEF SessionInv
  <2>. QED
    BY <2>1, <2>2
<1>. QED
  BY <1>3, <1>4 DEF IInv, SessionsInv

-----------------------------------------------------------------------------
(* The queries.                                                             *)
LEMMA SelectKeeps ==
  ASSUME IInv, NEW s \in Sessions, NEW wanted \in SUBSET Orders, SelectOrders(s, wanted)
  PROVE  IInv'
<1>0. Types /\ StoredInv
  BY DEF IInv
<1>. DEFINE found == {o \in wanted : orders[o] # "none"}
            rows == [o \in found |-> [status |-> orders[o], total |-> totals[o]]]
            pc == IF found = {} THEN "answer" ELSE "items"
            v == [Idle EXCEPT !.pc = pc, !.known = acked \cap wanted, !.rows = rows]
<1>1. session' = [session EXCEPT ![s] = v] /\ UNCHANGED <<tables, acked>>
  BY DEF SelectOrders
<1>2. rows \in [found -> RowType] /\ found \in SUBSET Orders
  BY <1>0 DEF Types, RowType
<1>3. rows \in Partial(RowType)
  BY <1>2 DEF Partial
<1>4. /\ \A o \in found : rows[o].status = orders[o] /\ rows[o].total = totals[o]
      /\ DOMAIN rows = found
  OBVIOUS
<1>5. pc \in {"answer", "items"} /\ (pc = "answer" <=> found = {})
  OBVIOUS
<1>6. acked \cap wanted \subseteq found
  BY <1>0 DEF Types
<1>. HIDE DEF rows, pc
<1>7. /\ v \in SessionType /\ v.pc = pc /\ v.known = acked \cap wanted /\ v.rows = rows
      /\ v.lines = Idle.lines
  BY <1>3, <1>5, IdleSession DEF SessionType, Idle, Querying
<1>. HIDE DEF v
<1>8. session'[s] = v
  BY <1>0, <1>1 DEF Types
<1>9. QueryInv(s)'
  BY <1>1, <1>4, <1>5, <1>6, <1>7, <1>8, IdleSession DEF QueryInv, tables
<1>10. SessionInv(s)'
  BY <1>5, <1>7, <1>8, <1>9 DEF SessionInv, Creating, Settling
<1>11. acked' \subseteq {o \in Orders : orders[o] # "none"}
  BY <1>0, <1>1 DEF Types
<1>12. v.pc \notin {"lines", "commit", "settle", "ignore"}
  BY <1>5, <1>7
<1>. QED
  BY <1>1, <1>7, <1>10, <1>11, <1>12, SessionMoves

LEMMA LoadKeeps ==
  ASSUME IInv, NEW s \in Sessions, LoadItems(s)
  PROVE  IInv'
<1>0. Types /\ StoredInv /\ QueryInv(s) /\ session[s] \in SessionType /\ session[s].pc = "items"
  BY DEF IInv, SessionsInv, SessionInv, LoadItems, At, Types
<1>. DEFINE o == CHOOSE x \in Unread(s) : TRUE
            lines == [x \in Read(s) \cup {o} |-> IF x = o THEN items[o] ELSE session[s].lines[x]]
            pc == IF Unread(s) = {o} THEN "answer" ELSE "items"
            v == [session[s] EXCEPT !.lines = lines, !.pc = pc]
<1>1. session' = [session EXCEPT ![s] = v] /\ UNCHANGED <<tables, acked>>
  BY <1>0 DEF LoadItems, Types
<1>2. o \in Unread(s)
  BY <1>0 DEF Unread, Read, QueryInv
<1>. HIDE DEF o
<1>3. /\ o \in DOMAIN session[s].rows /\ o \in Orders /\ o \notin Read(s)
      /\ Read(s) \subseteq Orders
  BY <1>0, <1>2 DEF Unread, Read, SessionType, Partial
<1>4. items[o] = Basket[o] /\ orders[o] # "none"
  BY <1>0, <1>3 DEF QueryInv, StoredInv, Stored
<1>5. /\ DOMAIN lines = Read(s) \cup {o}
      /\ \A x \in Read(s) \cup {o} : lines[x] = Basket[x]
  BY <1>0, <1>4 DEF QueryInv, Read
<1>6. lines \in Partial({Basket[x] : x \in Orders})
  <2>1. lines \in [Read(s) \cup {o} -> {Basket[x] : x \in Orders}]
    BY <1>3, <1>5
  <2>2. Read(s) \cup {o} \in SUBSET Orders
    BY <1>3
  <2>. HIDE DEF lines
  <2>. QED
    BY <2>1, <2>2 DEF Partial
<1>7. pc \in {"answer", "items"} /\ (pc = "answer" <=> Unread(s) = {o})
  OBVIOUS
<1>. HIDE DEF lines, pc
<1>8. /\ v \in SessionType /\ v.pc = pc /\ v.lines = lines
      /\ v.known = session[s].known /\ v.rows = session[s].rows
  BY <1>0, <1>6, <1>7 DEF SessionType, Querying
<1>. HIDE DEF v
<1>9. session'[s] = v
  BY <1>0, <1>1 DEF Types
<1>10. QueryInv(s)'
  <2>1. Read(s) \cup {o} \subseteq DOMAIN session[s].rows
    BY <1>0, <1>3 DEF QueryInv, Read
  <2>2. Unread(s) = {o} <=> Read(s) \cup {o} = DOMAIN session[s].rows
    BY <1>3, <2>1 DEF Unread
  <2>. QED
    BY <1>0, <1>1, <1>5, <1>7, <1>8, <1>9, <2>1, <2>2 DEF QueryInv, tables
<1>11. SessionInv(s)'
  BY <1>7, <1>8, <1>9, <1>10 DEF SessionInv, Creating, Settling
<1>12. acked' \subseteq {x \in Orders : orders[x] # "none"}
  BY <1>0, <1>1 DEF Types
<1>13. v.pc \notin {"lines", "commit", "settle", "ignore"}
  BY <1>7, <1>8
<1>. QED
  BY <1>1, <1>8, <1>11, <1>12, <1>13, SessionMoves

-----------------------------------------------------------------------------
LEMMA InitIInv == Init => IInv
<1>. SUFFICES ASSUME Init PROVE IInv
  OBVIOUS
<1>1. /\ orders = [o \in Orders |-> "none"] /\ outbox = {}
      /\ totals = [o \in Orders |-> 0] /\ items = [o \in Orders |-> <<>>]
      /\ session = [s \in Sessions |-> Idle] /\ acked = {}
  BY DEF Init, Svc!Init
<1>2. Types
  BY <1>1, IdleSession, WrapProperties DEF Types, Statuses
<1>3. StoredInv
  BY <1>1 DEF StoredInv, Stored
<1>4. OneHolder
  BY <1>1, IdleSession DEF OneHolder
<1>5. SessionsInv
  BY <1>1, IdleSession DEF SessionsInv, SessionInv, QueryInv, Creating, Settling
<1>. QED
  BY <1>2, <1>3, <1>4, <1>5 DEF IInv

LEMMA StepIInv == IInv /\ [Next]_vars => IInv'
<1>. SUFFICES ASSUME IInv, [Next]_vars PROVE IInv'
  OBVIOUS
<1>0. acked \subseteq {o \in Orders : orders[o] # "none"}
  BY DEF IInv, Types
<1>1. ASSUME NEW s \in Sessions, AnswerQuery(s) \/ StatementFails(s) \/ Abort(s)
      PROVE  IInv'
  BY <1>0, <1>1, EndKeeps DEF AnswerQuery, StatementFails, Abort
<1>2. ASSUME NEW s \in Sessions, ListOrders(s) \/ \E o \in Orders : GetOrder(s, o)
      PROVE  IInv'
  BY <1>2, SelectKeeps DEF ListOrders, GetOrder
<1>3. CASE UNCHANGED vars
  BY <1>3 DEF vars, tables, IInv, Types, StoredInv, Stored, OneHolder, SessionsInv, SessionInv,
              CreatingInv, SettlingInv, QueryInv
<1>. QED
  BY <1>1, <1>2, <1>3, StartKeeps, InsertKeeps, CommitKeeps, AnswerCreatedKeeps, LockKeeps,
     SettleKeeps, IgnoreKeeps, LoadKeeps DEF Next

(* The inductive invariant holds in every reachable state. *)
THEOREM Invariance == Spec => []IInv
BY InitIInv, StepIInv, PTL DEF Spec

(* Tables and sessions keep their types.                                    *)
THEOREM TypeCorrect == Spec => []TypeOK
<1>1. IInv => TypeOK
  <2>. SUFFICES ASSUME Types, StoredInv, SessionsInv PROVE TypeOK
    BY DEF IInv
  <2>1. ASSUME NEW s \in Sessions
        PROVE  /\ session[s].pc \in {"idle", "insert", "lines", "commit", "created",
                                     "lock", "settle", "ignore", "items", "answer"}
               /\ Read(s) \subseteq DOMAIN session[s].rows
               /\ DOMAIN session[s].rows \subseteq Orders
    <3>1. session[s] \in SessionType
      BY DEF Types
    <3>. QED
      BY <3>1 DEF SessionType, Partial, Creating, Settling, Querying, Read, SessionsInv,
                  SessionInv, QueryInv
  <2>2. \A o \in Orders : items[o] \in {<<>>, Basket[o]}
    BY DEF StoredInv, Stored
  <2>. QED
    BY <2>1, <2>2 DEF Types, TypeOK, Statuses
<1>. QED
  BY <1>1, Invariance, PTL

(* GetOrder and ListOrders answer the truth, though in several statements.  *)
THEOREM QueriesAreTrue == Spec => []AnswersAreTrue
<1>1. IInv => AnswersAreTrue
  BY DEF IInv, SessionsInv, SessionInv, QueryInv, AnswersAreTrue
<1>. QED
  BY <1>1, Invariance, PTL

(* What is stored is what is charged, is not negative, and is what the      *)
(* items cost if that fits, whatever the widths and however sums wrap.      *)
THEOREM StoredIsCharged == Spec => []TotalIsCharged
<1>1. IInv => TotalIsCharged
  BY TotalTyped DEF IInv, StoredInv, Stored, TotalIsCharged
<1>. QED
  BY <1>1, Invariance, PTL

-----------------------------------------------------------------------------
(* What the statements check is what the service takes as one condition.    *)
LEMMA SameTotal ==
  ASSUME NEW list
  PROVE  Svc!Total(list) = Total(list)
BY DEF Svc!Total, Svc!Wrap, Svc!Price, Total, Wrap, Price, Svc!FoldSeq, FoldSeq,
       Svc!FoldFunction, FoldFunction, Svc!FoldFunctionOnSet, FoldFunctionOnSet,
       Svc!MapThenFoldSet, MapThenFoldSet

LEMMA StorableBasket ==
  ASSUME NEW o \in Orders, Total(Basket[o]) >= 0,
         \A i \in 1..Len(Basket[o]) : FitsQuantity(Basket[o][i].quantity)
  PROVE  Svc!Storable(Basket[o])
<1>1. DOMAIN Basket[o] = 1..Len(Basket[o])
  BY BasketAssumption
<1>2. Total(Basket[o]) \in Int
  BY TotalTyped, WidthsAssumption DEF Cents
<1>3. Total(Basket[o]) \in Nat
  BY <1>2
<1>. QED
  BY <1>1, <1>3, SameTotal DEF Svc!Storable, Svc!FitsQuantity, FitsQuantity

(* The statements implement the one-step transactions of OrderService.      *)
LEMMA StepRefines ==
  ASSUME IInv, [Next]_vars
  PROVE  [ServiceNext]_<<orders, totals, processed, outbox>>
<1>0. Types /\ StoredInv /\ OneHolder /\ SessionsInv
  BY DEF IInv
<1>1. ASSUME NEW s \in Sessions, CommitCreate(s)
      PROVE  ServiceNext
  <2>1. session[s].pc = "commit"
    BY <1>1 DEF CommitCreate, At
  <2>2. PICK o \in Orders : session[s].order = {o}
    BY <1>0, <2>1 DEF SessionsInv, SessionInv, Creating
  <2>3. Svc!CreateOrder(o)
    <3>1. Svc!Storable(Basket[o])
      BY <1>1, <2>2, CommitCreates, StorableBasket
    <3>. QED
      BY <1>1, <2>2, <3>1, CommitCreates, SameTotal
         DEF Svc!CreateOrder, Svc!CreatedEvent, CreatedEvent
  <2>. QED
    BY <2>3 DEF ServiceNext
<1>2. ASSUME NEW s \in Sessions, SettleOrder(s) \/ IgnoreEvent(s)
      PROVE  [ServiceNext]_<<orders, totals, processed, outbox>>
  <2>1. session[s].pc \in {"settle", "ignore"}
    BY <1>2 DEF SettleOrder, IgnoreEvent, At
  <2>2. PICK o \in Orders : session[s].order = {o} /\ SettlingInv(s, o)
    BY <1>0, <2>1 DEF SessionsInv, SessionInv, Settling
  <2>. DEFINE src == PaymentEvent(o)
  <2>3. Order(s) = o /\ Event(s) = src
    BY <2>2, OrderOf DEF Event
  <2>4. src.order = o /\ Svc!Wanted(src)
    BY DEF PaymentEvent, Svc!Wanted
  <2>. HIDE DEF src
  <2>5. Svc!HandleEvent(src) \/ UNCHANGED <<orders, totals, processed, outbox>>
    <3>1. CASE SettleOrder(s)
      BY <2>2, <2>3, <2>4, <3>1 DEF SettleOrder, At, SettlingInv, Svc!HandleEvent,
                                    Svc!ApplyPaymentEvent
    <3>2. CASE IgnoreEvent(s)
      <4>1. orders[o] \notin {"none", "pending"}
        BY <2>2, <3>2 DEF IgnoreEvent, At, SettlingInv
      <4>2. processed' = processed \cup {src.id} /\ UNCHANGED <<orders, totals, outbox>>
        BY <2>3, <3>2 DEF IgnoreEvent
      <4>3. CASE src.id \in processed
        BY <4>2, <4>3
      <4>4. CASE src.id \notin processed
        BY <2>4, <4>1, <4>2, <4>4 DEF Svc!HandleEvent, Svc!ApplyPaymentEvent
      <4>. QED
        BY <4>3, <4>4
    <3>. QED
      BY <1>2, <3>1, <3>2
  <2>. QED
    BY <2>5 DEF ServiceNext, src
<1>3. ASSUME UNCHANGED tables
      PROVE  UNCHANGED <<orders, totals, processed, outbox>>
  BY <1>3 DEF tables
<1>4. CASE UNCHANGED vars
  BY <1>4 DEF vars, tables
<1>5. ASSUME NEW s \in Sessions,
             \/ \E o \in Orders : CreateOrder(s, o) \/ HandleEvent(s, o) \/ GetOrder(s, o)
             \/ ListOrders(s) \/ InsertOrder(s) \/ InsertLine(s) \/ AnswerCreated(s)
             \/ LockOrder(s) \/ LoadItems(s) \/ AnswerQuery(s) \/ StatementFails(s) \/ Abort(s)
      PROVE  UNCHANGED tables
  BY <1>5 DEF CreateOrder, HandleEvent, GetOrder, ListOrders, SelectOrders, InsertOrder,
              InsertLine, AnswerCreated, LockOrder, LoadItems, AnswerQuery, StatementFails, Abort
<1>. QED
  BY <1>1, <1>2, <1>3, <1>4, <1>5 DEF Next

(* An order is stored with its total and its event or not at all, and       *)
(* replicas that handle one payment event settle the order once.            *)
THEOREM ImplementsService == Spec => ServiceSpec
<1>1. Init => Svc!Init
  BY DEF Init
<1>2. IInv /\ [Next]_vars => [ServiceNext]_<<orders, totals, processed, outbox>>
  BY StepRefines
<1>. QED
  BY <1>1, <1>2, Invariance, PTL DEF Spec, ServiceSpec
=============================================================================
