------------------------- MODULE OrderEventsProofs --------------------------
(***************************************************************************)
(* Proofs about OrderEvents, for any orders, products, stock and limits.   *)
(*                                                                         *)
(* The sums over the lines of an order and over the handled orders are     *)
(* folds of the community modules, which are recursive functions: an       *)
(* equation chosen with CHOOSE.  What they compute is proved in three      *)
(* steps: a function with the wanted values exists, it satisfies the       *)
(* equation, and nothing else does.  Induction is over the subsets of a    *)
(* finite set, with the statement as a set of subsets.                     *)
(***************************************************************************)
EXTENDS OrderEvents, FiniteSetTheorems, SequenceTheorems, WellFoundedInduction, TLAPS

\* A pending order is one the handler threw at, and will throw at again.
IInv == /\ DOMAIN orders = OrderId
        /\ handled \subseteq Saved
        /\ pending = Saved \ handled
        /\ \A o \in pending : ~ KnowsAll(orders[o].items)
        /\ \A pair \in oversold \cup short : pair[1] \in handled

LEMMA InitInv == Init => IInv
  BY DEF Init, IInv, Saved

\* What the handler does to the books of one event.
LEMMA Handling ==
  ASSUME NEW o, NEW items, OnOrderCreated(o, items),
         \A pair \in oversold \cup short : pair[1] \in handled
  PROVE  /\ handled' = IF KnowsAll(items) THEN handled \cup {o} ELSE handled
         /\ \A pair \in oversold' \cup short' : pair[1] \in handled'
<1>1. CASE o \notin handled /\ KnowsAll(items)
  BY <1>1 DEF OnOrderCreated, Subtract
<1>2. CASE ~ (o \notin handled /\ KnowsAll(items))
  BY <1>2 DEF OnOrderCreated, Effects
<1> QED  BY <1>1, <1>2

LEMMA NoOrderHasItems ==
  ASSUME NEW items \in BoundedSeq(Item, MaxLines)
  PROVE  [items |-> items] # NoOrder
<1>1. [items |-> items].items # NoOrder.items
  BY UnknownAssumption DEF NoOrder
<1> QED  BY <1>1

LEMMA CreateOrderInv ==
  ASSUME IInv, NEW o \in OrderId, NEW items \in BoundedSeq(Item, MaxLines), CreateOrder(o, items)
  PROVE  IInv'
<1> USE DEF IInv
<1>1. /\ orders[o] = NoOrder /\ orders' = [orders EXCEPT ![o] = [items |-> items]]
      /\ OnOrderCreated(o, items)
      /\ pending' = IF KnowsAll(items) THEN pending ELSE pending \cup {o}
  BY DEF CreateOrder
<1>2. [items |-> items] # NoOrder
  BY NoOrderHasItems
<1>3. /\ orders'[o] = [items |-> items] /\ orders'[o].items = items
      /\ \A q \in OrderId : q # o => orders'[q] = orders[q]
  BY <1>1
<1>4. o \notin Saved /\ Saved' = Saved \cup {o}
  BY <1>1, <1>2, <1>3 DEF Saved, NoOrder
<1>5. /\ handled' = IF KnowsAll(items) THEN handled \cup {o} ELSE handled
      /\ \A pair \in oversold' \cup short' : pair[1] \in handled'
  BY <1>1, Handling
<1>6. DOMAIN orders' = OrderId
  BY <1>1
<1>7. handled' \subseteq Saved' /\ pending' = Saved' \ handled'
  BY <1>1, <1>4, <1>5
<1>8. \A q \in pending' : ~ KnowsAll(orders'[q].items)
  BY <1>1, <1>3, <1>4 DEF Saved
<1>9. \A q \in pending' : ~ KnowsAll(orders[q].items)'
  BY <1>8 DEF KnowsAll
<1> QED  BY <1>5, <1>6, <1>7, <1>9

LEMMA RedeliverInv == ASSUME IInv, NEW o \in OrderId, Redeliver(o) PROVE IInv'
<1> USE DEF IInv
<1>1. /\ o \in Saved /\ OnOrderCreated(o, orders[o].items) /\ UNCHANGED <<orders, pending>>
  BY DEF Redeliver, Saved
<1>2. /\ handled' = IF KnowsAll(orders[o].items) THEN handled \cup {o} ELSE handled
      /\ \A pair \in oversold' \cup short' : pair[1] \in handled'
  BY <1>1, Handling
<1>3. Saved' = Saved
  BY <1>1 DEF Saved
<1>4. KnowsAll(orders[o].items) => o \in handled
  BY <1>1
<1>5. \A q \in pending' : ~ KnowsAll(orders[q].items)'
  BY <1>1 DEF KnowsAll
<1> QED  BY <1>1, <1>2, <1>3, <1>4, <1>5

LEMMA StepInv == IInv /\ [Next]_vars => IInv'
<1> SUFFICES ASSUME IInv, [Next]_vars PROVE IInv'
  OBVIOUS
<1>1. CASE UNCHANGED vars
  BY <1>1 DEF vars, IInv, Saved, KnowsAll
<1> QED  BY <1>1, CreateOrderInv, RedeliverInv DEF Next

LEMMA Invariance == Spec => []IInv
  BY InitInv, StepInv, PTL DEF Spec

\* For any orders and any repeated deliveries, the saved orders are those the
\* inventory has handled and those whose event is still in the collection, and
\* the latter have taken nothing (create, publish, handle).
THEOREM NoEventLost == Spec => []FailuresKeepTheirEvent
<1>1. IInv => FailuresKeepTheirEvent
  BY DEF IInv, FailuresKeepTheirEvent
<1> QED  BY <1>1, Invariance, PTL
------------------------------------------------------------------------------
(* Sums.                                                                   *)

LEMMA SubsetInduction ==
  ASSUME NEW S, IsFiniteSet(S), NEW T,
         \A U \in SUBSET S : (\A x \in U : U \ {x} \in T) => U \in T
  PROVE  \A U \in SUBSET S : U \in T
<1> DEFINE Bad == {U \in SUBSET S : U \notin T}
<1> SUFFICES ASSUME Bad # {} PROVE FALSE
  OBVIOUS
<1>1. IsWellFoundedOn(StrictSubsetOrdering(S), SUBSET S)
  <2>1. FiniteSubsetsOf(S) = SUBSET S
    BY FS_FiniteSubsetsOfFinite
  <2>2. IsWellFoundedOn(StrictSubsetOrdering(S), FiniteSubsetsOf(S))
    BY FS_StrictSubsetOrderingWellFounded
  <2> QED  BY <2>1, <2>2
<1>2. PICK U \in Bad : \A V \in Bad : <<V, U>> \notin StrictSubsetOrdering(S)
  <2>1. Bad \subseteq SUBSET S
    OBVIOUS
  <2> HIDE DEF Bad
  <2> QED  BY <1>1, <2>1, WFMin
<1>3. ASSUME NEW x \in U PROVE U \ {x} \in T
  <2>1. <<U \ {x}, U>> \in StrictSubsetOrdering(S)
    BY DEF StrictSubsetOrdering
  <2> QED  BY <1>2, <2>1
<1> QED  BY <1>3

IsSum(g, f, S) == /\ g \in [SUBSET S -> Int] /\ g[{}] = 0
                  /\ \A U \in SUBSET S : \A x \in U : g[U] = f[x] + g[U \ {x}]

LEMMA SumExists ==
  ASSUME NEW S, IsFiniteSet(S), NEW f, \A x \in S : f[x] \in Int
  PROVE  \E g : IsSum(g, f, S)
<1> DEFINE T == {U \in SUBSET S : \E g : IsSum(g, f, U)}
<1>1. ASSUME NEW U \in SUBSET S, \A x \in U : U \ {x} \in T PROVE U \in T
  <2>1. CASE U = {}
    <3>1. IsSum([V \in SUBSET U |-> 0], f, U)
      BY <2>1 DEF IsSum
    <3> QED  BY <3>1
  <2>2. CASE U # {}
    <3>1. PICK a \in U : TRUE
      BY <2>2
    <3>2. PICK g : IsSum(g, f, U \ {a})
      BY <1>1, <3>1
    <3> DEFINE h == [V \in SUBSET U |-> IF a \in V THEN f[a] + g[V \ {a}] ELSE g[V]]
    <3>3. /\ \A V \in SUBSET U : V \ {a} \in SUBSET (U \ {a})
          /\ \A V \in SUBSET U : a \notin V => V \in SUBSET (U \ {a})
      OBVIOUS
    <3>4. f[a] \in Int /\ \A x \in U : f[x] \in Int
      BY <3>1
    <3>5. h \in [SUBSET U -> Int] /\ h[{}] = 0
      BY <3>2, <3>3, <3>4 DEF IsSum
    <3>6. ASSUME NEW V \in SUBSET U, NEW x \in V PROVE h[V] = f[x] + h[V \ {x}]
      <4>1. CASE x = a
        <5>1. a \in V /\ a \notin V \ {a} /\ V \ {a} \in SUBSET U
          BY <4>1
        <5>2. h[V] = f[a] + g[V \ {a}] /\ h[V \ {a}] = g[V \ {a}]
          BY <5>1
        <5> HIDE DEF h
        <5> QED  BY <4>1, <5>2
      <4>2. CASE x # a /\ a \in V
        <5>1. (V \ {a}) \ {x} = (V \ {x}) \ {a} /\ a \in V \ {x} /\ V \ {x} \in SUBSET U
          BY <4>2
        <5>2. PICK rest \in Int : rest = g[(V \ {x}) \ {a}]
          BY <3>2, <3>3, <5>1 DEF IsSum
        <5>3. g[V \ {a}] = f[x] + g[(V \ {a}) \ {x}]
          BY <3>2, <3>3, <4>2 DEF IsSum
        <5>4. g[V \ {a}] = f[x] + rest
          BY <5>1, <5>2, <5>3
        <5>5. h[V] = f[a] + (f[x] + rest) /\ h[V \ {x}] = f[a] + rest
          BY <4>2, <5>1, <5>2, <5>4
        <5>6. f[x] \in Int
          BY <3>4
        <5> HIDE DEF h
        <5> QED  BY <3>4, <5>5, <5>6
      <4>3. CASE a \notin V
        <5>1. g[V] = f[x] + g[V \ {x}]
          BY <3>2, <3>3, <4>3 DEF IsSum
        <5> QED  BY <4>3, <5>1
      <4> QED  BY <4>1, <4>2, <4>3
    <3>7. IsSum(h, f, U)
      <4> HIDE DEF h
      <4> QED  BY <3>5, <3>6 DEF IsSum
    <3> QED  BY <3>7
  <2> QED  BY <2>1, <2>2
<1>2. \A U \in SUBSET S : U \in T
  <2> HIDE DEF T
  <2> QED  BY <1>1, SubsetInduction
<1> QED  BY <1>2

LEMMA FoldIsSum ==
  ASSUME NEW S, IsFiniteSet(S), NEW f, NEW g, IsSum(g, f, S), NEW L \in SUBSET S
  PROVE  SumFunctionOnSet(f, L) = g[L]
<1> DEFINE any(U) == CHOOSE x \in U : TRUE
           Is(h) == h = [U \in SUBSET L |-> IF U = {} THEN 0 ELSE f[any(U)] + h[U \ {any(U)}]]
<1>1. PICK h : h = (CHOOSE k : Is(k)) /\ SumFunctionOnSet(f, L) = h[L]
  BY DEF SumFunctionOnSet, FoldFunctionOnSet, MapThenFoldSet
<1>2. \A U \in SUBSET L : U # {} => any(U) \in U
  OBVIOUS
<1> HIDE DEF any
<1>3. Is([U \in SUBSET L |-> g[U]])
  BY <1>2 DEF IsSum
<1>4. Is(h)
  <2> HIDE DEF Is
  <2> QED  BY <1>1, <1>3
<1>5. IsFiniteSet(L)
  BY FS_Subset
<1> DEFINE T == {U \in SUBSET L : h[U] = g[U]}
<1>6. ASSUME NEW U \in SUBSET L, \A x \in U : U \ {x} \in T PROVE U \in T
  <2>1. h[U] = IF U = {} THEN 0 ELSE f[any(U)] + h[U \ {any(U)}]
    BY <1>4
  <2>2. CASE U = {}
    BY <2>1, <2>2 DEF IsSum
  <2>3. CASE U # {}
    <3>1. any(U) \in U /\ U \in SUBSET S
      BY <1>2, <2>3
    <3>2. h[U \ {any(U)}] = g[U \ {any(U)}]
      BY <1>6, <3>1
    <3>3. g[U] = f[any(U)] + g[U \ {any(U)}]
      BY <3>1 DEF IsSum
    <3> QED  BY <2>1, <2>3, <3>2, <3>3
  <2> QED  BY <2>2, <2>3
<1>7. \A U \in SUBSET L : U \in T
  <2> HIDE DEF T
  <2> QED  BY <1>5, <1>6, SubsetInduction
<1> QED  BY <1>1, <1>7

LEMMA SumIsInt ==
  ASSUME NEW S, IsFiniteSet(S), NEW f, \A x \in S : f[x] \in Int
  PROVE  SumFunctionOnSet(f, S) \in Int
<1>1. PICK g : IsSum(g, f, S)
  BY SumExists
<1>2. SumFunctionOnSet(f, S) = g[S]
  BY <1>1, FoldIsSum
<1> QED  BY <1>1, <1>2 DEF IsSum

LEMMA SumOfNothing == ASSUME NEW f PROVE SumFunctionOnSet(f, {}) = 0
<1>1. IsSum([U \in SUBSET {} |-> 0], f, {})
  BY DEF IsSum
<1>2. IsFiniteSet({})
  BY FS_EmptySet
<1> QED  BY <1>1, <1>2, FoldIsSum

LEMMA SumOfOneMore ==
  ASSUME NEW S, IsFiniteSet(S), NEW x, x \notin S, NEW f, \A y \in S \cup {x} : f[y] \in Int
  PROVE  SumFunctionOnSet(f, S \cup {x}) = f[x] + SumFunctionOnSet(f, S)
<1>1. IsFiniteSet(S \cup {x})
  BY FS_AddElement
<1>2. PICK g : IsSum(g, f, S \cup {x})
  BY <1>1, SumExists
<1>3. SumFunctionOnSet(f, S \cup {x}) = g[S \cup {x}] /\ SumFunctionOnSet(f, S) = g[S]
  BY <1>1, <1>2, FoldIsSum
<1>4. (S \cup {x}) \ {x} = S
  OBVIOUS
<1> QED  BY <1>2, <1>3, <1>4 DEF IsSum

LEMMA SumOfSame ==
  ASSUME NEW S, IsFiniteSet(S), NEW f, NEW e, \A x \in S : f[x] \in Int /\ e[x] = f[x]
  PROVE  SumFunctionOnSet(e, S) = SumFunctionOnSet(f, S)
<1>1. PICK g : IsSum(g, f, S)
  BY SumExists
<1>2. IsSum(g, e, S)
  BY <1>1 DEF IsSum
<1> QED  BY <1>1, <1>2, FoldIsSum

LEMMA SumGrows ==
  ASSUME NEW S, IsFiniteSet(S), NEW f, \A x \in S : f[x] \in Nat, NEW L \in SUBSET S
  PROVE  SumFunctionOnSet(f, L) <= SumFunctionOnSet(f, S)
<1>1. PICK g : IsSum(g, f, S)
  BY SumExists
<1> DEFINE T == {U \in SUBSET (S \ L) : g[L] <= g[L \cup U]}
<1>2. ASSUME NEW U \in SUBSET (S \ L), \A x \in U : U \ {x} \in T PROVE U \in T
  <2>1. CASE U = {}
    <3>1. g[L] \in Int /\ L \cup {} = L
      BY <1>1 DEF IsSum
    <3> QED  BY <2>1, <3>1
  <2>2. CASE U # {}
    <3>1. PICK x \in U : TRUE
      BY <2>2
    <3>2. L \cup U \in SUBSET S /\ x \in L \cup U /\ (L \cup U) \ {x} = L \cup (U \ {x})
      OBVIOUS
    <3>3. PICK i, j, k \in Int : /\ i = g[L] /\ j = g[L \cup (U \ {x})] /\ k = g[L \cup U]
      BY <1>1, <3>2 DEF IsSum
    <3>4. f[x] \in Nat /\ g[L \cup U] = f[x] + g[L \cup (U \ {x})]
      BY <1>1, <3>2 DEF IsSum
    <3>5. i <= j
      BY <1>2, <3>1, <3>3
    <3>6. i <= k
      BY <3>3, <3>4, <3>5
    <3> QED  BY <3>3, <3>6
  <2> QED  BY <2>1, <2>2
<1>3. \A U \in SUBSET (S \ L) : U \in T
  <2>1. IsFiniteSet(S \ L)
    BY FS_Difference
  <2> HIDE DEF T
  <2> QED  BY <1>2, <2>1, SubsetInduction
<1>4. g[L] <= g[S]
  <2>1. L \cup (S \ L) = S
    OBVIOUS
  <2> QED  BY <1>3, <2>1
<1> QED  BY <1>1, <1>4, FoldIsSum

LEMMA SumOfSingle ==
  ASSUME NEW f, NEW x, f[x] \in Int
  PROVE  SumFunctionOnSet(f, {x}) = f[x]
<1>1. SumFunctionOnSet(f, {} \cup {x}) = f[x] + SumFunctionOnSet(f, {})
  BY FS_EmptySet, SumOfOneMore
<1>2. {} \cup {x} = {x}
  OBVIOUS
<1> QED  BY <1>1, <1>2, SumOfNothing

LEMMA LeastNatural ==
  ASSUME NEW T, T \subseteq Nat, T # {}
  PROVE  \E n \in T : \A k \in T : n <= k
<1>1. PICK n \in T : \A k \in T : <<k, n>> \notin OpToRel(<, Nat)
  BY NatLessThanWellFounded, WFMin
<1>2. \A k \in T : ~ (k < n)
  BY <1>1 DEF OpToRel
<1> QED  BY <1>2

LEMMA MaxOfSome ==
  ASSUME NEW n \in Nat, NEW W \in SUBSET (1..n), W # {}
  PROVE  Max(W) \in W /\ \A i \in W : Max(W) >= i
<1> DEFINE T == {U \in SUBSET (1..n) : U # {} => \E m \in U : \A i \in U : m >= i}
<1>1. ASSUME NEW U \in SUBSET (1..n), \A x \in U : U \ {x} \in T PROVE U \in T
  <2> SUFFICES ASSUME U # {} PROVE \E m \in U : \A i \in U : m >= i
    OBVIOUS
  <2>1. PICK x \in U : TRUE
    OBVIOUS
  <2>2. CASE U \ {x} = {}
    BY <2>1, <2>2
  <2>3. CASE U \ {x} # {}
    <3>1. PICK m \in U \ {x} : \A i \in U \ {x} : m >= i
      BY <1>1, <2>1, <2>3
    <3> QED  BY <2>1, <3>1
  <2> QED  BY <2>2, <2>3
<1>2. \A U \in SUBSET (1..n) : U \in T
  <2>1. IsFiniteSet(1..n)
    BY FS_Interval
  <2> HIDE DEF T
  <2> QED  BY <1>1, <2>1, SubsetInduction
<1> QED  BY <1>2 DEF Max
------------------------------------------------------------------------------
(* The lines of an order.                                                  *)

LEMMA ItemFacts ==
  ASSUME NEW items \in Seq(Item), KnowsAll(items)
  PROVE  /\ Len(items) \in Nat /\ DOMAIN items = 1..Len(items)
         /\ \A i \in 1..Len(items) : /\ items[i].product \in Product /\ items[i].quantity \in Nat
                                     /\ Quantities(items)[i] = items[i].quantity
         /\ \A p : Lines(items, p) \in SUBSET (1..Len(items)) /\ IsFiniteSet(Lines(items, p))
<1>1. Len(items) \in Nat /\ DOMAIN items = 1..Len(items) /\ \A i \in 1..Len(items) : items[i] \in Item
  BY LenProperties
<1>2. \A i \in 1..Len(items) : items[i].product \in Product /\ items[i].quantity \in Nat
  BY <1>1, OrderAssumption DEF KnowsAll, Item
<1>3. ASSUME NEW p PROVE Lines(items, p) \in SUBSET (1..Len(items)) /\ IsFiniteSet(Lines(items, p))
  <2>1. \A i \in Lines(items, p) : i \in 1..Len(items)
    BY <1>1 DEF Lines
  <2>2. Lines(items, p) \in SUBSET (1..Len(items))
    BY <2>1
  <2>3. IsFiniteSet(1..Len(items))
    BY <1>1, FS_Interval
  <2> QED  BY <2>2, <2>3, FS_Subset
<1> QED  BY <1>1, <1>2, <1>3 DEF Quantities

LEMMA SubtractTwice ==
  ASSUME NEW s \in Nat, NEW q \in Int, NEW r \in Nat
  PROVE  SubtractStock(SubtractStock(s, q), r) = SubtractStock(s, r + q)
  BY DEF SubtractStock, HasStock

\* The forEach of the handler subtracts, line by line, what subtracting all the
\* units of a product at once would leave.
LEMMA SubtractedAtOnce ==
  ASSUME NEW items \in Seq(Item), KnowsAll(items), NEW st \in [Product -> Nat]
  PROVE  SubtractItems(st, items) = [p \in Product |-> SubtractStock(st[p], Units(items, p))]
<1> DEFINE D == 1..Len(items)
           of(U, p) == {i \in U : items[i].product = p}
           asked(U, p) == SumFunctionOnSet(Quantities(items), of(U, p))
           left(U) == [p \in Product |-> SubtractStock(st[p], asked(U, p))]
           after(s, i) == [s EXCEPT ![items[i].product] =
                             SubtractStock(s[items[i].product], items[i].quantity)]
           Is(h) == h = [U \in SUBSET D |-> IF U = {} THEN st ELSE after(h[U \ {Max(U)}], Max(U))]
<1>1. /\ Len(items) \in Nat /\ DOMAIN items = D /\ IsFiniteSet(D)
      /\ \A i \in D : /\ items[i].product \in Product /\ items[i].quantity \in Nat
                      /\ Quantities(items)[i] = items[i].quantity
  BY ItemFacts, FS_Interval
<1>2. PICK h : h = (CHOOSE k : Is(k)) /\ SubtractItems(st, items) = h[D]
  BY <1>1 DEF SubtractItems, FoldLeft, MapThenFoldSet
<1>3. ASSUME NEW U \in SUBSET D, U # {} PROVE Max(U) \in U
  BY <1>1, <1>3, MaxOfSome
<1>4. left({}) = st
  <2>1. \A p \in Product : asked({}, p) = 0
    <3>1. \A p : of({}, p) = {}
      OBVIOUS
    <3> QED  BY <3>1, SumOfNothing
  <2> HIDE DEF asked
  <2> QED  BY <2>1 DEF SubtractStock, HasStock
<1>5. ASSUME NEW U \in SUBSET D, NEW m \in U PROVE left(U) = after(left(U \ {m}), m)
  <2>1. m \in D /\ items[m].product \in Product /\ items[m].quantity \in Nat
    BY <1>1
  <2>2. ASSUME NEW p \in Product
        PROVE  left(U)[p] = IF p = items[m].product THEN SubtractStock(left(U \ {m})[p], items[m].quantity)
                            ELSE left(U \ {m})[p]
    <3>1. CASE p = items[m].product
      <4>1. of(U, p) = of(U \ {m}, p) \cup {m} /\ m \notin of(U \ {m}, p)
        BY <3>1
      <4>2. IsFiniteSet(of(U \ {m}, p)) /\ of(U, p) \in SUBSET D
        BY <1>1, FS_Subset
      <4>3. \A i \in of(U \ {m}, p) \cup {m} : Quantities(items)[i] \in Int
        BY <1>1, <4>1, <4>2
      <4>4. asked(U \ {m}, p) \in Int
        BY <4>2, <4>3, SumIsInt
      <4>5. asked(U, p) = items[m].quantity + asked(U \ {m}, p)
        <5> HIDE DEF of
        <5>1. SumFunctionOnSet(Quantities(items), of(U \ {m}, p) \cup {m})
                = Quantities(items)[m] + SumFunctionOnSet(Quantities(items), of(U \ {m}, p))
          BY <4>1, <4>2, <4>3, SumOfOneMore
        <5> QED  BY <1>1, <2>1, <4>1, <5>1
      <4> HIDE DEF asked
      <4>6. SubtractStock(st[p], asked(U, p))
              = SubtractStock(SubtractStock(st[p], asked(U \ {m}, p)), items[m].quantity)
        BY <2>1, <4>4, <4>5, SubtractTwice
      <4> QED  BY <3>1, <4>6
    <3>2. CASE p # items[m].product
      <4>1. of(U, p) = of(U \ {m}, p)
        BY <3>2
      <4> QED  BY <3>2, <4>1
    <3> QED  BY <3>1, <3>2
  <2> HIDE DEF left
  <2>3. left(U) = [p \in Product |-> left(U)[p]] /\ DOMAIN left(U \ {m}) = Product
    BY DEF left
  <2>4. after(left(U \ {m}), m)
          = [p \in Product |-> IF p = items[m].product
                               THEN SubtractStock(left(U \ {m})[p], items[m].quantity)
                               ELSE left(U \ {m})[p]]
    BY <2>1, <2>3
  <2> QED  BY <2>2, <2>3, <2>4
<1> HIDE DEF left, after
<1>6. Is([U \in SUBSET D |-> left(U)])
  BY <1>3, <1>4, <1>5
<1>7. Is(h)
  <2> HIDE DEF Is
  <2> QED  BY <1>2, <1>6
<1>8. \A U \in SUBSET D : h[U] = IF U = {} THEN st ELSE after(h[U \ {Max(U)}], Max(U))
  BY <1>7
<1>9. \A U \in SUBSET D : h[U] = left(U)
  <2> DEFINE T == {U \in SUBSET D : h[U] = left(U)}
  <2> HIDE DEF D, Is
  <2>1. ASSUME NEW U \in SUBSET D, \A x \in U : U \ {x} \in T PROVE h[U] = left(U)
    <3>1. CASE U = {}
      BY <1>4, <1>8, <3>1
    <3>2. CASE U # {}
      <4>1. PICK m \in U : m = Max(U)
        BY <1>3, <3>2
      <4>2. h[U] = after(h[U \ {m}], m)
        BY <1>8, <3>2, <4>1
      <4>3. h[U \ {m}] = left(U \ {m})
        BY <2>1
      <4>4. left(U) = after(left(U \ {m}), m)
        BY <1>5
      <4> QED  BY <4>2, <4>3, <4>4
    <3> QED  BY <3>1, <3>2
  <2>2. \A U \in SUBSET D : (\A x \in U : U \ {x} \in T) => U \in T
    BY <2>1
  <2>3. IsFiniteSet(D)
    BY <1>1
  <2>4. \A U \in SUBSET D : U \in T
    <3> HIDE DEF T
    <3> QED  BY <2>2, <2>3, SubsetInduction
  <2> QED  BY <2>4
<1>10. h[D] = left(D)
  BY <1>9
<1>11. \A p : of(D, p) = Lines(items, p)
  BY <1>1 DEF Lines
<1> QED  BY <1>2, <1>10, <1>11 DEF left, Units

\* A product is short when an order asks for more units of it than there are.
LEMMA ShortIs ==
  ASSUME NEW items \in Seq(Item), KnowsAll(items), stock \in [Product -> Nat], NEW p \in Product
  PROVE  p \in ShortProducts(items) <=> stock[p] < Units(items, p)
<1> DEFINE n == Len(items)
           Q == Quantities(items)
           of(k) == {i \in 1..k : items[i].product = p}
           asked(k) == SumFunctionOnSet(Q, of(k))
<1>1. /\ n \in Nat /\ DOMAIN items = 1..n
      /\ \A i \in 1..n : items[i].product \in Product /\ items[i].quantity \in Nat /\ Q[i] = items[i].quantity
  BY ItemFacts
<1>2. ASSUME NEW k \in 0..n
      PROVE  of(k) \in SUBSET (1..n) /\ IsFiniteSet(of(k)) /\ asked(k) \in Int
  <2>1. of(k) \in SUBSET (1..n) /\ IsFiniteSet(1..n)
    BY <1>1, FS_Interval
  <2>2. IsFiniteSet(of(k))
    BY <2>1, FS_Subset
  <2>3. \A i \in of(k) : Q[i] \in Int
    BY <1>1, <2>1
  <2> HIDE DEF of, Q
  <2> QED  BY <2>1, <2>2, <2>3, SumIsInt
<1>3. asked(0) = 0
  <2>1. of(0) = {}
    OBVIOUS
  <2> QED  BY <2>1, SumOfNothing
<1>4. ASSUME NEW k \in 1..n
      PROVE  asked(k) = IF items[k].product = p THEN items[k].quantity + asked(k - 1) ELSE asked(k - 1)
  <2>1. k - 1 \in 0..n /\ k \in 0..n
    BY <1>1
  <2>2. CASE items[k].product = p
    <3>1. of(k) = of(k - 1) \cup {k} /\ k \notin of(k - 1)
      BY <1>1, <2>2
    <3>2. \A i \in of(k - 1) \cup {k} : Q[i] \in Int
      BY <1>1, <3>1
    <3>3. IsFiniteSet(of(k - 1))
      BY <1>2, <2>1
    <3> HIDE DEF of, Q
    <3>4. SumFunctionOnSet(Q, of(k - 1) \cup {k}) = Q[k] + SumFunctionOnSet(Q, of(k - 1))
      BY <3>1, <3>2, <3>3, SumOfOneMore
    <3> QED  BY <1>1, <2>2, <3>1, <3>4
  <2>3. CASE items[k].product # p
    <3>1. of(k) = of(k - 1)
      BY <1>1, <2>3
    <3> QED  BY <2>3, <3>1
  <2> QED  BY <2>2, <2>3
<1>5. asked(n) = Units(items, p)
  <2>1. of(n) = Lines(items, p)
    BY <1>1 DEF Lines
  <2> QED  BY <2>1 DEF Units
<1>6. ASSUME NEW j \in 1..n
      PROVE  SubtractItems(stock, SubSeq(items, 1, j - 1))[p] = SubtractStock(stock[p], asked(j - 1))
  <2> DEFINE r == SubSeq(items, 1, j - 1)
  <2>1. j - 1 \in 0..n /\ 1 \in Int /\ j - 1 \in Int
    BY <1>1
  <2>2. \A i \in 1..(j - 1) : items[i] \in Item
    BY <1>1, ElementOfSeq
  <2>3. r \in Seq(Item) /\ Len(r) = j - 1 /\ \A i \in 1..(j - 1) : r[i] = items[i]
    BY <1>1, <2>1, <2>2, SubSeqProperties
  <2>4. DOMAIN r = 1..(j - 1)
    BY <2>3, LenProperties
  <2> HIDE DEF r
  <2>5. KnowsAll(r)
    BY <1>1, <2>1, <2>3, <2>4 DEF KnowsAll
  <2>6. SubtractItems(stock, r)[p] = SubtractStock(stock[p], Units(r, p))
    BY <2>3, <2>5, SubtractedAtOnce
  <2>7. Lines(r, p) = of(j - 1)
    BY <2>3, <2>4 DEF Lines
  <2>8. \A i \in of(j - 1) : Q[i] \in Int /\ Quantities(r)[i] = Q[i]
    BY <1>1, <2>1, <2>3, <2>4 DEF Quantities
  <2>9. IsFiniteSet(of(j - 1))
    BY <1>2, <2>1
  <2>10. Units(r, p) = asked(j - 1)
    <3> HIDE DEF of, Q
    <3> QED  BY <2>7, <2>8, <2>9, SumOfSame DEF Units
  <2> QED  BY <2>6, <2>10 DEF r
<1> HIDE DEF asked
<1>7. ASSUME p \in ShortProducts(items) PROVE stock[p] < Units(items, p)
  <2>1. PICK j \in 1..n : /\ items[j].product = p
                          /\ ~ HasStock(SubtractStock(stock[p], asked(j - 1)), items[j].quantity)
    BY <1>1, <1>6, <1>7 DEF ShortProducts
  <2>2. /\ j - 1 \in 0..n /\ j \in 0..n /\ n \in 0..n
        /\ asked(j - 1) \in Int /\ asked(j) \in Int /\ asked(n) \in Int
    <3>1. j - 1 \in 0..n /\ j \in 0..n /\ n \in 0..n
      BY <1>1
    <3> QED  BY <1>2, <3>1
  <2>3. stock[p] < asked(j)
    <3>1. stock[p] \in Nat /\ items[j].quantity \in Nat
          /\ asked(j) = items[j].quantity + asked(j - 1)
      BY <1>1, <1>4, <2>1
    <3> QED  BY <2>1, <2>2, <3>1 DEF HasStock, SubtractStock
  <2>4. asked(j) <= asked(n)
    <3>1. of(j) \in SUBSET of(n) /\ IsFiniteSet(of(n))
      BY <1>1, <1>2, <2>2
    <3>2. \A i \in of(n) : Q[i] \in Nat
      BY <1>1
    <3> HIDE DEF of, Q
    <3> QED  BY <3>1, <3>2, SumGrows DEF asked
  <2> QED  BY <1>5, <2>2, <2>3, <2>4
<1>8. ASSUME stock[p] < Units(items, p) PROVE p \in ShortProducts(items)
  <2> DEFINE More == {k \in 0..n : stock[p] < asked(k)}
  <2>1. n \in More /\ More \subseteq Nat
    BY <1>1, <1>5, <1>8
  <2>2. PICK j \in More : \A k \in More : j <= k
    <3> HIDE DEF More
    <3> QED  BY <2>1, LeastNatural
  <2>3. j # 0
    BY <1>3, <2>2
  <2>4. j \in 1..n /\ j - 1 \in 0..n /\ asked(j - 1) \in Int /\ asked(j) \in Int
    <3>1. j \in 1..n /\ j - 1 \in 0..n /\ j \in 0..n
      BY <1>1, <2>2, <2>3
    <3> QED  BY <1>2, <3>1
  <2>5. ~ (stock[p] < asked(j - 1)) /\ stock[p] < asked(j)
    BY <2>2, <2>4
  <2>6. items[j].product = p /\ asked(j) = items[j].quantity + asked(j - 1)
    BY <1>4, <2>4, <2>5
  <2>7. ~ HasStock(SubtractStock(stock[p], asked(j - 1)), items[j].quantity)
    <3>1. stock[p] \in Nat /\ items[j].quantity \in Nat
      BY <1>1, <2>4
    <3> QED  BY <2>4, <2>5, <2>6, <3>1 DEF HasStock, SubtractStock
  <2> QED  BY <1>1, <1>6, <2>4, <2>6, <2>7 DEF ShortProducts
<1> QED  BY <1>7, <1>8

\* What the check before the first line reports and misses.
LEMMA OversoldIs ==
  ASSUME NEW items \in Seq(Item), KnowsAll(items), stock \in [Product -> Nat]
  PROVE  /\ OversoldProducts(items) \subseteq ShortProducts(items)
         /\ ShortProducts(items) \subseteq Product
         /\ \A p \in ShortProducts(items) \ OversoldProducts(items) :
              \E i, j \in Lines(items, p) : i # j
<1> DEFINE n == Len(items)
           Q == Quantities(items)
<1>1. /\ n \in Nat /\ DOMAIN items = 1..n
      /\ \A i \in 1..n : items[i].product \in Product /\ items[i].quantity \in Nat /\ Q[i] = items[i].quantity
      /\ \A p : Lines(items, p) \in SUBSET (1..n) /\ IsFiniteSet(Lines(items, p))
  BY ItemFacts
<1>2. ShortProducts(items) \subseteq Product
  BY <1>1 DEF ShortProducts
<1>3. ASSUME NEW p \in OversoldProducts(items) PROVE p \in ShortProducts(items)
  <2>1. PICK j \in 1..n : items[j].product = p /\ ~ HasStock(stock[p], items[j].quantity)
    BY <1>1, <1>3 DEF OversoldProducts
  <2>2. {j} \in SUBSET Lines(items, p) /\ \A i \in Lines(items, p) : Q[i] \in Nat
    BY <1>1, <2>1 DEF Lines
  <2>3. SumFunctionOnSet(Q, {j}) <= Units(items, p)
    <3> HIDE DEF Q
    <3>1. SumFunctionOnSet(Q, {j}) <= SumFunctionOnSet(Q, Lines(items, p))
      BY <1>1, <2>2, SumGrows
    <3> QED  BY <3>1 DEF Units, Q
  <2>4. SumFunctionOnSet(Q, {j}) = items[j].quantity
    <3>1. Q[j] \in Int /\ Q[j] = items[j].quantity
      BY <1>1
    <3> HIDE DEF Q
    <3> QED  BY <3>1, SumOfSingle
  <2>5. Units(items, p) \in Int
    <3>1. \A i \in Lines(items, p) : Q[i] \in Int
      BY <2>2
    <3> QED  BY <1>1, <3>1, SumIsInt DEF Units
  <2>6. p \in Product /\ stock[p] \in Nat /\ items[j].quantity \in Nat
    BY <1>1, <2>1
  <2>7. stock[p] < Units(items, p)
    BY <2>1, <2>3, <2>4, <2>5, <2>6 DEF HasStock
  <2> QED  BY <2>6, <2>7, ShortIs
<1>4. ASSUME NEW p \in ShortProducts(items), p \notin OversoldProducts(items),
             \A i, j \in Lines(items, p) : i = j
      PROVE  FALSE
  <2>1. p \in Product /\ stock[p] \in Nat /\ stock[p] < Units(items, p)
    BY <1>2, <1>4, ShortIs
  <2>2. CASE Lines(items, p) = {}
    BY <2>1, <2>2, SumOfNothing DEF Units
  <2>3. CASE Lines(items, p) # {}
    <3>1. PICK j \in Lines(items, p) : TRUE
      BY <2>3
    <3>2. Lines(items, p) = {j}
      BY <1>4, <3>1
    <3>3. j \in 1..n /\ items[j].product = p /\ items[j].quantity \in Nat /\ Q[j] = items[j].quantity
      BY <1>1, <3>1 DEF Lines
    <3>4. Units(items, p) = items[j].quantity
      <4>1. SumFunctionOnSet(Q, {j}) = Q[j]
        <5>1. Q[j] \in Int
          BY <3>3
        <5> HIDE DEF Q
        <5> QED  BY <5>1, SumOfSingle
      <4> QED  BY <3>2, <3>3, <4>1 DEF Units
    <3>5. ~ HasStock(stock[p], items[j].quantity)
      BY <2>1, <3>3, <3>4 DEF HasStock
    <3> QED  BY <1>1, <1>4, <3>3, <3>5 DEF OversoldProducts
  <2> QED  BY <2>2, <2>3
<1> QED  BY <1>2, <1>3, <1>4
------------------------------------------------------------------------------
(* The books of the inventory.                                             *)

BooksInv == /\ TypeOK /\ StockBooks /\ ShortageReported
            /\ IsFiniteSet(handled)
            /\ \A o \in handled : KnowsAll(orders[o].items)

LEMMA UnitsType ==
  ASSUME NEW items \in Seq(Item), KnowsAll(items), NEW p
  PROVE  Units(items, p) \in Nat
<1> DEFINE Q == Quantities(items)
           L == Lines(items, p)
<1>1. IsFiniteSet(L) /\ \A i \in L : Q[i] \in Nat
  BY ItemFacts
<1> HIDE DEF Q, L
<1>2. SumFunctionOnSet(Q, L) \in Int
  BY <1>1, SumIsInt
<1>3. SumFunctionOnSet(Q, {}) <= SumFunctionOnSet(Q, L)
  BY <1>1, SumGrows
<1> QED  BY <1>2, <1>3, SumOfNothing DEF Units, Q, L

LEMMA OrderIsSeq == BoundedSeq(Item, MaxLines) \subseteq Seq(Item)
  BY SeqDef, OrderAssumption DEF BoundedSeq, SeqOf

LEMMA SoldSame ==
  ASSUME handled' = handled, \A o \in handled : orders'[o].items = orders[o].items, NEW p
  PROVE  Sold(p)' = Sold(p)
  BY DEF Sold

LEMMA SoldMore ==
  ASSUME IsFiniteSet(handled), NEW o, o \notin handled, handled' = handled \cup {o}, NEW p,
         \A q \in handled : orders'[q].items = orders[q].items /\ Units(orders[q].items, p) \in Int,
         Units(orders'[o].items, p) \in Int
  PROVE  Sold(p)' = Units(orders'[o].items, p) + Sold(p)
<1> DEFINE f == [q \in handled |-> Units(orders[q].items, p)]
           h == [q \in handled \cup {o} |-> Units(orders'[q].items, p)]
<1>1. \A q \in handled \cup {o} : h[q] \in Int
  OBVIOUS
<1>2. \A q \in handled : f[q] \in Int /\ h[q] = f[q]
  OBVIOUS
<1>3. Sold(p) = SumFunctionOnSet(f, handled) /\ Sold(p)' = SumFunctionOnSet(h, handled \cup {o})
  BY DEF Sold, SumFunction
<1>4. h[o] = Units(orders'[o].items, p)
  OBVIOUS
<1> HIDE DEF f, h
<1>5. SumFunctionOnSet(h, handled \cup {o}) = h[o] + SumFunctionOnSet(h, handled)
  BY <1>1, SumOfOneMore
<1>6. SumFunctionOnSet(h, handled) = SumFunctionOnSet(f, handled)
  BY <1>2, SumOfSame
<1> QED  BY <1>3, <1>4, <1>5, <1>6

LEMMA InitBooks == Init => BooksInv
<1> SUFFICES ASSUME Init PROVE BooksInv
  OBVIOUS
<1>1. Saved = {} /\ handled = {} /\ oversold = {} /\ short = {} /\ pending = {}
  BY DEF Init, Saved
<1>2. stock \in [Product -> 0..InitialStock] /\ \A p \in Product : stock[p] = InitialStock
  BY OrderAssumption DEF Init
<1>3. ASSUME NEW p PROVE Sold(p) = 0
  <2>1. Sold(p) = SumFunctionOnSet([o \in {} |-> Units(orders[o].items, p)], {})
    BY <1>1 DEF Sold, SumFunction
  <2> QED  BY <2>1, SumOfNothing
<1>4. IsFiniteSet(handled)
  BY <1>1, FS_EmptySet
<1>5. StockBooks
  BY <1>1, <1>2, <1>3, OrderAssumption DEF StockBooks
<1> QED  BY <1>1, <1>2, <1>4, <1>5 DEF BooksInv, TypeOK, ShortageReported

\* Steps after which no order is newly handled.
LEMMA NothingHandled ==
  ASSUME IInv, BooksInv, UNCHANGED Effects, \A o \in Saved : orders'[o] = orders[o],
         \A o \in Saved' : orders'[o].items \in BoundedSeq(Item, MaxLines),
         Saved \subseteq Saved', pending' \subseteq Saved'
  PROVE  BooksInv'
<1> USE DEF IInv, BooksInv
<1>1. UNCHANGED <<stock, handled, oversold, short>>
  BY DEF Effects
<1>2. TypeOK'
  BY <1>1 DEF TypeOK
<1>3. StockBooks'
  <2>1. \A p \in Product : Sold(p)' = Sold(p)
    BY <1>1, SoldSame
  <2> QED  BY <1>1, <2>1 DEF StockBooks
<1>4. ShortageReported'
  <2>1. \A pair \in short : orders'[pair[1]] = orders[pair[1]]
    OBVIOUS
  <2>2. ASSUME NEW pair \in short', pair \notin oversold'
        PROVE  \E i, j \in Lines(orders'[pair[1]].items, pair[2]) : i # j
    BY <1>1, <2>1, <2>2 DEF ShortageReported
  <2> QED  BY <1>1, <2>2 DEF ShortageReported
<1>5. \A o \in handled' : KnowsAll(orders'[o].items)
  BY <1>1
<1> QED  BY <1>1, <1>2, <1>3, <1>4, <1>5

\* The first delivery of an order of known products.
LEMMA SubtractBooks ==
  ASSUME IInv, BooksInv, NEW o \in OrderId, o \notin Saved,
         NEW items \in BoundedSeq(Item, MaxLines), KnowsAll(items), Subtract(o, items),
         orders'[o].items = items, \A q \in Saved : orders'[q] = orders[q],
         Saved' = Saved \cup {o}, UNCHANGED pending
  PROVE  BooksInv'
<1> USE DEF IInv, BooksInv
<1>1. /\ stock' = SubtractItems(stock, items) /\ handled' = handled \cup {o}
      /\ oversold' = oversold \cup ({o} \X OversoldProducts(items))
      /\ short' = short \cup ({o} \X ShortProducts(items))
  BY DEF Subtract
<1>2. items \in Seq(Item) /\ \A q \in handled : orders[q].items \in Seq(Item)
  BY OrderIsSeq DEF TypeOK
<1>3. stock \in [Product -> Nat] /\ \A p \in Product : stock[p] \in 0..InitialStock
  BY OrderAssumption DEF TypeOK
<1>4. /\ \A p \in Product : Units(items, p) \in Nat
      /\ \A q \in handled, p \in Product : Units(orders[q].items, p) \in Nat
  BY <1>2, UnitsType
<1>5. /\ DOMAIN stock' = Product /\ stock' = [p \in Product |-> stock'[p]]
      /\ \A p \in Product : stock'[p] = SubtractStock(stock[p], Units(items, p))
  <2>1. stock' = [p \in Product |-> SubtractStock(stock[p], Units(items, p))]
    BY <1>1, <1>2, <1>3, SubtractedAtOnce
  <2> QED  BY <2>1
<1>6. /\ \A p \in Product : p \in ShortProducts(items) <=> stock[p] < Units(items, p)
      /\ OversoldProducts(items) \subseteq ShortProducts(items) /\ ShortProducts(items) \subseteq Product
      /\ \A p \in ShortProducts(items) \ OversoldProducts(items) : \E i, j \in Lines(items, p) : i # j
  BY <1>2, <1>3, ShortIs, OversoldIs
<1>7. TypeOK'
  <2>1. \A p \in Product : stock'[p] \in 0..InitialStock
    BY <1>3, <1>4, <1>5, OrderAssumption DEF SubtractStock, HasStock
  <2>2. stock' \in [Product -> 0..InitialStock]
    BY <1>5, <2>1
  <2>3. \A q \in Saved' : orders'[q].items \in BoundedSeq(Item, MaxLines)
    BY DEF TypeOK
  <2>4. pending' \cup handled' \subseteq Saved'
    BY <1>1 DEF TypeOK
  <2>5. oversold' \cup short' \subseteq OrderId \X Product
    BY <1>1, <1>6 DEF TypeOK
  <2> QED  BY <2>2, <2>3, <2>4, <2>5 DEF TypeOK
<1>8. StockBooks'
  <2> SUFFICES ASSUME NEW p \in Product
               PROVE  stock'[p] = IF \E q \in handled' : <<q, p>> \in short' THEN 0
                                  ELSE InitialStock - Sold(p)'
    BY DEF StockBooks
  <2> DEFINE before == \E q \in handled : <<q, p>> \in short
             after == \E q \in handled' : <<q, p>> \in short'
  <2>1. after <=> before \/ p \in ShortProducts(items)
    <3>1. ASSUME NEW q \in handled', <<q, p>> \in short' PROVE before \/ p \in ShortProducts(items)
      BY <1>1, <3>1
    <3> QED  BY <1>1, <3>1
  <2>2. Sold(p)' = Units(items, p) + Sold(p)
    BY <1>1, <1>4, SoldMore
  <2>3. /\ stock[p] \in Nat /\ Units(items, p) \in Nat /\ InitialStock \in Nat
        /\ stock'[p] = SubtractStock(stock[p], Units(items, p))
        /\ p \in ShortProducts(items) <=> stock[p] < Units(items, p)
    BY <1>3, <1>4, <1>5, <1>6, OrderAssumption
  <2>4. stock[p] = IF before THEN 0 ELSE InitialStock - Sold(p)
    BY DEF StockBooks
  <2>5. Sold(p) \in Int
    <3> DEFINE f == [q \in handled |-> Units(orders[q].items, p)]
    <3>1. \A q \in handled : f[q] \in Int
      BY <1>4
    <3>2. Sold(p) = SumFunctionOnSet(f, handled)
      BY DEF Sold, SumFunction
    <3> HIDE DEF f
    <3> QED  BY <3>1, <3>2, SumIsInt
  <2> HIDE DEF before, after
  <2>6. CASE before
    BY <2>1, <2>3, <2>4, <2>6 DEF SubtractStock, HasStock, after
  <2>7. CASE ~ before /\ stock[p] < Units(items, p)
    BY <2>1, <2>3, <2>7 DEF SubtractStock, HasStock, after
  <2>8. CASE ~ before /\ ~ (stock[p] < Units(items, p))
    <3>1. stock'[p] = stock[p] - Units(items, p)
      BY <2>3, <2>8 DEF SubtractStock, HasStock
    <3>2. stock'[p] = InitialStock - Sold(p)'
      BY <2>2, <2>3, <2>4, <2>5, <2>8, <3>1
    <3> QED  BY <2>1, <2>3, <2>8, <3>2 DEF after
  <2> QED  BY <2>6, <2>7, <2>8
<1>9. ShortageReported'
  <2>1. oversold' \subseteq short'
    BY <1>1, <1>6 DEF ShortageReported
  <2>2. ASSUME NEW pair \in short', pair \notin oversold'
        PROVE  \E i, j \in Lines(orders'[pair[1]].items, pair[2]) : i # j
    <3>1. CASE pair \in short
      <4>1. orders'[pair[1]] = orders[pair[1]]
        BY <3>1
      <4> QED  BY <1>1, <2>2, <3>1, <4>1 DEF ShortageReported
    <3>2. CASE pair \in {o} \X ShortProducts(items)
      <4>1. pair = <<o, pair[2]>> /\ pair[2] \in ShortProducts(items) \ OversoldProducts(items)
        BY <1>1, <2>2, <3>2
      <4> QED  BY <1>6, <4>1
    <3> QED  BY <1>1, <3>1, <3>2
  <2> QED  BY <2>1, <2>2 DEF ShortageReported
<1>10. IsFiniteSet(handled') /\ \A q \in handled' : KnowsAll(orders'[q].items)
  <2>1. IsFiniteSet(handled')
    BY <1>1, FS_AddElement
  <2> QED  BY <1>1, <2>1
<1> QED  BY <1>7, <1>8, <1>9, <1>10

LEMMA CreateOrderBooks ==
  ASSUME IInv, BooksInv, NEW o \in OrderId, NEW items \in BoundedSeq(Item, MaxLines),
         CreateOrder(o, items)
  PROVE  BooksInv'
<1>1. /\ orders[o] = NoOrder /\ orders' = [orders EXCEPT ![o] = [items |-> items]]
      /\ OnOrderCreated(o, items)
      /\ pending' = IF KnowsAll(items) THEN pending ELSE pending \cup {o}
  BY DEF CreateOrder
<1>2. /\ orders'[o] = [items |-> items] /\ orders'[o].items = items
      /\ \A q \in OrderId : q # o => orders'[q] = orders[q]
  BY <1>1 DEF IInv
<1>3. o \notin Saved /\ Saved' = Saved \cup {o}
  BY <1>1, <1>2, NoOrderHasItems DEF Saved, NoOrder
<1>4. \A q \in Saved : orders'[q] = orders[q]
  BY <1>2, <1>3 DEF Saved
<1>5. CASE KnowsAll(items)
  <2>1. Subtract(o, items) /\ UNCHANGED pending
    BY <1>1, <1>3, <1>5 DEF OnOrderCreated, IInv
  <2> QED  BY <1>2, <1>3, <1>4, <1>5, <2>1, SubtractBooks
<1>6. CASE ~ KnowsAll(items)
  <2>1. UNCHANGED Effects /\ pending' = pending \cup {o}
    BY <1>1, <1>6 DEF OnOrderCreated
  <2>2. \A q \in Saved' : orders'[q].items \in BoundedSeq(Item, MaxLines)
    BY <1>2, <1>3, <1>4 DEF BooksInv, TypeOK
  <2>3. pending' \subseteq Saved'
    BY <1>3, <2>1 DEF IInv
  <2> QED  BY <1>3, <1>4, <2>1, <2>2, <2>3, NothingHandled
<1> QED  BY <1>5, <1>6

\* Who is delivered again was handled, or throws again.
LEMMA RedeliverBooks == ASSUME IInv, BooksInv, NEW o \in OrderId, Redeliver(o) PROVE BooksInv'
<1>1. /\ o \in Saved /\ OnOrderCreated(o, orders[o].items) /\ UNCHANGED <<orders, pending>>
  BY DEF Redeliver, Saved
<1>2. o \in handled \/ ~ KnowsAll(orders[o].items)
  BY <1>1 DEF IInv
<1>3. UNCHANGED Effects
  BY <1>1, <1>2 DEF OnOrderCreated
<1>4. Saved' = Saved
  BY <1>1 DEF Saved
<1>5. \A q \in Saved' : orders'[q].items \in BoundedSeq(Item, MaxLines)
  BY <1>1, <1>4 DEF BooksInv, TypeOK
<1> QED  BY <1>1, <1>3, <1>4, <1>5, NothingHandled DEF IInv

LEMMA StepBooks == IInv /\ BooksInv /\ [Next]_vars => BooksInv'
<1> SUFFICES ASSUME IInv, BooksInv, [Next]_vars PROVE BooksInv'
  OBVIOUS
<1>1. CASE UNCHANGED vars
  <2>1. UNCHANGED Effects /\ UNCHANGED <<orders, pending>> /\ Saved' = Saved
    BY <1>1 DEF vars, Effects, Saved
  <2>2. \A q \in Saved' : orders'[q].items \in BoundedSeq(Item, MaxLines)
    BY <2>1 DEF BooksInv, TypeOK
  <2> QED  BY <2>1, <2>2, NothingHandled DEF IInv
<1> QED  BY <1>1, CreateOrderBooks, RedeliverBooks DEF Next

LEMMA BooksInvariance == Spec => []BooksInv
  BY Invariance, InitBooks, StepBooks, PTL DEF Spec

\* For any orders and limits, no stock is sold below zero and no event names an
\* order that was never saved or a product that does not exist (subtractStock,
\* create, handle).
THEOREM TypeCorrect == Spec => []TypeOK
<1>1. BooksInv => TypeOK
  BY DEF BooksInv
<1> QED  BY <1>1, BooksInvariance, PTL

\* For any orders and any repeated deliveries, the stock of a product is exactly
\* what the handled orders left of it, each counted once, and nothing once an
\* order got less than it asked for (handle, subtractStock).
THEOREM BooksBalance == Spec => []StockBooks
<1>1. BooksInv => StockBooks
  BY DEF BooksInv
<1> QED  BY <1>1, BooksInvariance, PTL

\* For any orders, only products an order was not fully served with are reported
\* as oversold, and one that is not reported is named in several lines of its
\* order (handle).
THEOREM OversoldReported == Spec => []ShortageReported
<1>1. BooksInv => ShortageReported
  BY DEF BooksInv
<1> QED  BY <1>1, BooksInvariance, PTL
==============================================================================
