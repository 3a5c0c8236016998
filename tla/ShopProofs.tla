----------------------------- MODULE ShopProofs ------------------------------
(***************************************************************************)
(* Proofs about Shop, for any products, purchases, pages, stock and        *)
(* amounts.                                                                *)
(*                                                                         *)
(* The books are not inductive alone: a commit writes what its transaction *)
(* read some time before.  The invariant says what a transaction in        *)
(* progress has in memory, how that compares with what was sold since, and *)
(* that it is the committed stock as long as no two purchases of a product *)
(* met.                                                                    *)
(***************************************************************************)
EXTENDS Shop, SequenceTheorems, FiniteSetTheorems, TLAPS

Shapes == /\ stock \in [Product -> Int] /\ sold \in [Product -> Int]
          /\ pc \in [Purchase -> {"idle", "reading", "telling", "committing"} \cup Ended]
          /\ DOMAIN cart = Purchase /\ DOMAIN entity = Purchase
          /\ met \subseteq Product

Busy == {"reading", "telling", "committing"}

\* The cart of a transaction, and the products it has in memory.
CartOK(b) ==
  /\ pc[b] \in Busy => /\ DOMAIN cart[b] \subseteq Product
                       /\ \A x \in DOMAIN cart[b] : cart[b][x] \in Nat
  /\ pc[b] = "idle" => DOMAIN entity[b] = {}
  /\ pc[b] = "reading" => DOMAIN entity[b] \subseteq DOMAIN cart[b]
  /\ pc[b] \in {"telling", "committing"} => DOMAIN entity[b] = DOMAIN cart[b]

\* v units in memory, of which m were not sold yet when they were read.
Supported(x, v, m) == /\ v \in Int /\ 0 <= v
                      /\ InitialStock - v <= sold[x] + m
                      /\ x \notin met => v = stock[x] - m

ReadOK(b) == pc[b] = "reading" => \A x \in DOMAIN entity[b] : Supported(x, entity[b][x], 0)

SubtractedOK(b) ==
  pc[b] \in {"telling", "committing"} =>
    \A x \in DOMAIN entity[b] : Supported(x, entity[b][x], cart[b][x])

IInv == Shapes /\ Books /\ \A b \in Purchase : CartOK(b) /\ ReadOK(b) /\ SubtractedOK(b)

LEMMA InitInv == Init => IInv
<1> SUFFICES ASSUME Init PROVE IInv
  OBVIOUS
<1>1. Shapes
  BY ShopAssumption DEF Init, Shapes
<1>2. Books
  BY ShopAssumption DEF Init, Books
<1>3. \A b \in Purchase : pc[b] = "idle" /\ DOMAIN entity[b] = {}
  <2>1. DOMAIN <<>> = {}
    BY EmptySeq
  <2> QED  BY <2>1 DEF Init
<1> QED  BY <1>1, <1>2, <1>3 DEF IInv, CartOK, ReadOK, SubtractedOK, Busy

\* The steps that touch neither the stock nor a transaction.
LEMMA OtherInv ==
  ASSUME IInv, UNCHANGED <<stock, sold, met, cart, entity>>,
         pc' \in [Purchase -> {"idle", "reading", "telling", "committing"} \cup Ended],
         \A b \in Purchase : pc'[b] # pc[b] => pc[b] = "telling" /\ pc'[b] = "committing"
  PROVE  IInv'
<1>1. Shapes'
  BY DEF IInv, Shapes
<1>2. Books'
  BY DEF IInv, Books
<1>3. ASSUME NEW b \in Purchase PROVE CartOK(b)' /\ ReadOK(b)' /\ SubtractedOK(b)'
  <2>1. CartOK(b)'
    BY DEF IInv, CartOK, Busy
  <2>2. ReadOK(b)'
    BY DEF IInv, ReadOK, Supported
  <2>3. SubtractedOK(b)'
    BY DEF IInv, SubtractedOK, Supported
  <2> QED  BY <2>1, <2>2, <2>3
<1> QED  BY <1>1, <1>2, <1>3 DEF IInv

\* A transaction that ends without a commit.
LEMMA EndInv ==
  ASSUME IInv, NEW b \in Purchase, NEW l \in Ended, End(b, l), UNCHANGED <<stock, sold, met>>
  PROVE  IInv'
<1> USE DEF IInv
<1>1. /\ pc' = [pc EXCEPT ![b] = l]
      /\ pc'[b] = l /\ l \notin Busy \cup {"idle"}
      /\ \A a \in Purchase : a # b => pc'[a] = pc[a] /\ cart'[a] = cart[a] /\ entity'[a] = entity[a]
  BY DEF End, Goto, Shapes, Ended, Busy
<1>2. Shapes'
  BY <1>1 DEF Shapes, End
<1>3. Books'
  BY DEF Books
<1>4. ASSUME NEW a \in Purchase PROVE CartOK(a)' /\ ReadOK(a)' /\ SubtractedOK(a)'
  <2>1. CASE a = b
    BY <1>1, <2>1 DEF CartOK, ReadOK, SubtractedOK, Busy
  <2>2. CASE a # b
    <3>1. CartOK(a)'
      BY <1>1, <2>2 DEF CartOK, Busy
    <3>2. ReadOK(a)'
      BY <1>1, <2>2 DEF ReadOK, Supported
    <3>3. SubtractedOK(a)'
      BY <1>1, <2>2 DEF SubtractedOK, Supported
    <3> QED  BY <3>1, <3>2, <3>3
  <2> QED  BY <2>1, <2>2
<1> QED  BY <1>2, <1>3, <1>4

\* A step of one transaction in its memory.
LEMMA MemoryInv ==
  ASSUME IInv, NEW b \in Purchase, UNCHANGED <<stock, sold, met>>, Shapes',
         \A a \in Purchase : a # b => pc'[a] = pc[a] /\ cart'[a] = cart[a] /\ entity'[a] = entity[a],
         CartOK(b)', ReadOK(b)', SubtractedOK(b)'
  PROVE  IInv'
<1> USE DEF IInv
<1>1. Books'
  BY DEF Books
<1>2. ASSUME NEW a \in Purchase, a # b PROVE CartOK(a)' /\ ReadOK(a)' /\ SubtractedOK(a)'
  <2>1. CartOK(a)'
    BY <1>2 DEF CartOK, Busy
  <2>2. ReadOK(a)'
    BY <1>2 DEF ReadOK, Supported
  <2>3. SubtractedOK(a)'
    BY <1>2 DEF SubtractedOK, Supported
  <2> QED  BY <2>1, <2>2, <2>3
<1> QED  BY <1>1, <1>2
------------------------------------------------------------------------------
LEMMA BuyInv == ASSUME IInv, NEW b \in Purchase, Buy(b) PROVE IInv'
<1> USE DEF IInv
<1>1. PICK c \in Cart : cart' = [cart EXCEPT ![b] = c]
  BY DEF Buy
<1>2. /\ pc[b] = "idle" /\ pc' = [pc EXCEPT ![b] = "reading"]
      /\ UNCHANGED <<stock, entity, sold, met>>
  BY DEF Buy, Goto
<1>3. /\ pc'[b] = "reading" /\ cart'[b] = c /\ entity'[b] = entity[b]
      /\ \A a \in Purchase : a # b => pc'[a] = pc[a] /\ cart'[a] = cart[a] /\ entity'[a] = entity[a]
  BY <1>1, <1>2 DEF Shapes
<1>4. DOMAIN c \subseteq Product /\ \A x \in DOMAIN c : c[x] \in Nat
  BY ShopAssumption DEF Cart
<1>5. Shapes'
  BY <1>1, <1>2 DEF Shapes
<1>6. DOMAIN entity[b] = {}
  BY <1>2 DEF CartOK
<1>7. CartOK(b)' /\ ReadOK(b)' /\ SubtractedOK(b)'
  BY <1>3, <1>4, <1>6 DEF CartOK, ReadOK, SubtractedOK, Busy
<1> QED  BY <1>2, <1>3, <1>5, <1>7, MemoryInv

LEMMA FindProductInv == ASSUME IInv, NEW b \in Purchase, FindProduct(b) PROVE IInv'
<1> USE DEF IInv
<1>1. PICK x \in DOMAIN cart[b] :
        entity' = [entity EXCEPT ![b] = Over([y \in {x} |-> stock[y]], entity[b])]
  BY DEF FindProduct
<1>2. pc[b] = "reading" /\ UNCHANGED <<stock, pc, cart, sold, met>>
  BY DEF FindProduct
<1>3. \A a \in Purchase : a # b => pc'[a] = pc[a] /\ cart'[a] = cart[a] /\ entity'[a] = entity[a]
  BY <1>1, <1>2
<1>4. /\ DOMAIN entity'[b] = {x} \cup DOMAIN entity[b]
      /\ entity'[b][x] = stock[x]
      /\ \A y \in DOMAIN entity[b] : y # x => entity'[b][y] = entity[b][y]
  BY <1>1 DEF Shapes, Over
<1>5. x \in Product /\ Supported(x, stock[x], 0)
  BY <1>2 DEF CartOK, Busy, Shapes, Books, Supported
<1>6. \A y \in DOMAIN entity[b] : Supported(y, entity[b][y], 0)
  BY <1>2 DEF ReadOK
<1>7. Shapes'
  BY <1>1, <1>2 DEF Shapes
<1>8. CartOK(b)'
  BY <1>2, <1>4 DEF CartOK, Busy
<1>9. ReadOK(b)'
  BY <1>2, <1>4, <1>5, <1>6 DEF ReadOK, Supported
<1>10. SubtractedOK(b)'
  BY <1>2 DEF SubtractedOK
<1> QED  BY <1>2, <1>3, <1>7, <1>8, <1>9, <1>10, MemoryInv

LEMMA SubtractInv == ASSUME IInv, NEW b \in Purchase, Subtract(b) PROVE IInv'
<1> USE DEF IInv
<1>1. /\ pc[b] = "reading" /\ DOMAIN entity[b] = DOMAIN cart[b]
      /\ \A x \in DOMAIN cart[b] : entity[b][x] >= cart[b][x]
      /\ pc' = [pc EXCEPT ![b] = "telling"]
      /\ entity' = [entity EXCEPT ![b] = [x \in DOMAIN entity[b] |-> entity[b][x] - cart[b][x]]]
      /\ UNCHANGED <<stock, cart, sold, met>>
  BY DEF Subtract, AllFound, Affordable, HasStock, Goto
<1>2. \A a \in Purchase : a # b => pc'[a] = pc[a] /\ cart'[a] = cart[a] /\ entity'[a] = entity[a]
  BY <1>1
<1>3. /\ pc'[b] = "telling" /\ cart'[b] = cart[b] /\ DOMAIN entity'[b] = DOMAIN entity[b]
      /\ \A x \in DOMAIN entity[b] : entity'[b][x] = entity[b][x] - cart[b][x]
  BY <1>1 DEF Shapes
<1>4. Shapes'
  BY <1>1 DEF Shapes
<1>5. DOMAIN cart[b] \subseteq Product /\ \A x \in DOMAIN cart[b] : cart[b][x] \in Nat
  BY <1>1 DEF CartOK, Busy
<1>6. CartOK(b)' /\ ReadOK(b)'
  BY <1>1, <1>3, <1>5 DEF CartOK, ReadOK, Busy
<1>7. ASSUME NEW x \in DOMAIN entity[b]
      PROVE  Supported(x, entity[b][x] - cart[b][x], cart[b][x])
  <2>1. Supported(x, entity[b][x], 0)
    BY <1>1 DEF ReadOK
  <2>2. /\ cart[b][x] \in Nat /\ entity[b][x] \in Int /\ entity[b][x] >= cart[b][x]
        /\ stock[x] \in Int /\ sold[x] \in Int
    BY <1>1, <1>5, <2>1 DEF Supported, Shapes
  <2> QED  BY <2>1, <2>2, ShopAssumption DEF Supported
<1>8. SubtractedOK(b)'
  BY <1>1, <1>3, <1>7 DEF SubtractedOK, Supported
<1> QED  BY <1>1, <1>2, <1>4, <1>6, <1>8, MemoryInv

\* The commit writes what was read before it: the committed stock less what is sold,
\* unless two purchases met.  Who holds the product now has met this commit.
LEMMA CommitInv == ASSUME IInv, NEW b \in Purchase, Commit(b) PROVE IInv'
<1> USE DEF IInv
<1>1. /\ pc[b] = "committing" /\ stock' = Over(entity[b], stock)
      /\ sold' = [x \in Product |-> IF x \in DOMAIN cart[b] THEN sold[x] + cart[b][x] ELSE sold[x]]
      /\ met' = met \cup {x \in DOMAIN cart[b] : HeldElsewhere(b, x)}
  BY DEF Commit
<1>2. /\ DOMAIN cart[b] \subseteq Product /\ DOMAIN entity[b] = DOMAIN cart[b]
      /\ \A x \in DOMAIN cart[b] : cart[b][x] \in Nat
      /\ \A x \in DOMAIN cart[b] : Supported(x, entity[b][x], cart[b][x])
  BY <1>1 DEF CartOK, SubtractedOK, Busy
<1>3. /\ pc' = [pc EXCEPT ![b] = "bought"] /\ pc'[b] = "bought"
      /\ \A a \in Purchase : a # b => pc'[a] = pc[a] /\ cart'[a] = cart[a] /\ entity'[a] = entity[a]
      /\ DOMAIN cart' = Purchase /\ DOMAIN entity' = Purchase
  BY DEF Commit, End, Goto, Shapes
<1>4. /\ \A x \in DOMAIN cart[b] : stock'[x] = entity[b][x]
      /\ \A x \in Product : x \notin DOMAIN cart[b] => stock'[x] = stock[x]
      /\ DOMAIN stock' = Product /\ stock' = [x \in Product |-> stock'[x]]
  BY <1>1, <1>2 DEF Shapes, Over
<1>5. /\ \A x \in DOMAIN cart[b] : sold'[x] = sold[x] + cart[b][x]
      /\ \A x \in Product : x \notin DOMAIN cart[b] => sold'[x] = sold[x]
      /\ \A x \in Product : sold'[x] \in Int /\ sold[x] <= sold'[x]
  BY <1>1, <1>2 DEF Shapes
<1>6. Shapes'
  <2>1. \A x \in Product : stock'[x] \in Int
    BY <1>2, <1>4 DEF Supported, Shapes
  <2>2. stock' \in [Product -> Int]
    BY <1>4, <2>1
  <2>3. sold' \in [Product -> Int]
    BY <1>1, <1>5
  <2>4. pc' \in [Purchase -> {"idle", "reading", "telling", "committing"} \cup Ended]
    BY <1>3 DEF Shapes, Ended
  <2>5. met' \subseteq Product
    BY <1>1, <1>2 DEF Shapes
  <2> QED  BY <1>3, <2>2, <2>3, <2>4, <2>5 DEF Shapes
<1>7. Books'
  <2> SUFFICES ASSUME NEW x \in Product
               PROVE  /\ 0 <= stock'[x]
                      /\ InitialStock - stock'[x] <= sold'[x]
                      /\ x \notin met' => InitialStock - stock'[x] = sold'[x]
    BY DEF Books
  <2>1. stock[x] \in Int /\ sold[x] \in Int /\ InitialStock \in Int
    BY ShopAssumption DEF Shapes
  <2>2. InitialStock - stock[x] <= sold[x] /\ 0 <= stock[x] /\ (x \notin met => InitialStock - stock[x] = sold[x])
    BY DEF Books
  <2>3. CASE x \in DOMAIN cart[b]
    <3>1. entity[b][x] \in Int /\ cart[b][x] \in Int /\ Supported(x, entity[b][x], cart[b][x])
      BY <1>2, <2>3 DEF Supported
    <3> QED  BY <1>1, <1>4, <1>5, <2>1, <2>2, <2>3, <3>1 DEF Supported
  <2>4. CASE x \notin DOMAIN cart[b]
    BY <1>1, <1>4, <1>5, <2>2, <2>4
  <2> QED  BY <2>3, <2>4
<1>8. ASSUME NEW a \in Purchase, a # b, NEW x \in Product, x \in DOMAIN entity[a], pc[a] \in Busy,
             NEW v, NEW m \in Int, Supported(x, v, m)
      PROVE  Supported(x, v, m)'
  <2>1. x \notin met' => x \notin met /\ stock'[x] = stock[x]
    <3>1. a \in InProgress \ {b}
      BY <1>8 DEF InProgress, At, Busy
    <3>2. x \notin met' => x \notin DOMAIN cart[b]
      BY <1>1, <1>8, <3>1 DEF HeldElsewhere
    <3> QED  BY <1>1, <1>4, <3>2
  <2>2. sold[x] \in Int /\ sold'[x] \in Int /\ sold[x] <= sold'[x] /\ InitialStock \in Int
    BY <1>5, ShopAssumption DEF Shapes
  <2> QED  BY <1>8, <2>1, <2>2 DEF Supported
<1>9. ASSUME NEW a \in Purchase PROVE CartOK(a)' /\ ReadOK(a)' /\ SubtractedOK(a)'
  <2>1. CASE a = b
    BY <1>3, <2>1 DEF CartOK, ReadOK, SubtractedOK, Busy
  <2>2. CASE a # b
    <3>1. CartOK(a)'
      BY <1>3, <2>2 DEF CartOK, Busy
    <3>2. pc[a] \in Busy => DOMAIN entity[a] \subseteq Product
      BY DEF CartOK, Busy
    <3>3. ReadOK(a)'
      <4> SUFFICES ASSUME pc[a] = "reading", NEW x \in DOMAIN entity[a]
                   PROVE  Supported(x, entity[a][x], 0)'
        BY <1>3, <2>2 DEF ReadOK
      <4>1. PICK v : v = entity[a][x]
        OBVIOUS
      <4>2. Supported(x, v, 0) /\ x \in Product /\ pc[a] \in Busy
        BY <3>2, <4>1 DEF ReadOK, Busy
      <4>3. Supported(x, v, 0)' /\ v = entity'[a][x]
        BY <1>3, <1>8, <2>2, <4>1, <4>2
      <4> QED  BY <4>3 DEF Supported
    <3>4. SubtractedOK(a)'
      <4> SUFFICES ASSUME pc[a] \in {"telling", "committing"}, NEW x \in DOMAIN entity[a]
                   PROVE  Supported(x, entity[a][x], cart[a][x])'
        BY <1>3, <2>2 DEF SubtractedOK
      <4>1. PICK v, m : v = entity[a][x] /\ m = cart[a][x]
        OBVIOUS
      <4>2. Supported(x, v, m) /\ x \in Product /\ m \in Int /\ pc[a] \in Busy
        BY <3>2, <4>1 DEF SubtractedOK, CartOK, Busy
      <4>3. Supported(x, v, m)' /\ v = entity'[a][x] /\ m = cart'[a][x]
        BY <1>3, <1>8, <2>2, <4>1, <4>2
      <4> QED  BY <4>3 DEF Supported
    <3> QED  BY <3>1, <3>3, <3>4
  <2> QED  BY <2>1, <2>2
<1> QED  BY <1>6, <1>7, <1>9

LEMMA StepInv == IInv /\ [Next]_vars => IInv'
<1> SUFFICES ASSUME IInv, [Next]_vars PROVE IInv'
  OBVIOUS
<1>0. pc \in [Purchase -> {"idle", "reading", "telling", "committing"} \cup Ended]
  BY DEF IInv, Shapes
<1>1. ASSUME NEW b \in Purchase, Buy(b) PROVE IInv'
  BY <1>1, BuyInv
<1>2. ASSUME NEW b \in Purchase, FindProduct(b) PROVE IInv'
  BY <1>2, FindProductInv
<1>3. ASSUME NEW b \in Purchase, Refuse(b) \/ PersistFails(b) PROVE IInv'
  BY <1>3, EndInv DEF Refuse, PersistFails, Ended
<1>4. ASSUME NEW b \in Purchase, Subtract(b) PROVE IInv'
  BY <1>4, SubtractInv
<1>5. ASSUME NEW b \in Purchase, Tell(b) PROVE IInv'
  <2>1. UNCHANGED <<stock, pc, cart, entity, sold, met>>
    BY <1>5 DEF Tell
  <2> QED  BY <1>0, <2>1, OtherInv
<1>6. ASSUME NEW b \in Purchase, ToldAll(b) PROVE IInv'
  <2>1. /\ UNCHANGED <<stock, cart, entity, sold, met>>
        /\ pc[b] = "telling" /\ pc' = [pc EXCEPT ![b] = "committing"]
    BY <1>6 DEF ToldAll, Goto
  <2>2. pc' \in [Purchase -> {"idle", "reading", "telling", "committing"} \cup Ended]
    BY <1>0, <2>1
  <2>3. \A a \in Purchase : pc'[a] # pc[a] => pc[a] = "telling" /\ pc'[a] = "committing"
    BY <1>0, <2>1
  <2> QED  BY <2>1, <2>2, <2>3, OtherInv
<1>7. ASSUME NEW b \in Purchase, TellFails(b) \/ SendThrows(b) PROVE IInv'
  BY <1>7, EndInv DEF TellFails, SendThrows, Ended
<1>8. ASSUME NEW b \in Purchase, Commit(b) PROVE IInv'
  BY <1>8, CommitInv
<1>9. ASSUME NEW b \in Purchase, CommitFails(b) PROVE IInv'
  BY <1>9, EndInv DEF CommitFails, Ended
<1>10. ASSUME NEW p \in Page, Load(p) \/ Open(p) \/ Receive(p) \/ Leave(p) \/ Close(p) PROVE IInv'
  <2>1. UNCHANGED <<stock, sold, met, pc, cart, entity>>
    BY <1>10 DEF Load, Open, Receive, Leave, Close, threads
  <2> QED  BY <1>0, <2>1, OtherInv
<1>11. CASE UNCHANGED vars
  <2>1. UNCHANGED <<stock, pc, cart, entity, sold, met>>
    BY <1>11 DEF vars, threads
  <2> QED  BY <1>0, <2>1, OtherInv
<1> QED
  BY <1>1, <1>2, <1>3, <1>4, <1>5, <1>6, <1>7, <1>8, <1>9, <1>10, <1>11 DEF Next, PurchaseStep

LEMMA Invariance == Spec => []IInv
  BY InitInv, StepInv, PTL DEF Spec

\* With any number of purchases, products and pages the stock is never negative
\* and never lower than what was sold leaves, and that of a product is exact as
\* long as no two purchases of this product met (buy, hasStock, subtractStock).
THEOREM BooksKept == Spec => []Books
<1>1. IInv => Books
  BY DEF IInv
<1> QED  BY <1>1, Invariance, PTL
------------------------------------------------------------------------------
(* What the pages show.  The last a page that is not excused was told of a   *)
(* product on which no two purchases met, or what it shows, is the committed *)
(* stock, or what a purchase that has told this page is about to commit.     *)

Stocks == UNION {[S -> Int] : S \in SUBSET Product}

PageShapes == /\ page \in [Page -> {"away", "rendered", "open", "leaving"}]
              /\ DOMAIN shown = Page
              /\ channel \in [Page -> Seq(Stocks)]
              /\ cursor \in [Purchase -> Nat]
              /\ moved \subseteq Purchase

Sessions == /\ sessions \in Seq(Page) /\ IsInjective(sessions)
            /\ \A p \in Page : p \in ToSet(sessions) <=> page[p] \in {"open", "leaving"}

PageOK(p) == /\ IsStock(shown[p])
             /\ page[p] # "open" => channel[p] = <<>>
             /\ page[p] \in {"rendered", "open"} => shown[p] \in [Product -> Int]
             /\ page[p] = "rendered" /\ p \notin excused => shown[p] = stock

\* The iteration of a purchase: where its cursor is while nothing moved the
\* sessions.
CursorOK(b) ==
  /\ cursor[b] <= Cardinality(Page)
  /\ pc[b] \in {"idle", "reading"} => cursor[b] = 0
  /\ pc[b] = "telling" /\ b \notin moved => cursor[b] <= Len(sessions)

MemoryOK(b) == entity[b] \in Stocks /\ DOMAIN entity[b] \subseteq DOMAIN cart[b]

\* Purchase b has told page p, or told every page that was open.
Told(b, p) == \/ pc[b] = "committing"
              \/ pc[b] = "telling" /\ p \in Behind(b)

\* The last message on its way to p that names x says v, or p shows v.
Shows(p, x, v) ==
  \/ \E i \in 1..Len(channel[p]) :
       /\ x \in DOMAIN channel[p][i] /\ channel[p][i][x] = v
       /\ \A j \in (i + 1)..Len(channel[p]) : x \notin DOMAIN channel[p][j]
  \/ /\ \A i \in 1..Len(channel[p]) : x \notin DOMAIN channel[p][i]
     /\ shown[p][x] = v

Current(p, x) ==
  \/ \E b \in Purchase : Told(b, p) /\ x \in DOMAIN cart[b] /\ Shows(p, x, entity[b][x])
  \/ /\ \A b \in Purchase : Told(b, p) => x \notin DOMAIN cart[b]
     /\ Shows(p, x, stock[x])

PInv == /\ PageShapes /\ Sessions
        /\ \A p \in Page : PageOK(p)
        /\ \A b \in Purchase : CursorOK(b) /\ MemoryOK(b)
        /\ \A p \in Page \ excused : page[p] = "open" => \A x \in Product \ met : Current(p, x)

\* A session in the list at most once: no more of them than pages.
LEMMA SessionsBounded ==
  ASSUME NEW s \in Seq(Page), IsInjective(s)
  PROVE  Len(s) \in Nat /\ Len(s) <= Cardinality(Page)
<1>1. Len(s) \in Nat /\ s \in [1..Len(s) -> Page]
  BY LenProperties
<1>2. s \in Injection(1..Len(s), Page)
  BY <1>1 DEF Injection
<1>3. Cardinality(1..Len(s)) <= Cardinality(Page)
  BY <1>2, FS_Injection, ShopAssumption
<1>4. Cardinality(1..Len(s)) = Len(s)
  BY <1>1, FS_Interval
<1> QED  BY <1>1, <1>3, <1>4

\* List.remove of the session at position i.
LEMMA SessionRemoved ==
  ASSUME NEW s \in Seq(Page), IsInjective(s), NEW i \in DOMAIN s
  PROVE  /\ RemoveAt(s, i) \in Seq(Page) /\ IsInjective(RemoveAt(s, i))
         /\ ToSet(RemoveAt(s, i)) = ToSet(s) \ {s[i]}
         /\ \A j \in DOMAIN s : j # i =>
              \E k \in DOMAIN RemoveAt(s, i) : k <= j /\ RemoveAt(s, i)[k] = s[j]
<1> DEFINE n == Len(s)
           r == RemoveAt(s, i)
<1>1. n \in Nat /\ DOMAIN s = 1..n /\ i \in 1..n /\ \A j \in 1..n : s[j] \in Page
  BY LenProperties
<1>2. /\ SubSeq(s, 1, i - 1) \in Seq(Page) /\ Len(SubSeq(s, 1, i - 1)) = i - 1
      /\ \A j \in 1..(i - 1) : SubSeq(s, 1, i - 1)[j] = s[j]
  BY <1>1, SubSeqProperties
<1>3. /\ SubSeq(s, i + 1, n) \in Seq(Page) /\ Len(SubSeq(s, i + 1, n)) = n - i
      /\ \A j \in 1..(n - i) : SubSeq(s, i + 1, n)[j] = s[i + j]
  BY <1>1, SubSeqProperties
<1>4. /\ r \in Seq(Page) /\ Len(r) = n - 1
      /\ \A j \in 1..(n - 1) : r[j] = IF j < i THEN s[j] ELSE s[j + 1]
  <2> DEFINE t == SubSeq(s, 1, i - 1)
             u == SubSeq(s, i + 1, n)
  <2>1. r = t \o u
    BY DEF RemoveAt
  <2>2. t \in Seq(Page) /\ u \in Seq(Page) /\ Len(t) = i - 1 /\ Len(u) = n - i
    BY <1>2, <1>3
  <2> HIDE DEF t, u
  <2>3. /\ t \o u \in Seq(Page) /\ Len(t \o u) = Len(t) + Len(u)
        /\ \A j \in 1..(Len(t) + Len(u)) : (t \o u)[j] = IF j <= Len(t) THEN t[j] ELSE u[j - Len(t)]
    BY <2>2, ConcatProperties
  <2>4. \A j \in 1..(i - 1) : t[j] = s[j]
    BY <1>2 DEF t
  <2>5. \A j \in 1..(n - i) : u[j] = s[i + j]
    BY <1>3 DEF u
  <2>6. r \in Seq(Page) /\ Len(r) = n - 1
    BY <1>1, <2>1, <2>2, <2>3
  <2>7. ASSUME NEW j \in 1..(n - 1) PROVE r[j] = IF j < i THEN s[j] ELSE s[j + 1]
    <3>1. i \in Int /\ n \in Int /\ Len(t) + Len(u) = n - 1 /\ j \in 1..(n - 1)
      BY <1>1, <2>2
    <3>2. r[j] = IF j <= i - 1 THEN t[j] ELSE u[j - (i - 1)]
      BY <2>1, <2>2, <2>3, <3>1
    <3> HIDE DEF n, r
    <3>3. CASE j < i
      BY <2>4, <3>1, <3>2, <3>3
    <3>4. CASE ~ (j < i)
      <4>1. j - (i - 1) \in 1..(n - i) /\ i + (j - (i - 1)) = j + 1
        BY <3>1, <3>4
      <4>2. u[j - (i - 1)] = s[i + (j - (i - 1))]
        BY <2>5, <4>1
      <4>3. r[j] = u[j - (i - 1)]
        BY <3>1, <3>2, <3>4
      <4> QED  BY <3>4, <4>1, <4>2, <4>3
    <3> QED  BY <3>3, <3>4
  <2> QED  BY <2>6, <2>7
<1>5. DOMAIN r = 1..(n - 1)
  BY <1>4, LenProperties
<1> HIDE DEF r, n
<1>6. IsInjective(r)
  <2> SUFFICES ASSUME NEW j \in 1..(n - 1), NEW k \in 1..(n - 1), r[j] = r[k] PROVE j = k
    BY <1>5 DEF IsInjective
  <2>1. \A a, c \in 1..n : s[a] = s[c] => a = c
    BY <1>1 DEF IsInjective
  <2>2. PICK a \in 1..n : r[j] = s[a] /\ a = IF j < i THEN j ELSE j + 1
    BY <1>1, <1>4
  <2>3. PICK c \in 1..n : r[k] = s[c] /\ c = IF k < i THEN k ELSE k + 1
    BY <1>1, <1>4
  <2>4. a = c
    BY <2>1, <2>2, <2>3
  <2> QED  BY <1>1, <2>2, <2>3, <2>4
<1>7. \A j \in 1..n : j # i => s[j] # s[i] /\ \E k \in 1..(n - 1) : k <= j /\ r[k] = s[j]
  <2> SUFFICES ASSUME NEW j \in 1..n, j # i
               PROVE  s[j] # s[i] /\ \E k \in 1..(n - 1) : k <= j /\ r[k] = s[j]
    OBVIOUS
  <2>1. s[j] # s[i]
    BY <1>1 DEF IsInjective
  <2>2. CASE j < i
    BY <1>1, <1>4, <2>1, <2>2
  <2>3. CASE j > i
    <3>1. j - 1 \in 1..(n - 1) /\ r[j - 1] = s[j]
      BY <1>1, <1>4, <2>3
    <3> QED  BY <2>1, <3>1
  <2> QED  BY <1>1, <2>2, <2>3
<1>8. \A k \in 1..(n - 1) : \E j \in 1..n : j # i /\ r[k] = s[j]
  BY <1>1, <1>4
<1>9. ToSet(r) = ToSet(s) \ {s[i]}
  <2>1. ToSet(r) = {r[k] : k \in 1..(n - 1)} /\ ToSet(s) = {s[j] : j \in 1..n}
    BY <1>1, <1>5 DEF ToSet
  <2>2. ASSUME NEW p \in ToSet(r) PROVE p \in ToSet(s) \ {s[i]}
    BY <1>7, <1>8, <2>1
  <2>3. ASSUME NEW p \in ToSet(s) \ {s[i]} PROVE p \in ToSet(r)
    BY <1>7, <2>1
  <2> QED  BY <2>2, <2>3
<1>10. \A j \in DOMAIN s : j # i => \E k \in DOMAIN r : k <= j /\ r[k] = s[j]
  BY <1>1, <1>5, <1>7
<1> QED  BY <1>4, <1>6, <1>9, <1>10 DEF r

LEMMA AppendedIsShown ==
  ASSUME PageShapes, NEW p \in Page, NEW m \in Stocks, NEW x, NEW v,
         channel'[p] = Append(channel[p], m), shown'[p] = shown[p]
  PROVE  /\ x \in DOMAIN m /\ v = m[x] => Shows(p, x, v)'
         /\ x \notin DOMAIN m /\ Shows(p, x, v) => Shows(p, x, v)'
<1> DEFINE n == Len(channel[p])
<1>1. channel[p] \in Seq(Stocks) /\ n \in Nat
  BY DEF PageShapes
<1>2. /\ Len(channel'[p]) = n + 1 /\ channel'[p][n + 1] = m
      /\ \A i \in 1..n : channel'[p][i] = channel[p][i]
  BY <1>1, AppendProperties
<1>3. ASSUME x \in DOMAIN m, v = m[x] PROVE Shows(p, x, v)'
  BY <1>1, <1>2, <1>3 DEF Shows
<1>4. ASSUME x \notin DOMAIN m, Shows(p, x, v) PROVE Shows(p, x, v)'
  <2>1. CASE \A i \in 1..n : x \notin DOMAIN channel[p][i]
    BY <1>1, <1>2, <1>4, <2>1 DEF Shows
  <2>2. CASE ~ \A i \in 1..n : x \notin DOMAIN channel[p][i]
    <3>1. PICK i \in 1..n : /\ x \in DOMAIN channel[p][i] /\ channel[p][i][x] = v
                            /\ \A j \in (i + 1)..n : x \notin DOMAIN channel[p][j]
      BY <1>4, <2>2 DEF Shows
    <3>2. \A j \in (i + 1)..(n + 1) : x \notin DOMAIN channel'[p][j]
      BY <1>1, <1>2, <1>4, <3>1
    <3> QED  BY <1>1, <1>2, <3>1, <3>2 DEF Shows
  <2> QED  BY <2>1, <2>2
<1> QED  BY <1>3, <1>4

LEMMA ReceivedIsShown ==
  ASSUME PageShapes, NEW p \in Page, channel[p] # <<>>, NEW x \in Product, NEW v,
         channel'[p] = Tail(channel[p]), shown'[p] = Over(Head(channel[p]), shown[p]),
         DOMAIN shown[p] = Product, Shows(p, x, v)
  PROVE  Shows(p, x, v)'
<1> DEFINE n == Len(channel[p])
<1>1. channel[p] \in Seq(Stocks) /\ n \in Nat \ {0}
  BY EmptySeq DEF PageShapes
<1>2. /\ Len(channel'[p]) = n - 1
      /\ \A i \in 1..(n - 1) : channel'[p][i] = channel[p][i + 1]
  BY <1>1, HeadTailProperties
<1>3. Head(channel[p]) = channel[p][1]
  BY <1>1
<1>4. shown'[p][x] = IF x \in DOMAIN channel[p][1] THEN channel[p][1][x] ELSE shown[p][x]
  BY <1>3 DEF Over
<1>5. CASE \A i \in 1..n : x \notin DOMAIN channel[p][i]
  <2>1. shown[p][x] = v
    BY <1>5 DEF Shows
  <2>2. \A i \in 1..(n - 1) : x \notin DOMAIN channel'[p][i]
    BY <1>1, <1>2, <1>5
  <2> QED  BY <1>1, <1>2, <1>4, <1>5, <2>1, <2>2 DEF Shows
<1>6. CASE ~ \A i \in 1..n : x \notin DOMAIN channel[p][i]
  <2>1. PICK i \in 1..n : /\ x \in DOMAIN channel[p][i] /\ channel[p][i][x] = v
                          /\ \A j \in (i + 1)..n : x \notin DOMAIN channel[p][j]
    BY <1>6 DEF Shows
  <2>2. \A j \in i..(n - 1) : x \notin DOMAIN channel'[p][j]
    BY <1>1, <1>2, <2>1
  <2>3. CASE i = 1
    BY <1>2, <1>4, <2>1, <2>2, <2>3 DEF Shows
  <2>4. CASE i # 1
    <3>1. i - 1 \in 1..(n - 1) /\ channel'[p][i - 1] = channel[p][i]
      BY <1>1, <1>2, <2>4
    <3>2. \A j \in ((i - 1) + 1)..Len(channel'[p]) : x \notin DOMAIN channel'[p][j]
      BY <1>1, <1>2, <2>2, <3>1
    <3>3. i - 1 \in 1..Len(channel'[p])
      BY <1>2, <3>1
    <3> QED  BY <2>1, <3>1, <3>2, <3>3 DEF Shows
  <2> QED  BY <2>3, <2>4
<1> QED  BY <1>5, <1>6

\* A page is as current as before when it gets no message, and nobody who tells
\* it of x changes.
LEMMA CurrentStays ==
  ASSUME NEW p \in Page, NEW x, Current(p, x),
         \A v : Shows(p, x, v) => Shows(p, x, v)',
         \A b \in Purchase : Told(b, p)' /\ x \in DOMAIN cart'[b] <=> Told(b, p) /\ x \in DOMAIN cart[b],
         \A b \in Purchase : Told(b, p) /\ x \in DOMAIN cart[b] => entity'[b][x] = entity[b][x],
         stock'[x] = stock[x]
  PROVE  Current(p, x)'
<1>1. CASE \E b \in Purchase : Told(b, p) /\ x \in DOMAIN cart[b] /\ Shows(p, x, entity[b][x])
  <2>1. PICK b \in Purchase : Told(b, p) /\ x \in DOMAIN cart[b] /\ Shows(p, x, entity[b][x])
    BY <1>1
  <2>2. PICK v : v = entity[b][x]
    OBVIOUS
  <2>3. Told(b, p)' /\ x \in DOMAIN cart'[b] /\ v = entity'[b][x]
    BY <2>1, <2>2
  <2>4. Shows(p, x, v)'
    BY <2>1, <2>2
  <2>5. Shows(p, x, entity[b][x])'
    BY <2>3, <2>4 DEF Shows
  <2> QED  BY <2>3, <2>5 DEF Current
<1>2. CASE (\A b \in Purchase : Told(b, p) => x \notin DOMAIN cart[b]) /\ Shows(p, x, stock[x])
  <2>1. PICK v : v = stock[x]
    OBVIOUS
  <2>2. Shows(p, x, v)' /\ v = stock'[x]
    BY <1>2, <2>1
  <2>3. Shows(p, x, stock[x])'
    BY <2>2 DEF Shows
  <2> QED  BY <1>2, <2>3 DEF Current
<1> QED  BY <1>1, <1>2 DEF Current

\* A step of one purchase that leaves the stock, the sessions and the pages
\* alone.
LEMMA ThreadInv ==
  ASSUME PInv, NEW b \in Purchase, UNCHANGED <<stock, sessions, pages, met>>,
         moved' \subseteq moved, cursor' \in [Purchase -> Nat],
         \A a \in Purchase : a # b => /\ pc'[a] = pc[a] /\ cart'[a] = cart[a]
                                      /\ entity'[a] = entity[a] /\ cursor'[a] = cursor[a]
                                      /\ a \in moved' <=> a \in moved,
         CursorOK(b)', MemoryOK(b)',
         excused \subseteq excused',
         \A p \in Page \ excused' : page[p] = "open" =>
           /\ Told(b, p)' <=> Told(b, p)
           /\ Told(b, p) => cart'[b] = cart[b] /\ entity'[b] = entity[b]
  PROVE  PInv'
<1> USE DEF PInv
<1>0. UNCHANGED <<stock, sessions, page, shown, channel>>
  BY DEF pages
<1>1. PageShapes'
  BY <1>0 DEF PageShapes
<1>2. Sessions'
  BY <1>0 DEF Sessions
<1>3. ASSUME NEW p \in Page PROVE PageOK(p)'
  BY <1>0 DEF PageOK
<1>4. ASSUME NEW a \in Purchase PROVE CursorOK(a)' /\ MemoryOK(a)'
  <2>1. CASE a = b
    BY <2>1
  <2>2. CASE a # b
    <3>1. CursorOK(a)'
      BY <1>0, <2>2 DEF CursorOK
    <3>2. MemoryOK(a)'
      BY <2>2 DEF MemoryOK
    <3> QED  BY <3>1, <3>2
  <2> QED  BY <2>1, <2>2
<1>5. ASSUME NEW p \in Page \ excused', page'[p] = "open", NEW x \in Product \ met'
      PROVE  Current(p, x)'
  <2>1. page[p] = "open" /\ Current(p, x)
    BY <1>0, <1>5
  <2>2. \A v : Shows(p, x, v) => Shows(p, x, v)'
    BY <1>0 DEF Shows
  <2>3. \A a \in Purchase : a # b => (Told(a, p)' <=> Told(a, p))
    BY <1>0 DEF Told, Behind
  <2>4. \A a \in Purchase : Told(a, p)' /\ x \in DOMAIN cart'[a] <=> Told(a, p) /\ x \in DOMAIN cart[a]
    BY <1>5, <2>1, <2>3
  <2>5. \A a \in Purchase : Told(a, p) => entity'[a] = entity[a]
    BY <1>5, <2>1
  <2>6. stock'[x] = stock[x]
    BY <1>0
  <2> QED  BY <2>1, <2>2, <2>4, <2>5, <2>6, CurrentStays
<1> QED  BY <1>1, <1>2, <1>3, <1>4, <1>5

\* The memory of a transaction that is over.
LEMMA NoMemory == <<>> \in Stocks /\ DOMAIN <<>> = {} /\ IsStock(<<>>)
<1>1. <<>> \in Seq(Int) /\ Len(<<>>) = 0
  BY EmptySeq
<1>2. <<>> \in [1..0 -> Int] /\ DOMAIN <<>> = 1..0
  BY <1>1, LenProperties
<1>3. 1..0 = {}
  OBVIOUS
<1> QED  BY <1>2, <1>3 DEF Stocks, IsStock

\* A transaction that ends without a commit: the pages it told are excused.
LEMMA EndPages ==
  ASSUME IInv, PInv, NEW b \in Purchase, NEW l \in Ended, End(b, l),
         UNCHANGED <<stock, sessions, pages, met>>,
         excused \subseteq excused',
         \A p \in Page \ excused' : page[p] = "open" => ~ Told(b, p)
  PROVE  PInv'
<1> USE DEF IInv, PInv
<1>1. /\ pc' = [pc EXCEPT ![b] = l] /\ cart' = [cart EXCEPT ![b] = <<>>]
      /\ entity' = [entity EXCEPT ![b] = <<>>] /\ cursor' = [cursor EXCEPT ![b] = 0]
      /\ moved' = moved \ {b}
  BY DEF End, Goto
<1>2. /\ pc'[b] = l /\ entity'[b] = <<>> /\ cursor'[b] = 0 /\ cursor' \in [Purchase -> Nat]
      /\ l \notin {"idle", "reading", "telling", "committing"}
  BY <1>1 DEF Shapes, PageShapes, Ended
<1>3. CursorOK(b)'
  BY <1>2, FS_CardinalityType, ShopAssumption DEF CursorOK
<1>4. MemoryOK(b)'
  BY <1>2, NoMemory DEF MemoryOK
<1>5. \A p \in Page : ~ Told(b, p)'
  BY <1>2 DEF Told
<1>6. \A a \in Purchase : a # b => /\ pc'[a] = pc[a] /\ cart'[a] = cart[a]
                                   /\ entity'[a] = entity[a] /\ cursor'[a] = cursor[a]
                                   /\ a \in moved' <=> a \in moved
  BY <1>1
<1>7. moved' \subseteq moved
  BY <1>1
<1> QED  BY <1>2, <1>3, <1>4, <1>5, <1>6, <1>7, ThreadInv

LEMMA InitPages == Init => PInv
<1> SUFFICES ASSUME Init PROVE PInv
  OBVIOUS
<1>1. /\ \A p \in Page : page[p] = "away" /\ shown[p] = <<>> /\ channel[p] = <<>>
      /\ \A b \in Purchase : pc[b] = "idle" /\ entity[b] = <<>> /\ cursor[b] = 0
      /\ sessions = <<>>
  BY DEF Init
<1>2. PageShapes
  <2>1. channel \in [Page -> Seq(Stocks)]
    BY EmptySeq DEF Init
  <2> QED  BY <2>1 DEF Init, PageShapes
<1>3. Sessions
  <2>1. sessions \in Seq(Page) /\ DOMAIN sessions = {}
    BY <1>1, EmptySeq, NoMemory
  <2> QED  BY <1>1, <2>1 DEF Sessions, IsInjective, ToSet
<1>4. \A p \in Page : PageOK(p)
  BY <1>1, NoMemory DEF PageOK
<1>5. \A b \in Purchase : CursorOK(b) /\ MemoryOK(b)
  BY <1>1, NoMemory, FS_CardinalityType, ShopAssumption DEF CursorOK, MemoryOK
<1> QED  BY <1>1, <1>2, <1>3, <1>4, <1>5 DEF PInv

LEMMA BuyPages == ASSUME IInv, PInv, NEW b \in Purchase, Buy(b) PROVE PInv'
<1> USE DEF IInv, PInv
<1>1. /\ pc[b] = "idle" /\ pc' = [pc EXCEPT ![b] = "reading"]
      /\ \A a \in Purchase : a # b => cart'[a] = cart[a]
      /\ UNCHANGED <<stock, entity, cursor, moved, sessions, pages, met, excused>>
  BY DEF Buy, Goto
<1>2. pc'[b] = "reading" /\ \A a \in Purchase : a # b => pc'[a] = pc[a]
  BY <1>1 DEF Shapes
<1>3. \A p \in Page : ~ Told(b, p) /\ ~ Told(b, p)'
  BY <1>1, <1>2 DEF Told
<1>4. CursorOK(b)'
  BY <1>1, <1>2 DEF CursorOK
<1>5. MemoryOK(b)'
  BY <1>1 DEF MemoryOK, CartOK
<1>6. cursor' \in [Purchase -> Nat] /\ moved' \subseteq moved
  BY <1>1 DEF PageShapes
<1> QED  BY <1>1, <1>2, <1>3, <1>4, <1>5, <1>6, ThreadInv

LEMMA FindProductPages == ASSUME IInv, PInv, NEW b \in Purchase, FindProduct(b) PROVE PInv'
<1> USE DEF IInv, PInv
<1>1. PICK x \in DOMAIN cart[b] :
        entity' = [entity EXCEPT ![b] = Over([y \in {x} |-> stock[y]], entity[b])]
  BY DEF FindProduct
<1>2. pc[b] = "reading" /\ UNCHANGED <<stock, pc, cart, cursor, moved, sessions, pages, met, excused>>
  BY DEF FindProduct
<1>3. \A p \in Page : ~ Told(b, p) /\ ~ Told(b, p)'
  BY <1>2 DEF Told
<1>4. CursorOK(b)'
  BY <1>2 DEF CursorOK
<1>5. MemoryOK(b)'
  <2>1. x \in Product /\ stock[x] \in Int
    BY <1>2 DEF CartOK, Busy, Shapes
  <2>2. PICK S \in SUBSET Product : entity[b] \in [S -> Int]
    BY DEF MemoryOK, Stocks
  <2>3. entity'[b] \in [{x} \cup S -> Int]
    BY <1>1, <2>1, <2>2 DEF Shapes, Over
  <2>4. {x} \cup S \in SUBSET Product /\ {x} \cup S \subseteq DOMAIN cart[b]
    BY <2>1, <2>2 DEF MemoryOK
  <2> QED  BY <1>2, <2>3, <2>4 DEF MemoryOK, Stocks
<1>6. \A a \in Purchase : a # b => entity'[a] = entity[a]
  BY <1>1
<1>7. cursor' \in [Purchase -> Nat] /\ moved' \subseteq moved
  BY <1>2 DEF PageShapes
<1> QED  BY <1>2, <1>3, <1>4, <1>5, <1>6, <1>7, ThreadInv

LEMMA SubtractPages == ASSUME IInv, PInv, NEW b \in Purchase, Subtract(b) PROVE PInv'
<1> USE DEF IInv, PInv
<1>1. /\ pc[b] = "reading" /\ DOMAIN entity[b] = DOMAIN cart[b]
      /\ pc' = [pc EXCEPT ![b] = "telling"]
      /\ entity' = [entity EXCEPT ![b] = [x \in DOMAIN entity[b] |-> entity[b][x] - cart[b][x]]]
      /\ UNCHANGED <<stock, cart, cursor, moved, sessions, pages, met, excused>>
  BY DEF Subtract, AllFound, Goto
<1>2. /\ pc'[b] = "telling" /\ cursor'[b] = 0
      /\ \A a \in Purchase : a # b => pc'[a] = pc[a] /\ entity'[a] = entity[a]
  BY <1>1 DEF Shapes, CursorOK
<1>3. \A p \in Page : ~ Told(b, p) /\ ~ Told(b, p)'
  <2>1. Behind(b)' = {}
    BY <1>2 DEF Behind
  <2> QED  BY <1>1, <1>2, <2>1 DEF Told
<1>4. CursorOK(b)'
  <2>1. Len(sessions) \in Nat
    BY LenProperties DEF Sessions
  <2> QED  BY <1>1, <1>2, <2>1 DEF CursorOK
<1>5. MemoryOK(b)'
  <2>1. PICK S \in SUBSET Product : entity[b] \in [S -> Int]
    BY DEF MemoryOK, Stocks
  <2>2. \A x \in S : entity[b][x] - cart[b][x] \in Int
    <3>1. \A x \in S : cart[b][x] \in Int /\ entity[b][x] \in Int
      BY <1>1, <2>1 DEF CartOK, Busy
    <3> QED  BY <3>1
  <2>3. entity'[b] \in [S -> Int]
    BY <1>1, <2>1, <2>2 DEF Shapes
  <2> QED  BY <1>1, <2>1, <2>3 DEF MemoryOK, Stocks
<1>6. cursor' \in [Purchase -> Nat] /\ moved' \subseteq moved
  BY <1>1 DEF PageShapes
<1> QED  BY <1>1, <1>2, <1>3, <1>4, <1>5, <1>6, ThreadInv

LEMMA ToldAllPages == ASSUME IInv, PInv, NEW b \in Purchase, ToldAll(b) PROVE PInv'
<1> USE DEF IInv, PInv
<1>1. /\ pc[b] = "telling" /\ pc' = [pc EXCEPT ![b] = "committing"] /\ cursor[b] = Len(sessions)
      /\ UNCHANGED <<stock, cart, entity, cursor, moved, sessions, pages, met, excused>>
  BY DEF ToldAll, HasNext, Goto
<1>2. pc'[b] = "committing" /\ \A a \in Purchase : a # b => pc'[a] = pc[a]
  BY <1>1 DEF Shapes
<1>3. \A p \in Page : page[p] = "open" => \E i \in DOMAIN sessions : sessions[i] = p
  BY DEF Sessions, ToSet
<1>4. \A p \in Page : page[p] = "open" => Told(b, p) /\ Told(b, p)'
  <2>1. DOMAIN sessions = 1..cursor[b]
    BY <1>1, LenProperties DEF Sessions
  <2> QED  BY <1>1, <1>2, <1>3, <2>1 DEF Told, Behind
<1>5. CursorOK(b)'
  BY <1>1, <1>2 DEF CursorOK
<1>6. MemoryOK(b)'
  BY <1>1 DEF MemoryOK
<1>7. cursor' \in [Purchase -> Nat] /\ moved' \subseteq moved
  BY <1>1 DEF PageShapes
<1> QED  BY <1>1, <1>2, <1>4, <1>5, <1>6, <1>7, ThreadInv

LEMMA EndedPages ==
  ASSUME IInv, PInv, NEW b \in Purchase,
         Refuse(b) \/ PersistFails(b) \/ TellFails(b) \/ SendThrows(b) \/ CommitFails(b)
  PROVE  PInv'
<1> USE DEF IInv, PInv
<1>1. CASE Refuse(b) \/ PersistFails(b)
  <2>1. \A p \in Page : ~ Told(b, p)
    BY <1>1 DEF Refuse, PersistFails, AllFound, Told
  <2> QED  BY <1>1, <2>1, EndPages DEF Refuse, PersistFails, Ended
<1>2. CASE TellFails(b) \/ SendThrows(b)
  <2>1. pc[b] = "telling" /\ excused' = excused \cup Behind(b)
    BY <1>2 DEF TellFails, SendThrows
  <2>2. \A p \in Page \ excused' : ~ Told(b, p)
    BY <2>1 DEF Told
  <2> QED  BY <1>2, <2>1, <2>2, EndPages DEF TellFails, SendThrows, Ended
<1>3. CASE CommitFails(b)
  <2>1. excused' = excused \cup ToSet(sessions)
    BY <1>3 DEF CommitFails
  <2>2. \A p \in Page \ excused' : page[p] # "open"
    BY <2>1 DEF Sessions
  <2> QED  BY <1>3, <2>1, <2>2, EndPages DEF CommitFails, Ended
<1> QED  BY <1>1, <1>2, <1>3

LEMMA TellPages == ASSUME IInv, PInv, NEW b \in Purchase, Tell(b) PROVE PInv'
<1> USE DEF IInv, PInv
<1> DEFINE p == sessions[cursor[b] + 1]
<1>1. /\ pc[b] = "telling" /\ cursor[b] # Len(sessions) /\ b \notin moved
      /\ channel' = IF page[p] = "open" THEN [channel EXCEPT ![p] = Append(channel[p], entity[b])]
                    ELSE channel
      /\ cursor' = [cursor EXCEPT ![b] = cursor[b] + 1]
      /\ UNCHANGED <<stock, pc, cart, entity, moved, sessions, page, shown, met, excused>>
  BY DEF Tell, HasNext
<1>2. /\ cursor[b] \in Nat /\ Len(sessions) \in Nat /\ cursor[b] + 1 <= Len(sessions)
      /\ Len(sessions) <= Cardinality(Page) /\ cursor[b] + 1 \in DOMAIN sessions
  <2>1. cursor[b] \in Nat /\ cursor[b] <= Len(sessions)
    BY <1>1 DEF CursorOK, PageShapes
  <2>2. /\ Len(sessions) \in Nat /\ Len(sessions) <= Cardinality(Page)
        /\ DOMAIN sessions = 1..Len(sessions)
    BY SessionsBounded, LenProperties DEF Sessions
  <2> QED  BY <1>1, <2>1, <2>2
<1>3. p \in Page
  BY <1>2, LenProperties DEF Sessions
<1>4. /\ cursor'[b] = cursor[b] + 1 /\ cursor' \in [Purchase -> Nat]
      /\ \A a \in Purchase : a # b => cursor'[a] = cursor[a]
  BY <1>1, <1>2 DEF PageShapes
<1> HIDE DEF p
<1>5. /\ page[p] = "open" => channel'[p] = Append(channel[p], entity[b])
      /\ page[p] # "open" => channel'[p] = channel[p]
      /\ \A q \in Page : q # p => channel'[q] = channel[q]
  BY <1>1, <1>3 DEF PageShapes
<1>6. entity[b] \in Stocks
  BY DEF MemoryOK
<1>7. PageShapes'
  <2>1. channel[p] \in Seq(Stocks)
    BY <1>3 DEF PageShapes
  <2>2. Append(channel[p], entity[b]) \in Seq(Stocks)
    BY <1>6, <2>1, AppendProperties
  <2>3. channel' \in [Page -> Seq(Stocks)]
    BY <1>1, <1>3, <2>2 DEF PageShapes
  <2> QED  BY <1>1, <1>4, <2>3 DEF PageShapes
<1>8. Sessions'
  BY <1>1 DEF Sessions
<1>9. ASSUME NEW q \in Page PROVE PageOK(q)'
  BY <1>1, <1>5 DEF PageOK
<1>10. ASSUME NEW a \in Purchase PROVE CursorOK(a)' /\ MemoryOK(a)'
  <2>1. MemoryOK(a)'
    BY <1>1 DEF MemoryOK
  <2>2. CASE a = b
    <3>1. CursorOK(b)'
      BY <1>1, <1>2, <1>4, FS_CardinalityType, ShopAssumption DEF CursorOK
    <3> QED  BY <2>1, <2>2, <3>1
  <2>3. CASE a # b
    BY <1>1, <1>4, <2>1, <2>3 DEF CursorOK
  <2> QED  BY <2>2, <2>3
<1>11. ASSUME NEW q \in Page \ excused', page'[q] = "open", NEW x \in Product \ met'
      PROVE  Current(q, x)'
  <2>1. page[q] = "open" /\ Current(q, x)
    BY <1>1, <1>11
  <2>2. \A a \in Purchase : a # b => (Told(a, q)' <=> Told(a, q))
    BY <1>1, <1>4 DEF Told, Behind
  <2>3. CASE q # p
    <3>1. Told(b, q)' <=> Told(b, q)
      <4>1. \A i \in 1..(cursor[b] + 1) : sessions[i] = q => i \in 1..cursor[b]
        BY <1>2, <2>3 DEF p
      <4>2. \A i \in 1..cursor[b] : i \in 1..(cursor[b] + 1)
        BY <1>2
      <4> QED  BY <1>1, <1>4, <4>1, <4>2 DEF Told, Behind
    <3>2. \A v : Shows(q, x, v) => Shows(q, x, v)'
      BY <1>1, <1>5, <2>3 DEF Shows
    <3> QED  BY <1>1, <2>1, <2>2, <3>1, <3>2, CurrentStays
  <2>4. CASE q = p
    <3>1. /\ channel'[p] = Append(channel[p], entity[b]) /\ shown'[p] = shown[p]
          /\ DOMAIN entity[b] = DOMAIN cart[b]
      BY <1>1, <1>5, <2>1, <2>4 DEF CartOK
    <3>2. /\ \A v : x \in DOMAIN entity[b] /\ v = entity[b][x] => Shows(q, x, v)'
          /\ \A v : x \notin DOMAIN entity[b] /\ Shows(q, x, v) => Shows(q, x, v)'
      <4>1. channel'[q] = Append(channel[q], entity[b]) /\ shown'[q] = shown[q]
        BY <2>4, <3>1
      <4>2. PICK m \in Stocks : m = entity[b]
        BY <1>6
      <4>3. \A v : /\ x \in DOMAIN m /\ v = m[x] => Shows(q, x, v)'
                   /\ x \notin DOMAIN m /\ Shows(q, x, v) => Shows(q, x, v)'
        BY <4>1, <4>2, AppendedIsShown
      <4> QED  BY <4>2, <4>3
    <3>3. CASE x \in DOMAIN cart[b]
      <4>1. Told(b, q)'
        <5>1. cursor[b] + 1 \in 1..cursor'[b] /\ cursor[b] + 1 \in DOMAIN sessions
          BY <1>2, <1>4
        <5>2. sessions[cursor[b] + 1] = q
          BY <2>4 DEF p
        <5> QED  BY <1>1, <5>1, <5>2 DEF Told, Behind
      <4>2. PICK v : v = entity[b][x]
        OBVIOUS
      <4>3. Shows(q, x, v)' /\ v = entity'[b][x]
        BY <1>1, <3>1, <3>2, <3>3, <4>2
      <4>4. Shows(q, x, entity[b][x])'
        BY <4>3 DEF Shows
      <4>5. x \in DOMAIN cart'[b]
        BY <1>1, <3>3
      <4> QED  BY <4>1, <4>4, <4>5 DEF Current
    <3>4. CASE x \notin DOMAIN cart[b]
      <4>1. \A v : Shows(q, x, v) => Shows(q, x, v)'
        BY <3>1, <3>2, <3>4
      <4> QED  BY <1>1, <2>1, <2>2, <3>4, <4>1, CurrentStays
    <3> QED  BY <3>3, <3>4
  <2> QED  BY <2>3, <2>4
<1> QED  BY <1>7, <1>8, <1>9, <1>10, <1>11

\* The commit makes the stock what the pages were told: nobody else holds its
\* products, unless two purchases have met on them.
LEMMA CommitPages == ASSUME IInv, PInv, NEW b \in Purchase, Commit(b) PROVE PInv'
<1> USE DEF IInv, PInv
<1>1. /\ pc[b] = "committing" /\ stock' = Over(entity[b], stock) /\ End(b, "bought")
      /\ excused' = excused \cup {p \in Page : page[p] = "rendered"}
      /\ met' = met \cup {x \in DOMAIN cart[b] : HeldElsewhere(b, x)}
      /\ UNCHANGED <<sessions, page, shown, channel>>
  BY DEF Commit, pages
<1>2. /\ pc'[b] = "bought" /\ entity'[b] = <<>> /\ cursor'[b] = 0 /\ cursor' \in [Purchase -> Nat]
      /\ moved' = moved \ {b}
      /\ \A a \in Purchase : a # b => /\ pc'[a] = pc[a] /\ cart'[a] = cart[a]
                                      /\ entity'[a] = entity[a] /\ cursor'[a] = cursor[a]
  BY <1>1 DEF End, Goto, Shapes, PageShapes
<1>3. /\ DOMAIN entity[b] = DOMAIN cart[b]
      /\ \A x \in DOMAIN cart[b] : stock'[x] = entity[b][x]
      /\ \A x \in Product : x \notin DOMAIN cart[b] => stock'[x] = stock[x]
  BY <1>1 DEF CartOK, Shapes, Over
<1>4. PageShapes'
  BY <1>1, <1>2 DEF PageShapes
<1>5. Sessions'
  BY <1>1 DEF Sessions
<1>6. ASSUME NEW p \in Page PROVE PageOK(p)'
  BY <1>1 DEF PageOK
<1>7. ASSUME NEW a \in Purchase PROVE CursorOK(a)' /\ MemoryOK(a)'
  <2>1. CASE a = b
    <3>1. CursorOK(b)'
      BY <1>2, FS_CardinalityType, ShopAssumption DEF CursorOK
    <3>2. MemoryOK(b)'
      BY <1>2, NoMemory DEF MemoryOK
    <3> QED  BY <2>1, <3>1, <3>2
  <2>2. CASE a # b
    <3>1. CursorOK(a)'
      BY <1>1, <1>2, <2>2 DEF CursorOK
    <3>2. MemoryOK(a)'
      BY <1>2, <2>2 DEF MemoryOK
    <3> QED  BY <3>1, <3>2
  <2> QED  BY <2>1, <2>2
<1>8. ASSUME NEW p \in Page \ excused', page'[p] = "open", NEW x \in Product \ met'
      PROVE  Current(p, x)'
  <2>1. page[p] = "open" /\ Current(p, x)
    BY <1>1, <1>8
  <2>2. ~ Told(b, p)' /\ \A a \in Purchase : a # b => (Told(a, p)' <=> Told(a, p))
    BY <1>1, <1>2 DEF Told, Behind
  <2>3. \A v : Shows(p, x, v) => Shows(p, x, v)'
    BY <1>1 DEF Shows
  <2>4. CASE x \in DOMAIN cart[b]
    <3>1. ASSUME NEW a \in Purchase, a # b, Told(a, p) PROVE x \notin DOMAIN cart[a]
      <4>1. pc[a] \in {"telling", "committing"}
        BY <3>1 DEF Told
      <4>2. a \in InProgress \ {b} /\ DOMAIN entity[a] = DOMAIN cart[a]
        BY <3>1, <4>1 DEF InProgress, At, CartOK
      <4> QED  BY <1>1, <1>8, <2>4, <4>2 DEF HeldElsewhere
    <3>2. Told(b, p)
      BY <1>1 DEF Told
    <3>3. Shows(p, x, entity[b][x])
      BY <2>1, <2>4, <3>1, <3>2 DEF Current
    <3>4. PICK v : v = entity[b][x]
      OBVIOUS
    <3>5. Shows(p, x, v)' /\ v = stock'[x]
      BY <1>3, <2>3, <2>4, <3>3, <3>4
    <3>6. Shows(p, x, stock[x])'
      BY <3>5 DEF Shows
    <3>7. \A a \in Purchase : Told(a, p)' => x \notin DOMAIN cart'[a]
      BY <1>2, <2>2, <3>1
    <3> QED  BY <3>6, <3>7 DEF Current
  <2>5. CASE x \notin DOMAIN cart[b]
    <3>1. /\ \A a \in Purchase : Told(a, p)' /\ x \in DOMAIN cart'[a] <=> Told(a, p) /\ x \in DOMAIN cart[a]
          /\ \A a \in Purchase : Told(a, p) /\ x \in DOMAIN cart[a] => entity'[a][x] = entity[a][x]
      BY <1>2, <2>2, <2>5
    <3>2. stock'[x] = stock[x]
      BY <1>3, <2>5
    <3> QED  BY <2>1, <2>3, <3>1, <3>2, CurrentStays
  <2> QED  BY <2>4, <2>5
<1> QED  BY <1>4, <1>5, <1>6, <1>7, <1>8

\* A step of page p that leaves the stock and the purchases alone.
LEMMA PageInv ==
  ASSUME PInv, NEW p \in Page, UNCHANGED <<stock, pc, cart, entity, cursor, met>>,
         \A q \in Page \ excused' : q # p => q \notin excused,
         \A q \in Page : q # p => page'[q] = page[q] /\ shown'[q] = shown[q] /\ channel'[q] = channel[q],
         PageShapes', Sessions', PageOK(p)', \A b \in Purchase : CursorOK(b)',
         \A b \in Purchase, q \in Page \ excused' :
           q # p /\ page[q] = "open" => (Told(b, q)' <=> Told(b, q)),
         p \notin excused' /\ page'[p] = "open" => \A x \in Product \ met' : Current(p, x)'
  PROVE  PInv'
<1> USE DEF PInv
<1>1. ASSUME NEW q \in Page PROVE PageOK(q)'
  BY DEF PageOK
<1>2. \A b \in Purchase : MemoryOK(b)'
  BY DEF MemoryOK
<1>3. ASSUME NEW q \in Page \ excused', page'[q] = "open", NEW x \in Product \ met'
      PROVE  Current(q, x)'
  <2>1. CASE q # p
    <3>1. page[q] = "open" /\ Current(q, x)
      BY <1>3, <2>1
    <3>2. \A v : Shows(q, x, v) => Shows(q, x, v)'
      BY <2>1 DEF Shows
    <3>3. \A b \in Purchase : Told(b, q)' <=> Told(b, q)
      BY <1>3, <2>1, <3>1
    <3> QED  BY <3>1, <3>2, <3>3, CurrentStays
  <2>2. CASE q = p
    BY <1>3, <2>2
  <2> QED  BY <2>1, <2>2
<1> QED  BY <1>1, <1>2, <1>3

LEMMA LoadPages == ASSUME IInv, PInv, NEW p \in Page, Load(p) PROVE PInv'
<1> USE DEF IInv, PInv
<1>1. /\ page[p] = "away" /\ page' = [page EXCEPT ![p] = "rendered"]
      /\ shown' = [shown EXCEPT ![p] = stock]
      /\ excused' = excused \ {p}
      /\ UNCHANGED <<stock, pc, cart, entity, cursor, moved, sessions, channel, met>>
  BY DEF Load, threads
<1>2. /\ page'[p] = "rendered" /\ shown'[p] = stock
      /\ \A q \in Page : q # p => page'[q] = page[q] /\ shown'[q] = shown[q]
  BY <1>1 DEF PageShapes
<1>3. PageShapes'
  BY <1>1 DEF PageShapes
<1>4. Sessions'
  BY <1>1, <1>2 DEF Sessions
<1>5. PageOK(p)'
  BY <1>1, <1>2 DEF PageOK, IsStock, Shapes
<1>6. \A b \in Purchase : CursorOK(b)'
  BY <1>1, <1>2 DEF CursorOK
<1>7. \A b \in Purchase, q \in Page : Told(b, q)' <=> Told(b, q)
  BY <1>1 DEF Told, Behind
<1> QED  BY <1>1, <1>2, <1>3, <1>4, <1>5, <1>6, <1>7, PageInv

LEMMA OpenPages == ASSUME IInv, PInv, NEW p \in Page, Open(p) PROVE PInv'
<1> USE DEF IInv, PInv
<1>1. /\ page[p] = "rendered" /\ page' = [page EXCEPT ![p] = "open"]
      /\ sessions' = Append(sessions, p) /\ moved' = moved \cup At("telling")
      /\ excused' = excused \cup PassedOver \cup (IF At("committing") = {} THEN {} ELSE {p})
      /\ UNCHANGED <<stock, pc, cart, entity, cursor, shown, channel, met>>
  BY DEF Open, threads
<1> DEFINE n == Len(sessions)
<1>2. /\ page'[p] = "open" /\ \A q \in Page : q # p => page'[q] = page[q]
  BY <1>1 DEF PageShapes
<1>3. /\ n \in Nat /\ DOMAIN sessions = 1..n /\ sessions \in Seq(Page)
      /\ sessions' \in Seq(Page) /\ Len(sessions') = n + 1 /\ DOMAIN sessions' = 1..(n + 1)
      /\ sessions'[n + 1] = p /\ \A i \in 1..n : sessions'[i] = sessions[i]
  BY <1>1, AppendProperties, LenProperties DEF Sessions
<1>4. \A i \in 1..n : sessions[i] # p
  <2>1. p \notin ToSet(sessions)
    BY <1>1 DEF Sessions
  <2> QED  BY <1>3, <2>1 DEF ToSet
<1> HIDE DEF n
<1>5. PageShapes'
  BY <1>1 DEF PageShapes, At
<1>6. Sessions'
  <2>1. IsInjective(sessions')
    BY <1>3, <1>4 DEF IsInjective, Sessions
  <2>2. ToSet(sessions') = ToSet(sessions) \cup {p}
    <3>1. ToSet(sessions') = {sessions'[i] : i \in 1..(n + 1)} /\ ToSet(sessions) = {sessions[i] : i \in 1..n}
      BY <1>3 DEF ToSet
    <3>2. 1..(n + 1) = 1..n \cup {n + 1}
      BY <1>3
    <3> QED  BY <1>3, <3>1, <3>2
  <2> QED  BY <1>2, <1>3, <2>1, <2>2 DEF Sessions
<1>7. PageOK(p)'
  BY <1>1, <1>2 DEF PageOK
<1>8. ASSUME NEW b \in Purchase PROVE CursorOK(b)'
  <2>1. pc[b] = "telling" => b \in moved'
    BY <1>1 DEF At
  <2> QED  BY <1>1, <2>1 DEF CursorOK
<1>9. ASSUME NEW b \in Purchase, NEW q \in Page \ excused', q # p
      PROVE  Told(b, q)' <=> Told(b, q)
  <2>1. Behind(b) \subseteq Behind(b)'
    BY <1>1, <1>3 DEF Behind
  <2>2. pc[b] = "telling" => q \notin Behind(b)' \ Behind(b)
    BY <1>1, <1>9 DEF PassedOver, At
  <2> QED  BY <1>1, <2>1, <2>2 DEF Told
<1>10. ASSUME p \notin excused', NEW x \in Product \ met' PROVE Current(p, x)'
  <2>1. \A b \in Purchase : ~ Told(b, p)'
    <3>1. ASSUME NEW b \in Purchase, pc[b] = "telling" PROVE p \notin Behind(b)'
      <4>1. p \notin Behind(b)
        BY <1>3, <1>4 DEF Behind
      <4> QED  BY <1>1, <1>10, <3>1, <4>1 DEF PassedOver, At
    <3>2. \A b \in Purchase : pc[b] # "committing"
      BY <1>1, <1>10 DEF At
    <3> QED  BY <1>1, <3>1, <3>2 DEF Told
  <2>2. channel'[p] = <<>> /\ shown'[p] = stock'
    BY <1>1, <1>10 DEF PageOK
  <2>3. Shows(p, x, stock[x])'
    <3>1. Len(channel'[p]) = 0
      BY <2>2, EmptySeq
    <3> QED  BY <2>2, <3>1 DEF Shows
  <2> QED  BY <2>1, <2>3 DEF Current
<1> QED  BY <1>1, <1>2, <1>5, <1>6, <1>7, <1>8, <1>9, <1>10, PageInv

LEMMA ReceivePages == ASSUME IInv, PInv, NEW p \in Page, Receive(p) PROVE PInv'
<1> USE DEF IInv, PInv
<1>1. /\ channel[p] # <<>>
      /\ shown' = [shown EXCEPT ![p] = Over(Head(channel[p]), shown[p])]
      /\ channel' = [channel EXCEPT ![p] = Tail(channel[p])]
      /\ UNCHANGED <<stock, pc, cart, entity, cursor, moved, sessions, page, met, excused>>
  BY DEF Receive, threads
<1>2. /\ channel'[p] = Tail(channel[p]) /\ shown'[p] = Over(Head(channel[p]), shown[p])
      /\ \A q \in Page : q # p => channel'[q] = channel[q] /\ shown'[q] = shown[q]
  BY <1>1 DEF PageShapes
<1>3. page[p] = "open" /\ shown[p] \in [Product -> Int]
  BY <1>1 DEF PageOK
<1>4. Head(channel[p]) \in Stocks /\ Tail(channel[p]) \in Seq(Stocks)
  BY <1>1, HeadTailProperties DEF PageShapes
<1>5. PageShapes'
  BY <1>1, <1>4 DEF PageShapes
<1>6. Sessions'
  BY <1>1 DEF Sessions
<1>7. PageOK(p)'
  <2>1. PICK S \in SUBSET Product : Head(channel[p]) \in [S -> Int]
    BY <1>4 DEF Stocks
  <2>2. shown'[p] \in [Product -> Int]
    BY <1>2, <1>3, <2>1 DEF Over
  <2> QED  BY <1>1, <1>3, <2>2 DEF PageOK, IsStock
<1>8. \A b \in Purchase : CursorOK(b)'
  BY <1>1 DEF CursorOK
<1>9. \A b \in Purchase, q \in Page : Told(b, q)' <=> Told(b, q)
  BY <1>1 DEF Told, Behind
<1>10. ASSUME p \notin excused', NEW x \in Product \ met' PROVE Current(p, x)'
  <2>1. Current(p, x)
    BY <1>1, <1>3, <1>10
  <2>2. \A v : Shows(p, x, v) => Shows(p, x, v)'
    BY <1>1, <1>2, <1>3, ReceivedIsShown
  <2> QED  BY <1>1, <1>9, <2>1, <2>2, CurrentStays
<1> QED  BY <1>1, <1>2, <1>5, <1>6, <1>7, <1>8, <1>9, <1>10, PageInv

LEMMA LeavePages == ASSUME IInv, PInv, NEW p \in Page, Leave(p) PROVE PInv'
<1> USE DEF IInv, PInv
<1>1. /\ page[p] = "open" /\ page' = [page EXCEPT ![p] = "leaving"]
      /\ shown' = [shown EXCEPT ![p] = <<>>] /\ channel' = [channel EXCEPT ![p] = <<>>]
      /\ UNCHANGED <<stock, pc, cart, entity, cursor, moved, sessions, met, excused>>
  BY DEF Leave, threads
<1>2. /\ page'[p] = "leaving" /\ shown'[p] = <<>> /\ channel'[p] = <<>>
      /\ \A q \in Page : q # p => page'[q] = page[q] /\ shown'[q] = shown[q] /\ channel'[q] = channel[q]
  BY <1>1 DEF PageShapes
<1>3. PageShapes'
  BY <1>1, EmptySeq DEF PageShapes
<1>4. Sessions'
  BY <1>1, <1>2 DEF Sessions
<1>5. PageOK(p)'
  BY <1>2, NoMemory DEF PageOK
<1>6. \A b \in Purchase : CursorOK(b)'
  BY <1>1, <1>2 DEF CursorOK
<1>7. \A b \in Purchase, q \in Page : Told(b, q)' <=> Told(b, q)
  BY <1>1 DEF Told, Behind
<1> QED  BY <1>1, <1>2, <1>3, <1>4, <1>5, <1>6, <1>7, PageInv

LEMMA ClosePages == ASSUME IInv, PInv, NEW p \in Page, Close(p) PROVE PInv'
<1> USE DEF IInv, PInv
<1>1. /\ page[p] = "leaving" /\ page' = [page EXCEPT ![p] = "away"]
      /\ moved' = moved \cup At("telling")
      /\ excused' = excused \cup PassedOver
      /\ UNCHANGED <<stock, pc, cart, entity, cursor, shown, channel, met>>
  BY DEF Close, threads
<1>2. PICK i \in DOMAIN sessions : sessions[i] = p /\ sessions' = RemoveAt(sessions, i)
  BY DEF Close
<1>3. page'[p] = "away" /\ \A q \in Page : q # p => page'[q] = page[q]
  BY <1>1 DEF PageShapes
<1>4. /\ sessions' \in Seq(Page) /\ IsInjective(sessions')
      /\ ToSet(sessions') = ToSet(sessions) \ {p}
      /\ \A j \in DOMAIN sessions : j # i =>
           \E k \in DOMAIN sessions' : k <= j /\ sessions'[k] = sessions[j]
  BY <1>2, SessionRemoved DEF Sessions
<1>5. PageShapes'
  BY <1>1 DEF PageShapes, At
<1>6. Sessions'
  BY <1>3, <1>4 DEF Sessions
<1>7. PageOK(p)'
  BY <1>1, <1>3 DEF PageOK
<1>8. ASSUME NEW b \in Purchase PROVE CursorOK(b)'
  <2>1. pc[b] = "telling" => b \in moved'
    BY <1>1 DEF At
  <2> QED  BY <1>1, <2>1 DEF CursorOK
<1>9. ASSUME NEW b \in Purchase, NEW q \in Page \ excused', q # p
      PROVE  Told(b, q)' <=> Told(b, q)
  <2>1. q \in Behind(b) => q \in Behind(b)'
    <3> SUFFICES ASSUME NEW j \in DOMAIN sessions, j \in 1..cursor[b], sessions[j] = q
                 PROVE  q \in Behind(b)'
      BY DEF Behind
    <3>1. PICK k \in DOMAIN sessions' : k <= j /\ sessions'[k] = q
      BY <1>2, <1>4, <1>9
    <3>2. k \in Nat \ {0} /\ cursor[b] \in Nat
      BY <1>4, LenProperties DEF PageShapes
    <3>3. k \in 1..cursor'[b]
      BY <1>1, <3>1, <3>2
    <3> QED  BY <3>1, <3>3 DEF Behind
  <2>2. pc[b] = "telling" => q \notin Behind(b)' \ Behind(b)
    BY <1>1, <1>9 DEF PassedOver, At
  <2> QED  BY <1>1, <2>1, <2>2 DEF Told
<1> QED  BY <1>1, <1>3, <1>5, <1>6, <1>7, <1>8, <1>9, PageInv

LEMMA StepPages == IInv /\ PInv /\ [Next]_vars => PInv'
<1> SUFFICES ASSUME IInv, PInv, [Next]_vars PROVE PInv'
  OBVIOUS
<1>1. ASSUME NEW b \in Purchase, Buy(b) \/ PurchaseStep(b) PROVE PInv'
  BY <1>1, BuyPages, FindProductPages, SubtractPages, TellPages, ToldAllPages, CommitPages,
     EndedPages DEF PurchaseStep
<1>2. ASSUME NEW p \in Page, Load(p) \/ Open(p) \/ Receive(p) \/ Leave(p) \/ Close(p) PROVE PInv'
  BY <1>2, LoadPages, OpenPages, ReceivePages, LeavePages, ClosePages
<1>3. CASE UNCHANGED vars
  <2>1. UNCHANGED <<stock, pc, cart, entity, cursor, moved, sessions, page, shown, channel, met, excused>>
    BY <1>3 DEF vars, threads, pages
  <2> USE <2>1
  <2>2. PageShapes' /\ Sessions'
    BY DEF PInv, PageShapes, Sessions
  <2>3. \A p \in Page : PageOK(p)'
    BY DEF PInv, PageOK
  <2>4. \A b \in Purchase : CursorOK(b)' /\ MemoryOK(b)'
    BY DEF PInv, CursorOK, MemoryOK
  <2>5. \A p \in Page, x \in Product \ met : Current(p, x) => Current(p, x)'
    BY DEF Current, Told, Behind, Shows
  <2> QED  BY <2>2, <2>3, <2>4, <2>5 DEF PInv
<1> QED  BY <1>1, <1>2, <1>3 DEF Next

LEMMA PagesInvariance == Spec => [](IInv /\ PInv)
  BY InitInv, StepInv, InitPages, StepPages, PTL DEF Spec

\* A session is in the list from its open to its close and once, every purchase
\* knows stocks of products of its cart only and its cursor never passes the
\* number of pages, and pages and messages name products only (buy, onPurchase,
\* open, close).
THEOREM TypeCorrect == Spec => []TypeOK
<1>1. IInv /\ PInv => TypeOK
  <2> SUFFICES ASSUME IInv, PInv PROVE TypeOK
    OBVIOUS
  <2> USE DEF IInv, PInv
  <2>1. \A m \in Stocks : IsStock(m)
    BY DEF Stocks, IsStock
  <2>2. ASSUME NEW b \in Purchase
        PROVE  /\ pc[b] \in {"idle", "reading", "telling", "committing"} \cup Ended
               /\ IsStock(entity[b]) /\ DOMAIN entity[b] \subseteq DOMAIN cart[b]
               /\ cursor[b] \in 0..Cardinality(Page)
    <3>1. cursor[b] \in 0..Cardinality(Page)
      BY FS_CardinalityType, ShopAssumption DEF CursorOK, PageShapes
    <3> QED  BY <2>1, <3>1 DEF Shapes, MemoryOK
  <2>3. ASSUME NEW p \in Page
        PROVE  IsStock(shown[p]) /\ \A i \in DOMAIN channel[p] : IsStock(channel[p][i])
    <3>1. \A i \in DOMAIN channel[p] : channel[p][i] \in Stocks
      BY LenProperties DEF PageShapes
    <3> QED  BY <2>1, <3>1 DEF PageOK
  <2> QED  BY <2>2, <2>3 DEF TypeOK, Shapes, PageShapes, Sessions
<1> QED  BY <1>1, PagesInvariance, PTL

\* With any number of purchases, products and pages, an open page that is not
\* excused shows the committed stock of a product on which no two purchases met,
\* when no purchase is in progress and no message is on its way (onPurchase, open,
\* close, onmessage).
THEOREM PagesCurrent == Spec => []PageIsCurrent
<1>1. IInv /\ PInv => PageIsCurrent
  <2> SUFFICES ASSUME IInv, PInv, InProgress = {}, NEW p \in Page \ excused,
                      page[p] = "open", channel[p] = <<>>, NEW x \in Product \ met
               PROVE  shown[p][x] = stock[x]
    BY DEF PageIsCurrent
  <2> USE DEF IInv, PInv
  <2>1. \A b \in Purchase : ~ Told(b, p)
    BY DEF InProgress, At, Told
  <2>2. Len(channel[p]) = 0
    BY EmptySeq
  <2> QED  BY <2>1, <2>2 DEF Current, Shows
<1> QED  BY <1>1, PagesInvariance, PTL
==============================================================================
