------------------------ MODULE JavaConcurrencyProofs -----------------------
(***************************************************************************)
(* Proofs about the two dining tables of JavaConcurrency, for every number *)
(* of philosophers N >= 2 (first OrderedForks, then TimedForks), and about *)
(* its barber shop, for any number of clients and barbers and any capacity *)
(* of the queue.                                                           *)
(***************************************************************************)
EXTENDS OrderedForks, TimedForks, Barbershop,
        WellFoundedInduction, FiniteSetTheorems, SequenceTheorems, TLAPS

\* The seats of the constructor of Table: every philosopher takes the fork with
\* the larger number first, the left-handed one included.
LEMMA RingArithmetic ==
  ASSUME NEW p \in Philosopher
  PROVE  (p + 1) % N = IF p = N - 1 THEN 0 ELSE p + 1
<1>1. CASE p = N - 1
  BY <1>1, TableAssumption DEF Philosopher
<1>2. CASE p # N - 1
  BY <1>2, TableAssumption DEF Philosopher
<1> QED  BY <1>1, <1>2

LEMMA ForkOrder ==
  ASSUME NEW p \in Philosopher
  PROVE  /\ First(p) \in Fork /\ Second(p) \in Fork
         /\ Second(p) < First(p)
  BY TableAssumption, RingArithmetic
  DEF First, Second, LeftFork, RightFork, IsLeftHanded, Philosopher, Fork

LEMMA OrderedInitInv == Init => OrderedInv
  BY TableAssumption DEF Init, OrderedInv, OrderedTypeOK, LocksMatch, Holds

LEMMA OrderedStepInv == OrderedInv /\ [OrderedNext]_vars => OrderedInv'
<1> SUFFICES ASSUME OrderedInv, [OrderedNext]_vars PROVE OrderedInv'
  OBVIOUS
<1> USE DEF OrderedInv, OrderedTypeOK, LocksMatch, Holds
<1>1. ASSUME NEW p \in Philosopher, Think(p) PROVE OrderedInv'
  BY <1>1 DEF Goto, Think
<1>2. ASSUME NEW p \in Philosopher, TakeFirst(p) PROVE OrderedInv'
  BY <1>2, ForkOrder, TableAssumption DEF Goto, TakeFirst, Take
<1>3. ASSUME NEW p \in Philosopher, TakeSecond(p) PROVE OrderedInv'
  BY <1>3, ForkOrder, TableAssumption DEF Goto, TakeSecond, Take
<1>4. ASSUME NEW p \in Philosopher, DropFirst(p) PROVE OrderedInv'
  <2>1. First(p) # Second(p) /\ First(p) \in Fork /\ First(p) \in Int /\ Second(p) \in Int
    BY ForkOrder DEF Fork
  <2> QED  BY <1>4, <2>1, TableAssumption DEF Goto, DropFirst, Drop
<1>5. ASSUME NEW p \in Philosopher, DropSecond(p) PROVE OrderedInv'
  BY <1>5, ForkOrder, TableAssumption DEF Goto, DropSecond, Drop
<1>6. CASE UNCHANGED vars
  BY <1>6 DEF vars
<1> QED  BY <1>1, <1>2, <1>3, <1>4, <1>5, <1>6 DEF OrderedNext, OrderedRun

\* At a table of any size a lock has at most one owner, and it is the philosopher
\* whose place in takeForks and dropForks says so.
THEOREM OrderedInvariance == OrderedSpec => []OrderedInv
  BY OrderedInitInv, OrderedStepInv, PTL DEF OrderedSpec

\* The state has the declared shape for every size of the table.
THEOREM OrderedTypeCorrect == OrderedSpec => []OrderedTypeOK
<1>1. OrderedInv => OrderedTypeOK
  BY DEF OrderedInv
<1> QED  BY <1>1, OrderedInvariance, PTL
------------------------------------------------------------------------------
\* A fork that blocks somebody is held by a philosopher that eats, drops, or
\* waits for a fork with a smaller number than the one it holds.
LEMMA HolderWaitsLower ==
  ASSUME OrderedInv, NEW p \in Philosopher, NEW q \in Philosopher, WaitsFor(p, q), Blocked(q)
  PROVE  /\ pc[q] = "second"
         /\ pc[p] = "second" => First(q) < First(p)
<1> USE DEF OrderedInv, OrderedTypeOK, LocksMatch, Holds, WaitsFor, Blocked
<1>1. pc[q] \in {"first", "second"}
  OBVIOUS
<1>2. pc[q] = "second"
  BY <1>1, ForkOrder
<1>3. ASSUME pc[p] = "second" PROVE First(q) < First(p)
  <2>1. Second(p) = First(q)
    BY <1>2, <1>3, ForkOrder
  <2> QED  BY <2>1, ForkOrder
<1> QED  BY <1>2, <1>3

\* No circle of waiting philosophers: among those that hold one fork and wait
\* for another, the one whose fork has the smallest number waits for nobody
\* that waits.
LEMMA NobodyStuck == OrderedInv => NoCircularWait
<1> SUFFICES ASSUME OrderedInv, \A p \in Philosopher : Blocked(p) PROVE FALSE
  BY DEF NoCircularWait
<1> DEFINE Held == {f \in Fork : \E p \in Philosopher : pc[p] = "second" /\ f = First(p)}
<1>1. Held # {}
  <2>1. 0 \in Philosopher
    BY TableAssumption DEF Philosopher
  <2>2. PICK q \in Philosopher : WaitsFor(0, q)
    BY <2>1 DEF Blocked
  <2>3. pc[q] = "second"
    BY <2>1, <2>2, HolderWaitsLower
  <2> QED  BY <2>3, ForkOrder
<1>2. Held \subseteq Nat
  BY TableAssumption DEF Fork
<1>3. PICK f \in Held : \A g \in Held : ~ (<<g, f>> \in OpToRel(<, Nat))
  <2> HIDE DEF Held
  <2> QED  BY <1>1, <1>2, NatLessThanWellFounded, WFMin
<1>4. \A g \in Held : ~ (g < f)
  BY <1>2, <1>3 DEF OpToRel
<1>5. PICK p \in Philosopher : pc[p] = "second" /\ f = First(p)
  BY <1>3
<1>6. PICK q \in Philosopher : WaitsFor(p, q)
  BY DEF Blocked
<1>7. pc[q] = "second" /\ First(q) < f
  BY <1>5, <1>6, HolderWaitsLower
<1>8. First(q) \in Held
  BY <1>7, ForkOrder
<1> QED  BY <1>4, <1>7, <1>8

\* The left-handed philosopher is enough at a table of any size: whatever the
\* threads did, one of them is not blocked in Fork.take.
THEOREM DeadlockFree == OrderedSpec => []NoCircularWait
  BY OrderedInvariance, NobodyStuck, PTL
------------------------------------------------------------------------------
(* Refinement.                                                             *)

LEMMA InitRefines == Init => Dinner!Init
  BY DEF Init, Dinner!Init, Dinner!Philosopher, Philosopher, Mood

LEMMA OrderedEatsAlone ==
  ASSUME OrderedInv, NEW p \in Philosopher, NEW q \in Philosopher, pc[p] = "second",
         owner[Second(p)] = Nobody, Dinner!Neighbours(p, q)
  PROVE  pc[q] # "eat"
<1> SUFFICES ASSUME pc[q] = "eat" PROVE FALSE
  OBVIOUS
<1>1. {First(p), Second(p)} = {LeftFork(p), RightFork(p)}
  BY DEF First, Second
<1>2. {First(q), Second(q)} = {LeftFork(q), RightFork(q)}
  BY DEF First, Second
<1>3. owner[First(q)] = q /\ owner[Second(q)] = q /\ owner[First(p)] = p
  BY ForkOrder DEF OrderedInv, LocksMatch, Holds
<1>4. RightFork(p) = LeftFork(q) \/ RightFork(q) = LeftFork(p)
  BY DEF Dinner!Neighbours, Dinner!RightOf, RightFork, LeftFork
<1> QED  BY <1>1, <1>2, <1>3, <1>4, TableAssumption DEF Dinner!Neighbours

LEMMA OrderedStepRefines == OrderedInv /\ [OrderedNext]_vars => [Dinner!Next]_Mood
<1> SUFFICES ASSUME OrderedInv, [OrderedNext]_vars PROVE [Dinner!Next]_Mood
  OBVIOUS
<1> USE DEF OrderedInv, OrderedTypeOK, Mood
<1>1. ASSUME NEW p \in Philosopher, Think(p) PROVE Dinner!GetHungry(p)
  BY <1>1 DEF Goto, Think, Dinner!GetHungry
<1>2. ASSUME NEW p \in Philosopher, TakeFirst(p) PROVE UNCHANGED Mood
  BY <1>2 DEF Goto, TakeFirst
<1>3. ASSUME NEW p \in Philosopher, TakeSecond(p) PROVE Dinner!Eat(p)
  <2>1. \A q \in Philosopher : Dinner!Neighbours(p, q) => pc[q] # "eat"
    BY <1>3, OrderedEatsAlone DEF Goto, TakeSecond, Take
  <2> QED  BY <1>3, <2>1 DEF Goto, TakeSecond, Dinner!Eat, Dinner!Philosopher, Philosopher
<1>4. ASSUME NEW p \in Philosopher, DropFirst(p) PROVE Dinner!Leave(p)
  BY <1>4 DEF Goto, DropFirst, Dinner!Leave
<1>5. ASSUME NEW p \in Philosopher, DropSecond(p) PROVE UNCHANGED Mood
  BY <1>5 DEF Goto, DropSecond
<1>6. CASE UNCHANGED vars
  BY <1>6 DEF vars
<1> QED  BY <1>1, <1>2, <1>3, <1>4, <1>5, <1>6
         DEF OrderedNext, OrderedRun, Dinner!Next, Dinner!Philosopher, Philosopher

\* Two neighbours never eat at a time, at a table of any size.
THEOREM OrderedImplements == OrderedSpec => ImplementsDining
  BY InitRefines, OrderedStepRefines, OrderedInvariance, PTL
  DEF OrderedSpec, ImplementsDining, Dinner!Spec
------------------------------------------------------------------------------
(* The table with timeouts.                                                *)

\* The ring the constructor of Table builds is the ring of Dining.
LEMMA Ring ==
  ASSUME NEW p \in Philosopher
  PROVE  /\ LeftFork(p) \in Fork /\ RightFork(p) \in Fork
         /\ LeftFork(p) # RightFork(p)
         /\ Dinner!RightOf(p) = RightFork(p)
  BY RingArithmetic, TableAssumption
  DEF Philosopher, Fork, LeftFork, RightFork, Dinner!RightOf

LEMMA TimedInitInv == Init => TimedInv
  BY TableAssumption, Ring
  DEF Init, TimedInv, TimedTypeOK, OwnForks, HandsOK, HoldsLeft, HoldsRight

LEMMA TimedStepInv == TimedInv /\ [TimedNext]_vars => TimedInv'
<1> SUFFICES ASSUME TimedInv, [TimedNext]_vars PROVE TimedInv'
  OBVIOUS
<1> USE TableAssumption, Ring
    DEF TimedInv, TimedTypeOK, OwnForks, HandsOK, HoldsLeft, HoldsRight
<1>1. ASSUME NEW p \in Philosopher, Think(p) PROVE TimedInv'
  BY <1>1 DEF Goto, Think
<1>2. ASSUME NEW p \in Philosopher, TakeLeft(p) PROVE TimedInv'
  BY <1>2 DEF Goto, TakeLeft, Take
<1>3. ASSUME NEW p \in Philosopher, TakeRight(p) PROVE TimedInv'
  BY <1>3 DEF Goto, TakeRight, Take
<1>4. ASSUME NEW p \in Philosopher, GiveUpLeft(p) PROVE TimedInv'
  BY <1>4 DEF Goto, GiveUpLeft, TimedOut
<1>5. ASSUME NEW p \in Philosopher, GiveUpRight(p) PROVE TimedInv'
  BY <1>5 DEF Goto, GiveUpRight, TimedOut
<1>6. ASSUME NEW p \in Philosopher, Finish(p) PROVE TimedInv'
  BY <1>6 DEF Goto, Finish
<1>7. ASSUME NEW p \in Philosopher, DropLeft(p) PROVE TimedInv'
  BY <1>7 DEF Goto, DropLeft, Drop
<1>8. ASSUME NEW p \in Philosopher, DropRight(p) PROVE TimedInv'
  BY <1>8 DEF Goto, DropRight, Drop
<1>9. CASE UNCHANGED vars
  BY <1>9 DEF vars
<1> QED
  BY <1>1, <1>2, <1>3, <1>4, <1>5, <1>6, <1>7, <1>8, <1>9 DEF TimedNext, TimedRun

\* At a table of any size a philosopher holds exactly the forks its place in eat()
\* says, and the isHeld test drops no fork of a neighbour.
THEOREM TimedInvariance == TimedSpec => []TimedInv
  BY TimedInitInv, TimedStepInv, PTL DEF TimedSpec

\* The state has the declared shape for every size of the table.
THEOREM TimedTypeCorrect == TimedSpec => []TimedTypeOK
<1>1. TimedInv => TimedTypeOK
  BY DEF TimedInv
<1> QED  BY <1>1, TimedInvariance, PTL

\* The finally block of eat() leaves no fork behind, whether both forks, one
\* or none had been taken when it began.
THEOREM EmptyHands == TimedSpec => []ThinksEmptyHanded
<1>1. TimedInv => ThinksEmptyHanded
  BY Ring DEF TimedInv, TimedTypeOK, ThinksEmptyHanded, OwnForks, HandsOK, HoldsLeft, HoldsRight
<1> QED  BY <1>1, TimedInvariance, PTL
------------------------------------------------------------------------------
(* Refinement.                                                             *)

LEMMA TimedEatsAlone ==
  ASSUME TimedInv, NEW p \in Philosopher, NEW q \in Philosopher, HoldsLeft(p),
         owner[RightFork(p)] = Nobody, Dinner!Neighbours(p, q)
  PROVE  pc[q] # "eat"
<1> SUFFICES ASSUME pc[q] = "eat" PROVE FALSE
  OBVIOUS
<1>1. owner[LeftFork(q)] = q /\ owner[RightFork(q)] = q
  BY DEF TimedInv, HandsOK, HoldsLeft, HoldsRight
<1>2. RightFork(p) = LeftFork(q) \/ RightFork(q) = LeftFork(p)
  BY Ring DEF Dinner!Neighbours, LeftFork
<1> QED  BY <1>1, <1>2, TableAssumption DEF HoldsLeft, Dinner!Neighbours

LEMMA TimedStepRefines == TimedInv /\ [TimedNext]_vars => [Dinner!Next]_Mood
<1> SUFFICES ASSUME TimedInv, [TimedNext]_vars PROVE [Dinner!Next]_Mood
  OBVIOUS
<1> USE DEF TimedInv, TimedTypeOK, Mood
<1>1. ASSUME NEW p \in Philosopher, Think(p) PROVE Dinner!GetHungry(p)
  BY <1>1 DEF Goto, Think, Dinner!GetHungry
<1>2. ASSUME NEW p \in Philosopher, TakeRight(p) PROVE Dinner!Eat(p)
  <2>1. \A q \in Philosopher : Dinner!Neighbours(p, q) => pc[q] # "eat"
    BY <1>2, TimedEatsAlone DEF Goto, TakeRight, Take, HandsOK
  <2> QED  BY <1>2, <2>1 DEF Goto, TakeRight, Dinner!Eat, Dinner!Philosopher, Philosopher
<1>3. ASSUME NEW p \in Philosopher, GiveUpLeft(p) \/ GiveUpRight(p) \/ Finish(p)
      PROVE  Dinner!Leave(p)
  BY <1>3 DEF Goto, GiveUpLeft, GiveUpRight, Finish, Dinner!Leave
<1>4. ASSUME NEW p \in Philosopher, TakeLeft(p) \/ DropLeft(p) \/ DropRight(p)
      PROVE  UNCHANGED Mood
  BY <1>4 DEF Goto, TakeLeft, DropLeft, DropRight
<1>5. CASE UNCHANGED vars
  BY <1>5 DEF vars
<1> QED  BY <1>1, <1>2, <1>3, <1>4, <1>5
         DEF TimedNext, TimedRun, Dinner!Next, Dinner!Philosopher, Philosopher

\* Two neighbours never eat at a time, at a table of any size.
THEOREM TimedImplements == TimedSpec => ImplementsDining
  BY InitRefines, TimedStepRefines, TimedInvariance, PTL
  DEF TimedSpec, ImplementsDining, Dinner!Spec
------------------------------------------------------------------------------
(***************************************************************************)
(* The barber shop.  OnePlaceEach counts the places of a client; the       *)
(* inductive invariant says the same without counting: no two places of    *)
(* the queue, no two barbers and no two kinds of places have the same      *)
(* client.                                                                 *)
(***************************************************************************)
Queued(c) == \E i \in 1..Len(clients) : clients[i] = c

InHands(c) == \E b \in Barber : barber[b] = c

Inside(c) == client[c] \in {"queue", "chair"}

QueueOnce == \A i, j \in 1..Len(clients) : clients[i] = clients[j] => i = j

HandsOnce == \A b, d \in Barber : barber[b] = barber[d] /\ barber[b] # NoClient => b = d

\* A client is inside when, and only when, it is in one of the three books.
Booked(c) == /\ Inside(c) <=> Queued(c) \/ InHands(c) \/ shave[c] = 1
             /\ ~ (Queued(c) /\ InHands(c))
             /\ ~ (Queued(c) /\ shave[c] = 1)
             /\ ~ (InHands(c) /\ shave[c] = 1)

BarberInv == BarberTypeOK /\ QueueOnce /\ HandsOnce /\ \A c \in Client : Booked(c)

LEMMA BarberInitInv == BarberInit => BarberInv
<1> SUFFICES ASSUME BarberInit PROVE BarberInv
  OBVIOUS
<1>1. clients \in Seq(Client) /\ Len(clients) = 0
  BY DEF BarberInit
<1>2. chairs \in 0..Cardinality(Barber)
  BY ShopAssumption, FS_CardinalityType DEF BarberInit
<1>3. BarberTypeOK
  BY <1>1, <1>2, ShopAssumption DEF BarberInit, BarberTypeOK
<1>4. QueueOnce /\ HandsOnce
  BY <1>1 DEF BarberInit, QueueOnce, HandsOnce
<1>5. \A c \in Client : Booked(c)
  BY <1>1, ShopAssumption DEF BarberInit, Booked, Inside, Queued, InHands
<1> QED  BY <1>3, <1>4, <1>5 DEF BarberInv

\* The steps that change no book: the client's place in run() and the chairs.
LEMMA WalkInv ==
  ASSUME BarberInv, UNCHANGED <<clients, shave, barber>>, BarberTypeOK',
         \A c \in Client : Inside(c)' <=> Inside(c)
  PROVE  BarberInv'
<1>1. QueueOnce' /\ HandsOnce'
  BY DEF BarberInv, QueueOnce, HandsOnce
<1>2. \A c \in Client : (Queued(c)' <=> Queued(c)) /\ (InHands(c)' <=> InHands(c)) /\ shave'[c] = shave[c]
  BY DEF Queued, InHands
<1>3. \A c \in Client : Booked(c)'
  BY <1>2 DEF BarberInv, Booked
<1> QED  BY <1>1, <1>3 DEF BarberInv

LEMMA OfferInv == ASSUME BarberInv, NEW c \in Client, Offer(c) PROVE BarberInv'
<1> USE DEF BarberInv
<1>1. /\ client[c] = "door" /\ Len(clients) < Capacity
      /\ clients' = Append(clients, c)
      /\ client' = [client EXCEPT ![c] = "queue"]
      /\ UNCHANGED <<chairs, shave, barber>>
  BY DEF Offer
<1>2. clients \in Seq(Client) /\ Len(clients) \in Nat
  BY DEF BarberTypeOK
<1>3. /\ clients' \in Seq(Client) /\ Len(clients') = Len(clients) + 1
      /\ clients'[Len(clients) + 1] = c
      /\ \A i \in 1..Len(clients) : clients'[i] = clients[i]
  BY <1>1, <1>2, AppendProperties
<1>4. BarberTypeOK'
  BY <1>1, <1>2, <1>3, ShopAssumption DEF BarberTypeOK
<1>5. ~ Queued(c) /\ ~ InHands(c) /\ shave[c] # 1
  BY <1>1 DEF Booked, Inside
<1>6. QueueOnce'
  BY <1>2, <1>3, <1>5 DEF QueueOnce, Queued
<1>7. HandsOnce'
  BY <1>1 DEF HandsOnce
<1>8. ASSUME NEW a \in Client PROVE Booked(a)'
  <2>1. (InHands(a)' <=> InHands(a)) /\ shave'[a] = shave[a]
    BY <1>1 DEF InHands
  <2>2. CASE a = c
    <3>1. Queued(a)' /\ Inside(a)'
      BY <1>1, <1>2, <1>3, <2>2 DEF Queued, Inside, BarberTypeOK
    <3> QED  BY <1>5, <2>1, <2>2, <3>1 DEF Booked
  <2>3. CASE a # c
    <3>1. Queued(a)' <=> Queued(a)
      BY <1>2, <1>3, <2>3 DEF Queued
    <3>2. Inside(a)' <=> Inside(a)
      BY <1>1, <2>3 DEF Inside, BarberTypeOK
    <3> QED  BY <2>1, <3>1, <3>2 DEF Booked
  <2> QED  BY <2>2, <2>3
<1> QED  BY <1>4, <1>6, <1>7, <1>8

LEMMA TakeNextInv == ASSUME BarberInv, NEW b \in Barber, TakeNext(b) PROVE BarberInv'
<1> USE DEF BarberInv
<1>0. PICK c : c = Head(clients)
  OBVIOUS
<1>1. /\ barber[b] = NoClient /\ clients # <<>>
      /\ barber' = [barber EXCEPT ![b] = c] /\ clients' = Tail(clients)
      /\ UNCHANGED <<chairs, shave, client>>
  BY <1>0 DEF TakeNext
<1>2. clients \in Seq(Client) /\ Len(clients) \in Nat \ {0}
  BY <1>1, EmptySeq, LenProperties DEF BarberTypeOK
<1>3. /\ c \in Client /\ c = clients[1]
      /\ clients' \in Seq(Client) /\ Len(clients') = Len(clients) - 1
      /\ \A i \in 1..Len(clients') : clients'[i] = clients[i + 1]
  BY <1>0, <1>1, <1>2, HeadTailProperties
<1>4. BarberTypeOK'
  BY <1>1, <1>2, <1>3, ShopAssumption DEF BarberTypeOK
<1>5. Queued(c) /\ ~ InHands(c) /\ shave[c] # 1
  BY <1>2, <1>3 DEF Booked, Queued
<1>6. QueueOnce'
  BY <1>2, <1>3 DEF QueueOnce
<1>7. barber'[b] = c /\ \A d \in Barber : d # b => barber'[d] = barber[d]
  BY <1>1 DEF BarberTypeOK
<1>8. HandsOnce'
  BY <1>5, <1>7 DEF HandsOnce, InHands
<1>9. ASSUME NEW a \in Client PROVE Booked(a)'
  <2>1. (Inside(a)' <=> Inside(a)) /\ shave'[a] = shave[a]
    BY <1>1 DEF Inside
  <2>2. CASE a = c
    <3>1. InHands(a)'
      BY <1>7, <2>2 DEF InHands
    <3>2. ~ Queued(a)'
      BY <1>2, <1>3, <2>2 DEF Queued, QueueOnce
    <3> QED  BY <1>5, <2>1, <2>2, <3>1, <3>2 DEF Booked
  <2>3. CASE a # c
    <3>1. InHands(a)' <=> InHands(a)
      BY <1>1, <1>7, <2>3, ShopAssumption DEF InHands
    <3>2. Queued(a)' => Queued(a)
      BY <1>2, <1>3 DEF Queued
    <3>3. ASSUME NEW i \in 1..Len(clients), clients[i] = a PROVE Queued(a)'
      <4>1. i # 1
        BY <1>3, <2>3, <3>3
      <4>2. i - 1 \in 1..Len(clients') /\ clients'[i - 1] = a
        BY <1>2, <1>3, <3>3, <4>1
      <4> QED  BY <4>2 DEF Queued
    <3> QED  BY <2>1, <3>1, <3>2, <3>3 DEF Booked, Queued
  <2> QED  BY <2>2, <2>3
<1> QED  BY <1>4, <1>6, <1>8, <1>9

LEMMA ShavedInv == ASSUME BarberInv, NEW b \in Barber, Shaved(b) PROVE BarberInv'
<1> USE DEF BarberInv
<1>0. PICK c : c = barber[b]
  OBVIOUS
<1>1. /\ c \in Client /\ shave' = [shave EXCEPT ![c] = @ + 1]
      /\ barber' = [barber EXCEPT ![b] = NoClient]
      /\ UNCHANGED <<clients, chairs, client>>
  BY <1>0 DEF Shaved, BarberTypeOK
<1>2. InHands(c) /\ ~ Queued(c) /\ shave[c] = 0
  BY <1>0, <1>1 DEF InHands, Booked, BarberTypeOK
<1>3. shave'[c] = 1 /\ \A a \in Client : a # c => shave'[a] = shave[a]
  BY <1>1, <1>2 DEF BarberTypeOK
<1>4. barber'[b] = NoClient /\ \A d \in Barber : d # b => barber'[d] = barber[d]
  BY <1>1 DEF BarberTypeOK
<1>5. BarberTypeOK'
  BY <1>1, <1>2 DEF BarberTypeOK
<1>6. QueueOnce' /\ HandsOnce'
  BY <1>1, <1>4 DEF QueueOnce, HandsOnce
<1>7. ASSUME NEW a \in Client PROVE Booked(a)'
  <2>1. (Inside(a)' <=> Inside(a)) /\ (Queued(a)' <=> Queued(a))
    BY <1>1 DEF Inside, Queued
  <2>2. CASE a = c
    <3>1. ~ InHands(a)'
      BY <1>0, <1>1, <1>4, <2>2, ShopAssumption DEF InHands, HandsOnce
    <3> QED  BY <1>2, <1>3, <2>1, <2>2, <3>1 DEF Booked
  <2>3. CASE a # c
    <3>1. InHands(a)' <=> InHands(a)
      BY <1>0, <1>4, <2>3, ShopAssumption DEF InHands
    <3> QED  BY <1>3, <2>1, <2>3, <3>1 DEF Booked
  <2> QED  BY <2>2, <2>3
<1> QED  BY <1>5, <1>6, <1>7

LEMMA ExitInv == ASSUME BarberInv, NEW c \in Client, Exit(c) PROVE BarberInv'
<1> USE DEF BarberInv
<1>1. /\ client[c] = "chair" /\ shave[c] = 1
      /\ shave' = [shave EXCEPT ![c] = @ - 1]
      /\ client' = [client EXCEPT ![c] = "exited"]
      /\ UNCHANGED <<clients, chairs, barber>>
  BY DEF Exit, BarberTypeOK
<1>2. ~ Queued(c) /\ ~ InHands(c)
  BY <1>1 DEF Booked
<1>3. shave'[c] = 0 /\ \A a \in Client : a # c => shave'[a] = shave[a]
  BY <1>1 DEF BarberTypeOK
<1>4. BarberTypeOK'
  BY <1>1 DEF BarberTypeOK
<1>5. QueueOnce' /\ HandsOnce'
  BY <1>1 DEF QueueOnce, HandsOnce
<1>6. ASSUME NEW a \in Client PROVE Booked(a)'
  <2>1. (InHands(a)' <=> InHands(a)) /\ (Queued(a)' <=> Queued(a))
    BY <1>1 DEF InHands, Queued
  <2>2. CASE a = c
    <3>1. ~ Inside(a)'
      BY <1>1, <2>2 DEF Inside, BarberTypeOK
    <3> QED  BY <1>2, <1>3, <2>1, <2>2, <3>1 DEF Booked
  <2>3. CASE a # c
    <3>1. Inside(a)' <=> Inside(a)
      BY <1>1, <2>3 DEF Inside, BarberTypeOK
    <3> QED  BY <1>3, <2>1, <2>3, <3>1 DEF Booked
  <2> QED  BY <2>2, <2>3
<1> QED  BY <1>4, <1>5, <1>6

LEMMA BarberStepInv == BarberInv /\ [BarberNext]_barberVars => BarberInv'
<1> SUFFICES ASSUME BarberInv, [BarberNext]_barberVars PROVE BarberInv'
  OBVIOUS
<1>0. BarberTypeOK
  BY DEF BarberInv
<1>1. ASSUME NEW c \in Client, Arrive(c) \/ Reject(c) PROVE BarberInv'
  <2>1. BarberTypeOK'
    BY <1>0, <1>1 DEF Arrive, Reject, BarberTypeOK
  <2>2. \A a \in Client : Inside(a)' <=> Inside(a)
    BY <1>0, <1>1 DEF Arrive, Reject, BarberTypeOK, Inside
  <2>3. UNCHANGED <<clients, shave, barber>>
    BY <1>1 DEF Arrive, Reject
  <2> QED  BY <2>1, <2>2, <2>3, WalkInv
<1>2. ASSUME NEW c \in Client, Sit(c) PROVE BarberInv'
  <2>1. BarberTypeOK'
    BY <1>0, <1>2, ShopAssumption, FS_CardinalityType DEF Sit, BarberTypeOK
  <2>2. \A a \in Client : Inside(a)' <=> Inside(a)
    BY <1>0, <1>2 DEF Sit, BarberTypeOK, Inside
  <2>3. UNCHANGED <<clients, shave, barber>>
    BY <1>2 DEF Sit
  <2> QED  BY <2>1, <2>2, <2>3, WalkInv
<1>3. CASE UNCHANGED barberVars
  <2>1. BarberTypeOK' /\ \A a \in Client : Inside(a)' <=> Inside(a)
    BY <1>0, <1>3 DEF barberVars, BarberTypeOK, Inside
  <2>2. UNCHANGED <<clients, shave, barber>>
    BY <1>3 DEF barberVars
  <2> QED  BY <2>1, <2>2, WalkInv
<1> QED
  BY <1>1, <1>2, <1>3, OfferInv, ExitInv, TakeNextInv, ShavedInv DEF BarberNext

LEMMA BarberInvariance == BarberSpec => []BarberInv
  BY BarberInitInv, BarberStepInv, PTL DEF BarberSpec
------------------------------------------------------------------------------
\* For any street and shop the queue keeps to its capacity, chairs never go
\* negative, and a client's semaphore has one permit at most (offer, acquire,
\* shaved).
THEOREM BarberTypeCorrect == BarberSpec => []BarberTypeOK
<1>1. BarberInv => BarberTypeOK
  BY DEF BarberInv
<1> QED  BY <1>1, BarberInvariance, PTL

\* The places of a client inside are one, those of a client outside none.
LEMMA PlacesCounted == BarberInv => OnePlaceEach
<1> SUFFICES ASSUME BarberInv, NEW c \in Client
             PROVE  Cardinality(Places(c)) = IF Inside(c) THEN 1 ELSE 0
  BY DEF OnePlaceEach, Inside
<1>1. shave[c] \in 0..1 /\ Booked(c)
  BY DEF BarberInv, BarberTypeOK
<1>2. shave[c] = 1 => 1..shave[c] = {1}
  OBVIOUS
<1>3. shave[c] # 1 => 1..shave[c] = {}
  BY <1>1
<1>4. CASE Queued(c)
  <2>1. PICK i \in 1..Len(clients) : clients[i] = c
    BY <1>4 DEF Queued
  <2>2. \A j \in 1..Len(clients) : clients[j] = c => j = i
    BY <2>1 DEF BarberInv, QueueOnce
  <2>3. Places(c) = {<<"queue", i>>}
    BY <1>1, <1>3, <1>4, <2>1, <2>2 DEF Places, Booked, InHands
  <2> QED  BY <1>1, <1>4, <2>3, FS_Singleton DEF Booked
<1>5. CASE InHands(c)
  <2>1. PICK b \in Barber : barber[b] = c
    BY <1>5 DEF InHands
  <2>2. \A d \in Barber : barber[d] = c => d = b
    BY <2>1, ShopAssumption DEF BarberInv, HandsOnce
  <2>3. Places(c) = {<<"barber", b>>}
    BY <1>1, <1>3, <1>5, <2>1, <2>2 DEF Places, Booked, Queued
  <2> QED  BY <1>1, <1>5, <2>3, FS_Singleton DEF Booked
<1>6. CASE shave[c] = 1
  <2>1. Places(c) = {<<"shaved", 1>>}
    BY <1>1, <1>2, <1>6 DEF Places, Booked, Queued, InHands
  <2> QED  BY <1>1, <1>6, <2>1, FS_Singleton DEF Booked
<1>7. CASE ~ Queued(c) /\ ~ InHands(c) /\ shave[c] # 1
  <2>1. Places(c) = {}
    BY <1>3, <1>7 DEF Places, Queued, InHands
  <2> QED  BY <1>1, <1>7, <2>1, FS_EmptySet DEF Booked
<1> QED  BY <1>4, <1>5, <1>6, <1>7

\* Any number of barbers and clients: nobody who entered is lost between queue,
\* barbers and semaphore, and nobody is taken twice (enter, next, shaved).
THEOREM NobodyLost == BarberSpec => []OnePlaceEach
  BY BarberInvariance, PlacesCounted, PTL
------------------------------------------------------------------------------
(***************************************************************************)
(* The shop implements the waiting room: its books are the line, the       *)
(* clients in hand and, in the semaphores and at the exit, the shaven.     *)
(***************************************************************************)
Books == <<clients, InHand, Shaven>>

LEMMA BooksOfClient ==
  ASSUME BarberInv, NEW c \in Client
  PROVE  /\ c \in InHand <=> InHands(c)
         /\ c \in Shaven <=> shave[c] = 1 \/ client[c] = "exited"
  BY ShopAssumption DEF InHand, Shaven, InHands, BarberInv, BarberTypeOK

LEMMA RoomInit == BarberInit => Room!Init
  BY DEF BarberInit, Room!Init, InHand, Shaven

\* A barber that waits has nobody in hand: fewer clients are in hand than there
\* are barbers.
LEMMA HandFree ==
  ASSUME BarberInv, NEW b \in Barber, barber[b] = NoClient
  PROVE  Cardinality(InHand) < Cardinality(Barber)
<1> DEFINE f == [c \in InHand |-> CHOOSE d \in Barber : barber[d] = c]
<1>1. \A c \in InHand : f[c] \in Barber \ {b} /\ barber[f[c]] = c
  BY DEF InHand
<1>2. f \in Injection(InHand, Barber \ {b})
  BY <1>1 DEF Injection, IsInjective
<1>3. IsFiniteSet(Barber \ {b}) /\ Cardinality(Barber \ {b}) = Cardinality(Barber) - 1
  BY ShopAssumption, FS_RemoveElement
<1>4. IsFiniteSet(InHand) /\ Cardinality(InHand) <= Cardinality(Barber \ {b})
  BY <1>2, <1>3, FS_Injection
<1>5. Cardinality(InHand) \in Nat /\ Cardinality(Barber) \in Nat
  BY <1>4, ShopAssumption, FS_CardinalityType
<1> QED  BY <1>3, <1>4, <1>5

LEMMA OfferRefines ==
  ASSUME BarberInv, NEW c \in Client, Offer(c)
  PROVE  Room!Enter(c)
<1>1. ~ Queued(c) /\ ~ InHands(c) /\ shave[c] # 1 /\ client[c] = "door"
  BY DEF Offer, BarberInv, Booked, Inside
<1>2. c \notin InHand \cup Shaven /\ \A i \in 1..Len(clients) : clients[i] # c
  BY <1>1, BooksOfClient DEF Queued
<1>3. InHand' = InHand
  BY DEF Offer, InHand
<1>4. Shaven' = Shaven
  BY <1>1 DEF Offer, Shaven, BarberInv, BarberTypeOK
<1> QED  BY <1>2, <1>3, <1>4 DEF Offer, Room!Enter

LEMMA TakeNextRefines ==
  ASSUME BarberInv, NEW b \in Barber, TakeNext(b)
  PROVE  Room!CallFirst
<1>1. clients # <<>> /\ barber[b] = NoClient /\ barber' = [barber EXCEPT ![b] = Head(clients)]
  BY DEF TakeNext
<1>2. Head(clients) \in Client
  BY <1>1, HeadTailProperties DEF BarberInv, BarberTypeOK
<1>3. InHand' = InHand \cup {Head(clients)}
  <2>1. barber'[b] = Head(clients) /\ \A d \in Barber : d # b => barber'[d] = barber[d]
    BY <1>1 DEF BarberInv, BarberTypeOK
  <2> QED  BY <1>1, <1>2, <2>1, ShopAssumption DEF InHand
<1>4. Shaven' = Shaven
  BY DEF TakeNext, Shaven
<1>5. Cardinality(InHand) < Cardinality(Barber)
  BY <1>1, HandFree
<1>6. clients' = Tail(clients)
  BY DEF TakeNext
<1>7. Room!Cardinality(InHand) = Cardinality(InHand)
  BY DEF Room!Cardinality, Cardinality
<1> QED  BY <1>1, <1>3, <1>4, <1>5, <1>6, <1>7 DEF Room!CallFirst

\* Only one barber had the client in hand, and now none has.
LEMMA ShavedRefines ==
  ASSUME BarberInv, NEW b \in Barber, Shaved(b)
  PROVE  barber[b] \in Client /\ Room!Release(barber[b])
<1> DEFINE c == barber[b]
<1>1. c \in Client /\ c # NoClient
  BY DEF Shaved, BarberInv, BarberTypeOK
<1>2. c \in InHand
  BY <1>1 DEF InHand
<1>3. barber'[b] = NoClient /\ \A d \in Barber : d # b => barber'[d] = barber[d]
  BY DEF Shaved, BarberInv, BarberTypeOK
<1>4. InHand' = InHand \ {c}
  <2>1. \A d \in Barber : d # b => barber[d] # c
    BY <1>1 DEF BarberInv, HandsOnce
  <2> QED  BY <1>3, <2>1 DEF InHand
<1>5. Shaven' = Shaven \cup {c}
  <2>1. shave'[c] = shave[c] + 1 /\ \A a \in Client : a # c => shave'[a] = shave[a]
    BY <1>1 DEF Shaved, BarberInv, BarberTypeOK
  <2>2. shave[c] \in 0..1 /\ client' = client
    BY <1>1 DEF Shaved, BarberInv, BarberTypeOK
  <2>3. c \in Shaven'
    BY <1>1, <2>1, <2>2 DEF Shaven
  <2>4. \A a \in Client : a # c => (a \in Shaven' <=> a \in Shaven)
    BY <2>1, <2>2 DEF Shaven
  <2> QED  BY <1>1, <2>3, <2>4 DEF Shaven
<1> HIDE DEF c
<1>6. clients' = clients
  BY DEF Shaved
<1>7. Room!Release(c)
  BY <1>2, <1>4, <1>5, <1>6 DEF Room!Release
<1> QED  BY <1>1, <1>7 DEF c

\* Outside of the room: to the door, to a chair, away.  Who leaves was shaven.
LEMMA WalkStutters ==
  ASSUME BarberInv, NEW c \in Client, Arrive(c) \/ Reject(c) \/ Sit(c) \/ Exit(c)
  PROVE  UNCHANGED Books
<1>1. clients' = clients /\ InHand' = InHand
  BY DEF Arrive, Reject, Sit, Exit, InHand
<1>2. \A a \in Client : a # c => shave'[a] = shave[a] /\ client'[a] = client[a]
  BY DEF Arrive, Reject, Sit, Exit, BarberInv, BarberTypeOK
<1>3. c \in Shaven' <=> c \in Shaven
  BY DEF Arrive, Reject, Sit, Exit, Shaven, BarberInv, BarberTypeOK
<1>4. Shaven' = Shaven
  BY <1>2, <1>3 DEF Shaven
<1> QED  BY <1>1, <1>4 DEF Books

LEMMA RoomStep == BarberInv /\ [BarberNext]_barberVars => [Room!Next]_Books
<1> SUFFICES ASSUME BarberInv, [BarberNext]_barberVars PROVE [Room!Next]_Books
  OBVIOUS
<1>1. ASSUME NEW c \in Client, Offer(c) PROVE Room!Next
  BY <1>1, OfferRefines DEF Room!Next
<1>2. ASSUME NEW b \in Barber, TakeNext(b) PROVE Room!Next
  BY <1>2, TakeNextRefines DEF Room!Next
<1>3. ASSUME NEW b \in Barber, Shaved(b) PROVE Room!Next
  BY <1>3, ShavedRefines DEF Room!Next
<1>4. CASE UNCHANGED barberVars
  BY <1>4 DEF barberVars, Books, InHand, Shaven
<1> QED  BY <1>1, <1>2, <1>3, <1>4, WalkStutters DEF BarberNext

\* Every step of a client or a barber is one of the waiting room or is not seen
\* there: clients are called in their order, and shaved once (enter, next, shave).
THEOREM RoomImplemented == BarberSpec => Room!Safety
  BY RoomInit, RoomStep, BarberInvariance, PTL
  DEF BarberSpec, Room!Safety, Books, Room!roomVars
------------------------------------------------------------------------------
\* Every chair that is not free was taken by a client that sits or has left.
Seated == {c \in Client : client[c] \in {"chair", "exited"}}

ChairsTaken == chairs + Cardinality(Seated) = Cardinality(Barber)

LEMMA SeatedFinite == IsFiniteSet(Seated) /\ Cardinality(Seated) \in Nat
<1>1. IsFiniteSet(Seated)
  BY ShopAssumption, FS_Subset DEF Seated
<1> QED  BY <1>1, FS_CardinalityType

LEMMA ChairsInit == BarberInit => ChairsTaken
<1> SUFFICES ASSUME BarberInit PROVE ChairsTaken
  OBVIOUS
<1>1. Seated = {}
  BY DEF BarberInit, Seated
<1>2. Cardinality(Seated) = 0
  BY <1>1, FS_EmptySet
<1>3. chairs = Cardinality(Barber) /\ Cardinality(Barber) \in Nat
  BY ShopAssumption, FS_CardinalityType DEF BarberInit
<1> QED  BY <1>2, <1>3 DEF ChairsTaken

LEMMA ChairsStep == BarberTypeOK /\ ChairsTaken /\ [BarberNext]_barberVars => ChairsTaken'
<1> SUFFICES ASSUME BarberTypeOK, ChairsTaken, [BarberNext]_barberVars PROVE ChairsTaken'
  OBVIOUS
<1>1. ASSUME NEW c \in Client, Sit(c) PROVE ChairsTaken'
  <2>1. c \notin Seated /\ Seated' = Seated \cup {c}
    BY <1>1 DEF Sit, Seated, BarberTypeOK
  <2>2. Cardinality(Seated') = Cardinality(Seated) + 1
    BY <2>1, SeatedFinite, FS_AddElement
  <2>3. chairs' = chairs - 1 /\ chairs \in Int
    BY <1>1 DEF Sit, BarberTypeOK
  <2> QED  BY <2>2, <2>3, SeatedFinite DEF ChairsTaken
<1>2. ASSUME UNCHANGED chairs, Seated' = Seated PROVE ChairsTaken'
  BY <1>2 DEF ChairsTaken
<1>3. ASSUME NEW c \in Client, Arrive(c) \/ Offer(c) \/ Reject(c) \/ Exit(c) PROVE ChairsTaken'
  <2>1. UNCHANGED chairs /\ Seated' = Seated
    BY <1>3 DEF Arrive, Offer, Reject, Exit, Seated, BarberTypeOK
  <2> QED  BY <1>2, <2>1
<1>4. ASSUME NEW b \in Barber, TakeNext(b) \/ Shaved(b) PROVE ChairsTaken'
  <2>1. UNCHANGED chairs /\ Seated' = Seated
    BY <1>4 DEF TakeNext, Shaved, Seated
  <2> QED  BY <1>2, <2>1
<1>5. CASE UNCHANGED barberVars
  <2>1. UNCHANGED chairs /\ Seated' = Seated
    BY <1>5 DEF barberVars, Seated
  <2> QED  BY <1>2, <2>1
<1> QED  BY <1>1, <1>3, <1>4, <1>5 DEF BarberNext

\* Whatever the numbers of clients and barbers, the clients that find no chair
\* left wait for ever and no more clients leave than there are barbers: enter
\* acquires a chair and nothing releases one.
THEOREM ChairsLost == BarberSpec => NoChairReturns
<1>1. BarberSpec => [](BarberTypeOK /\ ChairsTaken)
  <2>1. BarberSpec => []BarberTypeOK
    BY BarberTypeCorrect
  <2> QED  BY <2>1, ChairsInit, ChairsStep, PTL DEF BarberSpec
<1>2. BarberTypeOK /\ ChairsTaken
        => Cardinality({c \in Client : client[c] = "exited"}) <= Cardinality(Barber)
  <2> SUFFICES ASSUME BarberTypeOK, ChairsTaken
               PROVE  Cardinality({c \in Client : client[c] = "exited"}) <= Cardinality(Barber)
    OBVIOUS
  <2> DEFINE Exited == {c \in Client : client[c] = "exited"}
  <2>1. Exited \subseteq Seated
    BY DEF Seated
  <2>2. Cardinality(Exited) \in Nat /\ Cardinality(Exited) <= Cardinality(Seated)
    BY <2>1, SeatedFinite, FS_Subset, FS_CardinalityType
  <2>3. Cardinality(Barber) \in Nat /\ chairs \in 0..Cardinality(Barber)
    BY ShopAssumption, FS_CardinalityType DEF BarberTypeOK
  <2> QED  BY <2>2, <2>3, SeatedFinite DEF ChairsTaken
<1>3. ASSUME NEW c \in Client
      PROVE  BarberSpec => [](chairs = 0 /\ client[c] = "queue" => [](client[c] = "queue"))
  <2> DEFINE Waits == chairs = 0 /\ client[c] = "queue"
  <2>1. Waits /\ BarberTypeOK /\ [BarberNext]_barberVars => Waits'
    BY DEF BarberNext, barberVars, Arrive, Offer, Reject, Sit, Exit, TakeNext, Shaved, BarberTypeOK
  <2>2. Waits => client[c] = "queue"
    OBVIOUS
  <2>3. Waits <=> (chairs = 0 /\ client[c] = "queue")
    OBVIOUS
  <2> HIDE DEF Waits
  <2> QED  BY <1>1, <2>1, <2>2, <2>3, PTL DEF BarberSpec
<1>4. BarberSpec => \A c \in Client : [](chairs = 0 /\ client[c] = "queue" => [](client[c] = "queue"))
  BY <1>3
<1>5. BarberSpec => [](Cardinality({c \in Client : client[c] = "exited"}) <= Cardinality(Barber))
  BY <1>1, <1>2, PTL
<1> QED  BY <1>4, <1>5, PTL DEF NoChairReturns
==============================================================================
