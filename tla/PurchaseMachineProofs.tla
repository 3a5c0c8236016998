----------------------- MODULE PurchaseMachineProofs ------------------------
(***************************************************************************)
(* Proofs about PurchaseMachine, for any purchases, threads and numbers of *)
(* items.                                                                  *)
(*                                                                         *)
(* The inductive invariant says what the monitor of fire protects: no two  *)
(* threads are in the same purchase, a fire that is about to set the state *)
(* goes where the handler of the present state sends it, and one that is   *)
(* about to run the entry actions is where it set the state.               *)
(***************************************************************************)
EXTENDS PurchaseMachine, TLAPS

\* The monitor of a purchase is held by one thread at most.
MonitorHeldOnce ==
  \A t \in Thread, u \in Thread :
    firing[t] # Idle /\ firing[u] # Idle /\ firing[t].purchase = firing[u].purchase => t = u

\* What a thread chose before is still what the state permits.
FiringFits(t) ==
  firing[t] # Idle =>
    LET p == firing[t].purchase
        d == firing[t].destination
    IN IF firing[t].step = "set" THEN \E trigger \in Trigger : <<trigger, d>> \in Handler(p)[state[p]]
       ELSE state[p] = d

\* Purchase.deliveried has run, or is the next thing the thread in fire does.
Entering(p) ==
  \E t \in Thread : /\ firing[t] # Idle /\ firing[t].purchase = p
                    /\ firing[t].step = "enter" /\ firing[t].destination = "DELIVERIED"

Counted(p) == deliveried[p] = IF state[p] = "DELIVERIED" /\ ~ Entering(p) THEN 1 ELSE 0

IInv == /\ TypeOK
        /\ StockKept
        /\ MonitorHeldOnce
        /\ \A t \in Thread : FiringFits(t)
        /\ \A p \in Purchase : Counted(p)

LEMMA ItemsAreNumbers == \A n \in Items : n \in Int
  BY MachineAssumption

\* Where the handlers of Purchase lead.
LEMMA Permitted ==
  ASSUME NEW p, NEW s \in State, NEW trigger, NEW d, <<trigger, d>> \in Handler(p)[s]
  PROVE  /\ d \in State
         /\ s \notin {"CANCELED", "DELIVERIED"}
         /\ items[p] \in Int /\ items[p] > 5 /\ s = "CREATED" => d = "CANCELED"
         /\ d = "DELIVERIED" => s = "TRANSIT"
  BY DEF Handler, State, reserve, hasStock

LEMMA InitInv == Init => IInv
  BY DEF Init, IInv, TypeOK, StockKept, MonitorHeldOnce, FiringFits, Counted, State

\* A fire that starts: nobody is in the purchase.
LEMMA FireInv ==
  ASSUME IInv, NEW th \in Thread, NEW p \in Purchase, NEW trigger \in Trigger,
         Fire(th, p, trigger)
  PROVE  IInv'
<1> USE DEF IInv, TypeOK
<1>1. PICK d \in State :
        /\ <<trigger, d>> \in Handler(p)[state[p]]
        /\ firing' = [firing EXCEPT ![th] = [purchase |-> p, trigger |-> trigger,
                                             destination |-> d, step |-> "set"]]
  BY DEF Fire
<1>2. /\ firing[th] = Idle /\ Monitor(p)
      /\ UNCHANGED <<state, items, late, deliveried>>
  BY DEF Fire
<1>3. firing'[th] \in Firing /\ firing'[th].purchase = p /\ firing'[th].destination = d
      /\ firing'[th].step = "set"
  BY <1>1 DEF Firing
<1>4. \A t \in Thread : t # th => firing'[t] = firing[t]
  BY <1>1
<1>5. TypeOK'
  BY <1>1, <1>2, <1>3
<1>6. StockKept'
  BY <1>2 DEF StockKept
<1>7. MonitorHeldOnce'
  BY <1>2, <1>3, <1>4 DEF MonitorHeldOnce, Monitor
<1>8. \A t \in Thread : FiringFits(t)'
  <2> SUFFICES ASSUME NEW t \in Thread PROVE FiringFits(t)'
    OBVIOUS
  <2>1. CASE t = th
    BY <1>1, <1>2, <1>3, <2>1 DEF FiringFits, Handler, reserve, hasStock
  <2>2. CASE t # th
    BY <1>2, <1>4, <2>2 DEF FiringFits, Handler, reserve, hasStock
  <2> QED  BY <2>1, <2>2
<1>9. \A q \in Purchase : Counted(q)'
  <2> SUFFICES ASSUME NEW q \in Purchase PROVE Counted(q)'
    OBVIOUS
  <2>1. Entering(q)' <=> Entering(q)
    BY <1>2, <1>3, <1>4 DEF Entering
  <2> QED  BY <1>2, <2>1 DEF Counted
<1> QED  BY <1>5, <1>6, <1>7, <1>8, <1>9

\* What the thread in fire knows of its purchase.
LEMMA FiringFacts ==
  ASSUME IInv, NEW th \in Thread, firing[th] # Idle
  PROVE  /\ firing[th] \in Firing
         /\ firing[th].purchase \in Purchase
         /\ firing[th].destination \in State
         /\ \A t \in Thread : t # th /\ firing[t] # Idle
              => firing[t].purchase # firing[th].purchase
  BY DEF IInv, TypeOK, Firing, MonitorHeldOnce

LEMMA SetStateInv == ASSUME IInv, NEW th \in Thread, SetState(th) PROVE IInv'
<1> USE DEF IInv, TypeOK
<1>0. PICK p, d : p = firing[th].purchase /\ d = firing[th].destination
  OBVIOUS
<1>1. /\ firing[th] # Idle /\ firing[th].step = "set"
      /\ state' = [state EXCEPT ![p] = d]
      /\ firing' = [firing EXCEPT ![th].step = "enter"]
      /\ UNCHANGED <<items, late, deliveried>>
  BY <1>0 DEF SetState
<1>2. /\ firing[th] \in Firing /\ p \in Purchase /\ d \in State
      /\ \A t \in Thread : t # th /\ firing[t] # Idle => firing[t].purchase # p
  BY <1>0, <1>1, FiringFacts
<1>3. /\ firing'[th] \in Firing /\ firing'[th].purchase = p
      /\ firing'[th].destination = d /\ firing'[th].step = "enter"
  BY <1>0, <1>1, <1>2 DEF Firing
<1>4. \A t \in Thread : t # th => firing'[t] = firing[t]
  BY <1>1
<1>5. PICK trigger \in Trigger : <<trigger, d>> \in Handler(p)[state[p]]
  BY <1>0, <1>1 DEF FiringFits
<1>6. state[p] \in State
  BY <1>2
<1>7. /\ state[p] \notin {"CANCELED", "DELIVERIED"}
      /\ items[p] > 5 /\ state[p] = "CREATED" => d = "CANCELED"
  <2>1. items[p] \in Items
    BY <1>2
  <2>2. items[p] \in Int
    BY <2>1, ItemsAreNumbers
  <2> QED  BY <1>5, <1>6, <2>2, Permitted
<1>8. state'[p] = d /\ \A q \in Purchase : q # p => state'[q] = state[q]
  BY <1>1, <1>2
<1>9. TypeOK'
  BY <1>1, <1>2, <1>3
<1>10. StockKept'
  BY <1>1, <1>7, <1>8 DEF StockKept
<1>11. MonitorHeldOnce'
  BY <1>1, <1>2, <1>3, <1>4 DEF MonitorHeldOnce
<1>12. \A t \in Thread : FiringFits(t)'
  <2> SUFFICES ASSUME NEW t \in Thread PROVE FiringFits(t)'
    OBVIOUS
  <2>1. CASE t = th
    BY <1>3, <1>8, <2>1 DEF FiringFits
  <2>2. CASE t # th
    <3>1. firing'[t] = firing[t]
      BY <1>4, <2>2
    <3>2. SUFFICES ASSUME firing[t] # Idle PROVE FiringFits(t)'
      BY <3>1 DEF FiringFits
    <3>3. firing[t].purchase \in Purchase /\ firing[t].purchase # p
      BY <1>2, <2>2, <3>2, FiringFacts
    <3>4. state'[firing[t].purchase] = state[firing[t].purchase]
      BY <1>8, <3>3
    <3> QED  BY <1>1, <3>1, <3>4 DEF FiringFits, Handler, reserve, hasStock
  <2> QED  BY <2>1, <2>2
<1>13. \A q \in Purchase : Counted(q)'
  <2> SUFFICES ASSUME NEW q \in Purchase PROVE Counted(q)'
    OBVIOUS
  <2>1. CASE q = p
    <3>1. deliveried'[p] = 0
      BY <1>1, <1>2, <1>7 DEF Counted
    <3>2. state'[p] = "DELIVERIED" => Entering(p)'
      BY <1>1, <1>3, <1>8, MachineAssumption DEF Entering
    <3> QED  BY <2>1, <3>1, <3>2 DEF Counted
  <2>2. CASE q # p
    <3>1. Entering(q)' <=> Entering(q)
      BY <1>0, <1>3, <1>4, <2>2 DEF Entering
    <3> QED  BY <1>1, <1>8, <2>2, <3>1 DEF Counted
  <2> QED  BY <2>1, <2>2
<1> QED  BY <1>9, <1>10, <1>11, <1>12, <1>13

LEMMA EnterInv == ASSUME IInv, NEW th \in Thread, Enter(th) PROVE IInv'
<1> USE DEF IInv, TypeOK
<1>0. PICK p, d : p = firing[th].purchase /\ d = firing[th].destination
  OBVIOUS
<1>1. /\ firing[th] # Idle /\ firing[th].step = "enter"
      /\ deliveried' = [deliveried EXCEPT ![p] = @ + (IF d = "DELIVERIED" THEN 1 ELSE 0)]
      /\ firing' = [firing EXCEPT ![th] = Idle]
      /\ UNCHANGED <<state, items, late>>
  BY <1>0 DEF Enter
<1>2. /\ p \in Purchase
      /\ \A t \in Thread : t # th /\ firing[t] # Idle => firing[t].purchase # p
  BY <1>0, <1>1, FiringFacts
<1>3. firing'[th] = Idle /\ \A t \in Thread : t # th => firing'[t] = firing[t]
  BY <1>1
<1>4. state[p] = d
  BY <1>0, <1>1 DEF FiringFits
<1>5. deliveried[p] = 0
  BY <1>0, <1>1, <1>2, <1>4 DEF Counted, Entering
<1>6. /\ deliveried'[p] = IF d = "DELIVERIED" THEN 1 ELSE 0
      /\ \A q \in Purchase : q # p => deliveried'[q] = deliveried[q]
  BY <1>1, <1>2, <1>5
<1>7. TypeOK'
  BY <1>1, <1>2, <1>6
<1>8. StockKept'
  BY <1>1 DEF StockKept
<1>9. MonitorHeldOnce'
  BY <1>3 DEF MonitorHeldOnce
<1>10. \A t \in Thread : FiringFits(t)'
  BY <1>1, <1>3 DEF FiringFits, Handler, reserve, hasStock
<1>11. \A q \in Purchase : Counted(q)'
  <2> SUFFICES ASSUME NEW q \in Purchase PROVE Counted(q)'
    OBVIOUS
  <2>1. CASE q = p
    <3>1. ~ Entering(p)'
      BY <1>2, <1>3 DEF Entering
    <3> QED  BY <1>1, <1>4, <1>6, <2>1, <3>1 DEF Counted
  <2>2. CASE q # p
    <3>1. Entering(q)' <=> Entering(q)
      BY <1>0, <1>1, <1>3, <2>2 DEF Entering
    <3> QED  BY <1>1, <1>6, <2>2, <3>1 DEF Counted
  <2> QED  BY <2>1, <2>2
<1> QED  BY <1>7, <1>8, <1>9, <1>10, <1>11

\* The steps that change no state a fire depends on.
LEMMA OtherInv ==
  ASSUME IInv, late' \in [Purchase -> BOOLEAN], UNCHANGED <<state, items, firing, deliveried>>
  PROVE  IInv'
<1> USE DEF IInv
<1>1. TypeOK' /\ StockKept' /\ MonitorHeldOnce'
  BY DEF TypeOK, StockKept, MonitorHeldOnce
<1>2. \A t \in Thread : FiringFits(t)'
  BY DEF FiringFits, Handler, reserve, hasStock
<1>3. \A p \in Purchase : Counted(p)'
  BY DEF Counted, Entering
<1> QED  BY <1>1, <1>2, <1>3

LEMMA StepInv == IInv /\ [Next]_vars => IInv'
<1> SUFFICES ASSUME IInv, [Next]_vars PROVE IInv'
  OBVIOUS
<1>1. ASSUME NEW th \in Thread, NEW p \in Purchase, NEW trigger \in Trigger,
             Fire(th, p, trigger) PROVE IInv'
  BY <1>1, FireInv
<1>2. ASSUME NEW th \in Thread, SetState(th) PROVE IInv'
  BY <1>2, SetStateInv
<1>3. ASSUME NEW th \in Thread, Enter(th) PROVE IInv'
  BY <1>3, EnterInv
<1>4. ASSUME NEW p \in Purchase, TimePasses(p) \/ SetDate(p) PROVE IInv'
  BY <1>4, OtherInv DEF TimePasses, SetDate, IInv, TypeOK
<1>5. CASE UNCHANGED vars
  BY <1>5, OtherInv DEF vars, IInv, TypeOK
<1> QED  BY <1>1, <1>2, <1>3, <1>4, <1>5 DEF Next

LEMMA Invariance == Spec => []IInv
  BY InitInv, StepInv, PTL DEF Spec
------------------------------------------------------------------------------
\* For any purchases and threads, the fires keep the shape of the state, and
\* Purchase.deliveried never runs twice for a purchase.
THEOREM TypeCorrect == Spec => []TypeOK
<1>1. IInv => TypeOK
  BY DEF IInv
<1> QED  BY <1>1, Invariance, PTL

\* A purchase of more than five items is canceled at most, for any number of
\* threads that fire at it (reserve, hasStock, fire).
THEOREM NeverOversold == Spec => []StockKept
<1>1. IInv => StockKept
  BY DEF IInv
<1> QED  BY <1>1, Invariance, PTL

\* Whoever gets the monitor of a purchase finds Purchase.deliveried called once
\* if it was deliveried and never if it was not (fire, onEnter).
THEOREM EnteredOnce == Spec => []DeliveredOnce
<1>1. IInv => DeliveredOnce
  BY DEF IInv, DeliveredOnce, Counted, Entering, Monitor
<1> QED  BY <1>1, Invariance, PTL

\* A canceled or deliveried purchase stays so: the monitor keeps the fire that
\* chose its handler earlier from ending later (fire).
THEOREM Final == Spec => EndsAreFinal
<1> DEFINE Kept == \A p \in Purchase : state[p] \in {"CANCELED", "DELIVERIED"} => state'[p] = state[p]
<1>1. IInv /\ [Next]_vars => [Kept]_vars
  <2> SUFFICES ASSUME IInv, Next PROVE Kept
    OBVIOUS
  <2>1. ASSUME NEW th \in Thread, SetState(th) PROVE Kept
    <3>1. PICK trigger \in Trigger :
            <<trigger, firing[th].destination>> \in
               Handler(firing[th].purchase)[state[firing[th].purchase]]
      BY <2>1 DEF SetState, IInv, FiringFits
    <3>2. firing[th].purchase \in Purchase
      BY <2>1, FiringFacts DEF SetState
    <3>3. state[firing[th].purchase] \notin {"CANCELED", "DELIVERIED"}
      BY <3>1, <3>2, Permitted DEF IInv, TypeOK
    <3> QED  BY <2>1, <3>2, <3>3 DEF SetState, IInv, TypeOK
  <2> QED  BY <2>1 DEF Next, Fire, Enter, TimePasses, SetDate
<1> QED  BY <1>1, Invariance, PTL DEF Spec, EndsAreFinal
==============================================================================
