--------------------------- MODULE PurchaseMachine ---------------------------
(***************************************************************************)
(* The state machine of Machinarum with the machine that Purchase builds   *)
(* on it.  Threads fire triggers on shared purchases; StateMachine.fire    *)
(* holds the monitor of the purchase from the lookup of the handler to the *)
(* end of the entry actions.                                               *)
(*                                                                         *)
(* A fire is three steps, so that what the monitor is for can be seen.     *)
(* Triggers without a handler only print and are left out, as are canFire  *)
(* and the other queries.  No purchase has exit actions, and no selector   *)
(* of Purchase throws.                                                     *)
(***************************************************************************)
EXTENDS Integers

CONSTANTS Purchase,   \* the purchases
          Thread,     \* the threads that fire triggers
          Items,      \* the numbers of items a purchase may have
          Idle        \* the thread is in no fire

VARIABLES state,      \* Purchase.state
          items,      \* Purchase.items
          late,       \* whether an hour or more has gone by since Purchase.date
          firing,     \* the fire each thread is in: purchase, destination, step
          deliveried  \* history: how often Purchase.deliveried was called

vars == <<state, items, late, firing, deliveried>>

State == {"CREATED", "RESERVED", "TRANSIT", "DELIVERIED", "CANCELED"}
Trigger == {"RESERVE", "DELIVERY", "DELIVERIED", "CANCEL"}

\* A call of fire that holds the monitor of its purchase.
Firing == [purchase : Purchase, trigger : Trigger, destination : State,
           step : {"set", "enter"}]

ASSUME MachineAssumption == Items \subseteq Nat /\ Idle \notin Firing

Init == /\ state = [p \in Purchase |-> "CREATED"]
        /\ items \in [Purchase -> Items]
        /\ late = [p \in Purchase |-> FALSE]
        /\ firing = [th \in Thread |-> Idle]
        /\ deliveried = [p \in Purchase |-> 0]
------------------------------------------------------------------------------
(* The machine that the static block of Purchase builds.                   *)

\* Mutant: the limit is off by one.
HasStockForOneMore(p) == items[p] <= 6

hasStock(p) == items[p] <= 5

reserve(p) == IF hasStock(p) THEN "RESERVED" ELSE "CANCELED"

\* The permitted triggers of each state, with the state they select.
Handler(p) ==
  [s \in State |->
     CASE s = "CREATED"    -> {<<"RESERVE", reserve(p)>>, <<"CANCEL", "CANCELED">>}
       [] s = "RESERVED"   -> {<<"DELIVERY", "TRANSIT">>, <<"CANCEL", "CANCELED">>}
       [] s = "TRANSIT"    -> {<<"DELIVERIED", "DELIVERIED">>}
       [] OTHER            -> {}]

\* TriggerBehaviour.isMet: StateBuilder.permit(trigger, destination, guard)
\* builds a behaviour whose guard is null, and the guard of DELIVERY with it.
isMet(p, trigger) == TRUE
------------------------------------------------------------------------------
(* StateMachine.fire.                                                      *)

Monitor(p) == \A th \in Thread : firing[th] # Idle => firing[th].purchase # p

\* Mutant: fire is not synchronized.
FireUnsynchronized(th, p, trigger) ==
  /\ firing[th] = Idle
  /\ isMet(p, trigger)
  /\ \E d \in State :
       /\ <<trigger, d>> \in Handler(p)[state[p]]
       /\ firing' = [firing EXCEPT ![th] = [purchase |-> p, trigger |-> trigger,
                                            destination |-> d, step |-> "set"]]
  /\ UNCHANGED <<state, items, late, deliveried>>

\* Enter the monitor, find the handler, test its guard, select the state.
Fire(th, p, trigger) ==
  /\ firing[th] = Idle
  /\ Monitor(p)
  /\ isMet(p, trigger)
  /\ \E d \in State :
       /\ <<trigger, d>> \in Handler(p)[state[p]]
       /\ firing' = [firing EXCEPT ![th] = [purchase |-> p, trigger |-> trigger,
                                            destination |-> d, step |-> "set"]]
  /\ UNCHANGED <<state, items, late, deliveried>>

SetState(th) ==
  /\ firing[th] # Idle /\ firing[th].step = "set"
  /\ state' = [state EXCEPT ![firing[th].purchase] = firing[th].destination]
  /\ firing' = [firing EXCEPT ![th].step = "enter"]
  /\ UNCHANGED <<items, late, deliveried>>

\* The entry actions of the destination; then the monitor is left.
Enter(th) ==
  /\ firing[th] # Idle /\ firing[th].step = "enter"
  /\ deliveried' = [deliveried EXCEPT ![firing[th].purchase] =
                      @ + (IF firing[th].destination = "DELIVERIED" THEN 1 ELSE 0)]
  /\ firing' = [firing EXCEPT ![th] = Idle]
  /\ UNCHANGED <<state, items, late>>

\* An hour has gone by, or setDate gives the purchase an older date.
TimePasses(p) ==
  /\ ~ late[p]
  /\ late' = [late EXCEPT ![p] = TRUE]
  /\ UNCHANGED <<state, items, firing, deliveried>>

\* setDate gives the purchase a date of this hour.
SetDate(p) ==
  /\ late[p]
  /\ late' = [late EXCEPT ![p] = FALSE]
  /\ UNCHANGED <<state, items, firing, deliveried>>

Next == \/ \E th \in Thread :
             \/ \E p \in Purchase, trigger \in Trigger : Fire(th, p, trigger)
             \/ SetState(th) \/ Enter(th)
        \/ \E p \in Purchase : TimePasses(p) \/ SetDate(p)

Spec == Init /\ [][Next]_vars
------------------------------------------------------------------------------
TypeOK == /\ state \in [Purchase -> State]
          /\ items \in [Purchase -> Items]
          /\ late \in [Purchase -> BOOLEAN]
          /\ firing \in [Thread -> Firing \cup {Idle}]
          /\ deliveried \in [Purchase -> 0..1]

\* A purchase of more than the five items there are is never reserved nor sent,
\* whatever triggers the threads fire at it together (reserve, hasStock, fire).
StockKept == \A p \in Purchase : items[p] > 5 => state[p] \in {"CREATED", "CANCELED"}

\* A purchase that was canceled or deliveried stays so: no fire that chose its
\* handler before ends after it.
EndsAreFinal ==
  [][\A p \in Purchase : state[p] \in {"CANCELED", "DELIVERIED"} => state'[p] = state[p]]_vars

\* Purchase.deliveried runs exactly once for a purchase that is deliveried,
\* before any other thread gets at it.
DeliveredOnce ==
  \A p \in Purchase : Monitor(p) =>
    deliveried[p] = IF state[p] = "DELIVERIED" THEN 1 ELSE 0

\* The machine of Purchase permits DELIVERY only while isDeliverable holds:
\* nobody gets past the guard with DELIVERY an hour after the purchase.
DeliveryInTime ==
  [][\A th \in Thread :
       firing[th] = Idle /\ firing'[th] # Idle /\ firing'[th].trigger = "DELIVERY"
         => ~ late[firing'[th].purchase]]_vars
==============================================================================
