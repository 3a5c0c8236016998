----------------------------- MODULE OrderEvents -----------------------------
(***************************************************************************)
(* The orders and the inventory of EventBus: CreateOrderCommand saves an   *)
(* order and publishes its OrderCreated event on a synchronous bus; the    *)
(* inventory's handler subtracts the stock, reports oversold products and  *)
(* remembers the event.                                                    *)
(*                                                                         *)
(* The bus calls its listeners on the caller's thread, so one action is    *)
(* one command with everything it triggers, an exception included.  Stock  *)
(* is kept per product, prices are the same for all products, and an       *)
(* amount is a number of units.                                            *)
(***************************************************************************)
EXTENDS Integers, Sequences, FiniteSetsExt, SequencesExt

CONSTANTS OrderId,      \* orders whose id OrderRepository.generateId may return
          Product,      \* the products of MemoryProductRepository
          Unknown,      \* a product id no product has
          InitialStock, \* units of every product
          MaxQuantity,  \* bound on the quantity of a line
          MaxLines,     \* bound on the lines of an order
          MaxAmount     \* Order.MAX_AMOUNT, which no order may reach

ASSUME OrderAssumption == /\ InitialStock \in Nat /\ MaxQuantity \in Nat \ {0} /\ MaxLines \in Nat
                          /\ MaxAmount \in Nat /\ Unknown \notin Product

VARIABLES orders,    \* MemoryOrderRepository: the items of the saved orders
          pending,   \* saved orders with an OrderCreated event not yet cleared
          stock,     \* Product.stock
          handled,   \* MemoryEventRepository, an event named by its order
          oversold,  \* the OrderOversold events published, as <<order, product>>
          short      \* history: <<order, product>> of every line not fully served

vars == <<orders, pending, stock, handled, oversold, short>>

Item == [product : Product \cup {Unknown}, quantity : 1..MaxQuantity]

\* Unknown also stands for the items of an order that does not exist.
ASSUME UnknownAssumption == Unknown \notin BoundedSeq(Item, MaxLines)

NoOrder == [items |-> Unknown]

Init == /\ orders = [o \in OrderId |-> NoOrder]
        /\ pending = {}
        /\ stock = [p \in Product |-> InitialStock]
        /\ handled = {}
        /\ oversold = {}
        /\ short = {}
------------------------------------------------------------------------------
HasStock(s, q) == s >= q

\* Mutant: the stock may be sold below zero.
SubtractAlways(s, q) == s - q

\* Product.subtractStock stops at zero.
SubtractStock(s, q) == IF HasStock(s, q) THEN s - q ELSE 0

\* The forEach of the handler: one line after the other.
SubtractItems(st, items) ==
  FoldLeft(LAMBDA s, it : [s EXCEPT ![it.product] = SubtractStock(@, it.quantity)],
           st, items)

\* Mutant: the lines are checked after the stock was subtracted.
OversoldAfterwards(items) ==
  {items[i].product : i \in {j \in DOMAIN items :
     ~ HasStock(SubtractItems(stock, items)[items[j].product], items[j].quantity)}}

\* All the lines are checked before the first one is subtracted.
OversoldProducts(items) ==
  {items[i].product : i \in {j \in DOMAIN items :
                               ~ HasStock(stock[items[j].product], items[j].quantity)}}

\* The lines that find less in stock, when their turn comes, than they ask for.
ShortProducts(items) ==
  {items[i].product : i \in {j \in DOMAIN items :
     ~ HasStock(SubtractItems(stock, SubSeq(items, 1, j - 1))[items[j].product],
                items[j].quantity)}}

KnowsAll(items) == \A i \in DOMAIN items : items[i].product \in Product

Effects == <<stock, handled, oversold, short>>

Subtract(o, items) ==
  /\ stock' = SubtractItems(stock, items)
  /\ oversold' = oversold \cup ({o} \X OversoldProducts(items))
  /\ short' = short \cup ({o} \X ShortProducts(items))
  /\ handled' = handled \cup {o}

\* Mutant: the handler does not look whether it has seen the event.
HandleAgain(o, items) == IF KnowsAll(items) THEN Subtract(o, items) ELSE UNCHANGED Effects

\* OrderCreatedCommandHandler.handle: a duplicate changes nothing, an unknown
\* product throws before the first line is subtracted.
OnOrderCreated(o, items) ==
  IF o \notin handled /\ KnowsAll(items) THEN Subtract(o, items) ELSE UNCHANGED Effects

Quantities(items) == [i \in DOMAIN items |-> items[i].quantity]

Amount(items) == SumFunction(Quantities(items))

\* Mutant: the event is cleared in a finally block.
CreateAndClear(o, items) ==
  /\ orders[o] = NoOrder
  /\ Amount(items) < MaxAmount
  /\ orders' = [orders EXCEPT ![o] = [items |-> items]]
  /\ OnOrderCreated(o, items)
  /\ UNCHANGED pending

\* OrderService.create of a valid order.  EventCollection.publish clears the
\* event when the bus returns, and keeps it when the listener throws.  An order
\* that reaches the maximal amount throws before anything is changed.
CreateOrder(o, items) ==
  /\ orders[o] = NoOrder
  /\ Amount(items) < MaxAmount
  /\ orders' = [orders EXCEPT ![o] = [items |-> items]]
  /\ OnOrderCreated(o, items)
  /\ pending' = IF KnowsAll(items) THEN pending ELSE pending \cup {o}

\* The listener gets the event of a saved order once more.
Redeliver(o) ==
  /\ orders[o] # NoOrder
  /\ OnOrderCreated(o, orders[o].items)
  /\ UNCHANGED <<orders, pending>>

Next == \E o \in OrderId : \/ \E items \in BoundedSeq(Item, MaxLines) : CreateOrder(o, items)
                           \/ Redeliver(o)

Spec == Init /\ [][Next]_vars
------------------------------------------------------------------------------
Saved == {o \in OrderId : orders[o] # NoOrder}

TypeOK ==
  /\ \A o \in Saved : orders[o].items \in BoundedSeq(Item, MaxLines)
  /\ stock \in [Product -> 0..InitialStock]
  /\ pending \cup handled \subseteq Saved
  /\ oversold \cup short \subseteq OrderId \X Product

\* The lines of an order that name p, and the units they ask for.
Lines(items, p) == {i \in DOMAIN items : items[i].product = p}

Units(items, p) == SumFunctionOnSet(Quantities(items), Lines(items, p))

\* The units of p in the orders the inventory has handled.
Sold(p) == SumFunction([o \in handled |-> Units(orders[o].items, p)])

\* The stock of a product is exactly what the handled orders left of it, each
\* counted once however often its event is delivered; once an order got less
\* than it asked for, nothing is left.
StockBooks ==
  \A p \in Product :
    stock[p] = IF \E o \in handled : <<o, p>> \in short THEN 0 ELSE InitialStock - Sold(p)

\* A product an order was not fully served with is in its OrderOversold event,
\* unless the order names the product in several lines: the handler compares
\* each line with the stock before the first of them is subtracted.  No served
\* product is ever reported.
ShortageReported ==
  /\ oversold \subseteq short
  /\ \A pair \in short \ oversold :
       \E i, j \in Lines(orders[pair[1]].items, pair[2]) : i # j

\* An order whose publication failed stays saved, keeps its event, and has
\* taken nothing; every other saved order has been handled.
FailuresKeepTheirEvent ==
  /\ pending = Saved \ handled
  /\ \A pair \in oversold \cup short : pair[1] \notin pending
==============================================================================
