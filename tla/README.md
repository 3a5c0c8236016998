# Verification of picodotdev/blog-ejemplos

The repository collects the example projects of a blog: some 170 independent
programs.  Most of them show a tool or a framework and keep no state of their
own.  This project models the ones that do, and whose correctness depends on
the order in which things happen: the concurrency classics of
`JavaConcurrency`, the orders over a bus of `EventBus`, the declarative
transactions of `PlugInTapestry`, the state machine library `Machinarum`, the
task list of `BackboneReact` with its resource and its module loader, and the
supermarket of `JavaEE7`.  TLC checks every model on small instances; TLAPS
proves every safety property that these runs check for every value of the
constants.

`PROJECT.json` lists the components, the runs, the source lines behind every
definition, the hazards of the code and the theorems.

## Inventory

The programs do not call each other.  Interaction is inside each of them.

| Component | State | Operations | How the parts interact | What is hard | What makes it correct |
|---|---|---|---|---|---|
| `JavaConcurrency/agent` | flag and semaphore per component, lock of the pushers, a semaphore per smoker and for the agent | agent puts two of three components; pushers collect; smokers smoke | 7 threads, semaphores, one lock, unlocked flags | the reset of the flags takes no lock; two pushers decide together whom to wake | the right smoker, one per round, no round lost |
| `JavaConcurrency/philosophers2` | owner of every fork | think, take, eat, drop | threads and unfair `ReentrantLock`s | circular wait | no deadlock, neighbours never eat together |
| `JavaConcurrency/philosophers` | owner of every fork | the same with `tryLock(250 ms)` | the same | timeouts in the middle, a `finally` that drops what may never have been taken | nothing stays held, every dinner ends |
| `JavaConcurrency/barber` | bounded queue, chairs, a semaphore per client | enter, next, shave | street, client and barber threads | barber and client are not synchronised on the chair; chairs are not given back | a client that enters is shaved once |
| `EventBus` | orders, stock, events handled, events not yet cleared | create an order; handle `OrderCreated` | synchronous bus on the caller's thread | duplicate delivery, an exception in a listener, several lines of one product | the stock is booked once per order, shortages are reported |
| `PlugInTapestry/.../transaction` | transaction stack and Hibernate session of a thread | begin, commit, rollback, five propagations | advices around nested DAO calls | failures at every step, joined and nested calls | who begins a transaction ends it; all or nothing |
| `Machinarum` | state of a purchase | fire a trigger | threads on shared purchases | atomicity of lookup, guard, state and entry actions | final states are final, guards are honoured |
| `BackboneReact`, tasks | models, list and index in the browser, rows of the page, a `TreeMap` in the server | add, toggle, clear, fetch; create, read, update, delete | asynchronous requests, events of the collection | answers out of order, lost or late; unsynchronised creates; rows without keys | the page shows the list, the index finds it, client and server agree in the end |
| `BackboneReact`, `r.js` | registry, counters and callbacks of modules | require, define, load, check | scripts that arrive in any order, ticks, nested callbacks | callbacks during enabling, cycles, scripts without `define` | factories run once, after their dependencies; nothing waits for ever |
| `JavaEE7` | stock in a database, list of websocket sessions, pages | buy, open, close, show | container threads, transactions, messages | lost updates, a broadcast before the commit, an unsynchronised list | stock never below zero, pages show it, purchases end |
| `HolaMundoTemporal` | a workflow | place an order | activities with retries | compensation of a half done order | tickets are released or the order exists |
| `JavaConwayLangton`, `JavaSort` | a board, an array | step, sort | sequential | boundaries | equal to the reference definition |

All are modelled but the last two rows; see "Not modelled".

## Modules

`Component.tla` holds the state, one action per step of the code, and the
properties; `Component.cfg` instantiates it for TLC; `ComponentProofs.tla`
holds the theorems (those about the philosophers and the barber are in
`JavaConcurrencyProofs`).  Operators described as mutants in the modules are
plausible bugs: put in the place of the definition that follows them, they
make TLC report the property listed beside them in `PROJECT.json`.

In the order they were written:

### Smokers, SmokersRounds, MCSmokers, SmokersProofs

`Smokers` has one action per access of a thread to shared state.  `agentSem`,
`components` and `smokerSem` are the permits of the semaphores of `Agent`,
`Table` and `Smoker`; `hasComponent` and `lock` are the fields of the same
name; `pusher` and `smoker` are program counters and `seen` is what a pusher
read from `getComponents`.  The two loops of `Table.putComponents` run
component by component (`toReset`, `toRelease`), in any order, since the code
inside `Pusher.lock` is not protected against them.  `getComponents` is one
step: `QuietReset` shows that nobody writes the flags meanwhile.

`SmokersRounds` is what the table promises: the agent leaves a component out,
its owner smokes, the next round starts.  `ImplementsRounds` says that
`Smokers` implements it under the mapping `Phase`, liveness included: no round
gets lost between two pushers.

### Dining, Forks, OrderedForks, TimedForks, JavaConcurrencyProofs

`Dining` is the abstract dinner: neighbours never eat together.  Both tables
of the repository implement it (`ImplementsDining`).  `Forks` has what they
share: the seats, the forks, `Take` and `Drop`, and the mapping to the abstract
dinner.  `OrderedForks` and `TimedForks` extend it with the two `run()`s.  In `OrderedForks` a fork
is taken by a blocking `lock()`, and the last philosopher takes the forks in
the other order.  In `TimedForks` a take may also fail (`TimedOut`) as long as
another philosopher holds the fork, and the `finally` block drops both forks,
held or not.  `owner` is the owner of the `ReentrantLock` in each `Fork`, `pc`
the place of a philosopher in `run()`.

### WaitingRoom, Barbershop, JavaConcurrencyProofs

`clients` is the queue, `chairs` the semaphore of the shop, `shave` the
semaphore of each client, `client` and `barber` the program counters.  The
offer with a timeout has two outcomes, `Offer` and `Reject`.  `NoChairReturns`
states what the code does with its chairs: they are acquired and never
released, so the shop lets no more clients out than it has barbers.

`WaitingRoom` is what the shop promises all the same: who gets in is called in
the order of arrival, is shaved once, and does not wait for ever.
`ImplementsRoom` says that `Barbershop` implements it, liveness included; the
line is the queue, `InHand` are the clients in the hands of barbers, and
`Shaven` those whose semaphore has its permit or who have left with it.

### OrderEvents, MCOrderEvents, OrderEventsProofs

The bus of `EventBus` is synchronous, so an action is a command with all that
its listeners do.  `CreateOrder` is `OrderService.create`, with the validation
of `Order.create` and the `clear` of `EventCollection.publish`, which an
exception of a listener skips (`pending`).  `Redeliver` is a second delivery
of the event.  `short` is a history variable: the lines that were not fully
served.  An order that names a product in several lines may be short without
an `OrderOversold` event, because `OrderCreatedCommandHandler` looks at the
stock before it subtracts the first line; `ShortageReported` says exactly that.

### Transactions, TransactionsProofs

The advices of `TransactionAdvisorImpl` around nested calls of one thread.
`calls` is the stack of advised calls, `stack` the size of `transactionStack`,
`session` the transaction of the Hibernate session, `flow` tells whether an
exception is on its way.  A method may write, call, return, throw or catch at
any point; `begin`, `configure` and `commit` may fail.  Hibernate 5.1 allows
one transaction per session, so a NESTED call inside a transaction is refused,
and the `catch` block of `NestedTransactionAdvice` then rolls back the
transaction of the outer call.  The history field `broken` marks the calls
that happened to; `MandatoryKept` and `AllOrNothing` hold for all the others.
Not modelled: `Error`s, which the advices do not catch, and a `rollback` that
fails.

### PurchaseMachine, PurchaseMachineProofs

`StateMachine.fire` on the machine that the static block of `Purchase` builds.
A fire is three steps (`Fire`, `SetState`, `Enter`) under the monitor of the
purchase, so that a mutant without the monitor can interleave them.  `isMet`
is `TRUE`: `StateBuilder.permit(trigger, destination, guard)` drops its guard.
`TimePasses` and `SetDate` move the date `isDeliverable` would look at.
Triggers that a state does not handle only print, and the unused builders
(`ignore`, exit actions, selectors that throw) have no place in this machine.

### Tasks, TasksProofs

The browser is single threaded, so what a click, a key or an answer does is one
action with every call it makes: `AddTask` is the `keypress` handler with
`addTarea`, `Collection.add`, the events of the collection, the rendering and
the start of the request.  `att` holds the attributes of every model ever made
(by `cid`), `list` and `byId` are `models` and the ids in `_byId`, `shown` is
the page: for every row what it shows and the model its handler will use.
`net` holds the requests of which the client has not processed the answer,
with the body as it was serialized.  The server handles them in any order;
`createTarea` is two steps, because nothing synchronises it.  `Fail` loses a
request or its answer.

Client and server can come to differ in many ways, because neither does
anything about it: a task toggled before its id arrived is created twice, one
cleared by then stays in the server, and creates that meet share an id.
`Agreement` says when they do agree: `calm` is a history variable that ends
with the first overlap of two requests about one task (the fetch concerns all
of them), of two creates inside the server, or a failure.  Requests about
different tasks may still overtake each other at will.  `Clear` destroys the
completed tasks one by one: `Cleared` folds `Destroy` over the list as it was
when `removeCompletadas` collected them.  `ViewIsCurrent` and
`IndexedById` hold whatever happens, the latter for lookups up to the first
collision of ids (`collided`).  Both exemptions are what the code does: the
properties say that nothing else goes wrong, not that these cases go well.  A
row's handler uses the task it was last rendered with, as `this.props` of React
does, so `ViewIsCurrent` says that whatever changes the list or a task renders
the page again.

### Shop, ShopProofs

A purchase is a request thread in a transaction: `FindProduct` per product,
`Refuse` or `Subtract`, one `Tell` per session, `Commit`.  `entity` is the
persistence context of the transaction: the entities are managed, have no
`@Version`, and are written at the commit.  The database is external and kept
simple, a query reads what was committed last.  `sessions` is the static
`ArrayList` of `Stock`; `cursor` and `moved` are the iterator of the `for`
loop, whose `next()` notices a change of the list but whose `hasNext()` only
compares its cursor with the size.  A page is rendered with the stock
(`Load`), opens its websocket, receives and leaves.

The code reads, checks and writes without a lock, so two purchases may sell
the same unit, and it tells the pages before it commits.  The properties say
what remains true (`Books`: never below zero, nothing leaves the stock unsold) and
where the rest is exact, by two history variables.  `met` are the products that
a purchase committed while another transaction held a stock of them: the books
of every other product are exact, whatever becomes of pages and purchases.
`excused` are the pages that may show a wrong stock until they are loaded
again: those that a purchase told which then failed, those rendered but not
open at a commit or opened after the broadcast and before it, and those that a
change of the list puts behind the cursor of an iteration (`PassedOver`).
`PageIsCurrent` says that no other page, once nothing is in progress or on its
way, is wrong about a product outside `met`.  Each excuse is needed: without
any one of them TLC finds a page that shows a wrong stock.

A purchase also fails where the code throws: when it cannot be persisted
(`PersistFails`), by the iterator (`TellFails`), by an unchecked exception of
`sendText`, which `Stock.onPurchase` does not catch (`SendThrows`), and at the
commit.  An `IOException` only leaves one session without its message.

### Loader, MCLoader, LoaderProofs

The loader is the part of `r.js` that the pages' `require.js` contains too,
not minified.  The browser runs one callback at a time: the tick of a `require`
call (`NextTick`), a script with its load event (`CompleteLoad`), the check
after 50 ms (`CheckLoadedTimeout`).  A callback goes from `Module.init` or
`checkLoaded` through `enable`, `check`, `emit` and `breakCycle` to other
modules and back, and much is half done between two of these calls.  So each
function is an action of its own, cut where it calls another one (`Enable`,
`EnableDep`, `EnableNew`, `EnableEnd` are the parts of `enable`).  `todo` holds
the calls still to be made in the order in which the JavaScript stack makes
them: the action of the first call replaces it by the calls it makes, and a
callback starts only when `todo` is empty.

`inited`, `enabled`, `enabling`, `fetched`, `emitted`, `complete`, `depCount`
and `matched` are the fields of `Module` with similar names; a flag is the set
of the modules that have it.  `registry` and `enabledRegistry` are those of the
context, as sets; of the order of `enabledRegistry` only that of the `require`
calls matters, which `reqCalls` keeps.  `runs` are the ids in `defined`, in the
order their factories ran.  Id 0 is the `require` call of the page, id `-m` the
anonymous one that loads the dependencies of a shimmed script `m` first.
`events` holds the callbacks registered by `on`, `traced` and `processed` are
the arguments that `breakCycle` passes on.

`AllDefined` excludes graphs in which a shimmed script needs a cycle:
`checkLoaded` takes a script that waits for its shim dependencies for one that
is still loading (`r.js:906`) and then breaks no cycle.

## Runs

| Run | Instance | What it shows |
|---|---|---|
| `smokers` | 3 components, 7 threads | `RightSmoker`, `QuietReset`, and the refinement with liveness |
| `ordered_forks` | 5 philosophers | `OrderedInv`, `NoCircularWait`, `SomeoneEats`, the refinement |
| `timed_forks` | 4 philosophers | `TimedInv`, `ThinksEmptyHanded`, `EveryDinnerEnds`, the refinement |
| `barbershop` | 4 clients, 2 barbers, queue of 1 | `BarberTypeOK`, `OnePlaceEach`, `NoChairReturns`, and the refinement with liveness |
| `order_events` | 3 orders of at most 2 lines of at most 2 units, 2 products and an unknown one, stock 3 | `StockBooks`, `ShortageReported`, `FailuresKeepTheirEvent` |
| `transactions` | calls up to depth 4 | `IInv`, `OpenHasOwner`, `MandatoryKept`, `AllOrNothing` |
| `purchase_machine` | 2 purchases, 2 threads, 5 or 6 items | `StockKept`, `DeliveredOnce`, `EndsAreFinal` |
| `tasks` | 3 models, 2 requests in flight, ids up to 2, perhaps a task from before | `ViewIsCurrent`, `IndexedById`, `Agreement` |
| `tasks_clear` | the same | a violation: `ClearLeavesNone`, see below |
| `shop` | 2 products with 1 unit each, 2 purchases, 2 pages | `Books`, `PageIsCurrent`, `PurchaseEnds` |
| `loader` | every graph of 3 modules, the dependencies in every order, every set of shimmed ones, every order of arrival; 378,365 states, up to 104 steps deep | `TypeOK`, `FactoryAfterDeps`, `ShimWaits`, `AllDefined` |
| `purchase_guard` | 1 purchase, 1 thread | a violation: `DeliveryInTime`, see below |

Bounds and why they are enough:

* The enum `Component` has three values: `smokers` is the whole system, and
  needs no other bound.
* Philosophers only meet their neighbours.  Four or five make seats that are
  not neighbours, and the theorems cover every number.
* In `barbershop` four clients are more than the shop has barbers and places,
  so clients are rejected, hang for a chair, and are shaved before they sit.
* In `order_events` an order has at most 3 units, as `MaxAmount` = 4 turns away
  what is larger: one order can take the whole stock of 3 of a product, two
  together exceed it, in one line or in two lines of one product, and the third
  finds what is left.  Orders are exchangeable (`SYMMETRY`); only invariants are
  checked there.
* In `transactions` depth 4 holds a call that began a transaction, one that
  joined it, one between them, and a refused one on top.  The theorems cover
  every depth.
* Items 5 and 6 are the two sides of the limit in `Purchase.hasStock`.
  `StockKept` states the limit itself and does not use `hasStock`.
* In `tasks` two requests in flight are enough to overtake each other, for two
  creates to meet and for a toggle to overtake its create; three models are
  two that share an id and one more, or a task fetched and two added.  Two ids
  let the id of a deleted task be given again.  The user adds no task and
  toggles none while `MaxFlight` requests are out, and no request fails after
  `calm` has ended.
* In `shop` one unit makes every second purchase of a product one too many;
  carts name neither, one or both products, so purchases meet on one product
  and not on the other.  Two pages are needed for one to close before the
  other in the list; three find no other violation (7,494,492 states, the safety
  properties only).  Pages come and go without limit; purchases are two.
* In `loader` three modules make every shape of dependency there is: chains,
  diamonds with the page as their top, cycles of two and three, and shimmed
  scripts in any place of them.  A module names its dependencies in any order.
  `MCLoader` leaves out graphs that are others with their modules renamed: the
  modules the page names are 1, 2 and so on in the order it names them.  The
  numbers mean nothing else, and the theorems cover every graph.

Deadlock is unchecked in `barbershop`, `shop`, `loader`, the two purchase runs
and the two task runs, where the clients, the purchases and the loading come
to an end or a bound on tasks, requests or ids is reached.

### Fairness

Every thread has weak fairness: it goes on if it can go on for ever.  That is
what a JVM scheduler gives in practice.  `ReentrantLock()` and `Semaphore(n)`
are unfair in this code, so no thread has strong fairness, and properties that
would need it (every philosopher eats) are not claimed: with unfair locks a
philosopher may be overtaken for ever, and with timeouts all may give up
together for ever.  `ImplementsRoom` needs only that barbers go on, because
the queue is first in, first out.  In `Shop` the thread of each purchase is fair,
pages and clicks are not.  In `Loader` a callback runs to its end (weak
fairness of `Step`), and the browser delivers every script and calls every
tick.  These have strong fairness: a callback can start only between two
others, so its action is enabled again and again, not all the time, and the
event queue of the browser does not pass over a task for ever.  Nothing is
asked of the check after 50 ms.  `OrderEvents`,
`Transactions`, `PurchaseMachine` and `Tasks` have safety properties only, and
no fairness.

### The findings

`purchase_guard` checks what `Purchase.java` declares: DELIVERY is permitted
only while `isDeliverable` holds.  The builder forgets the guard
(`StateBuilder.java:32` uses `TriggerBehaviour.of(destination)`), so TLC finds
a purchase that is sent after its hour.

`tasks_clear` checks what `tareas-specs.js:72` expects: after
`removeCompletadas` no completed task is left.  `createTarea` reads the last
key and puts the new task without a lock (`TareasResourceImpl.java:18`), so two
tasks whose creates meet get one id.  When one of them is completed and
cleared, `Collection.remove` (`backbone.js:649`) finds the other one by that id
and removes it instead: the completed task stays.

## Proofs

All theorems hold for every value of the constants under the assumptions named
in the modules:

* `ComponentAssumption`: at least two components;
* `TableAssumption`: at least two philosophers, as the constructors of `Table`
  demand;
* `ShopAssumption` of `Barbershop` and of `Shop`: finite sets of clients and
  barbers, of pages and purchases;
* `OrderAssumption`, `DepthAssumption`, `TasksAssumption`: stock, limits and
  bounds are natural numbers;
* `LoaderAssumption`: at least one module;
* `MachineAssumption`, `UnknownAssumption`: the special values are not ordinary
  ones.

| Theorem | Statement | Argument |
|---|---|---|
| `SmokersProofs!TypeCorrect`, `SafeSmoking`, `SafeReset` | `TypeOK`, `RightSmoker`, `QuietReset` | `IInv`: a round is in one of four stages (`Ready`, `Resetting`, `Serving`, `Smoking`).  While serving, each component of the pair is on its way or on the table, and somebody still has to put one or to see that it was the last (`LastPending`) |
| `SmokersProofs!RefinesRounds` | the safety part of `ImplementsRounds` | each action is a step of `SmokersRounds` or leaves `Phase` and `left` alone |
| `JavaConcurrencyProofs!OrderedInvariance`, `OrderedTypeCorrect`, `DeadlockFree`, `OrderedImplements` | `OrderedInv`, the shape of the state, `NoCircularWait`, `ImplementsDining` | `OrderedInv`: who owns which lock follows from the program counters.  If everybody were blocked, then of those that hold one fork the one whose fork has the smallest number would wait for a fork nobody blocked holds |
| `JavaConcurrencyProofs!TimedInvariance`, `TimedTypeCorrect`, `EmptyHands`, `TimedImplements` | `TimedInv`, the shape of the state, `ThinksEmptyHanded`, `ImplementsDining` | `TimedInv`: which forks a philosopher may, and must, hold at each place of `eat()` |
| `TransactionsProofs!Invariance`, `TypeCorrect`, `NothingLeftOpen`, `MandatoryHonoured`, `Atomic` | `IInv`, `TypeOK`, `OpenHasOwner`, `MandatoryKept`, `AllOrNothing` | `ReliedUpon`: a call that relies on the transaction, because it began it or because it is MANDATORY, has it, unless it was broken, and nobody above it began another |
| `JavaConcurrencyProofs!RoomImplemented` | the safety part of `ImplementsRoom` | each action of a client or a barber is one of `WaitingRoom` or leaves its three variables alone; a barber without a client means that fewer clients are in hand than there are barbers, by an injection |
| `JavaConcurrencyProofs!BarberTypeCorrect`, `NobodyLost`, `ChairsLost` | `BarberTypeOK`, `OnePlaceEach`, `NoChairReturns` | `Booked`: a client is inside exactly when it is in the queue, in a barber's hands or shaved, in one of these only; the chairs taken are the clients that got one |
| `PurchaseMachineProofs!TypeCorrect`, `NeverOversold`, `EnteredOnce`, `Final` | `TypeOK`, `StockKept`, `DeliveredOnce`, `EndsAreFinal` | `FiringFits`: the state a thread is about to set is still one that the handlers of the present state permit, because nobody else is in the monitor |
| `OrderEventsProofs!NoEventLost` | `FailuresKeepTheirEvent` | the pending orders are the saved ones that were not handled, and name a product the handler does not know |
| `OrderEventsProofs!TypeCorrect`, `BooksBalance`, `OversoldReported` | `TypeOK`, `StockBooks`, `ShortageReported` | `BooksInv`: the three properties, and that the orders handled are finitely many and name known products only.  Handling a new order adds one term to the sum over the handled orders and takes what its lines were served from the stock |
| `ShopProofs!BooksKept` | `Books` | `Supported`: what a transaction has in memory, with what it is about to sell, never exceeds what the books allow, and is the committed stock while no two purchases of this product have met |
| `ShopProofs!TypeCorrect`, `PagesCurrent` | `TypeOK`, `PageIsCurrent` | `PInv`: what an open page will show of a product, by the last message in its channel that names it or else by what it shows now, is the stock a purchase that has told the page is about to commit, or the committed stock if no such purchase is on its way (`Current`, `Shows`), for the pages not in `excused` and the products not in `met` |
| `TasksProofs!TypeCorrect`, `ViewCurrent`, `Indexed` | `TypeOK`, `ViewIsCurrent`, `IndexedById` | `IInv`: the rows and, up to the first collision, the index follow from the list and the attributes.  `Halfway` states what `k` steps of a clear have left of list, index and requests |
| `TasksProofs!Agree` | `Agreement` | `Calm`: an id belongs to one task (`Has`) from the moment the server answers its create to the moment the server handles its delete; each request in flight fits what list and server hold, and every task without one is settled |
| `LoaderProofs!TypeCorrect`, `FactoriesAfterDeps`, `ShimsWait` | `TypeOK`, `FactoryAfterDeps`, `ShimWaits` | `IInv`: what the calls in `todo` make up for, see below |

The invariants the properties follow from are not the properties themselves:
`RightSmoker`, for instance, says nothing of a pusher between its flag and its
look, which is where the next step may break it.  `OrderedInv`, `TimedInv` and
`IInv` of `Transactions` are also invariants of their runs.

### Sums and folds

The folds of the community modules are recursive functions that are CHOOSEn.
The proofs of `OrderEvents` and `Tasks` use what they compute: the units that
the handled orders sold, the tasks a clear leaves.  This takes two steps.
First, such a function exists and is the only one (`SumExists`, `FoldIsSum`;
`FoldExists`, `ClearedInSteps`), which gives its value for the empty set or
list and for one element more.  Second, induction.  The induction theorems of
the library take an operator, which the provers cannot instantiate; but the
well-foundedness of the natural numbers and of the subsets of a finite set is
first order, so the statement is put as a set of numbers or
subsets, and a least member outside of it leads to a contradiction
(`Induction`, `SubsetInduction`, `LeastNatural`).

### The loader between two calls

The three properties of `Loader` say little of a state in the middle of a
callback, and `TypeOK` nothing at all.  `IInv` says what is true there:

* `Ordered` says which calls may stand behind which.  Calls of `init` and
  `enable` are only ever made next, no module is enabled twice, nothing is
  enabled while cycles are broken, and the calls of `breakCycle` that are not
  finished lie on a path of dependencies, the innermost one first.
* `EnablingOK` and `CountOK` say that `enabling` is set exactly while the end of
  the `enable` call is pending, and that `depCount` is the number of the
  dependencies that are neither matched nor still to be asked for (`Due`).
* `MatchOK` says that a dependency is matched for one of two reasons (`Just`):
  it is defined, or it needs the module that waits for it.  The second is
  where `breakCycle` closes a cycle; that the module found in `traced` is an
  ancestor follows from `CycleOK` (what is traced and not processed is still
  being visited) and from the path in `Ordered`.
* `EmitOK` says that a module that is defined has told the others, or will in
  this callback.

A factory runs when `check` finds `depCount` at zero outside of `enable`; then,
by counting (`CountOK`), all places are matched, each for one of the reasons.

### Only model-checked

* Everything about liveness (`SomeoneEats`, `EveryDinnerEnds`,
  `PurchaseEnds`, `AllDefined`, the fairness parts of `ImplementsRounds` and
  `ImplementsRoom`), which is out of the reach of the prover.

`ClearLeavesNone` and `DeliveryInTime` are false, and checked to be.

## Plan

Done: the core (`Smokers` to `PurchaseMachine`), then `Tasks`, `Shop` and
`Loader`, and the proofs of the safety properties of all of them.  What is
left: an abstract specification of `OrderEvents`, a ledger of the stock, and
its refinement.

## Not modelled

* `HolaMundoTemporal`: `placeOrder` is one sequential method with one
  compensation.  When its activities run, fail, are retried or replayed is
  decided by the Temporal server and its deployment, none of which is in the
  repository; a model would be of Temporal.  One hazard is listed for it.
* `JavaConwayLangton`, `JavaSort`: sequential and deterministic; what could be
  wrong is found by comparing one result.  `JavaConcurrency/threadpool` submits
  one task to a pool of the JDK.
* Vendored JavaScript: React, jQuery, Bootstrap, i18next, Jasmine, Sinon,
  Underscore, Mustache, the optimizer that makes up most of `r.js`, and what
  the task list does not use of Backbone.  It is nearly all of the JavaScript
  in the repository, and it is not this repository's logic; most of the models
  are of Java code.
* In `Tasks`: `resetTareas`, which only tests call; what unsynchronized `put`s
  can do to the inside of a `TreeMap`.
* In `Shop`: the buttons that change the amounts of a cart and the requests
  they send (the one for subtraction never fires: `main-index.js:12` listens
  to `button.substract`, `index.xhtml:31` has the class `subtract`), carts that
  name a product twice, which the page cannot make, isolation levels that
  block or abort a reader, the queries and the maintenance of products.  An
  `add` and a `remove` of `sessions` are each one step: what two of them that
  race may do to the inside of the `ArrayList` (a session lost or left, an
  empty place) is not modelled, nor a `sendText` that never returns.
* In `Loader`: plugins, packages and maps, the special dependencies `require`,
  `exports` and `module`, load errors and `waitSeconds`, `undef`, and scripts
  that define several modules.
* In `PurchaseMachine`: `ignore`, selectors that throw and exit actions, which
  no machine of the repository uses.
* In `Transactions`: `Error`s and a `rollback` that fails.
* Everywhere: logging, wording and the times that threads sleep.

The rest of the repository is configuration, deployment and infrastructure,
generated code, and programs that show an API (queues, caches, REST clients,
formatting, security) whose behaviour is that of a library and not of code in
this repository.
