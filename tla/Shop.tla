-------------------------------- MODULE Shop ---------------------------------
(***************************************************************************)
(* Purchases in JavaEE7: Supermarket.buy is a transaction that reads the   *)
(* products, checks and subtracts their stock and, before it commits,      *)
(* tells every websocket session of the new stock; main-index.js shows     *)
(* what it is told.                                                        *)
(*                                                                         *)
(* Every purchase runs on a request thread of its own.  The products have  *)
(* no version, so the database is external and simple: a query reads what  *)
(* was committed last, a commit writes what the transaction has in memory. *)
(* Stock.sessions is a plain ArrayList shared by all threads; its iterator *)
(* notices on next() that the list was changed, but hasNext() only         *)
(* compares its cursor with the size.                                      *)
(***************************************************************************)
EXTENDS Integers, SequencesExt

CONSTANTS Product,       \* the products of the shop
          Page,          \* the pages of the browsers
          Purchase,      \* the clicks on "buy" (bound)
          InitialStock,  \* units of every product
          MaxAmount      \* bound on the amount of a line

ASSUME ShopAssumption == /\ IsFiniteSet(Page) /\ IsFiniteSet(Purchase)
                         /\ InitialStock \in Nat /\ MaxAmount \in Nat \ {0}

VARIABLES stock,    \* the committed stock of every product
          pc,       \* where the thread of a purchase is
          cart,     \* the amounts a purchase was posted with
          entity,   \* the stock of the products in the transaction's memory
          cursor,   \* the cursor of the iterator over the sessions
          moved,    \* the purchases whose iterator has an old modCount
          sessions, \* Stock.sessions, a session named by its page
          page,     \* "away", "rendered", "open" or "leaving"
          shown,    \* the stock every page shows
          channel,  \* the messages on their way to a page
          sold,     \* history: units of the committed purchases
          met,      \* history: products committed while another purchase held them
          excused   \* history: pages that may show another stock until they are loaded again

\* The values of f, and those of g where f has none.
Over(f, g) == [x \in DOMAIN f \cup DOMAIN g |-> IF x \in DOMAIN f THEN f[x] ELSE g[x]]

threads == <<pc, cart, entity, cursor>>
pages == <<page, shown, channel>>
vars == <<stock, threads, moved, sessions, pages, sold, met, excused>>

\* getCart: every product at most once, and with a positive amount.  The cart may
\* be empty.
Cart == UNION {[S -> 1..MaxAmount] : S \in SUBSET Product}

Init == /\ stock = [x \in Product |-> InitialStock]
        /\ pc = [b \in Purchase |-> "idle"]
        /\ cart = [b \in Purchase |-> <<>>]
        /\ entity = [b \in Purchase |-> <<>>]
        /\ cursor = [b \in Purchase |-> 0]
        /\ moved = {}
        /\ sessions = <<>>
        /\ page = [p \in Page |-> "away"]
        /\ shown = [p \in Page |-> <<>>]
        /\ channel = [p \in Page |-> <<>>]
        /\ sold = [x \in Product |-> 0]
        /\ met = {}
        /\ excused = {}
------------------------------------------------------------------------------
At(l) == {b \in Purchase : pc[b] = l}

InProgress == At("reading") \cup At("telling") \cup At("committing")

Goto(b, l) == pc' = [pc EXCEPT ![b] = l]

\* The transaction is over, and its memory with it.
End(b, l) == /\ Goto(b, l)
             /\ cart' = [cart EXCEPT ![b] = <<>>]
             /\ entity' = [entity EXCEPT ![b] = <<>>]
             /\ cursor' = [cursor EXCEPT ![b] = 0]
             /\ moved' = moved \ {b}

\* The click on "buy".  The page does not wait for the answer of an earlier one.
Buy(b) ==
  /\ pc[b] = "idle"
  /\ Goto(b, "reading")
  /\ \E c \in Cart : cart' = [cart EXCEPT ![b] = c]
  /\ UNCHANGED <<stock, entity, cursor, moved, sessions, pages, sold, met, excused>>

\* findProduct of the next item of the cart.
FindProduct(b) ==
  /\ pc[b] = "reading"
  /\ \E x \in DOMAIN cart[b] \ DOMAIN entity[b] :
       entity' = [entity EXCEPT ![b] = Over([y \in {x} |-> stock[y]], @)]
  /\ UNCHANGED <<stock, pc, cart, cursor, moved, sessions, pages, sold, met, excused>>

HasStock(s, amount) == s >= amount

AllFound(b) == pc[b] = "reading" /\ DOMAIN entity[b] = DOMAIN cart[b]

\* Mutant: one item in stock is enough.
AffordableInPart(b) == \E x \in DOMAIN cart[b] : HasStock(entity[b][x], cart[b][x])

Affordable(b) == \A x \in DOMAIN cart[b] : HasStock(entity[b][x], cart[b][x])

\* NoStockException, before anything was changed.
Refuse(b) ==
  /\ AllFound(b) /\ ~ Affordable(b)
  /\ End(b, "refused")
  /\ UNCHANGED <<stock, sessions, pages, sold, met, excused>>

\* The purchase cannot be persisted: nobody is told.
PersistFails(b) ==
  /\ AllFound(b) /\ Affordable(b)
  /\ End(b, "failed")
  /\ UNCHANGED <<stock, sessions, pages, sold, met, excused>>

\* The stock is subtracted in memory, the purchase is persisted and the event is
\* fired: the observer starts to iterate on the same thread.
Subtract(b) ==
  /\ AllFound(b) /\ Affordable(b)
  /\ Goto(b, "telling")
  /\ entity' = [entity EXCEPT ![b] = [x \in DOMAIN @ |-> @[x] - cart[b][x]]]
  /\ UNCHANGED <<stock, cart, cursor, moved, sessions, pages, sold, met, excused>>

HasNext(b) == cursor[b] # Len(sessions)

\* The pages whose sessions the iteration of b has behind it.
Behind(b) == {sessions[i] : i \in DOMAIN sessions \cap (1..cursor[b])}

\* Mutant: the first session only.
TellFirst(b) ==
  /\ pc[b] = "telling" /\ HasNext(b) /\ b \notin moved
  /\ cursor' = [cursor EXCEPT ![b] = Len(sessions)]
  /\ channel' = [channel EXCEPT ![sessions[1]] = Append(@, entity[b])]
  /\ UNCHANGED <<stock, pc, cart, entity, moved, sessions, page, shown, sold, met, excused>>

\* sendText to the next session; to a page that leaves, it may fail with an
\* IOException, and the loop goes on.
Tell(b) ==
  /\ pc[b] = "telling" /\ HasNext(b) /\ b \notin moved
  /\ LET p == sessions[cursor[b] + 1]
     IN channel' = IF page[p] = "open" THEN [channel EXCEPT ![p] = Append(@, entity[b])]
                   ELSE channel
  /\ cursor' = [cursor EXCEPT ![b] = @ + 1]
  /\ UNCHANGED <<stock, pc, cart, entity, moved, sessions, page, shown, sold, met, excused>>

ToldAll(b) ==
  /\ pc[b] = "telling" /\ ~ HasNext(b)
  /\ Goto(b, "committing")
  /\ UNCHANGED <<stock, cart, entity, cursor, moved, sessions, pages, sold, met, excused>>

\* Mutant: the observer starts again.
TellAgain(b) ==
  /\ pc[b] = "telling" /\ HasNext(b) /\ b \in moved
  /\ cursor' = [cursor EXCEPT ![b] = 0]
  /\ moved' = moved \ {b}
  /\ UNCHANGED <<stock, pc, cart, entity, sessions, pages, sold, met, excused>>

\* ConcurrentModificationException: it leaves the observer and buy, and the
\* transaction is rolled back.  Some pages have been told already.
TellFails(b) ==
  /\ pc[b] = "telling" /\ HasNext(b) /\ b \in moved
  /\ End(b, "failed")
  /\ excused' = excused \cup Behind(b)
  /\ UNCHANGED <<stock, sessions, pages, sold, met>>

\* The next session is closed already, or another thread sends to it.
Refusing(b) == \/ page[sessions[cursor[b] + 1]] = "leaving"
               \/ At("telling") # {b}

\* sendText throws an unchecked exception (IllegalStateException), which leaves the
\* loop, the observer and buy.
SendThrows(b) ==
  /\ pc[b] = "telling" /\ HasNext(b) /\ b \notin moved
  /\ Refusing(b)
  /\ End(b, "failed")
  /\ excused' = excused \cup Behind(b)
  /\ UNCHANGED <<stock, sessions, pages, sold, met>>

\* Another transaction holds a stock of x that was read before.
HeldElsewhere(b, x) == \E other \in InProgress \ {b} : x \in DOMAIN entity[other]

Commit(b) ==
  /\ pc[b] = "committing"
  /\ End(b, "bought")
  /\ stock' = Over(entity[b], stock)
  /\ sold' = [x \in Product |-> IF x \in DOMAIN cart[b] THEN sold[x] + cart[b][x] ELSE sold[x]]
  /\ met' = met \cup {x \in DOMAIN cart[b] : HeldElsewhere(b, x)}
  /\ excused' = excused \cup {p \in Page : page[p] = "rendered"}
  /\ UNCHANGED <<sessions, pages>>

\* The database refuses the commit after the pages were told.
CommitFails(b) ==
  /\ pc[b] = "committing"
  /\ End(b, "failed")
  /\ excused' = excused \cup ToSet(sessions)
  /\ UNCHANGED <<stock, sessions, pages, sold, met>>
------------------------------------------------------------------------------
\* index.xhtml is rendered with the stock of now ...
Load(p) ==
  /\ page[p] = "away"
  /\ page' = [page EXCEPT ![p] = "rendered"]
  /\ shown' = [shown EXCEPT ![p] = stock]
  /\ excused' = excused \ {p}
  /\ UNCHANGED <<stock, threads, moved, sessions, channel, sold, met>>

\* A change of the list puts these pages in places an iteration has behind it: it
\* will not tell them.
PassedOver == UNION {Behind(b)' \ Behind(b) : b \in At("telling")}

\* ... and its script opens the websocket some time later.
Open(p) ==
  /\ page[p] = "rendered"
  /\ page' = [page EXCEPT ![p] = "open"]
  /\ sessions' = Append(sessions, p)
  /\ moved' = moved \cup At("telling")
  /\ UNCHANGED <<stock, threads, shown, channel, sold, met>>
  /\ excused' = excused \cup PassedOver \cup (IF At("committing") = {} THEN {} ELSE {p})

\* onmessage: the products of the message are updated, the others stay.
Receive(p) ==
  /\ channel[p] # <<>>
  /\ shown' = [shown EXCEPT ![p] = Over(Head(channel[p]), @)]
  /\ channel' = [channel EXCEPT ![p] = Tail(@)]
  /\ UNCHANGED <<stock, threads, moved, sessions, page, sold, met, excused>>

\* beforeunload, or a lost connection.
Leave(p) ==
  /\ page[p] = "open"
  /\ page' = [page EXCEPT ![p] = "leaving"]
  /\ shown' = [shown EXCEPT ![p] = <<>>]
  /\ channel' = [channel EXCEPT ![p] = <<>>]
  /\ UNCHANGED <<stock, threads, moved, sessions, sold, met, excused>>

\* Mutant: the session of a closed page stays in the list.
CloseForgotten(p) ==
  /\ page[p] = "leaving"
  /\ page' = [page EXCEPT ![p] = "away"]
  /\ UNCHANGED <<stock, threads, moved, sessions, shown, channel, sold, met, excused>>

\* Stock.close: in the middle of an iteration it moves the later sessions.
Close(p) ==
  /\ page[p] = "leaving"
  /\ page' = [page EXCEPT ![p] = "away"]
  /\ \E i \in DOMAIN sessions : sessions[i] = p /\ sessions' = RemoveAt(sessions, i)
  /\ moved' = moved \cup At("telling")
  /\ UNCHANGED <<stock, threads, shown, channel, sold, met>>
  /\ excused' = excused \cup PassedOver

PurchaseStep(b) == \/ FindProduct(b) \/ Refuse(b) \/ PersistFails(b) \/ Subtract(b)
                   \/ Tell(b) \/ ToldAll(b) \/ TellFails(b) \/ SendThrows(b)
                   \/ Commit(b) \/ CommitFails(b)

Next == \/ \E b \in Purchase : Buy(b) \/ PurchaseStep(b)
        \/ \E p \in Page : Load(p) \/ Open(p) \/ Receive(p) \/ Leave(p) \/ Close(p)

\* The container runs every request thread until its purchase has ended.
Spec == Init /\ [][Next]_vars /\ \A b \in Purchase : WF_vars(PurchaseStep(b))
------------------------------------------------------------------------------
Ended == {"bought", "refused", "failed"}

IsStock(f) == DOMAIN f \subseteq Product /\ \A x \in DOMAIN f : f[x] \in Int

\* A session is in the list from its open to its close, and once.
TypeOK ==
  /\ stock \in [Product -> Int]
  /\ \A b \in Purchase : /\ pc[b] \in {"idle", "reading", "telling", "committing"} \cup Ended
                         /\ IsStock(entity[b]) /\ DOMAIN entity[b] \subseteq DOMAIN cart[b]
                         /\ cursor[b] \in 0..Cardinality(Page)
  /\ moved \subseteq Purchase
  /\ sessions \in Seq(Page) /\ IsInjective(sessions)
  /\ \A p \in Page : /\ p \in ToSet(sessions) <=> page[p] \in {"open", "leaving"}
                     /\ IsStock(shown[p])
                     /\ \A i \in DOMAIN channel[p] : IsStock(channel[p][i])

\* Two purchases may read the same stock, and one of them is then lost from it:
\* the shop sells more than it has.  But the stock is never below zero and no
\* unit leaves it that was not sold, and the books of a product on which no two
\* purchases met are exact, whatever becomes of the other products and of the
\* pages (buy, hasStock, subtractStock).
Books ==
  \A x \in Product : /\ 0 <= stock[x]
                     /\ InitialStock - stock[x] <= sold[x]
                     /\ x \notin met => InitialStock - stock[x] = sold[x]

\* An open page shows the committed stock of a product when no purchase is in
\* progress and no message is on its way, however purchases, refusals and failures,
\* loads and closing pages came between - unless two purchases of this product met,
\* or, since the page was loaded, a purchase told it and failed, or one committed
\* that had passed over it or found it not open yet (onPurchase, open, close,
\* onmessage).
PageIsCurrent ==
  InProgress = {} =>
    \A p \in Page \ excused : page[p] = "open" /\ channel[p] = <<>> =>
      \A x \in Product \ met : shown[p][x] = stock[x]

\* A purchase ends whatever pages open and close while it tells them: an
\* iteration over the sessions that change under it fails, it does not go on for
\* ever (onPurchase, buy).
PurchaseEnds == \A b \in Purchase : pc[b] = "reading" ~> pc[b] \in Ended
==============================================================================
