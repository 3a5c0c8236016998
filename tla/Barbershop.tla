----------------------------- MODULE Barbershop ------------------------------
(***************************************************************************)
(* The sleeping barber of JavaConcurrency/barber: the Street starts one    *)
(* thread per Client, a client queues in the BarberShop, the Barber        *)
(* threads of the pool take clients from the queue and shave them.         *)
(*                                                                         *)
(* Time is left out: an offer on a full queue may fail at any moment, and  *)
(* the street walks through a finite set of clients instead of counting    *)
(* for ever.                                                               *)
(***************************************************************************)
EXTENDS Integers, Sequences, FiniteSets

CONSTANTS Client,     \* the clients the street sends, a bound on its counter
          Barber,     \* the barbers of the shop, one chair for each
          Capacity,   \* the capacity of the queue
          NoClient    \* what a barber that waits has in its hands

ASSUME ShopAssumption == /\ IsFiniteSet(Client) /\ IsFiniteSet(Barber) /\ Barber # {}
                         /\ Capacity \in Nat \ {0}
                         /\ NoClient \notin Client

VARIABLES clients,    \* BarberShop.clients, the bounded queue
          chairs,     \* permits of the semaphore BarberShop.chairs
          shave,      \* permits of the semaphore Client.shave
          client,     \* where each client is in run()
          barber      \* the client each barber is shaving

barberVars == <<clients, chairs, shave, client, barber>>

BarberInit ==
  /\ clients = <<>>
  /\ chairs = Cardinality(Barber)
  /\ shave = [c \in Client |-> 0]
  /\ client = [c \in Client |-> "home"]
  /\ barber = [b \in Barber |-> NoClient]
------------------------------------------------------------------------------
\* Street.run starts the thread of a new client.
Arrive(c) == /\ client[c] = "home"
             /\ client' = [client EXCEPT ![c] = "door"]
             /\ UNCHANGED <<clients, chairs, shave, barber>>

\* Mutant: the queue has no capacity.
OfferAlways(c) == /\ client[c] = "door"
                  /\ clients' = Append(clients, c)
                  /\ client' = [client EXCEPT ![c] = "queue"]
                  /\ UNCHANGED <<chairs, shave, barber>>

\* BarberShop.enter: clients.offer with a timeout finds a place ...
Offer(c) == /\ client[c] = "door"
            /\ Len(clients) < Capacity
            /\ clients' = Append(clients, c)
            /\ client' = [client EXCEPT ![c] = "queue"]
            /\ UNCHANGED <<chairs, shave, barber>>

\* ... or finds the queue full until the second is over.
Reject(c) == /\ client[c] = "door"
             /\ Len(clients) = Capacity
             /\ client' = [client EXCEPT ![c] = "rejected"]
             /\ UNCHANGED <<clients, chairs, shave, barber>>

\* chairs.acquire(): nothing in the shop ever releases a chair.
Sit(c) == /\ client[c] = "queue"
          /\ chairs > 0
          /\ chairs' = chairs - 1
          /\ client' = [client EXCEPT ![c] = "chair"]
          /\ UNCHANGED <<clients, shave, barber>>

\* Mutant: the client that leaves gives its chair back.
ExitFreesChair(c) == /\ client[c] = "chair"
                     /\ shave[c] > 0
                     /\ shave' = [shave EXCEPT ![c] = @ - 1]
                     /\ client' = [client EXCEPT ![c] = "exited"]
                     /\ chairs' = chairs + 1
                     /\ UNCHANGED <<clients, barber>>

\* client.awaitShave(), after which run() logs that the client exited.
Exit(c) == /\ client[c] = "chair"
           /\ shave[c] > 0
           /\ shave' = [shave EXCEPT ![c] = @ - 1]
           /\ client' = [client EXCEPT ![c] = "exited"]
           /\ UNCHANGED <<clients, chairs, barber>>

\* Mutant: peek() in the place of take().
PeekNext(b) == /\ barber[b] = NoClient
               /\ clients # <<>>
               /\ barber' = [barber EXCEPT ![b] = Head(clients)]
               /\ UNCHANGED <<clients, chairs, shave, client>>

\* Barber.run: shop.next() takes the head of the queue, seated or not.
TakeNext(b) == /\ barber[b] = NoClient
               /\ clients # <<>>
               /\ barber' = [barber EXCEPT ![b] = Head(clients)]
               /\ clients' = Tail(clients)
               /\ UNCHANGED <<chairs, shave, client>>

\* Mutant: shaved() is a notify that is lost when the client does not wait yet.
ShavedUnheard(b) ==
  /\ barber[b] # NoClient
  /\ shave' = IF client[barber[b]] = "chair" THEN [shave EXCEPT ![barber[b]] = @ + 1]
              ELSE shave
  /\ barber' = [barber EXCEPT ![b] = NoClient]
  /\ UNCHANGED <<clients, chairs, client>>

\* The barber has spent the time of the shave and calls client.shaved().
Shaved(b) == /\ barber[b] # NoClient
             /\ shave' = [shave EXCEPT ![barber[b]] = @ + 1]
             /\ barber' = [barber EXCEPT ![b] = NoClient]
             /\ UNCHANGED <<clients, chairs, client>>

BarberNext ==
  \/ \E c \in Client : Arrive(c) \/ Offer(c) \/ Reject(c) \/ Sit(c) \/ Exit(c)
  \/ \E b \in Barber : TakeNext(b) \/ Shaved(b)

BarberSpec == BarberInit /\ [][BarberNext]_barberVars

\* Every thread runs.  The street owes nobody a visit.  Which client gets the
\* next permit of an unfair semaphore is open.
BarberFairSpec ==
  /\ BarberSpec
  /\ \A c \in Client : WF_barberVars(Offer(c) \/ Reject(c) \/ Sit(c) \/ Exit(c))
  /\ \A b \in Barber : WF_barberVars(TakeNext(b) \/ Shaved(b))
------------------------------------------------------------------------------
BarberTypeOK ==
  /\ clients \in Seq(Client) /\ Len(clients) <= Capacity
  /\ chairs \in 0..Cardinality(Barber)
  /\ shave \in [Client -> 0..1]
  /\ client \in [Client -> {"home", "door", "queue", "chair", "exited", "rejected"}]
  /\ barber \in [Barber -> Client \cup {NoClient}]

\* The ways in which the shop has client c in its books.
Places(c) == {<<"queue", i>> : i \in {j \in 1..Len(clients) : clients[j] = c}}
               \cup {<<"barber", b>> : b \in {d \in Barber : barber[d] = c}}
               \cup {<<"shaved", 1>> : i \in 1..shave[c]}

\* Queue, barbers and the client's semaphore never lose a client that entered
\* nor have it twice, although a barber may finish before the client has sat
\* down; a client that was rejected or has left is in nobody's books.
OnePlaceEach ==
  \A c \in Client :
    Cardinality(Places(c)) = IF client[c] \in {"queue", "chair"} THEN 1 ELSE 0

\* The clients in the hands of a barber, and those whose shave is over.
InHand == {barber[b] : b \in Barber} \ {NoClient}
Shaven == {c \in Client : shave[c] > 0 \/ client[c] = "exited"}

Room == INSTANCE WaitingRoom WITH line <- clients, inHand <- InHand, shaven <- Shaven,
                                  Hands <- Cardinality(Barber)

\* The shop implements the waiting room: whatever the chairs do, a client that
\* found a place in the queue is called in its turn, is shaved in the end, even
\* if it never gets a chair, and never again (enter, next, shaved).
ImplementsRoom == Room!Spec

\* Chairs are never given back: from the moment they have run out, a client
\* that waits for one waits for ever, shaved or not, so the shop lets no more
\* clients out than it has barbers.
NoChairReturns ==
  /\ \A c \in Client : [](chairs = 0 /\ client[c] = "queue" => [](client[c] = "queue"))
  /\ [](Cardinality({c \in Client : client[c] = "exited"}) <= Cardinality(Barber))
==============================================================================
