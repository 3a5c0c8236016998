----------------------------- MODULE WaitingRoom -----------------------------
(***************************************************************************)
(* What the barber shop of JavaConcurrency/barber promises a client that   *)
(* gets in: it is called in the order of arrival, shaved once, and not     *)
(* kept waiting for ever.  Threads, chairs and semaphores are not seen.    *)
(***************************************************************************)
EXTENDS Naturals, Sequences, FiniteSets

CONSTANTS Client,
          Capacity,   \* the places of the waiting room
          Hands       \* how many clients are shaved at a time

VARIABLES line,       \* the clients that wait, the first one first
          inHand,     \* the clients that are being shaved
          shaven      \* the clients that have been shaved

roomVars == <<line, inHand, shaven>>

Init == line = <<>> /\ inHand = {} /\ shaven = {}

\* BarberShop.enter, by a client that was never inside.
Enter(c) == /\ Len(line) < Capacity
            /\ c \notin inHand \cup shaven
            /\ \A i \in 1..Len(line) : line[i] # c
            /\ line' = Append(line, c)
            /\ UNCHANGED <<inHand, shaven>>

\* BarberShop.next: whose turn it is.
CallFirst == /\ line # <<>>
             /\ Cardinality(inHand) < Hands
             /\ inHand' = inHand \cup {Head(line)}
             /\ line' = Tail(line)
             /\ UNCHANGED shaven

\* Barber.shave comes to its end.
Release(c) == /\ c \in inHand
              /\ inHand' = inHand \ {c}
              /\ shaven' = shaven \cup {c}
              /\ UNCHANGED line

Next == CallFirst \/ \E c \in Client : Enter(c) \/ Release(c)

\* The safety part, and the promise that who has entered is called and shaved.
Safety == Init /\ [][Next]_roomVars

Spec == Safety /\ WF_roomVars(CallFirst) /\ \A c \in Client : WF_roomVars(Release(c))
==============================================================================
