------------------------------- MODULE Forks ---------------------------------
(***************************************************************************)
(* What the two tables of JavaConcurrency, philosophers and philosophers2, *)
(* have in common: a ring of philosophers, and between them forks that are *)
(* locks with an owner.  A philosopher reaches for its first fork, then    *)
(* for its second one, and eats; how, and what comes after, is each        *)
(* table's own.                                                            *)
(***************************************************************************)
EXTENDS Integers

CONSTANTS N,          \* Table(numPhilosophers)
          Nobody      \* the owner of a fork that is on the table

Philosopher == 0..(N - 1)
Fork == 0..(N - 1)

ASSUME TableAssumption == N \in Nat /\ N >= 2 /\ Nobody \notin Philosopher

VARIABLES pc,         \* where each philosopher is in run()
          owner       \* the philosopher that holds the lock of each fork

vars == <<pc, owner>>

\* The seats of the constructor of Table.
LeftFork(p) == p
RightFork(p) == (p + 1) % N

Init == /\ pc = [p \in Philosopher |-> "think"]
        /\ owner = [f \in Fork |-> Nobody]

Goto(p, from, to) == /\ pc[p] = from
                     /\ pc' = [pc EXCEPT ![p] = to]

\* think() is over and eat() begins.
Think(p) == Goto(p, "think", "first") /\ UNCHANGED owner

\* Mutant: the fork is taken out of another one's hands.
TakeBarging(p, f) == owner' = [owner EXCEPT ![f] = p]

\* Fork.take comes back with a fork that was free.
Take(p, f) == /\ owner[f] = Nobody
              /\ owner' = [owner EXCEPT ![f] = p]

\* Mutant: drop without the isHeld() test, on a lock without an owner check.
DropUnchecked(p, f) == owner' = [owner EXCEPT ![f] = Nobody]

\* Fork.drop unlocks only a fork that the thread holds.
Drop(p, f) == owner' = [owner EXCEPT ![f] = IF @ = p THEN Nobody ELSE @]
------------------------------------------------------------------------------
(* A table implements Dining; who drops its forks has eaten or given up.   *)

Mood == [p \in Philosopher |->
           IF pc[p] \in {"first", "second"} THEN "hungry"
           ELSE IF pc[p] = "eat" THEN "eating" ELSE "thinking"]

Dinner == INSTANCE Dining WITH mood <- Mood

\* Two neighbours never eat at a time, and nobody eats without getting hungry.
ImplementsDining == Dinner!Spec
==============================================================================
