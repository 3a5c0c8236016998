------------------------------- MODULE Dining --------------------------------
(***************************************************************************)
(* What both philosophers' tables of JavaConcurrency promise: philosophers *)
(* in a ring think, get hungry, and eat, never two neighbours at a time.   *)
(* A hungry philosopher may give up and think again.                       *)
(***************************************************************************)
EXTENDS Integers

CONSTANT N            \* Table(numPhilosophers)

VARIABLE mood         \* "thinking", "hungry" or "eating", per philosopher

Philosopher == 0..(N - 1)

\* The seat on the right of seat p.
RightOf(p) == (p + 1) % N

Neighbours(p, q) == p # q /\ (RightOf(p) = q \/ RightOf(q) = p)

Init == mood = [p \in Philosopher |-> "thinking"]

GetHungry(p) == /\ mood[p] = "thinking"
                /\ mood' = [mood EXCEPT ![p] = "hungry"]

Eat(p) == /\ mood[p] = "hungry"
          /\ \A q \in Philosopher : Neighbours(p, q) => mood[q] # "eating"
          /\ mood' = [mood EXCEPT ![p] = "eating"]

Leave(p) == /\ mood[p] \in {"hungry", "eating"}
            /\ mood' = [mood EXCEPT ![p] = "thinking"]

Next == \E p \in Philosopher : GetHungry(p) \/ Eat(p) \/ Leave(p)

Spec == Init /\ [][Next]_mood
==============================================================================
