----------------------------- MODULE OrderedForks ----------------------------
(***************************************************************************)
(* The philosophers of JavaConcurrency/philosophers2.  Every fork is a     *)
(* ReentrantLock that is taken without a timeout; the last philosopher is  *)
(* left-handed, all the others take their right fork first.                *)
(*                                                                         *)
(* One action is one call on a fork.  The times spent thinking and eating  *)
(* and the synchronized Table.getTime, which nobody holds across a step,   *)
(* are left out.                                                           *)
(***************************************************************************)
EXTENDS Forks

\* Mutant: all philosophers reach for the same side first.
AllRightHanded(p) == FALSE

IsLeftHanded(p) == (p + 1) % N = 0

First(p) == IF IsLeftHanded(p) THEN LeftFork(p) ELSE RightFork(p)
Second(p) == IF IsLeftHanded(p) THEN RightFork(p) ELSE LeftFork(p)

\* Fork.take blocks in lock() until the fork is free.
TakeFirst(p) == Goto(p, "first", "second") /\ Take(p, First(p))

TakeSecond(p) == Goto(p, "second", "eat") /\ Take(p, Second(p))

\* The philosopher has eaten; dropForks drops in the order of takeForks.
DropFirst(p) == Goto(p, "eat", "drop") /\ Drop(p, First(p))

\* Mutant: dropForks forgets the second fork.
SecondKept(p) == Goto(p, "drop", "think") /\ UNCHANGED owner

DropSecond(p) == Goto(p, "drop", "think") /\ Drop(p, Second(p))

OrderedRun(p) == \/ Think(p) \/ TakeFirst(p) \/ TakeSecond(p)
                 \/ DropFirst(p) \/ DropSecond(p)

OrderedNext == \E p \in Philosopher : OrderedRun(p)

OrderedSpec == Init /\ [][OrderedNext]_vars

\* Every thread of the pool runs.  A ReentrantLock() is not fair: a blocked
\* thread may be overtaken for ever, so no fairness is strong.
OrderedFairSpec == OrderedSpec /\ \A p \in Philosopher : WF_vars(OrderedRun(p))
------------------------------------------------------------------------------
OrderedTypeOK == /\ pc \in [Philosopher -> {"think", "first", "second", "eat", "drop"}]
                 /\ owner \in [Fork -> Philosopher \cup {Nobody}]

\* p is blocked in Fork.take on a fork that q holds.
WaitsFor(p, q) == \/ pc[p] = "first" /\ owner[First(p)] = q
                  \/ pc[p] = "second" /\ owner[Second(p)] = q

Blocked(p) == \E q \in Philosopher : WaitsFor(p, q)

\* The left-handed last philosopher breaks the circle: whatever the others
\* hold, some philosopher is not blocked in Fork.take.
NoCircularWait == \E p \in Philosopher : ~ Blocked(p)

\* Someone at the table eats again and again.
SomeoneEats == []<>(\E p \in Philosopher : pc[p] = "eat")
------------------------------------------------------------------------------
(* The inductive invariant.                                                *)

Holds(p) == {f \in Fork : \/ f = First(p) /\ pc[p] \in {"second", "eat"}
                          \/ f = Second(p) /\ pc[p] \in {"eat", "drop"}}

LocksMatch == \A p \in Philosopher, f \in Fork : owner[f] = p <=> f \in Holds(p)

\* A philosopher owns exactly the locks its place in run() says: none is kept
\* after dropForks, none is lost to the isHeld() test of Fork.drop.
OrderedInv == OrderedTypeOK /\ LocksMatch
==============================================================================
