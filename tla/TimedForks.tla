------------------------------ MODULE TimedForks -----------------------------
(***************************************************************************)
(* The philosophers of JavaConcurrency/philosophers.  A fork is taken with *)
(* tryLock(250 ms), the left one first; a philosopher that runs out of     *)
(* patience puts back what it holds and thinks again.                      *)
(*                                                                         *)
(* Time is not modelled: a philosopher may run out of patience at any      *)
(* moment at which the fork it waits for is held by another one, which is  *)
(* when the last attempt inside tryLock fails.                             *)
(***************************************************************************)
EXTENDS Forks

\* Mutant: lock() in the place of tryLock(250 ms).
NeverTimesOut(p, f) == FALSE

\* Fork.take comes back without the fork.
TimedOut(p, f) == owner[f] \notin {Nobody, p} /\ UNCHANGED owner

TakeLeft(p) == Goto(p, "first", "second") /\ Take(p, LeftFork(p))

TakeRight(p) == Goto(p, "second", "eat") /\ Take(p, RightFork(p))

\* "cannot eat": the finally block is next.
GiveUpLeft(p) == Goto(p, "first", "dropLeft") /\ TimedOut(p, LeftFork(p))

\* Mutant: no finally block, only the eating branch drops the forks.
GiveUpHolding(p) == Goto(p, "second", "think") /\ TimedOut(p, RightFork(p))

GiveUpRight(p) == Goto(p, "second", "dropLeft") /\ TimedOut(p, RightFork(p))

Finish(p) == Goto(p, "eat", "dropLeft") /\ UNCHANGED owner

\* The finally block of eat() drops both forks, held or not.
DropLeft(p) == Goto(p, "dropLeft", "dropRight") /\ Drop(p, LeftFork(p))

DropRight(p) == Goto(p, "dropRight", "think") /\ Drop(p, RightFork(p))

TimedRun(p) == \/ Think(p) \/ TakeLeft(p) \/ TakeRight(p) \/ GiveUpLeft(p) \/ GiveUpRight(p)
               \/ Finish(p) \/ DropLeft(p) \/ DropRight(p)

TimedNext == \E p \in Philosopher : TimedRun(p)

TimedSpec == Init /\ [][TimedNext]_vars

\* Every thread of the pool runs; the lock is as unfair as in OrderedForks.
TimedFairSpec == TimedSpec /\ \A p \in Philosopher : WF_vars(TimedRun(p))
------------------------------------------------------------------------------
TimedTypeOK ==
  /\ pc \in [Philosopher -> {"think", "first", "second", "eat", "dropLeft", "dropRight"}]
  /\ owner \in [Fork -> Philosopher \cup {Nobody}]

\* Whatever way eat() ends, a philosopher that thinks holds no fork, so a
\* fork that is held is always in the hands of someone about to drop it.
ThinksEmptyHanded ==
  \A p \in Philosopher, f \in Fork : owner[f] = p => pc[p] \notin {"think", "first"}

\* Nobody waits for ever, however often its neighbours take the forks: every
\* dinner, eaten or given up, ends at the next thought.
EveryDinnerEnds == \A p \in Philosopher : (pc[p] = "first") ~> (pc[p] = "think")
------------------------------------------------------------------------------
(* The inductive invariant.  After a timeout the finally block may call    *)
(* drop on a fork that was never taken, so a holder in "dropLeft" may hold *)
(* none, one or both of its forks.                                         *)

HoldsLeft(p) == owner[LeftFork(p)] = p
HoldsRight(p) == owner[RightFork(p)] = p

HandsOK(p) == /\ pc[p] \in {"second", "eat"} => HoldsLeft(p)
              /\ pc[p] = "eat" => HoldsRight(p)
              /\ HoldsLeft(p) => pc[p] \in {"second", "eat", "dropLeft"}
              /\ HoldsRight(p) => pc[p] \in {"eat", "dropLeft", "dropRight"}

OwnForks == \A p \in Philosopher, f \in Fork :
              owner[f] = p => f \in {LeftFork(p), RightFork(p)}

\* A philosopher holds both forks while it eats, and none that is not beside it:
\* the isHeld() test of Fork.drop never drops a fork of a neighbour (eat, drop).
TimedInv == TimedTypeOK /\ OwnForks /\ \A p \in Philosopher : HandsOK(p)
==============================================================================
