---------------------------- MODULE SmokersRounds ----------------------------
(***************************************************************************)
(* What the cigarette smokers table of JavaConcurrency/agent promises:     *)
(* the agent leaves one component out, the smoker that owns exactly that   *)
(* component smokes, and only then the agent serves again.                 *)
(***************************************************************************)
CONSTANT Component   \* the values of the enum Component

VARIABLES phase,     \* "ready", "offered" or "smoking"
          left       \* the component the agent left out in this round

roundVars == <<phase, left>>

Init == phase = "ready" /\ left \in Component

\* Agent.putComponents with every component but one.
Offer == /\ phase = "ready"
         /\ phase' = "offered"
         /\ left' \in Component

\* The smoker that owns `left` lights up.
Smoke == /\ phase = "offered"
         /\ phase' = "smoking"
         /\ UNCHANGED left

\* It has smoked and wakes the agent.
Finish == /\ phase = "smoking"
          /\ phase' = "ready"
          /\ UNCHANGED left

Next == Offer \/ Smoke \/ Finish

\* The safety part, and the promise that every round goes on.
Safety == Init /\ [][Next]_roundVars

Spec == Safety /\ WF_roundVars(Next)
==============================================================================
