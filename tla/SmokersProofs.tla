---------------------------- MODULE SmokersProofs ----------------------------
(***************************************************************************)
(* Proofs about Smokers, for any set Component with at least two elements. *)
(***************************************************************************)
EXTENDS Smokers, TLAPS

\* The first state of the table is a round that is ready to start.
LEMMA InitInv == Init => IInv
  BY ComponentAssumption
  DEF Init, IInv, TypeOK, PusherStates, LockOK, Ready, AgentAsleep, QuietPushers,
      Free, QuietSmokers, Awoken

\* Agent.run after its sleep: a ready round becomes one that is being reset.
LEMMA AgentWakeInv == ASSUME IInv, AgentWake PROVE IInv'
<1> USE DEF AgentWake, AgentAsleep, IInv, TypeOK
<1>1. Ready
  BY DEF Resetting, Serving, Smoking
<1>2. TypeOK' /\ LockOK'
  BY DEF LockOK
<1>3. Resetting'
  BY <1>1, ComponentAssumption DEF Ready, Resetting, QuietPushers, Free, QuietSmokers, Awoken
<1> QED  BY <1>2, <1>3

\* The first loop of Table.putComponents; its last turn starts the serving.
LEMMA ResetInv == ASSUME IInv, NEW c \in Component, ResetComponent(c) PROVE IInv'
<1> USE DEF ResetComponent, IInv, TypeOK
<1>1. Resetting
  BY DEF Ready, Serving, Smoking, AgentAsleep
<1>2. TypeOK' /\ LockOK'
  BY DEF LockOK
<1>3. CASE toReset' # {}
  <2>1. \A d \in Component \ toReset' : ~ hasComponent'[d]
    BY <1>1 DEF Resetting
  <2> QED  BY <1>1, <1>2, <1>3, <2>1 DEF Resetting, QuietPushers, Free, QuietSmokers, Awoken
<1>4. CASE toReset' = {}
  <2>1. \A d \in Component : ~ hasComponent'[d]
    BY <1>1, <1>4 DEF Resetting
  <2>2. \A d \in Component : Free(d)' /\ ~ Awoken(d)' /\ pusher'[d] # "awake"
    BY <1>1 DEF Resetting, QuietPushers, QuietSmokers, Free, Awoken
  <2>3. \A d \in Component \ {left'} : OnItsWay(d)'
    BY <1>1, <2>1, <2>2 DEF Resetting, OnItsWay
  <2>4. LastPending'
    BY <2>1, ComponentAssumption DEF LastPending
  <2>5. Serving'
    BY <1>1, <1>4, <2>1, <2>2, <2>3, <2>4 DEF Serving, QuietSmokers, Resetting
  <2> QED  BY <1>2, <2>5
<1> QED  BY <1>3, <1>4

\* The second loop of Table.putComponents.
LEMMA ReleaseInv == ASSUME IInv, NEW c \in Component, ReleaseComponent(c) PROVE IInv'
<1> USE DEF ReleaseComponent, IInv, TypeOK
<1>1. Serving
  BY DEF Ready, Resetting, Smoking, AgentAsleep
<1>2. OnItsWay(c) /\ Free(c) /\ c # left
  BY <1>1 DEF Serving, OnItsWay, OnTheTable
<1>3. TypeOK' /\ LockOK'
  BY <1>2 DEF LockOK, Free
<1>4. \A d \in Component \ {left} : (OnItsWay(d) \/ OnTheTable(d))'
  BY <1>1, <1>2 DEF Serving, OnItsWay, OnTheTable, Free
<1>5. Serving'
  BY <1>1, <1>2, <1>4 DEF Serving, QuietSmokers, Awoken, Free, LastPending
<1> QED  BY <1>3, <1>5

\* A pusher takes its component from the table, then the lock, and sets its flag.
LEMMA TakeInv == ASSUME IInv, NEW c \in Component, Take(c) PROVE IInv'
<1> USE DEF Take, agentVars, IInv, TypeOK, PusherStates
<1>1. Serving
  BY DEF Ready, Resetting, Smoking, QuietPushers, Free
<1>2. OnItsWay(c) /\ c \notin toRelease /\ components[c] = 1 /\ c # left
  BY <1>1 DEF Serving, OnItsWay, OnTheTable, Free
<1>3. TypeOK' /\ LockOK'
  BY DEF LockOK
<1>4. \A d \in Component \ {left} : (OnItsWay(d) \/ OnTheTable(d))'
  BY <1>1, <1>2 DEF Serving, OnItsWay, OnTheTable, Free
<1>5. LastPending'
  BY <1>1, <1>2 DEF Serving, LastPending, OnItsWay
<1>6. Serving'
  BY <1>1, <1>2, <1>4, <1>5 DEF Serving, QuietSmokers, Awoken, Free
<1> QED  BY <1>3, <1>6

LEMMA LockInv == ASSUME IInv, NEW c \in Component, Lock(c) PROVE IInv'
<1> USE DEF Lock, agentVars, IInv, TypeOK, PusherStates
<1>1. Serving
  BY DEF Ready, Resetting, Smoking, QuietPushers, Free
<1>2. OnItsWay(c) /\ c # left
  BY <1>1 DEF Serving, OnItsWay, OnTheTable, Free
<1>3. TypeOK' /\ LockOK'
  BY ComponentAssumption DEF LockOK
<1>4. \A d \in Component \ {left} : (OnItsWay(d) \/ OnTheTable(d))'
  BY <1>1, <1>2 DEF Serving, OnItsWay, OnTheTable, Free
<1>5. LastPending'
  BY <1>1, <1>2 DEF Serving, LastPending, OnItsWay
<1>6. Serving'
  BY <1>1, <1>2, <1>4, <1>5 DEF Serving, QuietSmokers, Awoken, Free
<1> QED  BY <1>3, <1>6

LEMMA SetComponentInv == ASSUME IInv, NEW c \in Component, SetComponent(c) PROVE IInv'
<1> USE DEF SetComponent, agentVars, IInv, TypeOK, PusherStates
<1>1. Serving
  BY DEF Ready, Resetting, Smoking, QuietPushers, Free
<1>2. OnItsWay(c) /\ c \notin toRelease /\ components[c] = 0 /\ c # left
  BY <1>1 DEF Serving, OnItsWay, OnTheTable, Free
<1>3. TypeOK' /\ LockOK'
  BY DEF LockOK
<1>4. \A d \in Component \ {left} : (OnItsWay(d) \/ OnTheTable(d))'
  BY <1>1, <1>2 DEF Serving, OnItsWay, OnTheTable, Free
<1>5. LastPending'
  BY <1>2 DEF LastPending
<1>6. Serving'
  BY <1>1, <1>2, <1>4, <1>5 DEF Serving, QuietSmokers, Awoken, Free
<1> QED  BY <1>3, <1>6

\* The look under the lock: who finds only `left` missing was the last one.
LEMMA LookInv == ASSUME IInv, NEW c \in Component, Look(c) PROVE IInv'
<1> USE DEF Look, agentVars, IInv, TypeOK, PusherStates
<1>1. Serving
  BY DEF Ready, Resetting, Smoking, QuietPushers, Free
<1>2. OnTheTable(c) /\ c # left
  BY <1>1 DEF Serving, OnItsWay, OnTheTable, Free
<1>3. TypeOK' /\ LockOK'
  BY DEF LockOK, Missing
<1>4. left \in Missing
  BY <1>1 DEF Serving, Missing
<1>5. \A d \in Component \ {left} : (OnItsWay(d) \/ OnTheTable(d))'
  <2> SUFFICES ASSUME NEW d \in Component \ {left} PROVE (OnItsWay(d) \/ OnTheTable(d))'
    OBVIOUS
  <2>1. CASE d = c
    <3>1. (seen[c] = {left})' => \A e \in Component : e # left => hasComponent[e]
      BY DEF Missing
    <3> QED  BY <1>2, <2>1, <3>1 DEF OnTheTable
  <2>2. CASE d # c
    BY <1>1, <2>2 DEF Serving, OnItsWay, OnTheTable, Free
  <2> QED  BY <2>1, <2>2
<1>6. LastPending'
  <2>1. CASE Missing = {left}
    BY <1>2, <2>1 DEF LastPending
  <2>2. CASE Missing # {left}
    <3>1. PICK d \in Component \ {left} : ~ hasComponent[d]
      BY <1>4, <2>2 DEF Missing
    <3> QED  BY <3>1 DEF LastPending
  <2> QED  BY <2>1, <2>2
<1>7. Serving'
  BY <1>1, <1>2, <1>4, <1>5, <1>6 DEF Serving, QuietSmokers, Awoken, Free
<1> QED  BY <1>3, <1>7
\* The last pusher wakes the smoker of `left`; from here the smoker is served.
LEMMA AwakeSmokerInv == ASSUME IInv, NEW c \in Component, AwakeSmoker(c) PROVE IInv'
<1> USE DEF AwakeSmoker, agentVars, IInv, TypeOK, PusherStates
<1>1. Serving
  BY DEF Ready, Resetting, Smoking, QuietPushers, Free
<1>2. c # left /\ OnTheTable(c) /\ lock = c
  BY <1>1 DEF Serving, OnItsWay, OnTheTable, Free, LockOK
<1>3. seen[c] = {left} /\ smokerSem' = [smokerSem EXCEPT ![left] = @ + 1]
  BY <1>1 DEF Serving
<1>4. \A d \in Component : d # left => OnTheTable(d)
  BY <1>1, <1>2, <1>3 DEF Serving, OnTheTable, OnItsWay
<1>5. \A d \in Component : d # c => pusher[d] \notin {"set", "look", "awake", "unlock"}
  BY <1>2 DEF LockOK
<1>6. TypeOK' /\ LockOK'
  BY <1>1, <1>3 DEF LockOK, Serving, QuietSmokers, Awoken
<1>7. AgentAsleep'
  BY <1>1, <1>4 DEF Serving, OnTheTable, AgentAsleep
<1>8. QuietPushers'
  BY <1>1, <1>2, <1>4, <1>5 DEF Serving, OnTheTable, QuietPushers, Free
<1>9. \A d \in Component : hasComponent'[d] <=> d # left'
  BY <1>1, <1>4 DEF Serving, OnTheTable
<1>10. \A d \in Component : (Awoken(d) <=> d = left)'
  BY <1>1, <1>3 DEF Serving, QuietSmokers, Awoken
<1>11. (smokerSem[left] = 1 => smoker[left] = "await")'
  BY <1>1 DEF Serving, QuietSmokers, Awoken
<1> QED  BY <1>1, <1>6, <1>7, <1>8, <1>9, <1>10, <1>11 DEF Smoking, Serving

\* A pusher that was not the last one leaves another one pending.
LEMMA AwakeNobodyInv == ASSUME IInv, NEW c \in Component, AwakeNobody(c) PROVE IInv'
<1> USE DEF AwakeNobody, agentVars, IInv, TypeOK, PusherStates
<1>1. Serving
  BY DEF Ready, Resetting, Smoking, QuietPushers, Free
<1>2. c # left /\ OnTheTable(c) /\ seen[c] # {left}
  BY <1>1 DEF Serving, OnItsWay, OnTheTable, Free
<1>3. TypeOK' /\ LockOK'
  BY DEF LockOK
<1>4. \A d \in Component \ {left} : (OnItsWay(d) \/ OnTheTable(d))'
  BY <1>1, <1>2 DEF Serving, OnItsWay, OnTheTable, Free
<1>5. LastPending'
  BY <1>1, <1>2 DEF Serving, LastPending
<1>6. Serving'
  BY <1>1, <1>2, <1>4, <1>5 DEF Serving, QuietSmokers, Awoken, Free
<1> QED  BY <1>3, <1>6

\* lock.unlock() may come late: the round may be over and the next one begun.
LEMMA UnlockInv == ASSUME IInv, NEW c \in Component, Unlock(c) PROVE IInv'
<1> USE DEF Unlock, agentVars, IInv, TypeOK, PusherStates
<1>1. TypeOK' /\ LockOK'
  BY ComponentAssumption DEF LockOK
<1>2. \A d \in Component : /\ Free(d) => Free(d)'
                           /\ Awoken(d)' <=> Awoken(d)
  BY DEF Free, Awoken
<1>3. CASE Ready
  BY <1>1, <1>2, <1>3 DEF Ready, AgentAsleep, QuietPushers, QuietSmokers
<1>4. CASE Resetting
  BY <1>1, <1>2, <1>4 DEF Resetting, QuietPushers, QuietSmokers
<1>5. CASE Serving
  <2>1. \A d \in Component \ {left} : (OnItsWay(d) \/ OnTheTable(d))'
    BY <1>5 DEF Serving, OnItsWay, OnTheTable, Free
  <2>2. LastPending'
    BY <1>5 DEF Serving, LastPending
  <2> QED  BY <1>1, <1>2, <1>5, <2>1, <2>2 DEF Serving, QuietSmokers
<1>6. CASE Smoking
  BY <1>1, <1>2, <1>6 DEF Smoking, AgentAsleep, QuietPushers
<1> QED  BY <1>3, <1>4, <1>5, <1>6

\* The woken smoker takes its permit, smokes, and hands the round back.
LEMMA AwaitComponentsInv == ASSUME IInv, NEW c \in Component, AwaitComponents(c) PROVE IInv'
<1> USE DEF AwaitComponents, agentVars, IInv, TypeOK
<1>1. Smoking
  BY DEF Ready, Resetting, Serving, QuietSmokers, Awoken
<1>2. TypeOK' /\ LockOK'
  BY DEF LockOK
<1>3. \A d \in Component : (Awoken(d) <=> d = left)'
  BY <1>1 DEF Smoking, Awoken
<1> QED  BY <1>1, <1>2, <1>3 DEF Smoking, AgentAsleep, QuietPushers, Free, Awoken

LEMMA AwakeAgentInv == ASSUME IInv, NEW c \in Component, AwakeAgent(c) PROVE IInv'
<1> USE DEF AwakeAgent, agentVars, IInv, TypeOK
<1>1. Smoking /\ c = left /\ smokerSem[c] = 0
  BY DEF Ready, Resetting, Serving, Smoking, QuietSmokers, Awoken
<1>2. TypeOK' /\ LockOK'
  BY <1>1 DEF LockOK, Smoking
<1>3. \A d \in Component : ~ Awoken(d)'
  BY <1>1 DEF Smoking, Awoken
<1> QED  BY <1>1, <1>2, <1>3 DEF Ready, Smoking, AgentAsleep, QuietPushers, Free, QuietSmokers

LEMMA StutterInv == ASSUME IInv, UNCHANGED vars PROVE IInv'
  BY DEF vars, IInv, TypeOK, LockOK, Ready, Resetting, Serving, Smoking, AgentAsleep,
         QuietPushers, QuietSmokers, Free, Awoken, OnItsWay, OnTheTable, LastPending

LEMMA StepInv == IInv /\ [Next]_vars => IInv'
<1> SUFFICES ASSUME IInv, [Next]_vars PROVE IInv'
  OBVIOUS
<1>1. CASE Agent
  BY <1>1, AgentWakeInv, ResetInv, ReleaseInv DEF Agent
<1>2. ASSUME NEW c \in Component, Pusher(c) PROVE IInv'
  BY <1>2, TakeInv, LockInv, SetComponentInv, LookInv, AwakeSmokerInv, AwakeNobodyInv,
     UnlockInv DEF Pusher
<1>3. ASSUME NEW c \in Component, Smoker(c) PROVE IInv'
  BY <1>3, AwaitComponentsInv, AwakeAgentInv DEF Smoker
<1>4. CASE UNCHANGED vars
  BY <1>4, StutterInv
<1> QED  BY <1>1, <1>2, <1>3, <1>4 DEF Next

LEMMA Invariance == Spec => []IInv
<1> QED  BY InitInv, StepInv, PTL DEF Spec
------------------------------------------------------------------------------
\* Every state the threads reach has the declared shape, and no semaphore of
\* the table, the agent or a smoker ever collects a second permit.
THEOREM TypeCorrect == Spec => []TypeOK
<1>1. IInv => TypeOK
  BY DEF IInv
<1> QED  BY <1>1, Invariance, PTL

\* The smoker Table.awakeSmoker wakes is the one whose component was left out,
\* with everything else on the table and the agent asleep.
THEOREM SafeSmoking == Spec => []RightSmoker
<1>1. IInv => RightSmoker
  BY DEF IInv, TypeOK, RightSmoker, Ready, Resetting, Serving, Smoking, AgentAsleep,
         QuietSmokers, QuietPushers, Free
<1> QED  BY <1>1, Invariance, PTL

\* The reset of Table.putComponents, which takes no lock, never runs while a
\* pusher is between its take and its last look at the flags.
THEOREM SafeReset == Spec => []QuietReset
<1>1. IInv => QuietReset
  BY DEF IInv, QuietReset, Ready, Resetting, Serving, Smoking, AgentAsleep,
         QuietPushers, Free
<1> QED  BY <1>1, Invariance, PTL
------------------------------------------------------------------------------
(* Refinement: a step of a thread is a step of the rounds or a stutter.    *)

LEMMA PhaseOf ==
  ASSUME IInv
  PROVE  /\ Ready => Phase = "ready"
         /\ Resetting \/ Serving => Phase = "offered"
         /\ Smoking => Phase = IF smoker[left] = "smoke" THEN "smoking" ELSE "offered"
  BY DEF IInv, TypeOK, Phase, Ready, Resetting, Serving, Smoking, QuietSmokers, Awoken

LEMMA PhaseNext ==
  ASSUME IInv'
  PROVE  /\ Ready' => Phase' = "ready"
         /\ Resetting' \/ Serving' => Phase' = "offered"
         /\ Smoking' => Phase' = IF smoker'[left'] = "smoke" THEN "smoking" ELSE "offered"
  BY DEF IInv, TypeOK, Phase, Ready, Resetting, Serving, Smoking, QuietSmokers, Awoken

LEMMA StepRefines == IInv /\ IInv' /\ [Next]_vars => [Rounds!Next]_(Rounds!roundVars)
<1> SUFFICES ASSUME IInv, IInv', [Next]_vars PROVE [Rounds!Next]_(Rounds!roundVars)
  OBVIOUS
<1> USE DEF Rounds!Next, Rounds!roundVars
<1>1. CASE AgentWake
  <2>1. Ready /\ Resetting'
    BY <1>1, ComponentAssumption
    DEF AgentWake, IInv, TypeOK, Ready, Resetting, Serving, Smoking, AgentAsleep
  <2> QED  BY <1>1, <2>1, PhaseOf, PhaseNext DEF AgentWake, Rounds!Offer
<1>2. ASSUME NEW c \in Component, AwaitComponents(c) PROVE Rounds!Next
  <2>1. Smoking /\ c = left /\ smoker[left] = "await" /\ smoker'[left] = "smoke"
    BY <1>2 DEF AwaitComponents, IInv, TypeOK, Ready, Resetting, Serving, Smoking,
                QuietSmokers, Awoken
  <2>2. left' = left /\ Phase = "offered" /\ Phase' = "smoking"
    BY <1>2, <2>1, PhaseOf DEF AwaitComponents, agentVars, Phase
  <2> QED  BY <2>2 DEF Rounds!Smoke
<1>3. ASSUME NEW c \in Component, AwakeAgent(c) PROVE Rounds!Next
  <2>1. Smoking /\ c = left /\ smoker[left] = "smoke" /\ Ready'
    BY <1>3 DEF AwakeAgent, IInv, TypeOK, Ready, Resetting, Serving, Smoking,
                QuietSmokers, Awoken
  <2> QED  BY <1>3, <2>1, PhaseOf, PhaseNext DEF AwakeAgent, Rounds!Finish
<1>4. ASSUME smoker' = smoker, agentSem' = agentSem, left' = left
      PROVE  UNCHANGED Rounds!roundVars
  BY <1>4 DEF Phase
<1>5. ASSUME NEW c \in Component, ResetComponent(c) \/ ReleaseComponent(c) \/ Pusher(c)
      PROVE  smoker' = smoker /\ agentSem' = agentSem /\ left' = left
  BY <1>5 DEF ResetComponent, ReleaseComponent, Pusher, Take, Lock, SetComponent, Look,
              AwakeSmoker, AwakeNobody, Unlock, agentVars
<1>6. CASE UNCHANGED vars
  BY <1>4, <1>6 DEF vars
<1> QED  BY <1>1, <1>2, <1>3, <1>4, <1>5, <1>6 DEF Next, Agent, Smoker

\* The threads implement the rounds: a pair put on the table is smoked at most
\* once, by the smoker that lacks exactly it, before the next pair is put.
THEOREM RefinesRounds == Spec => Rounds!Safety
<1>1. Init => Rounds!Init
  BY DEF Init, Rounds!Init, Phase
<1> QED  BY <1>1, StepRefines, Invariance, PTL DEF Spec, Rounds!Safety
==============================================================================
