------------------------------- MODULE Smokers -------------------------------
(***************************************************************************)
(* The cigarette smokers of JavaConcurrency/agent: one Agent thread, and   *)
(* for every Component one Pusher thread and one Smoker thread, around a   *)
(* Table that keeps a semaphore and a flag per component.                  *)
(*                                                                         *)
(* One action is one step of a thread between two accesses to shared       *)
(* state.  The enum loops of Table.putComponents visit the components in   *)
(* an arbitrary order, which includes the order of the enum.  The scan of  *)
(* Table.getComponents is one step: QuietReset shows that nobody writes    *)
(* the flags while a pusher holds the lock and has work left.              *)
(***************************************************************************)
EXTENDS Naturals

CONSTANTS Component,  \* the values of the enum Component
          NoPusher    \* the lock is free

ASSUME ComponentAssumption == /\ \E c, d \in Component : c # d
                              /\ NoPusher \notin Component

VARIABLES
  agentSem,      \* Agent.semaphore
  left,          \* the component nextComponents removed, kept until the next round
  toReset,       \* components the first loop of putComponents has yet to reset
  toRelease,     \* components the second loop of putComponents has yet to release
  components,    \* Table.components: permits per component
  hasComponent,  \* Table.hasComponent
  lock,          \* Pusher.lock: the pusher that holds it, or NoPusher
  pusher,        \* the program counter of each pusher
  seen,          \* the local variable components of each pusher, {} outside the lock
  smokerSem,     \* Smoker.components: permits per smoker
  smoker         \* the program counter of each smoker

agentVars == <<agentSem, left, toReset, toRelease>>
vars == <<agentSem, left, toReset, toRelease, components, hasComponent,
          lock, pusher, seen, smokerSem, smoker>>

Init == /\ agentSem = 1
        /\ left \in Component
        /\ toReset = {}
        /\ toRelease = {}
        /\ components = [c \in Component |-> 0]
        /\ hasComponent = [c \in Component |-> FALSE]
        /\ lock = NoPusher
        /\ pusher = [c \in Component |-> "take"]
        /\ seen = [c \in Component |-> {}]
        /\ smokerSem = [c \in Component |-> 0]
        /\ smoker = [c \in Component |-> "await"]
------------------------------------------------------------------------------
(* Agent.run: sleep, then putComponents of a random pair.                  *)

AgentAsleep == toReset = {} /\ toRelease = {}

AgentWake ==
  /\ AgentAsleep
  /\ agentSem > 0
  /\ agentSem' = agentSem - 1
  /\ left' \in Component
  /\ toReset' = Component
  /\ toRelease' = Component \ {left'}
  /\ UNCHANGED <<components, hasComponent, lock, pusher, seen, smokerSem, smoker>>

\* Mutant: the first loop of putComponents is missing.
ResetForgotten(c) ==
  /\ c \in toReset
  /\ toReset' = toReset \ {c}
  /\ UNCHANGED <<agentSem, left, toRelease, components, hasComponent, lock, pusher, seen,
                 smokerSem, smoker>>

ResetComponent(c) ==
  /\ c \in toReset
  /\ toReset' = toReset \ {c}
  /\ hasComponent' = [hasComponent EXCEPT ![c] = FALSE]
  /\ UNCHANGED <<agentSem, left, toRelease, components, lock, pusher, seen, smokerSem, smoker>>

ReleaseComponent(c) ==
  /\ toReset = {}
  /\ c \in toRelease
  /\ toRelease' = toRelease \ {c}
  /\ components' = [components EXCEPT ![c] = @ + 1]
  /\ UNCHANGED <<agentSem, left, toReset, hasComponent, lock, pusher, seen, smokerSem, smoker>>

Agent == AgentWake \/ \E c \in Component : ResetComponent(c) \/ ReleaseComponent(c)
------------------------------------------------------------------------------
(* Pusher.run.                                                             *)

Missing == {c \in Component : ~ hasComponent[c]}

Take(c) ==
  /\ pusher[c] = "take"
  /\ components[c] > 0
  /\ components' = [components EXCEPT ![c] = @ - 1]
  /\ pusher' = [pusher EXCEPT ![c] = "lock"]
  /\ UNCHANGED <<agentVars, hasComponent, lock, seen, smokerSem, smoker>>

\* Mutant: lock.lock() is missing.
LockMissing(c) ==
  /\ pusher[c] = "lock"
  /\ lock' = c
  /\ pusher' = [pusher EXCEPT ![c] = "set"]
  /\ UNCHANGED <<agentVars, components, hasComponent, seen, smokerSem, smoker>>

Lock(c) ==
  /\ pusher[c] = "lock"
  /\ lock = NoPusher
  /\ lock' = c
  /\ pusher' = [pusher EXCEPT ![c] = "set"]
  /\ UNCHANGED <<agentVars, components, hasComponent, seen, smokerSem, smoker>>

SetComponent(c) ==
  /\ pusher[c] = "set"
  /\ hasComponent' = [hasComponent EXCEPT ![c] = TRUE]
  /\ pusher' = [pusher EXCEPT ![c] = "look"]
  /\ UNCHANGED <<agentVars, components, lock, seen, smokerSem, smoker>>

\* EnumSet.complementOf(table.getComponents())
Look(c) ==
  /\ pusher[c] = "look"
  /\ seen' = [seen EXCEPT ![c] = Missing]
  /\ pusher' = [pusher EXCEPT ![c] = "awake"]
  /\ UNCHANGED <<agentVars, components, hasComponent, lock, smokerSem, smoker>>

\* Mutant: the smoker of any missing component is woken.
AwakeAny(c) ==
  /\ pusher[c] = "awake"
  /\ \E m \in seen[c] : smokerSem' = [smokerSem EXCEPT ![m] = @ + 1]
  /\ pusher' = [pusher EXCEPT ![c] = "unlock"]
  /\ UNCHANGED <<agentVars, components, hasComponent, lock, seen, smoker>>

\* components.size() == 1: table.awakeSmoker finds the smoker that owns it.
AwakeSmoker(c) ==
  /\ pusher[c] = "awake"
  /\ \E m \in Component : /\ seen[c] = {m}
                          /\ smokerSem' = [smokerSem EXCEPT ![m] = @ + 1]
  /\ pusher' = [pusher EXCEPT ![c] = "unlock"]
  /\ UNCHANGED <<agentVars, components, hasComponent, lock, seen, smoker>>

AwakeNobody(c) ==
  /\ pusher[c] = "awake"
  /\ ~ \E m \in Component : seen[c] = {m}
  /\ pusher' = [pusher EXCEPT ![c] = "unlock"]
  /\ UNCHANGED <<agentVars, components, hasComponent, lock, seen, smokerSem, smoker>>

\* Mutant: lock.unlock() is missing.
UnlockForgotten(c) ==
  /\ pusher[c] = "unlock"
  /\ seen' = [seen EXCEPT ![c] = {}]
  /\ pusher' = [pusher EXCEPT ![c] = "take"]
  /\ UNCHANGED <<agentVars, components, hasComponent, lock, smokerSem, smoker>>

Unlock(c) ==
  /\ pusher[c] = "unlock"
  /\ lock' = NoPusher
  /\ seen' = [seen EXCEPT ![c] = {}]
  /\ pusher' = [pusher EXCEPT ![c] = "take"]
  /\ UNCHANGED <<agentVars, components, hasComponent, smokerSem, smoker>>

Pusher(c) == \/ Take(c) \/ Lock(c) \/ SetComponent(c) \/ Look(c)
             \/ AwakeSmoker(c) \/ AwakeNobody(c) \/ Unlock(c)
------------------------------------------------------------------------------
(* Smoker.run.                                                             *)

AwaitComponents(c) ==
  /\ smoker[c] = "await"
  /\ smokerSem[c] > 0
  /\ smokerSem' = [smokerSem EXCEPT ![c] = @ - 1]
  /\ smoker' = [smoker EXCEPT ![c] = "smoke"]
  /\ UNCHANGED <<agentVars, components, hasComponent, lock, pusher, seen>>

\* smoke returns and the smoker calls table.awakeAgent.
AwakeAgent(c) ==
  /\ smoker[c] = "smoke"
  /\ agentSem' = agentSem + 1
  /\ smoker' = [smoker EXCEPT ![c] = "await"]
  /\ UNCHANGED <<left, toReset, toRelease, components, hasComponent, lock, pusher,
                 seen, smokerSem>>

Smoker(c) == AwaitComponents(c) \/ AwakeAgent(c)
------------------------------------------------------------------------------
Next == Agent \/ \E c \in Component : Pusher(c) \/ Smoker(c)

Spec == Init /\ [][Next]_vars

\* Every thread that can take a step eventually does.
Fairness == /\ WF_vars(Agent)
            /\ \A c \in Component : WF_vars(Pusher(c)) /\ WF_vars(Smoker(c))

FairSpec == Spec /\ Fairness
------------------------------------------------------------------------------
PusherStates == {"take", "lock", "set", "look", "awake", "unlock"}

\* The state has the shape the declarations of Table, Agent, Pusher and
\* Smoker give it, and no semaphore ever holds more than one permit.
TypeOK ==
  /\ agentSem \in 0..1
  /\ left \in Component
  /\ toReset \in SUBSET Component
  /\ toRelease \in SUBSET Component
  /\ components \in [Component -> 0..1]
  /\ hasComponent \in [Component -> BOOLEAN]
  /\ lock \in Component \cup {NoPusher}
  /\ pusher \in [Component -> PusherStates]
  /\ seen \in [Component -> SUBSET Component]
  /\ smokerSem \in [Component -> 0..1]
  /\ smoker \in [Component -> {"await", "smoke"}]

Awoken(c) == smokerSem[c] > 0 \/ smoker[c] = "smoke"

\* Only the smoker that owns the component Agent.nextComponents left out is
\* ever woken by Table.awakeSmoker; the rest is then on the table, nothing of
\* the round is still to be handed out, and the agent sleeps with no permit to
\* start the next one under the smoker.
RightSmoker ==
  \A c \in Component : Awoken(c) =>
    /\ c = left
    /\ agentSem = 0 /\ AgentAsleep
    /\ \A d \in Component : components[d] = 0 /\ (hasComponent[d] <=> d # left)

\* Agent.putComponents resets Table.hasComponent without taking Pusher.lock.
\* No pusher is then between its take and its last look at the flags.
QuietReset ==
  toReset # {} => \A c \in Component : pusher[c] \in {"take", "unlock"}
------------------------------------------------------------------------------
(* The table implements the rounds it promises.                            *)

Phase == IF \E c \in Component : smoker[c] = "smoke" THEN "smoking"
         ELSE IF agentSem = 1 THEN "ready" ELSE "offered"

Rounds == INSTANCE SmokersRounds WITH phase <- Phase

\* Every behaviour of the threads is a behaviour of SmokersRounds: a pair the
\* agent puts is smoked once, by the smoker that lacks exactly it, and under
\* the fairness of the threads no round is lost between the pushers.
ImplementsRounds == Rounds!Spec
------------------------------------------------------------------------------
(* The inductive invariant: in which stage of a round the threads are.     *)

\* A pusher with no component of this round in its hands.  It may still be
\* about to unlock after the last one.
Free(c) == components[c] = 0 /\ pusher[c] \in {"take", "unlock"}

QuietPushers == \A c \in Component : Free(c)
QuietSmokers == \A c \in Component : ~ Awoken(c)

LockOK == \A c \in Component :
            (pusher[c] \in {"set", "look", "awake", "unlock"}) <=> (lock = c)

Ready == /\ agentSem = 1 /\ AgentAsleep
         /\ QuietPushers /\ QuietSmokers

Resetting == /\ agentSem = 0 /\ toReset # {} /\ toRelease = Component \ {left}
             /\ \A c \in Component \ toReset : ~ hasComponent[c]
             /\ QuietPushers /\ QuietSmokers

\* How far component c of the pair has come from the agent to the table.
OnItsWay(c) == /\ ~ hasComponent[c]
               /\ \/ Free(c) /\ c \in toRelease
                  \/ /\ c \notin toRelease
                     /\ \/ components[c] = 1 /\ pusher[c] \in {"take", "unlock"}
                        \/ components[c] = 0 /\ pusher[c] \in {"lock", "set"}

OnTheTable(c) == /\ hasComponent[c]
                 /\ c \notin toRelease /\ components[c] = 0
                 /\ pusher[c] \in {"take", "look", "awake", "unlock"}
                 /\ (pusher[c] = "awake" /\ seen[c] = {left})
                       => \A d \in Component : d # left => hasComponent[d]

\* Someone still has to put a component, or to see that it was the last one.
LastPending == \E c \in Component \ {left} :
                 \/ ~ hasComponent[c]
                 \/ pusher[c] = "look"
                 \/ pusher[c] = "awake" /\ seen[c] = {left}

Serving == /\ agentSem = 0 /\ toReset = {}
           /\ QuietSmokers
           /\ ~ hasComponent[left] /\ Free(left) /\ left \notin toRelease
           /\ \A c \in Component \ {left} : OnItsWay(c) \/ OnTheTable(c)
           /\ \A c \in Component : pusher[c] = "awake" => left \in seen[c]
           /\ LastPending

Smoking == /\ agentSem = 0 /\ AgentAsleep
           /\ QuietPushers
           /\ \A c \in Component : hasComponent[c] <=> c # left
           /\ \A c \in Component : Awoken(c) <=> c = left
           /\ smokerSem[left] = 1 => smoker[left] = "await"

IInv == TypeOK /\ LockOK /\ (Ready \/ Resetting \/ Serving \/ Smoking)
==============================================================================
