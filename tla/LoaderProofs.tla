---------------------------- MODULE LoaderProofs -----------------------------
(***************************************************************************)
(* Proofs about Loader, for every number of modules N, every graph of      *)
(* their dependencies and every set of shimmed scripts.                    *)
(*                                                                         *)
(* Between two calls of a callback much is half done.  The invariant says  *)
(* what the calls that are still to be made, the members of todo, make up  *)
(* for, and in which order they stand there.                               *)
(***************************************************************************)
EXTENDS Loader, FiniteSetTheorems, SequenceTheorems, TLAPS

EnablingCalls == {"init", "enable", "enableDep", "enableNew"}
BreakingCalls == {"breakCycle", "visit", "breakEnd"}
Functions == EnablingCalls \cup BreakingCalls
               \cup {"enableEnd", "notify", "check", "emit", "emitEnd", "checkLoaded"}
Calls == [f : Functions, id : Id, i : Nat]

\* The calls still to be made, and those after the next one.
Pending == ToSet(todo)
Rest == ToSet(Tail(todo))

\* The places of the dependencies of id that enable has not come to.
Due(id) == {i \in DOMAIN DepsOf(id) : Call("enableDep", id, i) \in Pending}

\* enable has come to the dependency of id in place i: it is counted.
Asked(id, i) == /\ id \in inited \cap enabled /\ i \in DOMAIN DepsOf(id)
                /\ Call("enableDep", id, i) \notin Pending
                /\ Call("enable", id, 0) \notin Pending

\* The dependency of id in place i may count as defined.
Just(id, i) == DepsOf(id)[i] \in ToSet(runs) \/ id \in Reach(deps, {DepsOf(id)[i]})

\* What may stand behind the call x in todo.  Calls of init and enable are only
\* made in front of all others; a module is enabled once; modules are not enabled
\* while cycles are broken; breakCycle goes from a module to its dependencies.
Fits(x, y) ==
  /\ y.f \notin {"init", "enable"} /\ x.f # "checkLoaded"
  /\ x.f = "init" => y.f = "checkLoaded"
  /\ x.f \in {"enableDep", "enableEnd"} => y # x
  /\ x.f = "enableEnd" /\ y.f = "enableDep" => y.id # x.id
  /\ x.f \in EnablingCalls => y.f \notin BreakingCalls
  /\ x.f \in BreakingCalls => y.f \notin EnablingCalls
  /\ x.f \in BreakingCalls /\ y.f = "breakEnd" /\ y.id > 0 => x.id \in Reach(deps, {y.id})

Ordered(calls) == \A j, k \in DOMAIN calls : j < k => Fits(calls[j], calls[k])

\* The types of the variables.
Shapes ==
  /\ deps \in [0..N -> Seq(Modules)] /\ shim \subseteq Modules
  /\ inited \subseteq Id /\ enabled \subseteq Id /\ fetched \subseteq Id
  /\ depCount \in [Id -> Int]
  /\ matched \in [Id -> SUBSET Nat]
  /\ events \in [Id -> Seq(Id \X Nat)]
  /\ registry \subseteq Id /\ reqCalls \in Seq(-N..0) /\ runs \in Seq(Id)
  /\ loading \subseteq Modules /\ ticks \in Seq(-N..0)
  /\ todo \in Seq(Calls)

\* What holds of a call until it is made.
CallOK(c) ==
  /\ c.f \in {"enableDep", "enableNew"} => c.id \in inited /\ c.i \in DOMAIN DepsOf(c.id)
  /\ c.f \in {"notify", "visit"} => Asked(c.id, c.i)
  /\ c.f = "notify" => Just(c.id, c.i)
  /\ c.f = "emit" => c.id \in ToSet(runs)
  /\ c.f = "emitEnd" => c.id \in emitted

CallsOK == \A c \in Pending : CallOK(c)

\* A module is flagged as enabling while the end of its enable call is to come, and
\* init is followed by enable.
EnablingOK ==
  /\ enabling = {id \in Id : Call("enableEnd", id, 0) \in Pending}
  /\ \A c \in Pending : c.f = "enableDep" => Call("enableEnd", c.id, 0) \in Pending
  /\ \A c \in Pending : c.f = "enableEnd" => c.id \in enabled
  /\ \A id \in inited \ enabled : Call("enable", id, 0) \in Pending
  /\ \A id \in enabled : id > 0 \/ id \in inited
  /\ \A c \in Pending : c.f = "enable" =>
       /\ c.id \in inited \/ c.id > 0
       /\ Call("enableEnd", c.id, 0) \notin Pending

\* depCount counts the dependencies that enable has come to and nobody matched.
CountOK ==
  \A id \in Id :
    IF Call("enable", id, 0) \in Pending THEN depCount[id] = 0 /\ matched[id] = {}
    ELSE depCount[id] = Len(DepsOf(id)) - Cardinality(Due(id)) - Cardinality(matched[id])

\* Only what was asked for is matched, and for a reason; a callback waits for the
\* dependency it was registered on.
MatchOK ==
  /\ \A id \in Id : \A i \in matched[id] : Asked(id, i) /\ Just(id, i)
  /\ \A d \in Id : \A e \in ToSet(events[d]) : Asked(e[1], e[2]) /\ DepsOf(e[1])[e[2]] = d

\* The modules traced and not processed are those breakCycle is at.
CycleOK == \A d \in traced \ processed : d > 0 => Call("breakEnd", d, 0) \in Pending

\* A module that is defined tells, or will: in this callback.
EmitOK ==
  /\ \A id \in ToSet(runs) : id \in emitted \/ Call("emit", id, 0) \in Pending
  /\ emitted \subseteq ToSet(runs) /\ complete \subseteq emitted
  /\ \A id \in emitted : id \in complete \/ Call("emitEnd", id, 0) \in Pending

\* The promises, and that only modules with dependencies known are run.
RunsOK == ToSet(runs) \subseteq inited /\ FactoryAfterDeps /\ ShimWaits

\* The inductive invariant.
IInv == /\ Shapes /\ CallsOK /\ Ordered(todo) /\ EnablingOK
        /\ CountOK /\ MatchOK /\ CycleOK /\ EmitOK /\ RunsOK

------------------------------------------------------------------------------
LEMMA IdFacts == /\ N \in Nat \ {0} /\ Main \in Id /\ Main \in 0..N
                 /\ Modules \subseteq Id /\ -N..0 \subseteq Id
                 /\ \A id \in Id : (IF id < 0 THEN -id ELSE id) \in 0..N
                 /\ \A m \in Modules : -m \in -N..0
  BY LoaderAssumption DEF Main, Id, Modules

\* What is reached from d contains d and, with a module, what it depends on.
LEMMA Reaches ==
  ASSUME deps \in [0..N -> Seq(Modules)], NEW d \in 0..N
  PROVE  /\ d \in Reach(deps, {d}) /\ Reach(deps, {d}) \subseteq 0..N
         /\ \A a \in Reach(deps, {d}) : ToSet(deps[a]) \subseteq Reach(deps, {d})
<1>1. \A a \in 0..N : ToSet(deps[a]) \subseteq Modules
  BY DEF ToSet
<1>2. Modules \subseteq 0..N
  BY LoaderAssumption DEF Modules
<1> QED  BY <1>1, <1>2 DEF Reach

LEMMA DepsFacts ==
  ASSUME deps \in [0..N -> Seq(Modules)], NEW id \in Id
  PROVE  /\ DepsOf(id) \in Seq(Modules)
         /\ id \notin inited => DepsOf(id) = <<>> /\ DOMAIN DepsOf(id) = {}
         /\ DOMAIN DepsOf(id) = 1..Len(DepsOf(id))
         /\ \A i \in DOMAIN DepsOf(id) : DepsOf(id)[i] \in Modules
  BY IdFacts DEF DepsOf

LEMMA Members ==
  ASSUME NEW S, NEW s \in Seq(S)
  PROVE  /\ ToSet(s) \subseteq S /\ DOMAIN s = 1..Len(s) /\ Len(s) \in Nat
         /\ \A x : x \in ToSet(s) <=> \E k \in 1..Len(s) : x = s[k]
  BY DEF ToSet

\* The calls that are pending before and after one is made.
LEMMA Turned ==
  ASSUME todo \in Seq(Calls), Ordered(todo), NEW f, NEW id, NEW i, Turn(f, id, i),
         NEW calls \in Seq(Calls), Do(calls)
  PROVE  /\ Call(f, id, i) \in Calls
         /\ Pending = {Call(f, id, i)} \cup Rest
         /\ Pending' = ToSet(calls) \cup Rest
         /\ todo' \in Seq(Calls)
         /\ \A y \in Rest : y \in Calls /\ Fits(Call(f, id, i), y)
         /\ Ordered(calls) /\ (\A x \in ToSet(calls), y \in Rest : Fits(x, y)) => Ordered(todo')
<1> DEFINE tail == Tail(todo)
<1>1. /\ todo # <<>> /\ todo[1] = Call(f, id, i) /\ todo' = calls \o tail
  BY DEF Turn, Do
<1>2. /\ tail \in Seq(Calls) /\ Len(tail) = Len(todo) - 1 /\ Len(todo) \in Nat \ {0}
      /\ \A k \in 1..Len(tail) : tail[k] = todo[k + 1]
  BY <1>1
<1>3. /\ Len(todo') = Len(calls) + Len(tail) /\ todo' \in Seq(Calls)
      /\ Len(calls) \in Nat /\ Len(tail) \in Nat
      /\ \A k \in 1..Len(todo') : todo'[k] = IF k <= Len(calls) THEN calls[k] ELSE tail[k - Len(calls)]
  BY <1>1, <1>2
<1> HIDE DEF tail
<1>4. Pending = {todo[1]} \cup ToSet(tail)
  <2>1. \A k \in 1..Len(todo) : k = 1 \/ (k - 1 \in 1..Len(tail) /\ todo[k] = tail[k - 1])
    BY <1>2
  <2>2. \A k \in 1..Len(tail) : k + 1 \in 1..Len(todo)
    BY <1>2
  <2>3. 1 \in 1..Len(todo)
    BY <1>2
  <2>4. \A x : x \in Pending <=> \E k \in 1..Len(todo) : x = todo[k]
    BY Members DEF Pending
  <2>5. \A x : x \in ToSet(tail) <=> \E k \in 1..Len(tail) : x = tail[k]
    BY <1>2, Members
  <2>6. \A x : x \in Pending => x = todo[1] \/ x \in ToSet(tail)
    BY <2>1, <2>4, <2>5
  <2>7. \A x : x \in ToSet(tail) => x \in Pending
    BY <1>2, <2>2, <2>4, <2>5
  <2> QED  BY <2>3, <2>4, <2>6, <2>7
<1>5. Pending' = ToSet(calls) \cup ToSet(tail)
  <2>1. \A k \in 1..Len(todo') : (k \in 1..Len(calls) /\ todo'[k] = calls[k])
                                   \/ (k - Len(calls) \in 1..Len(tail) /\ todo'[k] = tail[k - Len(calls)])
    BY <1>3
  <2>2. \A k \in 1..Len(calls) : k \in 1..Len(todo') /\ todo'[k] = calls[k]
    BY <1>3
  <2>3. ASSUME NEW k \in 1..Len(tail)
        PROVE  k + Len(calls) \in 1..Len(todo') /\ todo'[k + Len(calls)] = tail[k]
    <3>1. k + Len(calls) \in 1..Len(todo') /\ ~ (k + Len(calls) <= Len(calls)) /\ (k + Len(calls)) - Len(calls) = k
      BY <1>3
    <3> QED  BY <3>1, <1>3
  <2>4. \A x : x \in Pending' <=> \E k \in 1..Len(todo') : x = todo'[k]
    BY <1>3, Members DEF Pending
  <2>5. \A x : x \in ToSet(tail) <=> \E k \in 1..Len(tail) : x = tail[k]
    BY <1>2, Members
  <2>6. \A x : x \in ToSet(calls) <=> \E k \in 1..Len(calls) : x = calls[k]
    BY Members
  <2>7. \A x : x \in Pending' => x \in ToSet(calls) \/ x \in ToSet(tail)
    BY <2>1, <2>4, <2>5, <2>6
  <2>8. \A x : x \in ToSet(calls) => x \in Pending'
    BY <2>2, <2>4, <2>6
  <2>9. \A x : x \in ToSet(tail) => x \in Pending'
    BY <2>3, <2>4, <2>5
  <2> QED  BY <2>7, <2>8, <2>9
<1>6. \A k \in 1..Len(tail) : tail[k] \in Calls /\ Fits(todo[1], tail[k])
  BY <1>2 DEF Ordered
<1>7. ASSUME Ordered(calls), \A x \in ToSet(calls), y \in ToSet(tail) : Fits(x, y)
      PROVE  Ordered(todo')
  <2> SUFFICES ASSUME NEW j \in 1..Len(todo'), NEW k \in 1..Len(todo'), j < k
               PROVE  Fits(todo'[j], todo'[k])
    BY <1>3 DEF Ordered
  <2>1. CASE k <= Len(calls)
    <3>1. j \in DOMAIN calls /\ k \in DOMAIN calls /\ todo'[j] = calls[j] /\ todo'[k] = calls[k]
      BY <2>1, <1>3
    <3> QED  BY <3>1, <1>7 DEF Ordered
  <2>2. CASE j <= Len(calls) /\ k > Len(calls)
    <3>1. j \in DOMAIN calls /\ k - Len(calls) \in DOMAIN tail
          /\ todo'[j] = calls[j] /\ todo'[k] = tail[k - Len(calls)]
      BY <2>2, <1>2, <1>3
    <3> QED  BY <3>1, <1>7 DEF ToSet
  <2>3. CASE j > Len(calls)
    <3>1. /\ j - Len(calls) \in 1..Len(tail) /\ k - Len(calls) \in 1..Len(tail)
          /\ todo'[j] = tail[j - Len(calls)] /\ todo'[k] = tail[k - Len(calls)]
      BY <2>3, <1>3
    <3>2. \A u \in 1..Len(tail) : tail[u] = todo[u + 1] /\ u + 1 \in DOMAIN todo
      BY <1>2
    <3>3. j - Len(calls) < k - Len(calls)
      BY <1>3
    <3>4. PICK u, v \in 1..Len(tail) : u < v /\ todo'[j] = tail[u] /\ todo'[k] = tail[v]
      BY <3>1, <3>3
    <3>5. u + 1 < v + 1
      BY <3>4, <1>3
    <3> QED  BY <3>2, <3>4, <3>5 DEF Ordered
  <2> QED  BY <2>1, <2>2, <2>3, <1>3
<1>8. todo[1] \in Calls
  BY <1>2
<1> QED
  BY <1>1, <1>3, <1>4, <1>5, <1>6, <1>7, <1>8 DEF ToSet, Rest, tail

LEMMA InitInv == Init => IInv
<1> SUFFICES ASSUME Init PROVE IInv
  OBVIOUS
<1>1. Pending = {} /\ ToSet(runs) = {}
  BY DEF Init, Pending, ToSet
<1>2. deps \in [0..N -> Seq(Modules)]
  <2>1. BoundedSeq(Modules, N) \subseteq Seq(Modules)
    BY LoaderAssumption DEF BoundedSeq, SeqOf
  <2> QED  BY <2>1 DEF Init
<1>3. Shapes
  <2>1. ticks \in Seq(-N..0)
    BY LoaderAssumption DEF Init, Main
  <2> QED  BY <1>2, <2>1 DEF Init, Shapes
<1>4. \A id \in Id : DepsOf(id) = <<>> /\ Due(id) = {}
  BY <1>1 DEF Init, DepsOf, Due
<1>5. CountOK
  <2> SUFFICES ASSUME NEW id \in Id
               PROVE  depCount[id] = Len(DepsOf(id)) - Cardinality(Due(id)) - Cardinality(matched[id])
    BY <1>1 DEF CountOK
  <2>1. depCount[id] = 0 /\ matched[id] = {} /\ Len(DepsOf(id)) = 0
    BY <1>4 DEF Init
  <2>2. Cardinality(Due(id)) = 0 /\ Cardinality(matched[id]) = 0
    BY <1>4, <2>1, FS_EmptySet
  <2> QED  BY <2>1, <2>2
<1>6. MatchOK
  BY DEF Init, MatchOK, ToSet
<1>7. RunsOK
  BY <1>1 DEF Init, RunsOK, FactoryAfterDeps, IsInjective, ShimWaits, ToSet
<1> QED
  BY <1>1, <1>3, <1>5, <1>6, <1>7
  DEF Init, IInv, CallsOK, Ordered, EnablingOK, CycleOK, EmitOK
------------------------------------------------------------------------------
(* What a step leaves alone.                                               *)

\* A call that is not made stays; the calls of a function come from calls of it.
LEMMA StillPending ==
  ASSUME IInv, NEW f, NEW id, NEW i, Turn(f, id, i), NEW calls \in Seq(Calls), Do(calls)
  PROVE  /\ \A c \in Pending : c = Call(f, id, i) \/ c \in Pending'
         /\ \A c \in Pending' : c \in ToSet(calls) \/ c \in Pending
         /\ ToSet(calls) \subseteq Pending'
         /\ Call(f, id, i) \in Pending /\ Call(f, id, i) \in Calls
         /\ \A g, x, k : g # f /\ Call(g, x, k) \in Pending => Call(g, x, k) \in Pending'
         /\ \A g, x, k : (\A c \in ToSet(calls) : c.f # g) /\ Call(g, x, k) \in Pending'
                           => Call(g, x, k) \in Pending
<1>1. /\ \A c \in Pending : c = Call(f, id, i) \/ c \in Pending'
      /\ \A c \in Pending' : c \in ToSet(calls) \/ c \in Pending
      /\ ToSet(calls) \subseteq Pending'
      /\ Call(f, id, i) \in Pending /\ Call(f, id, i) \in Calls
  BY Turned DEF IInv, Shapes
<1>2. ASSUME NEW g, NEW x, NEW k, g # f, Call(g, x, k) \in Pending
      PROVE  Call(g, x, k) \in Pending'
  <2>1. Call(g, x, k).f = g /\ Call(f, id, i).f = f
    BY DEF Call
  <2>2. Call(g, x, k) # Call(f, id, i)
    BY <2>1, <1>2
  <2> QED  BY <1>1, <1>2, <2>2
<1>3. ASSUME NEW g, NEW x, NEW k, \A c \in ToSet(calls) : c.f # g, Call(g, x, k) \in Pending'
      PROVE  Call(g, x, k) \in Pending
  <2>1. Call(g, x, k).f = g
    BY DEF Call
  <2>2. Call(g, x, k) \notin ToSet(calls)
    BY <2>1, <1>3
  <2> QED  BY <1>1, <1>3, <2>2
<1> QED  BY <1>1, <1>2, <1>3

\* The runs of a step that calls no factory and lets nothing be loaded.
LEMMA SameRuns ==
  ASSUME IInv, UNCHANGED <<deps, shim, runs>>, inited \subseteq inited', shim \cap loading' \subseteq loading
  PROVE  RunsOK'
<1> USE DEF IInv, RunsOK
<1>1. \A x \in ToSet(runs) : DepsOf(x)' = DepsOf(x)
  BY DEF DepsOf
<1>2. \A k \in DOMAIN runs : DepsOf(runs[k])' = DepsOf(runs[k])
  BY <1>1 DEF ToSet
<1>3. FactoryAfterDeps'
  BY <1>2 DEF FactoryAfterDeps
<1>4. ShimWaits'
  BY DEF ShimWaits
<1> QED  BY <1>3, <1>4

\* A step that has nothing to do with enable, and matches nothing.
LEMMA NoEnabling ==
  ASSUME IInv, NEW f, NEW id, NEW i, Turn(f, id, i), NEW calls \in Seq(Calls), Do(calls),
         UNCHANGED <<deps, flags>>,
         f \notin {"enable", "enableDep", "enableEnd"},
         \A c \in ToSet(calls) : c.f \notin {"enable", "enableDep", "enableEnd"}
  PROVE  /\ EnablingOK'
         /\ \A x : DepsOf(x)' = DepsOf(x) /\ Due(x)' = Due(x)
         /\ \A x, k : Asked(x, k)' <=> Asked(x, k)
         /\ \A x : Call("enable", x, 0) \in Pending' <=> Call("enable", x, 0) \in Pending
<1>1. \A g \in {"enable", "enableDep", "enableEnd"} : \A x, k :
        Call(g, x, k) \in Pending' <=> Call(g, x, k) \in Pending
  <2> TAKE g \in {"enable", "enableDep", "enableEnd"}
  <2>1. g # f /\ \A c \in ToSet(calls) : c.f # g
    OBVIOUS
  <2> QED  BY <2>1, StillPending
<1>2. \A c \in Pending' : c.f \in {"enable", "enableDep", "enableEnd"} => c \in Pending
  BY StillPending
<1>3. /\ \A x : Call("enable", x, 0) \in Pending' <=> Call("enable", x, 0) \in Pending
      /\ \A x, k : Call("enableDep", x, k) \in Pending' <=> Call("enableDep", x, k) \in Pending
      /\ \A x : Call("enableEnd", x, 0) \in Pending' <=> Call("enableEnd", x, 0) \in Pending
  BY <1>1
<1>4. \A x : DepsOf(x)' = DepsOf(x)
  BY DEF DepsOf, flags
<1>5. \A x : Due(x)' = Due(x)
  BY <1>3, <1>4 DEF Due
<1>6. \A x, k : Asked(x, k)' <=> Asked(x, k)
  BY <1>3, <1>4 DEF Asked, flags
<1>7. EnablingOK'
  BY <1>2, <1>3 DEF IInv, EnablingOK, flags
<1> QED  BY <1>3, <1>4, <1>5, <1>6, <1>7

LEMMA NoMatching ==
  ASSUME IInv, UNCHANGED <<deps, counts, events>>, ToSet(runs) \subseteq ToSet(runs'),
         \A x : DepsOf(x)' = DepsOf(x) /\ Due(x)' = Due(x),
         \A x, k : Asked(x, k)' <=> Asked(x, k),
         \A x : Call("enable", x, 0) \in Pending' <=> Call("enable", x, 0) \in Pending
  PROVE  CountOK' /\ MatchOK' /\ \A x, k : Just(x, k) => Just(x, k)'
<1>1. \A x, k : Just(x, k) => Just(x, k)'
  BY DEF Just
<1>2. CountOK'
  BY DEF IInv, CountOK, counts
<1>3. MatchOK'
  BY <1>1 DEF IInv, MatchOK, counts
<1> QED  BY <1>1, <1>2, <1>3

LEMMA RestOK ==
  ASSUME IInv, inited \subseteq inited', ToSet(runs) \subseteq ToSet(runs'),
         \A x \in inited : DepsOf(x)' = DepsOf(x),
         \A x, k : Asked(x, k) => Asked(x, k)',
         \A x, k : Just(x, k) => Just(x, k)', emitted \subseteq emitted'
  PROVE  \A c \in Pending : CallOK(c)'
  BY DEF IInv, CallsOK, CallOK

LEMMA SameEmission ==
  ASSUME IInv, NEW f, NEW id, NEW i, Turn(f, id, i), NEW calls \in Seq(Calls), Do(calls),
         UNCHANGED <<emitted, complete, runs>>, f \notin {"emit", "emitEnd"}
  PROVE  EmitOK'
<1>1. \A x : /\ Call("emit", x, 0) \in Pending => Call("emit", x, 0) \in Pending'
             /\ Call("emitEnd", x, 0) \in Pending => Call("emitEnd", x, 0) \in Pending'
  BY StillPending
<1> QED  BY <1>1 DEF IInv, EmitOK

LEMMA SameCycle ==
  ASSUME IInv, NEW f, NEW id, NEW i, Turn(f, id, i), NEW calls \in Seq(Calls), Do(calls),
         UNCHANGED <<traced, processed>>, f # "breakEnd"
  PROVE  CycleOK'
<1>1. \A x : Call("breakEnd", x, 0) \in Pending => Call("breakEnd", x, 0) \in Pending'
  BY StillPending
<1> QED  BY <1>1 DEF IInv, CycleOK


\* The calls of a sequence and one more.
LEMMA OneMore ==
  ASSUME NEW s \in Seq(Calls), NEW c \in Calls, Ordered(s), \A x \in ToSet(s) : Fits(x, c)
  PROVE  /\ s \o <<c>> \in Seq(Calls) /\ ToSet(s \o <<c>>) = ToSet(s) \cup {c}
         /\ Ordered(s \o <<c>>)
<1> DEFINE t == s \o <<c>>
<1>1. /\ t \in Seq(Calls) /\ Len(t) = Len(s) + 1 /\ Len(s) \in Nat
      /\ \A k \in 1..Len(s) : t[k] = s[k] /\ k \in 1..Len(t)
      /\ t[Len(s) + 1] = c
  OBVIOUS
<1> HIDE DEF t
<1>2. ToSet(t) = ToSet(s) \cup {c}
  <2>1. \A k \in 1..Len(t) : k \in 1..Len(s) \/ k = Len(s) + 1
    BY <1>1
  <2>2. Len(s) + 1 \in 1..Len(t)
    BY <1>1
  <2>3. /\ \A x : x \in ToSet(s) <=> \E k \in 1..Len(s) : x = s[k]
        /\ \A x : x \in ToSet(t) <=> \E k \in 1..Len(t) : x = t[k]
    BY <1>1, Members
  <2>4. \A x : x \in ToSet(t) => x \in ToSet(s) \/ x = c
    BY <2>1, <2>3, <1>1
  <2>5. \A x : x \in ToSet(s) => x \in ToSet(t)
    BY <2>3, <1>1
  <2>6. c \in ToSet(t)
    BY <2>2, <2>3, <1>1
  <2> QED  BY <2>4, <2>5, <2>6
<1>3. Ordered(t)
  <2> SUFFICES ASSUME NEW j \in 1..Len(t), NEW k \in 1..Len(t), j < k
               PROVE  Fits(t[j], t[k])
    BY <1>1 DEF Ordered
  <2>1. j \in 1..Len(s) /\ t[j] = s[j] /\ s[j] \in ToSet(s)
    BY <1>1, Members
  <2>2. CASE k = Len(s) + 1
    BY <2>1, <2>2, <1>1
  <2>3. CASE k # Len(s) + 1
    <3>1. k \in 1..Len(s) /\ t[k] = s[k]
      BY <2>3, <1>1
    <3> QED  BY <2>1, <3>1 DEF Ordered
  <2> QED  BY <2>2, <2>3
<1> QED  BY <1>1, <1>2, <1>3 DEF t

LEMMA NoCalls == /\ <<>> \in Seq(Calls) /\ ToSet(<<>>) = {} /\ Ordered(<<>>)
  BY DEF ToSet, Ordered

LEMMA OneCall ==
  ASSUME NEW c \in Calls
  PROVE  <<c>> \in Seq(Calls) /\ ToSet(<<c>>) = {c} /\ Ordered(<<c>>)
<1>1. <<c>> \in Seq(Calls) /\ DOMAIN <<c>> = {1} /\ <<c>>[1] = c
  OBVIOUS
<1>2. Ordered(<<c>>)
  BY <1>1 DEF Ordered
<1> QED  BY <1>1, <1>2 DEF ToSet

LEMMA TwoCalls ==
  ASSUME NEW c \in Calls, NEW e \in Calls, Fits(c, e)
  PROVE  <<c, e>> \in Seq(Calls) /\ ToSet(<<c, e>>) = {c, e} /\ Ordered(<<c, e>>)
<1>1. <<c, e>> \in Seq(Calls) /\ DOMAIN <<c, e>> = {1, 2} /\ <<c, e>>[1] = c /\ <<c, e>>[2] = e
  OBVIOUS
<1>2. Ordered(<<c, e>>)
  <2> SUFFICES ASSUME NEW j \in {1, 2}, NEW k \in {1, 2}, j < k
               PROVE  Fits(<<c, e>>[j], <<c, e>>[k])
    BY <1>1 DEF Ordered
  <2>1. j = 1 /\ k = 2
    OBVIOUS
  <2> QED  BY <1>1, <2>1
<1> QED  BY <1>1, <1>2 DEF ToSet

LEMMA CallFacts ==
  /\ \A f, id, i : Call(f, id, i).f = f /\ Call(f, id, i).id = id /\ Call(f, id, i).i = i
  /\ \A f \in Functions : \A id \in Id, i \in Nat : Call(f, id, i) \in Calls
  BY DEF Call, Calls

\* notify, check and emit may stand before any call that is neither init nor enable.
LEMMA NeutralFits ==
  ASSUME NEW x, NEW y, x.f \in {"notify", "check", "emit", "emitEnd"},
         y.f \notin {"init", "enable"}
  PROVE  Fits(x, y)
  BY DEF Fits, EnablingCalls, BreakingCalls

\* A step that has nothing to do with enable and matches nothing.
LEMMA NeutralStep ==
  ASSUME IInv, NEW f, NEW id, NEW i, Turn(f, id, i), NEW calls \in Seq(Calls), Do(calls),
         UNCHANGED <<deps, flags, counts, events>>, ToSet(runs) \subseteq ToSet(runs'),
         emitted \subseteq emitted',
         f \notin {"enable", "enableDep", "enableEnd"},
         \A c \in ToSet(calls) : c.f \notin {"enable", "enableDep", "enableEnd"},
         Ordered(calls), \A x \in ToSet(calls), y \in Rest : Fits(x, y),
         (\A x, k : /\ Asked(x, k) <=> Asked(x, k)'
                    /\ Just(x, k) => Just(x, k)'
                    /\ DepsOf(x)' = DepsOf(x)) => \A c \in ToSet(calls) : CallOK(c)'
  PROVE  CallsOK' /\ Ordered(todo)' /\ EnablingOK' /\ CountOK' /\ MatchOK' /\ todo' \in Seq(Calls)
<1>1. /\ EnablingOK'
      /\ \A x : DepsOf(x)' = DepsOf(x) /\ Due(x)' = Due(x)
      /\ \A x, k : Asked(x, k)' <=> Asked(x, k)
      /\ \A x : Call("enable", x, 0) \in Pending' <=> Call("enable", x, 0) \in Pending
  BY NoEnabling
<1>2. CountOK' /\ MatchOK' /\ \A x, k : Just(x, k) => Just(x, k)'
  BY <1>1, NoMatching
<1>3. CallsOK'
  <2>1. \A c \in Pending : CallOK(c)'
    BY <1>1, <1>2, RestOK DEF flags
  <2>2. \A c \in ToSet(calls) : CallOK(c)'
    BY <1>1, <1>2
  <2>3. \A c \in Pending' : c \in ToSet(calls) \/ c \in Pending
    BY StillPending
  <2> QED  BY <2>1, <2>2, <2>3 DEF CallsOK
<1>4. Ordered(todo') /\ todo' \in Seq(Calls)
  BY Turned DEF IInv, Shapes
<1>5. Ordered(todo)'
  BY <1>4 DEF Ordered, Fits
<1> QED  BY <1>1, <1>2, <1>3, <1>4, <1>5
------------------------------------------------------------------------------
(* One lemma for each function: first those that enable calls not.         *)

\* What the actions below unfold of the invariant.
LEMMA Unfolded ==
  ASSUME IInv
  PROVE  /\ todo \in Seq(Calls) /\ Ordered(todo) /\ deps \in [0..N -> Seq(Modules)]
         /\ reqCalls \in Seq(-N..0) /\ runs \in Seq(Id) /\ ticks \in Seq(-N..0)
         /\ events \in [Id -> Seq(Id \X Nat)]
         /\ \A c \in Pending : CallOK(c)
  BY DEF IInv, Shapes, CallsOK

\* The call whose turn it is, and the calls after it.
LEMMA HeadFacts ==
  ASSUME IInv, NEW f, NEW id, NEW i, Turn(f, id, i)
  PROVE  /\ Call(f, id, i) \in Pending /\ CallOK(Call(f, id, i)) /\ id \in Id /\ i \in Nat
         /\ Pending = {Call(f, id, i)} \cup Rest
         /\ \A y \in Rest : y \in Calls /\ Fits(Call(f, id, i), y) /\ CallOK(y)
<1>1. todo # <<>> /\ todo[1] = Call(f, id, i)
  BY DEF Turn
<1>2. /\ 1 \in DOMAIN todo /\ DOMAIN todo = 1..Len(todo)
      /\ Tail(todo) \in Seq(Calls)
      /\ \A k \in 1..Len(Tail(todo)) : Tail(todo)[k] = todo[k + 1] /\ 1 < k + 1 /\ k + 1 \in DOMAIN todo
  BY <1>1, Unfolded
<1>3. todo[1] \in Calls /\ todo[1] \in Pending
  <2>1. todo[1] \in Calls
    BY <1>1, Unfolded
  <2>2. \A k \in DOMAIN todo : todo[k] \in Pending
    BY DEF Pending, ToSet
  <2> QED  BY <2>1, <2>2, <1>2
<1>4. \A y \in Rest : \E k \in 1..Len(Tail(todo)) : y = Tail(todo)[k]
  BY <1>2 DEF Rest, ToSet
<1>5. \A y \in Rest : y \in Pending /\ y \in Calls /\ Fits(todo[1], y)
  <2>1. \A k \in DOMAIN todo : todo[k] \in Pending /\ todo[k] \in Calls
    BY Unfolded DEF Pending, ToSet
  <2>2. \A k \in DOMAIN todo : 1 < k => Fits(todo[1], todo[k])
    BY <1>2, Unfolded DEF Ordered
  <2> QED  BY <2>1, <2>2, <1>2, <1>4
<1>6. id \in Id /\ i \in Nat
  BY <1>1, <1>3 DEF Calls, Call
<1>7. \A y \in Pending : y = todo[1] \/ y \in Rest
  <2>1. \A k \in DOMAIN todo : k = 1 \/ (k - 1 \in DOMAIN Tail(todo) /\ todo[k] = Tail(todo)[k - 1])
    BY <1>1, Unfolded
  <2>2. \A k \in DOMAIN Tail(todo) : Tail(todo)[k] \in Rest
    BY DEF Rest, ToSet
  <2>3. \A y \in Pending : \E k \in DOMAIN todo : y = todo[k]
    BY DEF Pending, ToSet
  <2> QED  BY <2>1, <2>2, <2>3
<1> QED  BY <1>1, <1>3, <1>5, <1>6, <1>7, Unfolded

\* A neutral step that makes no calls.
LEMMA NoMoreCalls ==
  ASSUME IInv, NEW f, NEW id, NEW i, Turn(f, id, i), Do(<<>>),
         UNCHANGED <<deps, flags, counts, events>>, ToSet(runs) \subseteq ToSet(runs'),
         emitted \subseteq emitted',
         f \notin {"enable", "enableDep", "enableEnd"}
  PROVE  CallsOK' /\ Ordered(todo)' /\ EnablingOK' /\ CountOK' /\ MatchOK' /\ todo' \in Seq(Calls)
<1> DEFINE calls == <<>>
<1>1. calls \in Seq(Calls) /\ ToSet(calls) = {} /\ Ordered(calls) /\ Do(calls)
  BY NoCalls
<1> HIDE DEF calls
<1> QED  BY <1>1, NeutralStep

LEMMA EmitEndStep == ASSUME IInv, NEW id, EmitEnd(id) PROVE IInv'
<1> DEFINE c == Call("emitEnd", id, 0)
           calls == <<>>
<1>1. /\ Turn("emitEnd", id, 0) /\ Do(calls) /\ complete' = complete \cup {id}
      /\ calls \in Seq(Calls) /\ ToSet(calls) = {}
  BY NoCalls DEF EmitEnd
<1>2. UNCHANGED <<deps, shim, flags, inited, counts, events, emitted, registry, reqCalls, runs, loading, ticks, traced, processed>>
  BY DEF EmitEnd, graph, flags, registered, browser, cycle
<1>3. id \in emitted
  <2>1. CallOK(c)
    BY <1>1, HeadFacts
  <2> QED  BY <2>1 DEF CallOK, Call
<1>4. CallsOK' /\ Ordered(todo)' /\ EnablingOK' /\ CountOK' /\ MatchOK' /\ todo' \in Seq(Calls)
  BY <1>1, <1>2, NoMoreCalls
<1> HIDE DEF calls
<1>5. EmitOK'
  <2>1. \A x : Call("emit", x, 0) \in Pending => Call("emit", x, 0) \in Pending'
    BY <1>1, StillPending
  <2>2. \A x : Call("emitEnd", x, 0) \in Pending => x = id \/ Call("emitEnd", x, 0) \in Pending'
    <3>1. \A x : Call("emitEnd", x, 0) = Call("emitEnd", id, 0) => x = id
      BY CallFacts
    <3> QED  BY <3>1, <1>1, StillPending
  <2> QED  BY <1>1, <1>2, <1>3, <2>1, <2>2 DEF IInv, EmitOK
<1>6. CycleOK'
  BY <1>1, <1>2, SameCycle
<1>7. RunsOK'
  BY <1>2, SameRuns
<1>8. Shapes'
  BY <1>2, <1>4 DEF EmitEnd, IInv, Shapes, flags, counts, browser
<1> QED  BY <1>4, <1>5, <1>6, <1>7, <1>8 DEF IInv

LEMMA EmitStep == ASSUME IInv, NEW id, Emit(id) PROVE IInv'
<1> DEFINE notifies == [k \in DOMAIN events[id] |-> Call("notify", events[id][k][1], events[id][k][2])]
           last == Call("emitEnd", id, 0)
           calls == notifies \o <<last>>
<1>1. Turn("emit", id, 0) /\ Do(calls) /\ emitted' = emitted \cup {id}
  BY DEF Emit
<1>2. UNCHANGED <<deps, shim, flags, inited, counts, events, complete, registry, reqCalls, runs, loading, ticks, traced, processed>>
  BY DEF Emit, graph, flags, registered, browser, cycle
<1>3. id \in Id /\ id \in ToSet(runs) /\ \A y \in Rest : y.f \notin {"init", "enable"}
  <2>1. id \in Id /\ CallOK(Call("emit", id, 0)) /\ \A y \in Rest : Fits(Call("emit", id, 0), y)
    BY <1>1, HeadFacts
  <2> QED  BY <2>1 DEF CallOK, Call, Fits
<1>4. /\ notifies \in Seq(Calls) /\ last \in Calls
      /\ \A c \in ToSet(notifies) : c.f = "notify" /\ \E e \in ToSet(events[id]) : c.id = e[1] /\ c.i = e[2]
  <2>0. last \in Calls
    BY <1>3, CallFacts DEF Functions
  <2>1. events[id] \in Seq(Id \X Nat)
    BY <1>3, Unfolded
  <2>2. \A k \in DOMAIN events[id] : events[id][k] \in ToSet(events[id])
    BY DEF ToSet
  <2>3. \A k \in DOMAIN events[id] : events[id][k][1] \in Id /\ events[id][k][2] \in Nat
    BY <2>1
  <2>4. \A k \in DOMAIN notifies : notifies[k] \in Calls
    <3>1. \A x \in Id, k \in Nat : Call("notify", x, k) \in Calls
      BY CallFacts DEF Functions
    <3> QED  BY <2>3, <3>1
  <2>5. DOMAIN notifies = 1..Len(events[id]) /\ Len(events[id]) \in Nat
    BY <2>1
  <2>6. notifies \in Seq(Calls)
    <3>1. notifies = [k \in 1..Len(events[id]) |-> notifies[k]]
      BY <2>5
    <3> HIDE DEF notifies
    <3>2. notifies \in [1..Len(events[id]) -> Calls]
      BY <2>4, <2>5, <3>1
    <3> QED  BY <2>5, <3>2
  <2>7. \A c \in ToSet(notifies) : \E k \in DOMAIN events[id] : c = Call("notify", events[id][k][1], events[id][k][2])
    BY DEF ToSet
  <2>8. ASSUME NEW c \in ToSet(notifies)
        PROVE  c.f = "notify" /\ \E e \in ToSet(events[id]) : c.id = e[1] /\ c.i = e[2]
    <3>1. PICK k \in DOMAIN events[id] : c = Call("notify", events[id][k][1], events[id][k][2])
      BY <2>7
    <3> QED  BY <3>1, <2>2, CallFacts
  <2> QED  BY <2>0, <2>6, <2>8
<1>5. Ordered(notifies) /\ \A x \in ToSet(notifies) : Fits(x, last)
  <2>1. last.f = "emitEnd"
    BY CallFacts
  <2>2. \A j \in DOMAIN notifies : notifies[j] \in ToSet(notifies)
    BY DEF ToSet
  <2> HIDE DEF last, notifies
  <2> QED  BY <1>4, <2>1, <2>2, NeutralFits DEF Ordered
<1> HIDE DEF notifies
<1>6. calls \in Seq(Calls) /\ ToSet(calls) = ToSet(notifies) \cup {last} /\ Ordered(calls)
  BY <1>4, <1>5, OneMore
<1>7. /\ \A c \in ToSet(calls) : c.f \in {"notify", "emitEnd"} /\ (c.f = "emitEnd" => c.id = id)
      /\ \A x \in ToSet(calls), y \in Rest : Fits(x, y)
  BY <1>3, <1>4, <1>6, CallFacts, NeutralFits
<1> HIDE DEF calls
<1>8. CallsOK' /\ Ordered(todo)' /\ EnablingOK' /\ CountOK' /\ MatchOK' /\ todo' \in Seq(Calls)
  <2>1. ASSUME \A x, k : Asked(x, k)' <=> Asked(x, k), \A x, k : Just(x, k) => Just(x, k)',
               NEW c \in ToSet(calls)
        PROVE  CallOK(c)'
    <3>1. CASE c.f = "notify"
      <4>1. c \in ToSet(notifies)
        BY <3>1, <1>6, CallFacts
      <4>2. PICK e \in ToSet(events[id]) : c.id = e[1] /\ c.i = e[2]
        BY <4>1, <1>4
      <4>3. Asked(c.id, c.i) /\ DepsOf(c.id)[c.i] = id
        BY <4>2, <1>3 DEF IInv, MatchOK
      <4>4. Just(c.id, c.i)
        BY <4>3, <1>3 DEF Just
      <4> QED  BY <2>1, <3>1, <4>3, <4>4 DEF CallOK
    <3>2. CASE c.f = "emitEnd"
      BY <3>2, <1>1, <1>7 DEF CallOK
    <3> QED  BY <3>1, <3>2, <1>7
  <2> QED  BY <1>1, <1>2, <1>6, <1>7, <2>1, NeutralStep
<1>9. EmitOK'
  <2>1. \A x : Call("emitEnd", x, 0) \in Pending => Call("emitEnd", x, 0) \in Pending'
    BY <1>1, <1>6, StillPending
  <2>2. \A x : Call("emit", x, 0) \in Pending => x = id \/ Call("emit", x, 0) \in Pending'
    <3>1. \A x : Call("emit", x, 0) = Call("emit", id, 0) => x = id
      BY CallFacts
    <3> QED  BY <3>1, <1>1, <1>6, StillPending
  <2>3. last \in Pending'
    BY <1>1, <1>6, StillPending
  <2> QED  BY <1>1, <1>2, <1>3, <2>1, <2>2, <2>3 DEF IInv, EmitOK
<1>10. CycleOK'
  BY <1>1, <1>2, <1>6, SameCycle
<1>11. RunsOK'
  BY <1>2, SameRuns
<1>12. Shapes'
  BY <1>2, <1>8 DEF Emit, IInv, Shapes, flags, counts, browser
<1> QED  BY <1>8, <1>9, <1>10, <1>11, <1>12 DEF IInv

LEMMA ForEachFacts ==
  ASSUME NEW f \in {"enableDep", "visit"}, NEW id \in Id, NEW n \in Nat
  PROVE  /\ ForEach(f, id, n) \in Seq(Calls) /\ Ordered(ForEach(f, id, n))
         /\ ToSet(ForEach(f, id, n)) = {Call(f, id, k) : k \in 1..n}
<1> DEFINE s == ForEach(f, id, n)
<1>1. DOMAIN s = 1..n /\ \A k \in 1..n : s[k] = Call(f, id, k) /\ Call(f, id, k) \in Calls
  <2>1. \A k \in 1..n : k \in Nat
    OBVIOUS
  <2> QED  BY <2>1, CallFacts DEF ForEach, Functions, EnablingCalls, BreakingCalls
<1>2. s \in [1..n -> Calls]
  <2>1. s = [k \in 1..n |-> s[k]]
    BY DEF ForEach
  <2> HIDE DEF s
  <2> QED  BY <1>1, <2>1
<1>3. Ordered(s)
  <2> SUFFICES ASSUME NEW j \in 1..n, NEW k \in 1..n, j < k
               PROVE  Fits(s[j], s[k])
    BY <1>1 DEF Ordered
  <2>1. s[j].f = f /\ s[k].f = f /\ s[j] # s[k]
    <3>1. s[j].i = j /\ s[k].i = k /\ j # k /\ s[j].f = f /\ s[k].f = f
      BY <1>1, CallFacts
    <3> QED  BY <3>1
  <2> QED  BY <2>1 DEF Fits, EnablingCalls, BreakingCalls
<1>4. ToSet(s) = {Call(f, id, k) : k \in 1..n}
  BY <1>1 DEF ToSet
<1> QED  BY <1>2, <1>3, <1>4

LEMMA CheckLoadedStep == ASSUME IInv, CheckLoaded PROVE IInv'
<1>1. /\ Turn("checkLoaded", Main, 0)
      /\ UNCHANGED <<deps, shim, flags, inited, counts, events, emitted, complete, registry, reqCalls, runs, loading, ticks, traced, processed>>
  BY DEF CheckLoaded, graph, flags, registered, browser, cycle, emission
<1>2. Rest = {}
  <2>1. Call("checkLoaded", Main, 0).f = "checkLoaded"
    BY CallFacts
  <2>2. \A y \in Rest : Fits(Call("checkLoaded", Main, 0), y)
    BY <1>1, HeadFacts
  <2> QED  BY <2>1, <2>2 DEF Fits
<1>3. PICK calls \in Seq(Calls) : /\ Do(calls) /\ Ordered(calls)
                                  /\ \A c \in ToSet(calls) : c.f = "breakCycle"
  <2> DEFINE breaks == [k \in DOMAIN reqCalls |-> Call("breakCycle", reqCalls[k], 0)]
  <2>1. CASE Do(<<>>)
    BY <2>1, NoCalls
  <2>2. CASE Do(breaks)
    <3>1. DOMAIN reqCalls = 1..Len(reqCalls) /\ Len(reqCalls) \in Nat
          /\ \A k \in DOMAIN reqCalls : reqCalls[k] \in Id
      BY Unfolded, IdFacts
    <3>2. \A k \in DOMAIN reqCalls : breaks[k] \in Calls /\ breaks[k].f = "breakCycle"
      BY <3>1, CallFacts DEF Functions, BreakingCalls
    <3>3. breaks \in Seq(Calls) /\ DOMAIN breaks = DOMAIN reqCalls
      <4>1. breaks = [k \in 1..Len(reqCalls) |-> breaks[k]]
        BY <3>1
      <4> HIDE DEF breaks
      <4>2. breaks \in [1..Len(reqCalls) -> Calls]
        BY <3>1, <3>2, <4>1
      <4> QED  BY <3>1, <4>2
    <3> HIDE DEF breaks
    <3>4. \A c \in ToSet(breaks) : c.f = "breakCycle"
      BY <3>2, <3>3 DEF ToSet
    <3>5. Ordered(breaks)
      BY <3>2, <3>3 DEF Ordered, Fits, EnablingCalls, BreakingCalls
    <3> QED  BY <2>2, <3>3, <3>4, <3>5
  <2> QED  BY <2>1, <2>2 DEF CheckLoaded
<1>4. CallsOK' /\ Ordered(todo)' /\ EnablingOK' /\ CountOK' /\ MatchOK' /\ todo' \in Seq(Calls)
  <2>1. \A c \in ToSet(calls) : CallOK(c)'
    BY <1>3 DEF CallOK
  <2> QED  BY <1>1, <1>2, <1>3, <2>1, NeutralStep
<1>5. EmitOK' /\ CycleOK'
  BY <1>1, <1>3, SameEmission, SameCycle
<1>6. RunsOK'
  BY <1>1, SameRuns
<1>7. Shapes'
  BY <1>1, <1>4 DEF CheckLoaded, IInv, Shapes, flags, counts, browser
<1> QED  BY <1>4, <1>5, <1>6, <1>7 DEF IInv

\* No module is being enabled while cycles are broken.
LEMMA Breaking ==
  ASSUME IInv, NEW f \in BreakingCalls, NEW id, NEW i, Turn(f, id, i)
  PROVE  /\ \A y \in Pending : y.f \notin EnablingCalls
         /\ \A x, k : Call("enableDep", x, k) \notin Pending /\ Call("enable", x, k) \notin Pending
         /\ inited \subseteq enabled
         /\ \A y \in Rest : y.f = "breakEnd" /\ y.id > 0 => id \in Reach(deps, {y.id})
<1>1. /\ \A y \in Rest : y.f \notin EnablingCalls
      /\ \A y \in Rest : y.f = "breakEnd" /\ y.id > 0 => id \in Reach(deps, {y.id})
  <2>1. Call(f, id, i).f = f /\ Call(f, id, i).id = id
    BY CallFacts
  <2>2. \A y \in Rest : Fits(Call(f, id, i), y)
    BY HeadFacts
  <2> QED  BY <2>1, <2>2 DEF Fits
<1>3. \A y \in Pending : y.f \notin EnablingCalls
  <2>1. Call(f, id, i).f \notin EnablingCalls
    BY CallFacts DEF EnablingCalls, BreakingCalls
  <2> QED  BY <1>1, <2>1, HeadFacts
<1>4. \A x, k : Call("enableDep", x, k) \notin Pending /\ Call("enable", x, k) \notin Pending
  BY <1>3, CallFacts DEF EnablingCalls
<1>5. inited \subseteq enabled
  BY <1>4 DEF IInv, EnablingOK, Shapes
<1> QED  BY <1>1, <1>3, <1>4, <1>5

LEMMA BreakCycleStep == ASSUME IInv, NEW id, BreakCycle(id) PROVE IInv'
<1> DEFINE visits == ForEach("visit", id, Len(DepsOf(id)))
           last == Call("breakEnd", id, 0)
           calls == visits \o <<last>>
<1>1. Turn("breakCycle", id, 0) /\ Do(calls) /\ traced' = traced \cup {id}
  BY DEF BreakCycle
<1>2. UNCHANGED <<deps, shim, flags, inited, counts, events, emitted, complete, registry, reqCalls, runs, loading, ticks, processed>>
  BY DEF BreakCycle, graph, flags, registered, browser, emission
<1>3. /\ \A y \in Rest : y.f \notin EnablingCalls /\ y.f \notin {"init", "enable"}
      /\ \A x, k : Call("enableDep", x, k) \notin Pending /\ Call("enable", x, k) \notin Pending
      /\ inited \subseteq enabled /\ id \in Id
      /\ \A y \in Rest : y.f = "breakEnd" /\ y.id > 0 => id \in Reach(deps, {y.id})
  <2>1. "breakCycle" \in BreakingCalls
    BY DEF BreakingCalls
  <2> QED  BY <1>1, <2>1, HeadFacts, Breaking DEF EnablingCalls
<1>4. /\ last \in Calls /\ last.f = "breakEnd" /\ last.id = id
      /\ Len(DepsOf(id)) \in Nat /\ DOMAIN DepsOf(id) = 1..Len(DepsOf(id))
      /\ id \notin inited => DOMAIN DepsOf(id) = {}
  <2>1. last \in Calls /\ last.f = "breakEnd" /\ last.id = id
    BY <1>3, CallFacts DEF Functions, BreakingCalls
  <2>2. DepsOf(id) \in Seq(Modules) /\ (id \notin inited => DOMAIN DepsOf(id) = {})
    BY <1>3, Unfolded, DepsFacts
  <2> QED  BY <2>1, <2>2
<1>5. /\ visits \in Seq(Calls) /\ Ordered(visits)
      /\ ToSet(visits) = {Call("visit", id, k) : k \in 1..Len(DepsOf(id))}
  BY <1>3, <1>4, ForEachFacts
<1> HIDE DEF visits, last
<1>6. \A x \in ToSet(visits) : x.f = "visit" /\ x.id = id /\ x.i \in DOMAIN DepsOf(id)
  BY <1>4, <1>5, CallFacts
<1>7. \A x \in ToSet(visits) : Fits(x, last)
  <2>1. id > 0 => id \in Reach(deps, {id})
    <3>1. id > 0 => id \in 0..N
      BY <1>3, LoaderAssumption DEF Id
    <3> QED  BY <3>1, Reaches, Unfolded
  <2> QED  BY <1>4, <1>6, <2>1 DEF Fits, EnablingCalls, BreakingCalls
<1>8. calls \in Seq(Calls) /\ ToSet(calls) = ToSet(visits) \cup {last} /\ Ordered(calls)
  BY <1>4, <1>5, <1>7, OneMore
<1>9. \A x \in ToSet(calls), y \in Rest : Fits(x, y)
  BY <1>3, <1>4, <1>6, <1>8 DEF Fits, EnablingCalls, BreakingCalls
<1>10. \A c \in ToSet(calls) : c.f \in {"visit", "breakEnd"}
  BY <1>4, <1>6, <1>8
<1> HIDE DEF calls
<1>11. CallsOK' /\ Ordered(todo)' /\ EnablingOK' /\ CountOK' /\ MatchOK' /\ todo' \in Seq(Calls)
  <2>1. ASSUME \A x, k : Asked(x, k)' <=> Asked(x, k), NEW c \in ToSet(calls)
        PROVE  CallOK(c)'
    <3>1. CASE c.f = "visit"
      <4>1. c.id = id /\ c.i \in DOMAIN DepsOf(id)
        BY <3>1, <1>4, <1>6, <1>8
      <4>2. Asked(c.id, c.i)
        BY <4>1, <1>3, <1>4 DEF Asked
      <4> QED  BY <3>1, <4>2, <2>1 DEF CallOK
    <3>2. CASE c.f = "breakEnd"
      BY <3>2 DEF CallOK
    <3> QED  BY <3>1, <3>2, <1>10
  <2> QED  BY <1>1, <1>2, <1>8, <1>9, <1>10, <2>1, NeutralStep
<1>12. EmitOK'
  BY <1>1, <1>2, <1>8, SameEmission
<1>13. CycleOK'
  <2>1. \A x : Call("breakEnd", x, 0) \in Pending => Call("breakEnd", x, 0) \in Pending'
    BY <1>1, <1>8, StillPending
  <2>2. Call("breakEnd", id, 0) \in Pending'
    BY <1>1, <1>8, StillPending DEF last
  <2> QED  BY <1>1, <1>2, <2>1, <2>2 DEF IInv, CycleOK
<1>14. RunsOK'
  BY <1>2, SameRuns
<1>15. Shapes'
  BY <1>2, <1>11 DEF BreakCycle, IInv, Shapes, flags, counts, browser
<1> QED  BY <1>11, <1>12, <1>13, <1>14, <1>15 DEF IInv

LEMMA VisitStep == ASSUME IInv, NEW id, NEW i, Visit(id, i) PROVE IInv'
<1> DEFINE d == DepsOf(id)[i]
           notify == Call("notify", id, i)
           break == Call("breakCycle", d, 0)
<1>1. Turn("visit", id, i)
  BY DEF Visit
<1>2. UNCHANGED <<deps, shim, flags, inited, counts, events, emitted, complete, registry, reqCalls, runs, loading, ticks, traced, processed>>
  BY DEF Visit, graph, flags, registered, browser, emission, cycle
<1>3. /\ \A y \in Rest : y.f \notin EnablingCalls /\ y.f \notin {"init", "enable"}
      /\ \A y \in Rest : y.f = "breakEnd" /\ y.id > 0 => id \in Reach(deps, {y.id})
      /\ id \in Id /\ i \in Nat /\ Asked(id, i)
  <2>1. "visit" \in BreakingCalls
    BY DEF BreakingCalls
  <2>2. /\ \A y \in Rest : y.f \notin EnablingCalls
        /\ \A y \in Rest : y.f = "breakEnd" /\ y.id > 0 => id \in Reach(deps, {y.id})
    BY <1>1, <2>1, HeadFacts, Breaking
  <2>3. id \in Id /\ i \in Nat /\ CallOK(Call("visit", id, i))
    BY <1>1, HeadFacts
  <2>4. Asked(id, i)
    BY <2>3, CallFacts DEF CallOK
  <2> QED  BY <2>2, <2>3, <2>4 DEF EnablingCalls
<1>4. d \in Modules /\ d \in Id /\ d > 0 /\ i \in DOMAIN DepsOf(id)
  <2>1. d \in Modules /\ i \in DOMAIN DepsOf(id)
    BY <1>3, Unfolded, DepsFacts DEF Asked
  <2> QED  BY <2>1, LoaderAssumption DEF Modules, Id
<1>5. d \in traced \ processed => Just(id, i)
  <2> SUFFICES ASSUME d \in traced \ processed PROVE id \in Reach(deps, {d})
    BY DEF Just
  <2>1. Call("breakEnd", d, 0) \in Pending
    BY <1>4 DEF IInv, CycleOK
  <2>2. Call("breakEnd", d, 0) # Call("visit", id, i)
    BY CallFacts
  <2>3. Call("breakEnd", d, 0) \in Rest
    BY <1>1, <2>1, <2>2, HeadFacts
  <2>4. Call("breakEnd", d, 0).f = "breakEnd" /\ Call("breakEnd", d, 0).id = d
    BY CallFacts
  <2> QED  BY <1>3, <1>4, <2>3, <2>4
\* What leads to id leads to what it depends on.
<1>6. \A y \in Rest : y.f = "breakEnd" /\ y.id > 0 => d \in Reach(deps, {y.id})
  <2> SUFFICES ASSUME NEW y \in Rest, y.f = "breakEnd", y.id > 0
               PROVE  d \in Reach(deps, {y.id})
    OBVIOUS
  <2>1. id \in Reach(deps, {y.id})
    BY <1>3
  <2>2. y.id \in 0..N
    <3>1. y \in Calls
      BY <1>1, HeadFacts
    <3> QED  BY <3>1, LoaderAssumption DEF Calls, Id
  <2>3. id \in 0..N /\ ToSet(deps[id]) \subseteq Reach(deps, {y.id})
    BY <2>1, <2>2, Reaches, Unfolded
  <2>4. DepsOf(id) = deps[id]
    BY <1>3, <2>3, LoaderAssumption DEF Asked, DepsOf
  <2> QED  BY <1>4, <2>3, <2>4 DEF ToSet
<1>7. /\ notify \in Calls /\ notify.f = "notify" /\ notify.id = id /\ notify.i = i
      /\ break \in Calls /\ break.f = "breakCycle" /\ break.id = d
  BY <1>3, <1>4, CallFacts DEF Functions, BreakingCalls
<1>8. \/ Do(<<>>)
      \/ Do(<<notify>>) /\ d \in traced \ processed
      \/ Do(<<break>>)
  BY DEF Visit, CloseCycle
<1> HIDE DEF d, notify, break
<1>9. PICK calls \in Seq(Calls) : /\ Do(calls) /\ Ordered(calls)
                                  /\ \A c \in ToSet(calls) : c = break \/ (c = notify /\ d \in traced \ processed)
  <2>1. CASE Do(<<>>)
    BY <2>1, NoCalls
  <2>2. CASE Do(<<notify>>) /\ d \in traced \ processed
    BY <2>2, <1>7, OneCall
  <2>3. CASE Do(<<break>>)
    BY <2>3, <1>7, OneCall
  <2> QED  BY <1>8, <2>1, <2>2, <2>3
<1>10. \A x \in ToSet(calls), y \in Rest : Fits(x, y)
  <2>1. \A y \in Rest : Fits(notify, y)
    BY <1>3, <1>7, NeutralFits
  <2>2. \A y \in Rest : Fits(break, y)
    BY <1>3, <1>6, <1>7 DEF Fits, EnablingCalls, BreakingCalls
  <2> QED  BY <1>9, <2>1, <2>2
<1>11. CallsOK' /\ Ordered(todo)' /\ EnablingOK' /\ CountOK' /\ MatchOK' /\ todo' \in Seq(Calls)
  <2>1. ASSUME \A x, k : Asked(x, k)' <=> Asked(x, k), \A x, k : Just(x, k) => Just(x, k)',
               NEW c \in ToSet(calls)
        PROVE  CallOK(c)'
    <3>1. CASE c = break
      BY <3>1, <1>7 DEF CallOK
    <3>2. CASE c = notify /\ d \in traced \ processed
      BY <3>2, <1>3, <1>5, <1>7, <2>1 DEF CallOK
    <3> QED  BY <3>1, <3>2, <1>9
  <2>2. \A c \in ToSet(calls) : c.f \notin {"enable", "enableDep", "enableEnd"}
    BY <1>7, <1>9
  <2> QED  BY <1>1, <1>2, <1>9, <1>10, <2>1, <2>2, NeutralStep
<1>12. EmitOK' /\ CycleOK'
  BY <1>1, <1>2, <1>9, SameEmission, SameCycle
<1>13. RunsOK'
  BY <1>2, SameRuns
<1>14. Shapes'
  BY <1>2, <1>11 DEF Visit, IInv, Shapes, flags, counts, browser
<1> QED  BY <1>11, <1>12, <1>13, <1>14 DEF IInv

LEMMA BreakEndStep == ASSUME IInv, NEW id, BreakEnd(id) PROVE IInv'
<1> DEFINE calls == <<>>
<1>1. Turn("breakEnd", id, 0) /\ Do(calls) /\ calls \in Seq(Calls) /\ ToSet(calls) = {}
  BY NoCalls DEF BreakEnd
<1>2. UNCHANGED <<deps, shim, flags, inited, counts, events, emitted, complete, registry, reqCalls, runs, loading, ticks>>
  BY DEF BreakEnd, graph, flags, registered, browser, emission
<1>3. CallsOK' /\ Ordered(todo)' /\ EnablingOK' /\ CountOK' /\ MatchOK' /\ todo' \in Seq(Calls)
  BY <1>1, <1>2, NoMoreCalls
<1> HIDE DEF calls
<1>4. EmitOK'
  BY <1>1, <1>2, SameEmission
<1>5. CycleOK'
  <2>1. \A x : Call("breakEnd", x, 0) \in Pending => x = id \/ Call("breakEnd", x, 0) \in Pending'
    <3>1. \A x : Call("breakEnd", x, 0) = Call("breakEnd", id, 0) => x = id
      BY CallFacts
    <3> QED  BY <3>1, <1>1, StillPending
  <2> QED  BY <2>1 DEF BreakEnd, IInv, CycleOK, IsDefine
<1>6. RunsOK'
  BY <1>2, SameRuns
<1>7. Shapes'
  BY <1>2, <1>3 DEF BreakEnd, IInv, Shapes, flags, counts, browser
<1> QED  BY <1>3, <1>4, <1>5, <1>6, <1>7 DEF IInv

LEMMA NotifyStep == ASSUME IInv, NEW id, NEW i, Notify(id, i) PROVE IInv'
<1> DEFINE c == Call("check", id, 0)
<1>1. Turn("notify", id, i) /\ Do(<<c>>) /\ DefineDep(id, i)
  BY DEF Notify
<1>2. UNCHANGED <<deps, shim, flags, inited, enabled, enabling, events, emitted, complete, registry, reqCalls, runs, loading, ticks, traced, processed>>
  BY DEF Notify, graph, flags, registered, browser, emission, cycle
<1>3. /\ id \in Id /\ i \in Nat /\ Asked(id, i) /\ Just(id, i)
      /\ \A y \in Rest : y.f \notin {"init", "enable"}
  <2>1. id \in Id /\ i \in Nat /\ CallOK(Call("notify", id, i))
        /\ \A y \in Rest : Fits(Call("notify", id, i), y)
    BY <1>1, HeadFacts
  <2>2. Asked(id, i) /\ Just(id, i)
    BY <2>1, CallFacts DEF CallOK
  <2>3. \A y \in Rest : y.f \notin {"init", "enable"}
    BY <2>1 DEF Fits
  <2> QED  BY <2>1, <2>2, <2>3
<1>4. c \in Calls /\ c.f = "check"
  BY <1>3, CallFacts DEF Functions
<1> HIDE DEF c
<1>5. PICK calls \in Seq(Calls) : Do(calls) /\ Ordered(calls) /\ ToSet(calls) = {c}
  BY <1>1, <1>4, OneCall
<1>6. /\ EnablingOK'
      /\ \A x : DepsOf(x)' = DepsOf(x) /\ Due(x)' = Due(x)
      /\ \A x, k : Asked(x, k)' <=> Asked(x, k)
      /\ \A x : Call("enable", x, 0) \in Pending' <=> Call("enable", x, 0) \in Pending
  <2>1. \A x \in ToSet(calls) : x.f \notin {"enable", "enableDep", "enableEnd"}
    BY <1>4, <1>5
  <2> QED  BY <1>1, <1>2, <1>5, <2>1, NoEnabling
<1>7. \A x, k : Just(x, k)' <=> Just(x, k)
  BY <1>2, <1>6 DEF Just
<1>8. depCount \in [Id -> Int] /\ matched \in [Id -> SUBSET Nat]
  BY DEF IInv, Shapes
<1>9. MatchOK'
  <2>1. \A x \in Id : \A k \in matched'[x] : k \in matched[x] \/ (x = id /\ k = i)
    BY <1>1, <1>3, <1>8 DEF DefineDep, counts
  <2> QED  BY <1>2, <1>3, <1>6, <1>7, <2>1 DEF IInv, MatchOK
<1>10. CountOK'
  <2>1. i \in matched[id] => CountOK'
    BY <1>1, <1>6 DEF DefineDep, counts, IInv, CountOK
  <2>2. ASSUME i \notin matched[id] PROVE CountOK'
    <3>1. matched' = [matched EXCEPT ![id] = @ \cup {i}] /\ depCount' = [depCount EXCEPT ![id] = @ - 1]
      BY <1>1, <2>2 DEF DefineDep
    <3>2. Cardinality(matched'[id]) = Cardinality(matched[id]) + 1 /\ Cardinality(matched[id]) \in Nat
      <4>1. matched[id] \subseteq DOMAIN DepsOf(id)
        BY <1>3 DEF IInv, MatchOK, Asked
      <4>2. DOMAIN DepsOf(id) = 1..Len(DepsOf(id)) /\ Len(DepsOf(id)) \in Nat
        BY <1>3, Unfolded, DepsFacts
      <4>3. IsFiniteSet(1..Len(DepsOf(id)))
        BY <4>2, FS_Interval
      <4>4. IsFiniteSet(matched[id])
        BY <4>1, <4>2, <4>3, FS_Subset
      <4>5. matched'[id] = matched[id] \cup {i}
        BY <3>1, <1>3, <1>8
      <4> QED  BY <4>4, <4>5, <2>2, FS_AddElement, FS_CardinalityType
    <3>3. \A x \in Id : x # id => matched'[x] = matched[x] /\ depCount'[x] = depCount[x]
      BY <3>1, <1>8
    <3>4. depCount'[id] = depCount[id] - 1 /\ depCount[id] \in Int
      BY <3>1, <1>3, <1>8
    <3>5. Call("enable", id, 0) \notin Pending
      BY <1>3 DEF Asked
    <3>6. depCount[id] = Len(DepsOf(id)) - Cardinality(Due(id)) - Cardinality(matched[id])
      BY <1>3, <3>5 DEF IInv, CountOK
    <3>7. Len(DepsOf(id)) \in Nat /\ Cardinality(Due(id)) \in Nat
      <4>1. Len(DepsOf(id)) \in Nat /\ Due(id) \subseteq 1..Len(DepsOf(id))
        BY <1>3, Unfolded, DepsFacts DEF Due
      <4>2. IsFiniteSet(1..Len(DepsOf(id)))
        BY <4>1, FS_Interval
      <4>3. IsFiniteSet(Due(id))
        BY <4>1, <4>2, FS_Subset
      <4> QED  BY <4>1, <4>3, FS_CardinalityType
    <3>8. depCount'[id] = Len(DepsOf(id)') - Cardinality(Due(id)') - Cardinality(matched'[id])
      BY <3>2, <3>4, <3>6, <3>7, <1>6
    <3> QED
      <4> SUFFICES ASSUME NEW x \in Id
                   PROVE  IF Call("enable", x, 0) \in Pending' THEN depCount'[x] = 0 /\ matched'[x] = {}
                          ELSE depCount'[x] = Len(DepsOf(x)') - Cardinality(Due(x)') - Cardinality(matched'[x])
        BY DEF CountOK
      <4>1. CASE x = id
        BY <4>1, <3>5, <3>8, <1>6
      <4>2. CASE x # id
        BY <4>2, <3>3, <1>6 DEF IInv, CountOK
      <4> QED  BY <4>1, <4>2
  <2> QED  BY <2>1, <2>2
<1>11. CallsOK' /\ Ordered(todo)' /\ todo' \in Seq(Calls)
  <2>1. \A x \in Pending : CallOK(x)'
    BY <1>2, <1>6, <1>7, RestOK
  <2>2. CallOK(c)'
    BY <1>4 DEF CallOK
  <2>3. \A x \in Pending' : x \in ToSet(calls) \/ x \in Pending
    BY <1>1, <1>5, StillPending
  <2>4. \A x \in ToSet(calls), y \in Rest : Fits(x, y)
    BY <1>3, <1>4, <1>5, NeutralFits
  <2>5. Ordered(todo') /\ todo' \in Seq(Calls)
    BY <1>1, <1>5, <2>4, Turned, Unfolded
  <2>6. Ordered(todo)'
    BY <1>2, <2>5 DEF Ordered, Fits
  <2> QED  BY <2>1, <2>2, <2>3, <2>5, <2>6, <1>5 DEF CallsOK
<1>12. EmitOK' /\ CycleOK'
  BY <1>1, <1>2, <1>5, SameEmission, SameCycle
<1>13. RunsOK'
  BY <1>2, SameRuns
<1>14. Shapes'
  <2>1. depCount' \in [Id -> Int] /\ matched' \in [Id -> SUBSET Nat]
    <3>1. CASE i \in matched[id]
      BY <3>1, <1>1, <1>8 DEF DefineDep, counts
    <3>2. CASE i \notin matched[id]
      <4>1. matched' = [matched EXCEPT ![id] = @ \cup {i}] /\ depCount' = [depCount EXCEPT ![id] = @ - 1]
        BY <1>1, <3>2 DEF DefineDep
      <4>2. depCount[id] - 1 \in Int /\ matched[id] \cup {i} \in SUBSET Nat
        BY <1>3, <1>8
      <4> QED  BY <4>1, <4>2, <1>8
    <3> QED  BY <3>1, <3>2
  <2> QED  BY <1>2, <1>11, <2>1 DEF Notify, IInv, Shapes, browser
<1> QED  BY <1>6, <1>9, <1>10, <1>11, <1>12, <1>13, <1>14 DEF IInv

LEMMA Dropped ==
  ASSUME NEW S, NEW s \in Seq(S), NEW i \in DOMAIN s
  PROVE  RemoveAt(s, i) \in Seq(S)
<1>1. Len(s) \in Nat /\ i \in 1..Len(s) /\ \A j \in 1..Len(s) : s[j] \in S
  OBVIOUS
<1>2. SubSeq(s, 1, i - 1) \in Seq(S)
  <2>1. \A j \in 1..(i - 1) : s[j] \in S
    BY <1>1
  <2> QED  BY <1>1, <2>1, SubSeqProperties
<1>3. SubSeq(s, i + 1, Len(s)) \in Seq(S)
  <2>1. \A j \in (i + 1)..Len(s) : s[j] \in S
    BY <1>1
  <2> QED  BY <1>1, <2>1, SubSeqProperties
<1> QED  BY <1>2, <1>3 DEF RemoveAt

\* check comes to a factory only after all its dependencies are counted.
LEMMA AllMatched ==
  ASSUME IInv, NEW id \in Id, id \in inited, id \notin enabling, depCount[id] < 1,
         Call("enable", id, 0) \notin Pending
  PROVE  \A i \in DOMAIN DepsOf(id) : Just(id, i)
<1>1. Due(id) = {}
  <2>1. ASSUME NEW i \in DOMAIN DepsOf(id), Call("enableDep", id, i) \in Pending PROVE FALSE
    <3>1. Call("enableEnd", id, 0) \in Pending
      BY <2>1, CallFacts DEF IInv, EnablingOK
    <3> QED  BY <3>1 DEF IInv, EnablingOK
  <2> QED  BY <2>1 DEF Due
<1>2. depCount[id] = Len(DepsOf(id)) - 0 - Cardinality(matched[id])
  BY <1>1, FS_EmptySet DEF IInv, CountOK
<1>3. DOMAIN DepsOf(id) = 1..Len(DepsOf(id)) /\ Len(DepsOf(id)) \in Nat
  BY Unfolded, DepsFacts
<1>4. matched[id] \subseteq 1..Len(DepsOf(id))
  BY <1>3 DEF IInv, MatchOK, Asked
<1>5. IsFiniteSet(1..Len(DepsOf(id))) /\ Cardinality(1..Len(DepsOf(id))) = Len(DepsOf(id))
  <2> DEFINE n == Len(DepsOf(id))
  <2>1. n \in Nat
    BY <1>3
  <2> HIDE DEF n
  <2>2. IsFiniteSet(1..n) /\ Cardinality(1..n) = IF 1 > n THEN 0 ELSE n - 1 + 1
    BY <2>1, FS_Interval
  <2>3. Cardinality(1..n) = n
    BY <2>1, <2>2
  <2> QED  BY <2>2, <2>3 DEF n
<1>6. Cardinality(matched[id]) \in Nat /\ Cardinality(matched[id]) <= Len(DepsOf(id))
  BY <1>4, <1>5, FS_Subset, FS_CardinalityType
<1>7. Cardinality(matched[id]) = Len(DepsOf(id))
  BY <1>2, <1>3, <1>6
<1>8. matched[id] = 1..Len(DepsOf(id))
  BY <1>4, <1>5, <1>7, FS_Subset
<1> QED  BY <1>3, <1>8 DEF IInv, MatchOK

\* Calling the factory of id keeps what is true of the order of the factories.
LEMMA RunKeeps ==
  ASSUME IInv, NEW id \in Id, id \in inited, id \notin ToSet(runs), Run(id),
         \A i \in DOMAIN DepsOf(id) : Just(id, i), UNCHANGED <<deps, shim, inited>>
  PROVE  RunsOK' /\ runs' \in Seq(Id) /\ ToSet(runs') = ToSet(runs) \cup {id}
<1>1. runs' = Append(runs, id) /\ runs \in Seq(Id)
  BY Unfolded DEF Run
<1>2. /\ runs' \in Seq(Id) /\ Len(runs') = Len(runs) + 1 /\ Len(runs) \in Nat
      /\ DOMAIN runs = 1..Len(runs) /\ DOMAIN runs' = 1..(Len(runs) + 1)
      /\ \A k \in 1..Len(runs) : runs'[k] = runs[k]
      /\ runs'[Len(runs) + 1] = id
  BY <1>1
<1>3. ToSet(runs') = ToSet(runs) \cup {id}
  <2>1. \A k \in DOMAIN runs' : k \in DOMAIN runs \/ k = Len(runs) + 1
    BY <1>2
  <2>2. DOMAIN runs \subseteq DOMAIN runs' /\ Len(runs) + 1 \in DOMAIN runs'
    BY <1>2
  <2>3. \A x : x \in ToSet(runs') <=> \E k \in DOMAIN runs' : x = runs'[k]
    BY DEF ToSet
  <2>4. \A x : x \in ToSet(runs) <=> \E k \in DOMAIN runs : x = runs[k]
    BY DEF ToSet
  <2>5. \A x : x \in ToSet(runs') => x \in ToSet(runs) \/ x = id
    BY <2>1, <2>3, <2>4, <1>2
  <2>6. \A x : x \in ToSet(runs) => x \in ToSet(runs')
    BY <2>2, <2>3, <2>4, <1>2
  <2>7. id \in ToSet(runs')
    BY <2>2, <2>3, <1>2
  <2> QED  BY <2>5, <2>6, <2>7
<1>5. FactoryAfterDeps'
  <2>1. IsInjective(runs')
    <3> SUFFICES ASSUME NEW j \in DOMAIN runs', NEW k \in DOMAIN runs', runs'[j] = runs'[k]
                 PROVE  j = k
      BY DEF IsInjective
    <3>1. \A l \in DOMAIN runs : runs'[l] # id
      BY <1>2 DEF ToSet
    <3>2. IsInjective(runs)
      BY DEF IInv, RunsOK, FactoryAfterDeps
    <3>3. CASE j \in DOMAIN runs /\ k \in DOMAIN runs
      <4>1. runs[j] = runs[k]
        BY <3>3, <1>2
      <4> QED  BY <3>2, <3>3, <4>1 DEF IsInjective
    <3>4. CASE j \notin DOMAIN runs \/ k \notin DOMAIN runs
      BY <3>1, <3>4, <1>2
    <3> QED  BY <3>3, <3>4
  <2>2. ASSUME NEW k \in DOMAIN runs', NEW d \in ToSet(DepsOf(runs'[k]))
        PROVE  (\E j \in 1..(k - 1) : runs'[j] = d) \/ runs'[k] \in Reach(deps', {d})
    <3>1. CASE k \in DOMAIN runs
      <4>1. runs'[k] = runs[k] /\ \A j \in 1..(k - 1) : runs'[j] = runs[j]
        BY <3>1, <1>2
      <4>2. (\E j \in 1..(k - 1) : runs[j] = d) \/ runs[k] \in Reach(deps, {d})
        BY <2>2, <3>1, <4>1 DEF IInv, RunsOK, FactoryAfterDeps
      <4> QED  BY <4>1, <4>2
    <3>2. CASE k \notin DOMAIN runs
      <4>1. k = Len(runs) + 1 /\ runs'[k] = id /\ k - 1 = Len(runs)
        BY <3>2, <1>2
      <4>2. PICK i \in DOMAIN DepsOf(id) : d = DepsOf(id)[i]
        BY <2>2, <4>1 DEF ToSet
      <4>3. d \in ToSet(runs) \/ id \in Reach(deps, {d})
        BY <4>2 DEF Just
      <4>4. d \in ToSet(runs) => \E j \in 1..Len(runs) : runs'[j] = d
        BY <1>2 DEF ToSet
      <4> QED  BY <4>1, <4>3, <4>4
    <3> QED  BY <3>1, <3>2
  <2>3. \A k \in DOMAIN runs' : \A d \in ToSet(DepsOf(runs'[k])) :
          (\E j \in 1..(k - 1) : runs'[j] = d) \/ runs'[k] \in Reach(deps', {d})
    BY <2>2
  <2> QED  BY <2>1, <2>3 DEF FactoryAfterDeps, DepsOf
<1>6. ShimWaits'
  <2> SUFFICES ASSUME NEW m \in shim, m \in loading'
               PROVE  ToSet(deps[m]) \subseteq ToSet(runs')
    BY DEF ShimWaits
  <2>1. CASE m \in loading
    BY <2>1, <1>3 DEF IInv, RunsOK, ShimWaits
  <2>2. CASE m \notin loading
    <3>1. id < 0 /\ m = -id
      BY <2>2, LoaderAssumption DEF Run, Load, Id
    <3>2. deps[m] = DepsOf(id)
      BY <3>1 DEF DepsOf
    <3>3. ASSUME NEW i \in DOMAIN DepsOf(id) PROVE DepsOf(id)[i] \in ToSet(runs)
      <4>1. DepsOf(id)[i] \in 0..N
        BY Unfolded, DepsFacts, LoaderAssumption DEF Modules
      <4>2. id \notin Reach(deps, {DepsOf(id)[i]})
        <5>1. Reach(deps, {DepsOf(id)[i]}) \subseteq 0..N
          BY <4>1, Unfolded, Reaches
        <5> QED  BY <3>1, <5>1, LoaderAssumption
      <4> QED  BY <4>2 DEF Just
    <3> QED  BY <3>2, <3>3, <1>3 DEF ToSet
  <2> QED  BY <2>1, <2>2
<1>7. ToSet(runs') \subseteq inited'
  BY <1>3 DEF IInv, RunsOK
<1> QED  BY <1>2, <1>3, <1>5, <1>6, <1>7 DEF RunsOK

\* What check does to a module that is fetched, defined or left alone.
LEMMA CheckCases ==
  ASSUME IInv, NEW id \in Id, Check(id), Call("enable", id, 0) \notin Pending
  PROVE  /\ RunsOK' /\ ToSet(runs) \subseteq ToSet(runs')
         /\ \/ Do(<<>>) /\ ToSet(runs') = ToSet(runs)
            \/ Do(<<Call("emit", id, 0)>>) /\ id \in ToSet(runs') /\ ToSet(runs') \subseteq ToSet(runs) \cup {id}
         /\ fetched' \subseteq Id /\ registry' \subseteq Id /\ reqCalls' \in Seq(-N..0)
         /\ runs' \in Seq(Id) /\ loading' \subseteq Modules /\ ticks' \in Seq(-N..0)
<1>1. UNCHANGED <<deps, shim, inited, emitted>>
  BY DEF Check, graph, flags, emission
<1>2. /\ fetched \subseteq Id /\ registry \subseteq Id /\ reqCalls \in Seq(-N..0)
      /\ runs \in Seq(Id) /\ loading \subseteq Modules /\ ticks \in Seq(-N..0)
  BY DEF IInv, Shapes
<1>3. CASE id \notin enabled \/ id \in enabling
  <2>1. Do(<<>>) /\ UNCHANGED <<runs, registry, reqCalls, fetched, loading, ticks>>
    BY <1>3 DEF Check, registered, browser
  <2>2. RunsOK'
    BY <1>1, <2>1, SameRuns
  <2> QED  BY <1>2, <2>1, <2>2
<1>4. CASE id \in enabled \ enabling /\ id \notin inited
  <2>1. Fetch(id) /\ Do(<<>>) /\ UNCHANGED <<runs, registry, reqCalls>>
    BY <1>4 DEF Check, registered
  <2>2. id \in Modules /\ -id \in -N..0
    <3>1. id > 0
      BY <1>4 DEF IInv, EnablingOK
    <3> QED  BY <3>1, LoaderAssumption DEF Id, Modules
  <2>3. shim \cap loading' \subseteq loading /\ loading' \subseteq Modules
        /\ ticks' \in Seq(-N..0) /\ fetched' \subseteq Id
    <3>1. loading' = loading \/ (loading' = loading \cup {id} /\ id \notin shim)
      BY <2>1 DEF Fetch, Load
    <3>2. ticks' = ticks \/ ticks' = Append(ticks, -id)
      BY <2>1 DEF Fetch
    <3>3. ticks' \in Seq(-N..0)
      <4>1. Append(ticks, -id) \in Seq(-N..0)
        BY <1>2, <2>2, AppendProperties
      <4> QED  BY <4>1, <3>2, <1>2
    <3>4. fetched' \subseteq Id
      BY <2>1, <1>2 DEF Fetch
    <3> QED  BY <3>1, <3>3, <3>4, <1>2, <2>2
  <2>4. RunsOK'
    BY <1>1, <2>1, <2>3, SameRuns
  <2> QED  BY <1>2, <2>1, <2>3, <2>4
<1>5. CASE id \in (enabled \ enabling) \cap inited
  <2>1. /\ IF Ready(id) THEN Run(id) ELSE UNCHANGED <<runs, registry, reqCalls, loading>>
        /\ UNCHANGED <<fetched, ticks>>
        /\ Do(IF id \in ToSet(runs') \ emitted THEN <<Call("emit", id, 0)>> ELSE <<>>)
    BY <1>5 DEF Check, registered
  <2>2. CASE Ready(id)
    <3>1. id \notin ToSet(runs) /\ depCount[id] < 1 /\ Run(id)
      BY <2>1, <2>2 DEF Ready
    <3>2. \A i \in DOMAIN DepsOf(id) : Just(id, i)
      BY <3>1, <1>5, AllMatched
    <3>3. RunsOK' /\ runs' \in Seq(Id) /\ ToSet(runs') = ToSet(runs) \cup {id}
      BY <3>1, <3>2, <1>1, <1>5, RunKeeps
    <3>4. id \notin emitted
      BY <3>1 DEF IInv, EmitOK
    <3>5. Do(<<Call("emit", id, 0)>>)
      BY <2>1, <3>3, <3>4
    <3>6. registry' \subseteq Id /\ loading' \subseteq Modules
      <4>1. id < 0 => -id \in Modules
        BY LoaderAssumption DEF Id, Modules
      <4> QED  BY <3>1, <4>1, <1>2 DEF Run, Load
    <3>7. reqCalls' \in Seq(-N..0)
      <4>1. CASE id \in ToSet(reqCalls)
        <5>1. PICK i \in DOMAIN reqCalls : i = CHOOSE j \in DOMAIN reqCalls : reqCalls[j] = id
          BY <4>1 DEF ToSet
        <5>2. reqCalls' = RemoveAt(reqCalls, i)
          BY <3>1, <4>1, <5>1 DEF Run
        <5> QED  BY <5>2, <1>2, Dropped
      <4>2. CASE id \notin ToSet(reqCalls)
        BY <4>2, <3>1, <1>2 DEF Run
      <4> QED  BY <4>1, <4>2
    <3> QED  BY <1>2, <2>1, <3>3, <3>5, <3>6, <3>7
  <2>3. CASE ~ Ready(id)
    <3>1. UNCHANGED <<runs, registry, reqCalls, loading>>
      BY <2>1, <2>3
    <3>2. RunsOK'
      BY <1>1, <3>1, SameRuns
    <3>3. Do(<<>>) \/ (Do(<<Call("emit", id, 0)>>) /\ id \in ToSet(runs'))
      BY <2>1
    <3> QED  BY <1>2, <2>1, <3>1, <3>2, <3>3
  <2> QED  BY <2>2, <2>3
<1> QED  BY <1>3, <1>4, <1>5

LEMMA CheckStep == ASSUME IInv, NEW id, Check(id) PROVE IInv'
<1> DEFINE emit == Call("emit", id, 0)
<1>1. Turn("check", id, 0)
  BY DEF Check
<1>2. UNCHANGED <<deps, shim, flags, inited, enabled, counts, events, emitted, complete, traced, processed>>
  BY DEF Check, graph, flags, emission, cycle
<1>3. /\ id \in Id /\ \A y \in Rest : y.f \notin {"init", "enable"}
      /\ Call("enable", id, 0) \notin Pending
  <2>1. id \in Id /\ Pending = {Call("check", id, 0)} \cup Rest
        /\ \A y \in Rest : Fits(Call("check", id, 0), y)
    BY <1>1, HeadFacts
  <2>2. \A y \in Rest : y.f \notin {"init", "enable"}
    BY <2>1 DEF Fits
  <2>3. Call("enable", id, 0).f = "enable" /\ Call("check", id, 0).f = "check"
    BY CallFacts
  <2> QED  BY <2>1, <2>2, <2>3
<1>4. emit \in Calls /\ emit.f = "emit" /\ emit.id = id
  <2>1. "emit" \in Functions
    BY DEF Functions
  <2> QED  BY <2>1, <1>3, CallFacts
<1>5. /\ RunsOK' /\ ToSet(runs) \subseteq ToSet(runs')
      /\ \/ Do(<<>>) /\ ToSet(runs') = ToSet(runs)
         \/ Do(<<emit>>) /\ id \in ToSet(runs') /\ ToSet(runs') \subseteq ToSet(runs) \cup {id}
      /\ fetched' \subseteq Id /\ registry' \subseteq Id /\ reqCalls' \in Seq(-N..0)
      /\ runs' \in Seq(Id) /\ loading' \subseteq Modules /\ ticks' \in Seq(-N..0)
  BY <1>3, CheckCases
<1> HIDE DEF emit
<1>6. PICK calls \in Seq(Calls) : /\ Do(calls) /\ Ordered(calls)
                                  /\ \A c \in ToSet(calls) : c = emit /\ id \in ToSet(runs')
                                  /\ \A x \in ToSet(runs') : x \in ToSet(runs) \/ (x = id /\ emit \in ToSet(calls))
  <2>1. CASE Do(<<emit>>) /\ id \in ToSet(runs') /\ ToSet(runs') \subseteq ToSet(runs) \cup {id}
    BY <2>1, <1>4, OneCall
  <2>2. CASE Do(<<>>) /\ ToSet(runs') = ToSet(runs)
    BY <2>2, NoCalls
  <2> QED  BY <2>1, <2>2, <1>5
<1>7. CallsOK' /\ Ordered(todo)' /\ EnablingOK' /\ CountOK' /\ MatchOK' /\ todo' \in Seq(Calls)
  <2>1. \A c \in ToSet(calls) : CallOK(c)'
    BY <1>4, <1>6 DEF CallOK
  <2>2. \A x \in ToSet(calls), y \in Rest : Fits(x, y)
    BY <1>3, <1>4, <1>6, NeutralFits
  <2>3. \A c \in ToSet(calls) : c.f \notin {"enable", "enableDep", "enableEnd"}
    BY <1>4, <1>6
  <2> QED  BY <1>1, <1>2, <1>5, <1>6, <2>1, <2>2, <2>3, NeutralStep
<1>8. CycleOK'
  BY <1>1, <1>2, <1>6, SameCycle
<1>9. EmitOK'
  <2>1. \A x : /\ Call("emit", x, 0) \in Pending => Call("emit", x, 0) \in Pending'
               /\ Call("emitEnd", x, 0) \in Pending => Call("emitEnd", x, 0) \in Pending'
    BY <1>1, <1>6, StillPending
  <2>2. ToSet(calls) \subseteq Pending'
    BY <1>1, <1>6, StillPending
  <2>3. \A x \in ToSet(runs') : x \in ToSet(runs) \/ Call("emit", x, 0) \in Pending'
    BY <1>6, <2>2 DEF emit
  <2> QED  BY <1>2, <1>5, <2>1, <2>3 DEF IInv, EmitOK
<1>10. Shapes'
  BY <1>2, <1>5, <1>7 DEF IInv, Shapes, flags, counts
<1> QED  BY <1>5, <1>7, <1>8, <1>9, <1>10 DEF IInv
------------------------------------------------------------------------------
(* The functions that enable calls.                                        *)

LEMMA NextCalls ==
  ASSUME IInv, NEW f, NEW id, NEW i, Turn(f, id, i), NEW calls \in Seq(Calls), Do(calls),
         UNCHANGED deps, Ordered(calls), \A x \in ToSet(calls), y \in Rest : Fits(x, y),
         \A c \in Pending : CallOK(c)', \A c \in ToSet(calls) : CallOK(c)'
  PROVE  CallsOK' /\ Ordered(todo)' /\ todo' \in Seq(Calls)
<1>1. Ordered(todo') /\ todo' \in Seq(Calls)
  BY Turned, Unfolded
<1>2. Ordered(todo)'
  BY <1>1 DEF Ordered, Fits
<1>3. \A c \in Pending' : c \in ToSet(calls) \/ c \in Pending
  BY StillPending
<1> QED  BY <1>1, <1>2, <1>3 DEF CallsOK

\* The call is not made twice: what may not follow it is not pending after it.
LEMMA NotAgain ==
  ASSUME IInv, NEW f, NEW id, NEW i, Turn(f, id, i), NEW calls \in Seq(Calls), Do(calls)
  PROVE  /\ \A c \in Pending' : c \in ToSet(calls) \/ c \in Rest
         /\ \A y \in Rest : Fits(Call(f, id, i), y)
         /\ Call(f, id, i).f = f /\ Call(f, id, i).id = id
<1>1. Pending' = ToSet(calls) \cup Rest
  BY Turned, Unfolded
<1> QED  BY <1>1, HeadFacts, CallFacts

LEMMA EnableEndStep == ASSUME IInv, NEW id, EnableEnd(id) PROVE IInv'
<1> DEFINE c == Call("check", id, 0)
           end == Call("enableEnd", id, 0)
<1>1. Turn("enableEnd", id, 0) /\ Do(<<c>>) /\ enabling' = enabling \ {id}
  BY DEF EnableEnd
<1>2. UNCHANGED <<deps, shim, inited, enabled, depCount, matched, events, emitted, complete, registry, reqCalls, runs, fetched, loading, ticks, traced, processed>>
  BY DEF EnableEnd, graph, registered, browser, emission, cycle, counts
<1>3. id \in Id /\ end.f = "enableEnd" /\ end.id = id
  BY <1>1, HeadFacts, CallFacts
<1>4. c \in Calls /\ c.f = "check"
  <2>1. "check" \in Functions
    BY DEF Functions
  <2> QED  BY <2>1, <1>3, CallFacts
<1> HIDE DEF c, end
<1>5. PICK calls \in Seq(Calls) : Do(calls) /\ Ordered(calls) /\ ToSet(calls) = {c}
  BY <1>1, <1>4, OneCall
<1>6. /\ \A y \in Rest : Fits(end, y)
      /\ \A y \in Pending' : y = c \/ y \in Rest
  BY <1>1, <1>5, NotAgain DEF end
<1>7. /\ end \notin Pending'
      /\ \A y \in Pending' : y.f = "enableDep" => y.id # id
      /\ \A y \in Rest : y.f \notin {"init", "enable"}
  <2>1. /\ \A y \in Rest : y # end
        /\ \A y \in Rest : y.f = "enableDep" => y.id # id
        /\ \A y \in Rest : y.f \notin {"init", "enable"}
    BY <1>3, <1>6 DEF Fits
  <2> QED  BY <2>1, <1>3, <1>4, <1>6
<1>8. /\ \A x, k : Call("enableDep", x, k) \in Pending' <=> Call("enableDep", x, k) \in Pending
      /\ \A x, k : Call("enable", x, k) \in Pending' <=> Call("enable", x, k) \in Pending
      /\ \A x : Call("enableEnd", x, 0) \in Pending' <=> x # id /\ Call("enableEnd", x, 0) \in Pending
      /\ \A y \in Pending' : y.f # "check" => y \in Pending
  <2>1. \A y \in ToSet(calls) : y.f \notin {"enable", "enableDep", "enableEnd"}
    BY <1>4, <1>5
  <2>2. \A x : Call("enableEnd", x, 0) = end => x = id
    BY CallFacts DEF end
  <2>3. \A x : Call("enableEnd", x, 0) \in Pending => Call("enableEnd", x, 0) \in Pending' \/ x = id
    BY <2>2, <1>1, <1>5, StillPending DEF end
  <2>4. \A x : Call("enableEnd", x, 0) \in Pending' => Call("enableEnd", x, 0) \in Pending /\ x # id
    BY <2>1, <1>1, <1>5, <1>7, StillPending DEF end
  <2>5. \A g \in {"enable", "enableDep"} : \A x, k :
          Call(g, x, k) \in Pending' <=> Call(g, x, k) \in Pending
    BY <2>1, <1>1, <1>5, StillPending
  <2>6. \A y \in Pending' : y.f # "check" => y \in Pending
    BY <1>1, <1>4, <1>5, StillPending
  <2> QED  BY <2>3, <2>4, <2>5, <2>6
<1>9. EnablingOK'
  <2>1. enabling' = {x \in Id : Call("enableEnd", x, 0) \in Pending'}
    BY <1>1, <1>8 DEF IInv, EnablingOK
  <2>2. \A y \in Pending' : y.f = "enableDep" => Call("enableEnd", y.id, 0) \in Pending'
    BY <1>7, <1>8 DEF IInv, EnablingOK
  <2>3. \A y \in Pending' : y.f = "enableEnd" => y.id \in enabled'
    BY <1>2, <1>8 DEF IInv, EnablingOK
  <2>4. /\ \A x \in inited' \ enabled' : Call("enable", x, 0) \in Pending'
        /\ \A x \in enabled' : x > 0 \/ x \in inited'
    BY <1>2, <1>8 DEF IInv, EnablingOK
  <2>5. \A y \in Pending' : y.f = "enable" => /\ y.id \in inited' \/ y.id > 0
                                              /\ Call("enableEnd", y.id, 0) \notin Pending'
    BY <1>2, <1>8 DEF IInv, EnablingOK
  <2> QED  BY <2>1, <2>2, <2>3, <2>4, <2>5 DEF EnablingOK
<1>10. /\ \A x : DepsOf(x)' = DepsOf(x) /\ Due(x)' = Due(x)
       /\ \A x, k : Asked(x, k)' <=> Asked(x, k)
  <2>1. \A x : DepsOf(x)' = DepsOf(x)
    BY <1>2 DEF DepsOf
  <2> QED  BY <2>1, <1>2, <1>8 DEF Due, Asked
<1>11. CountOK' /\ MatchOK' /\ \A x, k : Just(x, k) => Just(x, k)'
  BY <1>2, <1>8, <1>10, NoMatching DEF counts
<1>12. CallsOK' /\ Ordered(todo)' /\ todo' \in Seq(Calls)
  <2>1. \A y \in Pending : CallOK(y)'
    BY <1>2, <1>10, <1>11, RestOK
  <2>2. CallOK(c)'
    BY <1>4 DEF CallOK
  <2>3. \A x \in ToSet(calls), y \in Rest : Fits(x, y)
    BY <1>4, <1>5, <1>7, NeutralFits
  <2> QED  BY <1>1, <1>2, <1>5, <2>1, <2>2, <2>3, NextCalls
<1>13. EmitOK' /\ CycleOK'
  BY <1>1, <1>2, <1>5, SameEmission, SameCycle
<1>14. RunsOK'
  BY <1>2, SameRuns
<1>15. Shapes'
  BY <1>2, <1>12 DEF IInv, Shapes
<1> QED  BY <1>9, <1>11, <1>12, <1>13, <1>14, <1>15 DEF IInv

LEMMA EnableNewStep == ASSUME IInv, NEW id, NEW i, EnableNew(id, i) PROVE IInv'
<1>1. Turn("enableNew", id, i)
  BY DEF EnableNew
<1>2. UNCHANGED <<deps, shim, flags, inited, enabled, enabling, depCount, matched, events, emitted, complete, registry, reqCalls, runs, fetched, loading, ticks, traced, processed>>
  BY DEF EnableNew, graph, flags, registered, browser, emission, cycle, counts
<1>3. /\ id \in Id /\ i \in Nat /\ i \in DOMAIN DepsOf(id)
      /\ \A y \in Rest : y.f \notin BreakingCalls /\ y.f \notin {"init", "enable"}
  <2>1. id \in Id /\ i \in Nat /\ CallOK(Call("enableNew", id, i))
        /\ \A y \in Rest : Fits(Call("enableNew", id, i), y)
    BY <1>1, HeadFacts
  <2>2. i \in DOMAIN DepsOf(id)
    BY <2>1, CallFacts DEF CallOK
  <2>3. Call("enableNew", id, i).f = "enableNew"
    BY CallFacts
  <2> QED  BY <2>1, <2>2, <2>3 DEF Fits, EnablingCalls
<1>4. \A x, k : Call("enable", x, k) \notin Pending
  <2>1. Pending = {Call("enableNew", id, i)} \cup Rest
    BY <1>1, HeadFacts
  <2> QED  BY <2>1, <1>3, CallFacts
<1>5. PICK d \in Modules : d = DepsOf(id)[i] /\ d \in Id /\ d > 0
  <2>1. DepsOf(id)[i] \in Modules
    BY <1>3, Unfolded, DepsFacts
  <2> QED  BY <2>1, LoaderAssumption DEF Modules, Id
<1> DEFINE c == Call("enable", d, 0)
<1>6. c \in Calls /\ c.f = "enable" /\ c.id = d
  <2>1. "enable" \in Functions
    BY DEF Functions, EnablingCalls
  <2> QED  BY <2>1, <1>5, CallFacts
<1>7. Do(<<>>) \/ (Do(<<c>>) /\ d \notin enabled)
  BY <1>5 DEF EnableNew
<1>8. inited \subseteq enabled
  BY <1>4 DEF IInv, EnablingOK, Shapes
<1> HIDE DEF c
<1>9. CASE Do(<<>>)
  <2>1. CallsOK' /\ Ordered(todo)' /\ EnablingOK' /\ CountOK' /\ MatchOK' /\ todo' \in Seq(Calls)
    BY <1>1, <1>2, <1>9, NoMoreCalls DEF counts
  <2>2. PICK calls \in Seq(Calls) : Do(calls)
    BY <1>9, NoCalls
  <2>3. EmitOK' /\ CycleOK'
    BY <1>1, <1>2, <2>2, SameEmission, SameCycle
  <2>4. RunsOK'
    BY <1>2, SameRuns
  <2>5. Shapes'
    BY <1>2, <2>1 DEF IInv, Shapes
  <2> QED  BY <2>1, <2>3, <2>4, <2>5 DEF IInv
<1>10. CASE Do(<<c>>) /\ d \notin enabled
  <2>1. PICK calls \in Seq(Calls) : Do(calls) /\ Ordered(calls) /\ ToSet(calls) = {c}
    BY <1>6, <1>10, OneCall
  <2>2. /\ \A x, k : Call("enableDep", x, k) \in Pending' <=> Call("enableDep", x, k) \in Pending
        /\ \A x, k : Call("enableEnd", x, k) \in Pending' <=> Call("enableEnd", x, k) \in Pending
        /\ \A x : Call("enable", x, 0) \in Pending' <=> x = d
        /\ \A y \in Pending' : y = c \/ y \in Pending
        /\ \A y \in Pending : y.f # "enable"
    <3>1. \A y \in ToSet(calls) : y.f \notin {"enableDep", "enableEnd"}
      BY <1>6, <2>1
    <3>2. \A g \in {"enableEnd", "enableDep"} : \A x, k :
            Call(g, x, k) \in Pending' <=> Call(g, x, k) \in Pending
      BY <3>1, <1>1, <2>1, StillPending
    <3>3. c \in Pending' /\ \A y \in Pending' : y = c \/ y \in Pending
      BY <1>1, <2>1, StillPending
    <3>4. \A x : Call("enable", x, 0) \in Pending' => x = d
      BY <3>3, <1>4, <1>6, CallFacts
    <3>5. Call("enable", d, 0) \in Pending'
      BY <3>3 DEF c
    <3>6. \A y \in Pending : y.f # "enable"
      <4>1. Pending = {Call("enableNew", id, i)} \cup Rest
        BY <1>1, HeadFacts
      <4> QED  BY <4>1, <1>3, CallFacts
    <3> QED  BY <3>2, <3>3, <3>4, <3>5, <3>6
  <2>3. Call("enableEnd", d, 0) \notin Pending
    <3>1. Call("enableEnd", d, 0).f = "enableEnd" /\ Call("enableEnd", d, 0).id = d
      BY CallFacts
    <3> QED  BY <3>1, <1>10 DEF IInv, EnablingOK
  <2>4. EnablingOK'
    <3>1. enabling' = {x \in Id : Call("enableEnd", x, 0) \in Pending'}
      BY <1>2, <2>2 DEF IInv, EnablingOK
    <3>2. \A y \in Pending' : y.f = "enableDep" => Call("enableEnd", y.id, 0) \in Pending'
      BY <1>6, <2>2 DEF IInv, EnablingOK
    <3>3. \A y \in Pending' : y.f = "enableEnd" => y.id \in enabled'
      BY <1>2, <1>6, <2>2 DEF IInv, EnablingOK
    <3>4. /\ \A x \in inited' \ enabled' : Call("enable", x, 0) \in Pending'
          /\ \A x \in enabled' : x > 0 \/ x \in inited'
      BY <1>2, <1>8 DEF IInv, EnablingOK
    <3>5. \A y \in Pending' : y.f = "enable" => /\ y.id \in inited' \/ y.id > 0
                                                /\ Call("enableEnd", y.id, 0) \notin Pending'
      BY <1>5, <1>6, <2>2, <2>3
    <3> QED  BY <3>1, <3>2, <3>3, <3>4, <3>5 DEF EnablingOK
  <2>5. /\ \A x : DepsOf(x)' = DepsOf(x) /\ Due(x)' = Due(x)
        /\ \A x, k : Asked(x, k)' <=> Asked(x, k)
    <3>1. \A x : DepsOf(x)' = DepsOf(x)
      BY <1>2 DEF DepsOf
    <3>2. \A x, k : Asked(x, k)' <=> Asked(x, k)
      BY <3>1, <1>2, <1>4, <1>10, <2>2 DEF Asked
    <3> QED  BY <3>1, <3>2, <2>2 DEF Due
  <2>6. \A x, k : Just(x, k)' <=> Just(x, k)
    BY <1>2, <2>5 DEF Just
  <2>7. MatchOK'
    BY <1>2, <2>5, <2>6 DEF IInv, MatchOK
  \* d was never asked for its dependencies: it has none yet.
  <2>8. depCount[d] = 0 /\ matched[d] = {}
    <3>1. DepsOf(d) = <<>> /\ DOMAIN DepsOf(d) = {}
      BY <1>5, <1>8, <1>10, Unfolded, DepsFacts
    <3>2. matched[d] = {}
      BY <1>5, <1>8, <1>10 DEF IInv, MatchOK, Asked
    <3>3. Due(d) = {}
      BY <3>1 DEF Due
    <3>4. depCount[d] = Len(DepsOf(d)) - Cardinality(Due(d)) - Cardinality(matched[d])
      BY <1>4, <1>5 DEF IInv, CountOK
    <3>5. Cardinality({}) = 0
      BY FS_EmptySet
    <3>6. Len(DepsOf(d)) = 0
      BY <3>1
    <3> QED  BY <3>2, <3>3, <3>4, <3>5, <3>6
  <2>9. CountOK'
    BY <1>2, <1>4, <2>2, <2>5, <2>8 DEF IInv, CountOK
  <2>10. CallsOK' /\ Ordered(todo)' /\ todo' \in Seq(Calls)
    <3>1. \A y \in Pending : CallOK(y)'
      BY <1>2, <2>5, <2>6, RestOK
    <3>2. CallOK(c)'
      BY <1>6 DEF CallOK
    <3>3. \A x \in ToSet(calls), y \in Rest : Fits(x, y)
      BY <1>3, <1>6, <2>1 DEF Fits, EnablingCalls, BreakingCalls
    <3> QED  BY <1>1, <1>2, <2>1, <3>1, <3>2, <3>3, NextCalls
  <2>11. EmitOK' /\ CycleOK'
    BY <1>1, <1>2, <2>1, SameEmission, SameCycle
  <2>12. RunsOK'
    BY <1>2, SameRuns
  <2>13. Shapes'
    BY <1>2, <2>10 DEF IInv, Shapes
  <2> QED  BY <2>4, <2>7, <2>9, <2>10, <2>11, <2>12, <2>13 DEF IInv
<1> QED  BY <1>7, <1>9, <1>10

LEMMA EnableStep == ASSUME IInv, NEW id, Enable(id) PROVE IInv'
<1>1. Turn("enable", id, 0) /\ enabled' = enabled \cup {id} /\ enabling' = enabling \cup {id}
  BY DEF Enable
<1>2. UNCHANGED <<deps, shim, inited, depCount, matched, events, emitted, complete, registry, runs, fetched, loading, ticks, traced, processed>>
  BY DEF Enable, graph, browser, emission, cycle, counts
<1>3. id \in Id /\ \A y \in Rest : y.f \notin {"init", "enable"} /\ y.f \notin BreakingCalls
  <2>1. id \in Id /\ \A y \in Rest : Fits(Call("enable", id, 0), y)
    BY <1>1, HeadFacts
  <2>2. Call("enable", id, 0).f = "enable"
    BY CallFacts
  <2> QED  BY <2>1, <2>2 DEF Fits, EnablingCalls
<1>4. /\ Call("enable", id, 0) \in Pending /\ Pending = {Call("enable", id, 0)} \cup Rest
      /\ Call("enable", id, 0).f = "enable" /\ Call("enable", id, 0).id = id
  BY <1>1, HeadFacts, CallFacts
<1>5. /\ id \in inited \/ id > 0
      /\ Call("enableEnd", id, 0) \notin Pending
      /\ \A k : Call("enableDep", id, k) \notin Pending
  <2>1. (id \in inited \/ id > 0) /\ Call("enableEnd", id, 0) \notin Pending
    BY <1>4 DEF IInv, EnablingOK
  <2>2. \A k : Call("enableDep", id, k).f = "enableDep" /\ Call("enableDep", id, k).id = id
    BY CallFacts
  <2>3. \A k : Call("enableDep", id, k) \notin Pending
    BY <2>1, <2>2 DEF IInv, EnablingOK
  <2> QED  BY <2>1, <2>3
<1>6. PICK n \in Nat : n = Len(DepsOf(id)) /\ DOMAIN DepsOf(id) = 1..n /\ (id \notin inited => DOMAIN DepsOf(id) = {})
  <2>1. DepsOf(id) \in Seq(Modules) /\ (id \notin inited => DOMAIN DepsOf(id) = {})
    BY <1>3, Unfolded, DepsFacts
  <2> QED  BY <2>1
<1> DEFINE each == ForEach("enableDep", id, n)
           end == Call("enableEnd", id, 0)
           calls == each \o <<end>>
<1>7. Do(calls)
  BY <1>6 DEF Enable
<1>8. /\ each \in Seq(Calls) /\ Ordered(each) /\ ToSet(each) = {Call("enableDep", id, k) : k \in 1..n}
      /\ end \in Calls /\ end.f = "enableEnd" /\ end.id = id
  <2>1. each \in Seq(Calls) /\ Ordered(each) /\ ToSet(each) = {Call("enableDep", id, k) : k \in 1..n}
    BY <1>3, <1>6, ForEachFacts
  <2>2. "enableEnd" \in Functions
    BY DEF Functions
  <2> QED  BY <2>1, <2>2, <1>3, CallFacts
<1> HIDE DEF each, end
<1>9. \A x \in ToSet(each) : x.f = "enableDep" /\ x.id = id /\ x.i \in DOMAIN DepsOf(id) /\ x.i \in 1..n
  BY <1>6, <1>8, CallFacts
<1>10. \A x \in ToSet(each) : Fits(x, end)
  BY <1>8, <1>9 DEF Fits, EnablingCalls, BreakingCalls
<1>11. calls \in Seq(Calls) /\ ToSet(calls) = ToSet(each) \cup {end} /\ Ordered(calls)
  BY <1>8, <1>10, OneMore
<1> HIDE DEF calls
<1>12. \A x \in ToSet(calls), y \in Rest : Fits(x, y)
  <2>1. \A x \in ToSet(each), y \in Rest : x # y
    BY <1>4, <1>5, <1>8
  <2>2. \A y \in Rest : y # end /\ (y.f = "enableDep" => y.id # id)
    <3>1. \A y \in Rest : y # end
      BY <1>4, <1>5 DEF end
    <3>2. \A y \in Rest : y.f = "enableDep" => y.id # id
      BY <1>4, <1>5 DEF IInv, EnablingOK
    <3> QED  BY <3>1, <3>2
  <2>3. \A x \in ToSet(each), y \in Rest : Fits(x, y)
    BY <2>1, <1>3, <1>9 DEF Fits, EnablingCalls, BreakingCalls
  <2>4. \A y \in Rest : Fits(end, y)
    BY <2>2, <1>3, <1>8 DEF Fits, EnablingCalls, BreakingCalls
  <2> QED  BY <2>3, <2>4, <1>11
<1>13. /\ \A x, k : Call("enable", x, k) \notin Pending'
       /\ \A x \in Id : \A k : x # id => (Call("enableDep", x, k) \in Pending' <=> Call("enableDep", x, k) \in Pending)
       /\ \A k : Call("enableDep", id, k) \in Pending' <=> k \in 1..n
       /\ \A x \in Id : Call("enableEnd", x, 0) \in Pending' <=> Call("enableEnd", x, 0) \in Pending \/ x = id
       /\ \A y \in Pending' : y \in Rest \/ y \in ToSet(each) \/ y = end
       /\ \A y \in Pending' : y.f # "enable"
  <2>1. Pending' = ToSet(calls) \cup Rest
    BY <1>1, <1>7, <1>11, Turned, Unfolded
  <2>2. \A y \in Pending' : y \in Rest \/ y \in ToSet(each) \/ y = end
    BY <2>1, <1>11
  <2>3. \A y \in Pending' : y.f # "enable"
    BY <2>2, <1>3, <1>8, <1>9
  <2>4. \A x, k : Call("enable", x, k) \notin Pending'
    BY <2>3, CallFacts
  <2>5. \A k : Call("enableDep", id, k) \in Pending' <=> k \in 1..n
    <3>1. \A k \in 1..n : Call("enableDep", id, k) \in Pending'
      BY <2>1, <1>8, <1>11
    <3>2. ASSUME NEW k, Call("enableDep", id, k) \in Pending' PROVE k \in 1..n
      <4>1. Call("enableDep", id, k).f = "enableDep" /\ Call("enableDep", id, k).i = k
        BY CallFacts
      <4>2. Call("enableDep", id, k) \in ToSet(each)
        BY <4>1, <3>2, <2>2, <1>4, <1>5, <1>8
      <4> QED  BY <4>1, <4>2, <1>9
    <3> QED  BY <3>1, <3>2
  <2>6. ASSUME NEW x \in Id, NEW k, x # id
        PROVE  Call("enableDep", x, k) \in Pending' <=> Call("enableDep", x, k) \in Pending
    <3>1. Call("enableDep", x, k).f = "enableDep" /\ Call("enableDep", x, k).id = x
      BY CallFacts
    <3>2. Call("enableDep", x, k) \notin ToSet(calls)
      BY <3>1, <2>6, <1>8, <1>9, <1>11
    <3> QED  BY <3>1, <3>2, <2>1, <1>4
  <2>7. ASSUME NEW x \in Id
        PROVE  Call("enableEnd", x, 0) \in Pending' <=> Call("enableEnd", x, 0) \in Pending \/ x = id
    <3>1. Call("enableEnd", x, 0).f = "enableEnd" /\ Call("enableEnd", x, 0).id = x
      BY CallFacts
    <3>2. Call("enableEnd", x, 0) \in ToSet(calls) => x = id
      BY <3>1, <1>8, <1>9, <1>11
    <3>3. x = id => Call("enableEnd", x, 0) \in ToSet(calls)
      BY <1>11 DEF end
    <3> QED  BY <3>1, <3>2, <3>3, <2>1, <1>4
  <2> QED  BY <2>2, <2>3, <2>4, <2>5, <2>6, <2>7
<1>14. EnablingOK'
  <2>1. enabling' = {x \in Id : Call("enableEnd", x, 0) \in Pending'}
    BY <1>1, <1>3, <1>13 DEF IInv, EnablingOK
  <2>2. ASSUME NEW y \in Pending', y.f = "enableDep" PROVE Call("enableEnd", y.id, 0) \in Pending'
    <3>1. CASE y \in Rest
      <4>1. y \in Calls
        BY <3>1, <1>1, HeadFacts
      <4>2. y.id \in Id /\ Call("enableEnd", y.id, 0) \in Pending
        BY <2>2, <3>1, <4>1, <1>4 DEF IInv, EnablingOK, Calls
      <4> QED  BY <4>2, <1>13
    <3>2. CASE y \in ToSet(each)
      BY <3>2, <1>3, <1>9, <1>13
    <3> QED  BY <3>1, <3>2, <2>2, <1>8, <1>13
  <2>3. \A y \in Pending' : y.f = "enableEnd" => y.id \in enabled'
    BY <1>1, <1>4, <1>8, <1>9, <1>13 DEF IInv, EnablingOK
  <2>4. /\ \A x \in inited' \ enabled' : Call("enable", x, 0) \in Pending'
        /\ \A x \in enabled' : x > 0 \/ x \in inited'
    <3>1. \A x \in inited \ enabled : x = id
      <4>1. \A x \in inited \ enabled : Call("enable", x, 0) \in Pending
        BY DEF IInv, EnablingOK
      <4>2. \A x : Call("enable", x, 0) \notin Rest
        BY <1>3, CallFacts
      <4>3. \A x : Call("enable", x, 0) = Call("enable", id, 0) => x = id
        BY CallFacts
      <4> QED  BY <4>1, <4>2, <4>3, <1>4
    <3>2. \A x \in enabled : x > 0 \/ x \in inited
      BY DEF IInv, EnablingOK
    <3> QED  BY <3>1, <3>2, <1>1, <1>2, <1>5
  <2>5. \A y \in Pending' : y.f = "enable" => /\ y.id \in inited' \/ y.id > 0
                                              /\ Call("enableEnd", y.id, 0) \notin Pending'
    BY <1>13
  <2> QED  BY <2>1, <2>2, <2>3, <2>4, <2>5 DEF EnablingOK
<1>15. /\ \A x : DepsOf(x)' = DepsOf(x)
       /\ \A x \in Id : x # id => Due(x)' = Due(x)
       /\ Due(id)' = 1..n
       /\ \A x \in Id : \A k : Asked(x, k) => Asked(x, k)' /\ x # id
  <2>1. \A x : DepsOf(x)' = DepsOf(x)
    BY <1>2 DEF DepsOf
  <2>2. \A x \in Id : x # id => Due(x)' = Due(x)
    BY <2>1, <1>13 DEF Due
  <2>3. Due(id)' = 1..n
    BY <2>1, <1>6, <1>13 DEF Due
  <2>4. \A x \in Id : \A k : Asked(x, k) => Asked(x, k)' /\ x # id
    BY <2>1, <1>1, <1>2, <1>4, <1>13 DEF Asked
  <2> QED  BY <2>1, <2>2, <2>3, <2>4
<1>16. \A x, k : Just(x, k)' <=> Just(x, k)
  BY <1>2, <1>15 DEF Just
<1>17. MatchOK'
  <2>1. \A x \in Id : \A k \in matched[x] : Asked(x, k)' /\ Just(x, k)'
    BY <1>15, <1>16 DEF IInv, MatchOK
  <2>2. \A e \in Id : \A d \in ToSet(events[e]) : d[1] \in Id
    BY Unfolded DEF ToSet
  <2>3. \A e \in Id : \A d \in ToSet(events[e]) : Asked(d[1], d[2])' /\ DepsOf(d[1])[d[2]] = e
    BY <2>2, <1>15 DEF IInv, MatchOK
  <2> QED  BY <2>1, <2>3, <1>2, <1>15 DEF MatchOK
<1>18. CountOK'
  <2> SUFFICES ASSUME NEW x \in Id
               PROVE  depCount'[x] = Len(DepsOf(x)') - Cardinality(Due(x)') - Cardinality(matched'[x])
    BY <1>13 DEF CountOK
  <2>1. CASE x = id
    <3>1. depCount[id] = 0 /\ matched[id] = {}
      BY <1>3, <1>4 DEF IInv, CountOK
    <3>2. Cardinality(1..n) = n /\ Cardinality({}) = 0
      <4>1. Cardinality(1..n) = IF 1 > n THEN 0 ELSE n - 1 + 1
        BY FS_Interval
      <4> QED  BY <4>1, FS_EmptySet
    <3>3. depCount'[id] = 0 /\ Cardinality(matched'[id]) = 0 /\ Cardinality(Due(id)') = n
      BY <3>1, <3>2, <1>2, <1>15
    <3>4. Len(DepsOf(id)') = n
      BY <1>6, <1>15
    <3>5. 0 = n - n - 0
      OBVIOUS
    <3> QED  BY <2>1, <3>3, <3>4, <3>5
  <2>2. CASE x # id
    <3>1. Call("enable", x, 0) \notin Pending
      <4>1. Call("enable", x, 0).f = "enable" /\ Call("enable", x, 0).id = x
        BY CallFacts
      <4> QED  BY <4>1, <2>2, <1>3, <1>4
    <3> QED  BY <2>2, <3>1, <1>2, <1>15 DEF IInv, CountOK
  <2> QED  BY <2>1, <2>2
<1>19. CallsOK' /\ Ordered(todo)' /\ todo' \in Seq(Calls)
  <2>1. \A x, k : Asked(x, k) => Asked(x, k)'
    <3>1. \A x, k : Asked(x, k) => x \in Id
      BY DEF Asked, IInv, Shapes
    <3> QED  BY <3>1, <1>15
  <2>2. \A y \in Pending : CallOK(y)'
    BY <2>1, <1>2, <1>15, <1>16, RestOK
  <2>3. ASSUME NEW y \in ToSet(calls) PROVE CallOK(y)'
    <3>1. CASE y \in ToSet(each)
      BY <3>1, <1>2, <1>6, <1>9, <1>15 DEF CallOK
    <3>2. CASE y = end
      BY <3>2, <1>8 DEF CallOK
    <3> QED  BY <3>1, <3>2, <1>11
  <2> QED  BY <1>1, <1>2, <1>7, <1>11, <1>12, <2>2, <2>3, NextCalls
<1>20. EmitOK' /\ CycleOK'
  BY <1>1, <1>2, <1>7, <1>11, SameEmission, SameCycle
<1>21. RunsOK'
  BY <1>2, SameRuns
<1>22. Shapes'
  <2>1. reqCalls' \in Seq(-N..0)
    <3>1. reqCalls' = reqCalls \/ (id <= 0 /\ reqCalls' = Append(reqCalls, id))
      BY <1>3, LoaderAssumption DEF Enable, Enlist, IsDefine, Id
    <3>2. id <= 0 => id \in -N..0
      BY <1>3, LoaderAssumption DEF Id
    <3>3. id \in -N..0 => Append(reqCalls, id) \in Seq(-N..0)
      BY Unfolded, AppendProperties
    <3>4. reqCalls \in Seq(-N..0)
      BY Unfolded
    <3> QED  BY <3>1, <3>2, <3>3, <3>4
  <2> QED  BY <2>1, <1>1, <1>2, <1>3, <1>19 DEF IInv, Shapes
<1> QED  BY <1>14, <1>17, <1>18, <1>19, <1>20, <1>21, <1>22 DEF IInv

LEMMA EnableDepStep == ASSUME IInv, NEW id, NEW i, EnableDep(id, i) PROVE IInv'
<1> DEFINE this == Call("enableDep", id, i)
           notify == Call("notify", id, i)
           new == Call("enableNew", id, i)
<1>1. Turn("enableDep", id, i) /\ depCount' = [depCount EXCEPT ![id] = @ + 1]
  BY DEF EnableDep
<1>2. UNCHANGED <<deps, shim, inited, enabled, enabling, matched, emitted, complete, reqCalls, runs, fetched, loading, ticks, traced, processed>>
  BY DEF EnableDep, graph, flags, browser, cycle
<1>3. /\ id \in Id /\ i \in Nat /\ id \in inited /\ i \in DOMAIN DepsOf(id)
      /\ \A y \in Rest : y.f \notin BreakingCalls /\ y.f \notin {"init", "enable"} /\ y # this
      /\ this.f = "enableDep" /\ this.id = id /\ this.i = i
      /\ this \in Pending /\ Pending = {this} \cup Rest
  <2>1. /\ id \in Id /\ i \in Nat /\ CallOK(this) /\ this \in Pending /\ Pending = {this} \cup Rest
        /\ \A y \in Rest : Fits(this, y)
    BY <1>1, HeadFacts
  <2>2. this.f = "enableDep" /\ this.id = id /\ this.i = i
    BY CallFacts
  <2>3. id \in inited /\ i \in DOMAIN DepsOf(id)
    BY <2>1, <2>2 DEF CallOK
  <2> HIDE DEF this
  <2>4. \A y \in Rest : y.f \notin BreakingCalls /\ y.f \notin {"init", "enable"} /\ y # this
    BY <2>1, <2>2 DEF Fits, EnablingCalls
  <2> QED  BY <2>1, <2>2, <2>3, <2>4
<1> HIDE DEF this
<1>4. /\ \A x, k : Call("enable", x, k) \notin Pending
      /\ \A y \in Pending : y.f # "enable"
      /\ id \in enabled
  <2>1. \A y \in Pending : y.f # "enable"
    BY <1>3
  <2>2. \A x, k : Call("enable", x, k) \notin Pending
    BY <2>1, CallFacts
  <2>3. id \in enabled
    BY <2>2, <1>3 DEF IInv, EnablingOK
  <2> QED  BY <2>1, <2>2, <2>3
<1>5. PICK d \in Modules : d = DepsOf(id)[i] /\ d \in Id
  <2>1. DepsOf(id)[i] \in Modules
    BY <1>3, Unfolded, DepsFacts
  <2> QED  BY <2>1, IdFacts
<1>6. /\ notify \in Calls /\ notify.f = "notify" /\ notify.id = id /\ notify.i = i
      /\ new \in Calls /\ new.f = "enableNew" /\ new.id = id /\ new.i = i
  <2>1. "notify" \in Functions /\ "enableNew" \in Functions
    BY DEF Functions, EnablingCalls
  <2> QED  BY <2>1, <1>3, CallFacts
<1>7. \/ /\ d \in ToSet(runs) /\ Do(<<notify, new>>) /\ UNCHANGED <<events, registry>>
      \/ /\ events' = [events EXCEPT ![d] = Append(@, <<id, i>>)]
         /\ registry' = registry \cup {d} /\ Do(<<new>>)
  BY <1>5 DEF EnableDep, Announced
<1> HIDE DEF notify, new
<1>8. PICK calls \in Seq(Calls) : /\ Do(calls) /\ Ordered(calls)
                                  /\ \A c \in ToSet(calls) : c = new \/ (c = notify /\ d \in ToSet(runs))
  <2>1. CASE d \in ToSet(runs) /\ Do(<<notify, new>>)
    <3>1. Fits(notify, new)
      BY <1>6, NeutralFits
    <3> QED  BY <2>1, <3>1, <1>6, TwoCalls
  <2>2. CASE Do(<<new>>)
    BY <2>2, <1>6, OneCall
  <2> QED  BY <1>7, <2>1, <2>2
<1>9. /\ \A y \in Pending' : y \in ToSet(calls) \/ y \in Rest
      /\ \A y \in Pending : y = this \/ y \in Pending'
      /\ this \notin Pending'
      /\ \A y \in Pending' : y.f # "enable"
  <2>1. \A y \in Pending' : y \in ToSet(calls) \/ y \in Rest
    BY <1>1, <1>8, NotAgain
  <2>2. \A y \in Pending : y = this \/ y \in Pending'
    BY <1>1, <1>8, StillPending DEF this
  <2> QED  BY <2>1, <2>2, <1>3, <1>6, <1>8
<1>10. /\ \A x, k : Call("enable", x, k) \notin Pending'
       /\ \A x, k : Call("enableDep", x, k) \in Pending' <=>
                      Call("enableDep", x, k) \in Pending /\ ~ (x = id /\ k = i)
       /\ \A x, k : Call("enableEnd", x, k) \in Pending' <=> Call("enableEnd", x, k) \in Pending
  <2>1. \A y \in ToSet(calls) : y.f \notin {"enable", "enableDep", "enableEnd"}
    BY <1>6, <1>8
  <2>2. \A x, k : Call("enable", x, k) \notin Pending'
    BY <1>9, CallFacts
  <2>3. \A x, k : Call("enableEnd", x, k) \in Pending' <=> Call("enableEnd", x, k) \in Pending
    BY <2>1, <1>1, <1>8, StillPending
  <2>4. \A x, k : Call("enableDep", x, k) \in Pending' => Call("enableDep", x, k) \in Pending
    BY <2>1, <1>1, <1>8, StillPending
  <2>5. \A x, k : Call("enableDep", x, k) = this <=> (x = id /\ k = i)
    BY CallFacts DEF this
  <2> QED  BY <2>2, <2>3, <2>4, <2>5, <1>9
<1>11. EnablingOK'
  <2>1. enabling' = {x \in Id : Call("enableEnd", x, 0) \in Pending'}
    BY <1>2, <1>10 DEF IInv, EnablingOK
  <2>2. \A y \in Pending' : y.f \in {"enableDep", "enableEnd"} => y \in Pending
    BY <1>3, <1>6, <1>8, <1>9
  <2>3. \A y \in Pending' : y.f = "enableDep" => Call("enableEnd", y.id, 0) \in Pending'
    BY <2>2, <1>10 DEF IInv, EnablingOK
  <2>4. \A y \in Pending' : y.f = "enableEnd" => y.id \in enabled'
    BY <2>2, <1>2 DEF IInv, EnablingOK
  <2>5. /\ \A x \in inited' \ enabled' : Call("enable", x, 0) \in Pending'
        /\ \A x \in enabled' : x > 0 \/ x \in inited'
    BY <1>2, <1>4 DEF IInv, EnablingOK
  <2>6. \A y \in Pending' : y.f # "enable"
    BY <1>9
  <2> QED  BY <2>1, <2>3, <2>4, <2>5, <2>6 DEF EnablingOK
<1>12. /\ \A x : DepsOf(x)' = DepsOf(x)
       /\ \A x \in Id : x # id => Due(x)' = Due(x)
       /\ Due(id)' = Due(id) \ {i} /\ i \in Due(id)
       /\ \A x, k : Asked(x, k) => Asked(x, k)'
       /\ Asked(id, i)'
  <2>1. \A x : DepsOf(x)' = DepsOf(x)
    BY <1>2 DEF DepsOf
  <2>2. \A x \in Id : x # id => Due(x)' = Due(x)
    BY <2>1, <1>10 DEF Due
  <2>3. Due(id)' = Due(id) \ {i} /\ i \in Due(id)
    BY <2>1, <1>3, <1>10 DEF Due, this
  <2>4. \A x, k : Asked(x, k) => Asked(x, k)'
    BY <2>1, <1>2, <1>10 DEF Asked
  <2>5. Asked(id, i)'
    BY <2>1, <1>2, <1>3, <1>4, <1>10 DEF Asked
  <2> QED  BY <2>1, <2>2, <2>3, <2>4, <2>5
<1>13. \A x, k : Just(x, k)' <=> Just(x, k)
  BY <1>2, <1>12 DEF Just
<1>14. MatchOK' /\ events' \in [Id -> Seq(Id \X Nat)]
  <2>1. \A x \in Id : \A k \in matched[x] : Asked(x, k)' /\ Just(x, k)'
    BY <1>12, <1>13 DEF IInv, MatchOK
  <2>2. \A x \in Id : \A e \in ToSet(events[x]) : Asked(e[1], e[2])' /\ DepsOf(e[1])[e[2]] = x
    BY <1>12 DEF IInv, MatchOK
  <2>3. CASE UNCHANGED events
    BY <2>1, <2>2, <2>3, <1>2, <1>12, Unfolded DEF MatchOK
  <2>4. CASE events' = [events EXCEPT ![d] = Append(@, <<id, i>>)]
    <3>1. events[d] \in Seq(Id \X Nat) /\ <<id, i>> \in Id \X Nat
      BY <1>3, <1>5, Unfolded
    <3>2. Append(events[d], <<id, i>>) \in Seq(Id \X Nat)
      BY <3>1, AppendProperties
    <3>3. \A e \in ToSet(Append(events[d], <<id, i>>)) : e \in ToSet(events[d]) \/ e = <<id, i>>
      <4> DEFINE p == <<id, i>>
                 s == events[d]
      <4>1. p \in Id \X Nat /\ s \in Seq(Id \X Nat)
        BY <3>1
      <4> HIDE DEF p, s
      <4>2. DOMAIN Append(s, p) = 1..(Len(s) + 1) /\ DOMAIN s = 1..Len(s) /\ Len(s) \in Nat
            /\ \A k \in 1..(Len(s) + 1) : Append(s, p)[k] = IF k = Len(s) + 1 THEN p ELSE s[k]
        BY <4>1, AppendProperties
      <4>3. \A e \in ToSet(Append(s, p)) : e \in ToSet(s) \/ e = p
        BY <4>2 DEF ToSet
      <4> QED  BY <4>3 DEF p, s
    <3>4. events' \in [Id -> Seq(Id \X Nat)] /\ events'[d] = Append(events[d], <<id, i>>)
          /\ \A x \in Id : x # d => events'[x] = events[x]
      BY <2>4, <3>2, <1>5, Unfolded
    <3>5. <<id, i>>[1] = id /\ <<id, i>>[2] = i
      OBVIOUS
    <3>6. ASSUME NEW x \in Id, NEW e \in ToSet(events'[x])
          PROVE  Asked(e[1], e[2])' /\ DepsOf(e[1])[e[2]] = x
      <4>1. CASE e \in ToSet(events[x])
        BY <4>1, <2>2
      <4>2. CASE e \notin ToSet(events[x])
        <5>1. x = d /\ e = <<id, i>>
          BY <4>2, <3>3, <3>4, <3>6
        <5> QED  BY <5>1, <3>5, <1>5, <1>12
      <4> QED  BY <4>1, <4>2
    <3> QED  BY <3>4, <3>6, <2>1, <1>2, <1>12 DEF MatchOK
  <2> QED  BY <2>3, <2>4, <1>7
<1>15. CountOK'
  <2> SUFFICES ASSUME NEW x \in Id
               PROVE  depCount'[x] = Len(DepsOf(x)') - Cardinality(Due(x)') - Cardinality(matched'[x])
    BY <1>10 DEF CountOK
  <2>1. depCount \in [Id -> Int]
    BY DEF IInv, Shapes
  <2>2. depCount[x] = Len(DepsOf(x)) - Cardinality(Due(x)) - Cardinality(matched[x])
    BY <1>4 DEF IInv, CountOK
  <2>3. CASE x = id
    <3>1. depCount'[id] = depCount[id] + 1
      BY <1>1, <1>3, <2>1
    <3>2. Len(DepsOf(id)) \in Nat /\ Due(id) \subseteq 1..Len(DepsOf(id)) /\ matched[id] \subseteq 1..Len(DepsOf(id))
      <4>1. Len(DepsOf(id)) \in Nat /\ DOMAIN DepsOf(id) = 1..Len(DepsOf(id))
        BY <1>3, Unfolded, DepsFacts
      <4>2. matched[id] \subseteq DOMAIN DepsOf(id)
        BY <1>3 DEF IInv, MatchOK, Asked
      <4> QED  BY <4>1, <4>2 DEF Due
    <3>3. IsFiniteSet(Due(id)) /\ Cardinality(matched[id]) \in Nat
      <4>1. IsFiniteSet(1..Len(DepsOf(id)))
        BY <3>2, FS_Interval
      <4>2. IsFiniteSet(Due(id)) /\ IsFiniteSet(matched[id])
        BY <3>2, <4>1, FS_Subset
      <4> QED  BY <4>2, FS_CardinalityType
    <3>4. Cardinality(Due(id)') = Cardinality(Due(id)) - 1 /\ Cardinality(Due(id)) \in Nat
      BY <3>3, <1>12, FS_RemoveElement, FS_CardinalityType
    <3> QED  BY <2>2, <2>3, <3>1, <3>2, <3>3, <3>4, <1>2, <1>12
  <2>4. CASE x # id
    BY <2>1, <2>2, <2>4, <1>1, <1>2, <1>12
  <2> QED  BY <2>3, <2>4
<1>16. CallsOK' /\ Ordered(todo)' /\ todo' \in Seq(Calls)
  <2>1. \A y \in Pending : CallOK(y)'
    BY <1>2, <1>12, <1>13, RestOK
  <2>2. d \in ToSet(runs) => Just(id, i)'
    BY <1>5, <1>13 DEF Just
  <2>3. \A y \in ToSet(calls) : CallOK(y)'
    BY <2>2, <1>2, <1>3, <1>6, <1>8, <1>12 DEF CallOK
  <2>4. \A x \in ToSet(calls), y \in Rest : Fits(x, y)
    <3>1. \A y \in Rest : Fits(notify, y)
      BY <1>3, <1>6, NeutralFits
    <3>2. \A y \in Rest : Fits(new, y)
      BY <1>3, <1>6 DEF Fits, EnablingCalls, BreakingCalls
    <3> QED  BY <3>1, <3>2, <1>8
  <2> QED  BY <1>1, <1>2, <1>8, <2>1, <2>3, <2>4, NextCalls
<1>17. EmitOK' /\ CycleOK'
  BY <1>1, <1>2, <1>8, SameEmission, SameCycle
<1>18. RunsOK'
  BY <1>2, SameRuns
<1>19. Shapes'
  <2>1. depCount' \in [Id -> Int]
    <3>1. depCount \in [Id -> Int] /\ depCount[id] + 1 \in Int
      BY <1>3 DEF IInv, Shapes
    <3> QED  BY <3>1, <1>1
  <2>2. registry' \subseteq Id
    BY <1>5, <1>7 DEF IInv, Shapes
  <2> QED  BY <2>1, <2>2, <1>2, <1>14, <1>16 DEF IInv, Shapes
<1> QED  BY <1>11, <1>14, <1>15, <1>16, <1>17, <1>18, <1>19 DEF IInv

LEMMA InitModuleStep == ASSUME IInv, NEW id, InitModule(id) PROVE IInv'
<1> DEFINE c == Call("enable", id, 0)
<1>1. Turn("init", id, 0) /\ inited' = inited \cup {id} /\ registry' = registry \cup {id}
  BY DEF InitModule
<1>2. UNCHANGED <<deps, shim, enabled, enabling, depCount, matched, events, emitted, complete, reqCalls, runs, fetched, loading, ticks, traced, processed>>
  BY DEF InitModule, graph, browser, emission, cycle, counts
<1>3. /\ id \in Id
      /\ \A y \in Pending : y.f \in {"init", "checkLoaded"}
      /\ \A y \in Rest : y.f = "checkLoaded"
  <2>1. id \in Id /\ Pending = {Call("init", id, 0)} \cup Rest
        /\ \A y \in Rest : Fits(Call("init", id, 0), y)
    BY <1>1, HeadFacts
  <2>2. Call("init", id, 0).f = "init"
    BY CallFacts
  <2>3. \A y \in Rest : y.f = "checkLoaded"
    BY <2>1, <2>2 DEF Fits
  <2> QED  BY <2>1, <2>2, <2>3
<1>4. c \in Calls /\ c.f = "enable" /\ c.id = id
  <2>1. "enable" \in Functions
    BY DEF Functions, EnablingCalls
  <2> QED  BY <2>1, <1>3, CallFacts
<1>5. /\ id \in inited => Do(<<>>)
      /\ id \notin inited => Do(<<c>>)
  BY DEF InitModule
<1> HIDE DEF c
<1>6. RunsOK'
  BY <1>1, <1>2, SameRuns
<1>7. CASE id \in inited
  <2>1. inited' = inited
    BY <1>1, <1>7
  <2>2. UNCHANGED <<flags, counts>>
    BY <2>1, <1>2 DEF flags, counts
  <2>3. CallsOK' /\ Ordered(todo)' /\ EnablingOK' /\ CountOK' /\ MatchOK' /\ todo' \in Seq(Calls)
    BY <1>1, <1>2, <1>5, <1>7, <2>2, NoMoreCalls
  <2>4. PICK calls \in Seq(Calls) : Do(calls)
    BY <1>5, <1>7, NoCalls
  <2>5. EmitOK' /\ CycleOK'
    BY <1>1, <1>2, <2>4, SameEmission, SameCycle
  <2>6. Shapes'
    BY <1>1, <1>2, <1>3, <2>1, <2>3 DEF IInv, Shapes
  <2> QED  BY <1>6, <2>3, <2>5, <2>6 DEF IInv
<1>8. CASE id \notin inited
  <2>1. PICK calls \in Seq(Calls) : Do(calls) /\ Ordered(calls) /\ ToSet(calls) = {c}
    BY <1>4, <1>5, <1>8, OneCall
  <2>2. /\ \A y \in Pending' : y = c \/ y.f = "checkLoaded"
        /\ c \in Pending'
    BY <1>1, <1>3, <2>1, NotAgain, StillPending
  <2>3. /\ \A g \in {"enable", "enableDep", "enableEnd", "emit", "emitEnd", "breakEnd"} :
             \A x, k : Call(g, x, k) \notin Pending
        /\ \A g \in {"enableDep", "enableEnd"} : \A x, k : Call(g, x, k) \notin Pending'
        /\ \A x : Call("enable", x, 0) \in Pending' <=> x = id
    <3>1. \A g \in {"enable", "enableDep", "enableEnd", "emit", "emitEnd", "breakEnd"} :
             \A x, k : Call(g, x, k) \notin Pending
      BY <1>3, CallFacts
    <3>2. \A g \in {"enableDep", "enableEnd"} : \A x, k : Call(g, x, k) \notin Pending'
      BY <1>4, <2>2, CallFacts
    <3>3. \A x : Call("enable", x, 0) \in Pending' => x = id
      BY <1>4, <2>2, CallFacts
    <3>4. Call("enable", id, 0) \in Pending'
      BY <2>2 DEF c
    <3> QED  BY <3>1, <3>2, <3>3, <3>4
  <2>4. /\ \A x : Call("enable", x, 0) \notin Pending
        /\ \A x, k : Call("enableDep", x, k) \notin Pending /\ Call("enableDep", x, k) \notin Pending'
        /\ \A x : Call("enableEnd", x, 0) \notin Pending /\ Call("enableEnd", x, 0) \notin Pending'
    BY <2>3
  <2>5. EnablingOK'
    <3>1. enabling' = {x \in Id : Call("enableEnd", x, 0) \in Pending'}
      <4>1. enabling = {x \in Id : Call("enableEnd", x, 0) \in Pending}
        BY DEF IInv, EnablingOK
      <4> QED  BY <4>1, <1>2, <2>4
    <3>2. \A y \in Pending' : y.f \notin {"enableDep", "enableEnd"}
      BY <1>4, <2>2
    <3>3. inited \subseteq enabled
      BY <2>4 DEF IInv, EnablingOK
    <3>4. /\ \A x \in inited' \ enabled' : Call("enable", x, 0) \in Pending'
          /\ \A x \in enabled' : x > 0 \/ x \in inited'
      BY <3>3, <1>1, <1>2, <2>3 DEF IInv, EnablingOK
    <3>5. \A y \in Pending' : y.f = "enable" => y.id \in inited'
      BY <1>1, <1>4, <2>2
    <3> QED  BY <3>1, <3>2, <3>4, <3>5, <2>4 DEF EnablingOK
  <2>6. /\ \A x : x # id => DepsOf(x)' = DepsOf(x)
        /\ \A x : Due(x) = {}
        /\ \A x : Due(x)' = {}
        /\ \A x, k : Asked(x, k) => Asked(x, k)' /\ x # id
    <3>1. \A x : x # id => DepsOf(x)' = DepsOf(x)
      BY <1>1, <1>2 DEF DepsOf
    <3>2. (\A x : Due(x) = {}) /\ (\A x : Due(x)' = {})
      BY <2>4 DEF Due
    <3>3. \A x, k : Asked(x, k) => x \in inited
      BY DEF Asked
    <3>4. \A x, k : Asked(x, k) => Asked(x, k)' /\ x # id
      BY <3>1, <3>3, <1>1, <1>2, <1>8, <2>3, <2>4 DEF Asked
    <3> QED  BY <3>1, <3>2, <3>4
  <2>7. MatchOK'
    <3>1. \A x \in Id : \A k \in matched[x] : Asked(x, k)' /\ Just(x, k)'
      <4> SUFFICES ASSUME NEW x \in Id, NEW k \in matched[x] PROVE Asked(x, k)' /\ Just(x, k)'
        OBVIOUS
      <4>1. Asked(x, k) /\ Just(x, k)
        BY DEF IInv, MatchOK
      <4>2. Asked(x, k)' /\ DepsOf(x)' = DepsOf(x)
        BY <4>1, <2>6
      <4> QED  BY <4>1, <4>2, <1>2 DEF Just
    <3>2. \A x \in Id : \A e \in ToSet(events[x]) : Asked(e[1], e[2])' /\ DepsOf(e[1])'[e[2]] = x
      <4> SUFFICES ASSUME NEW x \in Id, NEW e \in ToSet(events[x])
                   PROVE  Asked(e[1], e[2])' /\ DepsOf(e[1])'[e[2]] = x
        OBVIOUS
      <4>1. Asked(e[1], e[2]) /\ DepsOf(e[1])[e[2]] = x
        BY DEF IInv, MatchOK
      <4>2. Asked(e[1], e[2])' /\ DepsOf(e[1])' = DepsOf(e[1])
        BY <4>1, <2>6
      <4> QED  BY <4>1, <4>2
    <3> QED  BY <3>1, <3>2, <1>2 DEF MatchOK
  <2>8. CountOK'
    <3> SUFFICES ASSUME NEW x \in Id
                 PROVE  IF x = id THEN depCount'[x] = 0 /\ matched'[x] = {}
                        ELSE depCount'[x] = Len(DepsOf(x)') - Cardinality(Due(x)') - Cardinality(matched'[x])
      BY <2>3 DEF CountOK
    <3>1. depCount[x] = Len(DepsOf(x)) - Cardinality(Due(x)) - Cardinality(matched[x])
      BY <2>4 DEF IInv, CountOK
    <3>2. CASE x # id
      BY <3>1, <3>2, <1>2, <2>6
    <3>3. CASE x = id
      <4>1. Len(DepsOf(id)) = 0
        BY <1>3, <1>8, Unfolded, DepsFacts
      <4>2. matched[id] = {}
        BY <1>3, <1>8 DEF IInv, MatchOK, Asked
      <4>3. Cardinality({}) = 0
        BY FS_EmptySet
      <4>4. Due(id) = {}
        BY <2>6
      <4> QED  BY <3>1, <3>3, <4>1, <4>2, <4>3, <4>4, <1>2
    <3> QED  BY <3>2, <3>3
  <2>9. CallsOK' /\ Ordered(todo)' /\ todo' \in Seq(Calls)
    <3>1. \A y \in Pending : CallOK(y)'
      BY <1>3 DEF CallOK
    <3>2. CallOK(c)'
      BY <1>4 DEF CallOK
    <3>3. \A x \in ToSet(calls), y \in Rest : Fits(x, y)
      BY <1>3, <1>4, <2>1 DEF Fits, EnablingCalls, BreakingCalls
    <3> QED  BY <1>1, <1>2, <2>1, <3>1, <3>2, <3>3, NextCalls
  <2>10. EmitOK' /\ CycleOK'
    BY <1>1, <1>2, <2>1, SameEmission, SameCycle
  <2>11. Shapes'
    BY <1>1, <1>2, <1>3, <2>9 DEF IInv, Shapes
  <2> QED  BY <1>6, <2>5, <2>7, <2>8, <2>9, <2>10, <2>11 DEF IInv
<1> QED  BY <1>7, <1>8

------------------------------------------------------------------------------
(* The callbacks that the browser starts.                                  *)

LEMMA BeginKeeps ==
  ASSUME IInv, NEW calls \in Seq(Calls), Begin(calls), Ordered(calls),
         \A c \in ToSet(calls) : c.f = "init",
         UNCHANGED <<deps, shim, inited, enabled, enabling, depCount, matched, events, emitted,
                     complete, runs, traced, processed>>,
         shim \cap loading' \subseteq loading
  PROVE  /\ CallsOK' /\ Ordered(todo)' /\ EnablingOK' /\ CountOK' /\ MatchOK' /\ CycleOK'
         /\ EmitOK' /\ RunsOK' /\ todo' \in Seq(Calls)
<1> DEFINE last == Call("checkLoaded", Main, 0)
<1>1. todo = <<>> /\ todo' = calls \o <<last>>
  BY DEF Begin
<1>2. last \in Calls /\ last.f = "checkLoaded"
  <2>1. "checkLoaded" \in Functions
    BY DEF Functions
  <2> QED  BY <2>1, IdFacts, CallFacts
<1> HIDE DEF last
<1>3. \A x \in ToSet(calls) : Fits(x, last)
  BY <1>2 DEF Fits, EnablingCalls, BreakingCalls
<1>4. todo' \in Seq(Calls) /\ Pending' = ToSet(calls) \cup {last} /\ Ordered(todo')
  BY <1>1, <1>2, <1>3, OneMore DEF Pending
<1>5. Ordered(todo)'
  BY <1>4 DEF Ordered, Fits
<1>6. Pending = {} /\ \A c \in Pending' : c.f \in {"init", "checkLoaded"}
  BY <1>1, <1>2, <1>4 DEF Pending, ToSet
<1>7. /\ \A g \in {"enable", "enableDep", "enableEnd"} : \A x, k : Call(g, x, k) \notin Pending'
      /\ \A g, x, k : Call(g, x, k) \notin Pending
  BY <1>6, CallFacts
<1>8. /\ \A x : Call("enable", x, 0) \notin Pending' /\ Call("enable", x, 0) \notin Pending
      /\ \A x, k : Call("enableDep", x, k) \notin Pending' /\ Call("enableDep", x, k) \notin Pending
      /\ \A x : Call("enableEnd", x, 0) \notin Pending' /\ Call("enableEnd", x, 0) \notin Pending
  BY <1>7
<1>9. CallsOK'
  BY <1>6 DEF CallsOK, CallOK
<1>10. EnablingOK'
  BY <1>6, <1>8 DEF IInv, EnablingOK
<1>11. /\ \A x : DepsOf(x)' = DepsOf(x) /\ Due(x)' = Due(x)
       /\ \A x, k : Asked(x, k)' <=> Asked(x, k)
  <2>1. \A x : DepsOf(x)' = DepsOf(x)
    BY DEF DepsOf
  <2> QED  BY <2>1, <1>8 DEF Due, Asked
<1>12. CountOK' /\ MatchOK'
  <2>1. UNCHANGED <<deps, counts, events>> /\ ToSet(runs) \subseteq ToSet(runs')
    BY DEF counts
  <2> QED  BY <2>1, <1>8, <1>11, NoMatching
<1>13. CycleOK'
  BY <1>7 DEF IInv, CycleOK
<1>14. EmitOK'
  BY <1>7 DEF IInv, EmitOK
<1>15. RunsOK'
  BY SameRuns
<1> QED  BY <1>4, <1>5, <1>9, <1>10, <1>12, <1>13, <1>14, <1>15

\* The two ways a callback starts: with the init of a module, or with none.
LEMMA Starts ==
  ASSUME NEW id \in Id
  PROVE  /\ <<Call("init", id, 0)>> \in Seq(Calls) /\ Ordered(<<Call("init", id, 0)>>)
         /\ \A c \in ToSet(<<Call("init", id, 0)>>) : c.f = "init"
<1> DEFINE c == Call("init", id, 0)
<1>1. c \in Calls /\ c.f = "init"
  <2>1. "init" \in Functions
    BY DEF Functions, EnablingCalls
  <2> QED  BY <2>1, CallFacts
<1> HIDE DEF c
<1>2. <<c>> \in Seq(Calls) /\ Ordered(<<c>>) /\ \A x \in ToSet(<<c>>) : x.f = "init"
  BY <1>1, OneCall
<1> QED  BY <1>2 DEF c

LEMMA NextTickStep == ASSUME IInv, NextTick PROVE IInv'
<1>1. UNCHANGED <<deps, shim, inited, enabled, enabling, depCount, matched, events, emitted, complete, registry, reqCalls, runs, fetched, loading, traced, processed>>
  BY DEF NextTick, graph, flags, counts, emission, registered, cycle
<1>2. ticks # <<>> /\ Head(ticks) \in Id /\ ticks' \in Seq(-N..0)
  <2>1. ticks # <<>> /\ ticks' = Tail(ticks) /\ ticks \in Seq(-N..0)
    BY Unfolded DEF NextTick
  <2>2. Head(ticks) \in -N..0 /\ Tail(ticks) \in Seq(-N..0)
    BY <2>1, HeadTailProperties
  <2> QED  BY <2>1, <2>2, IdFacts
<1>3. PICK id \in Id : id = Head(ticks)
  BY <1>2
<1>4. PICK calls \in Seq(Calls) : Begin(calls) /\ Ordered(calls) /\ \A c \in ToSet(calls) : c.f = "init"
  <2>1. Begin(<<Call("init", id, 0)>>)
    BY <1>3 DEF NextTick
  <2> QED  BY <2>1, Starts
<1>5. /\ CallsOK' /\ Ordered(todo)' /\ EnablingOK' /\ CountOK' /\ MatchOK' /\ CycleOK'
      /\ EmitOK' /\ RunsOK' /\ todo' \in Seq(Calls)
  BY <1>1, <1>4, BeginKeeps
<1>6. Shapes'
  BY <1>1, <1>2, <1>5 DEF IInv, Shapes
<1> QED  BY <1>5, <1>6 DEF IInv

LEMMA CompleteLoadStep == ASSUME IInv, NEW m \in Modules, CompleteLoad(m) PROVE IInv'
<1>1. UNCHANGED <<deps, shim, inited, enabled, enabling, depCount, matched, events, emitted, complete, registry, reqCalls, runs, fetched, ticks, traced, processed>>
      /\ loading' \subseteq loading
  BY DEF CompleteLoad, graph, flags, counts, emission, registered, cycle
<1>2. PICK calls \in Seq(Calls) : Begin(calls) /\ Ordered(calls) /\ \A c \in ToSet(calls) : c.f = "init"
  <2>1. Begin(<<>>) \/ Begin(<<Call("init", m, 0)>>)
    BY DEF CompleteLoad
  <2>2. CASE Begin(<<>>)
    BY <2>2, NoCalls
  <2>3. CASE Begin(<<Call("init", m, 0)>>)
    BY <2>3, Starts, IdFacts
  <2> QED  BY <2>1, <2>2, <2>3
<1>3. /\ CallsOK' /\ Ordered(todo)' /\ EnablingOK' /\ CountOK' /\ MatchOK' /\ CycleOK'
      /\ EmitOK' /\ RunsOK' /\ todo' \in Seq(Calls)
  BY <1>1, <1>2, BeginKeeps
<1>4. Shapes'
  BY <1>1, <1>3 DEF IInv, Shapes
<1> QED  BY <1>3, <1>4 DEF IInv

LEMMA CheckLoadedTimeoutStep == ASSUME IInv, CheckLoadedTimeout PROVE IInv'
<1>1. UNCHANGED <<deps, shim, inited, enabled, enabling, depCount, matched, events, emitted, complete, registry, reqCalls, runs, fetched, loading, ticks, traced, processed>>
  BY DEF CheckLoadedTimeout, graph, flags, counts, emission, registered, browser, cycle
<1>2. PICK calls \in Seq(Calls) : Begin(calls) /\ Ordered(calls) /\ \A c \in ToSet(calls) : c.f = "init"
  BY NoCalls DEF CheckLoadedTimeout
<1>3. /\ CallsOK' /\ Ordered(todo)' /\ EnablingOK' /\ CountOK' /\ MatchOK' /\ CycleOK'
      /\ EmitOK' /\ RunsOK' /\ todo' \in Seq(Calls)
  BY <1>1, <1>2, BeginKeeps
<1>4. Shapes'
  BY <1>1, <1>3 DEF IInv, Shapes
<1> QED  BY <1>3, <1>4 DEF IInv

LEMMA StutterStep == ASSUME IInv, UNCHANGED vars PROVE IInv'
<1>1. /\ UNCHANGED <<deps, shim, inited, enabled, enabling, depCount, matched, events>>
      /\ UNCHANGED <<emitted, complete, registry, reqCalls, runs, fetched, loading, ticks>>
      /\ UNCHANGED <<traced, processed, todo>>
  BY DEF vars, graph, flags, counts, emission, registered, browser, cycle
<1>2. /\ Pending' = Pending
      /\ \A x : DepsOf(x)' = DepsOf(x)
  BY <1>1 DEF Pending, DepsOf
<1>3. /\ \A x : Due(x)' = Due(x)
      /\ \A x, k : (Asked(x, k)' <=> Asked(x, k)) /\ (Just(x, k)' <=> Just(x, k))
  BY <1>1, <1>2 DEF Due, Asked, Just
<1>4. CallsOK' /\ MatchOK' /\ CountOK'
  BY <1>1, <1>2, <1>3 DEF IInv, CallsOK, CallOK, MatchOK, CountOK
<1>5. Shapes' /\ Ordered(todo)' /\ EnablingOK'
  <2>1. Shapes'
    BY <1>1 DEF IInv, Shapes
  <2>2. Ordered(todo)'
    BY <1>1 DEF IInv, Ordered, Fits
  <2>3. EnablingOK'
    BY <1>1, <1>2 DEF IInv, EnablingOK
  <2> QED  BY <2>1, <2>2, <2>3
<1>6. CycleOK' /\ EmitOK'
  BY <1>1, <1>2 DEF IInv, CycleOK, EmitOK
<1>7. RunsOK'
  BY <1>1, SameRuns
<1> QED  BY <1>4, <1>5, <1>6, <1>7 DEF IInv

LEMMA StepInv == IInv /\ [Next]_vars => IInv'
<1> SUFFICES ASSUME IInv, [Next]_vars PROVE IInv'
  OBVIOUS
<1>1. CASE Step
  <2>1. PICK id, i : \/ InitModule(id) \/ Enable(id) \/ EnableDep(id, i) \/ EnableNew(id, i)
                     \/ EnableEnd(id)
                     \/ Notify(id, i) \/ Check(id) \/ Emit(id) \/ EmitEnd(id)
                     \/ CheckLoaded \/ BreakCycle(id) \/ Visit(id, i) \/ BreakEnd(id)
    BY <1>1 DEF Step
  <2>2. CASE InitModule(id) \/ Enable(id) \/ EnableDep(id, i) \/ EnableNew(id, i) \/ EnableEnd(id)
    BY <2>2, InitModuleStep, EnableStep, EnableDepStep, EnableNewStep, EnableEndStep
  <2>3. CASE Notify(id, i) \/ Check(id) \/ Emit(id) \/ EmitEnd(id)
    BY <2>3, NotifyStep, CheckStep, EmitStep, EmitEndStep
  <2>4. CASE CheckLoaded \/ BreakCycle(id) \/ Visit(id, i) \/ BreakEnd(id)
    BY <2>4, CheckLoadedStep, BreakCycleStep, VisitStep, BreakEndStep
  <2> QED  BY <2>1, <2>2, <2>3, <2>4
<1>2. CASE NextTick
  BY <1>2, NextTickStep
<1>3. CASE CheckLoadedTimeout
  BY <1>3, CheckLoadedTimeoutStep
<1>4. CASE \E m \in Modules : CompleteLoad(m)
  BY <1>4, CompleteLoadStep
<1>5. CASE UNCHANGED vars
  BY <1>5, StutterStep
<1> QED  BY <1>1, <1>2, <1>3, <1>4, <1>5 DEF Next

LEMMA Invariance == Spec => []IInv
  BY InitInv, StepInv, PTL DEF Spec

\* What the invariant says when no callback runs.
LEMMA InvType == IInv => TypeOK
<1> SUFFICES ASSUME IInv PROVE TypeOK
  OBVIOUS
<1>1. registry \subseteq Id /\ loading \subseteq Modules
  BY DEF IInv, Shapes
<1>2. ASSUME todo = <<>>
      PROVE  /\ enabling = {}
             /\ \A id \in Id : depCount[id] = Len(DepsOf(id)) - Cardinality(matched[id])
             /\ emitted = ToSet(runs) /\ complete = ToSet(runs)
  <2>1. Pending = {}
    BY <1>2 DEF Pending, ToSet
  <2>2. enabling = {}
    BY <2>1 DEF IInv, EnablingOK
  <2>3. ASSUME NEW id \in Id PROVE depCount[id] = Len(DepsOf(id)) - Cardinality(matched[id])
    <3>1. depCount[id] = Len(DepsOf(id)) - Cardinality(Due(id)) - Cardinality(matched[id])
      BY <2>1 DEF IInv, CountOK
    <3>2. Cardinality(Due(id)) = 0
      BY <2>1, FS_EmptySet DEF Due
    <3>3. Len(DepsOf(id)) \in Nat
      BY Unfolded, DepsFacts
    <3> QED  BY <3>1, <3>2, <3>3
  <2>4. emitted = ToSet(runs) /\ complete = ToSet(runs)
    BY <2>1 DEF IInv, EmitOK
  <2> QED  BY <2>2, <2>3, <2>4
<1> QED  BY <1>1, <1>2 DEF TypeOK

\* Between callbacks nothing is half done: no module is being enabled, every
\* dependency that is not matched is counted, and every defined module has told all
\* that waited for it (check, enable), for every number of modules.
THEOREM TypeCorrect == Spec => []TypeOK
  BY Invariance, InvType, PTL

\* For every number of modules, every graph of their dependencies and every order
\* the scripts arrive in, a factory is called at most once, and after its
\* dependencies except those that need the module itself (check, breakCycle).
THEOREM FactoriesAfterDeps == Spec => []FactoryAfterDeps
<1>1. IInv => FactoryAfterDeps
  BY DEF IInv, RunsOK
<1> QED  BY <1>1, Invariance, PTL

\* No script of the shim configuration is asked for before its dependencies are
\* defined (fetch), for every number of modules.
THEOREM ShimsWait == Spec => []ShimWaits
<1>1. IInv => ShimWaits
  BY DEF IInv, RunsOK
<1> QED  BY <1>1, Invariance, PTL
=============================================================================
