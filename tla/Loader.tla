------------------------------- MODULE Loader --------------------------------
(***************************************************************************)
(* The module loader the pages of BackboneReact start with, RequireJS: a   *)
(* page requires modules, their scripts are fetched all at once and arrive *)
(* in any order, and a module is defined when its dependencies are.        *)
(*                                                                         *)
(* The browser runs one callback at a time: a setTimeout, or a script with *)
(* its load event.  The functions a callback calls, which call each other  *)
(* and themselves, are one action each.  todo holds the calls that are     *)
(* still to be made, the next one first; a call puts the calls it makes in *)
(* its place, and no callback starts before all of them are made.          *)
(*                                                                         *)
(* A script defines one module, its own.  A script of the shim             *)
(* configuration (backbone, underscore) defines nothing; its dependencies  *)
(* are required before it is fetched.  Plugins, the special dependencies   *)
(* "require", "exports" and "module", load errors and the time limit are   *)
(* left out.  The loader is read in r.js, where it is not minified.        *)
(***************************************************************************)
EXTENDS Integers, SequencesExt

CONSTANT N   \* the number of modules

ASSUME LoaderAssumption == N \in Nat \ {0}

Modules == 1..N

\* Main is the require call of the page; -m requires the shim's deps of m.
Main == 0
Id == -N..N

IsDefine(id) == id > 0

VARIABLES deps,       \* the dependencies of every module and of the page, in order
          shim,       \* the modules of the shim configuration
          inited,     \* the flags of Module, as the ids that have them set
          enabled,
          enabling,
          fetched,
          emitted,    \* defineEmitted
          complete,   \* defineEmitComplete
          depCount,
          matched,    \* depMatched, as the places in deps that are matched
          events,     \* the callbacks on "defined": who waits, and for which place
          registry,
          enabledRegistry,
          reqCalls,   \* the require calls of enabledRegistry, in their order there
          runs,       \* the ids in the order their factories were called: defined
          loading,    \* the scripts on their way
          ticks,      \* the require calls whose callback is due at a tick
          timer,      \* checkLoadedTimeoutId
          traced,     \* the sets breakCycle passes on
          processed,
          todo        \* the calls still to be made in the callback that runs

graph == <<deps, shim>>
flags == <<inited, enabled, enabling>>
counts == <<depCount, matched>>
emission == <<events, emitted, complete>>
registered == <<registry, enabledRegistry, reqCalls>>
browser == <<fetched, loading, ticks>>
cycle == <<traced, processed>>

vars == <<graph, flags, counts, emission, registered, runs, browser, timer, cycle, todo>>

\* What S leads to: the members of every set that is closed under edges.
Reach(edges, S) ==
  LET closed == {T \in SUBSET (0..N) : S \subseteq T /\ \A m \in T : ToSet(edges[m]) \subseteq T}
  IN {m \in 0..N : \A T \in closed : m \in T}

\* m needs itself, through one dependency or more.
OnCycle(edges, m) == m \in Reach(edges, ToSet(edges[m]))

\* Every graph of dependencies, in every order, and every set of shimmed scripts.
\* The require call of the page waits for its tick.
Init ==
  /\ deps \in [0..N -> {s \in BoundedSeq(Modules, N) : IsInjective(s)}]
  /\ deps[Main] # <<>> /\ \A m \in Modules : m \notin ToSet(deps[m])
  /\ shim \in SUBSET Modules
  /\ inited = {} /\ enabled = {} /\ enabling = {} /\ fetched = {}
  /\ emitted = {} /\ complete = {}
  /\ depCount = [id \in Id |-> 0]
  /\ matched = [id \in Id |-> {}]
  /\ events = [id \in Id |-> <<>>]
  /\ registry = {} /\ enabledRegistry = {} /\ reqCalls = <<>> /\ runs = <<>>
  /\ loading = {} /\ ticks = <<Main>> /\ timer = FALSE
  /\ traced = {} /\ processed = {}
  /\ todo = <<>>
------------------------------------------------------------------------------
\* A call of function f of module id, for its dependency in place i.
Call(f, id, i) == [f |-> f, id |-> id, i |-> i]

\* The call of f for the dependency in each of the first n places.
ForEach(f, id, n) == [i \in 1..n |-> Call(f, id, i)]

\* It is the turn of a call of f.
Turn(f, id, i) == todo # <<>> /\ Head(todo) = Call(f, id, i)

\* The call that is made makes these calls.
Do(calls) == todo' = calls \o Tail(todo)

\* Before its init a module has no dependencies.
DepsOf(id) == IF id \in inited THEN deps[IF id < 0 THEN -id ELSE id] ELSE <<>>

\* init, of a module that is enabled already or enabled by its options.
InitModule(id) ==
  /\ Turn("init", id, 0)
  /\ inited' = inited \cup {id}
  /\ registry' = registry \cup {id}
  /\ Do(IF id \in inited THEN <<>> ELSE <<Call("enable", id, 0)>>)
  /\ UNCHANGED <<graph, enabled, enabling, counts, emission, enabledRegistry, reqCalls, runs, browser, timer, cycle>>

Enlist(id) ==
  /\ enabledRegistry' = enabledRegistry \cup {id}
  /\ reqCalls' = IF IsDefine(id) \/ id \in enabledRegistry THEN reqCalls ELSE Append(reqCalls, id)

\* Mutant: enabling is not flagged.
EnableUnflagged(id) ==
  /\ Turn("enable", id, 0)
  /\ enabled' = enabled \cup {id}
  /\ Enlist(id)
  /\ Do(ForEach("enableDep", id, Len(DepsOf(id))) \o <<Call("enableEnd", id, 0)>>)
  /\ UNCHANGED <<graph, inited, enabling, counts, emission, registry, runs, browser, timer, cycle>>

\* enable: the flag keeps the module from being defined before all of its
\* dependencies have been counted.
Enable(id) ==
  /\ Turn("enable", id, 0)
  /\ enabled' = enabled \cup {id}
  /\ enabling' = enabling \cup {id}
  /\ Enlist(id)
  /\ Do(ForEach("enableDep", id, Len(DepsOf(id))) \o <<Call("enableEnd", id, 0)>>)
  /\ UNCHANGED <<graph, inited, counts, emission, registry, runs, browser, timer, cycle>>

Announced(d) == d \in ToSet(runs) /\ (d \notin registry \/ d \in complete)

\* on(depMap, "defined"): called back now when the dependency is defined.
EnableDep(id, i) ==
  /\ Turn("enableDep", id, i)
  /\ depCount' = [depCount EXCEPT ![id] = @ + 1]
  /\ LET d == DepsOf(id)[i]
     IN \/ /\ Announced(d)
           /\ Do(<<Call("notify", id, i), Call("enableNew", id, i)>>)
           /\ UNCHANGED <<events, registry>>
        \/ /\ ~ Announced(d)
           /\ events' = [events EXCEPT ![d] = Append(@, <<id, i>>)]
           /\ registry' = registry \cup {d}
           /\ Do(<<Call("enableNew", id, i)>>)
  /\ UNCHANGED <<graph, flags, matched, emitted, complete, enabledRegistry, reqCalls,
                 runs, browser, timer, cycle>>

\* The dependency is enabled, with its own, unless it was before.
EnableNew(id, i) ==
  /\ Turn("enableNew", id, i)
  /\ LET d == DepsOf(id)[i]
     IN Do(IF d \in registry /\ d \notin enabled THEN <<Call("enable", d, 0)>> ELSE <<>>)
  /\ UNCHANGED <<graph, flags, counts, emission, registered, runs, browser, timer, cycle>>

EnableEnd(id) ==
  /\ Turn("enableEnd", id, 0)
  /\ enabling' = enabling \ {id}
  /\ Do(<<Call("check", id, 0)>>)
  /\ UNCHANGED <<graph, inited, enabled, counts, emission, registered, runs, browser, timer, cycle>>
------------------------------------------------------------------------------
\* Mutant: a match is counted again when its callback is called again.
DefineDepAgain(id, i) == /\ matched' = [matched EXCEPT ![id] = @ \cup {i}]
                         /\ depCount' = [depCount EXCEPT ![id] = @ - 1]

DefineDep(id, i) == IF i \in matched[id] THEN UNCHANGED counts
                    ELSE /\ matched' = [matched EXCEPT ![id] = @ \cup {i}]
                         /\ depCount' = [depCount EXCEPT ![id] = @ - 1]

\* The "defined" callback that enable registers, and what breakCycle does instead.
Notify(id, i) ==
  /\ Turn("notify", id, i)
  /\ DefineDep(id, i)
  /\ Do(<<Call("check", id, 0)>>)
  /\ UNCHANGED <<graph, flags, emission, registered, runs, browser, timer, cycle>>

\* context.load appends the script, which is then on its way.
Load(m) == loading' = loading \cup {m}

\* Mutant: the shim's dependencies are not waited for.
FetchAtOnce(m) == /\ fetched' = fetched \cup {m}
                  /\ IF m \in fetched THEN UNCHANGED loading ELSE Load(m)
                  /\ UNCHANGED ticks

\* fetch: a shimmed module requires its dependencies first, at the next tick.
Fetch(m) ==
  /\ fetched' = fetched \cup {m}
  /\ IF m \in shim \/ m \in fetched THEN UNCHANGED loading ELSE Load(m)
  /\ ticks' = IF m \in shim \ fetched THEN Append(ticks, -m) ELSE ticks

Ready(id) == depCount[id] < 1 /\ id \notin ToSet(runs)

\* The factory is called with the exports there are; the callback of a shim's
\* require call loads the script.  cleanRegistry follows.
Run(id) ==
  /\ runs' = Append(runs, id)
  /\ IF id < 0 THEN Load(-id) ELSE UNCHANGED loading
  /\ registry' = registry \ {id}
  /\ enabledRegistry' = enabledRegistry \ {id}
  /\ reqCalls' = IF id \in ToSet(reqCalls)
                 THEN RemoveAt(reqCalls, CHOOSE i \in DOMAIN reqCalls : reqCalls[i] = id)
                 ELSE reqCalls

\* check: fetch the module, or define it when its dependencies are, and tell.
Check(id) ==
  /\ Turn("check", id, 0)
  /\ \/ /\ id \notin enabled \/ id \in enabling
        /\ Do(<<>>)
        /\ UNCHANGED <<runs, registered, browser>>
     \/ /\ id \in enabled \ enabling /\ id \notin inited
        /\ Fetch(id)
        /\ Do(<<>>)
        /\ UNCHANGED <<runs, registered>>
     \/ /\ id \in (enabled \ enabling) \cap inited
        /\ IF Ready(id) THEN Run(id) ELSE UNCHANGED <<runs, registered, loading>>
        /\ Do(IF id \in ToSet(runs') \ emitted THEN <<Call("emit", id, 0)>> ELSE <<>>)
        /\ UNCHANGED <<fetched, ticks>>
  /\ UNCHANGED <<graph, flags, counts, emission, timer, cycle>>

\* The end of check, for a module that is defined: its callbacks are called.
Emit(id) ==
  /\ Turn("emit", id, 0)
  /\ emitted' = emitted \cup {id}
  /\ Do([k \in DOMAIN events[id] |-> Call("notify", events[id][k][1], events[id][k][2])]
          \o <<Call("emitEnd", id, 0)>>)
  /\ UNCHANGED <<graph, flags, counts, events, complete, registered, runs, browser, timer, cycle>>

EmitEnd(id) ==
  /\ Turn("emitEnd", id, 0)
  /\ complete' = complete \cup {id}
  /\ Do(<<>>)
  /\ UNCHANGED <<graph, flags, counts, events, emitted, registered, runs, browser, timer, cycle>>
------------------------------------------------------------------------------
StillLoading ==
  \E m \in enabledRegistry : IsDefine(m) /\ m \in fetched \ inited

\* checkLoaded: cycles are broken from every require call when no script is
\* missing; else the check comes again after 50 ms.
CheckLoaded ==
  /\ Turn("checkLoaded", Main, 0)
  /\ \/ StillLoading /\ timer' = TRUE /\ Do(<<>>)
     \/ /\ ~ StillLoading
        /\ Do([k \in DOMAIN reqCalls |-> Call("breakCycle", reqCalls[k], 0)])
        /\ UNCHANGED timer
  /\ UNCHANGED <<graph, flags, counts, emission, registered, runs, browser, cycle>>

BreakCycle(id) ==
  /\ Turn("breakCycle", id, 0)
  /\ traced' = traced \cup {id}
  /\ Do(ForEach("visit", id, Len(DepsOf(id))) \o <<Call("breakEnd", id, 0)>>)
  /\ UNCHANGED <<graph, flags, counts, emission, registered, runs, browser, timer, processed>>

\* Mutant: the dependency that closes the cycle is left alone.
CloseCycleNever(id, i) == <<>>

CloseCycle(id, i) == <<Call("notify", id, i)>>

\* breakCycle: an unmatched dependency that is an ancestor counts as defined.
Visit(id, i) ==
  /\ Turn("visit", id, i)
  /\ LET d == DepsOf(id)[i]
     IN Do(IF d \notin registry \/ i \in matched[id] \/ d \in processed THEN <<>>
           ELSE IF d \in traced THEN CloseCycle(id, i) ELSE <<Call("breakCycle", d, 0)>>)
  /\ UNCHANGED <<graph, flags, counts, emission, registered, runs, browser, timer, cycle>>

\* The sets are those of one require call, and end with it.
BreakEnd(id) ==
  /\ Turn("breakEnd", id, 0)
  /\ processed' = IF IsDefine(id) THEN processed \cup {id} ELSE {}
  /\ traced' = IF IsDefine(id) THEN traced ELSE {}
  /\ Do(<<>>)
  /\ UNCHANGED <<graph, flags, counts, emission, registered, runs, browser, timer>>
------------------------------------------------------------------------------
\* A callback starts.
Begin(calls) == todo = <<>> /\ todo' = calls \o <<Call("checkLoaded", Main, 0)>>

\* The callback of context.nextTick: a require call is made a module.
NextTick ==
  /\ ticks # <<>>
  /\ Begin(<<Call("init", Head(ticks), 0)>>)
  /\ ticks' = Tail(ticks)
  /\ UNCHANGED <<graph, flags, counts, emission, registered, runs, fetched, loading, timer, cycle>>

\* A script runs, its define call is queued, and its load event is handled.
CompleteLoad(m) ==
  /\ m \in loading
  /\ Begin(IF m \in ToSet(runs) THEN <<>> ELSE <<Call("init", m, 0)>>)
  /\ loading' = loading \ {m}
  /\ UNCHANGED <<graph, flags, counts, emission, registered, runs, fetched, ticks, timer, cycle>>

CheckLoadedTimeout ==
  /\ timer
  /\ Begin(<<>>)
  /\ timer' = FALSE
  /\ UNCHANGED <<graph, flags, counts, emission, registered, runs, browser, cycle>>

\* The next call of the callback that runs.
Step ==
  /\ todo # <<>>
  /\ LET id == Head(todo).id
         i == Head(todo).i
     IN \/ InitModule(id) \/ Enable(id) \/ EnableDep(id, i) \/ EnableNew(id, i)
        \/ EnableEnd(id)
        \/ Notify(id, i) \/ Check(id) \/ Emit(id) \/ EmitEnd(id)
        \/ CheckLoaded \/ BreakCycle(id) \/ Visit(id, i) \/ BreakEnd(id)

Next == Step \/ NextTick \/ CheckLoadedTimeout \/ \E m \in Modules : CompleteLoad(m)

\* A callback runs to its end, and the browser delivers every script and calls the
\* callback of every tick, though others may come first.  Nothing is asked of the
\* check after 50 ms.
Fairness == /\ WF_vars(Step)
            /\ SF_vars(NextTick)
            /\ \A m \in Modules : SF_vars(CompleteLoad(m))

Spec == Init /\ [][Next]_vars /\ Fairness
------------------------------------------------------------------------------
\* At the end of a callback no module is half way (enabling, defineEmitted), and
\* depCount is the number of the dependencies that are not matched, through all
\* the nested calls.
TypeOK ==
  /\ registry \subseteq Id /\ loading \subseteq Modules
  /\ todo = <<>> =>
       /\ enabling = {}
       /\ \A id \in Id : depCount[id] = Len(DepsOf(id)) - Cardinality(matched[id])
       /\ emitted = ToSet(runs) /\ complete = ToSet(runs)

\* A factory is called at most once, whatever scripts arrive first and however
\* often a cycle notifies it, and after all its dependencies except those that
\* need the module itself (check, breakCycle).
FactoryAfterDeps ==
  /\ IsInjective(runs)
  /\ \A i \in DOMAIN runs : \A d \in ToSet(DepsOf(runs[i])) :
       (\E j \in 1..(i - 1) : runs[j] = d) \/ runs[i] \in Reach(deps, {d})

\* A shimmed script is not asked for before its dependencies are defined: it runs
\* as soon as it arrives and finds them as globals (fetch, the shim of main.js).
ShimWaits ==
  \A m \in shim \cap loading : ToSet(deps[m]) \subseteq ToSet(runs)

\* While a shimmed script waits for its dependencies, checkLoaded takes it for one
\* that is still loading and breaks no cycle: not one among these dependencies.
ShimNeedsCycle ==
  \E m \in shim : \E d \in Reach(deps, ToSet(deps[m])) : OnCycle(deps, d)

\* Every module that the page needs is defined in the end, and the callback of its
\* require call is called, with cycles and without, unless a shimmed script needs
\* a cycle: no module waits for ever for one that waits for it (checkLoaded,
\* breakCycle).
AllDefined ==
  ~ ShimNeedsCycle => <>(ToSet(runs) \ (-N..-1) = Reach(deps, {Main}))
==============================================================================
