------------------------------- MODULE Tasks ---------------------------------
(***************************************************************************)
(* The task list of BackboneReact: a Backbone collection in the browser,   *)
(* the React view that is rendered again on its events, and the REST       *)
(* resource that keeps the tasks in a TreeMap.                             *)
(*                                                                         *)
(* The browser runs one handler at a time, so an event of the user or an   *)
(* answer is one action with every call and callback it makes.  Requests   *)
(* are asynchronous: the container's threads handle those in flight in any *)
(* order, and their answers come back in any order or not at all.  A task  *)
(* is named by the order of its creation (Backbone's cid); id 0 is null.   *)
(***************************************************************************)
EXTENDS Integers, SequencesExt

CONSTANTS MaxModels,  \* bound: the user adds no task when the client made so many
          MaxFlight,  \* bound on the requests in flight
          MaxId       \* bound on the ids the server gives

ASSUME TasksAssumption == MaxModels \in Nat \ {0} /\ MaxFlight \in Nat \ {0} /\ MaxId \in Nat

VARIABLES att,      \* the attributes of every model made, by cid
          list,     \* Collection.models
          byId,     \* the part of Collection._byId that is indexed by id
          shown,    \* what the page shows, and the task each row belongs to
          tareas,   \* TareasResourceImpl.tareas
          net,      \* the requests whose answer the client has not processed
          calm,     \* history: no requests about one task, and no creates, have overlapped
          collided  \* history: two tasks of the list have had the same id

client == <<att, list, byId, shown>>
vars == <<att, list, byId, shown, tareas, net, calm, collided>>

Attributes == [id : Nat, text : Nat, done : BOOLEAN]

Request(op, c, attrs) ==
  [op |-> op, task |-> c, body |-> attrs, at |-> "sent", tasks |-> <<>>]

NoBody == [id |-> 0, text |-> 0, done |-> FALSE]

Room(k) == Cardinality(DOMAIN net) + k <= MaxFlight

\* The map with v under k.
Put(map, k, v) == [x \in DOMAIN map \cup {k} |-> IF x = k THEN v ELSE map[x]]

Send(requests, r) == Put(requests, Min((1..MaxFlight) \ DOMAIN requests), r)

Without(requests, n) == Restrict(requests, DOMAIN requests \ {n})

\* A request about c, or the fetch, is still unanswered.
Overlaps(c) == \E n \in DOMAIN net : net[n].task \in {0, c}

\* main.js renders the empty list and fetches the tasks of an earlier visit.
Init == /\ att = <<>> /\ list = <<>> /\ byId = <<>> /\ shown = <<>>
        /\ tareas \in {<<>>} \cup {<<[id |-> 1, text |-> 0, done |-> d]>> : d \in BOOLEAN}
        /\ net = <<Request("GET", 0, NoBody)>>
        /\ calm = TRUE
        /\ collided = FALSE
------------------------------------------------------------------------------
Completed == {c \in ToSet(list) : att[c].done}

\* Mutant: a mounted row keeps the task it was mounted with.
RenderMounted(models, attrs) ==
  [i \in DOMAIN models |->
     [task |-> IF i \in DOMAIN shown THEN shown[i].task ELSE models[i],
      text |-> attrs[models[i]].text, done |-> attrs[models[i]].done]]

\* forceUpdate: the rows have no key, so row i gets the i-th task as its props.
Render(models, attrs) ==
  [i \in DOMAIN models |->
     [task |-> models[i], text |-> attrs[models[i]].text, done |-> attrs[models[i]].done]]

\* save: the body is serialized now; a task without an id is created.
SaveRequest(c, attrs) == Request(IF attrs.id = 0 THEN "POST" ELSE "PUT", c, attrs)

\* The return key: the task is added, shown and saved.
AddTask ==
  LET c == Len(att) + 1
      attrs == [id |-> 0, text |-> c, done |-> FALSE]
  IN /\ c <= MaxModels /\ Room(1)
     /\ att' = Append(att, attrs)
     /\ list' = Append(list, c)
     /\ shown' = Render(list', att')
     /\ net' = Send(net, SaveRequest(c, attrs))
     /\ calm' = (calm /\ ~ Overlaps(c))
     /\ UNCHANGED <<byId, tareas, collided>>

\* The change handler of row i.
Toggle(i) ==
  LET c == shown[i].task
  IN /\ Room(1)
     /\ att' = [att EXCEPT ![c].done = ~ @]
     /\ shown' = Render(list, att')
     /\ net' = Send(net, SaveRequest(c, att'[c]))
     /\ calm' = (calm /\ ~ Overlaps(c))
     /\ UNCHANGED <<list, byId, tareas, collided>>

IndexOf(models, c) == CHOOSE i \in DOMAIN models : models[i] = c

\* Collection.remove looks the model up, by id first, and removes what it finds.
RemoveModel(s, c) ==
  LET m == IF att[c].id \in DOMAIN s.byId THEN s.byId[att[c].id] ELSE c
  IN [s EXCEPT !.list = RemoveAt(@, IndexOf(@, m)), !.byId = Restrict(@, DOMAIN @ \ {att[m].id})]

\* Model.destroy: a task without an id is forgotten without a request.  Only the
\* models of the collection are listened to.
Destroy(s, c) ==
  LET requested == IF att[c].id = 0 THEN s
                   ELSE [s EXCEPT !.net = Send(@, Request("DELETE", c, att[c]))]
  IN IF c \in ToSet(s.list) THEN RemoveModel(requested, c) ELSE requested

\* removeCompletadas goes over the completed tasks of the list as it was.
Cleared ==
  FoldLeft(LAMBDA s, c : IF c \in Completed THEN Destroy(s, c) ELSE s,
           [list |-> list, byId |-> byId, net |-> net], list)

\* The click on "limpiar", which is enabled when a completed task is shown.
Clear ==
  /\ \E i \in DOMAIN shown : shown[i].done
  /\ Room(Cardinality(Completed))
  /\ list' = Cleared.list
  /\ byId' = Cleared.byId
  /\ net' = Cleared.net
  /\ shown' = Render(list', att)
  /\ calm' = (calm /\ \A c \in Completed : ~ Overlaps(c))
  /\ UNCHANGED <<att, tareas, collided>>
------------------------------------------------------------------------------
\* Mutant: the id is the number of tasks.
NumberOfTasks(map) == IF DOMAIN map = {} THEN 1 ELSE Cardinality(DOMAIN map)

\* Mutant: the last key itself.
LastKey(map) == IF DOMAIN map = {} THEN 0 ELSE Max(DOMAIN map)

NewId(map) == IF DOMAIN map = {} THEN 1 ELSE Max(DOMAIN map) + 1

Answered(n) == [net EXCEPT ![n].at = "answered"]

\* createTarea is not synchronized: the id is read first ...
CreateReadsId(n) ==
  /\ net[n].op = "POST" /\ net[n].at = "sent" /\ NewId(tareas) <= MaxId
  /\ net' = [net EXCEPT ![n].at = "creating", ![n].body.id = NewId(tareas)]
  /\ calm' = (calm /\ \A m \in DOMAIN net : net[m].at # "creating")
  /\ UNCHANGED <<client, tareas, collided>>

\* ... and the task is put under it when other requests may have been handled.
CreatePuts(n) ==
  LET tarea == net[n].body
  IN /\ net[n].at = "creating"
     /\ tareas' = Put(tareas, tarea.id, tarea)
     /\ net' = Answered(n)
     /\ UNCHANGED <<client, calm, collided>>

UpdateTarea(n) ==
  /\ net[n].op = "PUT" /\ net[n].at = "sent"
  /\ tareas' = Put(tareas, net[n].body.id, net[n].body)
  /\ net' = Answered(n)
  /\ UNCHANGED <<client, calm, collided>>

DeleteTarea(n) ==
  /\ net[n].op = "DELETE" /\ net[n].at = "sent"
  /\ tareas' = Restrict(tareas, DOMAIN tareas \ {net[n].body.id})
  /\ net' = Answered(n)
  /\ UNCHANGED <<client, calm, collided>>

ReadTareas(n) ==
  /\ net[n].op = "GET" /\ net[n].at = "sent"
  /\ net' = [Answered(n) EXCEPT ![n].tasks = tareas]
  /\ UNCHANGED <<client, tareas, calm, collided>>
------------------------------------------------------------------------------
\* Mutant: the change of an id leaves the index alone.
KeepIndex(c, old, new) == byId

\* _onModelEvent on change:id, for a model of the collection.
Reindexed(c, old, new) == Put(Restrict(byId, DOMAIN byId \ {old}), new, c)

\* The success callback of save: the attributes of the answer are set on the
\* model, in the collection or not, without a look at what they are now.
SaveAnswer(n) ==
  LET c == net[n].task
      attrs == net[n].body
  IN /\ net[n].op \in {"POST", "PUT"} /\ net[n].at = "answered"
     /\ att' = [att EXCEPT ![c] = attrs]
     /\ byId' = IF c \in ToSet(list) /\ attrs.id # att[c].id
                THEN Reindexed(c, att[c].id, attrs.id) ELSE byId
     /\ shown' = Render(list, att')
     /\ net' = Without(net, n)
     /\ collided' = (collided \/ \E other \in ToSet(list) \ {c} :
                                  c \in ToSet(list) /\ att[other].id = attrs.id)
     /\ UNCHANGED <<list, tareas, calm>>

DeleteAnswer(n) ==
  /\ net[n].op = "DELETE" /\ net[n].at = "answered"
  /\ net' = Without(net, n)
  /\ UNCHANGED <<client, tareas, calm, collided>>

\* The callback of fetch resets the collection: new models in the order of the
\* map, which is that of the ids, none of the old ones, and one event.
FetchAnswer(n) ==
  LET ids == DOMAIN net[n].tasks
      cid(i) == Len(att) + i
  IN /\ net[n].op = "GET" /\ net[n].at = "answered"
     /\ \E order \in Bijection(1..Cardinality(ids), ids) :
          /\ \A i, j \in DOMAIN order : i < j => order[i] < order[j]
          /\ att' = att \o [i \in DOMAIN order |-> net[n].tasks[order[i]]]
          /\ list' = [i \in DOMAIN order |-> cid(i)]
          /\ byId' = [id \in ids |-> cid(CHOOSE i \in DOMAIN order : order[i] = id)]
     /\ shown' = Render(list', att')
     /\ net' = Without(net, n)
     /\ UNCHANGED <<tareas, calm, collided>>

\* A request or its answer is lost.  wrapError only triggers "error", which
\* nobody listens to.  Bound: only the first thing that goes wrong is a failure.
Fail(n) ==
  /\ calm
  /\ net[n].at # "creating"
  /\ net' = Without(net, n)
  /\ calm' = FALSE
  /\ UNCHANGED <<client, tareas, collided>>

Handle(n) == \/ CreateReadsId(n) \/ CreatePuts(n) \/ UpdateTarea(n)
             \/ DeleteTarea(n) \/ ReadTareas(n)

Callback(n) == SaveAnswer(n) \/ DeleteAnswer(n) \/ FetchAnswer(n)

Next == \/ AddTask
        \/ Clear
        \/ \E i \in DOMAIN shown : Toggle(i)
        \/ \E n \in DOMAIN net : Handle(n) \/ Callback(n) \/ Fail(n)

Spec == Init /\ [][Next]_vars
------------------------------------------------------------------------------
\* The list names models, the index names tasks of the list, and every id that
\* the server stores or answers is one it can have given (TreeMap, createTarea).
TypeOK ==
  /\ \A c \in DOMAIN att : att[c] \in Attributes
  /\ list \in Seq(DOMAIN att) /\ IsInjective(list)
  /\ DOMAIN byId \subseteq Nat /\ \A id \in DOMAIN byId : byId[id] \in ToSet(list)
  /\ \A i \in DOMAIN shown : shown[i].task \in DOMAIN att
  /\ \A id \in DOMAIN tareas : id > 0 /\ tareas[id] \in Attributes /\ tareas[id].id = id
  /\ DOMAIN net \subseteq 1..MaxFlight
  /\ \A n \in DOMAIN net : net[n].task \in 0..Len(att) /\ net[n].body \in Attributes

\* Whatever order events and answers come in, every row shows the task it will
\* toggle and clear, with its present state (BackboneMixin, change handler).
ViewIsCurrent ==
  /\ Len(shown) = Len(list)
  /\ \A i \in DOMAIN shown : /\ shown[i].task = list[i]
                             /\ shown[i].done = att[list[i]].done
                             /\ shown[i].text = att[list[i]].text

\* An entry of _byId is a task of the list with that id, through changes of ids,
\* repeated creates and resets; and every task of the list that has an id is found
\* by it, until the server gives two of them the same id (_onModelEvent, remove).
IndexedById ==
  /\ \A id \in DOMAIN byId : byId[id] \in ToSet(list) /\ att[byId[id]].id = id
  /\ ~ collided => \A c \in ToSet(list) : att[c].id > 0 =>
                     att[c].id \in DOMAIN byId /\ byId[att[c].id] = c

\* Requests about different tasks may be handled and answered in any order: when
\* no request met another about its own task, no create met a create in the server,
\* none failed and all are answered, the list and the server hold the same tasks
\* (save, destroy, createTarea).
Agreement ==
  calm /\ net = <<>> => {att[c] : c \in ToSet(list)} = {tareas[id] : id \in DOMAIN tareas}

\* What tareas-specs.js:72 expects of removeCompletadas: no completed task is
\* left in the list.
ClearLeavesNone == [][Clear => \A c \in ToSet(list') : ~ att'[c].done]_vars
==============================================================================
