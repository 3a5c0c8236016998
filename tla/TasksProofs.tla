----------------------------- MODULE TasksProofs -----------------------------
(***************************************************************************)
(* Proofs about Tasks, for any bounds on models, requests and ids.         *)
(*                                                                         *)
(* IInv holds whatever the network does: the page and the index follow     *)
(* from the list and the attributes, and the requests and the map name     *)
(* ids that the server can have given.  Calm holds in addition while       *)
(* every task has at most one request and no two creates meet in the       *)
(* server: a task and an id belong to each other from the answer of its    *)
(* create in the server to the handling of its delete there.               *)
(***************************************************************************)
EXTENDS Tasks, FiniteSetTheorems, SequenceTheorems, WellFoundedInduction, TLAPS

------------------------------------------------------------------------------
(* The inductive invariant: what holds whatever the network does.          *)

Ids == Nat \ {0}

\* What the server may hold: tasks under their own ids.
IsMap(m) == /\ m = [id \in DOMAIN m |-> m[id]] /\ IsFiniteSet(DOMAIN m)
            /\ \A id \in DOMAIN m : id \in Ids /\ m[id] \in Attributes /\ m[id].id = id

\* A request while the client has made k models.
RequestOK(r, k) ==
  /\ r = [op |-> r.op, task |-> r.task, body |-> r.body, at |-> r.at, tasks |-> r.tasks]
  /\ r.body \in Attributes
  /\ \/ /\ r.op = "GET" /\ r.task = 0 /\ r.at \in {"sent", "answered"}
        /\ r.at = "answered" => IsMap(r.tasks)
     \/ /\ r.op = "POST" /\ r.task \in 1..k /\ r.at \in {"sent", "creating", "answered"}
        /\ r.at # "sent" => r.body.id > 0
     \/ /\ r.op \in {"PUT", "DELETE"} /\ r.task \in 1..k /\ r.at \in {"sent", "answered"}
        /\ r.body.id > 0

NetOK(requests, k) == /\ DOMAIN requests \subseteq 1..MaxFlight
                      /\ \A n \in DOMAIN requests : RequestOK(requests[n], k)

\* A list of models, the index and the page for models with attributes a.
ListOK(models, a) == /\ models \in Seq(Nat) /\ IsInjective(models)
                     /\ \A c \in ToSet(models) : c \in 1..Len(a)

IndexOK(index, models, a, clash) ==
  /\ DOMAIN index \subseteq Ids
  /\ \A id \in DOMAIN index : index[id] \in ToSet(models) /\ a[index[id]].id = id
  /\ ~ clash => \A c \in ToSet(models) : a[c].id > 0 =>
                  a[c].id \in DOMAIN index /\ index[a[c].id] = c

PageOK(page, models, a) ==
  /\ DOMAIN page = DOMAIN models
  /\ \A i \in DOMAIN models :
       page[i] = [task |-> models[i], text |-> a[models[i]].text, done |-> a[models[i]].done]

IInv == /\ att \in Seq(Attributes) /\ ListOK(list, att)
        /\ IndexOK(byId, list, att, collided) /\ PageOK(shown, list, att)
        /\ IsMap(tareas) /\ NetOK(net, Len(att))
------------------------------------------------------------------------------
(* The operators the model is built from.                                  *)

LEMMA LeastNatural ==
  ASSUME NEW T, T \subseteq Nat, T # {}
  PROVE  Min(T) \in T /\ \A k \in T : Min(T) <= k
<1>1. PICK n \in T : \A k \in T : <<k, n>> \notin OpToRel(<, Nat)
  BY NatLessThanWellFounded, WFMin
<1>2. \A k \in T : ~ (k < n)
  BY <1>1 DEF OpToRel
<1>3. \E m \in T : \A k \in T : m <= k
  BY <1>2
<1> QED  BY <1>3 DEF Min

\* Induction over the natural numbers, the statement as a set.
LEMMA Induction ==
  ASSUME NEW T, 0 \in T, \A k \in Nat : k \in T => k + 1 \in T
  PROVE  Nat \subseteq T
<1> DEFINE Bad == {k \in Nat : k \notin T}
<1> SUFFICES ASSUME Bad # {} PROVE FALSE
  OBVIOUS
<1>1. PICK n \in Bad : \A k \in Bad : n <= k
  <2> HIDE DEF Bad
  <2>1. Bad \subseteq Nat
    BY DEF Bad
  <2> QED  BY <2>1, LeastNatural
<1>2. n # 0 /\ n - 1 \in Nat /\ n - 1 \notin Bad
  BY <1>1
<1>3. (n - 1) + 1 \in T
  BY <1>2
<1> QED  BY <1>1, <1>3

\* Induction over the subsets of a finite set, the statement as a set.
LEMMA SubsetInduction ==
  ASSUME NEW S, IsFiniteSet(S), NEW T,
         \A U \in SUBSET S : (\A x \in U : U \ {x} \in T) => U \in T
  PROVE  \A U \in SUBSET S : U \in T
<1> DEFINE Bad == {U \in SUBSET S : U \notin T}
<1> SUFFICES ASSUME Bad # {} PROVE FALSE
  OBVIOUS
<1>1. IsWellFoundedOn(StrictSubsetOrdering(S), SUBSET S)
  <2>1. FiniteSubsetsOf(S) = SUBSET S
    BY FS_FiniteSubsetsOfFinite
  <2>2. IsWellFoundedOn(StrictSubsetOrdering(S), FiniteSubsetsOf(S))
    BY FS_StrictSubsetOrderingWellFounded
  <2> QED  BY <2>1, <2>2
<1>2. PICK U \in Bad : \A V \in Bad : <<V, U>> \notin StrictSubsetOrdering(S)
  <2>1. Bad \subseteq SUBSET S
    OBVIOUS
  <2> HIDE DEF Bad
  <2> QED  BY <1>1, <2>1, WFMin
<1>3. ASSUME NEW x \in U PROVE U \ {x} \in T
  <2>1. <<U \ {x}, U>> \in StrictSubsetOrdering(S)
    BY DEF StrictSubsetOrdering
  <2> QED  BY <1>2, <2>1
<1> QED  BY <1>3

LEMMA GreatestNatural ==
  ASSUME NEW S, S \subseteq Nat, IsFiniteSet(S), S # {}
  PROVE  Max(S) \in S /\ \A k \in S : Max(S) >= k
<1> DEFINE T == {U \in SUBSET S : U # {} => \E m \in U : \A i \in U : m >= i}
<1>1. \A U \in SUBSET S : (\A x \in U : U \ {x} \in T) => U \in T
  <2> SUFFICES ASSUME NEW U \in SUBSET S, \A x \in U : U \ {x} \in T, U # {}
               PROVE  \E m \in U : \A i \in U : m >= i
    OBVIOUS
  <2>1. PICK x \in U : TRUE
    OBVIOUS
  <2>2. CASE U \ {x} = {}
    BY <2>1, <2>2
  <2>3. CASE U \ {x} # {}
    <3>1. PICK m \in U \ {x} : \A i \in U \ {x} : m >= i
      BY <2>1, <2>3
    <3> QED  BY <2>1, <3>1
  <2> QED  BY <2>2, <2>3
<1>2. \A U \in SUBSET S : U \in T
  <2> HIDE DEF T
  <2> QED  BY <1>1, SubsetInduction
<1>3. \E m \in S : \A i \in S : m >= i
  BY <1>2
<1> QED  BY <1>3 DEF Max

LEMMA NewIdIsFresh ==
  ASSUME NEW m, IsMap(m)
  PROVE  NewId(m) \in Ids /\ NewId(m) \notin DOMAIN m
<1>1. CASE DOMAIN m = {}
  BY <1>1 DEF NewId, Ids
<1>2. CASE DOMAIN m # {}
  <2>1. DOMAIN m \subseteq Nat /\ IsFiniteSet(DOMAIN m)
    BY DEF IsMap, Ids
  <2>2. Max(DOMAIN m) \in DOMAIN m /\ \A k \in DOMAIN m : Max(DOMAIN m) >= k
    BY <1>2, <2>1, GreatestNatural
  <2> QED  BY <1>2, <2>1, <2>2 DEF NewId, Ids
<1> QED  BY <1>1, <1>2

\* A request that fits goes into a free place.
LEMMA SendIntoFree ==
  ASSUME NEW requests, DOMAIN requests \subseteq 1..MaxFlight,
         Cardinality(DOMAIN requests) < MaxFlight, NEW r
  PROVE  \E n \in (1..MaxFlight) \ DOMAIN requests :
           /\ Send(requests, r) = Put(requests, n, r)
           /\ Cardinality(DOMAIN requests \cup {n}) = Cardinality(DOMAIN requests) + 1
<1> DEFINE Free == (1..MaxFlight) \ DOMAIN requests
           n == Min(Free)
<1>1. MaxFlight \in Nat /\ IsFiniteSet(1..MaxFlight) /\ Cardinality(1..MaxFlight) = MaxFlight
  BY TasksAssumption, FS_Interval
<1>2. IsFiniteSet(DOMAIN requests)
  BY <1>1, FS_Subset
<1>3. Free # {}
  <2> SUFFICES ASSUME DOMAIN requests = 1..MaxFlight PROVE FALSE
    OBVIOUS
  <2> QED  BY <1>1
<1>4. n \in Free
  BY <1>3, LeastNatural
<1>5. Send(requests, r) = Put(requests, n, r)
  BY DEF Send
<1> HIDE DEF n
<1>6. Cardinality(DOMAIN requests \cup {n}) = Cardinality(DOMAIN requests) + 1
  BY <1>2, <1>4, FS_AddElement
<1> QED  BY <1>4, <1>5, <1>6

\* Splicing a list without repetitions takes one element out of it.
LEMMA RemovedAt ==
  ASSUME NEW s \in Seq(Nat), IsInjective(s), NEW i \in DOMAIN s
  PROVE  /\ RemoveAt(s, i) \in Seq(Nat) /\ IsInjective(RemoveAt(s, i))
         /\ ToSet(RemoveAt(s, i)) = ToSet(s) \ {s[i]}
<1> DEFINE n == Len(s)
           r == RemoveAt(s, i)
<1>1. n \in Nat /\ DOMAIN s = 1..n /\ i \in 1..n /\ \A j \in 1..n : s[j] \in Nat
  BY LenProperties
<1>2. /\ SubSeq(s, 1, i - 1) \in Seq(Nat) /\ Len(SubSeq(s, 1, i - 1)) = i - 1
      /\ \A j \in 1..(i - 1) : SubSeq(s, 1, i - 1)[j] = s[j]
  BY <1>1, SubSeqProperties
<1>3. /\ SubSeq(s, i + 1, n) \in Seq(Nat) /\ Len(SubSeq(s, i + 1, n)) = n - i
      /\ \A j \in 1..(n - i) : SubSeq(s, i + 1, n)[j] = s[i + j]
  <2>1. i + 1 \in Int /\ n \in Int /\ \A j \in (i + 1)..n : s[j] \in Nat
    BY <1>1
  <2>2. /\ SubSeq(s, i + 1, n) \in Seq(Nat)
        /\ Len(SubSeq(s, i + 1, n)) = IF i + 1 <= n THEN n - (i + 1) + 1 ELSE 0
        /\ \A j \in 1..(n - (i + 1) + 1) : SubSeq(s, i + 1, n)[j] = s[(i + 1) + j - 1]
    BY <2>1, SubSeqProperties
  <2>3. /\ n - (i + 1) + 1 = n - i
        /\ \A j \in 1..(n - i) : (i + 1) + j - 1 = i + j
        /\ i + 1 <= n \/ n - i = 0
    BY <1>1
  <2> HIDE DEF n
  <2> QED  BY <2>2, <2>3
<1>4. /\ r \in Seq(Nat) /\ Len(r) = n - 1
      /\ \A j \in 1..(n - 1) : r[j] = IF j < i THEN s[j] ELSE s[j + 1]
  <2> DEFINE t == SubSeq(s, 1, i - 1)
             u == SubSeq(s, i + 1, n)
  <2>1. r = t \o u
    BY DEF RemoveAt
  <2>2. t \in Seq(Nat) /\ u \in Seq(Nat) /\ Len(t) = i - 1 /\ Len(u) = n - i
    BY <1>2, <1>3
  <2> HIDE DEF t, u
  <2>3. /\ t \o u \in Seq(Nat) /\ Len(t \o u) = Len(t) + Len(u)
        /\ \A j \in 1..(Len(t) + Len(u)) : (t \o u)[j] = IF j <= Len(t) THEN t[j] ELSE u[j - Len(t)]
    BY <2>2, ConcatProperties
  <2>4. \A j \in 1..(i - 1) : t[j] = s[j]
    BY <1>2 DEF t
  <2>5. \A j \in 1..(n - i) : u[j] = s[i + j]
    BY <1>3 DEF u
  <2>6. r \in Seq(Nat) /\ Len(r) = n - 1
    BY <1>1, <2>1, <2>2, <2>3
  <2>7. ASSUME NEW j \in 1..(n - 1) PROVE r[j] = IF j < i THEN s[j] ELSE s[j + 1]
    <3>1. i \in Int /\ n \in Int /\ Len(t) + Len(u) = n - 1 /\ j \in 1..(n - 1)
      BY <1>1, <2>2
    <3>2. r[j] = IF j <= i - 1 THEN t[j] ELSE u[j - (i - 1)]
      BY <2>1, <2>2, <2>3, <3>1
    <3> HIDE DEF n, r
    <3>3. CASE j < i
      BY <2>4, <3>1, <3>2, <3>3
    <3>4. CASE ~ (j < i)
      <4>1. j - (i - 1) \in 1..(n - i) /\ i + (j - (i - 1)) = j + 1
        BY <3>1, <3>4
      <4>2. u[j - (i - 1)] = s[i + (j - (i - 1))]
        BY <2>5, <4>1
      <4>3. r[j] = u[j - (i - 1)]
        BY <3>1, <3>2, <3>4
      <4> QED  BY <3>4, <4>1, <4>2, <4>3
    <3> QED  BY <3>3, <3>4
  <2> QED  BY <2>6, <2>7
<1>5. DOMAIN r = 1..(n - 1)
  BY <1>4, LenProperties
<1> HIDE DEF r, n
<1>6. \A a, c \in 1..n : s[a] = s[c] => a = c
  BY <1>1 DEF IsInjective
\* The place in s of what is at place j of r.
<1> DEFINE at(j) == IF j < i THEN j ELSE j + 1
<1>7. ASSUME NEW j \in 1..(n - 1)
      PROVE  at(j) \in 1..n /\ at(j) # i /\ r[j] = s[at(j)]
  <2>1. n \in Int /\ i \in Int /\ at(j) \in 1..n /\ at(j) # i
    BY <1>1
  <2>2. r[j] = IF j < i THEN s[j] ELSE s[j + 1]
    BY <1>4
  <2> QED  BY <2>1, <2>2
<1>8. /\ \A j, k \in 1..(n - 1) : at(j) = at(k) => j = k
      /\ \A a \in 1..n : a # i => \E j \in 1..(n - 1) : at(j) = a
  <2>1. \A j, k \in 1..(n - 1) : at(j) = at(k) => j = k
    BY <1>1
  <2>2. ASSUME NEW a \in 1..n, a # i PROVE \E j \in 1..(n - 1) : at(j) = a
    <3>1. CASE a < i
      <4>1. a \in 1..(n - 1) /\ at(a) = a
        BY <1>1, <3>1
      <4> QED  BY <4>1
    <3>2. CASE a > i
      <4>1. a - 1 \in 1..(n - 1) /\ at(a - 1) = a
        BY <1>1, <3>2
      <4> QED  BY <4>1
    <3> QED  BY <1>1, <2>2, <3>1, <3>2
  <2> QED  BY <2>1, <2>2
<1> HIDE DEF at
<1>9. IsInjective(r)
  BY <1>5, <1>6, <1>7, <1>8 DEF IsInjective
<1>10. ToSet(r) = ToSet(s) \ {s[i]}
  <2>1. ToSet(r) = {r[k] : k \in 1..(n - 1)} /\ ToSet(s) = {s[j] : j \in 1..n}
    BY <1>1, <1>5 DEF ToSet
  <2>2. ASSUME NEW p \in ToSet(r) PROVE p \in ToSet(s) \ {s[i]}
    <3>1. PICK k \in 1..(n - 1) : p = r[k]
      BY <2>1
    <3>2. at(k) \in 1..n /\ p = s[at(k)] /\ s[at(k)] # s[i]
      BY <1>1, <1>6, <1>7, <3>1
    <3> QED  BY <2>1, <3>2
  <2>3. ASSUME NEW p \in ToSet(s) \ {s[i]} PROVE p \in ToSet(r)
    <3>1. PICK a \in 1..n : p = s[a] /\ a # i
      BY <1>1, <2>1, <2>3
    <3>2. PICK j \in 1..(n - 1) : at(j) = a
      BY <1>8, <3>1
    <3>3. r[j] = p
      BY <1>7, <3>1, <3>2
    <3> QED  BY <2>1, <3>3
  <2> QED  BY <2>2, <2>3
<1> QED  BY <1>4, <1>9, <1>10 DEF r

LEMMA Removed ==
  ASSUME NEW models \in Seq(Nat), IsInjective(models), NEW c \in ToSet(models)
  PROVE  /\ RemoveAt(models, IndexOf(models, c)) \in Seq(Nat)
         /\ IsInjective(RemoveAt(models, IndexOf(models, c)))
         /\ ToSet(RemoveAt(models, IndexOf(models, c))) = ToSet(models) \ {c}
<1>1. \E i \in DOMAIN models : models[i] = c
  BY DEF ToSet
<1>2. PICK i \in DOMAIN models : i = IndexOf(models, c) /\ models[i] = c
  BY <1>1 DEF IndexOf
<1>3. /\ RemoveAt(models, i) \in Seq(Nat) /\ IsInjective(RemoveAt(models, i))
      /\ ToSet(RemoveAt(models, i)) = ToSet(models) \ {models[i]}
  BY <1>2, RemovedAt
<1> QED  BY <1>2, <1>3

LEMMA Restricted ==
  ASSUME NEW f, NEW x
  PROVE  /\ DOMAIN Restrict(f, DOMAIN f \ {x}) = DOMAIN f \ {x}
         /\ \A y \in DOMAIN f \ {x} : Restrict(f, DOMAIN f \ {x})[y] = f[y]
  BY DEF Restrict

\* What the fields of the state of a fold look like.
Shape(s) == s = [list |-> s.list, byId |-> s.byId, net |-> s.net]

LEMMA ModelRemoved ==
  ASSUME att \in Seq(Attributes), NEW s, Shape(s), ListOK(s.list, att),
         IndexOK(s.byId, s.list, att, collided), NEW c \in ToSet(s.list)
  PROVE  /\ Shape(RemoveModel(s, c)) /\ RemoveModel(s, c).net = s.net
         /\ ListOK(RemoveModel(s, c).list, att)
         /\ IndexOK(RemoveModel(s, c).byId, RemoveModel(s, c).list, att, collided)
         /\ ToSet(RemoveModel(s, c).list) \subseteq ToSet(s.list)
         /\ ~ collided => ToSet(RemoveModel(s, c).list) = ToSet(s.list) \ {c}
<1> DEFINE m == IF att[c].id \in DOMAIN s.byId THEN s.byId[att[c].id] ELSE c
           l == RemoveAt(s.list, IndexOf(s.list, m))
           b == Restrict(s.byId, DOMAIN s.byId \ {att[m].id})
<1>1. m \in ToSet(s.list)
  BY DEF IndexOK
<1>2. RemoveModel(s, c) = [list |-> l, byId |-> b, net |-> s.net]
  <2>1. RemoveModel(s, c) = [s EXCEPT !.list = l, !.byId = b]
    BY DEF RemoveModel
  <2> HIDE DEF l, b
  <2> QED  BY <2>1 DEF Shape
<1>3. ~ collided => m = c
  <2>1. att[c].id \in Nat
    <3>1. c \in 1..Len(att) /\ Len(att) \in Nat
      BY LenProperties DEF ListOK
    <3>2. att[c] \in Attributes
      BY <3>1, ElementOfSeq
    <3> QED  BY <3>2 DEF Attributes
  <2>2. 0 \notin DOMAIN s.byId
    BY DEF IndexOK, Ids
  <2> QED  BY <2>1, <2>2 DEF IndexOK
<1>4. /\ l \in Seq(Nat) /\ IsInjective(l) /\ ToSet(l) = ToSet(s.list) \ {m}
  <2> HIDE DEF m
  <2> QED  BY <1>1, Removed DEF ListOK
<1>5. /\ DOMAIN b = DOMAIN s.byId \ {att[m].id}
      /\ \A id \in DOMAIN b : b[id] = s.byId[id]
  BY Restricted
<1> HIDE DEF m, l, b
<1>6. ListOK(l, att)
  BY <1>4 DEF ListOK
<1>7. ASSUME NEW id \in DOMAIN b PROVE b[id] \in ToSet(l) /\ att[b[id]].id = id
  BY <1>4, <1>5 DEF IndexOK
<1>8. ASSUME ~ collided, NEW d \in ToSet(l), att[d].id > 0
      PROVE  att[d].id \in DOMAIN b /\ b[att[d].id] = d
  <2>1. att[d].id \in DOMAIN s.byId /\ s.byId[att[d].id] = d /\ d # m
    BY <1>4, <1>8 DEF IndexOK
  <2>2. att[d].id # att[m].id
    BY <1>1, <1>8, <2>1 DEF IndexOK
  <2> QED  BY <1>5, <2>1, <2>2
<1>9. IndexOK(b, l, att, collided)
  <2>1. DOMAIN b \subseteq Ids
    BY <1>5 DEF IndexOK
  <2> QED  BY <1>7, <1>8, <2>1 DEF IndexOK
<1> QED  BY <1>2, <1>3, <1>4, <1>6, <1>9 DEF Shape

LEMMA PutRequest ==
  ASSUME NEW requests, NEW k, NetOK(requests, k), NEW n \in 1..MaxFlight, NEW r, RequestOK(r, k)
  PROVE  NetOK(Put(requests, n, r), k)
  BY DEF NetOK, Put

LEMMA IdOf ==
  ASSUME att \in Seq(Attributes), NEW c \in 1..Len(att)
  PROVE  att[c] \in Attributes /\ att[c].id \in Nat
<1>1. att[c] \in Attributes
  BY ElementOfSeq
<1> QED  BY <1>1 DEF Attributes

LEMMA NewRequest ==
  ASSUME NEW op, NEW a \in Attributes, NEW k \in Nat, NEW c \in 1..k,
         op = "POST" \/ (op \in {"PUT", "DELETE"} /\ a.id > 0)
  PROVE  RequestOK(Request(op, c, a), k)
  BY DEF RequestOK, Request

LEMMA Destroyed ==
  ASSUME att \in Seq(Attributes), NEW s, Shape(s), ListOK(s.list, att),
         IndexOK(s.byId, s.list, att, collided), NetOK(s.net, Len(att)),
         Cardinality(DOMAIN s.net) < MaxFlight, NEW c \in 1..Len(att)
  PROVE  /\ Shape(Destroy(s, c)) /\ ListOK(Destroy(s, c).list, att)
         /\ IndexOK(Destroy(s, c).byId, Destroy(s, c).list, att, collided)
         /\ NetOK(Destroy(s, c).net, Len(att))
         /\ ToSet(Destroy(s, c).list) \subseteq ToSet(s.list)
         /\ ~ collided => ToSet(Destroy(s, c).list) = ToSet(s.list) \ {c}
         /\ \/ att[c].id = 0 /\ Destroy(s, c).net = s.net
            \/ \E n \in (1..MaxFlight) \ DOMAIN s.net :
                 /\ att[c].id > 0
                 /\ Destroy(s, c).net = Put(s.net, n, Request("DELETE", c, att[c]))
                 /\ Cardinality(DOMAIN s.net \cup {n}) = Cardinality(DOMAIN s.net) + 1
<1> DEFINE r == Request("DELETE", c, att[c])
           q == IF att[c].id = 0 THEN s ELSE [s EXCEPT !.net = Send(@, r)]
<1>1. att[c] \in Attributes /\ att[c].id \in Nat
  BY IdOf
<1>2. /\ Shape(q) /\ q.list = s.list /\ q.byId = s.byId
      /\ q.net = IF att[c].id = 0 THEN s.net ELSE Send(s.net, r)
  <2> HIDE DEF r
  <2> QED  BY DEF Shape
<1>3. Destroy(s, c) = IF c \in ToSet(s.list) THEN RemoveModel(q, c) ELSE q
  BY DEF Destroy
<1> HIDE DEF q
<1>4. /\ Shape(Destroy(s, c)) /\ ListOK(Destroy(s, c).list, att) /\ Destroy(s, c).net = q.net
      /\ IndexOK(Destroy(s, c).byId, Destroy(s, c).list, att, collided)
      /\ ToSet(Destroy(s, c).list) \subseteq ToSet(s.list)
      /\ ~ collided => ToSet(Destroy(s, c).list) = ToSet(s.list) \ {c}
  <2>1. CASE c \in ToSet(s.list)
    <3>1. /\ Shape(q) /\ ListOK(q.list, att) /\ IndexOK(q.byId, q.list, att, collided)
          /\ c \in ToSet(q.list)
      BY <1>2, <2>1
    <3>2. /\ Shape(RemoveModel(q, c)) /\ RemoveModel(q, c).net = q.net
          /\ ListOK(RemoveModel(q, c).list, att)
          /\ IndexOK(RemoveModel(q, c).byId, RemoveModel(q, c).list, att, collided)
          /\ ToSet(RemoveModel(q, c).list) \subseteq ToSet(q.list)
          /\ ~ collided => ToSet(RemoveModel(q, c).list) = ToSet(q.list) \ {c}
      BY <3>1, ModelRemoved
    <3> QED  BY <1>2, <1>3, <2>1, <3>2
  <2>2. CASE c \notin ToSet(s.list)
    BY <1>2, <1>3, <2>2
  <2> QED  BY <2>1, <2>2
<1>5. CASE att[c].id = 0
  BY <1>2, <1>4, <1>5
<1>6. CASE att[c].id # 0
  <2>1. RequestOK(r, Len(att))
    <3>1. Len(att) \in Nat /\ att[c].id > 0
      BY <1>1, <1>6, LenProperties
    <3> QED  BY <1>1, <3>1, NewRequest
  <2> HIDE DEF r
  <2>2. PICK n \in (1..MaxFlight) \ DOMAIN s.net :
          /\ Send(s.net, r) = Put(s.net, n, r)
          /\ Cardinality(DOMAIN s.net \cup {n}) = Cardinality(DOMAIN s.net) + 1
    BY SendIntoFree DEF NetOK
  <2>3. q.net = Put(s.net, n, r)
    BY <1>2, <1>6, <2>2
  <2>4. NetOK(q.net, Len(att))
    BY <2>1, <2>3, PutRequest
  <2>5. Destroy(s, c).net = Put(s.net, n, Request("DELETE", c, att[c]))
    BY <1>4, <2>3 DEF r
  <2>6. att[c].id > 0
    BY <1>1, <1>6
  <2> QED  BY <1>4, <2>2, <2>4, <2>5, <2>6
<1> QED  BY <1>5, <1>6


------------------------------------------------------------------------------
(* Clear: the fold goes over the list as it was.                           *)

Start == [list |-> list, byId |-> byId, net |-> net]

Step(s, c) == IF c \in Completed THEN Destroy(s, c) ELSE s

\* h is the function that a fold over 1..n chooses.
Folds(h, n) == h = [U \in SUBSET (1..n) |->
                      IF U = {} THEN Start ELSE Step(h[U \ {Max(U)}], list[Max(U)])]

LEMMA MaxOfPart ==
  ASSUME NEW n \in Nat, NEW U \in SUBSET (1..n), U # {}
  PROVE  Max(U) \in U /\ \A k \in U : Max(U) >= k
<1>1. IsFiniteSet(1..n)
  BY FS_Interval
<1>2. IsFiniteSet(U)
  BY <1>1, FS_Subset
<1>3. U \subseteq Nat
  OBVIOUS
<1> QED  BY <1>2, <1>3, GreatestNatural

LEMMA MaxOfInterval ==
  ASSUME NEW k \in Nat \ {0}
  PROVE  Max(1..k) = k
<1>1. k \in Nat /\ 1..k \in SUBSET (1..k) /\ k \in 1..k
  OBVIOUS
<1>2. Max(1..k) \in 1..k /\ \A j \in 1..k : Max(1..k) >= j
  BY <1>1, MaxOfPart
<1> QED  BY <1>1, <1>2

LEMMA FoldExists ==
  ASSUME NEW n \in Nat
  PROVE  \E h : Folds(h, n)
<1> DEFINE Is(h, k) == h = [U \in SUBSET (1..k) |->
                             IF U = {} THEN Start ELSE Step(h[U \ {Max(U)}], list[Max(U)])]
           T == {k \in Nat : \E h : Is(h, k)}
<1>1. 0 \in T
  <2>1. Is([U \in SUBSET (1..0) |-> Start], 0)
    OBVIOUS
  <2> QED  BY <2>1
<1>2. ASSUME NEW k \in Nat, k \in T PROVE k + 1 \in T
  <2>1. PICK h : Is(h, k)
    BY <1>2
  <2> DEFINE S == SUBSET (1..(k + 1))
             g == [U \in S |-> IF k + 1 \in U THEN Step(h[U \ {k + 1}], list[k + 1]) ELSE h[U]]
  <2>2. \A U \in SUBSET (1..k) :
          h[U] = IF U = {} THEN Start ELSE Step(h[U \ {Max(U)}], list[Max(U)])
    BY <2>1
  <2> HIDE DEF Is
  <2>3. ASSUME NEW U \in S
        PROVE  g[U] = IF U = {} THEN Start ELSE Step(g[U \ {Max(U)}], list[Max(U)])
    <3>1. CASE U = {}
      <4>1. g[U] = h[U]
        BY <3>1
      <4> QED  BY <2>2, <3>1, <4>1
    <3>2. CASE k + 1 \in U
      <4>1. Max(U) = k + 1
        <5>1. k + 1 \in Nat /\ U \in SUBSET (1..(k + 1)) /\ U # {}
          BY <3>2
        <5>2. PICK m : m = Max(U) /\ m \in U /\ \A j \in U : m >= j
          BY <5>1, MaxOfPart
        <5>3. m \in 1..(k + 1) /\ m >= k + 1
          BY <3>2, <5>2
        <5> QED  BY <5>2, <5>3
      <4>2. U \ {k + 1} \in S /\ k + 1 \notin U \ {k + 1}
        OBVIOUS
      <4>3. g[U \ {k + 1}] = h[U \ {k + 1}]
        BY <4>2
      <4>4. g[U] = Step(h[U \ {k + 1}], list[k + 1])
        BY <3>2
      <4> HIDE DEF g
      <4> QED  BY <3>2, <4>1, <4>3, <4>4
    <3>3. CASE U # {} /\ k + 1 \notin U
      <4>1. U \in SUBSET (1..k)
        BY <3>3
      <4>2. PICK m \in U : m = Max(U)
        BY <3>3, <4>1, MaxOfPart
      <4>3. U \ {m} \in S /\ k + 1 \notin U \ {m}
        BY <3>3
      <4>4. g[U] = h[U] /\ g[U \ {m}] = h[U \ {m}]
        BY <3>3, <4>3
      <4> HIDE DEF g
      <4> QED  BY <2>2, <3>3, <4>1, <4>2, <4>4
    <3> QED  BY <3>1, <3>2, <3>3
  <2>4. g = [U \in S |-> g[U]]
    OBVIOUS
  <2> HIDE DEF g
  <2>5. g = [U \in S |-> IF U = {} THEN Start ELSE Step(g[U \ {Max(U)}], list[Max(U)])]
    BY <2>3, <2>4
  <2>6. Is(g, k + 1)
    BY <2>5 DEF Is
  <2> QED  BY <2>6
<1>3. n \in T
  <2> HIDE DEF T
  <2> QED  BY <1>1, <1>2, Induction
<1> QED  BY <1>3 DEF Folds

\* The states that the fold of Clear goes through.
Steps(s) == /\ s[0] = Start /\ s[Len(list)] = Cleared
            /\ \A k \in 1..Len(list) : s[k] = Step(s[k - 1], list[k])

LEMMA ClearedInSteps ==
  ASSUME list \in Seq(Nat)
  PROVE  \E s : Steps(s)
<1> DEFINE n == Len(list)
           Is(h) == h = [U \in SUBSET (1..n) |->
                           IF U = {} THEN Start ELSE Step(h[U \ {Max(U)}], list[Max(U)])]
<1>1. n \in Nat /\ DOMAIN list = 1..n
  BY LenProperties
<1>2. PICK h : h = (CHOOSE g : Is(g)) /\ Cleared = h[1..n]
  BY <1>1 DEF Cleared, FoldLeft, MapThenFoldSet, Step, Start
<1>3. Is(h)
  <2>1. \E g : Is(g)
    BY <1>1, FoldExists DEF Folds
  <2> HIDE DEF Is
  <2> QED  BY <1>2, <2>1
<1>4. \A U \in SUBSET (1..n) :
        h[U] = IF U = {} THEN Start ELSE Step(h[U \ {Max(U)}], list[Max(U)])
  BY <1>3
<1> HIDE DEF Is
<1> DEFINE s == [k \in 0..n |-> h[1..k]]
<1>5. h[{}] = Start
  BY <1>4
<1>6. s[0] = Start
  <2>1. 1..0 = {} /\ 0 \in 0..n
    BY <1>1
  <2> QED  BY <1>5, <2>1
<1>7. s[n] = Cleared
  BY <1>1, <1>2
<1>8. ASSUME NEW k \in 1..n PROVE s[k] = Step(s[k - 1], list[k])
  <2>1. /\ 1..k \in SUBSET (1..n) /\ 1..k # {} /\ k \in Nat \ {0}
        /\ (1..k) \ {k} = 1..(k - 1) /\ k \in 0..n /\ k - 1 \in 0..n
    <3> HIDE DEF n
    <3>1. k \in Nat \ {0} /\ k <= n /\ k \in 0..n /\ k - 1 \in 0..n
      BY <1>1
    <3>2. (1..k) \ {k} = 1..(k - 1) /\ k \in 1..k /\ 1..k \subseteq 1..n
      BY <1>1, <3>1
    <3> QED  BY <3>1, <3>2
  <2>2. Max(1..k) = k
    BY <2>1, MaxOfInterval
  <2>3. h[1..k] = Step(h[1..(k - 1)], list[k])
    BY <1>4, <2>1, <2>2
  <2> QED  BY <2>1, <2>3
<1> HIDE DEF s
<1> QED  BY <1>6, <1>7, <1>8 DEF Steps

Done(k) == {list[j] : j \in 1..k} \cap Completed

Deletes(r, tasks) == \E c \in tasks : att[c].id > 0 /\ r = Request("DELETE", c, att[c])

\* What the fold has made of the list, the index and the requests after k steps.
Halfway(s, k) ==
  /\ Shape(s) /\ ListOK(s.list, att) /\ IndexOK(s.byId, s.list, att, collided)
  /\ NetOK(s.net, Len(att))
  /\ Cardinality(DOMAIN s.net) <= Cardinality(DOMAIN net) + Cardinality(Done(k))
  /\ ToSet(s.list) \subseteq ToSet(list)
  /\ ~ collided => ToSet(s.list) = ToSet(list) \ Done(k)
  /\ \A n \in DOMAIN net : n \in DOMAIN s.net /\ s.net[n] = net[n]
  /\ \A n \in DOMAIN s.net \ DOMAIN net : Deletes(s.net[n], Done(k))
  /\ \A c \in Done(k) : att[c].id > 0 => \E n \in DOMAIN s.net \ DOMAIN net : s.net[n].task = c
  /\ \A n, m \in DOMAIN s.net \ DOMAIN net : s.net[n].task = s.net[m].task => n = m

LEMMA FlightIsFinite ==
  ASSUME NEW requests, NEW k, NetOK(requests, k)
  PROVE  IsFiniteSet(DOMAIN requests) /\ Cardinality(DOMAIN requests) \in Nat
<1>1. MaxFlight \in Nat
  BY TasksAssumption
<1>2. IsFiniteSet(1..MaxFlight)
  BY <1>1, FS_Interval
<1>3. IsFiniteSet(DOMAIN requests)
  BY <1>2, FS_Subset DEF NetOK
<1> QED  BY <1>3, FS_CardinalityType

LEMMA ListFacts ==
  ASSUME NEW models, NEW a, ListOK(models, a)
  PROVE  /\ Len(models) \in Nat /\ DOMAIN models = 1..Len(models)
         /\ \A i \in 1..Len(models) : models[i] \in 1..Len(a) /\ models[i] \in ToSet(models)
         /\ \A c \in ToSet(models) : c \in 1..Len(a) /\ \E i \in 1..Len(models) : c = models[i]
         /\ \A i, j \in 1..Len(models) : models[i] = models[j] => i = j
         /\ IsFiniteSet(ToSet(models))
<1>1. Len(models) \in Nat /\ DOMAIN models = 1..Len(models)
  BY LenProperties DEF ListOK
<1>2. ToSet(models) = {models[i] : i \in 1..Len(models)}
  BY <1>1 DEF ToSet
<1>3. \A i, j \in 1..Len(models) : models[i] = models[j] => i = j
  BY <1>1 DEF ListOK, IsInjective
<1>4. IsFiniteSet(ToSet(models))
  <2>1. IsFiniteSet(1..Len(models))
    BY <1>1, FS_Interval
  <2>2. models \in [1..Len(models) -> Nat]
    BY LenProperties DEF ListOK
  <2>3. models \in Surjection(1..Len(models), ToSet(models))
    BY <1>2, <2>2 DEF Surjection
  <2> QED  BY <2>1, <2>3, FS_Surjection
<1> QED  BY <1>1, <1>2, <1>3, <1>4 DEF ListOK

LEMMA HalfwayStart ==
  ASSUME IInv
  PROVE  Halfway(Start, 0)
<1>1. Done(0) = {}
  BY DEF Done
<1>2. Cardinality(Done(0)) = 0
  BY <1>1, FS_EmptySet
<1>3. Cardinality(DOMAIN net) \in Nat
  BY FlightIsFinite DEF IInv
<1>4. Shape(Start) /\ Start.list = list /\ Start.byId = byId /\ Start.net = net
  BY DEF Start, Shape
<1> QED  BY <1>1, <1>2, <1>3, <1>4 DEF Halfway, IInv

LEMMA DestroyedHalfway ==
  ASSUME IInv, Room(Cardinality(Completed)), NEW k \in Nat, k + 1 <= Len(list),
         NEW s, Halfway(s, k), list[k + 1] \in Completed
  PROVE  Halfway(Destroy(s, list[k + 1]), k + 1)
<1> DEFINE c == list[k + 1]
           d == Destroy(s, c)
<1>1. /\ Len(list) \in Nat /\ c \in 1..Len(att) /\ c \in ToSet(list)
      /\ \A i, j \in 1..Len(list) : list[i] = list[j] => i = j
      /\ IsFiniteSet(ToSet(list))
  BY ListFacts DEF IInv
<1>2. Done(k + 1) = Done(k) \cup {c} /\ c \notin Done(k)
  <2>1. 1..(k + 1) = (1..k) \cup {k + 1} /\ k + 1 \notin 1..k /\ 1..(k + 1) \subseteq 1..Len(list)
    BY <1>1
  <2>2. {list[j] : j \in 1..(k + 1)} = {list[j] : j \in 1..k} \cup {c}
    BY <2>1
  <2>3. \A j \in 1..k : list[j] # c
    BY <1>1, <2>1
  <2> QED  BY <2>2, <2>3 DEF Done
<1>3. IsFiniteSet(Completed) /\ Done(k + 1) \subseteq Completed
  <2>1. Completed \subseteq ToSet(list)
    BY DEF Completed
  <2>2. IsFiniteSet(Completed)
    BY <1>1, <2>1, FS_Subset
  <2> QED  BY <2>2 DEF Done
<1>4. /\ Cardinality(Done(k)) \in Nat /\ Cardinality(Done(k + 1)) = Cardinality(Done(k)) + 1
      /\ Cardinality(Completed) \in Nat /\ Cardinality(Done(k + 1)) <= Cardinality(Completed)
  <2>1. IsFiniteSet(Done(k)) /\ IsFiniteSet(Done(k + 1))
    BY <1>2, <1>3, FS_Subset
  <2>2. Cardinality(Done(k)) \in Nat /\ Cardinality(Completed) \in Nat
    BY <1>3, <2>1, FS_CardinalityType
  <2>3. Cardinality(Done(k + 1)) = Cardinality(Done(k)) + 1
    BY <1>2, <2>1, FS_AddElement
  <2>4. Cardinality(Done(k + 1)) <= Cardinality(Completed)
    BY <1>3, FS_Subset
  <2> QED  BY <2>2, <2>3, <2>4
<1>5. Cardinality(DOMAIN s.net) \in Nat /\ Cardinality(DOMAIN net) \in Nat
  BY FlightIsFinite DEF Halfway, IInv
<1>6. Cardinality(DOMAIN s.net) < MaxFlight
  <2>1. /\ Cardinality(DOMAIN s.net) <= Cardinality(DOMAIN net) + Cardinality(Done(k))
        /\ Cardinality(DOMAIN net) + Cardinality(Completed) <= MaxFlight /\ MaxFlight \in Nat
    BY TasksAssumption DEF Halfway, Room
  <2> QED  BY <1>4, <1>5, <2>1
<1> HIDE DEF c
<1>7. /\ Shape(d) /\ ListOK(d.list, att) /\ IndexOK(d.byId, d.list, att, collided)
      /\ NetOK(d.net, Len(att))
      /\ ToSet(d.list) \subseteq ToSet(s.list)
      /\ ~ collided => ToSet(d.list) = ToSet(s.list) \ {c}
      /\ \/ att[c].id = 0 /\ d.net = s.net
         \/ \E n \in (1..MaxFlight) \ DOMAIN s.net :
              /\ att[c].id > 0
              /\ d.net = Put(s.net, n, Request("DELETE", c, att[c]))
              /\ Cardinality(DOMAIN s.net \cup {n}) = Cardinality(DOMAIN s.net) + 1
  <2>1. /\ att \in Seq(Attributes) /\ Shape(s) /\ ListOK(s.list, att)
        /\ IndexOK(s.byId, s.list, att, collided) /\ NetOK(s.net, Len(att))
    BY DEF IInv, Halfway
  <2> QED  BY <1>1, <1>6, <2>1, Destroyed
<1> HIDE DEF d
<1>8. /\ ToSet(d.list) \subseteq ToSet(list)
      /\ ~ collided => ToSet(d.list) = ToSet(list) \ Done(k + 1)
  BY <1>2, <1>7 DEF Halfway
<1>9. /\ Cardinality(DOMAIN d.net) <= Cardinality(DOMAIN net) + Cardinality(Done(k + 1))
      /\ \A n \in DOMAIN net : n \in DOMAIN d.net /\ d.net[n] = net[n]
      /\ \A n \in DOMAIN d.net \ DOMAIN net : Deletes(d.net[n], Done(k + 1))
      /\ \A t \in Done(k + 1) : att[t].id > 0 => \E n \in DOMAIN d.net \ DOMAIN net : d.net[n].task = t
      /\ \A n, m \in DOMAIN d.net \ DOMAIN net : d.net[n].task = d.net[m].task => n = m
  <2>1. CASE att[c].id = 0 /\ d.net = s.net
    <3>1. Cardinality(DOMAIN d.net) <= Cardinality(DOMAIN net) + Cardinality(Done(k + 1))
      BY <1>4, <1>5, <2>1 DEF Halfway
    <3>2. \A n \in DOMAIN d.net \ DOMAIN net : Deletes(d.net[n], Done(k + 1))
      BY <1>2, <2>1 DEF Halfway, Deletes
    <3>3. ~ (att[c].id > 0)
      BY <2>1
    <3> QED  BY <1>2, <2>1, <3>1, <3>2, <3>3 DEF Halfway
  <2>2. ASSUME NEW p \in (1..MaxFlight) \ DOMAIN s.net, att[c].id > 0,
               d.net = Put(s.net, p, Request("DELETE", c, att[c])),
               Cardinality(DOMAIN s.net \cup {p}) = Cardinality(DOMAIN s.net) + 1
        PROVE  /\ Cardinality(DOMAIN d.net) <= Cardinality(DOMAIN net) + Cardinality(Done(k + 1))
               /\ \A n \in DOMAIN net : n \in DOMAIN d.net /\ d.net[n] = net[n]
               /\ \A n \in DOMAIN d.net \ DOMAIN net : Deletes(d.net[n], Done(k + 1))
               /\ \A t \in Done(k + 1) :
                    att[t].id > 0 => \E n \in DOMAIN d.net \ DOMAIN net : d.net[n].task = t
               /\ \A n, m \in DOMAIN d.net \ DOMAIN net : d.net[n].task = d.net[m].task => n = m
    <3> DEFINE r == Request("DELETE", c, att[c])
    <3>1. r.task = c
      BY DEF Request
    <3>2. Deletes(r, Done(k + 1))
      BY <1>2, <2>2 DEF Deletes
    <3>3. d.net = Put(s.net, p, r)
      BY <2>2
    <3> HIDE DEF r
    <3>4. /\ DOMAIN d.net = DOMAIN s.net \cup {p} /\ d.net[p] = r
          /\ \A n \in DOMAIN s.net : d.net[n] = s.net[n]
      BY <2>2, <3>3 DEF Put
    <3>5. p \notin DOMAIN net
      BY <2>2 DEF Halfway
    <3>6. Cardinality(DOMAIN d.net) <= Cardinality(DOMAIN net) + Cardinality(Done(k + 1))
      <4>1. Cardinality(DOMAIN s.net) <= Cardinality(DOMAIN net) + Cardinality(Done(k))
        BY DEF Halfway
      <4> QED  BY <1>4, <1>5, <2>2, <3>4, <4>1
    <3>7. \A n \in DOMAIN net : n \in DOMAIN d.net /\ d.net[n] = net[n]
      BY <3>4 DEF Halfway
    <3>8. ASSUME NEW n \in DOMAIN d.net \ DOMAIN net PROVE Deletes(d.net[n], Done(k + 1))
      <4>1. CASE n = p
        BY <3>2, <3>4, <4>1
      <4>2. CASE n # p
        <5>1. d.net[n] = s.net[n] /\ Deletes(s.net[n], Done(k))
          BY <3>4, <4>2 DEF Halfway
        <5> QED  BY <1>2, <5>1 DEF Deletes
      <4> QED  BY <4>1, <4>2
    <3>9. ASSUME NEW t \in Done(k + 1), att[t].id > 0
          PROVE  \E n \in DOMAIN d.net \ DOMAIN net : d.net[n].task = t
      <4>1. CASE t = c
        BY <3>1, <3>4, <3>5, <4>1
      <4>2. CASE t # c
        <5>1. PICK n \in DOMAIN s.net \ DOMAIN net : s.net[n].task = t
          BY <1>2, <3>9, <4>2 DEF Halfway
        <5> QED  BY <3>4, <5>1
      <4> QED  BY <4>1, <4>2
    <3>10. \A n \in DOMAIN s.net \ DOMAIN net : s.net[n].task # c
      <4> SUFFICES ASSUME NEW n \in DOMAIN s.net \ DOMAIN net PROVE s.net[n].task # c
        OBVIOUS
      <4>1. PICK t \in Done(k) : s.net[n] = Request("DELETE", t, att[t])
        BY DEF Halfway, Deletes
      <4>2. s.net[n].task = t
        BY <4>1 DEF Request
      <4> QED  BY <1>2, <4>2
    <3>11. ASSUME NEW n \in DOMAIN d.net \ DOMAIN net, NEW m \in DOMAIN d.net \ DOMAIN net,
                  d.net[n].task = d.net[m].task
           PROVE  n = m
      BY <3>1, <3>4, <3>10, <3>11 DEF Halfway
    <3> QED  BY <3>6, <3>7, <3>8, <3>9, <3>11
  <2> QED  BY <1>7, <2>1, <2>2
<1>10. Halfway(d, k + 1)
  BY <1>7, <1>8, <1>9 DEF Halfway
<1> QED  BY <1>10 DEF d, c

\* Clear destroys the completed tasks, each once, and nothing else.
LEMMA ClearedAll ==
  ASSUME IInv, Room(Cardinality(Completed))
  PROVE  Halfway(Cleared, Len(list)) /\ Done(Len(list)) = Completed
<1>1. list \in Seq(Nat) /\ Len(list) \in Nat
  BY ListFacts DEF IInv, ListOK
<1>2. PICK s : Steps(s)
  BY <1>1, ClearedInSteps
<1> DEFINE T == {k \in Nat : k <= Len(list) => Halfway(s[k], k)}
<1>3. 0 \in T
  BY <1>2, HalfwayStart DEF Steps
<1>4. ASSUME NEW k \in Nat, k \in T PROVE k + 1 \in T
  <2> SUFFICES ASSUME k + 1 <= Len(list) PROVE Halfway(s[k + 1], k + 1)
    OBVIOUS
  <2>1. k + 1 \in 1..Len(list) /\ (k + 1) - 1 = k /\ k <= Len(list)
    BY <1>1
  <2>2. Halfway(s[k], k) /\ s[k + 1] = Step(s[k], list[k + 1])
    BY <1>2, <1>4, <2>1 DEF Steps
  <2>3. CASE list[k + 1] \in Completed
    BY <2>2, <2>3, DestroyedHalfway DEF Step
  <2>4. CASE list[k + 1] \notin Completed
    <3>1. s[k + 1] = s[k]
      BY <2>2, <2>4 DEF Step
    <3>2. 1..(k + 1) = (1..k) \cup {k + 1}
      OBVIOUS
    <3>3. Done(k + 1) = Done(k)
      BY <2>4, <3>2 DEF Done
    <3> QED  BY <2>2, <3>1, <3>3 DEF Halfway
  <2> QED  BY <2>3, <2>4
<1>5. Len(list) \in T
  <2> HIDE DEF T
  <2> QED  BY <1>1, <1>3, <1>4, Induction
<1>6. Halfway(Cleared, Len(list))
  BY <1>1, <1>2, <1>5 DEF Steps
<1>7. Done(Len(list)) = Completed
  <2>1. Completed \subseteq {list[j] : j \in 1..Len(list)}
    BY ListFacts DEF Completed, IInv
  <2> QED  BY <2>1 DEF Done
<1> QED  BY <1>6, <1>7
------------------------------------------------------------------------------
(* The invariant, action by action.                                        *)

LEMMA AttFacts ==
  ASSUME att \in Seq(Attributes)
  PROVE  /\ Len(att) \in Nat /\ att \in [1..Len(att) -> Attributes]
         /\ \A c \in 1..Len(att) : /\ att[c] \in Attributes /\ att[c].id \in Nat
                                   /\ att[c] = [id |-> att[c].id, text |-> att[c].text, done |-> att[c].done]
<1>1. Len(att) \in Nat /\ att \in [1..Len(att) -> Attributes]
  BY LenProperties
<1>2. \A a \in Attributes : a.id \in Nat /\ a = [id |-> a.id, text |-> a.text, done |-> a.done]
  BY DEF Attributes
<1> QED  BY <1>1, <1>2

LEMMA Rendered ==
  ASSUME NEW models, NEW a
  PROVE  PageOK(Render(models, a), models, a)
  BY DEF PageOK, Render

\* More models do not make a request wrong.
LEMMA NetGrows ==
  ASSUME NEW requests, NEW k \in Nat, NEW j \in Nat, k <= j, NetOK(requests, k)
  PROVE  NetOK(requests, j)
<1>1. \A c \in 1..k : c \in 1..j
  OBVIOUS
<1>2. ASSUME NEW r, RequestOK(r, k) PROVE RequestOK(r, j)
  BY <1>1, <1>2 DEF RequestOK
<1> QED  BY <1>2 DEF NetOK

LEMMA WithoutOne ==
  ASSUME NEW requests, NEW n
  PROVE  /\ DOMAIN Without(requests, n) = DOMAIN requests \ {n}
         /\ \A m \in DOMAIN requests \ {n} : Without(requests, n)[m] = requests[m]
  BY Restricted DEF Without

LEMMA NetShrinks ==
  ASSUME NEW requests, NEW k, NetOK(requests, k), NEW n
  PROVE  NetOK(Without(requests, n), k)
<1>1. /\ DOMAIN Without(requests, n) = DOMAIN requests \ {n}
      /\ \A m \in DOMAIN requests \ {n} : Without(requests, n)[m] = requests[m]
  BY WithoutOne
<1> QED  BY <1>1 DEF NetOK

\* A request that fits is sent.
LEMMA Sent ==
  ASSUME IInv, Room(1), NEW k \in Nat, Len(att) <= k, NEW r, RequestOK(r, k)
  PROVE  /\ NetOK(Send(net, r), k)
         /\ \E p : /\ p \notin DOMAIN net /\ DOMAIN Send(net, r) = DOMAIN net \cup {p}
                   /\ Send(net, r)[p] = r /\ \A n \in DOMAIN net : Send(net, r)[n] = net[n]
<1>1. /\ Cardinality(DOMAIN net) \in Nat /\ DOMAIN net \subseteq 1..MaxFlight
      /\ Cardinality(DOMAIN net) + 1 <= MaxFlight /\ MaxFlight \in Nat
  BY FlightIsFinite, TasksAssumption DEF IInv, Room, NetOK
<1>2. Cardinality(DOMAIN net) < MaxFlight
  BY <1>1
<1>3. PICK p \in (1..MaxFlight) \ DOMAIN net : Send(net, r) = Put(net, p, r)
  BY <1>1, <1>2, SendIntoFree
<1>4. NetOK(net, k)
  BY AttFacts, NetGrows DEF IInv
<1>5. NetOK(Put(net, p, r), k)
  BY <1>4, PutRequest
<1> QED  BY <1>3, <1>5 DEF Put

\* The list and the index do not depend on the text and the state of a task.
LEMMA SameIds ==
  ASSUME NEW models, NEW index, NEW clash, NEW a, NEW b, ListOK(models, a),
         IndexOK(index, models, a, clash), Len(a) \in Nat, Len(b) \in Nat, Len(a) <= Len(b),
         \A c \in 1..Len(a) : b[c].id = a[c].id
  PROVE  ListOK(models, b) /\ IndexOK(index, models, b, clash)
<1>1. \A c \in 1..Len(a) : c \in 1..Len(b)
  OBVIOUS
<1>2. ListOK(models, b)
  BY <1>1 DEF ListOK
<1>3. \A c \in ToSet(models) : b[c].id = a[c].id
  BY DEF ListOK
<1>4. IndexOK(index, models, b, clash)
  BY <1>3 DEF IndexOK
<1> QED  BY <1>2, <1>4

LEMMA InitInv == Init => IInv
<1> SUFFICES ASSUME Init PROVE IInv
  OBVIOUS
<1>1. att = <<>> /\ list = <<>> /\ byId = <<>> /\ shown = <<>> /\ collided = FALSE
  BY DEF Init
<1>2. att \in Seq(Attributes) /\ ListOK(list, att)
  <2>1. DOMAIN list = {} /\ ToSet(list) = {}
    BY <1>1 DEF ToSet
  <2> QED  BY <1>1, <2>1 DEF ListOK, IsInjective
<1>3. IndexOK(byId, list, att, collided) /\ PageOK(shown, list, att)
  BY <1>1 DEF IndexOK, PageOK, ToSet
<1>4. IsMap(tareas)
  <2>1. CASE tareas = <<>>
    <3>1. DOMAIN tareas = {} /\ tareas = [id \in {} |-> tareas[id]]
      BY <2>1
    <3> QED  BY <3>1, FS_EmptySet DEF IsMap
  <2>2. ASSUME NEW d \in BOOLEAN, tareas = <<[id |-> 1, text |-> 0, done |-> d]>> PROVE IsMap(tareas)
    <3>1. DOMAIN tareas = {1} /\ tareas[1] = [id |-> 1, text |-> 0, done |-> d]
          /\ tareas = [id \in DOMAIN tareas |-> tareas[id]]
      BY <2>2
    <3>2. IsFiniteSet(DOMAIN tareas)
      BY <3>1, FS_Singleton
    <3> QED  BY <3>1, <3>2 DEF IsMap, Ids, Attributes
  <2> QED  BY <2>1, <2>2 DEF Init
<1>5. NetOK(net, Len(att))
  <2>1. net = <<Request("GET", 0, NoBody)>> /\ DOMAIN net = {1} /\ net[1] = Request("GET", 0, NoBody)
    BY DEF Init
  <2>2. RequestOK(Request("GET", 0, NoBody), Len(att))
    BY DEF RequestOK, Request, NoBody, Attributes
  <2>3. 1 \in 1..MaxFlight
    BY TasksAssumption
  <2> QED  BY <2>1, <2>2, <2>3 DEF NetOK
<1> QED  BY <1>1, <1>2, <1>3, <1>4, <1>5 DEF IInv

\* What AddTask does to the list.
LEMMA Added ==
  ASSUME IInv, AddTask
  PROVE  LET c == Len(att) + 1
             a == [id |-> 0, text |-> c, done |-> FALSE]
         IN  /\ att' \in Seq(Attributes) /\ Len(att') = c /\ a \in Attributes
             /\ att'[c] = a /\ \A d \in 1..Len(att) : att'[d] = att[d]
             /\ ListOK(list', att') /\ ToSet(list') = ToSet(list) \cup {c} /\ c \notin ToSet(list)
<1> DEFINE c == Len(att) + 1
           a == [id |-> 0, text |-> c, done |-> FALSE]
<1>1. /\ Len(att) \in Nat /\ c \in Nat /\ a \in Attributes
  BY AttFacts DEF IInv, Attributes
<1>2. att' = Append(att, a) /\ list' = Append(list, c)
  BY DEF AddTask
<1>3. /\ att' \in Seq(Attributes) /\ Len(att') = c
      /\ att'[c] = a /\ \A d \in 1..Len(att) : att'[d] = att[d]
  <2> HIDE DEF a
  <2> QED  BY <1>1, <1>2, AppendProperties DEF IInv
<1>4. /\ Len(list) \in Nat /\ list \in Seq(Nat)
      /\ \A i \in 1..Len(list) : list[i] \in 1..Len(att) /\ list[i] \in ToSet(list)
      /\ \A d \in ToSet(list) : d \in 1..Len(att) /\ \E i \in 1..Len(list) : d = list[i]
      /\ \A i, j \in 1..Len(list) : list[i] = list[j] => i = j
  BY ListFacts DEF IInv, ListOK
<1> HIDE DEF a
<1>5. c \notin ToSet(list) /\ \A i \in 1..Len(list) : list[i] # c
  BY <1>1, <1>4
<1> HIDE DEF c
<1>6. /\ list' \in Seq(Nat) /\ Len(list') = Len(list) + 1
      /\ \A i \in 1..Len(list) : list'[i] = list[i]
      /\ list'[Len(list) + 1] = c
  BY <1>1, <1>2, <1>4, AppendProperties
<1>7. DOMAIN list' = 1..(Len(list) + 1)
  BY <1>6, LenProperties
<1>8. ToSet(list') = ToSet(list) \cup {c}
  <2>1. ToSet(list') = {list'[i] : i \in 1..(Len(list) + 1)}
    BY <1>7 DEF ToSet
  <2>2. 1..(Len(list) + 1) = (1..Len(list)) \cup {Len(list) + 1}
    BY <1>4
  <2>3. ASSUME NEW d \in ToSet(list') PROVE d \in ToSet(list) \cup {c}
    BY <1>4, <1>6, <2>1, <2>2
  <2>4. ASSUME NEW d \in ToSet(list) \cup {c} PROVE d \in ToSet(list')
    BY <1>4, <1>6, <2>1, <2>2
  <2> QED  BY <2>3, <2>4
<1>9. IsInjective(list')
  <2> SUFFICES ASSUME NEW i \in 1..(Len(list) + 1), NEW j \in 1..(Len(list) + 1), list'[i] = list'[j]
               PROVE  i = j
    BY <1>7 DEF IsInjective
  <2>1. i \in 1..Len(list) \/ i = Len(list) + 1
    BY <1>4
  <2>2. j \in 1..Len(list) \/ j = Len(list) + 1
    BY <1>4
  <2>3. CASE i \in 1..Len(list) /\ j \in 1..Len(list)
    BY <1>4, <1>6, <2>3
  <2> QED  BY <1>5, <1>6, <2>1, <2>2, <2>3
<1>10. \A d \in ToSet(list') : d \in 1..Len(att')
  BY <1>1, <1>3, <1>4, <1>8 DEF c
<1> QED  BY <1>1, <1>3, <1>5, <1>6, <1>8, <1>9, <1>10 DEF ListOK, c, a

LEMMA AddTaskInv == ASSUME IInv, AddTask PROVE IInv'
<1> DEFINE c == Len(att) + 1
           a == [id |-> 0, text |-> c, done |-> FALSE]
<1>1. /\ att' \in Seq(Attributes) /\ Len(att') = c /\ a \in Attributes
      /\ att'[c] = a /\ \A d \in 1..Len(att) : att'[d] = att[d]
      /\ ListOK(list', att') /\ ToSet(list') = ToSet(list) \cup {c} /\ c \notin ToSet(list)
  BY Added
<1>2. /\ Room(1) /\ shown' = Render(list', att') /\ net' = Send(net, SaveRequest(c, a))
      /\ UNCHANGED <<byId, tareas, collided>>
  BY DEF AddTask
<1>3. IndexOK(byId', list', att', collided')
  <2>1. a.id = 0
    OBVIOUS
  <2> HIDE DEF a
  <2>2. \A d \in ToSet(list) : att'[d] = att[d]
    BY <1>1 DEF IInv, ListOK
  <2> HIDE DEF c
  <2> QED  BY <1>1, <1>2, <2>1, <2>2 DEF IInv, IndexOK
<1>4. NetOK(net', Len(att'))
  <2>1. SaveRequest(c, a) = Request("POST", c, a)
    BY DEF SaveRequest
  <2>2. c \in Nat /\ Len(att) <= c /\ c \in 1..c
    BY AttFacts DEF IInv
  <2> HIDE DEF a, c
  <2>3. RequestOK(Request("POST", c, a), c)
    BY <1>1, <2>2, NewRequest
  <2> QED  BY <1>1, <1>2, <2>1, <2>2, <2>3, Sent
<1>5. PageOK(shown', list', att')
  BY <1>2, Rendered
<1> QED  BY <1>1, <1>2, <1>3, <1>4, <1>5 DEF IInv

LEMMA Flipped ==
  ASSUME NEW a \in Attributes
  PROVE  [a EXCEPT !.done = ~ @] \in Attributes /\ [a EXCEPT !.done = ~ @].id = a.id
  BY DEF Attributes

LEMMA Renamed ==
  ASSUME NEW a \in Attributes, NEW k \in Nat
  PROVE  [a EXCEPT !.id = k] \in Attributes /\ [a EXCEPT !.id = k].id = k
  BY DEF Attributes

\* What a toggle does to the attributes: the state of one task of the list.
LEMMA Toggled ==
  ASSUME IInv, NEW i \in DOMAIN shown, Toggle(i)
  PROVE  /\ list[i] \in ToSet(list) /\ list[i] \in 1..Len(att) /\ shown[i].task = list[i]
         /\ att' \in Seq(Attributes) /\ Len(att') = Len(att)
         /\ \A d \in 1..Len(att) : att'[d].id = att[d].id
         /\ \A d \in 1..Len(att) : d # list[i] => att'[d] = att[d]
         /\ net' = Send(net, SaveRequest(list[i], att'[list[i]]))
<1>1. i \in 1..Len(list) /\ shown[i].task = list[i]
  BY ListFacts DEF IInv, PageOK
<1>2. PICK c : c = list[i] /\ c \in 1..Len(att) /\ c \in ToSet(list)
  BY <1>1, ListFacts DEF IInv
<1>3. /\ att' = [att EXCEPT ![c].done = ~ @]
      /\ net' = Send(net, SaveRequest(c, att'[c]))
  BY <1>1, <1>2 DEF Toggle
<1>4. /\ Len(att) \in Nat /\ att \in [1..Len(att) -> Attributes]
      /\ \A d \in 1..Len(att) : att[d] \in Attributes
  BY AttFacts DEF IInv
<1>5. PICK a : a = [att[c] EXCEPT !.done = ~ @] /\ a \in Attributes /\ a.id = att[c].id
  BY <1>2, <1>4, Flipped
<1>6. att' = [att EXCEPT ![c] = a]
  BY <1>2, <1>3, <1>4, <1>5
<1>7. /\ att' \in Seq(Attributes) /\ Len(att') = Len(att)
      /\ \A d \in 1..Len(att) : att'[d] = IF d = c THEN a ELSE att[d]
  BY <1>2, <1>5, <1>6, ExceptSeq DEF IInv
<1> QED  BY <1>1, <1>2, <1>3, <1>5, <1>7

LEMMA SaveRequestOK ==
  ASSUME NEW k \in Nat, NEW c \in 1..k, NEW a \in Attributes
  PROVE  RequestOK(SaveRequest(c, a), k)
<1>1. a.id \in Nat
  BY DEF Attributes
<1>2. CASE a.id = 0
  BY <1>2, NewRequest DEF SaveRequest
<1>3. CASE a.id # 0
  <2>1. a.id > 0
    BY <1>1, <1>3
  <2> QED  BY <1>3, <2>1, NewRequest DEF SaveRequest
<1> QED  BY <1>2, <1>3

LEMMA ToggleInv == ASSUME IInv, NEW i \in DOMAIN shown, Toggle(i) PROVE IInv'
<1>1. /\ list[i] \in ToSet(list) /\ list[i] \in 1..Len(att)
      /\ att' \in Seq(Attributes) /\ Len(att') = Len(att) /\ Len(att) \in Nat
      /\ \A d \in 1..Len(att) : att'[d].id = att[d].id
      /\ net' = Send(net, SaveRequest(list[i], att'[list[i]]))
  BY Toggled, AttFacts DEF IInv
<1>2. Room(1) /\ shown' = Render(list, att') /\ UNCHANGED <<list, byId, tareas, collided>>
  BY DEF Toggle
<1>3. ListOK(list', att') /\ IndexOK(byId', list', att', collided')
  BY <1>1, <1>2, SameIds DEF IInv
<1>4. NetOK(net', Len(att'))
  <2>1. att'[list[i]] \in Attributes
    BY <1>1, ElementOfSeq
  <2>2. RequestOK(SaveRequest(list[i], att'[list[i]]), Len(att))
    BY <1>1, <2>1, SaveRequestOK
  <2> QED  BY <1>1, <1>2, <2>2, Sent
<1>5. PageOK(shown', list', att')
  BY <1>2, Rendered
<1> QED  BY <1>1, <1>2, <1>3, <1>4, <1>5 DEF IInv

LEMMA ClearInv == ASSUME IInv, Clear PROVE IInv'
<1>1. /\ Room(Cardinality(Completed)) /\ list' = Cleared.list /\ byId' = Cleared.byId
      /\ net' = Cleared.net /\ shown' = Render(list', att) /\ UNCHANGED <<att, tareas, collided>>
  BY DEF Clear
<1>2. /\ ListOK(Cleared.list, att) /\ IndexOK(Cleared.byId, Cleared.list, att, collided)
      /\ NetOK(Cleared.net, Len(att))
  BY <1>1, ClearedAll DEF Halfway
<1>3. PageOK(shown', list', att)
  BY <1>1, Rendered
<1> QED  BY <1>1, <1>2, <1>3 DEF IInv

\* A handler of the server that changes no task of the client.
LEMMA HandlerInv ==
  ASSUME IInv, NEW n \in DOMAIN net, NEW r, RequestOK(r, Len(att)), net' = [net EXCEPT ![n] = r],
         UNCHANGED <<client, collided>>, IsMap(tareas')
  PROVE  IInv'
<1>1. NetOK(net', Len(att))
  BY DEF IInv, NetOK
<1> QED  BY <1>1 DEF IInv, client

LEMMA RequestFacts ==
  ASSUME IInv, NEW n \in DOMAIN net
  PROVE  /\ RequestOK(net[n], Len(att)) /\ n \in 1..MaxFlight
         /\ net[n] = [op |-> net[n].op, task |-> net[n].task, body |-> net[n].body,
                      at |-> net[n].at, tasks |-> net[n].tasks]
         /\ net[n].body \in Attributes /\ net[n].body.id \in Nat
         /\ net[n].body = [id |-> net[n].body.id, text |-> net[n].body.text, done |-> net[n].body.done]
<1>1. RequestOK(net[n], Len(att)) /\ n \in 1..MaxFlight
  BY DEF IInv, NetOK
<1>2. net[n].body \in Attributes
  BY <1>1 DEF RequestOK
<1>3. \A a \in Attributes : a.id \in Nat /\ a = [id |-> a.id, text |-> a.text, done |-> a.done]
  BY DEF Attributes
<1> QED  BY <1>1, <1>2, <1>3 DEF RequestOK

LEMMA PutTarea ==
  ASSUME NEW m, IsMap(m), NEW a \in Attributes, a.id \in Ids
  PROVE  /\ IsMap(Put(m, a.id, a)) /\ DOMAIN Put(m, a.id, a) = DOMAIN m \cup {a.id}
         /\ Put(m, a.id, a)[a.id] = a
         /\ \A k \in DOMAIN m : k # a.id => Put(m, a.id, a)[k] = m[k]
<1>1. IsFiniteSet(DOMAIN m \cup {a.id})
  BY FS_AddElement DEF IsMap
<1>2. /\ DOMAIN Put(m, a.id, a) = DOMAIN m \cup {a.id}
      /\ Put(m, a.id, a)[a.id] = a
      /\ \A k \in DOMAIN m : k # a.id => Put(m, a.id, a)[k] = m[k]
      /\ Put(m, a.id, a) = [x \in DOMAIN Put(m, a.id, a) |-> Put(m, a.id, a)[x]]
  BY DEF Put
<1> QED  BY <1>1, <1>2 DEF IsMap

LEMMA DropTarea ==
  ASSUME NEW m, IsMap(m), NEW id
  PROVE  /\ IsMap(Restrict(m, DOMAIN m \ {id}))
         /\ DOMAIN Restrict(m, DOMAIN m \ {id}) = DOMAIN m \ {id}
         /\ \A k \in DOMAIN m \ {id} : Restrict(m, DOMAIN m \ {id})[k] = m[k]
<1>1. IsFiniteSet(DOMAIN m \ {id})
  BY FS_Subset DEF IsMap
<1>2. /\ DOMAIN Restrict(m, DOMAIN m \ {id}) = DOMAIN m \ {id}
      /\ \A k \in DOMAIN m \ {id} : Restrict(m, DOMAIN m \ {id})[k] = m[k]
      /\ Restrict(m, DOMAIN m \ {id})
           = [k \in DOMAIN Restrict(m, DOMAIN m \ {id}) |-> Restrict(m, DOMAIN m \ {id})[k]]
  BY DEF Restrict
<1> QED  BY <1>1, <1>2 DEF IsMap

\* The request that was received, at another stage.
LEMMA AnsweredRequest ==
  ASSUME IInv, NEW n \in DOMAIN net
  PROVE  /\ Answered(n) = [net EXCEPT ![n] = [net[n] EXCEPT !.at = "answered"]]
         /\ [net[n] EXCEPT !.at = "answered"]
              = [op |-> net[n].op, task |-> net[n].task, body |-> net[n].body,
                 at |-> "answered", tasks |-> net[n].tasks]
<1>1. net[n] = [op |-> net[n].op, task |-> net[n].task, body |-> net[n].body,
                at |-> net[n].at, tasks |-> net[n].tasks]
  BY RequestFacts
<1>2. Answered(n) = [net EXCEPT ![n] = [net[n] EXCEPT !.at = "answered"]]
  BY DEF Answered
<1> QED  BY <1>1, <1>2

LEMMA CreateReadsIdInv == ASSUME IInv, NEW n \in DOMAIN net, CreateReadsId(n) PROVE IInv'
<1>1. /\ net[n].op = "POST" /\ net[n].at = "sent"
      /\ net' = [net EXCEPT ![n].at = "creating", ![n].body.id = NewId(tareas)]
      /\ UNCHANGED <<client, tareas, collided>>
  BY DEF CreateReadsId
<1>2. NewId(tareas) \in Ids
  BY NewIdIsFresh DEF IInv
<1> DEFINE b == [net[n].body EXCEPT !.id = NewId(tareas)]
           r == [op |-> net[n].op, task |-> net[n].task, body |-> b, at |-> "creating", tasks |-> net[n].tasks]
<1>3. b \in Attributes /\ b.id > 0
  <2>1. NewId(tareas) \in Nat /\ NewId(tareas) > 0
    BY <1>2 DEF Ids
  <2> QED  BY <2>1, RequestFacts, Renamed
<1>4. net' = [net EXCEPT ![n] = r]
  <2> DEFINE q == [net[n] EXCEPT !.at = "creating"]
  <2>1. q = [op |-> "POST", task |-> net[n].task, body |-> net[n].body,
             at |-> "creating", tasks |-> net[n].tasks]
    <3>1. net[n] = [op |-> "POST", task |-> net[n].task, body |-> net[n].body,
                    at |-> net[n].at, tasks |-> net[n].tasks]
      BY <1>1, RequestFacts
    <3> QED  BY <3>1
  <2>2. net' = [[net EXCEPT ![n] = q] EXCEPT ![n] = [q EXCEPT !.body = [q.body EXCEPT !.id = NewId(tareas)]]]
    BY <1>1
  <2>3. ASSUME NEW e
        PROVE  [q EXCEPT !.body = e] = [op |-> "POST", task |-> net[n].task, body |-> e,
                                        at |-> "creating", tasks |-> net[n].tasks]
    <3> HIDE DEF q
    <3> QED  BY <2>1
  <2>4. q.body = net[n].body
    BY <2>1
  <2> QED  BY <2>2, <2>3, <2>4
<1> HIDE DEF b
<1>5. RequestOK(r, Len(att))
  BY <1>1, <1>3, RequestFacts DEF RequestOK
<1> HIDE DEF r
<1>6. IsMap(tareas')
  BY <1>1 DEF IInv
<1> QED  BY <1>1, <1>4, <1>5, <1>6, HandlerInv

\* The task and the request of a create, an update or a delete.
LEMMA HasId ==
  ASSUME IInv, NEW n \in DOMAIN net, net[n].op # "GET", net[n].op = "POST" => net[n].at # "sent"
  PROVE  net[n].body.id \in Ids /\ net[n].task \in 1..Len(att)
<1>1. RequestOK(net[n], Len(att)) /\ net[n].body.id \in Nat
  BY RequestFacts
<1> QED  BY <1>1 DEF RequestOK, Ids

LEMMA AnsweredOK ==
  ASSUME IInv, NEW n \in DOMAIN net, net[n].op # "GET", net[n].op = "POST" => net[n].at # "sent",
         net' = Answered(n), UNCHANGED <<client, collided>>, IsMap(tareas')
  PROVE  IInv'
<1> DEFINE r == [op |-> net[n].op, task |-> net[n].task, body |-> net[n].body,
                 at |-> "answered", tasks |-> net[n].tasks]
<1>1. net' = [net EXCEPT ![n] = r]
  BY AnsweredRequest
<1>2. RequestOK(r, Len(att))
  BY RequestFacts DEF RequestOK
<1> HIDE DEF r
<1> QED  BY <1>1, <1>2, HandlerInv

LEMMA HandleInv == ASSUME IInv, NEW n \in DOMAIN net, Handle(n) PROVE IInv'
<1>1. CASE CreatePuts(n)
  <2>1. /\ net[n].at = "creating" /\ tareas' = Put(tareas, net[n].body.id, net[n].body)
        /\ net' = Answered(n) /\ UNCHANGED <<client, collided>>
    BY <1>1 DEF CreatePuts
  <2>2. net[n].op = "POST"
    BY <2>1, RequestFacts DEF RequestOK
  <2>3. IsMap(tareas')
    BY <2>1, <2>2, RequestFacts, HasId, PutTarea DEF IInv
  <2> QED  BY <2>1, <2>2, <2>3, AnsweredOK
<1>2. CASE UpdateTarea(n)
  <2>1. /\ net[n].op = "PUT" /\ tareas' = Put(tareas, net[n].body.id, net[n].body)
        /\ net' = Answered(n) /\ UNCHANGED <<client, collided>>
    BY <1>2 DEF UpdateTarea
  <2>2. IsMap(tareas')
    BY <2>1, RequestFacts, HasId, PutTarea DEF IInv
  <2> QED  BY <2>1, <2>2, AnsweredOK
<1>3. CASE DeleteTarea(n)
  <2>1. /\ net[n].op = "DELETE" /\ tareas' = Restrict(tareas, DOMAIN tareas \ {net[n].body.id})
        /\ net' = Answered(n) /\ UNCHANGED <<client, collided>>
    BY <1>3 DEF DeleteTarea
  <2>2. IsMap(tareas')
    BY <2>1, DropTarea DEF IInv
  <2> QED  BY <2>1, <2>2, AnsweredOK
<1>4. CASE ReadTareas(n)
  <2> DEFINE r == [op |-> net[n].op, task |-> net[n].task, body |-> net[n].body,
                   at |-> "answered", tasks |-> tareas]
  <2>1. /\ net[n].op = "GET" /\ net' = [Answered(n) EXCEPT ![n].tasks = tareas]
        /\ UNCHANGED <<client, tareas, collided>>
    BY <1>4 DEF ReadTareas
  <2>2. net' = [net EXCEPT ![n] = r]
    <3> DEFINE q == [op |-> net[n].op, task |-> net[n].task, body |-> net[n].body,
                     at |-> "answered", tasks |-> net[n].tasks]
    <3>1. Answered(n) = [net EXCEPT ![n] = q]
      BY AnsweredRequest
    <3>2. net' = [[net EXCEPT ![n] = q] EXCEPT ![n] = [q EXCEPT !.tasks = tareas]]
      BY <2>1, <3>1
    <3>3. [q EXCEPT !.tasks = tareas] = r
      OBVIOUS
    <3> HIDE DEF q, r
    <3> QED  BY <3>2, <3>3
  <2>3. RequestOK(r, Len(att))
    BY <2>1, RequestFacts DEF RequestOK, IInv
  <2>4. IsMap(tareas')
    BY <2>1 DEF IInv
  <2> HIDE DEF r
  <2> QED  BY <2>1, <2>2, <2>3, <2>4, HandlerInv
<1> QED  BY <1>1, <1>2, <1>3, <1>4, CreateReadsIdInv DEF Handle

\* What the answer of a save does to the attributes.
LEMMA Saved ==
  ASSUME IInv, NEW n \in DOMAIN net, SaveAnswer(n)
  PROVE  /\ net[n].task \in 1..Len(att) /\ net[n].body \in Attributes /\ net[n].body.id \in Ids
         /\ att' \in Seq(Attributes) /\ Len(att') = Len(att) /\ att'[net[n].task] = net[n].body
         /\ \A d \in 1..Len(att) : d # net[n].task => att'[d] = att[d]
<1>1. net[n].task \in 1..Len(att) /\ net[n].body \in Attributes /\ net[n].body.id \in Ids
  BY RequestFacts, HasId DEF SaveAnswer
<1>2. att' = [att EXCEPT ![net[n].task] = net[n].body] /\ att \in Seq(Attributes)
  BY DEF SaveAnswer, IInv
<1>3. PICK c, b : c = net[n].task /\ b = net[n].body
  OBVIOUS
<1>4. /\ att' \in Seq(Attributes) /\ Len(att') = Len(att)
      /\ \A d \in 1..Len(att) : att'[d] = IF d = c THEN b ELSE att[d]
  BY <1>1, <1>2, <1>3, ExceptSeq
<1> QED  BY <1>1, <1>3, <1>4

\* Moving a task of the list to another id that no other task of it has.
LEMMA Moved ==
  ASSUME IInv, NEW c \in ToSet(list), NEW new \in Ids, new # att[c].id, NEW a, NEW clash,
         a[c].id = new, \A d \in ToSet(list) : d # c => a[d] = att[d],
         ~ clash => ~ collided /\ \A d \in ToSet(list) \ {c} : att[d].id # new
  PROVE  IndexOK(Reindexed(c, att[c].id, new), list, a, clash)
<1> DEFINE old == att[c].id
           b == Reindexed(c, old, new)
<1>1. /\ DOMAIN b = (DOMAIN byId \ {old}) \cup {new} /\ b[new] = c
      /\ \A id \in DOMAIN byId \ {old} : id # new => b[id] = byId[id]
  <2> DEFINE e == Restrict(byId, DOMAIN byId \ {old})
  <2>1. DOMAIN e = DOMAIN byId \ {old} /\ \A id \in DOMAIN byId \ {old} : e[id] = byId[id]
    BY Restricted
  <2>2. b = Put(e, new, c)
    BY DEF Reindexed
  <2> HIDE DEF e, b
  <2> QED  BY <2>1, <2>2 DEF Put
<1>2. /\ DOMAIN byId \subseteq Ids
      /\ \A id \in DOMAIN byId : byId[id] \in ToSet(list) /\ att[byId[id]].id = id
      /\ ~ clash => \A d \in ToSet(list) : att[d].id > 0 =>
                      att[d].id \in DOMAIN byId /\ byId[att[d].id] = d
  BY DEF IInv, IndexOK
<1> HIDE DEF b
<1>3. DOMAIN b \subseteq Ids
  BY <1>1, <1>2
<1>4. ASSUME NEW id \in DOMAIN b PROVE b[id] \in ToSet(list) /\ a[b[id]].id = id
  <2>1. CASE id = new
    BY <1>1, <2>1
  <2>2. CASE id # new
    <3>1. b[id] = byId[id] /\ id \in DOMAIN byId /\ id # old
      BY <1>1, <1>4, <2>2
    <3>2. byId[id] # c
      BY <1>2, <3>1
    <3> QED  BY <1>2, <3>1, <3>2
  <2> QED  BY <2>1, <2>2
<1>5. ASSUME ~ clash, NEW d \in ToSet(list), a[d].id > 0
      PROVE  a[d].id \in DOMAIN b /\ b[a[d].id] = d
  <2>1. CASE d = c
    BY <1>1, <2>1
  <2>2. CASE d # c
    <3>1. att[d].id > 0 /\ a[d].id = att[d].id
      BY <1>5, <2>2
    <3>2. att[d].id \in DOMAIN byId /\ byId[att[d].id] = d
      BY <1>2, <1>5, <3>1
    <3>3. att[d].id # old
      <4> SUFFICES ASSUME att[d].id = old PROVE FALSE
        OBVIOUS
      <4>1. byId[old] = c
        BY <1>2, <1>5, <3>1
      <4> QED  BY <2>2, <3>2, <4>1
    <3>4. att[d].id # new
      BY <1>5, <2>2
    <3> QED  BY <1>1, <3>1, <3>2, <3>3, <3>4
  <2> QED  BY <2>1, <2>2
<1> QED  BY <1>3, <1>4, <1>5 DEF IndexOK, b

LEMMA SaveAnswerInv == ASSUME IInv, NEW n \in DOMAIN net, SaveAnswer(n) PROVE IInv'
<1> DEFINE c == net[n].task
           b == net[n].body
<1>1. /\ c \in 1..Len(att) /\ b.id \in Ids
      /\ att' \in Seq(Attributes) /\ Len(att') = Len(att) /\ att'[c] = b
      /\ \A d \in 1..Len(att) : d # c => att'[d] = att[d]
  BY Saved
<1>2. /\ byId' = IF c \in ToSet(list) /\ b.id # att[c].id THEN Reindexed(c, att[c].id, b.id) ELSE byId
      /\ shown' = Render(list, att') /\ net' = Without(net, n)
      /\ collided' = (collided \/ \E other \in ToSet(list) \ {c} :
                                    c \in ToSet(list) /\ att[other].id = b.id)
      /\ UNCHANGED <<list, tareas>>
  BY DEF SaveAnswer
<1> HIDE DEF c, b
<1>3. \A d \in ToSet(list) : d \in 1..Len(att)
  BY DEF IInv, ListOK
<1>4. ListOK(list', att')
  BY <1>1, <1>2 DEF IInv, ListOK
<1>5. ~ collided' => ~ collided /\ (c \in ToSet(list) => \A d \in ToSet(list) \ {c} : att[d].id # b.id)
  BY <1>2
<1>6. IndexOK(byId', list', att', collided')
  <2>1. CASE c \in ToSet(list) /\ b.id # att[c].id
    <3>1. IndexOK(Reindexed(c, att[c].id, b.id), list, att', collided')
      BY <1>1, <1>3, <1>5, <2>1, Moved
    <3> QED  BY <1>2, <2>1, <3>1
  <2>2. CASE ~ (c \in ToSet(list) /\ b.id # att[c].id)
    <3>1. byId' = byId /\ list' = list
      BY <1>2, <2>2
    <3>2. \A d \in ToSet(list) : att'[d].id = att[d].id
      BY <1>1, <1>3, <2>2
    <3> QED  BY <1>5, <3>1, <3>2 DEF IInv, IndexOK
  <2> QED  BY <2>1, <2>2
<1>7. NetOK(net', Len(att'))
  BY <1>1, <1>2, NetShrinks DEF IInv
<1>8. PageOK(shown', list', att')
  BY <1>2, Rendered
<1> QED  BY <1>1, <1>2, <1>4, <1>6, <1>7, <1>8 DEF IInv

\* The models that the answer of a fetch makes: one for each task of the answer.
LEMMA Fetched ==
  ASSUME IInv, NEW n \in DOMAIN net, FetchAnswer(n)
  PROVE  LET tasks == net[n].tasks
             k == Len(att)
         IN  /\ IsMap(tasks) /\ k \in Nat
             /\ att' \in Seq(Attributes) /\ ListOK(list', att') /\ Len(att') \in Nat /\ k <= Len(att')
             /\ \A c \in 1..k : att'[c] = att[c]
             /\ \A c \in ToSet(list') : /\ c > k /\ att'[c].id \in DOMAIN tasks
                                        /\ att'[c] = tasks[att'[c].id]
             /\ \A c \in 1..Len(att') : c > k => c \in ToSet(list')
             /\ DOMAIN byId' = DOMAIN tasks
             /\ \A id \in DOMAIN tasks : byId'[id] \in ToSet(list') /\ att'[byId'[id]].id = id
             /\ \A c, d \in ToSet(list') : att'[c].id = att'[d].id => c = d
<1> DEFINE tasks == net[n].tasks
           k == Len(att)
           ids == DOMAIN tasks
           size == Cardinality(ids)
<1>1. IsMap(tasks)
  BY RequestFacts DEF FetchAnswer, RequestOK
<1>2. k \in Nat /\ att \in Seq(Attributes) /\ size \in Nat /\ ids \subseteq Ids
  BY <1>1, AttFacts, FS_CardinalityType DEF IInv, IsMap
<1>3. PICK order \in Bijection(1..size, ids) :
          /\ att' = att \o [i \in DOMAIN order |-> tasks[order[i]]]
          /\ list' = [i \in DOMAIN order |-> k + i]
          /\ byId' = [id \in ids |-> k + (CHOOSE i \in DOMAIN order : order[i] = id)]
  BY DEF FetchAnswer
<1>4. /\ DOMAIN order = 1..size /\ \A i \in 1..size : order[i] \in ids
      /\ \A i, j \in 1..size : order[i] = order[j] => i = j
      /\ \A id \in ids : \E i \in 1..size : order[i] = id
  BY <1>3 DEF Bijection, Injection, Surjection, IsInjective
<1> DEFINE made == [i \in 1..size |-> tasks[order[i]]]
<1>5. made \in Seq(Attributes) /\ Len(made) = size
  <2>1. \A i \in 1..size : tasks[order[i]] \in Attributes
    BY <1>1, <1>4 DEF IsMap
  <2> HIDE DEF tasks, size
  <2>2. made \in [1..size -> Attributes]
    BY <2>1
  <2> HIDE DEF made
  <2> QED  BY <1>2, <2>2
<1>6. \A i \in 1..size : made[i] = tasks[order[i]] /\ made[i].id = order[i] /\ order[i] \in ids
  BY <1>1, <1>4 DEF IsMap
<1>7. att' = att \o made /\ list' = [i \in 1..size |-> k + i]
  BY <1>3, <1>4
<1>8. ASSUME NEW id \in ids PROVE \E i \in 1..size : order[i] = id /\ byId'[id] = k + i
  <2>1. PICK i \in 1..size : i = (CHOOSE j \in DOMAIN order : order[j] = id) /\ order[i] = id
    BY <1>4
  <2> QED  BY <1>3, <2>1
<1>9. DOMAIN byId' = ids
  BY <1>3
<1> HIDE DEF made, size, ids, tasks, k
<1>10. /\ att' \in Seq(Attributes) /\ Len(att') = k + size
       /\ \A c \in 1..(k + size) : att'[c] = IF c <= k THEN att[c] ELSE made[c - k]
  BY <1>2, <1>5, <1>7, ConcatProperties DEF k
<1>11. /\ \A c \in 1..k : att'[c] = att[c]
       /\ \A i \in 1..size : k + i \in 1..(k + size) /\ att'[k + i] = made[i]
  <2>1. \A c \in 1..k : c \in 1..(k + size) /\ c <= k
    BY <1>2
  <2>2. \A i \in 1..size : k + i \in 1..(k + size) /\ ~ (k + i <= k) /\ (k + i) - k = i
    BY <1>2
  <2> QED  BY <1>10, <2>1, <2>2
<1>12. /\ list' \in Seq(Nat) /\ DOMAIN list' = 1..size /\ \A i \in 1..size : list'[i] = k + i
  <2>1. list' \in [1..size -> Nat]
    BY <1>2, <1>7
  <2> QED  BY <1>2, <1>7, <2>1
<1>13. ToSet(list') = {k + i : i \in 1..size}
  BY <1>12 DEF ToSet
<1>14. ListOK(list', att')
  <2>1. IsInjective(list')
    <3> SUFFICES ASSUME NEW i \in 1..size, NEW j \in 1..size, list'[i] = list'[j] PROVE i = j
      BY <1>12 DEF IsInjective
    <3>1. k + i = k + j
      BY <1>12
    <3> QED  BY <1>2, <3>1
  <2>2. \A c \in ToSet(list') : c \in 1..Len(att')
    BY <1>10, <1>11, <1>13
  <2> QED  BY <1>12, <2>1, <2>2 DEF ListOK
<1>15. ASSUME NEW c \in ToSet(list')
       PROVE  c > k /\ att'[c].id \in ids /\ att'[c] = tasks[att'[c].id]
  <2>1. PICK i \in 1..size : c = k + i
    BY <1>13
  <2>2. att'[c] = tasks[order[i]] /\ att'[c].id = order[i] /\ order[i] \in ids
    BY <1>6, <1>11, <2>1
  <2>3. c > k
    BY <1>2, <2>1
  <2> QED  BY <2>2, <2>3
<1>16. ASSUME NEW c \in 1..Len(att'), c > k PROVE c \in ToSet(list')
  <2>1. c - k \in 1..size /\ c = k + (c - k)
    BY <1>2, <1>10, <1>16
  <2> QED  BY <1>13, <2>1
<1>17. ASSUME NEW id \in ids PROVE byId'[id] \in ToSet(list') /\ att'[byId'[id]].id = id
  <2>1. PICK i \in 1..size : order[i] = id /\ byId'[id] = k + i
    BY <1>8
  <2> QED  BY <1>6, <1>11, <1>13, <2>1
<1>18. ASSUME NEW c \in ToSet(list'), NEW d \in ToSet(list'), att'[c].id = att'[d].id PROVE c = d
  <2>1. PICK i \in 1..size : c = k + i
    BY <1>13
  <2>2. PICK j \in 1..size : d = k + j
    BY <1>13
  <2>3. order[i] = order[j]
    BY <1>6, <1>11, <1>18, <2>1, <2>2
  <2> QED  BY <1>4, <2>1, <2>2, <2>3
<1>19. Len(att') \in Nat /\ k <= Len(att')
  BY <1>2, <1>10
<1> QED  BY <1>1, <1>2, <1>9, <1>10, <1>11, <1>14, <1>15, <1>16, <1>17, <1>18, <1>19 DEF ids, tasks, k

LEMMA FetchAnswerInv == ASSUME IInv, NEW n \in DOMAIN net, FetchAnswer(n) PROVE IInv'
<1> DEFINE tasks == net[n].tasks
<1>1. /\ IsMap(tasks) /\ Len(att) \in Nat
      /\ att' \in Seq(Attributes) /\ ListOK(list', att') /\ Len(att') \in Nat /\ Len(att) <= Len(att')
      /\ \A c \in ToSet(list') : att'[c].id \in DOMAIN tasks
      /\ DOMAIN byId' = DOMAIN tasks
      /\ \A id \in DOMAIN tasks : byId'[id] \in ToSet(list') /\ att'[byId'[id]].id = id
      /\ \A c, d \in ToSet(list') : att'[c].id = att'[d].id => c = d
  BY Fetched
<1>2. shown' = Render(list', att') /\ net' = Without(net, n) /\ UNCHANGED tareas
  BY DEF FetchAnswer
<1> HIDE DEF tasks
<1>3. IndexOK(byId', list', att', collided')
  BY <1>1 DEF IndexOK, IsMap
<1>4. NetOK(net', Len(att'))
  BY <1>1, <1>2, NetShrinks, NetGrows DEF IInv
<1>5. PageOK(shown', list', att')
  BY <1>2, Rendered
<1> QED  BY <1>1, <1>2, <1>3, <1>4, <1>5 DEF IInv

LEMMA LostInv ==
  ASSUME IInv, NEW n \in DOMAIN net, DeleteAnswer(n) \/ Fail(n)
  PROVE  IInv'
<1>1. net' = Without(net, n) /\ UNCHANGED <<client, tareas, collided>>
  BY DEF DeleteAnswer, Fail
<1>2. NetOK(net', Len(att))
  BY <1>1, NetShrinks DEF IInv
<1> QED  BY <1>1, <1>2 DEF IInv, client

LEMMA StepInv == IInv /\ [Next]_vars => IInv'
<1> SUFFICES ASSUME IInv, [Next]_vars PROVE IInv'
  OBVIOUS
<1>1. CASE UNCHANGED vars
  BY <1>1 DEF vars, IInv
<1>2. ASSUME NEW n \in DOMAIN net, Handle(n) \/ Callback(n) \/ Fail(n) PROVE IInv'
  BY <1>2, HandleInv, SaveAnswerInv, FetchAnswerInv, LostInv DEF Callback
<1> QED  BY <1>1, <1>2, AddTaskInv, ClearInv, ToggleInv DEF Next

LEMMA Invariance == Spec => []IInv
  BY InitInv, StepInv, PTL DEF Spec

\* For any number of models, requests and ids: the list names models, the index
\* names tasks of the list, and every id that the server stores or answers is
\* one that it can have given.
THEOREM TypeCorrect == Spec => []TypeOK
<1>1. IInv => TypeOK
  <2> SUFFICES ASSUME IInv PROVE TypeOK
    OBVIOUS
  <2>1. \A c \in DOMAIN att : att[c] \in Attributes
    BY AttFacts DEF IInv
  <2>2. list \in Seq(DOMAIN att) /\ IsInjective(list)
    <3>1. DOMAIN att = 1..Len(att)
      BY AttFacts DEF IInv
    <3>2. Len(list) \in Nat /\ list \in [1..Len(list) -> Nat] /\ \A i \in 1..Len(list) : list[i] \in 1..Len(att)
      BY ListFacts, LenProperties DEF IInv, ListOK
    <3>3. list \in [1..Len(list) -> 1..Len(att)]
      BY <3>2
    <3>4. list \in Seq(1..Len(att))
      BY <3>2, <3>3
    <3> QED  BY <3>1, <3>4 DEF IInv, ListOK
  <2>3. DOMAIN byId \subseteq Nat /\ \A id \in DOMAIN byId : byId[id] \in ToSet(list)
    BY DEF IInv, IndexOK, Ids
  <2>4. \A i \in DOMAIN shown : shown[i].task \in DOMAIN att
    BY ListFacts, AttFacts DEF IInv, PageOK
  <2>5. \A id \in DOMAIN tareas : id > 0 /\ tareas[id] \in Attributes /\ tareas[id].id = id
    BY DEF IInv, IsMap, Ids
  <2>6. ASSUME NEW n \in DOMAIN net PROVE net[n].task \in 0..Len(att) /\ net[n].body \in Attributes
    <3>1. RequestOK(net[n], Len(att)) /\ Len(att) \in Nat
      BY RequestFacts, AttFacts DEF IInv
    <3> QED  BY <3>1 DEF RequestOK
  <2>7. DOMAIN net \subseteq 1..MaxFlight
    BY DEF IInv, NetOK
  <2> QED  BY <2>1, <2>2, <2>3, <2>4, <2>5, <2>6, <2>7 DEF TypeOK
<1> QED  BY <1>1, Invariance, PTL

\* After every event and every answer, each row of the page shows the task that
\* its buttons act on, with its present text and state, however many tasks there
\* are and in whatever order the answers come.
THEOREM ViewCurrent == Spec => []ViewIsCurrent
<1>1. IInv => ViewIsCurrent
  <2> SUFFICES ASSUME IInv PROVE ViewIsCurrent
    OBVIOUS
  <2>1. DOMAIN shown = DOMAIN list /\ DOMAIN list = 1..Len(list) /\ Len(list) \in Nat
    BY ListFacts DEF IInv, PageOK
  <2> QED  BY <2>1 DEF IInv, PageOK, ViewIsCurrent
<1> QED  BY <1>1, Invariance, PTL

\* The index by id never names a task that has left the list or has another id,
\* and misses no task of it as long as no two of them have had the same id.
THEOREM Indexed == Spec => []IndexedById
<1>1. IInv => IndexedById
  BY DEF IInv, IndexOK, IndexedById
<1> QED  BY <1>1, Invariance, PTL
------------------------------------------------------------------------------
(* Agreement: what holds in between while every task has at most one       *)
(* request and no two creates meet in the server.                          *)

\* Task c holds id k: the client knows it, or the request that will tell the
\* client, or the server, is on its way.
Has(c, k) ==
  \/ c \in ToSet(list) /\ att[c].id = k
  \/ \E n \in DOMAIN net : /\ net[n].task = c /\ net[n].body.id = k
                           /\ \/ net[n].op = "POST" /\ net[n].at = "answered"
                              \/ net[n].op = "DELETE" /\ net[n].at = "sent"

FetchOK(n) == net[n].op = "GET" => /\ Len(att) = 0
                                   /\ net[n].at = "answered" => net[n].tasks = tareas

CreateOK(n) ==
  net[n].op = "POST" =>
    /\ net[n].task \in ToSet(list) /\ att[net[n].task].id = 0
    /\ net[n].at = "creating" => /\ net[n].body.id \notin DOMAIN tareas
                                 /\ \A m \in DOMAIN net : net[m].at = "creating" => m = n
    /\ net[n].at = "answered" => /\ net[n].body.id \in DOMAIN tareas
                                 /\ tareas[net[n].body.id] = net[n].body

UpdateOK(n) ==
  net[n].op = "PUT" =>
    /\ net[n].task \in ToSet(list) /\ net[n].body = att[net[n].task]
    /\ net[n].body.id \in DOMAIN tareas
    /\ net[n].at = "answered" => tareas[net[n].body.id] = net[n].body

DeleteOK(n) ==
  net[n].op = "DELETE" =>
    /\ net[n].task \notin ToSet(list)
    /\ net[n].at = "sent" => net[n].body.id \in DOMAIN tareas

\* A task that no request is about is on the server as the client knows it.
Settled(c) == (\A n \in DOMAIN net : net[n].task # c) =>
                att[c].id \in DOMAIN tareas /\ tareas[att[c].id] = att[c]

Calm ==
  /\ ~ collided
  /\ \A n, m \in DOMAIN net : net[n].task = net[m].task => n = m
  /\ \A n \in DOMAIN net : FetchOK(n) /\ CreateOK(n) /\ UpdateOK(n) /\ DeleteOK(n)
  /\ \A c \in ToSet(list) : Settled(c)
  /\ \A k \in Ids : \A c, d : Has(c, k) /\ Has(d, k) => c = d
  /\ (\A n \in DOMAIN net : net[n].op # "GET") => \A k \in DOMAIN tareas : \E c : Has(c, k)

CInv == calm => Calm

LEMMA CalmFacts ==
  ASSUME IInv, Calm
  PROVE  /\ Len(att) \in Nat /\ DOMAIN tareas \subseteq Ids
         /\ \A c \in ToSet(list) : c \in 1..Len(att)
         /\ \A n \in DOMAIN net : net[n].op \in {"GET", "POST", "PUT", "DELETE"}
         /\ \A n \in DOMAIN net : net[n].at = "creating" => net[n].op = "POST"
         /\ \A n \in DOMAIN net : net[n].op = "GET" => DOMAIN net = {n} /\ net[n].task = 0
         /\ \A n \in DOMAIN net : net[n].op # "GET" => net[n].task \in 1..Len(att)
         /\ \A k \in Ids : \A c : Has(c, k) => k \in DOMAIN tareas
<1>1. /\ Len(att) \in Nat /\ DOMAIN tareas \subseteq Ids
      /\ \A c \in ToSet(list) : c \in 1..Len(att)
  BY AttFacts DEF IInv, IsMap, ListOK
<1>2. \A n \in DOMAIN net : RequestOK(net[n], Len(att))
  BY DEF IInv, NetOK
<1>3. \A n \in DOMAIN net : /\ net[n].op \in {"GET", "POST", "PUT", "DELETE"}
                            /\ net[n].at = "creating" => net[n].op = "POST"
                            /\ net[n].op = "GET" => net[n].task = 0
                            /\ net[n].op # "GET" => net[n].task \in 1..Len(att)
  BY <1>2 DEF RequestOK
<1>4. ASSUME NEW n \in DOMAIN net, net[n].op = "GET" PROVE DOMAIN net = {n}
  <2>1. Len(att) = 0 /\ net[n].task = 0
    BY <1>3, <1>4 DEF Calm, FetchOK
  <2>2. ASSUME NEW m \in DOMAIN net PROVE m = n
    <3>1. net[m].task = 0
      BY <1>3, <2>1
    <3> QED  BY <2>1, <3>1 DEF Calm
  <2> QED  BY <2>2
<1>5. ASSUME NEW k \in Ids, NEW c, Has(c, k) PROVE k \in DOMAIN tareas
  <2>1. CASE c \in ToSet(list) /\ att[c].id = k
    <3>1. CASE \A n \in DOMAIN net : net[n].task # c
      BY <2>1, <3>1 DEF Calm, Settled
    <3>2. ASSUME NEW n \in DOMAIN net, net[n].task = c PROVE k \in DOMAIN tareas
      <4>1. net[n].op # "GET" /\ net[n].op # "POST" /\ net[n].op # "DELETE"
        BY <1>1, <1>3, <2>1, <3>2 DEF Calm, CreateOK, DeleteOK, Ids
      <4> QED  BY <1>3, <2>1, <3>2, <4>1 DEF Calm, UpdateOK
    <3> QED  BY <3>1, <3>2
  <2>2. CASE ~ (c \in ToSet(list) /\ att[c].id = k)
    BY <1>5, <2>2 DEF Has, Calm, CreateOK, DeleteOK
  <2> QED  BY <2>1, <2>2
<1> QED  BY <1>1, <1>3, <1>4, <1>5

LEMMA InitCalm == Init => CInv
<1> SUFFICES ASSUME Init PROVE Calm
  BY DEF CInv
<1>1. /\ att = <<>> /\ Len(att) = 0 /\ list = <<>> /\ collided = FALSE /\ ToSet(list) = {}
      /\ net = <<Request("GET", 0, NoBody)>>
  BY DEF Init, ToSet
<1>2. /\ DOMAIN net = {1} /\ net[1].op = "GET" /\ net[1].at = "sent"
  BY <1>1 DEF Request
<1> QED  BY <1>1, <1>2 DEF Calm, FetchOK, CreateOK, UpdateOK, DeleteOK, Has

LEMMA AddTaskCalm ==
  ASSUME IInv, Calm, AddTask, calm'
  PROVE  Calm'
<1> DEFINE c == Len(att) + 1
           a == [id |-> 0, text |-> c, done |-> FALSE]
<1>1. /\ Len(att') = c /\ att'[c] = a /\ \A d \in 1..Len(att) : att'[d] = att[d]
      /\ ToSet(list') = ToSet(list) \cup {c} /\ c \notin ToSet(list)
  BY Added
<1>2. /\ Room(1) /\ net' = Send(net, SaveRequest(c, a)) /\ ~ Overlaps(c)
      /\ UNCHANGED <<byId, tareas, collided>>
  BY DEF AddTask
<1>3. SaveRequest(c, a) = Request("POST", c, a) /\ a.id = 0 /\ a \in Attributes
  BY Added DEF SaveRequest
<1>4. c \in Nat /\ Len(att) <= c /\ c \in 1..c /\ c \notin 1..Len(att)
  BY AttFacts DEF IInv
<1> HIDE DEF c, a
<1>5. PICK p : /\ p \notin DOMAIN net /\ DOMAIN net' = DOMAIN net \cup {p}
               /\ net'[p] = Request("POST", c, a) /\ \A n \in DOMAIN net : net'[n] = net[n]
  <2> DEFINE r == Request("POST", c, a)
  <2>1. RequestOK(r, c) /\ net' = Send(net, r)
    BY <1>2, <1>3, <1>4, NewRequest
  <2> HIDE DEF r
  <2>2. \E p : /\ p \notin DOMAIN net /\ DOMAIN Send(net, r) = DOMAIN net \cup {p}
               /\ Send(net, r)[p] = r /\ \A n \in DOMAIN net : Send(net, r)[n] = net[n]
    BY <1>2, <1>4, <2>1, Sent
  <2> QED  BY <2>1, <2>2 DEF r
<1>6. net'[p].op = "POST" /\ net'[p].task = c /\ net'[p].at = "sent" /\ net'[p].body = a
  BY <1>5 DEF Request
<1>7. \A n \in DOMAIN net : net[n].op # "GET" /\ net[n].task \in 1..Len(att)
  BY <1>2, CalmFacts DEF Overlaps
<1>8. \A d \in ToSet(list) : d \in 1..Len(att) /\ d \in ToSet(list') /\ att'[d] = att[d]
  BY <1>1, CalmFacts
<1>9. \A n, m \in DOMAIN net' : net'[n].task = net'[m].task => n = m
  BY <1>4, <1>5, <1>6, <1>7 DEF Calm
<1>10. ASSUME NEW n \in DOMAIN net' PROVE (FetchOK(n) /\ CreateOK(n) /\ UpdateOK(n) /\ DeleteOK(n))'
  <2>1. CASE n = p
    BY <1>1, <1>3, <1>6, <2>1 DEF FetchOK, CreateOK, UpdateOK, DeleteOK
  <2>2. CASE n \in DOMAIN net
    <3>1. net'[n] = net[n] /\ net[n].task \in 1..Len(att) /\ net[n].op # "GET"
      BY <1>5, <1>7, <2>2
    <3>2. net[n].task \in ToSet(list') <=> net[n].task \in ToSet(list)
      BY <1>1, <1>4, <3>1
    <3>3. \A m \in DOMAIN net' : net'[m].at = "creating" => m \in DOMAIN net /\ net[m].at = "creating"
      BY <1>5, <1>6
    <3>4. FetchOK(n) /\ CreateOK(n) /\ UpdateOK(n) /\ DeleteOK(n)
      BY <2>2 DEF Calm
    <3> QED  BY <1>2, <1>8, <3>1, <3>2, <3>3, <3>4 DEF FetchOK, CreateOK, UpdateOK, DeleteOK
  <2> QED  BY <1>5, <2>1, <2>2
<1>11. ASSUME NEW d \in ToSet(list') PROVE Settled(d)'
  <2>1. CASE d = c
    BY <1>5, <1>6, <2>1 DEF Settled
  <2>2. CASE d \in ToSet(list)
    <3>1. Settled(d)
      BY <2>2 DEF Calm
    <3> QED  BY <1>2, <1>5, <1>8, <2>2, <3>1 DEF Settled
  <2> QED  BY <1>1, <2>1, <2>2
<1>12. ASSUME NEW k \in Ids, NEW d PROVE Has(d, k)' <=> Has(d, k)
  <2>1. (d \in ToSet(list') /\ att'[d].id = k) <=> (d \in ToSet(list) /\ att[d].id = k)
    BY <1>1, <1>3, <1>8 DEF Ids
  <2>2. (\E n \in DOMAIN net' : /\ net'[n].task = d /\ net'[n].body.id = k
                                /\ \/ net'[n].op = "POST" /\ net'[n].at = "answered"
                                   \/ net'[n].op = "DELETE" /\ net'[n].at = "sent")
        <=> (\E n \in DOMAIN net : /\ net[n].task = d /\ net[n].body.id = k
                                   /\ \/ net[n].op = "POST" /\ net[n].at = "answered"
                                      \/ net[n].op = "DELETE" /\ net[n].at = "sent")
    BY <1>5, <1>6
  <2> QED  BY <2>1, <2>2 DEF Has
<1>13. /\ \A k \in Ids : \A d, e : Has(d, k)' /\ Has(e, k)' => d = e
       /\ \A k \in DOMAIN tareas' : \E d : Has(d, k)'
  BY <1>2, <1>7, <1>12, CalmFacts DEF Calm
<1> QED  BY <1>2, <1>9, <1>10, <1>11, <1>13 DEF Calm

LEMMA ToggleCalm ==
  ASSUME IInv, Calm, NEW i \in DOMAIN shown, Toggle(i), calm'
  PROVE  Calm'
<1>1. PICK c : c = list[i]
  OBVIOUS
<1>2. /\ c \in ToSet(list) /\ c \in 1..Len(att) /\ shown[i].task = c
      /\ att' \in Seq(Attributes) /\ Len(att') = Len(att)
      /\ \A d \in 1..Len(att) : att'[d].id = att[d].id
      /\ \A d \in 1..Len(att) : d # c => att'[d] = att[d]
      /\ net' = Send(net, SaveRequest(c, att'[c]))
  BY <1>1, Toggled
<1>3. Room(1) /\ ~ Overlaps(c) /\ UNCHANGED <<list, byId, tareas, collided>>
  BY <1>2 DEF Toggle
<1>4. \A n \in DOMAIN net : net[n].op # "GET" /\ net[n].task \in 1..Len(att) /\ net[n].task # c
  BY <1>3, CalmFacts DEF Overlaps
<1>5. att[c].id \in DOMAIN tareas /\ att[c].id \in Ids /\ Len(att) \in Nat
  BY <1>2, <1>4, CalmFacts DEF Calm, Settled
<1>6. PICK a : a = att'[c] /\ a \in Attributes /\ a.id = att[c].id
  BY <1>2, ElementOfSeq
<1>7. PICK p : /\ p \notin DOMAIN net /\ DOMAIN net' = DOMAIN net \cup {p}
               /\ net'[p] = Request("PUT", c, a) /\ \A n \in DOMAIN net : net'[n] = net[n]
  <2> DEFINE r == Request("PUT", c, a)
  <2>1. net' = Send(net, r)
    BY <1>2, <1>5, <1>6 DEF SaveRequest, Ids
  <2>2. RequestOK(r, Len(att))
    BY <1>2, <1>5, <1>6, NewRequest DEF Ids
  <2> HIDE DEF r
  <2>3. \E p : /\ p \notin DOMAIN net /\ DOMAIN Send(net, r) = DOMAIN net \cup {p}
               /\ Send(net, r)[p] = r /\ \A n \in DOMAIN net : Send(net, r)[n] = net[n]
    <3>1. Room(1) /\ Len(att) \in Nat /\ Len(att) <= Len(att)
      BY <1>3, <1>5
    <3> QED  BY <2>2, <3>1, Sent
  <2> QED  BY <2>1, <2>3 DEF r
<1>8. net'[p].op = "PUT" /\ net'[p].task = c /\ net'[p].at = "sent" /\ net'[p].body = a
  BY <1>7 DEF Request
<1>9. \A d \in ToSet(list) : d \in 1..Len(att)
  BY CalmFacts
<1>10. \A n, m \in DOMAIN net' : net'[n].task = net'[m].task => n = m
  BY <1>4, <1>7, <1>8 DEF Calm
<1>11. ASSUME NEW n \in DOMAIN net' PROVE (FetchOK(n) /\ CreateOK(n) /\ UpdateOK(n) /\ DeleteOK(n))'
  <2>1. CASE n = p
    BY <1>2, <1>3, <1>5, <1>6, <1>8, <2>1 DEF FetchOK, CreateOK, UpdateOK, DeleteOK
  <2>2. CASE n \in DOMAIN net
    <3>1. net'[n] = net[n] /\ net[n].op # "GET" /\ att'[net[n].task] = att[net[n].task]
      BY <1>2, <1>4, <1>7, <2>2
    <3>2. \A m \in DOMAIN net' : net'[m].at = "creating" => m \in DOMAIN net /\ net[m].at = "creating"
      BY <1>7, <1>8
    <3>3. FetchOK(n) /\ CreateOK(n) /\ UpdateOK(n) /\ DeleteOK(n)
      BY <2>2 DEF Calm
    <3> QED  BY <1>3, <3>1, <3>2, <3>3 DEF FetchOK, CreateOK, UpdateOK, DeleteOK
  <2> QED  BY <1>7, <2>1, <2>2
<1>12. ASSUME NEW d \in ToSet(list') PROVE Settled(d)'
  <2>1. CASE d = c
    BY <1>7, <1>8, <2>1 DEF Settled
  <2>2. CASE d # c
    <3>1. Settled(d) /\ att'[d] = att[d]
      BY <1>2, <1>3, <1>9, <2>2 DEF Calm
    <3> QED  BY <1>3, <1>7, <3>1 DEF Settled
  <2> QED  BY <2>1, <2>2
<1>13. ASSUME NEW k \in Ids, NEW d PROVE Has(d, k)' <=> Has(d, k)
  <2>1. (d \in ToSet(list') /\ att'[d].id = k) <=> (d \in ToSet(list) /\ att[d].id = k)
    BY <1>2, <1>3, <1>9
  <2>2. (\E n \in DOMAIN net' : /\ net'[n].task = d /\ net'[n].body.id = k
                                /\ \/ net'[n].op = "POST" /\ net'[n].at = "answered"
                                   \/ net'[n].op = "DELETE" /\ net'[n].at = "sent")
        <=> (\E n \in DOMAIN net : /\ net[n].task = d /\ net[n].body.id = k
                                   /\ \/ net[n].op = "POST" /\ net[n].at = "answered"
                                      \/ net[n].op = "DELETE" /\ net[n].at = "sent")
    BY <1>7, <1>8
  <2> QED  BY <2>1, <2>2 DEF Has
<1>14. /\ \A k \in Ids : \A d, e : Has(d, k)' /\ Has(e, k)' => d = e
       /\ \A k \in DOMAIN tareas' : \E d : Has(d, k)'
  BY <1>3, <1>4, <1>13, CalmFacts DEF Calm
<1> QED  BY <1>3, <1>10, <1>11, <1>12, <1>14 DEF Calm

LEMMA ClearCalm ==
  ASSUME IInv, Calm, Clear, calm'
  PROVE  Calm'
<1>1. /\ Room(Cardinality(Completed)) /\ list' = Cleared.list /\ net' = Cleared.net
      /\ UNCHANGED <<att, tareas, collided>> /\ \A c \in Completed : ~ Overlaps(c)
  BY DEF Clear
<1>2. PICK c0 : c0 \in Completed
  <2>1. PICK i \in DOMAIN shown : shown[i].done
    BY DEF Clear
  <2>2. i \in 1..Len(list) /\ shown[i] = [task |-> list[i], text |-> att[list[i]].text, done |-> att[list[i]].done]
    BY ListFacts DEF IInv, PageOK
  <2>3. list[i] \in ToSet(list) /\ att[list[i]].done
    BY <2>1, <2>2, ListFacts DEF IInv
  <2> QED  BY <2>3 DEF Completed
<1>3. \A n \in DOMAIN net : /\ net[n].op # "GET" /\ net[n].task \in 1..Len(att)
                            /\ net[n].task \notin Completed
  BY <1>1, <1>2, CalmFacts DEF Overlaps
<1>4. /\ ToSet(list') = ToSet(list) \ Completed
      /\ \A n \in DOMAIN net : n \in DOMAIN net' /\ net'[n] = net[n]
      /\ \A n \in DOMAIN net' \ DOMAIN net : Deletes(net'[n], Completed)
      /\ \A c \in Completed : att[c].id > 0 => \E n \in DOMAIN net' \ DOMAIN net : net'[n].task = c
      /\ \A n, m \in DOMAIN net' \ DOMAIN net : net'[n].task = net'[m].task => n = m
  BY <1>1, ClearedAll DEF Halfway, Calm
<1>5. \A n \in DOMAIN net' \ DOMAIN net :
        /\ net'[n].op = "DELETE" /\ net'[n].at = "sent" /\ net'[n].task \in Completed
        /\ net'[n].body = att[net'[n].task]
  BY <1>4 DEF Deletes, Request
<1>6. Completed \subseteq ToSet(list)
  BY DEF Completed
<1>7. \A c \in Completed : att[c].id \in DOMAIN tareas /\ att[c].id > 0
  <2> SUFFICES ASSUME NEW c \in Completed PROVE att[c].id \in DOMAIN tareas /\ att[c].id > 0
    OBVIOUS
  <2>1. Settled(c) /\ \A n \in DOMAIN net : net[n].task # c
    BY <1>3, <1>6 DEF Calm
  <2>2. att[c].id \in DOMAIN tareas
    BY <2>1 DEF Settled
  <2> QED  BY <2>2, CalmFacts DEF Ids
<1>8. \A n, m \in DOMAIN net' : net'[n].task = net'[m].task => n = m
  <2> SUFFICES ASSUME NEW n \in DOMAIN net', NEW m \in DOMAIN net', net'[n].task = net'[m].task
               PROVE  n = m
    OBVIOUS
  <2>1. CASE n \in DOMAIN net /\ m \in DOMAIN net
    BY <1>4, <2>1 DEF Calm
  <2>2. CASE n \notin DOMAIN net /\ m \notin DOMAIN net
    BY <1>4, <2>2
  <2>3. CASE n \in DOMAIN net /\ m \notin DOMAIN net
    BY <1>3, <1>4, <1>5, <2>3
  <2>4. CASE n \notin DOMAIN net /\ m \in DOMAIN net
    BY <1>3, <1>4, <1>5, <2>4
  <2> QED  BY <2>1, <2>2, <2>3, <2>4
<1>9. ASSUME NEW n \in DOMAIN net' PROVE (FetchOK(n) /\ CreateOK(n) /\ UpdateOK(n) /\ DeleteOK(n))'
  <2>1. CASE n \notin DOMAIN net
    <3>1. net'[n].op = "DELETE" /\ net'[n].task \notin ToSet(list') /\ net'[n].body.id \in DOMAIN tareas'
      BY <1>1, <1>4, <1>5, <1>7, <2>1
    <3> QED  BY <3>1 DEF FetchOK, CreateOK, UpdateOK, DeleteOK
  <2>2. CASE n \in DOMAIN net
    <3>1. net'[n] = net[n] /\ net[n].op # "GET"
          /\ (net[n].task \in ToSet(list') <=> net[n].task \in ToSet(list))
      BY <1>3, <1>4, <2>2
    <3>2. \A m \in DOMAIN net' : net'[m].at = "creating" => m \in DOMAIN net /\ net[m].at = "creating"
      BY <1>4, <1>5
    <3>3. FetchOK(n) /\ CreateOK(n) /\ UpdateOK(n) /\ DeleteOK(n)
      BY <2>2 DEF Calm
    <3> QED  BY <1>1, <3>1, <3>2, <3>3 DEF FetchOK, CreateOK, UpdateOK, DeleteOK
  <2> QED  BY <2>1, <2>2
<1>10. ASSUME NEW c \in ToSet(list') PROVE Settled(c)'
  <2>1. Settled(c) /\ c \notin Completed
    BY <1>4 DEF Calm
  <2>2. (\A n \in DOMAIN net' : net'[n].task # c) => \A n \in DOMAIN net : net[n].task # c
    BY <1>4
  <2> QED  BY <1>1, <2>1, <2>2 DEF Settled
<1>11. ASSUME NEW k \in Ids, NEW c PROVE Has(c, k)' <=> Has(c, k)
  <2>1. ASSUME Has(c, k)' PROVE Has(c, k)
    <3>1. CASE c \in ToSet(list') /\ att'[c].id = k
      BY <1>1, <1>4, <3>1 DEF Has
    <3>2. ASSUME NEW n \in DOMAIN net', net'[n].task = c, net'[n].body.id = k,
                 \/ net'[n].op = "POST" /\ net'[n].at = "answered"
                 \/ net'[n].op = "DELETE" /\ net'[n].at = "sent"
          PROVE  Has(c, k)
      <4>1. CASE n \in DOMAIN net
        BY <1>4, <3>2, <4>1 DEF Has
      <4>2. CASE n \notin DOMAIN net
        BY <1>5, <1>6, <3>2, <4>2 DEF Has
      <4> QED  BY <4>1, <4>2
    <3> QED  BY <2>1, <3>1, <3>2 DEF Has
  <2>2. ASSUME Has(c, k) PROVE Has(c, k)'
    <3>1. CASE c \in ToSet(list) /\ att[c].id = k /\ c \notin Completed
      BY <1>1, <1>4, <3>1 DEF Has
    <3>2. CASE c \in Completed /\ att[c].id = k
      <4>1. PICK n \in DOMAIN net' \ DOMAIN net : net'[n].task = c
        BY <1>4, <1>7, <3>2
      <4> QED  BY <1>5, <3>2, <4>1 DEF Has
    <3>3. ASSUME NEW n \in DOMAIN net, net[n].task = c, net[n].body.id = k,
                 \/ net[n].op = "POST" /\ net[n].at = "answered"
                 \/ net[n].op = "DELETE" /\ net[n].at = "sent"
          PROVE  Has(c, k)'
      BY <1>4, <3>3 DEF Has
    <3> QED  BY <2>2, <3>1, <3>2, <3>3 DEF Has
  <2> QED  BY <2>1, <2>2
<1>12. /\ \A k \in Ids : \A d, e : Has(d, k)' /\ Has(e, k)' => d = e
       /\ \A k \in DOMAIN tareas' : \E d : Has(d, k)'
  BY <1>1, <1>3, <1>11, CalmFacts DEF Calm
<1> QED  BY <1>1, <1>8, <1>9, <1>10, <1>12 DEF Calm

\* What a handler of the server changes in a request it answers.
LEMMA AnsweredFields ==
  ASSUME IInv, NEW n \in DOMAIN net, net' = Answered(n)
  PROVE  /\ DOMAIN net' = DOMAIN net /\ net'[n].at = "answered"
         /\ \A m \in DOMAIN net : m # n => net'[m] = net[m]
         /\ \A m \in DOMAIN net : /\ net'[m].op = net[m].op /\ net'[m].task = net[m].task
                                  /\ net'[m].body = net[m].body
<1> DEFINE r == [op |-> net[n].op, task |-> net[n].task, body |-> net[n].body,
                 at |-> "answered", tasks |-> net[n].tasks]
<1>1. net' = [net EXCEPT ![n] = r]
  BY AnsweredRequest
<1>2. r.at = "answered" /\ r.op = net[n].op /\ r.task = net[n].task /\ r.body = net[n].body
  OBVIOUS
<1> HIDE DEF r
<1>3. DOMAIN net' = DOMAIN net /\ net'[n] = r /\ \A m \in DOMAIN net : m # n => net'[m] = net[m]
  BY <1>1
<1> QED  BY <1>2, <1>3

LEMMA CreateReadsIdCalm ==
  ASSUME IInv, Calm, NEW n \in DOMAIN net, CreateReadsId(n), calm'
  PROVE  Calm'
<1>1. /\ net[n].op = "POST" /\ net[n].at = "sent"
      /\ net' = [net EXCEPT ![n].at = "creating", ![n].body.id = NewId(tareas)]
      /\ \A m \in DOMAIN net : net[m].at # "creating"
      /\ UNCHANGED <<att, list, tareas, collided>>
  BY DEF CreateReadsId, client
<1>2. NewId(tareas) \notin DOMAIN tareas
  BY NewIdIsFresh DEF IInv
<1>3. /\ DOMAIN net' = DOMAIN net /\ net'[n].at = "creating" /\ net'[n].op = "POST"
      /\ net'[n].task = net[n].task /\ net'[n].body.id = NewId(tareas)
      /\ \A m \in DOMAIN net : m # n => net'[m] = net[m]
  <2> DEFINE q == [net[n] EXCEPT !.at = "creating"]
             b == [net[n].body EXCEPT !.id = NewId(tareas)]
             r == [q EXCEPT !.body = [q.body EXCEPT !.id = NewId(tareas)]]
  <2>1. q = [op |-> "POST", task |-> net[n].task, body |-> net[n].body,
             at |-> "creating", tasks |-> net[n].tasks]
    <3>1. net[n] = [op |-> "POST", task |-> net[n].task, body |-> net[n].body,
                    at |-> net[n].at, tasks |-> net[n].tasks]
      BY <1>1, RequestFacts
    <3> QED  BY <3>1
  <2>2. net' = [[net EXCEPT ![n] = q] EXCEPT ![n] = r]
    BY <1>1
  <2>3. b.id = NewId(tareas)
    BY RequestFacts
  <2>4. r = [op |-> "POST", task |-> net[n].task, body |-> b, at |-> "creating", tasks |-> net[n].tasks]
    <3>1. ASSUME NEW e
          PROVE  [q EXCEPT !.body = e] = [op |-> "POST", task |-> net[n].task, body |-> e,
                                          at |-> "creating", tasks |-> net[n].tasks]
      <4> HIDE DEF q
      <4> QED  BY <2>1
    <3>2. q.body = net[n].body
      BY <2>1
    <3> QED  BY <3>1, <3>2
  <2> HIDE DEF q, b, r
  <2>5. DOMAIN net' = DOMAIN net /\ net'[n] = r /\ \A m \in DOMAIN net : m # n => net'[m] = net[m]
    BY <2>2
  <2>6. r.at = "creating" /\ r.op = "POST" /\ r.task = net[n].task /\ r.body = b
    BY <2>4
  <2> QED  BY <2>3, <2>5, <2>6
<1>4. \A m \in DOMAIN net : net'[m].op = net[m].op /\ net'[m].task = net[m].task
  BY <1>1, <1>3
<1>5. \A m, p \in DOMAIN net' : net'[m].task = net'[p].task => m = p
  BY <1>3, <1>4 DEF Calm
<1>6. ASSUME NEW m \in DOMAIN net' PROVE (FetchOK(m) /\ CreateOK(m) /\ UpdateOK(m) /\ DeleteOK(m))'
  <2>1. FetchOK(m) /\ CreateOK(m) /\ UpdateOK(m) /\ DeleteOK(m)
    BY <1>3 DEF Calm
  <2>2. CASE m = n
    <3>1. \A p \in DOMAIN net' : net'[p].at = "creating" => p = n
      BY <1>1, <1>3
    <3> QED  BY <1>1, <1>2, <1>3, <2>1, <2>2, <3>1 DEF FetchOK, CreateOK, UpdateOK, DeleteOK
  <2>3. CASE m # n
    BY <1>1, <1>3, <2>1, <2>3 DEF FetchOK, CreateOK, UpdateOK, DeleteOK
  <2> QED  BY <2>2, <2>3
<1>7. \A c \in ToSet(list') : Settled(c)'
  BY <1>1, <1>3, <1>4 DEF Calm, Settled
<1>8. ASSUME NEW k, NEW c PROVE Has(c, k)' <=> Has(c, k)
  <2>1. \A m \in DOMAIN net : (\/ net[m].op = "POST" /\ net[m].at = "answered"
                               \/ net[m].op = "DELETE" /\ net[m].at = "sent") => m # n
    BY <1>1
  <2>2. \A m \in DOMAIN net : (\/ net'[m].op = "POST" /\ net'[m].at = "answered"
                               \/ net'[m].op = "DELETE" /\ net'[m].at = "sent") => m # n
    BY <1>3
  <2> QED  BY <1>1, <1>3, <2>1, <2>2 DEF Has
<1>9. (\A m \in DOMAIN net' : net'[m].op # "GET") <=> (\A m \in DOMAIN net : net[m].op # "GET")
  BY <1>3, <1>4
<1>10. \A k \in Ids : \A c, d : Has(c, k)' /\ Has(d, k)' => c = d
  BY <1>8 DEF Calm
<1>11. (\A m \in DOMAIN net' : net'[m].op # "GET") => \A k \in DOMAIN tareas' : \E c : Has(c, k)'
  BY <1>1, <1>8, <1>9 DEF Calm
<1> QED  BY <1>1, <1>5, <1>6, <1>7, <1>10, <1>11 DEF Calm

LEMMA CreatePutsCalm ==
  ASSUME IInv, Calm, NEW n \in DOMAIN net, CreatePuts(n)
  PROVE  Calm'
<1>1. /\ net[n].at = "creating" /\ tareas' = Put(tareas, net[n].body.id, net[n].body)
      /\ net' = Answered(n) /\ UNCHANGED <<att, list, collided>>
  BY DEF CreatePuts, client
<1>2. PICK b : b = net[n].body
  OBVIOUS
<1>3. net[n].op = "POST" /\ b.id \in Ids /\ b \in Attributes
  <2>1. net[n].op = "POST"
    BY <1>1, CalmFacts
  <2> QED  BY <1>1, <1>2, <2>1, HasId, RequestFacts
<1>4. /\ DOMAIN tareas' = DOMAIN tareas \cup {b.id} /\ tareas'[b.id] = b
      /\ \A k \in DOMAIN tareas : k # b.id => tareas'[k] = tareas[k]
  BY <1>1, <1>2, <1>3, PutTarea DEF IInv
<1>5. /\ DOMAIN net' = DOMAIN net /\ net'[n].at = "answered"
      /\ \A m \in DOMAIN net : m # n => net'[m] = net[m]
      /\ \A m \in DOMAIN net : /\ net'[m].op = net[m].op /\ net'[m].task = net[m].task
                               /\ net'[m].body = net[m].body
  BY <1>1, AnsweredFields
<1>6. b.id \notin DOMAIN tareas /\ \A m \in DOMAIN net : net[m].at = "creating" => m = n
  BY <1>1, <1>2, <1>3 DEF Calm, CreateOK
<1>7. \A m \in DOMAIN net : net[m].op # "GET"
  BY <1>3, CalmFacts
<1>8. ASSUME NEW m \in DOMAIN net' PROVE (FetchOK(m) /\ CreateOK(m) /\ UpdateOK(m) /\ DeleteOK(m))'
  <2>1. FetchOK(m) /\ CreateOK(m) /\ UpdateOK(m) /\ DeleteOK(m)
    BY <1>5 DEF Calm
  <2>2. CASE m = n
    BY <1>1, <1>2, <1>3, <1>4, <1>5, <2>1, <2>2 DEF FetchOK, CreateOK, UpdateOK, DeleteOK
  <2>3. CASE m # n
    <3>1. net'[m] = net[m] /\ net[m].at # "creating" /\ net[m].op # "GET"
      BY <1>5, <1>6, <1>7, <2>3
    <3> QED  BY <1>1, <1>4, <1>6, <2>1, <3>1 DEF FetchOK, CreateOK, UpdateOK, DeleteOK
  <2> QED  BY <2>2, <2>3
<1>9. \A m, p \in DOMAIN net' : net'[m].task = net'[p].task => m = p
  BY <1>5 DEF Calm
<1>10. \A c \in ToSet(list') : Settled(c)'
  <2> SUFFICES ASSUME NEW c \in ToSet(list), \A m \in DOMAIN net' : net'[m].task # c
               PROVE  att[c].id \in DOMAIN tareas' /\ tareas'[att[c].id] = att[c]
    BY <1>1 DEF Settled
  <2>1. att[c].id \in DOMAIN tareas /\ tareas[att[c].id] = att[c]
    BY <1>5 DEF Calm, Settled
  <2> QED  BY <1>4, <1>6, <2>1
<1>11. ASSUME NEW k, NEW c PROVE Has(c, k)' <=> Has(c, k) \/ (c = net[n].task /\ k = b.id)
  <2>1. ASSUME Has(c, k)' PROVE Has(c, k) \/ (c = net[n].task /\ k = b.id)
    <3>1. CASE c \in ToSet(list) /\ att[c].id = k
      BY <3>1 DEF Has
    <3>2. ASSUME NEW m \in DOMAIN net', net'[m].task = c, net'[m].body.id = k,
                 \/ net'[m].op = "POST" /\ net'[m].at = "answered"
                 \/ net'[m].op = "DELETE" /\ net'[m].at = "sent"
          PROVE  Has(c, k) \/ (c = net[n].task /\ k = b.id)
      BY <1>2, <1>5, <3>2 DEF Has
    <3> QED  BY <1>1, <2>1, <3>1, <3>2 DEF Has
  <2>2. ASSUME Has(c, k) PROVE Has(c, k)'
    <3>1. CASE c \in ToSet(list) /\ att[c].id = k
      BY <1>1, <3>1 DEF Has
    <3>2. ASSUME NEW m \in DOMAIN net, net[m].task = c, net[m].body.id = k,
                 \/ net[m].op = "POST" /\ net[m].at = "answered"
                 \/ net[m].op = "DELETE" /\ net[m].at = "sent"
          PROVE  Has(c, k)'
      <4>1. m # n
        BY <1>1, <1>3, <3>2
      <4> QED  BY <1>5, <3>2, <4>1 DEF Has
    <3> QED  BY <2>2, <3>1, <3>2 DEF Has
  <2>3. ASSUME c = net[n].task, k = b.id PROVE Has(c, k)'
    BY <1>2, <1>3, <1>5, <2>3 DEF Has
  <2> QED  BY <2>1, <2>2, <2>3
<1>12. \A c : ~ Has(c, b.id)
  BY <1>3, <1>6, CalmFacts
<1>13. \A k \in Ids : \A c, d : Has(c, k)' /\ Has(d, k)' => c = d
  BY <1>11, <1>12 DEF Calm
<1>14. \A k \in DOMAIN tareas' : \E c : Has(c, k)'
  BY <1>4, <1>7, <1>11 DEF Calm
<1> QED  BY <1>1, <1>8, <1>9, <1>10, <1>13, <1>14 DEF Calm

LEMMA UpdateTareaCalm ==
  ASSUME IInv, Calm, NEW n \in DOMAIN net, UpdateTarea(n)
  PROVE  Calm'
<1>1. /\ net[n].op = "PUT" /\ net[n].at = "sent"
      /\ tareas' = Put(tareas, net[n].body.id, net[n].body)
      /\ net' = Answered(n) /\ UNCHANGED <<att, list, collided>>
  BY DEF UpdateTarea, client
<1>2. PICK b : b = net[n].body
  OBVIOUS
<1>3. b.id \in Ids /\ b \in Attributes
  BY <1>1, <1>2, HasId, RequestFacts
<1>4. /\ b.id \in DOMAIN tareas /\ b = att[net[n].task] /\ net[n].task \in ToSet(list)
      /\ Has(net[n].task, b.id)
  BY <1>1, <1>2 DEF Calm, UpdateOK, Has
<1>5. /\ DOMAIN tareas' = DOMAIN tareas /\ tareas'[b.id] = b
      /\ \A k \in DOMAIN tareas : k # b.id => tareas'[k] = tareas[k]
  <2>1. /\ DOMAIN tareas' = DOMAIN tareas \cup {b.id} /\ tareas'[b.id] = b
        /\ \A k \in DOMAIN tareas : k # b.id => tareas'[k] = tareas[k]
    BY <1>1, <1>2, <1>3, PutTarea DEF IInv
  <2> QED  BY <1>4, <2>1
<1>6. /\ DOMAIN net' = DOMAIN net /\ net'[n].at = "answered"
      /\ \A m \in DOMAIN net : m # n => net'[m] = net[m]
      /\ \A m \in DOMAIN net : /\ net'[m].op = net[m].op /\ net'[m].task = net[m].task
                               /\ net'[m].body = net[m].body
  BY <1>1, AnsweredFields
<1>7. \A m \in DOMAIN net : net[m].op # "GET"
  BY <1>1, CalmFacts
<1>8. \A c : Has(c, b.id) => c = net[n].task
  BY <1>3, <1>4 DEF Calm
<1>9. ASSUME NEW m \in DOMAIN net' PROVE (FetchOK(m) /\ CreateOK(m) /\ UpdateOK(m) /\ DeleteOK(m))'
  <2>1. FetchOK(m) /\ CreateOK(m) /\ UpdateOK(m) /\ DeleteOK(m)
    BY <1>6 DEF Calm
  <2>2. CASE m = n
    BY <1>1, <1>2, <1>4, <1>5, <1>6, <2>1, <2>2 DEF FetchOK, CreateOK, UpdateOK, DeleteOK
  <2>3. CASE m # n
    <3>1. net'[m] = net[m] /\ net[m].op # "GET" /\ net[m].task # net[n].task
      BY <1>6, <1>7, <2>3 DEF Calm
    <3>2. \A p \in DOMAIN net' : net'[p].at = "creating" => p \in DOMAIN net /\ net[p].at = "creating"
      BY <1>6
    <3>3. (net[m].op = "POST" /\ net[m].at = "answered") \/ net[m].op = "PUT" => net[m].body.id # b.id
      <4>1. CASE net[m].op = "POST" /\ net[m].at = "answered"
        <5>1. Has(net[m].task, net[m].body.id)
          BY <1>6, <4>1 DEF Has
        <5> QED  BY <1>8, <3>1, <5>1
      <4>2. CASE net[m].op = "PUT"
        <5>1. Has(net[m].task, net[m].body.id)
          BY <2>1, <4>2 DEF Has, UpdateOK
        <5> QED  BY <1>8, <3>1, <5>1
      <4> QED  BY <4>1, <4>2
    <3> QED  BY <1>1, <1>5, <2>1, <3>1, <3>2, <3>3 DEF FetchOK, CreateOK, UpdateOK, DeleteOK
  <2> QED  BY <2>2, <2>3
<1>10. \A m, p \in DOMAIN net' : net'[m].task = net'[p].task => m = p
  BY <1>6 DEF Calm
<1>11. \A c \in ToSet(list') : Settled(c)'
  <2> SUFFICES ASSUME NEW c \in ToSet(list), \A m \in DOMAIN net' : net'[m].task # c
               PROVE  att[c].id \in DOMAIN tareas' /\ tareas'[att[c].id] = att[c]
    BY <1>1 DEF Settled
  <2>1. att[c].id \in DOMAIN tareas /\ tareas[att[c].id] = att[c] /\ c # net[n].task
    BY <1>6 DEF Calm, Settled
  <2>2. att[c].id # b.id
    BY <1>8, <2>1 DEF Has
  <2> QED  BY <1>5, <2>1, <2>2
<1>12. ASSUME NEW k, NEW c PROVE Has(c, k)' <=> Has(c, k)
  <2>1. \A m \in DOMAIN net : \/ net'[m] = net[m]
                              \/ m = n /\ net[m].op = "PUT" /\ net'[m].op = "PUT"
    BY <1>1, <1>6
  <2> QED  BY <1>1, <1>6, <2>1 DEF Has
<1>13. \A k \in Ids : \A c, d : Has(c, k)' /\ Has(d, k)' => c = d
  BY <1>12 DEF Calm
<1>14. \A k \in DOMAIN tareas' : \E c : Has(c, k)'
  BY <1>5, <1>7, <1>12 DEF Calm
<1> QED  BY <1>1, <1>9, <1>10, <1>11, <1>13, <1>14 DEF Calm

LEMMA DeleteTareaCalm ==
  ASSUME IInv, Calm, NEW n \in DOMAIN net, DeleteTarea(n)
  PROVE  Calm'
<1>1. /\ net[n].op = "DELETE" /\ net[n].at = "sent"
      /\ tareas' = Restrict(tareas, DOMAIN tareas \ {net[n].body.id})
      /\ net' = Answered(n) /\ UNCHANGED <<att, list, collided>>
  BY DEF DeleteTarea, client
<1>2. PICK id : id = net[n].body.id
  OBVIOUS
<1>3. id \in Ids
  BY <1>1, <1>2, HasId
<1>4. DOMAIN tareas' = DOMAIN tareas \ {id} /\ \A k \in DOMAIN tareas \ {id} : tareas'[k] = tareas[k]
  BY <1>1, <1>2, DropTarea DEF IInv
<1>5. /\ DOMAIN net' = DOMAIN net /\ net'[n].at = "answered"
      /\ \A m \in DOMAIN net : m # n => net'[m] = net[m]
      /\ \A m \in DOMAIN net : /\ net'[m].op = net[m].op /\ net'[m].task = net[m].task
                               /\ net'[m].body = net[m].body
  BY <1>1, AnsweredFields
<1>6. \A m \in DOMAIN net : net[m].op # "GET"
  BY <1>1, CalmFacts
<1>7. Has(net[n].task, id) /\ \A c : Has(c, id) => c = net[n].task
  <2>1. Has(net[n].task, id)
    BY <1>1, <1>2 DEF Has
  <2> QED  BY <1>3, <2>1 DEF Calm
<1>8. ASSUME NEW m \in DOMAIN net' PROVE (FetchOK(m) /\ CreateOK(m) /\ UpdateOK(m) /\ DeleteOK(m))'
  <2>1. FetchOK(m) /\ CreateOK(m) /\ UpdateOK(m) /\ DeleteOK(m)
    BY <1>5 DEF Calm
  <2>2. CASE m = n
    BY <1>1, <1>5, <2>1, <2>2 DEF FetchOK, CreateOK, UpdateOK, DeleteOK
  <2>3. CASE m # n
    <3>1. net'[m] = net[m] /\ net[m].op # "GET" /\ net[m].task # net[n].task
      BY <1>5, <1>6, <2>3 DEF Calm
    <3>2. \A p \in DOMAIN net' : net'[p].at = "creating" => p \in DOMAIN net /\ net[p].at = "creating"
      BY <1>5
    <3>3. \/ net[m].op = "POST" /\ net[m].at = "answered"
          \/ net[m].op = "PUT"
          \/ net[m].op = "DELETE" /\ net[m].at = "sent"
          => net[m].body.id # id
      <4>1. CASE \/ net[m].op = "POST" /\ net[m].at = "answered"
                 \/ net[m].op = "DELETE" /\ net[m].at = "sent"
        <5>1. Has(net[m].task, net[m].body.id)
          BY <1>5, <4>1 DEF Has
        <5> QED  BY <1>7, <3>1, <5>1
      <4>2. CASE net[m].op = "PUT"
        <5>1. Has(net[m].task, net[m].body.id)
          BY <2>1, <4>2 DEF Has, UpdateOK
        <5> QED  BY <1>7, <3>1, <5>1
      <4> QED  BY <4>1, <4>2
    <3> QED  BY <1>1, <1>4, <2>1, <3>1, <3>2, <3>3 DEF FetchOK, CreateOK, UpdateOK, DeleteOK
  <2> QED  BY <2>2, <2>3
<1>9. \A m, p \in DOMAIN net' : net'[m].task = net'[p].task => m = p
  BY <1>5 DEF Calm
<1>10. \A c \in ToSet(list') : Settled(c)'
  <2> SUFFICES ASSUME NEW c \in ToSet(list), \A m \in DOMAIN net' : net'[m].task # c
               PROVE  att[c].id \in DOMAIN tareas' /\ tareas'[att[c].id] = att[c]
    BY <1>1 DEF Settled
  <2>1. att[c].id \in DOMAIN tareas /\ tareas[att[c].id] = att[c] /\ c # net[n].task
    BY <1>5 DEF Calm, Settled
  <2>2. att[c].id # id
    BY <1>7, <2>1 DEF Has
  <2> QED  BY <1>4, <2>1, <2>2
<1>11. ASSUME NEW k, NEW c PROVE Has(c, k)' => Has(c, k)
  BY <1>1, <1>5 DEF Has
<1>12. ASSUME NEW k, NEW c, Has(c, k), k # id PROVE Has(c, k)'
  BY <1>1, <1>2, <1>5, <1>12 DEF Has
<1>13. \A k \in Ids : \A c, d : Has(c, k)' /\ Has(d, k)' => c = d
  BY <1>11 DEF Calm
<1>14. \A k \in DOMAIN tareas' : \E c : Has(c, k)'
  BY <1>4, <1>6, <1>12 DEF Calm
<1> QED  BY <1>1, <1>8, <1>9, <1>10, <1>13, <1>14 DEF Calm

LEMMA ReadTareasCalm ==
  ASSUME IInv, Calm, NEW n \in DOMAIN net, ReadTareas(n)
  PROVE  Calm'
<1>1. /\ net[n].op = "GET" /\ net' = [Answered(n) EXCEPT ![n].tasks = tareas]
      /\ UNCHANGED <<att, list, tareas, collided>>
  BY DEF ReadTareas, client
<1>2. DOMAIN net = {n} /\ Len(att) = 0
  BY <1>1, CalmFacts DEF Calm, FetchOK
<1>3. DOMAIN net' = {n} /\ net'[n].op = "GET" /\ net'[n].task = net[n].task /\ net'[n].tasks = tareas
  <2> DEFINE q == [op |-> net[n].op, task |-> net[n].task, body |-> net[n].body,
                   at |-> "answered", tasks |-> net[n].tasks]
             r == [q EXCEPT !.tasks = tareas]
  <2>1. Answered(n) = [net EXCEPT ![n] = q]
    BY AnsweredRequest
  <2>2. net' = [[net EXCEPT ![n] = q] EXCEPT ![n] = r]
    BY <1>1, <2>1
  <2>3. r.op = net[n].op /\ r.task = net[n].task /\ r.tasks = tareas
    OBVIOUS
  <2> HIDE DEF q, r
  <2> QED  BY <1>1, <1>2, <2>2, <2>3
<1>4. ToSet(list) = {}
  BY <1>2, CalmFacts
<1>5. \A k, c : Has(c, k)' => FALSE
  BY <1>1, <1>3, <1>4 DEF Has
<1>6. (FetchOK(n) /\ CreateOK(n) /\ UpdateOK(n) /\ DeleteOK(n))'
  BY <1>1, <1>2, <1>3 DEF FetchOK, CreateOK, UpdateOK, DeleteOK
<1> QED  BY <1>1, <1>3, <1>4, <1>5, <1>6 DEF Calm

LEMMA SaveAnswerCalm ==
  ASSUME IInv, Calm, NEW n \in DOMAIN net, SaveAnswer(n)
  PROVE  Calm'
<1>1. /\ net[n].op \in {"POST", "PUT"} /\ net[n].at = "answered" /\ net' = Without(net, n)
      /\ collided' = (collided \/ \E other \in ToSet(list) \ {net[n].task} :
                        net[n].task \in ToSet(list) /\ att[other].id = net[n].body.id)
      /\ UNCHANGED <<list, tareas>>
  BY DEF SaveAnswer
<1>2. PICK c, b : c = net[n].task /\ b = net[n].body
  OBVIOUS
<1>3. /\ c \in 1..Len(att) /\ b.id \in Ids /\ Len(att') = Len(att) /\ att'[c] = b
      /\ \A d \in 1..Len(att) : d # c => att'[d] = att[d]
  BY <1>2, Saved
<1>4. /\ c \in ToSet(list) /\ b.id \in DOMAIN tareas /\ tareas[b.id] = b
      /\ att[c].id \in Ids => att[c].id = b.id
      /\ Has(c, b.id)
  BY <1>1, <1>2 DEF Calm, CreateOK, UpdateOK, Has, Ids
<1>5. /\ DOMAIN net' = DOMAIN net \ {n}
      /\ \A m \in DOMAIN net' : net'[m] = net[m] /\ net[m].task # c /\ net[m].op # "GET"
      /\ \A m \in DOMAIN net : m # n => m \in DOMAIN net'
  <2>1. /\ DOMAIN net' = DOMAIN net \ {n} /\ \A m \in DOMAIN net \ {n} : net'[m] = net[m]
    <3>1. /\ DOMAIN Without(net, n) = DOMAIN net \ {n}
          /\ \A m \in DOMAIN net \ {n} : Without(net, n)[m] = net[m]
      BY WithoutOne
    <3> QED  BY <1>1, <3>1
  <2>2. \A m \in DOMAIN net : net[m].op # "GET"
    BY <1>1, CalmFacts
  <2>3. \A m \in DOMAIN net \ {n} : net[m].task # c
    BY <1>2 DEF Calm
  <2> QED  BY <2>1, <2>2, <2>3
<1>6. ~ collided'
  <2> SUFFICES ASSUME NEW other \in ToSet(list) \ {c}, att[other].id = b.id PROVE FALSE
    BY <1>1, <1>2 DEF Calm
  <2>1. Has(other, b.id)
    BY DEF Has
  <2> QED  BY <1>3, <1>4, <2>1 DEF Calm
<1>7. \A d \in ToSet(list) : d \in 1..Len(att)
  BY CalmFacts
<1>8. ASSUME NEW m \in DOMAIN net' PROVE (FetchOK(m) /\ CreateOK(m) /\ UpdateOK(m) /\ DeleteOK(m))'
  <2>1. FetchOK(m) /\ CreateOK(m) /\ UpdateOK(m) /\ DeleteOK(m)
    BY <1>5 DEF Calm
  <2>2. net'[m] = net[m] /\ net[m].op # "GET" /\ net[m].task # c
    BY <1>5
  <2>3. net[m].task \in ToSet(list) => att'[net[m].task] = att[net[m].task]
    BY <1>3, <1>7, <2>2
  <2>4. \A p \in DOMAIN net' : net'[p].at = "creating" => p \in DOMAIN net /\ net[p].at = "creating"
    BY <1>5
  <2> QED  BY <1>1, <2>1, <2>2, <2>3, <2>4 DEF FetchOK, CreateOK, UpdateOK, DeleteOK
<1>9. \A m, p \in DOMAIN net' : net'[m].task = net'[p].task => m = p
  BY <1>5 DEF Calm
<1>10. \A d \in ToSet(list') : Settled(d)'
  <2> SUFFICES ASSUME NEW d \in ToSet(list), \A m \in DOMAIN net' : net'[m].task # d
               PROVE  att'[d].id \in DOMAIN tareas /\ tareas[att'[d].id] = att'[d]
    BY <1>1 DEF Settled
  <2>1. CASE d = c
    BY <1>3, <1>4, <2>1
  <2>2. CASE d # c
    <3>1. \A m \in DOMAIN net : net[m].task # d
      BY <1>2, <1>5, <2>2
    <3> QED  BY <1>3, <1>7, <2>2, <3>1 DEF Calm, Settled
  <2> QED  BY <2>1, <2>2
<1>11. ASSUME NEW k \in Ids, NEW d PROVE Has(d, k)' <=> Has(d, k)
  <2>1. ASSUME Has(d, k)' PROVE Has(d, k)
    <3>1. CASE d = c /\ att'[d].id = k
      BY <1>3, <1>4, <3>1
    <3>2. CASE d # c /\ d \in ToSet(list) /\ att'[d].id = k
      BY <1>3, <1>7, <3>2 DEF Has
    <3>3. ASSUME NEW m \in DOMAIN net', net'[m].task = d, net'[m].body.id = k,
                 \/ net'[m].op = "POST" /\ net'[m].at = "answered"
                 \/ net'[m].op = "DELETE" /\ net'[m].at = "sent"
          PROVE  Has(d, k)
      BY <1>5, <3>3 DEF Has
    <3> QED  BY <1>1, <2>1, <3>1, <3>2, <3>3 DEF Has
  <2>2. ASSUME Has(d, k) PROVE Has(d, k)'
    <3>1. CASE d \in ToSet(list) /\ att[d].id = k
      <4>1. att'[d].id = k
        BY <1>3, <1>4, <1>7, <3>1
      <4> QED  BY <1>1, <3>1, <4>1 DEF Has
    <3>2. ASSUME NEW m \in DOMAIN net, net[m].task = d, net[m].body.id = k,
                 \/ net[m].op = "POST" /\ net[m].at = "answered"
                 \/ net[m].op = "DELETE" /\ net[m].at = "sent"
          PROVE  Has(d, k)'
      <4>1. CASE m = n
        BY <1>1, <1>2, <1>3, <1>4, <3>2, <4>1 DEF Has
      <4>2. CASE m # n
        BY <1>5, <3>2, <4>2 DEF Has
      <4> QED  BY <4>1, <4>2
    <3> QED  BY <2>2, <3>1, <3>2 DEF Has
  <2> QED  BY <2>1, <2>2
<1>12. \A k \in Ids : \A d, e : Has(d, k)' /\ Has(e, k)' => d = e
  BY <1>11 DEF Calm
<1>13. \A k \in DOMAIN tareas' : \E d : Has(d, k)'
  <2>1. \A m \in DOMAIN net : net[m].op # "GET"
    BY <1>1, CalmFacts
  <2>2. DOMAIN tareas \subseteq Ids
    BY CalmFacts
  <2> QED  BY <1>1, <1>11, <2>1, <2>2 DEF Calm
<1> QED  BY <1>6, <1>8, <1>9, <1>10, <1>12, <1>13 DEF Calm

LEMMA DeleteAnswerCalm ==
  ASSUME IInv, Calm, NEW n \in DOMAIN net, DeleteAnswer(n)
  PROVE  Calm'
<1>1. /\ net[n].op = "DELETE" /\ net[n].at = "answered" /\ net' = Without(net, n)
      /\ UNCHANGED <<att, list, tareas, collided>>
  BY DEF DeleteAnswer, client
<1>2. /\ DOMAIN net' = DOMAIN net \ {n} /\ \A m \in DOMAIN net' : net'[m] = net[m]
  <2>1. /\ DOMAIN Without(net, n) = DOMAIN net \ {n}
        /\ \A m \in DOMAIN net \ {n} : Without(net, n)[m] = net[m]
    BY WithoutOne
  <2> QED  BY <1>1, <2>1
<1>3. net[n].task \notin ToSet(list)
  BY <1>1 DEF Calm, DeleteOK
<1>4. ASSUME NEW m \in DOMAIN net' PROVE (FetchOK(m) /\ CreateOK(m) /\ UpdateOK(m) /\ DeleteOK(m))'
  <2>1. FetchOK(m) /\ CreateOK(m) /\ UpdateOK(m) /\ DeleteOK(m)
    BY <1>2 DEF Calm
  <2> QED  BY <1>1, <1>2, <2>1 DEF FetchOK, CreateOK, UpdateOK, DeleteOK
<1>5. \A m, p \in DOMAIN net' : net'[m].task = net'[p].task => m = p
  BY <1>2 DEF Calm
<1>6. \A c \in ToSet(list') : Settled(c)'
  <2> SUFFICES ASSUME NEW c \in ToSet(list), \A m \in DOMAIN net' : net'[m].task # c
               PROVE  att[c].id \in DOMAIN tareas /\ tareas[att[c].id] = att[c]
    BY <1>1 DEF Settled
  <2>1. \A m \in DOMAIN net : net[m].task # c
    BY <1>2, <1>3
  <2> QED  BY <2>1 DEF Calm, Settled
<1>7. ASSUME NEW k, NEW c PROVE Has(c, k)' <=> Has(c, k)
  BY <1>1, <1>2 DEF Has
<1>8. \A k \in Ids : \A c, d : Has(c, k)' /\ Has(d, k)' => c = d
  BY <1>7 DEF Calm
<1>9. \A k \in DOMAIN tareas' : \E c : Has(c, k)'
  <2>1. \A m \in DOMAIN net : net[m].op # "GET"
    BY <1>1, CalmFacts
  <2> QED  BY <1>1, <1>7, <2>1 DEF Calm
<1> QED  BY <1>1, <1>4, <1>5, <1>6, <1>8, <1>9 DEF Calm

LEMMA FetchAnswerCalm ==
  ASSUME IInv, Calm, NEW n \in DOMAIN net, FetchAnswer(n)
  PROVE  Calm'
<1>1. net[n].op = "GET" /\ net[n].at = "answered" /\ net' = Without(net, n) /\ UNCHANGED <<tareas, collided>>
  BY DEF FetchAnswer
<1>2. DOMAIN net = {n} /\ net[n].tasks = tareas
  BY <1>1, CalmFacts DEF Calm, FetchOK
<1>3. DOMAIN net' = {}
  <2>1. DOMAIN Without(net, n) = DOMAIN net \ {n}
    BY WithoutOne
  <2> QED  BY <1>1, <1>2, <2>1
<1>4. /\ \A c \in ToSet(list') : att'[c].id \in DOMAIN tareas /\ att'[c] = tareas[att'[c].id]
      /\ \A id \in DOMAIN tareas : byId'[id] \in ToSet(list') /\ att'[byId'[id]].id = id
      /\ \A c, d \in ToSet(list') : att'[c].id = att'[d].id => c = d
  BY <1>2, Fetched
<1>5. \A k, c : Has(c, k)' <=> c \in ToSet(list') /\ att'[c].id = k
  BY <1>3 DEF Has
<1>6. \A c \in ToSet(list') : Settled(c)'
  BY <1>1, <1>4 DEF Settled
<1>7. \A k \in DOMAIN tareas' : \E c : Has(c, k)'
  BY <1>1, <1>4, <1>5
<1>8. \A k \in Ids : \A c, d : Has(c, k)' /\ Has(d, k)' => c = d
  BY <1>4, <1>5
<1> QED  BY <1>1, <1>3, <1>6, <1>7, <1>8 DEF Calm

LEMMA StepCalm == IInv /\ CInv /\ [Next]_vars => CInv'
<1> SUFFICES ASSUME IInv, CInv, [Next]_vars, calm' PROVE Calm'
  BY DEF CInv
<1>1. CASE UNCHANGED vars
  <2>1. calm' = calm /\ UNCHANGED <<att, list, tareas, net, collided>>
    BY <1>1 DEF vars
  <2>2. Calm
    BY <2>1 DEF CInv
  <2> QED  BY <2>1, <2>2 DEF Calm, Settled, Has, FetchOK, CreateOK, UpdateOK, DeleteOK
<1>2. CASE AddTask
  <2>1. Calm
    BY <1>2 DEF AddTask, CInv
  <2> QED  BY <1>2, <2>1, AddTaskCalm
<1>3. CASE Clear
  <2>1. Calm
    BY <1>3 DEF Clear, CInv
  <2> QED  BY <1>3, <2>1, ClearCalm
<1>4. ASSUME NEW i \in DOMAIN shown, Toggle(i) PROVE Calm'
  <2>1. Calm
    BY <1>4 DEF Toggle, CInv
  <2> QED  BY <1>4, <2>1, ToggleCalm
<1>5. ASSUME NEW n \in DOMAIN net, Handle(n) PROVE Calm'
  <2>1. Calm
    BY <1>5 DEF Handle, CreateReadsId, CreatePuts, UpdateTarea, DeleteTarea, ReadTareas, CInv
  <2> QED  BY <1>5, <2>1, CreateReadsIdCalm, CreatePutsCalm, UpdateTareaCalm, DeleteTareaCalm,
              ReadTareasCalm DEF Handle
<1>6. ASSUME NEW n \in DOMAIN net, Callback(n) PROVE Calm'
  <2>1. Calm
    BY <1>6 DEF Callback, SaveAnswer, DeleteAnswer, FetchAnswer, CInv
  <2> QED  BY <1>6, <2>1, SaveAnswerCalm, DeleteAnswerCalm, FetchAnswerCalm DEF Callback
<1>7. ASSUME NEW n \in DOMAIN net, Fail(n) PROVE Calm'
  BY <1>7 DEF Fail
<1> QED  BY <1>1, <1>2, <1>3, <1>4, <1>5, <1>6, <1>7 DEF Next

\* For any number of tasks and requests, handled and answered in any order: while
\* no request meets another about its own task, no create meets a create, and
\* none fails, the list and the server hold the same tasks once all is answered.
THEOREM Agree == Spec => []Agreement
<1>1. Spec => []CInv
  BY Invariance, InitCalm, StepCalm, PTL DEF Spec
<1>2. IInv /\ CInv => Agreement
  <2> SUFFICES ASSUME IInv, Calm, net = <<>>
               PROVE  {att[c] : c \in ToSet(list)} = {tareas[id] : id \in DOMAIN tareas}
    BY DEF CInv, Agreement
  <2>1. DOMAIN net = {}
    OBVIOUS
  <2>2. \A c \in ToSet(list) : att[c].id \in DOMAIN tareas /\ tareas[att[c].id] = att[c]
    BY <2>1 DEF Calm, Settled
  <2>3. \A k \in DOMAIN tareas : \E c \in ToSet(list) : att[c].id = k
    BY <2>1 DEF Calm, Has
  <2> QED  BY <2>2, <2>3
<1> QED  BY <1>1, <1>2, Invariance, PTL
==============================================================================
