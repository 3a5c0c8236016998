------------------------- MODULE TransactionsProofs --------------------------
(***************************************************************************)
(* Proofs about Transactions, for calls of any depth.                      *)
(***************************************************************************)
EXTENDS Transactions, SequenceTheorems, TLAPS

\* A function on an initial segment of the naturals is a sequence.
LEMMA FunctionIsSeq ==
  ASSUME NEW S, NEW n \in Nat, NEW f \in [1..n -> S]
  PROVE  f \in Seq(S) /\ Len(f) = n
  OBVIOUS

\* What Front and Last leave of a sequence that is not empty.
LEMMA FrontLast ==
  ASSUME NEW S, NEW s \in Seq(S), s # <<>>
  PROVE  /\ Len(s) \in Nat \ {0}
         /\ Front(s) \in Seq(S)
         /\ Len(Front(s)) = Len(s) - 1
         /\ \A i \in 1..(Len(s) - 1) : Front(s)[i] = s[i]
         /\ Last(s) = s[Len(s)] /\ Last(s) \in S
<1>1. Len(s) \in Nat /\ Len(s) >= 1
  BY EmptySeq
<1>2. \A i \in 1..(Len(s) - 1) : s[i] \in S
  BY <1>1, ElementOfSeq
<1>3. SubSeq(s, 1, Len(s) - 1) \in Seq(S)
  BY <1>1, <1>2, SubSeqProperties
<1>6. Len(SubSeq(s, 1, Len(s) - 1)) = Len(s) - 1
  BY <1>1
<1>7. Front(s) \in Seq(S) /\ Len(Front(s)) = Len(s) - 1
  BY <1>3, <1>6, Zenon DEF Front
<1>8. \A i \in 1..(Len(s) - 1) : Front(s)[i] = s[i]
  <2>1. \A i \in 1..((Len(s) - 1) - 1 + 1) : SubSeq(s, 1, Len(s) - 1)[i] = s[1 + i - 1]
    BY <1>1, <1>2, SubSeqProperties
  <2> QED  BY <1>1, <2>1 DEF Front
<1>4. Last(s) = s[Len(s)] /\ Last(s) \in S
  BY <1>1, ElementOfSeq DEF Last
<1> QED  BY <1>1, <1>4, <1>7, <1>8

\* What a commit, a rollback and a refusal write into the frames.
LEMMA MarkedFrames ==
  ASSUME NEW cs \in Seq(Frame)
  PROVE  /\ Committed(cs) \in Seq(Frame) /\ Len(Committed(cs)) = Len(cs)
         /\ RolledBack(cs) \in Seq(Frame) /\ Len(RolledBack(cs)) = Len(cs)
         /\ Broken(cs) \in Seq(Frame) /\ Len(Broken(cs)) = Len(cs)
         /\ \A i \in 1..Len(cs) :
              /\ Committed(cs)[i] = IF isWithinTransaction /\ session = "dirty"
                                    THEN [cs[i] EXCEPT !.saved = TRUE] ELSE cs[i]
              /\ RolledBack(cs)[i] = IF isWithinTransaction /\ session = "dirty"
                                     THEN [cs[i] EXCEPT !.lost = TRUE] ELSE cs[i]
              /\ Broken(cs)[i] = IF isWithinTransaction
                                 THEN [cs[i] EXCEPT !.broken = TRUE] ELSE cs[i]
<1>1. /\ Len(cs) \in Nat /\ DOMAIN cs = 1..Len(cs)
      /\ cs \in [1..Len(cs) -> Frame]
  BY LenProperties
<1>2. [i \in DOMAIN cs |-> [cs[i] EXCEPT !.saved = TRUE]] \in [1..Len(cs) -> Frame]
  BY <1>1 DEF Frame
<1>3. [i \in DOMAIN cs |-> [cs[i] EXCEPT !.lost = TRUE]] \in [1..Len(cs) -> Frame]
  BY <1>1 DEF Frame
<1>4. [i \in DOMAIN cs |-> [cs[i] EXCEPT !.broken = TRUE]] \in [1..Len(cs) -> Frame]
  BY <1>1 DEF Frame
<1>5. /\ Committed(cs) \in [1..Len(cs) -> Frame]
      /\ RolledBack(cs) \in [1..Len(cs) -> Frame]
      /\ Broken(cs) \in [1..Len(cs) -> Frame]
  BY <1>1, <1>2, <1>3, <1>4 DEF Committed, RolledBack, Broken
<1>6. /\ Committed(cs) \in Seq(Frame) /\ Len(Committed(cs)) = Len(cs)
      /\ RolledBack(cs) \in Seq(Frame) /\ Len(RolledBack(cs)) = Len(cs)
      /\ Broken(cs) \in Seq(Frame) /\ Len(Broken(cs)) = Len(cs)
  BY <1>1, <1>5, FunctionIsSeq
<1>7. \A i \in 1..Len(cs) :
              /\ Committed(cs)[i] = IF isWithinTransaction /\ session = "dirty"
                                    THEN [cs[i] EXCEPT !.saved = TRUE] ELSE cs[i]
              /\ RolledBack(cs)[i] = IF isWithinTransaction /\ session = "dirty"
                                     THEN [cs[i] EXCEPT !.lost = TRUE] ELSE cs[i]
              /\ Broken(cs)[i] = IF isWithinTransaction
                                 THEN [cs[i] EXCEPT !.broken = TRUE] ELSE cs[i]
  BY <1>1 DEF Committed, RolledBack, Broken
<1> QED  BY <1>6, <1>7

\* What they leave alone.
LEMMA KeptFields ==
  ASSUME NEW cs \in Seq(Frame), NEW i \in 1..Len(cs)
  PROVE  /\ Committed(cs)[i].advice = cs[i].advice
         /\ Committed(cs)[i].isNew = cs[i].isNew
         /\ Committed(cs)[i].broken = cs[i].broken
         /\ Committed(cs)[i].lost = cs[i].lost
         /\ RolledBack(cs)[i].advice = cs[i].advice
         /\ RolledBack(cs)[i].isNew = cs[i].isNew
         /\ RolledBack(cs)[i].broken = cs[i].broken
         /\ RolledBack(cs)[i].saved = cs[i].saved
<1>1. cs[i] \in Frame
  BY ElementOfSeq
<1>2. Committed(cs)[i] \in {cs[i], [cs[i] EXCEPT !.saved = TRUE]}
  BY MarkedFrames
<1>3. RolledBack(cs)[i] \in {cs[i], [cs[i] EXCEPT !.lost = TRUE]}
  BY MarkedFrames
<1>4. /\ Committed(cs)[i].advice = cs[i].advice
      /\ Committed(cs)[i].isNew = cs[i].isNew
      /\ Committed(cs)[i].broken = cs[i].broken
      /\ Committed(cs)[i].lost = cs[i].lost
  BY <1>1, <1>2 DEF Frame
<1>5. /\ RolledBack(cs)[i].advice = cs[i].advice
      /\ RolledBack(cs)[i].isNew = cs[i].isNew
      /\ RolledBack(cs)[i].broken = cs[i].broken
      /\ RolledBack(cs)[i].saved = cs[i].saved
  BY <1>1, <1>3 DEF Frame
<1> QED  BY <1>4, <1>5

LEMMA InitInv == Init => IInv
<1> SUFFICES ASSUME Init PROVE IInv
  OBVIOUS
<1>1. calls = <<>> /\ Len(calls) = 0 /\ DOMAIN calls = {} /\ calls \in Seq(Frame)
  BY EmptySeq, LenProperties DEF Init
<1>2. TypeOK
  BY <1>1 DEF Init, TypeOK
<1> QED  BY <1>1, <1>2 DEF Init, IInv, OpenHasOwner, ReliedUpon, AllOrNothing

\* A call that begins no transaction.
LEMMA JoinInv ==
  ASSUME IInv, NEW a \in Propagation, Join(a),
         a = "MANDATORY" => isWithinTransaction,
         a = "NEVER" => ~ isWithinTransaction
  PROVE  IInv'
<1> DEFINE f == [advice |-> a, isNew |-> FALSE,
                 saved |-> FALSE, lost |-> FALSE, broken |-> FALSE]
<1> USE DEF IInv, TypeOK
<1>1. f \in Frame
  BY DEF Frame
<1>2. /\ calls' \in Seq(Frame) /\ calls' # <<>> /\ Len(calls') = Len(calls) + 1
      /\ \A i \in 1..Len(calls) : calls'[i] = calls[i]
      /\ calls'[Len(calls) + 1] = f
  BY <1>1, AppendProperties DEF Join, Push
<1>3. /\ Len(calls) \in Nat /\ DOMAIN calls = 1..Len(calls)
      /\ DOMAIN calls' = 1..(Len(calls) + 1)
  BY <1>2, LenProperties
<1>4. UNCHANGED <<flow, outcome, stack, session>>
  BY DEF Join, Push, Untouched
<1>5. TypeOK'
  BY <1>2, <1>4
<1>6. OpenHasOwner'
  <2> SUFFICES ASSUME stack = 1
               PROVE  \E i \in 1..(Len(calls) + 1) : calls'[i].isNew
                        /\ \A j \in 1..(Len(calls) + 1) : j > i => calls'[j].advice # "NEVER"
    BY <1>3, <1>4 DEF OpenHasOwner
  <2>1. PICK i \in 1..Len(calls) : calls[i].isNew
                        /\ \A j \in 1..Len(calls) : j > i => calls[j].advice # "NEVER"
    BY <1>3 DEF OpenHasOwner
  <2>2. a # "NEVER"
    BY DEF isWithinTransaction
  <2> QED  BY <1>2, <1>3, <2>1, <2>2
<1>7. ReliedUpon'
  BY <1>2, <1>3, <1>4 DEF ReliedUpon, Relies, isWithinTransaction
<1>8. AllOrNothing'
  BY <1>4 DEF AllOrNothing
<1> QED  BY <1>5, <1>6, <1>7, <1>8

\* A call that begins a transaction: the session had none, so no call in
\* progress relied on one.
LEMMA BeginInv ==
  ASSUME IInv, NEW a \in {"REQUIRED", "NESTED"}, Begin, Push(a, TRUE)
  PROVE  IInv'
<1> DEFINE f == [advice |-> a, isNew |-> TRUE,
                 saved |-> FALSE, lost |-> FALSE, broken |-> FALSE]
<1> USE DEF IInv, TypeOK
<1>1. f \in Frame
  BY DEF Frame, Propagation
<1>2. /\ calls' \in Seq(Frame) /\ calls' # <<>> /\ Len(calls') = Len(calls) + 1
      /\ \A i \in 1..Len(calls) : calls'[i] = calls[i]
      /\ calls'[Len(calls) + 1] = f
  BY <1>1, AppendProperties DEF Push
<1>3. /\ Len(calls) \in Nat /\ DOMAIN calls = 1..Len(calls)
      /\ DOMAIN calls' = 1..(Len(calls) + 1)
  BY <1>2, LenProperties
<1>4. stack = 0 /\ stack' = 1 /\ session' = "clean" /\ UNCHANGED <<flow, outcome>>
  BY DEF Begin, Push
<1>5. TypeOK'
  BY <1>2, <1>4
<1>6. OpenHasOwner'
  BY <1>2, <1>3 DEF OpenHasOwner
<1>7. \A i \in 1..Len(calls) : ~ Relies(calls[i])
  BY <1>3, <1>4 DEF ReliedUpon, isWithinTransaction
<1>8. ReliedUpon'
  BY <1>2, <1>3, <1>4, <1>7 DEF ReliedUpon, Relies, isWithinTransaction
<1>9. AllOrNothing'
  BY <1>4 DEF AllOrNothing
<1> QED  BY <1>5, <1>6, <1>8, <1>9

\* Steps that leave the frames and the stack alone.
LEMMA SameFramesInv ==
  ASSUME IInv, UNCHANGED <<calls, stack>>,
         session' \in {"none", "clean", "dirty"}, session # "none" => session' # "none",
         flow' \in {"running", "throwing"}, flow' = "throwing" => calls # <<>>,
         outcome' \in {outcome, NoOutcome}
  PROVE  IInv'
<1> USE DEF IInv, TypeOK
<1>1. TypeOK'
  OBVIOUS
<1>2. OpenHasOwner' /\ ReliedUpon'
  BY DEF OpenHasOwner, ReliedUpon, Relies, isWithinTransaction
<1>3. AllOrNothing'
  BY DEF AllOrNothing
<1> QED  BY <1>1, <1>2, <1>3

\* A NESTED call inside a transaction takes it away from all the calls in
\* progress, which count as broken from then on.
LEMMA RefuseNestedInv == ASSUME IInv, RefuseNested PROVE IInv'
<1> USE DEF IInv, TypeOK
<1>1. CASE UNCHANGED <<calls, stack>>
  BY <1>1, SameFramesInv DEF RefuseNested, PopIfAny, Pop, Untouched, ConfigureFails, Refuse,
     isWithinTransaction
<1>2. CASE ~ isWithinTransaction
  <2>1. UNCHANGED <<calls, stack>>
    BY <1>2 DEF RefuseNested, PopIfAny, Untouched, ConfigureFails, Broken, RolledBack
  <2> QED  BY <1>1, <2>1
<1>3. CASE isWithinTransaction /\ ~ UNCHANGED <<calls, stack>>
  <2>1. stack = 1 /\ stack' = 0 /\ session' = "none" /\ UNCHANGED outcome
    BY <1>3 DEF RefuseNested, PopIfAny, Pop, ConfigureFails, Refuse, isWithinTransaction
  <2>2. calls' = Broken(RolledBack(calls))
    BY <1>3 DEF RefuseNested, ConfigureFails
  <2>3. /\ Len(calls) \in Nat
        /\ calls' \in Seq(Frame) /\ Len(calls') = Len(calls)
        /\ \A i \in 1..Len(calls) : calls'[i].broken
    <3>1. RolledBack(calls) \in Seq(Frame) /\ Len(RolledBack(calls)) = Len(calls)
      BY MarkedFrames
    <3>2. \A i \in 1..Len(calls) : RolledBack(calls)[i] \in Frame
      BY <3>1, ElementOfSeq
    <3>3. \A i \in 1..Len(calls) :
             Broken(RolledBack(calls))[i] = [RolledBack(calls)[i] EXCEPT !.broken = TRUE]
      BY <1>3, <3>1, MarkedFrames
    <3>4. calls' \in Seq(Frame) /\ Len(calls') = Len(calls)
      BY <2>2, <3>1, MarkedFrames
    <3> QED  BY <2>2, <3>2, <3>3, <3>4, LenProperties DEF Frame
  <2>4. DOMAIN calls' = 1..Len(calls) /\ (calls' = <<>> => calls = <<>>)
    BY <2>3, LenProperties, EmptySeq
  <2>5. TypeOK'
    BY <2>1, <2>3, <2>4 DEF RefuseNested, Refuse
  <2>6. OpenHasOwner' /\ AllOrNothing'
    BY <2>1 DEF OpenHasOwner, AllOrNothing
  <2>7. ReliedUpon'
    BY <2>3, <2>4 DEF ReliedUpon, Relies
  <2> QED  BY <2>5, <2>6, <2>7
<1> QED  BY <1>1, <1>2, <1>3

\* The call that began a transaction ends and takes the transaction on the
\* stack along; the frames cs are the calls as the end leaves them.
LEMMA EndOwnerInv ==
  ASSUME IInv, calls # <<>>, calls[Len(calls)].isNew,
         PopIfAny, flow' = "running" \/ Leave,
         NEW how \in {"returned", "threw"}, NEW cs \in Seq(Frame), Len(cs) = Len(calls),
         \A i \in 1..Len(calls) :
           /\ cs[i].advice = calls[i].advice /\ cs[i].isNew = calls[i].isNew
           /\ cs[i].broken = calls[i].broken
           /\ how = "returned" => cs[i].lost = calls[i].lost
           /\ how = "threw" => cs[i].saved = calls[i].saved,
         End(how, cs)
  PROVE  IInv'
<1> DEFINE n == Len(calls)
<1> USE DEF IInv, TypeOK
<1>1. n \in Nat /\ n >= 1 /\ DOMAIN calls = 1..n /\ cs # <<>>
  BY EmptySeq, LenProperties
<1>2. /\ calls' \in Seq(Frame) /\ Len(calls') = n - 1
      /\ \A i \in 1..(n - 1) : calls'[i] = cs[i]
      /\ Last(cs) = cs[n] /\ cs[n] \in Frame
  <2>1. /\ Front(cs) \in Seq(Frame) /\ Len(Front(cs)) = n - 1
        /\ \A i \in 1..(n - 1) : Front(cs)[i] = cs[i]
        /\ Last(cs) = cs[n] /\ Last(cs) \in Frame
    BY <1>1, FrontLast
  <2> QED  BY <2>1 DEF End
<1>3. DOMAIN calls' = 1..(n - 1) /\ (calls' = <<>> => n = 1)
  BY <1>1, <1>2, LenProperties, EmptySeq
<1>4. stack' = 0 /\ session' \in {"none", "clean", "dirty"}
  BY DEF PopIfAny, Pop, Untouched, isWithinTransaction
<1>5. outcome' = [how |-> how, call |-> cs[n]]
  BY <1>1, <1>2 DEF End
<1>6. TypeOK'
  <2>1. outcome' \in [how : {"returned", "threw"}, call : Frame]
    BY <1>2, <1>5
  <2> QED  BY <1>1, <1>2, <1>3, <1>4, <2>1 DEF Leave
<1>7. OpenHasOwner'
  BY <1>4 DEF OpenHasOwner
<1>8. ReliedUpon'
  <2>1. \A i \in 1..(n - 1) : ~ Relies(calls[i])
    BY <1>1 DEF ReliedUpon
  <2> QED  BY <1>1, <1>2, <1>3, <2>1 DEF ReliedUpon, Relies
<1>9. AllOrNothing'
  <2> SUFFICES ASSUME ~ cs[n].broken
               PROVE  IF how = "returned" THEN ~ cs[n].lost ELSE ~ cs[n].saved
    BY <1>5 DEF AllOrNothing
  <2>1. Relies(calls[n])
    BY <1>1 DEF Relies
  <2>2. ~ calls[n].saved /\ ~ calls[n].lost
    BY <1>1, <2>1 DEF ReliedUpon
  <2> QED  BY <1>1, <2>2
<1> QED  BY <1>6, <1>7, <1>8, <1>9

\* A call that joined a transaction, or had none, ends and leaves it alone.
LEMMA EndJoinedInv ==
  ASSUME IInv, calls # <<>>, ~ calls[Len(calls)].isNew,
         Untouched, NEW how, End(how, calls), flow' = "running" \/ Leave
  PROVE  IInv'
<1> DEFINE n == Len(calls)
<1> USE DEF IInv, TypeOK
<1>1. n \in Nat /\ n >= 1 /\ DOMAIN calls = 1..n
  BY EmptySeq, LenProperties
<1>2. /\ calls' \in Seq(Frame) /\ Len(calls') = n - 1
      /\ \A i \in 1..(n - 1) : calls'[i] = calls[i]
      /\ Last(calls) = calls[n]
  BY <1>1, FrontLast DEF End
<1>3. DOMAIN calls' = 1..(n - 1) /\ (calls' = <<>> => n = 1)
  BY <1>1, <1>2, LenProperties, EmptySeq
<1>4. UNCHANGED <<stack, session, outcome>>
  BY <1>2 DEF End, Untouched
<1>5. TypeOK'
  BY <1>1, <1>2, <1>3, <1>4 DEF Leave
<1>6. OpenHasOwner'
  BY <1>1, <1>2, <1>3, <1>4 DEF OpenHasOwner
<1>7. ReliedUpon'
  BY <1>1, <1>2, <1>3, <1>4 DEF ReliedUpon, Relies, isWithinTransaction
<1>8. AllOrNothing'
  BY <1>4 DEF AllOrNothing
<1> QED  BY <1>5, <1>6, <1>7, <1>8

LEMMA StepInv == IInv /\ [Next]_vars => IInv'
<1> SUFFICES ASSUME IInv, [Next]_vars PROVE IInv'
  OBVIOUS
<1> USE DEF IInv, TypeOK
<1>a. calls # <<>> => Last(calls) = calls[Len(calls)]
  BY DEF Last
<1>1. CASE BeginRequired
  BY <1>1, BeginInv DEF BeginRequired
<1>2. CASE JoinRequired
  BY <1>2, JoinInv DEF JoinRequired, Propagation
<1>3. CASE RefuseRequired
  BY <1>3, SameFramesInv DEF RefuseRequired, Untouched, ConfigureFails, Refuse
<1>4. CASE BeginNested
  BY <1>4, BeginInv DEF BeginNested
<1>5. CASE RefuseNested
  BY <1>5, RefuseNestedInv
<1>6. CASE CallMandatory
  <2>1. CASE isWithinTransaction
    BY <1>6, <2>1, JoinInv DEF CallMandatory, Propagation
  <2>2. CASE ~ isWithinTransaction
    BY <1>6, <2>2, SameFramesInv DEF CallMandatory, Untouched, Refuse
  <2> QED  BY <2>1, <2>2
<1>7. CASE CallNever
  <2>1. CASE ~ isWithinTransaction
    BY <1>7, <2>1, JoinInv DEF CallNever, Propagation
  <2>2. CASE isWithinTransaction
    BY <1>7, <2>2, SameFramesInv DEF CallNever, Untouched, Refuse
  <2> QED  BY <2>1, <2>2
<1>8. CASE CallSupports
  BY <1>8, JoinInv DEF CallSupports, Propagation
<1>9. CASE Write \/ Throw \/ Catch
  BY <1>9, SameFramesInv DEF Write, Throw, Catch, Running
<1>10. CASE Return
  <2>1. CASE Last(calls).isNew
    <3>1. calls # <<>> /\ PopIfAny /\ End("returned", Committed(calls)) /\ UNCHANGED flow
      BY <1>10, <2>1 DEF Return, Running
    <3>2. flow = "running"
      BY <1>10 DEF Return, Running
    <3>3. Committed(calls) \in Seq(Frame) /\ Len(Committed(calls)) = Len(calls)
      BY MarkedFrames
    <3> QED  BY <1>a, <2>1, <3>1, <3>2, <3>3, KeptFields, EndOwnerInv
  <2>2. CASE ~ Last(calls).isNew
    BY <1>a, <1>10, <2>2, EndJoinedInv DEF Return, Running
  <2> QED  BY <2>1, <2>2
<1>b. RolledBack(calls) \in Seq(Frame) /\ Len(RolledBack(calls)) = Len(calls)
  BY MarkedFrames
<1>11. CASE CommitFails
  <2>1. PopIfAny /\ calls # <<>> /\ Last(calls).isNew /\ Leave /\ End("threw", RolledBack(calls))
    BY <1>11 DEF CommitFails, PopIfAny, Running
  <2> QED  BY <1>a, <1>b, <2>1, KeptFields, EndOwnerInv
<1>12. CASE Unwind
  <2>1. CASE Last(calls).isNew
    <3>1. PopIfAny /\ calls # <<>> /\ Leave /\ End("threw", RolledBack(calls))
      BY <1>12, <2>1 DEF Unwind
    <3> QED  BY <1>a, <1>b, <2>1, <3>1, KeptFields, EndOwnerInv
  <2>2. CASE ~ Last(calls).isNew
    BY <1>a, <1>12, <2>2, EndJoinedInv DEF Unwind
  <2> QED  BY <2>1, <2>2
<1>13. CASE Cleanup
  <2>1. calls = <<>> /\ stack' = 0 /\ session' = "none" /\ UNCHANGED <<calls, flow>>
        /\ outcome' = NoOutcome
    BY <1>13 DEF Cleanup
  <2>2. DOMAIN calls' = {}
    BY <2>1
  <2> QED  BY <2>1, <2>2 DEF OpenHasOwner, ReliedUpon, AllOrNothing
<1>14. CASE UNCHANGED vars
  BY <1>14, SameFramesInv DEF vars
<1> QED
  BY <1>1, <1>2, <1>3, <1>4, <1>5, <1>6, <1>7, <1>8, <1>9, <1>10, <1>11, <1>12, <1>13, <1>14
  DEF Next

\* At any depth of nested calls and with any failures, the stack, the calls that
\* began what is on it and those that rely on it agree (the advices, begin, commit
\* and rollback of HibernateTransactionServiceImpl).
THEOREM Invariance == Spec => []IInv
  BY InitInv, StepInv, PTL DEF Spec

\* The frames, the stack and the session have the declared shape; two
\* transactions are never on the stack.
THEOREM TypeCorrect == Spec => []TypeOK
<1>1. IInv => TypeOK
  BY DEF IInv
<1> QED  BY <1>1, Invariance, PTL

\* HibernateTransactionServiceImpl holds a transaction only while a call that
\* began one is in progress, for calls nested to any depth.
THEOREM NothingLeftOpen == Spec => []OpenHasOwner
<1>1. IInv => OpenHasOwner
  BY DEF IInv
<1> QED  BY <1>1, Invariance, PTL

\* The transaction MandatoryTransactionAdvice found is there until the method
\* returns.
THEOREM MandatoryHonoured == Spec => []MandatoryKept
<1>1. IInv => MandatoryKept
  BY DEF IInv, ReliedUpon, Relies, MandatoryKept
<1> QED  BY <1>1, Invariance, PTL

\* The calls RequiredTransactionAdvice and NestedTransactionAdvice begin a
\* transaction for are atomic, for calls nested to any depth.
THEOREM Atomic == Spec => []AllOrNothing
<1>1. IInv => AllOrNothing
  BY DEF IInv
<1> QED  BY <1>1, Invariance, PTL
==============================================================================
