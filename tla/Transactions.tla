----------------------------- MODULE Transactions ----------------------------
(***************************************************************************)
(* Declarative transactions of PlugInTapestry: the advices for the values  *)
(* of Propagation around the methods of the DAOs, over the stack that      *)
(* HibernateTransactionServiceImpl keeps per thread.                       *)
(*                                                                         *)
(* One thread, with the advised calls it is in as a stack of frames.  A    *)
(* method may write, call others, return, throw, or catch what a call of   *)
(* its own threw; begin, configure and commit may fail.  Only Exceptions   *)
(* are thrown: the advices do not catch Errors.                            *)
(***************************************************************************)
EXTENDS Integers, Sequences, SequencesExt

CONSTANT MaxDepth     \* bound on the calls in progress

ASSUME DepthAssumption == MaxDepth \in Nat

VARIABLES
  calls,    \* the advised calls in progress, the innermost last
  flow,     \* "throwing" when an exception has reached the innermost method
  stack,    \* the size of transactionStack
  session,  \* the transaction of the Hibernate session: "none", "clean", or
            \* "dirty" when something was written in it
  outcome   \* history: the last call to end of those that began a transaction

vars == <<calls, flow, stack, session, outcome>>

Propagation == {"REQUIRED", "SUPPORTS", "NEVER", "NESTED", "MANDATORY"}

\* isNew: the advice of the call began a transaction.  History of the call:
\* saved and lost, whether something written while it ran was committed or
\* rolled back; broken, whether a NESTED call was refused inside it.
Frame == [advice : Propagation, isNew : BOOLEAN,
          saved : BOOLEAN, lost : BOOLEAN, broken : BOOLEAN]

NoOutcome == [how |-> "none"]

Init == /\ calls = <<>>
        /\ flow = "running"
        /\ stack = 0
        /\ session = "none"
        /\ outcome = NoOutcome
------------------------------------------------------------------------------
(* HibernateTransactionServiceImpl.                                        *)

isWithinTransaction == stack > 0

Untouched == UNCHANGED <<stack, session>>

\* Hibernate ends the transaction that is popped, for better or for worse.
Pop == /\ stack' = stack - 1
       /\ session' = "none"

\* Mutant: the size of the stack is not looked at.
PopAlways == Pop

\* What commit and rollback share: without a transaction they do nothing.
PopIfAny == IF isWithinTransaction THEN Pop ELSE Untouched

\* The frames cs after a commit or a rollback of the transaction on the stack.
Committed(cs) == IF isWithinTransaction /\ session = "dirty"
                 THEN [i \in DOMAIN cs |-> [cs[i] EXCEPT !.saved = TRUE]] ELSE cs

RolledBack(cs) == IF isWithinTransaction /\ session = "dirty"
                  THEN [i \in DOMAIN cs |-> [cs[i] EXCEPT !.lost = TRUE]] ELSE cs

\* session.beginTransaction refuses a second transaction.
Begin == /\ session = "none"
         /\ session' = "clean"
         /\ stack' = stack + 1

\* configure throws between beginTransaction and push.
ConfigureFails == /\ session = "none"
                  /\ session' = "clean"
                  /\ UNCHANGED stack
------------------------------------------------------------------------------
(* The advices, up to invocation.proceed().                                *)

Call == flow = "running" /\ Len(calls) < MaxDepth

Push(a, new) ==
  /\ calls' = Append(calls, [advice |-> a, isNew |-> new,
                             saved |-> FALSE, lost |-> FALSE, broken |-> FALSE])
  /\ UNCHANGED <<flow, outcome>>

\* The exception goes to the caller, or to the page if there is none.
Refuse == /\ flow' = IF calls # <<>> THEN "throwing" ELSE "running"
          /\ UNCHANGED outcome

Join(a) == Push(a, FALSE) /\ Untouched

BeginRequired == /\ Call /\ ~ isWithinTransaction
                 /\ Begin
                 /\ Push("REQUIRED", TRUE)

JoinRequired == /\ Call /\ isWithinTransaction
                /\ Join("REQUIRED")

\* begin is outside the try block.
RefuseRequired == /\ Call /\ ~ isWithinTransaction
                  /\ (session # "none" /\ Untouched) \/ ConfigureFails
                  /\ Refuse
                  /\ UNCHANGED calls

BeginNested == /\ Call
               /\ Begin
               /\ Push("NESTED", TRUE)

\* A NESTED call has been refused inside the calls in progress.
Broken(cs) == IF isWithinTransaction
              THEN [i \in DOMAIN cs |-> [cs[i] EXCEPT !.broken = TRUE]] ELSE cs

\* begin is inside the try block: the catch block rolls back the transaction
\* of an outer call when there is one.
RefuseNested ==
  /\ Call
  /\ \/ session # "none" /\ PopIfAny /\ calls' = Broken(RolledBack(calls))
     \/ ConfigureFails /\ UNCHANGED calls
  /\ Refuse

CallMandatory == /\ Call
                 /\ IF isWithinTransaction THEN Join("MANDATORY")
                    ELSE Refuse /\ UNCHANGED calls /\ Untouched

CallNever == /\ Call
             /\ IF isWithinTransaction THEN Refuse /\ UNCHANGED calls /\ Untouched
                ELSE Join("NEVER")

\* SUPPORTS gets no advice.
CallSupports == Call /\ Join("SUPPORTS")
------------------------------------------------------------------------------
(* The methods.                                                            *)

Running == flow = "running" /\ calls # <<>>

Write == /\ Running /\ session # "none"
         /\ session' = "dirty"
         /\ UNCHANGED <<calls, flow, stack, outcome>>

Throw == /\ Running
         /\ flow' = "throwing"
         /\ UNCHANGED <<calls, stack, session, outcome>>

Catch == /\ flow = "throwing"
         /\ flow' = "running"
         /\ UNCHANGED <<calls, stack, session, outcome>>
------------------------------------------------------------------------------
(* The advices, after invocation.proceed().                                *)

\* The innermost call ends and leaves the frames cs behind.
End(how, cs) ==
  /\ calls' = Front(cs)
  /\ outcome' = IF Last(cs).isNew THEN [how |-> how, call |-> Last(cs)] ELSE outcome

\* The exception goes on to the caller, or to the page.
Leave == flow' = IF Len(calls) > 1 THEN "throwing" ELSE "running"

\* Mutant: the transaction is not committed.
ReturnOpen == /\ Running
              /\ Untouched /\ End("returned", calls)
              /\ UNCHANGED flow

\* Mutant: every call commits, whoever began the transaction.
ReturnCommitting == /\ Running
                    /\ PopIfAny /\ End("returned", Committed(calls))
                    /\ UNCHANGED flow

Return == /\ Running
          /\ IF Last(calls).isNew THEN PopIfAny /\ End("returned", Committed(calls))
             ELSE Untouched /\ End("returned", calls)
          /\ UNCHANGED flow

\* transactionStack.pop().commit() fails: the transaction is off the stack
\* when the catch block calls rollback.
CommitFails == /\ Running /\ Last(calls).isNew /\ isWithinTransaction
               /\ Pop
               /\ End("threw", RolledBack(calls))
               /\ Leave

\* Mutant: the catch block rolls back, whoever began the transaction.
UnwindAll == /\ flow = "throwing"
             /\ PopIfAny /\ End("threw", RolledBack(calls))
             /\ Leave

\* The exception leaves the innermost call.
Unwind == /\ flow = "throwing"
          /\ IF Last(calls).isNew THEN PopIfAny /\ End("threw", RolledBack(calls))
             ELSE Untouched /\ End("threw", calls)
          /\ Leave

\* PerthreadManager, when the request is over: the session is closed.
Cleanup == /\ calls = <<>>
           /\ stack' = 0 /\ session' = "none"
           /\ outcome' = NoOutcome
           /\ UNCHANGED <<calls, flow>>

Next == \/ BeginRequired \/ JoinRequired \/ RefuseRequired
        \/ BeginNested \/ RefuseNested
        \/ CallMandatory \/ CallNever \/ CallSupports
        \/ Write \/ Throw \/ Catch
        \/ Return \/ CommitFails \/ Unwind \/ Cleanup

Spec == Init /\ [][Next]_vars
------------------------------------------------------------------------------
\* The frames and the stack; Hibernate allows one transaction at a time, so
\* the stack never holds two.
TypeOK ==
  /\ calls \in Seq(Frame)
  /\ flow \in {"running", "throwing"}
  /\ flow = "throwing" => calls # <<>>
  /\ stack \in 0..1
  /\ session \in {"none", "clean", "dirty"}
  /\ stack = 1 => session # "none"
  /\ outcome \in {NoOutcome} \cup [how : {"returned", "threw"}, call : Frame]

\* No transaction outlives the call that began it, whichever way the calls
\* inside it end: a transaction on the stack has a call in progress that began
\* one, and a method marked NEVER never runs in one of its own making.
OpenHasOwner ==
  stack = 1 => \E i \in DOMAIN calls :
                 calls[i].isNew /\ \A j \in DOMAIN calls : j > i => calls[j].advice # "NEVER"

\* What a method marked MANDATORY demands lasts until it returns, unless a
\* NESTED call inside it is refused and takes the transaction away.
MandatoryKept ==
  \A i \in DOMAIN calls :
    calls[i].advice = "MANDATORY" /\ ~ calls[i].broken => isWithinTransaction

\* A call that began a transaction and returned normally has lost nothing, and
\* one that threw has saved nothing, however many calls joined it and failed,
\* unless a NESTED call was refused inside it.
AllOrNothing ==
  outcome # NoOutcome /\ ~ outcome.call.broken =>
    IF outcome.how = "returned" THEN ~ outcome.call.lost ELSE ~ outcome.call.saved
------------------------------------------------------------------------------
(* The inductive invariant.                                                *)

\* Frames that rely on the transaction of the stack.
Relies(f) == ~ f.broken /\ (f.isNew \/ f.advice = "MANDATORY")

ReliedUpon == \A i \in DOMAIN calls :
  Relies(calls[i]) => /\ isWithinTransaction
                      /\ calls[i].isNew => ~ calls[i].saved /\ ~ calls[i].lost
                      /\ \A j \in DOMAIN calls : j > i => ~ calls[j].isNew

IInv == TypeOK /\ OpenHasOwner /\ ReliedUpon /\ AllOrNothing
==============================================================================
