------------------------- MODULE ConfirmGate_proofs -------------------------
(***************************************************************************)
(* Proofs about the confirmation gate, for any set of gated calls and any  *)
(* number of turns, passes and calls per pass.  The argument: the call in  *)
(* the slot was asked about, all he has said to it since is yes, and it    *)
(* has not been used; a grant exists only over a call of an earlier turn.  *)
(***************************************************************************)
EXTENDS ConfirmGate, TLAPS

\* The strengthening: what `_pending_confirm` and `_confirm_granted` stand for.
IInv ==
  /\ TypeOK
  /\ GrantHasPending
  /\ pending # None => word[pending] # "none" /\ ~spent
  /\ granted => word[pending] = "yes"

\* Nothing is held before the first turn.
LEMMA InitIInv == Init => IInv
  <1> SUFFICES ASSUME Init PROVE IInv
    OBVIOUS
  <1>1. passes \in 0..MaxIters /\ turns \in 0..MaxTurns
    BY GateAssumption DEF Init
  <1>2. TypeOK
    BY <1>1 DEF Init, TypeOK, Sayings
  <1> QED BY <1>2 DEF Init, IInv, GrantHasPending

\* Every step of the gate keeps the types.
LEMMA StepTypeOK == TypeOK /\ [Next]_vars => TypeOK'
  <1> SUFFICES ASSUME TypeOK, [Next]_vars PROVE TypeOK'
    OBVIOUS
  <1> USE GateAssumption DEF TypeOK, Sayings
  <1>1. ASSUME NEW yes \in BOOLEAN, NEW idle \in BOOLEAN, BeginTurn(yes, idle)
        PROVE  TypeOK'
    <2>1. turns' \in 0..MaxTurns /\ passes' \in 0..MaxIters
      BY <1>1 DEF BeginTurn, Open
    <2>2. pending' \in Actions \cup {None} /\ granted' \in BOOLEAN
      BY <1>1 DEF BeginTurn
    <2>3. word' \in [Actions -> {"none", "asked", "yes"}]
      BY <1>1 DEF BeginTurn, Open
    <2> QED BY <1>1, <2>1, <2>2, <2>3 DEF BeginTurn, Open
  <1>2. ASSUME NEW calls \in Calls, Hold(calls) PROVE TypeOK'
    <2>1. passes' \in 0..MaxIters
      BY <1>2 DEF Hold
    <2> QED BY <1>2, <2>1 DEF Hold, Calls
  <1>3. ASSUME NEW calls \in Calls, Start(calls) PROVE TypeOK'
    <2>1. passes' \in 0..MaxIters
      BY <1>3 DEF Start
    <2> QED BY <1>3, <2>1 DEF Start, Calls, gate, history
  <1>4. ASSUME NEW ok \in SUBSET Actions, Finish(ok) PROVE TypeOK'
    BY <1>4 DEF Finish, WordAfter
  <1>5. CASE Read
    <2>1. passes' \in 0..MaxIters
      BY <1>5 DEF Read
    <2> QED BY <1>5, <2>1 DEF Read, gate, history
  <1>6. CASE Reply
    BY <1>6 DEF Reply, gate
  <1>7. CASE Cancel
    BY <1>7 DEF Cancel, gate
  <1>8. CASE NoteProactive
    BY <1>8 DEF NoteProactive, gate
  <1>9. CASE UNCHANGED vars
    BY <1>9 DEF vars, gate, history
  <1> QED BY <1>1, <1>2, <1>3, <1>4, <1>5, <1>6, <1>7, <1>8, <1>9 DEF Next

\* Every step keeps the strengthened invariant.
LEMMA StepIInv == IInv /\ [Next]_vars => IInv'
  <1> SUFFICES ASSUME IInv, [Next]_vars PROVE IInv'
    OBVIOUS
  <1> USE GateAssumption DEF GrantHasPending
  <1>0. TypeOK /\ TypeOK'
    BY StepTypeOK DEF IInv
  <1>1. ASSUME NEW yes \in BOOLEAN, NEW idle \in BOOLEAN, BeginTurn(yes, idle)
        PROVE  IInv'
    <2> DEFINE held == IF idle THEN None ELSE pending
    <2>1. /\ granted' = (held # None /\ yes)
          /\ pending' = IF yes THEN held ELSE None
          /\ word' = [a \in Actions |-> IF yes /\ ~idle /\ word[a] # "none" THEN "yes" ELSE "none"]
          /\ spent' = spent
      BY <1>1 DEF BeginTurn, Open
    <2>2. held # None => held = pending /\ ~idle /\ pending \in Actions
      BY <1>0 DEF TypeOK
    <2> QED BY <1>0, <2>1, <2>2 DEF IInv, TypeOK
  <1>2. ASSUME NEW calls \in Calls, Hold(calls) PROVE IInv'
    BY <1>0, <1>2 DEF IInv, Hold, Calls, TypeOK
  <1>3. ASSUME NEW calls \in Calls, Start(calls) PROVE IInv'
    BY <1>0, <1>3 DEF IInv, Start, gate, history
  <1>4. ASSUME NEW ok \in SUBSET Actions, Finish(ok) PROVE IInv'
    BY <1>0, <1>4 DEF IInv, Finish, WordAfter, TypeOK
  <1>5. CASE Read
    BY <1>0, <1>5 DEF IInv, Read, gate, history
  <1>6. CASE Reply
    BY <1>0, <1>6 DEF IInv, Reply, gate
  <1>7. CASE Cancel
    BY <1>0, <1>7 DEF IInv, Cancel, gate
  <1>8. CASE NoteProactive
    BY <1>0, <1>8 DEF IInv, NoteProactive, gate
  <1>9. CASE UNCHANGED vars
    BY <1>0, <1>9 DEF IInv, vars, gate, history
  <1> QED BY <1>1, <1>2, <1>3, <1>4, <1>5, <1>6, <1>7, <1>8, <1>9 DEF Next

\* Calls start only in a step that found the grant set.
LEMMA StartNeedsGrant == [Next]_vars /\ Started # {} => granted
  <1> SUFFICES ASSUME [Next]_vars, phase = "model", phase' = "tools" PROVE granted
    BY DEF Started
  <1> QED
    BY DEF Next, vars, BeginTurn, Open, Hold, Start, Read, Finish, Reply, Cancel,
           NoteProactive

\* The strengthened invariant holds throughout every behaviour.
THEOREM GateInvariant == Spec => []IInv
  BY InitIInv, StepIInv, PTL DEF Spec

\* Type correctness of the gate and of a turn's bookkeeping.
THEOREM GateTypeCorrect == Spec => []TypeOK
  <1>1. IInv => TypeOK
    BY DEF IInv
  <1> QED BY <1>1, GateInvariant, PTL

\* A grant always stands over a held call.
THEOREM GateGrantHasPending == Spec => []GrantHasPending
  <1>1. IInv => GrantHasPending
    BY DEF IInv
  <1> QED BY <1>1, GateInvariant, PTL

\* Gated calls start only over a held call that was asked about in an earlier
\* turn and has had nothing but yes since, whatever the model asks for and
\* whenever it is interrupted.
THEOREM GateOnlyAfterUnbrokenYes == Spec => OnlyAfterUnbrokenYes
  <1>1. IInv /\ [Next]_vars => [Started # {} => pending \in Actions /\ word[pending] = "yes"]_vars
    BY StartNeedsGrant DEF IInv, GrantHasPending, TypeOK
  <1> QED BY <1>1, GateInvariant, PTL DEF Spec, OnlyAfterUnbrokenYes

\* A recorded success closes the gate until another call has been held.
THEOREM GateNoSecondUse == Spec => NoSecondUse
  <1>1. IInv /\ [Next]_vars => [Started # {} => ~spent]_vars
    BY StartNeedsGrant DEF IInv, GrantHasPending
  <1> QED BY <1>1, GateInvariant, PTL DEF Spec, NoSecondUse

(***************************************************************************)
(* The gate works by the consent of module Consent.  The mapping reads it  *)
(* off the two fields; calls run only where a grant let them start, and    *)
(* only while the turn that started them lasts.                            *)
(***************************************************************************)
Running == IF phase = "tools" THEN granted /\ batch # {} ELSE batch = {}

LEMMA StepRunning == Running /\ [Next]_vars => Running'
  <1> SUFFICES ASSUME Running, [Next]_vars PROVE Running'
    OBVIOUS
  <1> USE DEF Running
  <1>1. ASSUME NEW yes \in BOOLEAN, NEW idle \in BOOLEAN, BeginTurn(yes, idle)
        PROVE  Running'
    BY <1>1 DEF BeginTurn, Open
  <1>2. ASSUME NEW calls \in Calls, Hold(calls) \/ Start(calls) PROVE Running'
    BY <1>2 DEF Hold, Start, gate
  <1>3. CASE Read \/ Reply \/ Cancel \/ NoteProactive
    BY <1>3 DEF Read, Reply, Cancel, NoteProactive, gate
  <1>4. CASE UNCHANGED vars
    BY <1>4 DEF vars, gate
  <1> QED BY <1>1, <1>2, <1>3, <1>4 DEF Next, Finish

\* Each step of the gate is a step of the promise, or none.
LEMMA StepPromise == IInv /\ Running /\ [Next]_vars => [Promise!Next]_(Promise!consents)
  <1> SUFFICES ASSUME IInv, Running, [Next]_vars PROVE [Promise!Next]_(Promise!consents)
    OBVIOUS
  <1> DEFINE talks == phase # "idle"
             leave == IF granted THEN "given" ELSE IF pending # None THEN "asked" ELSE "none"
  <1> USE DEF Promise!consents
  <1>1. ASSUME NEW yes \in BOOLEAN, NEW idle \in BOOLEAN, BeginTurn(yes, idle)
        PROVE  Promise!Agree \/ Promise!SayOtherwise
    <2>1. ~talks /\ talks' /\ batch = {} /\ batch' = {} /\ done' = {}
      BY <1>1 DEF BeginTurn, Open, Running
    <2>2. IF yes /\ ~idle /\ pending # None THEN leave' = "given" ELSE leave' = "none"
      BY <1>1 DEF BeginTurn
    <2>3. pending # None => leave # "none"
      OBVIOUS
    <2> QED BY <2>1, <2>2, <2>3 DEF Promise!Agree, Promise!SayOtherwise
  <1>2. ASSUME NEW calls \in Calls, Hold(calls) PROVE Promise!Ask
    <2>1. pending' # None
      BY <1>2, GateAssumption DEF Hold, Calls
    <2> QED BY <1>2, <2>1 DEF Hold, Promise!Ask
  <1>3. ASSUME NEW calls \in Calls, Start(calls) PROVE Promise!Act(calls)
    BY <1>3 DEF Start, Running, Promise!Act, gate, history
  <1>4. ASSUME NEW ok \in SUBSET Actions, Finish(ok)
        PROVE  Promise!Fail \/ Promise!Use(ok)
    <2>1. phase = "tools" /\ phase' = "model" /\ granted /\ batch # {} /\ batch' = {}
          /\ ok \subseteq batch /\ done' = done \cup ok
      BY <1>4 DEF Finish, Running
    <2>2. CASE ok = {}
      BY <1>4, <2>1, <2>2 DEF Finish, Promise!Fail
    <2>3. CASE ok # {}
      BY <1>4, <2>1, <2>3 DEF Finish, Promise!Use
    <2> QED BY <2>2, <2>3
  <1>5. ASSUME Reply \/ Cancel PROVE Promise!Hush
    BY <1>5 DEF Reply, Cancel, Running, Promise!Hush, gate
  <1>6. ASSUME Read \/ NoteProactive \/ UNCHANGED vars PROVE UNCHANGED Promise!consents
    BY <1>6 DEF Read, NoteProactive, vars, gate, history
  <1>7. ASSUME NEW calls \in Calls PROVE calls \in SUBSET Actions
    BY DEF Calls
  <1> QED BY <1>1, <1>2, <1>3, <1>4, <1>5, <1>6, <1>7 DEF Next, Promise!Next

\* Whatever the model asks for and whenever it is interrupted, the two fields
\* give and withdraw a consent to act: over some call asked about in an earlier
\* turn, on nothing but yes since, until the first recorded success.
THEOREM GateImplementsConsent == Spec => ImplementsConsent
  <1>1. Init => Running /\ Promise!Init
    BY DEF Init, Running, Promise!Init
  <1> QED
    BY <1>1, GateInvariant, StepRunning, StepPromise, PTL DEF Spec, ImplementsConsent, Promise!Spec

(***************************************************************************)
(* "One 'yes' authorises one action" (_execute_calls) is not what the code *)
(* does: the calls of one batch all run on the same grant.  What it does   *)
(* keep is one batch to a yes: the first success recorded in a turn takes  *)
(* the grant back, and only another turn can give one.                     *)
(***************************************************************************)
\* Once something succeeded in a turn, the rest of that turn has no grant.
GrantUsedUp == done # {} => ~granted

\* Successes of two batches never come together in one turn: `done` moves from
\* nothing to one batch's successes, and back only when a turn opens.
OneBatchPerYes == [][done' # done => done = {} \/ done' = {}]_vars

LEMMA StepGrantUsedUp == GrantUsedUp /\ [Next]_vars => GrantUsedUp'
  <1> SUFFICES ASSUME GrantUsedUp, [Next]_vars PROVE GrantUsedUp'
    OBVIOUS
  <1> USE DEF GrantUsedUp
  <1>1. ASSUME NEW yes \in BOOLEAN, NEW idle \in BOOLEAN, BeginTurn(yes, idle)
        PROVE  GrantUsedUp'
    BY <1>1 DEF BeginTurn, Open
  <1>2. ASSUME NEW calls \in Calls, Hold(calls) \/ Start(calls) PROVE GrantUsedUp'
    BY <1>2 DEF Hold, Start, gate, history
  <1>3. ASSUME NEW ok \in SUBSET Actions, Finish(ok) PROVE GrantUsedUp'
    BY <1>3 DEF Finish
  <1>4. CASE Read \/ Reply \/ Cancel \/ NoteProactive
    BY <1>4 DEF Read, Reply, Cancel, NoteProactive, gate, history
  <1>5. CASE UNCHANGED vars
    BY <1>5 DEF vars, gate, history
  <1> QED BY <1>1, <1>2, <1>3, <1>4, <1>5 DEF Next

\* Outside the opening of a turn, only calls that run on a grant add to `done`.
LEMMA StepOneBatch ==
  Running /\ GrantUsedUp /\ [Next]_vars => [done' # done => done = {} \/ done' = {}]_vars
  <1> SUFFICES ASSUME Running, GrantUsedUp, [Next]_vars, done' # done
               PROVE  done = {} \/ done' = {}
    OBVIOUS
  <1>1. ASSUME NEW yes \in BOOLEAN, NEW idle \in BOOLEAN, BeginTurn(yes, idle)
        PROVE  done' = {}
    BY <1>1 DEF BeginTurn, Open
  <1>2. ASSUME NEW calls \in Calls PROVE ~Hold(calls) /\ ~Start(calls)
    BY DEF Hold, Start, history
  <1>3. ASSUME NEW ok \in SUBSET Actions, Finish(ok) PROVE done = {}
    BY <1>3 DEF Finish, Running, GrantUsedUp
  <1>4. ~Read /\ ~Reply /\ ~Cancel /\ ~NoteProactive /\ ~UNCHANGED vars
    BY DEF Read, Reply, Cancel, NoteProactive, vars, history
  <1> QED BY <1>1, <1>2, <1>3, <1>4 DEF Next

\* One affirmation lets the calls of one batch succeed, never those of a second.
THEOREM GateOneBatchPerYes == Spec => OneBatchPerYes
  <1>1. Init => Running /\ GrantUsedUp
    BY DEF Init, Running, GrantUsedUp
  <1> QED
    BY <1>1, StepRunning, StepGrantUsedUp, StepOneBatch, PTL DEF Spec, OneBatchPerYes
=============================================================================
