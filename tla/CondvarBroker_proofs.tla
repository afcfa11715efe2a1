------------------------- MODULE CondvarBroker_proofs -----------------------
(***************************************************************************)
(* CondvarBroker for any number of requests: its invariants, and that it   *)
(* implements Confirmation.                                                *)
(***************************************************************************)
EXTENDS CondvarBroker, TLAPS

Open(r) == pc[r] \in {"looping", "waiting", "lapsed"}

\* What an entry of the map says of the answers taken for its request.
AnswersOf(entry) ==
  IF entry = "approved" THEN {"approve"}
  ELSE IF entry = "denied" THEN {"deny"} ELSE {}

\* Ids are handed out in order; a call has one as soon as it has started.
IdsInOrder ==
  \A r \in Requests :
    /\ id[r] < next_id
    /\ id[r] = 0 <=> pc[r] = "idle"

\* The entry of an open request and the answers taken for it agree, before it
\* is open there are none, and it has an outcome exactly once it returned.
EntriesMatchAnswers ==
  \A r \in Requests :
    /\ Open(r) => answers[r] = AnswersOf(pending[id[r]])
    /\ pc[r] \in {"idle", "numbered"} => answers[r] = {}
    /\ pc[r] = "returned" <=> outcome[r] # "none"

IInv ==
  /\ TypeOK
  /\ IdsInOrder
  /\ UniqueIds
  /\ MapHoldsOpenRequests
  /\ EntriesMatchAnswers
  /\ OutcomeIsTheAnswer
  /\ NoLostWakeup
-----------------------------------------------------------------------------
\* An open request has an id of the map.
LEMMA OpenHasId ==
  ASSUME TypeOK, IdsInOrder, NEW r \in Requests, pc[r] # "idle"
  PROVE  id[r] \in Ids
  BY MaxIdAssumption DEF TypeOK, IdsInOrder, Ids

LEMMA InitIInv == Init => IInv
  BY MaxIdAssumption
  DEF Init, IInv, TypeOK, IdsInOrder, UniqueIds, MapHoldsOpenRequests, Open,
      EntriesMatchAnswers, OutcomeIsTheAnswer, NoLostWakeup, Ids, Entry, Pc, Decisions

\* Handing out the next id keeps ids ordered and distinct.
LEMMA FetchIdIInv == ASSUME IInv, NEW r \in Requests, FetchId(r) PROVE IInv'
<1> USE DEF IInv, FetchId, Goto
<1>1. TypeOK'
  BY MaxIdAssumption DEF TypeOK, Pc
<1>2. IdsInOrder' /\ UniqueIds'
  BY MaxIdAssumption DEF TypeOK, IdsInOrder, UniqueIds
<1>3. MapHoldsOpenRequests'
  BY MaxIdAssumption DEF TypeOK, IdsInOrder, MapHoldsOpenRequests, Ids
<1>4. EntriesMatchAnswers' /\ OutcomeIsTheAnswer' /\ NoLostWakeup'
  BY DEF TypeOK, EntriesMatchAnswers, OutcomeIsTheAnswer, NoLostWakeup, Open
<1>5. QED
  BY <1>1, <1>2, <1>3, <1>4

\* The new entry is undecided and the id is nobody else's.
LEMMA InsertIInv == ASSUME IInv, NEW r \in Requests, Insert(r) PROVE IInv'
<1> USE DEF IInv, Insert, Goto
<1>1. id[r] \in Ids
  BY OpenHasId
<1>2. TypeOK'
  BY DEF TypeOK, Pc, Entry
<1>3. IdsInOrder' /\ UniqueIds'
  BY DEF TypeOK, IdsInOrder, UniqueIds
<1>4. MapHoldsOpenRequests'
  BY <1>1 DEF TypeOK, UniqueIds, IdsInOrder, MapHoldsOpenRequests
<1>5. EntriesMatchAnswers' /\ OutcomeIsTheAnswer' /\ NoLostWakeup'
  BY <1>1 DEF TypeOK, UniqueIds, IdsInOrder, EntriesMatchAnswers, AnswersOf,
              OutcomeIsTheAnswer, NoLostWakeup, Open
<1>6. QED
  BY <1>2, <1>3, <1>4, <1>5

\* Leaving by any of the three exits, provided the outcome is the decision of
\* the entry or a timeout.
LEMMA ReturnIInv ==
  ASSUME IInv, NEW r \in Requests, Open(r), NEW o, Return(r, o),
         o = "timedout" \/ (o = pending[id[r]] /\ o \in Decisions)
  PROVE  IInv'
<1> USE DEF IInv, Return, Goto
<1>1. id[r] \in Ids /\ id[r] # 0
  BY OpenHasId DEF Open, IdsInOrder
<1>2. TypeOK'
  BY DEF TypeOK, Pc, Entry, Decisions
<1>3. IdsInOrder' /\ UniqueIds'
  BY <1>1 DEF TypeOK, IdsInOrder, UniqueIds
<1>4. MapHoldsOpenRequests'
  BY <1>1 DEF TypeOK, UniqueIds, MapHoldsOpenRequests, Open
<1>5. EntriesMatchAnswers'
  BY <1>1 DEF TypeOK, UniqueIds, EntriesMatchAnswers, Open, Decisions
<1>6. OutcomeIsTheAnswer'
  BY <1>1 DEF TypeOK, EntriesMatchAnswers, AnswersOf, OutcomeIsTheAnswer, Decisions
<1>7. NoLostWakeup'
  BY <1>1 DEF TypeOK, UniqueIds, NoLostWakeup
<1>8. QED
  BY <1>2, <1>3, <1>4, <1>5, <1>6, <1>7

\* The steps that move a request around the loop touch neither map nor answers.
LEMMA LoopIInv ==
  ASSUME IInv, NEW r \in Requests,
         Wait(r) \/ SpuriousWakeup(r) \/ TimerFires(r) \/ DeadlinePasses(r)
  PROVE  IInv'
<1> USE DEF IInv, Wait, SpuriousWakeup, TimerFires, DeadlinePasses, Goto
<1>1. TypeOK'
  BY DEF TypeOK, Pc
<1>2. IdsInOrder' /\ UniqueIds'
  BY DEF TypeOK, IdsInOrder, UniqueIds
<1>3. MapHoldsOpenRequests'
  BY DEF TypeOK, MapHoldsOpenRequests
<1>4. EntriesMatchAnswers' /\ OutcomeIsTheAnswer'
  BY DEF TypeOK, EntriesMatchAnswers, OutcomeIsTheAnswer, Open
<1>5. NoLostWakeup'
  <2>1. CASE Wait(r)
    <3>1. pending[id[r]] \in Entry /\ pending[id[r]] # "absent"
      BY <2>1, OpenHasId DEF TypeOK, MapHoldsOpenRequests
    <3>2. QED
      BY <2>1, <3>1 DEF TypeOK, NoLostWakeup, Entry
  <2>2. CASE SpuriousWakeup(r) \/ TimerFires(r) \/ DeadlinePasses(r)
    BY <2>2 DEF TypeOK, NoLostWakeup
  <2>3. QED
    BY <2>1, <2>2
<1>6. QED
  BY <1>1, <1>2, <1>3, <1>4, <1>5

\* The answer is recorded and everyone who might wait for it is woken.
LEMMA ResolveIInv ==
  ASSUME IInv, NEW r \in Requests, NEW approved \in BOOLEAN, Resolve(r, approved)
  PROVE  IInv'
<1> USE DEF IInv, Resolve, WakeAll
<1>1. id[r] \in Ids
  BY DEF TypeOK, Ids
<1>2. Open(r)
  BY <1>1 DEF MapHoldsOpenRequests, UniqueIds, IdsInOrder, Open
<1>3. TypeOK'
  BY DEF TypeOK, Pc, Entry, Decisions, Verdict
<1>4. IdsInOrder' /\ UniqueIds'
  BY DEF TypeOK, IdsInOrder, UniqueIds
<1>5. MapHoldsOpenRequests'
  BY <1>1, <1>2 DEF TypeOK, MapHoldsOpenRequests, Open
<1>6. EntriesMatchAnswers'
  <2>1. answers[r] = {}
    BY <1>2 DEF EntriesMatchAnswers, AnswersOf
  <2>2. answers'[r] = AnswersOf(pending'[id'[r]])
    BY <1>1, <2>1 DEF TypeOK, AnswersOf, Verdict
  <2>3. \A s \in Requests \ {r} :
          answers'[s] = answers[s] /\ (Open(s) => pending'[id'[s]] = pending[id[s]])
    BY <1>1 DEF TypeOK, UniqueIds
  <2>4. \A s \in Requests :
          /\ Open(s)' <=> Open(s)
          /\ pc'[s] \in {"idle", "numbered"} => pc'[s] = pc[s]
          /\ pc[s] = "returned" <=> pc'[s] = "returned"
    BY DEF TypeOK, Open
  <2>5. QED
    BY <1>2, <2>2, <2>3, <2>4 DEF EntriesMatchAnswers, Open
<1>7. OutcomeIsTheAnswer'
  BY <1>1, <1>2 DEF TypeOK, EntriesMatchAnswers, AnswersOf, OutcomeIsTheAnswer, Open, Verdict
<1>8. NoLostWakeup'
  BY DEF TypeOK, NoLostWakeup
<1>9. QED
  BY <1>3, <1>4, <1>5, <1>6, <1>7, <1>8

LEMMA NextIInv == IInv /\ [Next]_vars => IInv'
<1>1. ASSUME IInv, NEW r \in Requests, Requester(r) PROVE IInv'
  <2>1. CASE FetchId(r)
    BY <1>1, <2>1, FetchIdIInv
  <2>2. CASE Insert(r)
    BY <1>1, <2>2, InsertIInv
  <2>3. CASE TakeDecision(r)
    BY <1>1, <2>3, ReturnIInv DEF TakeDecision, Open
  <2>4. CASE FindExpired(r)
    BY <1>1, <2>4, ReturnIInv DEF FindExpired, Open
  <2>5. CASE GiveUp(r)
    BY <1>1, <2>5, ReturnIInv DEF GiveUp, Open
  <2>6. CASE Wait(r) \/ SpuriousWakeup(r) \/ TimerFires(r) \/ DeadlinePasses(r)
    BY <1>1, <2>6, LoopIInv
  <2>7. QED
    BY <1>1, <2>1, <2>2, <2>3, <2>4, <2>5, <2>6 DEF Requester
<1>2. ASSUME IInv, UNCHANGED vars PROVE IInv'
  BY <1>2 DEF vars, IInv, TypeOK, IdsInOrder, UniqueIds, MapHoldsOpenRequests,
              EntriesMatchAnswers, Open, OutcomeIsTheAnswer, NoLostWakeup
<1>3. QED
  BY <1>1, <1>2, ResolveIInv DEF Next, Finished

LEMMA InvariantIInv == Spec => []IInv
  BY InitIInv, NextIInv, PTL DEF Spec

-----------------------------------------------------------------------------
\* Type correctness of the in-process broker, for any set of requests.
THEOREM TypeCorrect == Spec => []TypeOK
<1>1. IInv => TypeOK
  BY DEF IInv
<1>2. QED
  BY <1>1, InvariantIInv, PTL

\* No call of CliApproveConfirmer::confirm returns an approval or a denial that
\* no approver gave to that very request, and no request takes two answers.
THEOREM OutcomeCorrect == Spec => []OutcomeIsTheAnswer
<1>1. IInv => OutcomeIsTheAnswer
  BY DEF IInv
<1>2. QED
  BY <1>1, InvariantIInv, PTL

\* A call that returned leaves nothing in the map an approver could answer.
THEOREM MapCorrect == Spec => []MapHoldsOpenRequests
<1>1. IInv => MapHoldsOpenRequests
  BY DEF IInv
<1>2. QED
  BY <1>1, InvariantIInv, PTL

\* resolve() cannot be missed: a sleeping requester has no decision waiting.
THEOREM WakeupsCorrect == Spec => []NoLostWakeup
<1>1. IInv => NoLostWakeup
  BY DEF IInv
<1>2. QED
  BY <1>1, InvariantIInv, PTL

-----------------------------------------------------------------------------
\* How the contract sees a step: a call opens when its entry is inserted, is
\* answered by resolve(), and settles when it returns; other steps stutter.
CStatus == [r \in Requests |-> StatusOf(r)]

LEMMA ReturnRefines ==
  ASSUME IInv, NEW r \in Requests, Open(r), NEW o, Return(r, o),
         o = "timedout" \/ (o = pending[id[r]] /\ o \in Decisions)
  PROVE  Contract!Settle(r)
<1>1. CStatus[r] = "open"
  BY DEF CStatus, StatusOf, Open
<1>2. CStatus' = [CStatus EXCEPT ![r] = o]
  BY DEF CStatus, StatusOf, Return, Goto, IInv, TypeOK
<1>3. CASE o = "approved"
  <2>1. "approve" \in answers[r]
    BY <1>3 DEF IInv, EntriesMatchAnswers, AnswersOf
  <2>2. QED
    BY <1>1, <1>2, <1>3, <2>1 DEF Contract!Settle, Contract!Approve, CStatus, Return
<1>4. CASE o # "approved"
  <2>1. Contract!Refuse(r)
    BY <1>1, <1>2, <1>4 DEF Contract!Refuse, CStatus, Return, Decisions
  <2>2. QED
    BY <2>1 DEF Contract!Settle
<1>5. QED
  BY <1>3, <1>4

\* An action that leaves CStatus and the answers alone is a stutter.
LEMMA QuietRefines ==
  ASSUME IInv, NEW r \in Requests,
         \/ FetchId(r) \/ Wait(r) \/ SpuriousWakeup(r)
         \/ TimerFires(r) \/ DeadlinePasses(r)
  PROVE  UNCHANGED Contract!vars
<1>1. CStatus' = CStatus
  BY DEF FetchId, Wait, SpuriousWakeup, TimerFires, DeadlinePasses, Goto, CStatus,
         StatusOf, IInv, TypeOK
<1>2. QED
  BY <1>1 DEF Contract!vars, CStatus, FetchId, Wait, SpuriousWakeup, TimerFires,
              DeadlinePasses

LEMMA InsertRefines ==
  ASSUME IInv, NEW r \in Requests, Insert(r)
  PROVE  Contract!Ask(r)
<1>1. CStatus[r] = "idle" /\ CStatus' = [CStatus EXCEPT ![r] = "open"]
  BY DEF Insert, Goto, CStatus, StatusOf, IInv, TypeOK
<1>2. QED
  BY <1>1 DEF Contract!Ask, CStatus, Insert

LEMMA ResolveRefines ==
  ASSUME IInv, NEW r \in Requests, NEW approved \in BOOLEAN, Resolve(r, approved)
  PROVE  Contract!Answer(r, Verdict(approved))
<1>1. id[r] \in Ids /\ Open(r)
  BY DEF Resolve, IInv, TypeOK, MapHoldsOpenRequests, UniqueIds, IdsInOrder, Open, Ids
<1>2. CStatus[r] = "open"
  BY <1>1 DEF CStatus, StatusOf, Open
<1>3. CStatus' = CStatus
  BY DEF Resolve, WakeAll, CStatus, StatusOf, IInv, TypeOK
<1>4. QED
  BY <1>2, <1>3 DEF Contract!Answer, CStatus, Resolve

LEMMA StepRefines == IInv /\ [Next]_vars => [Contract!Next]_(Contract!vars)
<1>1. ASSUME IInv, NEW r \in Requests, Requester(r)
      PROVE  [Contract!Next]_(Contract!vars)
  <2>1. CASE Insert(r)
    BY <1>1, <2>1, InsertRefines DEF Contract!Next
  <2>2. CASE TakeDecision(r) \/ FindExpired(r) \/ GiveUp(r)
    <3>1. Contract!Settle(r)
      BY <1>1, <2>2, ReturnRefines DEF TakeDecision, FindExpired, GiveUp, Open
    <3>2. QED
      BY <3>1 DEF Contract!Next
  <2>3. CASE \/ FetchId(r) \/ Wait(r) \/ SpuriousWakeup(r)
             \/ TimerFires(r) \/ DeadlinePasses(r)
    BY <1>1, <2>3, QuietRefines
  <2>4. QED
    BY <1>1, <2>1, <2>2, <2>3 DEF Requester
<1>2. ASSUME IInv, NEW r \in Requests, NEW approved \in BOOLEAN, Resolve(r, approved)
      PROVE  [Contract!Next]_(Contract!vars)
  <2>1. Verdict(approved) \in Contract!Verdicts
    BY DEF Verdict, Contract!Verdicts
  <2>2. QED
    BY <1>2, <2>1, ResolveRefines DEF Contract!Next
<1>3. ASSUME UNCHANGED vars PROVE UNCHANGED Contract!vars
  BY <1>3 DEF vars, Contract!vars, StatusOf
<1>4. QED
  BY <1>1, <1>2, <1>3 DEF Next, Finished

\* The broker implements the contract (its safety part): CliApproveConfirmer
\* approves nothing that was not approved, whatever the interleaving.
THEOREM ImplementsConfirmation == Spec => ImplementsContract
<1>1. Init => Contract!Init
  BY DEF Init, Contract!Init, StatusOf
<1>2. QED
  BY <1>1, StepRefines, InvariantIInv, PTL DEF Spec, ImplementsContract, Contract!Spec
=============================================================================
