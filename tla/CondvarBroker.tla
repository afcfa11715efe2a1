---------------------------- MODULE CondvarBroker ---------------------------
(***************************************************************************)
(* CliApproveConfirmer (core/src/confirm.rs): the in-process broker.       *)
(* Requesters and approvers are threads that share a map of pending        *)
(* requests under one mutex, a condition variable and an atomic id         *)
(* counter.  Every critical section is one action: nothing blocks inside   *)
(* one except wait_timeout, which releases the mutex and so ends it.       *)
(*                                                                         *)
(* The clock is abstracted to one bit per request, set when its deadline   *)
(* has passed.                                                             *)
(***************************************************************************)
EXTENDS Naturals, FiniteSets

CONSTANTS
  Requests,              \* calls of confirm()
  MaxId                  \* bound on the ids the counter hands out (an AtomicU64)

ASSUME MaxIdAssumption == MaxId \in Nat

VARIABLES
  pc,                    \* where each call of confirm() stands
  id,                    \* the id each call fetched, 0 before that
  next_id,               \* Shared.next_id
  pending,               \* Shared.pending; "absent" is a key not in the map
  expired,               \* calls whose deadline has passed
  outcome,               \* what each call returned
  answers                \* history: answers an approver was told were taken

vars == <<pc, id, next_id, pending, expired, outcome, answers>>

Ids == 1..MaxId
Decisions == {"approved", "denied"}
Entry == {"absent", "undecided"} \union Decisions

\* numbered: holds an id, entry not inserted yet;  looping: at the top of the
\* loop, about to look under the mutex;  waiting: in wait_timeout;  lapsed:
\* wait_timeout ended by its timer and has not reacquired the mutex.
Pc == {"idle", "numbered", "looping", "waiting", "lapsed", "returned"}

TypeOK ==
  /\ pc \in [Requests -> Pc]
  /\ id \in [Requests -> 0..MaxId]
  /\ next_id \in 1..(MaxId + 1)
  /\ pending \in [Ids -> Entry]
  /\ expired \in [Requests -> BOOLEAN]
  /\ outcome \in [Requests -> {"none", "approved", "denied", "timedout"}]
  /\ answers \in [Requests -> SUBSET {"approve", "deny"}]

Init ==
  /\ pc = [r \in Requests |-> "idle"]
  /\ id = [r \in Requests |-> 0]
  /\ next_id = 1
  /\ pending = [i \in Ids |-> "absent"]
  /\ expired = [r \in Requests |-> FALSE]
  /\ outcome = [r \in Requests |-> "none"]
  /\ answers = [r \in Requests |-> {}]

Goto(r, label) == pc' = [pc EXCEPT ![r] = label]

\* Mutant of FetchId: load and store instead of fetch_add, the store being lost.
FetchIdLostUpdate(r) ==
  /\ pc[r] = "idle"
  /\ next_id <= MaxId
  /\ id' = [id EXCEPT ![r] = next_id]
  /\ Goto(r, "numbered")
  /\ UNCHANGED <<next_id, pending, expired, outcome, answers>>

\* next_id.fetch_add(1): atomic, before the mutex is first taken.
FetchId(r) ==
  /\ pc[r] = "idle"
  /\ next_id <= MaxId
  /\ id' = [id EXCEPT ![r] = next_id]
  /\ next_id' = next_id + 1
  /\ Goto(r, "numbered")
  /\ UNCHANGED <<pending, expired, outcome, answers>>

\* pending.insert under the mutex, which is then released: an approver may
\* answer before the requester first looks.
Insert(r) ==
  /\ pc[r] = "numbered"
  /\ pending' = [pending EXCEPT ![id[r]] = "undecided"]
  /\ Goto(r, "looping")
  /\ UNCHANGED <<id, next_id, expired, outcome, answers>>

\* pending.remove(&id) and return, both under the mutex.
Return(r, o) ==
  /\ pending' = [pending EXCEPT ![id[r]] = "absent"]
  /\ outcome' = [outcome EXCEPT ![r] = o]
  /\ Goto(r, "returned")
  /\ UNCHANGED <<id, next_id, expired, answers>>

\* Mutant of TakeDecision: any decision counts as an approval.
TakeAnyDecision(r) ==
  /\ pc[r] = "looping"
  /\ pending[id[r]] \in Decisions
  /\ Return(r, "approved")

\* The decision is looked at before the deadline.
TakeDecision(r) ==
  /\ pc[r] = "looping"
  /\ pending[id[r]] \in Decisions
  /\ Return(r, pending[id[r]])

FindExpired(r) ==
  /\ pc[r] = "looping"
  /\ pending[id[r]] \notin Decisions
  /\ expired[r]
  /\ Return(r, "timedout")

\* Mutant of Wait: a woken call waits again without a look at the deadline.
WaitPastDeadline(r) ==
  /\ pc[r] = "looping"
  /\ pending[id[r]] \notin Decisions
  /\ Goto(r, "waiting")
  /\ UNCHANGED <<id, next_id, pending, expired, outcome, answers>>

\* wait_timeout releases the mutex and blocks, in one step.
Wait(r) ==
  /\ pc[r] = "looping"
  /\ pending[id[r]] \notin Decisions
  /\ ~expired[r]
  /\ Goto(r, "waiting")
  /\ UNCHANGED <<id, next_id, pending, expired, outcome, answers>>

\* A condition variable may wake a thread for no reason.
SpuriousWakeup(r) ==
  /\ pc[r] = "waiting"
  /\ Goto(r, "looping")
  /\ UNCHANGED <<id, next_id, pending, expired, outcome, answers>>

\* The wait is over because its time is up; the thread still has to reacquire
\* the mutex, and an approver may get in first.
TimerFires(r) ==
  /\ pc[r] = "waiting"
  /\ expired[r]
  /\ Goto(r, "lapsed")
  /\ UNCHANGED <<id, next_id, pending, expired, outcome, answers>>

\* res.timed_out(): the entry is removed without another look at it.
GiveUp(r) ==
  /\ pc[r] = "lapsed"
  /\ Return(r, "timedout")

DeadlinePasses(r) ==
  /\ pc[r] \in {"looping", "waiting"}
  /\ ~expired[r]
  /\ expired' = [expired EXCEPT ![r] = TRUE]
  /\ UNCHANGED <<pc, id, next_id, pending, outcome, answers>>

\* Mutant of WakeAll: notify_all forgotten.
WakeNobody(p) == p

\* cv.notify_all(): every waiter goes back to the top of the loop.
WakeAll(p) == [r \in Requests |-> IF p[r] = "waiting" THEN "looping" ELSE p[r]]

Verdict(approved) == IF approved THEN "approve" ELSE "deny"

\* resolve(): an approver that was shown r answers it.  Only the first answer to
\* an entry still in the map is taken (the approver is told true), and then
\* every waiter is woken; any other call changes nothing (false).
Resolve(r, approved) ==
  /\ id[r] # 0
  /\ pending[id[r]] = "undecided"
  /\ pending' = [pending EXCEPT ![id[r]] = IF approved THEN "approved" ELSE "denied"]
  /\ pc' = WakeAll(pc)
  /\ answers' = [answers EXCEPT ![r] = @ \union {Verdict(approved)}]
  /\ UNCHANGED <<id, next_id, expired, outcome>>

Requester(r) ==
  \/ FetchId(r)
  \/ Insert(r)
  \/ TakeDecision(r)
  \/ FindExpired(r)
  \/ Wait(r)
  \/ SpuriousWakeup(r)
  \/ TimerFires(r)
  \/ GiveUp(r)
  \/ DeadlinePasses(r)

\* Nothing is left to do once every call has returned or the ids are used up.
Finished ==
  /\ \A r \in Requests : pc[r] = "returned" \/ (pc[r] = "idle" /\ next_id > MaxId)
  /\ UNCHANGED vars

Next ==
  \/ \E r \in Requests : Requester(r)
  \/ \E r \in Requests, approved \in BOOLEAN : Resolve(r, approved)
  \/ Finished

\* A runnable thread runs (the operating system's scheduler), also once it has
\* been woken.  Nobody has to answer, and the deadline is not assumed to pass.
ThreadsRun ==
  \A r \in Requests :
    WF_vars(Insert(r) \/ TakeDecision(r) \/ FindExpired(r) \/ Wait(r) \/ GiveUp(r))

\* Time passes, and the timer of a wait whose time is up fires.
ClockRuns == \A r \in Requests : WF_vars(DeadlinePasses(r)) /\ WF_vars(TimerFires(r))

Spec == Init /\ [][Next]_vars
ScheduledSpec == Spec /\ ThreadsRun

-----------------------------------------------------------------------------
\* Two calls never hold the same id: what makes an answer to one request
\* unable to release another (next_id is fetched atomically).
UniqueIds ==
  \A r, s \in Requests : id[r] # 0 /\ id[r] = id[s] => r = s

\* The fail-safe core of the broker: a call returns an approval or a denial only
\* if that very answer, to that very request, was taken from an approver, and
\* at most one answer to a request was ever taken.  A timed-out call may have
\* been answered: the answer can slip in between the timer and the mutex.
OutcomeIsTheAnswer ==
  \A r \in Requests :
    /\ outcome[r] = "approved" => answers[r] = {"approve"}
    /\ outcome[r] = "denied" => answers[r] = {"deny"}
    /\ answers[r] \in {{}, {"approve"}, {"deny"}}

\* The map holds the open requests and nothing else: a call that returned, by
\* whichever of the three exits, leaves no entry an approver could be shown.
MapHoldsOpenRequests ==
  \A i \in Ids :
    pending[i] # "absent" <=>
      \E r \in Requests : id[r] = i /\ pc[r] \in {"looping", "waiting", "lapsed"}

\* An answer never sits unseen behind a sleeping requester: a decided entry
\* means its owner is awake or about to wake (resolve() notifies under the mutex).
NoLostWakeup ==
  \A r \in Requests : pc[r] = "waiting" => pending[id[r]] = "undecided"

\* The contract, call by call.
StatusOf(r) ==
  IF pc[r] \in {"idle", "numbered"} THEN "idle"
  ELSE IF pc[r] = "returned" THEN outcome[r] ELSE "open"

Contract == INSTANCE Confirmation WITH status <- [r \in Requests |-> StatusOf(r)]

\* Every behaviour of the broker is one the contract allows: only an approved
\* request is approved.
ImplementsContract == Contract!Spec

\* The contract's "block until the request is resolved or `timeout` elapses":
\* if time passes, every call returns, answered or not.
CallsReturn == ClockRuns => Contract!Fairness
=============================================================================
