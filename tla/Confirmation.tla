---------------------------- MODULE Confirmation ----------------------------
(***************************************************************************)
(* What every confirmation broker promises (the Confirmer trait,           *)
(* core/src/confirm.rs).  A caller asks and blocks; people answer; the     *)
(* call returns one outcome.  The promise is one-sided: "approved" is      *)
(* returned only for a request some person approved, whereas a broker may  *)
(* refuse an open request at any time, with "denied" or "timedout",        *)
(* because both fail safe.  A caller that dies abandons its request.       *)
(*                                                                         *)
(* CondvarBroker and FileBroker implement this specification.              *)
(***************************************************************************)
CONSTANT Requests        \* calls of Confirmer::confirm

VARIABLES
  status,                \* where each call stands
  answers                \* what people have answered to each request

vars == <<status, answers>>

\* ConfirmOutcome, with the two states of a call that has no outcome yet and
\* the fate of a call whose process died.
Outcomes == {"approved", "denied", "timedout"}
Status == {"idle", "open", "abandoned"} \union Outcomes

\* ConfirmOutcome::is_approved: the only outcome that may deliver a value.
IsApproved(outcome) == outcome = "approved"

Verdicts == {"approve", "deny"}

TypeOK ==
  /\ status \in [Requests -> Status]
  /\ answers \in [Requests -> SUBSET Verdicts]

Init ==
  /\ status = [r \in Requests |-> "idle"]
  /\ answers = [r \in Requests |-> {}]

\* The caller enters confirm().
Ask(r) ==
  /\ status[r] = "idle"
  /\ status' = [status EXCEPT ![r] = "open"]
  /\ UNCHANGED answers

\* A person decides on the request they were shown.  The request of a dead
\* caller may still be on display.
Answer(r, v) ==
  /\ status[r] \in {"open", "abandoned"}
  /\ answers' = [answers EXCEPT ![r] = @ \union {v}]
  /\ UNCHANGED status

Approve(r) ==
  /\ status[r] = "open"
  /\ "approve" \in answers[r]
  /\ status' = [status EXCEPT ![r] = "approved"]
  /\ UNCHANGED answers

\* Denied, timed out, or an I/O failure reported as a denial.
Refuse(r) ==
  /\ status[r] = "open"
  /\ status' \in {[status EXCEPT ![r] = o] : o \in {"denied", "timedout"}}
  /\ UNCHANGED answers

\* A calling process dies before its calls of confirm() return.
Abandon(S) ==
  /\ \A r \in S : status[r] = "open"
  /\ status' = [r \in Requests |-> IF r \in S THEN "abandoned" ELSE status[r]]
  /\ UNCHANGED answers

Settle(r) ==
  \/ Approve(r)
  \/ Refuse(r)
  \/ \E S \in SUBSET Requests : r \in S /\ Abandon(S)

Next ==
  \E r \in Requests :
    \/ Ask(r)
    \/ \E v \in Verdicts : Answer(r, v)
    \/ Settle(r)

\* "Block until the request is resolved or `timeout` elapses": an open call is
\* settled sooner or later, whether or not anybody answers.
Fairness == \A r \in Requests : WF_vars(Settle(r))

Spec == Init /\ [][Next]_vars
FairSpec == Spec /\ Fairness
=============================================================================
