------------------------------ MODULE FileBroker ----------------------------
(***************************************************************************)
(* FileConfirmer (core/src/file_confirm.rs): the cross-process broker.     *)
(* A requester publishes <root>/pending/<id>.json and polls for            *)
(* <id>.decision; `kovra approve` in another process writes that file.     *)
(* Both files are written through atomic_write, whose temporary is         *)
(* <id>.tmp for the one as for the other.  There is no lock: one action is *)
(* one file-system call, and every process may be interrupted, or die,     *)
(* between two of them.                                                    *)
(*                                                                         *)
(* A path is a link to an inode or nothing; an open file stays the inode   *)
(* it was opened on when the path moves.  An inode is named after the      *)
(* writer that created it (each writer creates one at most), and its       *)
(* content says which text it holds and who wrote it last.                 *)
(***************************************************************************)
EXTENDS Naturals, FiniteSets

CONSTANTS
  Requests,              \* calls of confirm()
  Calls,                 \* runs of `kovra approve [--deny] <id>`
  Processes,             \* requesting processes (each its own pid)
  ProcessOf,             \* the process each request is made in
  SharedBroker,          \* processes that keep one FileConfirmer for life (the
                         \* Web UI); the others build one per request
  Timeout,               \* the timeout of confirm(), in seconds
  MaxSecond,             \* the clock's bound: stands for any later time
  MaxCount,              \* bound on a broker's request counter (an AtomicU64)
  NoFile                 \* no file at that path

ASSUME BrokerAssumption ==
  /\ ProcessOf \in [Requests -> Processes]
  /\ SharedBroker \subseteq Processes
  /\ Timeout \in Nat /\ MaxSecond \in Nat /\ MaxCount \in Nat
  /\ Requests \intersect Calls = {}
  /\ NoFile \notin Requests \union Calls
  /\ NoFile \notin Nat \X Processes \X Nat

VARIABLES
  now,                   \* seconds of the system clock
  counter,               \* FileConfirmer.counter of each shared broker
  pc, id, deadline, outcome,             \* the calls of confirm()
  shown, verdict, told,                  \* the runs of `kovra approve`
  request_file, decision_file, tmp_file, \* the three paths of each id
  fd, content,                           \* open files, inodes
  answers, released_by   \* history: who decided what, and whose text was obeyed

clock == <<now, counter>>
asking == <<id, deadline, outcome, released_by>>
answering == <<shown, verdict, told, answers>>
links == <<request_file, decision_file, tmp_file>>
disk == <<links, fd, content>>
vars == <<clock, pc, asking, answering, disk>>

Writers == Requests \union Calls
Seconds == 0..MaxSecond
Ids == Seconds \X Processes \X (0..MaxCount)
Link == Writers \union {NoFile}

\* What a file can hold: nothing yet, a whole request or decision, or what one
\* write leaves of a longer text it overwrote: "denied" over "approved" is
\* "denieded", and any decision over a request is "torn".
Texts == {"empty", "request", "approved", "denied", "denieded", "torn"}
TextOf == [approve |-> "approved", deny |-> "denied"]

\* The text left by writing `new` at offset 0 of a file holding `old`.
Overwrite(old, new) ==
  IF new = "request" \/ old \in {"empty", "denied"} THEN new
  ELSE IF old \in {"request", "torn"} THEN "torn"
  ELSE IF new = "approved" THEN new ELSE "denieded"

RequesterPc ==
  {"opening", "writing", "renaming", "polling", "missed", "unlisting", "clearing"}
CallPc == {"checking", "opening", "writing", "renaming"}
Pc == {"idle", "done", "dead"} \union RequesterPc \union CallPc

TypeOK ==
  /\ now \in Seconds
  /\ counter \in [Processes -> 0..(MaxCount + 1)]
  /\ pc \in [Writers -> Pc]
  /\ id \in [Requests -> Ids \union {NoFile}]
  /\ deadline \in [Requests -> Seconds]
  /\ outcome \in [Requests -> {"none", "approved", "denied", "timedout"}]
  /\ shown \in [Calls -> Requests \union {NoFile}]
  /\ verdict \in [Calls -> {"none", "approve", "deny"}]
  /\ told \in [Calls -> {"none", "true", "false", "error"}]
  /\ request_file \in [Ids -> Link]
  /\ decision_file \in [Ids -> Link]
  /\ tmp_file \in [Ids -> Link]
  /\ fd \in [Writers -> Link]
  /\ content \in [Writers -> [text : Texts, by : Writers]]
  /\ answers \in [Requests -> SUBSET {"approve", "deny"}]
  /\ released_by \in [Requests -> Link]

Init ==
  /\ now = 0
  /\ counter = [p \in Processes |-> 0]
  /\ pc = [w \in Writers |-> "idle"]
  /\ id = [r \in Requests |-> NoFile]
  /\ deadline = [r \in Requests |-> 0]
  /\ outcome = [r \in Requests |-> "none"]
  /\ shown = [c \in Calls |-> NoFile]
  /\ verdict = [c \in Calls |-> "none"]
  /\ told = [c \in Calls |-> "none"]
  /\ request_file = [i \in Ids |-> NoFile]
  /\ decision_file = [i \in Ids |-> NoFile]
  /\ tmp_file = [i \in Ids |-> NoFile]
  /\ fd = [w \in Writers |-> NoFile]
  /\ content = [w \in Writers |-> [text |-> "empty", by |-> w]]
  /\ answers = [r \in Requests |-> {}]
  /\ released_by = [r \in Requests |-> NoFile]

Goto(w, label) == pc' = [pc EXCEPT ![w] = label]

InFlight(r) == pc[r] \in RequesterPc

Tick ==
  /\ now < MaxSecond
  /\ now' = now + 1
  /\ UNCHANGED <<counter, pc, asking, answering, disk>>

-----------------------------------------------------------------------------
(* atomic_write: create or truncate <id>.tmp, write it, rename it.          *)

\* The id a writer works on, and so the path of its temporary.
IdOf(w) == IF w \in Requests THEN id[w] ELSE id[shown[w]]

\* Mutant of OpenTmp: the decision is written in place instead of to a temporary.
OpenInPlace(w) ==
  /\ pc[w] = "opening"
  /\ LET i == IdOf(w)
         inode == IF tmp_file[i] = NoFile THEN w ELSE tmp_file[i]
     IN  /\ tmp_file' = [tmp_file EXCEPT ![i] = inode]
         /\ decision_file' = IF w \in Calls THEN [decision_file EXCEPT ![i] = inode]
                             ELSE decision_file
         /\ fd' = [fd EXCEPT ![w] = inode]
         /\ content' = [content EXCEPT ![inode] = [text |-> "empty", by |-> w]]
  /\ Goto(w, "writing")
  /\ UNCHANGED <<clock, asking, answering, request_file>>

\* fs::write, first half: open(O_CREAT | O_TRUNC).  A temporary that is already
\* there, whoever wrote it, is emptied and shared.
OpenTmp(w) ==
  /\ pc[w] = "opening"
  /\ LET i == IdOf(w)
         inode == IF tmp_file[i] = NoFile THEN w ELSE tmp_file[i]
     IN  /\ tmp_file' = [tmp_file EXCEPT ![i] = inode]
         /\ fd' = [fd EXCEPT ![w] = inode]
         /\ content' = [content EXCEPT ![inode] = [text |-> "empty", by |-> w]]
  /\ Goto(w, "writing")
  /\ UNCHANGED <<clock, asking, answering, request_file, decision_file>>

\* fs::write, second half: the text goes to the open inode, wherever its path
\* has moved meanwhile.
WriteTmp(w) ==
  /\ pc[w] = "writing"
  /\ LET new == IF w \in Requests THEN "request" ELSE TextOf[verdict[w]]
         left == Overwrite(content[fd[w]].text, new)
     IN  content' = [content EXCEPT ![fd[w]] = [text |-> left, by |-> w]]
  /\ Goto(w, "renaming")
  /\ UNCHANGED <<clock, asking, answering, links, fd>>

\* store::restrict and fs::rename, both by path; both fail if the temporary is
\* gone.  The result replaces whatever the target was.
TmpGone(w) == tmp_file[IdOf(w)] = NoFile

MoveTmpTo(w, target) ==
  /\ ~TmpGone(w)
  /\ tmp_file' = [tmp_file EXCEPT ![IdOf(w)] = NoFile]
  /\ fd' = [fd EXCEPT ![w] = NoFile]
  /\ target' = [target EXCEPT ![IdOf(w)] = tmp_file[IdOf(w)]]
  /\ UNCHANGED <<clock, content>>

-----------------------------------------------------------------------------
(* The requester: FileConfirmer::confirm.                                   *)

\* A process that builds a broker per request makes one request at a time.
MayBegin(r) ==
  \/ ProcessOf[r] \in SharedBroker
  \/ \A s \in Requests : ProcessOf[s] = ProcessOf[r] => ~InFlight(s)

\* Mutant of Begin: the counter of a shared broker is not advanced.
BeginUncounted(r) ==
  /\ pc[r] = "idle"
  /\ now < MaxSecond
  /\ MayBegin(r)
  /\ LET p == ProcessOf[r]
     IN  /\ counter[p] <= MaxCount
         /\ id' = [id EXCEPT ![r] = <<now, p, counter[p]>>]
  /\ Goto(r, "opening")
  /\ UNCHANGED <<clock, deadline, outcome, released_by, answering, disk>>

\* next_id(): <unix seconds>-<pid>-<counter of this broker>.
Begin(r) ==
  /\ pc[r] = "idle"
  /\ now < MaxSecond
  /\ MayBegin(r)
  /\ LET p == ProcessOf[r]
     IN  /\ counter[p] <= MaxCount
         /\ id' = [id EXCEPT ![r] = <<now, p, counter[p]>>]
         /\ counter' = IF p \in SharedBroker THEN [counter EXCEPT ![p] = @ + 1] ELSE counter
  /\ Goto(r, "opening")
  /\ UNCHANGED <<now, deadline, outcome, released_by, answering, disk>>

\* The request is on display; the deadline counts from here.
Publish(r) ==
  /\ pc[r] = "renaming"
  /\ MoveTmpTo(r, request_file)
  /\ deadline' = [deadline EXCEPT ![r] =
                    IF now + Timeout > MaxSecond THEN MaxSecond ELSE now + Timeout]
  /\ Goto(r, "polling")
  /\ UNCHANGED <<id, outcome, released_by, answering, decision_file>>

\* ensure_dir or atomic_write failed: denied, with whatever is on disk left there.
FailToPublish(r) ==
  /\ pc[r] \in {"opening", "writing", "renaming"}
  /\ outcome' = [outcome EXCEPT ![r] = "denied"]
  /\ fd' = [fd EXCEPT ![r] = NoFile]
  /\ Goto(r, "done")
  /\ UNCHANGED <<clock, id, deadline, released_by, answering, links, content>>

\* Mutant of TakeDecision: a decision file, whatever it says, approves.
TakeAnyDecision(r) ==
  /\ pc[r] = "polling"
  /\ decision_file[id[r]] # NoFile
  /\ outcome' = [outcome EXCEPT ![r] = "approved"]
  /\ released_by' = [released_by EXCEPT ![r] = content[decision_file[id[r]]].by]
  /\ Goto(r, "unlisting")
  /\ UNCHANGED <<clock, id, deadline, answering, disk>>

\* The decision file is there: its text decides, and anything but "approved"
\* is a denial.  (Opening and reading it is one step.)
TakeDecision(r) ==
  /\ pc[r] = "polling"
  /\ decision_file[id[r]] # NoFile
  /\ LET read == content[decision_file[id[r]]]
     IN  /\ outcome' = [outcome EXCEPT ![r] =
                          IF read.text = "approved" THEN "approved" ELSE "denied"]
         /\ released_by' = [released_by EXCEPT ![r] = read.by]
  /\ Goto(r, "unlisting")
  /\ UNCHANGED <<clock, id, deadline, answering, disk>>

\* No decision file when the requester looked; then it looks at the clock.
Miss(r) ==
  /\ pc[r] = "polling"
  /\ decision_file[id[r]] = NoFile
  /\ Goto(r, "missed")
  /\ UNCHANGED <<clock, asking, answering, disk>>

\* A decision published since the requester looked is not looked for again.
TimeOut(r) ==
  /\ pc[r] = "missed"
  /\ now >= deadline[r]
  /\ outcome' = [outcome EXCEPT ![r] = "timedout"]
  /\ Goto(r, "unlisting")
  /\ UNCHANGED <<clock, id, deadline, released_by, answering, disk>>

Sleep(r) ==
  /\ pc[r] = "missed"
  /\ now < deadline[r]
  /\ Goto(r, "polling")
  /\ UNCHANGED <<clock, asking, answering, disk>>

\* cleanup(), first the request, then the decision.
RemoveRequest(r) ==
  /\ pc[r] = "unlisting"
  /\ request_file' = [request_file EXCEPT ![id[r]] = NoFile]
  /\ Goto(r, "clearing")
  /\ UNCHANGED <<clock, asking, answering, decision_file, tmp_file, fd, content>>

RemoveDecision(r) ==
  /\ pc[r] = "clearing"
  /\ decision_file' = [decision_file EXCEPT ![id[r]] = NoFile]
  /\ Goto(r, "done")
  /\ UNCHANGED <<clock, asking, answering, request_file, tmp_file, fd, content>>

\* A requesting process is killed: its calls never return and clean nothing up.
Crash(p) ==
  /\ \E r \in Requests : ProcessOf[r] = p /\ InFlight(r)
  /\ pc' = [w \in Writers |->
              IF w \in Requests /\ ProcessOf[w] = p /\ pc[w] # "done" THEN "dead" ELSE pc[w]]
  /\ UNCHANGED <<clock, asking, answering, disk>>

-----------------------------------------------------------------------------
(* The approver: `kovra approve --list`, then `kovra approve [--deny] <id>`. *)

\* list_pending: only files that parse as a request are listed.  A person reads
\* one and decides on it.
Decide(c) ==
  /\ pc[c] = "idle"
  /\ \E i \in Ids, v \in {"approve", "deny"} :
       /\ request_file[i] # NoFile
       /\ LET listed == content[request_file[i]]
          IN  /\ listed.text = "request"
              /\ shown' = [shown EXCEPT ![c] = listed.by]
              /\ answers' = [answers EXCEPT ![listed.by] = @ \union {v}]
       /\ verdict' = [verdict EXCEPT ![c] = v]
  /\ Goto(c, "checking")
  /\ UNCHANGED <<clock, asking, told, disk>>

\* Mutant of CheckOpen: it looks for the decision instead of the request.
CheckDecided(c) ==
  /\ pc[c] = "checking"
  /\ IF decision_file[IdOf(c)] = NoFile
     THEN told' = [told EXCEPT ![c] = "false"] /\ Goto(c, "done")
     ELSE Goto(c, "opening") /\ UNCHANGED told
  /\ UNCHANGED <<clock, asking, shown, verdict, answers, disk>>

\* decide(): request_path(id).exists() ...
CheckOpen(c) ==
  /\ pc[c] = "checking"
  /\ IF request_file[IdOf(c)] = NoFile
     THEN told' = [told EXCEPT ![c] = "false"] /\ Goto(c, "done")
     ELSE Goto(c, "opening") /\ UNCHANGED told
  /\ UNCHANGED <<clock, asking, shown, verdict, answers, disk>>

\* ... and then atomic_write of the decision, without looking again.
PublishDecision(c) ==
  /\ pc[c] = "renaming"
  /\ MoveTmpTo(c, decision_file)
  /\ told' = [told EXCEPT ![c] = "true"]
  /\ Goto(c, "done")
  /\ UNCHANGED <<asking, shown, verdict, answers, request_file>>

\* atomic_write failed; in particular, another writer's rename took the temporary.
FailToDecide(c) ==
  /\ pc[c] = "renaming"
  /\ TmpGone(c)
  /\ told' = [told EXCEPT ![c] = "error"]
  /\ fd' = [fd EXCEPT ![c] = NoFile]
  /\ Goto(c, "done")
  /\ UNCHANGED <<clock, asking, shown, verdict, answers, links, content>>

-----------------------------------------------------------------------------
Requester(r) ==
  \/ Begin(r)
  \/ OpenTmp(r)
  \/ WriteTmp(r)
  \/ Publish(r)
  \/ FailToPublish(r)
  \/ TakeDecision(r)
  \/ Miss(r)
  \/ TimeOut(r)
  \/ Sleep(r)
  \/ RemoveRequest(r)
  \/ RemoveDecision(r)

\* A run of `kovra approve` may stop anywhere: nothing makes it go on.
Approver(c) ==
  \/ Decide(c)
  \/ CheckOpen(c)
  \/ OpenTmp(c)
  \/ WriteTmp(c)
  \/ PublishDecision(c)
  \/ FailToDecide(c)

Finished ==
  /\ now = MaxSecond
  /\ \A r \in Requests : ~InFlight(r)
  /\ \A c \in Calls : pc[c] \in {"idle", "done"}
  /\ UNCHANGED vars

Next ==
  \/ Tick
  \/ \E r \in Requests : Requester(r)
  \/ \E p \in Processes : Crash(p)
  \/ \E c \in Calls : Approver(c)
  \/ Finished

Spec == Init /\ [][Next]_vars

\* The clock runs, and a requester whose process lives keeps polling.
Fairness ==
  /\ WF_vars(Tick)
  /\ \A r \in Requests : WF_vars(Requester(r) /\ pc[r] # "idle")

FairSpec == Spec /\ Fairness

-----------------------------------------------------------------------------
\* The attended gate of the file broker: confirm() reports an approval only if
\* the text it obeyed was written by a call whose operator was shown this very
\* request and approved it.  An approval left over from another request, or a
\* denial garbled on its way, must never release anything.
ReleasedByItsOwnApproval ==
  \A r \in Requests : outcome[r] = "approved" =>
    \E c \in Calls : released_by[r] = c /\ shown[c] = r /\ verdict[c] = "approve"

\* With one operator at work on a request, what that operator decided is what
\* the requester reads: no half-written decision is ever taken for a denial.
SoleDecisionCounts ==
  \A r \in Requests, c \in Calls :
    (released_by[r] = c /\ {d \in Calls : shown[d] = r} = {c}) =>
      outcome[r] = TextOf[verdict[c]]

\* "Returns `false` if no such request is open", and only then: an approver is
\* never turned away from a request that is still waiting for it.
FalseMeansClosed ==
  \A c \in Calls : told[c] = "false" => outcome[shown[c]] # "none" \/ pc[shown[c]] = "dead"

\* The contract, call by call.
StatusOf(r) ==
  IF id[r] = NoFile THEN "idle"
  ELSE IF pc[r] = "dead" THEN "abandoned"
  ELSE IF pc[r] = "done" THEN outcome[r] ELSE "open"

Contract == INSTANCE Confirmation WITH status <- [r \in Requests |-> StatusOf(r)]

\* Every behaviour of the broker is one the contract allows, and every call
\* returns by its deadline at the latest unless its process dies.
ImplementsContract == Contract!FairSpec
=============================================================================
