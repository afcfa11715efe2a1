--------------------------- MODULE ExternalCommand ---------------------------
(***************************************************************************)
(* The programs that kovra runs and waits for: `az` and `aws`              *)
(* (providers-azure, providers-aws: SystemAzRunner::run), `op`             *)
(* (cli/src/onepassword.rs) and the clipboard tools                        *)
(* (copy_to_clipboard of cli/src/commands.rs), with the jobs made of them: *)
(* materialize a reference, `kovra import`, and the 1Password and          *)
(* clipboard ends of `kovra key import` and `kovra key export`.            *)
(*                                                                         *)
(* A program and kovra meet at pipes that hold Pipe units.  A call is      *)
(* timed (wait for the exit under a timeout, then read), captured          *)
(* (Command::output: read both pipes to their end, then wait) or fed       *)
(* (write the input, close it, then as captured).  What the programs do is *)
(* the environment's: Spawn chooses a run.  Texts are units, of which two  *)
(* are told apart, `\n` and `\r`; a message is the sequence of the faults  *)
(* it sounds like.                                                         *)
(***************************************************************************)
EXTENDS Naturals, Sequences

CONSTANTS
  Pipe,                  \* what a pipe holds
  Values,                \* what an external secret may be: sequences of units
  Failures,              \* how a program may fail: [fault, err]
  Text,                  \* the length of what is fed to a program
  Items,                 \* 1Password items, by id
  Namesakes,             \* those that bear the name that is asked for
  Backups,               \* those that have the fields of a backup
  Tools                  \* the number of clipboard tools to try

Newline == "newline"
Return == "return"
LineEnds == {<<Newline>>, <<Return, Newline>>}
Faults == {"auth", "unreachable", "missing", "several", "other"}

ASSUME ExternalCommandAssumption ==
  /\ Pipe \in Nat \ {0}
  /\ Text \in Nat
  /\ Tools \in Nat \ {0}
  /\ Namesakes \subseteq Items
  /\ \A value \in Values : value \in Seq({value[i] : i \in DOMAIN value})
  /\ \A failure \in Failures : failure.fault \in Faults /\ failure.err \in Seq(Faults)

\* What classify_failure counts on: a program that speaks of something that was
\* not found, though the fault is another, also names a cause that is asked for
\* before.
ASSUME FailuresSayWhy ==
  \A failure \in Failures :
    (failure.fault # "missing" /\ \E i \in DOMAIN failure.err : failure.err[i] = "missing") =>
      \E i \in DOMAIN failure.err : failure.err[i] \in {"auth", "unreachable"}

Streams == {"out", "err"}
Empty == [s \in Streams |-> 0]

VARIABLES
  job,                   \* what kovra is doing, see NoJob
  at,                    \* where in the call it is
  child,                 \* the program: its state, its run, how much it has read
  wrote,                 \* per stream, how much the program has written
  taken,                 \* per stream, how much of that kovra has read
  fed,                   \* how much kovra has written to the program
  told                   \* what the job ended with

externalVars == <<job, at, child, wrote, taken, fed, told>>

\* `vault` is --op-vault, `pick` the item that was picked from a list.
NoJob == [kind |-> "none", call |-> "none", vault |-> FALSE, pick |-> "none", tool |-> 1]

\* `held` is what the service holds, `account` the items it has, `stays` that a
\* process started by the program keeps the pipes open.
NoRun ==
  [ends |-> "ok", out |-> <<>>, err |-> <<>>, fault |-> "other",
   held |-> <<>>, account |-> {}, stays |-> FALSE]

Nothing == [what |-> "nothing"]
Fault(fault) == [what |-> "fault", fault |-> fault]

ExternalInit ==
  /\ job = NoJob
  /\ at = "idle"
  /\ child = [state |-> "none", run |-> NoRun, read |-> 0]
  /\ wrote = Empty
  /\ taken = Empty
  /\ fed = 0
  /\ told = Nothing

Timed == job.call = "show"
Fed == job.call \in {"create", "clip"}

-----------------------------------------------------------------------------
(* What a program may do: print, and then end or hang, or fail.             *)

Printed(out, held, account, ends, stays) ==
  [NoRun EXCEPT !.ends = ends, !.out = out, !.held = held, !.account = account, !.stays = stays]

Prints(out, held, account) ==
  {Printed(out, held, account, ends, stays) : ends \in {"ok", "hangs"}, stays \in BOOLEAN}

Fails(fault, err, account) ==
  {[NoRun EXCEPT !.ends = "failed", !.fault = fault, !.err = err, !.account = account,
                 !.stays = stays] : stays \in BOOLEAN}

Json == <<"json">>

\* `op item get` refuses a name that several items bear.
Gets(account) ==
  CASE account \intersect Namesakes = {} -> Fails("missing", <<"missing">>, account)
    [] \E item \in Items : account \intersect Namesakes = {item} -> Prints(Json, <<>>, account)
    [] OTHER -> Fails("several", <<"several">>, account)

Succeeds(account) ==
  CASE job.call \in {"show", "read"} ->
         UNION {Prints(value \o lineEnd, value, account) : value \in Values, lineEnd \in LineEnds}
    [] job.call = "get" -> Gets(account)
    [] job.call = "byid" ->
         IF job.pick \in account THEN Prints(Json, <<>>, account)
         ELSE Fails("missing", <<"missing">>, account)
    [] job.call \in {"list", "vaults", "create"} -> Prints(Json, <<>>, account)
    [] OTHER -> Prints(<<>>, <<>>, account)     \* a clipboard tool's output is inherited

\* What is in the account shows in the calls that look an item or a vault up.
Accounts == IF job.call \in {"get", "byid", "list", "vaults"} THEN SUBSET Items ELSE {{}}

Runs ==
  (UNION {Succeeds(account) : account \in Accounts})
    \union (UNION {Fails(failure.fault, failure.err, {}) : failure \in Failures})

-----------------------------------------------------------------------------
(* The program.                                                             *)

Running == child.state = "running"

ChildReads ==
  /\ Running
  /\ child.read < fed
  /\ child' = [child EXCEPT !.read = @ + 1]
  /\ UNCHANGED <<job, at, wrote, taken, fed, told>>

\* A program that succeeds reads its input to the end first.
InputRead == Fed => at # "feeding" /\ child.read = Text

ChildWrites(s) ==
  /\ Running
  /\ wrote[s] < Len(child.run[s])
  /\ wrote[s] - taken[s] < Pipe
  /\ child.run.ends = "failed" \/ InputRead
  /\ wrote' = [wrote EXCEPT ![s] = @ + 1]
  /\ UNCHANGED <<job, at, child, taken, fed, told>>

ChildExits ==
  /\ Running
  /\ child.run.ends # "hangs"
  /\ \A s \in Streams : wrote[s] = Len(child.run[s])
  /\ child.run.ends = "failed" \/ InputRead
  /\ child' = [child EXCEPT !.state = "exited"]
  /\ UNCHANGED <<job, at, wrote, taken, fed, told>>

\* What the program left running lets go of the pipes.
DescendantEnds ==
  /\ child.run.stays
  /\ ~Running
  /\ child' = [child EXCEPT !.run.stays = FALSE]
  /\ UNCHANGED <<job, at, wrote, taken, fed, told>>

-----------------------------------------------------------------------------
(* A call.                                                                  *)

Call(call) ==
  /\ at' = "spawning"
  /\ job' = [job EXCEPT !.call = call]
  /\ UNCHANGED <<child, wrote, taken, fed, told>>

Ends(result) ==
  /\ at' = "done"
  /\ told' = result
  /\ UNCHANGED <<job, wrote, taken, fed>>

Opening == CASE Timed -> "waiting" [] Fed -> "feeding" [] OTHER -> "collecting"

Spawn ==
  /\ at = "spawning"
  /\ \E run \in Runs : child' = [state |-> "running", run |-> run, read |-> 0]
  /\ at' = Opening
  /\ wrote' = Empty
  /\ taken' = Empty
  /\ fed' = 0
  /\ UNCHANGED <<job, told>>

\* The program is not there; of the clipboard tools the next one is tried.
SpawnFails ==
  /\ at = "spawning"
  /\ job.call # "clip"
  /\ Ends(Fault("absent"))
  /\ UNCHANGED child

\* wait_timeout saw the exit.
SeeExit ==
  /\ at = "waiting"
  /\ child.state = "exited"
  /\ child' = [child EXCEPT !.state = "reaped"]
  /\ at' = "draining"
  /\ UNCHANGED <<job, wrote, taken, fed, told>>

\* Mutant of TimeOut: the program is left to itself.
TimeOutOnly ==
  /\ at = "waiting"
  /\ Ends(Fault("timeout"))
  /\ UNCHANGED child

\* Mutant of TimeOut: there is no timeout for a program that is still writing.
TimeOutIfSilent ==
  /\ at = "waiting"
  /\ \A s \in Streams : wrote[s] = Len(child.run[s])
  /\ child' = [child EXCEPT !.state = "reaped"]
  /\ Ends(Fault("timeout"))

\* kill and wait.
TimeOut ==
  /\ at = "waiting"
  /\ child' = [child EXCEPT !.state = "reaped"]
  /\ Ends(Fault("timeout"))

Feed ==
  /\ at = "feeding"
  /\ Running
  /\ fed < Text
  /\ fed - child.read < Pipe
  /\ fed' = fed + 1
  /\ UNCHANGED <<job, at, child, wrote, taken, told>>

\* The program ended while there was more to write, or stopped reading though it
\* runs on: write_all fails, and nobody kills or waits for the program.
BrokenPipe ==
  /\ at = "feeding"
  /\ fed < Text
  /\ child.state = "exited" \/ child.run.ends # "ok"
  /\ Ends(Fault("broken"))
  /\ UNCHANGED child

CloseInput ==
  /\ at = "feeding"
  /\ fed = Text
  /\ at' = "collecting"
  /\ UNCHANGED <<job, child, wrote, taken, fed, told>>

Take(s) ==
  /\ at \in {"draining", "collecting"}
  /\ taken[s] < wrote[s]
  /\ taken' = [taken EXCEPT ![s] = @ + 1]
  /\ UNCHANGED <<job, at, child, wrote, fed, told>>

\* The end of a pipe is seen when nobody holds it open and it is empty.
AtEnd(s) == ~Running /\ ~child.run.stays /\ taken[s] = wrote[s]

AllRead == \A s \in Streams : AtEnd(s)

Drained ==
  /\ at = "draining"
  /\ AllRead
  /\ at' = "returned"
  /\ UNCHANGED <<job, child, wrote, taken, fed, told>>

\* A clipboard tool has no pipes to read: kovra waits for its exit alone.
Collected ==
  /\ at = "collecting"
  /\ job.call = "clip" \/ AllRead
  /\ child.state = "exited"
  /\ child' = [child EXCEPT !.state = "reaped"]
  /\ at' = "returned"
  /\ UNCHANGED <<job, wrote, taken, fed, told>>

-----------------------------------------------------------------------------
(* What came back.                                                          *)

Output(s) == SubSeq(child.run[s], 1, taken[s])
Succeeded == at = "returned" /\ child.run.ends = "ok"
Failed == at = "returned" /\ child.run.ends = "failed"

EndsWith(text, unit) == text # <<>> /\ text[Len(text)] = unit
Chomp(text) == SubSeq(text, 1, Len(text) - 1)
Without(text, unit) == IF EndsWith(text, unit) THEN Chomp(text) ELSE text

\* Mutant of Trimmed: a second newline goes, not the return before the first.
TrimmedTwice(text) == Without(Without(text, Newline), Newline)

\* trim_one_trailing_newline
Trimmed(text) == IF EndsWith(text, Newline) THEN Without(Chomp(text), Return) ELSE text

\* The order in which each classify_failure asks what a message sounds like.
Order ==
  CASE job.kind = "azure" -> <<"auth", "unreachable", "missing">>
    [] job.kind = "aws" -> <<"unreachable", "auth", "missing">>
    [] job.kind = "store" -> <<"auth", "missing">>
    [] OTHER -> <<"auth", "several", "missing">>

SoundsLike(err, fault) == \E i \in DOMAIN err : err[i] = fault

Classified(err) ==
  LET hits == {i \in DOMAIN Order : SoundsLike(err, Order[i])}
  IN  IF hits = {} THEN "other" ELSE Order[CHOOSE i \in hits : \A j \in hits : i <= j]

\* An empty secret is refused.
ReturnValue ==
  /\ Succeeded
  /\ job.call \in {"show", "read"}
  /\ LET value == Trimmed(Output("out"))
     IN  Ends(IF value = <<>> THEN Fault("empty") ELSE [what |-> "value", value |-> value])
  /\ UNCHANGED child

\* parse_backup_fields
Restored(item) == IF item \in Backups THEN [what |-> "item", item |-> item] ELSE Fault("fields")

ReturnItem ==
  /\ Succeeded
  /\ job.call \in {"get", "byid"}
  /\ LET item == IF job.call = "byid" THEN job.pick
                 ELSE CHOOSE i \in Items : child.run.account \intersect Namesakes = {i}
     IN  Ends(Restored(item))
  /\ UNCHANGED child

ListNamesakes ==
  /\ Failed
  /\ job.call = "get"
  /\ ~job.vault
  /\ SoundsLike(Output("err"), "several")
  /\ Call("list")

\* named_item_candidates
Candidates == child.run.account \intersect Namesakes

OfferItems ==
  /\ Succeeded
  /\ job.call = "list"
  /\ Candidates # {}
  /\ at' = "choosing"
  /\ UNCHANGED <<job, child, wrote, taken, fed, told>>

NoneListed ==
  /\ Succeeded
  /\ job.call = "list"
  /\ Candidates = {}
  /\ Ends(Fault("several"))
  /\ UNCHANGED child

\* select_op_item
PickItem ==
  /\ at = "choosing"
  /\ job.kind = "restore"
  /\ \E item \in Candidates :
       /\ job' = [job EXCEPT !.call = "byid", !.pick = item]
       /\ at' = "spawning"
  /\ UNCHANGED <<child, wrote, taken, fed, told>>

\* select_op_vault; an empty account stands for one without vaults.
OfferVaults ==
  /\ Succeeded
  /\ job.call = "vaults"
  /\ child.run.account # {}
  /\ at' = "choosing"
  /\ UNCHANGED <<job, child, wrote, taken, fed, told>>

NoVaults ==
  /\ Succeeded
  /\ job.call = "vaults"
  /\ child.run.account = {}
  /\ Ends(Fault("choice"))
  /\ UNCHANGED child

PickVault == at = "choosing" /\ job.kind = "store" /\ Call("create")

\* Standard input was closed.
PickNothing ==
  /\ at = "choosing"
  /\ Ends(Fault("choice"))
  /\ UNCHANGED child

ReturnDone ==
  /\ Succeeded
  /\ Fed
  /\ Ends([what |-> "done"])
  /\ UNCHANGED child

\* A tool that is not there, or failed.
NextTool ==
  /\ job.call = "clip"
  /\ at = "spawning" \/ Failed
  /\ job.tool < Tools
  /\ job' = [job EXCEPT !.tool = @ + 1]
  /\ at' = "spawning"
  /\ UNCHANGED <<child, wrote, taken, fed, told>>

NoTool ==
  /\ job.call = "clip"
  /\ at = "spawning" \/ Failed
  /\ job.tool = Tools
  /\ Ends(Fault("other"))
  /\ UNCHANGED child

\* A name that several items bear is not an error yet where the caller can choose.
ReturnFault ==
  /\ Failed
  /\ job.call # "clip"
  /\ ~(job.call = "get" /\ ~job.vault /\ SoundsLike(Output("err"), "several"))
  /\ Ends(Fault(Classified(Output("err"))))
  /\ UNCHANGED child

-----------------------------------------------------------------------------
FirstCall(kind, vault) ==
  CASE kind \in {"azure", "aws"} -> "show"
    [] kind = "import" -> "read"
    [] kind = "restore" -> "get"
    [] kind = "store" -> IF vault THEN "create" ELSE "vaults"
    [] OTHER -> "clip"

Start ==
  /\ at = "idle"
  /\ \E kind \in {"azure", "aws", "import", "restore", "store", "copy"}, vault \in BOOLEAN :
       job' = [job EXCEPT !.kind = kind, !.vault = vault, !.call = FirstCall(kind, vault)]
  /\ at' = "spawning"
  /\ UNCHANGED <<child, wrote, taken, fed, told>>

ProgramSteps == ChildReads \/ (\E s \in Streams : ChildWrites(s)) \/ ChildExits

CallSteps ==
  \/ Spawn \/ SpawnFails \/ SeeExit \/ TimeOut
  \/ Feed \/ BrokenPipe \/ CloseInput
  \/ \E s \in Streams : Take(s)
  \/ Drained \/ Collected

ReturnSteps ==
  \/ ReturnValue \/ ReturnItem \/ ListNamesakes \/ OfferItems \/ NoneListed
  \/ OfferVaults \/ NoVaults \/ ReturnDone \/ NextTool \/ NoTool \/ ReturnFault

ChoiceSteps == PickItem \/ PickVault \/ PickNothing

ExternalNext ==
  \/ Start \/ ProgramSteps \/ DescendantEnds \/ CallSteps \/ ReturnSteps \/ ChoiceSteps

\* A program that can go on does, and so does kovra, whose timeout ends a timed
\* call.  Nobody has to choose, and what a program leaves running may stay.
ExternalFairness ==
  /\ WF_externalVars(ProgramSteps)
  /\ WF_externalVars(CallSteps \/ ReturnSteps)

ExternalSpec == ExternalInit /\ [][ExternalNext]_externalVars /\ ExternalFairness

-----------------------------------------------------------------------------
RunType ==
  /\ child.state \in {"none", "running", "exited", "reaped"}
  /\ child.read \in 0..Text
  /\ child.run.ends \in {"ok", "failed", "hangs"}
  /\ child.run.stays \in BOOLEAN

ExternalTypeOK ==
  /\ job.tool \in 1..Tools
  /\ at \in {"idle", "spawning", "waiting", "feeding", "collecting", "draining", "returned",
             "choosing", "done"}
  /\ RunType
  /\ fed \in 0..Text
  /\ wrote \in [Streams -> Nat] /\ taken \in [Streams -> Nat]
  /\ \A s \in Streams : taken[s] <= wrote[s] /\ wrote[s] <= Len(child.run[s])

\* What trim_one_trailing_newline takes for a part of the line end: the `\r` that
\* ends the value itself, when the program ends its line with a bare `\n`.
LosesReturn == EndsWith(child.run.held, Return) /\ child.run.out = Append(child.run.held, Newline)

\* What kovra hands on of an external program is so, however the program's
\* output, its end and kovra's reading interleave: the value is the one the
\* service holds, whole (a final `\r` before a bare `\n` apart, which goes), and
\* only one of which nothing is left is refused as empty; the item is the one
\* that was picked or the only one of that name; "done" means that all of the
\* text was taken; and "a connection failure is never misread as a missing secret".
ToldIsTrue ==
  /\ told.what = "value" =>
       told.value = IF LosesReturn THEN Chomp(child.run.held) ELSE child.run.held
  /\ told = Fault("empty") => child.run.held = <<>> \/ (LosesReturn /\ Len(child.run.held) = 1)
  /\ told.what = "item" =>
       /\ told.item \in child.run.account \intersect Backups
       /\ told.item = job.pick \/ Candidates = {told.item}
  /\ told.what = "done" => child.run.ends = "ok" /\ child.read = Text
  /\ (told = Fault("missing") /\ job.kind \in {"azure", "aws"}) => child.run.fault = "missing"

\* "kill the hung `az` and reap it": when a command has ended it has not left the
\* program it called running, on any path but one: the program stopped reading
\* what it was being fed, and kovra gave up with the broken pipe.
NobodyRunsOn ==
  at \in {"idle", "choosing", "done"} /\ Running =>
    Fed /\ fed < Text /\ told = Fault("broken")

\* A program that runs for ever, in a call without a timeout, or one of its own
\* programs that keeps the pipes open after it.
HeldUp == child.run.stays \/ (~Timed /\ child.run.ends = "hangs")

\* "so a hung `az` can't block the wrapper forever": a call ends, also when the
\* program waits for its full pipes to be read while kovra waits for its exit,
\* unless it is held up for ever.
CallsEnd == [](at = "spawning" => <>(at \in {"choosing", "done"} \/ []HeldUp))
=============================================================================
