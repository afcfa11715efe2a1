# kovra-core in TLA+

kovra is a secret broker: an encrypted vault of secrets on a developer's
machine, three faces that administer and use it (the `kovra` CLI, a local Web UI
and an MCP session for agents), and an attended confirmation that the sensitive
uses wait for.  This directory holds the TLA+ model of its core, the instances
TLC checks and the proofs TLAPS checks.

    tlc -workers 2 -config MCFileBroker_shared.cfg MCFileBroker
    tlapm SecretAdmin_proofs.tla

`PROJECT.json` lists the runs, maps every definition to the lines it models and
lists the hazards.

## 1. The system

| part | source (`src/crates/`) | state | operations | modelled by |
|---|---|---|---|---|
| in-process broker | `core/src/confirm.rs` | map of pending requests, id counter, condvar | `confirm`, `approve`, `deny`, `pending_ids` | `CondvarBroker` |
| file broker | `core/src/file_confirm.rs`, `cli` `approve` | `pending/<id>.json`, `.decision`, `.tmp` | `confirm`, `list_pending`, `approve`, `deny` | `FileBroker` |
| vault store | `core/src/store.rs`, `registry.rs` | `.sec`, `.tmp`, `.bak` of each record, per vault | `write_record`, `read_record`, `delete_record`, `resolve_with_key`, `load_all` | `VaultStore`, `RecordStore` |
| policy, scope, tiers | `core/src/policy.rs`, `scope.rs`, `sensitivity.rs` | none | `decide` and its helpers | `Policy` |
| CLI | `cli/src/commands.rs` | none between commands | add, keygen, generate, set, edit, rm, show, code, sign, decrypt, ... | `SecretAdmin` |
| Web UI | `webui/src/lib.rs` | session token, last touch, one shared broker | create, generate, update, edit, delete, reveal, list | `SecretAdmin` |
| MCP session | `ffi-python/src/session.rs`, `mcp/` | the scope, fixed when the session is made | list, status, set, generate, edit, delete, reveal, `inject_run` | `SecretAdmin` |
| launch | `core/src/resolver.rs`, `envrefs.rs`, `wrapper/src`, `inject_run` | cache of one run | `resolve`, `Wrapper::run` | `Launch` |
| external programs | `core/src/provider.rs`, `providers-azure`, `providers-aws`, `cli/src/onepassword.rs` | none | `materialize`, `op`, the clipboard, `import`, `key export`, `key import` | `ExternalCommand`; the router in `Launch` |
| ssh-agent | `agent/src`, `CliSessionProvider` | the socket, the scope read at start | identities, sign | `SshAgent` |
| Web UI, from start to end | `cli/src/commands.rs`, `webui/src/lib.rs`, `bin/kovra-ui.rs` | the staged key, the server, the last touch | launch, serve, watchdog, shutdown | `WebUi` |
| packages, exchange | `core/src/package.rs`, `exchange.rs`, `cli` | package and kit on a stick, access token, registered token | package, unpack, exchange init, seal, register-token, open | `Exchange` |
| devices | `core/src/formatter.rs`, `native-macos/src/formatter.rs`, `cli` | the disks | exchange init: list, probe, erase, copy | `Formatter` |
| key custody | `core/src/keyring.rs`, `keybackup.rs`, `cli/src/context.rs` | master key in the keyring, `kdf.salt`, backups | init, key export, key import | `KeyCustody` |
| metadata index | `core/src/index.rs` | redb table of sealed metadata | upsert, remove, rebuild, list | not modelled: no face opens it |
| TOTP | `core/src/totp.rs`, `cli/src/commands.rs` | none | code, `--min-validity`, countdown | `Totp` |
| audit log | `core/src/audit.rs` | an append-only file | record, `read_log`, query | `AuditLog`; which events, in the modules that write them |
| sealing, keypairs, coordinates | `core/src/crypto.rs`, `keypair.rs`, `coordinate.rs` | none | cryptography and parsing | not modelled |
| native prompts, setup, doctor, scaffold, hooks | `native-macos`, `core`, `cli` | none | calls of external programs, generated text | not modelled |

How they meet: every face reads the vault through the store, asks `decide`, and
when the answer is "confirm" calls `confirm()` of a broker, which blocks until an
operator answers in another process (`kovra approve`) or the timeout passes.
Processes share the vault's files, the audit log and the directory of pending
requests and nothing else: there is no lock anywhere between a read and the write
or the delivery that follows it.

What is hard about it: system calls of several processes on the same files;
deaths half-way; a confirmation of up to two minutes between a decision and its
effect; late answers and reused ids; timers racing answers; programs and devices
that are not kovra's.

## 2. The modules

**`Confirmation`** is what a broker promises: a request is opened, answered and
settled; it is approved only after an approval of that request, everything else
(denial, timeout, death of the caller) is a refusal, and an open request is
settled sooner or later.

**`CondvarBroker`** is `CliApproveConfirmer`, one action per stretch between two
acquisitions of the mutex: `FetchId` and `Insert` (two locks), the turn of the
loop (`TakeDecision`, `FindExpired`, `Wait`), the return from `wait_timeout` by a
notification, spuriously or by the timer, `GiveUp`, and `Resolve` with
`notify_all`.  The deadline is a flag that may be set at any time.

**`FileBroker`** is `FileConfirmer`, one action per system call.  A file is an
inode; a path (`request_file`, `decision_file`, `tmp_file`) is a link to one.
`atomic_write` is `OpenTmp`, `WriteTmp`, `MoveTmpTo`: the temporary is named
after the id only, so all writers of an id share it, and writing into an inode
somebody else wrote to leaves the mixture `Overwrite` describes.  A requester
publishes, polls, gives up and removes both files; an approver lists, decides,
looks whether the request is open and writes.  A process may die, with all its
requests.  `SharedBroker` names the processes that keep one broker for all their
requests (the Web UI); the others build one per request (CLI, MCP session), so
that the counter in the id starts again.

**`RecordStore`** is what the store promises: each vault has a record or none; a
write or a deletion happens at one instant (`Commit`, `Erase`), as a whole and just
when it succeeds; a resolution answers with the project's record, or passes on
because there is none to be read and answers with the global one; an inventory
leaves each vault once, with its record or because there was none to be read.  It is
weaker than its comments: before a write succeeds the previous record may be out of
sight (`Hide`), and stay so if the write fails.

**`VaultStore`** is the life of one record in a project vault and the global
one: `write_record` (create the temporary, write and sync, look for a previous
record, rotate it to `.bak`, rename), `delete_record`, and a resolution that
looks in the project and then in the global vault.  An inventory (`kovra list`,
`GET /api/secrets`, a session's list, `doctor`, `audit`, `package`) runs
`load_all` on the vaults of its plan, one after the other: `ReadDir` finds the
record, `LoadEntry` opens it or quarantines it.  Inodes and links as above;
`stored` is the history variable of what was last stored or deleted.  It implements
`RecordStore` (`ImplementsRecordStore`): the record of a vault is what the file at the
path reads or, when a rewrite has moved it away, what its `.bak` reads (`RecordOf`,
`Hidden`); a write commits at its last rename, a deletion at its unlink, a resolution
passes on when it looks at the project's path; an inventory's vaults to come are its
`plan`.  Creating, writing and looking are stutters.

**`Policy`** holds the pure operators: `Decide`, birth tier, downgrade, scope.

**`SecretAdmin`** is one secret under the three faces, one action per handler.  A
handler reads the record and decides (`CliEdit`, `WebDelete`, `SessionReveal`,
...), waits if it must (`Approve`, `Refuse`: the outcome of a broker as
`Confirmation` describes it), and then writes, removes, delivers or uses what it
read (`Write`, `Remove`, `Deliver`, `Use`).  A write is two steps: the record, and
the audit that follows it (`Log`), which a death or a log that cannot be appended to
may leave out (`GoUnlogged`).  "custodied" stands for keypairs with a private half
and TOTP enrollments; `CliImport` stores what `kovra import` took from 1Password, and
`CliUnpack` is one entry of `unpack` or `exchange open`, which with `--force` replaces
whatever is there and looks at the entry's own tier only (what sanctions an entry is
in `Exchange`).  A session names a project: the scope is asked about that project, and
the lookup falls through to the global vault (`Reaches`, `SessionReveal`).  A
behaviour has one of the `Regimes`: where the secret lives, which operations there
are, whether they overlap, whose users edit, whether packages are imported, and the
scopes a session may have.

**`Launch`** is one run of a child with secrets in its environment, for `kovra
run` and for a session's `inject_run`.  `Start` asks the session's scope; each
variable of the contract is then resolved by one action, named for what was found
(`ResolveText`, `ResolveFallback`, `ResolveLiteral`, `ResolveKeypair`,
`ResolveCached`; a new reference takes two, `ResolveReference` with its event and
`Materialize` or `ProviderFails`); `RefuseProgram` and `PassGates` are the
allowlist, `Approve` and `Refuse` the confirmation, `Launch` the events and the
start.  Other processes write the vaults all the time, so that a read finds any
record of `Stock`, or none, whatever was found before; `Rotate` is the owner of
the external secrets.  That is more than the vaults can do, hence safe for what
is shown, and it is what makes a tier that is read twice visible.

**`SshAgent`** is the agent's one thread: `Accept`, `Read` (or `ReadMalformed`,
or the client's `Leave`), `Load` place by place, then `AnswerIdentities`,
`SignSilently`, `RefuseToSign` or `AskFirst` and the broker's answer.  `held` is
a history of what each place held since the request was read.  `LoadScope` is what
`agent.toml` makes of the scope: an empty list, like a missing file, is any.

**`KeyCustody`** is what opens a vault: a key in the keyring, or `kdf.salt` from
which the key is derived.  Keys and salts are numbered as they are made; a salt
that was truncated and not yet written is `Torn`.  `StartInit`, then `PutKey` or
`TruncateSalt` and `FillSalt`; `StartExport`, `ExportApproved`, `Deliver`;
`StartRestore` goes on as an init does.  `Stop` ends a command at any of these
points, `Lose` is the loss of a keyring or a file.  The owner has one passphrase.

**`Exchange`** extends it with the packages.  The origin seals (`Package` to a key
on disk, `ExchangeSeal` to the recipient on the stick) and prepares the stick
(`AskToFormat`, `Erase`, `Bootstrap`).  The destination makes its recipient key and
puts it on the stick (`Keygen`, `WriteRecipient`: `install.sh`), registers a token
and runs one import at a time, in the order of `unpack`: `Unpack` or
`ExchangeOpen`, `UseKey` (the confirmation), `Open`, `VerifyNone` or
`VerifyToken`, `Arm` (the confirmer and the master key), then entry by entry
`Skip`, `TakeFree`, `TakeByToken`, `DeniedByToken` or `AskFirst` with its answer,
`Write`, and at the end `Consume` for the registered token.  `Fail` ends it anywhere.
Meanwhile time passes, the stick and the token change, others write the vault and
the key is replaced.  A record remembers which package, token and approval it came
by (history), and under which key it was sealed.  What the origin has in its
vault is any set of entries; a set with an entry of prod is refused.

**`ExternalCommand`** is a program that kovra runs and waits for.  A call is timed
(`az`, `aws`: `SeeExit` or `TimeOut` first, then both pipes are drained), captured
(`op`: drained, then `Collected`) or fed (`Feed`, `CloseInput`, or `BrokenPipe`).
The program reads and writes pipes that are full at `Pipe`, and ends, fails, hangs,
or leaves a descendant at the pipes; it may stop reading what it is fed, and then it
is left to itself (`BrokenPipe`).  A text is units of which `\n` and `\r` are told
apart: a line ends with `\n` or `\r\n`, and `Trimmed` strips the one and then the other
before it, as the code does.  `ReturnValue`, `ReturnItem`, `ReturnFault` are
the jobs made of the calls: `Trimmed`, `Classified`, the choice among items that
bear one name, the vault for a new item, one clipboard tool after the other.

**`AuditLog`** is `record`, call by call: make the event, look whether the file is
there, open, restrict, append, sync.  An append may be cut by a full disk or by a
death, and a loss of power cuts the file behind what was synced.  A cut may fall
inside a character, which is what `read_log` does not survive.  `AuditView` is what
`kovra audit` shows for a coordinate and days.

**`Totp`** is `kovra code` over a clock that goes on between any two steps:
`ReadClock`, `Derive`, then `PrintPlain`, `PrintCurrent`, `SleepOut` with `WakeUp` and
`PrintNext`, or the countdown.  A code is its counter.

**`WebUi`** is `kovra ui`: the approval, with `--docker` the check, the staged key and
the container, the server with its guards, requests in flight, whose body may still
be on its way (`BodyArrives`), the watchdog, and every way it ends.  The guard may fail
to remove the key (`Removed`), and `docker stop` may fail.  What the requests do is in
`SecretAdmin`.

**`Formatter`** is `kovra exchange init` on the device's side: the list and the probes,
the rail (`Eraseable`), the approval, the erasure and the kit.  Everything is named by
a node or a mount point, and hands (`TakeOut`, `PutIn`) change what is there.

**`MCDesktop`** puts `SshAgent`, `ExternalCommand`, `AuditLog`, `Totp`, `WebUi` and
`Formatter` side by side.  They share no state, so a behaviour is a *scene* of one of
them, and the others stay in one initial state.

## 3. The runs

| run | instance | shows |
|---|---|---|
| `condvarbroker` | 3 requests, as many ids | outcomes are the answers (`OutcomeIsTheAnswer`), no wakeup is lost, so that an answer alone wakes the call; time alone ends it; the contract |
| `filebroker_shared` | 2 requests, 2 approvers, 1 process, 2 ids | answers reach their own request, a sole decision counts, who is told that it was late was; the contract with its liveness |
| `filebroker_reuse` | the same with a broker per request | **violated**: an approval releases the next request of the process |
| `vaultstore_crash` | 3 writers, 1 deleter, 1 resolution, 1 inventory, 2 vaults | what can be read is the last record stored, nothing is lost in a crash, and every behaviour is one of `RecordStore`'s: writes at one instant, resolutions and inventories of what is there (`ImplementsRecordStore`) |
| `vaultstore_shadow` | 1 writer, 1 deleter, 1 reader | **violated**: during a rewrite the global record answers for the project's |
| `secretadmin_faces` | every face; 2 operations that overlap, with 5 scopes, on a secret of a project or the global vault, edited and removed by the session; or 3 one by one, edited by people; or 2 one by one with forced imports | what agents are handed, what people see, which keys are used; and, one by one, lowering, deleting in the browser, audit, guarded values |
| `secretadmin_gates` | 1 operation | **violated**: `rm` and the session's edit and delete ask nobody |
| `launch_gates` | 6 contracts of 2 variables, 8 records, 2 rotations, both faces, 4 sessions | the child's secrets are gated by the tier they were read with, references agree, the log is true, sessions stay in their environments, no placeholder falls back to prod (`NoFallbackInProd`) |
| `launch_scope` | the same without rotations | **violated**: a session confined to its projects hands its child a global secret |
| `exchange` | 3 secrets (one high, one prod), 2 packages, 2 keys, 2 imports, 6 budgets | imports are sanctioned, keep what was there without `--force`, and no record loses its key unasked |
| `desktop` | agent: 2 clients, 2 vaults, 2 keys, 1 edit, 2 files; programs: pipes of 1, 7 values, 2 line ends, 4 failures, 3 items; log: 2 writers, 2 events, 2 days; codes: 3 periods, 5 floors, 7 seconds; UI: 2 browsers, 3 idle times; devices: 3 nodes, 3 disks, 2 moves | signatures and lists are in scope and current, clients are served; values are whole and failures told rightly, no program is left, calls end; what was recorded is read; codes live long enough; accepted requests are answered, the key is attended, the server ends; the device shown is the one erased |
| `auditlog_torn` | the log of `desktop` | **violated**: one cut character makes `read_log` fail for the whole log |

Bounds.  Two requests and two approvers are enough for an answer to reach the
wrong request and for two writers to meet in one temporary; `MaxSecond = 1`
gives a second in which ids can repeat and one in which they cannot; `Timeout =
1` lets the timeout race the answer.  Two operations are enough for one to change
the record under another or for an import to replace a record that another one handles,
three for a secret to be stored, lowered and handed out; two projects let a scope
address one and leave out the other and the global vault.  Two environments ("prod" and another) and the four tiers are all the
policy tells apart.  Two variables are enough for two reads to disagree (about a
record, a tier, a reference's value) and the contracts of `launch_gates` pair
every kind of source with one it can disagree with; `""` among the environments
is `--env` left empty.  Two places are enough for one key to be at two of them
and for a load to be torn by an edit, two clients for one to be overtaken by the
other again and again.  A pipe of one unit is full before a value of two is
written; the values end in nothing, `\n`, `\r` or both, or are one of these; the watchdog's sleep of 2 lies between the idle times; 7 seconds hold two
ends of a window of 3 and every phase of it; two writers can meet in the log with a
torn piece before, between or after their lines; three nodes leave one free for a
disk to come back at.  `exchange` would have far too many interleavings
if everything could happen often: a behaviour has one of six budgets (`SomeBudgets`)
that say how many key commands, formats, seals, ticks, imports and edits it may
have, each for a question: key commands around one record, two packages, a
package that expires, a key or a record that changes under an import, and a second
import of the same package.  Two packages are enough for a token or a recipient to
belong to the other one, two keys for a record to be sealed under the one that has
gone.  A behaviour whose budget is spent may stop, so the run does not check for
deadlock.  The theorems hold for every budget.

Fairness.  `CondvarBroker`: threads run (`ThreadsRun`); that the clock runs is
assumed only by `CallsReturn`, stated as `ClockRuns => ...`.  `FileBroker`: the
clock runs and a live requester keeps polling, which its loop does with
`thread::sleep` and nothing else that could block.  `SshAgent`: the agent's
thread runs and a confirmation ends at its timeout; that clients leave is assumed
only by `EveryoneIsServed`, stated as `ClientsLeave => ...`, since the code has no
timeout on a connection.  `ExternalFairness`: a program that can go on does, and so
does kovra; a program may hang, and what it leaves running may keep its pipes, which
`CallsEnd` excepts (`HeldUp`).  `UiFairness`: the server's tasks and the clock run, and
a confirmation ends at its timeout; a body that does not come is excepted (`HeldOpen`).
Nobody has to answer, to choose, to press Enter, to send a body or to close a
connection, in any of them.  The other modules have no liveness
property.

Violations.  The five runs that end in a violation state what a comment or a
document of the repository says and show the steps by which the code does
otherwise; `PROJECT.json` "findings" quotes the lines.

The models also show what the code leaves to the environment, which the passing
runs therefore assume: with `Exclusive = FALSE` two processes that write one
coordinate at once can leave a torn record; where operations overlap an edit that
read the record before it was raised writes the old tier back without asking; an
import with `--force` replaces a critical record by an entry of a lower tier, which
nobody approves unless the entry is high, and which the log tells as an import only
(`CriticalLoweredOnlyByApproval` and `DowngradesAreAudited` say so,
`GuardedStaysIn` is about regimes without imports); a session that addresses any
project is handed records of the global vault its scope leaves out, by naming that
project (`AgentContext`; the run `launch_scope` shows the same rule at a launch); the
event of a downgrade is lost if the process dies after the write; two
approvers of one request can garble the decision, which then counts as a denial;
an approver can be told `true` just after the request has gone; a record that is
being rewritten, or that a dead writer left as `.bak`, is missing from an
inventory without a word, because no caller of `load_all` looks at what it
quarantined; and a key of
prod whose tier was lowered is used without a confirmation, by the CLI, the
launch and the ssh-agent alike (`Policy!InjectRequiresConfirmation`); a keypair
at two places is governed by the one that is loaded first; a record that is
raised while a launch or a signature waits is used as it was read; an import looks
whether a record exists before it waits and writes after it, so that what another
process stored meanwhile is overwritten without `--force` (`UnforcedImportKeeps`
excepts it: such a coordinate leaves `before`); the registered token is removed
after an open even if it was registered during it and never used; with two shells
that run key commands at once, both `init`s can find nothing (`Owners` has one).

Of the programs kovra runs: a secret longer than a pipe is never materialized from
`az` or `aws`, since both are waited for before their pipes are read (the comment
expects it "well under the pipe buffer"; the timeout ends the call); a descendant that
keeps the pipes open holds kovra up after the timeout too; `op` and the clipboard tools
have no timeout; `op`'s "no such host" is told as a missing item.  A secret that ends
in `\r` loses it when the program ends its line with a bare `\n` (`LosesReturn`,
which `ToldIsTrue` excepts; the comment on the trimming promises to keep "intentional
trailing whitespace").  A program that stops reading what it is fed is neither killed
nor waited for (`NobodyRunsOn` excepts a broken pipe).

Of the audit log: what is recorded behind a torn piece is glued to it and lost
although `record` returned `Ok`; a kill between open and restrict leaves the file with
the default mode; lines may be out of the order of their time stamps.
`RecordedIsRead` excepts the first (`Spoiled`).

Of the codes: the floor is not kept by a machine that is late (`late` in
`LivesLongEnough`: a suspension during the sleep, or a pause between the reading of the
clock and the output), and the first picture of the countdown may pair the old code
with the seconds of the new window.

Of the Web UI: on Ctrl-C with `--docker` the staged key and the container stay; a
staging that fails leaves part of the key; a container that ended idle leaves the
staged key until Enter; the guard ignores a removal that fails, and the key stays;
`docker stop` drops the requests in flight, and if it fails the container runs on
unnoticed; a client that does not finish its request holds up the drain for ever.
`StagedKeyIsAttended`, `AcceptedIsAnswered` and `UiEnds` say exactly how far it goes.

Of the devices: a disk that is swapped in after the probe is erased by its node
unseen (`touched`); `boot` is false if `diskutil info /` fails or names a container, so
that a machine started from an external disk passes the rail; the kit goes to
whatever volume holds `/Volumes/KOVRA`.

Comments that differ from the code without a property to them: `key_export` says that
it resolves the 1Password vault "*before* the attended confirmation"
(`cli/src/commands.rs:2449`), and does it after; `sensitivity_inventory` speaks of an
index that the write paths maintain, which no face opens, and takes one tier for a
coordinate that several vaults hold.

## 4. The proofs

TLAPS checks every theorem below for all values of the constants.  Each proof
module EXTENDS the module it is about (`Desktop_proofs` five of them, one after the
other), proves that an inductive invariant holds initially and is kept by every step
(one lemma per action that does something), and draws the properties from it.

| module | theorems | from |
|---|---|---|
| `CondvarBroker_proofs` | `TypeCorrect`, `OutcomeCorrect`, `MapCorrect`, `WakeupsCorrect`, `ImplementsConfirmation` | `MaxIdAssumption` |
| `SecretAdmin_proofs` | `AdminTypeCorrect`, `AgentContextIsClean`, `HumanScreensAreGated`, `HighKeysAreGated` | `PolicyAssumption`, `AdminAssumption` |
| | `LoweringIsApproved`, `BrowserDeletionIsApproved` | the same, in the regimes that are `Attended` (inside the properties) |
| | `GuardedValuesStayIn` | the same, in those of them that import nothing |
| | `PeopleAreAsked` | `PolicyAssumption`, `AdminAssumption` |
| | `NarrowingOnlyTakesAway`, `CareIsMonotonic` (of `Policy` alone) | nothing |
| | `DowngradesLeaveATrace` | as above, in the regimes that are `alone` (inside the property) |
| `FileBroker_proofs` | `TypeCorrect`, `ApprovalsAreByPeople` | `BrokerAssumption` |
| | `ApprovalsStayWithTheirRequest`, `LoneDecisionsAreWhole`, `TurnedAwayMeansClosed`, `ImplementsConfirmation` | the same, and `AllShared` |
| `Launch_proofs` | `LaunchTypeCorrect`, `LaunchIsGated`, `ReferencesAgree`, `InvocationsAreRecorded`, `LogIsTrue`, `ProdHasNoFallback`, `SessionsAreContained` | `PolicyAssumption`, `LaunchAssumption` |
| `SshAgent_proofs` | `AgentTypeCorrect`, `AgentIsGoverned`, `AgentListsAreCurrent` | `PolicyAssumption`, `SshAgentAssumption` |
| `VaultStore_proofs` | `RecordsAreWhole`, `CrashesLoseNothing`, `ReadersSeeWhatIsStored`, `ImplementsStore` | `StoreAssumption`, and `Exclusive` |
| | `RacesServeWholeRecords` | `StoreAssumption` alone |
| `Exchange_proofs` | `ExchangeTypeCorrect`, `ExchangeIsSanctioned`, `ImportsKeepWhatIsThere` | `KeyCustodyAssumption`, `ExchangeAssumption` |
| | `NoKeyIsStranded` | the same, and `OneShell` |
| `Desktop_proofs` | `CodesLiveLongEnough` | `TotpAssumption` |
| | `SystemDiskIsSpared`, `ShownDeviceIsTheOne` | `FormatterAssumption` |
| | `ServerAnswersWhatItAccepts`, `KeysAreStagedAttended` | `WebUiAssumption` |
| | `WhatIsToldIsTrue`, `ProgramsDoNotRunOn` | `ExternalCommandAssumption`, `FailuresSayWhy` |
| | `RecordsStayReadable` | `AuditLogAssumption` |
| | `DesktopTypesCorrect` | those of the five modules |

What the named hypotheses say.  `AllShared`: every process keeps one broker for all
its requests, as the Web UI does (a command that asks once does so trivially); without
it ids repeat, and `filebroker_reuse` shows an approval that releases another request.
`OneShell`: key commands are run one at a time; with two shells the check of `init`
and what it stores are apart, and one replaces the other's key.  `FailuresSayWhy`: a
program that speaks of something not found, though the fault is another, also names a
cause that `classify_failure` asks for before; the code can tell them apart by nothing
else.
`Exclusive`: one caller at a time writes in a vault.  Nothing in the store enforces it;
without it records can be torn or lost, but none is served in part, which
`RacesServeWholeRecords` says.

Why the invariants are what they are.

- `CondvarBroker`: that an outcome is the answer to *this* request rests on
  `UniqueIds` (the counter is fetched and advanced under one lock) and on
  `IdsInOrder`: an id that was given out is below the counter, so that the next
  one is new.  The refinement needs no more than the invariant: a step that
  settles a call finds its own entry decided.
- `SecretAdmin`: an operation acts on the record it read, not on the record that
  is there.  The invariant therefore speaks about what each operation carries (what
  was decided was decided for that copy, in that scope, with that answer); the
  first theorems need only that; of a session's reveal, that some project it addresses
  reaches the vault the value is from.  For the others the copy must also *be* the record
  (`OneAtATime`), which holds while nobody else is at work; that is what `alone` says of
  a regime and what the faces do not guarantee.  `Traces` follows a write that lowered the
  record to its event, through the step between them.  `GatedWrites` and `GatedRemovals`
  are what the handlers asked before they began, and need `Attended`, since a session's
  edit asks nobody; a forced import is in `GatedWrites` by name.  That a guarded value is
  stored as critical (`ValuesKept`) holds only without imports, which bring values back.
  `PeopleAreAsked` is what is left of these in every regime (`LoweringWrites`): the run
  `secretadmin_gates` shows handlers that do not ask, and the theorem that, forced
  imports apart, there are no others.
- `FileBroker`: the types are an invariant of their own, because a file may hold a
  mixture of two texts.  `ApprovedBySomebody` needs nothing about ids: a text that
  reads "approved" was written by a call that approves (`TextsAreWritten`), mixtures
  included.  The others rest on ids that do not repeat (`IdsAreUnique`): whatever is linked
  at a path of an id belongs to the request of that id (`LinksAreOwn`), requests and calls
  write inodes of their own topic only, so that what a requester obeys an approver of it
  has written, and a lone approver's text is whole when it is moved to its path
  (`SoleTextIsWhole`).  In the refinement a call is open from its id to the end of its
  cleanup or its death; every other step but a decision is a stutter.
- `Launch`: a variable tells where it came from (`ResolvedIsSound`); the gates
  are then a fact about the list (`GatesHold`), and the child's environment is
  that list (`ChildIsResolved`).  `ReferencesAgree` holds because every
  materialized variable equals what the cache still has for its reference, and
  `Materialize` writes only where the cache has nothing (`PendingIsSound`).
  `LogIsTrue` needs that an event of refusal ends the run (`RefusalIsFinal`).
- `SshAgent`: what is loaded was held since the request was read
  (`PreparedFromHeld`) and nobody is asked about a key out of scope
  (`AskedInScope`), which with `OneMatch` makes the keypair that was asked about
  the one that signs.
- `Exchange`: `JobIsSound` follows one import: its entries are its package's, and
  once its token was looked at it is none or the package's own, whatever was
  registered since.  `FromPackages` keeps what was imported valid when a package is
  added, `NoProdPackaged` is the refusal at the origin, which is all there is for an
  import without a token.  `BeforeStays`: the entry that an unforced import is about to
  write was found absent, and can have come up since only by somebody's edit.  `NeedInv`:
  a key that a record, the recipient key or a running import needs is in place, backed up
  or given up (`NeededAreSafe`, which is `NothingIsStranded` with the import); that a key
  command keeps it needs that what it replaces was backed up by an earlier one
  (`ReplacesSafely`) and that new material is new (`MadeSoFar`).
- `VaultStore`: `StoredIsThere` is both properties at once, at the path or in `.bak`.
  That a write cannot disturb it needs `LinksAreHome` (the temporary's inode is no
  other path's), that a rename puts the right record there needs `TemporaryIsOwn`, and
  both need `OneAtATime`, which is `Exclusive`.  A temporary that a dead writer left
  is allowed for: it is truncated before it is used.  The refinement needs besides that
  the record of a vault moves only by a commit (`RecordsStayStored`) and that a link a
  resolution or an inventory follows is the one at the path at that moment, or has gone
  (`ReadIsOpened`).  Without `Exclusive`, `RInv` is what is left: paths and open files
  stay in their vault and so does what is in them (`FilesStayHome`), and every whole
  frame that an inode holds is one its writer has synced (`Written`, which a writer never
  takes back).  That several writers share a temporary is then harmless to readers: what
  they spoil does not authenticate.
- `Totp`: `LateCounts` is what the clock may have run on since it was last read; a
  sleep that begins late ends late by as much.  `WindowsEnd` and `LaterWindows` are the
  arithmetic of windows.
- `Formatter`: `HeadlineIsTrue` holds from the probe to the erasure: a disk that
  nobody can take out or put in (`Fixed`) and is at the node was there when the node was
  probed.
- `WebUi`: a request that waits was accepted by a server that still runs, since a
  graceful shutdown waits for it; a key is staged only between the approval and the end,
  where the guard clears it or has tried to.
- `ExternalCommand`: what a program prints has to do with what the service holds and
  with the call it was started for (`Honest`); a program that kovra saw end by itself has
  written all of it, and when the call returns the pipes are drained (`CallsAreHonest`), so
  that the jobs are functions of whole outputs; `TrimmedIsTheValue` is what trimming makes
  of a value and either line end.  `NobodyIsLeft` is `NobodyRunsOn` with the
  moments between two programs.
- `AuditLog`: numbers are in the file once, each behind those recorded before it was
  made (`LogIsOrderly`); what a writer has in hand is its own, not in the file until it
  was appended and there in full while it is synced (`EntriesAreOwn`); a recorded event is
  a whole line below what was synced, so that a loss of power cuts behind it
  (`RecordedAreSynced`).

Some theorems are about what no run lists, because the run would show nothing that
its other properties do not: the type invariants (`TypeCorrect`, ...), that the pending
map is the set of open requests (`MapCorrect`), that what a resolution returned was
stored (`ReadersSeeWhatIsStored`, on which `ImplementsStore` rests), that only people's
approvals release (`ApprovalsAreByPeople`), who goes unasked (`PeopleAreAsked`), the
two about the policy's tables, and what readers are served in a race
(`RacesServeWholeRecords`; TLC found `RInv` to hold with three writers and a deleter
over both vaults and `Exclusive = FALSE`, before it was proved).

Only model-checked: every liveness property (`CallsReturn`, `EveryoneIsServed`,
`CallsEnd`, `UiEnds`, the fairness half of the contract that `filebroker_shared`
checks).  Every safety property of a passing run is a theorem.  Liveness under
fairness, ENABLED, and what a recursive definition computes for every input are out of
the prover's reach.

## 5. What makes each part correct

| part | properties |
|---|---|
| brokers | a call is released by an answer to itself only; whatever else happens is a refusal; it returns in time; what has ended is not on the list |
| vault store | what can be read is what was last stored; a death loses nothing; resolutions and inventories see what is stored, or that a file is gone |
| administration | agents see nothing of prod, high or unmarked; people lower critical records, and delete them in the browser, by approval only, forced imports apart; what was guarded does not come out by a sequence of legal calls; the log tells of what was lowered |
| launch | the child gets only what was approved for a reviewed program; one value per reference; what it got is in the log |
| ssh-agent | signatures in scope, current and attended; a waiting client is served |
| packages, exchange | what is imported was sealed in its package, is not prod, and if high was approved or came with that package's token; without `--force` what was there stays |
| key custody | a key that a record needs is in its place or in a backup, unless it was lost or replaced by `--force` |
| programs | what is handed on is what the service holds, a lost connection is not told as a missing secret; none is left running; a call ends |
| audit log | what was recorded stays, once, in order, and is shown to whoever asks for its day |
| TOTP | the code lives for more than the validity asked for, at every second of the period |
| Web UI | accepted requests are answered, however long they wait; a server and a staged key only after an approval; the server ends |
| devices | the disk shown is the one erased; the machine's own disks are spared |
| output masking | no secret of the run remains in the output: not modelled |

## 6. Plan

1. *Done.*  The brokers first, since every attended use rests on them; then the store,
   administration, launch, agent, custody and packages; then what kovra does on the
   desktop besides (`MCDesktop`).
2. Runs that end in a violation for what section 3 lists: two processes that write one
   coordinate through one temporary ("writes are atomic"), the record that is overwritten
   without `--force`, the registered token that is removed unused ("single-use, bound to
   this package"), the staged key that outlives the invocation, the critical record that
   a forced import lowers without an event, the secret that loses its `\r`.
3. The ssh-agent's load and a session's list as compositions with an inventory of
   `VaultStore`; two shells in `Exchange`.
4. Proofs: every safety property of the passing runs is a theorem.  Next: `Confirmation`
   below the faces (that `SecretAdmin`'s `Approve` and `Refuse` are steps of it), and
   a weaker `RecordStore` that the store implements without `Exclusive`.
5. Output masking as an operator over short outputs: a secret that is a prefix of
   another one, masked first, leaves the other's tail in view.

## 7. What is not modelled, and why

- Cryptography (sealing, Argon2, signatures, HMAC): library calls; a record opens
  under its key or does not.
- Parsers (coordinates, `.env.refs`, `agent.toml`, the agent's wire format):
  functions of text; the modules start from their results.
- The wording of prompts, listings and reports; `doctor`'s findings, `scaffold`,
  `setup`, hooks and the biometric dialog: text, and calls that are made once.
- The MCP server: it forwards each call to one method of the session.
- The masking of a child's output (`mask_secrets`): a function of text.
- The metadata index (`core/src/index.rs`): nothing outside its tests opens it; the
  lists its comments assign to it read the records themselves.
- Test doubles (`MockConfirmer`, `MockRunner`, ...).
- Errors of the audit log, outside `AuditLog` and the writes of `SecretAdmin`
  (`GoUnlogged`): the code ignores them, the other models take every event to be
  written.  In `SshAgent` the events are left out, nothing reads
  them.
- A connection to the Web UI that was not accepted yet, or that says nothing.
- Public-only keypairs in `SecretAdmin`: they hold nothing to protect.
