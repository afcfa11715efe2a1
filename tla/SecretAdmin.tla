------------------------------ MODULE SecretAdmin ----------------------------
(***************************************************************************)
(* The life of one secret under the three faces: the CLI                   *)
(* (cli/src/commands.rs), the Web UI (webui/src/lib.rs) and the MCP        *)
(* session (ffi-python/src/session.rs).  Every operation reads the record, *)
(* decides on what it read, may wait for an attended confirmation, and     *)
(* then writes, removes or delivers.  Nothing holds the record in between, *)
(* for as long as the confirmation takes.                                  *)
(*                                                                         *)
(* An operation is a few steps: the read with the decision, perhaps the    *)
(* confirmation, the effect, and for a write the audit that follows it.    *)
(* Reads and writes are whole, as VaultStore describes them; requests that *)
(* are refused on what they read change nothing and are left out.          *)
(***************************************************************************)
EXTENDS Policy

CONSTANTS
  Ops,                   \* operations the faces carry out
  Faces,                 \* the faces in use
  Regimes,               \* who does what, see RegimeType
  Initial,               \* the value of a record that was there before
  NoRecord

\* Where the secret lives, a project or Global; operations that are carried out,
\* one at a time if `alone`; the faces whose users also edit and delete; whether
\* packages are imported; the capabilities the MCP session may have.
RegimeType ==
  [vault : Projects \union {Global}, ops : SUBSET Ops, alone : BOOLEAN,
   editors : SUBSET Faces, importing : BOOLEAN, scopes : SUBSET Scopes]

ASSUME AdminAssumption ==
  /\ Faces \subseteq Surfaces
  /\ Regimes \subseteq RegimeType
  /\ Initial \notin Ops

VARIABLES
  regime,                \* what the rest of the state is about, one of Regimes
  environment, scope,    \* the secret's environment, the MCP session's scope
  record,                \* the stored record, or none
  pc, face, effect,      \* the operations: progress, face, what follows
  seen, draft,           \* the record each has read, the record it will write
  approved,              \* operations whose confirmation was approved
  audited,               \* operations recorded as a SensitivityDowngrade
  dropped,               \* history: writes, imports aside, that lowered a record
  delivered,             \* history: what was handed out, and to which face
  used,                  \* history: custodied secrets used without leaving
  guarded                \* history: values that no one may see unattended

parameters == <<regime, environment, scope>>
vars == <<parameters, record, pc, face, effect, seen, draft, approved, audited,
          dropped, delivered, used, guarded>>

Vault == regime.vault

\* Each operation that stores a value stores one of its own.
Values == Ops \union {Initial}

\* "custodied" stands for a keypair or a TOTP enrollment, whose secret half is
\* used but never handed out.
Kinds == {"literal", "reference", "custodied"}

Records ==
  [kind : Kinds, value : Values, sensitivity : Sensitivities, revealable : BOOLEAN]

Effects == {"write", "import", "remove", "deliver", "use"}

Maybe(S) == S \union {NoRecord}

TypeOK ==
  /\ regime \in Regimes
  /\ environment \in Environments
  /\ scope \in Scopes
  /\ record \in Maybe(Records)
  /\ pc \in [Ops -> {"idle", "confirming", "acting", "written", "done", "gone"}]
  /\ face \in [Ops -> Surfaces]
  /\ effect \in [Ops -> Effects]
  /\ seen \in [Ops -> Maybe(Records)]
  /\ draft \in [Ops -> Maybe(Records)]
  /\ approved \subseteq Ops
  /\ audited \subseteq Ops
  /\ dropped \subseteq Ops
  /\ delivered \subseteq [face : Surfaces, record : Records, attended : BOOLEAN]
  /\ used \subseteq [record : Records, attended : BOOLEAN]
  /\ guarded \subseteq Values

GuardedIn(r) == IF r # NoRecord /\ r.sensitivity \in Critical THEN {r.value} ELSE {}

\* No record yet, or one an earlier operation left, of any tier.
Init ==
  /\ regime \in Regimes
  /\ environment \in Environments
  /\ scope \in regime.scopes
  /\ record \in Maybe([kind : Kinds, value : {Initial}, sensitivity : Sensitivities,
                       revealable : BOOLEAN])
  /\ pc = [o \in Ops |-> IF o \in regime.ops THEN "idle" ELSE "done"]
  /\ face = [o \in Ops |-> "cli"]
  /\ effect = [o \in Ops |-> "write"]
  /\ seen = [o \in Ops |-> NoRecord]
  /\ draft = [o \in Ops |-> NoRecord]
  /\ approved = {}
  /\ audited = {}
  /\ dropped = {}
  /\ delivered = {}
  /\ used = {}
  /\ guarded = GuardedIn(record)

-----------------------------------------------------------------------------
(* First half: a handler reads the record and decides.                      *)

\* The face reads the record; `new` is what a write will store, and the effect
\* waits for a confirmation if the decision says so.
Begin(o, f, what, new, gated) ==
  /\ pc[o] = "idle"
  /\ regime.alone => \A p \in Ops : pc[p] \in {"idle", "done", "gone"}
  /\ pc' = [pc EXCEPT ![o] = IF gated THEN "confirming" ELSE "acting"]
  /\ face' = [face EXCEPT ![o] = f]
  /\ effect' = [effect EXCEPT ![o] = what]
  /\ seen' = [seen EXCEPT ![o] = record]
  /\ draft' = [draft EXCEPT ![o] = new]
  /\ UNCHANGED <<parameters, record, approved, audited, dropped, delivered, used, guarded>>

\* A record is born around a value of its own, with the tier of its birth.
NewRecord(o, kind, sensitivity, revealable) ==
  [kind |-> kind, value |-> o, revealable |-> revealable,
   sensitivity |-> BirthSensitivity(environment, sensitivity)]

\* An edit keeps what it does not mention; only a reference can be pointed
\* elsewhere.
Edited(o) ==
  {new \in Records :
     /\ new.kind = record.kind
     /\ new.value = record.value \/ (record.kind = "reference" /\ new.value = o)}

\* Mutant of RevealRequest: the caller says that the secret is revealable.
RevealRequestOfCaller(f, project) ==
  [environment |-> environment, project |-> project, sensitivity |-> record.sensitivity,
   revealable |-> TRUE,
   operation |-> "reveal", surface |-> f, origin |-> IF f = "mcp" THEN "agent" ELSE "human"]

\* The request each face puts to the policy, about the project that the caller
\* names; the CLI ignores the record's flag.
RevealRequest(f, project) ==
  [environment |-> environment, project |-> project, sensitivity |-> record.sensitivity,
   revealable |-> IF f = "cli" THEN FALSE ELSE record.revealable,
   operation |-> "reveal", surface |-> f, origin |-> IF f = "mcp" THEN "agent" ELSE "human"]

\* resolve_with_key: whoever names a project finds what it holds, and what the
\* global vault holds if the project does not.
Reaches(project) == Vault \in {project, Global}

(* The CLI.                                                                 *)

\* `kovra add`; a keypair comes from `kovra keygen`.
CliAdd(o) ==
  /\ record = NoRecord
  /\ \E kind \in Kinds, s \in Sensitivities, b \in BOOLEAN :
       Begin(o, "cli", "write", NewRecord(o, kind, s, b), FALSE)

CliKeygen(o) ==
  /\ record = NoRecord
  /\ \E s \in Sensitivities :
       Begin(o, "cli", "write", NewRecord(o, "custodied", s, FALSE), FALSE)

CliGenerate(o) ==
  /\ record = NoRecord
  /\ \E s \in Sensitivities :
       Begin(o, "cli", "write", NewRecord(o, "literal", s, FALSE), FALSE)

\* `kovra import`: the record is looked for, 1Password is asked, the literal is
\* written.
CliImport(o) ==
  /\ record = NoRecord
  /\ \E s \in Sensitivities, b \in BOOLEAN :
       Begin(o, "cli", "write", NewRecord(o, "literal", s, b), FALSE)

\* An existing record keeps its tier, and a reference becomes a literal; an
\* absent one is born.
CliSet(o) ==
  \/ /\ record = NoRecord
     /\ Begin(o, "cli", "write", NewRecord(o, "literal", "medium", FALSE), FALSE)
  \/ /\ record # NoRecord
     /\ record.kind \in {"literal", "reference"}
     /\ Begin(o, "cli", "write", [record EXCEPT !.kind = "literal", !.value = o], FALSE)

CliEdit(o) ==
  /\ record # NoRecord
  /\ \E new \in Edited(o) :
       Begin(o, "cli", "write", new,
             DowngradeRequiresConfirmation(record.sensitivity, new.sensitivity))

CliRm(o) ==
  /\ record # NoRecord
  /\ Begin(o, "cli", "remove", NoRecord, FALSE)

\* `kovra unpack` and `kovra exchange open`, one entry: it comes with a value, a
\* tier and a flag of its own and, with --force, replaces whatever is there.  Only
\* the entry's tier is looked at; prod is never packaged.  Who or what may approve,
\* a person or a token, is in Exchange.
CliUnpack(o) ==
  /\ environment # "prod"
  /\ \E entry \in Records :
       /\ entry.value \in {o, Initial}
       /\ Begin(o, "cli", "import", entry, InjectRequiresConfirmation(entry.sensitivity))

\* Only a literal has a value to show.
CliShow(o) ==
  /\ record # NoRecord
  /\ record.kind = "literal"
  /\ LET decision == Decide(RevealRequest("cli", Vault), FullScope)
     IN  /\ decision \in {"allow", "confirm"}
         /\ Begin(o, "cli", "deliver", NoRecord, decision = "confirm")

\* Mutant of CliUse: the use of a custodied secret never asks.
CliUseUnasked(o) ==
  /\ record # NoRecord
  /\ record.kind = "custodied"
  /\ Begin(o, "cli", "use", NoRecord, FALSE)

\* `kovra code`, `sign`, `decrypt` and `ssh-add`: gate_private_key_op decides on
\* an injection.
CliUse(o) ==
  /\ record # NoRecord
  /\ record.kind = "custodied"
  /\ LET decision == Decide([RevealRequest("cli", Vault) EXCEPT !.operation = "inject"], FullScope)
     IN  Begin(o, "cli", "use", NoRecord, decision = "confirm")

(* The Web UI.                                                              *)

\* POST /api/secret
WebCreate(o) ==
  /\ record = NoRecord
  /\ \E kind \in {"literal", "reference"}, s \in Sensitivities, b \in BOOLEAN :
       Begin(o, "webui", "write", NewRecord(o, kind, s, b), FALSE)

\* POST /api/generate
WebGenerate(o) ==
  /\ record = NoRecord
  /\ \E s \in Sensitivities :
       Begin(o, "webui", "write", NewRecord(o, "literal", s, FALSE), FALSE)

\* PUT /api/secret
WebUpdateValue(o) ==
  /\ record # NoRecord
  /\ record.kind = "literal"
  /\ Begin(o, "webui", "write", [record EXCEPT !.value = o], FALSE)

\* Mutant of WebEdit: the browser's edit does not ask.
WebEditUnasked(o) ==
  /\ record # NoRecord
  /\ \E new \in Edited(o) : Begin(o, "webui", "write", new, FALSE)

\* PATCH /api/secret
WebEdit(o) ==
  /\ record # NoRecord
  /\ \E new \in Edited(o) :
       Begin(o, "webui", "write", new,
             DowngradeRequiresConfirmation(record.sensitivity, new.sensitivity))

\* Mutant of WebDelete: inject-only is forgotten.
WebDeleteIfHigh(o) ==
  /\ record # NoRecord
  /\ Begin(o, "webui", "remove", NoRecord, record.sensitivity = "high")

\* DELETE /api/secret
WebDelete(o) ==
  /\ record # NoRecord
  /\ Begin(o, "webui", "remove", NoRecord, DeleteRequiresConfirmation(record.sensitivity))

\* GET /api/reveal.  The browser does not wait for a confirmation: it masks.
WebReveal(o) ==
  /\ record # NoRecord
  /\ record.kind = "literal"
  /\ Decide(RevealRequest("webui", Vault), FullScope) = "allow"
  /\ Begin(o, "webui", "deliver", NoRecord, FALSE)

(* The MCP session.                                                         *)

\* require_addressable: a session changes only what its scope addresses.
MayChange == Addresses(scope, environment, Vault)

SessionGenerate(o) ==
  /\ MayChange
  /\ record = NoRecord
  /\ \E s \in Sensitivities :
       Begin(o, "mcp", "write", NewRecord(o, "literal", s, FALSE), FALSE)

SessionSet(o) ==
  /\ MayChange
  /\ \/ /\ record = NoRecord
        /\ Begin(o, "mcp", "write", NewRecord(o, "literal", "medium", FALSE), FALSE)
     \/ /\ record # NoRecord
        /\ record.kind \in {"literal", "reference"}
        /\ Begin(o, "mcp", "write", [record EXCEPT !.kind = "literal", !.value = o], FALSE)

\* edit_metadata: no confirmation, whatever the tiers.
SessionEdit(o) ==
  /\ MayChange
  /\ record # NoRecord
  /\ \E new \in Edited(o) : Begin(o, "mcp", "write", new, FALSE)

SessionDelete(o) ==
  /\ MayChange
  /\ record # NoRecord
  /\ Begin(o, "mcp", "remove", NoRecord, FALSE)

\* The scope is asked about the project that the caller names, and the record is
\* the one that this project's caller gets.  A decision to confirm is a refusal.
SessionReveal(o) ==
  /\ record # NoRecord
  /\ record.kind = "literal"
  /\ \E project \in Projects \union {Global} :
       /\ Reaches(project)
       /\ Decide(RevealRequest("mcp", project), scope) = "allow"
  /\ Begin(o, "mcp", "deliver", NoRecord, FALSE)

-----------------------------------------------------------------------------
(* Second half: the confirmation, and the effect.                           *)

\* The outcome of confirm(), as Confirmation describes it.
Approve(o) ==
  /\ pc[o] = "confirming"
  /\ pc' = [pc EXCEPT ![o] = "acting"]
  /\ approved' = approved \union {o}
  /\ UNCHANGED <<parameters, record, face, effect, seen, draft, audited, dropped,
                 delivered, used, guarded>>

\* Mutant of Refuse: a timeout lets the operation go on.
RefuseButGoOn(o) ==
  /\ pc[o] = "confirming"
  /\ pc' = [pc EXCEPT ![o] = "acting"]
  /\ UNCHANGED <<parameters, record, face, effect, seen, draft, approved, audited,
                 dropped, delivered, used, guarded>>

\* The operation is over, and nothing is left of what it was about.
Ends(o, how) ==
  /\ pc' = [pc EXCEPT ![o] = how]
  /\ face' = [face EXCEPT ![o] = "cli"]
  /\ effect' = [effect EXCEPT ![o] = "write"]
  /\ seen' = [seen EXCEPT ![o] = NoRecord]
  /\ draft' = [draft EXCEPT ![o] = NoRecord]
  /\ approved' = approved \ {o}
  /\ UNCHANGED parameters

\* Denied or timed out: the operation ends without its effect.  A process that
\* dies before its effect leaves no more than this.
Refuse(o) ==
  /\ pc[o] = "confirming"
  /\ Ends(o, "done")
  /\ UNCHANGED <<record, audited, dropped, delivered, used, guarded>>

\* An effect that ends the operation.
Finish(o, what) ==
  /\ pc[o] = "acting"
  /\ effect[o] = what
  /\ Ends(o, "done")

\* Mutant of Lowered: only a confirmed downgrade counts as one.
LoweredIfConfirmed(o) == o \in approved

\* `lowered`, computed from the record that was read.
Lowered(o) ==
  /\ seen[o] # NoRecord
  /\ IsDowngrade(seen[o].sensitivity, draft[o].sensitivity)

\* write_record, over whatever is there by now.  A value is guarded from being
\* stored as critical until an approved operation lowers it.
Write(o) ==
  /\ pc[o] = "acting"
  /\ effect[o] \in {"write", "import"}
  /\ pc' = [pc EXCEPT ![o] = "written"]
  /\ record' = draft[o]
  /\ dropped' = IF /\ effect[o] = "write" /\ record # NoRecord
                   /\ IsDowngrade(record.sensitivity, draft[o].sensitivity)
                THEN dropped \union {o} ELSE dropped
  /\ guarded' = (IF o \in approved THEN guarded \ {draft[o].value} ELSE guarded)
                  \union GuardedIn(draft[o])
  /\ UNCHANGED <<parameters, face, effect, seen, draft, approved, audited, delivered, used>>

\* The audit that follows a write: a lowered tier is an event of its own, except
\* for an import, which is told as an access or an approval whatever it replaced.
Log(o) ==
  /\ pc[o] = "written"
  /\ Ends(o, "done")
  /\ audited' = IF effect[o] = "write" /\ Lowered(o) THEN audited \union {o} ELSE audited
  /\ UNCHANGED <<record, dropped, delivered, used, guarded>>

\* The record is written and the event is not: the process died in between, or
\* the log could not be appended to, which every face ignores.
GoUnlogged(o) ==
  /\ pc[o] = "written"
  /\ Ends(o, "gone")
  /\ UNCHANGED <<record, audited, dropped, delivered, used, guarded>>

\* delete_record succeeds on an absent record too.
Remove(o) ==
  /\ Finish(o, "remove")
  /\ record' = NoRecord
  /\ UNCHANGED <<audited, dropped, delivered, used, guarded>>

\* The value handed out is the one that was read before the confirmation.
Deliver(o) ==
  /\ Finish(o, "deliver")
  /\ delivered' = delivered \union
       {[face |-> face[o], record |-> seen[o], attended |-> o \in approved]}
  /\ UNCHANGED <<record, audited, dropped, used, guarded>>

\* The key signs or decrypts, or the seed gives a code; neither is handed out.
Use(o) ==
  /\ Finish(o, "use")
  /\ used' = used \union {[record |-> seen[o], attended |-> o \in approved]}
  /\ UNCHANGED <<record, audited, dropped, delivered, guarded>>

-----------------------------------------------------------------------------
Cli(o) ==
  /\ "cli" \in Faces
  /\ \/ CliAdd(o) \/ CliKeygen(o) \/ CliGenerate(o) \/ CliImport(o) \/ CliSet(o)
     \/ "cli" \in regime.editors /\ (CliEdit(o) \/ CliRm(o))
     \/ regime.importing /\ CliUnpack(o)
     \/ CliShow(o) \/ CliUse(o)

WebUi(o) ==
  /\ "webui" \in Faces
  /\ \/ WebCreate(o) \/ WebGenerate(o) \/ WebUpdateValue(o)
     \/ "webui" \in regime.editors /\ (WebEdit(o) \/ WebDelete(o))
     \/ WebReveal(o)

Session(o) ==
  /\ "mcp" \in Faces
  /\ \/ SessionGenerate(o) \/ SessionSet(o)
     \/ "mcp" \in regime.editors /\ (SessionEdit(o) \/ SessionDelete(o))
     \/ SessionReveal(o)

Finished ==
  /\ \A o \in Ops : pc[o] \in {"done", "gone"}
  /\ UNCHANGED vars

Next ==
  \/ \E o \in Ops :
       \/ Cli(o) \/ WebUi(o) \/ Session(o)
       \/ Approve(o) \/ Refuse(o)
       \/ Write(o) \/ Log(o) \/ GoUnlogged(o)
       \/ Remove(o) \/ Deliver(o) \/ Use(o)
  \/ Finished

Spec == Init /\ [][Next]_vars

-----------------------------------------------------------------------------
\* "prod plaintext never enters an AI agent's context", whatever edits,
\* replacements and confirmations came before: an agent is handed only values of
\* an environment its scope allows, out of prod, below high and marked revealable,
\* from a project that its scope addresses or, because a lookup under any project
\* falls through, from the global vault when the scope addresses a project at all.
AgentContext ==
  \A d \in delivered : d.face = "mcp" =>
    /\ environment # "prod"
    /\ environment \in scope.environments
    /\ "reveal" \in scope.operations
    /\ Vault \in scope.projects \/ (Vault = Global /\ scope.projects # {})
    /\ d.record.sensitivity \notin Critical
    /\ d.record.revealable

\* What people see: an inject-only value nowhere, a high one never in the
\* browser, and a high or prod one on the terminal only when attended.
HumanScreens ==
  \A d \in delivered :
    /\ d.record.sensitivity # "inject-only"
    /\ d.face = "webui" => d.record.sensitivity # "high"
    /\ d.face = "cli" /\ (d.record.sensitivity = "high" \/ environment = "prod") => d.attended

\* A high key or seed is used only when attended, although reading the record
\* and using it are separated by the wait.
HighKeysAreUsedAttended ==
  \A u \in used : u.record.sensitivity = "high" => u.attended

\* "Single-sourced here so every face gates it the same": whoever is about to
\* delete a critical record, or to lower one, was approved.
EveryFaceGates ==
  \A o \in Ops : pc[o] = "acting" /\ seen[o] # NoRecord /\ o \notin approved =>
    /\ effect[o] = "remove" => ~DeleteRequiresConfirmation(seen[o].sensitivity)
    /\ effect[o] = "write" =>
         ~DowngradeRequiresConfirmation(seen[o].sensitivity, draft[o].sensitivity)

\* Operations do not overlap, and only people edit.
Attended == regime.alone /\ "mcp" \notin regime.editors

\* "Lowering it requires an attended confirmation before it applies": where
\* operations do not overlap and no agent edits, a stored record leaves the
\* critical tiers, or drops from one to the other, only by an operation that was
\* approved on the record as it stands, or by a forced import, which is approved
\* only if what it brings is high.
CriticalLoweredOnlyByApproval ==
  [][(/\ Attended
      /\ record # NoRecord /\ record' # NoRecord
      /\ DowngradeRequiresConfirmation(record.sensitivity, record'.sensitivity)) =>
        \E o \in Ops : /\ pc[o] = "acting" /\ pc'[o] = "written"
                       /\ seen[o] = record
                       /\ o \in approved
                            \/ (effect[o] = "import" /\ record'.sensitivity # "high")]_vars

\* The browser deletes a critical record only by an operation that was approved
\* on the record as it stands, where nothing else comes between.
BrowserDeletesByApproval ==
  [][\A o \in Ops :
       (/\ Attended
        /\ pc[o] = "acting" /\ pc'[o] = "done"
        /\ face[o] = "webui" /\ effect[o] = "remove"
        /\ record # NoRecord /\ DeleteRequiresConfirmation(record.sensitivity)) =>
         o \in approved /\ seen[o] = record]_vars

\* Where operations do not overlap, what the log tells as a downgrade lowered the
\* record that was stored, and every write that lowered one, those that nobody
\* confirms included, is told once its operation returns, unless the process died
\* or the append failed in between.  Imports lower records too: they are never told.
DowngradesAreAudited ==
  regime.alone =>
    /\ audited \subseteq dropped
    /\ \A o \in dropped : pc[o] = "done" => o \in audited

\* Where operations do not overlap, only people edit and nothing is imported, a
\* value that was ever stored as critical reaches an agent or a browser only after
\* somebody approved lowering it.
GuardedStaysIn ==
  [][Attended /\ ~regime.importing => \A d \in delivered' \ delivered :
       d.face \in {"mcp", "webui"} => d.record.value \notin guarded]_vars
=============================================================================
