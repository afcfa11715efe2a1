-------------------------- MODULE SecretAdmin_proofs ------------------------
(***************************************************************************)
(* SecretAdmin for any operations, faces and scopes: what each face may    *)
(* hand out; where operations do not overlap, that the log tells a         *)
(* downgrade exactly if there was one; and, if also only people edit, that *)
(* a critical record is lowered only by approval or a forced import and,   *)
(* in the browser, deleted only by approval.                               *)
(***************************************************************************)
EXTENDS SecretAdmin, TLAPS

\* What may be handed to a face, alone or after an approval.
MayBeHandedTo(f, r, attended) ==
  /\ r.sensitivity # "inject-only"
  /\ f = "mcp" =>
       /\ environment # "prod"
       /\ environment \in scope.environments
       /\ "reveal" \in scope.operations
       /\ Vault \in scope.projects \/ (Vault = Global /\ scope.projects # {})
       /\ r.sensitivity \notin Critical
       /\ r.revealable
  /\ f = "webui" => r.sensitivity # "high"
  /\ f = "cli" /\ (r.sensitivity = "high" \/ environment = "prod") => attended

UnderWay(o) == pc[o] \in {"confirming", "acting"}

\* A delivery under way holds a record that its face may be handed, as soon as
\* the confirmation it waits for is approved.
PendingDeliveries ==
  \A o \in Ops : UnderWay(o) /\ effect[o] = "deliver" =>
    /\ seen[o] \in Records \ {NoRecord}
    /\ MayBeHandedTo(face[o], seen[o], pc[o] = "confirming" \/ o \in approved)

\* A use under way holds a record, and waits for an approval or has it if the
\* record is high.
PendingUses ==
  \A o \in Ops : UnderWay(o) /\ effect[o] = "use" =>
    /\ seen[o] \in Records \ {NoRecord}
    /\ seen[o].sensitivity = "high" => pc[o] = "confirming" \/ o \in approved

IInv ==
  /\ TypeOK
  /\ PendingDeliveries
  /\ PendingUses
  /\ AgentContext
  /\ HumanScreens
  /\ HighKeysAreUsedAttended
-----------------------------------------------------------------------------
(* The policy by itself.                                                    *)

\* A decision by how much it withholds.
Strictness(decision) ==
  CASE decision = "allow" -> 0
    [] decision = "confirm" -> 1
    [] OTHER -> 2

\* r is asked for as q is, about a secret that needs no less care, by somebody
\* who is trusted no more.
NeedsNoLessCare(q, r) ==
  /\ r.project = q.project /\ r.operation = q.operation /\ r.surface = q.surface
  /\ r.environment \in {q.environment, "prod"}
  /\ Rank(q.sensitivity) <= Rank(r.sensitivity)
  /\ r.revealable => q.revealable
  /\ r.origin \in {q.origin, "agent"}

\* Narrowing the capability of a session, in any of its three filters, takes
\* coordinates and operations away and changes no decision about what is left.
THEOREM NarrowingOnlyTakesAway ==
  ASSUME NEW q \in Requests, NEW wide \in Scopes, NEW narrow \in Scopes,
         narrow.operations \subseteq wide.operations,
         narrow.environments \subseteq wide.environments,
         narrow.projects \subseteq wide.projects
  PROVE  Decide(q, narrow) \in {Decide(q, wide), "unaddressable"}
  BY DEF Decide, Addresses, Permits

\* Whatever needs no less care is revealed no more readily, on every face: a
\* higher tier, prod for another environment, a cleared flag, or an agent in a
\* person's place never turns a denial into a confirmation, or that into a yes.
THEOREM CareIsMonotonic ==
  ASSUME NEW q \in Requests, NEW r \in Requests, q.operation = "reveal", NeedsNoLessCare(q, r)
  PROVE  Strictness(DecideReveal(q)) <= Strictness(DecideReveal(r))
<1>1. /\ q.sensitivity = "inject-only" => r.sensitivity = "inject-only"
      /\ q.sensitivity = "high" => r.sensitivity \in Critical
      /\ q.environment = "prod" => r.environment = "prod"
      /\ q.origin = "agent" => r.origin = "agent"
      /\ r.surface = q.surface
      /\ ~q.revealable => ~r.revealable
  BY DEF NeedsNoLessCare, Rank, Requests, Sensitivities, Critical, Origins
<1>2. \A t \in Requests : DecideReveal(t) \in {"allow", "confirm", "deny"}
  BY DEF DecideReveal
<1>3. Strictness("allow") = 0 /\ Strictness("confirm") = 1 /\ Strictness("deny") = 2
  BY DEF Strictness
<1>4. DecideReveal(r) = "allow" => DecideReveal(q) = "allow"
  BY <1>1 DEF DecideReveal, Critical
<1>5. DecideReveal(r) = "confirm" => DecideReveal(q) \in {"allow", "confirm"}
  BY <1>1 DEF DecideReveal, Critical
<1>6. QED
  BY <1>2, <1>3, <1>4, <1>5
-----------------------------------------------------------------------------
\* What the funnel lets a face reveal: the row of each face in the table.
LEMMA RevealTable ==
  ASSUME NEW q \in Requests, NEW s \in Scopes, q.operation = "reveal",
         Decide(q, s) \in {"allow", "confirm"}
  PROVE  /\ q.environment \in s.environments
         /\ q.project \in s.projects
         /\ "reveal" \in s.operations
         /\ q.sensitivity # "inject-only"
         /\ q.surface = "mcp" => /\ q.environment # "prod"
                                 /\ q.sensitivity \notin Critical
                                 /\ q.revealable
         /\ q.surface = "webui" => q.sensitivity # "high"
         /\ q.surface = "cli" /\ (q.sensitivity = "high" \/ q.environment = "prod") =>
              Decide(q, s) = "confirm"
  BY DEF Requests, Scopes, Decide, DecideReveal, Addresses, Permits, Critical, Operations,
         Surfaces, Sensitivities

\* The secret lives in a project's vault or in the global one.
LEMMA VaultType == ASSUME TypeOK PROVE Vault \in Projects \union {Global}
  BY AdminAssumption DEF TypeOK, Vault, RegimeType

LEMMA InitIInv == Init => IInv
  BY AdminAssumption
  DEF Init, IInv, TypeOK, PendingDeliveries, PendingUses, UnderWay, AgentContext, HumanScreens,
      HighKeysAreUsedAttended, Records, Values, Maybe, Surfaces, GuardedIn, Critical,
      RegimeType, Effects

\* What a handler begins: a delivery that its face may make, a use that waits if
\* the record is high, a removal that waits if the browser asks for it and the
\* record is critical, a write of a value of its own or of the one it read, that
\* waits if it lowers a critical record, unless a session edits, or an import that
\* waits if what it brings is high.
Sound(o, f, what, new, gated) ==
  /\ what = "deliver" => record \in Records \ {NoRecord} /\ MayBeHandedTo(f, record, gated)
  /\ what = "use" => /\ record \in Records \ {NoRecord}
                     /\ record.sensitivity = "high" => gated
  /\ what = "remove" /\ f = "webui" =>
       (DeleteRequiresConfirmation(record.sensitivity) => gated)
  /\ what = "write" =>
       /\ new \in Records
       /\ new.value = o \/ (record # NoRecord /\ new.value = record.value)
       /\ record # NoRecord
            /\ DowngradeRequiresConfirmation(record.sensitivity, new.sensitivity) =>
            gated \/ (f = "mcp" /\ "mcp" \in regime.editors)
  /\ what = "import" =>
       /\ new \in Records
       /\ f = "cli" /\ regime.importing
       /\ new.sensitivity = "high" => gated

\* Every handler begins soundly.
Begins(o) ==
  \E f \in Surfaces, what \in Effects,
     new \in Maybe(Records), gated \in BOOLEAN :
    Begin(o, f, what, new, gated) /\ Sound(o, f, what, new, gated)

\* A record born by an operation.
LEMMA BirthBegins ==
  ASSUME TypeOK, record = NoRecord, NEW o \in Ops, NEW f \in Surfaces, NEW kind \in Kinds,
         NEW s \in Sensitivities, NEW b \in BOOLEAN,
         Begin(o, f, "write", NewRecord(o, kind, s, b), FALSE)
  PROVE  Begins(o)
<1>1. NewRecord(o, kind, s, b) \in Records /\ NewRecord(o, kind, s, b).value = o
  BY DEF NewRecord, BirthSensitivity, Records, Values, Sensitivities
<1>2. Sound(o, f, "write", NewRecord(o, kind, s, b), FALSE)
  BY <1>1 DEF Sound
<1>3. QED
  BY <1>1, <1>2 DEF Begins, Maybe, Effects

\* A new value in a record that keeps its tier.
LEMMA ReplacementBegins ==
  ASSUME TypeOK, record \in Records, NEW o \in Ops, NEW f \in Surfaces, NEW new \in Records,
         new.value = o, new.sensitivity = record.sensitivity,
         Begin(o, f, "write", new, FALSE)
  PROVE  Begins(o)
<1>1. ~DowngradeRequiresConfirmation(record.sensitivity, new.sensitivity)
  <2>1. Rank(record.sensitivity) \in Nat
    BY DEF Rank
  <2>2. QED
    BY <2>1 DEF DowngradeRequiresConfirmation, IsDowngrade
<1>2. Sound(o, f, "write", new, FALSE)
  BY <1>1 DEF Sound
<1>3. QED
  BY <1>2 DEF Begins, Maybe, Effects

\* The literal that a `set` makes of a record.
LEMMA Relabelled ==
  ASSUME record \in Records, NEW o \in Ops
  PROVE  LET new == [record EXCEPT !.kind = "literal", !.value = o]
         IN  new \in Records /\ new.value = o /\ new.sensitivity = record.sensitivity
  BY DEF Records, Values, Kinds

\* Edited metadata.
LEMMA EditBegins ==
  ASSUME TypeOK, record # NoRecord, NEW o \in Ops, NEW f \in Surfaces, NEW new \in Edited(o),
         NEW gated \in BOOLEAN, Begin(o, f, "write", new, gated),
         DowngradeRequiresConfirmation(record.sensitivity, new.sensitivity) =>
           gated \/ (f = "mcp" /\ "mcp" \in regime.editors)
  PROVE  Begins(o)
<1>1. new \in Records /\ (new.value = o \/ new.value = record.value)
  BY DEF Edited
<1>2. Sound(o, f, "write", new, gated)
  BY <1>1 DEF Sound
<1>3. QED
  BY <1>1, <1>2 DEF Begins, Maybe, Effects

\* The removal of a record.
LEMMA RemovalBegins ==
  ASSUME NEW o \in Ops, NEW f \in Surfaces, NEW gated \in BOOLEAN,
         f = "webui" => (DeleteRequiresConfirmation(record.sensitivity) => gated),
         Begin(o, f, "remove", NoRecord, gated)
  PROVE  Begins(o)
<1>1. NoRecord \in Maybe(Records) /\ Sound(o, f, "remove", NoRecord, gated)
  BY DEF Maybe, Sound
<1>2. QED
  BY <1>1 DEF Begins, Effects

\* The request a face puts for a record is one of the policy's requests.
LEMMA RevealRequestType ==
  ASSUME TypeOK, record # NoRecord, NEW f \in Surfaces, NEW project \in Projects \union {Global}
  PROVE  /\ RevealRequest(f, project) \in Requests
         /\ RevealRequest(f, project).operation = "reveal"
         /\ RevealRequest(f, project).surface = f
         /\ RevealRequest(f, project).environment = environment
         /\ RevealRequest(f, project).project = project
         /\ RevealRequest(f, project).sensitivity = record.sensitivity
         /\ f = "mcp" => RevealRequest(f, project).revealable = record.revealable
  BY DEF TypeOK, Maybe, Records, RevealRequest, Requests, Operations, Origins, Surfaces

\* A delivery, waiting exactly if the decision says so.
LEMMA DeliveryBegins ==
  ASSUME TypeOK, record # NoRecord, NEW o \in Ops, NEW f \in Surfaces, NEW s \in Scopes,
         NEW project \in Projects \union {Global}, Reaches(project),
         f = "mcp" => s = scope,
         Decide(RevealRequest(f, project), s) \in {"allow", "confirm"},
         Begin(o, f, "deliver", NoRecord, Decide(RevealRequest(f, project), s) = "confirm")
  PROVE  Begins(o)
<1> DEFINE q == RevealRequest(f, project)
<1>1. record \in Records \ {NoRecord} /\ NoRecord \in Maybe(Records) /\ "deliver" \in Effects
  BY DEF TypeOK, Maybe, Effects
<1>2. /\ q \in Requests
      /\ q.operation = "reveal" /\ q.surface = f
      /\ q.environment = environment /\ q.project = project
      /\ q.sensitivity = record.sensitivity
      /\ f = "mcp" => q.revealable = record.revealable
  BY RevealRequestType
<1>3. Decide(q, s) \in {"allow", "confirm"} /\ Begin(o, f, "deliver", NoRecord, Decide(q, s) = "confirm")
  OBVIOUS
<1> HIDE DEF q
<1>4. /\ q.environment \in s.environments /\ q.project \in s.projects
      /\ "reveal" \in s.operations
      /\ q.sensitivity # "inject-only"
      /\ q.surface = "mcp" => /\ q.environment # "prod"
                              /\ q.sensitivity \notin Critical
                              /\ q.revealable
      /\ q.surface = "webui" => q.sensitivity # "high"
      /\ q.surface = "cli" /\ (q.sensitivity = "high" \/ q.environment = "prod") =>
           Decide(q, s) = "confirm"
  BY <1>2, <1>3, RevealTable
\* The global record comes under whatever project is named.
<1>5. Vault \in s.projects \/ (Vault = Global /\ s.projects # {})
  BY <1>2, <1>4 DEF Reaches
<1>6. MayBeHandedTo(f, record, Decide(q, s) = "confirm")
  BY <1>2, <1>4, <1>5 DEF MayBeHandedTo
<1>7. Sound(o, f, "deliver", NoRecord, Decide(q, s) = "confirm")
  BY <1>1, <1>6 DEF Sound
<1>8. QED
  BY <1>1, <1>3, <1>7 DEF Begins

\* The use of a custodied secret.
LEMMA UseBegins ==
  ASSUME TypeOK, NEW o \in Ops, CliUse(o)
  PROVE  Begins(o)
<1> DEFINE q == [RevealRequest("cli", Vault) EXCEPT !.operation = "inject"]
<1>1. /\ record \in Records \ {NoRecord} /\ NoRecord \in Maybe(Records)
      /\ "cli" \in Surfaces /\ "use" \in Effects
  BY DEF CliUse, TypeOK, Maybe, Surfaces, Effects
<1>2. /\ q.operation = "inject" /\ q.sensitivity = record.sensitivity
      /\ q.environment = environment /\ q.project = Vault
  BY DEF RevealRequest
<1>3. Begin(o, "cli", "use", NoRecord, Decide(q, FullScope) = "confirm")
  BY DEF CliUse
<1> HIDE DEF q
<1>4. Addresses(FullScope, q.environment, q.project) /\ Permits(FullScope, q.operation)
  BY <1>2, VaultType DEF TypeOK, FullScope, Addresses, Permits, Operations
<1>5. record.sensitivity = "high" => Decide(q, FullScope) = "confirm"
  BY <1>2, <1>4 DEF Decide, InjectRequiresConfirmation
<1>6. Sound(o, "cli", "use", NoRecord, Decide(q, FullScope) = "confirm")
  BY <1>1, <1>5 DEF Sound
<1>7. QED
  BY <1>1, <1>3, <1>6 DEF Begins

\* The import of one entry.
LEMMA ImportBegins ==
  ASSUME NEW o \in Ops, regime.importing, CliUnpack(o)
  PROVE  Begins(o)
<1>1. PICK entry \in Records :
        Begin(o, "cli", "import", entry, InjectRequiresConfirmation(entry.sensitivity))
  BY DEF CliUnpack
<1>2. Sound(o, "cli", "import", entry, InjectRequiresConfirmation(entry.sensitivity))
  BY DEF Sound, InjectRequiresConfirmation
<1>3. InjectRequiresConfirmation(entry.sensitivity) \in BOOLEAN
  BY DEF InjectRequiresConfirmation
<1>4. QED
  BY <1>1, <1>2, <1>3 DEF Begins, Maybe, Effects, Surfaces

\* What the CLI begins.
LEMMA CliBegins == ASSUME TypeOK, NEW o \in Ops, Cli(o) PROVE Begins(o)
<1>1. "cli" \in Surfaces /\ FALSE \in BOOLEAN /\ (record # NoRecord => record \in Records)
  BY DEF Surfaces, TypeOK, Maybe
<1>2. CASE CliAdd(o) \/ CliKeygen(o) \/ CliGenerate(o) \/ CliImport(o)
  <2>1. PICK kind \in Kinds, s \in Sensitivities, b \in BOOLEAN :
          record = NoRecord /\ Begin(o, "cli", "write", NewRecord(o, kind, s, b), FALSE)
    BY <1>2 DEF CliAdd, CliKeygen, CliGenerate, CliImport, Kinds
  <2>2. QED
    BY <1>1, <2>1, BirthBegins
<1>3. CASE CliSet(o) /\ record = NoRecord
  BY <1>1, <1>3, BirthBegins DEF CliSet, Kinds, Sensitivities
<1>4. CASE CliSet(o) /\ record # NoRecord
  BY <1>1, <1>4, Relabelled, ReplacementBegins DEF CliSet
<1>5. CASE CliEdit(o)
  <2>1. PICK new \in Edited(o) :
          Begin(o, "cli", "write", new,
                DowngradeRequiresConfirmation(record.sensitivity, new.sensitivity))
    BY <1>5 DEF CliEdit
  <2>2. DowngradeRequiresConfirmation(record.sensitivity, new.sensitivity) \in BOOLEAN
    BY DEF DowngradeRequiresConfirmation
  <2>3. QED
    BY <1>1, <1>5, <2>1, <2>2, EditBegins DEF CliEdit
<1>6. CASE CliRm(o)
  BY <1>1, <1>6, RemovalBegins DEF CliRm
<1>7. CASE CliShow(o)
  <2>1. FullScope \in Scopes
    BY AdminAssumption DEF FullScope, Scopes
  <2>2. Vault \in Projects \union {Global} /\ Reaches(Vault)
    BY VaultType DEF Reaches
  <2>3. QED
    BY <1>1, <1>7, <2>1, <2>2, DeliveryBegins DEF CliShow
<1>8. QED
  BY <1>2, <1>3, <1>4, <1>5, <1>6, <1>7, UseBegins, ImportBegins DEF Cli

\* What the Web UI begins.
LEMMA WebUiBegins == ASSUME TypeOK, NEW o \in Ops, WebUi(o) PROVE Begins(o)
<1>1. "webui" \in Surfaces /\ (record # NoRecord => record \in Records)
  BY DEF Surfaces, TypeOK, Maybe
<1>2. CASE WebCreate(o) \/ WebGenerate(o)
  <2>1. PICK kind \in Kinds, s \in Sensitivities, b \in BOOLEAN :
          record = NoRecord /\ Begin(o, "webui", "write", NewRecord(o, kind, s, b), FALSE)
    BY <1>2 DEF WebCreate, WebGenerate, Kinds
  <2>2. QED
    BY <1>1, <2>1, BirthBegins
<1>3. CASE WebUpdateValue(o)
  <2>1. /\ [record EXCEPT !.value = o] \in Records
        /\ [record EXCEPT !.value = o].value = o
        /\ [record EXCEPT !.value = o].sensitivity = record.sensitivity
    BY <1>1, <1>3 DEF WebUpdateValue, Records, Values
  <2>2. QED
    BY <1>1, <1>3, <2>1, ReplacementBegins DEF WebUpdateValue
<1>4. CASE WebEdit(o)
  <2>1. PICK new \in Edited(o) :
          Begin(o, "webui", "write", new,
                DowngradeRequiresConfirmation(record.sensitivity, new.sensitivity))
    BY <1>4 DEF WebEdit
  <2>2. DowngradeRequiresConfirmation(record.sensitivity, new.sensitivity) \in BOOLEAN
    BY DEF DowngradeRequiresConfirmation
  <2>3. QED
    BY <1>1, <1>4, <2>1, <2>2, EditBegins DEF WebEdit
<1>5. CASE WebDelete(o)
  <2>1. DeleteRequiresConfirmation(record.sensitivity) \in BOOLEAN
    BY DEF DeleteRequiresConfirmation
  <2>2. QED
    BY <1>1, <1>5, <2>1, RemovalBegins DEF WebDelete
<1>6. CASE WebReveal(o)
  <2>1. FullScope \in Scopes
    BY AdminAssumption DEF FullScope, Scopes
  <2>2. Vault \in Projects \union {Global} /\ Reaches(Vault)
    BY VaultType DEF Reaches
  <2>3. (Decide(RevealRequest("webui", Vault), FullScope) = "confirm") = FALSE
    BY <1>6 DEF WebReveal
  <2>4. QED
    BY <1>1, <1>6, <2>1, <2>2, <2>3, DeliveryBegins DEF WebReveal
<1>7. QED
  BY <1>2, <1>3, <1>4, <1>5, <1>6 DEF WebUi

\* What an MCP session begins.
LEMMA SessionBegins == ASSUME TypeOK, NEW o \in Ops, Session(o) PROVE Begins(o)
<1>1. "mcp" \in Surfaces /\ (record # NoRecord => record \in Records)
  BY DEF Surfaces, TypeOK, Maybe
<1>2. CASE SessionGenerate(o)
  <2>1. PICK s \in Sensitivities :
          record = NoRecord /\ Begin(o, "mcp", "write", NewRecord(o, "literal", s, FALSE), FALSE)
    BY <1>2 DEF SessionGenerate
  <2>2. QED
    BY <1>1, <2>1, BirthBegins DEF Kinds
<1>3. CASE SessionSet(o) /\ record = NoRecord
  BY <1>1, <1>3, BirthBegins DEF SessionSet, Kinds, Sensitivities
<1>4. CASE SessionSet(o) /\ record # NoRecord
  BY <1>1, <1>4, Relabelled, ReplacementBegins DEF SessionSet
<1>5. CASE "mcp" \in regime.editors /\ SessionEdit(o)
  BY <1>1, <1>5, EditBegins DEF SessionEdit
<1>6. CASE SessionDelete(o)
  BY <1>1, <1>6, RemovalBegins DEF SessionDelete
<1>7. CASE SessionReveal(o)
  <2>1. scope \in Scopes
    BY AdminAssumption DEF TypeOK
  <2>2. PICK project \in Projects \union {Global} :
          Reaches(project) /\ Decide(RevealRequest("mcp", project), scope) = "allow"
    BY <1>7 DEF SessionReveal
  <2>3. (Decide(RevealRequest("mcp", project), scope) = "confirm") = FALSE
    BY <2>2
  <2>4. QED
    BY <1>1, <1>7, <2>1, <2>2, <2>3, DeliveryBegins DEF SessionReveal
<1>8. QED
  BY <1>2, <1>3, <1>4, <1>5, <1>6, <1>7 DEF Session

\* Beginning keeps the invariant.
LEMMA BeginIInv == ASSUME IInv, NEW o \in Ops, Begins(o) PROVE IInv'
<1>1. PICK f \in Surfaces, what \in Effects,
           new \in Maybe(Records), gated \in BOOLEAN :
        Begin(o, f, what, new, gated) /\ Sound(o, f, what, new, gated)
  BY DEF Begins
<1> USE DEF IInv, Begin, parameters, Vault
<1>2. TypeOK'
  BY <1>1 DEF TypeOK, Maybe
<1>3. PendingDeliveries'
  BY <1>1 DEF TypeOK, PendingDeliveries, UnderWay, MayBeHandedTo, Sound
<1>4. PendingUses'
  BY <1>1 DEF TypeOK, PendingUses, UnderWay, Sound
<1>5. AgentContext' /\ HumanScreens' /\ HighKeysAreUsedAttended'
  BY <1>1 DEF AgentContext, HumanScreens, HighKeysAreUsedAttended
<1>6. QED
  BY <1>2, <1>3, <1>4, <1>5

\* A confirmation, or the end of a write, hands nothing out.
LEMMA ConfirmIInv ==
  ASSUME IInv, NEW o \in Ops, Approve(o) \/ Refuse(o) \/ Log(o) \/ GoUnlogged(o)
  PROVE  IInv'
<1> USE DEF IInv, Approve, Refuse, Log, GoUnlogged, Ends, parameters, Vault
<1>1. TypeOK'
  BY DEF TypeOK, Maybe, Effects, Surfaces
<1>2. PendingDeliveries'
  BY DEF TypeOK, PendingDeliveries, UnderWay, MayBeHandedTo
<1>3. PendingUses'
  BY DEF TypeOK, PendingUses, UnderWay
<1>4. AgentContext' /\ HumanScreens' /\ HighKeysAreUsedAttended'
  BY DEF AgentContext, HumanScreens, HighKeysAreUsedAttended
<1>5. QED
  BY <1>1, <1>2, <1>3, <1>4

LEMMA EffectIInv ==
  ASSUME IInv, NEW o \in Ops, Write(o) \/ Remove(o) \/ Deliver(o) \/ Use(o)
  PROVE  IInv'
<1> USE DEF IInv, Finish, Ends, parameters, Vault
<1>1. PendingDeliveries' /\ PendingUses'
  BY DEF TypeOK, PendingDeliveries, PendingUses, UnderWay, MayBeHandedTo, Write, Remove,
         Deliver, Use, Effects, Surfaces
<1>2. CASE Write(o)
  <2>1. GuardedIn(draft[o]) \subseteq Values
    BY DEF TypeOK, Maybe, Records, GuardedIn
  <2>2. TypeOK'
    BY <1>2, <2>1 DEF Write, TypeOK, Maybe
  <2>3. AgentContext' /\ HumanScreens' /\ HighKeysAreUsedAttended'
    BY <1>2 DEF Write, AgentContext, HumanScreens, HighKeysAreUsedAttended
  <2>4. QED
    BY <1>1, <2>2, <2>3
<1>3. CASE Remove(o)
  BY <1>1, <1>3 DEF Remove, TypeOK, Maybe, Effects, Surfaces, AgentContext, HumanScreens,
                    HighKeysAreUsedAttended
<1>4. CASE Deliver(o)
  <2> DEFINE d == [face |-> face[o], record |-> seen[o], attended |-> o \in approved]
  <2>1. /\ seen[o] \in Records
        /\ MayBeHandedTo(face[o], seen[o], o \in approved)
    BY <1>4 DEF Deliver, PendingDeliveries, UnderWay
  <2>2. d \in [face : Surfaces, record : Records, attended : BOOLEAN]
    BY <2>1 DEF TypeOK
  <2>3. TypeOK'
    BY <1>4, <2>2 DEF Deliver, TypeOK, Maybe, Effects, Surfaces
  <2>4. /\ d.face = face[o]
        /\ d.record = seen[o]
        /\ o \in approved => d.attended
    OBVIOUS
  <2>5. /\ delivered' = delivered \union {d} /\ used' = used
        /\ environment' = environment /\ scope' = scope /\ Vault' = Vault
    BY <1>4 DEF Deliver
  <2> HIDE DEF d
  <2>6. AgentContext' /\ HumanScreens' /\ HighKeysAreUsedAttended'
    <3> HIDE DEF Vault
    <3>1. QED
      BY <2>1, <2>4, <2>5 DEF AgentContext, HumanScreens, HighKeysAreUsedAttended, MayBeHandedTo
  <2>7. QED
    BY <1>1, <2>3, <2>6
<1>5. CASE Use(o)
  <2> DEFINE u == [record |-> seen[o], attended |-> o \in approved]
  <2>1. /\ seen[o] \in Records
        /\ seen[o].sensitivity = "high" => o \in approved
    BY <1>5 DEF Use, PendingUses, UnderWay
  <2>2. u \in [record : Records, attended : BOOLEAN]
    BY <2>1
  <2>3. TypeOK'
    BY <1>5, <2>2 DEF Use, TypeOK, Maybe, Effects, Surfaces
  <2>4. u.record = seen[o] /\ (o \in approved => u.attended)
    OBVIOUS
  <2>5. used' = used \union {u} /\ delivered' = delivered
        /\ environment' = environment /\ scope' = scope /\ Vault' = Vault
    BY <1>5 DEF Use
  <2> HIDE DEF u
  <2>6. AgentContext' /\ HumanScreens' /\ HighKeysAreUsedAttended'
    BY <2>1, <2>4, <2>5 DEF AgentContext, HumanScreens, HighKeysAreUsedAttended
  <2>7. QED
    BY <1>1, <2>3, <2>6
<1>6. QED
  BY <1>2, <1>3, <1>4, <1>5

LEMMA NextIInv == IInv /\ [Next]_vars => IInv'
<1> SUFFICES ASSUME IInv, [Next]_vars PROVE IInv'
  OBVIOUS
<1>1. TypeOK
  BY DEF IInv
<1>2. ASSUME NEW o \in Ops, Cli(o) \/ WebUi(o) \/ Session(o)
      PROVE  IInv'
  BY <1>1, <1>2, CliBegins, WebUiBegins, SessionBegins, BeginIInv
<1>3. ASSUME NEW o \in Ops,
             \/ Approve(o) \/ Refuse(o) \/ Log(o) \/ GoUnlogged(o)
             \/ Write(o) \/ Remove(o) \/ Deliver(o) \/ Use(o)
      PROVE  IInv'
  BY <1>3, ConfirmIInv, EffectIInv
<1>4. CASE UNCHANGED vars
  BY <1>4 DEF vars, parameters, Vault, IInv, TypeOK, PendingDeliveries, PendingUses, UnderWay,
              MayBeHandedTo, AgentContext, HumanScreens, HighKeysAreUsedAttended
<1>5. QED
  BY <1>2, <1>3, <1>4 DEF Next, Finished

\* Every reachable state is well formed, whatever the operations and scopes.
THEOREM AdminTypeCorrect == Spec => []TypeOK
<1>1. Spec => []IInv
  BY InitIInv, NextIInv, PTL DEF Spec
<1>2. IInv => TypeOK
  BY DEF IInv
<1>3. QED
  BY <1>1, <1>2, PTL

\* No sequence of operations, on any faces and however interleaved, hands an
\* agent a value of prod, of an environment that its scope leaves out, a critical
\* one, one that is not marked revealable, or one of a project that its scope does
\* not address; a global value only if the scope addresses some project.
THEOREM AgentContextIsClean == Spec => []AgentContext
<1>1. Spec => []IInv
  BY InitIInv, NextIInv, PTL DEF Spec
<1>2. IInv => AgentContext
  BY DEF IInv
<1>3. QED
  BY <1>1, <1>2, PTL

\* Nor does any show a person an inject-only value, a high one in the browser,
\* or a high or prod one on the terminal without an approval.
THEOREM HumanScreensAreGated == Spec => []HumanScreens
<1>1. Spec => []IInv
  BY InitIInv, NextIInv, PTL DEF Spec
<1>2. IInv => HumanScreens
  BY DEF IInv
<1>3. QED
  BY <1>1, <1>2, PTL

\* Nor is a high key or seed ever used without an approval.
THEOREM HighKeysAreGated == Spec => []HighKeysAreUsedAttended
<1>1. Spec => []IInv
  BY InitIInv, NextIInv, PTL DEF Spec
<1>2. IInv => HighKeysAreUsedAttended
  BY DEF IInv
<1>3. QED
  BY <1>1, <1>2, PTL

-----------------------------------------------------------------------------
(* Operations that do not overlap.                                          *)

Busy(o) == UnderWay(o) \/ pc[o] = "written"

\* The one operation under way has read the record as it stands.
OneAtATime ==
  \A o \in Ops : Busy(o) =>
    /\ UnderWay(o) => seen[o] = record
    /\ \A p \in Ops \ {o} : ~Busy(p)

\* What is told lowered a record; what lowered one is told, or still to be told, or
\* its operation went without.
Traces ==
  \A o \in Ops :
    /\ o \in audited => o \in dropped /\ pc[o] = "done"
    /\ o \in dropped => \/ pc[o] \in {"written", "gone"}
                        \/ pc[o] = "done" /\ o \in audited
    /\ pc[o] = "written" => (o \in dropped <=> effect[o] = "write" /\ Lowered(o))

LInv == TypeOK /\ OneAtATime /\ Traces

\* Each kind of step keeps operations apart and the log in line.
LEMMA BeginLInv ==
  ASSUME regime.alone, LInv, NEW o \in Ops, Begins(o)
  PROVE  OneAtATime' /\ Traces'
<1>1. PICK f \in Surfaces, what \in Effects, new \in Maybe(Records), gated \in BOOLEAN :
        Begin(o, f, what, new, gated)
  BY DEF Begins
<1>2. OneAtATime'
  BY <1>1 DEF LInv, Begin, OneAtATime, Busy, UnderWay, TypeOK
<1>3. Traces'
  BY <1>1 DEF LInv, Begin, Traces, Lowered, TypeOK
<1>4. QED
  BY <1>2, <1>3

LEMMA ConfirmLInv ==
  ASSUME LInv, NEW o \in Ops, Approve(o) \/ Refuse(o)
  PROVE  OneAtATime' /\ Traces'
<1> USE DEF LInv, Approve, Refuse, Ends, TypeOK
<1>1. OneAtATime'
  BY DEF OneAtATime, Busy, UnderWay
<1>2. Traces'
  BY DEF Traces, Lowered
<1>3. QED
  BY <1>1, <1>2

LEMMA WriteLInv ==
  ASSUME LInv, NEW o \in Ops, Write(o)
  PROVE  OneAtATime' /\ Traces'
<1>1. /\ seen[o] = record
      /\ \A p \in Ops \ {o} : ~Busy(p)
  BY DEF LInv, Write, OneAtATime, Busy, UnderWay
<1>2. OneAtATime'
  BY <1>1 DEF LInv, TypeOK, Write, OneAtATime, Busy, UnderWay
<1>3. o \in dropped' <=> effect[o] = "write" /\ Lowered(o)
  <2>1. o \notin dropped
    BY DEF LInv, Write, Traces
  <2>2. QED
    BY <1>1, <2>1 DEF Write, Lowered
<1>4. /\ \A p \in Ops \ {o} : (p \in dropped' <=> p \in dropped) /\ pc'[p] = pc[p]
      /\ pc'[o] = "written" /\ audited' = audited
      /\ o \notin audited
      /\ effect' = effect /\ Lowered(o)' = Lowered(o)
      /\ \A p \in Ops : Lowered(p)' = Lowered(p)
  BY DEF LInv, TypeOK, Write, Traces, Lowered
<1>5. Traces'
  BY <1>3, <1>4 DEF LInv, Traces
<1>6. QED
  BY <1>2, <1>5

LEMMA EndLInv ==
  ASSUME LInv, NEW o \in Ops,
         Log(o) \/ GoUnlogged(o) \/ Remove(o) \/ Deliver(o) \/ Use(o)
  PROVE  OneAtATime' /\ Traces'
<1> USE DEF LInv, Log, GoUnlogged, Remove, Deliver, Use, Finish, Ends, TypeOK
<1>1. OneAtATime'
  BY DEF OneAtATime, Busy, UnderWay
<1>2. Traces'
  BY DEF Traces, Lowered
<1>3. QED
  BY <1>1, <1>2

LEMMA NextLInv ==
  ASSUME regime.alone, LInv, [Next]_vars
  PROVE  OneAtATime' /\ Traces'
<1>1. ASSUME NEW o \in Ops, Cli(o) \/ WebUi(o) \/ Session(o)
      PROVE  OneAtATime' /\ Traces'
  BY <1>1, CliBegins, WebUiBegins, SessionBegins, BeginLInv DEF LInv
<1>2. ASSUME NEW o \in Ops,
             \/ Approve(o) \/ Refuse(o) \/ Log(o) \/ GoUnlogged(o)
             \/ Write(o) \/ Remove(o) \/ Deliver(o) \/ Use(o)
      PROVE  OneAtATime' /\ Traces'
  BY <1>2, ConfirmLInv, WriteLInv, EndLInv
<1>3. UNCHANGED vars => OneAtATime' /\ Traces'
  BY DEF LInv, vars, OneAtATime, Busy, UnderWay, Traces, Lowered
<1>4. QED
  BY <1>1, <1>2, <1>3 DEF Next, Finished

-----------------------------------------------------------------------------
(* And no agent that edits.                                                 *)

\* A write under way stores its own value or the one it read, and lowers a
\* critical record only if it waits for an approval or has it; an import, only if
\* what it brings is not high.
GatedWrites ==
  \A o \in Ops : UnderWay(o) /\ effect[o] \in {"write", "import"} =>
    /\ draft[o] \in Records
    /\ effect[o] = "write" =>
         draft[o].value = o \/ (seen[o] # NoRecord /\ draft[o].value = seen[o].value)
    /\ effect[o] = "import" => regime.importing
    /\ seen[o] # NoRecord
         /\ DowngradeRequiresConfirmation(seen[o].sensitivity, draft[o].sensitivity) =>
         \/ pc[o] = "confirming" \/ o \in approved
         \/ effect[o] = "import" /\ draft[o].sensitivity # "high"

\* A removal that the browser has under way takes a critical record only if it
\* waits for an approval or has it.
GatedRemovals ==
  \A o \in Ops : UnderWay(o) /\ effect[o] = "remove" /\ face[o] = "webui" =>
    (DeleteRequiresConfirmation(seen[o].sensitivity) => pc[o] = "confirming" \/ o \in approved)

\* An operation's own value is in the vault, or guarded, only once it is written.
OwnValues ==
  \A o \in Ops : (o \in guarded \/ (record # NoRecord /\ record.value = o)) =>
    pc[o] \in {"written", "done", "gone"}

\* A guarded value is stored as critical.
GuardedIsCritical ==
  record # NoRecord /\ record.value \in guarded => record.sensitivity \in Critical

\* What holds of the values if nothing is imported.
ValuesKept == OwnValues /\ GuardedIsCritical

SInv ==
  /\ IInv
  /\ OneAtATime
  /\ GatedWrites
  /\ GatedRemovals
  /\ ~regime.importing => ValuesKept

LEMMA InitSInv == Init => SInv /\ Traces
<1> SUFFICES ASSUME Init PROVE SInv /\ Traces
  OBVIOUS
<1>1. IInv
  BY InitIInv
<1>2. OneAtATime /\ GatedWrites /\ GatedRemovals /\ Traces
  BY DEF Init, OneAtATime, GatedWrites, GatedRemovals, Traces, Busy, UnderWay
<1>3. OwnValues /\ GuardedIsCritical
  BY AdminAssumption DEF Init, OwnValues, GuardedIsCritical, GuardedIn, Maybe
<1>4. QED
  BY <1>1, <1>2, <1>3 DEF SInv, ValuesKept

\* Beginning an operation, alone.
LEMMA BeginSInv ==
  ASSUME Attended, SInv, IInv', OneAtATime', NEW o \in Ops, Begins(o)
  PROVE  SInv'
<1>1. PICK f \in Surfaces, what \in Effects, new \in Maybe(Records), gated \in BOOLEAN :
        Begin(o, f, what, new, gated) /\ Sound(o, f, what, new, gated)
  BY DEF Begins
<1> USE DEF SInv, Begin, parameters, Attended
<1>2. TypeOK
  BY DEF IInv
<1>3. GatedWrites'
  BY <1>1, <1>2 DEF GatedWrites, UnderWay, TypeOK, Sound
<1>4. GatedRemovals'
  BY <1>1, <1>2 DEF GatedRemovals, UnderWay, TypeOK, Sound
<1>5. ValuesKept => ValuesKept'
  BY <1>1, <1>2 DEF ValuesKept, OwnValues, GuardedIsCritical, TypeOK
<1>6. QED
  BY <1>1, <1>3, <1>4, <1>5

\* A confirmation, or the end of a write.
LEMMA ConfirmSInv ==
  ASSUME SInv, IInv', OneAtATime', NEW o \in Ops,
         Approve(o) \/ Refuse(o) \/ Log(o) \/ GoUnlogged(o)
  PROVE  SInv'
<1> USE DEF SInv, Approve, Refuse, Log, GoUnlogged, Ends, parameters
<1>1. TypeOK
  BY DEF IInv
<1>2. GatedWrites' /\ GatedRemovals'
  BY <1>1 DEF GatedWrites, GatedRemovals, UnderWay, TypeOK
<1>3. ValuesKept => ValuesKept'
  BY <1>1 DEF ValuesKept, OwnValues, GuardedIsCritical, TypeOK
<1>4. QED
  BY <1>2, <1>3

\* The effect of the one operation under way.
LEMMA EffectSInv ==
  ASSUME SInv, IInv', OneAtATime', NEW o \in Ops, Write(o) \/ Remove(o) \/ Deliver(o) \/ Use(o)
  PROVE  SInv'
<1> USE DEF SInv, Finish, Ends, parameters
<1>1. /\ TypeOK
      /\ \A p \in Ops : ~UnderWay(p)'
      /\ \A p \in Ops : pc[p] \in {"written", "done", "gone"} => pc'[p] = pc[p]
      /\ pc'[o] \in {"written", "done"}
      /\ regime' = regime
  BY DEF IInv, TypeOK, OneAtATime, Busy, UnderWay, Write, Remove, Deliver, Use
<1>2. GatedWrites' /\ GatedRemovals'
  BY <1>1 DEF GatedWrites, GatedRemovals
<1>3. CASE Write(o)
  <2> SUFFICES ASSUME ~regime.importing, ValuesKept PROVE ValuesKept'
    BY <1>1, <1>2
  <2>1. /\ seen[o] = record
        /\ draft[o] \in Records
        /\ effect[o] = "write"
        /\ draft[o].value = o \/ (record # NoRecord /\ draft[o].value = record.value)
        /\ record # NoRecord
             /\ DowngradeRequiresConfirmation(record.sensitivity, draft[o].sensitivity) =>
             o \in approved
    BY <1>3 DEF Write, OneAtATime, GatedWrites, Busy, UnderWay
  <2>2. \A v \in guarded' : v \in guarded \/ v = draft[o].value
    BY <1>3 DEF Write, GuardedIn
  <2>3. record' = draft[o]
    BY <1>3 DEF Write
  <2>4. OwnValues'
    BY <1>1, <2>1, <2>2, <2>3 DEF ValuesKept, OwnValues
  <2>5. GuardedIsCritical'
    <3> SUFFICES ASSUME draft[o].value \in guarded', draft[o].sensitivity \notin Critical
                 PROVE  FALSE
      BY <2>3 DEF GuardedIsCritical
    <3>1. draft[o].value \in guarded /\ o \notin approved
      BY <1>3 DEF Write, GuardedIn
    <3>2. o \notin guarded
      BY <1>3 DEF Write, ValuesKept, OwnValues
    <3>3. record # NoRecord /\ record.sensitivity \in Critical
      BY <2>1, <3>1, <3>2 DEF ValuesKept, GuardedIsCritical
    <3>4. IsDowngrade(record.sensitivity, draft[o].sensitivity)
      BY <2>1, <3>3 DEF IsDowngrade, Rank, Critical, Records, Sensitivities
    <3>5. QED
      BY <2>1, <3>1, <3>3, <3>4 DEF DowngradeRequiresConfirmation
  <2>6. QED
    BY <2>4, <2>5 DEF ValuesKept
<1>4. CASE Remove(o) \/ Deliver(o) \/ Use(o)
  <2>1. ValuesKept => ValuesKept'
    BY <1>1, <1>4 DEF Remove, Deliver, Use, ValuesKept, OwnValues, GuardedIsCritical
  <2>2. QED
    BY <1>1, <1>2, <2>1
<1>5. QED
  BY <1>3, <1>4

LEMMA NextSInv ==
  ASSUME Attended, SInv, OneAtATime', [Next]_vars
  PROVE  SInv'
<1>1. TypeOK /\ IInv'
  BY NextIInv DEF SInv, IInv
<1>2. ASSUME NEW o \in Ops, Cli(o) \/ WebUi(o) \/ Session(o)
      PROVE  SInv'
  BY <1>1, <1>2, CliBegins, WebUiBegins, SessionBegins, BeginSInv
<1>3. ASSUME NEW o \in Ops,
             \/ Approve(o) \/ Refuse(o) \/ Log(o) \/ GoUnlogged(o)
             \/ Write(o) \/ Remove(o) \/ Deliver(o) \/ Use(o)
      PROVE  SInv'
  BY <1>1, <1>3, ConfirmSInv, EffectSInv
<1>4. CASE UNCHANGED vars
  BY <1>1, <1>4 DEF vars, parameters, SInv, GatedWrites, GatedRemovals, ValuesKept, OwnValues,
                    GuardedIsCritical, UnderWay
<1>5. QED
  BY <1>2, <1>3, <1>4 DEF Next, Finished

\* The regime stays what it was.
LEMMA RegimeStays == ASSUME TypeOK, [Next]_vars PROVE regime' = regime
<1>1. ASSUME NEW o \in Ops, Cli(o) \/ WebUi(o) \/ Session(o)
      PROVE  regime' = regime
  <2>1. Begins(o)
    BY <1>1, CliBegins, WebUiBegins, SessionBegins
  <2>2. QED
    BY <2>1 DEF Begins, Begin, parameters
<1>2. ASSUME NEW o \in Ops,
             \/ Approve(o) \/ Refuse(o) \/ Log(o) \/ GoUnlogged(o)
             \/ Write(o) \/ Remove(o) \/ Deliver(o) \/ Use(o)
      PROVE  regime' = regime
  BY <1>2 DEF Approve, Refuse, Log, GoUnlogged, Write, Remove, Deliver, Use, Finish, Ends,
              parameters
<1>3. UNCHANGED vars => regime' = regime
  BY DEF vars, parameters
<1>4. QED
  BY <1>1, <1>2, <1>3 DEF Next, Finished

\* Each invariant where it applies.
AInv == IInv /\ (regime.alone => OneAtATime /\ Traces) /\ (Attended => SInv)

LEMMA InitAInv == Init => AInv
  BY InitIInv, InitSInv DEF AInv, SInv

LEMMA NextAInv == AInv /\ [Next]_vars => AInv'
<1> SUFFICES ASSUME AInv, [Next]_vars PROVE AInv'
  OBVIOUS
<1>1. IInv' /\ TypeOK
  BY NextIInv DEF AInv, IInv
<1>2. regime' = regime /\ Attended' = Attended
  BY <1>1, RegimeStays DEF Attended
<1>3. regime.alone => OneAtATime' /\ Traces'
  BY <1>1, NextLInv DEF AInv, LInv
<1>4. Attended => SInv'
  BY <1>3, NextSInv DEF AInv, Attended
<1>5. QED
  BY <1>1, <1>2, <1>3, <1>4 DEF AInv

\* The record changes, and a value is handed out, only by the effect of an
\* operation.
LEMMA EffectOnly ==
  ASSUME TypeOK, [Next]_vars,
         record' # record \/ delivered' # delivered
  PROVE  \E o \in Ops : Write(o) \/ Remove(o) \/ Deliver(o)
<1>1. ASSUME NEW o \in Ops, Cli(o) \/ WebUi(o) \/ Session(o)
      PROVE  UNCHANGED <<record, delivered>>
  <2>1. Begins(o)
    BY <1>1, CliBegins, WebUiBegins, SessionBegins
  <2>2. QED
    BY <2>1 DEF Begins, Begin
<1>2. ASSUME NEW o \in Ops, Approve(o) \/ Refuse(o) \/ Log(o) \/ GoUnlogged(o) \/ Use(o)
      PROVE  UNCHANGED <<record, delivered>>
  BY <1>2 DEF Approve, Refuse, Log, GoUnlogged, Use
<1>3. UNCHANGED vars => UNCHANGED <<record, delivered>>
  BY DEF vars
<1>4. QED
  BY <1>1, <1>2, <1>3 DEF Next, Finished

\* If operations do not overlap and the agent's session does not edit, a
\* critical record is lowered only by an operation approved on that record, or by
\* a forced import of something that is not high.
THEOREM LoweringIsApproved == Spec => CriticalLoweredOnlyByApproval
<1>1. AInv /\ [Next]_vars => AInv'
  BY NextAInv
<1> DEFINE Step ==
      (/\ Attended
       /\ record # NoRecord /\ record' # NoRecord
       /\ DowngradeRequiresConfirmation(record.sensitivity, record'.sensitivity)) =>
         \E o \in Ops : /\ pc[o] = "acting" /\ pc'[o] = "written"
                        /\ seen[o] = record
                        /\ o \in approved
                             \/ (effect[o] = "import" /\ record'.sensitivity # "high")
<1>2. ASSUME Attended, SInv, [Next]_vars, record # NoRecord, record' # NoRecord,
             DowngradeRequiresConfirmation(record.sensitivity, record'.sensitivity)
      PROVE  \E o \in Ops : /\ pc[o] = "acting" /\ pc'[o] = "written"
                            /\ seen[o] = record
                            /\ o \in approved
                                 \/ (effect[o] = "import" /\ record'.sensitivity # "high")
  <2>1. record' # record
    <3>1. Rank(record.sensitivity) \in Nat
      BY DEF Rank
    <3>2. QED
      BY <1>2, <3>1 DEF DowngradeRequiresConfirmation, IsDowngrade
  <2>2. PICK o \in Ops : Write(o)
    BY <1>2, <2>1, EffectOnly DEF Remove, Deliver, SInv, IInv
  <2>3. /\ pc[o] = "acting" /\ pc'[o] = "written"
        /\ seen[o] = record /\ record' = draft[o] /\ effect[o] \in {"write", "import"}
    BY <1>2, <2>2 DEF Write, SInv, IInv, TypeOK, OneAtATime, Busy, UnderWay
  <2>4. o \in approved \/ (effect[o] = "import" /\ draft[o].sensitivity # "high")
    BY <1>2, <2>3 DEF SInv, GatedWrites, UnderWay
  <2>5. QED
    BY <2>3, <2>4
<1>3. AInv /\ [Next]_vars => [Step]_vars
  BY <1>2 DEF AInv
<1>4. QED
  BY <1>1, <1>3, InitAInv, PTL DEF Spec, CriticalLoweredOnlyByApproval

\* If operations do not overlap and the agent's session does not edit, the browser
\* deletes a critical record only by an operation approved on that record.
THEOREM BrowserDeletionIsApproved == Spec => BrowserDeletesByApproval
<1>1. AInv /\ [Next]_vars => AInv'
  BY NextAInv
<1>2. ASSUME Attended, SInv, NEW o \in Ops, pc[o] = "acting",
             face[o] = "webui", effect[o] = "remove",
             DeleteRequiresConfirmation(record.sensitivity)
      PROVE  o \in approved /\ seen[o] = record
  BY <1>2 DEF SInv, OneAtATime, GatedRemovals, Busy, UnderWay
<1>3. AInv /\ [Next]_vars =>
        [\A o \in Ops :
           (/\ Attended
            /\ pc[o] = "acting" /\ pc'[o] = "done"
            /\ face[o] = "webui" /\ effect[o] = "remove"
            /\ record # NoRecord /\ DeleteRequiresConfirmation(record.sensitivity)) =>
             o \in approved /\ seen[o] = record]_vars
  BY <1>2 DEF AInv
<1>4. QED
  BY <1>1, <1>3, InitAInv, PTL DEF Spec, BrowserDeletesByApproval

\* If operations do not overlap, whoever edits or imports: what the log tells as a
\* downgrade was one, and each one that an operation other than an import made is
\* told when it returns, unless the event got lost between the write and the log.
THEOREM DowngradesLeaveATrace == Spec => []DowngradesAreAudited
<1>1. AInv => DowngradesAreAudited
  BY DEF AInv, IInv, TypeOK, Traces, DowngradesAreAudited
<1>2. QED
  BY <1>1, InitAInv, NextAInv, PTL DEF Spec

\* If operations do not overlap, only people edit and nothing is imported, a value
\* that was ever stored as critical reaches an agent or a browser only after an
\* approved operation lowered it.
THEOREM GuardedValuesStayIn == Spec => GuardedStaysIn
<1>1. AInv /\ [Next]_vars => AInv'
  BY NextAInv
<1> DEFINE Step ==
      Attended /\ ~regime.importing => \A d \in delivered' \ delivered :
        d.face \in {"mcp", "webui"} => d.record.value \notin guarded
<1>2. ASSUME Attended, ~regime.importing, SInv, [Next]_vars, NEW d \in delivered' \ delivered,
             d.face \in {"mcp", "webui"}
      PROVE  d.record.value \notin guarded
  <2>1. PICK o \in Ops : Deliver(o)
    BY <1>2, EffectOnly DEF Write, Remove, SInv, IInv
  <2>2. /\ d.face = face[o] /\ d.record = seen[o]
        /\ seen[o] = record /\ seen[o] \in Records \ {NoRecord}
        /\ MayBeHandedTo(face[o], seen[o], o \in approved)
    BY <1>2, <2>1 DEF Deliver, Finish, SInv, IInv, TypeOK, OneAtATime, PendingDeliveries, Busy,
                      UnderWay
  <2>3. record.sensitivity \notin Critical
    BY <1>2, <2>2 DEF MayBeHandedTo, Critical
  <2>4. QED
    BY <1>2, <2>2, <2>3 DEF SInv, ValuesKept, GuardedIsCritical
<1>3. AInv /\ [Next]_vars => [Step]_vars
  BY <1>2 DEF AInv
<1>4. QED
  BY <1>1, <1>3, InitAInv, PTL DEF Spec, GuardedStaysIn

-----------------------------------------------------------------------------
(* Where nobody asks.                                                       *)

Lowers(o) ==
  /\ effect[o] \in {"write", "import"}
  /\ DowngradeRequiresConfirmation(seen[o].sensitivity, draft[o].sensitivity)

\* An operation that goes on unapproved although what it read is critical is a
\* removal outside the browser, an edit by a session, or a forced import of
\* something that is not high.
OnlyTheseGoUnasked ==
  \A o \in Ops : pc[o] = "acting" /\ seen[o] # NoRecord /\ o \notin approved =>
    /\ effect[o] = "remove" /\ DeleteRequiresConfirmation(seen[o].sensitivity) =>
         face[o] \in {"cli", "mcp"}
    /\ Lowers(o) =>
         \/ effect[o] = "write" /\ face[o] = "mcp" /\ "mcp" \in regime.editors
         \/ /\ effect[o] = "import" /\ face[o] = "cli"
            /\ regime.importing /\ draft[o].sensitivity # "high"

\* A write under way that lowers what it read was approved, waits for it, is a
\* session's, or imports something that is not high.
LoweringWrites ==
  \A o \in Ops : UnderWay(o) /\ seen[o] # NoRecord /\ Lowers(o) =>
    \/ pc[o] = "confirming" \/ o \in approved
    \/ effect[o] = "write" /\ face[o] = "mcp" /\ "mcp" \in regime.editors
    \/ /\ effect[o] = "import" /\ face[o] = "cli"
       /\ regime.importing /\ draft[o].sensitivity # "high"

UInv == TypeOK /\ LoweringWrites /\ GatedRemovals

LEMMA NextUInv == UInv /\ [Next]_vars /\ TypeOK' => UInv'
<1> SUFFICES ASSUME UInv, [Next]_vars, TypeOK' PROVE LoweringWrites' /\ GatedRemovals'
  BY DEF UInv
<1> USE DEF UInv
<1>1. ASSUME NEW o \in Ops, Begins(o) PROVE LoweringWrites' /\ GatedRemovals'
  <2>1. PICK f \in Surfaces, what \in Effects, new \in Maybe(Records), gated \in BOOLEAN :
          Begin(o, f, what, new, gated) /\ Sound(o, f, what, new, gated)
    BY <1>1 DEF Begins
  <2>2. LoweringWrites'
    BY <2>1 DEF LoweringWrites, Lowers, UnderWay, TypeOK, Begin, parameters, Sound
  <2>3. GatedRemovals'
    BY <2>1 DEF GatedRemovals, UnderWay, TypeOK, Begin, parameters, Sound
  <2>4. QED
    BY <2>2, <2>3
<1>2. ASSUME NEW o \in Ops, Approve(o) \/ Refuse(o) \/ Log(o) \/ GoUnlogged(o)
      PROVE  LoweringWrites' /\ GatedRemovals'
  BY <1>2 DEF Approve, Refuse, Log, GoUnlogged, Ends, parameters, LoweringWrites, Lowers,
              GatedRemovals, UnderWay, TypeOK
<1>3. ASSUME NEW o \in Ops, Write(o) \/ Remove(o) \/ Deliver(o) \/ Use(o)
      PROVE  LoweringWrites' /\ GatedRemovals'
  BY <1>3 DEF Write, Remove, Deliver, Use, Finish, Ends, parameters, LoweringWrites, Lowers,
              GatedRemovals, UnderWay, TypeOK
<1>4. UNCHANGED vars => LoweringWrites' /\ GatedRemovals'
  BY DEF vars, parameters, LoweringWrites, Lowers, GatedRemovals, UnderWay
<1>5. QED
  BY <1>1, <1>2, <1>3, <1>4, CliBegins, WebUiBegins, SessionBegins DEF Next, Finished

\* Whoever does what, and however the operations overlap: a critical record that
\* was read is removed unasked only by `kovra rm` or a session, and lowered unasked
\* only by a session that edits or by an import with --force of an entry that is
\* not high.  `kovra edit` and the browser always ask.
THEOREM PeopleAreAsked == Spec => []OnlyTheseGoUnasked
<1>1. Init => UInv
  BY InitIInv DEF IInv, Init, UInv, LoweringWrites, GatedRemovals, UnderWay
<1>2. UInv => OnlyTheseGoUnasked
  BY DEF UInv, TypeOK, LoweringWrites, GatedRemovals, UnderWay, OnlyTheseGoUnasked, Surfaces
<1>3. QED
  BY <1>1, <1>2, NextUInv, AdminTypeCorrect, PTL DEF Spec
=============================================================================
