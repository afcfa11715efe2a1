-------------------------------- MODULE Launch ------------------------------
(***************************************************************************)
(* One launch of a child process with secrets in its environment:          *)
(* resolve (core/src/resolver.rs), Wrapper::run (wrapper/src/wrapper.rs)   *)
(* and the session's inject_run (ffi-python/src/session.rs).               *)
(*                                                                         *)
(* The variables of the .env.refs contract are resolved one after the      *)
(* other.  Meanwhile other processes change the vault, so that what a read *)
(* finds is any record of Stock, or none, whatever an earlier read of the  *)
(* same coordinate found; and the provider rotates what its references     *)
(* stand for.  Then come the two gates, and the child.                     *)
(***************************************************************************)
EXTENDS Policy, Sequences

CONSTANTS
  Contracts,             \* the .env.refs files
  Names,                 \* the component/key part of a coordinate
  Stock,                 \* the records the vaults may hold
  References,            \* URIs a provider materializes
  MaxRotations,          \* bound on the changes of the provider's values
  SessionScopes,         \* the capabilities the MCP session may have
  None

Kinds == {"literal", "reference", "keypair", "public-only keypair", "totp"}

\* Only a record of kind "reference" uses its reference.
Records == [kind : Kinds, sensitivity : Sensitivities, reference : References]

Coordinates == [environment : Environments, name : Names]

\* The right-hand side of a variable.  A literal and a passthrough of a variable
\* of the caller's environment use nothing but `kind` and `fallback`.
Sources ==
  [kind        : {"literal", "passthrough", "uri"},
   environment : Environments \union {Placeholder},
   name        : Names,
   global      : BOOLEAN,                       \* secret://global/...
   half        : {"private", "public"},         \* unspecified means public
   fallback    : BOOLEAN]

Rotations == 0..MaxRotations

\* ResolvedVar.  `from` says what the value is; `record`, `vault` and
\* `materialized` say where it comes from.
ResolvedVars ==
  [from         : {"text", "fallback", "value", "private", "public"},
   record       : Records \union {None},
   vault        : Projects \union {Global, None},
   materialized : Rotations \union {None},
   sensitivity  : Sensitivities \union {None},
   environment  : Environments,
   coordinate   : Coordinates \union {None}]

AuditActions == {"provider invocation", "approve", "deny", "timeout", "inject"}
Events == [action : AuditActions, coordinate : Coordinates]

ASSUME LaunchAssumption ==
  /\ Contracts \subseteq Seq(Sources)
  /\ Stock \subseteq Records
  /\ MaxRotations \in Nat
  /\ SessionScopes \subseteq Scopes
  /\ None \notin Records \union Rotations \union Sensitivities \union Coordinates
  /\ None \notin Projects \union {Global}

VARIABLES
  contract, face, scope, \* the .env.refs, who launches, and what it may do
  env, project,          \* --env (or ""), the effective project (or Global)
  reviewed,              \* the program is on the executor allowlist
  pc,
  resolved,              \* the variables resolved so far, in file order
  pending,               \* the reference being materialized, as its variable
  cache,                 \* what each reference gave in this run
  rotation,              \* the provider: which of its values is current
  approved,              \* coordinates that an approved prompt listed
  audit,                 \* events of this run
  invoked,               \* history: the coordinates of each reference's calls
  child                  \* the environment of the child, once it runs

parameters == <<contract, face, scope, env, project, reviewed>>
resolution == <<resolved, pending, cache>>
vars == <<parameters, pc, resolution, rotation, approved, audit, invoked, child>>

TypeOK ==
  /\ contract \in Contracts
  /\ face \in {"cli", "mcp"}
  /\ scope \in SessionScopes
  /\ env \in Environments
  /\ project \in Projects \union {Global}
  /\ reviewed \in BOOLEAN
  /\ pc \in {"starting", "resolving", "materializing", "confirming", "launching",
             "running", "refused", "failed"}
  /\ resolved \in Seq(ResolvedVars)
  /\ pending \in ResolvedVars \union {None}
  /\ cache \in [References -> Rotations \union {None}]
  /\ rotation \in Rotations
  /\ approved \subseteq Coordinates
  /\ audit \subseteq Events
  /\ invoked \in [References -> SUBSET Coordinates]
  /\ child \in Seq(ResolvedVars) \union {None}

Init ==
  /\ contract \in Contracts
  /\ face \in {"cli", "mcp"}
  /\ scope \in SessionScopes
  /\ env \in Environments
  /\ project \in Projects \union {Global}
  /\ reviewed \in BOOLEAN
  /\ pc = "starting"
  /\ resolved = <<>>
  /\ pending = None
  /\ cache = [r \in References |-> None]
  /\ rotation = 0
  /\ approved = {}
  /\ audit = {}
  /\ invoked = [r \in References |-> {}]
  /\ child = None

-----------------------------------------------------------------------------
(* The contract.                                                            *)

\* with_env: only a placeholder takes the environment of the run.
EnvironmentOf(source) ==
  IF source.environment = Placeholder THEN env ELSE source.environment

CoordinateOf(source) == [environment |-> EnvironmentOf(source), name |-> source.name]

\* Mutant of AllAddressable: a placeholder is left for the resolver to check.
LiteralsAddressable ==
  \A i \in DOMAIN contract :
    contract[i].kind = "uri" /\ contract[i].environment # Placeholder =>
      Addresses(scope, contract[i].environment, project)

\* Every vault coordinate is addressable, under the project of the run.
AllAddressable ==
  \A i \in DOMAIN contract :
    contract[i].kind = "uri" => Addresses(scope, EnvironmentOf(contract[i]), project)

\* inject_run asks the scope before anything is resolved; `kovra run` has no
\* scope to ask.
Start ==
  /\ pc = "starting"
  /\ pc' = IF face = "mcp" => Permits(scope, "inject") /\ AllAddressable
           THEN "resolving" ELSE "refused"
  /\ UNCHANGED <<parameters, resolution, rotation, approved, audit, invoked, child>>

-----------------------------------------------------------------------------
(* resolve, one variable at a time.                                         *)

Resolving == pc = "resolving" /\ Len(resolved) < Len(contract)

Current == contract[Len(resolved) + 1]

Push(variable) ==
  /\ pc' = "resolving"
  /\ resolved' = Append(resolved, variable)

\* ResolvedVar::plain: no tier, no vault.
Plain(from, environment, coordinate) ==
  [from |-> from, record |-> None, vault |-> None, materialized |-> None,
   sensitivity |-> None, environment |-> environment, coordinate |-> coordinate]

\* A variable that carries what a record protects.
Protected(from, record, vault, materialized) ==
  [from |-> from, record |-> record, vault |-> vault, materialized |-> materialized,
   sensitivity |-> record.sensitivity,
   environment |-> EnvironmentOf(Current), coordinate |-> CoordinateOf(Current)]

\* A literal; or a variable of the caller's environment, or its fallback.
ResolveText ==
  /\ Resolving
  /\ Current.kind \in {"literal", "passthrough"}
  /\ Push(Plain("text", env, None))
  /\ UNCHANGED <<parameters, pending, cache, rotation, approved, audit, invoked, child>>

\* Mutant of MayLookUp: the fallback is judged by the contract's own environment.
MayLookUpAsWritten ==
  /\ Resolving
  /\ Current.kind = "uri"
  /\ EnvironmentOf(Current) # ""
  /\ ~(Current.environment = "prod" /\ Current.fallback)

\* The coordinate needs an environment, and one of prod may have no fallback.
MayLookUp ==
  /\ Resolving
  /\ Current.kind = "uri"
  /\ EnvironmentOf(Current) # ""
  /\ ~(EnvironmentOf(Current) = "prod" /\ Current.fallback)

\* The project's vault first, unless the coordinate or the run names none.
Searched ==
  IF Current.global \/ project = Global THEN {Global} ELSE {project, Global}

ResolveFallback ==
  /\ MayLookUp
  /\ Current.fallback
  /\ Push(Plain("fallback", EnvironmentOf(Current), CoordinateOf(Current)))
  /\ UNCHANGED <<parameters, pending, cache, rotation, approved, audit, invoked, child>>

ResolveLiteral ==
  /\ MayLookUp
  /\ \E record \in Stock, vault \in Searched :
       /\ record.kind = "literal"
       /\ Push(Protected("value", record, vault, None))
  /\ UNCHANGED <<parameters, pending, cache, rotation, approved, audit, invoked, child>>

\* A keypair gives the half that was asked for.  The public one is not a secret,
\* and goes through as text does.
ResolveKeypair ==
  /\ MayLookUp
  /\ \E record \in Stock, vault \in Searched :
       \/ /\ Current.half = "private"
          /\ record.kind = "keypair"
          /\ Push(Protected("private", record, vault, None))
       \/ /\ Current.half = "public"
          /\ record.kind \in {"keypair", "public-only keypair"}
          /\ Push([Plain("public", EnvironmentOf(Current), None) EXCEPT !.record = record])
  /\ UNCHANGED <<parameters, pending, cache, rotation, approved, audit, invoked, child>>

\* A reference this run has seen costs no call.
ResolveCached ==
  /\ MayLookUp
  /\ \E record \in Stock, vault \in Searched :
       /\ record.kind = "reference"
       /\ cache[record.reference] # None
       /\ Push(Protected("value", record, vault, cache[record.reference]))
  /\ UNCHANGED <<parameters, pending, cache, rotation, approved, audit, invoked, child>>

\* Mutant of ResolveReference: the event is left for when the value is there.
ResolveReferenceQuietly ==
  /\ MayLookUp
  /\ \E record \in Stock, vault \in Searched :
       /\ record.kind = "reference"
       /\ cache[record.reference] = None
       /\ pending' = Protected("value", record, vault, None)
  /\ pc' = "materializing"
  /\ UNCHANGED <<parameters, resolved, cache, rotation, approved, audit, invoked, child>>

\* A new reference: the event is recorded before the provider is called.
ResolveReference ==
  /\ MayLookUp
  /\ \E record \in Stock, vault \in Searched :
       /\ record.kind = "reference"
       /\ cache[record.reference] = None
       /\ pending' = Protected("value", record, vault, None)
  /\ audit' = audit \union
       {[action |-> "provider invocation", coordinate |-> CoordinateOf(Current)]}
  /\ pc' = "materializing"
  /\ UNCHANGED <<parameters, resolved, cache, rotation, approved, invoked, child>>

\* The provider's program runs and answers with a value, or fails.
Invoke ==
  /\ pc = "materializing"
  /\ invoked' = [invoked EXCEPT ![pending.record.reference] =
                   @ \union {pending.coordinate}]
  /\ UNCHANGED <<parameters, rotation, approved, audit, child>>

\* Mutant of Materialize: nothing is kept for the next variable.
MaterializeUncached ==
  /\ Invoke
  /\ Push([pending EXCEPT !.materialized = rotation])
  /\ pending' = None
  /\ UNCHANGED cache

Materialize ==
  /\ Invoke
  /\ cache' = [cache EXCEPT ![pending.record.reference] = rotation]
  /\ Push([pending EXCEPT !.materialized = rotation])
  /\ pending' = None

ProviderFails ==
  /\ Invoke
  /\ pc' = "failed"
  /\ UNCHANGED resolution

\* No environment, a fallback in prod, nothing found and no fallback, an
\* enrollment, a private half that is not there, a file that cannot be read: the
\* run ends.  Only text with a value never fails.
ResolutionFails ==
  /\ Resolving
  /\ Current.kind = "uri" \/ (Current.kind = "passthrough" /\ ~Current.fallback)
  /\ pc' = "failed"
  /\ UNCHANGED <<parameters, resolution, rotation, approved, audit, invoked, child>>

-----------------------------------------------------------------------------
(* Wrapper::run, after the resolution.                                      *)

Ready == pc = "resolving" /\ Len(resolved) = Len(contract)

\* A fallback has a coordinate and no tier.
Tier(variable) == IF variable.sensitivity = None THEN "low" ELSE variable.sensitivity

VaultBacked == {i \in DOMAIN resolved : resolved[i].coordinate # None}

\* Mutant of AllowlistGated: an ordinary secret of prod needs no review.
AllowlistGatedIfHigh == {i \in VaultBacked : Tier(resolved[i]) = "high"}

AllowlistGated ==
  {i \in VaultBacked :
     InjectRequiresAllowlist(Tier(resolved[i]), resolved[i].environment = "prod")}

ConfirmGated == {i \in VaultBacked : InjectRequiresConfirmation(Tier(resolved[i]))}

Recorded(action, indices) ==
  audit \union {[action |-> action, coordinate |-> resolved[i].coordinate] : i \in indices}

MayReceive == AllowlistGated # {} => reviewed

\* NotAllowlisted: refused before anyone is asked.
RefuseProgram ==
  /\ Ready
  /\ ~MayReceive
  /\ audit' = Recorded("deny", AllowlistGated)
  /\ pc' = "refused"
  /\ UNCHANGED <<parameters, resolution, rotation, approved, invoked, child>>

PassGates ==
  /\ Ready
  /\ MayReceive
  /\ pc' = IF ConfirmGated # {} THEN "confirming" ELSE "launching"
  /\ UNCHANGED <<parameters, resolution, rotation, approved, audit, invoked, child>>

\* One prompt for all of them; the outcome is a broker's, see Confirmation.
Approve ==
  /\ pc = "confirming"
  /\ audit' = Recorded("approve", ConfirmGated)
  /\ approved' = {resolved[i].coordinate : i \in ConfirmGated}
  /\ pc' = "launching"
  /\ UNCHANGED <<parameters, resolution, rotation, invoked, child>>

\* Mutant of Refuse: only an explicit denial stops the run.
RefuseIfDenied ==
  /\ pc = "confirming"
  /\ \E outcome \in {"deny", "timeout"} :
       /\ audit' = Recorded(outcome, ConfirmGated)
       /\ pc' = IF outcome = "deny" THEN "refused" ELSE "launching"
  /\ UNCHANGED <<parameters, resolution, rotation, approved, invoked, child>>

\* Denied or timed out.
Refuse ==
  /\ pc = "confirming"
  /\ \E outcome \in {"deny", "timeout"} : audit' = Recorded(outcome, ConfirmGated)
  /\ pc' = "refused"
  /\ UNCHANGED <<parameters, resolution, rotation, approved, invoked, child>>

\* Each injection is recorded, and then the program is started: with success, or
\* not.
Launch ==
  /\ pc = "launching"
  /\ audit' = Recorded("inject", VaultBacked)
  /\ \/ pc' = "running" /\ child' = resolved
     \/ pc' = "failed" /\ UNCHANGED child
  /\ UNCHANGED <<parameters, resolution, rotation, approved, invoked>>

-----------------------------------------------------------------------------
\* The owner of the external secrets changes them.
Rotate ==
  /\ rotation < MaxRotations
  /\ rotation' = rotation + 1
  /\ UNCHANGED <<parameters, pc, resolution, approved, audit, invoked, child>>

Ended ==
  /\ pc \in {"running", "refused", "failed"}
  /\ UNCHANGED vars

Resolve ==
  \/ ResolveText \/ ResolveFallback \/ ResolveLiteral \/ ResolveKeypair
  \/ ResolveCached \/ ResolveReference \/ Materialize \/ ProviderFails
  \/ ResolutionFails

Next ==
  \/ Start
  \/ Resolve
  \/ RefuseProgram \/ PassGates \/ Approve \/ Refuse \/ Launch
  \/ Rotate
  \/ Ended

Spec == Init /\ [][Next]_vars

-----------------------------------------------------------------------------
\* What the child was given: `Injected(i)` is a secret out of a vault.
Injected(i) == child[i].from \in {"value", "private"}

\* "high/prod injection": the child got a high secret, the private half of a
\* high keypair or what a high reference stands for, only if somebody approved a
\* prompt that named its coordinate; and one that is high or of prod only if the
\* program was reviewed.  The tier is the one of the record the value came from.
ChildIsGated ==
  child # None => \A i \in DOMAIN child : Injected(i) =>
    /\ child[i].record.sensitivity = "high" => child[i].coordinate \in approved
    /\ child[i].record.sensitivity = "high" \/ child[i].environment = "prod" => reviewed

\* "materializing references through a provider once per distinct ref": the
\* variables of one run agree on what a reference stands for, although it was
\* rotated and the vault changed while they were resolved.
OneValuePerReference ==
  \A i, j \in DOMAIN resolved :
    (/\ resolved[i].materialized # None /\ resolved[j].materialized # None
     /\ resolved[i].record.reference = resolved[j].record.reference) =>
       resolved[i].materialized = resolved[j].materialized

\* "audit each provider invocation BEFORE the value exists": calls that fail
\* are in the log too.
InvocationsAreAudited ==
  \A r \in References : \A c \in invoked[r] :
    [action |-> "provider invocation", coordinate |-> c] \in audit

\* The log tells what the child got: each of its secrets is in it as injected, a
\* coordinate that was refused in this run is not among them.
LogTellsTheChild ==
  child # None => \A i \in DOMAIN child : Injected(i) =>
    /\ [action |-> "inject", coordinate |-> child[i].coordinate] \in audit
    /\ \A a \in {"deny", "timeout"} :
         [action |-> a, coordinate |-> child[i].coordinate] \notin audit

\* "a prod coordinate may not carry a fallback", the placeholder that became
\* prod included: the child of a run never has a made-up value for prod.
NoFallbackInProd ==
  child # None =>
    \A i \in DOMAIN child : child[i].from = "fallback" => child[i].environment # "prod"

\* An agent's child has secrets of the environments of its session only, and
\* only when the session may inject.
SessionIsContained ==
  face = "mcp" /\ child # None => \A i \in DOMAIN child : Injected(i) =>
    /\ Permits(scope, "inject")
    /\ child[i].environment \in scope.environments

\* The global vault "is addressable unless the project filter is an explicit
\* allowlist that the global is not in": what an agent's child gets lies in a
\* vault that its session addresses.
ScopeContainment ==
  face = "mcp" /\ child # None => \A i \in DOMAIN child : Injected(i) =>
    Addresses(scope, child[i].environment, child[i].vault)
=============================================================================
