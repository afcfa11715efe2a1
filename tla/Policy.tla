-------------------------------- MODULE Policy ------------------------------
(***************************************************************************)
(* The policy funnel (core/src/policy.rs), the capability of an agent's    *)
(* session (core/src/scope.rs) and the tiers (core/src/sensitivity.rs).    *)
(* Every face asks Decide and acts on its answer.                          *)
(*                                                                         *)
(* A coordinate is reduced to its environment, and the vault it lives in   *)
(* to the project's name, or Global.  The reason that comes with a denial  *)
(* only selects the wording of the answer and is left out.                 *)
(***************************************************************************)
EXTENDS Naturals

CONSTANTS
  Environments,          \* literal environments; "prod" is the one that counts
  Projects,              \* project vaults
  Global,                \* the global vault: "project = None"
  Placeholder            \* the environment of a coordinate still at ${ENV}

ASSUME PolicyAssumption ==
  /\ "prod" \in Environments
  /\ Global \notin Projects
  /\ Placeholder \notin Environments

Sensitivities == {"low", "medium", "high", "inject-only"}
Operations == {"metadata", "inject", "reveal"}
Surfaces == {"cli", "webui", "mcp"}
Origins == {"agent", "human"}
Decisions == {"allow", "confirm", "deny", "unaddressable"}

\* "critical": the tiers that need attended delivery to be viewed at all.
Critical == {"high", "inject-only"}

Requests ==
  [environment : Environments \union {Placeholder},
   project     : Projects \union {Global},
   sensitivity : Sensitivities,
   revealable  : BOOLEAN,
   operation   : Operations,
   surface     : Surfaces,
   origin      : Origins]

\* A Filter is the set of names it allows.  Filter::Any on projects lets the
\* global vault in, no explicit list does.
Scopes ==
  [operations   : SUBSET Operations,
   environments : SUBSET Environments,
   projects     : (SUBSET Projects) \union {Projects \union {Global}}]

FullScope ==
  [operations   |-> Operations,
   environments |-> Environments,
   projects     |-> Projects \union {Global}]

Permits(scope, operation) == operation \in scope.operations

Addresses(scope, environment, project) ==
  /\ environment \in scope.environments
  /\ project \in scope.projects

BirthSensitivity(environment, chosen) ==
  IF environment = "prod" THEN "high" ELSE chosen

Rank(s) ==
  IF s = "low" THEN 0 ELSE IF s = "medium" THEN 1 ELSE IF s = "high" THEN 2 ELSE 3

IsDowngrade(from, to) == Rank(to) < Rank(from)

DowngradeRequiresConfirmation(from, to) == IsDowngrade(from, to) /\ from \in Critical

DeleteRequiresConfirmation(sensitivity) == sensitivity \in Critical

InjectRequiresConfirmation(sensitivity) == sensitivity = "high"

InjectRequiresAllowlist(sensitivity, is_prod) == sensitivity = "high" \/ is_prod

\* Mutant of DecideReveal: a high secret is confirmed in prod only.
DecideRevealHighInProd(q) ==
  LET prod == q.environment = "prod"
      high == q.sensitivity = "high"
  IN  IF q.sensitivity = "inject-only" THEN "deny"
      ELSE IF q.surface = "mcp"
           THEN IF prod \/ high \/ ~q.revealable THEN "deny" ELSE "allow"
      ELSE IF q.surface = "webui"
           THEN IF high THEN "deny" ELSE "allow"
      ELSE IF prod /\ q.origin = "agent" THEN "deny"
      ELSE IF prod /\ high THEN "confirm" ELSE "allow"

\* The reveal table: plaintext into the caller's context.
DecideReveal(q) ==
  LET prod == q.environment = "prod"
      high == q.sensitivity = "high"
  IN  IF q.sensitivity = "inject-only" THEN "deny"
      ELSE IF q.surface = "mcp"
           THEN IF prod \/ high \/ ~q.revealable THEN "deny" ELSE "allow"
      ELSE IF q.surface = "webui"
           THEN IF high THEN "deny" ELSE "allow"
      ELSE IF prod /\ q.origin = "agent" THEN "deny"
      ELSE IF prod \/ high THEN "confirm" ELSE "allow"

\* The scope first: what it excludes does not exist for the caller.
Decide(q, scope) ==
  IF ~Addresses(scope, q.environment, q.project) \/ ~Permits(scope, q.operation)
  THEN "unaddressable"
  ELSE IF q.operation = "metadata" THEN "allow"
  ELSE IF q.operation = "inject"
       THEN IF InjectRequiresConfirmation(q.sensitivity) THEN "confirm" ELSE "allow"
  ELSE DecideReveal(q)
=============================================================================
