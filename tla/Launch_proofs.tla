----------------------------- MODULE Launch_proofs ---------------------------
(***************************************************************************)
(* Launch for contracts of any length, any stock of records and any number *)
(* of rotations.                                                           *)
(***************************************************************************)
EXTENDS Launch, TLAPS

\* What a variable is tells what it carries.
WellFormed(v) ==
  /\ v.from \in {"value", "private"} =>
       /\ v.record \in Records
       /\ v.sensitivity = v.record.sensitivity
       /\ v.coordinate \in Coordinates
  /\ v.from = "fallback" => v.environment # "prod"
  /\ v.materialized # None => v.record \in Records

\* An agent's variables are of the environments of its session.
InScope(v) ==
  face = "mcp" /\ v.from \in {"value", "private"} => v.environment \in scope.environments

\* What a variable got from a provider is what the cache still has.
Cached(v) == v.materialized # None => cache[v.record.reference] = v.materialized

ResolvedIsSound ==
  \A i \in DOMAIN resolved :
    WellFormed(resolved[i]) /\ InScope(resolved[i]) /\ Cached(resolved[i])

\* The variable that waits for its provider: its reference is new, its
\* invocation recorded.
PendingIsSound ==
  pc = "materializing" =>
    /\ pending \in ResolvedVars
    /\ pending.from = "value"
    /\ WellFormed(pending) /\ InScope(pending)
    /\ cache[pending.record.reference] = None
    /\ [action |-> "provider invocation", coordinate |-> pending.coordinate] \in audit

\* A session that got past its gate.
SessionAdmitted ==
  face = "mcp" /\ pc \notin {"starting", "refused"} => Permits(scope, "inject") /\ AllAddressable

\* The gates have been passed for what was resolved.
GatesHold ==
  pc \in {"confirming", "launching", "running"} =>
    /\ MayReceive
    /\ pc # "confirming" => \A i \in ConfirmGated : resolved[i].coordinate \in approved

\* A refusal in the log is the end of the run.
RefusalIsFinal ==
  \A e \in audit : e.action \in {"deny", "timeout"} => pc = "refused"

ChildIsResolved ==
  child # None =>
    /\ pc = "running"
    /\ child = resolved
    /\ \A i \in VaultBacked :
         [action |-> "inject", coordinate |-> resolved[i].coordinate] \in audit

IInv ==
  /\ TypeOK
  /\ ResolvedIsSound
  /\ PendingIsSound
  /\ SessionAdmitted
  /\ GatesHold
  /\ RefusalIsFinal
  /\ ChildIsResolved
  /\ InvocationsAreAudited
-----------------------------------------------------------------------------
LEMMA InitIInv == Init => IInv
<1> SUFFICES ASSUME Init PROVE IInv
  OBVIOUS
<1>1. TypeOK
  BY LaunchAssumption DEF Init, TypeOK, Rotations
<1>2. ResolvedIsSound /\ PendingIsSound /\ SessionAdmitted /\ GatesHold
  BY DEF Init, ResolvedIsSound, PendingIsSound, SessionAdmitted, GatesHold
<1>3. RefusalIsFinal /\ ChildIsResolved /\ InvocationsAreAudited
  BY DEF Init, RefusalIsFinal, ChildIsResolved, InvocationsAreAudited
<1>4. QED
  BY <1>1, <1>2, <1>3 DEF IInv

\* The variable being resolved is a source of the contract, and its environment
\* one of the session's.
LEMMA CurrentIsSource ==
  ASSUME IInv, MayLookUp
  PROVE  /\ Current \in Sources
         /\ EnvironmentOf(Current) \in Environments
         /\ CoordinateOf(Current) \in Coordinates
         /\ face = "mcp" => EnvironmentOf(Current) \in scope.environments
<1>1. contract \in Seq(Sources) /\ Len(resolved) + 1 \in DOMAIN contract
  <2>1. contract \in Contracts /\ resolved \in Seq(ResolvedVars) /\ Len(resolved) < Len(contract)
    BY DEF IInv, TypeOK, MayLookUp, Resolving
  <2>2. contract \in Seq(Sources)
    BY <2>1, LaunchAssumption
  <2>3. QED
    BY <2>1, <2>2
<1>2. Current \in Sources /\ Current = contract[Len(resolved) + 1]
  BY <1>1 DEF Current
<1>3. EnvironmentOf(Current) \in Environments
  BY <1>2 DEF IInv, TypeOK, EnvironmentOf, Sources
<1>4. CoordinateOf(Current) \in Coordinates
  BY <1>2, <1>3 DEF CoordinateOf, Coordinates, Sources
<1>5. face = "mcp" => EnvironmentOf(Current) \in scope.environments
  <2>1. SUFFICES ASSUME face = "mcp" PROVE EnvironmentOf(Current) \in scope.environments
    OBVIOUS
  <2>2. AllAddressable
    BY <2>1 DEF IInv, SessionAdmitted, MayLookUp, Resolving
  <2>3. Addresses(scope, EnvironmentOf(Current), project)
    BY <1>1, <1>2, <2>2 DEF AllAddressable, MayLookUp
  <2>4. QED
    BY <2>3 DEF Addresses
<1>6. QED
  BY <1>2, <1>3, <1>4, <1>5

\* Appending a sound variable keeps everything else as it was.
LEMMA PushIInv ==
  ASSUME IInv, pc \in {"resolving", "materializing"},
         NEW v \in ResolvedVars, Push(v),
         WellFormed(v), InScope(v),
         v.materialized # None => cache'[v.record.reference] = v.materialized,
         \A r \in References : cache[r] # None => cache'[r] = cache[r],
         cache' \in [References -> Rotations \union {None}],
         pending' \in ResolvedVars \union {None},
         InvocationsAreAudited',
         UNCHANGED <<parameters, rotation, approved, audit, child>>,
         invoked' \in [References -> SUBSET Coordinates]
  PROVE  IInv'
<1>1. resolved' \in Seq(ResolvedVars) /\ resolved \in Seq(ResolvedVars)
  BY DEF IInv, TypeOK, Push
<1>2. TypeOK'
  BY <1>1 DEF IInv, TypeOK, Push, parameters
<1>3. ResolvedIsSound'
  <2>1. SUFFICES ASSUME NEW i \in DOMAIN resolved'
                 PROVE  (WellFormed(resolved[i]) /\ InScope(resolved[i]) /\ Cached(resolved[i]))'
    BY DEF ResolvedIsSound
  <2>2. CASE i \in DOMAIN resolved
    <3>1. resolved'[i] = resolved[i] /\ resolved[i] \in ResolvedVars
      BY <1>1, <2>2 DEF Push
    <3>2. WellFormed(resolved[i]) /\ InScope(resolved[i]) /\ Cached(resolved[i])
      BY <2>2 DEF IInv, ResolvedIsSound
    <3>3. resolved[i].materialized # None => resolved[i].record.reference \in References
      BY <3>2 DEF WellFormed, Records
    <3>4. WellFormed(resolved[i])' /\ InScope(resolved[i])'
      BY <3>1, <3>2 DEF WellFormed, InScope, parameters
    <3>5. Cached(resolved[i])'
      BY <3>1, <3>2, <3>3 DEF Cached
    <3>6. QED
      BY <3>4, <3>5
  <2>3. CASE i \notin DOMAIN resolved
    <3>1. resolved'[i] = v
      BY <1>1, <2>1, <2>3 DEF Push
    <3>2. WellFormed(resolved[i])' /\ InScope(resolved[i])'
      BY <3>1 DEF WellFormed, InScope, parameters
    <3>3. Cached(resolved[i])'
      BY <3>1 DEF Cached
    <3>4. QED
      BY <3>2, <3>3
  <2>4. QED
    BY <2>2, <2>3
<1>4. PendingIsSound' /\ GatesHold'
  BY DEF Push, PendingIsSound, GatesHold
<1>5. SessionAdmitted'
  BY DEF IInv, SessionAdmitted, Push, parameters, AllAddressable, EnvironmentOf
<1>6. RefusalIsFinal' /\ ChildIsResolved'
  BY DEF IInv, RefusalIsFinal, ChildIsResolved, Push
<1>7. QED
  BY <1>2, <1>3, <1>4, <1>5, <1>6 DEF IInv

\* Each way to resolve a variable without the provider.
LEMMA ResolveTextIInv == ASSUME IInv, ResolveText PROVE IInv'
<1> DEFINE v == Plain("text", env, None)
<1>1. v \in ResolvedVars /\ WellFormed(v) /\ InScope(v)
  BY DEF IInv, TypeOK, Plain, ResolvedVars, WellFormed, InScope
<1>2. v.materialized = None
  BY DEF Plain
<1>3. Push(v) /\ pc = "resolving"
  BY DEF ResolveText, Resolving
<1>4. InvocationsAreAudited'
  BY DEF IInv, InvocationsAreAudited, ResolveText
<1>5. QED
  BY <1>1, <1>2, <1>3, <1>4, PushIInv DEF IInv, TypeOK, ResolveText

LEMMA ResolveFallbackIInv == ASSUME IInv, ResolveFallback PROVE IInv'
<1> DEFINE v == Plain("fallback", EnvironmentOf(Current), CoordinateOf(Current))
<1>1. v \in ResolvedVars /\ WellFormed(v) /\ InScope(v)
  BY CurrentIsSource
  DEF ResolveFallback, MayLookUp, Plain, ResolvedVars, WellFormed, InScope
<1>2. v.materialized = None
  BY DEF Plain
<1>3. Push(v) /\ pc = "resolving"
  BY DEF ResolveFallback, MayLookUp, Resolving
<1>4. InvocationsAreAudited'
  BY DEF IInv, InvocationsAreAudited, ResolveFallback
<1>5. QED
  BY <1>1, <1>2, <1>3, <1>4, PushIInv DEF IInv, TypeOK, ResolveFallback

\* A protected variable is sound, wherever its record was found.
LEMMA ProtectedIsSound ==
  ASSUME IInv, MayLookUp, NEW record \in Stock, NEW vault \in Searched,
         NEW from \in {"value", "private"}, NEW m \in Rotations \union {None}
  PROVE  LET v == Protected(from, record, vault, m)
         IN  /\ v \in ResolvedVars
             /\ WellFormed(v) /\ InScope(v)
             /\ v.record = record /\ v.materialized = m /\ v.from = from
             /\ v.coordinate = CoordinateOf(Current)
<1>1. record \in Records /\ record.sensitivity \in Sensitivities
  BY LaunchAssumption DEF Records
<1>2. vault \in Projects \union {Global}
  BY DEF IInv, TypeOK, Searched
<1>3. QED
  BY <1>1, <1>2, CurrentIsSource DEF Protected, ResolvedVars, WellFormed, InScope

LEMMA ResolveLiteralIInv == ASSUME IInv, ResolveLiteral PROVE IInv'
<1>1. MayLookUp /\ pc = "resolving"
  BY DEF ResolveLiteral, MayLookUp, Resolving
<1>2. PICK record \in Stock, vault \in Searched : Push(Protected("value", record, vault, None))
  BY DEF ResolveLiteral
<1> DEFINE v == Protected("value", record, vault, None)
<1>3. v \in ResolvedVars /\ WellFormed(v) /\ InScope(v) /\ v.materialized = None
  BY <1>1, ProtectedIsSound
<1>4. InvocationsAreAudited'
  BY DEF IInv, InvocationsAreAudited, ResolveLiteral
<1>5. QED
  BY <1>1, <1>2, <1>3, <1>4, PushIInv DEF IInv, TypeOK, ResolveLiteral

LEMMA ResolveKeypairIInv == ASSUME IInv, ResolveKeypair PROVE IInv'
<1>1. MayLookUp /\ pc = "resolving"
  BY DEF ResolveKeypair, MayLookUp, Resolving
<1>2. InvocationsAreAudited'
  BY DEF IInv, InvocationsAreAudited, ResolveKeypair
<1>3. PICK record \in Stock, vault \in Searched :
        \/ Push(Protected("private", record, vault, None))
        \/ Push([Plain("public", EnvironmentOf(Current), None) EXCEPT !.record = record])
  BY DEF ResolveKeypair
<1>4. CASE Push(Protected("private", record, vault, None))
  <2> DEFINE v == Protected("private", record, vault, None)
  <2>1. v \in ResolvedVars /\ WellFormed(v) /\ InScope(v) /\ v.materialized = None
    BY <1>1, ProtectedIsSound
  <2>2. QED
    BY <1>1, <1>2, <1>4, <2>1, PushIInv DEF IInv, TypeOK, ResolveKeypair
<1>5. CASE Push([Plain("public", EnvironmentOf(Current), None) EXCEPT !.record = record])
  <2> DEFINE v == [Plain("public", EnvironmentOf(Current), None) EXCEPT !.record = record]
  <2>1. v \in ResolvedVars /\ WellFormed(v) /\ InScope(v) /\ v.materialized = None
    BY <1>1, CurrentIsSource, LaunchAssumption DEF Plain, ResolvedVars, WellFormed, InScope
  <2>2. QED
    BY <1>1, <1>2, <1>5, <2>1, PushIInv DEF IInv, TypeOK, ResolveKeypair
<1>6. QED
  BY <1>3, <1>4, <1>5

LEMMA ResolveCachedIInv == ASSUME IInv, ResolveCached PROVE IInv'
<1>1. MayLookUp /\ pc = "resolving"
  BY DEF ResolveCached, MayLookUp, Resolving
<1>2. PICK record \in Stock, vault \in Searched :
        Push(Protected("value", record, vault, cache[record.reference]))
  BY DEF ResolveCached
<1> DEFINE m == cache[record.reference]
           v == Protected("value", record, vault, m)
<1>3. m \in Rotations \union {None}
  BY LaunchAssumption DEF IInv, TypeOK, Records
<1>4. v \in ResolvedVars /\ WellFormed(v) /\ InScope(v) /\ v.record = record /\ v.materialized = m
  BY <1>1, <1>3, ProtectedIsSound
<1>5. InvocationsAreAudited'
  BY DEF IInv, InvocationsAreAudited, ResolveCached
<1>6. QED
  BY <1>1, <1>2, <1>4, <1>5, PushIInv DEF IInv, TypeOK, ResolveCached

\* The invocation is recorded, and the variable waits.
LEMMA ResolveReferenceIInv == ASSUME IInv, ResolveReference PROVE IInv'
<1>1. MayLookUp /\ pc = "resolving" /\ pc' = "materializing"
  BY DEF ResolveReference, MayLookUp, Resolving
<1> DEFINE e == [action |-> "provider invocation", coordinate |-> CoordinateOf(Current)]
<1>2. audit' = audit \union {e} /\ e \in Events /\ e.action \notin {"deny", "timeout"}
  BY <1>1, CurrentIsSource DEF ResolveReference, Events, AuditActions
<1>3. PICK record \in Stock, vault \in Searched :
        /\ cache[record.reference] = None
        /\ pending' = Protected("value", record, vault, None)
  BY DEF ResolveReference
<1> DEFINE v == Protected("value", record, vault, None)
<1>4. /\ v \in ResolvedVars /\ WellFormed(v) /\ InScope(v)
      /\ v.record = record /\ v.from = "value" /\ v.coordinate = CoordinateOf(Current)
  BY <1>1, ProtectedIsSound
<1>5. TypeOK'
  BY <1>2, <1>3, <1>4 DEF IInv, TypeOK, ResolveReference, parameters
<1>6. ResolvedIsSound'
  BY DEF IInv, ResolvedIsSound, WellFormed, InScope, Cached, ResolveReference, parameters
<1>7. PendingIsSound'
  <2>1. WellFormed(pending)' /\ InScope(pending)'
    BY <1>3, <1>4 DEF WellFormed, InScope, ResolveReference, parameters
  <2>2. QED
    BY <1>2, <1>3, <1>4, <2>1 DEF PendingIsSound, ResolveReference
<1>8. SessionAdmitted' /\ GatesHold'
  BY <1>1 DEF IInv, SessionAdmitted, GatesHold, ResolveReference, parameters,
              AllAddressable, EnvironmentOf
<1>9. RefusalIsFinal'
  BY <1>1, <1>2 DEF IInv, RefusalIsFinal
<1>10. ChildIsResolved'
  BY <1>1 DEF IInv, ChildIsResolved, ResolveReference
<1>11. InvocationsAreAudited'
  BY <1>2 DEF IInv, InvocationsAreAudited, ResolveReference
<1>12. QED
  BY <1>5, <1>6, <1>7, <1>8, <1>9, <1>10, <1>11 DEF IInv

\* A call of the provider, whatever comes of it, has been recorded.
LEMMA InvokeIsAudited ==
  ASSUME IInv, Invoke
  PROVE  /\ pending.record.reference \in References
         /\ invoked' \in [References -> SUBSET Coordinates]
         /\ InvocationsAreAudited'
<1>1. /\ pending \in ResolvedVars /\ WellFormed(pending) /\ pending.from = "value"
      /\ [action |-> "provider invocation", coordinate |-> pending.coordinate] \in audit
  BY DEF IInv, PendingIsSound, Invoke
<1>2. pending.record.reference \in References /\ pending.coordinate \in Coordinates
  BY <1>1 DEF WellFormed, Records
<1>3. invoked' \in [References -> SUBSET Coordinates]
  BY <1>2 DEF IInv, TypeOK, Invoke
<1>4. InvocationsAreAudited'
  BY <1>1, <1>2 DEF IInv, TypeOK, InvocationsAreAudited, Invoke
<1>5. QED
  BY <1>2, <1>3, <1>4

LEMMA MaterializeIInv == ASSUME IInv, Materialize PROVE IInv'
<1> DEFINE v == [pending EXCEPT !.materialized = rotation]
           r == pending.record.reference
<1>1. pc = "materializing" /\ Invoke /\ Push(v)
  BY DEF Materialize, Invoke
<1>2. r \in References /\ invoked' \in [References -> SUBSET Coordinates] /\ InvocationsAreAudited'
  BY <1>1, InvokeIsAudited
<1>3. pending \in ResolvedVars /\ WellFormed(pending) /\ InScope(pending)
      /\ pending.from = "value" /\ cache[r] = None
  BY <1>1 DEF IInv, PendingIsSound
<1>4. v \in ResolvedVars /\ WellFormed(v) /\ InScope(v)
  BY <1>3 DEF IInv, TypeOK, ResolvedVars, WellFormed, InScope
<1>5. v.record = pending.record /\ v.materialized = rotation
  BY <1>3 DEF ResolvedVars
<1>6. cache' \in [References -> Rotations \union {None}]
      /\ cache'[r] = rotation
      /\ \A q \in References : cache[q] # None => cache'[q] = cache[q]
  BY <1>2, <1>3 DEF IInv, TypeOK, Materialize
<1>7. v.materialized # None => cache'[v.record.reference] = v.materialized
  BY <1>5, <1>6
<1>8. pending' \in ResolvedVars \union {None}
      /\ UNCHANGED <<parameters, rotation, approved, audit, child>>
  BY DEF Materialize, Invoke
<1>9. QED
  BY <1>1, <1>2, <1>4, <1>6, <1>7, <1>8, PushIInv

\* The steps that leave the resolved variables and the cache alone and end the
\* run, or turn the provider's clock, or let the session in.
LEMMA StartIInv == ASSUME IInv, Start PROVE IInv'
<1> USE DEF IInv, Start
<1>1. TypeOK'
  BY DEF TypeOK, parameters, resolution
<1>2. ResolvedIsSound'
  BY DEF ResolvedIsSound, WellFormed, InScope, Cached, parameters, resolution
<1>3. PendingIsSound' /\ GatesHold'
  BY DEF PendingIsSound, GatesHold
<1>4. SessionAdmitted'
  BY DEF SessionAdmitted, AllAddressable, EnvironmentOf, parameters
<1>5. RefusalIsFinal' /\ ChildIsResolved' /\ InvocationsAreAudited'
  BY DEF RefusalIsFinal, ChildIsResolved, InvocationsAreAudited
<1>6. QED
  BY <1>1, <1>2, <1>3, <1>4, <1>5

LEMMA FailIInv == ASSUME IInv, ProviderFails \/ ResolutionFails PROVE IInv'
<1>1. /\ pc \in {"materializing", "resolving"} /\ pc' = "failed"
      /\ UNCHANGED <<parameters, resolution, rotation, approved, audit, child>>
  BY DEF ProviderFails, ResolutionFails, Invoke, Resolving
<1>2. invoked' \in [References -> SUBSET Coordinates] /\ InvocationsAreAudited'
  <2>1. CASE ProviderFails
    BY <2>1, InvokeIsAudited DEF ProviderFails
  <2>2. CASE ResolutionFails
    BY <2>2 DEF IInv, TypeOK, InvocationsAreAudited, ResolutionFails
  <2>3. QED
    BY <2>1, <2>2
<1>3. TypeOK'
  BY <1>1, <1>2 DEF IInv, TypeOK, parameters, resolution
<1>4. ResolvedIsSound'
  BY <1>1 DEF IInv, ResolvedIsSound, WellFormed, InScope, Cached, parameters, resolution
<1>5. PendingIsSound' /\ GatesHold'
  BY <1>1 DEF PendingIsSound, GatesHold
<1>6. SessionAdmitted'
  BY <1>1 DEF IInv, SessionAdmitted, AllAddressable, EnvironmentOf, parameters
<1>7. RefusalIsFinal' /\ ChildIsResolved'
  BY <1>1 DEF IInv, RefusalIsFinal, ChildIsResolved
<1>8. QED
  BY <1>2, <1>3, <1>4, <1>5, <1>6, <1>7 DEF IInv

LEMMA RotateIInv == ASSUME IInv, Rotate PROVE IInv'
<1>1. TypeOK'
  BY LaunchAssumption DEF IInv, TypeOK, Rotate, Rotations, parameters, resolution
<1>2. ResolvedIsSound' /\ PendingIsSound'
  BY DEF IInv, ResolvedIsSound, PendingIsSound, WellFormed, InScope, Cached, Rotate,
         parameters, resolution
<1>3. SessionAdmitted'
  BY DEF IInv, SessionAdmitted, AllAddressable, EnvironmentOf, Rotate, parameters
<1>4. GatesHold'
  BY DEF IInv, GatesHold, MayReceive, AllowlistGated, ConfirmGated, VaultBacked, Tier,
         Rotate, parameters, resolution
<1>5. RefusalIsFinal' /\ ChildIsResolved' /\ InvocationsAreAudited'
  BY DEF IInv, RefusalIsFinal, ChildIsResolved, InvocationsAreAudited, VaultBacked,
         Rotate, resolution
<1>6. QED
  BY <1>1, <1>2, <1>3, <1>4, <1>5 DEF IInv
-----------------------------------------------------------------------------
\* An event recorded for each of some vault-backed variables.
LEMMA RecordedEvents ==
  ASSUME IInv, NEW action \in AuditActions, NEW S \in SUBSET VaultBacked
  PROVE  /\ Recorded(action, S) \subseteq Events
         /\ audit \subseteq Recorded(action, S)
         /\ \A e \in Recorded(action, S) : e \in audit \/ e.action = action
         /\ \A i \in S : /\ resolved[i].coordinate \in Coordinates
                        /\ [action |-> action, coordinate |-> resolved[i].coordinate]
                             \in Recorded(action, S)
<1>1. \A i \in S : resolved[i].coordinate \in Coordinates
  <2>1. SUFFICES ASSUME NEW i \in S PROVE resolved[i].coordinate \in Coordinates
    OBVIOUS
  <2>2. i \in DOMAIN resolved /\ resolved[i].coordinate # None
    BY DEF VaultBacked
  <2>3. resolved[i] \in ResolvedVars
    BY <2>2 DEF IInv, TypeOK
  <2>4. QED
    BY <2>2, <2>3 DEF ResolvedVars
<1>2. QED
  BY <1>1 DEF Recorded, Events, IInv, TypeOK

\* The steps after the resolution change neither the variables nor the cache.
LEMMA AfterResolution ==
  ASSUME IInv, UNCHANGED <<parameters, resolution, rotation, invoked>>,
         pc \notin {"starting", "refused"}, pc' # "materializing",
         audit \subseteq audit', audit' \subseteq Events, approved' \subseteq Coordinates,
         pc' \in {"confirming", "launching", "running", "refused", "failed"},
         child' \in Seq(ResolvedVars) \union {None}
  PROVE  TypeOK' /\ ResolvedIsSound' /\ PendingIsSound' /\ SessionAdmitted' /\ InvocationsAreAudited'
<1>1. TypeOK'
  BY DEF IInv, TypeOK, parameters, resolution
<1>2. ResolvedIsSound'
  BY DEF IInv, ResolvedIsSound, WellFormed, InScope, Cached, parameters, resolution
<1>3. PendingIsSound'
  BY DEF PendingIsSound
<1>4. SessionAdmitted'
  BY DEF IInv, SessionAdmitted, AllAddressable, EnvironmentOf, parameters
<1>5. InvocationsAreAudited'
  BY DEF IInv, InvocationsAreAudited
<1>6. QED
  BY <1>1, <1>2, <1>3, <1>4, <1>5

\* The gated variables are vault-backed, and stay the same while the run does
\* not resolve.
LEMMA GatedAreVaultBacked ==
  AllowlistGated \subseteq VaultBacked /\ ConfirmGated \subseteq VaultBacked
  BY DEF AllowlistGated, ConfirmGated

LEMMA GatedStay ==
  ASSUME resolved' = resolved
  PROVE  VaultBacked' = VaultBacked /\ AllowlistGated' = AllowlistGated /\ ConfirmGated' = ConfirmGated
  BY DEF VaultBacked, AllowlistGated, ConfirmGated, Tier

LEMMA RefusalIInv == ASSUME IInv, RefuseProgram \/ Refuse PROVE IInv'
<1>1. /\ pc \in {"resolving", "confirming"} /\ pc' = "refused"
      /\ UNCHANGED <<parameters, resolution, rotation, approved, invoked, child>>
  BY DEF RefuseProgram, Refuse, Ready
<1>2. audit \subseteq audit' /\ audit' \subseteq Events
  BY RecordedEvents, GatedAreVaultBacked DEF RefuseProgram, Refuse, AuditActions
<1>3. TypeOK' /\ ResolvedIsSound' /\ PendingIsSound' /\ SessionAdmitted' /\ InvocationsAreAudited'
  BY <1>1, <1>2, AfterResolution DEF IInv, TypeOK
<1>4. GatesHold' /\ RefusalIsFinal'
  BY <1>1 DEF GatesHold, RefusalIsFinal
<1>5. ChildIsResolved'
  BY <1>1 DEF IInv, ChildIsResolved
<1>6. QED
  BY <1>3, <1>4, <1>5 DEF IInv

LEMMA PassGatesIInv == ASSUME IInv, PassGates PROVE IInv'
<1>1. /\ pc = "resolving" /\ pc' \in {"confirming", "launching"}
      /\ UNCHANGED <<parameters, resolution, rotation, approved, audit, invoked, child>>
  BY DEF PassGates, Ready
<1>2. TypeOK' /\ ResolvedIsSound' /\ PendingIsSound' /\ SessionAdmitted' /\ InvocationsAreAudited'
  BY <1>1, AfterResolution DEF IInv, TypeOK
<1>3. GatesHold'
  BY <1>1, GatedStay DEF PassGates, GatesHold, MayReceive, parameters, resolution
<1>4. RefusalIsFinal' /\ ChildIsResolved'
  BY <1>1 DEF IInv, RefusalIsFinal, ChildIsResolved
<1>5. QED
  BY <1>2, <1>3, <1>4 DEF IInv

LEMMA ApproveIInv == ASSUME IInv, Approve PROVE IInv'
<1>1. /\ pc = "confirming" /\ pc' = "launching"
      /\ UNCHANGED <<parameters, resolution, rotation, invoked, child>>
  BY DEF Approve
<1>2. /\ audit \subseteq audit' /\ audit' \subseteq Events /\ approved' \subseteq Coordinates
      /\ \A e \in audit' : e \in audit \/ e.action = "approve"
  <2>1. ConfirmGated \in SUBSET VaultBacked /\ "approve" \in AuditActions
    BY GatedAreVaultBacked DEF AuditActions
  <2>2. audit' = Recorded("approve", ConfirmGated)
        /\ approved' = {resolved[i].coordinate : i \in ConfirmGated}
    BY DEF Approve
  <2>3. \A i \in ConfirmGated : resolved[i].coordinate \in Coordinates
    BY <2>1, RecordedEvents
  <2>4. QED
    BY <2>1, <2>2, <2>3, RecordedEvents
<1>3. TypeOK' /\ ResolvedIsSound' /\ PendingIsSound' /\ SessionAdmitted' /\ InvocationsAreAudited'
  BY <1>1, <1>2, AfterResolution DEF IInv, TypeOK
<1>4. GatesHold'
  BY <1>1, GatedStay DEF IInv, Approve, GatesHold, MayReceive, parameters, resolution
<1>5. RefusalIsFinal' /\ ChildIsResolved'
  BY <1>1, <1>2 DEF IInv, RefusalIsFinal, ChildIsResolved
<1>6. QED
  BY <1>3, <1>4, <1>5 DEF IInv

LEMMA LaunchIInv == ASSUME IInv, Launch PROVE IInv'
<1>1. /\ pc = "launching" /\ pc' \in {"running", "failed"}
      /\ UNCHANGED <<parameters, resolution, rotation, approved, invoked>>
      /\ audit' = Recorded("inject", VaultBacked)
  BY DEF Launch
<1>2. /\ audit \subseteq audit' /\ audit' \subseteq Events
      /\ \A e \in audit' : e \in audit \/ e.action = "inject"
      /\ \A i \in VaultBacked :
           [action |-> "inject", coordinate |-> resolved[i].coordinate] \in audit'
  BY <1>1, RecordedEvents DEF AuditActions
<1>3. child = None
  BY <1>1 DEF IInv, ChildIsResolved
<1>4. child' \in {None, resolved} /\ (child' # None => pc' = "running")
  BY <1>3 DEF Launch
<1>5. TypeOK' /\ ResolvedIsSound' /\ PendingIsSound' /\ SessionAdmitted' /\ InvocationsAreAudited'
  BY <1>1, <1>2, <1>4, AfterResolution DEF IInv, TypeOK
<1>6. GatesHold'
  BY <1>1, GatedStay DEF IInv, GatesHold, MayReceive, parameters, resolution
<1>7. RefusalIsFinal'
  BY <1>1, <1>2 DEF IInv, RefusalIsFinal
<1>8. ChildIsResolved'
  BY <1>1, <1>2, <1>4, GatedStay DEF ChildIsResolved, resolution
<1>9. QED
  BY <1>5, <1>6, <1>7, <1>8 DEF IInv

LEMMA StutterIInv == ASSUME IInv, UNCHANGED vars PROVE IInv'
<1> USE DEF vars, parameters, resolution
<1>1. TypeOK'
  BY DEF IInv, TypeOK
<1>2. ResolvedIsSound' /\ PendingIsSound'
  BY DEF IInv, ResolvedIsSound, PendingIsSound, WellFormed, InScope, Cached
<1>3. SessionAdmitted'
  BY DEF IInv, SessionAdmitted, AllAddressable, EnvironmentOf
<1>4. GatesHold' /\ ChildIsResolved'
  BY GatedStay DEF IInv, GatesHold, MayReceive, ChildIsResolved
<1>5. RefusalIsFinal' /\ InvocationsAreAudited'
  BY DEF IInv, RefusalIsFinal, InvocationsAreAudited
<1>6. QED
  BY <1>1, <1>2, <1>3, <1>4, <1>5 DEF IInv

LEMMA NextIInv == ASSUME IInv, [Next]_vars PROVE IInv'
<1>1. CASE Start
  BY <1>1, StartIInv
<1>2. CASE Resolve
  BY <1>2, ResolveTextIInv, ResolveFallbackIInv, ResolveLiteralIInv, ResolveKeypairIInv,
     ResolveCachedIInv, ResolveReferenceIInv, MaterializeIInv, FailIInv
  DEF Resolve
<1>3. CASE RefuseProgram \/ Refuse
  BY <1>3, RefusalIInv
<1>4. CASE PassGates
  BY <1>4, PassGatesIInv
<1>5. CASE Approve
  BY <1>5, ApproveIInv
<1>6. CASE Launch
  BY <1>6, LaunchIInv
<1>7. CASE Rotate
  BY <1>7, RotateIInv
<1>8. CASE Ended \/ UNCHANGED vars
  BY <1>8, StutterIInv DEF Ended
<1>9. QED
  BY <1>1, <1>2, <1>3, <1>4, <1>5, <1>6, <1>7, <1>8 DEF Next

THEOREM LaunchInvariant == Spec => []IInv
  BY InitIInv, NextIInv, PTL DEF Spec
-----------------------------------------------------------------------------
\* What a secret of the child says of itself.
LEMMA InjectedIsResolved ==
  ASSUME IInv, child # None, NEW i \in DOMAIN child, Injected(i)
  PROVE  /\ child = resolved /\ pc = "running" /\ i \in VaultBacked
         /\ child[i].record \in Records
         /\ Tier(resolved[i]) = child[i].record.sensitivity
         /\ face = "mcp" => child[i].environment \in scope.environments
<1>1. child = resolved /\ pc = "running" /\ i \in DOMAIN resolved
  BY DEF IInv, ChildIsResolved
<1>2. WellFormed(resolved[i]) /\ InScope(resolved[i]) /\ resolved[i].from \in {"value", "private"}
  BY <1>1 DEF IInv, ResolvedIsSound, Injected
<1>3. /\ resolved[i].record \in Records
      /\ resolved[i].sensitivity = resolved[i].record.sensitivity
      /\ resolved[i].coordinate \in Coordinates
  BY <1>2 DEF WellFormed
<1>4. i \in VaultBacked
  BY <1>1, <1>3, LaunchAssumption DEF VaultBacked
<1>5. Tier(resolved[i]) = resolved[i].record.sensitivity
  BY <1>3, LaunchAssumption DEF Tier, Records
<1>6. QED
  BY <1>1, <1>2, <1>3, <1>4, <1>5 DEF InScope

\* The types of Launch.
THEOREM LaunchTypeCorrect == Spec => []TypeOK
<1>1. IInv => TypeOK
  BY DEF IInv
<1>2. QED
  BY <1>1, LaunchInvariant, PTL

\* Wrapper::run hands a high secret only to a child that somebody approved, a
\* high or prod one only to a reviewed program, for every contract.
THEOREM LaunchIsGated == Spec => []ChildIsGated
<1>1. ASSUME IInv PROVE ChildIsGated
  <2>1. SUFFICES ASSUME child # None, NEW i \in DOMAIN child, Injected(i)
                 PROVE  /\ child[i].record.sensitivity = "high" => child[i].coordinate \in approved
                        /\ child[i].record.sensitivity = "high" \/ child[i].environment = "prod"
                             => reviewed
    BY DEF ChildIsGated
  <2>2. /\ child = resolved /\ pc = "running" /\ i \in VaultBacked
        /\ Tier(resolved[i]) = child[i].record.sensitivity
    BY <1>1, <2>1, InjectedIsResolved
  <2>3. MayReceive /\ \A j \in ConfirmGated : resolved[j].coordinate \in approved
    BY <1>1, <2>2 DEF IInv, GatesHold
  <2>4. child[i].record.sensitivity = "high" => child[i].coordinate \in approved
    BY <2>2, <2>3 DEF ConfirmGated, InjectRequiresConfirmation
  <2>5. child[i].record.sensitivity = "high" \/ child[i].environment = "prod" => reviewed
    BY <2>2, <2>3 DEF MayReceive, AllowlistGated, InjectRequiresAllowlist
  <2>6. QED
    BY <2>4, <2>5
<1>2. QED
  BY <1>1, LaunchInvariant, PTL

\* One run has one value for a reference, however often it is rotated meanwhile.
THEOREM ReferencesAgree == Spec => []OneValuePerReference
<1>1. IInv => OneValuePerReference
  BY DEF IInv, ResolvedIsSound, Cached, OneValuePerReference
<1>2. QED
  BY <1>1, LaunchInvariant, PTL

\* materialize_found records a provider's invocation before it happens.
THEOREM InvocationsAreRecorded == Spec => []InvocationsAreAudited
<1>1. IInv => InvocationsAreAudited
  BY DEF IInv
<1>2. QED
  BY <1>1, LaunchInvariant, PTL

\* The audit log of a run says of each of its child's secrets that it was
\* injected, and of none that it was refused.
THEOREM LogIsTrue == Spec => []LogTellsTheChild
<1>1. ASSUME IInv PROVE LogTellsTheChild
  <2>1. SUFFICES ASSUME child # None, NEW i \in DOMAIN child, Injected(i)
                 PROVE  /\ [action |-> "inject", coordinate |-> child[i].coordinate] \in audit
                        /\ \A a \in {"deny", "timeout"} :
                             [action |-> a, coordinate |-> child[i].coordinate] \notin audit
    BY DEF LogTellsTheChild
  <2>2. child = resolved /\ pc = "running" /\ i \in VaultBacked
    BY <1>1, <2>1, InjectedIsResolved
  <2>3. [action |-> "inject", coordinate |-> child[i].coordinate] \in audit
    BY <1>1, <2>1, <2>2 DEF IInv, ChildIsResolved
  <2>4. \A a \in {"deny", "timeout"} :
          [action |-> a, coordinate |-> child[i].coordinate] \notin audit
    BY <1>1, <2>2 DEF IInv, RefusalIsFinal
  <2>5. QED
    BY <2>3, <2>4
<1>2. QED
  BY <1>1, LaunchInvariant, PTL

\* The resolver lets no fallback stand in for a secret of prod.
THEOREM ProdHasNoFallback == Spec => []NoFallbackInProd
<1>1. IInv => NoFallbackInProd
  BY DEF IInv, ChildIsResolved, ResolvedIsSound, WellFormed, NoFallbackInProd
<1>2. QED
  BY <1>1, LaunchInvariant, PTL

\* inject_run keeps an agent's child within the environments of its session.
THEOREM SessionsAreContained == Spec => []SessionIsContained
<1>1. ASSUME IInv PROVE SessionIsContained
  <2>1. SUFFICES ASSUME face = "mcp", child # None, NEW i \in DOMAIN child, Injected(i)
                 PROVE  Permits(scope, "inject") /\ child[i].environment \in scope.environments
    BY DEF SessionIsContained
  <2>2. pc = "running" /\ child[i].environment \in scope.environments
    BY <1>1, <2>1, InjectedIsResolved
  <2>3. QED
    BY <1>1, <2>1, <2>2 DEF IInv, SessionAdmitted
<1>2. QED
  BY <1>1, LaunchInvariant, PTL
=============================================================================
