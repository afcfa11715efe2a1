--------------------------- MODULE Exchange_proofs ---------------------------
(***************************************************************************)
(* Exchange for any coordinates, packages, keys, times and bounds.         *)
(***************************************************************************)
EXTENDS Exchange, TLAPS

NoProdPackaged == \A id \in DOMAIN packages : packages[id].entries \intersect Prod = {}

FromPackages ==
  \A c \in Coordinates : vault[c] # None => vault[c].from \in DOMAIN packages \union {Nothing}

\* A running import takes its entries from one package.  Once a token was
\* verified it is that package's, and an entry is written with it or approved.
JobIsSound ==
  job.stage # "idle" =>
    /\ job.package \in DOMAIN packages
    /\ job.todo \subseteq Sealed.entries
    /\ job.stage \in {"asking", "writing"} => job.entry \in Sealed.entries
    /\ job.token \in tokens \union {Nothing}
    /\ job.source = "none" => job.token = Nothing
    /\ job.stage \notin {"gating", "opening", "verifying"} => job.token \in {Nothing, job.package}
    /\ job.approving => job.token = job.package
    /\ job.stage \in {"importing", "asking", "writing"} => job.key \in MasterKeys
    /\ job.stage = "writing" /\ job.entry \in High => job.asked \/ job.token = job.package

IInv == TypeOK /\ NoProdPackaged /\ FromPackages /\ JobIsSound /\ ImportsAreSanctioned
-----------------------------------------------------------------------------
(* Types.                                                                   *)

LEMMA UnlockedKey == ASSUME NEW mode \in Modes, Unlocks(mode) PROVE MasterKey(mode) \in MasterKeys
BY DEF Unlocks, MasterKey, MasterKeys

LEMMA CountedDown ==
  ASSUME NEW kind \in Bounded, budget \in [Bounded -> Nat], Counted(kind)
  PROVE  budget' \in [Bounded -> Nat]
BY DEF Counted

LEMMA CustodyStepTypes == ASSUME CustodyTypeOK, CustodyNext PROVE CustodyTypeOK'
<1> USE KeyCustodyAssumption DEF CustodyTypeOK, Becomes
<1>0. "commands" \in Bounded /\ Torn \notin Material /\ Absent \notin Material
  BY DEF Bounded, Torn, Material, Absent
<1>1. ASSUME NEW owner \in Owners, NEW mode \in Modes, NEW force \in BOOLEAN,
             StartInit(owner, mode, force)
      PROVE  CustodyTypeOK'
  <2>1. made' \in 0..MaxMaterial /\ made' \in Material
    BY <1>1 DEF StartInit, Material
  <2>2. Store(mode, made', force) \in Works
    BY <2>1 DEF Store, Works
  <2> QED
    BY <1>0, <1>1, <2>1, <2>2, CountedDown DEF StartInit
<1>2. ASSUME NEW owner \in Owners, PutKey(owner) PROVE CustodyTypeOK'
  <2>1. work[owner] \in Works /\ [op |-> "idle"] \in Works
    BY DEF Works
  <2>2. work[owner].material \in Material \union {Torn}
    BY <1>2, <2>1 DEF PutKey, Works
  <2>3. givenUp' \subseteq MasterKeys
    BY <1>2, UnlockedKey DEF PutKey, Replace, Modes
  <2> QED
    BY <1>2, <2>1, <2>2, <2>3 DEF PutKey
<1>3. ASSUME NEW owner \in Owners, TruncateSalt(owner) PROVE CustodyTypeOK'
  <2>1. [work[owner] EXCEPT !.op = "filling"] \in Works
    BY <1>3 DEF TruncateSalt, Works
  <2>2. givenUp' \subseteq MasterKeys
    BY <1>3, UnlockedKey DEF TruncateSalt, Replace, Modes
  <2> QED
    BY <1>3, <2>1, <2>2 DEF TruncateSalt
<1>4. ASSUME NEW owner \in Owners, FillSalt(owner) PROVE CustodyTypeOK'
  <2>1. work[owner] \in Works /\ [op |-> "idle"] \in Works
    BY DEF Works
  <2>2. work[owner].material \in Material \union {Torn}
    BY <1>4, <2>1 DEF FillSalt, Works
  <2> QED
    BY <1>4, <2>1, <2>2 DEF FillSalt
<1>5. ASSUME NEW owner \in Owners, NEW mode \in Modes, StartExport(owner, mode) PROVE CustodyTypeOK'
  <2>1. stored[mode] \in Material \union {Torn}
    BY <1>5 DEF StartExport, CanExport, Unlocks
  <2>2. [op |-> "asking", mode |-> mode, material |-> stored[mode]] \in Works
    BY <2>1 DEF Works
  <2> QED
    BY <1>0, <1>5, <2>2, CountedDown DEF StartExport
<1>6. ASSUME NEW owner \in Owners, ExportApproved(owner) PROVE CustodyTypeOK'
  <2>1. [work[owner] EXCEPT !.op = "delivering"] \in Works
    BY <1>6 DEF ExportApproved, Works
  <2> QED
    BY <1>6, <2>1 DEF ExportApproved
<1>7. ASSUME NEW owner \in Owners, Deliver(owner) PROVE CustodyTypeOK'
  <2>1. work[owner] \in Works /\ [op |-> "idle"] \in Works
    BY DEF Works
  <2>2. [mode |-> work[owner].mode, material |-> work[owner].material] \in Backups
    BY <1>7, <2>1 DEF Deliver, Works, Backups
  <2> QED
    BY <1>7, <2>1, <2>2 DEF Deliver
<1>8. ASSUME NEW owner \in Owners, NEW backup \in backups, NEW force \in BOOLEAN,
             StartRestore(owner, backup, force)
      PROVE  CustodyTypeOK'
  <2>1. Store(backup.mode, backup.material, force) \in Works
    BY DEF Store, Works, Backups
  <2> QED
    BY <1>0, <1>8, <2>1, CountedDown DEF StartRestore
<1>9. ASSUME NEW owner \in Owners, Stop(owner) PROVE CustodyTypeOK'
  <2>1. [op |-> "idle"] \in Works
    BY DEF Works
  <2> QED
    BY <1>9, <2>1 DEF Stop
<1>10. ASSUME NEW mode \in Modes, Lose(mode) PROVE CustodyTypeOK'
  BY <1>0, <1>10, CountedDown, UnlockedKey DEF Lose
<1> QED
  BY <1>1, <1>2, <1>3, <1>4, <1>5, <1>6, <1>7, <1>8, <1>9, <1>10 DEF CustodyNext

LEMMA CustodyUnchanged == ASSUME CustodyTypeOK, UNCHANGED <<budget, custody>> PROVE CustodyTypeOK'
BY DEF CustodyTypeOK, custody

LEMMA BudgetSpent ==
  ASSUME CustodyTypeOK, NEW kind \in Bounded, Counted(kind), UNCHANGED custody
  PROVE  CustodyTypeOK'
BY CountedDown DEF CustodyTypeOK, custody

LEMMA TypeInit == Init => TypeOK
<1> SUFFICES ASSUME Init PROVE TypeOK
  OBVIOUS
<1> USE KeyCustodyAssumption, ExchangeAssumption
<1>1. CustodyTypeOK
  BY DEF Init, CustodyInit, CustodyTypeOK, Works, Backups
<1>2. job \in Jobs
  BY DEF Init, NoJob, Jobs, Stages, Modes, Identities, OnDisk
<1>3. packages \in Seq(Packages) /\ Len(packages) <= MaxPackages
  BY DEF Init
<1>4. stick \in [kit : BOOLEAN, recipient : Identities, package : DOMAIN packages \union {Nothing}]
  BY DEF Init, EmptyStick, Identities, Nothing
<1> QED
  BY <1>1, <1>2, <1>3, <1>4 DEF Init, TypeOK, Identities

LEMMA PackagesAreNumbered ==
  ASSUME TypeOK PROVE DOMAIN packages = 1..Len(packages) /\ DOMAIN packages \subseteq Ids /\ Len(packages) \in Nat
BY ExchangeAssumption DEF TypeOK, Ids

LEMMA SealTypes ==
  ASSUME TypeOK, NEW to \in Identities, NEW entries \in SUBSET Coordinates, Seal(to, entries),
         stick' \in {stick, [stick EXCEPT !.package = Len(packages) + 1]}
  PROVE  TypeOK'
<1> DEFINE package == [entries |-> entries, to |-> to, expires |-> clock + Ttl]
<1>1. package \in Packages
  BY ExchangeAssumption DEF TypeOK, Packages
<1>2. packages' = Append(packages, package) /\ packages \in Seq(Packages)
  BY DEF Seal, TypeOK
<1>3. packages' \in Seq(Packages) /\ Len(packages') = Len(packages) + 1
  BY <1>1, <1>2
<1>4. Len(packages') <= MaxPackages
  BY <1>3, PackagesAreNumbered, ExchangeAssumption DEF Seal
<1>5. DOMAIN packages' = DOMAIN packages \union {Len(packages) + 1}
  BY <1>3, PackagesAreNumbered
<1>6. CustodyTypeOK'
  BY BudgetSpent DEF Seal, TypeOK, Bounded
<1>7. tokens' \subseteq DOMAIN packages' /\ tokens \subseteq tokens'
  BY <1>5 DEF Seal, TypeOK
<1>8. stick' \in [kit : BOOLEAN, recipient : Identities, package : DOMAIN packages' \union {Nothing}]
  BY <1>5 DEF TypeOK
<1> QED
  BY <1>3, <1>4, <1>6, <1>7, <1>8 DEF Seal, TypeOK

LEMMA OriginTypes == ASSUME TypeOK, Origin PROVE TypeOK'
<1>1. CASE Tick
  <2>1. CustodyTypeOK'
    BY <1>1, BudgetSpent DEF Tick, TypeOK, Bounded
  <2> QED
    BY <1>1, <2>1 DEF Tick, TypeOK
<1>2. CASE Package
  BY <1>2, SealTypes, ExchangeAssumption DEF Package, OnDisk, Identities
<1>3. CASE ExchangeSeal
  <2>1. stick.recipient \in Identities
    BY DEF TypeOK
  <2> QED
    BY <1>3, <2>1, SealTypes DEF ExchangeSeal
<1>4. CASE AskToFormat
  <2>1. CustodyTypeOK'
    BY <1>4, BudgetSpent DEF AskToFormat, Formatting, TypeOK, Bounded
  <2> QED
    BY <1>4, <2>1 DEF AskToFormat, Formatting, TypeOK
<1>5. CASE Erase
  <2>1. CustodyTypeOK'
    BY <1>5, CustodyUnchanged DEF Erase, Formatting, TypeOK
  <2>2. stick' \in [kit : BOOLEAN, recipient : Identities, package : DOMAIN packages \union {Nothing}]
    BY <1>5, ExchangeAssumption DEF Erase, EmptyStick, Identities, Nothing
  <2> QED
    BY <1>5, <2>1, <2>2 DEF Erase, Formatting, TypeOK
<1>6. CASE Bootstrap
  <2>1. CustodyTypeOK'
    BY <1>6, CustodyUnchanged DEF Bootstrap, Formatting, TypeOK
  <2> QED
    BY <1>6, <2>1 DEF Bootstrap, Formatting, TypeOK
<1>7. CASE FormatFails
  <2>1. CustodyTypeOK'
    BY <1>7, CustodyUnchanged DEF FormatFails, Formatting, TypeOK
  <2> QED
    BY <1>7, <2>1 DEF FormatFails, Formatting, TypeOK
<1> QED
  BY <1>1, <1>2, <1>3, <1>4, <1>5, <1>6, <1>7 DEF Origin

LEMMA EditTypes ==
  ASSUME TypeOK, NEW c \in Coordinates, NEW record \in Records \union {None}, Edit(c, record)
  PROVE  TypeOK'
<1>1. CustodyTypeOK'
  BY BudgetSpent DEF Edit, Local, TypeOK, Bounded
<1> QED
  BY <1>1 DEF Edit, Local, TypeOK, origin

LEMMA OthersTypes == ASSUME TypeOK, Others PROVE TypeOK'
<1>1. ASSUME NEW mode \in Modes, Keygen(mode) PROVE TypeOK'
  <2>1. CustodyTypeOK'
    BY <1>1, CustodyUnchanged DEF Keygen, Local, TypeOK
  <2>2. identities' \in Identities /\ identities' \in 1..MaxIdentities
    BY <1>1, ExchangeAssumption DEF Keygen, TypeOK, Identities
  <2>3. identity' \in Keypairs
    BY <1>1, <2>2, UnlockedKey DEF Keygen, Keypairs
  <2> QED
    BY <1>1, <2>1, <2>2, <2>3 DEF Keygen, Local, TypeOK, origin
<1>2. ASSUME NEW mode \in Modes, WriteRecipient(mode) PROVE TypeOK'
  <2>1. CustodyTypeOK'
    BY <1>2, CustodyUnchanged DEF WriteRecipient, Local, TypeOK
  <2>2. identity.identity \in Identities
    BY <1>2, ExchangeAssumption DEF WriteRecipient, Resolves, TypeOK, Keypairs, Identities
  <2> QED
    BY <1>2, <2>1, <2>2 DEF WriteRecipient, Local, TypeOK, origin
<1>3. ASSUME NEW token \in tokens, RegisterToken(token) PROVE TypeOK'
  <2>1. CustodyTypeOK'
    BY <1>3, CustodyUnchanged DEF RegisterToken, Local, TypeOK
  <2> QED
    BY <1>3, <2>1 DEF RegisterToken, Local, TypeOK, origin
<1>4. ASSUME NEW c \in Coordinates, NEW mode \in Modes, Set(c, mode) PROVE TypeOK'
  <2>1. [from |-> Nothing, token |-> Nothing, asked |-> FALSE, key |-> MasterKey(mode)] \in Records
    BY <1>4, UnlockedKey DEF Set, Records
  <2> QED
    BY <1>4, <2>1, EditTypes DEF Set
<1>5. ASSUME NEW c \in Coordinates, NEW mode \in Modes, Remove(c, mode) PROVE TypeOK'
  BY <1>5, EditTypes DEF Remove
<1> QED
  BY <1>1, <1>2, <1>3, <1>4, <1>5 DEF Others

LEMMA ImportTypes == ASSUME TypeOK, NEW next \in Jobs, Import(next) PROVE TypeOK'
<1>1. CustodyTypeOK'
  BY CustodyUnchanged DEF Import, AtDestination, TypeOK
<1> QED
  BY <1>1 DEF Import, AtDestination, TypeOK, origin

LEMMA StartTypes == ASSUME TypeOK, NEW next \in Jobs, Start(next) PROVE TypeOK'
<1>1. CustodyTypeOK'
  BY BudgetSpent DEF Start, AtDestination, TypeOK, Bounded
<1> QED
  BY <1>1 DEF Start, AtDestination, TypeOK, origin

LEMMA NoJobTypes == NoJob \in Jobs
BY ExchangeAssumption DEF NoJob, Jobs, Stages, Modes, Identities, OnDisk

\* An entry is a coordinate because the package is one that was sealed.
LEMMA ImporterTypes == ASSUME TypeOK, JobIsSound, Importer PROVE TypeOK'
<1> USE PackagesAreNumbered
<1>0. job \in Jobs
  BY DEF TypeOK
<1>1. ASSUME NEW mode \in Modes, NEW token \in tokens \union {Nothing}, NEW force \in BOOLEAN,
             NEW package \in DOMAIN packages, NEW custodied \in BOOLEAN,
             Unpack(package, custodied, mode, token, force)
      PROVE  TypeOK'
  <2> DEFINE start == IF custodied THEN VaultJob ELSE OnDiskJob
  <2>1. start \in Jobs
    <3>1. CASE custodied
      <4>1. identity.identity \in Identities
        BY <1>1, <3>1, ExchangeAssumption DEF Unpack, Resolves, TypeOK, Keypairs, Identities
      <4> QED
        BY <3>1, <4>1, NoJobTypes DEF VaultJob, Jobs, Stages
    <3>2. CASE ~custodied
      BY <3>2, NoJobTypes DEF OnDiskJob, Jobs, Stages
    <3> QED
      BY <3>1, <3>2
  <2>2. token \in Ids \union {Nothing} /\ package \in Ids
    BY DEF TypeOK
  <2>3. [start EXCEPT !.package = package, !.mode = mode, !.force = force,
                      !.source = IF token = Nothing THEN "none" ELSE "file", !.token = token] \in Jobs
    BY <2>1, <2>2 DEF Jobs
  <2> QED
    BY <1>1, <2>3, StartTypes DEF Unpack
<1>2. ASSUME NEW mode \in Modes, NEW token \in tokens \union {Nothing}, NEW force \in BOOLEAN,
             ExchangeOpen(mode, token, force)
      PROVE  TypeOK'
  <2>1. identity.identity \in Identities
    BY <1>2, ExchangeAssumption DEF ExchangeOpen, Resolves, TypeOK, Keypairs, Identities
  <2>2. VaultJob \in Jobs
    BY <2>1, NoJobTypes DEF VaultJob, Jobs, Stages
  <2>3. token \in Ids \union {Nothing} /\ stick.package \in Ids
    BY <1>2 DEF TypeOK, ExchangeOpen
  <2> DEFINE source == IF token # Nothing THEN "file" ELSE IF registered # Nothing THEN "registered" ELSE "none"
  <2>4. [VaultJob EXCEPT !.kit = TRUE, !.package = stick.package, !.mode = mode, !.force = force,
                         !.source = source, !.token = token] \in Jobs
    BY <2>2, <2>3 DEF Jobs
  <2> QED
    BY <1>2, <2>4, StartTypes DEF ExchangeOpen
<1>3. ASSUME UseKey \/ Open \/ VerifyNone PROVE TypeOK'
  BY <1>0, <1>3, ImportTypes DEF UseKey, Open, VerifyNone, Jobs, Stages
<1>4. CASE VerifyToken
  <2> DEFINE token == IF job.source = "registered" THEN registered ELSE job.token
  <2>1. token \in Ids \union {Nothing}
    BY <1>0 DEF TypeOK, Jobs
  <2>2. [job EXCEPT !.stage = "arming", !.token = token] \in Jobs
    BY <1>0, <2>1 DEF Jobs, Stages
  <2> QED
    BY <1>4, <2>2, ImportTypes DEF VerifyToken
<1>5. CASE Arm
  <2>1. MasterKey(job.mode) \in MasterKeys
    BY <1>0, <1>5, UnlockedKey DEF Arm, Jobs
  <2>2. packages[job.package] \in Packages
    BY <1>5 DEF Arm, JobIsSound, TypeOK
  <2>3. Sealed.entries \in SUBSET Coordinates
    BY <2>2 DEF Sealed, Packages
  <2> DEFINE approving == job.token # Nothing /\ Valid(job.token)
  <2>4. approving \in BOOLEAN
    BY DEF Valid
  <2> HIDE DEF approving
  <2>5. [job EXCEPT !.stage = "importing", !.key = MasterKey(job.mode), !.todo = Sealed.entries,
                    !.approving = approving] \in Jobs
    BY <1>0, <2>1, <2>3, <2>4 DEF Jobs, Stages
  <2> QED
    BY <1>5, <2>5, ImportTypes DEF Arm, approving
<1>6. ASSUME NEW c \in Coordinates, Skip(c) \/ DeniedByToken(c) PROVE TypeOK'
  <2>1. [job EXCEPT !.todo = @ \ {c}] \in Jobs
    BY <1>0 DEF Jobs
  <2> QED
    BY <1>6, <2>1, ImportTypes DEF Skip, DeniedByToken
<1>7. ASSUME NEW c \in Coordinates, TakeFree(c) \/ AskFirst(c) \/ TakeByToken(c) PROVE TypeOK'
  <2>1. \A stage \in Stages : [job EXCEPT !.stage = stage, !.todo = @ \ {c}, !.entry = c] \in Jobs
    BY <1>0 DEF Jobs
  <2>2. {"writing", "asking"} \subseteq Stages
    BY DEF Stages
  <2> QED
    BY <1>7, <2>1, <2>2, ImportTypes DEF TakeFree, AskFirst, TakeByToken, GoOn
<1>8. ASSUME Approved \/ DeniedOrTimedOut PROVE TypeOK'
  <2>1. [job EXCEPT !.stage = "writing", !.asked = TRUE] \in Jobs
    BY <1>0 DEF Jobs, Stages
  <2>2. [job EXCEPT !.stage = "importing", !.entry = None] \in Jobs
    BY <1>0 DEF Jobs, Stages
  <2> QED
    BY <1>8, <2>1, <2>2, ImportTypes DEF Approved, DeniedOrTimedOut
<1>9. CASE Write
  <2>1. CustodyTypeOK'
    BY <1>9, CustodyUnchanged DEF Write, TypeOK
  <2>2. Imported \in Records
    BY <1>0, <1>9 DEF Write, JobIsSound, Imported, Records, Jobs
  <2>3. job' \in Jobs
    BY <1>0, <1>9 DEF Write, Jobs, Stages
  <2> QED
    BY <1>9, <2>1, <2>2, <2>3 DEF Write, TypeOK, origin
<1>10. CASE Finish
  <2>1. [job EXCEPT !.stage = "consuming"] \in Jobs
    BY <1>0 DEF Jobs, Stages
  <2> QED
    BY <1>10, <2>1, NoJobTypes, ImportTypes DEF Finish
<1>11. CASE Consume
  <2>1. CustodyTypeOK'
    BY <1>11, CustodyUnchanged DEF Consume, AtDestination, TypeOK
  <2> QED
    BY <1>11, <2>1, NoJobTypes DEF Consume, AtDestination, TypeOK, origin
<1>12. CASE Fail
  BY <1>12, NoJobTypes, ImportTypes DEF Fail
<1> QED
  BY <1>1, <1>2, <1>3, <1>4, <1>5, <1>6, <1>7, <1>8, <1>9, <1>10, <1>11, <1>12 DEF Importer

-----------------------------------------------------------------------------
(* Sanctioned imports.                                                      *)

\* What sealing does for all that was sealed before.
LEMMA SealAppends ==
  ASSUME TypeOK, NEW to, NEW entries, Seal(to, entries)
  PROVE  /\ DOMAIN packages' = DOMAIN packages \union {Len(packages) + 1}
         /\ \A id \in DOMAIN packages : packages'[id] = packages[id]
         /\ packages'[Len(packages) + 1].entries = entries
         /\ tokens \subseteq tokens'
<1> DEFINE package == [entries |-> entries, to |-> to, expires |-> clock + Ttl]
<1>1. packages \in Seq(Packages) /\ packages' = Append(packages, package)
  BY DEF TypeOK, Seal
<1>2. \A id \in DOMAIN packages : packages'[id] = packages[id]
  BY <1>1
<1>3. packages'[Len(packages) + 1] = package /\ DOMAIN packages' = 1..(Len(packages) + 1)
  BY <1>1
<1>4. Len(packages) \in Nat /\ DOMAIN packages = 1..Len(packages)
  BY <1>1
<1> QED
  BY <1>2, <1>3, <1>4 DEF Seal

\* All of IInv but the types.
Sound == NoProdPackaged /\ FromPackages /\ JobIsSound /\ ImportsAreSanctioned

LEMMA SealKeeps == ASSUME TypeOK, Sound, NEW to, NEW entries, Seal(to, entries) PROVE Sound'
<1> USE SealAppends DEF Sound
<1>1. UNCHANGED <<job, vault>>
  BY DEF Seal
<1>2. NoProdPackaged'
  BY DEF NoProdPackaged, Seal, Packageable
<1>3. FromPackages'
  BY <1>1 DEF FromPackages
<1>4. JobIsSound'
  <2>1. job.stage # "idle" => Sealed' = Sealed
    BY <1>1 DEF JobIsSound, Sealed
  <2> QED
    BY <1>1, <2>1 DEF JobIsSound
<1>5. ImportsAreSanctioned'
  BY <1>1 DEF FromPackages, ImportsAreSanctioned
<1> QED
  BY <1>2, <1>3, <1>4, <1>5

LEMMA UnchangedKeeps == ASSUME Sound, UNCHANGED <<packages, tokens, job, vault>> PROVE Sound'
BY DEF Sound, NoProdPackaged, FromPackages, JobIsSound, Sealed, ImportsAreSanctioned

\* Another process leaves a record that no import wrote, or none.
LEMMA EditKeeps ==
  ASSUME TypeOK, Sound, NEW c \in Coordinates, NEW record, record = None \/ record.from = Nothing, Edit(c, record)
  PROVE  Sound'
<1>1. /\ UNCHANGED <<packages, tokens, job>>
      /\ vault \in [Coordinates -> Records \union {None}]
      /\ vault' = [vault EXCEPT ![c] = record]
  BY DEF Edit, Local, origin, TypeOK
<1>2. NoProdPackaged' /\ JobIsSound'
  BY <1>1 DEF Sound, NoProdPackaged, JobIsSound, Sealed
<1>3. FromPackages' /\ ImportsAreSanctioned'
  BY <1>1 DEF Sound, FromPackages, ImportsAreSanctioned
<1> QED
  BY <1>2, <1>3 DEF Sound

LEMMA OutsideKeeps == ASSUME TypeOK, Sound, Custodian \/ Origin \/ Others PROVE Sound'
<1>1. CASE Custodian
  BY <1>1, UnchangedKeeps DEF Custodian, origin
<1>2. CASE Package \/ ExchangeSeal
  BY <1>2, SealKeeps DEF Package, ExchangeSeal
<1>3. CASE Tick \/ AskToFormat \/ Erase \/ Bootstrap \/ FormatFails
  BY <1>3, UnchangedKeeps DEF Tick, AskToFormat, Erase, Bootstrap, FormatFails, Formatting
<1>4. ASSUME NEW mode \in Modes, Keygen(mode) \/ WriteRecipient(mode) PROVE Sound'
  BY <1>4, UnchangedKeeps DEF Keygen, WriteRecipient, Local, origin
<1>5. ASSUME NEW token \in tokens, RegisterToken(token) PROVE Sound'
  BY <1>5, UnchangedKeeps DEF RegisterToken, Local, origin
<1>6. ASSUME NEW c \in Coordinates, NEW mode \in Modes, Set(c, mode) \/ Remove(c, mode) PROVE Sound'
  BY <1>6, EditKeeps DEF Set, Remove
<1> QED
  BY <1>1, <1>2, <1>3, <1>4, <1>5, <1>6 DEF Origin, Others

\* Every step of an import but Write leaves the vault alone.
LEMMA JobStepKeeps ==
  ASSUME Sound, JobIsSound', UNCHANGED <<packages, tokens, vault>>
  PROVE  Sound'
BY DEF Sound, NoProdPackaged, FromPackages, ImportsAreSanctioned

LEMMA ImporterKeeps == ASSUME TypeOK, Sound, Importer PROVE Sound'
<1> USE PackagesAreNumbered
<1>0. job \in Jobs /\ JobIsSound
  BY DEF TypeOK, Sound
<1>a. ASSUME NEW next, Import(next) \/ Start(next) PROVE UNCHANGED <<packages, tokens, vault>> /\ job' = next
  BY <1>a DEF Import, Start, AtDestination, origin
<1>1. ASSUME NEW mode \in Modes, NEW token \in tokens \union {Nothing}, NEW force \in BOOLEAN,
             NEW package \in DOMAIN packages, NEW custodied \in BOOLEAN,
             Unpack(package, custodied, mode, token, force)
      PROVE  Sound'
  <2> DEFINE next == [IF custodied THEN VaultJob ELSE OnDiskJob
             EXCEPT !.package = package, !.mode = mode, !.force = force,
                    !.source = IF token = Nothing THEN "none" ELSE "file", !.token = token]
  <2>1. UNCHANGED <<packages, tokens, vault>> /\ job' = next
    BY <1>1, <1>a DEF Unpack
  <2>2. /\ next.stage \in {"gating", "opening"} /\ next.package = package /\ next.todo = {}
        /\ next.token = token /\ next.approving = FALSE /\ (next.source = "none" => token = Nothing)
    BY DEF VaultJob, OnDiskJob, NoJob
  <2>3. JobIsSound'
    BY <2>1, <2>2 DEF JobIsSound
  <2> QED
    BY <2>1, <2>3, JobStepKeeps
<1>2. ASSUME NEW mode \in Modes, NEW token \in tokens \union {Nothing}, NEW force \in BOOLEAN,
             ExchangeOpen(mode, token, force)
      PROVE  Sound'
  <2> DEFINE next == [VaultJob EXCEPT !.kit = TRUE, !.package = stick.package, !.mode = mode, !.force = force,
             !.source = IF token # Nothing THEN "file" ELSE IF registered # Nothing THEN "registered" ELSE "none",
             !.token = token]
  <2>1. UNCHANGED <<packages, tokens, vault>> /\ job' = next
    BY <1>2, <1>a DEF ExchangeOpen
  <2>2. /\ next.stage = "gating" /\ next.package = stick.package /\ next.todo = {}
        /\ next.token = token /\ next.approving = FALSE /\ (next.source = "none" => token = Nothing)
    BY DEF VaultJob, NoJob
  <2>3. stick.package \in DOMAIN packages
    BY <1>2 DEF ExchangeOpen, TypeOK
  <2>4. JobIsSound'
    BY <2>1, <2>2, <2>3 DEF JobIsSound
  <2> QED
    BY <2>1, <2>4, JobStepKeeps
<1>3. ASSUME UseKey \/ Open PROVE Sound'
  <2>1. JobIsSound' /\ UNCHANGED <<packages, tokens, vault>>
    BY <1>0, <1>3, <1>a DEF UseKey, Open, JobIsSound, Sealed, Jobs
  <2> QED
    BY <2>1, JobStepKeeps
<1>4. CASE VerifyNone
  <2>1. JobIsSound' /\ UNCHANGED <<packages, tokens, vault>>
    BY <1>0, <1>4, <1>a DEF VerifyNone, JobIsSound, Sealed, Jobs
  <2> QED
    BY <2>1, JobStepKeeps
<1>5. CASE VerifyToken
  <2> DEFINE token == IF job.source = "registered" THEN registered ELSE job.token
  <2>1. job' = [job EXCEPT !.stage = "arming", !.token = token] /\ UNCHANGED <<packages, tokens, vault>>
    BY <1>5, <1>a DEF VerifyToken
  <2>2. token = job.package /\ token # Nothing /\ job.source # "none" /\ job.stage = "verifying"
    BY <1>5 DEF VerifyToken, Valid
  <2>3. token \in tokens \union {Nothing}
    BY <1>0, <2>2 DEF TypeOK, JobIsSound
  <2>4. JobIsSound'
    BY <1>0, <2>1, <2>2, <2>3 DEF JobIsSound, Sealed, Jobs
  <2> QED
    BY <2>1, <2>4, JobStepKeeps
<1>6. CASE Arm
  <2> DEFINE approving == job.token # Nothing /\ Valid(job.token)
  <2>1. approving => job.token = job.package
    BY DEF Valid
  <2>2. MasterKey(job.mode) \in MasterKeys
    BY <1>0, <1>6, UnlockedKey DEF Arm, Jobs
  <2> HIDE DEF approving
  <2>3. /\ job' = [job EXCEPT !.stage = "importing", !.key = MasterKey(job.mode), !.todo = Sealed.entries,
                              !.approving = approving]
        /\ UNCHANGED <<packages, tokens, vault>>
        /\ job.stage = "arming"
    BY <1>6, <1>a DEF Arm, approving
  <2>4. JobIsSound'
    BY <1>0, <2>1, <2>2, <2>3 DEF JobIsSound, Sealed, Jobs
  <2> QED
    BY <2>3, <2>4, JobStepKeeps
<1>7. ASSUME NEW c \in Coordinates, Skip(c) \/ DeniedByToken(c) PROVE Sound'
  <2>1. job.stage = "importing" /\ job' = [job EXCEPT !.todo = @ \ {c}] /\ UNCHANGED <<packages, tokens, vault>>
    BY <1>7, <1>a DEF Skip, DeniedByToken, Looking
  <2>2. JobIsSound'
    BY <1>0, <2>1 DEF JobIsSound, Sealed, Jobs
  <2> QED
    BY <2>1, <2>2, JobStepKeeps
<1>8. ASSUME NEW c \in Coordinates, TakeFree(c) \/ AskFirst(c) \/ TakeByToken(c) PROVE Sound'
  <2>1. PICK stage \in {"writing", "asking"} :
          /\ job' = [job EXCEPT !.stage = stage, !.todo = @ \ {c}, !.entry = c]
          /\ stage = "writing" => c \notin High \/ job.approving
    BY <1>8, <1>a DEF TakeFree, AskFirst, TakeByToken, GoOn, Gated
  <2>2. /\ job.stage = "importing" /\ c \in job.todo
        /\ UNCHANGED <<packages, tokens, vault>>
    BY <1>8, <1>a DEF TakeFree, AskFirst, TakeByToken, GoOn, Looking
  <2>3. JobIsSound'
    BY <1>0, <2>1, <2>2 DEF JobIsSound, Sealed, Jobs
  <2> QED
    BY <2>2, <2>3, JobStepKeeps
<1>9. ASSUME Approved \/ DeniedOrTimedOut PROVE Sound'
  <2>1. /\ job.stage = "asking"
        /\ job' \in {[job EXCEPT !.stage = "writing", !.asked = TRUE],
                     [job EXCEPT !.stage = "importing", !.entry = None]}
        /\ UNCHANGED <<packages, tokens, vault>>
    BY <1>9, <1>a DEF Approved, DeniedOrTimedOut
  <2>2. JobIsSound'
    <3>1. CASE job' = [job EXCEPT !.stage = "writing", !.asked = TRUE]
      BY <1>0, <2>1, <3>1 DEF JobIsSound, Sealed, Jobs
    <3>2. CASE job' = [job EXCEPT !.stage = "importing", !.entry = None]
      BY <1>0, <2>1, <3>2 DEF JobIsSound, Sealed, Jobs
    <3> QED
      BY <2>1, <3>1, <3>2
  <2> QED
    BY <2>1, <2>2, JobStepKeeps
<1>10. CASE Write
  <2>1. /\ job.stage = "writing"
        /\ job' = [job EXCEPT !.stage = "importing", !.asked = FALSE, !.entry = None]
        /\ UNCHANGED <<packages, tokens>>
        /\ vault' = [vault EXCEPT ![job.entry] = Imported]
        /\ vault \in [Coordinates -> Records \union {None}]
    BY <1>10 DEF Write, origin, TypeOK
  <2>2. NoProdPackaged' /\ JobIsSound'
    BY <1>0, <2>1 DEF Sound, NoProdPackaged, JobIsSound, Sealed, Jobs
  <2>3. Imported.from = job.package /\ job.package \in DOMAIN packages
    BY <1>0, <2>1 DEF Imported, JobIsSound
  <2>4. FromPackages'
    BY <2>1, <2>3 DEF Sound, FromPackages
  <2>5. /\ job.entry \in packages[job.package].entries
        /\ job.entry \notin Prod
        /\ job.entry \in High => job.asked \/ (job.token = job.package /\ job.token \in tokens)
    <3>1. job.package # Nothing
      BY <2>3 DEF Ids, Nothing
    <3> QED
      BY <1>0, <2>1, <2>3, <3>1 DEF Sound, JobIsSound, NoProdPackaged, Sealed
  <2>6. ImportsAreSanctioned'
    BY <2>1, <2>5 DEF Sound, ImportsAreSanctioned, Imported
  <2> QED
    BY <2>2, <2>4, <2>6 DEF Sound
<1>11. CASE Finish
  <2>1. /\ job.stage = "importing"
        /\ job' = (IF job.kit THEN [job EXCEPT !.stage = "consuming"] ELSE NoJob)
        /\ UNCHANGED <<packages, tokens, vault>>
    BY <1>11, <1>a DEF Finish
  <2>2. JobIsSound'
    BY <1>0, <2>1 DEF JobIsSound, Sealed, Jobs, NoJob
  <2> QED
    BY <2>1, <2>2, JobStepKeeps
<1>12. ASSUME Consume \/ Fail PROVE Sound'
  <2>1. job' = NoJob /\ UNCHANGED <<packages, tokens, vault>>
    BY <1>12, <1>a DEF Consume, Fail, AtDestination, origin
  <2>2. JobIsSound'
    BY <2>1 DEF JobIsSound, NoJob
  <2> QED
    BY <2>1, <2>2, JobStepKeeps
<1> QED
  BY <1>1, <1>2, <1>3, <1>4, <1>5, <1>6, <1>7, <1>8, <1>9, <1>10, <1>11, <1>12 DEF Importer

LEMMA SoundInit == Init => IInv
<1> SUFFICES ASSUME Init PROVE IInv
  OBVIOUS
<1>1. TypeOK
  BY TypeInit
<1>2. NoProdPackaged
  BY DEF Init, NoProdPackaged
<1>3. FromPackages /\ ImportsAreSanctioned
  BY DEF Init, FromPackages, ImportsAreSanctioned
<1>4. JobIsSound
  BY DEF Init, JobIsSound, NoJob
<1> QED
  BY <1>1, <1>2, <1>3, <1>4 DEF IInv

LEMMA StepKeepsIInv == IInv /\ [Next]_vars => IInv'
<1> SUFFICES ASSUME IInv, [Next]_vars PROVE IInv'
  OBVIOUS
<1> USE DEF IInv, Sound
<1>1. CASE Custodian
  <2>1. CustodyTypeOK'
    BY <1>1, CustodyStepTypes DEF Custodian, TypeOK
  <2>2. TypeOK'
    BY <1>1, <2>1 DEF Custodian, TypeOK, origin
  <2> QED
    BY <1>1, <2>2, OutsideKeeps
<1>2. CASE Origin
  BY <1>2, OriginTypes, OutsideKeeps
<1>3. CASE Others
  BY <1>3, OthersTypes, OutsideKeeps
<1>4. CASE Importer
  BY <1>4, ImporterTypes, ImporterKeeps
<1>5. CASE UNCHANGED vars
  <2>1. TypeOK'
    BY <1>5, CustodyUnchanged DEF vars, TypeOK, origin
  <2> QED
    BY <1>5, <2>1, UnchangedKeeps DEF vars, origin
<1> QED
  BY <1>1, <1>2, <1>3, <1>4, <1>5 DEF Next

\* Whatever happens at the two machines and on the stick, every variable keeps
\* its type: the package of an import and the token that was registered exist.
THEOREM ExchangeTypeCorrect == Spec => []TypeOK
BY SoundInit, StepKeepsIInv, PTL DEF Spec, IInv

\* core/src/package.rs and `kovra unpack`: a record that an import wrote was sealed
\* in that package and is not prod, and a high one was approved at the destination
\* or came with the package's own token, however packages, the stick, the token and
\* the vault change while the import waits.
THEOREM ExchangeIsSanctioned == Spec => []ImportsAreSanctioned
BY SoundInit, StepKeepsIInv, PTL DEF Spec, IInv
-----------------------------------------------------------------------------
(* What was there before an import without --force.                         *)

\* What it is about to write is not of that, and of that nothing is missing.
BeforeStays ==
  job.stage # "idle" /\ ~job.force =>
    /\ \A c \in before : vault[c] # None
    /\ job.stage \in {"asking", "writing"} => job.entry \notin before


LEMMA BeforeInit == Init => BeforeStays
BY DEF Init, NoJob, BeforeStays

\* What one step does to what was there before, and that it leaves the rest so.
LEMMA StepLeavesBefore ==
  ASSUME TypeOK, BeforeStays, Next
  PROVE  /\ BeforeStays'
         /\ job.stage # "idle" /\ ~job.force =>
              \A c \in before : vault'[c] = vault[c] \/ c \notin before'
<1>0. job \in Jobs /\ vault \in [Coordinates -> Records \union {None}]
  BY DEF TypeOK
<1>1. CASE UNCHANGED <<vault, job, before>>
  BY <1>1 DEF BeforeStays
<1>2. ASSUME NEW c \in Coordinates, NEW record, Edit(c, record)
      PROVE  /\ BeforeStays'
             /\ \A d \in before : vault'[d] = vault[d] \/ d \notin before'
  BY <1>0, <1>2 DEF Edit, Local, BeforeStays
<1>3. CASE Importer
  <2>1. ASSUME NEW mode \in Modes, NEW token \in tokens \union {Nothing}, NEW force \in BOOLEAN,
               NEW package \in DOMAIN packages, NEW custodied \in BOOLEAN,
               Unpack(package, custodied, mode, token, force)
        PROVE  BeforeStays' /\ UNCHANGED vault
    <3> DEFINE next == [IF custodied THEN VaultJob ELSE OnDiskJob
               EXCEPT !.package = package, !.mode = mode, !.force = force,
                      !.source = IF token = Nothing THEN "none" ELSE "file", !.token = token]
    <3>1. Start(next)
      BY <2>1 DEF Unpack
    <3>2. next.stage \in {"gating", "opening"}
      BY DEF VaultJob, OnDiskJob, NoJob
    <3> HIDE DEF next
    <3>3. QED
      BY <3>1, <3>2 DEF Start, AtDestination, BeforeStays
  <2>2. ASSUME NEW mode \in Modes, NEW token \in tokens \union {Nothing}, NEW force \in BOOLEAN,
               ExchangeOpen(mode, token, force)
        PROVE  BeforeStays' /\ UNCHANGED vault
    <3> DEFINE next == [VaultJob EXCEPT !.kit = TRUE, !.package = stick.package, !.mode = mode, !.force = force,
             !.source = IF token # Nothing THEN "file" ELSE IF registered # Nothing THEN "registered" ELSE "none",
             !.token = token]
    <3>1. Start(next)
      BY <2>2 DEF ExchangeOpen
    <3>2. next.stage \in {"gating", "opening"}
      BY DEF VaultJob, NoJob
    <3> HIDE DEF next
    <3>3. QED
      BY <3>1, <3>2 DEF Start, AtDestination, BeforeStays
  <2>3. CASE UseKey \/ Open \/ VerifyNone \/ VerifyToken \/ Arm
    <3>1. /\ job'.stage \in {"opening", "verifying", "arming", "importing"}
          /\ job'.force = job.force /\ job.stage # "idle" /\ UNCHANGED <<vault, before>>
      BY <1>0, <2>3
      DEF UseKey, Open, VerifyNone, VerifyToken, Arm, Import, AtDestination, Jobs
    <3>2. QED
      BY <3>1 DEF BeforeStays
  <2>4. ASSUME NEW c \in Coordinates, Skip(c) \/ DeniedByToken(c)
        PROVE  BeforeStays' /\ UNCHANGED vault
    <3>1. job' = [job EXCEPT !.todo = @ \ {c}] /\ UNCHANGED <<vault, before>>
      BY <2>4 DEF Skip, DeniedByToken, Import, AtDestination
    <3>2. QED
      BY <1>0, <3>1 DEF BeforeStays, Jobs
  <2>5. ASSUME NEW c \in Coordinates, TakeFree(c) \/ AskFirst(c) \/ TakeByToken(c)
        PROVE  BeforeStays' /\ UNCHANGED vault
    <3>1. PICK stage \in {"writing", "asking"} :
            job' = [job EXCEPT !.stage = stage, !.todo = @ \ {c}, !.entry = c]
      BY <2>5 DEF TakeFree, AskFirst, TakeByToken, GoOn, Import
    <3>2. /\ job.stage = "importing" /\ UNCHANGED <<vault, before>>
          /\ ~job.force => vault[c] = None
      BY <2>5 DEF TakeFree, AskFirst, TakeByToken, GoOn, Import, AtDestination, Looking, Skips
    <3>3. job'.force = job.force /\ job'.entry = c
      BY <1>0, <3>1 DEF Jobs
    <3>4. QED
      BY <3>2, <3>3 DEF BeforeStays
  <2>6. CASE Approved \/ DeniedOrTimedOut
    <3>1. /\ job.stage = "asking" /\ UNCHANGED <<vault, before>> /\ job'.force = job.force
          /\ job'.stage = "writing" => job'.entry = job.entry
          /\ job'.stage \in {"writing", "importing"}
      BY <1>0, <2>6 DEF Approved, DeniedOrTimedOut, Import, AtDestination, Jobs
    <3>2. QED
      BY <3>1 DEF BeforeStays
  <2>7. CASE Write
    <3>1. /\ job.stage = "writing" /\ UNCHANGED before
          /\ job'.stage = "importing" /\ job'.force = job.force
          /\ vault' = [vault EXCEPT ![job.entry] = Imported]
      BY <1>0, <2>7 DEF Write, Jobs
    <3>2. ~job.force => \A c \in before : vault'[c] = vault[c]
      BY <1>0, <3>1 DEF BeforeStays, TypeOK
    <3>3. QED
      BY <3>1, <3>2 DEF BeforeStays
  <2>8. CASE Finish \/ Consume \/ Fail
    <3>1. /\ UNCHANGED <<vault, before>> /\ job.stage # "idle"
          /\ job'.stage = "idle" \/ (job'.stage = "consuming" /\ job'.force = job.force)
      BY <1>0, <2>8 DEF Finish, Consume, Fail, Import, AtDestination, Jobs, NoJob
    <3>2. QED
      BY <3>1 DEF BeforeStays
  <2>9. QED
    BY <1>3, <2>1, <2>2, <2>3, <2>4, <2>5, <2>6, <2>7, <2>8
    DEF Importer
<1>4. CASE Custodian \/ Origin
  BY <1>1, <1>4
  DEF Custodian, Origin, Tick, Package, ExchangeSeal, Seal, AskToFormat, Erase, Bootstrap, FormatFails,
      Formatting
<1>5. CASE Others
  <2>1. ASSUME NEW mode \in Modes, Keygen(mode) \/ WriteRecipient(mode)
        PROVE  UNCHANGED <<vault, job, before>>
    BY <2>1 DEF Keygen, WriteRecipient, Local
  <2>2. ASSUME NEW token \in tokens, RegisterToken(token)
        PROVE  UNCHANGED <<vault, job, before>>
    BY <2>2 DEF RegisterToken, Local
  <2>3. ASSUME NEW c \in Coordinates, NEW mode \in Modes, Set(c, mode) \/ Remove(c, mode)
        PROVE  \E record : Edit(c, record)
    BY <2>3 DEF Set, Remove
  <2>4. QED
    BY <1>1, <1>2, <1>5, <2>1, <2>2, <2>3 DEF Others
<1>6. QED
  BY <1>3, <1>4, <1>5 DEF Next

\* `kovra unpack`, `kovra exchange open`: without --force what was there when the
\* import began stays, except what others write meanwhile, however long it waits.
THEOREM ImportsKeepWhatIsThere == Spec => UnforcedImportKeeps
<1>1. IInv /\ BeforeStays /\ [Next]_vars => BeforeStays'
  <2>1. ASSUME BeforeStays, UNCHANGED vars PROVE BeforeStays'
    BY <2>1 DEF vars, BeforeStays
  <2>2. QED
    BY <2>1, StepLeavesBefore DEF IInv
<1>2. IInv /\ BeforeStays /\ [Next]_vars =>
        [job.stage # "idle" /\ ~job.force =>
           \A c \in before : vault'[c] = vault[c] \/ c \notin before']_vars
  BY StepLeavesBefore DEF IInv
<1>3. QED
  BY <1>1, <1>2, SoundInit, StepKeepsIInv, BeforeInit, PTL DEF Spec, UnforcedImportKeeps
-----------------------------------------------------------------------------
(* Keys that are needed, with one shell in which the owner runs key commands: *)
(* with two, what the one found before it stores may be replaced by the other. *)

OneShell == \E owner \in Owners : Owners = {owner}

Safe(key) == key.material = stored[key.mode] \/ key \in backups \union givenUp

\* Material is numbered as it is made.
MadeSoFar ==
  /\ \A mode \in Modes : stored[mode] \in Material => stored[mode] <= made
  /\ \A owner \in Owners : work[owner].op # "idle" =>
       (work[owner].material \in Material => work[owner].material <= made)
  /\ \A backup \in backups : backup.material \in Material => backup.material <= made

\* What a command replaces is in a backup, or given up with --force.
ReplacesSafely ==
  \A owner \in Owners :
    LET w == work[owner] IN
    /\ w.op = "storing" =>
         /\ stored[w.mode] = w.material => [mode |-> w.mode, material |-> w.material] \in backups
         /\ ~w.force /\ Unlocks(w.mode) => stored[w.mode] = w.material
    /\ w.op = "filling" => w.mode = "passphrase" /\ ~Unlocks("passphrase")

\* Also the key that an import holds.
NeededAreSafe ==
  /\ \A c \in Coordinates : vault[c] # None => Safe(vault[c].key)
  /\ identity # None => Safe(identity.key)
  /\ job.stage \in {"importing", "asking", "writing"} => Safe(job.key)

CustodyInv == MadeSoFar /\ ReplacesSafely

NeedInv == CustodyInv /\ NeededAreSafe

LEMMA CustodyInit1 == CustodyInit => CustodyInv
BY DEF CustodyInit, CustodyInv, MadeSoFar, ReplacesSafely, Modes, Material, Absent

LEMMA MaterialNumbers ==
  Absent \notin Material /\ Torn \notin Material /\ Absent # Torn /\ Material \subseteq Nat
BY KeyCustodyAssumption DEF Absent, Torn, Material

\* No key command strands a key: what it replaces is backed up or given up.
LEMMA CustodyStepIsSafe ==
  ASSUME OneShell, CustodyTypeOK, CustodyInv, CustodyNext
  PROVE  CustodyInv' /\ \A key \in MasterKeys : Safe(key) => Safe(key)'
<1>0. PICK o \in Owners : Owners = {o}
  BY DEF OneShell
<1> DEFINE w == work[o]
           backup == [mode |-> w.mode, material |-> w.material]
<1>1. /\ work \in [Owners -> Works] /\ w \in Works /\ w.op \in {"idle", "storing", "filling", "asking", "delivering"}
      /\ stored \in [Modes -> {Absent, Torn} \union Material]
      /\ made \in Nat /\ made <= MaxMaterial /\ MaxMaterial \in Nat
      /\ \A b \in backups : b \in Backups
  BY KeyCustodyAssumption DEF CustodyTypeOK, Works
<1>2. w.op # "idle" => w.mode \in Modes /\ w.material \in Material \union {Torn}
  BY <1>1 DEF Works
<1>3. /\ \A mode \in Modes : stored[mode] \in Material => stored[mode] <= made
      /\ w.op # "idle" => (w.material \in Material => w.material <= made)
      /\ \A b \in backups : b.material \in Material => b.material <= made
      /\ w.op = "storing" =>
           /\ stored[w.mode] = w.material => backup \in backups
           /\ ~w.force /\ Unlocks(w.mode) => stored[w.mode] = w.material
      /\ w.op = "filling" => w.mode = "passphrase" /\ ~Unlocks("passphrase")
  BY DEF CustodyInv, MadeSoFar, ReplacesSafely
<1>4. \A key \in MasterKeys : key.mode \in Modes /\ key.material \in Material
                              /\ key = [mode |-> key.mode, material |-> key.material]
  BY DEF MasterKeys
\* What is to be shown when no command is going on after the step.
<1>5. ASSUME work'[o] = [op |-> "idle"]
      PROVE  ReplacesSafely'
  BY <1>0, <1>5 DEF ReplacesSafely
<1>6. ASSUME NEW mode \in Modes, NEW force \in BOOLEAN, StartInit(o, mode, force)
      PROVE  CustodyInv' /\ UNCHANGED <<stored, backups, givenUp>>
  <2>1. /\ UNCHANGED <<stored, backups, givenUp>> /\ made < MaxMaterial /\ made' = made + 1
        /\ work'[o] = Store(mode, made + 1, force) /\ (HasMaterial(mode) => force)
    BY <1>1, <1>6 DEF StartInit, Becomes
  <2>2. stored[mode] # made + 1
    BY <1>1, <1>3, <2>1 DEF Absent, Torn, Material
  <2>3. MadeSoFar'
    <3>1. \A n \in Material : n <= made => n <= made'
      BY <1>1, <2>1, MaterialNumbers
    <3>2. \A m \in Modes : stored'[m] \in Material => stored'[m] <= made'
      BY <1>3, <2>1, <3>1
    <3>3. \A b \in backups' : b.material \in Material => b.material <= made'
      BY <1>3, <2>1, <3>1
    <3>4. work'[o].material <= made'
      BY <1>1, <2>1 DEF Store
    <3>5. QED
      BY <1>0, <3>2, <3>3, <3>4 DEF MadeSoFar
  <2>4. ReplacesSafely'
    BY <1>0, <2>1, <2>2, MaterialNumbers DEF ReplacesSafely, Store, HasMaterial, Unlocks
  <2>5. QED
    BY <2>1, <2>3, <2>4 DEF CustodyInv
<1>7. CASE PutKey(o)
  <2>1. /\ w.op = "storing" /\ w.mode = "keyring" /\ UNCHANGED <<made, backups>>
        /\ stored' = [stored EXCEPT !["keyring"] = w.material]
        /\ Replace("keyring", w.material, w.force) /\ work'[o] = [op |-> "idle"]
    BY <1>1, <1>7 DEF PutKey, Becomes
  <2>2. /\ stored'["keyring"] = w.material
        /\ \A mode \in Modes : mode # "keyring" => stored'[mode] = stored[mode]
    BY <1>1, <2>1 DEF Modes
  <2>3. MadeSoFar'
    BY <1>0, <1>3, <2>1, <2>2 DEF MadeSoFar
  <2>4. ASSUME NEW key \in MasterKeys, Safe(key) PROVE Safe(key)'
    <3>1. givenUp \subseteq givenUp'
      BY <2>1 DEF Replace
    <3>2. CASE key.mode = "keyring" /\ key.material = stored["keyring"] /\ key.material # w.material
      <4>1. Unlocks("keyring") /\ w.force
        BY <1>3, <1>4, <2>1, <3>2 DEF Unlocks
      <4>2. MasterKey("keyring") \in givenUp'
        BY <2>1, <3>2, <4>1 DEF Replace
      <4>3. MasterKey("keyring") = key
        BY <1>4, <3>2 DEF MasterKey
      <4>4. QED
        BY <4>2, <4>3 DEF Safe
    <3>3. CASE ~(key.mode = "keyring" /\ key.material = stored["keyring"] /\ key.material # w.material)
      BY <1>4, <2>1, <2>2, <2>4, <3>1, <3>3 DEF Safe
    <3>4. QED
      BY <3>2, <3>3
  <2>5. QED
    BY <1>5, <2>1, <2>3, <2>4 DEF CustodyInv
<1>8. CASE TruncateSalt(o)
  <2>1. /\ w.op = "storing" /\ w.mode = "passphrase" /\ UNCHANGED <<made, backups>>
        /\ stored' = [stored EXCEPT !["passphrase"] = Torn]
        /\ Replace("passphrase", w.material, w.force) /\ work'[o] = [w EXCEPT !.op = "filling"]
    BY <1>1, <1>8 DEF TruncateSalt, Becomes
  <2>2. /\ stored'["passphrase"] = Torn
        /\ \A mode \in Modes : mode # "passphrase" => stored'[mode] = stored[mode]
    BY <1>1, <2>1 DEF Modes
  <2>3. work'[o].op = "filling" /\ work'[o].mode = "passphrase" /\ work'[o].material = w.material
    BY <1>1, <2>1 DEF Works
  <2>4. MadeSoFar' /\ ReplacesSafely'
    BY <1>0, <1>3, <2>1, <2>2, <2>3, MaterialNumbers DEF MadeSoFar, ReplacesSafely, Unlocks
  <2>5. ASSUME NEW key \in MasterKeys, Safe(key) PROVE Safe(key)'
    <3>1. givenUp \subseteq givenUp'
      BY <2>1 DEF Replace
    <3>2. CASE key.mode = "passphrase" /\ key.material = stored["passphrase"]
      <4>1. Unlocks("passphrase") /\ MasterKey("passphrase") = key
        BY <1>4, <3>2 DEF Unlocks, MasterKey
      <4>2. CASE key.material = w.material
        <5>1. backup = key
          BY <1>4, <2>1, <3>2, <4>2
        <5>2. backup \in backups
          BY <1>3, <2>1, <3>2, <4>2
        <5>3. QED
          BY <2>1, <5>1, <5>2 DEF Safe
      <4>3. CASE key.material # w.material
        <5>1. w.force
          BY <1>3, <2>1, <3>2, <4>1, <4>3
        <5>2. QED
          BY <2>1, <3>2, <4>1, <4>3, <5>1 DEF Replace, Safe
      <4>4. QED
        BY <4>2, <4>3
    <3>3. CASE ~(key.mode = "passphrase" /\ key.material = stored["passphrase"])
      BY <1>4, <2>1, <2>2, <2>5, <3>1, <3>3 DEF Safe
    <3>4. QED
      BY <3>2, <3>3
  <2>6. QED
    BY <2>4, <2>5 DEF CustodyInv
<1>9. CASE FillSalt(o)
  <2>1. /\ w.op = "filling" /\ UNCHANGED <<made, backups, givenUp>>
        /\ stored' = [stored EXCEPT !["passphrase"] = w.material] /\ work'[o] = [op |-> "idle"]
    BY <1>1, <1>9 DEF FillSalt, Becomes
  <2>2. /\ stored'["passphrase"] = w.material /\ ~Unlocks("passphrase")
        /\ \A mode \in Modes : mode # "passphrase" => stored'[mode] = stored[mode]
    BY <1>1, <1>3, <2>1 DEF Modes
  <2>3. MadeSoFar'
    BY <1>0, <1>3, <2>1, <2>2 DEF MadeSoFar
  <2>4. \A key \in MasterKeys : Safe(key) => Safe(key)'
    BY <1>4, <2>1, <2>2 DEF Safe, Unlocks
  <2>5. QED
    BY <1>5, <2>1, <2>3, <2>4 DEF CustodyInv
<1>10. ASSUME NEW mode \in Modes, StartExport(o, mode)
       PROVE  CustodyInv' /\ UNCHANGED <<stored, backups, givenUp>>
  <2>1. /\ UNCHANGED <<stored, made, backups, givenUp>>
        /\ work'[o] = [op |-> "asking", mode |-> mode, material |-> stored[mode]]
    BY <1>1, <1>10 DEF StartExport, Becomes
  <2>2. QED
    BY <1>0, <1>3, <2>1 DEF CustodyInv, MadeSoFar, ReplacesSafely
<1>11. CASE ExportApproved(o)
  <2>1. /\ UNCHANGED <<stored, made, backups, givenUp>> /\ w.op = "asking"
        /\ work'[o] = [w EXCEPT !.op = "delivering"]
    BY <1>1, <1>11 DEF ExportApproved, Becomes
  <2>2. work'[o].op = "delivering" /\ work'[o].material = w.material
    BY <1>1, <2>1 DEF Works
  <2>3. CustodyInv'
    BY <1>0, <1>3, <2>1, <2>2 DEF CustodyInv, MadeSoFar, ReplacesSafely
  <2>4. QED
    BY <2>1, <2>3 DEF Safe
<1>12. CASE Deliver(o)
  <2>1. /\ UNCHANGED <<stored, made, givenUp>> /\ w.op = "delivering"
        /\ backups' = backups \union {backup} /\ work'[o] = [op |-> "idle"]
    BY <1>1, <1>12 DEF Deliver, Becomes
  <2>2. MadeSoFar'
    BY <1>0, <1>3, <2>1 DEF MadeSoFar
  <2>3. QED
    BY <1>5, <2>1, <2>2 DEF CustodyInv, Safe
<1>13. ASSUME NEW b \in backups, NEW force \in BOOLEAN, StartRestore(o, b, force)
       PROVE  CustodyInv' /\ UNCHANGED <<stored, backups, givenUp>>
  <2>1. /\ UNCHANGED <<stored, made, backups, givenUp>> /\ MayRestore(b, force)
        /\ work'[o] = Store(b.mode, b.material, force)
    BY <1>1, <1>13 DEF StartRestore, Becomes
  <2>2. [mode |-> b.mode, material |-> b.material] = b /\ b.mode \in Modes
    BY <1>1 DEF Backups
  <2>3. ~force /\ Unlocks(b.mode) => stored[b.mode] = b.material
    BY <2>1, MaterialNumbers DEF MayRestore, Unlocks
  <2>4. MadeSoFar' /\ ReplacesSafely'
    BY <1>0, <1>3, <2>1, <2>2, <2>3 DEF MadeSoFar, ReplacesSafely, Store, Unlocks
  <2>5. QED
    BY <2>1, <2>4 DEF CustodyInv
<1>14. CASE Stop(o)
  <2>1. UNCHANGED <<stored, made, backups, givenUp>> /\ work'[o] = [op |-> "idle"]
    BY <1>1, <1>14 DEF Stop, Becomes
  <2>2. MadeSoFar'
    BY <1>0, <1>3, <2>1 DEF MadeSoFar
  <2>3. QED
    BY <1>5, <2>1, <2>2 DEF CustodyInv, Safe
<1>15. ASSUME NEW mode \in Modes, Lose(mode)
       PROVE  CustodyInv' /\ \A key \in MasterKeys : Safe(key) => Safe(key)'
  <2>1. /\ UNCHANGED <<made, work, backups>> /\ stored' = [stored EXCEPT ![mode] = Absent]
        /\ givenUp' = IF Unlocks(mode) THEN givenUp \union {MasterKey(mode)} ELSE givenUp
    BY <1>15 DEF Lose
  <2>2. stored'[mode] = Absent /\ \A other \in Modes : other # mode => stored'[other] = stored[other]
    BY <1>1, <2>1
  <2>3. MadeSoFar'
    BY <1>0, <1>3, <2>1, <2>2, MaterialNumbers DEF MadeSoFar
  <2>4. ReplacesSafely'
    BY <1>0, <1>2, <1>3, <2>1, <2>2, MaterialNumbers DEF ReplacesSafely, Unlocks, Modes
  <2>5. ASSUME NEW key \in MasterKeys, Safe(key) PROVE Safe(key)'
    <3>1. CASE key.mode = mode /\ key.material = stored[mode]
      <4>1. MasterKey(mode) = key /\ Unlocks(mode)
        BY <1>4, <3>1 DEF MasterKey, Unlocks
      <4>2. QED
        BY <2>1, <4>1 DEF Safe
    <3>2. CASE ~(key.mode = mode /\ key.material = stored[mode])
      BY <1>4, <2>1, <2>2, <2>5, <3>2 DEF Safe
    <3>3. QED
      BY <3>1, <3>2
  <2>6. QED
    BY <2>3, <2>4, <2>5 DEF CustodyInv
<1>16. UNCHANGED <<stored, backups, givenUp>> => \A key \in MasterKeys : Safe(key) => Safe(key)'
  BY DEF Safe
<1>17. QED
  BY <1>0, <1>6, <1>7, <1>8, <1>9, <1>10, <1>11, <1>12, <1>13, <1>14, <1>15, <1>16 DEF CustodyNext

LEMMA NeedInit == Init => NeedInv
<1>1. Init => CustodyInv
  BY CustodyInit1 DEF Init
<1>2. Init => NeededAreSafe
  BY DEF Init, NeededAreSafe, NoJob
<1>3. QED
  BY <1>1, <1>2 DEF NeedInv

\* A key that is in its place is safe.
LEMMA PresentIsSafe == \A mode : Safe(MasterKey(mode))
BY DEF Safe, MasterKey

LEMMA NeededAreKeys ==
  ASSUME TypeOK, JobIsSound
  PROVE  /\ \A c \in Coordinates : vault[c] # None => vault[c].key \in MasterKeys
         /\ identity # None => identity.key \in MasterKeys
         /\ job.stage \in {"importing", "asking", "writing"} => job.key \in MasterKeys
BY DEF TypeOK, JobIsSound, Records, Keypairs

LEMMA NeedStep == ASSUME OneShell, IInv, NeedInv, [Next]_vars PROVE NeedInv'
<1>0. job \in Jobs /\ vault \in [Coordinates -> Records \union {None}]
  BY DEF IInv, TypeOK
<1>1. CASE Custodian
  <2>1. CustodyInv' /\ \A key \in MasterKeys : Safe(key) => Safe(key)'
    BY <1>1, CustodyStepIsSafe DEF Custodian, IInv, TypeOK, NeedInv
  <2>2. UNCHANGED <<identity, vault, job>>
    BY <1>1 DEF Custodian
  <2> HIDE DEF Safe
  <2>3. NeededAreSafe'
    BY <2>1, <2>2, NeededAreKeys DEF NeedInv, NeededAreSafe, IInv
  <2>4. QED
    BY <2>1, <2>3 DEF NeedInv
<1>2. CASE UNCHANGED custody /\ (Origin \/ Others \/ Importer \/ UNCHANGED vars)
  <2>1. CustodyInv' /\ \A key : Safe(key)' <=> Safe(key)
    BY <1>2 DEF custody, NeedInv, CustodyInv, MadeSoFar, ReplacesSafely, Unlocks, Safe
  <2>2. SUFFICES NeededAreSafe'
    BY <2>1 DEF NeedInv
  <2>3. CASE UNCHANGED <<identity, vault, job>>
    BY <2>1, <2>3 DEF NeedInv, NeededAreSafe
  <2>4. CASE Others
    <3>1. ASSUME NEW mode \in Modes, Keygen(mode) PROVE NeededAreSafe'
      <4>1. identity'.key = MasterKey(mode) /\ UNCHANGED <<vault, job>>
        BY <3>1 DEF Keygen, Local
      <4>2. QED
        BY <2>1, <4>1, PresentIsSafe DEF NeedInv, NeededAreSafe
    <3>2. ASSUME NEW c \in Coordinates, NEW mode \in Modes, Set(c, mode) \/ Remove(c, mode)
          PROVE  NeededAreSafe'
      <4>1. UNCHANGED <<identity, job>>
        BY <3>2 DEF Set, Remove, Edit, Local
      <4>2. PICK record : /\ vault' = [vault EXCEPT ![c] = record]
                          /\ record # None => record.key = MasterKey(mode)
        BY <3>2 DEF Set, Remove, Edit
      <4>3. QED
        BY <1>0, <2>1, <4>1, <4>2, PresentIsSafe DEF NeedInv, NeededAreSafe
    <3>3. ASSUME NEW mode \in Modes, WriteRecipient(mode) PROVE UNCHANGED <<identity, vault, job>>
      BY <3>3 DEF WriteRecipient, Local
    <3>4. ASSUME NEW token \in tokens, RegisterToken(token) PROVE UNCHANGED <<identity, vault, job>>
      BY <3>4 DEF RegisterToken, Local
    <3>5. QED
      BY <2>3, <2>4, <3>1, <3>2, <3>3, <3>4 DEF Others
  <2>5. CASE Importer
    <3>1. CASE Write
      <4>1. /\ job.stage = "writing" /\ job'.key = job.key /\ UNCHANGED identity
            /\ vault' = [vault EXCEPT ![job.entry] = Imported] /\ Imported.key = job.key
        BY <1>0, <3>1 DEF Write, Jobs, Imported
      <4>2. QED
        BY <1>0, <2>1, <4>1 DEF NeedInv, NeededAreSafe
    <3>2. CASE Arm
      <4>1. job'.key = MasterKey(job.mode) /\ UNCHANGED <<identity, vault>>
        BY <1>0, <3>2 DEF Arm, Import, AtDestination, Jobs
      <4>2. QED
        BY <2>1, <4>1, PresentIsSafe DEF NeedInv, NeededAreSafe
    <3>3. CASE \/ UseKey \/ Open \/ VerifyNone \/ VerifyToken \/ Finish \/ Consume \/ Fail
      <4>1. UNCHANGED <<identity, vault>>
        BY <3>3
        DEF UseKey, Open, VerifyNone, VerifyToken, Finish, Consume, Fail, Import, AtDestination
      <4>2. CASE UseKey \/ Open \/ VerifyNone \/ VerifyToken
        <5>1. job'.stage \in {"opening", "verifying", "arming"}
          BY <1>0, <4>2 DEF UseKey, Open, VerifyNone, VerifyToken, Import, Jobs
        <5>2. QED
          BY <2>1, <4>1, <5>1 DEF NeedInv, NeededAreSafe
      <4>3. CASE Finish
        <5>1. job' = [job EXCEPT !.stage = "consuming"] \/ job' = NoJob
          BY <4>3 DEF Finish, Import
        <5>2. job'.stage \in {"idle", "consuming"}
          BY <1>0, <5>1 DEF Jobs, NoJob
        <5>3. QED
          BY <2>1, <4>1, <5>2 DEF NeedInv, NeededAreSafe
      <4>4. CASE Consume \/ Fail
        <5>1. job'.stage = "idle"
          BY <4>4 DEF Consume, Fail, Import, NoJob
        <5>2. QED
          BY <2>1, <4>1, <5>1 DEF NeedInv, NeededAreSafe
      <4>5. QED
        BY <3>3, <4>2, <4>3, <4>4
    <3>4. ASSUME NEW c \in Coordinates,
                 Skip(c) \/ TakeFree(c) \/ AskFirst(c) \/ TakeByToken(c) \/ DeniedByToken(c)
          PROVE  NeededAreSafe'
      <4>1. /\ job.stage = "importing" /\ job'.key = job.key /\ UNCHANGED <<identity, vault>>
        BY <1>0, <3>4
        DEF Skip, TakeFree, AskFirst, TakeByToken, DeniedByToken, GoOn, Looking, Import,
            AtDestination, Jobs
      <4>2. QED
        BY <2>1, <4>1 DEF NeedInv, NeededAreSafe
    <3>5. CASE Approved \/ DeniedOrTimedOut
      <4>1. /\ job.stage = "asking" /\ job'.key = job.key /\ UNCHANGED <<identity, vault>>
        BY <1>0, <3>5 DEF Approved, DeniedOrTimedOut, Import, AtDestination, Jobs
      <4>2. QED
        BY <2>1, <4>1 DEF NeedInv, NeededAreSafe
    <3>6. ASSUME NEW next, Start(next), next.stage \in {"gating", "opening"}
          PROVE  NeededAreSafe'
      <4>1. job'.stage \in {"gating", "opening"} /\ UNCHANGED <<identity, vault>>
        BY <3>6 DEF Start, AtDestination
      <4>2. QED
        BY <2>1, <4>1 DEF NeedInv, NeededAreSafe
    <3>7. ASSUME NEW mode \in Modes, NEW token \in tokens \union {Nothing}, NEW force \in BOOLEAN,
                 NEW package \in DOMAIN packages, NEW custodied \in BOOLEAN,
                 Unpack(package, custodied, mode, token, force)
          PROVE  NeededAreSafe'
      <4> DEFINE next == [IF custodied THEN VaultJob ELSE OnDiskJob
             EXCEPT !.package = package, !.mode = mode, !.force = force,
                    !.source = IF token = Nothing THEN "none" ELSE "file", !.token = token]
      <4>1. Start(next)
        BY <3>7 DEF Unpack
      <4>2. next.stage \in {"gating", "opening"}
        BY DEF VaultJob, OnDiskJob, NoJob
      <4> HIDE DEF next
      <4>3. QED
        BY <3>6, <4>1, <4>2
    <3>8. ASSUME NEW mode \in Modes, NEW token \in tokens \union {Nothing}, NEW force \in BOOLEAN,
                 ExchangeOpen(mode, token, force)
          PROVE  NeededAreSafe'
      <4> DEFINE next == [VaultJob EXCEPT !.kit = TRUE, !.package = stick.package, !.mode = mode, !.force = force,
             !.source = IF token # Nothing THEN "file" ELSE IF registered # Nothing THEN "registered" ELSE "none",
             !.token = token]
      <4>1. Start(next)
        BY <3>8 DEF ExchangeOpen
      <4>2. next.stage \in {"gating", "opening"}
        BY DEF VaultJob, NoJob
      <4> HIDE DEF next
      <4>3. QED
        BY <3>6, <4>1, <4>2
    <3>9. QED
      BY <2>5, <3>1, <3>2, <3>3, <3>4, <3>5, <3>7, <3>8 DEF Importer
  <2>6. CASE Origin
    BY <2>3, <2>6
    DEF Origin, Tick, Package, ExchangeSeal, Seal, AskToFormat, Erase, Bootstrap, FormatFails, Formatting
  <2>7. CASE UNCHANGED vars
    BY <2>3, <2>7 DEF vars
  <2>8. QED
    BY <1>2, <2>4, <2>5, <2>6, <2>7
<1>3. Origin \/ Others \/ Importer \/ UNCHANGED vars => UNCHANGED custody
  <2>1. Origin => UNCHANGED custody
    BY DEF Origin, Tick, Package, ExchangeSeal, Seal, AskToFormat, Erase, Bootstrap, FormatFails,
           Formatting
  <2>2. Others => UNCHANGED custody
    BY DEF Others, Keygen, WriteRecipient, RegisterToken, Set, Remove, Edit, Local
  <2>3. Importer => UNCHANGED custody
    <3>1. \A next : Start(next) \/ Import(next) => UNCHANGED custody
      BY DEF Start, Import, AtDestination
    <3>2. ASSUME NEW mode, NEW token, NEW force, NEW package, NEW custodied,
                 \/ Unpack(package, custodied, mode, token, force)
                 \/ ExchangeOpen(mode, token, force)
          PROVE  UNCHANGED custody
      BY <3>1, <3>2 DEF Unpack, ExchangeOpen
    <3>3. UseKey \/ Open \/ VerifyNone \/ VerifyToken \/ Arm => UNCHANGED custody
      BY <3>1 DEF UseKey, Open, VerifyNone, VerifyToken, Arm
    <3>4. ASSUME NEW c, Skip(c) \/ TakeFree(c) \/ AskFirst(c) \/ TakeByToken(c) \/ DeniedByToken(c)
          PROVE  UNCHANGED custody
      BY <3>1, <3>4 DEF Skip, TakeFree, AskFirst, TakeByToken, DeniedByToken, GoOn
    <3>5. Approved \/ DeniedOrTimedOut \/ Write \/ Finish \/ Consume \/ Fail => UNCHANGED custody
      BY <3>1 DEF Approved, DeniedOrTimedOut, Write, Finish, Consume, Fail, AtDestination
    <3>6. QED
      BY <3>2, <3>3, <3>4, <3>5 DEF Importer
  <2>4. QED
    BY <2>1, <2>2, <2>3 DEF vars
<1>4. QED
  BY <1>1, <1>2, <1>3 DEF Next

\* `kovra init`, `kovra key import`: as long as the owner runs one key command at a
\* time, no death in the middle of one, no torn salt and no import that holds an old
\* key leaves a record without its key.
THEOREM NoKeyIsStranded == ASSUME OneShell PROVE Spec => []NothingIsStranded
<1>1. IInv /\ NeedInv /\ [Next]_vars => NeedInv'
  BY NeedStep
<1>2. IInv /\ NeedInv => NothingIsStranded
  BY DEF NeedInv, NeededAreSafe, Safe, NothingIsStranded
<1>3. QED
  BY <1>1, <1>2, SoundInit, StepKeepsIInv, NeedInit, PTL DEF Spec
=============================================================================
