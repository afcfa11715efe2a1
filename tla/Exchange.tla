------------------------------ MODULE Exchange ------------------------------
(***************************************************************************)
(* Packages: an origin seals non-prod secrets to a recipient's key, and a  *)
(* destination imports them into its vault (core/src/package.rs, `kovra    *)
(* package`, `kovra unpack`), over a USB stick and a second channel for    *)
(* the access token (`kovra exchange`, core/src/exchange.rs).              *)
(*                                                                         *)
(* The destination is the machine of KeyCustody, where the key that every  *)
(* record is sealed under may change.  Of a value it matters only which    *)
(* package brought it.  One import runs at a time, beside other processes  *)
(* that write the same vault; there is one stick.  The audit log is left   *)
(* out.                                                                    *)
(***************************************************************************)
EXTENDS KeyCustody, Sequences

CONSTANTS
  Coordinates,           \* of secrets; the recipient's keypair is kept apart
  Prod, High,            \* those in environment prod, those of sensitivity high
  Ttl,                   \* of a package, in ticks
  MaxPackages, MaxIdentities,
  None

ASSUME ExchangeAssumption ==
  /\ Prod \subseteq Coordinates
  /\ High \subseteq Coordinates
  /\ {Ttl, MaxPackages, MaxIdentities} \subseteq Nat

Identities == 0..MaxIdentities
OnDisk == 0              \* the recipient's key when it is a file, not in the vault

Packages == [entries : SUBSET Coordinates, to : Identities, expires : Nat]
Ids == 1..MaxPackages
Nothing == 0

\* A record as an import or, with `from` Nothing, another command wrote it.
\* History: the token it was imported with, and whether somebody approved it.
Records == [from : Ids \union {Nothing}, token : Ids \union {Nothing}, asked : BOOLEAN, key : MasterKeys]

Keypairs == [identity : 1..MaxIdentities, key : MasterKeys]

Stages == {"idle", "gating", "opening", "verifying", "arming", "importing", "asking", "writing", "consuming"}

\* An import.  `kit`: it is `exchange open`.  `source`: where its token is from.
\* `approving`: what the TokenConfirmer says.  `asked`: the entry was approved.
Jobs ==
  [stage : Stages, kit : BOOLEAN, force : BOOLEAN, mode : Modes,
   package : Ids \union {Nothing}, identity : Identities,
   source : {"none", "file", "registered"}, token : Ids \union {Nothing},
   approving : BOOLEAN, asked : BOOLEAN, key : MasterKeys \union {None},
   todo : SUBSET Coordinates, entry : Coordinates \union {None}]

VARIABLES
  clock,
  packages,              \* all that were sealed, in order; the number is the fingerprint
  tokens,                \* the packages whose token reached the owner
  stick,                 \* what is on it
  formatting,            \* how far `exchange init` is, at the origin
  identity,              \* the recipient's keypair in the vault, or None
  identities,            \* how many were generated
  registered,            \* the registered token, or Nothing
  vault,
  job,
  before                 \* history: what was in the vault when the import began,
                         \* and was not written by others since

origin == <<clock, packages, tokens, formatting>>
vars == <<budget, custody, origin, stick, identity, identities, registered, vault, job, before>>

NoJob ==
  [stage |-> "idle", kit |-> FALSE, force |-> FALSE, mode |-> "passphrase",
   package |-> Nothing, identity |-> OnDisk, source |-> "none", token |-> Nothing,
   approving |-> FALSE, asked |-> FALSE, key |-> None, todo |-> {}, entry |-> None]

EmptyStick == [kit |-> FALSE, recipient |-> Nothing, package |-> Nothing]

TypeOK ==
  /\ CustodyTypeOK
  /\ clock \in Nat
  /\ packages \in Seq(Packages)
  /\ Len(packages) <= MaxPackages
  /\ tokens \subseteq DOMAIN packages
  /\ stick \in [kit : BOOLEAN, recipient : Identities, package : DOMAIN packages \union {Nothing}]
  /\ formatting \in {"no", "asking", "erased"}
  /\ identity \in Keypairs \union {None}
  /\ identities \in Identities
  /\ registered \in tokens \union {Nothing}
  /\ vault \in [Coordinates -> Records \union {None}]
  /\ job \in Jobs
  /\ before \subseteq Coordinates

Init ==
  /\ CustodyInit
  /\ clock = 0
  /\ packages = <<>>
  /\ tokens = {}
  /\ stick = EmptyStick
  /\ formatting = "no"
  /\ identity = None
  /\ identities = 0
  /\ registered = Nothing
  /\ vault = [c \in Coordinates |-> None]
  /\ job = NoJob
  /\ before = {}

-----------------------------------------------------------------------------
(* The origin.                                                              *)

Tick ==
  /\ Counted("ticks")
  /\ clock' = clock + 1
  /\ UNCHANGED <<custody, packages, tokens, formatting, stick, identity, identities,
                 registered, vault, job, before>>

\* One environment at a time, some or all of its components, never prod.
Packageable(entries) == entries # {} /\ entries \intersect Prod = {}

\* seal_scope.  Its token leaves by the second channel, unless the command ends
\* between the two.
Seal(to, entries) ==
  /\ Packageable(entries)
  /\ Counted("seals")
  /\ Len(packages) < MaxPackages
  /\ packages' = Append(packages, [entries |-> entries, to |-> to, expires |-> clock + Ttl])
  /\ tokens' \in {tokens, tokens \union {Len(packages) + 1}}
  /\ UNCHANGED <<custody, clock, formatting, identity, identities, registered, vault, job, before>>

\* `kovra package` to a key on disk, into a file.
Package ==
  /\ \E entries \in SUBSET Coordinates : Seal(OnDisk, entries)
  /\ UNCHANGED stick

\* `kovra exchange seal` to the recipient on the stick.
ExchangeSeal ==
  /\ stick.recipient # Nothing
  /\ \E entries \in SUBSET Coordinates : Seal(stick.recipient, entries)
  /\ stick' = [stick EXCEPT !.package = Len(packages) + 1]

Formatting(next) ==
  /\ formatting' = next
  /\ UNCHANGED <<custody, clock, packages, tokens, identity, identities, registered, vault, job, before>>

\* `kovra exchange init`: the stick passes the rail, a person approves, the stick
\* is erased and gets the kit.
AskToFormat ==
  /\ formatting = "no"
  /\ Counted("formats")
  /\ Formatting("asking")
  /\ UNCHANGED stick

Erase ==
  /\ formatting = "asking"
  /\ Formatting("erased")
  /\ stick' = EmptyStick
  /\ UNCHANGED budget

Bootstrap ==
  /\ formatting = "erased"
  /\ Formatting("no")
  /\ stick' = [stick EXCEPT !.kit = TRUE]
  /\ UNCHANGED budget

FormatFails ==
  /\ formatting # "no"
  /\ Formatting("no")
  /\ UNCHANGED <<budget, stick>>

-----------------------------------------------------------------------------
(* The destination's other commands.                                        *)

Local == UNCHANGED <<custody, origin, job>>

\* `kovra keygen`, as install.sh runs it: born high, and only once.
Keygen(mode) ==
  /\ Unlocks(mode)
  /\ identity = None
  /\ identities < MaxIdentities
  /\ identities' = identities + 1
  /\ identity' = [identity |-> identities + 1, key |-> MasterKey(mode)]
  /\ UNCHANGED <<budget, stick, registered, vault, before>>
  /\ Local

\* resolve_keypair: the record opens under the present key alone.
Resolves(mode) == identity # None /\ Unlocks(mode) /\ identity.key = MasterKey(mode)

\* install.sh: `kovra pubkey` onto the stick.
WriteRecipient(mode) ==
  /\ stick.kit
  /\ Resolves(mode)
  /\ stick' = [stick EXCEPT !.recipient = identity.identity]
  /\ UNCHANGED <<budget, identity, identities, registered, vault, before>>
  /\ Local

\* `exchange register-token` takes any access token.
RegisterToken(token) ==
  /\ registered' = token
  /\ UNCHANGED <<budget, stick, identity, identities, vault, before>>
  /\ Local

Edit(c, record) ==
  /\ Counted("edits")
  /\ vault' = [vault EXCEPT ![c] = record]
  /\ before' = before \ {c}
  /\ UNCHANGED <<stick, identity, identities, registered>>
  /\ Local

\* What read_record makes of a coordinate under a key: nothing there, or opened.
Opens(c, key) == vault[c] # None => vault[c].key = key

\* `kovra add`, `kovra set`, and `kovra rm`, see SecretAdmin.
Set(c, mode) ==
  /\ Unlocks(mode)
  /\ Opens(c, MasterKey(mode))
  /\ Edit(c, [from |-> Nothing, token |-> Nothing, asked |-> FALSE, key |-> MasterKey(mode)])

Remove(c, mode) ==
  /\ Unlocks(mode)
  /\ vault[c] # None /\ vault[c].key = MasterKey(mode)
  /\ Edit(c, None)

-----------------------------------------------------------------------------
(* The import, in the order of the code.                                    *)

AtDestination == UNCHANGED <<custody, origin, stick, identity, identities, vault>>

Import(next) ==
  /\ job' = next
  /\ UNCHANGED <<budget, registered, before>>
  /\ AtDestination

\* What the two commands have in common.
Start(next) ==
  /\ job.stage = "idle"
  /\ Counted("opens")
  /\ next.mode = "passphrase" => HasMaterial(next.mode)
  /\ job' = next
  /\ before' = {c \in Coordinates : vault[c] # None}
  /\ UNCHANGED registered
  /\ AtDestination

\* With a key on disk nobody is asked; one in the vault is loaded first, and it
\* is high.
OnDiskJob == [NoJob EXCEPT !.stage = "opening"]
VaultJob == [NoJob EXCEPT !.stage = "gating", !.identity = identity.identity]

\* `kovra unpack` of any package, with a token from a file or none.
Unpack(package, custodied, mode, token, force) ==
  /\ custodied => Resolves(mode)
  /\ Start([IF custodied THEN VaultJob ELSE OnDiskJob
             EXCEPT !.package = package, !.mode = mode, !.force = force,
                    !.source = IF token = Nothing THEN "none" ELSE "file", !.token = token])

\* `kovra exchange open` of the package on the stick, with the registered token
\* if there is one.
ExchangeOpen(mode, token, force) ==
  /\ stick.package # Nothing
  /\ Resolves(mode)
  /\ Start([VaultJob EXCEPT !.kit = TRUE, !.package = stick.package, !.mode = mode, !.force = force,
             !.source = IF token # Nothing THEN "file" ELSE IF registered # Nothing THEN "registered" ELSE "none",
             !.token = token])

\* gate_private_key_op; a denial or a timeout is a Fail.
UseKey == job.stage = "gating" /\ Import([job EXCEPT !.stage = "opening"])

Sealed == packages[job.package]

\* open_attended: not past its expiry, and sealed to this key.
Open ==
  /\ job.stage = "opening"
  /\ clock <= Sealed.expires
  /\ Sealed.to = job.identity
  /\ Import([job EXCEPT !.stage = "verifying"])

\* Mutant of Valid: any token that did not expire.
Unexpired(token) == clock <= packages[token].expires

\* verify_token: not expired, and the token of this very package.
Valid(token) == clock <= packages[token].expires /\ token = job.package

VerifyNone ==
  /\ job.stage = "verifying"
  /\ job.source = "none"
  /\ Import([job EXCEPT !.stage = "arming"])

\* A registered token is read only now.
VerifyToken ==
  LET token == IF job.source = "registered" THEN registered ELSE job.token IN
  /\ job.stage = "verifying"
  /\ job.source # "none"
  /\ token # Nothing
  /\ Valid(token)
  /\ Sealed.entries \intersect Prod = {}
  /\ Import([job EXCEPT !.stage = "arming", !.token = token])

\* The TokenConfirmer verifies the token again and keeps what it found; the
\* master key is fetched once for all entries.
Arm ==
  /\ job.stage = "arming"
  /\ Unlocks(job.mode)
  /\ Import([job EXCEPT !.stage = "importing", !.key = MasterKey(job.mode), !.todo = Sealed.entries,
                         !.approving = job.token # Nothing /\ Valid(job.token)])

\* An entry whose present record opens, or that has none.
Looking(c) == job.stage = "importing" /\ c \in job.todo /\ Opens(c, job.key)

\* Mutant of Skips: what exists is imported over.
SkipsNothing(c) == FALSE

Skips(c) == vault[c] # None /\ ~job.force

Skip(c) ==
  /\ Looking(c)
  /\ Skips(c)
  /\ Import([job EXCEPT !.todo = @ \ {c}])

\* A high entry needs somebody, or the token.
Gated(c) == c \in High

GoOn(c, stage) == Import([job EXCEPT !.stage = stage, !.todo = @ \ {c}, !.entry = c])

TakeFree(c) == Looking(c) /\ ~Skips(c) /\ ~Gated(c) /\ GoOn(c, "writing")
AskFirst(c) == Looking(c) /\ ~Skips(c) /\ Gated(c) /\ job.token = Nothing /\ GoOn(c, "asking")
TakeByToken(c) == Looking(c) /\ ~Skips(c) /\ Gated(c) /\ job.approving /\ GoOn(c, "writing")

\* The token was good at first, and expired before the confirmer looked at it.
DeniedByToken(c) ==
  /\ Looking(c) /\ ~Skips(c) /\ Gated(c)
  /\ job.token # Nothing /\ ~job.approving
  /\ Import([job EXCEPT !.todo = @ \ {c}])

\* The broker's answer, see Confirmation: others write the vault meanwhile.
Approved == job.stage = "asking" /\ Import([job EXCEPT !.stage = "writing", !.asked = TRUE])

DeniedOrTimedOut ==
  /\ job.stage = "asking"
  /\ Import([job EXCEPT !.stage = "importing", !.entry = None])

Imported == [from |-> job.package, token |-> job.token, asked |-> job.asked, key |-> job.key]

\* write_record, whatever is there by now.
Write ==
  /\ job.stage = "writing"
  /\ vault' = [vault EXCEPT ![job.entry] = Imported]
  /\ job' = [job EXCEPT !.stage = "importing", !.asked = FALSE, !.entry = None]
  /\ UNCHANGED <<budget, custody, origin, stick, identity, identities, registered, before>>

Finish ==
  /\ job.stage = "importing"
  /\ job.todo = {}
  /\ Import(IF job.kit THEN [job EXCEPT !.stage = "consuming"] ELSE NoJob)

\* `exchange open` removes the registered token if it was not given another.
Consume ==
  /\ job.stage = "consuming"
  /\ registered' = IF job.source = "file" THEN registered ELSE Nothing
  /\ job' = NoJob
  /\ UNCHANGED <<budget, before>>
  /\ AtDestination

\* Any step may fail, and the process may be killed.  What was imported stays.
Fail == job.stage # "idle" /\ Import(NoJob)

-----------------------------------------------------------------------------
Custodian ==
  /\ CustodyNext
  /\ UNCHANGED <<origin, stick, identity, identities, registered, vault, job, before>>

Origin ==
  \/ Tick
  \/ Package \/ ExchangeSeal
  \/ AskToFormat \/ Erase \/ Bootstrap \/ FormatFails

Others ==
  \/ \E mode \in Modes : Keygen(mode) \/ WriteRecipient(mode)
  \/ \E token \in tokens : RegisterToken(token)
  \/ \E c \in Coordinates, mode \in Modes : Set(c, mode) \/ Remove(c, mode)

Importer ==
  \/ \E mode \in Modes, token \in tokens \union {Nothing}, force \in BOOLEAN :
       \/ \E package \in DOMAIN packages, custodied \in BOOLEAN : Unpack(package, custodied, mode, token, force)
       \/ ExchangeOpen(mode, token, force)
  \/ UseKey \/ Open \/ VerifyNone \/ VerifyToken \/ Arm
  \/ \E c \in Coordinates : Skip(c) \/ TakeFree(c) \/ AskFirst(c) \/ TakeByToken(c) \/ DeniedByToken(c)
  \/ Approved \/ DeniedOrTimedOut \/ Write
  \/ Finish \/ Consume \/ Fail

Next == Custodian \/ Origin \/ Others \/ Importer

Spec == Init /\ [][Next]_vars

-----------------------------------------------------------------------------
\* "Holding the stick is not enough", "prod is never packaged": what was imported
\* was sealed in that package, is not prod, and if it is high a person approved it
\* here or the import had that package's own token, although packages, the stick
\* and the registered token may be replaced at any time.
ImportsAreSanctioned ==
  \A c \in Coordinates :
    LET record == vault[c] IN
    record # None /\ record.from # Nothing =>
      /\ c \in packages[record.from].entries
      /\ c \notin Prod
      /\ c \in High => record.asked \/ (record.token = record.from /\ record.token \in tokens)

\* "Already exists (use --force to overwrite)": without --force an import leaves
\* everything as it is that was there when it began, except what others write.
UnforcedImportKeeps ==
  [][job.stage # "idle" /\ ~job.force =>
       \A c \in before : vault'[c] = vault[c] \/ c \notin before']_vars

\* "Already initialized, pass --force", "a different kdf.salt already exists", "a
\* master key already exists": a key that some record needs is in its place, or
\* in a backup, unless it was lost or replaced by --force; also when a command is
\* killed while it rewrites the salt, and when an import still holds an old key.
NothingIsStranded ==
  LET needed == {vault[c].key : c \in {d \in Coordinates : vault[d] # None}}
                  \union (IF identity = None THEN {} ELSE {identity.key})
  IN  \A key \in needed : key.material = stored[key.mode] \/ key \in backups \union givenUp
=============================================================================
