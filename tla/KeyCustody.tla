----------------------------- MODULE KeyCustody -----------------------------
(***************************************************************************)
(* What unlocks a vault, on one machine: the master key in the OS keyring, *)
(* or the kdf.salt from which Argon2 derives it (cli/src/context.rs), and  *)
(* the commands that make, back up and restore it: `kovra init`,           *)
(* `kovra key export` and `kovra key import` (cli/src/commands.rs).        *)
(*                                                                         *)
(* Random keys and salts are numbered as they are made.  The owner has one *)
(* passphrase, so a salt stands for the key derived from it, and the       *)
(* recovery passphrase of a backup is known.  A command that refuses       *)
(* changes nothing and is left out.                                        *)
(***************************************************************************)
EXTENDS Naturals

CONSTANTS
  Owners,                \* shells in which the owner runs these commands
  MaxMaterial,           \* bound on the keys and salts made
  Budgets                \* bounds: how often a behaviour may do what

\* Commands and losses of this module; the others belong to Exchange.
Bounded == {"commands", "formats", "seals", "ticks", "opens", "edits"}

ASSUME KeyCustodyAssumption ==
  /\ MaxMaterial \in Nat
  /\ Budgets \subseteq [Bounded -> Nat]

\* Which of the two an invocation uses: KOVRA_PASSPHRASE is set, or not.
Modes == {"keyring", "passphrase"}

Absent == 0
Torn == MaxMaterial + 1  \* a kdf.salt that was truncated and not yet written
Material == 1..MaxMaterial

\* A master key.
MasterKeys == [mode : Modes, material : Material]

\* What an encrypted backup carries.
Backups == [mode : Modes, material : Material \union {Torn}]

Works ==
  [op : {"idle"}]
    \union [op : {"storing", "filling"}, mode : Modes, material : Material \union {Torn}, force : BOOLEAN]
    \union [op : {"asking", "delivering"}, mode : Modes, material : Material \union {Torn}]

VARIABLES
  budget,                \* what is left of one of Budgets
  stored,                \* per mode, what is in its place
  made,                  \* how many keys and salts were made
  work,                  \* the command that each owner is running
  backups,               \* delivered, and kept by the owner
  givenUp                \* history: the keys that were lost or replaced by --force

custody == <<stored, made, work, backups, givenUp>>

CustodyTypeOK ==
  /\ budget \in [Bounded -> Nat]
  /\ stored \in [Modes -> {Absent, Torn} \union Material]
  /\ made \in 0..MaxMaterial
  /\ work \in [Owners -> Works]
  /\ backups \subseteq Backups
  /\ givenUp \subseteq MasterKeys

CustodyInit ==
  /\ budget \in Budgets
  /\ stored = [mode \in Modes |-> Absent]
  /\ made = 0
  /\ work = [owner \in Owners |-> [op |-> "idle"]]
  /\ backups = {}
  /\ givenUp = {}

\* Ctx::master_key can give a key: a salt that is too short derives none.
Unlocks(mode) == stored[mode] \in Material

MasterKey(mode) == [mode |-> mode, material |-> stored[mode]]

Idle(owner) == work[owner].op = "idle"

Counted(kind) == budget[kind] > 0 /\ budget' = [budget EXCEPT ![kind] = @ - 1]
Becomes(owner, next) == work' = [work EXCEPT ![owner] = next]

Store(mode, material, force) ==
  [op |-> "storing", mode |-> mode, material |-> material, force |-> force]

-----------------------------------------------------------------------------
(* kovra init                                                               *)

\* Mutant of HasMaterial: a salt is never found.
HasKey(mode) == mode = "keyring" /\ Unlocks(mode)

\* A salt that exists counts, torn or not; a key must be readable.
HasMaterial(mode) == stored[mode] # Absent

\* It refuses to replace what is there, unless told to.
StartInit(owner, mode, force) ==
  /\ Counted("commands")
  /\ Idle(owner)
  /\ HasMaterial(mode) => force
  /\ made < MaxMaterial
  /\ made' = made + 1
  /\ Becomes(owner, Store(mode, made + 1, force))
  /\ UNCHANGED <<stored, backups, givenUp>>

\* What --force replaces is given up.
Replace(mode, material, force) ==
  givenUp' = IF force /\ Unlocks(mode) /\ stored[mode] # material
             THEN givenUp \union {MasterKey(mode)} ELSE givenUp

PutKey(owner) ==
  /\ work[owner].op = "storing"
  /\ work[owner].mode = "keyring"
  /\ stored' = [stored EXCEPT !["keyring"] = work[owner].material]
  /\ Replace("keyring", work[owner].material, work[owner].force)
  /\ Becomes(owner, [op |-> "idle"])
  /\ UNCHANGED <<budget, made, backups>>

\* fs::write truncates the file, then writes it.
TruncateSalt(owner) ==
  /\ work[owner].op = "storing"
  /\ work[owner].mode = "passphrase"
  /\ stored' = [stored EXCEPT !["passphrase"] = Torn]
  /\ Replace("passphrase", work[owner].material, work[owner].force)
  /\ Becomes(owner, [work[owner] EXCEPT !.op = "filling"])
  /\ UNCHANGED <<budget, made, backups>>

FillSalt(owner) ==
  /\ work[owner].op = "filling"
  /\ stored' = [stored EXCEPT !["passphrase"] = work[owner].material]
  /\ Becomes(owner, [op |-> "idle"])
  /\ UNCHANGED <<budget, made, backups, givenUp>>

-----------------------------------------------------------------------------
(* kovra key export                                                         *)

\* The salt is read as it is, the key through the keyring.
CanExport(mode) == IF mode = "passphrase" THEN stored[mode] # Absent ELSE Unlocks(mode)

StartExport(owner, mode) ==
  /\ Counted("commands")
  /\ Idle(owner)
  /\ CanExport(mode)
  /\ Becomes(owner, [op |-> "asking", mode |-> mode, material |-> stored[mode]])
  /\ UNCHANGED <<stored, made, backups, givenUp>>

\* The broker's answer, see Confirmation.
ExportApproved(owner) ==
  /\ work[owner].op = "asking"
  /\ Becomes(owner, [work[owner] EXCEPT !.op = "delivering"])
  /\ UNCHANGED <<budget, stored, made, backups, givenUp>>

\* To the file, the clipboard, 1Password or standard output, as it was read.
Deliver(owner) ==
  /\ work[owner].op = "delivering"
  /\ backups' = backups \union {[mode |-> work[owner].mode, material |-> work[owner].material]}
  /\ Becomes(owner, [op |-> "idle"])
  /\ UNCHANGED <<budget, stored, made, givenUp>>

-----------------------------------------------------------------------------
(* kovra key import                                                         *)

\* restore_backup: any readable key is in the way, a salt only if it differs.
MayRestore(backup, force) ==
  \/ force
  \/ backup.mode = "keyring" /\ ~Unlocks("keyring")
  \/ backup.mode = "passphrase" /\ stored["passphrase"] \in {Absent, backup.material}

\* A backup says where it belongs, whatever mode the invocation is in.
StartRestore(owner, backup, force) ==
  /\ Counted("commands")
  /\ Idle(owner)
  /\ MayRestore(backup, force)
  /\ Becomes(owner, Store(backup.mode, backup.material, force))
  /\ UNCHANGED <<stored, made, backups, givenUp>>

-----------------------------------------------------------------------------
\* The command ends early: refused or timed out, an error, or killed.
Stop(owner) ==
  /\ ~Idle(owner)
  /\ Becomes(owner, [op |-> "idle"])
  /\ UNCHANGED <<budget, stored, made, backups, givenUp>>

\* The keyring, or the file, is lost.
Lose(mode) ==
  /\ Counted("commands")
  /\ HasMaterial(mode)
  /\ stored' = [stored EXCEPT ![mode] = Absent]
  /\ givenUp' = IF Unlocks(mode) THEN givenUp \union {MasterKey(mode)} ELSE givenUp
  /\ UNCHANGED <<made, work, backups>>

CustodyNext ==
  \/ \E owner \in Owners :
       \/ \E mode \in Modes, force \in BOOLEAN : StartInit(owner, mode, force)
       \/ PutKey(owner) \/ TruncateSalt(owner) \/ FillSalt(owner)
       \/ \E mode \in Modes : StartExport(owner, mode)
       \/ ExportApproved(owner) \/ Deliver(owner)
       \/ \E backup \in backups, force \in BOOLEAN : StartRestore(owner, backup, force)
       \/ Stop(owner)
  \/ \E mode \in Modes : Lose(mode)
=============================================================================
