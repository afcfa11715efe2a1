------------------------------ MODULE VaultStore ----------------------------
(***************************************************************************)
(* One coordinate in the sealed-file store (core/src/store.rs) and its     *)
(* resolution (core/src/registry.rs).  The coordinate may have a record in *)
(* the project vault, which shadows the global one, and in the global      *)
(* vault.  A record is three paths: <id>.sec, <id>.sec.tmp, <id>.sec.bak.  *)
(* The store takes no lock, so one action is one file-system call of one   *)
(* of the processes that write, delete or resolve the coordinate or list   *)
(* the vaults, and a writer may be killed between two calls.               *)
(*                                                                         *)
(* A path links to an inode or to nothing; an inode is named after the     *)
(* writer, or the initial record of a vault, that created it.              *)
(***************************************************************************)
EXTENDS Naturals, FiniteSets, Sequences

CONSTANTS
  Writers,               \* calls of write_record
  Deleters,              \* calls of delete_record
  Readers,               \* calls of resolve_with_key (default scope, one project)
  Listers,               \* inventories: load_all, vault after vault
  VaultOf,               \* the vault each writer and deleter works on
  Exclusive,             \* TRUE: callers never mutate one vault at the same time
  Crashes,               \* TRUE: a writer may be killed half-way
  NoFile

Vaults == {"project", "global"}
Mutators == Writers \union Deleters
Inodes == Writers \union Vaults
Link == Inodes \union {NoFile}

ASSUME StoreAssumption ==
  /\ VaultOf \in [Mutators -> Vaults]
  /\ Exclusive \in BOOLEAN /\ Crashes \in BOOLEAN
  /\ NoFile \notin Inodes
  /\ Inodes \intersect {"none", "not found", "io error", "corrupt", "torn", "empty"} = {}
  /\ Writers \intersect Deleters = {} /\ Mutators \intersect Readers = {}
  /\ Listers \intersect (Mutators \union Readers) = {}
  /\ Vaults \intersect (Mutators \union Readers) = {}

VARIABLES
  pc,                    \* where each call stands
  sec, tmp, bak,         \* the three paths, per vault
  fd, content,           \* the temporary each writer has open; the inodes
  got,                   \* what each resolution returned
  plan, named, rows,     \* per inventory: the vaults it has not finished, the
                         \* files found in the first of them and not yet read,
                         \* what it loaded and what it quarantined
  stored,                \* history: the record each vault should hold
  shadowed               \* history: the project record was stored throughout
                         \* the resolution

disk == <<sec, tmp, bak, fd, content>>
listing == <<plan, named, rows>>
reading == <<got, shadowed, listing>>
vars == <<pc, disk, reading, stored>>

Calls == Mutators \union Readers \union Listers

\* An inode holds one writer's whole frame, what a shorter frame leaves of a
\* longer one, or nothing yet.
Contents == Inodes \union {"torn", "empty"}

WriterPc == {"creating", "writing", "checking", "rotating", "placing"}
DeleterPc == {"looking", "removing"}
ReaderPc == {"project", "reading project", "global", "reading global"}
ListerPc == {"scanning", "loading"}
Pc ==
  {"idle", "done", "failed", "dead"} \union WriterPc \union DeleterPc
    \union ReaderPc \union ListerPc

Results == {"none", "not found", "io error", "corrupt"} \union Inodes

-----------------------------------------------------------------------------
(* Which vaults an inventory loads, and in which order.                     *)

BothVaultsInOrder == <<"global", "project">>

\* `kovra list`: one project, or the global vault and then every project.
CliList == {BothVaultsInOrder, <<"project">>}
\* GET /api/secrets: likewise.
WebList == {BothVaultsInOrder, <<"project">>}
\* list_visible of an MCP session, before its scope leaves rows out.
SessionList == {BothVaultsInOrder}
\* The records `doctor` compares .env.refs with: the project only if it is named.
DoctorRecords == {<<"global">>, BothVaultsInOrder}
\* The tiers `kovra audit` filters events by.
AuditTiers == {BothVaultsInOrder}
\* What `package` and `exchange seal` take entries from.
SealScope == {<<"global">>, <<"project">>}

Plans ==
  UNION {CliList, WebList, SessionList, DoctorRecords, AuditTiers, SealScope}

Rests == {Tail(p) : p \in Plans} \union Plans

TypeOK ==
  /\ pc \in [Calls -> Pc]
  /\ sec \in [Vaults -> Link]
  /\ tmp \in [Vaults -> Link]
  /\ bak \in [Vaults -> Link]
  /\ fd \in [Writers -> Link]
  /\ content \in [Inodes -> Contents]
  /\ got \in [Readers -> Results]
  /\ plan \in [Listers -> Rests]
  /\ named \in [Listers -> SUBSET {"sec"}]
  /\ rows \in [Listers -> SUBSET (Vaults \X ({"io error", "corrupt"} \union Inodes))]
  /\ stored \in [Vaults -> Link]
  /\ shadowed \in [Readers -> BOOLEAN]

\* Each vault holds a record, or not.
Init ==
  /\ pc = [o \in Calls |-> "idle"]
  /\ \E present \in SUBSET Vaults :
       sec = [v \in Vaults |-> IF v \in present THEN v ELSE NoFile]
  /\ tmp = [v \in Vaults |-> NoFile]
  /\ bak = [v \in Vaults |-> NoFile]
  /\ fd = [w \in Writers |-> NoFile]
  /\ content = [i \in Inodes |-> IF i \in Vaults THEN i ELSE "empty"]
  /\ got = [r \in Readers |-> "none"]
  /\ plan = [l \in Listers |-> <<>>]
  /\ named = [l \in Listers |-> {}]
  /\ rows = [l \in Listers |-> {}]
  /\ stored = sec
  /\ shadowed = [r \in Readers |-> FALSE]

Goto(o, label) == pc' = [pc EXCEPT ![o] = label]

Mutating(m) == pc[m] \in WriterPc \union DeleterPc

Quiet(v) == \A m \in Mutators : VaultOf[m] = v => ~Mutating(m)

\* The callers' discipline when Exclusive: nothing in the store enforces it.
MayStart(m) == Exclusive => Quiet(VaultOf[m])

-----------------------------------------------------------------------------
(* write_record                                                             *)

StartWrite(w) ==
  /\ pc[w] = "idle"
  /\ MayStart(w)
  /\ Goto(w, "creating")
  /\ UNCHANGED <<disk, reading, stored>>

\* Mutant of CreateTmp: the record is written in place.
CreateInPlace(w) ==
  /\ pc[w] = "creating"
  /\ LET v == VaultOf[w]
         inode == IF sec[v] = NoFile THEN w ELSE sec[v]
     IN  /\ tmp' = [tmp EXCEPT ![v] = inode]
         /\ fd' = [fd EXCEPT ![w] = inode]
         /\ content' = [content EXCEPT ![inode] = "empty"]
  /\ Goto(w, "writing")
  /\ UNCHANGED <<sec, bak, reading, stored>>

\* File::create: a temporary that is already there is truncated and shared.
CreateTmp(w) ==
  /\ pc[w] = "creating"
  /\ LET v == VaultOf[w]
         inode == IF tmp[v] = NoFile THEN w ELSE tmp[v]
     IN  /\ tmp' = [tmp EXCEPT ![v] = inode]
         /\ fd' = [fd EXCEPT ![w] = inode]
         /\ content' = [content EXCEPT ![inode] = "empty"]
  /\ Goto(w, "writing")
  /\ UNCHANGED <<sec, bak, reading, stored>>

\* write_all, fsync and close.  Another writer's frame already there, if it is
\* the longer one, keeps its tail.
WriteTmp(w) ==
  /\ pc[w] = "writing"
  /\ \E left \in {w, "torn"} :
       /\ content[fd[w]] = "empty" => left = w
       /\ content' = [content EXCEPT ![fd[w]] = left]
  /\ fd' = [fd EXCEPT ![w] = NoFile]
  /\ Goto(w, "checking")
  /\ UNCHANGED <<sec, tmp, bak, reading, stored>>

\* restrict(&tmp), then path.exists().
CheckPrevious(w) ==
  /\ pc[w] = "checking"
  /\ LET v == VaultOf[w]
     IN  IF tmp[v] = NoFile THEN Goto(w, "failed")
         ELSE Goto(w, IF sec[v] = NoFile THEN "placing" ELSE "rotating")
  /\ UNCHANGED <<disk, reading, stored>>

\* Mutant of RotatePrevious: the previous record is removed, not kept as .bak.
DropPrevious(w) ==
  /\ pc[w] = "rotating"
  /\ sec' = [sec EXCEPT ![VaultOf[w]] = NoFile]
  /\ Goto(w, "placing")
  /\ UNCHANGED <<tmp, bak, fd, content, reading, stored>>

\* rename(path, bak): from here until Place the record is not at its path.
RotatePrevious(w) ==
  /\ pc[w] = "rotating"
  /\ LET v == VaultOf[w]
     IN  IF sec[v] = NoFile THEN Goto(w, "failed") /\ UNCHANGED disk
         ELSE /\ bak' = [bak EXCEPT ![v] = sec[v]]
              /\ sec' = [sec EXCEPT ![v] = NoFile]
              /\ Goto(w, "placing")
              /\ UNCHANGED <<tmp, fd, content>>
  /\ UNCHANGED <<reading, stored>>

\* rename(tmp, path): the write has happened.
Place(w) ==
  /\ pc[w] = "placing"
  /\ LET v == VaultOf[w]
     IN  IF tmp[v] = NoFile THEN Goto(w, "failed") /\ UNCHANGED <<disk, stored>>
         ELSE /\ sec' = [sec EXCEPT ![v] = tmp[v]]
              /\ tmp' = [tmp EXCEPT ![v] = NoFile]
              /\ stored' = [stored EXCEPT ![v] = w]
              /\ Goto(w, "done")
              /\ UNCHANGED <<bak, fd, content>>
  /\ UNCHANGED reading

\* The writing process is killed; it leaves its files as they are.
Crash(w) ==
  /\ Crashes
  /\ pc[w] \in WriterPc
  /\ fd' = [fd EXCEPT ![w] = NoFile]
  /\ Goto(w, "dead")
  /\ UNCHANGED <<sec, tmp, bak, content, reading, stored>>

Write(w) ==
  \/ StartWrite(w)
  \/ CreateTmp(w)
  \/ WriteTmp(w)
  \/ CheckPrevious(w)
  \/ RotatePrevious(w)
  \/ Place(w)

-----------------------------------------------------------------------------
(* delete_record                                                            *)

StartDelete(d) ==
  /\ pc[d] = "idle"
  /\ MayStart(d)
  /\ Goto(d, "looking")
  /\ UNCHANGED <<disk, reading, stored>>

\* What a deletion leaves behind: no record, and resolutions under way no
\* longer have a project record throughout.  The .bak stays.
Forget(v) ==
  /\ stored' = [stored EXCEPT ![v] = NoFile]
  /\ shadowed' = IF v = "project" THEN [r \in Readers |-> FALSE] ELSE shadowed
  /\ UNCHANGED <<got, listing>>

\* path.exists(): nothing to remove is a success.
LookBeforeRemove(d) ==
  /\ pc[d] = "looking"
  /\ IF sec[VaultOf[d]] = NoFile
     THEN Goto(d, "done") /\ Forget(VaultOf[d])
     ELSE Goto(d, "removing") /\ UNCHANGED <<reading, stored>>
  /\ UNCHANGED disk

Remove(d) ==
  /\ pc[d] = "removing"
  /\ IF sec[VaultOf[d]] = NoFile
     THEN Goto(d, "failed") /\ UNCHANGED <<reading, stored>>
     ELSE Goto(d, "done") /\ Forget(VaultOf[d])
  /\ sec' = [sec EXCEPT ![VaultOf[d]] = NoFile]
  /\ UNCHANGED <<tmp, bak, fd, content>>

Delete(d) == StartDelete(d) \/ LookBeforeRemove(d) \/ Remove(d)

-----------------------------------------------------------------------------
(* resolve_with_key, default scope: project first, then global.             *)

StartResolve(r) ==
  /\ pc[r] = "idle"
  /\ shadowed' = [shadowed EXCEPT ![r] = stored["project"] # NoFile]
  /\ Goto(r, "project")
  /\ UNCHANGED <<disk, got, listing, stored>>

Answer(r, result) ==
  /\ got' = [got EXCEPT ![r] = result]
  /\ Goto(r, "done")

\* read_record: path.exists(), and then fs::read.
LookInProject(r) ==
  /\ pc[r] = "project"
  /\ Goto(r, IF sec["project"] = NoFile THEN "global" ELSE "reading project")
  /\ UNCHANGED <<disk, reading, stored>>

LookInGlobal(r) ==
  /\ pc[r] = "global"
  /\ IF sec["global"] = NoFile THEN Answer(r, "not found")
     ELSE Goto(r, "reading global") /\ UNCHANGED got
  /\ UNCHANGED <<disk, shadowed, listing, stored>>

\* What reading and opening a file gives.  A frame that does not parse or
\* authenticate is an error, and so is a path that is gone.
Opened(inode) ==
  IF inode = NoFile THEN "io error"
  ELSE IF content[inode] \in Inodes THEN content[inode] ELSE "corrupt"

\* An error, of either kind, does not fall through to the global vault.
ReadFrom(r, v) ==
  /\ Answer(r, Opened(sec[v]))
  /\ UNCHANGED <<disk, shadowed, listing, stored>>

ReadProject(r) == pc[r] = "reading project" /\ ReadFrom(r, "project")
ReadGlobal(r) == pc[r] = "reading global" /\ ReadFrom(r, "global")

Resolve(r) ==
  \/ StartResolve(r)
  \/ LookInProject(r)
  \/ LookInGlobal(r)
  \/ ReadProject(r)
  \/ ReadGlobal(r)

-----------------------------------------------------------------------------
(* load_all of each vault of a plan.  The directory is read in one piece.    *)

\* Mutant of Records: the rotated copies are loaded too.
RecordsAndBackups(v) ==
  {path \in {"sec", "bak"} : (IF path = "sec" THEN sec[v] ELSE bak[v]) # NoFile}

\* The files of a vault that are records: no .tmp and no .bak.
Records(v) == {path \in {"sec"} : sec[v] # NoFile}

StartInventory(l) ==
  /\ pc[l] = "idle"
  /\ \E p \in Plans : plan' = [plan EXCEPT ![l] = p]
  /\ Goto(l, "scanning")
  /\ UNCHANGED <<disk, got, shadowed, named, rows, stored>>

\* To the next vault, if there is one.
LeaveVault(l) ==
  /\ plan' = [plan EXCEPT ![l] = Tail(@)]
  /\ Goto(l, IF Len(plan[l]) = 1 THEN "done" ELSE "scanning")

ReadDir(l) ==
  /\ pc[l] = "scanning"
  /\ LET found == Records(Head(plan[l]))
     IN  /\ named' = [named EXCEPT ![l] = found]
         /\ IF found = {} THEN LeaveVault(l)
            ELSE Goto(l, "loading") /\ UNCHANGED plan
  /\ UNCHANGED <<disk, got, shadowed, rows, stored>>

\* One file.  Whatever is wrong with it, it is quarantined and the scan goes on.
LoadEntry(l) ==
  /\ pc[l] = "loading"
  /\ \E path \in named[l] :
       LET v == Head(plan[l])
           file == IF path = "sec" THEN sec[v] ELSE bak[v]
       IN  /\ rows' = [rows EXCEPT ![l] = @ \union {<<v, Opened(file)>>}]
           /\ named' = [named EXCEPT ![l] = @ \ {path}]
           /\ IF named[l] = {path} THEN LeaveVault(l) ELSE UNCHANGED <<pc, plan>>
  /\ UNCHANGED <<disk, got, shadowed, stored>>

Inventory(l) == StartInventory(l) \/ ReadDir(l) \/ LoadEntry(l)

-----------------------------------------------------------------------------
Finished ==
  /\ \A o \in Calls : pc[o] \in {"done", "failed", "dead"}
  /\ UNCHANGED vars

Next ==
  \/ \E w \in Writers : Write(w) \/ Crash(w)
  \/ \E d \in Deleters : Delete(d)
  \/ \E r \in Readers : Resolve(r)
  \/ \E l \in Listers : Inventory(l)
  \/ Finished

Spec == Init /\ [][Next]_vars

-----------------------------------------------------------------------------
\* What can be read at the path is, whole, the last record that was stored:
\* never a half-written frame, an overwritten record or a deleted one.
ReadableIsLastStored ==
  \A v \in Vaults : sec[v] # NoFile => content[sec[v]] = stored[v]

\* Whenever a writer dies, the record that was last stored is still there in
\* full, at its path or as its .bak: a crash costs no secret.
NothingLost ==
  \A v \in Vaults : stored[v] # NoFile =>
    \E copy \in {sec[v], bak[v]} : copy # NoFile /\ content[copy] = stored[v]

\* What a resolution answers with and what an inventory lists is the record the
\* vault has stored when its file is read: never the copy that a rewrite or a
\* deletion left behind, and never a file that nobody tampered with reported as
\* corrupt.  All that a writer at work can do to a reader is to make the file go.
ReadsAreTrue ==
  [][/\ \A r \in Readers :
          /\ ReadProject(r) => got'[r] \in {"io error", stored["project"]}
          /\ ReadGlobal(r) => got'[r] \in {"io error", stored["global"]}
     /\ \A l \in Listers : \A row \in rows'[l] \ rows[l] :
          row[2] \in {"io error", stored[row[1]]}]_vars

-----------------------------------------------------------------------------
(* The store implements its promise.                                        *)

\* Where a call stands for those who do not see the files.
StatusOf(o) ==
  CASE pc[o] \in {"idle", "done", "failed"} -> pc[o]
    [] pc[o] = "dead" -> "failed"
    [] pc[o] \in {"global", "reading global"} -> "passed"
    [] OTHER -> "open"

\* The record of a vault is what the file at the path reads; when there is none,
\* though a record was stored, what its .bak reads.
RecordOf(v) ==
  IF sec[v] # NoFile THEN content[sec[v]]
  ELSE IF stored[v] # NoFile THEN content[bak[v]] ELSE NoFile

Hidden == {v \in Vaults : sec[v] = NoFile /\ stored[v] # NoFile}

VaultsIn(p) == {p[k] : k \in DOMAIN p}

Promise == INSTANCE RecordStore WITH
  NoRecord <- NoFile,
  status <- [o \in Calls |-> StatusOf(o)],
  record <- [v \in Vaults |-> RecordOf(v)],
  hidden <- Hidden,
  answer <- got,
  ahead <- [l \in Listers |-> VaultsIn(plan[l])],
  listed <- rows

\* "Writes are atomic": every write and deletion takes effect at one instant, if it
\* succeeds and not otherwise; whoever resolves or lists meanwhile gets the record
\* that the vault has then, lists each vault once, and misses a record only while
\* there is none at its path.
ImplementsRecordStore == Promise!Spec

\* "A project vault shadows the global at the exact coordinate", and "writes are
\* atomic": while the project has a record stored, no resolution answers with
\* the global one, or with none.
ShadowHolds ==
  \A r \in Readers : shadowed[r] =>
    got[r] \notin {"global", "not found"} \union {w \in Writers : VaultOf[w] = "global"}
=============================================================================
