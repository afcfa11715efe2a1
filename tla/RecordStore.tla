---------------------------- MODULE RecordStore -----------------------------
(***************************************************************************)
(* What the vault store promises about one coordinate (core/src/store.rs,  *)
(* core/src/registry.rs).  A write or a deletion happens at one instant,   *)
(* as a whole and just when it succeeds; one that fails, or whose process  *)
(* dies, has changed no record.  The promise is weaker for readers: a      *)
(* write may hide the previous record from the moment before it succeeds,  *)
(* and a write that fails may leave it hidden, but never lost.  Whoever    *)
(* reads a vault gets its record, or learns that there is none to be read. *)
(*                                                                         *)
(* VaultStore implements this specification.                               *)
(***************************************************************************)
CONSTANTS
  Writers,               \* calls of write_record
  Deleters,              \* calls of delete_record
  Readers,               \* calls of resolve_with_key
  Listers,               \* inventories of one or both vaults
  VaultOf,               \* the vault each writer and deleter works on
  NoRecord

Vaults == {"project", "global"}
Mutators == Writers \union Deleters
Calls == Mutators \union Readers \union Listers

VARIABLES
  status,                \* where each call stands
  record,                \* the record of each vault, named after its writer
  hidden,                \* the vaults whose record is not to be read for now
  answer,                \* what each resolution returned
  ahead, listed          \* per inventory: the vaults to come, and what it has

vars == <<status, record, hidden, answer, ahead, listed>>

Status == {"idle", "open", "passed", "done", "failed"}

Init ==
  /\ status = [o \in Calls |-> "idle"]
  /\ \E present \in SUBSET Vaults :
       record = [v \in Vaults |-> IF v \in present THEN v ELSE NoRecord]
  /\ hidden = {}
  /\ answer = [r \in Readers |-> "none"]
  /\ ahead = [l \in Listers |-> {}]
  /\ listed = [l \in Listers |-> {}]

Begin(o) ==
  /\ status[o] = "idle"
  /\ status' = [status EXCEPT ![o] = "open"]

End(o, how) ==
  /\ status[o] = "open"
  /\ status' = [status EXCEPT ![o] = how]

\* What a vault holds after a call that succeeded: `inode`, in view.
Set(v, inode) ==
  /\ record' = [record EXCEPT ![v] = inode]
  /\ hidden' = hidden \ {v}

Start(o) ==
  /\ Begin(o)
  /\ UNCHANGED <<record, hidden, answer, ahead, listed>>

\* The call returns an error, or its process dies.
Fail(m) ==
  /\ End(m, "failed")
  /\ UNCHANGED <<record, hidden, answer, ahead, listed>>

Hide(w) ==
  /\ status[w] = "open"
  /\ record[VaultOf[w]] # NoRecord
  /\ hidden' = hidden \union {VaultOf[w]}
  /\ UNCHANGED <<status, record, answer, ahead, listed>>

Commit(w) ==
  /\ End(w, "done")
  /\ Set(VaultOf[w], w)
  /\ UNCHANGED <<answer, ahead, listed>>

Erase(d) ==
  /\ End(d, "done")
  /\ Set(VaultOf[d], NoRecord)
  /\ UNCHANGED <<answer, ahead, listed>>

-----------------------------------------------------------------------------
(* Readers.  The project's record comes before the global one.              *)

Readable(v) == record[v] # NoRecord /\ v \notin hidden

\* A file that is gone when it is read is an error.
Read(v) == IF Readable(v) THEN record[v] ELSE "io error"

\* The project has nothing to read, so that the global vault is asked.
PassProject(r) ==
  /\ ~Readable("project")
  /\ End(r, "passed")
  /\ UNCHANGED <<record, hidden, answer, ahead, listed>>

Answer(r, result) ==
  /\ answer' = [answer EXCEPT ![r] = result]
  /\ status' = [status EXCEPT ![r] = "done"]
  /\ UNCHANGED <<record, hidden, ahead, listed>>

AnswerFromProject(r) == status[r] = "open" /\ Answer(r, Read("project"))

AnswerFromGlobal(r) == status[r] = "passed" /\ Answer(r, Read("global"))

AnswerNothing(r) ==
  /\ status[r] = "passed"
  /\ ~Readable("global")
  /\ Answer(r, "not found")

StartListing(l) ==
  /\ Begin(l)
  /\ \E V \in (SUBSET Vaults) \ {{}} : ahead' = [ahead EXCEPT ![l] = V]
  /\ UNCHANGED <<record, hidden, answer, listed>>

\* Every vault is left once, and after the last one the inventory is made.
Leave(l, v) ==
  /\ v \in ahead[l]
  /\ ahead' = [ahead EXCEPT ![l] = @ \ {v}]
  /\ IF ahead[l] = {v} THEN End(l, "done") ELSE UNCHANGED status
  /\ UNCHANGED <<record, hidden, answer>>

List(l, v) ==
  /\ Leave(l, v)
  /\ listed' = [listed EXCEPT ![l] = @ \union {<<v, Read(v)>>}]

\* A vault is left out only if it has nothing to read.
Skip(l, v) ==
  /\ ~Readable(v)
  /\ Leave(l, v)
  /\ UNCHANGED listed

-----------------------------------------------------------------------------
Next ==
  \/ \E w \in Writers : Start(w) \/ Hide(w) \/ Commit(w) \/ Fail(w)
  \/ \E d \in Deleters : Start(d) \/ Erase(d) \/ Fail(d)
  \/ \E r \in Readers :
       \/ Start(r)
       \/ PassProject(r)
       \/ AnswerFromProject(r) \/ AnswerFromGlobal(r) \/ AnswerNothing(r)
  \/ \E l \in Listers :
       \/ StartListing(l)
       \/ \E v \in Vaults : List(l, v) \/ Skip(l, v)

Spec == Init /\ [][Next]_vars
=============================================================================
