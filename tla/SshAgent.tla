------------------------------- MODULE SshAgent -----------------------------
(***************************************************************************)
(* `kovra ssh-agent`: one foreground process that serves one connection at *)
(* a time (agent/src/daemon.rs) and answers from the keys it loads anew    *)
(* for every request (agent/src/session.rs, CliSessionProvider), while     *)
(* other processes edit the vaults.                                        *)
(*                                                                         *)
(* The bytes of the protocol are left out (a frame is a request, or        *)
(* malformed), and so is the log, which nothing reads.  A client that goes *)
(* away early is noticed when its next frame is read.  Slots fixes one of  *)
(* the orders in which a directory may list its records.                   *)
(***************************************************************************)
EXTENDS Policy, Sequences, SequencesExt

CONSTANTS
  Clients,               \* processes that connect; each has one connection
  Keys,                  \* public blobs
  Slots,                 \* places of a keypair in the order load_keys visits them
  Stock,                 \* the keypairs with a private half the vaults may hold
  AgentFiles,            \* what agent.toml may say
  MaxEdits,              \* bound on the changes of the vaults
  None

Places == [environment : Environments, project : Projects \union {Global}]
Keypairs == [key : Keys, sensitivity : Sensitivities]

\* A request to list the identities has no key.
Frames == [kind : {"identities", "sign"}, key : Keys \union {None}]

\* What went back: a list of keys, a signature, or a failure.  `slot` is the
\* place of the keypair that signed, `attended` that somebody approved.
Replies ==
  [kind : {"identities"}, keys : SUBSET Keys]
    \union [kind : {"signature"}, key : Keys, slot : DOMAIN Slots, attended : BOOLEAN]
    \union [kind : {"failure"}]

ASSUME SshAgentAssumption ==
  /\ Slots \in Seq(Places)
  /\ Stock \subseteq Keypairs
  /\ AgentFiles \subseteq [environments : SUBSET Environments, projects : SUBSET Projects]
  /\ MaxEdits \in Nat
  /\ None \notin Stock \union Keys \union Clients \union Frames \union Replies

\* load_scope: a list that is missing or empty, in a file or for want of one, is
\* any; the operations are fixed, whatever the file says.
LoadScope(file) ==
  [operations   |-> {"metadata", "inject"},
   environments |-> IF file.environments = {} THEN Environments ELSE file.environments,
   projects     |-> IF file.projects = {} THEN Projects \union {Global} ELSE file.projects]

AgentScopes == {LoadScope(file) : file \in AgentFiles}

VARIABLES
  vault,                 \* per slot, the keypair there, or None
  edits,                 \* how often the vaults changed
  scope,                 \* read once, when the agent starts
  pc,                    \* of the agent
  backlog,               \* clients whose connection was not accepted yet
  serving,               \* the client of the connection being handled
  request,               \* what it asked for
  loaded,                \* the keypairs loaded so far for that request
  reply,                 \* history: the last reply on this connection
  held                   \* history: per slot, what it held while that was prepared

connections == <<backlog, serving>>
preparing == <<request, loaded>>
vars == <<vault, edits, scope, pc, connections, preparing, reply, held>>

TypeOK ==
  /\ vault \in [DOMAIN Slots -> Stock \union {None}]
  /\ edits \in 0..MaxEdits
  /\ scope \in AgentScopes
  /\ pc \in {"accepting", "reading", "loading", "confirming", "stopped"}
  /\ backlog \in Seq(Clients)
  /\ serving \in Clients \union {None}
  /\ request \in Frames \union {None}
  /\ loaded \in Seq(Stock \union {None})
  /\ reply \in Replies \union {None}
  /\ held \in [DOMAIN Slots -> SUBSET (Stock \union {None})]

NothingHeld == [s \in DOMAIN Slots |-> {}]

Init ==
  /\ vault \in [DOMAIN Slots -> Stock \union {None}]
  /\ edits = 0
  /\ scope \in AgentScopes
  /\ pc = "accepting"
  /\ backlog = <<>>
  /\ serving = None
  /\ request = None
  /\ loaded = <<>>
  /\ reply = None
  /\ held = NothingHeld

-----------------------------------------------------------------------------
(* Clients.                                                                 *)

Connected(c) == c = serving \/ Contains(backlog, c)

Connect(c) ==
  /\ pc # "stopped"
  /\ ~Connected(c)
  /\ backlog' = Append(backlog, c)
  /\ UNCHANGED <<vault, edits, scope, pc, serving, preparing, reply, held>>

\* The end of a connection, for handle_connection.
Close ==
  /\ pc' = "accepting"
  /\ serving' = None
  /\ request' = None
  /\ loaded' = <<>>
  /\ reply' = None
  /\ held' = NothingHeld
  /\ UNCHANGED <<vault, edits, scope, backlog>>

\* The client closes, or its transport fails.
Leave(c) ==
  /\ pc = "reading"
  /\ serving = c
  /\ Close

-----------------------------------------------------------------------------
(* The agent.                                                               *)

\* Mutant of Accept: the connection that came last goes first.
AcceptLatest ==
  /\ pc = "accepting"
  /\ backlog # <<>>
  /\ serving' = Last(backlog)
  /\ backlog' = Front(backlog)
  /\ pc' = "reading"
  /\ UNCHANGED <<vault, edits, scope, preparing, reply, held>>

Accept ==
  /\ pc = "accepting"
  /\ backlog # <<>>
  /\ serving' = Head(backlog)
  /\ backlog' = Tail(backlog)
  /\ pc' = "reading"
  /\ UNCHANGED <<vault, edits, scope, preparing, reply, held>>

\* Mutant of Answer: the keys are loaded once per connection.
AnswerKeepingKeys(answer) ==
  /\ reply' = answer
  /\ pc' = "reading"
  /\ request' = None
  /\ UNCHANGED <<vault, edits, scope, connections, loaded, held>>

Answer(answer) ==
  /\ reply' = answer
  /\ pc' = "reading"
  /\ request' = None
  /\ loaded' = <<>>
  /\ UNCHANGED <<vault, edits, scope, connections, held>>

Failure == [kind |-> "failure"]

\* The next frame of the client, which may take its time.
Read ==
  /\ pc = "reading"
  /\ request' \in [kind : {"identities"}, key : {None}] \union [kind : {"sign"}, key : Keys]
  /\ pc' = "loading"
  /\ reply' = None
  /\ held' = [s \in DOMAIN Slots |-> {vault[s]}]
  /\ UNCHANGED <<vault, edits, scope, connections, loaded>>

ReadMalformed ==
  /\ pc = "reading"
  /\ Answer(Failure)

\* load_keys: one vault after the other, record by record.
Load ==
  /\ pc = "loading"
  /\ Len(loaded) < Len(Slots)
  /\ loaded' = Append(loaded, vault[Len(loaded) + 1])
  /\ UNCHANGED <<vault, edits, scope, pc, connections, request, reply, held>>

\* A vault that cannot be read ends the connection.
LoadFails ==
  /\ pc = "loading"
  /\ Len(loaded) < Len(Slots)
  /\ Close

Loaded == pc = "loading" /\ Len(loaded) = Len(Slots)

Offered == {s \in DOMAIN loaded : loaded[s] # None}

Addressable(s) == Addresses(scope, Slots[s].environment, Slots[s].project)

AnswerIdentities ==
  /\ Loaded
  /\ request.kind = "identities"
  /\ Answer([kind |-> "identities", keys |-> {loaded[s].key : s \in {t \in Offered : Addressable(t)}}])

\* match_key: the first keypair with the blob, addressable or not.
IsMatch(s) ==
  /\ s \in Offered
  /\ loaded[s].key = request.key
  /\ \A t \in Offered : loaded[t].key = request.key => s <= t

\* Mutant of Verdict: the tier is not asked.
VerdictOfScope(s) == IF Addressable(s) THEN "allow" ELSE "unaddressable"

Verdict(s) ==
  Decide([environment |-> Slots[s].environment, project |-> Slots[s].project,
          sensitivity |-> loaded[s].sensitivity, revealable |-> FALSE,
          operation |-> "inject", surface |-> "cli", origin |-> "human"], scope)

Signature(s, attended) ==
  [kind |-> "signature", key |-> request.key, slot |-> s, attended |-> attended]

\* sign_in_memory gives a signature, or an error that ends the connection.
Sign(s, attended) == Answer(Signature(s, attended)) \/ Close

Signing == Loaded /\ request.kind = "sign"

RefuseToSign ==
  /\ Signing
  /\ \A s \in DOMAIN Slots : IsMatch(s) => Verdict(s) \in {"deny", "unaddressable"}
  /\ Answer(Failure)

SignSilently ==
  /\ Signing
  /\ \E s \in DOMAIN Slots : IsMatch(s) /\ Verdict(s) = "allow" /\ Sign(s, FALSE)

AskFirst ==
  /\ Signing
  /\ \E s \in DOMAIN Slots : IsMatch(s) /\ Verdict(s) = "confirm"
  /\ pc' = "confirming"
  /\ UNCHANGED <<vault, edits, scope, connections, preparing, reply, held>>

\* The broker's answer, see Confirmation; the whole agent waits for it.
Approved ==
  /\ pc = "confirming"
  /\ \E s \in DOMAIN Slots : IsMatch(s) /\ Sign(s, TRUE)

Denied ==
  /\ pc = "confirming"
  /\ Answer(Failure)

TimedOut ==
  /\ pc = "confirming"
  /\ Answer(Failure)

\* Ctrl-C: the process and all its connections end.
Stop ==
  /\ pc # "stopped"
  /\ pc' = "stopped"
  /\ backlog' = <<>>
  /\ serving' = None
  /\ request' = None
  /\ loaded' = <<>>
  /\ reply' = None
  /\ held' = NothingHeld
  /\ UNCHANGED <<vault, edits, scope>>

-----------------------------------------------------------------------------
\* Another process adds, changes or removes a keypair; while one is rewritten
\* there is none, see VaultStore.
Edit(s) ==
  /\ edits < MaxEdits
  /\ edits' = edits + 1
  /\ \E keypair \in (Stock \union {None}) \ {vault[s]} :
       /\ vault' = [vault EXCEPT ![s] = keypair]
       /\ held' = IF pc = "loading" THEN [held EXCEPT ![s] = @ \union {keypair}] ELSE held
  /\ UNCHANGED <<scope, pc, connections, preparing, reply>>

Finished == pc = "stopped" /\ UNCHANGED vars

Agent ==
  \/ Accept
  \/ ReadMalformed \/ Read
  \/ Load \/ LoadFails
  \/ AnswerIdentities
  \/ RefuseToSign \/ SignSilently \/ AskFirst
  \/ Approved \/ Denied \/ TimedOut

Next ==
  \/ \E c \in Clients : Connect(c) \/ Leave(c)
  \/ Agent
  \/ Stop
  \/ \E s \in DOMAIN Slots : Edit(s)
  \/ Finished

\* The agent goes on when nothing but itself is needed, and a confirmation ends
\* at its timeout.  Nobody has to answer it, and no client has to say anything.
AgentRuns ==
  /\ WF_vars(Accept)
  /\ WF_vars(Load \/ LoadFails)
  /\ WF_vars(AnswerIdentities \/ RefuseToSign \/ SignSilently \/ AskFirst)
  /\ WF_vars(TimedOut)

Spec == Init /\ [][Next]_vars
FairSpec == Spec /\ AgentRuns

-----------------------------------------------------------------------------
\* "A high key confirms via the broker on every signature", "a key added/removed
\* while the daemon runs is reflected", an out-of-scope key is not signable:
\* behind a signature there is an addressable place which, at some time since the
\* request was read, held that keypair with a tier that needs nobody, or the
\* signature was approved.
SignaturesAreGoverned ==
  reply # None /\ reply.kind = "signature" =>
    /\ Addressable(reply.slot)
    /\ \E keypair \in held[reply.slot] \ {None} :
         /\ keypair.key = reply.key
         /\ keypair.sensitivity = "high" => reply.attended

\* "Out of scope: unaddressable, not listed": every key of a list was in an
\* addressable place since the request was read, and none is missing that was in
\* one all the time, although the vaults are not read at once.
ListsAreCurrent ==
  reply # None /\ reply.kind = "identities" =>
    LET KeysIn(s) == {keypair.key : keypair \in held[s] \ {None}}
    IN  /\ reply.keys \subseteq UNION {KeysIn(s) : s \in {t \in DOMAIN Slots : Addressable(t)}}
        /\ \A s \in DOMAIN Slots : \A keypair \in Stock :
             Addressable(s) /\ held[s] = {keypair} => keypair.key \in reply.keys

\* Clients that may leave again and again do.
ClientsLeave == \A c \in Clients : SF_vars(Leave(c))

\* One connection is served at a time, through confirmations that nobody may
\* answer: if clients leave, every client that waits is served, however often
\* the others come back.
EveryoneIsServed ==
  ClientsLeave =>
    \A c \in Clients : Contains(backlog, c) ~> (serving = c \/ pc = "stopped")
=============================================================================
