---------------------------- MODULE SshAgent_proofs --------------------------
(***************************************************************************)
(* SshAgent for any number of clients, keys, vaults and edits.             *)
(***************************************************************************)
EXTENDS SshAgent, TLAPS

\* What is being prepared comes from what the vaults held since the request
\* was read; between requests nothing is kept.
PreparedFromHeld ==
  /\ Len(loaded) <= Len(Slots)
  /\ \A s \in DOMAIN loaded : loaded[s] \in held[s]
  /\ pc \in {"loading", "confirming"} => request \in Frames
  /\ pc = "loading" => reply = None
  /\ pc = "loading" => \A s \in DOMAIN Slots : vault[s] \in held[s]
  /\ pc \notin {"loading", "confirming"} => loaded = <<>>

\* Nobody is asked about a key that is not addressable.
AskedInScope ==
  pc = "confirming" => \E s \in DOMAIN Slots : IsMatch(s) /\ Addressable(s)

IInv ==
  /\ TypeOK
  /\ PreparedFromHeld
  /\ AskedInScope
  /\ SignaturesAreGoverned
  /\ ListsAreCurrent
-----------------------------------------------------------------------------
LEMMA SlotsAreIndices == DOMAIN Slots = 1..Len(Slots) /\ Len(Slots) \in Nat
<1>1. Slots \in Seq(Places)
  BY SshAgentAssumption
<1> QED
  BY <1>1

LEMMA NoneIsNothing ==
  /\ None \notin Stock
  /\ None \notin Frames
  /\ None \notin Replies
BY SshAgentAssumption

\* The funnel asks the scope first, and lets a high key through unasked never.
LEMMA VerdictIsGoverned ==
  ASSUME NEW s
  PROVE  /\ Verdict(s) \in {"allow", "confirm"} => Addressable(s)
         /\ Verdict(s) = "allow" => loaded[s].sensitivity # "high"
BY DEF Verdict, Decide, Addressable, InjectRequiresConfirmation

LEMMA OneMatch ==
  ASSUME TypeOK, NEW s \in DOMAIN loaded, NEW t \in DOMAIN loaded, IsMatch(s), IsMatch(t)
  PROVE  s = t
<1>1. s \in Nat /\ t \in Nat
  BY DEF TypeOK
<1>2. s <= t /\ t <= s
  BY DEF IsMatch, Offered
<1> QED
  BY <1>1, <1>2

LEMMA InitIInv == Init => IInv
<1> SUFFICES ASSUME Init PROVE IInv
  OBVIOUS
<1>1. TypeOK
  BY SshAgentAssumption DEF Init, TypeOK, NothingHeld
<1>2. PreparedFromHeld
  BY SlotsAreIndices DEF Init, PreparedFromHeld
<1>3. AskedInScope /\ SignaturesAreGoverned /\ ListsAreCurrent
  BY DEF Init, AskedInScope, SignaturesAreGoverned, ListsAreCurrent
<1> QED
  BY <1>1, <1>2, <1>3 DEF IInv

\* A connection that ends leaves nothing behind.
LEMMA CloseKeepsIInv == ASSUME IInv, Close PROVE IInv'
<1>1. TypeOK'
  BY DEF IInv, TypeOK, Close, NothingHeld
<1>2. PreparedFromHeld'
  BY SlotsAreIndices DEF Close, PreparedFromHeld
<1>3. (AskedInScope /\ SignaturesAreGoverned /\ ListsAreCurrent)'
  BY DEF Close, AskedInScope, SignaturesAreGoverned, ListsAreCurrent
<1> QED
  BY <1>1, <1>2, <1>3 DEF IInv

\* An answer is in order if it is governed and current.
LEMMA AnswerKeepsIInv ==
  ASSUME IInv, NEW answer \in Replies, Answer(answer), SignaturesAreGoverned', ListsAreCurrent'
  PROVE  IInv'
<1>1. TypeOK'
  BY DEF IInv, TypeOK, Answer, connections
<1>2. PreparedFromHeld'
  BY SlotsAreIndices DEF Answer, PreparedFromHeld
<1>3. AskedInScope'
  BY DEF Answer, AskedInScope
<1> QED
  BY <1>1, <1>2, <1>3 DEF IInv

LEMMA FailureKeepsIInv == ASSUME IInv, Answer(Failure) PROVE IInv'
<1>1. Failure \in Replies /\ Failure.kind = "failure"
  BY DEF Failure, Replies
<1>2. SignaturesAreGoverned' /\ ListsAreCurrent'
  BY <1>1 DEF Answer, SignaturesAreGoverned, ListsAreCurrent
<1> QED
  BY <1>1, <1>2, AnswerKeepsIInv

\* A signature of a matching, addressable keypair, approved if that is high.
LEMMA SignKeepsIInv ==
  ASSUME IInv, pc \in {"loading", "confirming"},
         NEW s \in DOMAIN Slots, NEW attended \in BOOLEAN,
         IsMatch(s), Addressable(s), loaded[s].sensitivity = "high" => attended,
         Sign(s, attended)
  PROVE  IInv'
<1>1. CASE Close
  BY <1>1, CloseKeepsIInv
<1>2. CASE Answer(Signature(s, attended))
  <2>1. s \in DOMAIN loaded /\ loaded[s] # None /\ loaded[s].key = request.key
    BY DEF IsMatch, Offered
  <2>2. loaded[s] \in Stock /\ loaded[s] \in held[s] \ {None}
    BY <2>1 DEF IInv, TypeOK, PreparedFromHeld
  <2>3. request.key \in Keys
    BY <2>1, <2>2, SshAgentAssumption DEF Keypairs
  <2>4. Signature(s, attended) \in Replies
    BY <2>3 DEF Signature, Replies
  <2>5. /\ reply' = Signature(s, attended)
        /\ held' = held
        /\ Addressable(s)'
    BY <1>2 DEF Answer, Addressable
  <2>6. SignaturesAreGoverned'
    BY <2>1, <2>2, <2>5 DEF SignaturesAreGoverned, Signature
  <2>7. ListsAreCurrent'
    BY <2>5 DEF ListsAreCurrent, Signature
  <2> QED
    BY <1>2, <2>4, <2>6, <2>7, AnswerKeepsIInv
<1> QED
  BY <1>1, <1>2 DEF Sign

LEMMA ListKeepsIInv == ASSUME IInv, AnswerIdentities PROVE IInv'
<1> DEFINE listed == {t \in Offered : Addressable(t)}
<1> DEFINE answer == [kind |-> "identities", keys |-> {loaded[s].key : s \in listed}]
<1>1. Answer(answer) /\ Len(loaded) = Len(Slots)
  BY DEF AnswerIdentities, Loaded
<1>2. \A s \in Offered : /\ s \in DOMAIN Slots
                         /\ loaded[s] \in Stock
                         /\ loaded[s] \in held[s] \ {None}
  BY <1>1, SlotsAreIndices DEF Offered, IInv, TypeOK, PreparedFromHeld
<1>3. answer.keys \subseteq Keys
  BY <1>2, SshAgentAssumption DEF Keypairs
<1>4. answer \in Replies
  BY <1>3 DEF Replies
<1>5. /\ reply' = answer
      /\ held' = held
      /\ \A s : Addressable(s)' <=> Addressable(s)
  BY <1>1 DEF Answer, Addressable
<1> DEFINE KeysIn(s) == {keypair.key : keypair \in held[s] \ {None}}
<1>6. answer.keys \subseteq UNION {KeysIn(s) : s \in {t \in DOMAIN Slots : Addressable(t)}}
  BY <1>2
<1>7. ASSUME NEW s \in DOMAIN Slots, NEW keypair \in Stock,
             Addressable(s), held[s] = {keypair}
      PROVE  keypair.key \in answer.keys
  <2>1. s \in DOMAIN loaded /\ loaded[s] = keypair
    BY <1>1, <1>7, SlotsAreIndices DEF IInv, TypeOK, PreparedFromHeld
  <2>2. s \in listed
    BY <1>7, <2>1, NoneIsNothing DEF Offered
  <2> QED
    BY <2>1, <2>2
<1> HIDE DEF listed
<1>8. ListsAreCurrent'
  BY <1>5, <1>6, <1>7 DEF ListsAreCurrent
<1>9. SignaturesAreGoverned'
  BY <1>5 DEF SignaturesAreGoverned
<1> HIDE DEF answer
<1> QED
  BY <1>1, <1>4, <1>8, <1>9, AnswerKeepsIInv

\* Clients come and are accepted: nothing that is being prepared changes.
LEMMA QueueKeepsIInv ==
  ASSUME IInv, (\E c \in Clients : Connect(c)) \/ Accept
  PROVE  IInv'
<1>1. /\ UNCHANGED <<vault, edits, scope, preparing, reply, held>>
      /\ pc' = pc \/ (pc = "accepting" /\ pc' = "reading")
  BY DEF Connect, Accept
<1>2. TypeOK'
  <2>1. CASE \E c \in Clients : Connect(c)
    BY <2>1 DEF IInv, TypeOK, Connect, preparing
  <2>2. CASE Accept
    BY <2>2 DEF IInv, TypeOK, Accept, preparing
  <2> QED
    BY <2>1, <2>2
<1>3. PreparedFromHeld'
  BY <1>1 DEF IInv, PreparedFromHeld, preparing
<1>4. AskedInScope'
  BY <1>1 DEF IInv, AskedInScope, IsMatch, Offered, Addressable, preparing
<1>5. SignaturesAreGoverned' /\ ListsAreCurrent'
  BY <1>1 DEF IInv, SignaturesAreGoverned, ListsAreCurrent, Addressable
<1> QED
  BY <1>2, <1>3, <1>4, <1>5 DEF IInv

LEMMA ReadKeepsIInv == ASSUME IInv, Read PROVE IInv'
<1>1. request' \in Frames
  BY DEF Read, Frames
<1>2. TypeOK'
  BY <1>1 DEF IInv, TypeOK, Read, connections
<1>3. PreparedFromHeld'
  BY <1>1, SlotsAreIndices DEF IInv, PreparedFromHeld, Read
<1>4. (AskedInScope /\ SignaturesAreGoverned /\ ListsAreCurrent)'
  BY DEF Read, AskedInScope, SignaturesAreGoverned, ListsAreCurrent
<1> QED
  BY <1>2, <1>3, <1>4 DEF IInv

LEMMA LoadKeepsIInv == ASSUME IInv, Load PROVE IInv'
<1> DEFINE next == Len(loaded) + 1
<1>1. next \in DOMAIN Slots /\ loaded' = Append(loaded, vault[next])
  BY SlotsAreIndices DEF IInv, TypeOK, Load
<1>2. vault[next] \in Stock \union {None} /\ vault[next] \in held[next]
  BY <1>1 DEF IInv, TypeOK, PreparedFromHeld, Load
<1>3. TypeOK'
  BY <1>1, <1>2 DEF IInv, TypeOK, Load, connections
<1>4. PreparedFromHeld'
  <2>1. Len(loaded') = next /\ next <= Len(Slots)
    BY <1>1, <1>2, SlotsAreIndices DEF IInv, TypeOK
  <2>2. \A s \in DOMAIN loaded' : loaded'[s] \in held[s]
    BY <1>1, <1>2, <2>1 DEF IInv, TypeOK, PreparedFromHeld
  <2> QED
    BY <2>1, <2>2 DEF IInv, PreparedFromHeld, Load
<1>5. (AskedInScope /\ SignaturesAreGoverned /\ ListsAreCurrent)'
  BY DEF IInv, Load, AskedInScope, SignaturesAreGoverned, ListsAreCurrent, Addressable
<1> QED
  BY <1>3, <1>4, <1>5 DEF IInv

LEMMA AskKeepsIInv == ASSUME IInv, AskFirst PROVE IInv'
<1>1. TypeOK'
  BY DEF IInv, TypeOK, AskFirst, connections, preparing
<1>2. PreparedFromHeld'
  BY DEF IInv, PreparedFromHeld, AskFirst, Signing, Loaded, preparing
<1>3. AskedInScope'
  <2>1. PICK s \in DOMAIN Slots : IsMatch(s) /\ Verdict(s) = "confirm"
    BY DEF AskFirst
  <2>2. Addressable(s)
    BY <2>1, VerdictIsGoverned
  <2>3. IsMatch(s)' /\ Addressable(s)'
    BY <2>1, <2>2 DEF AskFirst, IsMatch, Offered, Addressable, preparing
  <2> QED
    BY <2>3 DEF AskedInScope
<1>4. SignaturesAreGoverned' /\ ListsAreCurrent'
  BY DEF IInv, AskFirst, SignaturesAreGoverned, ListsAreCurrent, Addressable
<1> QED
  BY <1>1, <1>2, <1>3, <1>4 DEF IInv

\* An edit adds to what was held, and changes nothing else that is prepared.
LEMMA EditKeepsIInv == ASSUME IInv, NEW e \in DOMAIN Slots, Edit(e) PROVE IInv'
<1>1. PICK keypair \in Stock \union {None} :
        /\ vault' = [vault EXCEPT ![e] = keypair]
        /\ held' = IF pc = "loading" THEN [held EXCEPT ![e] = @ \union {keypair}] ELSE held
  BY DEF Edit
<1>2. UNCHANGED <<scope, pc, request, loaded, backlog, serving, reply>>
  BY DEF Edit, connections, preparing
<1>3. \A s \in DOMAIN Slots : held[s] \subseteq held'[s]
  BY <1>1 DEF IInv, TypeOK
<1>4. TypeOK'
  <2>1. edits' \in 0..MaxEdits
    BY SshAgentAssumption DEF IInv, TypeOK, Edit
  <2>2. vault' \in [DOMAIN Slots -> Stock \union {None}]
    BY <1>1 DEF IInv, TypeOK
  <2>3. held' \in [DOMAIN Slots -> SUBSET (Stock \union {None})]
    BY <1>1 DEF IInv, TypeOK
  <2> QED
    BY <1>2, <2>1, <2>2, <2>3 DEF IInv, TypeOK
<1>5. PreparedFromHeld'
  <2>1. \A s \in DOMAIN loaded : s \in DOMAIN Slots
    BY SlotsAreIndices DEF IInv, TypeOK, PreparedFromHeld
  <2>2. \A s \in DOMAIN loaded : loaded[s] \in held'[s]
    BY <1>3, <2>1 DEF IInv, PreparedFromHeld
  <2>3. pc = "loading" => \A s \in DOMAIN Slots : vault'[s] \in held'[s]
    BY <1>1 DEF IInv, TypeOK, PreparedFromHeld
  <2> QED
    BY <1>2, <2>2, <2>3 DEF IInv, PreparedFromHeld
<1>6. AskedInScope'
  BY <1>2 DEF IInv, AskedInScope, IsMatch, Offered, Addressable
<1>7. reply # None => held' = held
  BY <1>1 DEF IInv, PreparedFromHeld
<1>8. SignaturesAreGoverned' /\ ListsAreCurrent'
  BY <1>2, <1>7 DEF IInv, SignaturesAreGoverned, ListsAreCurrent, Addressable
<1> QED
  BY <1>4, <1>5, <1>6, <1>8 DEF IInv

LEMMA StepKeepsIInv == ASSUME IInv, [Next]_vars PROVE IInv'
<1>1. CASE \E c \in Clients : Connect(c)
  BY <1>1, QueueKeepsIInv
<1>2. CASE \E c \in Clients : Leave(c)
  BY <1>2, CloseKeepsIInv DEF Leave
<1>3. CASE Agent
  <2>1. CASE Accept
    BY <2>1, QueueKeepsIInv
  <2>2. CASE ReadMalformed \/ RefuseToSign \/ Denied \/ TimedOut
    BY <2>2, FailureKeepsIInv DEF ReadMalformed, RefuseToSign, Denied, TimedOut
  <2>3. CASE Read
    BY <2>3, ReadKeepsIInv
  <2>4. CASE Load
    BY <2>4, LoadKeepsIInv
  <2>5. CASE LoadFails
    BY <2>5, CloseKeepsIInv DEF LoadFails
  <2>6. CASE AnswerIdentities
    BY <2>6, ListKeepsIInv
  <2>7. CASE SignSilently
    <3>1. PICK s \in DOMAIN Slots : IsMatch(s) /\ Verdict(s) = "allow" /\ Sign(s, FALSE)
      BY <2>7 DEF SignSilently
    <3>2. pc = "loading" /\ Addressable(s) /\ loaded[s].sensitivity # "high"
      BY <2>7, <3>1, VerdictIsGoverned DEF SignSilently, Signing, Loaded
    <3> QED
      BY <3>1, <3>2, SignKeepsIInv
  <2>8. CASE AskFirst
    BY <2>8, AskKeepsIInv
  <2>9. CASE Approved
    <3>1. PICK s \in DOMAIN Slots : IsMatch(s) /\ Sign(s, TRUE)
      BY <2>9 DEF Approved
    <3>2. PICK t \in DOMAIN Slots : IsMatch(t) /\ Addressable(t)
      BY <2>9 DEF Approved, IInv, AskedInScope
    <3>3. s = t
      BY <3>1, <3>2, OneMatch DEF IInv, IsMatch, Offered
    <3> QED
      BY <2>9, <3>1, <3>2, <3>3, SignKeepsIInv DEF Approved
  <2> QED
    BY <1>3, <2>1, <2>2, <2>3, <2>4, <2>5, <2>6, <2>7, <2>8, <2>9 DEF Agent
<1>4. CASE Stop
  <2>1. TypeOK'
    BY <1>4 DEF IInv, TypeOK, Stop, NothingHeld
  <2>2. PreparedFromHeld'
    BY <1>4, SlotsAreIndices DEF Stop, PreparedFromHeld
  <2>3. (AskedInScope /\ SignaturesAreGoverned /\ ListsAreCurrent)'
    BY <1>4 DEF Stop, AskedInScope, SignaturesAreGoverned, ListsAreCurrent
  <2> QED
    BY <2>1, <2>2, <2>3 DEF IInv
<1>5. CASE \E s \in DOMAIN Slots : Edit(s)
  BY <1>5, EditKeepsIInv
<1>6. CASE UNCHANGED vars
  <2>1. UNCHANGED <<vault, edits, scope, pc, backlog, serving, request, loaded, reply, held>>
    BY <1>6 DEF vars, connections, preparing
  <2>2. TypeOK' /\ PreparedFromHeld'
    BY <2>1 DEF IInv, TypeOK, PreparedFromHeld
  <2>3. (AskedInScope /\ SignaturesAreGoverned /\ ListsAreCurrent)'
    BY <2>1 DEF IInv, AskedInScope, SignaturesAreGoverned, ListsAreCurrent, IsMatch, Offered,
                Addressable
  <2> QED
    BY <2>2, <2>3 DEF IInv
<1> QED
  BY <1>1, <1>2, <1>3, <1>4, <1>5, <1>6 DEF Next, Finished

\* The inductive invariant.
THEOREM AgentInvariant == Spec => []IInv
<1>1. Init => IInv
  BY InitIInv
<1>2. IInv /\ [Next]_vars => IInv'
  BY StepKeepsIInv
<1> QED
  BY <1>1, <1>2, PTL DEF Spec

\* The agent's state keeps its types.
THEOREM AgentTypeCorrect == Spec => []TypeOK
<1>1. IInv => TypeOK
  BY DEF IInv
<1> QED
  BY <1>1, AgentInvariant, PTL

\* Signatures are in scope, by a key as it was since the request came, and
\* attended if that was high (Session::sign).
THEOREM AgentIsGoverned == Spec => []SignaturesAreGoverned
<1>1. IInv => SignaturesAreGoverned
  BY DEF IInv
<1> QED
  BY <1>1, AgentInvariant, PTL

\* The list of identities is in scope, sound and complete for what was not
\* edited meanwhile (Session::identities_answer).
THEOREM AgentListsAreCurrent == Spec => []ListsAreCurrent
<1>1. IInv => ListsAreCurrent
  BY DEF IInv
<1> QED
  BY <1>1, AgentInvariant, PTL
=============================================================================
