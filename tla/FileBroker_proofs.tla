-------------------------- MODULE FileBroker_proofs -------------------------
(***************************************************************************)
(* FileBroker for any number of requests, approvers and processes.         *)
(*                                                                         *)
(* Unconditionally: the types, and that an approval is somebody's.  When   *)
(* every requesting process keeps one broker (so that no id is handed out  *)
(* twice): the properties of the run `file_shared`, and that every         *)
(* behaviour is one of Confirmation.                                       *)
(*                                                                         *)
(* The shape of the argument: ids are unique, so whatever is linked at the *)
(* paths of an id was created by the request of that id or by a call that  *)
(* was shown it; the request's own inode leaves the temporary path when it *)
(* is published, before any call can be shown it; hence a decision file    *)
(* only ever holds what calls shown this request wrote.                    *)
(***************************************************************************)
EXTENDS FileBroker, TLAPS

\* The rename of the request is still ahead.
Publishing(r) == pc[r] \in {"opening", "writing", "renaming"}

\* What the program counter of a writer says of its other fields.
Bookkeeping ==
  /\ \A r \in Requests :
       /\ pc[r] \in {"idle", "done", "dead"} \union RequesterPc
       /\ pc[r] = "idle" => id[r] = NoFile
       /\ id[r] = NoFile => pc[r] \in {"idle", "dead"}
  /\ \A c \in Calls :
       /\ pc[c] \in {"idle", "done"} \union CallPc
       /\ pc[c] = "idle" <=> shown[c] = NoFile
       /\ pc[c] = "idle" => told[c] = "none"
       /\ pc[c] = "idle" <=> verdict[c] = "none"
       /\ shown[c] # NoFile => id[shown[c]] # NoFile
  /\ \A w \in Writers : pc[w] \in {"writing", "renaming"} => fd[w] # NoFile

\* A whole text was written by a writer of that text.
TextsAreWritten ==
  \A v \in Writers :
    /\ content[v].text = "request" =>
         content[v].by \in Requests /\ id[content[v].by] # NoFile
    /\ content[v].text = "approved" =>
         content[v].by \in Calls /\ verdict[content[v].by] = "approve"

\* An approval that was obeyed was written by a call that approved something.
ApprovedBySomebody ==
  \A r \in Requests : outcome[r] = "approved" =>
    released_by[r] \in Calls /\ verdict[released_by[r]] = "approve"

\* Only a call that is past polling has obeyed anything or has an outcome.
OutcomesAreLate ==
  \A r \in Requests :
    /\ pc[r] \in {"unlisting", "clearing", "done"} => outcome[r] # "none"
    /\ outcome[r] # "none" => pc[r] \in {"unlisting", "clearing", "done", "dead"}
    /\ released_by[r] # NoFile => outcome[r] # "none"

TypeInv ==
  /\ TypeOK
  /\ Bookkeeping
  /\ TextsAreWritten
  /\ ApprovedBySomebody
  /\ OutcomesAreLate
-----------------------------------------------------------------------------
(* The invariant of shared brokers.                                         *)

AllShared == \A r \in Requests : ProcessOf[r] \in SharedBroker

\* The counter of a shared broker is ahead of every id it gave out.
IdsAreUnique ==
  \A r \in Requests :
    /\ id[r] # NoFile => id[r][2] = ProcessOf[r] /\ id[r][3] < counter[ProcessOf[r]]
    /\ \A s \in Requests : id[r] = id[s] => r = s \/ id[r] = NoFile

\* The request a writer works for.
Topic(w) == IF w \in Requests THEN w ELSE shown[w]

\* Whatever is linked at a path of an id was created for the request of that id.
LinksAreOwn ==
  \A i \in Ids :
    /\ LET v == request_file[i]
       IN  v # NoFile => /\ v \in Requests /\ id[v] = i
                         /\ pc[v] \in {"polling", "missed", "unlisting", "dead"}
                         /\ content[v].text = "request"
    /\ LET v == decision_file[i]
       IN  v # NoFile => v \in Calls /\ shown[v] # NoFile /\ id[shown[v]] = i
    /\ LET v == tmp_file[i]
       IN  v # NoFile => Topic(v) # NoFile /\ id[Topic(v)] = i

\* A request writes its own inode and nobody else does; while that inode is the
\* temporary, nobody has been shown the request.
RequestsKeepTheirInode ==
  \A r \in Requests :
    /\ fd[r] \in {r, NoFile}
    /\ content[r].by = r /\ content[r].text \in {"empty", "request"}
    /\ pc[r] = "renaming" => content[r].text = "request"
    /\ pc[r] = "opening" => tmp_file[id[r]] = NoFile
    /\ pc[r] \in {"writing", "renaming"} => tmp_file[id[r]] = r
    /\ pc[r] \in {"polling", "missed", "unlisting"} => request_file[id[r]] = r
    /\ Publishing(r) \/ (id[r] # NoFile /\ tmp_file[id[r]] = r) =>
         /\ request_file[id[r]] = NoFile
         /\ \A c \in Calls : shown[c] # r

\* Calls write the inodes of calls that were shown the same request.
CallsShareTheirInodes ==
  \A c \in Calls :
    /\ fd[c] # NoFile => fd[c] \in Calls /\ shown[fd[c]] = shown[c] /\ shown[c] # NoFile
    /\ LET d == content[c].by
       IN  d \in Calls /\ (d # c => shown[d] = shown[c] /\ shown[c] # NoFile)
    /\ content[c].text \in {"empty", "approved", "denied", "denieded"}
    /\ pc[c] \in {"idle", "checking", "opening"} =>
         /\ \A i \in Ids : tmp_file[i] # c /\ decision_file[i] # c
         /\ \A d \in Calls : fd[d] # c

\* The only call that was shown its request.
Sole(c) == shown[c] # NoFile /\ \A d \in Calls : shown[d] = shown[c] => d = c

\* Nothing disturbs the text of a sole call.
SoleTextIsWhole ==
  \A c \in Calls : Sole(c) =>
    /\ pc[c] = "writing" => fd[c] = c /\ content[c].text = "empty"
    /\ pc[c] = "renaming" => content[c].text = TextOf[verdict[c]]
    /\ \A i \in Ids : decision_file[i] = c =>
         pc[c] = "done" /\ content[c].text = TextOf[verdict[c]]

\* What was obeyed was written for this request; answers remember verdicts.
ObeyedIsForThisRequest ==
  /\ \A r \in Requests : released_by[r] # NoFile =>
       released_by[r] \in Calls /\ shown[released_by[r]] = r
  /\ \A c \in Calls : shown[c] # NoFile => verdict[c] \in answers[shown[c]]

SharedInv ==
  /\ TypeInv
  /\ IdsAreUnique
  /\ LinksAreOwn
  /\ RequestsKeepTheirInode
  /\ CallsShareTheirInodes
  /\ SoleTextIsWhole
  /\ ObeyedIsForThisRequest
  /\ SoleDecisionCounts
  /\ FalseMeansClosed
-----------------------------------------------------------------------------
(* The unconditional invariant.                                             *)

LEMMA InitTypeInv == Init => TypeInv
  BY BrokerAssumption
  DEF Init, TypeInv, TypeOK, Bookkeeping, TextsAreWritten, ApprovedBySomebody,
      OutcomesAreLate, Seconds, Pc, Link, Texts, Writers, CallPc

\* The id of a writer past its first step names three paths.
LEMMA WorkingHasId ==
  ASSUME TypeInv, NEW w \in Writers, pc[w] \notin {"idle", "dead"}
  PROVE  /\ IdOf(w) \in Ids
         /\ w \in Calls => shown[w] \in Requests /\ verdict[w] \in {"approve", "deny"}
  BY BrokerAssumption DEF TypeInv, TypeOK, Bookkeeping, IdOf, Writers

LEMMA NoFileIsNoId == NoFile \notin Ids
  BY BrokerAssumption DEF Ids, Seconds

LEMMA TickTypeInv == ASSUME TypeInv, Tick PROVE TypeInv'
<1> USE BrokerAssumption DEF Tick, TypeInv, asking, answering, disk, links
<1>1. now' \in Seconds
  BY DEF TypeOK, Seconds
<1>2. TypeOK'
  BY <1>1 DEF TypeOK
<1>3. Bookkeeping' /\ TextsAreWritten' /\ ApprovedBySomebody' /\ OutcomesAreLate'
  BY DEF Bookkeeping, TextsAreWritten, ApprovedBySomebody, OutcomesAreLate
<1>4. QED
  BY <1>2, <1>3

LEMMA BeginTypeInv == ASSUME TypeInv, NEW r \in Requests, Begin(r) PROVE TypeInv'
<1> USE BrokerAssumption
    DEF TypeInv, Begin, Goto, answering, disk, links, Writers
<1>1. /\ counter[ProcessOf[r]] \in 0..MaxCount
      /\ id' = [id EXCEPT ![r] = <<now, ProcessOf[r], counter[ProcessOf[r]]>>]
      /\ id'[r] \in Ids /\ id'[r] # NoFile
  <2>1. counter[ProcessOf[r]] \in 0..MaxCount
    <3>1. counter[ProcessOf[r]] \in 0..(MaxCount + 1)
      BY DEF TypeOK
    <3>2. counter[ProcessOf[r]] <= MaxCount
      OBVIOUS
    <3>3. QED
      BY <3>1, <3>2
  <2>2. <<now, ProcessOf[r], counter[ProcessOf[r]]>> \in Ids
    BY <2>1 DEF TypeOK, Ids
  <2>3. QED
    BY <2>1, <2>2, NoFileIsNoId DEF TypeOK
<1>2. TypeOK'
  <2>1. counter' \in [Processes -> 0..(MaxCount + 1)]
    BY <1>1 DEF TypeOK
  <2>2. pc' \in [Requests \union Calls -> Pc]
    BY DEF TypeOK, Pc, RequesterPc
  <2>3. id' \in [Requests -> Ids \union {NoFile}]
    BY <1>1 DEF TypeOK
  <2>4. QED
    BY <2>1, <2>2, <2>3 DEF TypeOK
<1>3. Bookkeeping'
  BY <1>1 DEF TypeOK, Bookkeeping, RequesterPc
<1>4. TextsAreWritten'
  BY <1>1 DEF TypeOK, TextsAreWritten
<1>5. ApprovedBySomebody' /\ OutcomesAreLate'
  BY DEF TypeOK, ApprovedBySomebody, OutcomesAreLate
<1>6. QED
  BY <1>2, <1>3, <1>4, <1>5

LEMMA OpenTmpTypeInv == ASSUME TypeInv, NEW w \in Writers, OpenTmp(w) PROVE TypeInv'
<1> USE BrokerAssumption DEF TypeInv, OpenTmp, Goto, clock, asking, answering
<1> DEFINE i == IdOf(w)
           inode == IF tmp_file[i] = NoFile THEN w ELSE tmp_file[i]
<1>1. i \in Ids /\ inode \in Writers
  BY WorkingHasId DEF TypeOK, Link
<1>2. /\ tmp_file' = [tmp_file EXCEPT ![i] = inode]
      /\ fd' = [fd EXCEPT ![w] = inode]
      /\ content' = [content EXCEPT ![inode] = [text |-> "empty", by |-> w]]
  OBVIOUS
<1> HIDE DEF inode, i
<1>3. TypeOK'
  <2>1. pc' \in [Writers -> Pc]
    BY DEF TypeOK, Pc, CallPc
  <2>2. tmp_file' \in [Ids -> Link]
    <3>1. tmp_file \in [Ids -> Link] /\ inode \in Link
      BY <1>1 DEF TypeOK, Link
    <3> HIDE DEF TypeInv, OpenTmp
    <3>2. QED
      BY <3>1, <1>1, <1>2
  <2>3. fd' \in [Writers -> Link]
    BY <1>1, <1>2 DEF TypeOK, Link
  <2>4. content' \in [Writers -> [text : Texts, by : Writers]]
    BY <1>1, <1>2 DEF TypeOK, Texts
  <2>5. QED
    BY <2>1, <2>2, <2>3, <2>4 DEF TypeOK
<1>4. Bookkeeping'
  BY <1>1, <1>2 DEF TypeOK, Bookkeeping, RequesterPc, CallPc, Writers
<1>5. TextsAreWritten'
  BY <1>1, <1>2 DEF TypeOK, TextsAreWritten
<1>6. ApprovedBySomebody' /\ OutcomesAreLate'
  BY DEF TypeOK, ApprovedBySomebody, OutcomesAreLate, Writers
<1>7. QED
  BY <1>3, <1>4, <1>5, <1>6

\* What is in the way never turns a text into an approval or a request.
LEMMA OverwriteText ==
  ASSUME NEW old \in Texts, NEW new \in {"request", "approved", "denied"}
  PROVE  /\ Overwrite(old, new) \in Texts
         /\ Overwrite(old, new) \in {"request", "approved"} => Overwrite(old, new) = new
         /\ old = "empty" => Overwrite(old, new) = new
         /\ old \in {"empty", "approved", "denied", "denieded"} /\ new # "request" =>
              Overwrite(old, new) \in {"approved", "denied", "denieded"}
  BY DEF Overwrite, Texts

\* The text a writer writes.
NewText(w) == IF w \in Requests THEN "request" ELSE TextOf[verdict[w]]

LEMMA WriteTmpEffect ==
  ASSUME TypeInv, NEW w \in Writers, WriteTmp(w)
  PROVE  /\ fd[w] \in Writers
         /\ NewText(w) \in {"request", "approved", "denied"}
         /\ content[fd[w]].text \in Texts
         /\ content' = [content EXCEPT ![fd[w]] =
              [text |-> Overwrite(content[fd[w]].text, NewText(w)), by |-> w]]
  BY WorkingHasId
  DEF TypeInv, TypeOK, Bookkeeping, WriteTmp, Link, NewText, TextOf, Writers

LEMMA WriteTmpTypeInv == ASSUME TypeInv, NEW w \in Writers, WriteTmp(w) PROVE TypeInv'
<1> USE BrokerAssumption DEF TypeInv, WriteTmp, Goto, clock, asking, answering, links
<1> DEFINE left == Overwrite(content[fd[w]].text, NewText(w))
<1>1. /\ fd[w] \in Writers /\ left \in Texts
      /\ left \in {"request", "approved"} => left = NewText(w)
      /\ content' = [content EXCEPT ![fd[w]] = [text |-> left, by |-> w]]
  BY WriteTmpEffect, OverwriteText
<1>2. /\ NewText(w) = "request" => w \in Requests /\ id[w] # NoFile
      /\ NewText(w) = "approved" => w \in Calls /\ verdict[w] = "approve"
  BY WorkingHasId DEF NewText, TextOf, Bookkeeping, Writers
<1> HIDE DEF left
<1>3. TypeOK'
  BY <1>1 DEF TypeOK, Pc, CallPc
<1>4. Bookkeeping'
  BY <1>1 DEF TypeOK, Bookkeeping, RequesterPc, CallPc, Writers
<1>5. TextsAreWritten'
  BY <1>1, <1>2 DEF TypeOK, TextsAreWritten
<1>6. ApprovedBySomebody' /\ OutcomesAreLate'
  BY DEF TypeOK, ApprovedBySomebody, OutcomesAreLate, Writers
<1>7. QED
  BY <1>3, <1>4, <1>5, <1>6

\* Publishing moves a link that is there; nothing else is touched.
LEMMA PublishTypeInv == ASSUME TypeInv, NEW r \in Requests, Publish(r) PROVE TypeInv'
<1> USE BrokerAssumption
    DEF TypeInv, Publish, MoveTmpTo, TmpGone, Goto, clock, answering, IdOf
<1>1. id[r] \in Ids /\ id[r] # NoFile /\ tmp_file[id[r]] \in Link
  BY WorkingHasId, NoFileIsNoId DEF TypeOK, Writers
<1>2. TypeOK'
  <2>1. pc' \in [Writers -> Pc] /\ deadline' \in [Requests -> Seconds]
    BY DEF TypeOK, Pc, RequesterPc, Writers, Seconds
  <2>2. tmp_file' \in [Ids -> Link] /\ request_file' \in [Ids -> Link]
    BY <1>1 DEF TypeOK, Link
  <2>3. fd' \in [Writers -> Link]
    BY DEF TypeOK, Link
  <2>4. QED
    BY <2>1, <2>2, <2>3 DEF TypeOK
<1>3. Bookkeeping'
  BY <1>1 DEF TypeOK, Bookkeeping, RequesterPc, Writers
<1>4. TextsAreWritten' /\ ApprovedBySomebody' /\ OutcomesAreLate'
  BY DEF TypeOK, TextsAreWritten, ApprovedBySomebody, OutcomesAreLate, Writers
<1>5. QED
  BY <1>2, <1>3, <1>4

LEMMA FailToPublishTypeInv ==
  ASSUME TypeInv, NEW r \in Requests, FailToPublish(r) PROVE TypeInv'
<1> USE BrokerAssumption
    DEF TypeInv, FailToPublish, Goto, clock, answering, links, Writers
<1>1. id[r] # NoFile
  BY DEF Bookkeeping
<1>2. TypeOK'
  BY DEF TypeOK, Pc, Link
<1>3. Bookkeeping'
  BY <1>1 DEF TypeOK, Bookkeeping
<1>4. TextsAreWritten' /\ ApprovedBySomebody' /\ OutcomesAreLate'
  BY DEF TypeOK, TextsAreWritten, ApprovedBySomebody, OutcomesAreLate
<1>5. QED
  BY <1>2, <1>3, <1>4

\* What a decision text says, and who wrote it.
LEMMA TakeDecisionTypeInv ==
  ASSUME TypeInv, NEW r \in Requests, TakeDecision(r) PROVE TypeInv'
<1> USE BrokerAssumption DEF TypeInv, TakeDecision, Goto, clock, answering, disk, links
<1> DEFINE read == content[decision_file[id[r]]]
<1>1. id[r] \in Ids /\ id[r] # NoFile
  BY WorkingHasId, NoFileIsNoId DEF IdOf, Writers
<1>2. decision_file[id[r]] \in Writers
  BY <1>1 DEF TypeOK, Link
<1>3. read.by \in Writers /\ read.text \in Texts
  BY <1>2 DEF TypeOK
<1>4. read.text = "approved" => read.by \in Calls /\ verdict[read.by] = "approve"
  BY <1>2 DEF TextsAreWritten
<1>5. /\ outcome' = [outcome EXCEPT ![r] =
                       IF read.text = "approved" THEN "approved" ELSE "denied"]
      /\ released_by' = [released_by EXCEPT ![r] = read.by]
  OBVIOUS
<1> HIDE DEF read
<1>6. TypeOK'
  BY <1>3, <1>5 DEF TypeOK, Pc, RequesterPc, Writers, Link
<1>7. Bookkeeping'
  BY <1>1 DEF TypeOK, Bookkeeping, RequesterPc, Writers
<1>8. TextsAreWritten' /\ ApprovedBySomebody'
  BY <1>4, <1>5 DEF TypeOK, TextsAreWritten, ApprovedBySomebody
<1>9. OutcomesAreLate'
  BY <1>5 DEF TypeOK, OutcomesAreLate, Writers
<1>10. QED
  BY <1>6, <1>7, <1>8, <1>9

LEMMA PollingTypeInv ==
  ASSUME TypeInv, NEW r \in Requests, Miss(r) \/ Sleep(r) \/ TimeOut(r) PROVE TypeInv'
<1> USE BrokerAssumption
    DEF TypeInv, Miss, Sleep, TimeOut, Goto, clock, asking, answering, disk, links, Writers
<1>1. id[r] # NoFile
  BY DEF Bookkeeping
<1>2. TypeOK'
  BY DEF TypeOK, Pc, RequesterPc
<1>3. Bookkeeping'
  BY <1>1 DEF TypeOK, Bookkeeping, RequesterPc
<1>4. TextsAreWritten' /\ ApprovedBySomebody' /\ OutcomesAreLate'
  BY DEF TypeOK, TextsAreWritten, ApprovedBySomebody, OutcomesAreLate
<1>5. QED
  BY <1>2, <1>3, <1>4

LEMMA CleanupTypeInv ==
  ASSUME TypeInv, NEW r \in Requests, RemoveRequest(r) \/ RemoveDecision(r) PROVE TypeInv'
<1> USE BrokerAssumption
    DEF TypeInv, RemoveRequest, RemoveDecision, Goto, clock, asking, answering, Writers
<1>1. id[r] # NoFile
  BY DEF Bookkeeping
<1>2. TypeOK'
  BY DEF TypeOK, Pc, RequesterPc, Link
<1>3. Bookkeeping'
  BY <1>1 DEF TypeOK, Bookkeeping, RequesterPc
<1>4. TextsAreWritten' /\ ApprovedBySomebody' /\ OutcomesAreLate'
  BY DEF TypeOK, TextsAreWritten, ApprovedBySomebody, OutcomesAreLate
<1>5. QED
  BY <1>2, <1>3, <1>4

LEMMA CrashTypeInv == ASSUME TypeInv, NEW p \in Processes, Crash(p) PROVE TypeInv'
<1> USE BrokerAssumption
    DEF TypeInv, Crash, clock, asking, answering, disk, links, Writers
<1>1. \A w \in Writers : pc'[w] = pc[w] \/ (w \in Requests /\ pc'[w] = "dead")
  OBVIOUS
<1>2. TypeOK'
  BY DEF TypeOK, Pc
<1>3. Bookkeeping'
  BY <1>1 DEF TypeOK, Bookkeeping
<1>4. TextsAreWritten' /\ ApprovedBySomebody'
  BY DEF TextsAreWritten, ApprovedBySomebody
<1>5. OutcomesAreLate'
  BY DEF TypeOK, OutcomesAreLate
<1>6. QED
  BY <1>2, <1>3, <1>4, <1>5

\* A person decides on a request that somebody wrote.
LEMMA DecideEffect ==
  ASSUME TypeInv, NEW c \in Calls, Decide(c)
  PROVE  \E i \in Ids, v \in {"approve", "deny"}, r \in Requests :
           /\ request_file[i] \in Writers
           /\ content[request_file[i]].text = "request"
           /\ r = content[request_file[i]].by /\ id[r] # NoFile
           /\ shown' = [shown EXCEPT ![c] = r]
           /\ verdict' = [verdict EXCEPT ![c] = v]
           /\ answers' = [answers EXCEPT ![r] = @ \union {v}]
<1>1. PICK i \in Ids, v \in {"approve", "deny"} :
        /\ request_file[i] # NoFile
        /\ content[request_file[i]].text = "request"
        /\ shown' = [shown EXCEPT ![c] = content[request_file[i]].by]
        /\ answers' = [answers EXCEPT ![content[request_file[i]].by] = @ \union {v}]
        /\ verdict' = [verdict EXCEPT ![c] = v]
  BY DEF Decide
<1>2. request_file[i] \in Writers
  BY <1>1 DEF TypeInv, TypeOK, Link
<1>3. content[request_file[i]].by \in Requests /\ id[content[request_file[i]].by] # NoFile
  BY <1>1, <1>2 DEF TypeInv, TextsAreWritten
<1>4. QED
  BY <1>1, <1>2, <1>3

LEMMA DecideTypeInv == ASSUME TypeInv, NEW c \in Calls, Decide(c) PROVE TypeInv'
<1> USE BrokerAssumption DEF TypeInv
<1>1. PICK v \in {"approve", "deny"}, r \in Requests :
        /\ id[r] # NoFile
        /\ shown' = [shown EXCEPT ![c] = r]
        /\ verdict' = [verdict EXCEPT ![c] = v]
        /\ answers' = [answers EXCEPT ![r] = @ \union {v}]
  BY DecideEffect
<1>2. /\ pc[c] = "idle" /\ pc' = [pc EXCEPT ![c] = "checking"]
      /\ UNCHANGED <<clock, asking, told, disk>>
  BY DEF Decide, Goto
<1> USE <1>2 DEF clock, asking, disk, links, Writers
<1>3. TypeOK'
  <2>1. pc' \in [Writers -> Pc] /\ shown' \in [Calls -> Requests \union {NoFile}]
    BY <1>1 DEF TypeOK, Pc, CallPc
  <2>2. verdict' \in [Calls -> {"none", "approve", "deny"}]
    BY <1>1 DEF TypeOK
  <2>3. answers' \in [Requests -> SUBSET {"approve", "deny"}]
    BY <1>1 DEF TypeOK
  <2>4. QED
    BY <2>1, <2>2, <2>3 DEF TypeOK
<1>4. Bookkeeping'
  <2>1. \A d \in Calls : /\ shown'[d] = IF d = c THEN r ELSE shown[d]
                        /\ verdict'[d] = IF d = c THEN v ELSE verdict[d]
    BY <1>1 DEF TypeOK
  <2>2. \A w \in Writers : pc'[w] = IF w = c THEN "checking" ELSE pc[w]
    BY DEF TypeOK
  <2>3. QED
    BY <1>1, <2>1, <2>2 DEF Bookkeeping, CallPc
<1>5. TextsAreWritten' /\ ApprovedBySomebody' /\ OutcomesAreLate'
  BY <1>1 DEF TypeOK, Bookkeeping, TextsAreWritten, ApprovedBySomebody, OutcomesAreLate
<1>6. QED
  BY <1>3, <1>4, <1>5

LEMMA AnsweringTypeInv ==
  ASSUME TypeInv, NEW c \in Calls, CheckOpen(c) \/ FailToDecide(c) PROVE TypeInv'
<1> USE BrokerAssumption
    DEF TypeInv, CheckOpen, FailToDecide, Goto, clock, asking, disk, links, Writers
<1>1. TypeOK'
  BY DEF TypeOK, Pc, CallPc, Link
<1>2. Bookkeeping'
  <2>1. pc[c] \in CallPc
    BY DEF CallPc
  <2>2. PICK label \in {"opening", "done"} : pc' = [pc EXCEPT ![c] = label]
    OBVIOUS
  <2>3. \A w \in Writers : fd'[w] = fd[w] \/ (w = c /\ pc'[w] = "done")
    BY <2>2 DEF TypeOK
  <2>4. /\ UNCHANGED <<id, shown, verdict>>
        /\ \A d \in Calls : d # c => told'[d] = told[d]
    BY DEF TypeOK
  <2> HIDE DEF CheckOpen, FailToDecide
  <2>5. QED
    BY <2>1, <2>2, <2>3, <2>4 DEF TypeOK, Bookkeeping, CallPc
<1>3. TextsAreWritten' /\ ApprovedBySomebody' /\ OutcomesAreLate'
  BY DEF TypeOK, TextsAreWritten, ApprovedBySomebody, OutcomesAreLate
<1>4. QED
  BY <1>1, <1>2, <1>3

LEMMA PublishDecisionTypeInv ==
  ASSUME TypeInv, NEW c \in Calls, PublishDecision(c) PROVE TypeInv'
<1> USE BrokerAssumption
    DEF TypeInv, PublishDecision, MoveTmpTo, TmpGone, Goto, clock, asking
<1>1. IdOf(c) \in Ids /\ tmp_file[IdOf(c)] \in Link
  BY WorkingHasId DEF TypeOK, Writers
<1>2. TypeOK'
  <2>1. pc' \in [Writers -> Pc] /\ told' \in [Calls -> {"none", "true", "false", "error"}]
    BY DEF TypeOK, Pc, Writers
  <2>2. tmp_file' \in [Ids -> Link] /\ decision_file' \in [Ids -> Link]
    BY <1>1 DEF TypeOK, Link
  <2>3. fd' \in [Writers -> Link]
    BY DEF TypeOK, Link
  <2>4. QED
    BY <2>1, <2>2, <2>3 DEF TypeOK
<1>3. Bookkeeping'
  BY DEF TypeOK, Bookkeeping, Writers
<1>4. TextsAreWritten' /\ ApprovedBySomebody' /\ OutcomesAreLate'
  BY DEF TypeOK, TextsAreWritten, ApprovedBySomebody, OutcomesAreLate, Writers
<1>5. QED
  BY <1>2, <1>3, <1>4

LEMMA NextTypeInv == TypeInv /\ [Next]_vars => TypeInv'
<1> SUFFICES ASSUME TypeInv, [Next]_vars PROVE TypeInv'
  OBVIOUS
<1>1. CASE Tick
  BY <1>1, TickTypeInv
<1>2. ASSUME NEW r \in Requests, Requester(r) PROVE TypeInv'
  BY <1>2, BeginTypeInv, OpenTmpTypeInv, WriteTmpTypeInv, PublishTypeInv,
     FailToPublishTypeInv, TakeDecisionTypeInv, PollingTypeInv, CleanupTypeInv
  DEF Requester, Writers
<1>3. ASSUME NEW p \in Processes, Crash(p) PROVE TypeInv'
  BY <1>3, CrashTypeInv
<1>4. ASSUME NEW c \in Calls, Approver(c) PROVE TypeInv'
  BY <1>4, DecideTypeInv, OpenTmpTypeInv, WriteTmpTypeInv, AnsweringTypeInv,
     PublishDecisionTypeInv
  DEF Approver, Writers
<1>5. CASE Finished \/ UNCHANGED vars
  BY <1>5 DEF Finished, vars, clock, asking, answering, disk, links,
              TypeInv, TypeOK, Bookkeeping, TextsAreWritten, ApprovedBySomebody,
              OutcomesAreLate
<1>6. QED
  BY <1>1, <1>2, <1>3, <1>4, <1>5 DEF Next

LEMMA SpecTypeInv == Spec => []TypeInv
  BY InitTypeInv, NextTypeInv, PTL DEF Spec

\* Whatever the processes share, every variable keeps its type.
THEOREM TypeCorrect == Spec => []TypeOK
<1>1. TypeInv => TypeOK
  BY DEF TypeInv
<1>2. QED
  BY <1>1, SpecTypeInv, PTL

\* Even where ids are reused, confirm() reports an approval only if a person
\* approved something: decide() wrote the text it obeyed, and no interleaving
\* of writes on a shared temporary turns a denial or a request into "approved".
THEOREM ApprovalsAreByPeople == Spec => []ApprovedBySomebody
<1>1. TypeInv => ApprovedBySomebody
  BY DEF TypeInv
<1>2. QED
  BY <1>1, SpecTypeInv, PTL
-----------------------------------------------------------------------------
(* The invariant of shared brokers, action by action.                       *)

LEMMA InitSharedInv == Init => SharedInv
<1> SUFFICES ASSUME Init PROVE SharedInv
  OBVIOUS
<1> USE BrokerAssumption DEF Init, Writers
<1>1. TypeInv
  BY InitTypeInv
<1>2. IdsAreUnique /\ LinksAreOwn
  BY DEF IdsAreUnique, LinksAreOwn
<1>3. RequestsKeepTheirInode
  BY DEF RequestsKeepTheirInode, Publishing
<1>4. CallsShareTheirInodes
  BY DEF CallsShareTheirInodes
<1>5. SoleTextIsWhole /\ ObeyedIsForThisRequest /\ SoleDecisionCounts /\ FalseMeansClosed
  BY DEF SoleTextIsWhole, Sole, ObeyedIsForThisRequest, SoleDecisionCounts, FalseMeansClosed
<1>6. QED
  BY <1>1, <1>2, <1>3, <1>4, <1>5 DEF SharedInv

\* The facts about a request that later steps use.
LEMMA StartedRequest ==
  ASSUME SharedInv, NEW r \in Requests, pc[r] \notin {"idle", "dead"}
  PROVE  id[r] \in Ids /\ id[r] # NoFile /\ IdOf(r) = id[r]
  BY WorkingHasId, NoFileIsNoId DEF SharedInv, IdOf, Writers

\* A call in the middle of its work was shown a request that is published.
LEMMA StartedCall ==
  ASSUME SharedInv, NEW c \in Calls, pc[c] # "idle"
  PROVE  /\ shown[c] \in Requests
         /\ id[shown[c]] \in Ids /\ id[shown[c]] # NoFile /\ IdOf(c) = id[shown[c]]
         /\ verdict[c] \in {"approve", "deny"}
  BY BrokerAssumption, NoFileIsNoId
  DEF SharedInv, TypeInv, TypeOK, Bookkeeping, IdOf, Writers

\* Two requests with one id are one request.
LEMMA SameId ==
  ASSUME SharedInv, NEW r \in Requests, NEW s \in Requests, id[r] = id[s], id[r] # NoFile
  PROVE  r = s
  BY DEF SharedInv, IdsAreUnique

LEMMA TickSharedInv == ASSUME SharedInv, Tick PROVE SharedInv'
<1>1. TypeInv'
  BY TickTypeInv DEF SharedInv
<1>2. UNCHANGED <<counter, pc, asking, answering, disk>>
  BY DEF Tick
<1>3. QED
  BY <1>1, <1>2
  DEF SharedInv, IdsAreUnique, LinksAreOwn, Topic, RequestsKeepTheirInode, Publishing,
      CallsShareTheirInodes, SoleTextIsWhole, Sole, ObeyedIsForThisRequest,
      SoleDecisionCounts, FalseMeansClosed, asking, answering, disk, links

\* The id a shared broker hands out is new, so nothing is linked at its paths.
LEMMA BeginSharedInv ==
  ASSUME AllShared, SharedInv, NEW r \in Requests, Begin(r) PROVE SharedInv'
<1> DEFINE p == ProcessOf[r]
           new == <<now, p, counter[p]>>
<1>1. /\ p \in Processes /\ p \in SharedBroker
      /\ new \in Ids /\ new # NoFile /\ new[2] = p /\ new[3] = counter[p]
      /\ id' = [id EXCEPT ![r] = new]
      /\ counter' = [counter EXCEPT ![p] = @ + 1]
      /\ pc[r] = "idle" /\ pc' = [pc EXCEPT ![r] = "opening"]
      /\ UNCHANGED <<now, deadline, outcome, released_by, answering, disk>>
  <2>1. p \in Processes /\ p \in SharedBroker
    BY BrokerAssumption DEF AllShared
  <2>2. counter[p] \in 0..(MaxCount + 1) /\ counter[p] <= MaxCount
    BY <2>1 DEF Begin, SharedInv, TypeInv, TypeOK
  <2>3. new \in Ids
    BY <2>1, <2>2, BrokerAssumption DEF Ids, SharedInv, TypeInv, TypeOK
  <2>4. QED
    BY <2>1, <2>3, NoFileIsNoId DEF Begin, Goto
<1> HIDE DEF new
<1> USE <1>1 DEF answering, disk, links
<1>2. TypeOK /\ Bookkeeping /\ id[r] = NoFile
  BY DEF SharedInv, TypeInv, Bookkeeping
<1>3. \A s \in Requests : id[s] # new
  <2> SUFFICES ASSUME NEW s \in Requests, id[s] = new PROVE FALSE
    OBVIOUS
  <2>1. id[s][2] = ProcessOf[s] /\ id[s][3] < counter[ProcessOf[s]]
    BY DEF SharedInv, IdsAreUnique
  <2>2. counter[p] \in Nat
    BY <1>2, BrokerAssumption DEF TypeOK
  <2>3. QED
    BY <2>1, <2>2
<1>4. /\ request_file[new] = NoFile /\ tmp_file[new] = NoFile
      /\ \A c \in Calls : shown[c] # r
  BY <1>2, <1>3, BrokerAssumption DEF SharedInv, LinksAreOwn, Topic, TypeOK, Bookkeeping, Link, Writers
<1>5. TypeInv'
  BY BeginTypeInv DEF SharedInv
<1>6. IdsAreUnique'
  <2>1. \A s \in Requests : id'[s] = IF s = r THEN new ELSE id[s]
    BY <1>2 DEF TypeOK
  <2>2. \A q \in Processes : /\ counter[q] \in Nat
                            /\ counter'[q] = IF q = p THEN counter[q] + 1 ELSE counter[q]
    BY <1>2, BrokerAssumption DEF TypeOK
  <2>3. \A s \in Requests : ProcessOf[s] \in Processes
    BY BrokerAssumption
  <2>4. ASSUME NEW s \in Requests, id'[s] # NoFile
        PROVE  id'[s][2] = ProcessOf[s] /\ id'[s][3] < counter'[ProcessOf[s]]
    <3>1. CASE s = r
      BY <2>1, <2>2, <2>3, <3>1
    <3>2. CASE s # r
      <4>1. /\ id'[s] = id[s] /\ id[s] # NoFile
            /\ id[s][2] = ProcessOf[s] /\ id[s][3] < counter[ProcessOf[s]]
        BY <2>1, <2>4, <3>2 DEF SharedInv, IdsAreUnique
      <4>2. id[s][3] \in Nat
        <5>1. id[s] \in Ids
          BY <1>2, <4>1 DEF TypeOK
        <5>2. QED
          BY <5>1 DEF Ids
      <4>3. QED
        BY <2>2, <2>3, <4>1, <4>2
    <3>3. QED
      BY <3>1, <3>2
  <2>5. ASSUME NEW s \in Requests, NEW t \in Requests, id'[s] = id'[t]
        PROVE  s = t \/ id'[s] = NoFile
    BY <1>3, <2>1, <2>5 DEF SharedInv, IdsAreUnique
  <2>6. QED
    BY <2>4, <2>5 DEF IdsAreUnique
<1>7. LinksAreOwn'
  <2>1. \A s \in Requests : id[s] # NoFile => id'[s] = id[s] /\ pc'[s] = pc[s]
    BY <1>2, BrokerAssumption DEF TypeOK, Writers
  <2>2. \A v \in Writers : Topic(v) # NoFile => Topic(v) \in Requests
    BY <1>2 DEF Topic, TypeOK, Writers
  <2>3. \A v \in Writers : Topic(v)' = Topic(v)
    BY DEF Topic
  <2> HIDE <1>1
  <2>4. UNCHANGED <<request_file, decision_file, tmp_file, content, shown>>
    BY <1>1
  <2>5. \A i \in Ids : /\ request_file[i] \in Link /\ decision_file[i] \in Link
                       /\ tmp_file[i] \in Link
    BY <1>2 DEF TypeOK
  <2>6. QED
    BY <2>1, <2>2, <2>3, <2>4, <2>5, NoFileIsNoId, BrokerAssumption
    DEF SharedInv, LinksAreOwn, Link, Topic
<1>8. RequestsKeepTheirInode'
  BY <1>2, <1>4, BrokerAssumption
  DEF SharedInv, RequestsKeepTheirInode, Publishing, TypeOK, Writers
<1>9. CallsShareTheirInodes'
  BY <1>2, BrokerAssumption DEF SharedInv, CallsShareTheirInodes, TypeOK, Writers
<1>10. SoleTextIsWhole' /\ ObeyedIsForThisRequest' /\ SoleDecisionCounts'
  BY <1>2, BrokerAssumption
  DEF SharedInv, SoleTextIsWhole, Sole, ObeyedIsForThisRequest, SoleDecisionCounts,
      TypeOK, Writers
<1>11. FalseMeansClosed'
  BY <1>2, <1>4, BrokerAssumption DEF SharedInv, FalseMeansClosed, TypeOK, Bookkeeping, Writers
<1>12. QED
  BY <1>5, <1>6, <1>7, <1>8, <1>9, <1>10, <1>11 DEF SharedInv

\* A request finds no temporary, and works on an inode of its own.
LEMMA OpenTmpOfRequest ==
  ASSUME SharedInv, NEW r \in Requests, OpenTmp(r)
  PROVE  /\ id[r] \in Ids /\ id[r] # NoFile /\ tmp_file[id[r]] = NoFile
         /\ tmp_file' = [tmp_file EXCEPT ![id[r]] = r]
         /\ fd' = [fd EXCEPT ![r] = r]
         /\ content' = [content EXCEPT ![r] = [text |-> "empty", by |-> r]]
<1>1. pc[r] = "opening" /\ id[r] \in Ids /\ id[r] # NoFile /\ IdOf(r) = id[r]
  BY StartedRequest DEF OpenTmp
<1>2. tmp_file[id[r]] = NoFile
  BY <1>1 DEF SharedInv, RequestsKeepTheirInode
<1>3. QED
  BY <1>1, <1>2 DEF OpenTmp

\* A call creates its temporary or shares that of a call shown the same request.
LEMMA OpenTmpOfCall ==
  ASSUME SharedInv, NEW c \in Calls, OpenTmp(c)
  PROVE  /\ shown[c] \in Requests
         /\ id[shown[c]] \in Ids /\ id[shown[c]] # NoFile
         /\ \E v \in Calls :
              /\ shown[v] = shown[c]
              /\ v = c \/ tmp_file[id[shown[c]]] = v
              /\ tmp_file' = [tmp_file EXCEPT ![id[shown[c]]] = v]
              /\ fd' = [fd EXCEPT ![c] = v]
              /\ content' = [content EXCEPT ![v] = [text |-> "empty", by |-> c]]
<1> DEFINE i == id[shown[c]]
<1>1. /\ shown[c] \in Requests /\ i \in Ids /\ i # NoFile /\ IdOf(c) = i
  BY StartedCall DEF OpenTmp
<1>2. /\ tmp_file[i] # NoFile => tmp_file[i] \in Calls /\ shown[tmp_file[i]] = shown[c]
  <2> SUFFICES ASSUME tmp_file[i] # NoFile
               PROVE  tmp_file[i] \in Calls /\ shown[tmp_file[i]] = shown[c]
    OBVIOUS
  <2> DEFINE v == tmp_file[i]
  <2>1. v \in Writers /\ Topic(v) # NoFile /\ id[Topic(v)] = i
    BY <1>1 DEF SharedInv, LinksAreOwn, TypeInv, TypeOK, Link
  <2>2. Topic(v) \in Requests
    BY <2>1 DEF Topic, SharedInv, TypeInv, TypeOK, Writers
  <2>3. Topic(v) = shown[c]
    BY <1>1, <2>1, <2>2, SameId
  <2>4. v \notin Requests
    BY <1>1, <2>3 DEF Topic, SharedInv, RequestsKeepTheirInode
  <2>5. QED
    BY <2>1, <2>3, <2>4 DEF Topic, Writers
<1>3. QED
  BY <1>1, <1>2 DEF OpenTmp

LEMMA OpenTmpSharedInv ==
  ASSUME SharedInv, NEW w \in Writers, OpenTmp(w) PROVE SharedInv'
<1>1. TypeInv'
  BY OpenTmpTypeInv DEF SharedInv
<1>2. /\ pc[w] = "opening" /\ pc' = [pc EXCEPT ![w] = "writing"]
      /\ UNCHANGED <<clock, asking, answering, request_file, decision_file>>
  BY DEF OpenTmp, Goto
<1>3. TypeOK /\ Bookkeeping
  BY DEF SharedInv, TypeInv
<1>4. \A v \in Writers : pc'[v] = IF v = w THEN "writing" ELSE pc[v]
  BY <1>2, <1>3 DEF TypeOK
<1> USE DEF clock, asking, answering
<1>5. IdsAreUnique' /\ ObeyedIsForThisRequest'
  BY <1>2 DEF SharedInv, IdsAreUnique, ObeyedIsForThisRequest
<1>6. SoleDecisionCounts'
  BY <1>2 DEF SharedInv, SoleDecisionCounts
<1>7. FalseMeansClosed'
  BY <1>2, <1>3, <1>4 DEF SharedInv, FalseMeansClosed, TypeOK, Bookkeeping, Writers
<1>8. ASSUME w \in Requests
      PROVE  LinksAreOwn' /\ RequestsKeepTheirInode' /\ CallsShareTheirInodes' /\ SoleTextIsWhole'
  <2>1. /\ id[w] \in Ids /\ id[w] # NoFile /\ tmp_file[id[w]] = NoFile
        /\ tmp_file' = [tmp_file EXCEPT ![id[w]] = w]
        /\ fd' = [fd EXCEPT ![w] = w]
        /\ content' = [content EXCEPT ![w] = [text |-> "empty", by |-> w]]
    BY <1>8, OpenTmpOfRequest
  <2>2. w \notin Calls
    BY <1>8, BrokerAssumption
  <2>3. \A i \in Ids : tmp_file'[i] = IF i = id[w] THEN w ELSE tmp_file[i]
    BY <2>1, <1>3 DEF TypeOK
  <2>4. \A v \in Writers :
          /\ fd'[v] = IF v = w THEN w ELSE fd[v]
          /\ content'[v] = IF v = w THEN [text |-> "empty", by |-> w] ELSE content[v]
    BY <2>1, <1>3 DEF TypeOK
  <2>5. LinksAreOwn'
    BY <1>2, <1>3, <1>4, <1>8, <2>1, <2>3, <2>4, NoFileIsNoId, BrokerAssumption
    DEF SharedInv, LinksAreOwn, Topic, TypeOK, Link, Writers
  <2>6. RequestsKeepTheirInode'
    <3>1. \A r \in Requests : id[r] # NoFile => id[r] \in Ids
      BY <1>3 DEF TypeOK
    <3>2. \A r \in Requests : pc[r] \in RequesterPc => id[r] # NoFile
      BY <1>3 DEF Bookkeeping, RequesterPc
    <3>3. \A r \in Requests : id[r] = id[w] => r = w
      BY <1>8, <2>1, SameId
    <3>4. QED
      BY <1>2, <1>4, <1>8, <2>1, <2>3, <2>4, <3>1, <3>2, <3>3
      DEF SharedInv, RequestsKeepTheirInode, Publishing, RequesterPc, Writers
  <2>7. CallsShareTheirInodes'
    BY <1>2, <1>4, <2>1, <2>2, <2>3, <2>4 DEF SharedInv, CallsShareTheirInodes, Writers
  <2>8. SoleTextIsWhole'
    BY <1>2, <1>4, <2>1, <2>2, <2>3, <2>4 DEF SharedInv, SoleTextIsWhole, Sole, Writers
  <2>9. QED
    BY <2>5, <2>6, <2>7, <2>8
<1>9. ASSUME w \in Calls
      PROVE  LinksAreOwn' /\ RequestsKeepTheirInode' /\ CallsShareTheirInodes' /\ SoleTextIsWhole'
  <2>1. /\ shown[w] \in Requests
        /\ id[shown[w]] \in Ids /\ id[shown[w]] # NoFile
    BY <1>9, OpenTmpOfCall
  <2>2. PICK v \in Calls :
          /\ shown[v] = shown[w]
          /\ v = w \/ tmp_file[id[shown[w]]] = v
          /\ tmp_file' = [tmp_file EXCEPT ![id[shown[w]]] = v]
          /\ fd' = [fd EXCEPT ![w] = v]
          /\ content' = [content EXCEPT ![v] = [text |-> "empty", by |-> w]]
    BY <1>9, OpenTmpOfCall
  <2>3. \A i \in Ids : tmp_file'[i] = IF i = id[shown[w]] THEN v ELSE tmp_file[i]
    BY <2>1, <2>2, <1>3 DEF TypeOK
  <2>4. \A u \in Writers :
          /\ fd'[u] = IF u = w THEN v ELSE fd[u]
          /\ content'[u] = IF u = v THEN [text |-> "empty", by |-> w] ELSE content[u]
    BY <2>2, <1>3 DEF TypeOK, Writers
  <2>5. w \notin Requests /\ v \notin Requests
    BY <1>9, BrokerAssumption
  <2>6. LinksAreOwn'
    <3>1. \A i \in Ids : request_file[i] # v
      BY <2>5, BrokerAssumption DEF SharedInv, LinksAreOwn
    <3>2. UNCHANGED <<id, shown, request_file, decision_file>>
      BY <1>2
    <3>3. \A u \in Requests : pc'[u] = pc[u] /\ content'[u] = content[u]
      BY <1>4, <2>4, <2>5 DEF Writers
    <3>4. Topic(v) = shown[w] /\ shown[w] # NoFile
      BY <2>1, <2>2, <2>5, BrokerAssumption DEF Topic
    <3>5. \A i \in Ids : request_file[i] # NoFile => request_file[i] \in Requests
      BY DEF SharedInv, LinksAreOwn
    <3> SUFFICES ASSUME NEW i \in Ids
                 PROVE  /\ LinksAreOwn!(i)!1'
                        /\ LinksAreOwn!(i)!2'
                        /\ LinksAreOwn!(i)!3'
      BY DEF LinksAreOwn
    <3>6. LinksAreOwn!(i)!1' /\ LinksAreOwn!(i)!2'
      BY <3>2, <3>3, <3>5 DEF SharedInv, LinksAreOwn
    <3>7. LinksAreOwn!(i)!3'
      BY <2>3, <3>2, <3>4 DEF SharedInv, LinksAreOwn, Topic
    <3>8. QED
      BY <3>6, <3>7
  <2>7. RequestsKeepTheirInode'
    <3>1. UNCHANGED <<id, shown, request_file>>
      BY <1>2
    <3>2. \A u \in Requests : pc'[u] = pc[u] /\ content'[u] = content[u] /\ fd'[u] = fd[u]
      BY <1>4, <2>4, <2>5 DEF Writers
    <3>3. \A r \in Requests : pc[r] \in {"opening", "writing", "renaming"} => id[r] \in Ids /\ id[r] # NoFile
      BY StartedRequest
    <3>4. \A r \in Requests : id[r] = id[shown[w]] => r = shown[w]
      BY <2>1, SameId
    <3>5. \A r \in Requests : id[r] # NoFile => id[r] \in Ids
      BY <1>3 DEF TypeOK
    <3>6. ~Publishing(shown[w])
      BY <1>9, <2>1 DEF SharedInv, RequestsKeepTheirInode
    <3>7. QED
      BY <1>9, <2>2, <2>3, <2>5, <3>1, <3>2, <3>3, <3>4, <3>5, <3>6
      DEF SharedInv, RequestsKeepTheirInode, Publishing
  <2>8. CallsShareTheirInodes'
    <3>1. UNCHANGED <<id, shown, decision_file>>
      BY <1>2
    <3>2. shown[w] # NoFile
      BY <2>1, BrokerAssumption
    <3>3. v = w \/ pc[v] \notin {"idle", "checking", "opening"}
      BY <2>1, <2>2 DEF SharedInv, CallsShareTheirInodes
    <3>4. \A c \in Calls : c \in Writers
      BY DEF Writers
    <3>5. ASSUME NEW c \in Calls
          PROVE  /\ fd'[c] # NoFile =>
                      fd'[c] \in Calls /\ shown[fd'[c]] = shown[c] /\ shown[c] # NoFile
                 /\ LET d == content'[c].by
                    IN  d \in Calls /\ (d # c => shown[d] = shown[c] /\ shown[c] # NoFile)
                 /\ content'[c].text \in {"empty", "approved", "denied", "denieded"}
      BY <1>9, <2>2, <2>4, <3>2, <3>4 DEF SharedInv, CallsShareTheirInodes
    <3>6. ASSUME NEW c \in Calls, pc'[c] \in {"idle", "checking", "opening"}
          PROVE  /\ \A i \in Ids : tmp_file'[i] # c /\ decision_file[i] # c
                 /\ \A d \in Calls : fd'[d] # c
      <4>1. c # w /\ pc[c] \in {"idle", "checking", "opening"}
        BY <1>4, <3>4, <3>6
      <4>2. c # v
        BY <3>3, <4>1
      <4>3. QED
        BY <2>3, <2>4, <3>4, <4>1, <4>2 DEF SharedInv, CallsShareTheirInodes
    <3>7. QED
      BY <3>1, <3>5, <3>6 DEF CallsShareTheirInodes
  <2>9. SoleTextIsWhole'
    <3>1. UNCHANGED <<shown, verdict, decision_file>>
      BY <1>2
    <3> SUFFICES ASSUME NEW c \in Calls, Sole(c)
                 PROVE  /\ pc'[c] = "writing" => fd'[c] = c /\ content'[c].text = "empty"
                        /\ pc'[c] = "renaming" => content'[c].text = TextOf[verdict[c]]
                        /\ \A i \in Ids : decision_file[i] = c =>
                             pc'[c] = "done" /\ content'[c].text = TextOf[verdict[c]]
      BY <3>1 DEF SoleTextIsWhole, Sole
    <3>2. CASE c = w
      <4>1. v = c
        BY <2>2, <3>2 DEF Sole
      <4>2. \A i \in Ids : decision_file[i] # c
        BY <1>2, <3>2 DEF SharedInv, CallsShareTheirInodes
      <4>3. QED
        BY <1>4, <2>4, <3>2, <4>1, <4>2 DEF Writers
    <3>3. CASE c # w
      <4>1. v # c
        BY <1>9, <2>2, <3>3 DEF Sole
      <4>2. QED
        BY <1>4, <2>4, <3>3, <4>1 DEF Writers, SharedInv, SoleTextIsWhole
    <3>4. QED
      BY <3>2, <3>3
  <2>10. QED
    BY <2>6, <2>7, <2>8, <2>9
<1>10. QED
  BY <1>1, <1>5, <1>6, <1>7, <1>8, <1>9 DEF SharedInv, Writers

\* A writer writes the inode it opened; a call's is a call's.
LEMMA WriteTmpSharedInv ==
  ASSUME SharedInv, NEW w \in Writers, WriteTmp(w) PROVE SharedInv'
<1> DEFINE left == Overwrite(content[fd[w]].text, NewText(w))
<1>1. TypeInv'
  BY WriteTmpTypeInv DEF SharedInv
<1>2. /\ pc[w] = "writing" /\ pc' = [pc EXCEPT ![w] = "renaming"]
      /\ UNCHANGED <<clock, asking, answering, links, fd>>
  BY DEF WriteTmp, Goto
<1>3. TypeInv /\ TypeOK /\ Bookkeeping
  BY DEF SharedInv, TypeInv
<1>4. \A v \in Writers : pc'[v] = IF v = w THEN "renaming" ELSE pc[v]
  BY <1>2, <1>3 DEF TypeOK
<1>5. /\ fd[w] \in Writers /\ fd[w] # NoFile
      /\ NewText(w) \in {"request", "approved", "denied"}
      /\ content[fd[w]].text \in Texts
      /\ content' = [content EXCEPT ![fd[w]] = [text |-> left, by |-> w]]
  BY <1>3, WriteTmpEffect, BrokerAssumption DEF Writers
<1>6. \A v \in Writers :
        content'[v] = IF v = fd[w] THEN [text |-> left, by |-> w] ELSE content[v]
  BY <1>3, <1>5 DEF TypeOK
<1>7. /\ content[fd[w]].text = "empty" => left = NewText(w)
      /\ content[fd[w]].text \in {"empty", "approved", "denied", "denieded"}
           /\ NewText(w) # "request" => left \in {"approved", "denied", "denieded"}
  BY <1>5, OverwriteText
<1> HIDE DEF left
<1>8. UNCHANGED <<counter, id, outcome, released_by, shown, verdict, told, answers,
                  request_file, decision_file, tmp_file, fd>>
  BY <1>2 DEF clock, asking, answering, links
<1>9. IdsAreUnique' /\ ObeyedIsForThisRequest'
  BY <1>8 DEF SharedInv, IdsAreUnique, ObeyedIsForThisRequest
<1>10. SoleDecisionCounts'
  BY <1>8 DEF SharedInv, SoleDecisionCounts
<1>11. FalseMeansClosed'
  BY <1>2, <1>3, <1>4, <1>8 DEF SharedInv, FalseMeansClosed, TypeOK, Bookkeeping, Writers
<1>12. ASSUME w \in Requests
       PROVE  LinksAreOwn' /\ RequestsKeepTheirInode' /\ CallsShareTheirInodes' /\ SoleTextIsWhole'
  <2>1. fd[w] = w /\ w \notin Calls
    BY <1>5, <1>12, BrokerAssumption DEF SharedInv, RequestsKeepTheirInode
  <2>2. /\ request_file[id[w]] = NoFile /\ id[w] \in Ids
        /\ content[w].text \in {"empty", "request"} /\ NewText(w) = "request"
    BY <1>2, <1>12, StartedRequest
    DEF SharedInv, RequestsKeepTheirInode, Publishing, NewText
  <2>3. left = "request"
    BY <2>2 DEF left, Overwrite
  <2>4. LinksAreOwn'
    BY <1>2, <1>4, <1>6, <1>8, <1>12, <2>1, <2>2, <2>3, BrokerAssumption
    DEF SharedInv, LinksAreOwn, Topic, Writers
  <2>5. RequestsKeepTheirInode'
    BY <1>2, <1>4, <1>6, <1>8, <2>1, <2>3
    DEF SharedInv, RequestsKeepTheirInode, Publishing, Writers
  <2>6. CallsShareTheirInodes'
    BY <1>4, <1>6, <1>8, <2>1 DEF SharedInv, CallsShareTheirInodes, Writers
  <2>7. SoleTextIsWhole'
    BY <1>4, <1>6, <1>8, <2>1 DEF SharedInv, SoleTextIsWhole, Sole, Writers
  <2>8. QED
    BY <2>4, <2>5, <2>6, <2>7
<1>13. ASSUME w \in Calls
       PROVE  LinksAreOwn' /\ RequestsKeepTheirInode' /\ CallsShareTheirInodes' /\ SoleTextIsWhole'
  <2>1. /\ fd[w] \in Calls /\ shown[fd[w]] = shown[w] /\ shown[w] # NoFile
        /\ fd[w] \notin Requests /\ w \notin Requests
    BY <1>5, <1>13, BrokerAssumption DEF SharedInv, CallsShareTheirInodes
  <2>2. NewText(w) = TextOf[verdict[w]] /\ NewText(w) # "request"
    BY <1>2, <1>13, <2>1, StartedCall DEF NewText, TextOf
  <2>3. left \in {"approved", "denied", "denieded"}
    BY <1>7, <2>1, <2>2 DEF SharedInv, CallsShareTheirInodes
  <2>4. \A r \in Requests : pc'[r] = pc[r] /\ content'[r] = content[r]
    BY <1>4, <1>6, <2>1 DEF Writers
  <2>5. LinksAreOwn'
    BY <1>8, <2>4 DEF SharedInv, LinksAreOwn, Topic
  <2>6. RequestsKeepTheirInode'
    BY <1>8, <2>4 DEF SharedInv, RequestsKeepTheirInode, Publishing
  <2>7. CallsShareTheirInodes'
    <3>1. \A c \in Calls : c \in Writers
      BY DEF Writers
    <3>2. \A c \in Calls : pc'[c] \in {"idle", "checking", "opening"} =>
                              pc[c] \in {"idle", "checking", "opening"}
      BY <1>4, <3>1
    <3>3. QED
      BY <1>6, <1>8, <1>13, <2>1, <2>3, <3>1, <3>2 DEF SharedInv, CallsShareTheirInodes
  <2>8. SoleTextIsWhole'
    <3> SUFFICES ASSUME NEW c \in Calls, Sole(c)
                 PROVE  /\ pc'[c] = "writing" => fd[c] = c /\ content'[c].text = "empty"
                        /\ pc'[c] = "renaming" => content'[c].text = TextOf[verdict[c]]
                        /\ \A i \in Ids : decision_file[i] = c =>
                             pc'[c] = "done" /\ content'[c].text = TextOf[verdict[c]]
      BY <1>8 DEF SoleTextIsWhole, Sole
    <3>1. CASE c = w
      <4>1. fd[c] = c /\ content[c].text = "empty"
        BY <1>2, <3>1 DEF SharedInv, SoleTextIsWhole
      <4>2. \A i \in Ids : decision_file[i] # c
        BY <1>2, <3>1 DEF SharedInv, SoleTextIsWhole
      <4>3. QED
        BY <1>4, <1>6, <1>7, <2>2, <3>1, <4>1, <4>2 DEF Writers
    <3>2. CASE c # w
      <4>1. fd[w] # c
        BY <1>13, <2>1, <3>2 DEF Sole
      <4>2. QED
        BY <1>4, <1>6, <3>2, <4>1 DEF Writers, SharedInv, SoleTextIsWhole
    <3>3. QED
      BY <3>1, <3>2
  <2>9. QED
    BY <2>5, <2>6, <2>7, <2>8
<1>14. QED
  BY <1>1, <1>9, <1>10, <1>11, <1>12, <1>13 DEF SharedInv, Writers

\* The request appears at its path; the temporary it leaves is free for calls.
LEMMA PublishSharedInv ==
  ASSUME SharedInv, NEW r \in Requests, Publish(r) PROVE SharedInv'
<1> DEFINE i == id[r]
<1>1. TypeInv'
  BY PublishTypeInv DEF SharedInv
<1>2. TypeOK /\ Bookkeeping /\ r \notin Calls /\ r # NoFile
  BY BrokerAssumption DEF SharedInv, TypeInv
<1>3. /\ pc[r] = "renaming" /\ i \in Ids /\ i # NoFile /\ IdOf(r) = i
      /\ tmp_file[i] = r /\ request_file[i] = NoFile
      /\ content[r].text = "request"
      /\ \A c \in Calls : shown[c] # r
  BY StartedRequest DEF Publish, SharedInv, RequestsKeepTheirInode, Publishing
<1>4. /\ pc' = [pc EXCEPT ![r] = "polling"]
      /\ tmp_file' = [tmp_file EXCEPT ![i] = NoFile]
      /\ fd' = [fd EXCEPT ![r] = NoFile]
      /\ request_file' = [request_file EXCEPT ![i] = r]
      /\ UNCHANGED <<counter, id, outcome, released_by, shown, verdict, told, answers,
                     decision_file, content>>
  BY <1>3 DEF Publish, MoveTmpTo, Goto, clock, answering
<1>5. \A v \in Writers : /\ pc'[v] = IF v = r THEN "polling" ELSE pc[v]
                         /\ fd'[v] = IF v = r THEN NoFile ELSE fd[v]
  BY <1>2, <1>4 DEF TypeOK
<1>6. \A j \in Ids : /\ tmp_file'[j] = IF j = i THEN NoFile ELSE tmp_file[j]
                     /\ request_file'[j] = IF j = i THEN r ELSE request_file[j]
  BY <1>2, <1>3, <1>4 DEF TypeOK
<1>7. \A s \in Requests : id[s] = i => s = r
  BY <1>3, SameId
<1>8. \A s \in Requests : id[s] # NoFile => id[s] \in Ids
  BY <1>2 DEF TypeOK
<1> HIDE DEF i
<1>9. IdsAreUnique' /\ ObeyedIsForThisRequest' /\ SoleDecisionCounts'
  BY <1>4 DEF SharedInv, IdsAreUnique, ObeyedIsForThisRequest, SoleDecisionCounts
<1>10. FalseMeansClosed'
  BY <1>2, <1>3, <1>4, <1>5 DEF SharedInv, FalseMeansClosed, TypeOK, Bookkeeping, Writers
<1>11. LinksAreOwn'
  BY <1>2, <1>3, <1>4, <1>5, <1>6 DEF i, SharedInv, LinksAreOwn, Topic, Writers
<1>12. RequestsKeepTheirInode'
  <2>1. \A s \in Requests : pc[s] \in RequesterPc => id[s] # NoFile
    BY <1>2 DEF Bookkeeping, RequesterPc
  <2>2. QED
    BY <1>2, <1>3, <1>4, <1>5, <1>6, <1>7, <1>8, <2>1
    DEF i, SharedInv, RequestsKeepTheirInode, Publishing, RequesterPc, Writers
<1>13. CallsShareTheirInodes'
  BY <1>2, <1>4, <1>5, <1>6, BrokerAssumption DEF SharedInv, CallsShareTheirInodes, Writers
<1>14. SoleTextIsWhole'
  BY <1>2, <1>4, <1>5 DEF SharedInv, SoleTextIsWhole, Sole, Writers
<1>15. QED
  BY <1>1, <1>9, <1>10, <1>11, <1>12, <1>13, <1>14 DEF SharedInv

LEMMA FailToPublishSharedInv ==
  ASSUME SharedInv, NEW r \in Requests, FailToPublish(r) PROVE SharedInv'
<1>1. TypeInv'
  BY FailToPublishTypeInv DEF SharedInv
<1>2. TypeOK /\ Bookkeeping /\ OutcomesAreLate /\ r \notin Calls /\ r # NoFile
  BY BrokerAssumption DEF SharedInv, TypeInv
<1>3. /\ Publishing(r) /\ id[r] \in Ids /\ id[r] # NoFile
      /\ request_file[id[r]] = NoFile
      /\ \A c \in Calls : shown[c] # r
  BY StartedRequest DEF FailToPublish, SharedInv, RequestsKeepTheirInode, Publishing
<1>4. /\ pc' = [pc EXCEPT ![r] = "done"]
      /\ fd' = [fd EXCEPT ![r] = NoFile]
      /\ outcome' = [outcome EXCEPT ![r] = "denied"]
      /\ UNCHANGED <<counter, id, released_by, shown, verdict, told, answers,
                     request_file, decision_file, tmp_file, content>>
  BY DEF FailToPublish, Goto, clock, answering, links
<1>5. \A v \in Writers : /\ pc'[v] = IF v = r THEN "done" ELSE pc[v]
                         /\ fd'[v] = IF v = r THEN NoFile ELSE fd[v]
  BY <1>2, <1>4 DEF TypeOK
<1>6. \A s \in Requests : outcome'[s] = IF s = r THEN "denied" ELSE outcome[s]
  BY <1>2, <1>4 DEF TypeOK
<1>7. released_by[r] = NoFile
  BY <1>2, <1>3 DEF OutcomesAreLate, Publishing
<1>8. IdsAreUnique' /\ ObeyedIsForThisRequest'
  BY <1>4 DEF SharedInv, IdsAreUnique, ObeyedIsForThisRequest
<1>9. SoleDecisionCounts'
  BY <1>4, <1>6, <1>7, BrokerAssumption DEF SharedInv, SoleDecisionCounts
<1>10. FalseMeansClosed'
  BY <1>2, <1>3, <1>4, <1>5, <1>6
  DEF SharedInv, FalseMeansClosed, TypeOK, Bookkeeping, Writers
<1>11. LinksAreOwn'
  BY <1>2, <1>3, <1>4, <1>5 DEF SharedInv, LinksAreOwn, Topic, Writers
<1>12. RequestsKeepTheirInode'
  BY <1>2, <1>3, <1>4, <1>5
  DEF SharedInv, RequestsKeepTheirInode, Publishing, Writers
<1>13. CallsShareTheirInodes'
  BY <1>2, <1>4, <1>5, BrokerAssumption DEF SharedInv, CallsShareTheirInodes, Writers
<1>14. SoleTextIsWhole'
  BY <1>2, <1>4, <1>5 DEF SharedInv, SoleTextIsWhole, Sole, Writers
<1>15. QED
  BY <1>1, <1>8, <1>9, <1>10, <1>11, <1>12, <1>13, <1>14 DEF SharedInv

\* The decision was written by a call shown this request.
LEMMA TakeDecisionSharedInv ==
  ASSUME SharedInv, NEW r \in Requests, TakeDecision(r) PROVE SharedInv'
<1> DEFINE v == decision_file[id[r]]
           by == content[v].by
           said == IF content[v].text = "approved" THEN "approved" ELSE "denied"
<1>1. TypeInv'
  BY TakeDecisionTypeInv DEF SharedInv
<1>2. TypeOK /\ Bookkeeping /\ OutcomesAreLate /\ r \notin Calls
  BY BrokerAssumption DEF SharedInv, TypeInv
<1>3. pc[r] = "polling" /\ id[r] \in Ids /\ id[r] # NoFile /\ v # NoFile
  BY StartedRequest DEF TakeDecision
<1>4. v \in Calls /\ shown[v] = r
  <2>1. v \in Calls /\ shown[v] # NoFile /\ id[shown[v]] = id[r]
    BY <1>3 DEF SharedInv, LinksAreOwn
  <2>2. shown[v] \in Requests
    BY <1>2, <2>1 DEF TypeOK
  <2>3. QED
    BY <1>3, <2>1, <2>2, SameId
<1>5. by \in Calls /\ shown[by] = r
  BY <1>4 DEF SharedInv, CallsShareTheirInodes
<1>6. /\ outcome' = [outcome EXCEPT ![r] = said]
      /\ released_by' = [released_by EXCEPT ![r] = by]
      /\ pc' = [pc EXCEPT ![r] = "unlisting"]
      /\ UNCHANGED <<counter, id, shown, verdict, told, answers,
                     request_file, decision_file, tmp_file, fd, content>>
  BY DEF TakeDecision, Goto, clock, answering, disk, links
<1>7. \A c \in Calls : released_by'[r] = c /\ {d \in Calls : shown[d] = r} = {c} =>
                         said = TextOf[verdict[c]]
  <2> SUFFICES ASSUME NEW c \in Calls, {d \in Calls : shown[d] = r} = {c}
               PROVE  said = TextOf[verdict[c]]
    OBVIOUS
  <2>1. c = v /\ Sole(c)
    BY <1>4, BrokerAssumption DEF Sole
  <2>2. content[v].text = TextOf[verdict[c]]
    BY <1>3, <2>1 DEF SharedInv, SoleTextIsWhole
  <2>3. verdict[c] \in {"approve", "deny"}
    BY <1>2, <2>1 DEF TypeOK, Bookkeeping, Sole
  <2>4. QED
    BY <2>2, <2>3 DEF TextOf
<1>8. said \in {"approved", "denied"}
  OBVIOUS
<1> HIDE DEF v, by, said
<1>9. /\ \A w \in Writers : pc'[w] = IF w = r THEN "unlisting" ELSE pc[w]
      /\ \A s \in Requests : /\ outcome'[s] = IF s = r THEN said ELSE outcome[s]
                             /\ released_by'[s] = IF s = r THEN by ELSE released_by[s]
  BY <1>2, <1>6 DEF TypeOK
<1>10. IdsAreUnique' /\ ObeyedIsForThisRequest'
  BY <1>5, <1>6, <1>9 DEF SharedInv, IdsAreUnique, ObeyedIsForThisRequest
<1>11. SoleDecisionCounts'
  BY <1>6, <1>7, <1>9 DEF SharedInv, SoleDecisionCounts
<1>12. FalseMeansClosed'
  BY <1>3, <1>6, <1>8, <1>9, <1>2 DEF SharedInv, FalseMeansClosed, TypeOK, Bookkeeping, Writers
<1>13. LinksAreOwn'
  BY <1>2, <1>3, <1>6, <1>9 DEF SharedInv, LinksAreOwn, Topic, Writers
<1>14. RequestsKeepTheirInode'
  BY <1>2, <1>3, <1>6, <1>9 DEF SharedInv, RequestsKeepTheirInode, Publishing, Writers
<1>15. CallsShareTheirInodes'
  BY <1>2, <1>6, <1>9 DEF SharedInv, CallsShareTheirInodes, Writers
<1>16. SoleTextIsWhole'
  BY <1>2, <1>6, <1>9 DEF SharedInv, SoleTextIsWhole, Sole, Writers
<1>17. QED
  BY <1>1, <1>10, <1>11, <1>12, <1>13, <1>14, <1>15, <1>16 DEF SharedInv

LEMMA PollingSharedInv ==
  ASSUME SharedInv, NEW r \in Requests, Miss(r) \/ Sleep(r) \/ TimeOut(r) PROVE SharedInv'
<1>1. TypeInv'
  BY PollingTypeInv DEF SharedInv
<1>2. TypeOK /\ Bookkeeping /\ OutcomesAreLate /\ r \notin Calls
  BY BrokerAssumption DEF SharedInv, TypeInv
<1>3. pc[r] \in {"polling", "missed"} /\ id[r] \in Ids /\ id[r] # NoFile
  BY StartedRequest DEF Miss, Sleep, TimeOut
<1>4. released_by[r] = NoFile
  BY <1>2, <1>3 DEF OutcomesAreLate
<1>5. PICK label \in {"missed", "polling", "unlisting"} :
        /\ pc' = [pc EXCEPT ![r] = label]
        /\ outcome' = outcome \/ outcome' = [outcome EXCEPT ![r] = "timedout"]
        /\ UNCHANGED <<counter, id, released_by, shown, verdict, told, answers,
                       request_file, decision_file, tmp_file, fd, content>>
  BY DEF Miss, Sleep, TimeOut, Goto, clock, asking, answering, disk, links
<1>6. /\ \A w \in Writers : pc'[w] = IF w = r THEN label ELSE pc[w]
      /\ \A s \in Requests : outcome'[s] = outcome[s] \/ (s = r /\ outcome'[s] # "none")
  BY <1>2, <1>5 DEF TypeOK
<1>7. IdsAreUnique' /\ ObeyedIsForThisRequest'
  BY <1>5 DEF SharedInv, IdsAreUnique, ObeyedIsForThisRequest
<1>8. SoleDecisionCounts'
  BY <1>4, <1>5, <1>6, BrokerAssumption DEF SharedInv, SoleDecisionCounts
<1>9. FalseMeansClosed'
  <2>1. \A s \in Requests : pc[s] = "dead" => pc'[s] = "dead"
    BY <1>3, <1>6 DEF Writers
  <2>2. \A c \in Calls : told[c] = "false" => shown[c] \in Requests
    BY <1>2 DEF TypeOK, Bookkeeping
  <2>3. QED
    BY <1>5, <1>6, <2>1, <2>2 DEF SharedInv, FalseMeansClosed
<1>10. LinksAreOwn'
  BY <1>2, <1>3, <1>5, <1>6 DEF SharedInv, LinksAreOwn, Topic, Writers
<1>11. RequestsKeepTheirInode'
  BY <1>2, <1>3, <1>5, <1>6 DEF SharedInv, RequestsKeepTheirInode, Publishing, Writers
<1>12. CallsShareTheirInodes'
  BY <1>2, <1>5, <1>6 DEF SharedInv, CallsShareTheirInodes, Writers
<1>13. SoleTextIsWhole'
  BY <1>2, <1>5, <1>6 DEF SharedInv, SoleTextIsWhole, Sole, Writers
<1>14. QED
  BY <1>1, <1>7, <1>8, <1>9, <1>10, <1>11, <1>12, <1>13 DEF SharedInv

\* Removing the links of one id leaves those of every other id.
LEMMA CleanupSharedInv ==
  ASSUME SharedInv, NEW r \in Requests, RemoveRequest(r) \/ RemoveDecision(r)
  PROVE  SharedInv'
<1>1. TypeInv'
  BY CleanupTypeInv DEF SharedInv
<1>2. TypeOK /\ Bookkeeping /\ OutcomesAreLate /\ r \notin Calls
  BY BrokerAssumption DEF SharedInv, TypeInv
<1>3. pc[r] \in {"unlisting", "clearing"} /\ id[r] \in Ids /\ id[r] # NoFile
  BY StartedRequest DEF RemoveRequest, RemoveDecision
<1>4. PICK label \in {"clearing", "done"} :
        /\ pc' = [pc EXCEPT ![r] = label]
        /\ \/ /\ pc[r] = "unlisting"
              /\ request_file' = [request_file EXCEPT ![id[r]] = NoFile]
              /\ UNCHANGED decision_file
           \/ /\ pc[r] = "clearing"
              /\ decision_file' = [decision_file EXCEPT ![id[r]] = NoFile]
              /\ UNCHANGED request_file
        /\ UNCHANGED <<counter, id, outcome, released_by, shown, verdict, told, answers,
                       tmp_file, fd, content>>
  BY DEF RemoveRequest, RemoveDecision, Goto, clock, asking, answering
<1>5. \A w \in Writers : pc'[w] = IF w = r THEN label ELSE pc[w]
  BY <1>2, <1>4 DEF TypeOK
<1>6. \A i \in Ids : /\ request_file'[i] = request_file[i]
                        \/ (i = id[r] /\ pc[r] = "unlisting" /\ request_file'[i] = NoFile)
                     /\ i = id[r] /\ pc[r] = "unlisting" => request_file'[i] = NoFile
                     /\ decision_file'[i] \in {decision_file[i], NoFile}
  BY <1>2, <1>4 DEF TypeOK
<1>7. \A s \in Requests : id[s] = id[r] => s = r
  BY <1>3, SameId
<1>8. \A s \in Requests : id[s] # NoFile => id[s] \in Ids
  BY <1>2 DEF TypeOK
<1>9. IdsAreUnique' /\ ObeyedIsForThisRequest' /\ SoleDecisionCounts'
  BY <1>4 DEF SharedInv, IdsAreUnique, ObeyedIsForThisRequest, SoleDecisionCounts
<1>10. FalseMeansClosed'
  BY <1>2, <1>3, <1>4, <1>5
  DEF SharedInv, FalseMeansClosed, TypeOK, Bookkeeping, Writers, OutcomesAreLate
<1>11. LinksAreOwn'
  <2>1. \A s \in Requests : s # r => pc'[s] = pc[s]
    BY <1>5 DEF Writers
  <2>2. \A i \in Ids : request_file'[i] # r
    BY <1>3, <1>6, <1>2, BrokerAssumption DEF SharedInv, LinksAreOwn
  <2>3. QED
    BY <1>4, <1>6, <2>1, <2>2 DEF SharedInv, LinksAreOwn, Topic
<1>12. RequestsKeepTheirInode'
  <2>1. \A s \in Requests : pc[s] \in RequesterPc => id[s] # NoFile
    BY <1>2 DEF Bookkeeping, RequesterPc
  <2>2. \A s \in Requests : pc'[s] = IF s = r THEN label ELSE pc[s]
    BY <1>5 DEF Writers
  <2>3. \A s \in Requests : s # r /\ id[s] # NoFile => request_file'[id[s]] = request_file[id[s]]
    BY <1>6, <1>7, <1>8
  <2>4. request_file[id[r]] = NoFile => request_file'[id[r]] = NoFile
    BY <1>3, <1>6
  <2>5. QED
    BY <1>3, <1>4, <2>1, <2>2, <2>3, <2>4
    DEF SharedInv, RequestsKeepTheirInode, Publishing, RequesterPc
<1>13. CallsShareTheirInodes'
  BY <1>2, <1>4, <1>5, <1>6, BrokerAssumption DEF SharedInv, CallsShareTheirInodes, Writers
<1>14. SoleTextIsWhole'
  BY <1>2, <1>4, <1>5, <1>6, BrokerAssumption DEF SharedInv, SoleTextIsWhole, Sole, Writers
<1>15. QED
  BY <1>1, <1>9, <1>10, <1>11, <1>12, <1>13, <1>14 DEF SharedInv

LEMMA CrashSharedInv == ASSUME SharedInv, NEW p \in Processes, Crash(p) PROVE SharedInv'
<1>1. TypeInv'
  BY CrashTypeInv DEF SharedInv
<1>2. TypeOK /\ Bookkeeping /\ OutcomesAreLate
  BY DEF SharedInv, TypeInv
<1>3. UNCHANGED <<clock, asking, answering, disk>>
  BY DEF Crash
<1>4. \A w \in Writers : /\ pc'[w] = pc[w] \/ (w \in Requests /\ pc[w] # "done" /\ pc'[w] = "dead")
                         /\ w \in Calls => pc'[w] = pc[w]
  BY <1>2, BrokerAssumption DEF Crash, TypeOK, Writers
<1> USE <1>3 DEF clock, asking, answering, disk, links
<1>5. IdsAreUnique' /\ ObeyedIsForThisRequest' /\ SoleDecisionCounts'
  BY DEF SharedInv, IdsAreUnique, ObeyedIsForThisRequest, SoleDecisionCounts
<1>6. FalseMeansClosed'
  <2>1. \A s \in Requests : pc[s] = "dead" => pc'[s] = "dead"
    BY <1>4 DEF Writers
  <2>2. \A c \in Calls : told[c] = "false" => shown[c] \in Requests
    BY <1>2 DEF TypeOK, Bookkeeping
  <2>3. QED
    BY <2>1, <2>2 DEF SharedInv, FalseMeansClosed
<1>7. LinksAreOwn'
  <2>1. \A r \in Requests : pc'[r] = pc[r] \/ pc'[r] = "dead"
    BY <1>4 DEF Writers
  <2>2. QED
    BY <2>1 DEF SharedInv, LinksAreOwn, Topic
<1>8. RequestsKeepTheirInode'
  BY <1>2, <1>4 DEF SharedInv, RequestsKeepTheirInode, Publishing, Writers
<1>9. CallsShareTheirInodes'
  BY <1>2, <1>4 DEF SharedInv, CallsShareTheirInodes, Writers
<1>10. SoleTextIsWhole'
  BY <1>2, <1>4 DEF SharedInv, SoleTextIsWhole, Sole, Writers
<1>11. QED
  BY <1>1, <1>5, <1>6, <1>7, <1>8, <1>9, <1>10 DEF SharedInv

\* Only a published request is listed, and the text on display is its own.
LEMMA DecideOfShared ==
  ASSUME SharedInv, NEW c \in Calls, Decide(c)
  PROVE  \E v \in {"approve", "deny"}, r \in Requests :
           /\ id[r] \in Ids /\ id[r] # NoFile /\ request_file[id[r]] = r
           /\ pc[r] \in {"polling", "missed", "unlisting", "dead"}
           /\ shown' = [shown EXCEPT ![c] = r]
           /\ verdict' = [verdict EXCEPT ![c] = v]
           /\ answers' = [answers EXCEPT ![r] = @ \union {v}]
<1>1. PICK i \in Ids, v \in {"approve", "deny"}, r \in Requests :
        /\ request_file[i] \in Writers
        /\ content[request_file[i]].text = "request"
        /\ r = content[request_file[i]].by /\ id[r] # NoFile
        /\ shown' = [shown EXCEPT ![c] = r]
        /\ verdict' = [verdict EXCEPT ![c] = v]
        /\ answers' = [answers EXCEPT ![r] = @ \union {v}]
  <2>1. TypeInv
    BY DEF SharedInv
  <2>2. QED
    BY <2>1, DecideEffect, Zenon
<1>2. request_file[i] # NoFile
  BY <1>1, BrokerAssumption DEF Writers
<1>3. /\ request_file[i] \in Requests /\ id[request_file[i]] = i
      /\ pc[request_file[i]] \in {"polling", "missed", "unlisting", "dead"}
  BY <1>2 DEF SharedInv, LinksAreOwn
<1>4. r = request_file[i]
  BY <1>1, <1>3 DEF SharedInv, RequestsKeepTheirInode
<1>5. QED
  BY <1>1, <1>3, <1>4, NoFileIsNoId

LEMMA DecideSharedInv == ASSUME SharedInv, NEW c \in Calls, Decide(c) PROVE SharedInv'
<1>1. TypeInv'
  BY DecideTypeInv DEF SharedInv
<1>2. TypeOK /\ Bookkeeping /\ c \notin Requests /\ c # NoFile
  BY BrokerAssumption DEF SharedInv, TypeInv
<1>3. PICK v \in {"approve", "deny"}, r \in Requests :
        /\ id[r] \in Ids /\ id[r] # NoFile /\ request_file[id[r]] = r
        /\ pc[r] \in {"polling", "missed", "unlisting", "dead"}
        /\ shown' = [shown EXCEPT ![c] = r]
        /\ verdict' = [verdict EXCEPT ![c] = v]
        /\ answers' = [answers EXCEPT ![r] = @ \union {v}]
  BY DecideOfShared
<1>4. /\ pc[c] = "idle" /\ pc' = [pc EXCEPT ![c] = "checking"]
      /\ UNCHANGED <<counter, id, outcome, released_by, told,
                     request_file, decision_file, tmp_file, fd, content>>
  BY DEF Decide, Goto, clock, asking, disk, links
<1>5. /\ \A w \in Writers : pc'[w] = IF w = c THEN "checking" ELSE pc[w]
      /\ \A d \in Calls : /\ shown'[d] = IF d = c THEN r ELSE shown[d]
                          /\ verdict'[d] = IF d = c THEN v ELSE verdict[d]
      /\ \A s \in Requests : answers'[s] = IF s = r THEN answers[s] \union {v} ELSE answers[s]
  BY <1>2, <1>3, <1>4 DEF TypeOK
<1>6. shown[c] = NoFile /\ told[c] = "none" /\ r # NoFile
  BY <1>2, <1>4, BrokerAssumption DEF Bookkeeping
<1>7. \A s \in Requests : pc'[s] = pc[s]
  BY <1>2, <1>5 DEF Writers
<1>8. \A d \in Calls : d # c => pc'[d] = pc[d]
  BY <1>5 DEF Writers
<1>9. /\ \A i \in Ids : tmp_file[i] # c /\ decision_file[i] # c
      /\ \A d \in Calls : fd[d] # c
  BY <1>4 DEF SharedInv, CallsShareTheirInodes
<1>10. IdsAreUnique'
  BY <1>4 DEF SharedInv, IdsAreUnique
<1>11. ObeyedIsForThisRequest'
  <2>1. ASSUME NEW s \in Requests, released_by[s] # NoFile
        PROVE  released_by[s] \in Calls /\ shown'[released_by[s]] = s
    BY <2>1, <1>5, <1>6, BrokerAssumption DEF SharedInv, ObeyedIsForThisRequest
  <2>2. ASSUME NEW d \in Calls, shown'[d] # NoFile
        PROVE  verdict'[d] \in answers'[shown'[d]]
    <3>1. CASE d = c
      BY <1>3, <1>5, <3>1
    <3>2. CASE d # c
      <4>1. shown[d] \in Requests /\ verdict[d] \in answers[shown[d]]
        BY <1>2, <1>5, <2>2, <3>2 DEF SharedInv, ObeyedIsForThisRequest, TypeOK
      <4>2. QED
        BY <1>5, <3>2, <4>1
    <3>3. QED
      BY <3>1, <3>2
  <2>3. QED
    BY <1>4, <2>1, <2>2 DEF ObeyedIsForThisRequest
<1>12. SoleDecisionCounts'
  <2> SUFFICES ASSUME NEW s \in Requests, NEW d \in Calls, released_by[s] = d,
                      {e \in Calls : shown'[e] = s} = {d}
               PROVE  outcome[s] = TextOf[verdict'[d]]
    BY <1>4 DEF SoleDecisionCounts
  <2>1. d # NoFile /\ shown[d] = s
    BY BrokerAssumption DEF SharedInv, ObeyedIsForThisRequest
  <2>2. d # c
    BY <1>6, <2>1, BrokerAssumption
  <2>3. {e \in Calls : shown[e] = s} = {d}
    BY <1>5, <1>6, <2>1, BrokerAssumption
  <2>4. QED
    BY <1>5, <2>2, <2>3 DEF SharedInv, SoleDecisionCounts
<1>13. FalseMeansClosed'
  <2>1. \A d \in Calls : told[d] = "false" => d # c /\ shown[d] \in Requests
    BY <1>2, <1>6 DEF TypeOK, Bookkeeping
  <2>2. QED
    BY <1>4, <1>5, <1>7, <2>1 DEF SharedInv, FalseMeansClosed
<1>14. LinksAreOwn'
  <2>1. \A w \in Writers : w # c => Topic(w)' = Topic(w)
    BY <1>5 DEF Topic, Writers
  <2>2. \A i \in Ids : tmp_file[i] \in Link /\ decision_file[i] \in Link
    BY <1>2 DEF TypeOK
  <2>3. QED
    BY <1>2, <1>4, <1>5, <1>7, <1>9, <2>1, <2>2 DEF SharedInv, LinksAreOwn, Link
<1>15. RequestsKeepTheirInode'
  <2>1. tmp_file[id[r]] # r /\ ~Publishing(r)
    BY <1>3, BrokerAssumption DEF SharedInv, RequestsKeepTheirInode, Publishing
  <2>2. QED
    BY <1>4, <1>5, <1>7, <2>1 DEF SharedInv, RequestsKeepTheirInode, Publishing
<1>16. CallsShareTheirInodes'
  <2>1. ASSUME NEW d \in Calls
        PROVE  /\ fd[d] # NoFile =>
                    fd[d] \in Calls /\ shown'[fd[d]] = shown'[d] /\ shown'[d] # NoFile
               /\ LET e == content[d].by
                  IN  e \in Calls /\ (e # d => shown'[e] = shown'[d] /\ shown'[d] # NoFile)
               /\ content[d].text \in {"empty", "approved", "denied", "denieded"}
    BY <1>5, <1>6, BrokerAssumption DEF SharedInv, CallsShareTheirInodes
  <2>2. ASSUME NEW d \in Calls, pc'[d] \in {"idle", "checking", "opening"}
        PROVE  /\ \A i \in Ids : tmp_file[i] # d /\ decision_file[i] # d
               /\ \A e \in Calls : fd[e] # d
    BY <1>8, <1>9, <2>2 DEF SharedInv, CallsShareTheirInodes
  <2>3. QED
    BY <1>4, <2>1, <2>2 DEF CallsShareTheirInodes
<1>17. SoleTextIsWhole'
  <2> SUFFICES ASSUME NEW d \in Calls, Sole(d)'
               PROVE  /\ pc'[d] = "writing" => fd[d] = d /\ content[d].text = "empty"
                      /\ pc'[d] = "renaming" => content[d].text = TextOf[verdict'[d]]
                      /\ \A i \in Ids : decision_file[i] = d =>
                           pc'[d] = "done" /\ content[d].text = TextOf[verdict'[d]]
    BY <1>4 DEF SoleTextIsWhole
  <2>1. CASE d = c
    <3>1. pc'[d] = "checking"
      BY <1>5, <2>1 DEF Writers
    <3>2. QED
      BY <1>9, <2>1, <3>1
  <2>2. CASE d # c
    <3>1. Sole(d)
      BY <1>5, <1>6, <2>2 DEF Sole
    <3>2. QED
      BY <1>5, <1>8, <2>2, <3>1 DEF SharedInv, SoleTextIsWhole
  <2>3. QED
    BY <2>1, <2>2
<1>18. QED
  BY <1>1, <1>10, <1>11, <1>12, <1>13, <1>14, <1>15, <1>16, <1>17 DEF SharedInv

\* A call is turned away from an id without a request file: that of a request
\* whose broker has an outcome for it, or died.
LEMMA AnsweringSharedInv ==
  ASSUME SharedInv, NEW c \in Calls, CheckOpen(c) \/ FailToDecide(c) PROVE SharedInv'
<1>1. TypeInv'
  BY AnsweringTypeInv DEF SharedInv
<1>2. TypeOK /\ Bookkeeping /\ OutcomesAreLate /\ c \notin Requests
  BY BrokerAssumption DEF SharedInv, TypeInv
<1>3. PICK label \in {"opening", "done"} :
        /\ pc[c] \in {"checking", "renaming"}
        /\ pc' = [pc EXCEPT ![c] = label]
        /\ label = "opening" => pc[c] = "checking"
        /\ fd' \in {fd, [fd EXCEPT ![c] = NoFile]}
        /\ UNCHANGED <<counter, id, outcome, released_by, shown, verdict, answers,
                       request_file, decision_file, tmp_file, content>>
  BY DEF CheckOpen, FailToDecide, Goto, clock, asking, disk, links
<1>4. /\ \A w \in Writers : /\ pc'[w] = IF w = c THEN label ELSE pc[w]
                            /\ fd'[w] = fd[w] \/ (w = c /\ fd'[w] = NoFile)
      /\ \A s \in Requests : pc'[s] = pc[s] /\ fd'[s] = fd[s]
  BY <1>2, <1>3 DEF TypeOK, Writers
<1>5. /\ \A d \in Calls : d # c => told'[d] = told[d]
      /\ told'[c] = "false" => told[c] = "false" \/ request_file[IdOf(c)] = NoFile
  <2>1. CASE CheckOpen(c)
    <3>1. CASE request_file[IdOf(c)] = NoFile
      BY <1>2, <2>1, <3>1 DEF CheckOpen, TypeOK
    <3>2. CASE request_file[IdOf(c)] # NoFile
      BY <2>1, <3>2 DEF CheckOpen
    <3>3. QED
      BY <3>1, <3>2
  <2>2. CASE FailToDecide(c)
    BY <1>2, <2>2 DEF FailToDecide, TypeOK
  <2>3. QED
    BY <2>1, <2>2
<1>6. shown[c] \in Requests /\ IdOf(c) = id[shown[c]] /\ id[shown[c]] # NoFile
  BY <1>3, StartedCall
<1>7. IdsAreUnique' /\ ObeyedIsForThisRequest' /\ SoleDecisionCounts'
  BY <1>3 DEF SharedInv, IdsAreUnique, ObeyedIsForThisRequest, SoleDecisionCounts
<1>8. FalseMeansClosed'
  <2>1. told'[c] = "false" => outcome[shown[c]] # "none" \/ pc[shown[c]] = "dead"
    <3> SUFFICES ASSUME told'[c] = "false", told[c] # "false"
                 PROVE  outcome[shown[c]] # "none" \/ pc[shown[c]] = "dead"
      BY DEF SharedInv, FalseMeansClosed
    <3>1. request_file[id[shown[c]]] = NoFile
      BY <1>5, <1>6
    <3>2. pc[shown[c]] \notin {"polling", "missed", "unlisting"}
      BY <1>6, <3>1, BrokerAssumption DEF SharedInv, RequestsKeepTheirInode
    <3>3. ~Publishing(shown[c])
      BY <1>6 DEF SharedInv, RequestsKeepTheirInode
    <3>4. pc[shown[c]] \in {"clearing", "done", "dead"}
      BY <1>2, <1>6, <3>2, <3>3 DEF Bookkeeping, RequesterPc, Publishing
    <3>5. QED
      BY <1>2, <1>6, <3>4 DEF OutcomesAreLate
  <2>2. \A d \in Calls : told'[d] = "false" => shown[d] \in Requests
    BY <1>1, <1>3 DEF TypeInv, TypeOK, Bookkeeping
  <2>3. QED
    BY <1>3, <1>4, <1>5, <2>1, <2>2 DEF SharedInv, FalseMeansClosed
<1>9. LinksAreOwn'
  BY <1>3, <1>4 DEF SharedInv, LinksAreOwn, Topic
<1>10. RequestsKeepTheirInode'
  BY <1>3, <1>4 DEF SharedInv, RequestsKeepTheirInode, Publishing
<1>11. CallsShareTheirInodes'
  <2>1. \A d \in Calls : fd'[d] # NoFile => fd'[d] = fd[d]
    BY <1>4 DEF Writers
  <2>2. \A d \in Calls : pc'[d] \in {"idle", "checking", "opening"} =>
                           pc[d] \in {"idle", "checking", "opening"}
    BY <1>3, <1>4 DEF Writers
  <2>3. \A d \in Calls : fd'[d] \in {fd[d], NoFile}
    BY <1>4 DEF Writers
  <2>4. QED
    BY <1>3, <2>1, <2>2, <2>3, BrokerAssumption DEF SharedInv, CallsShareTheirInodes
<1>12. SoleTextIsWhole'
  <2>1. \A i \in Ids : Sole(c) => decision_file[i] # c
    BY <1>3 DEF SharedInv, SoleTextIsWhole
  <2>2. QED
    BY <1>3, <1>4, <2>1 DEF SharedInv, SoleTextIsWhole, Sole, Writers
<1>13. QED
  BY <1>1, <1>7, <1>8, <1>9, <1>10, <1>11, <1>12 DEF SharedInv

\* What becomes the decision file is a temporary of calls shown this request.
LEMMA PublishDecisionSharedInv ==
  ASSUME SharedInv, NEW c \in Calls, PublishDecision(c) PROVE SharedInv'
<1> DEFINE i == id[shown[c]]
           v == tmp_file[i]
<1>1. TypeInv'
  BY PublishDecisionTypeInv DEF SharedInv
<1>2. TypeOK /\ Bookkeeping /\ c \notin Requests
  BY BrokerAssumption DEF SharedInv, TypeInv
<1>3. /\ pc[c] = "renaming" /\ shown[c] \in Requests /\ shown[c] # NoFile
      /\ i \in Ids /\ i # NoFile /\ IdOf(c) = i
  BY StartedCall, BrokerAssumption DEF PublishDecision
<1>4. v # NoFile
  BY <1>3 DEF PublishDecision, MoveTmpTo, TmpGone
<1>5. v \in Calls /\ shown[v] = shown[c]
  <2>1. v \in Writers /\ Topic(v) # NoFile /\ id[Topic(v)] = i
    BY <1>2, <1>3, <1>4 DEF SharedInv, LinksAreOwn, TypeOK, Link
  <2>2. Topic(v) \in Requests
    BY <1>2, <2>1 DEF Topic, TypeOK, Writers
  <2>3. Topic(v) = shown[c]
    BY <1>3, <2>1, <2>2, SameId
  <2>4. v \notin Requests
    BY <1>3, <2>3 DEF Topic, SharedInv, RequestsKeepTheirInode
  <2>5. QED
    BY <2>1, <2>3, <2>4 DEF Topic, Writers
<1>6. /\ pc' = [pc EXCEPT ![c] = "done"]
      /\ told' = [told EXCEPT ![c] = "true"]
      /\ tmp_file' = [tmp_file EXCEPT ![i] = NoFile]
      /\ fd' = [fd EXCEPT ![c] = NoFile]
      /\ decision_file' = [decision_file EXCEPT ![i] = v]
      /\ UNCHANGED <<counter, id, outcome, released_by, shown, verdict, answers,
                     request_file, content>>
  BY <1>3 DEF PublishDecision, MoveTmpTo, Goto, clock, asking
<1> HIDE DEF i, v
<1>7. /\ \A w \in Writers : /\ pc'[w] = IF w = c THEN "done" ELSE pc[w]
                            /\ fd'[w] = IF w = c THEN NoFile ELSE fd[w]
      /\ \A s \in Requests : pc'[s] = pc[s] /\ fd'[s] = fd[s]
      /\ \A d \in Calls : told'[d] = IF d = c THEN "true" ELSE told[d]
  BY <1>2, <1>6 DEF TypeOK, Writers
<1>8. \A j \in Ids : /\ tmp_file'[j] = IF j = i THEN NoFile ELSE tmp_file[j]
                     /\ decision_file'[j] = IF j = i THEN v ELSE decision_file[j]
  BY <1>2, <1>3, <1>6 DEF TypeOK
<1>9. IdsAreUnique' /\ ObeyedIsForThisRequest' /\ SoleDecisionCounts'
  BY <1>6 DEF SharedInv, IdsAreUnique, ObeyedIsForThisRequest, SoleDecisionCounts
<1>10. FalseMeansClosed'
  <2>1. \A d \in Calls : told[d] = "false" => shown[d] \in Requests
    BY <1>2 DEF TypeOK, Bookkeeping
  <2>2. QED
    BY <1>6, <1>7, <2>1 DEF SharedInv, FalseMeansClosed
<1>11. LinksAreOwn'
  BY <1>3, <1>5, <1>6, <1>7, <1>8 DEF i, SharedInv, LinksAreOwn, Topic
<1>12. RequestsKeepTheirInode'
  <2>1. \A r \in Requests : id[r] # NoFile => id[r] \in Ids
    BY <1>2 DEF TypeOK
  <2>2. \A r \in Requests : pc[r] \in RequesterPc => id[r] # NoFile
    BY <1>2 DEF Bookkeeping, RequesterPc
  <2>3. \A r \in Requests : id[r] = i => r = shown[c]
    BY <1>3, SameId DEF i
  <2>4. ~Publishing(shown[c])
    BY <1>3 DEF SharedInv, RequestsKeepTheirInode
  <2>5. QED
    BY <1>3, <1>6, <1>7, <1>8, <2>1, <2>2, <2>3, <2>4, BrokerAssumption
    DEF SharedInv, RequestsKeepTheirInode, Publishing, RequesterPc
<1>13. CallsShareTheirInodes'
  <2>1. pc[v] \notin {"idle", "checking", "opening"}
    BY <1>3, <1>5 DEF v, SharedInv, CallsShareTheirInodes
  <2>2. \A d \in Calls : pc'[d] \in {"idle", "checking", "opening"} =>
                           pc[d] \in {"idle", "checking", "opening"} /\ d # c
    BY <1>7 DEF Writers
  <2>3. \A d \in Calls : fd'[d] = fd[d] \/ fd'[d] = NoFile
    BY <1>7 DEF Writers
  <2>4. QED
    BY <1>6, <1>8, <2>1, <2>2, <2>3, BrokerAssumption DEF SharedInv, CallsShareTheirInodes
<1>14. SoleTextIsWhole'
  <2> SUFFICES ASSUME NEW d \in Calls, Sole(d)
               PROVE  /\ pc'[d] = "writing" => fd'[d] = d /\ content[d].text = "empty"
                      /\ pc'[d] = "renaming" => content[d].text = TextOf[verdict[d]]
                      /\ \A j \in Ids : decision_file'[j] = d =>
                           pc'[d] = "done" /\ content[d].text = TextOf[verdict[d]]
    BY <1>6 DEF SoleTextIsWhole, Sole
  <2>1. CASE d = c
    <3>1. content[c].text = TextOf[verdict[c]]
      BY <1>3, <2>1 DEF SharedInv, SoleTextIsWhole
    <3>2. QED
      BY <1>7, <2>1, <3>1 DEF Writers
  <2>2. CASE d # c
    <3>1. v # d
      BY <1>5, <2>2 DEF Sole
    <3>2. pc'[d] = pc[d] /\ fd'[d] = fd[d]
      BY <1>7, <2>2 DEF Writers
    <3>3. QED
      BY <1>8, <3>1, <3>2 DEF SharedInv, SoleTextIsWhole
  <2>3. QED
    BY <2>1, <2>2
<1>15. QED
  BY <1>1, <1>9, <1>10, <1>11, <1>12, <1>13, <1>14 DEF SharedInv

LEMMA NextSharedInv ==
  ASSUME AllShared PROVE SharedInv /\ [Next]_vars => SharedInv'
<1> SUFFICES ASSUME SharedInv, [Next]_vars PROVE SharedInv'
  OBVIOUS
<1>1. CASE Tick
  BY <1>1, TickSharedInv
<1>2. ASSUME NEW r \in Requests, Requester(r) PROVE SharedInv'
  BY <1>2, BeginSharedInv, OpenTmpSharedInv, WriteTmpSharedInv, PublishSharedInv,
     FailToPublishSharedInv, TakeDecisionSharedInv, PollingSharedInv, CleanupSharedInv
  DEF Requester, Writers
<1>3. ASSUME NEW p \in Processes, Crash(p) PROVE SharedInv'
  BY <1>3, CrashSharedInv
<1>4. ASSUME NEW c \in Calls, Approver(c) PROVE SharedInv'
  BY <1>4, DecideSharedInv, OpenTmpSharedInv, WriteTmpSharedInv, AnsweringSharedInv,
     PublishDecisionSharedInv
  DEF Approver, Writers
<1>5. CASE Finished \/ UNCHANGED vars
  <2>1. UNCHANGED vars
    BY <1>5 DEF Finished
  <2>2. TypeInv'
    BY <2>1, NextTypeInv DEF SharedInv
  <2>3. QED
    BY <2>1, <2>2
    DEF vars, clock, asking, answering, disk, links, SharedInv, IdsAreUnique,
        LinksAreOwn, Topic, RequestsKeepTheirInode, Publishing, CallsShareTheirInodes,
        SoleTextIsWhole, Sole, ObeyedIsForThisRequest, SoleDecisionCounts, FalseMeansClosed
<1>6. QED
  BY <1>1, <1>2, <1>3, <1>4, <1>5 DEF Next

LEMMA SpecSharedInv == ASSUME AllShared PROVE Spec => []SharedInv
  BY InitSharedInv, NextSharedInv, PTL DEF Spec

\* With shared brokers, an approval is obeyed only by the request whose file
\* the approver was shown: next_id never repeats, so no decision, temporary or
\* request of another call is ever at this call's paths.
THEOREM ApprovalsStayWithTheirRequest ==
  ASSUME AllShared PROVE Spec => []ReleasedByItsOwnApproval
<1>1. SharedInv => ReleasedByItsOwnApproval
  BY BrokerAssumption
  DEF SharedInv, TypeInv, TypeOK, ApprovedBySomebody, ObeyedIsForThisRequest,
      ReleasedByItsOwnApproval
<1>2. QED
  BY <1>1, SpecSharedInv, PTL

\* With shared brokers, a lone approver's decision reaches the requester whole:
\* the rename publishes only what that approver finished writing.
THEOREM LoneDecisionsAreWhole == ASSUME AllShared PROVE Spec => []SoleDecisionCounts
<1>1. SharedInv => SoleDecisionCounts
  BY DEF SharedInv
<1>2. QED
  BY <1>1, SpecSharedInv, PTL

\* With shared brokers, decide() answers "no such request" only about a request
\* that has its outcome or whose process died.
THEOREM TurnedAwayMeansClosed == ASSUME AllShared PROVE Spec => []FalseMeansClosed
<1>1. SharedInv => FalseMeansClosed
  BY DEF SharedInv
<1>2. QED
  BY <1>1, SpecSharedInv, PTL

-----------------------------------------------------------------------------
(* The contract: a call opens when it has its id, is answered when a person *)
(* decides on what is on display, and settles when its cleanup is over, when *)
(* it cannot publish, or when its process dies; other steps stutter.        *)

CStatus == [r \in Requests |-> StatusOf(r)]

\* A step that keeps ids, answers and the fate of every call is a stutter.
LEMMA QuietStep ==
  ASSUME UNCHANGED <<id, answers>>,
         \A r \in Requests :
           \/ pc'[r] = pc[r] /\ (pc[r] = "done" => outcome'[r] = outcome[r])
           \/ pc[r] \notin {"done", "dead"} /\ pc'[r] \notin {"done", "dead"}
  PROVE  UNCHANGED Contract!vars
<1>1. \A r \in Requests : StatusOf(r)' = StatusOf(r)
  BY DEF StatusOf
<1>2. CStatus' = CStatus
  BY <1>1 DEF CStatus
<1>3. QED
  BY <1>2 DEF CStatus, Contract!vars

LEMMA QuietWrite ==
  ASSUME SharedInv, NEW w \in Writers, OpenTmp(w) \/ WriteTmp(w)
  PROVE  UNCHANGED Contract!vars
<1>1. /\ pc[w] \notin {"done", "dead"}
      /\ \E label \in {"writing", "renaming"} : pc' = [pc EXCEPT ![w] = label]
      /\ UNCHANGED <<id, answers, outcome>>
  BY DEF OpenTmp, WriteTmp, Goto, asking, answering
<1>2. \A r \in Requests : pc'[r] = pc[r] \/ (r = w /\ pc'[r] \notin {"done", "dead"})
  BY <1>1 DEF SharedInv, TypeInv, TypeOK, Writers
<1>3. QED
  BY <1>1, <1>2, QuietStep

LEMMA QuietRequester ==
  ASSUME SharedInv, NEW r \in Requests,
         \/ Publish(r) \/ TakeDecision(r) \/ Miss(r) \/ TimeOut(r)
         \/ Sleep(r) \/ RemoveRequest(r)
  PROVE  UNCHANGED Contract!vars
<1>1. /\ pc[r] \notin {"done", "dead"}
      /\ \E label \in {"polling", "unlisting", "missed", "clearing"} :
           pc' = [pc EXCEPT ![r] = label]
      /\ UNCHANGED <<id, answers>>
      /\ outcome' = outcome \/ \E o : outcome' = [outcome EXCEPT ![r] = o]
  BY DEF Publish, TakeDecision, Miss, TimeOut, Sleep, RemoveRequest, Goto, asking, answering
<1>2. \A s \in Requests : /\ pc'[s] = pc[s] \/ (s = r /\ pc'[s] \notin {"done", "dead"})
                          /\ outcome'[s] = outcome[s] \/ s = r
  BY <1>1 DEF SharedInv, TypeInv, TypeOK, Writers
<1>3. QED
  BY <1>1, <1>2, QuietStep

LEMMA QuietCall ==
  ASSUME SharedInv, NEW c \in Calls,
         CheckOpen(c) \/ PublishDecision(c) \/ FailToDecide(c)
  PROVE  UNCHANGED Contract!vars
<1>1. /\ \E label \in {"opening", "done"} : pc' = [pc EXCEPT ![c] = label]
      /\ UNCHANGED <<id, answers, outcome>>
  BY DEF CheckOpen, PublishDecision, FailToDecide, Goto, asking
<1>2. \A r \in Requests : pc'[r] = pc[r]
  BY <1>1, BrokerAssumption DEF SharedInv, TypeInv, TypeOK, Writers
<1>3. QED
  BY <1>1, <1>2, QuietStep

LEMMA BeginRefines == ASSUME SharedInv, NEW r \in Requests, Begin(r) PROVE Contract!Ask(r)
<1>1. TypeInv /\ TypeOK /\ Bookkeeping
  BY DEF SharedInv, TypeInv
<1>2. /\ id[r] = NoFile /\ pc' = [pc EXCEPT ![r] = "opening"]
      /\ UNCHANGED <<answers, outcome>>
      /\ \E i : id' = [id EXCEPT ![r] = i]
  BY <1>1 DEF Begin, Goto, answering, Bookkeeping
<1>3. /\ \A s \in Requests : s # r => id'[s] = id[s] /\ pc'[s] = pc[s]
      /\ pc'[r] = "opening"
  BY <1>1, <1>2 DEF TypeOK, Writers
<1>4. id'[r] # NoFile
  <2>1. Bookkeeping'
    BY <1>1, BeginTypeInv DEF TypeInv
  <2>2. QED
    BY <1>3, <2>1 DEF Bookkeeping
<1>5. CStatus[r] = "idle" /\ CStatus' = [CStatus EXCEPT ![r] = "open"]
  BY <1>2, <1>3, <1>4 DEF CStatus, StatusOf
<1>6. QED
  BY <1>2, <1>5 DEF Contract!Ask, CStatus

\* Returning an outcome settles the call; "approved" takes an approval.
LEMMA SettleRefines ==
  ASSUME SharedInv, NEW r \in Requests, FailToPublish(r) \/ RemoveDecision(r)
  PROVE  Contract!Settle(r)
<1>1. TypeOK /\ Bookkeeping /\ OutcomesAreLate /\ ApprovedBySomebody
  BY DEF SharedInv, TypeInv
<1>2. /\ pc[r] \in RequesterPc /\ id[r] # NoFile
      /\ pc' = [pc EXCEPT ![r] = "done"]
      /\ UNCHANGED <<id, answers>>
      /\ \A s \in Requests : s # r => outcome'[s] = outcome[s]
      /\ outcome'[r] = "denied" \/ (outcome'[r] = outcome[r] /\ outcome[r] # "none")
  BY <1>1
  DEF FailToPublish, RemoveDecision, Goto, asking, answering, RequesterPc, Bookkeeping,
      OutcomesAreLate, TypeOK
<1>3. \A s \in Requests : pc'[s] = IF s = r THEN "done" ELSE pc[s]
  BY <1>1, <1>2 DEF TypeOK, Writers
<1>4. CStatus[r] = "open" /\ CStatus' = [CStatus EXCEPT ![r] = outcome'[r]]
  <2>1. StatusOf(r) = "open"
    BY <1>2 DEF StatusOf, RequesterPc
  <2>2. \A s \in Requests : StatusOf(s)' = IF s = r THEN outcome'[r] ELSE StatusOf(s)
    BY <1>2, <1>3 DEF StatusOf
  <2>3. QED
    BY <2>1, <2>2 DEF CStatus
<1>5. outcome'[r] \in {"denied", "approved", "timedout"}
  BY <1>1, <1>2 DEF TypeOK
<1>6. CASE outcome'[r] = "approved"
  <2>1. outcome[r] = "approved"
    BY <1>2, <1>6
  <2>2. /\ released_by[r] \in Calls /\ shown[released_by[r]] = r
        /\ verdict[released_by[r]] = "approve"
    BY <1>1, <2>1, BrokerAssumption
    DEF ApprovedBySomebody, SharedInv, ObeyedIsForThisRequest
  <2>3. "approve" \in answers[r]
    BY <2>2, BrokerAssumption DEF SharedInv, ObeyedIsForThisRequest
  <2>4. QED
    BY <1>2, <1>4, <1>6, <2>3 DEF Contract!Settle, Contract!Approve, CStatus
<1>7. CASE outcome'[r] \in {"denied", "timedout"}
  <2>1. Contract!Refuse(r)
    BY <1>2, <1>4, <1>7 DEF Contract!Refuse, CStatus
  <2>2. QED
    BY <2>1 DEF Contract!Settle
<1>8. QED
  BY <1>5, <1>6, <1>7

\* A dying process abandons those of its calls that have begun.
LEMMA CrashRefines ==
  ASSUME SharedInv, NEW p \in Processes, Crash(p)
  PROVE  \E r \in Requests : Contract!Settle(r)
<1> DEFINE S == {r \in Requests : /\ ProcessOf[r] = p /\ id[r] # NoFile
                                 /\ pc[r] \notin {"done", "dead"}}
<1>1. TypeOK /\ Bookkeeping
  BY DEF SharedInv, TypeInv
<1>2. PICK r \in Requests : ProcessOf[r] = p /\ pc[r] \in RequesterPc
  BY DEF Crash, InFlight
<1>3. r \in S
  BY <1>1, <1>2 DEF Bookkeeping, RequesterPc
<1>4. \A s \in Requests : pc'[s] = IF ProcessOf[s] = p /\ pc[s] # "done" THEN "dead" ELSE pc[s]
  BY DEF Crash, Writers
<1>5. UNCHANGED <<id, outcome, answers>>
  BY DEF Crash, asking, answering
<1>6. \A s \in S : CStatus[s] = "open"
  BY DEF CStatus, StatusOf
<1>7. CStatus' = [s \in Requests |-> IF s \in S THEN "abandoned" ELSE CStatus[s]]
  BY <1>4, <1>5 DEF CStatus, StatusOf
<1>8. Contract!Abandon(S)
  BY <1>5, <1>6, <1>7 DEF Contract!Abandon, CStatus
<1>9. Contract!Settle(r)
  BY <1>3, <1>8 DEF Contract!Settle
<1>10. QED
  BY <1>9

\* What is on display belongs to a call that has not returned.
LEMMA DecideRefines ==
  ASSUME SharedInv, NEW c \in Calls, Decide(c)
  PROVE  \E r \in Requests, v \in Contract!Verdicts : Contract!Answer(r, v)
<1>1. PICK v \in {"approve", "deny"}, r \in Requests :
        /\ id[r] \in Ids /\ id[r] # NoFile /\ request_file[id[r]] = r
        /\ pc[r] \in {"polling", "missed", "unlisting", "dead"}
        /\ shown' = [shown EXCEPT ![c] = r]
        /\ verdict' = [verdict EXCEPT ![c] = v]
        /\ answers' = [answers EXCEPT ![r] = @ \union {v}]
  BY DecideOfShared
<1>2. pc' = [pc EXCEPT ![c] = "checking"] /\ UNCHANGED <<id, outcome>>
  BY DEF Decide, Goto, asking
<1>3. \A s \in Requests : pc'[s] = pc[s]
  BY <1>2, BrokerAssumption DEF SharedInv, TypeInv, TypeOK, Writers
<1>4. CStatus' = CStatus /\ CStatus[r] \in {"open", "abandoned"}
  BY <1>1, <1>2, <1>3 DEF CStatus, StatusOf
<1>5. Contract!Answer(r, v)
  BY <1>1, <1>4 DEF Contract!Answer, CStatus
<1>6. QED
  BY <1>5 DEF Contract!Verdicts

LEMMA StepRefines == SharedInv /\ [Next]_vars => [Contract!Next]_(Contract!vars)
<1> SUFFICES ASSUME SharedInv, [Next]_vars PROVE [Contract!Next]_(Contract!vars)
  OBVIOUS
<1>1. CASE Tick \/ Finished \/ UNCHANGED vars
  <2>1. UNCHANGED <<id, answers, pc, outcome>>
    BY <1>1 DEF Tick, Finished, vars, asking, answering
  <2>2. QED
    BY <2>1, QuietStep
<1>2. ASSUME NEW r \in Requests, Requester(r) PROVE [Contract!Next]_(Contract!vars)
  <2>1. CASE Begin(r)
    BY <2>1, BeginRefines DEF Contract!Next
  <2>2. CASE OpenTmp(r) \/ WriteTmp(r)
    BY <2>2, QuietWrite DEF Writers
  <2>3. CASE FailToPublish(r) \/ RemoveDecision(r)
    BY <2>3, SettleRefines DEF Contract!Next
  <2>4. CASE \/ Publish(r) \/ TakeDecision(r) \/ Miss(r) \/ TimeOut(r)
             \/ Sleep(r) \/ RemoveRequest(r)
    BY <2>4, QuietRequester
  <2>5. QED
    BY <1>2, <2>1, <2>2, <2>3, <2>4 DEF Requester
<1>3. ASSUME NEW p \in Processes, Crash(p) PROVE [Contract!Next]_(Contract!vars)
  BY <1>3, CrashRefines DEF Contract!Next
<1>4. ASSUME NEW c \in Calls, Approver(c) PROVE [Contract!Next]_(Contract!vars)
  <2>1. CASE Decide(c)
    BY <2>1, DecideRefines DEF Contract!Next
  <2>2. CASE OpenTmp(c) \/ WriteTmp(c)
    BY <2>2, QuietWrite DEF Writers
  <2>3. CASE CheckOpen(c) \/ PublishDecision(c) \/ FailToDecide(c)
    BY <2>3, QuietCall
  <2>4. QED
    BY <1>4, <2>1, <2>2, <2>3 DEF Approver
<1>5. QED
  BY <1>1, <1>2, <1>3, <1>4 DEF Next

\* Shared file brokers implement the contract (its safety part): whatever the
\* requesters, approvers and the clock do, and whoever dies in between.
THEOREM ImplementsConfirmation == ASSUME AllShared PROVE Spec => Contract!Spec
<1>1. Init => Contract!Init
  BY DEF Init, Contract!Init, StatusOf
<1>2. QED
  BY <1>1, StepRefines, SpecSharedInv, PTL DEF Spec, Contract!Spec
=============================================================================
