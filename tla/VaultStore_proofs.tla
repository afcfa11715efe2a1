-------------------------- MODULE VaultStore_proofs -------------------------
(***************************************************************************)
(* What write_record and delete_record keep when callers never mutate one  *)
(* vault at the same time: for any number of writers, deleters, readers    *)
(* and inventories, and wherever writers are killed.                       *)
(***************************************************************************)
EXTENDS VaultStore, TLAPS

Home(i) == IF i \in Vaults THEN i ELSE VaultOf[i]

Linked(v) == {sec[v], tmp[v], bak[v]} \ {NoFile}

PcFits ==
  /\ \A w \in Writers : pc[w] \in WriterPc \union {"idle", "done", "failed", "dead"}
  /\ \A d \in Deleters : pc[d] \in DeleterPc \union {"idle", "done", "failed"}

\* The discipline: one at a time in each vault.
OneAtATime ==
  \A m, n \in Mutators :
    Mutating(m) /\ Mutating(n) /\ VaultOf[m] = VaultOf[n] => m = n

\* A vault's paths link to its own inodes, the temporary to no other's.
LinksAreHome ==
  \A v \in Vaults :
    /\ \A i \in Linked(v) : Home(i) = v
    /\ tmp[v] # NoFile => tmp[v] \in Writers /\ tmp[v] \notin {sec[v], bak[v]}

\* A writer's inode appears when it makes its temporary.
NewIsUnlinked ==
  \A w \in Writers : pc[w] \in {"idle", "creating"} =>
    \A v \in Vaults : w \notin Linked(v)

\* The temporary is the one writer's.
TemporaryIsOwn ==
  \A w \in Writers :
    /\ pc[w] \in {"writing", "checking", "rotating", "placing"} => tmp[VaultOf[w]] # NoFile
    /\ pc[w] = "writing" => fd[w] = tmp[VaultOf[w]] /\ content[fd[w]] = "empty"
    /\ pc[w] \in {"checking", "rotating", "placing"} => content[tmp[VaultOf[w]]] = w

\* What is at the path was stored last; with nothing there, .bak has it.
StoredIsThere ==
  \A v \in Vaults :
    /\ sec[v] # NoFile => stored[v] # NoFile /\ content[sec[v]] = stored[v]
    /\ sec[v] = NoFile /\ stored[v] # NoFile => bak[v] # NoFile /\ content[bak[v]] = stored[v]

IInv ==
  /\ TypeOK
  /\ PcFits
  /\ OneAtATime
  /\ LinksAreHome
  /\ NewIsUnlinked
  /\ TemporaryIsOwn
  /\ StoredIsThere

\* An inventory at work has a vault left.
PlanIsLeft == \A l \in Listers : pc[l] \in ListerPc => plan[l] # <<>>
-----------------------------------------------------------------------------
(* The plans of the inventories are three.                                  *)

LEMMA PlansAre ==
  /\ Plans = {<<"global">>, <<"project">>, <<"global", "project">>}
  /\ Rests = {<<>>, <<"global">>, <<"project">>, <<"global", "project">>}
<1>1. Plans = {<<"global">>, <<"project">>, <<"global", "project">>}
  BY DEF Plans, CliList, WebList, SessionList, DoctorRecords, AuditTiers, SealScope,
         BothVaultsInOrder
<1>2. /\ Tail(<<"global">>) = <<>> /\ Tail(<<"project">>) = <<>>
      /\ Tail(<<"global", "project">>) = <<"project">>
  OBVIOUS
<1>3. {Tail(p) : p \in Plans} = {<<>>, <<"project">>}
  BY <1>1, <1>2
<1> QED
  BY <1>1, <1>3 DEF Rests

LEMMA TailsAreRests ==
  /\ \A p \in Plans : p \in Rests /\ p # <<>>
  /\ \A p \in Rests : p # <<>> =>
       Head(p) \in Vaults /\ Tail(p) \in Rests /\ (Len(p) # 1 => Tail(p) # <<>>)
<1>1. /\ Tail(<<"global">>) = <<>> /\ Tail(<<"project">>) = <<>>
      /\ Tail(<<"global", "project">>) = <<"project">>
  OBVIOUS
<1>2. /\ <<"global">> # <<>> /\ <<"project">> # <<>> /\ <<"global", "project">> # <<>>
      /\ Len(<<"global">>) = 1 /\ Len(<<"project">>) = 1 /\ Len(<<"global", "project">>) = 2
      /\ Head(<<"global">>) = "global" /\ Head(<<"project">>) = "project"
      /\ Head(<<"global", "project">>) = "global"
  OBVIOUS
<1> QED
  BY <1>1, <1>2, PlansAre DEF Vaults
-----------------------------------------------------------------------------
LEMMA NobodyIsBoth == Writers \intersect Deleters = {}
BY StoreAssumption

LEMMA InitIInv == Init => IInv
<1> SUFFICES ASSUME Init PROVE IInv
  OBVIOUS
<1> USE StoreAssumption DEF Init
<1>1. \A v \in Vaults : sec[v] \in {v, NoFile} /\ tmp[v] = NoFile /\ bak[v] = NoFile
  OBVIOUS
<1>2. \A v \in Vaults : v \in Inodes /\ v # NoFile /\ v \notin Writers
  BY DEF Inodes, Mutators
<1>3. TypeOK
  <2>1. sec \in [Vaults -> Link] /\ stored \in [Vaults -> Link]
    BY DEF Link, Inodes
  <2>2. tmp \in [Vaults -> Link] /\ bak \in [Vaults -> Link] /\ fd \in [Writers -> Link]
    BY DEF Link
  <2>3. content \in [Inodes -> Contents] /\ pc \in [Calls -> Pc]
    BY DEF Contents, Pc
  <2>4. got \in [Readers -> Results] /\ shadowed \in [Readers -> BOOLEAN]
    BY DEF Results
  <2>5. plan \in [Listers -> Rests]
    BY PlansAre
  <2> QED
    BY <2>1, <2>2, <2>3, <2>4, <2>5 DEF TypeOK
<1>4. PcFits /\ OneAtATime
  BY DEF PcFits, OneAtATime, Mutating, WriterPc, DeleterPc, Calls, Mutators
<1>5. LinksAreHome /\ NewIsUnlinked
  BY <1>1, <1>2 DEF LinksAreHome, NewIsUnlinked, Linked, Home
<1>6. TemporaryIsOwn
  BY DEF TemporaryIsOwn, Calls, Mutators
<1>7. StoredIsThere
  BY <1>1, <1>2 DEF StoredIsThere
<1> QED
  BY <1>3, <1>4, <1>5, <1>6, <1>7 DEF IInv

\* A call that ends, or does not begin: nothing on the disk changes.
LEMMA PcStep ==
  ASSUME IInv, NEW o \in Mutators, UNCHANGED <<disk, reading, stored>>,
         NEW to, Goto(o, to),
         o \in Writers => to \in {"failed", "dead"}
                          \/ (pc[o] = "checking" /\ to \in {"placing", "rotating"})
                          \/ (pc[o] = "idle" /\ to = "creating" /\ Quiet(VaultOf[o])),
         o \in Deleters => to = "failed"
                           \/ (pc[o] = "looking" /\ to = "removing")
                           \/ (pc[o] = "idle" /\ to = "looking" /\ Quiet(VaultOf[o]))
  PROVE  IInv'
<1> USE DEF IInv, Goto, disk, reading, listing
<1>1. pc \in [Calls -> Pc] /\ o \in Calls
  BY DEF TypeOK, Calls
<1>2. to \in Pc
  BY DEF Mutators, Pc, WriterPc, DeleterPc
<1>3. TypeOK'
  BY <1>1, <1>2 DEF TypeOK
<1>4. PcFits'
  BY <1>1, NobodyIsBoth DEF PcFits, Calls, Mutators, WriterPc, DeleterPc
<1>5. OneAtATime'
  <2> SUFFICES ASSUME NEW m \in Mutators, NEW n \in Mutators, Mutating(m)', Mutating(n)',
                      VaultOf[m] = VaultOf[n]
               PROVE  m = n
    BY DEF OneAtATime
  <2>1. \A k \in Mutators : k # o => pc'[k] = pc[k]
    BY <1>1 DEF Calls
  <2>2. Mutating(o)' => Mutating(o) \/ Quiet(VaultOf[o])
    BY <1>1 DEF Mutating, Mutators, WriterPc, DeleterPc
  <2> QED
    BY <2>1, <2>2 DEF OneAtATime, Mutating, Quiet
<1>6. LinksAreHome' /\ StoredIsThere'
  BY DEF LinksAreHome, StoredIsThere, Linked
<1>7. NewIsUnlinked' /\ TemporaryIsOwn'
  BY <1>1 DEF NewIsUnlinked, TemporaryIsOwn, Linked, Calls, Mutators
<1> QED
  BY <1>3, <1>4, <1>5, <1>6, <1>7

LEMMA StartsKeepIInv ==
  ASSUME Exclusive, IInv,
         NEW o \in Mutators, (o \in Writers /\ StartWrite(o)) \/ (o \in Deleters /\ StartDelete(o))
  PROVE  IInv'
<1>1. pc[o] = "idle" /\ Quiet(VaultOf[o]) /\ UNCHANGED <<disk, reading, stored>>
  BY DEF StartWrite, StartDelete, MayStart
<1>2. o \notin Writers \/ o \notin Deleters
  BY StoreAssumption
<1>3. CASE o \in Writers
  BY <1>1, <1>2, <1>3, PcStep DEF StartWrite, StartDelete
<1>4. CASE o \in Deleters
  BY <1>1, <1>2, <1>4, PcStep DEF StartWrite, StartDelete
<1> QED
  BY <1>3, <1>4 DEF Mutators

\* Whoever is at work has the vault to itself.
LEMMA Alone ==
  ASSUME IInv, NEW o \in Mutators, Mutating(o)
  PROVE  \A w \in Writers : pc[w] \in WriterPc /\ w # o => VaultOf[w] # VaultOf[o]
BY DEF IInv, OneAtATime, Mutating, Mutators

LEMMA Basics ==
  ASSUME IInv, NEW w \in Writers
  PROVE  /\ VaultOf[w] \in Vaults /\ Home(w) = VaultOf[w]
         /\ w \in Inodes /\ w # NoFile /\ w \in Calls
         /\ tmp[VaultOf[w]] \in Link /\ sec[VaultOf[w]] \in Link /\ bak[VaultOf[w]] \in Link
         /\ \A v \in Vaults : tmp[v] # NoFile => tmp[v] \in Inodes /\ Home(tmp[v]) = v
         /\ \A v \in Vaults : sec[v] # NoFile => sec[v] \in Inodes /\ Home(sec[v]) = v
         /\ \A v \in Vaults : bak[v] # NoFile => bak[v] \in Inodes /\ Home(bak[v]) = v
<1>1. /\ VaultOf[w] \in Vaults /\ w \notin Vaults /\ w \in Inodes /\ w # NoFile /\ w \in Calls
  BY StoreAssumption DEF Mutators, Inodes, Calls
<1> QED
  BY <1>1 DEF IInv, TypeOK, LinksAreHome, Linked, Link, Home

LEMMA CrashKeepsIInv == ASSUME IInv, NEW w \in Writers, Crash(w) PROVE IInv'
<1> USE DEF Crash, Goto, reading, listing
<1>1. /\ pc' = [pc EXCEPT ![w] = "dead"] /\ pc \in [Calls -> Pc] /\ w \in Calls
      /\ fd' = [fd EXCEPT ![w] = NoFile] /\ fd \in [Writers -> Link]
      /\ UNCHANGED <<sec, tmp, bak, content, got, shadowed, plan, named, rows, stored>>
  BY DEF IInv, TypeOK, Calls, Mutators
<1>2. TypeOK'
  <2>1. pc' \in [Calls -> Pc]
    BY <1>1 DEF Pc
  <2>2. fd' \in [Writers -> Link]
    BY <1>1 DEF Link
  <2> QED
    BY <1>1, <2>1, <2>2 DEF IInv, TypeOK
<1>3. PcFits'
  BY <1>1, NobodyIsBoth DEF IInv, PcFits, Calls, Mutators
<1>4. OneAtATime'
  BY <1>1 DEF IInv, OneAtATime, Mutating, Calls, Mutators, WriterPc, DeleterPc
<1>5. LinksAreHome' /\ StoredIsThere'
  BY <1>1 DEF IInv, LinksAreHome, StoredIsThere, Linked
<1>6. NewIsUnlinked' /\ TemporaryIsOwn'
  BY <1>1 DEF IInv, NewIsUnlinked, TemporaryIsOwn, Linked, Calls, Mutators
<1> QED
  BY <1>2, <1>3, <1>4, <1>5, <1>6 DEF IInv

\* A step of a writer that goes on: the parts about where the calls stand.
LEMMA GoesOn ==
  ASSUME IInv, NEW w \in Writers, pc[w] \in WriterPc,
         NEW to \in WriterPc \union {"done", "failed", "dead"}, Goto(w, to)
  PROVE  /\ pc' \in [Calls -> Pc]
         /\ PcFits' /\ OneAtATime'
         /\ \A k \in Calls : pc'[k] = IF k = w THEN to ELSE pc[k]
<1> USE DEF Goto
<1>1. pc \in [Calls -> Pc] /\ w \in Calls /\ to \in Pc
  BY DEF IInv, TypeOK, Calls, Mutators, Pc
<1>2. PcFits'
  BY <1>1, NobodyIsBoth DEF IInv, PcFits, Calls, Mutators
<1>3. OneAtATime'
  BY <1>1 DEF IInv, OneAtATime, Mutating, Calls, Mutators, WriterPc, DeleterPc
<1> QED
  BY <1>1, <1>2, <1>3

\* The temporary is new, or what a dead writer left.
LEMMA CreateTmpKeepsIInv == ASSUME IInv, NEW w \in Writers, CreateTmp(w) PROVE IInv'
<1> DEFINE v == VaultOf[w]
           inode == IF tmp[v] = NoFile THEN w ELSE tmp[v]
<1>1. /\ pc[w] = "creating" /\ Goto(w, "writing")
      /\ tmp' = [tmp EXCEPT ![v] = inode]
      /\ fd' = [fd EXCEPT ![w] = inode]
      /\ content' = [content EXCEPT ![inode] = "empty"]
      /\ UNCHANGED <<sec, bak, got, shadowed, plan, named, rows, stored>>
  BY DEF CreateTmp, reading, listing
<1>2. v \in Vaults /\ w \in Writers /\ w # NoFile /\ w \in Inodes /\ Home(w) = v
  BY Basics
<1>3. inode \in Writers /\ inode \in Inodes /\ inode # NoFile /\ Home(inode) = v
  BY <1>2, Basics DEF IInv, LinksAreHome
<1>4. \A u \in Vaults : inode \notin {sec[u], bak[u]} /\ (u # v => inode # tmp[u])
  BY <1>1, <1>2, <1>3, Basics DEF IInv, NewIsUnlinked, Linked, LinksAreHome
<1>5. /\ pc' \in [Calls -> Pc] /\ PcFits' /\ OneAtATime'
      /\ \A k \in Calls : pc'[k] = IF k = w THEN "writing" ELSE pc[k]
  BY <1>1, GoesOn DEF WriterPc
<1>6. /\ tmp \in [Vaults -> Link] /\ fd \in [Writers -> Link] /\ content \in [Inodes -> Contents]
  BY DEF IInv, TypeOK
<1> HIDE DEF v, inode
<1>7. /\ \A u \in Vaults : tmp'[u] = IF u = v THEN inode ELSE tmp[u]
      /\ \A x \in Writers : fd'[x] = IF x = w THEN inode ELSE fd[x]
      /\ \A i \in Inodes : content'[i] = IF i = inode THEN "empty" ELSE content[i]
  BY <1>1, <1>2, <1>3, <1>6
<1>8. TypeOK'
  <2>1. tmp' \in [Vaults -> Link] /\ fd' \in [Writers -> Link]
    BY <1>1, <1>2, <1>3, <1>6 DEF Link
  <2>2. content' \in [Inodes -> Contents]
    BY <1>1, <1>3, <1>6 DEF Contents
  <2> QED
    BY <1>1, <1>5, <2>1, <2>2 DEF IInv, TypeOK
<1>9. LinksAreHome'
  BY <1>1, <1>2, <1>3, <1>4, <1>7 DEF IInv, LinksAreHome, Linked, Home
<1>10. NewIsUnlinked'
  <2> SUFFICES ASSUME NEW x \in Writers, pc'[x] \in {"idle", "creating"}, NEW u \in Vaults
               PROVE  x \notin Linked(u)'
    BY DEF NewIsUnlinked
  <2>1. x # w /\ pc[x] \in {"idle", "creating"}
    BY <1>5 DEF Calls, Mutators
  <2>2. x # inode
    BY <2>1, <1>2 DEF IInv, NewIsUnlinked, Linked, inode, v
  <2> QED
    BY <1>1, <1>7, <2>1, <2>2 DEF IInv, NewIsUnlinked, Linked
<1>11. TemporaryIsOwn'
  <2> SUFFICES ASSUME NEW x \in Writers
               PROVE  /\ pc'[x] \in {"writing", "checking", "rotating", "placing"} =>
                           tmp'[VaultOf[x]] # NoFile
                      /\ pc'[x] = "writing" => fd'[x] = tmp'[VaultOf[x]] /\ content'[fd'[x]] = "empty"
                      /\ pc'[x] \in {"checking", "rotating", "placing"} =>
                           content'[tmp'[VaultOf[x]]] = x
    BY DEF TemporaryIsOwn
  <2>1. CASE x = w
    BY <2>1, <1>3, <1>5, <1>7, <1>2, Basics DEF Calls, Mutators, v
  <2>2. CASE x # w
    <3>1. pc'[x] = pc[x]
      BY <2>2, <1>5 DEF Calls, Mutators
    <3>2. pc[x] \in WriterPc => VaultOf[x] # v
      BY <2>2, <1>1, Alone DEF v, Mutating, Mutators, WriterPc
    <3>3. VaultOf[x] \in Vaults
      BY Basics
    <3>4. pc[x] \in WriterPc => tmp'[VaultOf[x]] = tmp[VaultOf[x]] /\ tmp[VaultOf[x]] # inode
      BY <3>2, <3>3, <1>7, <1>4
    <3>5. tmp[VaultOf[x]] # NoFile => tmp[VaultOf[x]] \in Inodes
      BY <3>3, Basics
    <3> QED
      BY <2>2, <3>1, <3>4, <3>5, <1>7 DEF IInv, TemporaryIsOwn, WriterPc
  <2> QED
    BY <2>1, <2>2
<1>12. StoredIsThere'
  <2>1. \A u \in Vaults : /\ sec[u] # NoFile => sec[u] \in Inodes /\ sec[u] # inode
                          /\ bak[u] # NoFile => bak[u] \in Inodes /\ bak[u] # inode
    BY <1>4, Basics
  <2> QED
    BY <1>1, <1>7, <2>1 DEF IInv, StoredIsThere
<1> QED
  BY <1>5, <1>8, <1>9, <1>10, <1>11, <1>12 DEF IInv

LEMMA WriteTmpKeepsIInv == ASSUME IInv, NEW w \in Writers, WriteTmp(w) PROVE IInv'
<1> DEFINE v == VaultOf[w]
<1>1. /\ pc[w] = "writing" /\ Goto(w, "checking")
      /\ content[fd[w]] = "empty" => content' = [content EXCEPT ![fd[w]] = w]
      /\ fd' = [fd EXCEPT ![w] = NoFile]
      /\ UNCHANGED <<sec, tmp, bak, got, shadowed, plan, named, rows, stored>>
  BY DEF WriteTmp, reading, listing
<1>2. v \in Vaults /\ w \in Inodes
  BY Basics
<1>3. /\ fd[w] = tmp[v] /\ tmp[v] # NoFile /\ tmp[v] \in Inodes
      /\ content' = [content EXCEPT ![tmp[v]] = w]
  BY <1>1, <1>2, Basics DEF IInv, TemporaryIsOwn
<1>4. \A u \in Vaults : tmp[v] \notin {sec[u], bak[u]} /\ (u # v => tmp[v] # tmp[u])
  BY <1>1, <1>2, <1>3, Basics DEF IInv, LinksAreHome
<1>5. /\ pc' \in [Calls -> Pc] /\ PcFits' /\ OneAtATime'
      /\ \A k \in Calls : pc'[k] = IF k = w THEN "checking" ELSE pc[k]
  BY <1>1, GoesOn DEF WriterPc
<1>6. fd \in [Writers -> Link] /\ content \in [Inodes -> Contents]
  BY DEF IInv, TypeOK
<1> HIDE DEF v
<1>7. /\ \A x \in Writers : x # w => fd'[x] = fd[x]
      /\ \A i \in Inodes : content'[i] = IF i = tmp[v] THEN w ELSE content[i]
  BY <1>1, <1>3, <1>6
<1>8. TypeOK'
  <2>1. fd' \in [Writers -> Link]
    BY <1>1, <1>6 DEF Link
  <2>2. content' \in [Inodes -> Contents]
    BY <1>2, <1>3, <1>6 DEF Contents
  <2> QED
    BY <1>1, <1>5, <2>1, <2>2 DEF IInv, TypeOK
<1>9. LinksAreHome'
  BY <1>1 DEF IInv, LinksAreHome, Linked
<1>10. NewIsUnlinked'
  BY <1>1, <1>5 DEF IInv, NewIsUnlinked, Linked, Calls, Mutators
<1>11. TemporaryIsOwn'
  <2> SUFFICES ASSUME NEW x \in Writers
               PROVE  /\ pc'[x] \in {"writing", "checking", "rotating", "placing"} =>
                           tmp'[VaultOf[x]] # NoFile
                      /\ pc'[x] = "writing" => fd'[x] = tmp'[VaultOf[x]] /\ content'[fd'[x]] = "empty"
                      /\ pc'[x] \in {"checking", "rotating", "placing"} =>
                           content'[tmp'[VaultOf[x]]] = x
    BY DEF TemporaryIsOwn
  <2>1. CASE x = w
    BY <2>1, <1>1, <1>3, <1>5, <1>7, <1>2 DEF IInv, TemporaryIsOwn, Calls, Mutators, v
  <2>2. CASE x # w
    <3>1. pc'[x] = pc[x]
      BY <2>2, <1>5 DEF Calls, Mutators
    <3>2. pc[x] \in WriterPc => VaultOf[x] # v
      BY <2>2, <1>1, Alone DEF v, Mutating, Mutators, WriterPc
    <3>3. VaultOf[x] \in Vaults
      BY Basics
    <3>4. pc[x] \in WriterPc => tmp[VaultOf[x]] # tmp[v]
      BY <3>2, <3>3, <1>4
    <3>5. tmp[VaultOf[x]] # NoFile => tmp[VaultOf[x]] \in Inodes
      BY <3>3, Basics
    <3> QED
      BY <2>2, <3>1, <3>4, <3>5, <1>1, <1>7 DEF IInv, TemporaryIsOwn, WriterPc
  <2> QED
    BY <2>1, <2>2
<1>12. StoredIsThere'
  <2>1. \A u \in Vaults : /\ sec[u] # NoFile => sec[u] \in Inodes /\ sec[u] # tmp[v]
                          /\ bak[u] # NoFile => bak[u] \in Inodes /\ bak[u] # tmp[v]
    BY <1>4, Basics
  <2> QED
    BY <1>1, <1>7, <2>1 DEF IInv, StoredIsThere
<1> QED
  BY <1>5, <1>8, <1>9, <1>10, <1>11, <1>12 DEF IInv

LEMMA CheckPreviousKeepsIInv == ASSUME IInv, NEW w \in Writers, CheckPrevious(w) PROVE IInv'
<1>1. PICK to \in {"failed", "placing", "rotating"} : Goto(w, to)
  BY DEF CheckPrevious, Goto
<1>2. pc[w] = "checking" /\ UNCHANGED <<disk, reading, stored>>
  BY DEF CheckPrevious
<1>3. w \in Mutators /\ w \notin Deleters
  BY StoreAssumption DEF Mutators
<1> QED
  BY <1>1, <1>2, <1>3, PcStep

\* The previous record moves to .bak and stays what was stored last.
LEMMA RotatePreviousKeepsIInv == ASSUME IInv, NEW w \in Writers, RotatePrevious(w) PROVE IInv'
<1> DEFINE v == VaultOf[w]
<1>1. CASE sec[v] = NoFile
  <2>1. Goto(w, "failed") /\ UNCHANGED <<disk, reading, stored>>
    BY <1>1 DEF RotatePrevious
  <2>2. w \in Mutators /\ w \notin Deleters
    BY StoreAssumption DEF Mutators
  <2> QED
    BY <2>1, <2>2, PcStep
<1>2. CASE sec[v] # NoFile
  <2>1. /\ pc[w] = "rotating" /\ Goto(w, "placing")
        /\ bak' = [bak EXCEPT ![v] = sec[v]] /\ sec' = [sec EXCEPT ![v] = NoFile]
        /\ UNCHANGED <<tmp, fd, content, got, shadowed, plan, named, rows, stored>>
    BY <1>2 DEF RotatePrevious, reading, listing
  <2>2. v \in Vaults /\ sec[v] \in Link
    BY Basics
  <2>3. /\ pc' \in [Calls -> Pc] /\ PcFits' /\ OneAtATime'
        /\ \A k \in Calls : pc'[k] = IF k = w THEN "placing" ELSE pc[k]
    BY <2>1, GoesOn DEF WriterPc
  <2>4. sec \in [Vaults -> Link] /\ bak \in [Vaults -> Link]
    BY DEF IInv, TypeOK
  <2> HIDE DEF v
  <2>5. /\ \A u \in Vaults : bak'[u] = IF u = v THEN sec[v] ELSE bak[u]
        /\ \A u \in Vaults : sec'[u] = IF u = v THEN NoFile ELSE sec[u]
    BY <2>1, <2>4
  <2>6. TypeOK'
    <3>1. sec' \in [Vaults -> Link] /\ bak' \in [Vaults -> Link]
      BY <2>1, <2>2, <2>4 DEF Link
    <3> QED
      BY <2>1, <2>3, <3>1 DEF IInv, TypeOK
  <2>7. LinksAreHome'
    BY <2>1, <2>5 DEF IInv, LinksAreHome, Linked
  <2>8. NewIsUnlinked'
    BY <2>1, <2>2, <2>3, <2>5 DEF IInv, NewIsUnlinked, Linked, Calls, Mutators
  <2>9. TemporaryIsOwn'
    BY <2>1, <2>3 DEF IInv, TemporaryIsOwn, Calls, Mutators
  <2>10. StoredIsThere'
    BY <2>1, <2>5, <1>2 DEF IInv, StoredIsThere, v
  <2> QED
    BY <2>3, <2>6, <2>7, <2>8, <2>9, <2>10 DEF IInv
<1> QED
  BY <1>1, <1>2

\* The temporary, with the new record in it, becomes what is at the path.
LEMMA PlaceKeepsIInv == ASSUME IInv, NEW w \in Writers, Place(w) PROVE IInv'
<1> DEFINE v == VaultOf[w]
<1>1. v \in Vaults /\ w \in Inodes /\ w # NoFile /\ w \in Calls
  BY Basics
<1>2. pc[w] = "placing" /\ tmp[v] # NoFile /\ tmp[v] \in Link /\ content[tmp[v]] = w
  BY <1>1, Basics DEF Place, IInv, TemporaryIsOwn
<1>3. /\ Goto(w, "done")
      /\ sec' = [sec EXCEPT ![v] = tmp[v]] /\ tmp' = [tmp EXCEPT ![v] = NoFile]
      /\ stored' = [stored EXCEPT ![v] = w]
      /\ UNCHANGED <<bak, fd, content, got, shadowed, plan, named, rows>>
  BY <1>2 DEF Place, reading, listing
<1>4. /\ pc' \in [Calls -> Pc] /\ PcFits' /\ OneAtATime'
      /\ \A k \in Calls : pc'[k] = IF k = w THEN "done" ELSE pc[k]
  BY <1>2, <1>3, GoesOn DEF WriterPc
<1>5. \A x \in Writers : pc[x] \in WriterPc /\ x # w => VaultOf[x] # v
  BY <1>2, Alone DEF Mutating, Mutators, WriterPc
<1>6. \A x \in Writers : VaultOf[x] \in Vaults
  BY Basics
<1>7. /\ sec \in [Vaults -> Link] /\ tmp \in [Vaults -> Link] /\ stored \in [Vaults -> Link]
  BY DEF IInv, TypeOK
<1> HIDE DEF v
<1>8. /\ \A u \in Vaults : sec'[u] = IF u = v THEN tmp[v] ELSE sec[u]
      /\ \A u \in Vaults : tmp'[u] = IF u = v THEN NoFile ELSE tmp[u]
      /\ \A u \in Vaults : stored'[u] = IF u = v THEN w ELSE stored[u]
  BY <1>3, <1>7
<1>9. TypeOK'
  <2>1. sec' \in [Vaults -> Link] /\ tmp' \in [Vaults -> Link] /\ stored' \in [Vaults -> Link]
    BY <1>1, <1>2, <1>3, <1>7 DEF Link
  <2> QED
    BY <1>3, <1>4, <2>1 DEF IInv, TypeOK
<1>10. LinksAreHome'
  BY <1>3, <1>8 DEF IInv, LinksAreHome, Linked
<1>11. NewIsUnlinked'
  BY <1>1, <1>2, <1>3, <1>4, <1>8 DEF IInv, NewIsUnlinked, Linked, Calls, Mutators
<1>12. TemporaryIsOwn'
  BY <1>3, <1>4, <1>5, <1>6, <1>8 DEF IInv, TemporaryIsOwn, Calls, Mutators, WriterPc
<1>13. StoredIsThere'
  BY <1>1, <1>2, <1>3, <1>8 DEF IInv, StoredIsThere
<1> QED
  BY <1>4, <1>9, <1>10, <1>11, <1>12, <1>13 DEF IInv

\* A deletion removes the path and leaves the copy.
LEMMA DeleteKeepsIInv == ASSUME Exclusive, IInv, NEW d \in Deleters, Delete(d) PROVE IInv'
<1>1. d \in Mutators /\ d \notin Writers /\ d \in Calls /\ VaultOf[d] \in Vaults
  BY StoreAssumption DEF Mutators, Calls
<1>2. CASE StartDelete(d)
  BY <1>1, <1>2, StartsKeepIInv
<1>3. CASE LookBeforeRemove(d) /\ sec[VaultOf[d]] # NoFile
  <2>1. pc[d] = "looking" /\ Goto(d, "removing") /\ UNCHANGED <<disk, reading, stored>>
    BY <1>3 DEF LookBeforeRemove
  <2> QED
    BY <1>1, <2>1, PcStep
<1>4. CASE Remove(d) /\ sec[VaultOf[d]] = NoFile
  <2>1. pc[d] = "removing" /\ Goto(d, "failed") /\ UNCHANGED <<reading, stored>>
        /\ UNCHANGED <<tmp, bak, fd, content>>
    BY <1>4 DEF Remove
  <2>2. sec' = sec
    BY <1>1, <1>4 DEF Remove, IInv, TypeOK
  <2> QED
    BY <1>1, <2>1, <2>2, PcStep DEF disk
<1>5. CASE \/ LookBeforeRemove(d) /\ sec[VaultOf[d]] = NoFile
           \/ Remove(d) /\ sec[VaultOf[d]] # NoFile
  <2> DEFINE v == VaultOf[d]
  <2>1. /\ pc[d] \in DeleterPc /\ Goto(d, "done") /\ Forget(v)
        /\ UNCHANGED <<tmp, bak, fd, content>>
    BY <1>5 DEF LookBeforeRemove, Remove, DeleterPc, disk
  <2>2. sec' = [sec EXCEPT ![v] = NoFile]
    BY <1>1, <1>5 DEF LookBeforeRemove, Remove, disk, IInv, TypeOK
  <2>3. /\ stored' = [stored EXCEPT ![v] = NoFile]
        /\ shadowed' \in [Readers -> BOOLEAN]
        /\ UNCHANGED <<got, plan, named, rows>>
    BY <2>1 DEF Forget, listing, IInv, TypeOK
  <2>4. /\ sec \in [Vaults -> Link] /\ stored \in [Vaults -> Link] /\ pc \in [Calls -> Pc]
    BY DEF IInv, TypeOK
  <2>5. pc' \in [Calls -> Pc] /\ \A k \in Calls : pc'[k] = IF k = d THEN "done" ELSE pc[k]
    BY <1>1, <2>1, <2>4 DEF Goto, Pc
  <2>6. v \in Vaults
    BY <1>1
  <2> HIDE DEF v
  <2>7. /\ \A u \in Vaults : sec'[u] = IF u = v THEN NoFile ELSE sec[u]
        /\ \A u \in Vaults : stored'[u] = IF u = v THEN NoFile ELSE stored[u]
    BY <2>2, <2>3, <2>4
  <2>8. TypeOK'
    <3>1. sec' \in [Vaults -> Link] /\ stored' \in [Vaults -> Link]
      BY <2>2, <2>3, <2>4, <2>6 DEF Link
    <3> QED
      BY <2>1, <2>3, <2>5, <3>1 DEF IInv, TypeOK
  <2>9. PcFits' /\ OneAtATime'
    BY <1>1, <2>5 DEF IInv, PcFits, OneAtATime, Mutating, Calls, Mutators, WriterPc, DeleterPc
  <2>10. LinksAreHome'
    BY <2>1, <2>7 DEF IInv, LinksAreHome, Linked
  <2>11. NewIsUnlinked' /\ TemporaryIsOwn'
    BY <1>1, <2>1, <2>5, <2>7 DEF IInv, NewIsUnlinked, TemporaryIsOwn, Linked, Calls, Mutators
  <2>12. StoredIsThere'
    BY <2>1, <2>7 DEF IInv, StoredIsThere
  <2> QED
    BY <2>8, <2>9, <2>10, <2>11, <2>12 DEF IInv
<1> QED
  BY <1>2, <1>3, <1>4, <1>5 DEF Delete
-----------------------------------------------------------------------------
\* Who only reads leaves the invariant to the writers.
LEMMA ReadersKeepIInv ==
  ASSUME IInv, NEW o \in Readers \union Listers, TypeOK',
         UNCHANGED <<disk, stored>>, \A k \in Calls : k # o => pc'[k] = pc[k]
  PROVE  IInv'
<1>1. \A m \in Mutators : pc'[m] = pc[m]
  BY StoreAssumption DEF Calls, Mutators
<1>2. PcFits' /\ OneAtATime'
  BY <1>1 DEF IInv, PcFits, OneAtATime, Mutating, Mutators
<1>3. LinksAreHome' /\ NewIsUnlinked' /\ TemporaryIsOwn' /\ StoredIsThere'
  BY <1>1 DEF IInv, disk, LinksAreHome, NewIsUnlinked, TemporaryIsOwn, StoredIsThere, Linked, Mutators
<1> QED
  BY <1>2, <1>3 DEF IInv

LEMMA OpenedIsStored ==
  ASSUME IInv, NEW v \in Vaults
  PROVE  /\ Opened(sec[v]) \in {"io error", stored[v]}
         /\ Opened(sec[v]) \in {"io error", "corrupt"} \union Inodes
<1>1. CASE sec[v] = NoFile
  BY <1>1 DEF Opened
<1>2. CASE sec[v] # NoFile
  <2>1. stored[v] \in Inodes /\ content[sec[v]] = stored[v]
    BY <1>2 DEF IInv, TypeOK, StoredIsThere, Link
  <2> QED
    BY <1>2, <2>1 DEF Opened
<1> QED
  BY <1>1, <1>2

\* What resolutions and inventories do to their own variables, whatever the writers
\* have made of the disk.
LEMMA ResolveKeepsTypes ==
  ASSUME TypeOK, NEW r \in Readers, Resolve(r)
  PROVE  /\ TypeOK' /\ UNCHANGED <<disk, stored, listing>>
         /\ \A k \in Calls : k # r => pc'[k] = pc[k]
         /\ \A k \in Readers : got'[k] # got[k] =>
              got'[k] = "not found" \/ \E v \in Vaults : got'[k] = Opened(sec[v])
<1> DEFINE Ends(result) == Answer(r, result) /\ UNCHANGED <<shadowed, listing>>
           Answers == {"not found"} \union {Opened(sec[v]) : v \in Vaults}
<1>1. UNCHANGED <<disk, stored, listing>>
  BY DEF Resolve, StartResolve, LookInProject, LookInGlobal, ReadProject, ReadGlobal, ReadFrom,
         reading
<1>2. \/ /\ \E to \in ReaderPc : Goto(r, to)
         /\ shadowed' \in [Readers -> BOOLEAN] /\ UNCHANGED <<got, listing>>
      \/ \E result \in Answers : Ends(result)
  <2>1. CASE StartResolve(r)
    <3>1. shadowed' \in [Readers -> BOOLEAN]
      BY <2>1 DEF StartResolve, TypeOK
    <3> QED
      BY <2>1, <3>1 DEF StartResolve, ReaderPc
  <2>2. CASE LookInProject(r)
    BY <2>2 DEF LookInProject, reading, ReaderPc, TypeOK
  <2>3. CASE LookInGlobal(r)
    BY <2>3 DEF LookInGlobal, ReaderPc, TypeOK
  <2>4. CASE ReadProject(r) \/ ReadGlobal(r)
    BY <2>4 DEF ReadProject, ReadGlobal, ReadFrom, Vaults
  <2> QED
    BY <2>1, <2>2, <2>3, <2>4 DEF Resolve
<1>3. /\ r \in Calls /\ pc \in [Calls -> Pc] /\ got \in [Readers -> Results]
      /\ Answers \subseteq Results
  BY DEF TypeOK, Calls, Opened, Results
<1> HIDE DEF Answers
<1>4. /\ pc' \in [Calls -> Pc] /\ got' \in [Readers -> Results] /\ shadowed' \in [Readers -> BOOLEAN]
      /\ \A k \in Calls : k # r => pc'[k] = pc[k]
      /\ \A k \in Readers : got'[k] # got[k] => got'[k] \in Answers
  <2>1. CASE \E to \in ReaderPc : Goto(r, to) /\ shadowed' \in [Readers -> BOOLEAN]
                                  /\ UNCHANGED <<got, listing>>
    BY <1>3, <2>1 DEF Goto, Pc
  <2>2. CASE \E result \in Answers : Ends(result)
    <3>1. PICK result \in Answers : Ends(result)
      BY <2>2
    <3>2. pc' = [pc EXCEPT ![r] = "done"] /\ got' = [got EXCEPT ![r] = result]
          /\ UNCHANGED <<shadowed, listing>>
      BY <3>1 DEF Answer, Goto
    <3> QED
      BY <1>3, <3>2 DEF Pc, TypeOK
  <2> QED
    BY <1>2, <2>1, <2>2
<1>5. TypeOK'
  BY <1>1, <1>4 DEF TypeOK, disk, listing
<1> QED
  BY <1>1, <1>4, <1>5 DEF Answers

\* What an inventory adds is what it opened in the vault it is at.
LEMMA InventoryKeepsTypes ==
  ASSUME TypeOK, PlanIsLeft, NEW l \in Listers, Inventory(l)
  PROVE  /\ TypeOK' /\ PlanIsLeft' /\ UNCHANGED <<disk, stored, got, shadowed>>
         /\ \A k \in Calls : k # l => pc'[k] = pc[k]
         /\ \A k \in Listers : \A row \in rows'[k] \ rows[k] :
              row[1] \in Vaults /\ row[2] = Opened(sec[row[1]])
<1> DEFINE Kept == TypeOK' /\ PlanIsLeft' /\ \A k \in Calls : k # l => pc'[k] = pc[k]
           Row == Vaults \X ({"io error", "corrupt"} \union Inodes)
<1>1. UNCHANGED <<disk, stored, got, shadowed>>
  BY DEF Inventory, StartInventory, ReadDir, LoadEntry
<1>2. /\ l \in Calls /\ pc \in [Calls -> Pc] /\ plan \in [Listers -> Rests]
      /\ named \in [Listers -> SUBSET {"sec"}]
      /\ rows \in [Listers -> SUBSET Row]
  BY DEF TypeOK, Calls
<1> HIDE DEF Row
<1>3. ASSUME NEW to \in ListerPc \union {"done"}, pc' = [pc EXCEPT ![l] = to],
             NEW p \in Rests, plan' = [plan EXCEPT ![l] = p], to \in ListerPc => p # <<>>,
             named' \in [Listers -> SUBSET {"sec"}], rows' \in [Listers -> SUBSET Row]
      PROVE  Kept
  <2>1. pc' \in [Calls -> Pc] /\ (\A k \in Calls : k # l => pc'[k] = pc[k])
        /\ plan' \in [Listers -> Rests]
    BY <1>2, <1>3 DEF Pc
  <2>2. TypeOK'
    BY <1>1, <1>3, <2>1 DEF TypeOK, disk, Row
  <2>3. PlanIsLeft'
    BY <1>2, <1>3 DEF PlanIsLeft, Calls
  <2> QED
    BY <2>1, <2>2, <2>3
<1> HIDE DEF Kept
<1>4. ASSUME plan[l] # <<>>, LeaveVault(l),
             named' \in [Listers -> SUBSET {"sec"}], rows' \in [Listers -> SUBSET Row]
      PROVE  Kept
  <2> DEFINE to == IF Len(plan[l]) = 1 THEN "done" ELSE "scanning"
             p == Tail(plan[l])
  <2>1. pc' = [pc EXCEPT ![l] = to] /\ plan' = [plan EXCEPT ![l] = p]
    BY <1>4 DEF LeaveVault, Goto
  <2>2. p \in Rests /\ (Len(plan[l]) # 1 => p # <<>>)
    BY <1>2, <1>4, TailsAreRests
  <2>3. to \in ListerPc \union {"done"} /\ (to \in ListerPc => Len(plan[l]) # 1)
    BY DEF ListerPc
  <2> HIDE DEF to, p
  <2> QED
    BY <1>3, <1>4, <2>1, <2>2, <2>3
<1>5. ASSUME StartInventory(l) PROVE Kept
  <2>1. PICK p \in Plans : plan' = [plan EXCEPT ![l] = p]
    BY <1>5 DEF StartInventory
  <2>2. rows' = rows /\ named' = named /\ pc' = [pc EXCEPT ![l] = "scanning"]
    BY <1>5 DEF StartInventory, Goto
  <2> QED
    BY <1>2, <1>3, <2>1, <2>2, TailsAreRests DEF ListerPc
<1>6. ASSUME ReadDir(l) PROVE Kept
  <2>1. plan[l] # <<>> /\ plan[l] \in Rests
    BY <1>2, <1>6 DEF ReadDir, PlanIsLeft, ListerPc
  <2>2. named' \in [Listers -> SUBSET {"sec"}] /\ rows' = rows
    BY <1>2, <1>6 DEF ReadDir, Records
  <2>3. CASE LeaveVault(l)
    BY <1>2, <1>4, <2>1, <2>2, <2>3
  <2>4. CASE Goto(l, "loading") /\ UNCHANGED plan
    <3>1. plan' = [plan EXCEPT ![l] = plan[l]]
      BY <1>2, <2>4
    <3> QED
      BY <1>2, <1>3, <2>1, <2>2, <2>4, <3>1 DEF Goto, ListerPc
  <2> QED
    BY <1>6, <2>3, <2>4 DEF ReadDir
<1>7. CASE LoadEntry(l)
  <2> DEFINE v == Head(plan[l])
  <2>1. plan[l] # <<>> /\ plan[l] \in Rests /\ pc[l] = "loading"
    BY <1>2, <1>7 DEF LoadEntry, PlanIsLeft, ListerPc
  <2>2. v \in Vaults
    BY <2>1, TailsAreRests
  <2> HIDE DEF v
  <2>3. /\ rows' = [rows EXCEPT ![l] = @ \union {<<v, Opened(sec[v])>>}]
        /\ named' = [named EXCEPT ![l] = @ \ {"sec"}]
        /\ LeaveVault(l) \/ UNCHANGED <<pc, plan>>
    BY <1>2, <1>7 DEF LoadEntry, v
  <2>4. rows' \in [Listers -> SUBSET Row] /\ named' \in [Listers -> SUBSET {"sec"}]
    <3>1. <<v, Opened(sec[v])>> \in Row
      BY <2>2 DEF Row, Opened
    <3>2. rows[l] \union {<<v, Opened(sec[v])>>} \in SUBSET Row
      BY <1>2, <3>1
    <3> QED
      BY <1>2, <2>3, <3>2
  <2>5. ASSUME LeaveVault(l) PROVE Kept
    BY <1>4, <2>1, <2>4, <2>5
  <2>6. ASSUME UNCHANGED <<pc, plan>> PROVE Kept
    <3>1. plan' = [plan EXCEPT ![l] = plan[l]] /\ pc' = [pc EXCEPT ![l] = "loading"]
      BY <1>2, <2>1, <2>6
    <3> QED
      BY <1>2, <1>3, <2>1, <2>4, <3>1 DEF ListerPc
  <2>7. \A k \in Listers : \A row \in rows'[k] \ rows[k] : row = <<v, Opened(sec[v])>>
    BY <1>2, <2>3
  <2>8. \A k \in Listers : \A row \in rows'[k] \ rows[k] :
          row[1] \in Vaults /\ row[2] = Opened(sec[row[1]])
    <3>1. <<v, Opened(sec[v])>>[1] = v /\ <<v, Opened(sec[v])>>[2] = Opened(sec[v])
      OBVIOUS
    <3> SUFFICES ASSUME NEW k \in Listers, NEW row \in rows'[k] \ rows[k]
                 PROVE  row[1] \in Vaults /\ row[2] = Opened(sec[row[1]])
      OBVIOUS
    <3>2. row = <<v, Opened(sec[v])>>
      BY <2>7
    <3> QED
      BY <2>2, <3>1, <3>2
  <2> QED
    BY <1>1, <2>3, <2>5, <2>6, <2>8 DEF Kept
<1>8. StartInventory(l) \/ ReadDir(l) => rows' = rows
  BY DEF StartInventory, ReadDir
<1> QED
  BY <1>1, <1>5, <1>6, <1>7, <1>8 DEF Inventory, Kept

LEMMA ResolveKeepsIInv == ASSUME IInv, NEW r \in Readers, Resolve(r) PROVE IInv'
BY ResolveKeepsTypes, ReadersKeepIInv DEF IInv

LEMMA InventoryKeepsIInv ==
  ASSUME IInv, PlanIsLeft, NEW l \in Listers, Inventory(l)
  PROVE  /\ IInv' /\ PlanIsLeft'
         /\ \A k \in Listers : \A row \in rows'[k] \ rows[k] :
              row[2] \in {"io error", stored[row[1]]}
<1>1. TypeOK
  BY DEF IInv
<1>2. /\ TypeOK' /\ PlanIsLeft' /\ UNCHANGED <<disk, stored>>
      /\ \A k \in Calls : k # l => pc'[k] = pc[k]
      /\ \A k \in Listers : \A row \in rows'[k] \ rows[k] :
           row[1] \in Vaults /\ row[2] = Opened(sec[row[1]])
  BY <1>1, InventoryKeepsTypes
<1>3. IInv'
  BY <1>2, ReadersKeepIInv
<1> QED
  BY <1>2, <1>3, OpenedIsStored
-----------------------------------------------------------------------------
LEMMA NextKeepsIInv ==
  ASSUME Exclusive, IInv, PlanIsLeft, [Next]_vars
  PROVE  IInv' /\ PlanIsLeft'
<1>1. CASE UNCHANGED vars
  <2>1. UNCHANGED <<pc, disk, got, shadowed, plan, named, rows, stored>>
    BY <1>1 DEF vars, reading, listing
  <2>2. TypeOK' /\ PlanIsLeft'
    BY <2>1 DEF IInv, TypeOK, PlanIsLeft, disk
  <2>3. PcFits' /\ OneAtATime' /\ LinksAreHome' /\ NewIsUnlinked' /\ TemporaryIsOwn' /\ StoredIsThere'
    BY <2>1 DEF IInv, PcFits, OneAtATime, Mutating, LinksAreHome, NewIsUnlinked,
                TemporaryIsOwn, StoredIsThere, Linked, disk
  <2> QED
    BY <2>2, <2>3 DEF IInv
<1>2. ASSUME NEW o \in Calls, o \notin Listers, NEW to, Goto(o, to), UNCHANGED plan
      PROVE  PlanIsLeft'
  BY <1>2 DEF PlanIsLeft, Goto, IInv, TypeOK, Calls
<1>3. ASSUME NEW w \in Writers, Write(w) \/ Crash(w)
      PROVE  IInv' /\ PlanIsLeft'
  <2>1. w \in Calls /\ w \notin Listers /\ w \in Mutators
    BY StoreAssumption DEF Calls, Mutators
  <2>2. UNCHANGED plan /\ \E to \in Pc : Goto(w, to)
    BY <1>3 DEF Write, Crash, StartWrite, CreateTmp, WriteTmp, CheckPrevious, RotatePrevious,
                Place, reading, listing, Pc, WriterPc
  <2> QED
    BY <1>2, <1>3, <2>1, <2>2, StartsKeepIInv, CreateTmpKeepsIInv, WriteTmpKeepsIInv,
       CheckPreviousKeepsIInv, RotatePreviousKeepsIInv, PlaceKeepsIInv, CrashKeepsIInv DEF Write
<1>4. ASSUME NEW d \in Deleters, Delete(d)
      PROVE  IInv' /\ PlanIsLeft'
  <2>1. d \in Calls /\ d \notin Listers
    BY StoreAssumption DEF Calls, Mutators
  <2>2. UNCHANGED plan /\ \E to \in Pc : Goto(d, to)
    BY <1>4 DEF Delete, StartDelete, LookBeforeRemove, Remove, Forget, reading, listing,
                Pc, DeleterPc
  <2> QED
    BY <1>2, <1>4, <2>1, <2>2, DeleteKeepsIInv
<1>5. ASSUME NEW r \in Readers, Resolve(r)
      PROVE  IInv' /\ PlanIsLeft'
  <2>1. r \in Calls /\ r \notin Listers
    BY StoreAssumption DEF Calls
  <2>2. UNCHANGED plan /\ \E to \in Pc : Goto(r, to)
    BY <1>5 DEF Resolve, StartResolve, LookInProject, LookInGlobal, ReadProject, ReadGlobal,
                ReadFrom, Answer, reading, listing, Pc, ReaderPc
  <2> QED
    BY <1>2, <1>5, <2>1, <2>2, ResolveKeepsIInv
<1>6. Finished => UNCHANGED vars
  BY DEF Finished
<1> QED
  BY <1>1, <1>3, <1>4, <1>5, <1>6, InventoryKeepsIInv DEF Next

LEMMA SpecIInv == ASSUME Exclusive PROVE Spec => [](IInv /\ PlanIsLeft)
<1>1. Init => IInv /\ PlanIsLeft
  <2>1. Init => PlanIsLeft
    BY DEF Init, PlanIsLeft, ListerPc, Calls
  <2> QED
    BY <2>1, InitIInv
<1>2. (IInv /\ PlanIsLeft) /\ [Next]_vars => (IInv /\ PlanIsLeft)'
  BY NextKeepsIInv
<1> QED
  BY <1>1, <1>2, PTL DEF Spec
-----------------------------------------------------------------------------
\* The record at the path is, whole, the one stored last: write_record and
\* delete_record, with one caller at a time in each vault, wherever one is killed.
THEOREM RecordsAreWhole == ASSUME Exclusive PROVE Spec => []ReadableIsLastStored
<1>1. IInv => ReadableIsLastStored
  BY DEF IInv, StoredIsThere, ReadableIsLastStored
<1> QED
  BY <1>1, SpecIInv, PTL

\* And while it is not at its path it is in full in .bak: write_record's rotation.
THEOREM CrashesLoseNothing == ASSUME Exclusive PROVE Spec => []NothingLost
<1>1. IInv => NothingLost
  BY DEF IInv, StoredIsThere, NothingLost
<1> QED
  BY <1>1, SpecIInv, PTL

\* Readers, who are never excluded, get the record that is stored or an error
\* that the file is gone: read_record and load_all.
THEOREM ReadersSeeWhatIsStored == ASSUME Exclusive PROVE Spec => ReadsAreTrue
<1> DEFINE Step ==
      /\ \A r \in Readers :
           /\ ReadProject(r) => got'[r] \in {"io error", stored["project"]}
           /\ ReadGlobal(r) => got'[r] \in {"io error", stored["global"]}
      /\ \A l \in Listers : \A row \in rows'[l] \ rows[l] :
           row[2] \in {"io error", stored[row[1]]}
<1>1. IInv /\ PlanIsLeft /\ [Next]_vars => [Step]_vars
  <2> SUFFICES ASSUME IInv, PlanIsLeft, Next PROVE Step
    OBVIOUS
  <2>1. ASSUME NEW r \in Readers, NEW v \in Vaults, ReadFrom(r, v)
        PROVE  got'[r] \in {"io error", stored[v]}
    <3>1. got' = [got EXCEPT ![r] = Opened(sec[v])] /\ got \in [Readers -> Results]
      BY <2>1 DEF ReadFrom, Answer, IInv, TypeOK
    <3> QED
      BY <3>1, OpenedIsStored
  <2>2. \A r \in Readers :
          /\ ReadProject(r) => got'[r] \in {"io error", stored["project"]}
          /\ ReadGlobal(r) => got'[r] \in {"io error", stored["global"]}
    BY <2>1 DEF ReadProject, ReadGlobal, Vaults
  <2>3. CASE \E l \in Listers : Inventory(l)
    BY <2>2, <2>3, InventoryKeepsIInv
  <2>4. CASE ~ \E l \in Listers : Inventory(l)
    <3>1. rows' = rows
      BY <2>4 DEF Next, Write, StartWrite, CreateTmp, WriteTmp, CheckPrevious, RotatePrevious,
                  Place, Crash, Delete, StartDelete, LookBeforeRemove, Remove, Forget, Resolve,
                  StartResolve, LookInProject, LookInGlobal, ReadProject, ReadGlobal, ReadFrom,
                  Finished, reading, listing, vars
    <3> QED
      BY <2>2, <3>1
  <2> QED
    BY <2>3, <2>4
<1>2. Spec => [][Step]_vars
  BY <1>1, SpecIInv, PTL DEF Spec
<1> QED
  BY <1>2 DEF ReadsAreTrue
-----------------------------------------------------------------------------
(* The refinement.  The steps of a call map to its start, its end, and one    *)
(* instant between: a record is set where Place or a deletion sets stored.    *)

Seen == [o \in Calls |-> StatusOf(o)]
Recs == [v \in Vaults |-> RecordOf(v)]
Ahead == [l \in Listers |-> VaultsIn(plan[l])]

\* What the three paths of a vault amount to is what was stored.
LEMMA RecordsAreStored == IInv => Recs = stored
<1> SUFFICES ASSUME IInv PROVE Recs = stored
  OBVIOUS
<1>1. \A v \in Vaults : RecordOf(v) = stored[v]
  BY DEF IInv, StoredIsThere, RecordOf
<1> QED
  BY <1>1 DEF Recs, IInv, TypeOK

LEMMA RecordsStayStored == (IInv => Recs = stored)'
<1> QED
  BY RecordsAreStored, PTL

LEMMA ReadIsOpened ==
  ASSUME IInv, NEW v \in Vaults
  PROVE  /\ Promise!Readable(v) <=> sec[v] # NoFile
         /\ Promise!Read(v) = Opened(sec[v])
<1>1. Recs[v] = stored[v]
  BY RecordsAreStored
<1>2. Promise!Readable(v) <=> sec[v] # NoFile
  BY <1>1 DEF Promise!Readable, Recs, Hidden, IInv, StoredIsThere
<1>3. sec[v] # NoFile => stored[v] \in Inodes /\ Opened(sec[v]) = stored[v]
  BY DEF IInv, TypeOK, StoredIsThere, Link, Opened
<1>4. Promise!Read(v) = Opened(sec[v])
  BY <1>1, <1>2, <1>3 DEF Promise!Read, Recs, Opened
<1> QED
  BY <1>2, <1>4

LEMMA SeenMoves ==
  ASSUME IInv, NEW o \in Calls, NEW to, Goto(o, to)
  PROVE  Seen' = [Seen EXCEPT ![o] = StatusOf(o)'] /\ pc'[o] = to
<1>1. pc'[o] = to /\ \A k \in Calls : k # o => pc'[k] = pc[k]
  BY DEF IInv, TypeOK, Goto
<1>2. \A k \in Calls : k # o => StatusOf(k)' = StatusOf(k)
  BY <1>1 DEF StatusOf
<1> QED
  BY <1>1, <1>2 DEF Seen

\* A step that moves no call for those outside and sets no record.
LEMMA Stutters ==
  ASSUME IInv, IInv', UNCHANGED <<stored, got, plan, rows>>, UNCHANGED Seen, UNCHANGED Hidden
  PROVE  UNCHANGED Promise!vars
<1>1. Recs' = Recs
  BY RecordsAreStored, RecordsStayStored
<1>2. Ahead' = Ahead
  BY DEF Ahead
<1> QED
  BY <1>1, <1>2 DEF Promise!vars, Seen, Recs, Ahead

LEMMA SeenStays ==
  ASSUME IInv, NEW o \in Calls, NEW to, Goto(o, to), StatusOf(o)' = StatusOf(o)
  PROVE  UNCHANGED Seen
<1>1. Seen' = [Seen EXCEPT ![o] = StatusOf(o)]
  BY SeenMoves
<1> QED
  BY <1>1 DEF Seen

LEMMA StartRefines ==
  ASSUME IInv, IInv', NEW o \in Calls, pc[o] = "idle",
         NEW to \in {"creating", "looking", "project"}, Goto(o, to),
         UNCHANGED <<sec, stored, got, plan, rows>>
  PROVE  Promise!Start(o)
<1>1. Seen' = [Seen EXCEPT ![o] = "open"] /\ Seen[o] = "idle"
  BY SeenMoves DEF Seen, StatusOf
<1>2. Recs' = Recs
  BY RecordsAreStored, RecordsStayStored
<1>3. Ahead' = Ahead /\ Hidden' = Hidden
  BY DEF Ahead, Hidden
<1> QED
  BY <1>1, <1>2, <1>3 DEF Promise!Start, Promise!Begin, Seen, Recs, Ahead

LEMMA FailRefines ==
  ASSUME IInv, IInv', NEW o \in Calls, pc[o] \in WriterPc \union DeleterPc,
         NEW to \in {"failed", "dead"}, Goto(o, to),
         UNCHANGED <<sec, stored, got, plan, rows>>
  PROVE  Promise!Fail(o)
<1>1. Seen' = [Seen EXCEPT ![o] = "failed"] /\ Seen[o] = "open"
  BY SeenMoves DEF Seen, StatusOf, WriterPc, DeleterPc
<1>2. Recs' = Recs
  BY RecordsAreStored, RecordsStayStored
<1>3. Ahead' = Ahead /\ Hidden' = Hidden
  BY DEF Ahead, Hidden
<1> QED
  BY <1>1, <1>2, <1>3 DEF Promise!Fail, Promise!End, Seen, Recs, Ahead

\* A call that succeeds sets its vault's record and nothing else.
LEMMA SetRefines ==
  ASSUME IInv, IInv', NEW o \in Calls, pc[o] \in WriterPc \union DeleterPc, Goto(o, "done"),
         NEW v \in Vaults, NEW inode, stored' = [stored EXCEPT ![v] = inode],
         inode # NoFile => sec'[v] # NoFile, \A u \in Vaults : u # v => sec'[u] = sec[u],
         UNCHANGED <<got, plan, rows>>
  PROVE  /\ Promise!End(o, "done") /\ Promise!Set(v, inode)
         /\ UNCHANGED <<got, Ahead, rows>>
<1>1. Seen' = [Seen EXCEPT ![o] = "done"] /\ Seen[o] = "open"
  BY SeenMoves DEF Seen, StatusOf, WriterPc, DeleterPc
<1>2. Recs' = [Recs EXCEPT ![v] = inode]
  BY RecordsAreStored, RecordsStayStored
<1>3. Hidden' = Hidden \ {v}
  <2>1. stored'[v] = inode /\ \A u \in Vaults : u # v => stored'[u] = stored[u]
    BY DEF IInv, TypeOK
  <2> QED
    BY <2>1 DEF Hidden
<1>4. Ahead' = Ahead
  BY DEF Ahead
<1> QED
  BY <1>1, <1>2, <1>3, <1>4 DEF Promise!End, Promise!Set, Seen, Recs

LEMMA WriteRefines ==
  ASSUME IInv, IInv', NEW w \in Writers, Write(w) \/ Crash(w)
  PROVE  Promise!Next \/ UNCHANGED Promise!vars
<1>1. w \in Calls /\ w \in Mutators /\ VaultOf[w] \in Vaults
  BY StoreAssumption DEF Calls, Mutators
<1> DEFINE v == VaultOf[w]
<1>2. CASE StartWrite(w)
  <2>1. Promise!Start(w)
    BY <1>1, <1>2, StartRefines DEF StartWrite, disk, reading, listing
  <2> QED
    BY <2>1 DEF Promise!Next
<1>3. ASSUME pc[w] \in WriterPc, NEW to \in WriterPc, Goto(w, to),
             UNCHANGED <<sec, stored, got, plan, rows>>
      PROVE  UNCHANGED Promise!vars
  <2>1. StatusOf(w)' = StatusOf(w)
    BY <1>1, <1>3, SeenMoves DEF StatusOf, WriterPc
  <2>2. UNCHANGED Seen
    BY <1>1, <1>3, <2>1, SeenStays
  <2>3. UNCHANGED Hidden
    BY <1>3 DEF Hidden
  <2> QED
    BY <1>3, <2>2, <2>3, Stutters
<1>4. CASE CreateTmp(w)
  BY <1>3, <1>4 DEF CreateTmp, reading, listing, WriterPc
<1>5. CASE WriteTmp(w)
  BY <1>3, <1>5 DEF WriteTmp, reading, listing, WriterPc
<1>6. ASSUME pc[w] \in WriterPc, NEW to \in {"failed", "dead"}, Goto(w, to),
             UNCHANGED <<sec, stored, got, plan, rows>>
      PROVE  Promise!Next
  <2>1. Promise!Fail(w)
    BY <1>1, <1>6, FailRefines
  <2> QED
    BY <2>1 DEF Promise!Next
<1>7. CASE CheckPrevious(w)
  <2>1. CASE Goto(w, "failed")
    BY <1>6, <1>7, <2>1 DEF CheckPrevious, disk, reading, listing, WriterPc
  <2>2. CASE \E to \in {"placing", "rotating"} : Goto(w, to)
    BY <1>3, <1>7, <2>2 DEF CheckPrevious, disk, reading, listing, WriterPc
  <2> QED
    BY <1>7, <2>1, <2>2 DEF CheckPrevious
<1>8. CASE Crash(w)
  BY <1>6, <1>8 DEF Crash, reading, listing
<1>9. CASE RotatePrevious(w)
  <2>1. CASE sec[v] = NoFile
    BY <1>6, <1>9, <2>1 DEF RotatePrevious, disk, reading, listing, WriterPc
  <2>2. CASE sec[v] # NoFile
    <3>1. /\ sec' = [sec EXCEPT ![v] = NoFile] /\ Goto(w, "placing") /\ pc[w] = "rotating"
          /\ UNCHANGED <<stored, got, plan, rows>>
      BY <1>9, <2>2 DEF RotatePrevious, reading, listing
    <3>2. UNCHANGED Seen /\ Seen[w] = "open"
      <4>1. StatusOf(w)' = StatusOf(w) /\ StatusOf(w) = "open"
        <5>1. pc'[w] = "placing"
          BY <1>1, <3>1, SeenMoves
        <5> QED
          BY <3>1, <5>1 DEF StatusOf
      <4> QED
        BY <1>1, <3>1, <4>1, SeenStays DEF Seen
    <3>3. Hidden' = Hidden \union {v} /\ stored[v] # NoFile
      <4>1. stored[v] # NoFile
        BY <1>1, <2>2 DEF IInv, StoredIsThere
      <4>2. sec'[v] = NoFile /\ \A u \in Vaults : u # v => sec'[u] = sec[u]
        BY <1>1, <3>1 DEF IInv, TypeOK
      <4> QED
        BY <1>1, <3>1, <4>1, <4>2 DEF Hidden
    <3>4. Recs' = Recs /\ Recs[v] # NoFile
      BY <3>1, <3>3, RecordsAreStored, RecordsStayStored
    <3>5. Ahead' = Ahead
      BY <3>1 DEF Ahead
    <3>6. Promise!Hide(w)
      BY <1>1, <3>1, <3>2, <3>3, <3>4, <3>5 DEF Promise!Hide, Seen, Recs, Ahead
    <3> QED
      BY <3>6 DEF Promise!Next
  <2> QED
    BY <2>1, <2>2
<1>10. CASE Place(w)
  <2>1. CASE tmp[v] = NoFile
    BY <1>6, <1>10, <2>1 DEF Place, disk, reading, listing, WriterPc
  <2>2. CASE tmp[v] # NoFile
    <3>1. /\ pc[w] = "placing" /\ Goto(w, "done") /\ sec' = [sec EXCEPT ![v] = tmp[v]]
          /\ stored' = [stored EXCEPT ![v] = w] /\ UNCHANGED <<got, plan, rows>>
      BY <1>10, <2>2 DEF Place, reading, listing
    <3>2. sec'[v] # NoFile /\ \A u \in Vaults : u # v => sec'[u] = sec[u]
      BY <1>1, <2>2, <3>1 DEF IInv, TypeOK
    <3>3. /\ Promise!End(w, "done") /\ Promise!Set(v, w)
          /\ UNCHANGED <<got, Ahead, rows>>
      BY <1>1, <3>1, <3>2, SetRefines DEF WriterPc
    <3>4. Promise!Commit(w)
      BY <3>3 DEF Promise!Commit, Ahead
    <3> QED
      BY <3>4 DEF Promise!Next
  <2> QED
    BY <2>1, <2>2
<1> QED
  BY <1>2, <1>4, <1>5, <1>7, <1>8, <1>9, <1>10 DEF Write

LEMMA DeleteRefines ==
  ASSUME IInv, IInv', NEW d \in Deleters, Delete(d)
  PROVE  Promise!Next \/ UNCHANGED Promise!vars
<1>1. d \in Calls /\ VaultOf[d] \in Vaults
  BY StoreAssumption DEF Calls, Mutators
<1> DEFINE v == VaultOf[d]
<1>2. CASE StartDelete(d)
  <2>1. Promise!Start(d)
    BY <1>1, <1>2, StartRefines DEF StartDelete, disk, reading, listing
  <2> QED
    BY <2>1 DEF Promise!Next
<1>3. ASSUME pc[d] \in DeleterPc, Goto(d, "done"), Forget(v),
             \A u \in Vaults : u # v => sec'[u] = sec[u]
      PROVE  Promise!Next
  <2>1. stored' = [stored EXCEPT ![v] = NoFile] /\ UNCHANGED <<got, plan, rows>>
    BY <1>3 DEF Forget, listing
  <2>2. /\ Promise!End(d, "done") /\ Promise!Set(v, NoFile)
        /\ UNCHANGED <<got, Ahead, rows>>
    BY <1>1, <1>3, <2>1, SetRefines
  <2>3. Promise!Erase(d)
    BY <2>2 DEF Promise!Erase, Ahead
  <2> QED
    BY <2>3 DEF Promise!Next
<1>4. CASE LookBeforeRemove(d)
  <2>1. CASE sec[v] = NoFile
    BY <1>3, <1>4, <2>1 DEF LookBeforeRemove, disk, DeleterPc
  <2>2. CASE sec[v] # NoFile
    <3>1. /\ pc[d] = "looking" /\ Goto(d, "removing")
          /\ UNCHANGED <<sec, stored, got, plan, rows>>
      BY <1>4, <2>2 DEF LookBeforeRemove, disk, reading, listing
    <3>2. StatusOf(d)' = StatusOf(d)
      <4>1. pc'[d] = "removing"
        BY <1>1, <3>1, SeenMoves
      <4> QED
        BY <3>1, <4>1 DEF StatusOf
    <3>3. UNCHANGED Seen
      BY <1>1, <3>1, <3>2, SeenStays
    <3>4. UNCHANGED Hidden
      BY <3>1 DEF Hidden
    <3> QED
      BY <3>1, <3>3, <3>4, Stutters
  <2> QED
    BY <2>1, <2>2
<1>5. CASE Remove(d)
  <2>1. pc[d] = "removing" /\ sec' = [sec EXCEPT ![v] = NoFile]
    BY <1>5 DEF Remove
  <2>2. \A u \in Vaults : u # v => sec'[u] = sec[u]
    BY <1>1, <2>1 DEF IInv, TypeOK
  <2>3. CASE sec[v] = NoFile
    <3>1. UNCHANGED sec
      BY <1>1, <2>1, <2>3 DEF IInv, TypeOK
    <3>2. Promise!Fail(d)
      BY <1>1, <1>5, <2>1, <2>3, <3>1, FailRefines DEF Remove, reading, listing, DeleterPc
    <3> QED
      BY <3>2 DEF Promise!Next
  <2>4. CASE sec[v] # NoFile
    BY <1>3, <1>5, <2>1, <2>2, <2>4 DEF Remove, DeleterPc
  <2> QED
    BY <2>3, <2>4
<1> QED
  BY <1>2, <1>4, <1>5 DEF Delete

\* Where a resolution stands: with the project, past it, or at its end.
LEMMA ResolveRefines ==
  ASSUME IInv, IInv', NEW r \in Readers, Resolve(r)
  PROVE  Promise!Next \/ UNCHANGED Promise!vars
<1>1. r \in Calls
  BY DEF Calls
<1>2. /\ UNCHANGED <<sec, stored, plan, rows, Recs, Hidden, Ahead>>
  <2>1. UNCHANGED <<sec, stored, plan, rows>>
    BY DEF Resolve, StartResolve, LookInProject, LookInGlobal, ReadProject, ReadGlobal,
           ReadFrom, disk, reading, listing
  <2> QED
    BY <2>1, RecordsAreStored, RecordsStayStored DEF Hidden, Ahead
<1>3. CASE StartResolve(r)
  <2>1. Promise!Start(r)
    BY <1>1, <1>2, <1>3, StartRefines DEF StartResolve
  <2> QED
    BY <2>1 DEF Promise!Next
<1>4. ASSUME pc[r] \in {"project", "global"}, NEW to, Goto(r, to), UNCHANGED got,
             to = IF pc[r] = "project" THEN "reading project" ELSE "reading global"
      PROVE  UNCHANGED Promise!vars
  <2>1. pc'[r] = to
    BY <1>1, <1>4, SeenMoves
  <2>2. StatusOf(r)' = StatusOf(r)
    BY <1>4, <2>1 DEF StatusOf
  <2>3. UNCHANGED Seen
    BY <1>1, <1>4, <2>2, SeenStays
  <2> QED
    BY <1>2, <1>4, <2>3, Stutters
<1>5. CASE LookInProject(r)
  <2>1. pc[r] = "project" /\ UNCHANGED got
    BY <1>5 DEF LookInProject, reading
  <2>2. CASE sec["project"] = NoFile
    <3>1. Goto(r, "global")
      BY <1>5, <2>2 DEF LookInProject
    <3>2. Seen' = [Seen EXCEPT ![r] = StatusOf(r)'] /\ pc'[r] = "global"
      BY <1>1, <3>1, SeenMoves
    <3>3. StatusOf(r)' = "passed" /\ Seen[r] = "open"
      BY <1>1, <2>1, <3>2 DEF StatusOf, Seen
    <3>4. ~Promise!Readable("project")
      BY <2>2, ReadIsOpened DEF Vaults
    <3>5. Promise!End(r, "passed")
      BY <3>2, <3>3 DEF Promise!End, Seen
    <3>6. Promise!PassProject(r)
      BY <1>2, <2>1, <3>4, <3>5 DEF Promise!PassProject, Recs, Ahead
    <3> QED
      BY <3>6 DEF Promise!Next
  <2>3. CASE sec["project"] # NoFile
    <3>1. Goto(r, "reading project")
      BY <1>5, <2>3 DEF LookInProject
    <3> QED
      BY <1>4, <2>1, <3>1
  <2> QED
    BY <2>2, <2>3
<1>6. ASSUME NEW result, Answer(r, result) PROVE Promise!Answer(r, result)
  <2>1. Goto(r, "done") /\ got' = [got EXCEPT ![r] = result]
    BY <1>6 DEF Answer
  <2>2. Seen' = [Seen EXCEPT ![r] = StatusOf(r)'] /\ pc'[r] = "done"
    BY <1>1, <2>1, SeenMoves
  <2>3. StatusOf(r)' = "done"
    BY <2>2 DEF StatusOf
  <2> QED
    BY <1>2, <2>1, <2>2, <2>3 DEF Promise!Answer, Seen, Recs, Ahead
<1>7. CASE LookInGlobal(r)
  <2>1. pc[r] = "global"
    BY <1>7 DEF LookInGlobal
  <2>2. CASE sec["global"] = NoFile
    <3>1. Promise!Answer(r, "not found")
      BY <1>6, <1>7, <2>2 DEF LookInGlobal
    <3>2. ~Promise!Readable("global")
      BY <2>2, ReadIsOpened DEF Vaults
    <3>3. Seen[r] = "passed"
      BY <1>1, <2>1 DEF Seen, StatusOf
    <3>4. Promise!AnswerNothing(r)
      BY <3>1, <3>2, <3>3 DEF Promise!AnswerNothing, Seen
    <3> QED
      BY <3>4 DEF Promise!Next
  <2>3. CASE sec["global"] # NoFile
    <3>1. Goto(r, "reading global") /\ UNCHANGED got
      BY <1>7, <2>3 DEF LookInGlobal
    <3> QED
      BY <1>4, <2>1, <3>1
  <2> QED
    BY <2>2, <2>3
<1>8. CASE ReadProject(r)
  <2>1. Promise!Answer(r, Promise!Read("project"))
    BY <1>6, <1>8, ReadIsOpened DEF ReadProject, ReadFrom, Vaults
  <2>2. Seen[r] = "open"
    BY <1>1, <1>8 DEF ReadProject, Seen, StatusOf
  <2>3. Promise!AnswerFromProject(r)
    BY <2>1, <2>2 DEF Promise!AnswerFromProject, Seen
  <2> QED
    BY <2>3 DEF Promise!Next
<1>9. CASE ReadGlobal(r)
  <2>1. Promise!Answer(r, Promise!Read("global"))
    BY <1>6, <1>9, ReadIsOpened DEF ReadGlobal, ReadFrom, Vaults
  <2>2. Seen[r] = "passed"
    BY <1>1, <1>9 DEF ReadGlobal, Seen, StatusOf
  <2>3. Promise!AnswerFromGlobal(r)
    BY <2>1, <2>2 DEF Promise!AnswerFromGlobal, Seen
  <2> QED
    BY <2>3 DEF Promise!Next
<1> QED
  BY <1>3, <1>5, <1>7, <1>8, <1>9 DEF Resolve

\* A plan names each vault once, so that to leave the first leaves the others.
LEMMA LeavingAVault ==
  ASSUME NEW p \in Rests, p # <<>>
  PROVE  /\ Head(p) \in VaultsIn(p) /\ VaultsIn(Tail(p)) = VaultsIn(p) \ {Head(p)}
         /\ Len(p) = 1 <=> VaultsIn(p) = {Head(p)}
<1>1. /\ VaultsIn(<<"global">>) = {"global"} /\ VaultsIn(<<"project">>) = {"project"}
      /\ VaultsIn(<<"global", "project">>) = {"global", "project"} /\ VaultsIn(<<>>) = {}
  BY DEF VaultsIn
<1>2. /\ Tail(<<"global">>) = <<>> /\ Tail(<<"project">>) = <<>>
      /\ Tail(<<"global", "project">>) = <<"project">>
      /\ Len(<<"global">>) = 1 /\ Len(<<"project">>) = 1 /\ Len(<<"global", "project">>) = 2
      /\ Head(<<"global">>) = "global" /\ Head(<<"project">>) = "project"
      /\ Head(<<"global", "project">>) = "global"
  OBVIOUS
<1>3. /\ {"global"} \ {"global"} = {} /\ {"project"} \ {"project"} = {}
      /\ {"global", "project"} \ {"global"} = {"project"} /\ {"global", "project"} # {"global"}
  OBVIOUS
<1>4. p \in {<<"global">>, <<"project">>, <<"global", "project">>}
  BY PlansAre
<1>5. CASE p = <<"global">>
  BY <1>1, <1>2, <1>3, <1>5
<1>6. CASE p = <<"project">>
  BY <1>1, <1>2, <1>3, <1>6
<1>7. CASE p = <<"global", "project">>
  BY <1>1, <1>2, <1>3, <1>7
<1> QED
  BY <1>4, <1>5, <1>6, <1>7

LEMMA PlansHaveVaults == \A p \in Plans : VaultsIn(p) \in (SUBSET Vaults) \ {{}}
<1>1. /\ VaultsIn(<<"global">>) = {"global"} /\ VaultsIn(<<"project">>) = {"project"}
      /\ VaultsIn(<<"global", "project">>) = {"global", "project"}
  BY DEF VaultsIn
<1>2. \A V \in {{"global"}, {"project"}, {"global", "project"}} : V \in (SUBSET Vaults) \ {{}}
  BY DEF Vaults
<1> QED
  BY <1>1, <1>2, PlansAre

LEMMA InventoryRefines ==
  ASSUME IInv, IInv', PlanIsLeft, NEW l \in Listers, Inventory(l)
  PROVE  Promise!Next \/ UNCHANGED Promise!vars
<1>1. /\ l \in Calls /\ plan \in [Listers -> Rests] /\ named[l] \in SUBSET {"sec"}
  BY DEF IInv, TypeOK, Calls
<1>2. /\ UNCHANGED <<sec, stored, got, Recs, Hidden>>
  <2>1. UNCHANGED <<sec, stored, got>>
    BY DEF Inventory, StartInventory, ReadDir, LoadEntry, disk
  <2> QED
    BY <2>1, RecordsAreStored, RecordsStayStored DEF Hidden
<1>3. CASE StartInventory(l)
  <2>1. PICK p \in Plans : plan' = [plan EXCEPT ![l] = p]
    BY <1>3 DEF StartInventory
  <2>2. pc[l] = "idle" /\ Goto(l, "scanning") /\ UNCHANGED rows
    BY <1>3 DEF StartInventory
  <2>3. Seen' = [Seen EXCEPT ![l] = StatusOf(l)'] /\ pc'[l] = "scanning"
    BY <1>1, <2>2, SeenMoves
  <2>4. StatusOf(l)' = "open" /\ Seen[l] = "idle"
    BY <1>1, <2>2, <2>3 DEF StatusOf, Seen
  <2>5. Ahead' = [Ahead EXCEPT ![l] = VaultsIn(p)]
    BY <1>1, <2>1 DEF Ahead
  <2>6. VaultsIn(p) \in (SUBSET Promise!Vaults) \ {{}}
    BY PlansHaveVaults DEF Vaults, Promise!Vaults
  <2>7. Promise!Begin(l)
    BY <2>3, <2>4 DEF Promise!Begin, Seen
  <2>8. Promise!StartListing(l)
    BY <1>2, <2>2, <2>5, <2>6, <2>7 DEF Promise!StartListing, Recs, Ahead
  <2> QED
    BY <2>8 DEF Promise!Next
<1>4. ASSUME pc[l] \in ListerPc, LeaveVault(l)
      PROVE  Promise!Leave(l, Head(plan[l])) /\ Head(plan[l]) \in Promise!Vaults
  <2> DEFINE p == plan[l]
             to == IF Len(p) = 1 THEN "done" ELSE "scanning"
  <2>1. p \in Rests /\ p # <<>>
    BY <1>1, <1>4 DEF PlanIsLeft
  <2>2. /\ Head(p) \in VaultsIn(p) /\ VaultsIn(Tail(p)) = VaultsIn(p) \ {Head(p)}
        /\ Len(p) = 1 <=> VaultsIn(p) = {Head(p)}
        /\ Head(p) \in Vaults
    BY <2>1, LeavingAVault, TailsAreRests
  <2>3. plan' = [plan EXCEPT ![l] = Tail(p)] /\ Goto(l, to)
    BY <1>4 DEF LeaveVault
  <2>4. Ahead' = [Ahead EXCEPT ![l] = @ \ {Head(p)}] /\ Ahead[l] = VaultsIn(p)
    <3> HIDE DEF p
    <3>1. Ahead' = [Ahead EXCEPT ![l] = VaultsIn(Tail(p))]
      BY <1>1, <2>3 DEF Ahead
    <3>2. Ahead[l] = VaultsIn(p)
      BY DEF Ahead, p
    <3> QED
      BY <2>2, <3>1, <3>2
  <2>5. Seen' = [Seen EXCEPT ![l] = StatusOf(l)'] /\ pc'[l] = to
    BY <1>1, <2>3, SeenMoves
  <2>6. Seen[l] = "open"
    BY <1>1, <1>4 DEF Seen, StatusOf, ListerPc
  <2>7. IF Ahead[l] = {Head(p)} THEN Promise!End(l, "done") ELSE UNCHANGED Seen
    <3>1. CASE Len(p) = 1
      <4>1. StatusOf(l)' = "done"
        BY <2>5, <3>1 DEF StatusOf
      <4> QED
        BY <2>2, <2>4, <2>5, <2>6, <3>1, <4>1 DEF Promise!End, Seen
    <3>2. CASE Len(p) # 1
      <4>1. StatusOf(l)' = "open"
        BY <2>5, <3>2 DEF StatusOf
      <4>2. Seen' = Seen
        BY <1>1, <2>5, <2>6, <4>1 DEF Seen
      <4> QED
        BY <2>2, <2>4, <3>2, <4>2
    <3> QED
      BY <3>1, <3>2
  <2> HIDE DEF p
  <2>8. Promise!Leave(l, Head(p))
    BY <1>2, <2>2, <2>4, <2>7 DEF Promise!Leave, Seen, Recs, Ahead
  <2> QED
    BY <2>2, <2>8 DEF p, Vaults, Promise!Vaults
<1>5. ASSUME pc[l] \in ListerPc PROVE Head(plan[l]) \in Vaults
  BY <1>1, <1>5, TailsAreRests DEF PlanIsLeft
<1>6. CASE ReadDir(l)
  <2>1. pc[l] = "scanning" /\ UNCHANGED rows
    BY <1>6 DEF ReadDir
  <2>2. CASE Records(Head(plan[l])) = {}
    <3>1. LeaveVault(l)
      BY <1>6, <2>2 DEF ReadDir
    <3>2. Promise!Leave(l, Head(plan[l])) /\ Head(plan[l]) \in Promise!Vaults
      BY <1>4, <2>1, <3>1 DEF ListerPc
    <3>3. sec[Head(plan[l])] = NoFile
      BY <2>2 DEF Records
    <3>4. ~Promise!Readable(Head(plan[l]))
      BY <1>5, <2>1, <3>3, ReadIsOpened DEF ListerPc
    <3>5. Promise!Skip(l, Head(plan[l]))
      BY <2>1, <3>2, <3>4 DEF Promise!Skip
    <3> QED
      BY <3>2, <3>5 DEF Promise!Next
  <2>3. CASE Records(Head(plan[l])) # {}
    <3>1. Goto(l, "loading") /\ UNCHANGED plan
      BY <1>6, <2>3 DEF ReadDir
    <3>2. pc'[l] = "loading"
      BY <1>1, <3>1, SeenMoves
    <3>3. StatusOf(l)' = StatusOf(l)
      BY <2>1, <3>2 DEF StatusOf
    <3>4. UNCHANGED Seen
      BY <1>1, <3>1, <3>3, SeenStays
    <3> QED
      BY <1>2, <2>1, <3>1, <3>4, Stutters
  <2> QED
    BY <2>2, <2>3
<1>7. CASE LoadEntry(l)
  <2> DEFINE v == Head(plan[l])
  <2>1. pc[l] \in ListerPc /\ named[l] = {"sec"}
    BY <1>1, <1>7 DEF LoadEntry, ListerPc
  <2>2. LeaveVault(l) /\ rows' = [rows EXCEPT ![l] = @ \union {<<v, Opened(sec[v])>>}]
    BY <1>7, <2>1 DEF LoadEntry
  <2>3. Promise!Leave(l, v) /\ v \in Promise!Vaults /\ v \in Vaults
    BY <1>4, <1>5, <2>1, <2>2
  <2>4. Promise!Read(v) = Opened(sec[v])
    BY <2>3, ReadIsOpened
  <2> HIDE DEF v
  <2>5. Promise!List(l, v)
    BY <2>2, <2>3, <2>4 DEF Promise!List
  <2> QED
    BY <2>3, <2>5 DEF Promise!Next
<1> QED
  BY <1>3, <1>6, <1>7 DEF Inventory

LEMMA StepRefines ==
  ASSUME Exclusive, IInv, PlanIsLeft, [Next]_vars
  PROVE  [Promise!Next]_(Promise!vars)
<1>1. IInv'
  BY NextKeepsIInv
<1>2. CASE UNCHANGED vars
  <2>1. UNCHANGED <<pc, sec, stored, got, plan, rows>>
    BY <1>2 DEF vars, disk, reading, listing
  <2>2. UNCHANGED <<Seen, Hidden>>
    BY <2>1 DEF Seen, StatusOf, Hidden
  <2> QED
    BY <1>1, <2>1, <2>2, Stutters
<1>3. Finished => UNCHANGED vars
  BY DEF Finished
<1> QED
  BY <1>1, <1>2, <1>3, WriteRefines, DeleteRefines, ResolveRefines, InventoryRefines DEF Next

\* Who does not look at the files sees a store in which every write and deletion is
\* one step, and every read one of the record that is there: write_record,
\* delete_record, resolve_with_key and load_all implement RecordStore.
THEOREM ImplementsStore == ASSUME Exclusive PROVE Spec => ImplementsRecordStore
<1>1. Init => Promise!Init
  <2> SUFFICES ASSUME Init PROVE Promise!Init
    OBVIOUS
  <2>1. IInv /\ stored = sec
    BY InitIInv DEF Init
  <2>2. Recs = sec
    BY <2>1, RecordsAreStored
  <2>3. Hidden = {}
    BY <2>1 DEF Hidden
  <2>4. Seen = [o \in Promise!Calls |-> "idle"]
    BY DEF Init, Seen, StatusOf, Calls, Mutators, Promise!Calls, Promise!Mutators
  <2>5. Ahead = [l \in Listers |-> {}]
    BY DEF Init, Ahead, VaultsIn
  <2>6. \E present \in SUBSET Promise!Vaults :
          sec = [v \in Promise!Vaults |-> IF v \in present THEN v ELSE NoFile]
    BY DEF Init, Vaults, Promise!Vaults
  <2> QED
    BY <2>2, <2>3, <2>4, <2>5, <2>6 DEF Promise!Init, Init, Recs, Seen, Ahead
<1>2. Spec => Promise!Spec
  BY <1>1, StepRefines, SpecIInv, PTL DEF Spec, Promise!Spec
<1> QED
  BY <1>2 DEF ImplementsRecordStore
-----------------------------------------------------------------------------
(* What is left when nobody keeps the callers apart: two processes may have  *)
(* one temporary open, truncate each other's, and place or rotate it.        *)

\* The writer has written and synced its frame.
Written(i) == i \in Writers => pc[i] \notin {"idle", "creating", "writing"}

\* A record of v, as its writer wrote it.
Whole(v, i) == i \in Inodes => Home(i) = v /\ Written(i)

\* What resolutions and inventories gave out was written in full, by a writer of
\* the vault it was found in, or was there at the start.
ServedIsWritten ==
  /\ \A r \in Readers : Written(got[r])
  /\ \A l \in Listers : \A row \in rows[l] : Whole(row[1], row[2])

\* Paths and open files stay in their vault, and so does what is in them.
FilesStayHome ==
  /\ \A v \in Vaults : \A i \in Linked(v) : Home(i) = v
  /\ \A w \in Writers : fd[w] # NoFile => Home(fd[w]) = VaultOf[w]
  /\ \A i \in Inodes : Whole(Home(i), content[i])

RInv == TypeOK /\ PlanIsLeft /\ FilesStayHome /\ ServedIsWritten

LEMMA InitRInv == Init => RInv
<1> SUFFICES ASSUME Init PROVE RInv
  OBVIOUS
<1>1. TypeOK
  BY InitIInv DEF IInv
<1>2. PlanIsLeft
  BY DEF Init, PlanIsLeft, ListerPc, Calls
<1>3. \A v \in Vaults : v \notin Writers /\ v \in Inodes /\ "empty" \notin Vaults
  BY StoreAssumption DEF Mutators, Inodes, Vaults
<1>6. /\ \A v \in Vaults : v # NoFile /\ Home(v) = v
      /\ "empty" \notin Inodes /\ "none" \notin Writers
  BY StoreAssumption DEF Inodes, Home
<1>4. FilesStayHome
  <2>1. \A v \in Vaults : \A i \in Linked(v) : i = v
    BY DEF Init, Linked
  <2>2. \A i \in Inodes : content[i] = IF i \in Vaults THEN i ELSE "empty"
    BY DEF Init
  <2> QED
    <3>1. \A v \in Vaults : Whole(Home(v), v)
      BY <1>3, <1>6 DEF Whole, Written
    <3>2. \A i \in Inodes : Whole(Home(i), content[i])
      BY <1>3, <1>6, <2>2, <3>1 DEF Whole
    <3> QED
      BY <1>3, <1>6, <2>1, <3>2 DEF Init, FilesStayHome
<1>5. ServedIsWritten
  BY <1>6 DEF Init, ServedIsWritten, Written, Calls, Mutators
<1> QED
  BY <1>1, <1>2, <1>4, <1>5 DEF RInv

\* A writer does not take back what it wrote.
LEMMA WrittenStays == ASSUME TypeOK, [Next]_vars, NEW i, Written(i) PROVE Written(i)'
<1>1. pc \in [Calls -> Pc] /\ (i \in Writers => i \in Calls)
  BY DEF TypeOK, Calls, Mutators
<1>2. ASSUME NEW o \in Calls, NEW to, Goto(o, to),
             o = i /\ i \in Writers => to \notin {"idle", "creating", "writing"} \/ ~Written(i)
      PROVE  Written(i)'
  BY <1>1, <1>2 DEF Written, Goto
<1>3. pc' = pc => Written(i)'
  BY DEF Written
<1>4. ASSUME NEW w \in Writers, Write(w) \/ Crash(w) PROVE Written(i)'
  <2>1. w \in Calls
    BY DEF Calls, Mutators
  <2>2. PICK to \in Pc : Goto(w, to) /\ (to \in {"creating", "writing"} => pc[w] \in {"idle", "creating"})
                         /\ to # "idle"
    BY <1>4 DEF Write, Crash, StartWrite, CreateTmp, WriteTmp, CheckPrevious, RotatePrevious,
                Place, Pc, WriterPc
  <2> QED
    BY <1>2, <2>1, <2>2 DEF Written
<1>5. ASSUME NEW d \in Deleters, Delete(d) PROVE Written(i)'
  <2>1. d \in Calls /\ d \notin Writers
    BY StoreAssumption DEF Calls, Mutators
  <2>2. \E to \in Pc : Goto(d, to)
    BY <1>5 DEF Delete, StartDelete, LookBeforeRemove, Remove, Pc, DeleterPc
  <2> QED
    BY <1>2, <2>1, <2>2
<1>6. ASSUME NEW r \in Readers, Resolve(r) PROVE Written(i)'
  <2>1. r \in Calls /\ r \notin Writers
    BY StoreAssumption DEF Calls, Mutators
  <2>2. \E to \in Pc : Goto(r, to)
    BY <1>6 DEF Resolve, StartResolve, LookInProject, LookInGlobal, ReadProject, ReadGlobal,
                ReadFrom, Answer, Pc, ReaderPc
  <2> QED
    BY <1>2, <2>1, <2>2
<1>7. ASSUME NEW l \in Listers, Inventory(l) PROVE Written(i)'
  <2>1. l \in Calls /\ l \notin Writers
    BY StoreAssumption DEF Calls, Mutators
  <2>2. pc' = pc \/ \E to \in Pc : Goto(l, to)
    BY <1>7 DEF Inventory, StartInventory, ReadDir, LoadEntry, LeaveVault, Pc, ListerPc
  <2> QED
    BY <1>2, <1>3, <2>1, <2>2
<1>8. UNCHANGED vars \/ Finished => pc' = pc
  BY DEF vars, Finished
<1> QED
  BY <1>3, <1>4, <1>5, <1>6, <1>7, <1>8 DEF Next

LEMMA WholeStays ==
  ASSUME TypeOK, [Next]_vars, NEW v, NEW i, Whole(v, i)
  PROVE  Whole(v, i)'
BY WrittenStays DEF Whole, Home

\* A step that leaves disk and readers alone, or adds to what they were given
\* something whole.
LEMMA ServesWhole ==
  ASSUME RInv, [Next]_vars,
         \A r \in Readers : got'[r] # got[r] => Written(got'[r]),
         \A l \in Listers : \A row \in rows'[l] \ rows[l] : Whole(row[1], row[2])
  PROVE  ServedIsWritten'
<1>1. \A r \in Readers : Written(got'[r])
  BY DEF RInv, ServedIsWritten
<1>2. \A l \in Listers : \A row \in rows'[l] : Whole(row[1], row[2])
  BY DEF RInv, ServedIsWritten
<1>3. \A r \in Readers : got'[r] \in Writers => pc'[got'[r]] \notin {"idle", "creating", "writing"}
  BY <1>1, WrittenStays DEF RInv, Written
<1>4. \A l \in Listers : \A row \in rows'[l] :
        row[2] \in Inodes => /\ Home(row[2]) = row[1]
                             /\ row[2] \in Writers => pc'[row[2]] \notin {"idle", "creating", "writing"}
  BY <1>2, WrittenStays DEF RInv, Whole, Written
<1> QED
  BY <1>3, <1>4 DEF ServedIsWritten, Whole, Written, Home

\* What opening a path of a vault gives is nothing, or a whole record of it.
LEMMA OpenedIsWhole ==
  ASSUME RInv, NEW v \in Vaults
  PROVE  /\ Opened(sec[v]) \in {"io error", "corrupt"} \union Inodes
         /\ Whole(v, Opened(sec[v])) /\ Written(Opened(sec[v]))
<1>0. {"io error", "corrupt"} \intersect Inodes = {} /\ Writers \subseteq Inodes
  BY StoreAssumption DEF Inodes
<1>1. sec[v] = NoFile \/ (sec[v] \in Inodes /\ Home(sec[v]) = v /\ Whole(v, content[sec[v]]))
  <2>1. sec[v] = NoFile \/ (sec[v] \in Inodes /\ sec[v] \in Linked(v))
    BY DEF RInv, TypeOK, Linked, Link
  <2> QED
    BY <2>1 DEF RInv, FilesStayHome
<1>2. sec[v] # NoFile /\ content[sec[v]] \in Inodes => Opened(sec[v]) = content[sec[v]]
  BY DEF Opened
<1>3. ~(sec[v] # NoFile /\ content[sec[v]] \in Inodes) => Opened(sec[v]) \in {"io error", "corrupt"}
  BY DEF Opened
<1>4. \A i : i \notin Inodes => Whole(v, i) /\ Written(i)
  BY <1>0 DEF Whole, Written
<1>5. \A i \in Inodes : Whole(v, i) => Written(i)
  BY DEF Whole
<1> QED
  BY <1>0, <1>1, <1>2, <1>3, <1>4, <1>5

\* A step of a writer: what it may do to its vault, whoever else is at work.
LEMMA WriterKeepsRInv ==
  ASSUME RInv, [Next]_vars, NEW w \in Writers, Write(w) \/ Crash(w)
  PROVE  TypeOK' /\ FilesStayHome'
<1> DEFINE v == VaultOf[w]
<1>1. /\ v \in Vaults /\ w \in Inodes /\ w # NoFile /\ Home(w) = v /\ w \in Calls
      /\ w \notin Vaults
  BY StoreAssumption DEF Mutators, Inodes, Calls, Home
<1>2. /\ pc \in [Calls -> Pc] /\ fd \in [Writers -> Link] /\ content \in [Inodes -> Contents]
      /\ sec \in [Vaults -> Link] /\ tmp \in [Vaults -> Link] /\ bak \in [Vaults -> Link]
      /\ stored \in [Vaults -> Link]
  BY DEF RInv, TypeOK
<1>3. UNCHANGED reading
  BY DEF Write, Crash, StartWrite, CreateTmp, WriteTmp, CheckPrevious, RotatePrevious, Place
<1>4. pc' \in [Calls -> Pc]
  <2>1. \E to \in Pc : Goto(w, to)
    BY DEF Write, Crash, StartWrite, CreateTmp, WriteTmp, CheckPrevious, RotatePrevious, Place,
           Pc, WriterPc
  <2> QED
    BY <1>1, <1>2, <2>1 DEF Goto
<1>5. /\ \A u \in Vaults : /\ sec[u] # NoFile => sec[u] \in Inodes /\ Home(sec[u]) = u
                           /\ tmp[u] # NoFile => tmp[u] \in Inodes /\ Home(tmp[u]) = u
                           /\ bak[u] # NoFile => bak[u] \in Inodes /\ Home(bak[u]) = u
      /\ \A x \in Writers : fd[x] # NoFile => fd[x] \in Inodes /\ Home(fd[x]) = VaultOf[x]
      /\ \A i \in Inodes : Whole(Home(i), content[i])
  BY <1>2 DEF RInv, FilesStayHome, Linked, Link
<1>6. ASSUME sec' \in [Vaults -> Link], tmp' \in [Vaults -> Link], bak' \in [Vaults -> Link],
             fd' \in [Writers -> Link], content' \in [Inodes -> Contents],
             stored' \in [Vaults -> Link],
             \A u \in Vaults : /\ sec'[u] # NoFile => Home(sec'[u]) = u
                               /\ tmp'[u] # NoFile => Home(tmp'[u]) = u
                               /\ bak'[u] # NoFile => Home(bak'[u]) = u,
             \A x \in Writers : fd'[x] # NoFile => Home(fd'[x]) = VaultOf[x],
             \A i \in Inodes : Whole(Home(i), content'[i]) \/ (content'[i] = w /\ Home(i) = v /\ Written(w)')
      PROVE  TypeOK' /\ FilesStayHome'
  <2>1. TypeOK'
    BY <1>3, <1>4, <1>6 DEF RInv, TypeOK, reading, listing
  <2>2. \A i \in Inodes : content'[i] \in Inodes =>
          /\ Home(content'[i]) = Home(i)
          /\ content'[i] \in Writers => pc'[content'[i]] \notin {"idle", "creating", "writing"}
    <3>1. \A j : Written(j) => (j \in Writers => pc'[j] \notin {"idle", "creating", "writing"})
      BY WrittenStays DEF RInv, Written
    <3>2. Written(w)' => pc'[w] \notin {"idle", "creating", "writing"}
      BY DEF Written
    <3> SUFFICES ASSUME NEW i \in Inodes, content'[i] \in Inodes
                 PROVE  /\ Home(content'[i]) = Home(i)
                        /\ content'[i] \in Writers =>
                             pc'[content'[i]] \notin {"idle", "creating", "writing"}
      OBVIOUS
    <3>3. CASE Whole(Home(i), content'[i])
      BY <3>1, <3>3 DEF Whole
    <3>4. CASE content'[i] = w /\ Home(i) = v /\ Written(w)'
      BY <1>1, <3>2, <3>4
    <3> QED
      BY <1>6, <3>3, <3>4
  <2>3. FilesStayHome'
    <3>1. \A u \in Vaults : \A i \in Linked(u)' : Home(i) = u
      BY <1>6 DEF Linked
    <3>2. \A i \in Inodes : Whole(Home(i), content[i])'
      BY <2>2 DEF Whole, Written, Home
    <3> QED
      BY <1>6, <3>1, <3>2 DEF FilesStayHome, Home
  <2> QED
    BY <2>1, <2>3
<1> HIDE DEF v
<1>7. CASE StartWrite(w) \/ CheckPrevious(w)
  <2>1. UNCHANGED <<sec, tmp, bak, fd, content, stored>>
    BY <1>7 DEF StartWrite, CheckPrevious, disk
  <2> QED
    BY <1>2, <1>5, <1>6, <2>1
<1>8. CASE CreateTmp(w)
  <2> DEFINE inode == IF tmp[v] = NoFile THEN w ELSE tmp[v]
  <2>1. /\ tmp' = [tmp EXCEPT ![v] = inode]
        /\ fd' = [fd EXCEPT ![w] = inode]
        /\ content' = [content EXCEPT ![inode] = "empty"]
        /\ UNCHANGED <<sec, bak, stored>>
    BY <1>8 DEF CreateTmp, v
  <2>2. inode \in Inodes /\ Home(inode) = v
    BY <1>1, <1>5
  <2>3. "empty" \notin Inodes
    BY StoreAssumption
  <2> HIDE DEF inode
  <2>4. /\ \A u \in Vaults : tmp'[u] = IF u = v THEN inode ELSE tmp[u]
        /\ \A x \in Writers : fd'[x] = IF x = w THEN inode ELSE fd[x]
        /\ \A i \in Inodes : content'[i] = IF i = inode THEN "empty" ELSE content[i]
    BY <1>1, <1>2, <2>1, <2>2
  <2>5. tmp' \in [Vaults -> Link] /\ fd' \in [Writers -> Link] /\ content' \in [Inodes -> Contents]
    BY <1>1, <1>2, <2>1, <2>2 DEF Link, Contents
  <2>6. \A i \in Inodes : Whole(Home(i), content'[i])
    BY <1>5, <2>3, <2>4 DEF Whole
  <2>7. \A x \in Writers : fd'[x] # NoFile => Home(fd'[x]) = VaultOf[x]
    BY <1>5, <2>2, <2>4 DEF v
  <2>8. \A u \in Vaults : /\ sec'[u] # NoFile => Home(sec'[u]) = u
                          /\ tmp'[u] # NoFile => Home(tmp'[u]) = u
                          /\ bak'[u] # NoFile => Home(bak'[u]) = u
    BY <1>5, <2>1, <2>2, <2>4
  <2> QED
    BY <1>2, <1>6, <2>1, <2>5, <2>6, <2>7, <2>8
<1>9. CASE WriteTmp(w)
  <2>1. PICK left \in {w, "torn"} : content' = [content EXCEPT ![fd[w]] = left]
    BY <1>9 DEF WriteTmp
  <2>2. fd' = [fd EXCEPT ![w] = NoFile] /\ UNCHANGED <<sec, tmp, bak, stored>>
    BY <1>9 DEF WriteTmp
  <2>3. Written(w)'
    <3>1. pc' = [pc EXCEPT ![w] = "checking"]
      BY <1>9 DEF WriteTmp, Goto
    <3> QED
      BY <1>1, <1>2, <3>1 DEF Written
  <2>4. "torn" \notin Inodes /\ left \in Contents
    BY <1>1, StoreAssumption DEF Contents
  <2>5. fd' \in [Writers -> Link] /\ content' \in [Inodes -> Contents]
    BY <1>2, <2>1, <2>2, <2>4 DEF Link
  <2>6. \A i \in Inodes : content'[i] = IF i = fd[w] THEN left ELSE content[i]
    BY <1>2, <2>1
  <2>7. \A i \in Inodes : Whole(Home(i), content'[i]) \/ (content'[i] = w /\ Home(i) = v /\ Written(w)')
    <3> SUFFICES ASSUME NEW i \in Inodes
                 PROVE  Whole(Home(i), content'[i]) \/ (content'[i] = w /\ Home(i) = v /\ Written(w)')
      OBVIOUS
    <3>1. CASE i # fd[w]
      BY <1>5, <2>6, <3>1
    <3>2. CASE i = fd[w]
      <4>1. Home(i) = v
        BY <1>5, <3>2, StoreAssumption DEF v
      <4>2. Whole(v, "torn")
        BY <2>4 DEF Whole
      <4> QED
        BY <2>3, <2>6, <3>2, <4>1, <4>2
    <3> QED
      BY <3>1, <3>2
  <2>8. \A x \in Writers : fd'[x] # NoFile => Home(fd'[x]) = VaultOf[x]
    BY <1>2, <1>5, <2>2
  <2> QED
    BY <1>2, <1>5, <1>6, <2>2, <2>5, <2>7, <2>8
<1>10. CASE RotatePrevious(w)
  <2>1. UNCHANGED <<tmp, fd, content, stored>>
    BY <1>10 DEF RotatePrevious, disk
  <2>2. /\ \A u \in Vaults : sec'[u] \in {sec[u], NoFile} /\ bak'[u] \in {bak[u], sec[u]}
        /\ sec' \in [Vaults -> Link] /\ bak' \in [Vaults -> Link]
    <3>1. \/ UNCHANGED <<sec, bak>>
          \/ bak' = [bak EXCEPT ![v] = sec[v]] /\ sec' = [sec EXCEPT ![v] = NoFile]
      BY <1>10 DEF RotatePrevious, disk, v
    <3> QED
      BY <1>1, <1>2, <3>1 DEF Link
  <2>3. \A u \in Vaults : /\ sec'[u] # NoFile => Home(sec'[u]) = u
                          /\ bak'[u] # NoFile => Home(bak'[u]) = u
    BY <1>5, <2>2
  <2> QED
    BY <1>2, <1>5, <1>6, <2>1, <2>2, <2>3
<1>11. CASE Place(w)
  <2>1. UNCHANGED <<bak, fd, content>>
    BY <1>11 DEF Place, disk
  <2>2. /\ \A u \in Vaults : sec'[u] \in {sec[u], tmp[u]} /\ tmp'[u] \in {tmp[u], NoFile}
        /\ sec' \in [Vaults -> Link] /\ tmp' \in [Vaults -> Link] /\ stored' \in [Vaults -> Link]
    <3>1. \/ UNCHANGED <<sec, tmp, stored>>
          \/ /\ sec' = [sec EXCEPT ![v] = tmp[v]] /\ tmp' = [tmp EXCEPT ![v] = NoFile]
             /\ stored' = [stored EXCEPT ![v] = w]
      BY <1>11 DEF Place, disk, v
    <3>2. w \in Link
      BY <1>1 DEF Link
    <3> QED
      BY <1>1, <1>2, <3>1, <3>2 DEF Link
  <2>3. \A u \in Vaults : /\ sec'[u] # NoFile => Home(sec'[u]) = u
                          /\ tmp'[u] # NoFile => Home(tmp'[u]) = u
    BY <1>5, <2>2
  <2> QED
    BY <1>2, <1>5, <1>6, <2>1, <2>2, <2>3
<1>12. CASE Crash(w)
  <2>1. fd' = [fd EXCEPT ![w] = NoFile] /\ UNCHANGED <<sec, tmp, bak, content, stored>>
    BY <1>12 DEF Crash
  <2>2. fd' \in [Writers -> Link] /\ (\A x \in Writers : fd'[x] # NoFile => fd'[x] = fd[x])
    BY <1>2, <2>1 DEF Link
  <2> QED
    BY <1>2, <1>5, <1>6, <2>1, <2>2
<1> QED
  BY <1>7, <1>8, <1>9, <1>10, <1>11, <1>12 DEF Write

\* And of a deleter, who only takes a record away.
LEMMA DeleterKeepsRInv ==
  ASSUME RInv, [Next]_vars, NEW d \in Deleters, Delete(d)
  PROVE  /\ TypeOK' /\ FilesStayHome' /\ UNCHANGED <<got, listing>>
         /\ \E to \in Pc : Goto(d, to)
<1> DEFINE v == VaultOf[d]
<1>1. d \in Calls /\ v \in Vaults
  BY StoreAssumption DEF Calls, Mutators
<1> HIDE DEF v
<1>2. \E to \in Pc : Goto(d, to)
  BY DEF Delete, StartDelete, LookBeforeRemove, Remove, Pc, DeleterPc
<1>3. /\ UNCHANGED <<tmp, bak, fd, content, got, plan, named, rows>>
      /\ sec' = sec \/ sec' = [sec EXCEPT ![v] = NoFile]
      /\ stored' = stored \/ stored' = [stored EXCEPT ![v] = NoFile]
      /\ shadowed' \in {shadowed, [r \in Readers |-> FALSE]}
  BY DEF Delete, StartDelete, LookBeforeRemove, Remove, Forget, disk, reading, listing, v
<1>4. /\ sec \in [Vaults -> Link] /\ stored \in [Vaults -> Link] /\ pc \in [Calls -> Pc]
      /\ shadowed \in [Readers -> BOOLEAN]
  BY DEF RInv, TypeOK
<1>5. /\ sec' \in [Vaults -> Link] /\ stored' \in [Vaults -> Link] /\ pc' \in [Calls -> Pc]
      /\ shadowed' \in [Readers -> BOOLEAN]
      /\ \A u \in Vaults : sec'[u] \in {sec[u], NoFile}
  BY <1>1, <1>2, <1>3, <1>4 DEF Goto, Link
<1>6. TypeOK'
  BY <1>3, <1>5 DEF RInv, TypeOK
<1>7. FilesStayHome'
  <2>1. \A u \in Vaults : Linked(u)' \subseteq Linked(u)
    BY <1>3, <1>5 DEF Linked
  <2>2. \A i \in Inodes : Whole(Home(i), content[i])'
    <3> SUFFICES ASSUME NEW i \in Inodes PROVE Whole(Home(i), content[i])'
      OBVIOUS
    <3>1. Whole(Home(i), content[i])
      BY DEF RInv, FilesStayHome
    <3>2. \A j : Written(j) => (j \in Writers => pc'[j] \notin {"idle", "creating", "writing"})
      BY WrittenStays DEF RInv, Written
    <3> QED
      BY <1>3, <3>1, <3>2 DEF Whole, Written, Home
  <2> QED
    BY <1>3, <2>1, <2>2 DEF RInv, FilesStayHome, Home
<1> QED
  BY <1>2, <1>3, <1>6, <1>7 DEF listing

LEMMA NextKeepsRInv == RInv /\ [Next]_vars => RInv'
<1> SUFFICES ASSUME RInv, [Next]_vars PROVE RInv'
  OBVIOUS
<1>1. TypeOK /\ PlanIsLeft
  BY DEF RInv
<1>2. ASSUME UNCHANGED disk PROVE FilesStayHome'
  <2>1. UNCHANGED <<sec, tmp, bak, fd, content>>
    BY <1>2 DEF disk
  <2>2. \A i \in Inodes : Whole(Home(i), content[i])'
    <3> SUFFICES ASSUME NEW i \in Inodes PROVE Whole(Home(i), content[i])'
      OBVIOUS
    <3>1. Whole(Home(i), content[i])
      BY DEF RInv, FilesStayHome
    <3>2. \A j : Written(j) => (j \in Writers => pc'[j] \notin {"idle", "creating", "writing"})
      BY WrittenStays DEF RInv, Written
    <3> QED
      BY <2>1, <3>1, <3>2 DEF Whole, Written, Home
  <2> QED
    BY <2>1, <2>2 DEF RInv, FilesStayHome, Linked, Home
<1>3. ASSUME UNCHANGED <<got, rows>> PROVE ServedIsWritten'
  BY <1>3, ServesWhole
<1>4. ASSUME NEW o \in Calls, o \notin Listers, NEW to, Goto(o, to), UNCHANGED plan
      PROVE  PlanIsLeft'
  BY <1>1, <1>4 DEF PlanIsLeft, Goto, TypeOK, Calls
<1>5. ASSUME NEW w \in Writers, Write(w) \/ Crash(w) PROVE RInv'
  <2>1. w \in Calls /\ w \notin Listers
    BY StoreAssumption DEF Calls, Mutators
  <2>2. UNCHANGED <<plan, got, rows>> /\ \E to \in Pc : Goto(w, to)
    BY <1>5 DEF Write, Crash, StartWrite, CreateTmp, WriteTmp, CheckPrevious, RotatePrevious,
                Place, reading, listing, Pc, WriterPc
  <2> QED
    BY <1>3, <1>4, <1>5, <2>1, <2>2, WriterKeepsRInv DEF RInv
<1>6. ASSUME NEW d \in Deleters, Delete(d) PROVE RInv'
  <2>1. d \in Calls /\ d \notin Listers
    BY StoreAssumption DEF Calls, Mutators
  <2> QED
    BY <1>3, <1>4, <1>6, <2>1, DeleterKeepsRInv DEF RInv, listing
<1>7. ASSUME NEW r \in Readers, Resolve(r) PROVE RInv'
  <2>1. /\ TypeOK' /\ UNCHANGED <<disk, stored, listing>>
        /\ \A k \in Calls : k # r => pc'[k] = pc[k]
        /\ \A k \in Readers : got'[k] # got[k] =>
             got'[k] = "not found" \/ \E v \in Vaults : got'[k] = Opened(sec[v])
    BY <1>1, <1>7, ResolveKeepsTypes
  <2>2. r \notin Listers
    BY StoreAssumption
  <2>3. PlanIsLeft'
    BY <1>1, <2>1, <2>2 DEF PlanIsLeft, listing, Calls
  <2>4. Written("not found")
    BY StoreAssumption DEF Written, Inodes
  <2>5. \A k \in Readers : got'[k] # got[k] => Written(got'[k])
    BY <2>1, <2>4, OpenedIsWhole
  <2>6. ServedIsWritten'
    BY <2>1, <2>5, ServesWhole DEF listing
  <2> QED
    BY <1>2, <2>1, <2>3, <2>6 DEF RInv
<1>8. ASSUME NEW l \in Listers, Inventory(l) PROVE RInv'
  <2>1. /\ TypeOK' /\ PlanIsLeft' /\ UNCHANGED <<disk, got>>
        /\ \A k \in Listers : \A row \in rows'[k] \ rows[k] :
             row[1] \in Vaults /\ row[2] = Opened(sec[row[1]])
    BY <1>1, <1>8, InventoryKeepsTypes
  <2>2. \A k \in Listers : \A row \in rows'[k] \ rows[k] : Whole(row[1], row[2])
    BY <2>1, OpenedIsWhole
  <2>3. ServedIsWritten'
    BY <2>1, <2>2, ServesWhole
  <2> QED
    BY <1>2, <2>1, <2>3 DEF RInv
<1>9. ASSUME UNCHANGED vars PROVE RInv'
  <2>1. UNCHANGED <<pc, disk, got, shadowed, plan, named, rows, stored>>
    BY <1>9 DEF vars, reading, listing
  <2>2. TypeOK' /\ PlanIsLeft'
    BY <1>1, <2>1 DEF TypeOK, PlanIsLeft, disk
  <2> QED
    BY <1>2, <1>3, <2>1, <2>2 DEF RInv
<1>10. Finished => UNCHANGED vars
  BY DEF Finished
<1> QED
  BY <1>5, <1>6, <1>7, <1>8, <1>9, <1>10 DEF Next

\* With no discipline at all, whoever writes, deletes and is killed at the same time in
\* one vault: a resolution or an inventory never gives out a record before its
\* write_record has synced all of it, and an inventory lists none of another vault's.
\* What a race makes of a file (torn, empty or gone), read_record reports as an error.
THEOREM RacesServeWholeRecords == Spec => []ServedIsWritten
<1>1. RInv => ServedIsWritten
  BY DEF RInv
<1> QED
  BY <1>1, InitRInv, NextKeepsRInv, PTL DEF Spec
=============================================================================
