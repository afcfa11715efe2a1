---------------------------- MODULE Desktop_proofs ---------------------------
(***************************************************************************)
(* The modules about what kovra does on the desktop besides keeping        *)
(* secrets, one after the other: TOTP codes, the devices it erases, the    *)
(* life of the Web UI, the programs it runs, the audit log.  They share no *)
(* state.                                                                  *)
(***************************************************************************)
EXTENDS ExternalCommand, AuditLog, Totp, WebUi, Formatter, TLAPS,
        SequenceTheorems

-----------------------------------------------------------------------------
(* TOTP: how long a code printed by `kovra code` lives, for every period,   *)
(* floor and second of the day.                                             *)

\* With the code of the last reading in hand.
InHand == period # 0 /\ counter = CounterAt(reading)

\* What passed since the clock was read is late; until the end of the window it
\* is waited for on purpose.
LateCounts ==
  /\ stage \in {"deriving", "choosing"} => time <= reading + late
  /\ stage = "choosing" => InHand
  /\ stage \in {"sleeping", "rederiving"} =>
       /\ floor \in Nat /\ floor < period
       /\ time <= alarm \/ time <= WindowEnd + late
       /\ WindowEnd <= alarm /\ alarm <= WindowEnd + late
  /\ stage = "watching" => floor = NoFloor
  /\ stage = "rederiving" => WindowEnd <= reading /\ time <= WindowEnd + late

TotpInv == TotpTypeOK /\ LateCounts /\ LivesLongEnough
-----------------------------------------------------------------------------
\* A window ends where its seconds run out.
LEMMA WindowsEnd ==
  ASSUME NEW t \in Nat, NEW p \in Nat, p # 0
  PROVE  /\ t \div p \in Nat /\ t % p \in 0..(p - 1)
         /\ ((t \div p) + 1) * p = t + (p - (t % p))
         /\ ((t \div p) + 1) * p \in Nat /\ t < ((t \div p) + 1) * p
<1>1. t = p * (t \div p) + (t % p) /\ t % p \in 0..(p - 1) /\ t \div p \in Nat
  OBVIOUS
<1> QED
  BY <1>1

\* Later seconds are in later windows.
LEMMA LaterWindows ==
  ASSUME NEW c \in Nat, NEW p \in Nat, NEW t \in Nat, p # 0, (c + 1) * p <= t
  PROVE  (c + 1) * p + p <= ((t \div p) + 1) * p
<1>1. t < ((t \div p) + 1) * p
  BY WindowsEnd
<1>2. t \div p \in Nat
  BY WindowsEnd
<1>3. c + 1 < (t \div p) + 1
  <2> SUFFICES ASSUME (t \div p) + 1 <= c + 1 PROVE FALSE
    BY <1>2
  <2>1. ((t \div p) + 1) * p <= (c + 1) * p
    BY <1>2
  <2> QED
    BY <1>1, <1>2, <2>1
<1>4. (c + 2) * p <= ((t \div p) + 1) * p
  BY <1>2, <1>3
<1> QED
  BY <1>4
-----------------------------------------------------------------------------
LEMMA InitTotpInv == TotpInit => TotpInv
BY TotpAssumption DEF TotpInit, TotpInv, TotpTypeOK, Stages, LateCounts, LivesLongEnough

LEMMA NextTotpType == TotpTypeOK /\ [TotpNext]_totpVars => TotpTypeOK'
<1> SUFFICES ASSUME TotpTypeOK, [TotpNext]_totpVars PROVE TotpTypeOK'
  OBVIOUS
<1>1. period \in Nat /\ time \in Nat /\ reading \in Nat /\ counter \in Nat /\ late \in Nat
  BY TotpAssumption DEF TotpTypeOK
<1>2. period # 0 => \A t \in Nat : CounterAt(t) \in Nat /\ SecondsRemaining(t) \in 1..period
  BY <1>1, WindowsEnd DEF CounterAt, SecondsRemaining
<1>3. CASE UNCHANGED totpVars
  BY <1>3 DEF totpVars, totpInputs, TotpTypeOK
<1>4. CASE GateApproves \/ GateRefuses \/ ReadClock \/ DeriveFails
  BY <1>1, <1>4 DEF GateApproves, GateRefuses, ReadClock, DeriveFails, totpInputs, TotpTypeOK, Stages
<1>5. CASE Derive \/ RefuseFloor \/ PrintPlain \/ PrintCurrent
  BY <1>1, <1>2, <1>5
     DEF Derive, RefuseFloor, PrintPlain, PrintCurrent, Choosing, totpInputs, TotpTypeOK, Stages
<1>6. CASE SleepOut
  <2>1. alarm' \in Nat
    BY <1>1, <1>2, <1>6 DEF SleepOut, Choosing, TotpTypeOK
  <2> QED
    BY <1>1, <1>6, <2>1 DEF SleepOut, Choosing, totpInputs, TotpTypeOK, Stages
<1>7. CASE WakeUp \/ PrintNext
  BY <1>1, <1>2, <1>7 DEF WakeUp, PrintNext, totpInputs, TotpTypeOK, Stages
<1>8. CASE Watch \/ Refresh \/ PressKey
  BY <1>1, <1>2, <1>8 DEF Watch, Refresh, PressKey, totpInputs, TotpTypeOK, Stages
<1>9. CASE SecondPasses
  BY <1>1, <1>9, TotpAssumption DEF SecondPasses, totpInputs, TotpTypeOK
<1> QED
  BY <1>3, <1>4, <1>5, <1>6, <1>7, <1>8, <1>9 DEF TotpNext

LEMMA NextTotpInv == TotpInv /\ [TotpNext]_totpVars => TotpInv'
<1> SUFFICES ASSUME TotpInv, [TotpNext]_totpVars PROVE LateCounts' /\ LivesLongEnough'
  BY NextTotpType DEF TotpInv
<1> USE DEF TotpInv
<1>1. /\ {period, time, reading, counter, late, alarm} \subseteq Nat /\ reading <= time
      /\ Asked \in Nat
  BY TotpAssumption DEF TotpTypeOK, Asked
<1>2. ASSUME InHand
      PROVE  /\ WindowEnd = reading + SecondsRemaining(reading)
             /\ SecondsRemaining(reading) \in 1..period
  <2>1. /\ WindowEnd = ((reading \div period) + 1) * period
        /\ SecondsRemaining(reading) = period - (reading % period)
    BY <1>2 DEF InHand, WindowEnd, CounterAt, SecondsRemaining
  <2>2. period # 0 /\ reading \in Nat /\ period \in Nat
    BY <1>1, <1>2 DEF InHand
  <2>3. /\ ((reading \div period) + 1) * period = reading + (period - (reading % period))
        /\ reading % period \in 0..(period - 1)
    BY <2>2, WindowsEnd
  <2>4. SecondsRemaining(reading) \in 1..period
    BY <2>1, <2>2, <2>3
  <2> QED
    BY <2>1, <2>3, <2>4
<1>3. WindowEnd \in Nat
  BY <1>1 DEF WindowEnd
<1>4. UNCHANGED totpInputs => period' = period /\ floor' = floor /\ Asked' = Asked
  BY DEF totpInputs, Asked
<1>5. UNCHANGED <<totpInputs, counter>> => WindowEnd' = WindowEnd
  BY DEF totpInputs, WindowEnd
<1>6. CASE UNCHANGED totpVars
  BY <1>4, <1>5, <1>6 DEF totpVars, LateCounts, InHand, CounterAt, LivesLongEnough
<1>7. CASE GateApproves \/ GateRefuses \/ DeriveFails \/ RefuseFloor
  BY <1>7 DEF GateApproves, GateRefuses, DeriveFails, RefuseFloor, LateCounts, LivesLongEnough
<1>8. CASE ReadClock
  BY <1>1, <1>8 DEF ReadClock, LateCounts, LivesLongEnough
<1>9. CASE Derive
  BY <1>1, <1>9 DEF Derive, totpInputs, LateCounts, InHand, CounterAt, LivesLongEnough
<1>10. CASE PrintPlain
  BY <1>1, <1>2, <1>3, <1>4, <1>5, <1>10 DEF PrintPlain, LateCounts, LivesLongEnough, Asked
<1>11. CASE PrintCurrent
  <2>1. Asked = floor /\ SecondsRemaining(reading) > floor /\ time <= reading + late /\ InHand
    BY <1>11 DEF PrintCurrent, Choosing, ReturnsCurrent, LateCounts, Asked
  <2> QED
    BY <1>1, <1>2, <1>3, <1>4, <1>5, <1>11, <2>1 DEF PrintCurrent, LateCounts, LivesLongEnough
<1>12. CASE SleepOut
  <2>1. floor \in Nat /\ floor < period /\ time <= reading + late /\ InHand
    <3>1. floor \in Nat
      BY <1>12, TotpAssumption DEF SleepOut, Choosing, TotpTypeOK
    <3>2. ~(floor >= period)
      BY <1>12 DEF SleepOut, Choosing, Impossible
    <3>3. time <= reading + late /\ InHand
      BY <1>12 DEF SleepOut, Choosing, LateCounts
    <3> QED
      BY <1>1, <3>1, <3>2, <3>3
  <2> QED
    BY <1>1, <1>2, <1>3, <1>4, <1>5, <1>12, <2>1 DEF SleepOut, LateCounts, LivesLongEnough
<1>13. CASE WakeUp
  BY <1>1, <1>3, <1>4, <1>5, <1>13 DEF WakeUp, LateCounts, LivesLongEnough
<1>14. CASE PrintNext
  <2>1. /\ floor \in Nat /\ floor < period /\ Asked = floor
        /\ WindowEnd <= reading /\ time <= WindowEnd + late
    BY <1>14, TotpAssumption DEF PrintNext, LateCounts, Asked
  <2>2. WindowEnd' = ((reading \div period) + 1) * period
    BY <1>14 DEF PrintNext, totpInputs, WindowEnd, CounterAt
  <2>3. WindowEnd + period <= WindowEnd'
    BY <1>1, <2>1, <2>2, LaterWindows DEF WindowEnd
  <2>4. WindowEnd' \in Nat
    <3>1. period # 0 /\ period \in Nat /\ reading \in Nat
      BY <1>1, <2>1
    <3>2. ((reading \div period) + 1) * period \in Nat
      BY <3>1, WindowsEnd
    <3> QED
      BY <2>2, <3>2
  <2> QED
    BY <1>1, <1>3, <1>4, <1>14, <2>1, <2>3, <2>4 DEF PrintNext, LateCounts, LivesLongEnough
<1>15. CASE Watch
  BY <1>1, <1>2, <1>3, <1>4, <1>5, <1>15 DEF Watch, LateCounts, LivesLongEnough, Asked
<1>16. CASE Refresh
  <2>1. period # 0 /\ WindowEnd' = ((time \div period) + 1) * period
    BY <1>16 DEF Refresh, totpInputs, WindowEnd, CounterAt, TotpTypeOK
  <2>2. WindowEnd' \in Nat /\ WindowEnd' > time
    <3>1. period \in Nat /\ time \in Nat
      BY <1>1
    <3>2. /\ ((time \div period) + 1) * period \in Nat
          /\ time < ((time \div period) + 1) * period
      BY <2>1, <3>1, WindowsEnd
    <3> QED
      BY <2>1, <3>1, <3>2
  <2>3. floor' = NoFloor /\ Asked' = 0
    BY <1>4, <1>16 DEF Refresh, LateCounts, Asked
  <2> QED
    BY <1>1, <1>16, <2>2, <2>3 DEF Refresh, LateCounts, LivesLongEnough
<1>17. CASE PressKey
  BY <1>4, <1>5, <1>17 DEF PressKey, LateCounts, LivesLongEnough
<1>18. CASE SecondPasses
  <2>1. /\ time' = time + 1 /\ UNCHANGED <<totpInputs, stage, reading, counter, alarm>>
        /\ stage \notin {"printed", "failed"}
        /\ late' = IF WaitsOnPurpose THEN late ELSE late + 1
    BY <1>18 DEF SecondPasses
  <2>2. late' \in {late, late + 1} /\ (stage # "gate" /\ (stage # "sleeping" \/ time >= alarm) => late' = late + 1)
    BY <1>1, <2>1 DEF WaitsOnPurpose
  <2> QED
    <3>1. /\ stage \in {"deriving", "choosing"} => time' <= reading' + late'
          /\ stage = "choosing" => InHand'
      BY <1>1, <1>4, <2>1, <2>2 DEF LateCounts, InHand, CounterAt
    <3>2. stage \in {"sleeping", "rederiving"} =>
            /\ floor' \in Nat /\ floor' < period'
            /\ time' <= alarm' \/ time' <= WindowEnd' + late'
            /\ WindowEnd' <= alarm' /\ alarm' <= WindowEnd' + late'
      BY <1>1, <1>3, <1>4, <1>5, <2>1, <2>2 DEF LateCounts
    <3>3. stage = "rederiving" => WindowEnd' <= reading' /\ time' <= WindowEnd' + late'
      BY <1>1, <1>3, <1>5, <2>1, <2>2 DEF LateCounts
    <3>4. stage = "watching" => floor' = NoFloor
      BY <1>4, <2>1 DEF LateCounts
    <3>5. LivesLongEnough'
      BY <1>1, <1>3, <1>4, <1>5, <2>1, <2>2 DEF LivesLongEnough
    <3>6. stage' = stage
      BY <2>1
    <3>7. LateCounts'
      BY <3>1, <3>2, <3>3, <3>4, <3>6 DEF LateCounts
    <3> QED
      BY <3>5, <3>7
<1> QED
  BY <1>6, <1>7, <1>8, <1>9, <1>10, <1>11, <1>12, <1>13, <1>14, <1>15, <1>16, <1>17, <1>18
     DEF TotpNext
-----------------------------------------------------------------------------
\* A code lives for more than the seconds that were asked for, less what the
\* machine was late: code() with --min-validity, and each picture of countdown_view.
THEOREM CodesLiveLongEnough == TotpSpec => []LivesLongEnough
<1>1. TotpInv => LivesLongEnough
  BY DEF TotpInv
<1> QED
  BY <1>1, InitTotpInv, NextTotpInv, PTL DEF TotpSpec
-----------------------------------------------------------------------------
(* Devices: what the rail and the second probe of `kovra exchange init` are *)
(* good for, whatever disks there are and however often they change places. *)

\* The machine's own disks are in.
FixedAreIn == \A d \in Disks : Fixed(d) => \E n \in Nodes : plugged[n] = d

Shown == act \in {"asking", "approved", "erased", "copied", "done"}

\* From the probe on, the headline is of a disk that the rail lets through.  That
\* disk is at the node until hands are; and a disk that nobody can put there, if
\* it is there, was there when the node was probed.
HeadlineIsTrue ==
  /\ act = "probing" => node \in Nodes
  /\ Shown =>
       /\ Eraseable(info)
       /\ node \in Nodes
       /\ ~touched => plugged[node] = info.disk
       /\ plugged[node] # NoDisk /\ Fixed(plugged[node]) => plugged[node] = info.disk

\* The same of the disk that was at the node when it was erased.
ErasedWasThere ==
  erased # NoDisk =>
    /\ act \in {"erased", "copied", "done", "failed"}
    /\ node \in Nodes
    /\ Eraseable(info)
    /\ Fixed(erased) => erased = info.disk
    /\ ~touched => erased = info.disk /\ plugged[node] = erased

\* A disk that is alone with its name holds the mount point.
KitIsThere ==
  /\ act \in {"erased", "copied", "done"} => erased # NoDisk
  /\ erased = NoDisk => \A f \in Files : kit[f] = NoDisk
  /\ erased # NoDisk /\ ~touched /\ labelled \subseteq {erased} =>
       /\ mounted = erased
       /\ \A f \in Files : kit[f] \in {erased, NoDisk}

FormatterInv ==
  /\ FormatterTypeOK
  /\ FixedAreIn
  /\ HeadlineIsTrue
  /\ ErasedWasThere
  /\ KitIsThere
-----------------------------------------------------------------------------
LEMMA InitFormatterInv == FormatterInit => FormatterInv
<1> SUFFICES ASSUME FormatterInit PROVE FormatterInv
  OBVIOUS
<1>1. FormatterTypeOK
  <2>1. mounted \in labelled \union {NoDisk} /\ labelled \subseteq Disks
    BY DEF FormatterInit
  <2>2. moves \in 0..MaxMoves
    BY FormatterAssumption DEF FormatterInit
  <2>3. kit \in [Files -> Disks \union {NoDisk}]
    BY DEF FormatterInit
  <2>4. touched \in BOOLEAN
    BY DEF FormatterInit
  <2> QED
    BY <2>1, <2>2, <2>3, <2>4 DEF FormatterInit, FormatterTypeOK
<1>2. FixedAreIn
  BY DEF FormatterInit, FixedAreIn
<1>3. HeadlineIsTrue /\ ErasedWasThere /\ KitIsThere
  BY DEF FormatterInit, HeadlineIsTrue, Shown, ErasedWasThere, KitIsThere
<1> QED
  BY <1>1, <1>2, <1>3 DEF FormatterInv

\* Hands: what is soldered in or in use neither leaves nor comes.
LEMMA TakeOutFormatterInv ==
  ASSUME FormatterInv, NEW n \in Nodes, TakeOut(n)
  PROVE  FormatterInv'
<1> USE DEF FormatterInv, TakeOut, Moves
<1>1. FormatterTypeOK'
  <2>1. moves' \in 0..MaxMoves /\ mounted' \in labelled' \union {NoDisk}
    BY FormatterAssumption DEF FormatterTypeOK
  <2>2. touched' \in BOOLEAN
    OBVIOUS
  <2>3. system' \in {plugged'[m] : m \in Nodes} \ {NoDisk}
    BY FormatterAssumption DEF FormatterTypeOK, Fixed
  <2> QED
    BY <2>1, <2>2, <2>3 DEF FormatterTypeOK
<1>2. FixedAreIn'
  BY FormatterAssumption DEF FormatterTypeOK, FixedAreIn, Fixed
<1>3. HeadlineIsTrue'
  BY FormatterAssumption DEF FormatterTypeOK, HeadlineIsTrue, Shown, Fixed, Eraseable
<1>4. ErasedWasThere'
  BY FormatterAssumption DEF FormatterTypeOK, ErasedWasThere, Fixed, Eraseable
<1>5. KitIsThere'
  BY FormatterAssumption DEF FormatterTypeOK, KitIsThere, ErasedWasThere
<1> QED
  BY <1>1, <1>2, <1>3, <1>4, <1>5

LEMMA PutInFormatterInv ==
  ASSUME FormatterInv, NEW n \in Nodes, NEW d \in Disks, PutIn(n, d)
  PROVE  FormatterInv'
<1> USE DEF FormatterInv, PutIn, Moves
<1>1. FormatterTypeOK'
  BY FormatterAssumption DEF FormatterTypeOK
<1>2. ~Fixed(d)
  BY DEF FixedAreIn
<1>3. FixedAreIn'
  BY <1>2, FormatterAssumption DEF FormatterTypeOK, FixedAreIn, Fixed
<1>4. HeadlineIsTrue'
  BY <1>2, FormatterAssumption DEF FormatterTypeOK, HeadlineIsTrue, Shown, Fixed, Eraseable
<1>5. ErasedWasThere'
  BY FormatterAssumption DEF FormatterTypeOK, ErasedWasThere, Fixed, Eraseable
<1>6. KitIsThere'
  BY FormatterAssumption DEF FormatterTypeOK, KitIsThere, ErasedWasThere
<1> QED
  BY <1>1, <1>3, <1>4, <1>5, <1>6

\* Up to the probe nothing was shown and nothing erased; a command that ends
\* early leaves everything.
LEMMA PickingFormatterInv ==
  ASSUME FormatterInv,
         \/ \E n \in Nodes : GiveDevice(n) \/ ScanDevice(n) \/ SkipDevice(n)
         \/ \E device \in offered : PickDevice(device)
         \/ ListDevices \/ PickNone \/ RefuseDevice \/ DeclineWipe \/ BootstrapFails
  PROVE  FormatterInv'
<1> USE DEF FormatterInv, Calls
<1>1. CASE \E n \in Nodes : GiveDevice(n)
  <2>1. act = "idle" /\ act' = "probing" /\ node' \in Nodes
        /\ UNCHANGED <<plugged, system, mounted, labelled, moves, unscanned, offered, info, touched, erased, kit>>
    BY <1>1 DEF GiveDevice
  <2> QED
    BY <2>1 DEF FormatterTypeOK, FixedAreIn, Fixed, HeadlineIsTrue, Shown, ErasedWasThere, KitIsThere
<1>2. CASE \E n \in Nodes : ScanDevice(n) \/ SkipDevice(n)
  <2>1. PICK n \in Nodes : \E infos \in SUBSET Infos : Scanned(n, infos)
    <3>1. \A n \in Nodes : \A i \in Probe(n) : {i} \in SUBSET Infos
      BY DEF Probe
    <3> QED
      BY <1>2, <3>1 DEF ScanDevice, SkipDevice
  <2>2. /\ act = "listing" /\ act' \in {"listing", "picking", "failed"}
        /\ unscanned' \subseteq Nodes
        /\ UNCHANGED <<plugged, system, mounted, labelled, moves, node, info, touched, erased, kit>>
    BY <2>1 DEF Scanned, FormatterTypeOK
  <2>3. offered' \subseteq [node : Nodes, info : Infos]
    BY <2>1 DEF Scanned, FormatterTypeOK
  <2> QED
    BY <2>2, <2>3 DEF FormatterTypeOK, FixedAreIn, Fixed, HeadlineIsTrue, Shown, ErasedWasThere, KitIsThere
<1>3. CASE \E device \in offered : PickDevice(device)
  <2>1. act = "picking" /\ act' = "probing" /\ node' \in Nodes
        /\ UNCHANGED <<plugged, system, mounted, labelled, moves, unscanned, offered, info, touched, erased, kit>>
    BY <1>3 DEF PickDevice, FormatterTypeOK
  <2> QED
    BY <2>1 DEF FormatterTypeOK, FixedAreIn, Fixed, HeadlineIsTrue, Shown, ErasedWasThere, KitIsThere
<1>4. CASE ListDevices
  BY <1>4 DEF ListDevices, FormatterTypeOK, FixedAreIn, Fixed, HeadlineIsTrue, Shown,
              ErasedWasThere, KitIsThere
<1>5. CASE PickNone \/ RefuseDevice \/ DeclineWipe \/ BootstrapFails
  <2>1. act' = "failed"
        /\ UNCHANGED <<plugged, system, mounted, labelled, moves, unscanned, offered, node, info, touched, erased, kit>>
    BY <1>5 DEF PickNone, RefuseDevice, DeclineWipe, BootstrapFails, Stops
  <2> QED
    BY <2>1 DEF FormatterTypeOK, FixedAreIn, Fixed, HeadlineIsTrue, Shown, Eraseable,
                ErasedWasThere, KitIsThere
<1> QED
  BY <1>1, <1>2, <1>3, <1>4, <1>5

LEMMA ProbeFormatterInv == ASSUME FormatterInv, ProbeDevice PROVE FormatterInv'
<1> USE DEF FormatterInv, ProbeDevice, Calls
<1>1. info' \in Infos /\ Eraseable(info)' /\ info'.disk = plugged[node]
  BY DEF Probe, Eraseable
<1>2. node \in Nodes
  BY DEF HeadlineIsTrue
<1>3. erased = NoDisk
  BY DEF ErasedWasThere
<1> QED
  BY <1>1, <1>2, <1>3 DEF FormatterTypeOK, FixedAreIn, Fixed, HeadlineIsTrue, Shown,
                          ErasedWasThere, KitIsThere

LEMMA ApproveFormatterInv == ASSUME FormatterInv, ApproveWipe PROVE FormatterInv'
BY DEF FormatterInv, ApproveWipe, Calls, FormatterTypeOK, FixedAreIn, Fixed, HeadlineIsTrue, Shown,
       Eraseable, ErasedWasThere, KitIsThere

LEMMA EraseFormatterInv == ASSUME FormatterInv, EraseDevice \/ EraseFails PROVE FormatterInv'
<1> USE DEF FormatterInv
<1>1. /\ act = "approved" /\ act' \in {"erased", "failed"}
      /\ UNCHANGED <<plugged, system, moves, unscanned, offered, node, info, touched, kit>>
  BY DEF EraseDevice, EraseFails
<1>2. erased = NoDisk /\ node \in Nodes
  BY <1>1 DEF ErasedWasThere, HeadlineIsTrue, Shown
<1>3. CASE Erases
  <2>1. erased' \in Disks /\ erased' = plugged[node] /\ erased' # NoDisk
    BY <1>2, <1>3 DEF Erases, FormatterTypeOK
  <2>2. FormatterTypeOK' /\ FixedAreIn'
    BY <1>1, <1>3, <2>1 DEF Erases, FormatterTypeOK, FixedAreIn, Fixed
  <2>3. HeadlineIsTrue' /\ ErasedWasThere'
    BY <1>1, <1>2, <2>1 DEF HeadlineIsTrue, Shown, ErasedWasThere, Fixed, Eraseable
  <2>4. mounted' \in {mounted, erased'}
        /\ (mounted = NoDisk => mounted' = erased')
        /\ labelled' = labelled \union {erased'}
    BY <1>3, <2>1 DEF Erases
  <2>5. labelled' \subseteq {erased'} => mounted' = erased'
    BY <2>4 DEF FormatterTypeOK
  <2>6. KitIsThere'
    BY <1>1, <1>2, <2>1, <2>5 DEF KitIsThere
  <2> QED
    BY <2>2, <2>3, <2>6
<1>4. CASE ~Erases
  <2>1. act' = "failed" /\ UNCHANGED <<erased, labelled, mounted>>
    BY <1>4 DEF EraseDevice, EraseFails
  <2> QED
    BY <1>1, <1>2, <2>1 DEF FormatterTypeOK, FixedAreIn, Fixed, HeadlineIsTrue, Shown,
                            ErasedWasThere, KitIsThere
<1> QED
  BY <1>3, <1>4

LEMMA WriteFormatterInv == ASSUME FormatterInv, CopyBinary \/ WriteScript PROVE FormatterInv'
<1> USE DEF FormatterInv
<1>1. PICK file \in Files : Writes("erased", file, "copied") \/ Writes("copied", file, "done")
  BY DEF CopyBinary, WriteScript, Files
<1>2. /\ act \in {"erased", "copied"} /\ act' \in {"copied", "done"}
      /\ kit' = [kit EXCEPT ![file] = IF mounted = NoDisk THEN system ELSE mounted]
      /\ UNCHANGED <<plugged, system, mounted, labelled, moves, unscanned, offered, node,
                     info, touched, erased>>
  BY <1>1 DEF Writes, Calls
<1>3. FormatterTypeOK' /\ FixedAreIn'
  BY <1>2 DEF FormatterTypeOK, FixedAreIn, Fixed
<1>4. HeadlineIsTrue' /\ ErasedWasThere'
  BY <1>2 DEF HeadlineIsTrue, Shown, ErasedWasThere, Fixed, Eraseable
<1>5. KitIsThere'
  BY <1>2 DEF KitIsThere, FormatterTypeOK
<1> QED
  BY <1>3, <1>4, <1>5

LEMMA NextFormatterInv == FormatterInv /\ [FormatterNext]_formatterVars => FormatterInv'
<1> SUFFICES ASSUME FormatterInv, [FormatterNext]_formatterVars PROVE FormatterInv'
  OBVIOUS
<1>1. CASE UNCHANGED formatterVars
  BY <1>1 DEF formatterVars, FormatterInv, FormatterTypeOK, FixedAreIn, Fixed, HeadlineIsTrue, Shown,
              Eraseable, ErasedWasThere, KitIsThere
<1>2. CASE FormatterNext
  BY <1>2, TakeOutFormatterInv, PutInFormatterInv, PickingFormatterInv, ProbeFormatterInv,
     ApproveFormatterInv, EraseFormatterInv, WriteFormatterInv DEF FormatterNext
<1> QED
  BY <1>1, <1>2

LEMMA SpecFormatterInv == FormatterSpec => []FormatterInv
BY InitFormatterInv, NextFormatterInv, PTL DEF FormatterSpec
-----------------------------------------------------------------------------
\* No soldered disk is ever erased, and the disk the machine runs from only when
\* diskutil did not recognize it: exchange_init, for all disks and nodes.
THEOREM SystemDiskIsSpared == FormatterSpec => []SystemIsSpared
<1>1. FormatterInv => SystemIsSpared
  <2> SUFFICES ASSUME FormatterInv, erased # NoDisk
               PROVE  /\ erased \in Internal => erased \in Loose
                      /\ erased = system => info = [disk |-> system, boot |-> FALSE]
    BY DEF SystemIsSpared
  <2>1. erased \in Disks /\ Eraseable(info) /\ (Fixed(erased) => erased = info.disk)
    BY DEF FormatterInv, FormatterTypeOK, ErasedWasThere
  <2>2. erased \in Internal => erased \in Loose
    BY <2>1 DEF Fixed, Eraseable
  <2>3. ASSUME erased = system
        PROVE  info = [disk |-> system, boot |-> FALSE]
    BY <2>1, <2>3 DEF Fixed, Eraseable, FormatterInv, FormatterTypeOK, Infos, NoInfo
  <2> QED
    BY <2>2, <2>3
<1> QED
  BY <1>1, SpecFormatterInv, PTL

\* The erased disk is the one of the headline, and carries the kit: exchange_init
\* and write_bootstrap, unless hands were at the node or the name was taken.
THEOREM ShownDeviceIsTheOne == FormatterSpec => []ShownDeviceIsUsed
<1>1. FormatterInv => ShownDeviceIsUsed
  BY DEF FormatterInv, ErasedWasThere, KitIsThere, ShownDeviceIsUsed
<1> QED
  BY <1>1, SpecFormatterInv, PTL
-----------------------------------------------------------------------------
(* The Web UI: what the launch, the container and the watchdog may do to    *)
(* requests and to the staged key.                                          *)

\* Where the command is says whether it runs a container.
CliMatchesLaunch ==
  /\ cli \in {"launching", "serving"} => ~launch.docker
  /\ cli \in {"checking", "staging", "running", "waiting", "stopping", "cleaning"} =>
       launch.docker

\* The native server dies with the command.
KilledIsGone == ~launch.docker /\ cli = "killed" => server \in {"down", "gone"}

\* A whole key is in the hands of a command that has the guard.
KeyIsGuarded ==
  staged = "key" => launch.docker /\ cli \in {"running", "waiting", "stopping", "cleaning", "killed"}

\* Past the question the launch is approved, or nobody had to.
PastTheQuestion == cli \notin {"asking", "ended", "killed"} => approved \/ launch.noConfirm

UiInv ==
  /\ UiTypeOK
  /\ CliMatchesLaunch
  /\ KilledIsGone
  /\ KeyIsGuarded
  /\ PastTheQuestion
  /\ AcceptedIsAnswered
  /\ StagedKeyIsAttended

LEMMA InitUiInv == UiInit => UiInv
<1> SUFFICES ASSUME UiInit PROVE UiInv
  OBVIOUS
<1>1. launch.idle \in Nat /\ Nap \in Nat
  BY WebUiAssumption DEF UiInit
<1>2. quiet \in 0..launch.idle /\ napped \in 0..Nap
  BY <1>1 DEF UiInit
<1>3. UiTypeOK
  BY <1>2 DEF UiInit, UiTypeOK
<1>4. QED
  BY <1>3
  DEF UiInit, UiInv, CliMatchesLaunch, KilledIsGone, KeyIsGuarded, PastTheQuestion,
      AcceptedIsAnswered, StagedKeyIsAttended

LEMMA LaunchUiInv == ASSUME UiInv, LaunchSteps \/ ServerStarts PROVE UiInv'
<1>1. UNCHANGED <<launch, quiet, napped, requests>>
  BY DEF LaunchSteps, ApproveLaunch, RefuseLaunch, Bind, BindFails, Check, CheckFails, Stage,
         StageFails, DockerRun, DockerRunFails, ServerStarts, CliGoes, atServer
<1>2. CASE \/ ApproveLaunch \/ RefuseLaunch \/ Bind \/ BindFails \/ Check \/ CheckFails
  BY <1>1, <1>2
  DEF ApproveLaunch, RefuseLaunch, Bind, BindFails, Check, CheckFails, CliGoes, UiInv,
      UiTypeOK, CliMatchesLaunch, KilledIsGone, KeyIsGuarded, PastTheQuestion,
      AcceptedIsAnswered, StagedKeyIsAttended
<1>3. CASE \/ Stage \/ StageFails \/ DockerRun \/ DockerRunFails \/ ServerStarts
  BY <1>1, <1>3
  DEF Stage, StageFails, DockerRun, DockerRunFails, Removed, ServerStarts, CliGoes, UiInv,
      UiTypeOK, CliMatchesLaunch, KilledIsGone, KeyIsGuarded, PastTheQuestion,
      AcceptedIsAnswered, StagedKeyIsAttended
<1>4. QED
  BY <1>2, <1>3 DEF LaunchSteps

\* No request of its own accord becomes "dropped".
LEMMA RequestUiInv == ASSUME UiInv, RequestSteps PROVE UiInv'
<1>1. PICK b \in Browsers :
        \/ Arrive(b) \/ Answering(b) \/ BodyArrives(b)
        \/ ConfirmationEnds(b) \/ GoAway(b) \/ AbandonedEnds(b)
  BY DEF RequestSteps
<1>2. /\ UNCHANGED <<launch, cli, approved, staged, server, napped>>
      /\ quiet' \in {0, quiet}
      /\ \E to \in InFlight \union {"none", "answered", "abandoned"} :
           requests' = [requests EXCEPT ![b] = to]
  BY <1>1
  DEF Arrive, Answering, RefuseForeign, Touch, Reply, AskPerson, BodyArrives, ConfirmationEnds,
      GoAway, AbandonedEnds, Becomes, InFlight
<1>3. \A c \in Browsers : requests'[c] = "dropped" => requests[c] = "dropped"
  BY <1>2 DEF UiInv, UiTypeOK, InFlight
<1>4. UiTypeOK'
  <2>1. requests' \in [Browsers -> InFlight \union {"none", "answered", "abandoned", "dropped"}]
    BY <1>2 DEF UiInv, UiTypeOK
  <2>2. launch.idle \in Nat /\ quiet \in 0..launch.idle
    BY WebUiAssumption DEF UiInv, UiTypeOK
  <2>3. quiet' \in 0..launch.idle
    BY <1>2, <2>2
  <2>4. QED
    BY <1>2, <2>1, <2>3 DEF UiInv, UiTypeOK
<1>5. QED
  BY <1>2, <1>3, <1>4
  DEF UiInv, CliMatchesLaunch, KilledIsGone, KeyIsGuarded, PastTheQuestion,
      AcceptedIsAnswered, StagedKeyIsAttended

LEMMA EndUiInv == ASSUME UiInv, EndSteps PROVE UiInv'
<1>1. launch.idle \in Nat /\ Nap \in Nat
  BY WebUiAssumption DEF UiInv, UiTypeOK
<1>2. CASE UiSecond
  <2>1. UNCHANGED <<launch, cli, approved, staged, server, requests>>
    BY <1>2 DEF UiSecond
  <2>2. quiet' \in 0..launch.idle
    BY <1>1, <1>2 DEF UiSecond, UiInv, UiTypeOK
  <2>3. napped' \in 0..Nap
    BY <1>1, <1>2 DEF UiSecond, NapLength, UiInv, UiTypeOK
  <2>4. QED
    BY <2>1, <2>2, <2>3
    DEF UiInv, UiTypeOK, CliMatchesLaunch, KilledIsGone, KeyIsGuarded, PastTheQuestion,
        AcceptedIsAnswered, StagedKeyIsAttended
<1>3. CASE Watchdog \/ Interrupt \/ AllServed
  <2>1. /\ UNCHANGED <<launch, cli, approved, staged, requests, quiet>>
        /\ napped' \in {0, napped} /\ server' \in {server, "draining", "closing"}
        /\ server' # server => server \in {"up", "draining"}
    BY <1>3 DEF Watchdog, NapAgain, ShutDownIdle, Interrupt, AllServed, atServer
  <2>2. napped' \in 0..Nap
    BY <2>1, WebUiAssumption DEF UiInv, UiTypeOK
  <2>3. QED
    BY <2>1, <2>2
    DEF UiInv, UiTypeOK, CliMatchesLaunch, KilledIsGone, KeyIsGuarded, PastTheQuestion,
        AcceptedIsAnswered, StagedKeyIsAttended
<1>4. CASE CloseServer \/ PressEnter \/ DropGuard
  BY <1>4
  DEF CloseServer, PressEnter, DropGuard, Removed, CliGoes, atServer, UiInv,
      UiTypeOK, CliMatchesLaunch, KilledIsGone, KeyIsGuarded, PastTheQuestion,
      AcceptedIsAnswered, StagedKeyIsAttended
<1>5. CASE StopContainer \/ KillCli
  <2>1. Dropped \in [Browsers -> InFlight \union {"none", "answered", "abandoned", "dropped"}]
    BY DEF Dropped
  <2>2. QED
    BY <1>5, <2>1
    DEF StopContainer, KillCli, CliGoes, UiInv,
        UiTypeOK, CliMatchesLaunch, KilledIsGone, KeyIsGuarded, PastTheQuestion,
        AcceptedIsAnswered, StagedKeyIsAttended
<1>6. QED
  BY <1>2, <1>3, <1>4, <1>5 DEF EndSteps

LEMMA SpecUiInv == UiSpec => []UiInv
<1>1. UiInv /\ [UiNext]_uiVars => UiInv'
  <2> SUFFICES ASSUME UiInv, [UiNext]_uiVars PROVE UiInv'
    OBVIOUS
  <2>1. CASE UNCHANGED uiVars
    BY <2>1
    DEF uiVars, UiInv, UiTypeOK, CliMatchesLaunch, KilledIsGone, KeyIsGuarded, PastTheQuestion,
        AcceptedIsAnswered, StagedKeyIsAttended
  <2>2. QED
    BY <2>1, LaunchUiInv, RequestUiInv, EndUiInv DEF UiNext
<1>2. QED
  BY <1>1, InitUiInv, PTL DEF UiSpec

\* However the watchdog, Ctrl-C, Enter and the requests interleave, a request
\* that the server read is only dropped by a kill: with_graceful_shutdown waits
\* for those that wait for a person too.
THEOREM ServerAnswersWhatItAccepts == UiSpec => []AcceptedIsAnswered
<1>1. UiInv => AcceptedIsAnswered
  BY DEF UiInv
<1>2. QED
  BY <1>1, SpecUiInv, PTL

\* No key is staged and no server started before the launch is approved, and
\* every path on which the command itself ends passes the guard, which takes the
\* key away when it can.
THEOREM KeysAreStagedAttended == UiSpec => []StagedKeyIsAttended
<1>1. UiInv => StagedKeyIsAttended
  BY DEF UiInv
<1>2. QED
  BY <1>1, SpecUiInv, PTL
-----------------------------------------------------------------------------
(* External programs: what kovra hands on of one, and that none is left      *)
(* running.                                                                 *)

Texts ==
  {<<>>, Json, <<"missing">>, <<"several">>} \union Values
    \union {value \o lineEnd : value \in Values, lineEnd \in LineEnds}
    \union {failure.err : failure \in Failures}

AnyRun ==
  [ends : {"ok", "failed", "hangs"}, out : Texts, err : Texts, fault : Faults,
   held : Texts, account : SUBSET Items, stays : BOOLEAN]

JobType ==
  job \in [kind : {"none", "azure", "aws", "import", "restore", "store", "copy"},
           call : {"none", "show", "read", "get", "byid", "list", "vaults", "create", "clip"},
           vault : BOOLEAN, pick : Items \union {"none"}, tool : Nat]

ChildType ==
  child \in [state : {"none", "running", "exited", "reaped"}, run : AnyRun, read : Nat]

\* A reference is only ever shown.
ReferencesAreShown ==
  /\ at = "idle" => job = NoJob
  /\ job.kind \in {"azure", "aws"} => job.call = "show"

\* What a run has to do with what the service holds.
Honest(run) ==
  IF run.ends = "failed"
  THEN job.call = "show" =>
         \E failure \in Failures : run.fault = failure.fault /\ run.err = failure.err
  ELSE /\ job.call \in {"show", "read"} =>
            run.held \in Values /\ \E lineEnd \in LineEnds : run.out = run.held \o lineEnd
       /\ job.call = "get" => \E item \in Items : run.account \intersect Namesakes = {item}
       /\ job.call = "byid" => job.pick \in run.account

\* The program ended by itself, after all it had to do.
Finished ==
  /\ child.run.ends # "hangs"
  /\ \A s \in Streams : wrote[s] = Len(child.run[s])
  /\ child.run.ends = "failed" \/ ~Fed \/ child.read = Text

InCall == at \in {"waiting", "feeding", "collecting", "draining", "returned"}

CallsAreHonest ==
  /\ InCall => Honest(child.run)
  /\ InCall /\ child.state = "exited" => Finished
  /\ at \in {"draining", "returned"} => child.state = "reaped" /\ Finished
  /\ at = "returned" => job.call = "clip" \/ \A s \in Streams : taken[s] = wrote[s]

\* NobodyRunsOn, also between two programs and once the exit was seen.
NobodyIsLeft ==
  /\ at \in {"idle", "spawning", "draining", "returned", "choosing"} => ~Running
  /\ at = "done" /\ Running => Fed /\ fed < Text /\ told = Fault("broken")

FeedingIsFed == at = "feeding" => Fed

ToldAtTheEnd == at # "done" => told = Nothing

ExternalInv ==
  /\ JobType
  /\ ChildType
  /\ ReferencesAreShown
  /\ CallsAreHonest
  /\ NobodyIsLeft
  /\ FeedingIsFed
  /\ ToldAtTheEnd
  /\ ToldIsTrue

\* The texts are sequences, each the whole of itself.
LEMMA TextsAreSequences ==
  ASSUME NEW text \in Texts
  PROVE  Len(text) \in Nat /\ SubSeq(text, 1, Len(text)) = text
<1>1. \E Units : text \in Seq(Units)
  <2>1. CASE text \in {<<>>, Json, <<"missing">>, <<"several">>}
    <3>1. \A unit : <<unit>> \in Seq({unit})
      OBVIOUS
    <3>2. <<>> \in Seq({})
      OBVIOUS
    <3>3. QED
      BY <2>1, <3>1, <3>2 DEF Json
  <2>2. CASE text \in Values
    BY <2>2, ExternalCommandAssumption
  <2>3. CASE \E value \in Values, lineEnd \in LineEnds : text = value \o lineEnd
    <3>1. PICK value \in Values, lineEnd \in LineEnds : text = value \o lineEnd
      BY <2>3
    <3>2. PICK Units : value \in Seq(Units)
      BY ExternalCommandAssumption
    <3>3. value \in Seq(Units \union {Newline, Return})
      BY <3>2
    <3>4. text \in Seq(Units \union {Newline, Return})
      <4> DEFINE All == Units \union {Newline, Return}
      <4>1. Newline \in All /\ Return \in All /\ value \in Seq(All)
        BY <3>3
      <4> HIDE DEF All
      <4>2. \A a, b \in All : <<a>> \in Seq(All) /\ <<a, b>> \in Seq(All)
        OBVIOUS
      <4>3. lineEnd \in Seq(All)
        BY <4>1, <4>2 DEF LineEnds
      <4> QED
        BY <3>1, <4>1, <4>3 DEF All
    <3>5. QED
      BY <3>4
  <2>4. CASE \E failure \in Failures : text = failure.err
    BY <2>4, ExternalCommandAssumption
  <2>5. QED
    BY <2>1, <2>2, <2>3, <2>4 DEF Texts
<1>2. QED
  BY <1>1, SubSeqFull

\* One line end is printed after a secret, and one is trimmed: the value is what
\* is left, but for the `\r` of a value that was printed with a bare `\n`.
LEMMA TrimmedIsTheValue ==
  ASSUME NEW value \in Values, NEW lineEnd \in LineEnds
  PROVE  /\ Len(value) \in Nat /\ (Len(value) = 0 <=> value = <<>>)
         /\ EndsWith(value, Return) => Len(Chomp(value)) = Len(value) - 1
         /\ Trimmed(value \o lineEnd) =
              IF EndsWith(value, Return) /\ value \o lineEnd = Append(value, Newline)
              THEN Chomp(value) ELSE value
<1>1. PICK Units : value \in Seq(Units)
  BY ExternalCommandAssumption
<1> DEFINE All == Units \union {Newline, Return}
<1>2. value \in Seq(All) /\ Newline \in All /\ Return \in All
  BY <1>1
<1> HIDE DEF All
<1>3. /\ Len(value) \in Nat /\ (Len(value) = 0 <=> value = <<>>)
      /\ EndsWith(value, Return) => Len(Chomp(value)) = Len(value) - 1
  <2>1. Len(value) \in Nat /\ (Len(value) = 0 <=> value = <<>>)
    BY <1>2, EmptySeq
  <2>2. EndsWith(value, Return) => Len(Chomp(value)) = Len(value) - 1
    <3> SUFFICES ASSUME EndsWith(value, Return) PROVE Len(Chomp(value)) = Len(value) - 1
      OBVIOUS
    <3>1. Len(value) \in Nat \ {0}
      BY <1>2, EmptySeq DEF EndsWith
    <3>2. \A i \in 1..(Len(value) - 1) : value[i] \in All
      BY <1>2, <3>1, LenProperties
    <3>3. Len(SubSeq(value, 1, Len(value) - 1)) =
            IF 1 <= Len(value) - 1 THEN Len(value) - 1 - 1 + 1 ELSE 0
      BY <3>1, <3>2, SubSeqProperties
    <3>4. Chomp(value) = SubSeq(value, 1, Len(value) - 1)
      BY DEF Chomp
    <3>5. Len(Chomp(value)) = IF 1 <= Len(value) - 1 THEN Len(value) - 1 - 1 + 1 ELSE 0
      BY <3>3, <3>4
    <3> QED
      BY <3>1, <3>5
  <2> QED
    BY <2>1, <2>2
<1>4. CASE lineEnd = <<Newline>>
  <2> DEFINE text == value \o lineEnd
  <2>1. text = Append(value, Newline) /\ EndsWith(text, Newline) /\ Chomp(text) = value
    BY <1>2, <1>4 DEF EndsWith, Chomp
  <2>2. Trimmed(text) = Without(value, Return)
    BY <2>1 DEF Trimmed
  <2> QED
    BY <1>3, <2>1, <2>2 DEF Without
<1>5. CASE lineEnd = <<Return, Newline>>
  <2> DEFINE text == value \o lineEnd
             more == Append(value, Return)
  <2>1. /\ more \in Seq(All) /\ text = Append(more, Newline)
        /\ Len(text) = Len(value) + 2 /\ Len(Append(value, Newline)) = Len(value) + 1
    BY <1>2, <1>5
  <2>2. EndsWith(text, Newline) /\ Chomp(text) = more
    BY <1>2, <2>1 DEF EndsWith, Chomp
  <2>3. EndsWith(more, Return) /\ Chomp(more) = value
    BY <1>2 DEF EndsWith, Chomp
  <2>4. Trimmed(text) = value
    BY <2>2, <2>3 DEF Trimmed, Without
  <2>5. text # Append(value, Newline)
    BY <1>3, <2>1
  <2> QED
    BY <1>3, <2>4, <2>5
<1>6. QED
  BY <1>4, <1>5 DEF LineEnds

\* What a program may do is what is true of the service.
LEMMA RunsAreHonest == \A run \in Runs : run \in AnyRun /\ Honest(run)
<1>1. NoRun \in AnyRun
  BY DEF NoRun, AnyRun, Texts, Faults
<1>2. ASSUME NEW account \in SUBSET Items, NEW run \in Succeeds(account)
      PROVE  run \in AnyRun /\ Honest(run)
  <2>1. ASSUME NEW fault \in {"missing", "several"}, run \in Fails(fault, <<fault>>, account),
               job.call # "show"
        PROVE  run \in AnyRun /\ Honest(run)
    <3>1. <<fault>> \in Texts /\ fault \in Faults
      BY DEF Texts, Faults
    <3>2. QED
      BY <1>1, <2>1, <3>1 DEF Fails, AnyRun, Honest
  <2>2. ASSUME NEW out \in Texts, NEW held \in Texts, run \in Prints(out, held, account)
        PROVE  /\ run \in AnyRun /\ run.ends \in {"ok", "hangs"}
               /\ run.out = out /\ run.held = held /\ run.account = account
    <3>1. PICK ends \in {"ok", "hangs"}, stays \in BOOLEAN :
            run = Printed(out, held, account, ends, stays)
      BY <2>2 DEF Prints
    <3>2. QED
      BY <1>1, <3>1 DEF Printed, AnyRun
  <2>3. Json \in Texts /\ <<>> \in Texts /\ Values \subseteq Texts
    BY DEF Texts
  <2>4. CASE job.call \in {"show", "read"}
    <3>1. PICK value \in Values, lineEnd \in LineEnds :
            run \in Prints(value \o lineEnd, value, account)
      BY <1>2, <2>4 DEF Succeeds
    <3>2. value \o lineEnd \in Texts
      BY DEF Texts
    <3>3. QED
      BY <2>2, <2>3, <2>4, <3>1, <3>2 DEF Honest
  <2>5. CASE job.call = "get"
    <3>1. run \in Gets(account)
      BY <1>2, <2>5 DEF Succeeds
    <3>2. CASE account \intersect Namesakes = {}
      BY <2>1, <2>5, <3>1, <3>2 DEF Gets
    <3>3. CASE /\ account \intersect Namesakes # {}
               /\ \E item \in Items : account \intersect Namesakes = {item}
      <4>1. run \in Prints(Json, <<>>, account)
        BY <3>1, <3>3 DEF Gets
      <4>2. run.ends # "failed" /\ run.account = account /\ run \in AnyRun
        BY <2>2, <2>3, <4>1
      <4>3. QED
        BY <2>5, <3>3, <4>2 DEF Honest
    <3>4. CASE /\ account \intersect Namesakes # {}
               /\ ~\E item \in Items : account \intersect Namesakes = {item}
      BY <2>1, <2>5, <3>1, <3>4 DEF Gets
    <3>5. QED
      BY <3>2, <3>3, <3>4
  <2>6. CASE job.call = "byid"
    <3>1. CASE job.pick \in account
      BY <1>2, <2>2, <2>3, <2>6, <3>1 DEF Succeeds, Honest
    <3>2. CASE job.pick \notin account
      BY <1>2, <2>1, <2>6, <3>2 DEF Succeeds
    <3>3. QED
      BY <3>1, <3>2
  <2>7. CASE job.call \notin {"show", "read", "get", "byid"}
    <3>1. run \in Prints(Json, <<>>, account) \/ run \in Prints(<<>>, <<>>, account)
      BY <1>2, <2>7 DEF Succeeds
    <3>2. QED
      BY <2>2, <2>3, <2>7, <3>1 DEF Honest
  <2>8. QED
    BY <2>4, <2>5, <2>6, <2>7
<1>3. ASSUME NEW failure \in Failures, NEW run \in Fails(failure.fault, failure.err, {})
      PROVE  run \in AnyRun /\ Honest(run)
  <2>1. failure.err \in Texts /\ failure.fault \in Faults
    BY ExternalCommandAssumption DEF Texts
  <2>2. /\ run \in AnyRun /\ run.ends = "failed"
        /\ run.fault = failure.fault /\ run.err = failure.err
    BY <1>1, <1>3, <2>1 DEF Fails, AnyRun
  <2>3. QED
    BY <2>2 DEF Honest
<1>4. QED
  <2> TAKE run \in Runs
  <2>1. CASE run \in UNION {Succeeds(account) : account \in Accounts}
    <3>1. PICK account \in SUBSET Items : run \in Succeeds(account)
      BY <2>1 DEF Accounts
    <3>2. QED
      BY <1>2, <3>1
  <2>2. CASE run \in UNION {Fails(failure.fault, failure.err, {}) : failure \in Failures}
    <3>1. PICK failure \in Failures : run \in Fails(failure.fault, failure.err, {})
      BY <2>2
    <3>2. QED
      BY <1>3, <3>1
  <2>3. QED
    BY <2>1, <2>2 DEF Runs
-----------------------------------------------------------------------------
LEMMA InitExternalInv == ExternalInit => ExternalInv
  BY ExternalCommandAssumption
  DEF ExternalInit, ExternalInv, JobType, ChildType, ReferencesAreShown, CallsAreHonest,
      NobodyIsLeft, FeedingIsFed, ToldAtTheEnd, ToldIsTrue, InCall, Running, NoJob, NoRun,
      Nothing, Fault, AnyRun, Texts, Faults

\* Of the program only reading, writing and ending, and of its descendants only
\* holding on: nothing that a run says changes.
LEMMA ProgramExternalInv ==
  ASSUME ExternalInv, ProgramSteps \/ DescendantEnds
  PROVE  ExternalInv'
<1>1. UNCHANGED <<job, at, taken, fed, told>>
  BY DEF ProgramSteps, ChildReads, ChildWrites, ChildExits, DescendantEnds
<1>2. CASE Running
  <2>1. /\ at \notin {"idle", "spawning", "draining", "returned", "choosing"}
        /\ told \in {Nothing, Fault("broken")}
        /\ at = "done" => Fed /\ fed < Text /\ told = Fault("broken")
    BY <1>2 DEF ExternalInv, NobodyIsLeft, FeedingIsFed, ToldAtTheEnd
  <2>2. CASE ChildReads \/ \E s \in Streams : ChildWrites(s)
    <3>1. /\ child' \in [state : {"running"}, run : AnyRun, read : Nat]
          /\ child'.run = child.run
      BY <1>2, <2>2 DEF ExternalInv, ChildType, Running, ChildReads, ChildWrites
    <3>2. ChildType'
      BY <3>1 DEF ChildType
    <3>3. QED
      BY <1>1, <2>1, <3>1, <3>2
      DEF ExternalInv, JobType, ReferencesAreShown, CallsAreHonest, NobodyIsLeft, FeedingIsFed,
          ToldAtTheEnd, ToldIsTrue, InCall, Honest, Nothing, Fault, Fed
  <2>3. CASE ChildExits
    <3>1. /\ child' \in [state : {"exited"}, run : AnyRun, read : Nat]
          /\ child'.run = child.run
      BY <2>3 DEF ExternalInv, ChildType, ChildExits
    <3>2. Finished'
      BY <2>3, <3>1 DEF ChildExits, Finished, InputRead, Fed, ExternalInv, ChildType
    <3>3. ChildType'
      BY <3>1 DEF ChildType
    <3>4. QED
      BY <1>1, <2>1, <3>1, <3>2, <3>3
      DEF ExternalInv, JobType, ReferencesAreShown, CallsAreHonest, NobodyIsLeft, FeedingIsFed,
          ToldAtTheEnd, ToldIsTrue, InCall, Honest, Nothing, Fault, Fed
  <2>4. QED
    BY <1>2, <2>2, <2>3 DEF ProgramSteps, DescendantEnds
<1>3. CASE ~Running
  <2>1. DescendantEnds
    BY <1>3 DEF ProgramSteps, ChildReads, ChildWrites, ChildExits
  <2>2. /\ child' \in [state : {child.state}, run : AnyRun, read : {child.read}]
        /\ \A field \in {"ends", "out", "err", "fault", "held", "account"} :
             child'.run[field] = child.run[field]
        /\ UNCHANGED wrote
    BY <2>1 DEF DescendantEnds, ExternalInv, ChildType, AnyRun
  <2>3. /\ child'.state = child.state /\ child'.read = child.read
        /\ child'.run.ends = child.run.ends /\ child'.run.out = child.run.out
        /\ child'.run.err = child.run.err /\ child'.run.fault = child.run.fault
        /\ child'.run.held = child.run.held /\ child'.run.account = child.run.account
    BY <2>2
  <2>4. ChildType'
    BY <2>2 DEF ExternalInv, ChildType
  <2>5. Finished' <=> Finished
    BY <1>1, <2>2, <2>3 DEF Finished, Streams, Fed
  <2>6. Honest(child.run)' <=> Honest(child.run)
    BY <1>1, <2>3 DEF Honest
  <2>7. CallsAreHonest'
    BY <1>1, <2>2, <2>3, <2>5, <2>6 DEF ExternalInv, CallsAreHonest, InCall
  <2>8. ToldIsTrue'
    BY <1>1, <2>3 DEF ExternalInv, ToldIsTrue, LosesReturn, Candidates
  <2>9. QED
    BY <1>1, <2>3, <2>4, <2>7, <2>8
    DEF ExternalInv, JobType, ReferencesAreShown, NobodyIsLeft, FeedingIsFed, ToldAtTheEnd,
        Running, Fed
<1>4. QED
  BY <1>2, <1>3

LEMMA SpawnExternalInv == ASSUME ExternalInv, Spawn PROVE ExternalInv'
<1>1. PICK run \in Runs : child' = [state |-> "running", run |-> run, read |-> 0]
  BY DEF Spawn
<1>2. run \in AnyRun /\ Honest(run)
  BY RunsAreHonest
<1>3. /\ UNCHANGED <<job, told>>
      /\ at = "spawning" /\ at' \in {"waiting", "feeding", "collecting"}
  BY DEF Spawn, Opening
<1>4. child'.run = run /\ child'.state = "running"
  BY <1>1
<1>5. ChildType'
  BY <1>1, <1>2 DEF ChildType
<1>6. Honest(child.run)'
  BY <1>2, <1>3, <1>4 DEF Honest
<1>7. FeedingIsFed'
  BY DEF Spawn, Opening, FeedingIsFed, Fed, Timed
<1>8. QED
  BY <1>3, <1>4, <1>5, <1>6, <1>7
  DEF ExternalInv, JobType, ReferencesAreShown, CallsAreHonest, NobodyIsLeft, FeedingIsFed,
      ToldAtTheEnd, ToldIsTrue, Nothing, Fault

\* Steps inside a call.
LEMMA CallExternalInv ==
  ASSUME ExternalInv,
         SeeExit \/ Feed \/ CloseInput \/ (\E s \in Streams : Take(s)) \/ Drained \/ Collected
  PROVE  ExternalInv'
<1>1. UNCHANGED <<job, wrote, told>> /\ InCall /\ InCall' /\ told = Nothing
  BY DEF ExternalInv, ToldAtTheEnd, InCall, SeeExit, Feed, CloseInput, Take, Drained, Collected
<1>2. /\ child' \in [state : {child.state, "reaped"}, run : AnyRun, read : Nat]
      /\ child'.run = child.run /\ child'.read = child.read
  BY DEF ExternalInv, ChildType, SeeExit, Feed, CloseInput, Take, Drained, Collected
<1>3. ChildType' /\ (Honest(child.run)' <=> Honest(child.run)) /\ (Finished' <=> Finished)
  <2>1. ChildType'
    BY <1>2 DEF ExternalInv, ChildType
  <2>2. Honest(child.run)' <=> Honest(child.run)
    BY <1>1, <1>2 DEF Honest
  <2>3. Finished' <=> Finished
    BY <1>1, <1>2 DEF Finished, Fed
  <2>4. QED
    BY <2>1, <2>2, <2>3
<1>4. CallsAreHonest' /\ NobodyIsLeft'
  <2>1. CASE SeeExit
    BY <1>1, <1>2, <1>3, <2>1
    DEF SeeExit, ExternalInv, ChildType, CallsAreHonest, NobodyIsLeft, InCall, Running
  <2>2. CASE Feed \/ CloseInput
    BY <1>1, <1>2, <1>3, <2>2
    DEF Feed, CloseInput, ExternalInv, CallsAreHonest, NobodyIsLeft, InCall, Running
  <2>3. CASE \E s \in Streams : Take(s)
    BY <1>1, <1>2, <1>3, <2>3
    DEF Take, ExternalInv, CallsAreHonest, NobodyIsLeft, InCall, Running
  <2>4. CASE Drained
    BY <1>1, <1>2, <1>3, <2>4
    DEF Drained, AllRead, AtEnd, ExternalInv, CallsAreHonest, NobodyIsLeft, InCall, Running
  <2>5. CASE Collected
    <3>1. child'.state = "reaped" /\ at' = "returned" /\ child.state = "exited"
      BY <2>5 DEF Collected, ExternalInv, ChildType
    <3>2. Finished
      BY <1>1, <3>1 DEF ExternalInv, CallsAreHonest
    <3>3. job.call = "clip" \/ \A s \in Streams : taken'[s] = wrote[s]
      BY <2>5 DEF Collected, AllRead, AtEnd
    <3>4. QED
      BY <1>1, <1>3, <3>1, <3>2, <3>3
      DEF ExternalInv, CallsAreHonest, NobodyIsLeft, InCall, Running
  <2>6. QED
    BY <2>1, <2>2, <2>3, <2>4, <2>5
<1>5. FeedingIsFed'
  BY DEF SeeExit, Feed, CloseInput, Take, Drained, Collected, ExternalInv, FeedingIsFed, Fed
<1>6. QED
  BY <1>1, <1>3, <1>4, <1>5
  DEF ExternalInv, JobType, ReferencesAreShown, ToldAtTheEnd, ToldIsTrue, InCall, Nothing, Fault

\* What kovra ends with, when the program is not running any more: ToldIsTrue
\* is all there is to say.
LEMMA EndingExternalInv ==
  ASSUME ExternalInv, NEW result, Ends(result), UNCHANGED child, ~Running, ToldIsTrue'
  PROVE  ExternalInv'
  BY DEF Ends, ExternalInv, JobType, ChildType, ReferencesAreShown, CallsAreHonest, NobodyIsLeft,
         FeedingIsFed, ToldAtTheEnd, InCall, Running

\* A fault other than "missing" and "empty" says nothing that could be wrong.
LEMMA FaultsAreTrue ==
  ASSUME NEW fault, told' = Fault(fault), fault \notin {"missing", "empty"}
  PROVE  ToldIsTrue'
  BY DEF ToldIsTrue, Fault

\* All that a program printed is there when its call returns.
LEMMA OutputIsWhole ==
  ASSUME ExternalInv, at = "returned", job.call # "clip"
  PROVE  Output("out") = child.run.out /\ Output("err") = child.run.err
<1>1. /\ child.run \in AnyRun
      /\ \A s \in Streams : taken[s] = Len(child.run[s])
  BY DEF ExternalInv, ChildType, CallsAreHonest, Finished
<1>2. taken["out"] = Len(child.run.out) /\ taken["err"] = Len(child.run.err)
  BY <1>1 DEF Streams
<1>3. child.run.out \in Texts /\ child.run.err \in Texts
  BY <1>1 DEF AnyRun
<1>4. QED
  BY <1>2, <1>3, TextsAreSequences DEF Output

\* The classifiers of references never hear "missing" in another fault.
LEMMA MissingIsMissing ==
  ASSUME NEW failure \in Failures, job.kind \in {"azure", "aws"},
         Classified(failure.err) = "missing"
  PROVE  failure.fault = "missing"
<1> DEFINE hits == {i \in DOMAIN Order : SoundsLike(failure.err, Order[i])}
           first == CHOOSE i \in hits : \A j \in hits : i <= j
<1>1. /\ DOMAIN Order = 1..3 /\ Order[3] = "missing"
      /\ {Order[1], Order[2]} = {"auth", "unreachable"}
  BY DEF Order
<1>2. hits # {} /\ Order[first] = "missing"
  BY DEF Classified
<1>3. \E i \in hits : \A j \in hits : i <= j
  <2>1. hits \subseteq 1..3
    BY <1>1
  <2>2. 1 \in hits \/ 2 \in hits \/ hits = {3}
    BY <1>2, <2>1
  <2>3. QED
    BY <2>1, <2>2
<1>4. first \in hits /\ \A j \in hits : first <= j
  BY <1>3
<1>5. first = 3
  BY <1>1, <1>2, <1>4
<1>6. 1 \notin hits /\ 2 \notin hits /\ 3 \in hits
  BY <1>4, <1>5
<1>7. /\ SoundsLike(failure.err, "missing")
      /\ ~SoundsLike(failure.err, "auth") /\ ~SoundsLike(failure.err, "unreachable")
  BY <1>1, <1>6
<1>8. QED
  BY <1>7, FailuresSayWhy DEF SoundsLike

\* "empty" is not what a message sounds like.
LEMMA ClassesAreFaults == ASSUME NEW err PROVE Classified(err) # "empty"
<1> DEFINE hits == {i \in DOMAIN Order : SoundsLike(err, Order[i])}
<1>1. \A i \in DOMAIN Order : Order[i] # "empty"
  BY DEF Order
<1>2. CASE hits = {}
  BY <1>2 DEF Classified
<1>3. CASE hits # {}
  <2> DEFINE first == CHOOSE i \in hits : \A j \in hits : i <= j
  <2>1. hits \subseteq 1..3 /\ \A i \in hits : i \in DOMAIN Order
    BY DEF Order
  <2>2. 1 \in hits \/ 2 \in hits \/ hits = {3}
    BY <1>3, <2>1
  <2>3. \E i \in hits : \A j \in hits : i <= j
    BY <2>1, <2>2
  <2>4. first \in hits
    BY <2>3
  <2> QED
    BY <1>1, <1>3, <2>1, <2>4 DEF Classified
<1> QED
  BY <1>2, <1>3

LEMMA ReturnExternalInv ==
  ASSUME ExternalInv, ReturnValue \/ ReturnItem \/ ReturnDone \/ ReturnFault
  PROVE  ExternalInv'
<1>1. /\ at = "returned" /\ UNCHANGED <<job, child>>
      /\ ~Running /\ Finished /\ Honest(child.run)
  BY DEF ReturnValue, ReturnItem, ReturnDone, ReturnFault, Ends, Succeeded, Failed, ExternalInv,
         CallsAreHonest, InCall, Running
<1>2. CASE ReturnValue
  <2>1. /\ job.call \in {"show", "read"} /\ child.run.ends = "ok"
    BY <1>2 DEF ReturnValue, Succeeded
  <2> DEFINE held == child.run.held
             value == IF LosesReturn THEN Chomp(held) ELSE held
  <2>2. /\ held \in Values /\ Output("out") = child.run.out
        /\ \E lineEnd \in LineEnds : child.run.out = held \o lineEnd
    BY <1>1, <2>1, OutputIsWhole DEF Honest
  <2>3. /\ Trimmed(Output("out")) = value
        /\ Len(held) \in Nat /\ (Len(held) = 0 <=> held = <<>>)
        /\ LosesReturn => Len(Chomp(held)) = Len(held) - 1
    BY <2>2, TrimmedIsTheValue DEF LosesReturn
  <2>4. value = <<>> => held = <<>> \/ (LosesReturn /\ Len(held) = 1)
    <3>1. Len(<<>>) = 0
      OBVIOUS
    <3>2. CASE LosesReturn
      <4>1. value = Chomp(held)
        BY <3>2
      <4> HIDE DEF held
      <4> QED
        BY <2>3, <3>1, <3>2, <4>1
    <3>3. CASE ~LosesReturn
      BY <3>3
    <3> QED
      BY <3>2, <3>3
  <2> HIDE DEF value
  <2>5. PICK result : /\ Ends(result) /\ told' = result
                      /\ \/ value = <<>> /\ result = Fault("empty")
                         \/ result = [what |-> "value", value |-> value]
    BY <1>2, <2>3 DEF ReturnValue, Ends
  <2>6. LosesReturn' <=> LosesReturn
    BY <1>1 DEF LosesReturn
  <2>7. ToldIsTrue'
    BY <1>1, <2>4, <2>5, <2>6 DEF ToldIsTrue, Fault, value
  <2>8. QED
    BY <1>1, <2>5, <2>7, EndingExternalInv
<1>3. CASE ReturnItem
  <2> DEFINE item == IF job.call = "byid" THEN job.pick
                     ELSE CHOOSE i \in Items : child.run.account \intersect Namesakes = {i}
  <2>1. Ends(Restored(item)) /\ child.run.ends = "ok" /\ job.call \in {"get", "byid"}
    BY <1>3 DEF ReturnItem, Succeeded
  <2>2. item \in child.run.account /\ (item = job.pick \/ Candidates = {item})
    <3>1. CASE job.call = "byid"
      BY <1>1, <2>1, <3>1 DEF Honest
    <3>2. CASE job.call = "get"
      <4>1. \E i \in Items : child.run.account \intersect Namesakes = {i}
        BY <1>1, <2>1, <3>2 DEF Honest
      <4>2. child.run.account \intersect Namesakes = {item}
        BY <3>2, <4>1
      <4>3. QED
        BY <4>2 DEF Candidates
    <3>3. QED
      BY <2>1, <3>1, <3>2
  <2> HIDE DEF item
  <2>3. told' = Restored(item)
    BY <2>1 DEF Ends
  <2>4. ToldIsTrue'
    BY <1>1, <2>2, <2>3 DEF ToldIsTrue, Restored, Fault, Candidates
  <2>5. QED
    BY <1>1, <2>1, <2>4, EndingExternalInv
<1>4. CASE ReturnDone
  <2>1. Ends([what |-> "done"]) /\ Fed /\ child.run.ends = "ok" /\ told' = [what |-> "done"]
    BY <1>4 DEF ReturnDone, Succeeded, Ends
  <2>2. child.read = Text
    BY <1>1, <2>1 DEF Finished
  <2>3. ToldIsTrue'
    BY <1>1, <2>1, <2>2 DEF ToldIsTrue, Fault
  <2>4. QED
    BY <1>1, <2>1, <2>3, EndingExternalInv
<1>5. CASE ReturnFault
  <2>1. /\ Ends(Fault(Classified(Output("err")))) /\ told' = Fault(Classified(Output("err")))
        /\ child.run.ends = "failed" /\ job.call # "clip"
        /\ Classified(Output("err")) # "empty"
    BY <1>5, ClassesAreFaults DEF ReturnFault, Failed, Ends
  <2>2. Output("err") = child.run.err
    BY <1>1, <2>1, OutputIsWhole
  <2>3. (told' = Fault("missing") /\ job.kind \in {"azure", "aws"}) => child.run.fault = "missing"
    <3> SUFFICES ASSUME told' = Fault("missing"), job.kind \in {"azure", "aws"}
                 PROVE  child.run.fault = "missing"
      OBVIOUS
    <3>1. Classified(child.run.err) = "missing"
      BY <2>1, <2>2 DEF Fault
    <3>2. job.call = "show"
      BY DEF ExternalInv, ReferencesAreShown
    <3>3. PICK failure \in Failures :
            child.run.fault = failure.fault /\ child.run.err = failure.err
      BY <1>1, <2>1, <3>2 DEF Honest
    <3>4. QED
      BY <3>1, <3>3, MissingIsMissing
  <2>4. ToldIsTrue'
    BY <1>1, <2>1, <2>3 DEF ToldIsTrue, Fault
  <2>5. QED
    BY <1>1, <2>1, <2>4, EndingExternalInv
<1>6. QED
  BY <1>2, <1>3, <1>4, <1>5

LEMMA StopExternalInv ==
  ASSUME ExternalInv,
         SpawnFails \/ TimeOut \/ BrokenPipe \/ NoneListed \/ NoVaults \/ PickNothing \/ NoTool
  PROVE  ExternalInv'
<1>1. \E fault \in {"absent", "timeout", "broken", "several", "choice", "other"} :
        Ends(Fault(fault))
  BY DEF SpawnFails, TimeOut, BrokenPipe, NoneListed, NoVaults, PickNothing, NoTool
<1>2. PICK fault \in {"absent", "timeout", "broken", "several", "choice", "other"} :
        Ends(Fault(fault))
  BY <1>1
<1>3. ToldIsTrue'
  BY <1>2, FaultsAreTrue DEF Ends
<1>4. CASE TimeOut
  <2>1. child' \in [state : {"reaped"}, run : AnyRun, read : Nat]
    BY <1>4 DEF TimeOut, ExternalInv, ChildType
  <2>2. ChildType' /\ ~Running'
    BY <2>1 DEF ChildType, Running
  <2>3. QED
    BY <1>2, <1>3, <1>4, <2>2
    DEF TimeOut, Ends, ExternalInv, JobType, ReferencesAreShown, CallsAreHonest, NobodyIsLeft,
        FeedingIsFed, ToldAtTheEnd, InCall
<1>5. CASE BrokenPipe
  <2>1. /\ UNCHANGED <<job, child, fed>> /\ at = "feeding" /\ at' = "done"
        /\ fed < Text /\ told' = Fault("broken")
    BY <1>5 DEF BrokenPipe, Ends
  <2>2. Fed \/ ~Running
    BY <2>1 DEF ExternalInv, FeedingIsFed
  <2>3. QED
    BY <1>3, <2>1, <2>2
    DEF ExternalInv, JobType, ChildType, ReferencesAreShown, CallsAreHonest, NobodyIsLeft,
        FeedingIsFed, ToldAtTheEnd, InCall, Running, Fed
<1>6. CASE SpawnFails \/ NoneListed \/ NoVaults \/ PickNothing \/ NoTool
  <2>1. UNCHANGED child /\ ~Running
    BY <1>6
    DEF SpawnFails, NoneListed, NoVaults, PickNothing, NoTool, Succeeded, Failed,
        ExternalInv, NobodyIsLeft, Running
  <2>2. QED
    BY <1>2, <1>3, <2>1, EndingExternalInv
<1>7. QED
  BY <1>4, <1>5, <1>6

\* On the way to another program, or to a choice between items or vaults.
LEMMA NextCallExternalInv ==
  ASSUME ExternalInv,
         \/ Start \/ ListNamesakes \/ OfferItems \/ PickItem \/ OfferVaults \/ PickVault \/ NextTool
  PROVE  ExternalInv'
<1>1. /\ UNCHANGED <<child, told>> /\ at' \in {"spawning", "choosing"}
      /\ at \in {"idle", "spawning", "returned", "choosing"}
  BY DEF Start, ListNamesakes, OfferItems, PickItem, OfferVaults, PickVault, NextTool, Call,
         Succeeded, Failed
<1>2. JobType' /\ ReferencesAreShown'
  <2>1. CASE Start
    BY <2>1 DEF Start, ExternalInv, JobType, ReferencesAreShown, NoJob, FirstCall
  <2>2. CASE ListNamesakes
    BY <2>2 DEF ListNamesakes, Call, ExternalInv, JobType, ReferencesAreShown, Failed
  <2>3. CASE OfferItems \/ OfferVaults
    BY <2>3 DEF OfferItems, OfferVaults, ExternalInv, JobType, ReferencesAreShown
  <2>4. CASE PickItem
    <3>1. PICK item \in Candidates : job' = [job EXCEPT !.call = "byid", !.pick = item]
      BY <2>4 DEF PickItem
    <3>2. item \in Items
      BY ExternalCommandAssumption DEF Candidates
    <3>3. QED
      BY <2>4, <3>1, <3>2 DEF PickItem, ExternalInv, JobType, ReferencesAreShown
  <2>5. CASE PickVault
    BY <2>5 DEF PickVault, Call, ExternalInv, JobType, ReferencesAreShown
  <2>6. CASE NextTool
    BY <2>6 DEF NextTool, ExternalInv, JobType, ReferencesAreShown, Failed
  <2>7. QED
    BY <2>1, <2>2, <2>3, <2>4, <2>5, <2>6
<1>3. QED
  BY <1>1, <1>2
  DEF ExternalInv, ChildType, CallsAreHonest, NobodyIsLeft, FeedingIsFed, ToldAtTheEnd,
      ToldIsTrue, InCall, Running, Nothing, Fault

LEMMA SpecExternalInv == ExternalSpec => []ExternalInv
<1>1. ExternalInv /\ [ExternalNext]_externalVars => ExternalInv'
  <2> SUFFICES ASSUME ExternalInv, [ExternalNext]_externalVars PROVE ExternalInv'
    OBVIOUS
  <2>1. CASE UNCHANGED externalVars
    BY <2>1
    DEF externalVars, ExternalInv, JobType, ChildType, ReferencesAreShown, CallsAreHonest,
        NobodyIsLeft, FeedingIsFed, ToldAtTheEnd, ToldIsTrue, LosesReturn, InCall, Honest,
        Finished, Running, Fed, Candidates
  <2>2. CASE ProgramSteps \/ DescendantEnds
    BY <2>2, ProgramExternalInv
  <2>3. CASE CallSteps
    BY <2>3, SpawnExternalInv, CallExternalInv, StopExternalInv DEF CallSteps
  <2>4. CASE ReturnSteps
    BY <2>4, ReturnExternalInv, StopExternalInv, NextCallExternalInv DEF ReturnSteps
  <2>5. CASE Start \/ ChoiceSteps
    BY <2>5, StopExternalInv, NextCallExternalInv DEF ChoiceSteps
  <2>6. QED
    BY <2>1, <2>2, <2>3, <2>4, <2>5 DEF ExternalNext
<1>2. QED
  BY <1>1, InitExternalInv, PTL DEF ExternalSpec

\* Whatever the programs print, with either line end, when they end and when their
\* output is read, the value, the item and the fault that kovra hands on are those
\* of the service; a final `\r` of the value before a bare `\n` is lost, and no more.
\* That a missing secret is never a failed connection rests on FailuresSayWhy.
THEOREM WhatIsToldIsTrue == ExternalSpec => []ToldIsTrue
<1>1. ExternalInv => ToldIsTrue
  BY DEF ExternalInv
<1>2. QED
  BY <1>1, SpecExternalInv, PTL

\* A job that ended left no program running, by whichever of its paths, but the
\* one that stopped reading what it was fed.
THEOREM ProgramsDoNotRunOn == ExternalSpec => []NobodyRunsOn
<1>1. ExternalInv => NobodyRunsOn
  BY DEF ExternalInv, NobodyIsLeft, NobodyRunsOn
<1>2. QED
  BY <1>1, SpecExternalInv, PTL

LEMMA RunsHaveLengths ==
  ASSUME ChildType, NEW s \in Streams
  PROVE  Len(child.run[s]) \in Nat
<1>1. child.run \in AnyRun
  BY DEF ChildType
<1>2. child.run[s] \in Texts
  BY <1>1 DEF AnyRun, Streams
<1> QED
  BY <1>2, TextsAreSequences

LEMMA ExternalTypes ==
  ASSUME ExternalInv, ExternalInv', ExternalTypeOK, [ExternalNext]_externalVars
  PROVE  ExternalTypeOK'
<1>1. Text \in Nat /\ Tools \in Nat \ {0}
  BY ExternalCommandAssumption
<1>2. ASSUME UNCHANGED <<child, wrote, taken, fed>>,
             job'.tool \in 1..Tools, at' \in {"spawning", "waiting", "feeding", "collecting",
                "draining", "returned", "choosing", "done", "idle"}
      PROVE  ExternalTypeOK'
  BY <1>2 DEF ExternalTypeOK, RunType
<1>3. ASSUME child' = [child EXCEPT !.state = "reaped"] \/ child' = [child EXCEPT !.state = "exited"],
             UNCHANGED <<job, wrote, taken, fed>>,
             at' \in {"waiting", "feeding", "collecting", "draining", "returned", "done"}
      PROVE  ExternalTypeOK'
  <2>1. /\ child'.run = child.run /\ child'.read = child.read /\ child'.state \in {"reaped", "exited"}
    BY <1>3 DEF ExternalInv, ChildType
  <2> QED
    BY <1>3, <2>1 DEF ExternalTypeOK, RunType
<1>4. CASE ChildReads
  <2>1. child'.read = child.read + 1 /\ child'.run = child.run /\ child'.state = child.state
    BY <1>4 DEF ChildReads, ExternalInv, ChildType
  <2>2. child'.read \in 0..Text
    BY <1>1, <1>4, <2>1 DEF ChildReads, ExternalTypeOK, RunType
  <2> QED
    BY <1>4, <2>1, <2>2 DEF ChildReads, ExternalTypeOK, RunType
<1>5. CASE \E s \in Streams : ChildWrites(s)
  <2>1. PICK s \in Streams : ChildWrites(s)
    BY <1>5
  <2>2. /\ wrote' = [wrote EXCEPT ![s] = @ + 1] /\ wrote[s] < Len(child.run[s])
        /\ UNCHANGED <<job, at, child, taken, fed>>
    BY <2>1 DEF ChildWrites
  <2>3. /\ wrote' \in [Streams -> Nat]
        /\ \A t \in Streams : taken[t] <= wrote'[t] /\ wrote'[t] <= Len(child.run[t])
    BY <2>2, RunsHaveLengths DEF ExternalTypeOK, ExternalInv
  <2> QED
    BY <2>2, <2>3 DEF ExternalTypeOK, RunType
<1>6. CASE ChildExits
  BY <1>3, <1>6 DEF ChildExits, ExternalInv, NobodyIsLeft, Running, ExternalTypeOK
<1>7. CASE DescendantEnds
  <2>1. /\ child'.state = child.state /\ child'.read = child.read
        /\ child'.run.ends = child.run.ends /\ child'.run.stays \in BOOLEAN
        /\ child'.run.out = child.run.out /\ child'.run.err = child.run.err
    BY <1>7 DEF DescendantEnds, ExternalInv, ChildType, AnyRun
  <2>2. \A s \in Streams : child'.run[s] = child.run[s]
    BY <2>1 DEF Streams
  <2> QED
    BY <1>7, <2>1, <2>2 DEF DescendantEnds, ExternalTypeOK, RunType
<1>8. CASE Spawn
  <2>1. child'.run \in AnyRun /\ child'.state = "running" /\ child'.read = 0
    <3>1. PICK run \in Runs : child' = [state |-> "running", run |-> run, read |-> 0]
      BY <1>8 DEF Spawn
    <3> QED
      BY <3>1, RunsAreHonest
  <2>2. wrote' = Empty /\ taken' = Empty /\ fed' = 0 /\ job' = job
        /\ at' \in {"waiting", "feeding", "collecting"}
    BY <1>8 DEF Spawn, Opening
  <2>3. \A s \in Streams : child'.run[s] \in Texts
    BY <2>1 DEF AnyRun, Streams
  <2>4. \A s \in Streams : taken'[s] <= wrote'[s] /\ wrote'[s] <= Len(child'.run[s])
    BY <2>2, <2>3, TextsAreSequences DEF Empty
  <2> QED
    BY <1>1, <2>1, <2>2, <2>4 DEF ExternalTypeOK, RunType, Empty, AnyRun
<1>9. CASE Feed
  BY <1>1, <1>9 DEF Feed, ExternalTypeOK, RunType
<1>10. CASE \E s \in Streams : Take(s)
  <2>1. PICK s \in Streams : Take(s)
    BY <1>10
  <2>2. /\ taken' = [taken EXCEPT ![s] = @ + 1] /\ taken[s] < wrote[s]
        /\ UNCHANGED <<job, at, child, wrote, fed>>
    BY <2>1 DEF Take
  <2>3. /\ taken' \in [Streams -> Nat] /\ \A t \in Streams : taken'[t] <= wrote[t]
    BY <2>2 DEF ExternalTypeOK
  <2> QED
    BY <2>2, <2>3 DEF ExternalTypeOK, RunType
<1>11. CASE SeeExit \/ Collected \/ TimeOut
  BY <1>3, <1>11 DEF SeeExit, Collected, TimeOut, Ends
<1>12. CASE \/ SpawnFails \/ BrokenPipe \/ CloseInput \/ Drained \/ ReturnValue \/ ReturnItem
            \/ OfferItems \/ NoneListed \/ OfferVaults \/ NoVaults \/ ReturnDone \/ NoTool
            \/ ReturnFault \/ PickNothing
  <2>1. UNCHANGED <<job, child, wrote, taken, fed>> /\ at' \in {"collecting", "returned", "choosing", "done"}
    BY <1>12 DEF SpawnFails, BrokenPipe, CloseInput, Drained, ReturnValue, ReturnItem, OfferItems,
       NoneListed, OfferVaults, NoVaults, ReturnDone, NoTool, ReturnFault, PickNothing, Ends
  <2> QED
    BY <1>2, <2>1 DEF ExternalTypeOK
<1>13. CASE Start \/ ListNamesakes \/ PickItem \/ PickVault \/ NextTool
  <2>1. UNCHANGED <<child, wrote, taken, fed>> /\ at' = "spawning"
    BY <1>13 DEF Start, ListNamesakes, PickItem, PickVault, NextTool, Call
  <2>2. job'.tool = job.tool \/ (job.tool < Tools /\ job'.tool = job.tool + 1)
    BY <1>13 DEF Start, ListNamesakes, PickItem, PickVault, NextTool, Call, ExternalInv, JobType
  <2>3. job'.tool \in 1..Tools
    BY <1>1, <2>2 DEF ExternalTypeOK
  <2> QED
    BY <1>2, <2>1, <2>3
<1>14. CASE UNCHANGED externalVars
  BY <1>14 DEF externalVars, ExternalTypeOK, RunType
<1> QED
  BY <1>4, <1>5, <1>6, <1>7, <1>8, <1>9, <1>10, <1>11, <1>12, <1>13, <1>14
  DEF ExternalNext, ProgramSteps, CallSteps, ReturnSteps, ChoiceSteps

LEMMA SpecExternalTypes == ExternalSpec => []ExternalTypeOK
<1>1. ExternalInit => ExternalTypeOK
  <2> SUFFICES ASSUME ExternalInit PROVE ExternalTypeOK
    OBVIOUS
  <2>1. \A s \in Streams : Len(child.run[s]) = 0
    <3>1. Len(<<>>) = 0
      OBVIOUS
    <3> QED
      BY <3>1 DEF ExternalInit, NoRun, Streams
  <2>2. /\ wrote \in [Streams -> Nat] /\ taken \in [Streams -> Nat]
        /\ \A s \in Streams : wrote[s] = 0 /\ taken[s] = 0
    BY DEF ExternalInit, Empty
  <2>3. RunType
    <3>1. child.state = "none" /\ child.run = NoRun /\ child.read = 0
      BY DEF ExternalInit
    <3>2. NoRun.ends = "ok" /\ NoRun.stays = FALSE
      BY DEF NoRun
    <3>3. 0 \in 0..Text
      BY ExternalCommandAssumption
    <3> QED
      BY <3>1, <3>2, <3>3 DEF RunType
  <2>4. job.tool \in 1..Tools /\ fed \in 0..Text /\ at = "idle"
    BY ExternalCommandAssumption DEF ExternalInit, NoJob
  <2> QED
    BY <2>1, <2>2, <2>3, <2>4 DEF ExternalTypeOK
<1>2. ExternalInv /\ ExternalInv' /\ ExternalTypeOK /\ [ExternalNext]_externalVars => ExternalTypeOK'
  BY ExternalTypes
<1> QED
  BY <1>1, <1>2, SpecExternalInv, PTL DEF ExternalSpec
-----------------------------------------------------------------------------
(* The audit log: what record() returned Ok for stays readable.             *)

\* No event is there twice, and each is after those that were recorded before
\* it was made.
LogIsOrderly ==
  /\ \A i, j \in DOMAIN log : log[i].event.number = log[j].event.number => i = j
  /\ \A i \in DOMAIN log : log[i].event.number <= made
  /\ \A i \in DOMAIN log : \A earlier \in log[i].after : \E j \in 1..i : log[j].event = earlier

\* What a writer has in hand is its own, and it is in the log once it was appended.
EntriesAreOwn ==
  /\ \A w \in Writers : step[w] # "idle" =>
       entry[w].event.number <= made /\ entry[w].after \subseteq recorded
  /\ \A v, w \in Writers : (v # w /\ step[v] # "idle" /\ step[w] # "idle") =>
       entry[v].event.number # entry[w].event.number
  /\ \A w \in Writers : step[w] \notin {"idle", "syncing"} =>
       \A i \in DOMAIN log : log[i].event.number # entry[w].event.number
  /\ \A w \in Writers : step[w] = "syncing" => \E i \in DOMAIN log : log[i] = entry[w]

RecordedAreSynced ==
  \A event \in recorded : \E i \in 1..synced : log[i].event = event /\ log[i].form = "line"

AuditInv ==
  /\ AuditTypeOK
  /\ entry \in [Writers -> Pieces \union {NoEntry}]
  /\ LogIsOrderly
  /\ EntriesAreOwn
  /\ RecordedAreSynced

LEMMA InitAuditInv == AuditInit => AuditInv
<1> SUFFICES ASSUME AuditInit PROVE AuditInv
  OBVIOUS
<1>1. log \in Seq(Pieces) /\ DOMAIN log = {} /\ Len(log) = 0
  BY DEF AuditInit
<1>2. 0 \in 0..MaxEvents /\ 0 \in 0..MaxClock
  BY AuditLogAssumption
<1>3. AuditTypeOK
  BY <1>1, <1>2 DEF AuditInit, AuditTypeOK
<1>4. QED
  BY <1>1, <1>3 DEF AuditInit, AuditInv, LogIsOrderly, EntriesAreOwn, RecordedAreSynced

\* What the invariant says of one piece of the log.
LEMMA LogTyped ==
  ASSUME AuditInv
  PROVE  /\ Len(log) \in Nat /\ DOMAIN log = 1..Len(log)
         /\ \A i \in DOMAIN log : log[i] \in Pieces /\ log[i].event.number \in Nat
         /\ synced \in 0..Len(log) /\ made \in Nat
         /\ \A w \in Writers : step[w] # "idle" =>
              entry[w] \in Pieces /\ entry[w].event.number \in Nat /\ entry[w].form = "line"
<1>1. \A piece \in Pieces : piece.event.number \in Nat
  BY AuditLogAssumption DEF Pieces, AuditEvents
<1>2. log \in Seq(Pieces) /\ synced \in 0..Len(log) /\ made \in Nat
  BY AuditLogAssumption DEF AuditInv, AuditTypeOK
<1>3. \A w \in Writers : step[w] # "idle" => entry[w] \in Pieces /\ entry[w].form = "line"
  BY DEF AuditInv, AuditTypeOK
<1>4. QED
  BY <1>1, <1>2, <1>3

\* Steps of one writer that leave the log, what is recorded and its entry alone.
LEMMA WaitAuditInv ==
  ASSUME AuditInv, NEW w \in Writers, LookForFile(w) \/ OpenFile(w) \/ RestrictFile(w)
  PROVE  AuditInv'
<1>1. /\ UNCHANGED <<log, synced, clock, made, entry, recorded>>
      /\ mode' \in {"absent", "default", "private"}
      /\ existed' \in [Writers -> BOOLEAN]
  BY DEF LookForFile, OpenFile, RestrictFile, AuditInv, AuditTypeOK
<1>2. /\ step' \in [Writers -> {"idle", "looking", "opening", "restricting", "appending", "syncing"}]
      /\ \A v \in Writers : (step'[v] = "idle" <=> step[v] = "idle")
                            /\ (step'[v] = "syncing" <=> step[v] = "syncing")
  BY DEF LookForFile, OpenFile, RestrictFile, Goes, AuditInv, AuditTypeOK
<1>3. AuditTypeOK'
  BY <1>1, <1>2 DEF AuditInv, AuditTypeOK
<1>4. QED
  BY <1>1, <1>2, <1>3
  DEF AuditInv, LogIsOrderly, EntriesAreOwn, RecordedAreSynced

LEMMA MakeAuditInv == ASSUME AuditInv, NEW w \in Writers, Make(w) PROVE AuditInv'
<1>1. PICK a \in Coordinates :
        entry' = [entry EXCEPT ![w] =
                    [event |-> [number |-> made + 1, ts |-> clock, coordinate |-> a],
                     form |-> "line", after |-> recorded]]
  BY DEF Make
<1>2. /\ UNCHANGED <<log, synced, mode, clock, existed, recorded>>
      /\ made' = made + 1 /\ made \in Nat /\ made' \in 0..MaxEvents
  BY AuditLogAssumption DEF Make, AuditInv, AuditTypeOK
<1>3. /\ entry'[w] = [event |-> [number |-> made + 1, ts |-> clock, coordinate |-> a],
                      form |-> "line", after |-> recorded]
      /\ step'[w] = "looking" /\ step[w] = "idle"
      /\ \A v \in Writers : v # w => entry'[v] = entry[v] /\ step'[v] = step[v]
  BY <1>1 DEF Make, Goes, AuditInv, AuditTypeOK
<1>4. entry'[w] \in Pieces
  <2>1. made + 1 \in 1..MaxEvents
    BY <1>2
  <2>2. [number |-> made + 1, ts |-> clock, coordinate |-> a] \in AuditEvents
    BY <2>1 DEF AuditInv, AuditTypeOK, AuditEvents
  <2>3. QED
    BY <1>3, <2>2 DEF AuditInv, AuditTypeOK, Pieces, Forms
<1>5. /\ entry' \in [Writers -> Pieces \union {NoEntry}]
      /\ step' \in [Writers -> {"idle", "looking", "opening", "restricting", "appending", "syncing"}]
  BY <1>1, <1>3, <1>4 DEF Make, Goes, AuditInv, AuditTypeOK
<1>6. AuditTypeOK'
  BY <1>2, <1>3, <1>4, <1>5 DEF AuditInv, AuditTypeOK
<1>7. LogIsOrderly'
  BY <1>2, LogTyped DEF AuditInv, LogIsOrderly
<1>8. EntriesAreOwn'
  <2>1. entry'[w].event.number = made + 1 /\ entry'[w].after = recorded
    BY <1>3
  <2>2. \A v \in Writers : v # w /\ step[v] # "idle" =>
          entry[v].event.number \in Nat /\ entry[v].event.number <= made
    BY LogTyped DEF AuditInv, EntriesAreOwn
  <2>3. \A i \in DOMAIN log : log[i].event.number \in Nat /\ log[i].event.number <= made
    BY LogTyped DEF AuditInv, LogIsOrderly
  <2>4. \A v \in Writers : step'[v] # "idle" =>
          entry'[v].event.number <= made' /\ entry'[v].after \subseteq recorded'
    BY <1>2, <1>3, <2>1, <2>2 DEF AuditInv, EntriesAreOwn
  <2>5. \A u, v \in Writers : (u # v /\ step'[u] # "idle" /\ step'[v] # "idle") =>
          entry'[u].event.number # entry'[v].event.number
    BY <1>2, <1>3, <2>1, <2>2 DEF AuditInv, EntriesAreOwn
  <2>6. \A v \in Writers : step'[v] \notin {"idle", "syncing"} =>
          \A i \in DOMAIN log' : log'[i].event.number # entry'[v].event.number
    BY <1>2, <1>3, <2>1, <2>3 DEF AuditInv, EntriesAreOwn
  <2>7. \A v \in Writers : step'[v] = "syncing" => \E i \in DOMAIN log' : log'[i] = entry'[v]
    BY <1>2, <1>3 DEF AuditInv, EntriesAreOwn
  <2>8. QED
    BY <2>4, <2>5, <2>6, <2>7 DEF EntriesAreOwn
<1>9. QED
  BY <1>2, <1>5, <1>6, <1>7, <1>8 DEF AuditInv, RecordedAreSynced

\* One more piece at the end of the log, of an event that was not there.
LEMMA AppendedLog ==
  ASSUME AuditInv, NEW w \in Writers, step[w] = "appending", NEW form \in Forms,
         log' = Append(log, Cut(entry[w], form)), UNCHANGED <<made, recorded, synced>>
  PROVE  /\ log' \in Seq(Pieces) /\ synced' \in 0..Len(log')
         /\ Len(log') = Len(log) + 1 /\ DOMAIN log' = 1..(Len(log) + 1)
         /\ \A i \in DOMAIN log : log'[i] = log[i]
         /\ log'[Len(log) + 1] = Cut(entry[w], form)
         /\ LogIsOrderly' /\ RecordedAreSynced'
<1> DEFINE piece == Cut(entry[w], form)
<1>1. /\ entry[w] \in Pieces
      /\ piece.event = entry[w].event /\ piece.after = entry[w].after /\ piece \in Pieces
  BY LogTyped DEF Cut, Pieces
<1> HIDE DEF piece
<1>2. log \in Seq(Pieces)
  BY DEF AuditInv, AuditTypeOK
<1>3. /\ log' \in Seq(Pieces) /\ Len(log') = Len(log) + 1 /\ DOMAIN log' = 1..(Len(log) + 1)
      /\ \A i \in 1..Len(log) : log'[i] = log[i]
      /\ log'[Len(log) + 1] = piece
  BY <1>1, <1>2 DEF piece
<1>4. DOMAIN log = 1..Len(log) /\ Len(log) \in Nat /\ synced \in 0..Len(log)
  BY LogTyped
<1>5. \A i, j \in DOMAIN log' : log'[i].event.number = log'[j].event.number => i = j
  <2>1. \A i \in DOMAIN log : log[i].event.number # piece.event.number
    BY <1>1 DEF AuditInv, EntriesAreOwn
  <2>2. \A i, j \in DOMAIN log : log[i].event.number = log[j].event.number => i = j
    BY DEF AuditInv, LogIsOrderly
  <2>3. QED
    BY <1>3, <1>4, <2>1, <2>2
<1>6. \A i \in DOMAIN log' : log'[i].event.number <= made'
  BY <1>1, <1>3, <1>4 DEF AuditInv, LogIsOrderly, EntriesAreOwn
<1>7. \A i \in DOMAIN log' : \A earlier \in log'[i].after : \E j \in 1..i : log'[j].event = earlier
  <2> SUFFICES ASSUME NEW i \in DOMAIN log', NEW earlier \in log'[i].after
               PROVE  \E j \in 1..i : log'[j].event = earlier
    OBVIOUS
  <2>1. CASE i \in 1..Len(log)
    <3>1. PICK j \in 1..i : log[j].event = earlier
      BY <1>3, <1>4, <2>1 DEF AuditInv, LogIsOrderly
    <3>2. log'[j].event = earlier
      BY <1>3, <1>4, <2>1, <3>1
    <3>3. QED
      BY <3>2
  <2>2. CASE i = Len(log) + 1
    <3>1. earlier \in recorded
      BY <1>1, <1>3, <2>2 DEF AuditInv, EntriesAreOwn
    <3>2. PICK j \in 1..synced : log[j].event = earlier
      BY <3>1 DEF AuditInv, RecordedAreSynced
    <3>3. j \in 1..i /\ log'[j].event = earlier
      BY <1>3, <1>4, <2>2, <3>2
    <3>4. QED
      BY <3>3
  <2>3. QED
    BY <1>3, <1>4, <2>1, <2>2
<1>8. RecordedAreSynced'
  BY <1>3, <1>4 DEF AuditInv, RecordedAreSynced
<1>9. QED
  BY <1>3, <1>4, <1>5, <1>6, <1>7, <1>8 DEF LogIsOrderly, piece

LEMMA AppendLineAuditInv == ASSUME AuditInv, NEW w \in Writers, AppendLine(w) PROVE AuditInv'
<1>1. /\ step[w] = "appending" /\ log' = Append(log, entry[w])
      /\ UNCHANGED <<synced, mode, clock, made, entry, existed, recorded>>
      /\ step'[w] = "syncing" /\ \A v \in Writers : v # w => step'[v] = step[v]
      /\ step' \in [Writers -> {"idle", "looking", "opening", "restricting", "appending", "syncing"}]
  BY DEF AppendLine, Goes, AuditInv, AuditTypeOK
<1>2. Cut(entry[w], "line") = entry[w] /\ "line" \in Forms
  BY <1>1, LogTyped DEF Cut, Pieces, Forms
<1>3. /\ log' \in Seq(Pieces) /\ synced' \in 0..Len(log')
      /\ DOMAIN log' = 1..(Len(log) + 1) /\ \A i \in DOMAIN log : log'[i] = log[i]
      /\ log'[Len(log) + 1] = entry[w]
      /\ LogIsOrderly' /\ RecordedAreSynced'
  BY <1>1, <1>2, AppendedLog
<1>4. AuditTypeOK'
  BY <1>1, <1>3 DEF AuditInv, AuditTypeOK
<1>5. EntriesAreOwn'
  <2>1. Len(log) \in Nat /\ DOMAIN log = 1..Len(log)
    BY LogTyped
  <2>2. \A v \in Writers : step'[v] \notin {"idle", "syncing"} =>
          \A i \in DOMAIN log' : log'[i].event.number # entry'[v].event.number
    BY <1>1, <1>3, <2>1 DEF AuditInv, EntriesAreOwn
  <2>3. \A v \in Writers : step'[v] = "syncing" => \E i \in DOMAIN log' : log'[i] = entry'[v]
    <3> SUFFICES ASSUME NEW v \in Writers, step'[v] = "syncing"
                 PROVE  \E i \in DOMAIN log' : log'[i] = entry'[v]
      OBVIOUS
    <3>1. CASE v = w
      BY <1>1, <1>3, <2>1, <3>1
    <3>2. CASE v # w
      <4>1. PICK i \in DOMAIN log : log[i] = entry[v]
        BY <1>1, <3>2 DEF AuditInv, EntriesAreOwn
      <4>2. i \in DOMAIN log' /\ log'[i] = entry'[v]
        BY <1>1, <1>3, <2>1, <4>1
      <4>3. QED
        BY <4>2
    <3>3. QED
      BY <3>1, <3>2
  <2>4. QED
    BY <1>1, <2>2, <2>3 DEF AuditInv, EntriesAreOwn
<1>6. QED
  BY <1>1, <1>3, <1>4, <1>5 DEF AuditInv

\* record() returns, and lets go of the entry.
LEMMA ReturnedAuditInv ==
  ASSUME AuditInv, NEW w \in Writers, NEW from, Returns(w, from), from # "idle",
         log' \in Seq(Pieces), synced' \in 0..Len(log'), recorded' \subseteq AuditEvents,
         LogIsOrderly', RecordedAreSynced', recorded \subseteq recorded',
         \A v \in Writers : v # w /\ step[v] \notin {"idle", "syncing"} =>
           \A i \in DOMAIN log' : log'[i].event.number # entry[v].event.number,
         \A i \in DOMAIN log : i \in DOMAIN log' /\ log'[i] = log[i]
  PROVE  AuditInv'
<1>1. /\ UNCHANGED <<mode, clock, made>>
      /\ step'[w] = "idle" /\ entry'[w] = NoEntry
      /\ \A v \in Writers : v # w => step'[v] = step[v] /\ entry'[v] = entry[v]
      /\ step' \in [Writers -> {"idle", "looking", "opening", "restricting", "appending", "syncing"}]
      /\ entry' \in [Writers -> Pieces \union {NoEntry}]
      /\ existed' \in [Writers -> BOOLEAN]
  BY DEF Returns, Goes, AuditInv, AuditTypeOK
<1>2. AuditTypeOK'
  BY <1>1 DEF AuditInv, AuditTypeOK
<1>3. EntriesAreOwn'
  <2>1. \A v \in Writers : step'[v] # "idle" => v # w /\ step'[v] = step[v] /\ entry'[v] = entry[v]
    BY <1>1
  <2>2. \A v \in Writers : step'[v] = "syncing" => \E i \in DOMAIN log' : log'[i] = entry'[v]
    BY <2>1 DEF AuditInv, EntriesAreOwn
  <2>3. QED
    BY <1>1, <2>1, <2>2 DEF AuditInv, EntriesAreOwn
<1>4. QED
  BY <1>1, <1>2, <1>3 DEF AuditInv

LEMMA AppendPartAuditInv == ASSUME AuditInv, NEW w \in Writers, AppendPart(w) PROVE AuditInv'
<1>1. PICK form \in CutForms(entry[w]) : log' = Append(log, Cut(entry[w], form))
  BY DEF AppendPart
<1>2. /\ step[w] = "appending" /\ form \in Forms /\ Returns(w, "appending")
      /\ UNCHANGED <<made, recorded, synced>>
  BY DEF AppendPart, Returns, Goes, CutForms, Forms
<1>3. /\ log' \in Seq(Pieces) /\ synced' \in 0..Len(log')
      /\ DOMAIN log' = 1..(Len(log) + 1) /\ \A i \in DOMAIN log : log'[i] = log[i]
      /\ log'[Len(log) + 1] = Cut(entry[w], form)
      /\ LogIsOrderly' /\ RecordedAreSynced'
  BY <1>1, <1>2, AppendedLog
<1>4. Len(log) \in Nat /\ DOMAIN log = 1..Len(log) /\ Cut(entry[w], form).event = entry[w].event
  BY <1>2, LogTyped DEF Cut, Pieces
<1>5. \A v \in Writers : v # w /\ step[v] \notin {"idle", "syncing"} =>
        \A i \in DOMAIN log' : log'[i].event.number # entry[v].event.number
  BY <1>2, <1>3, <1>4 DEF AuditInv, EntriesAreOwn
<1>6. recorded' \subseteq AuditEvents
  BY <1>2 DEF AuditInv, AuditTypeOK
<1>7. QED
  BY <1>2, <1>3, <1>4, <1>5, <1>6, ReturnedAuditInv

LEMMA SyncAuditInv == ASSUME AuditInv, NEW w \in Writers, SyncFile(w) PROVE AuditInv'
<1>1. /\ step[w] = "syncing" /\ Returns(w, "syncing") /\ synced' = Len(log)
      /\ UNCHANGED <<log, made>> /\ recorded' = recorded \union {entry[w].event}
  BY DEF SyncFile, Returns, Goes
<1>2. /\ Len(log) \in Nat /\ DOMAIN log = 1..Len(log) /\ synced \in 0..Len(log)
      /\ entry[w] \in Pieces /\ entry[w].form = "line"
  BY <1>1, LogTyped
<1>3. RecordedAreSynced'
  <2> SUFFICES ASSUME NEW event \in recorded'
               PROVE  \E i \in 1..synced' : log'[i].event = event /\ log'[i].form = "line"
    BY DEF RecordedAreSynced
  <2>1. CASE event \in recorded
    BY <1>1, <1>2, <2>1 DEF AuditInv, RecordedAreSynced
  <2>2. CASE event = entry[w].event
    BY <1>1, <1>2, <2>2 DEF AuditInv, EntriesAreOwn
  <2>3. QED
    BY <1>1, <2>1, <2>2
<1>4. LogIsOrderly'
  BY <1>1 DEF AuditInv, LogIsOrderly
<1>5. /\ log' \in Seq(Pieces) /\ synced' \in 0..Len(log')
      /\ recorded' \subseteq AuditEvents /\ recorded \subseteq recorded'
  BY <1>1, <1>2 DEF AuditInv, AuditTypeOK, Pieces
<1>6. \A v \in Writers : v # w /\ step[v] \notin {"idle", "syncing"} =>
        \A i \in DOMAIN log' : log'[i].event.number # entry[v].event.number
  BY <1>1 DEF AuditInv, EntriesAreOwn
<1>7. QED
  BY <1>1, <1>3, <1>4, <1>5, <1>6, ReturnedAuditInv

LEMMA GiveUpAuditInv == ASSUME AuditInv, NEW w \in Writers, GiveUp(w) PROVE AuditInv'
<1>1. /\ step[w] # "idle" /\ Returns(w, step[w]) /\ UNCHANGED <<log, synced, recorded, made>>
  BY DEF GiveUp, Returns
<1>2. /\ log' \in Seq(Pieces) /\ synced' \in 0..Len(log') /\ recorded' \subseteq AuditEvents
      /\ LogIsOrderly' /\ RecordedAreSynced'
  BY <1>1 DEF AuditInv, AuditTypeOK, LogIsOrderly, RecordedAreSynced
<1>3. \A v \in Writers : v # w /\ step[v] \notin {"idle", "syncing"} =>
        \A i \in DOMAIN log' : log'[i].event.number # entry[v].event.number
  BY <1>1 DEF AuditInv, EntriesAreOwn
<1>4. QED
  BY <1>1, <1>2, <1>3, ReturnedAuditInv

\* What is synced stays, and what is kept of the rest stays in its order.
LEMMA LossAuditInv == ASSUME AuditInv, PowerLoss PROVE AuditInv'
<1>1. PICK n \in synced..Len(log) :
        \/ log' = SubSeq(log, 1, n)
        \/ /\ n < Len(log)
           /\ \E form \in CutForms(log[n + 1]) :
                log' = Append(SubSeq(log, 1, n), Cut(log[n + 1], form))
  BY DEF PowerLoss
<1>2. /\ log \in Seq(Pieces) /\ Len(log) \in Nat /\ DOMAIN log = 1..Len(log)
      /\ synced \in 0..Len(log) /\ made \in Nat
  BY LogTyped DEF AuditInv, AuditTypeOK
<1> DEFINE kept == SubSeq(log, 1, n)
<1>3. /\ kept \in Seq(Pieces) /\ Len(kept) = n
      /\ \A i \in 1..n : kept[i] = log[i]
  BY <1>2
<1> HIDE DEF kept
<1>4. /\ log' \in Seq(Pieces) /\ Len(log') \in Nat /\ n <= Len(log') /\ Len(log') <= Len(log)
      /\ \A i \in 1..n : log'[i] = log[i]
      /\ \A i \in 1..Len(log') : log'[i].event = log[i].event /\ log'[i].after = log[i].after
  <2>1. CASE log' = SubSeq(log, 1, n)
    BY <1>2, <1>3, <2>1 DEF kept
  <2>2. CASE /\ n < Len(log)
             /\ \E form \in CutForms(log[n + 1]) :
                  log' = Append(SubSeq(log, 1, n), Cut(log[n + 1], form))
    <3>1. PICK form \in CutForms(log[n + 1]) : log' = Append(kept, Cut(log[n + 1], form))
      BY <2>2 DEF kept
    <3> DEFINE piece == Cut(log[n + 1], form)
    <3>2. n + 1 \in DOMAIN log /\ log[n + 1] \in Pieces
      BY <1>2, <2>2
    <3>3. /\ piece \in Pieces
          /\ piece.event = log[n + 1].event /\ piece.after = log[n + 1].after
      BY <3>2 DEF Cut, Pieces, CutForms, Forms
    <3> HIDE DEF piece
    <3>4. log' = Append(kept, piece)
      BY <3>1 DEF piece
    <3>5. /\ log' \in Seq(Pieces) /\ Len(log') = n + 1
          /\ \A i \in 1..n : log'[i] = log[i]
          /\ log'[n + 1] = piece
      BY <1>3, <3>3, <3>4
    <3>6. QED
      BY <1>2, <2>2, <3>3, <3>5
  <2>3. QED
    BY <1>1, <2>1, <2>2
<1>5. /\ UNCHANGED <<mode, clock, made, recorded>> /\ synced' = Len(log')
      /\ step' = [w \in Writers |-> "idle"] /\ entry' = [w \in Writers |-> NoEntry]
      /\ existed' = [w \in Writers |-> FALSE]
  BY DEF PowerLoss
<1>6. DOMAIN log' = 1..Len(log') /\ DOMAIN log' \subseteq DOMAIN log
  BY <1>2, <1>4
<1>7. AuditTypeOK'
  BY <1>4, <1>5 DEF AuditInv, AuditTypeOK
<1>8. LogIsOrderly'
  <2>1. \A i \in DOMAIN log' : \A earlier \in log'[i].after :
          \E j \in 1..i : log'[j].event = earlier
    <3> SUFFICES ASSUME NEW i \in DOMAIN log', NEW earlier \in log'[i].after
                 PROVE  \E j \in 1..i : log'[j].event = earlier
      OBVIOUS
    <3>1. i \in DOMAIN log /\ earlier \in log[i].after
      BY <1>4, <1>6
    <3>2. PICK j \in 1..i : log[j].event = earlier
      BY <3>1 DEF AuditInv, LogIsOrderly
    <3>3. log'[j].event = earlier
      BY <1>4, <1>6, <3>2
    <3>4. QED
      BY <3>3
  <2>2. QED
    BY <1>4, <1>5, <1>6, <2>1 DEF AuditInv, LogIsOrderly
<1>9. EntriesAreOwn'
  BY <1>5 DEF EntriesAreOwn
<1>10. RecordedAreSynced'
  BY <1>1, <1>2, <1>4, <1>5 DEF AuditInv, RecordedAreSynced
<1>11. QED
  BY <1>5, <1>7, <1>8, <1>9, <1>10 DEF AuditInv

LEMMA SpecAuditInv == AuditSpec => []AuditInv
<1>1. AuditInv /\ [AuditNext]_auditVars => AuditInv'
  <2> SUFFICES ASSUME AuditInv, [AuditNext]_auditVars PROVE AuditInv'
    OBVIOUS
  <2>1. CASE UNCHANGED auditVars
    BY <2>1
    DEF auditVars, AuditInv, AuditTypeOK, LogIsOrderly, EntriesAreOwn, RecordedAreSynced
  <2>2. CASE \E w \in Writers :
               \/ Make(w) \/ LookForFile(w) \/ OpenFile(w) \/ RestrictFile(w)
               \/ AppendLine(w) \/ AppendPart(w) \/ SyncFile(w) \/ GiveUp(w)
    BY <2>2, MakeAuditInv, WaitAuditInv, AppendLineAuditInv, AppendPartAuditInv, SyncAuditInv,
       GiveUpAuditInv
  <2>3. CASE PowerLoss
    BY <2>3, LossAuditInv
  <2>4. CASE AuditTick
    <3>1. UNCHANGED <<log, synced, mode, made, step, entry, existed, recorded>>
      BY <2>4 DEF AuditTick
    <3>2. clock' \in 0..MaxClock
      BY <2>4, AuditLogAssumption DEF AuditTick, AuditInv, AuditTypeOK
    <3>3. QED
      BY <3>1, <3>2 DEF AuditInv, AuditTypeOK, LogIsOrderly, EntriesAreOwn, RecordedAreSynced
  <2>5. QED
    BY <2>1, <2>2, <2>3, <2>4 DEF AuditNext
<1>2. QED
  BY <1>1, InitAuditInv, PTL DEF AuditSpec

\* The day of an event is in every range of days that ends with it.
LEMMA DaysMatch ==
  ASSUME NEW event \in AuditEvents, NEW first \in 0..Day(event)
  PROVE  Matches(event, [coordinates |-> {event.coordinate}, since |-> WidenSince(first),
                         until |-> WidenUntil(Day(event))])
<1>1. event.ts \in Nat /\ DayLength \in Nat /\ DayLength # 0
  BY AuditLogAssumption DEF AuditEvents
<1>2. /\ Day(event) \in Nat /\ event.ts % DayLength \in 0..(DayLength - 1)
      /\ (Day(event) + 1) * DayLength = event.ts + (DayLength - (event.ts % DayLength))
  BY <1>1, WindowsEnd DEF Day
<1>3. Day(event) * DayLength <= event.ts /\ event.ts <= Day(event) * DayLength + DayLength - 1
  BY <1>1, <1>2
<1>4. first * DayLength <= Day(event) * DayLength
  BY <1>1, <1>2
<1>5. first * DayLength \in Nat /\ Day(event) * DayLength \in Nat
  BY <1>1, <1>2
<1>6. QED
  BY <1>1, <1>3, <1>4, <1>5 DEF Matches, WidenSince, WidenUntil

\* Whatever other writers, full disks and losses of power do, an event whose
\* record() returned Ok keeps its one line, after all that were recorded before,
\* and is found by its day unless a torn piece spoils it.
THEOREM RecordsStayReadable == AuditSpec => []RecordedIsRead
<1>1. AuditInv => RecordedIsRead
  <2> SUFFICES ASSUME AuditInv, NEW event \in recorded
               PROVE  \E i \in DOMAIN log :
                        /\ log[i].event = event /\ log[i].form = "line"
                        /\ \A j \in DOMAIN log : log[j].event = event => j = i
                        /\ \A earlier \in log[i].after : \E j \in 1..i : log[j].event = earlier
                        /\ ~Spoiled(i) => \A first \in 0..Day(event) :
                             event \in AuditView({event.coordinate}, first, Day(event))
    BY DEF RecordedIsRead
  <2>1. PICK i \in 1..synced : log[i].event = event /\ log[i].form = "line"
    BY DEF AuditInv, RecordedAreSynced
  <2>2. i \in DOMAIN log
    BY LogTyped
  <2>3. \A j \in DOMAIN log : log[j].event = event => j = i
    BY <2>1, <2>2 DEF AuditInv, LogIsOrderly
  <2>4. \A earlier \in log[i].after : \E j \in 1..i : log[j].event = earlier
    BY <2>2 DEF AuditInv, LogIsOrderly
  <2>5. ASSUME ~Spoiled(i), NEW first \in 0..Day(event)
        PROVE  event \in AuditView({event.coordinate}, first, Day(event))
    <3>1. event \in AuditEvents
      BY DEF AuditInv, AuditTypeOK
    <3>2. IsRead(i)
      BY <2>1, <2>5 DEF Spoiled, IsRead, EndsLine
    <3>3. Matches(log[i].event, [coordinates |-> {event.coordinate}, since |-> WidenSince(first),
                                 until |-> WidenUntil(Day(event))])
      BY <2>1, <3>1, DaysMatch
    <3>4. QED
      BY <2>1, <2>2, <3>2, <3>3 DEF AuditView
  <2>6. QED
    BY <2>1, <2>2, <2>3, <2>4, <2>5
<1>2. QED
  BY <1>1, SpecAuditInv, PTL
-----------------------------------------------------------------------------
(* The types of the five parts.                                             *)

\* What every part keeps is of its type, and of a program's pipes: nothing is read
\* before it was written, nothing is written that is not in the run, and no
\* program has more input than it was fed (run, Command::output, copy_to_clipboard).
THEOREM DesktopTypesCorrect ==
  /\ ExternalSpec => []ExternalTypeOK
  /\ AuditSpec => []AuditTypeOK
  /\ TotpSpec => []TotpTypeOK
  /\ UiSpec => []UiTypeOK
  /\ FormatterSpec => []FormatterTypeOK
<1>1. AuditInv => AuditTypeOK
  BY DEF AuditInv
<1>2. TotpInv => TotpTypeOK
  BY DEF TotpInv
<1>3. UiInv => UiTypeOK
  BY DEF UiInv
<1>4. FormatterInv => FormatterTypeOK
  BY DEF FormatterInv
<1> QED
  BY <1>1, <1>2, <1>3, <1>4, SpecExternalTypes, SpecAuditInv, InitTotpInv, NextTotpInv, SpecUiInv,
     SpecFormatterInv, PTL DEF TotpSpec
=============================================================================
