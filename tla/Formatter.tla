------------------------------ MODULE Formatter ------------------------------
(***************************************************************************)
(* `kovra exchange init` (cli/src/commands.rs) over format_removable       *)
(* (core/src/formatter.rs) and diskutil (native-macos/src/formatter.rs):   *)
(* a device is picked, probed, put to a person, erased and given the       *)
(* bootstrap kit.                                                          *)
(*                                                                         *)
(* Every step names the device by its node, and the operating system gives *)
(* a node to whatever is plugged in: hands may change what is there at any *)
(* moment.  The kit goes to a mount point, which is a name as well.        *)
(***************************************************************************)
EXTENDS Naturals, FiniteSets

CONSTANTS
  Nodes,                 \* /dev/disk0, ...
  Disks,
  Internal,              \* disks that diskutil calls internal,
  Loose,                 \* and that are removable or ejectable
  NoDisk, NoNode,
  MaxMoves               \* bound: how often a disk is taken out or put in

ASSUME FormatterAssumption ==
  /\ Internal \subseteq Disks
  /\ Loose \subseteq Disks
  /\ NoDisk \notin Disks /\ NoNode \notin Nodes
  /\ MaxMoves \in Nat

VARIABLES
  plugged,               \* what is at each node
  system,                \* the disk the machine was started from
  mounted,               \* whose volume is at /Volumes/KOVRA
  labelled,              \* the disks with a volume of that name
  moves,
  act,                   \* where exchange_init is
  unscanned,             \* nodes of `diskutil list` that are still to be probed
  offered,               \* the devices a person picks from
  node,                  \* the device
  info,                  \* the DeviceInfo of the headline
  touched,               \* the node changed hands since it was probed
  erased,                \* the disk that lost its data
  kit                    \* where each file of the kit was written

formatterVars == <<plugged, system, mounted, labelled, moves, act, unscanned, offered, node,
                   info, touched, erased, kit>>

Files == {"kovra", "install.sh"}

\* What diskutil said: a disk, and whether it shares the whole disk of `/`.
Infos == [disk : Disks, boot : BOOLEAN]
NoInfo == [disk |-> NoDisk, boot |-> FALSE]

\* Soldered in, or in use: nobody takes it out.
Fixed(d) == d = system \/ (d \in Internal /\ d \notin Loose)

FormatterTypeOK ==
  /\ plugged \in [Nodes -> Disks \union {NoDisk}]
  /\ \A m, n \in Nodes : plugged[m] = plugged[n] /\ plugged[m] # NoDisk => m = n
  /\ system \in {plugged[n] : n \in Nodes} \ {NoDisk}
  /\ mounted \in labelled \union {NoDisk}
  /\ labelled \subseteq Disks
  /\ moves \in 0..MaxMoves
  /\ act \in {"idle", "listing", "picking", "probing", "asking", "approved", "erased",
              "copied", "done", "failed"}
  /\ unscanned \subseteq Nodes
  /\ offered \subseteq [node : Nodes, info : Infos]
  /\ node \in Nodes \union {NoNode}
  /\ info \in Infos \union {NoInfo}
  /\ touched \in BOOLEAN
  /\ erased \in Disks \union {NoDisk}
  /\ kit \in [Files -> Disks \union {NoDisk}]

\* The machine's own disks are in; the others may be, at any node, and may come
\* from an earlier exchange.
FormatterInit ==
  /\ plugged \in [Nodes -> Disks \union {NoDisk}]
  /\ \A m, n \in Nodes : plugged[m] = plugged[n] /\ plugged[m] # NoDisk => m = n
  /\ system \in {plugged[n] : n \in Nodes} \ {NoDisk}
  /\ \A d \in Disks : Fixed(d) => d \in {plugged[n] : n \in Nodes}
  /\ labelled \in {s \in SUBSET Disks : Cardinality(s) <= 1 /\ \A d \in s : ~Fixed(d)}
  /\ mounted \in {d \in labelled : \E n \in Nodes : plugged[n] = d} \union {NoDisk}
  /\ mounted = NoDisk => \A d \in labelled : \A n \in Nodes : plugged[n] # d
  /\ moves = 0
  /\ act = "idle"
  /\ unscanned = {} /\ offered = {}
  /\ node = NoNode
  /\ info = NoInfo
  /\ touched = FALSE
  /\ erased = NoDisk
  /\ kit = [f \in Files |-> NoDisk]

-----------------------------------------------------------------------------
(* Hands, and the operating system.                                         *)

Moves(n) ==
  /\ moves < MaxMoves
  /\ moves' = moves + 1
  /\ touched' = (touched \/ n = node)
  /\ UNCHANGED <<system, labelled, act, unscanned, offered, node, info, erased, kit>>

TakeOut(n) ==
  /\ plugged[n] # NoDisk /\ ~Fixed(plugged[n])
  /\ plugged' = [plugged EXCEPT ![n] = NoDisk]
  /\ mounted' = IF mounted = plugged[n] THEN NoDisk ELSE mounted
  /\ Moves(n)

PutIn(n, d) ==
  /\ plugged[n] = NoDisk
  /\ \A m \in Nodes : plugged[m] # d
  /\ plugged' = [plugged EXCEPT ![n] = d]
  /\ mounted' = IF d \in labelled /\ mounted = NoDisk THEN d ELSE mounted
  /\ Moves(n)

\* What diskutil may answer.  It compares the names of two whole disks: that of
\* `/` may be missing (the call failed), or be that of a container on the disk.
Probe(n) ==
  {i \in Infos : i.disk = plugged[n] /\ (i.boot => i.disk = system)}

-----------------------------------------------------------------------------
(* The device.                                                              *)

Calls(from, to) ==
  /\ act = from
  /\ act' = to
  /\ UNCHANGED <<plugged, system, mounted, labelled, moves>>

Stops(from) ==
  /\ Calls(from, "failed")
  /\ UNCHANGED <<unscanned, offered, node, info, touched, erased, kit>>

\* Mutant of Eraseable: the rail looks at the boot volume alone.
EraseableUnlessBoot(i) == ~i.boot

\* assert_eraseable_target
Eraseable(i) == ~i.boot /\ (i.disk \in Internal => i.disk \in Loose)

\* --device, any that one types.
GiveDevice(n) ==
  /\ Calls("idle", "probing")
  /\ node' = n
  /\ UNCHANGED <<unscanned, offered, info, touched, erased, kit>>

\* choose_device: `diskutil list`, then a probe of each physical disk.
ListDevices ==
  /\ Calls("idle", "listing")
  /\ unscanned' = {n \in Nodes : plugged[n] # NoDisk}
  /\ UNCHANGED <<offered, node, info, touched, erased, kit>>

\* What the rail refuses is not offered.
Scanned(n, infos) ==
  /\ n \in unscanned
  /\ unscanned' = unscanned \ {n}
  /\ offered' = offered \union [node : {n}, info : {i \in infos : Eraseable(i)}]
  /\ Calls("listing", IF unscanned' # {} THEN "listing"
                      ELSE IF offered' # {} THEN "picking" ELSE "failed")
  /\ UNCHANGED <<node, info, touched, erased, kit>>

ScanDevice(n) == \E i \in Probe(n) : Scanned(n, {i})

\* It cannot be probed.
SkipDevice(n) == Scanned(n, {})

\* Mutant of PickDevice: the probe of the list is trusted.
PickDeviceOnce(device) ==
  /\ Calls("picking", "asking")
  /\ node' = device.node
  /\ info' = device.info
  /\ UNCHANGED <<unscanned, offered, touched, erased, kit>>

\* Only the node goes on: the device is probed again.
PickDevice(device) ==
  /\ Calls("picking", "probing")
  /\ node' = device.node
  /\ UNCHANGED <<unscanned, offered, info, touched, erased, kit>>

\* Anything but the number of a candidate.
PickNone == Stops("picking")

-----------------------------------------------------------------------------
(* format_removable, and the kit.                                           *)

\* probe, then the rail, before anyone is asked.
ProbeDevice ==
  /\ Calls("probing", "asking")
  /\ info' \in {i \in Probe(node) : Eraseable(i)}
  /\ touched' = FALSE
  /\ UNCHANGED <<unscanned, offered, node, erased, kit>>

\* diskutil failed, or the rail refuses.
RefuseDevice == Stops("probing")

ApproveWipe ==
  /\ Calls("asking", "approved")
  /\ UNCHANGED <<unscanned, offered, node, info, touched, erased, kit>>

\* A denial or the deadline.
DeclineWipe == Stops("asking")

\* A new volume takes the mount point, unless another of its name holds it.
Erases ==
  /\ plugged[node] # NoDisk
  /\ erased' = plugged[node]
  /\ labelled' = labelled \union {plugged[node]}
  /\ mounted' = IF mounted = NoDisk THEN plugged[node] ELSE mounted

EraseDevice ==
  /\ act = "approved" /\ act' = "erased"
  /\ Erases
  /\ UNCHANGED <<plugged, system, moves, unscanned, offered, node, info, touched, kit>>

\* An error, or the minute is over: the disk may be erased or not.
EraseFails ==
  /\ act = "approved" /\ act' = "failed"
  /\ Erases \/ UNCHANGED <<erased, labelled, mounted>>
  /\ UNCHANGED <<plugged, system, moves, unscanned, offered, node, info, touched, kit>>

\* To what is at the mount point; with nothing there, to a directory of that name.
Writes(from, file, to) ==
  /\ Calls(from, to)
  /\ kit' = [kit EXCEPT ![file] = IF mounted = NoDisk THEN system ELSE mounted]
  /\ UNCHANGED <<unscanned, offered, node, info, touched, erased>>

CopyBinary == Writes("erased", "kovra", "copied")
WriteScript == Writes("copied", "install.sh", "done")
BootstrapFails == Stops("erased") \/ Stops("copied")

FormatterNext ==
  \/ \E n \in Nodes : TakeOut(n) \/ (\E d \in Disks : PutIn(n, d))
  \/ \E n \in Nodes : GiveDevice(n) \/ ScanDevice(n) \/ SkipDevice(n)
  \/ \E device \in offered : PickDevice(device)
  \/ ListDevices \/ PickNone \/ ProbeDevice \/ RefuseDevice
  \/ ApproveWipe \/ DeclineWipe \/ EraseDevice \/ EraseFails
  \/ CopyBinary \/ WriteScript \/ BootstrapFails

FormatterSpec == FormatterInit /\ [][FormatterNext]_formatterVars

-----------------------------------------------------------------------------
\* "The catastrophe to prevent is erasing the system / an internal fixed disk"
\* (core/src/formatter.rs): no soldered disk loses its data, whatever is plugged
\* in and taken out meanwhile; and the disk the machine runs from only when
\* diskutil did not recognize it and a person approved that very disk.
SystemIsSpared ==
  erased # NoDisk =>
    /\ erased \in Internal => erased \in Loose
    /\ erased = system => info = [disk |-> system, boot |-> FALSE]

\* What a person approved is what is erased, and what carries the kit: unless
\* hands were at the device after it was probed, or, for the kit, another volume
\* has the name the kit is written to.
ShownDeviceIsUsed ==
  ~touched =>
    /\ erased # NoDisk => erased = info.disk
    /\ labelled \subseteq {erased} => \A f \in Files : kit[f] \in {erased, NoDisk}
=============================================================================
