------------------------------- MODULE AuditLog ------------------------------
(***************************************************************************)
(* The audit log (core/src/audit.rs): FileAuditSink::record, called by     *)
(* many processes on one file, and read_log with the filters of            *)
(* `kovra audit`, which read it back.                                      *)
(*                                                                         *)
(* The log is a sequence of pieces.  Whoever appends writes a piece at the *)
(* end: a line, or what was written of one when the disk was full.  A loss *)
(* of power keeps what was synced and cuts the rest anywhere.  A cut may   *)
(* fall inside a character that takes several bytes.                       *)
(***************************************************************************)
EXTENDS Naturals, Sequences, SequencesExt

CONSTANTS
  Writers,               \* processes
  Coordinates,           \* what events are about
  Wide,                  \* those with characters of several bytes
  MaxEvents, MaxClock,   \* bounds
  DayLength              \* of a day, in ticks of the clock

ASSUME AuditLogAssumption ==
  /\ Wide \subseteq Coordinates
  /\ MaxEvents \in Nat /\ MaxClock \in Nat /\ DayLength \in Nat \ {0}

\* Events are told apart by their number, in the order of their time stamps.
AuditEvents == [number : 1..MaxEvents, ts : 0..MaxClock, coordinate : Coordinates]

\* "line": with its line end; "open": all but the line end; "part": less than
\* the event; "split": less, and cut inside a character.
Forms == {"line", "open", "part", "split"}

\* `after`: the events that had been recorded when this one was made.
Pieces == [event : AuditEvents, form : Forms, after : SUBSET AuditEvents]

VARIABLES
  log,                   \* the file
  synced,                \* how many pieces are on the disk
  mode,                  \* of the file: it is private once it was restricted
  clock,
  made,                  \* how many events were made
  step,                  \* per writer, where record() is
  entry,                 \* per writer, the piece it is to append
  existed,               \* per writer, whether the file was there
  recorded               \* the events for which record() returned Ok

auditVars == <<log, synced, mode, clock, made, step, entry, existed, recorded>>

NoEntry == [event |-> [number |-> 0], form |-> "line", after |-> {}]

AuditTypeOK ==
  /\ log \in Seq(Pieces)
  /\ synced \in 0..Len(log)
  /\ mode \in {"absent", "default", "private"}
  /\ clock \in 0..MaxClock
  /\ made \in 0..MaxEvents
  /\ step \in [Writers -> {"idle", "looking", "opening", "restricting", "appending", "syncing"}]
  /\ \A w \in Writers : IF step[w] = "idle" THEN entry[w] = NoEntry
                         ELSE entry[w] \in Pieces /\ entry[w].form = "line"
  /\ existed \in [Writers -> BOOLEAN]
  /\ recorded \subseteq AuditEvents

AuditInit ==
  /\ log = <<>>
  /\ synced = 0
  /\ mode = "absent"
  /\ clock = 0
  /\ made = 0
  /\ step = [w \in Writers |-> "idle"]
  /\ entry = [w \in Writers |-> NoEntry]
  /\ existed = [w \in Writers |-> FALSE]
  /\ recorded = {}

-----------------------------------------------------------------------------
(* Writing.                                                                 *)

Goes(w, from, to) ==
  /\ step[w] = from
  /\ step' = [step EXCEPT ![w] = to]

\* record() returns.
Returns(w, from) ==
  /\ Goes(w, from, "idle")
  /\ entry' = [entry EXCEPT ![w] = NoEntry]
  /\ existed' = [existed EXCEPT ![w] = FALSE]
  /\ UNCHANGED <<mode, clock, made>>

\* AuditEvent::new, stamped by the clock.
Make(w) ==
  /\ Goes(w, "idle", "looking")
  /\ made < MaxEvents
  /\ made' = made + 1
  /\ \E a \in Coordinates :
       entry' = [entry EXCEPT ![w] =
                   [event |-> [number |-> made + 1, ts |-> clock, coordinate |-> a],
                    form |-> "line", after |-> recorded]]
  /\ UNCHANGED <<log, synced, mode, clock, existed, recorded>>

LookForFile(w) ==
  /\ Goes(w, "looking", "opening")
  /\ existed' = [existed EXCEPT ![w] = mode # "absent"]
  /\ UNCHANGED <<log, synced, mode, clock, made, entry, recorded>>

OpenFile(w) ==
  /\ Goes(w, "opening", IF existed[w] THEN "appending" ELSE "restricting")
  /\ mode' = IF mode = "absent" THEN "default" ELSE mode
  /\ UNCHANGED <<log, synced, clock, made, entry, existed, recorded>>

RestrictFile(w) ==
  /\ Goes(w, "restricting", "appending")
  /\ mode' = "private"
  /\ UNCHANGED <<log, synced, clock, made, entry, existed, recorded>>

\* O_APPEND: at the end, wherever that is by now.
AppendLine(w) ==
  /\ Goes(w, "appending", "syncing")
  /\ log' = Append(log, entry[w])
  /\ UNCHANGED <<synced, mode, clock, made, entry, existed, recorded>>

CutForms(piece) == {"open", "part"} \union IF piece.event.coordinate \in Wide THEN {"split"} ELSE {}
Cut(piece, form) == [piece EXCEPT !.form = form]

\* The disk is full: a part may have been written, record() fails.
AppendPart(w) ==
  /\ Returns(w, "appending")
  /\ \E form \in CutForms(entry[w]) : log' = Append(log, Cut(entry[w], form))
  /\ UNCHANGED <<synced, recorded>>

\* Mutant of SyncFile: only the data of the last time is known to be on the disk.
SyncNothing(w) ==
  /\ Returns(w, "syncing")
  /\ recorded' = recorded \union {entry[w].event}
  /\ UNCHANGED <<log, synced>>

\* sync_all, then Ok.
SyncFile(w) ==
  /\ Returns(w, "syncing")
  /\ synced' = Len(log)
  /\ recorded' = recorded \union {entry[w].event}
  /\ UNCHANGED log

\* A step fails and record() returns the error, which most callers ignore; or
\* the process is killed.
GiveUp(w) ==
  /\ step[w] # "idle"
  /\ Returns(w, step[w])
  /\ UNCHANGED <<log, synced, recorded>>

\* All processes die; of what was not synced any part is kept.
PowerLoss ==
  /\ \E n \in synced..Len(log) :
       \/ log' = SubSeq(log, 1, n)
       \/ /\ n < Len(log)
          /\ log[n + 1].form = "line"
          /\ \E form \in CutForms(log[n + 1]) :
               log' = Append(SubSeq(log, 1, n), Cut(log[n + 1], form))
  /\ synced' = Len(log')
  /\ step' = [w \in Writers |-> "idle"]
  /\ entry' = [w \in Writers |-> NoEntry]
  /\ existed' = [w \in Writers |-> FALSE]
  /\ UNCHANGED <<mode, clock, made, recorded>>

AuditTick ==
  /\ clock < MaxClock
  /\ clock' = clock + 1
  /\ UNCHANGED <<log, synced, mode, made, step, entry, existed, recorded>>

AuditNext ==
  \/ \E w \in Writers :
       \/ Make(w) \/ LookForFile(w) \/ OpenFile(w) \/ RestrictFile(w)
       \/ AppendLine(w) \/ AppendPart(w) \/ SyncFile(w) \/ GiveUp(w)
  \/ PowerLoss
  \/ AuditTick

AuditSpec == AuditInit /\ [][AuditNext]_auditVars

-----------------------------------------------------------------------------
(* Reading.                                                                 *)

\* read_to_string wants UTF-8, of the whole file.
ReadFails == \E i \in DOMAIN log : log[i].form = "split"

\* A piece is read if it has a line of its own: the piece before it ended its
\* line, and so does this one, or the file.
StartsLine(i) == i = 1 \/ log[i - 1].form = "line"
EndsLine(i) == log[i].form = "line" \/ (log[i].form = "open" /\ i = Len(log))
IsRead(i) == ~ReadFails /\ StartsLine(i) /\ EndsLine(i)

\* widen_date: a bare date stands for its first, or its last, moment.
WidenSince(day) == day * DayLength
WidenUntil(day) == day * DayLength + DayLength - 1

\* AuditQuery::matches, of the filters the coordinate and the two times.
Matches(event, query) ==
  /\ event.coordinate \in query.coordinates
  /\ event.ts >= query.since
  /\ event.ts <= query.until

\* `kovra audit`, asked for coordinates and for days.
AuditView(coordinates, first, last) ==
  LET query == [coordinates |-> coordinates, since |-> WidenSince(first), until |-> WidenUntil(last)]
  IN  {log[i].event : i \in {j \in DOMAIN log : IsRead(j) /\ Matches(log[j].event, query)}}

-----------------------------------------------------------------------------
Day(event) == event.ts \div DayLength

\* What a torn piece spoils: a line that was glued to it, or, if it was cut inside
\* a character, the whole file.
Spoiled(i) == ReadFails \/ ~StartsLine(i)

\* "Append-only", "fsync": an event whose record() returned Ok stays in the log,
\* once, through any failure of others and any loss of power, after every event
\* that had been recorded before it was made; and `kovra audit` shows it to
\* whoever asks for its day and coordinate, unless a torn piece spoils it.
RecordedIsRead ==
  \A event \in recorded : \E i \in DOMAIN log :
    /\ log[i].event = event /\ log[i].form = "line"
    /\ \A j \in DOMAIN log : log[j].event = event => j = i
    /\ \A earlier \in log[i].after : \E j \in 1..i : log[j].event = earlier
    /\ ~Spoiled(i) => \A first \in 0..Day(event) :
         event \in AuditView({event.coordinate}, first, Day(event))

\* "Tolerant: a malformed or partial trailing line is skipped rather than failing
\* the whole read".
ReadIsTolerant == ~ReadFails
=============================================================================
