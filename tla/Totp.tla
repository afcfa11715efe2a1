--------------------------------- MODULE Totp --------------------------------
(***************************************************************************)
(* `kovra code` (cli/src/commands.rs) over core/src/totp.rs: the code of a *)
(* TOTP enrollment is printed once, or shown with a countdown until a key  *)
(* is pressed.                                                             *)
(*                                                                         *)
(* A code is told by its counter, the window of time it is valid in.  Time *)
(* passes at any step, in whole seconds; `late` is what passed of it after *)
(* the approval while nobody waited for the end of a window on purpose: a  *)
(* slow disk under the audit, or a machine that was asleep.                *)
(***************************************************************************)
EXTENDS Naturals

CONSTANTS
  Periods,               \* the enrollment's, in 0..255 in the code
  Floors,                \* what --min-validity may be
  NoFloor,               \* --min-validity is not given
  MaxTime                \* bound

ASSUME TotpAssumption ==
  /\ Periods \subseteq Nat
  /\ Floors \subseteq Nat
  /\ NoFloor \notin Nat
  /\ MaxTime \in Nat

VARIABLES
  time,                  \* of the wall clock, for kovra and for who checks codes
  period, floor,
  terminal,              \* stdin and stdout are a terminal
  stage,                 \* where code() is
  reading,               \* the clock, when it was last read
  counter,               \* of the code in hand
  alarm,                 \* when the sleep ends
  late

totpInputs == <<period, floor, terminal>>
totpVars == <<time, totpInputs, stage, reading, counter, alarm, late>>

Stages == {"gate", "reading", "deriving", "choosing", "sleeping", "rederiving", "watching",
           "printed", "failed"}

TotpTypeOK ==
  /\ time \in Nat
  /\ period \in Periods
  /\ floor \in Floors \union {NoFloor}
  /\ terminal \in BOOLEAN
  /\ stage \in Stages
  /\ {reading, counter, alarm, late} \subseteq Nat
  /\ reading <= time
  /\ stage \in {"choosing", "sleeping", "rederiving", "watching", "printed"} => period # 0

TotpInit ==
  /\ time \in 0..MaxTime
  /\ period \in Periods
  /\ floor \in Floors \union {NoFloor}
  /\ terminal \in BOOLEAN
  /\ stage = "gate"
  /\ reading = 0
  /\ counter = 0
  /\ alarm = 0
  /\ late = 0

-----------------------------------------------------------------------------
SecondsRemaining(t) == period - (t % period)

\* Mutant of ReturnsCurrent: a code that lives just as long will do.
ReturnsCurrentAtLeast(remaining, seconds) == remaining >= seconds

ReturnsCurrent(remaining, seconds) == remaining > seconds

CounterAt(t) == t \div period

\* gate_private_key_op: see SecretAdmin.
GateApproves ==
  /\ stage = "gate"
  /\ stage' = "reading"
  /\ UNCHANGED <<time, totpInputs, reading, counter, alarm, late>>

GateRefuses ==
  /\ stage = "gate"
  /\ stage' = "failed"
  /\ UNCHANGED <<time, totpInputs, reading, counter, alarm, late>>

ReadClock ==
  /\ stage = "reading"
  /\ reading' = time
  /\ stage' = "deriving"
  /\ UNCHANGED <<time, totpInputs, counter, alarm, late>>

\* code_at refuses an empty period; then the audit.
DeriveFails ==
  /\ stage = "deriving"
  /\ period = 0
  /\ stage' = "failed"
  /\ UNCHANGED <<time, totpInputs, reading, counter, alarm, late>>

Derive ==
  /\ stage = "deriving"
  /\ period # 0
  /\ counter' = CounterAt(reading)
  /\ stage' = "choosing"
  /\ UNCHANGED <<time, totpInputs, reading, alarm, late>>

Impossible == floor >= period

RefuseFloor ==
  /\ stage = "choosing"
  /\ floor # NoFloor
  /\ Impossible
  /\ stage' = "failed"
  /\ UNCHANGED <<time, totpInputs, reading, counter, alarm, late>>

\* Standard output is not a terminal: the code is printed as it is.
PrintPlain ==
  /\ stage = "choosing"
  /\ floor = NoFloor
  /\ ~terminal
  /\ stage' = "printed"
  /\ UNCHANGED <<time, totpInputs, reading, counter, alarm, late>>

Choosing == stage = "choosing" /\ floor # NoFloor /\ ~Impossible

PrintCurrent ==
  /\ Choosing
  /\ ReturnsCurrent(SecondsRemaining(reading), floor)
  /\ stage' = "printed"
  /\ UNCHANGED <<time, totpInputs, reading, counter, alarm, late>>

\* The sleep begins now, whatever passed since the clock was read.
SleepOut ==
  /\ Choosing
  /\ ~ReturnsCurrent(SecondsRemaining(reading), floor)
  /\ alarm' = time + SecondsRemaining(reading)
  /\ stage' = "sleeping"
  /\ UNCHANGED <<time, totpInputs, reading, counter, late>>

WakeUp ==
  /\ stage = "sleeping"
  /\ time >= alarm
  /\ reading' = time
  /\ stage' = "rederiving"
  /\ UNCHANGED <<time, totpInputs, counter, alarm, late>>

PrintNext ==
  /\ stage = "rederiving"
  /\ counter' = CounterAt(reading)
  /\ stage' = "printed"
  /\ UNCHANGED <<time, totpInputs, reading, alarm, late>>

-----------------------------------------------------------------------------
(* countdown_view.                                                          *)

\* The first picture has the code that was derived before, and the seconds of
\* another look at the clock.
Watch ==
  /\ stage = "choosing"
  /\ floor = NoFloor
  /\ terminal
  /\ reading' = time
  /\ stage' = "watching"
  /\ UNCHANGED <<time, totpInputs, counter, alarm, late>>

\* The second changed: the next picture.
Refresh ==
  /\ stage = "watching"
  /\ time # reading
  /\ reading' = time
  /\ counter' = CounterAt(time)
  /\ late' = 0
  /\ UNCHANGED <<time, totpInputs, stage, alarm>>

PressKey ==
  /\ stage = "watching"
  /\ stage' = "printed"
  /\ UNCHANGED <<time, totpInputs, reading, counter, alarm, late>>

-----------------------------------------------------------------------------
WaitsOnPurpose == stage = "gate" \/ (stage = "sleeping" /\ time < alarm)

SecondPasses ==
  /\ stage \notin {"printed", "failed"}
  /\ time < MaxTime
  /\ time' = time + 1
  /\ late' = IF WaitsOnPurpose THEN late ELSE late + 1
  /\ UNCHANGED <<totpInputs, stage, reading, counter, alarm>>

TotpNext ==
  \/ GateApproves \/ GateRefuses \/ ReadClock \/ DeriveFails \/ Derive
  \/ RefuseFloor \/ PrintPlain \/ PrintCurrent \/ SleepOut \/ WakeUp \/ PrintNext
  \/ Watch \/ Refresh \/ PressKey
  \/ SecondPasses

TotpSpec == TotpInit /\ [][TotpNext]_totpVars

-----------------------------------------------------------------------------
WindowEnd == (counter + 1) * period

Asked == IF floor = NoFloor THEN 0 ELSE floor

\* "Guaranteed to have MORE than N seconds of validity", less what the machine
\* was late: wherever in a window it is asked for, and however long the approval
\* takes, a code that is printed or shown is valid for more than N seconds yet.
LivesLongEnough ==
  stage \in {"printed", "watching"} => WindowEnd + late > time + Asked
=============================================================================
