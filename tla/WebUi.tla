-------------------------------- MODULE WebUi --------------------------------
(***************************************************************************)
(* `kovra ui` (cli/src/commands.rs), natively and with --docker, and the   *)
(* server it starts (webui/src/lib.rs, serve; in the container by          *)
(* webui/src/bin/kovra-ui.rs): the approval of the launch, the key that is *)
(* staged for the container, requests that come and go and may wait for a  *)
(* confirmation, the idle watchdog, and the ways it all ends.              *)
(*                                                                         *)
(* What the requests do is in SecretAdmin and how a confirmation is        *)
(* answered in Confirmation.  A request is there once the server has read  *)
(* its head: a connection that was not accepted yet, or said nothing, is   *)
(* not.                                                                    *)
(***************************************************************************)
EXTENDS Naturals

CONSTANTS
  Browsers,              \* clients, each with one request, or what is left of it, at a time
  Idles,                 \* what --idle may be
  Nap                    \* the longest sleep of the watchdog, 5 s

ASSUME WebUiAssumption == Idles \subseteq Nat /\ Nap \in Nat \ {0}

VARIABLES
  launch,                \* the arguments: --docker, --no-confirm, --idle
  cli,                   \* where `kovra ui` is
  approved,              \* the launch was approved
  staged,                \* of the directory with the key, for the container; "left" by the guard
  server,
  quiet,                 \* time since the last touch, as far as it matters
  napped,                \* how long the watchdog slept
  requests               \* per browser

uiVars == <<launch, cli, approved, staged, server, quiet, napped, requests>>

\* Accepted and not answered yet.  "foreign": it names a host or an origin that
\* is not loopback; "own": any other, before it is touched; "sending": its body
\* is not all there yet.
InFlight == {"foreign", "own", "sending", "handling", "confirming"}

UiTypeOK ==
  /\ launch \in [docker : BOOLEAN, noConfirm : BOOLEAN, idle : Idles]
  /\ cli \in {"asking", "launching", "checking", "staging", "running", "serving", "waiting",
              "stopping", "cleaning", "ended", "killed"}
  /\ approved \in BOOLEAN
  /\ staged \in {"no", "part", "key", "left"}
  /\ server \in {"down", "starting", "up", "draining", "closing", "gone"}
  /\ quiet \in 0..launch.idle
  /\ napped \in 0..Nap
  /\ requests \in [Browsers -> InFlight \union {"none", "answered", "abandoned", "dropped"}]

UiInit ==
  /\ launch \in [docker : BOOLEAN, noConfirm : BOOLEAN, idle : Idles]
  /\ cli = "asking"
  /\ approved = FALSE
  /\ staged = "no"
  /\ server = "down"
  /\ quiet = 0
  /\ napped = 0
  /\ requests = [b \in Browsers |-> "none"]

-----------------------------------------------------------------------------
(* The launch.                                                              *)

CliGoes(from, to) == cli = from /\ cli' = to

atServer == <<quiet, napped, requests>>

ApproveLaunch ==
  /\ CliGoes("asking", IF launch.docker THEN "checking" ELSE "launching")
  /\ approved' = ~launch.noConfirm
  /\ UNCHANGED <<launch, staged, server, atServer>>

\* Denied, or nobody answered in time.
RefuseLaunch ==
  /\ CliGoes("asking", "ended")
  /\ ~launch.noConfirm
  /\ UNCHANGED <<launch, approved, staged, server, atServer>>

\* The master key is at hand and the port is free; AppState is new.
Bind ==
  /\ CliGoes("launching", "serving")
  /\ server' = "up"
  /\ UNCHANGED <<launch, approved, staged, atServer>>

BindFails ==
  /\ CliGoes("launching", "ended")
  /\ UNCHANGED <<launch, approved, staged, server, atServer>>

\* which_docker, ensure_image, the master key.
Check ==
  /\ CliGoes("checking", "staging")
  /\ UNCHANGED <<launch, approved, staged, server, atServer>>

CheckFails ==
  /\ CliGoes("checking", "ended")
  /\ UNCHANGED <<launch, approved, staged, server, atServer>>

Stage ==
  /\ CliGoes("staging", "running")
  /\ staged' = "key"
  /\ UNCHANGED <<launch, approved, server, atServer>>

\* No directory, or a part of the key in it: there is no guard for it yet.
StageFails ==
  /\ CliGoes("staging", "ended")
  /\ staged' \in {"no", "part"}
  /\ UNCHANGED <<launch, approved, server, atServer>>

DockerRun ==
  /\ CliGoes("running", "waiting")
  /\ server' = "starting"
  /\ UNCHANGED <<launch, approved, staged, atServer>>

\* Mutant of DockerRunFails: the guard was not made before the command.
DockerRunFailsUnguarded ==
  /\ CliGoes("running", "ended")
  /\ UNCHANGED <<launch, approved, staged, server, atServer>>

\* The guard removes the directory; nobody hears of it when it cannot.
Removed == staged' \in {"no", "left"}

DockerRunFails ==
  /\ CliGoes("running", "ended")
  /\ Removed
  /\ UNCHANGED <<launch, approved, server, atServer>>

\* In the container: the key is read and the port bound, or not.
ServerStarts ==
  /\ server = "starting"
  /\ server' \in {"up", "gone"}
  /\ UNCHANGED <<launch, cli, approved, staged, atServer>>

-----------------------------------------------------------------------------
(* Requests.                                                                *)

Becomes(b, from, to) ==
  /\ requests[b] = from
  /\ requests' = [requests EXCEPT ![b] = to]
  /\ UNCHANGED <<launch, cli, approved, staged, server>>

Arrive(b) ==
  /\ server = "up"
  /\ \E from \in {"none", "answered"}, to \in {"foreign", "own"} : Becomes(b, from, to)
  /\ UNCHANGED <<quiet, napped>>

Serves == server \in {"up", "draining"}

\* Mutant of RefuseForeign: the clock is refreshed first.
RefuseForeignTouched(b) ==
  /\ Serves
  /\ Becomes(b, "foreign", "answered")
  /\ quiet' = 0
  /\ UNCHANGED napped

RefuseForeign(b) ==
  /\ Serves
  /\ Becomes(b, "foreign", "answered")
  /\ UNCHANGED <<quiet, napped>>

\* loopback_guard, then require_session, which may refuse it.
Touch(b) ==
  /\ Serves
  /\ \E to \in {"sending", "handling", "answered"} : Becomes(b, "own", to)
  /\ quiet' = 0
  /\ UNCHANGED napped

\* The rest of the body comes, when the client sends it: nothing limits the wait.
BodyArrives(b) ==
  /\ Serves
  /\ Becomes(b, "sending", "handling")
  /\ UNCHANGED <<quiet, napped>>

Reply(b) ==
  /\ Serves
  /\ Becomes(b, "handling", "answered")
  /\ UNCHANGED <<quiet, napped>>

\* confirm_action, in a thread of its own.
AskPerson(b) ==
  /\ Serves
  /\ Becomes(b, "handling", "confirming")
  /\ UNCHANGED <<quiet, napped>>

\* Somebody answered, or it timed out; the handler goes on and replies.
ConfirmationEnds(b) ==
  /\ Serves
  /\ Becomes(b, "confirming", "answered")
  /\ UNCHANGED <<quiet, napped>>

\* The client closes its connection: the handler is dropped where it awaits, a
\* thread that waits for a confirmation stays, and does nothing with the answer.
GoAway(b) ==
  /\ Serves
  /\ \/ \E from \in InFlight \ {"confirming"} : Becomes(b, from, "none")
     \/ Becomes(b, "confirming", "abandoned")
  /\ UNCHANGED <<quiet, napped>>

AbandonedEnds(b) ==
  /\ Becomes(b, "abandoned", "none")
  /\ UNCHANGED <<quiet, napped>>

-----------------------------------------------------------------------------
(* The end of the server.                                                   *)

NapLength == IF launch.idle < Nap THEN launch.idle ELSE Nap

UiSecond ==
  /\ server = "up"
  /\ quiet' = IF quiet < launch.idle THEN quiet + 1 ELSE quiet
  /\ napped' = IF napped < NapLength THEN napped + 1 ELSE napped
  /\ quiet' # quiet \/ napped' # napped
  /\ UNCHANGED <<launch, cli, approved, staged, server, requests>>

\* The watchdog sleeps and looks.
NapAgain ==
  /\ server = "up"
  /\ napped = NapLength
  /\ quiet < launch.idle
  /\ napped' = 0
  /\ UNCHANGED <<launch, cli, approved, staged, server, quiet, requests>>

ShutDownIdle ==
  /\ server = "up"
  /\ napped = NapLength
  /\ quiet >= launch.idle
  /\ server' = "draining"
  /\ UNCHANGED <<launch, cli, approved, staged, atServer>>

\* Ctrl-C; the container has no terminal.
Interrupt ==
  /\ server = "up"
  /\ ~launch.docker
  /\ server' = "draining"
  /\ UNCHANGED <<launch, cli, approved, staged, atServer>>

Dropped == [b \in Browsers |-> IF requests[b] \in InFlight THEN "dropped" ELSE "none"]

\* Mutant of AllServed: the server ends with its listener.
ServedAtOnce ==
  /\ server = "draining"
  /\ server' = "closing"
  /\ requests' = [b \in Browsers |-> IF requests[b] = "abandoned" THEN "abandoned" ELSE Dropped[b]]
  /\ UNCHANGED <<launch, cli, approved, staged, quiet, napped>>

\* with_graceful_shutdown: no new connections, and all requests are finished.
AllServed ==
  /\ server = "draining"
  /\ \A b \in Browsers : requests[b] \notin InFlight
  /\ server' = "closing"
  /\ UNCHANGED <<launch, cli, approved, staged, atServer>>

\* The runtime goes when its threads have ended, and natively the command with it.
CloseServer ==
  /\ server = "closing"
  /\ \A b \in Browsers : requests[b] # "abandoned"
  /\ server' = "gone"
  /\ cli' = IF launch.docker THEN cli ELSE "ended"
  /\ UNCHANGED <<launch, approved, staged, atServer>>

-----------------------------------------------------------------------------
(* The end of the command.                                                  *)

\* Enter, or the end of the input.
PressEnter ==
  /\ CliGoes("waiting", "stopping")
  /\ UNCHANGED <<launch, approved, staged, server, atServer>>

\* `docker stop`: the server, the first process there, has no handler for the
\* signal it gets first, and is killed after a while.  When `docker stop` fails
\* the server goes on, and `kovra ui` ends all the same.
StopContainer ==
  /\ CliGoes("stopping", "cleaning")
  /\ \/ server' = "gone" /\ requests' = Dropped
     \/ UNCHANGED <<server, requests>>
  /\ UNCHANGED <<launch, approved, staged, quiet, napped>>

DropGuard ==
  /\ CliGoes("cleaning", "ended")
  /\ Removed
  /\ UNCHANGED <<launch, approved, server, atServer>>

\* A signal ends `kovra ui`: with --docker Ctrl-C too.  The container goes on.
KillCli ==
  /\ cli \notin {"ended", "killed"}
  /\ cli' = "killed"
  /\ IF launch.docker THEN UNCHANGED <<server, requests>>
     ELSE server' = (IF server = "down" THEN "down" ELSE "gone") /\ requests' = Dropped
  /\ UNCHANGED <<launch, approved, staged, quiet, napped>>

-----------------------------------------------------------------------------
LaunchSteps ==
  \/ ApproveLaunch \/ RefuseLaunch \/ Bind \/ BindFails \/ Check \/ CheckFails
  \/ Stage \/ StageFails \/ DockerRun \/ DockerRunFails

Answering(b) == RefuseForeign(b) \/ Touch(b) \/ Reply(b) \/ AskPerson(b)

RequestSteps ==
  \E b \in Browsers :
    \/ Arrive(b) \/ Answering(b) \/ BodyArrives(b)
    \/ ConfirmationEnds(b) \/ GoAway(b) \/ AbandonedEnds(b)

Watchdog == NapAgain \/ ShutDownIdle

EndSteps ==
  \/ UiSecond \/ Watchdog \/ Interrupt \/ AllServed \/ CloseServer
  \/ PressEnter \/ StopContainer \/ DropGuard \/ KillCli

UiNext == LaunchSteps \/ ServerStarts \/ RequestSteps \/ EndSteps

\* The server goes on, time passes, and a confirmation ends at its timeout.
\* Nobody has to answer one, send a body, press Enter or close a connection.
UiFairness ==
  /\ \A b \in Browsers :
       WF_uiVars(Answering(b)) /\ WF_uiVars(ConfirmationEnds(b)) /\ WF_uiVars(AbandonedEnds(b))
  /\ WF_uiVars(UiSecond)
  /\ WF_uiVars(Watchdog)
  /\ WF_uiVars(AllServed)
  /\ WF_uiVars(CloseServer)

UiSpec == UiInit /\ [][UiNext]_uiVars /\ UiFairness

-----------------------------------------------------------------------------
\* The watchdog looks at the last touch, and a request may wait for a person much
\* longer than that: still no request that was accepted goes without an answer,
\* unless its client left or the process was killed, as `docker stop` does.
AcceptedIsAnswered ==
  \A b \in Browsers : requests[b] = "dropped" =>
    IF launch.docker THEN cli \in {"cleaning", "ended", "killed"} ELSE cli = "killed"

\* "Opening the admin Web UI is an attended action", "best-effort cleanup of the
\* staged key": there is a server or a staged key only after an approval, unless
\* it was waived; and a command that ended by itself has had the guard at the key
\* it staged, if it was only to find that it could not remove it.
StagedKeyIsAttended ==
  /\ server # "down" \/ staged # "no" => approved \/ launch.noConfirm
  /\ cli = "ended" => staged # "key"

\* A client that does not send the rest of its request holds up the end.
HeldOpen == \E b \in Browsers : requests[b] = "sending"

\* "Auto-shutdown after idle": the server ends, whatever was being confirmed,
\* unless requests keep coming that are not refused for their host or origin, or
\* one is held open for ever.
UiEnds ==
  \/ []<>(\E b \in Browsers : requests[b] = "own") \/ <>[]HeldOpen
  \/ (server = "up" ~> server = "gone")
=============================================================================
