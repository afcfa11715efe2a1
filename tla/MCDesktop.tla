------------------------------ MODULE MCDesktop ------------------------------
(***************************************************************************)
(* Instances for TLC of the modules about what kovra does on the desktop   *)
(* besides keeping secrets: the ssh-agent, the programs it runs, the audit *)
(* log, the TOTP codes, the Web UI's life and the devices it erases.  They *)
(* share no state, so each is checked by itself, in a scene of its own.    *)
(***************************************************************************)
EXTENDS SshAgent, ExternalCommand, AuditLog, Totp, WebUi, Formatter, TLC

CONSTANTS shop, k1, k2

\* The global vault first, as load_keys goes.
SomeSlots ==
  <<[environment |-> "dev", project |-> Global], [environment |-> "prod", project |-> shop]>>

\* One key that may be lowered, one more.
SomeStock ==
  {[key |-> k1, sensitivity |-> "medium"], [key |-> k1, sensitivity |-> "high"],
   [key |-> k2, sensitivity |-> "high"]}

\* No agent.toml, and one that serves its project alone.
SomeFiles ==
  {[environments |-> {}, projects |-> {}], [environments |-> {}, projects |-> {shop}]}

\* Nothing, less and more than a pipe holds, and every place of a line end.
SomeValues ==
  {<<>>, <<"a">>, <<"a", Newline>>, <<Newline>>, <<"a", "b">>, <<"a", Return>>, <<Return>>}

\* Every fault with the words that may come with it.
SomeFailures ==
  {[fault |-> "auth", err |-> <<"auth", "unreachable">>],
   [fault |-> "unreachable", err |-> <<"unreachable", "missing">>],
   [fault |-> "missing", err |-> <<"missing">>],
   [fault |-> "other", err |-> <<>>]}

-----------------------------------------------------------------------------
VARIABLE scene

Scenes == {"agent", "programs", "log", "code", "ui", "device"}
desktopVars == <<scene, vars, externalVars, auditVars, totpVars, uiVars, formatterVars>>

NoDevice ==
  /\ plugged = [n \in Nodes |-> NoDisk] /\ system = NoDisk /\ mounted = NoDisk
  /\ labelled = {} /\ moves = 0 /\ act = "idle" /\ unscanned = {} /\ offered = {}
  /\ node = NoNode /\ info = NoInfo /\ touched = FALSE
  /\ erased = NoDisk /\ kit = [f \in Files |-> NoDisk]

\* A module out of its scene has one initial state.
DesktopInit ==
  /\ scene \in Scenes
  /\ scene # "agent" =>
       /\ vault = [s \in DOMAIN Slots |-> None]
       /\ scope = CHOOSE some \in AgentScopes : TRUE
  /\ scene # "code" =>
       /\ time = 0 /\ terminal = FALSE /\ floor = NoFloor
       /\ period = CHOOSE some \in Periods : TRUE
  /\ scene # "ui" =>
       launch = [docker |-> FALSE, noConfirm |-> FALSE, idle |-> CHOOSE some \in Idles : TRUE]
  /\ Init /\ ExternalInit /\ AuditInit /\ TotpInit /\ UiInit
  /\ IF scene = "device" THEN FormatterInit ELSE NoDevice

InScene(name) == scene = name /\ UNCHANGED scene

\* The agent alone has a state it rests in; every other module may come to an end.
DesktopNext ==
  \/ InScene("agent") /\ Next /\ UNCHANGED <<externalVars, auditVars, totpVars, uiVars, formatterVars>>
  \/ InScene("programs") /\ ExternalNext /\ UNCHANGED <<vars, auditVars, totpVars, uiVars, formatterVars>>
  \/ InScene("log") /\ AuditNext /\ UNCHANGED <<vars, externalVars, totpVars, uiVars, formatterVars>>
  \/ InScene("code") /\ TotpNext /\ UNCHANGED <<vars, externalVars, auditVars, uiVars, formatterVars>>
  \/ InScene("ui") /\ UiNext /\ UNCHANGED <<vars, externalVars, auditVars, totpVars, formatterVars>>
  \/ InScene("device") /\ FormatterNext
       /\ UNCHANGED <<vars, externalVars, auditVars, totpVars, uiVars>>
  \/ scene # "agent" /\ UNCHANGED desktopVars

DesktopSpec ==
  DesktopInit /\ [][DesktopNext]_desktopVars /\ AgentRuns /\ ExternalFairness /\ UiFairness
=============================================================================
