----------------------------- MODULE ServiceControl -----------------------------
(***************************************************************************)
(* The background service of a profile, internal/app/service: start, stop, *)
(* restart and unregister as sequences of calls of the platform's service  *)
(* manager, any of which may fail, next to bridges somebody runs in the    *)
(* foreground and to the kill command (cmd/lark-channel-bridge).  What the *)
(* manager itself does is external; it restarts what dies, but for the     *)
(* task scheduler.  A bridge holds the locks of its profile and its app    *)
(* from when it is listed until it dies.                                   *)
(***************************************************************************)
EXTENDS Naturals, FiniteSets

CONSTANTS Callers,     \* those who give commands
          Interactive, \* the callers that can be asked
          MaxPids, MaxCommands, MaxServiceFaults   \* bounds

VARIABLES platform,  \* "launchd", "systemd" or "schtasks"
          manager,   \* [file, up, auto, due, pid]: the definition is there, the service is to run, it is to run
                     \* after a logon, whether a process is to be started,
                     \* or restarted, the process
          bridges,   \* pid -> [kind, at]
          command,   \* caller -> the command given and how far it is
          commands, serviceFaults,
          outcome,   \* history: what was said last: [said, quiet, slips], where quiet is how the service was
                     \* left off, and slips is what makes exempt from it
          lastPid
serviceVars == <<platform, manager, bridges, command, commands, serviceFaults, outcome, lastPid>>

NoCommand == [cmd |-> "none", at |-> "none"]
At(c, where) == command' = [command EXCEPT ![c].at = where]
Ends(c) == command' = [command EXCEPT ![c] = NoCommand]
Fails == serviceFaults < MaxServiceFaults /\ serviceFaults' = serviceFaults + 1
Fine == UNCHANGED serviceFaults
Slip(what) == outcome' = [outcome EXCEPT !.slips = @ \cup {what}]

Alive == DOMAIN bridges
Listed == {p \in DOMAIN bridges : bridges[p].at \in {"listed", "connected"}}   \* readAndPruneProcesses
Dying(pids) == [p \in DOMAIN bridges \ pids |-> bridges[p]]
Service == {manager.pid} \cap Alive
-----------------------------------------------------------------------------
\* What the calls of the adapters come to: the states they may leave, none if the manager refuses.
launchd(op, m) ==
  CASE op = "install" -> {[m EXCEPT !.file = TRUE, !.auto = TRUE]}
    [] op = "start" /\ m.file /\ ~m.up -> {[m EXCEPT !.up = TRUE, !.due = "start"]}
    [] op \in {"stop", "stopAndDisable"} /\ m.up -> {[m EXCEPT !.up = FALSE, !.due = "no", !.pid = 0]}
    [] op = "restart" /\ m.up -> {[m EXCEPT !.due = "start", !.pid = 0]}
    [] op = "delete" /\ m.file -> {[m EXCEPT !.file = FALSE, !.auto = FALSE]}
    [] OTHER -> {}
systemd(op, m) ==
  CASE op = "install" -> {[m EXCEPT !.file = TRUE]}
    [] op = "start" /\ m.file -> {[m EXCEPT !.up = TRUE, !.auto = TRUE, !.due = IF Service = {} THEN "start" ELSE @]}
    [] op = "stop" /\ m.file -> {[m EXCEPT !.up = FALSE, !.due = "no", !.pid = 0]}
    [] op = "stopAndDisable" /\ m.file -> {[m EXCEPT !.up = FALSE, !.auto = FALSE, !.due = "no", !.pid = 0]}
    [] op = "restart" /\ m.file -> {[m EXCEPT !.up = TRUE, !.due = "start", !.pid = 0]}
    [] op = "delete" -> {[m EXCEPT !.file = FALSE, !.up = Service # {} /\ @, !.due = "no"]}
    [] OTHER -> {}
schtasks(op, m) ==
  CASE op = "install" -> {[m EXCEPT !.file = TRUE, !.auto = TRUE]}
    [] op = "start" /\ m.file /\ m.auto -> {[m EXCEPT !.up = TRUE, !.due = IF Service = {} THEN "start" ELSE @]}
    [] op = "stop" /\ m.up -> {[m EXCEPT !.up = FALSE, !.due = "no", !.pid = 0]}
    [] op = "stopAndDisable" /\ m.file -> {[m EXCEPT !.up = FALSE, !.auto = FALSE, !.due = "no", !.pid = 0]}
    [] op = "restart" /\ m.file -> IF m.auto THEN {[m EXCEPT !.up = TRUE, !.due = "start", !.pid = 0]} ELSE {}
    [] op = "delete" /\ m.file -> {[m EXCEPT !.file = FALSE, !.auto = FALSE]}
    [] OTHER -> {}
Results(op) ==
  CASE platform = "launchd" -> launchd(op, manager) [] platform = "systemd" -> systemd(op, manager)
    [] platform = "schtasks" -> schtasks(op, manager)
Calls(op) ==
  \E m \in Results(op) :
    /\ manager' = m
    /\ bridges' = Dying(IF m.pid # manager.pid THEN Service ELSE {})
\* systemd is not active between the death of a process and its restart.
IsRunning == manager.up /\ ~(platform = "systemd" /\ manager.due = "restart")
-----------------------------------------------------------------------------
\* Processes come and go: the manager starts what is due, somebody runs a bridge, a bridge dies.
Begins(kind) ==
  /\ lastPid < MaxPids /\ lastPid' = lastPid + 1
  /\ bridges' = [p \in DOMAIN bridges \cup {lastPid'} |-> IF p = lastPid' THEN [kind |-> kind, at |-> "boot"] ELSE bridges[p]]
Spawns ==
  /\ manager.due # "no" /\ Begins("service") /\ manager' = [manager EXCEPT !.due = "no", !.pid = lastPid']
  /\ UNCHANGED <<platform, command, commands, serviceFaults, outcome>>
RunsInForeground ==
  /\ \A p \in Alive : bridges[p].kind = "service"
  /\ Begins("foreground")
  /\ IF \E c \in Callers : command[c].cmd \in {"start", "restart"} THEN Slip("foreground") ELSE UNCHANGED outcome
  /\ UNCHANGED <<platform, manager, command, commands, serviceFaults>>
Died(p, m) == [m EXCEPT !.up = @ /\ (p = m.pid => platform # "schtasks"), !.due = IF p = m.pid /\ m.up /\ platform # "schtasks" THEN "restart" ELSE @]
Advances(p) ==
  /\ \/ bridges[p].at = "boot" /\ Listed = {} /\ bridges' = [bridges EXCEPT ![p].at = "listed"] /\ Fine /\ UNCHANGED manager
     \/ bridges[p].at = "listed" /\ bridges' = [bridges EXCEPT ![p].at = "connected"] /\ Fine /\ UNCHANGED manager
     \/ bridges[p].at = "boot" /\ Listed # {} /\ bridges' = Dying({p}) /\ manager' = Died(p, manager) /\ Fine   \* the lock is held
     \/ bridges' = Dying({p}) /\ manager' = Died(p, manager) /\ Fails
  /\ UNCHANGED <<platform, command, commands, outcome, lastPid>>
Logon ==
  /\ \A c \in Callers : command[c] = NoCommand
  /\ bridges' = Dying(DOMAIN bridges) /\ manager' = [manager EXCEPT !.up = manager.auto /\ manager.file, !.due = IF manager.auto /\ manager.file THEN "start" ELSE "no", !.pid = 0]
  /\ Fails /\ Slip("logon") /\ UNCHANGED <<platform, command, commands, lastPid>>
-----------------------------------------------------------------------------
Begun(c, cmd, at) == command' = [command EXCEPT ![c] = [cmd |-> cmd, at |-> at, tries |-> 0, own |-> {}, before |-> {}]]
Given(c, cmd, at) == command[c] = NoCommand /\ commands < MaxCommands /\ commands' = commands + 1 /\ Begun(c, cmd, at)
Gives(c) ==
  /\ \E given \in {<<"start", "locks">>, <<"stop", "exists">>, <<"restart", "exists">>, <<"unregister", "exists">>} : Given(c, given[1], given[2])
  /\ IF \E p \in Alive : bridges[p] = [kind |-> "foreground", at |-> "boot"] THEN Slip("foreground") ELSE UNCHANGED outcome
  /\ UNCHANGED <<platform, manager, bridges, serviceFaults, lastPid>>
Says(c, what) == Ends(c) /\ outcome' = [outcome EXCEPT !.said = <<what>>]

\* currentServicePID is asked once; whoever else holds the locks is in the way, and is stopped if the caller agrees.
currentServicePID == IF IsRunning THEN Service ELSE {}
Agrees(c) == c \in Interactive /\ command[c].tries < 2
InTheWay(c) == Listed \ command[c].own
ensureRuntimeLocksAvailable(c) ==
  /\ command[c].at = "locks"
  /\ command' = [command EXCEPT ![c].at = "try", ![c].own = currentServicePID]
  /\ UNCHANGED <<platform, manager, bridges, commands, serviceFaults, outcome, lastPid>>
tryRuntimeLocks(c) ==
  /\ command[c].at = "try"
  /\ \/ InTheWay(c) = {} /\ Begun(c, "start", "preflight") /\ UNCHANGED <<outcome, bridges, manager>>
     \/ InTheWay(c) # {} /\ Says(c, "refused") /\ UNCHANGED <<bridges, manager>>
     \/ /\ InTheWay(c) # {} /\ Agrees(c)
        /\ bridges' = Dying(InTheWay(c)) /\ UNCHANGED outcome
        /\ manager' = IF manager.pid \in InTheWay(c) THEN Died(manager.pid, manager) ELSE manager
        /\ command' = [command EXCEPT ![c].tries = @ + 1]
  /\ UNCHANGED <<platform, commands, serviceFaults, lastPid>>
Preflight(c) ==
  /\ command[c].at = "preflight" /\ UNCHANGED <<platform, manager, bridges, commands, lastPid>>
  /\ (At(c, "install") /\ Fine /\ UNCHANGED outcome) \/ (Says(c, "refused") /\ Fails)
\* A manager that cannot be told of the definition has it all the same.
Install(c) ==
  /\ command[c].at = "install" /\ Calls("install") /\ UNCHANGED <<platform, commands, lastPid>>
  /\ outcome' = [outcome EXCEPT !.quiet = "no"] /\ ((At(c, "replace") /\ Fine) \/ (Ends(c) /\ Fails))
\* The service that runs is stopped and waited for.
Replace(c) ==
  /\ command[c].at = "replace" /\ UNCHANGED <<platform, commands, lastPid>>
  /\ \/ ~IsRunning /\ At(c, "before") /\ Fine /\ UNCHANGED <<manager, bridges, outcome>>
     \/ IsRunning /\ Calls("stop") /\ At(c, "before") /\ Fine /\ UNCHANGED outcome
     \/ IsRunning /\ Says(c, "failed") /\ Fails /\ UNCHANGED <<manager, bridges>>
\* Mutant of currentPIDs: nobody is looked for.
currentPIDsNone(c) ==
  /\ command[c].at = "before" /\ At(c, "call") /\ Fine
  /\ UNCHANGED <<platform, manager, bridges, commands, outcome, lastPid>>
\* currentPIDs: an error counts as none.
currentPIDs(c) ==
  /\ command[c].at = "before" /\ UNCHANGED <<platform, manager, bridges, commands, lastPid>>
  /\ \/ command' = [command EXCEPT ![c].at = "call", ![c].before = Listed] /\ Fine /\ UNCHANGED outcome
     \/ At(c, "call") /\ Fails /\ Slip("blind")
CallsFor(c, op) ==
  /\ \/ Calls(op) /\ At(c, "wait") /\ Fine /\ outcome' = [outcome EXCEPT !.quiet = "no"]
     \/ Results(op) = {} /\ Says(c, "failed") /\ Fine /\ UNCHANGED <<manager, bridges>>
     \/ Says(c, "failed") /\ Fails /\ UNCHANGED <<manager, bridges>>
  /\ UNCHANGED <<platform, commands, lastPid>>
Start(c) == command[c].at = "call" /\ command[c].cmd = "start" /\ CallsFor(c, "start")
Restart(c) == command[c].at = "call" /\ command[c].cmd = "restart" /\ CallsFor(c, IF IsRunning THEN "restart" ELSE "start")
\* Asked until a process is there that was not before, or too much time has passed.
freshConnectedProcess(c) == {p \in Listed \ command[c].before : bridges[p].at = "connected"}
waitForServiceConnect(c) ==
  /\ command[c].at = "wait" /\ Fine /\ UNCHANGED <<platform, manager, bridges, commands, lastPid>>
  /\ \/ \E p \in freshConnectedProcess(c) : Ends(c) /\ outcome' = [outcome EXCEPT !.said = <<"connected", bridges[p].kind>>]
     \/ Says(c, "unseen")

\* Stop, Restart and Unregister begin with the definition.
Exists(c) ==
  /\ command[c].at = "exists" /\ Fine /\ UNCHANGED <<platform, manager, bridges, commands, lastPid>>
  /\ IF manager.file
     THEN At(c, IF command[c].cmd = "restart" THEN "before" ELSE "stop") /\ UNCHANGED outcome
     ELSE Says(c, "not-installed")
Dead == IF manager.up /\ ~IsRunning THEN {"restarting"} ELSE {}
LeftOff(how) == outcome' = [outcome EXCEPT !.quiet = how, !.said = <<how>>, !.slips = (@ \ {"logon"}) \cup Dead]
\* Mutant of Stop: the service starts again with the next logon.
StopForNow(c) ==
  /\ command[c].at = "stop" /\ UNCHANGED <<platform, commands, lastPid>>
  /\ \/ ~IsRunning /\ Fine /\ UNCHANGED <<manager, bridges>>
        /\ (IF command[c].cmd = "stop" THEN Ends(c) /\ LeftOff("not-running") ELSE At(c, "delete") /\ outcome' = [outcome EXCEPT !.slips = @ \cup Dead])
     \/ IsRunning /\ Calls("stop") /\ Fine
        /\ (IF command[c].cmd = "stop" THEN Ends(c) /\ LeftOff("stopped") ELSE At(c, "delete") /\ UNCHANGED outcome)
     \/ IsRunning /\ Says(c, "failed") /\ Fails /\ UNCHANGED <<manager, bridges>>
Stop(c) ==
  /\ command[c].at = "stop" /\ UNCHANGED <<platform, commands, lastPid>>
  /\ \/ ~IsRunning /\ Fine /\ UNCHANGED <<manager, bridges>>
        /\ (IF command[c].cmd = "stop" THEN Ends(c) /\ LeftOff("not-running") ELSE At(c, "delete") /\ outcome' = [outcome EXCEPT !.slips = @ \cup Dead])
     \/ IsRunning /\ Calls("stopAndDisable") /\ Fine
        /\ (IF command[c].cmd = "stop" THEN Ends(c) /\ LeftOff("stopped") ELSE At(c, "delete") /\ UNCHANGED outcome)
     \/ IsRunning /\ Says(c, "failed") /\ Fails /\ UNCHANGED <<manager, bridges>>
Unregister(c) ==
  /\ command[c].at = "delete" /\ UNCHANGED <<platform, commands, lastPid>>
  /\ \/ Calls("delete") /\ Fine /\ Ends(c) /\ (IF IsRunning THEN Slip("started") ELSE LeftOff("removed"))
     \/ Says(c, "failed") /\ Fails /\ UNCHANGED <<manager, bridges>>
\* The kill command: a bridge that is listed is terminated, and killed if it does not end in time.
Kill(c) ==
  /\ command[c] = NoCommand /\ commands < MaxCommands /\ commands' = commands + 1
  /\ \E p \in Listed : bridges' = Dying({p}) /\ manager' = Died(p, manager)
  /\ UNCHANGED <<platform, command, serviceFaults, outcome, lastPid>>

ServiceInit ==
  /\ platform \in {"launchd", "systemd", "schtasks"}
  /\ manager = [file |-> FALSE, up |-> FALSE, auto |-> FALSE, due |-> "no", pid |-> 0]
  /\ bridges = [p \in {} |-> 0] /\ command = [c \in Callers |-> NoCommand] /\ commands = 0 /\ serviceFaults = 0
  /\ outcome = [said |-> <<"nothing">>, quiet |-> "no", slips |-> {}] /\ lastPid = 0
ServiceNext ==
  \/ Spawns \/ RunsInForeground \/ Logon \/ \E p \in DOMAIN bridges : Advances(p)
  \/ \E c \in Callers :
       \/ Gives(c) \/ Kill(c) \/ ensureRuntimeLocksAvailable(c) \/ tryRuntimeLocks(c) \/ Preflight(c) \/ Install(c) \/ Replace(c)
       \/ currentPIDs(c) \/ Start(c) \/ Restart(c) \/ waitForServiceConnect(c) \/ Exists(c) \/ Stop(c) \/ Unregister(c)
ServiceSpec == ServiceInit /\ [][ServiceNext]_serviceVars
-----------------------------------------------------------------------------
(* A service that was stopped or unregistered stays off until somebody      *)
(* starts it, also after the next logon, except that launchd starts it      *)
(* again then, that systemd restarts a process that has just died as if     *)
(* nothing had been said, and that a service may be started between the     *)
(* question whether it runs and its removal; and a start that says it is    *)
(* connected names a process of the service, unless a bridge was begun in   *)
(* the foreground meanwhile or the processes could not be listed.           *)
StaysOff ==
  /\ outcome.quiet # "no" /\ outcome.slips \cap {"started", "restarting"} = {}
  /\ "logon" \in outcome.slips => outcome.quiet # "not-running" /\ (outcome.quiet = "stopped" => platform # "launchd")
NamesService == outcome.said[1] = "connected" /\ outcome.slips \cap {"foreground", "blind"} = {}
ServiceHeld ==
  /\ StaysOff => ~manager.up /\ Service = {}
  /\ NamesService => outcome.said[2] = "service"
=============================================================================
