--------------------------- MODULE BridgeLifecycle ---------------------------
(***************************************************************************)
(* The lifecycle of a Bridge, pkg/bridge/bridge.go, down to the adapter    *)
(* (adapters/lark/adapter.go) and the managed intake (lark_managed.go):    *)
(* Start, Shutdown and Reconnect called by several goroutines, each of     *)
(* them a sequence of steps between which others run, and each step with   *)
(* its way to fail.  The coordinator's locks and registry are those of     *)
(* RuntimeCoord and only succeed or fail here.  A Bridge that has a client *)
(* and a transport is modelled; the others leave steps out.  Below them is *)
(* the connection of oapi_transport.go: Connect makes a channel of the SDK *)
(* and gives its callbacks a generation, Disconnect takes the handler      *)
(* away, both under lifecycleMu and here in one step; emit drops what      *)
(* comes from an old channel or was handled before.  The channels are      *)
(* external: one may deliver a message several times, an old one too.      *)
(***************************************************************************)
EXTENDS Naturals, FiniteSets

CONSTANTS Msgs,           \* messages of the chat platform
          MaxDeliveries   \* bound of the deliveries of a message

CONSTANTS Hosts,      \* goroutines of the host program: Start and Shutdown
          Commands,   \* goroutines that run /reconnect
          Restarts,   \* managed tasks that restart the connection after /account
          MaxStarts, MaxChannels, MaxFaults   \* bounds of the calls of Start, of the channels
                                          \* made before a Reconnect, of failing steps

Threads == Hosts \cup Commands \cup Restarts

Nobody == "nobody"
ASSUME LifecycleAssumption ==
  /\ Hosts \cap Commands = {} /\ Hosts \cap Restarts = {} /\ Commands \cap Restarts = {}
  /\ Nobody \notin Threads

VARIABLES link,       \* connected, generation
          seen,       \* messageDedup
          inHand,     \* messages that passed emit and are not handled yet
          deliveries  \* how often each message was delivered

VARIABLES bridge,    \* Bridge: started, starting, stopping
          coord,     \* Coordinator: started, stopping
          adapter,   \* Adapter: the context it was started with, started
          mutex,     \* who holds Adapter.lifecycleMu
          intake,    \* managedLarkIntake: closed, infoOnce and its refreshing task,
                     \* and whether some Close has waited for all tasks
          handled,   \* messages the intake took (its queue was open)
          call,      \* where the call of a goroutine is
          starts, faults,   \* calls of Start, failed steps
          hurt       \* history: the last Shutdown or Reconnect failed half way

transportVars == <<link, seen, inHand, deliveries>>
vars == <<transportVars, bridge, coord, adapter, mutex, intake, handled, call, starts, faults, hurt>>

TransportInit ==
  /\ link = [up |-> FALSE, generation |-> 0]
  /\ seen = {} /\ inHand = {}
  /\ deliveries = [m \in Msgs |-> 0]

\* Mutant of Connect: a new channel starts with an empty cache of message ids.
ConnectForgets(ok) ==
  /\ link' = [up |-> ok, generation |-> link.generation + 1]
  /\ seen' = {}
  /\ UNCHANGED <<inHand, deliveries>>

\* Connect, once the channel is ready; where the channel fails to start or the
\* start takes too long resetFailedStart leaves the transport as a Disconnect does.
Connect(ok) ==
  /\ link' = [up |-> ok, generation |-> link.generation + 1]
  /\ UNCHANGED <<seen, inHand, deliveries>>

\* channel.Stop may fail, but the handler is gone before it is called.
Disconnect ==
  /\ link' = [link EXCEPT !.up = FALSE]
  /\ UNCHANGED <<seen, inHand, deliveries>>

\* A delivery by the channel of generation g.
emit(m, g) ==
  /\ deliveries' = [deliveries EXCEPT ![m] = @ + 1]
  /\ IF link.up /\ link.generation = g /\ m \notin seen
       THEN seen' = seen \cup {m} /\ inHand' = inHand \cup {m}
       ELSE UNCHANGED <<seen, inHand>>
  /\ UNCHANGED link

Deliver == \E m \in Msgs, g \in 1 .. link.generation :
  deliveries[m] < MaxDeliveries /\ emit(m, g)
-----------------------------------------------------------------------------
Idle == [at |-> "idle", failed |-> FALSE]
At(t, place) == call[t].at = place
Goto(t, place) == call' = [call EXCEPT ![t].at = place]
Finish(t) == call' = [call EXCEPT ![t] = Idle]
Fails == faults < MaxFaults /\ faults' = faults + 1
Works == UNCHANGED faults

Init ==
  /\ TransportInit
  /\ bridge = [started |-> FALSE, starting |-> FALSE, stopping |-> FALSE]
  /\ coord = [started |-> FALSE, stopping |-> FALSE]
  /\ adapter = [ctx |-> "none", started |-> FALSE]
  /\ mutex = Nobody
  /\ intake = [closed |-> FALSE, once |-> FALSE, refreshing |-> FALSE, waited |-> FALSE]
  /\ handled = [m \in Msgs |-> 0]
  /\ call = [t \in Threads |-> Idle]
  /\ starts = 0 /\ faults = 0 /\ hurt = FALSE
-----------------------------------------------------------------------------
\* The managed tasks still running: the refresh, and the restarts.
Tasks == {t \in Restarts : call[t] # Idle}

\* ensureRuntimeInfo starts the refreshing task once, if startManagedTask lets it.
ensureRuntimeInfo ==
  IF intake.once THEN intake ELSE [intake EXCEPT !.once = TRUE, !.refreshing = ~intake.closed]

\* The task's loop ends with the context of the intake.
RefreshEnds ==
  /\ intake.refreshing /\ intake.closed
  /\ intake' = [intake EXCEPT !.refreshing = FALSE]
  /\ UNCHANGED <<transportVars, bridge, coord, adapter, mutex, handled, call, starts, faults, hurt>>

\* A message goes to the intake; a closed queue refuses it.
HandleLarkEvent(m) ==
  /\ m \in inHand
  /\ inHand' = inHand \ {m}
  /\ intake' = ensureRuntimeInfo
  /\ handled' = [handled EXCEPT ![m] = IF intake.closed THEN @ ELSE @ + 1]
  /\ UNCHANGED <<link, seen, deliveries, bridge, coord, adapter, mutex, call, starts, faults, hurt>>

\* The context the host gave to Start ends.
HostCtxEnds ==
  /\ adapter.ctx = "live"
  /\ adapter' = [adapter EXCEPT !.ctx = "done"]
  /\ UNCHANGED <<transportVars, bridge, coord, mutex, intake, handled, call, starts, faults, hurt>>
-----------------------------------------------------------------------------
\* Bridge.Start
StartCall(h) ==
  /\ call[h] = Idle /\ starts < MaxStarts
  /\ ~bridge.started /\ ~bridge.starting /\ ~bridge.stopping
  /\ bridge' = [bridge EXCEPT !.starting = TRUE]
  /\ starts' = starts + 1
  /\ Goto(h, "load")
  /\ UNCHANGED <<transportVars, coord, adapter, mutex, intake, handled, faults, hurt>>

\* client.LoadState, then the coordinator's checks, locks and registry.
StartPrepare(h) ==
  /\ At(h, "load")
  /\ \/ ~coord.started /\ ~coord.stopping /\ Works /\ Goto(h, "lock")
     \/ Fails /\ Goto(h, "startEnd")
  /\ UNCHANGED <<transportVars, bridge, coord, adapter, mutex, intake, handled, starts, hurt>>

Lock(t) ==
  /\ At(t, "lock") /\ mutex = Nobody
  /\ mutex' = t
  /\ Goto(t, "connecting")
  /\ UNCHANGED <<transportVars, bridge, coord, adapter, intake, handled, starts, faults, hurt>>

\* A call that fails under lifecycleMu gives it back.
Abandon(t) ==
  /\ mutex' = Nobody
  /\ IF t \in Hosts THEN Goto(t, "startEnd") ELSE Finish(t)

\* Adapter.connect, for Start and Reconnect: the transport's Connect, then the
\* bot's identity and the profile's projection; a failure disconnects again.
AdapterConnect(t) ==
  /\ At(t, "connecting")
  /\ \/ Connect(TRUE) /\ Works /\ Goto(t, "identify") /\ UNCHANGED mutex
     \/ Connect(FALSE) /\ Fails /\ Abandon(t)
  /\ UNCHANGED <<bridge, coord, adapter, intake, handled, starts, hurt>>

Identify(t) ==
  /\ At(t, "identify")
  /\ \/ Works /\ Goto(t, "connected") /\ UNCHANGED <<transportVars, mutex>>
     \/ Fails /\ Disconnect /\ Abandon(t)
  /\ UNCHANGED <<bridge, coord, adapter, intake, handled, starts, hurt>>

\* The end of Adapter.Start: the intake starts (a host's own may fail), then the
\* context is kept.
AdapterStarted(h) ==
  /\ h \in Hosts /\ At(h, "connected")
  /\ \/ /\ Works
        /\ intake' = ensureRuntimeInfo
        /\ adapter' = [ctx |-> "live", started |-> TRUE]
        /\ mutex' = Nobody /\ Goto(h, "commit") /\ hurt' = FALSE /\ UNCHANGED transportVars
     \/ Fails /\ Disconnect /\ Abandon(h) /\ UNCHANGED <<intake, adapter, hurt>>
  /\ UNCHANGED <<bridge, coord, handled, starts>>

\* The end of Coordinator.Start, then of Bridge.Start.
StartCommit(h) ==
  /\ At(h, "commit")
  /\ coord' = [coord EXCEPT !.started = TRUE]
  /\ Goto(h, "begin")
  /\ UNCHANGED <<transportVars, bridge, adapter, mutex, intake, handled, starts, faults, hurt>>

StartBegin(h) ==
  /\ At(h, "begin")
  /\ bridge' = [bridge EXCEPT !.started = TRUE]
  /\ Goto(h, "startEnd")
  /\ UNCHANGED <<transportVars, coord, adapter, mutex, intake, handled, starts, faults, hurt>>

StartEnd(h) ==
  /\ At(h, "startEnd")
  /\ bridge' = [bridge EXCEPT !.starting = FALSE]
  /\ Finish(h)
  /\ UNCHANGED <<transportVars, coord, adapter, mutex, intake, handled, starts, faults, hurt>>
-----------------------------------------------------------------------------
\* Bridge.Shutdown; before started is set it does nothing.
ShutdownCall(h) ==
  /\ call[h] = Idle /\ ~bridge.stopping
  /\ bridge' = [bridge EXCEPT !.stopping = TRUE]
  /\ Goto(h, IF bridge.started THEN "stopRuntime" ELSE "shutEnd")
  /\ UNCHANGED <<transportVars, coord, adapter, mutex, intake, handled, starts, faults, hurt>>

\* Coordinator.Shutdown: nothing to do where an earlier one got that far,
\* and an error where one is under way.
StopRuntime(h) ==
  /\ At(h, "stopRuntime")
  /\ IF coord.started /\ ~coord.stopping
       THEN coord' = [coord EXCEPT !.stopping = TRUE] /\ Goto(h, "disconnect")
       ELSE call' = [call EXCEPT ![h].at = "stopAll", ![h].failed = coord.started] /\ UNCHANGED coord
  /\ UNCHANGED <<transportVars, bridge, adapter, mutex, intake, handled, starts, faults, hurt>>

\* Mutant of AdapterDisconnect: the context of the start is kept.
AdapterDisconnectKeeps(h) ==
  /\ At(h, "disconnect") /\ mutex = Nobody
  /\ adapter' = [adapter EXCEPT !.started = FALSE]
  /\ Disconnect
  /\ \/ Works /\ Goto(h, "close")
     \/ Fails /\ call' = [call EXCEPT ![h].at = "close", ![h].failed = TRUE]
  /\ UNCHANGED <<bridge, coord, mutex, intake, handled, starts, hurt>>

\* Adapter.Disconnect, up to the unlock.
AdapterDisconnect(h) ==
  /\ At(h, "disconnect") /\ mutex = Nobody
  /\ adapter' = [ctx |-> "none", started |-> FALSE]
  /\ Disconnect
  /\ \/ Works /\ Goto(h, "close")
     \/ Fails /\ call' = [call EXCEPT ![h].at = "close", ![h].failed = TRUE]
  /\ UNCHANGED <<bridge, coord, mutex, intake, handled, starts, hurt>>

\* managedLarkIntake.Close: no new task or message from now on; then it waits for
\* the tasks, but not longer than its timeout.
IntakeClose(h) ==
  /\ At(h, "close")
  /\ intake' = [intake EXCEPT !.closed = TRUE]
  /\ Goto(h, "waiting")
  /\ UNCHANGED <<transportVars, bridge, coord, adapter, mutex, handled, starts, faults, hurt>>

\* Mutant of IntakeClosed: Close does not wait.
IntakeClosedAtOnce(h) ==
  /\ At(h, "waiting")
  /\ intake' = [intake EXCEPT !.waited = TRUE]
  /\ Goto(h, "stopped")
  /\ UNCHANGED <<transportVars, bridge, coord, adapter, mutex, handled, starts, faults, hurt>>

IntakeClosed(h) ==
  /\ At(h, "waiting")
  /\ \/ /\ ~intake.refreshing /\ Tasks = {}
        /\ intake' = [intake EXCEPT !.waited = TRUE]
     \/ Tasks # {} /\ UNCHANGED intake
  /\ Goto(h, "stopped")
  /\ UNCHANGED <<transportVars, bridge, coord, adapter, mutex, handled, starts, faults, hurt>>

\* Mutant of RuntimeStopped: a failure leaves the coordinator stopping.
RuntimeStoppedStuck(h) ==
  /\ At(h, "stopped")
  /\ \/ /\ ~call[h].failed /\ Works
        /\ coord' = [started |-> FALSE, stopping |-> FALSE]
        /\ Goto(h, "stopAll")
     \/ /\ IF call[h].failed THEN Works ELSE Fails
        /\ call' = [call EXCEPT ![h].at = "stopAll", ![h].failed = TRUE]
        /\ UNCHANGED coord
  /\ UNCHANGED <<transportVars, bridge, adapter, mutex, intake, handled, starts, hurt>>

\* The end of Coordinator.Shutdown: the registry and the locks may fail as well,
\* and a coordinator whose Shutdown failed is still started.
RuntimeStopped(h) ==
  /\ At(h, "stopped")
  /\ \/ /\ ~call[h].failed /\ Works
        /\ coord' = [started |-> FALSE, stopping |-> FALSE]
        /\ Goto(h, "stopAll")
     \/ /\ IF call[h].failed THEN Works ELSE Fails
        /\ coord' = [coord EXCEPT !.stopping = FALSE]
        /\ call' = [call EXCEPT ![h].at = "stopAll", ![h].failed = TRUE]
  /\ UNCHANGED <<transportVars, bridge, adapter, mutex, intake, handled, starts, hurt>>

\* client.StopAll and FlushState, whatever happened before.
StopAll(h) ==
  /\ At(h, "stopAll")
  /\ \/ Works /\ Goto(h, "clear")
     \/ Fails /\ call' = [call EXCEPT ![h].at = "clear", ![h].failed = TRUE]
  /\ UNCHANGED <<transportVars, bridge, coord, adapter, mutex, intake, handled, starts, hurt>>

\* One error of any step leaves the Bridge started.
ShutdownClear(h) ==
  /\ At(h, "clear")
  /\ bridge' = [bridge EXCEPT !.started = call[h].failed]
  /\ hurt' = call[h].failed
  /\ Goto(h, "shutEnd")
  /\ UNCHANGED <<transportVars, coord, adapter, mutex, intake, handled, starts, faults>>

ShutdownEnd(h) ==
  /\ At(h, "shutEnd")
  /\ bridge' = [bridge EXCEPT !.stopping = FALSE]
  /\ Finish(h)
  /\ UNCHANGED <<transportVars, coord, adapter, mutex, intake, handled, starts, faults, hurt>>
-----------------------------------------------------------------------------
\* Bridge.Reconnect; a restart is a task, which a closed intake does not start.
ReconnectCall(t) ==
  /\ t \notin Hosts /\ call[t] = Idle /\ ~bridge.stopping /\ link.generation < MaxChannels
  /\ t \in Restarts => ~intake.closed
  /\ Goto(t, "reconnect")
  /\ UNCHANGED <<transportVars, bridge, coord, adapter, mutex, intake, handled, starts, faults, hurt>>

\* Coordinator.Reconnect asks whether it is started (and a change of the app is
\* refused by larkRuntimeHandle).
ReconnectCheck(t) ==
  /\ At(t, "reconnect")
  /\ IF coord.started /\ ~coord.stopping THEN Goto(t, "relock") ELSE Finish(t)
  /\ UNCHANGED <<transportVars, bridge, coord, adapter, mutex, intake, handled, starts, faults, hurt>>

\* Mutant of ReconnectLock: lifecycleMu is not taken.
ReconnectLockFree(t) ==
  /\ At(t, "relock") /\ mutex = Nobody
  /\ IF adapter.ctx = "live" /\ (t \in Restarts => ~intake.closed)
       THEN Goto(t, "drop") /\ adapter' = [adapter EXCEPT !.started = FALSE]
       ELSE Finish(t) /\ UNCHANGED adapter
  /\ UNCHANGED <<transportVars, bridge, coord, mutex, intake, handled, starts, faults, hurt>>

\* Adapter.Reconnect: the context of a task ends with the intake; /reconnect has
\* none that ends.
ReconnectLock(t) ==
  /\ At(t, "relock") /\ mutex = Nobody
  /\ IF adapter.ctx = "live" /\ (t \in Restarts => ~intake.closed)
       THEN /\ mutex' = t /\ Goto(t, "drop")
            /\ adapter' = [adapter EXCEPT !.started = FALSE]
       ELSE Finish(t) /\ UNCHANGED <<mutex, adapter>>
  /\ UNCHANGED <<transportVars, bridge, coord, intake, handled, starts, faults, hurt>>

\* Whatever fails from here on leaves the Bridge started and not connected.
ReconnectDrop(t) ==
  /\ At(t, "drop")
  /\ Disconnect
  /\ hurt' = TRUE
  /\ \/ Works /\ Goto(t, "connecting") /\ UNCHANGED mutex
     \/ Fails /\ Abandon(t)
  /\ UNCHANGED <<bridge, coord, adapter, intake, handled, starts>>

Reconnected(t) ==
  /\ t \notin Hosts /\ At(t, "connected")
  /\ adapter' = [adapter EXCEPT !.started = TRUE]
  /\ mutex' = Nobody
  /\ hurt' = FALSE
  /\ Finish(t)
  /\ UNCHANGED <<transportVars, bridge, coord, intake, handled, starts, faults>>
-----------------------------------------------------------------------------
Step(t) ==
  \/ StartPrepare(t) \/ Lock(t) \/ AdapterConnect(t) \/ Identify(t) \/ AdapterStarted(t)
  \/ StartCommit(t) \/ StartBegin(t) \/ StartEnd(t)
  \/ StopRuntime(t) \/ AdapterDisconnect(t) \/ IntakeClose(t) \/ IntakeClosed(t)
  \/ RuntimeStopped(t) \/ StopAll(t) \/ ShutdownClear(t) \/ ShutdownEnd(t)
  \/ ReconnectCheck(t) \/ ReconnectLock(t) \/ ReconnectDrop(t) \/ Reconnected(t)

Next ==
  \/ \E h \in Hosts : StartCall(h) \/ ShutdownCall(h)
  \/ \E t \in Threads : Step(t) \/ ReconnectCall(t)
  \/ RefreshEnds \/ HostCtxEnds
  \/ \E m \in Msgs : HandleLarkEvent(m)
  \/ Deliver /\ UNCHANGED <<bridge, coord, adapter, mutex, intake, handled, call, starts, faults, hurt>>

Spec == Init /\ [][Next]_vars

\* Every goroutine gets on, and some host calls Shutdown as long as the Bridge is
\* started.
Fairness ==
  /\ \A t \in Threads : WF_vars(Step(t))
  /\ WF_vars(RefreshEnds)
  /\ WF_vars(bridge.started /\ \E h \in Hosts : ShutdownCall(h))
FairSpec == Spec /\ Fairness
-----------------------------------------------------------------------------
Quiet == \A t \in Threads : call[t] = Idle

\* A Bridge that is not started has nothing left of a connection: neither a
\* Start that failed at any step, nor a Reconnect that overlapped a Shutdown.
StoppedIsDown == Quiet /\ ~bridge.started =>
  /\ ~link.up /\ ~adapter.started /\ adapter.ctx = "none"
  /\ coord = [started |-> FALSE, stopping |-> FALSE] /\ mutex = Nobody

\* A Bridge that is started is connected, unless its last Shutdown or Reconnect
\* failed half way.
StartedIsUp == Quiet /\ bridge.started /\ ~hurt =>
  link.up /\ adapter.started /\ adapter.ctx # "none" /\ coord = [started |-> TRUE, stopping |-> FALSE]

\* Between calls the connection is what the owner's calls say: both of the above.
ConnectionFollows == StoppedIsDown /\ StartedIsUp

\* A Close that did not run into its timeout leaves no managed task behind, and
\* none is started afterwards.
ClosedIsEmpty ==
  intake.waited => ~intake.refreshing /\ Tasks = {}

\* The intake sees a message once, however often it is delivered and by how many
\* channels before and after a reconnect.
HandledOnce == \A m \in Msgs : handled[m] <= 1

\* A message is handled once however often it is delivered, and what a Close waited for
\* stays ended.
HandledWhileOpen == HandledOnce /\ ClosedIsEmpty

\* A Shutdown that failed can be retried: a host that goes on calling it while the
\* Bridge is started gets it stopped.
RetriedShutdownStops == <>[](~bridge.started)
=============================================================================
