--------------------------- MODULE Managed_proofs ---------------------------
(***************************************************************************)
(* A managed bridge.  It is connected exactly while its owner's calls say  *)
(* so, whatever steps fail and however the calls overlap, and each message *)
(* is handled once and only by an intake that is open.  The platform gets  *)
(* the events of a process message in the order they were made, and every  *)
(* text, thought and call of a completed one is ended: what was enqueued   *)
(* is at any time what was sent, what a flush carries, what waits, and     *)
(* what was dropped, and what is open is what was begun and not ended.  A  *)
(* message of the intake is in one place at a time, from which follows     *)
(* that nobody is run for who may not be served or was answered otherwise. *)
(* A configuration is normalised to one that normalises to itself.         *)
(***************************************************************************)
EXTENDS BridgeLifecycle, ManagedIntake, Published, ConfigStore, SequenceTheorems, FiniteSetTheorems, TLAPS

\* The places of a Start, up to the connection; of a Shutdown after it has found
\* the Bridge started; of those who hold lifecycleMu.
Early == {"load", "lock", "connecting", "identify", "connected"}
Starting == Early \cup {"commit", "begin", "startEnd"}
Late == {"stopAll", "clear"}
Closing == {"close", "waiting", "stopped"}
Undoing == {"disconnect"} \cup Closing \cup Late
Stopping == Undoing \cup {"stopRuntime", "shutEnd"}
Inside == {"drop", "connecting", "identify", "connected"}
Reconnecting == Inside \cup {"idle", "reconnect", "relock"}

Place == {"idle"} \cup Starting \cup Stopping \cup Reconnecting
Calls == [Threads -> [at : Place, failed : BOOLEAN]]

Bridges == [started : BOOLEAN, starting : BOOLEAN, stopping : BOOLEAN]
Coords == [started : BOOLEAN, stopping : BOOLEAN]
Adapters == [ctx : {"none", "live", "done"}, started : BOOLEAN]
Intakes == [closed : BOOLEAN, once : BOOLEAN, refreshing : BOOLEAN, waited : BOOLEAN]
Links == [up : BOOLEAN, generation : Nat]

TransportOK ==
  /\ link \in Links /\ deliveries \in [Msgs -> Nat]
  /\ seen \subseteq Msgs /\ inHand \subseteq Msgs

TypeOK ==
  /\ TransportOK
  /\ bridge \in Bridges /\ coord \in Coords /\ adapter \in Adapters /\ intake \in Intakes
  /\ handled \in [Msgs -> Nat]
  /\ mutex \in Threads \cup {Nobody} /\ call \in Calls
  /\ starts \in Nat /\ faults \in Nat /\ hurt \in BOOLEAN

\* One Start and one Shutdown at a time, and hosts call nothing else; whoever is
\* inside holds lifecycleMu.
CallersInv ==
  /\ \A h \in Hosts : call[h].at \in {"idle"} \cup Starting \cup Stopping
  /\ \A t \in Threads \ Hosts : call[t].at \in Reconnecting
  /\ \A h \in Hosts : call[h].at \in Starting => bridge.starting
  /\ \A h \in Hosts : call[h].at \in Stopping => bridge.stopping
  /\ \A g, h \in Hosts : call[g].at \in Starting /\ call[h].at \in Starting => g = h
  /\ \A g, h \in Hosts : call[g].at \in Stopping /\ call[h].at \in Stopping => g = h
  /\ \A t \in Threads : call[t].at \in Inside <=> mutex = t

\* The connection follows the context of the adapter's start, but for who is inside.
LinkInv ==
  /\ mutex = Nobody =>
       IF adapter.ctx = "none" THEN ~adapter.started /\ ~link.up
                               ELSE hurt \/ (adapter.started /\ link.up)
  /\ \A h \in Hosts : mutex = h =>
       /\ adapter.ctx = "none" /\ ~adapter.started
       /\ link.up <=> call[h].at # "connecting"
  /\ \A t \in Threads \ Hosts : mutex = t =>
       /\ adapter.ctx # "none" /\ ~adapter.started
       /\ call[t].at # "drop" => hurt
       /\ call[t].at \in {"identify", "connected"} => link.up

Halted == ~coord.started /\ ~coord.stopping
Running == coord.started /\ ~coord.stopping
Ending == coord.started /\ coord.stopping
Down == adapter.ctx = "none" /\ Halted
Up == adapter.ctx # "none" /\ Running

\* Where a host is tells how far the coordinator and the adapter are; between the
\* calls the Bridge is down, or up, or down because a Shutdown failed.
PhaseInv ==
  /\ \A h \in Hosts : call[h].at \in Early => ~bridge.started /\ Down
  /\ \A h \in Hosts : call[h].at = "commit" => ~bridge.started /\ adapter.ctx # "none" /\ Halted
  /\ \A h \in Hosts : call[h].at = "begin" => ~bridge.started /\ Up
  /\ ~bridge.started /\ (\A h \in Hosts : call[h].at \notin {"commit", "begin"}) => Down
  /\ bridge.started /\ (\A h \in Hosts : call[h].at \notin Undoing) =>
       Up \/ (hurt /\ adapter.ctx = "none" /\ ~coord.stopping)
  /\ \A h \in Hosts : call[h].at \in Undoing \cup {"stopRuntime"} => bridge.started
  /\ \A h \in Hosts : call[h].at = "disconnect" => Ending
  /\ \A h \in Hosts : call[h].at \in Closing => Ending /\ adapter.ctx = "none"
  /\ \A h \in Hosts : call[h].at \in Late =>
       ~coord.stopping /\ adapter.ctx = "none" /\ (coord.started => call[h].failed)

IntakeInv ==
  /\ \A h \in Hosts : call[h].at = "waiting" => intake.closed
  /\ intake.waited => intake.closed /\ ~intake.refreshing /\ Tasks = {}

\* What is in hand or handled was seen, and what is in hand was not handled.
HandledInv ==
  \A m \in Msgs :
    /\ handled[m] <= 1
    /\ m \in inHand \/ handled[m] > 0 => m \in seen
    /\ m \in inHand => handled[m] = 0

IInv == TypeOK /\ CallersInv /\ LinkInv /\ PhaseInv /\ IntakeInv /\ HandledInv

LEMMA Apart ==
  /\ Hosts \subseteq Threads /\ Commands \subseteq Threads /\ Restarts \subseteq Threads
  /\ Hosts \cap Commands = {} /\ Hosts \cap Restarts = {} /\ Nobody \notin Threads
  BY LifecycleAssumption DEF Threads

LEMMA Places ==
  {"idle", "load", "lock", "connecting", "identify", "connected", "commit", "begin", "startEnd",
     "stopRuntime",
   "disconnect", "close", "waiting", "stopped", "stopAll", "clear", "shutEnd", "reconnect",
      "relock", "drop"}
    \subseteq Place
  BY DEF Early, Starting, Late, Closing, Undoing, Stopping, Inside, Reconnecting, Place

\* A call moves to another place, or ends.
LEMMA CallTypes ==
  ASSUME NEW c \in Calls, NEW t \in Threads
  PROVE  /\ c[t].failed \in BOOLEAN
         /\ \A p \in Place : [c EXCEPT ![t].at = p] \in Calls
         /\ \A p \in Place, f \in BOOLEAN : [c EXCEPT ![t].at = p, ![t].failed = f] \in Calls
         /\ [c EXCEPT ![t] = Idle] \in Calls
  <1>1. Idle \in [at : Place, failed : BOOLEAN]
    BY DEF Idle, Place
  <1>2. QED
    BY <1>1 DEF Calls

\* The fields of the objects are flags, and changes of them leave them so.
LEMMA FlagTypes ==
  ASSUME NEW f \in BOOLEAN
  PROVE  /\ \A x \in Bridges : /\ [x EXCEPT !.started = f] \in Bridges
                              /\ [x EXCEPT !.starting = f] \in Bridges
                              /\ [x EXCEPT !.stopping = f] \in Bridges
         /\ \A x \in Coords : /\ x.started \in BOOLEAN
                             /\ [x EXCEPT !.started = f] \in Coords
                             /\ [x EXCEPT !.stopping = f] \in Coords
         /\ [started |-> FALSE, stopping |-> FALSE] \in Coords
         /\ \A x \in Adapters : /\ [x EXCEPT !.started = f] \in Adapters
                               /\ [x EXCEPT !.ctx = "done"] \in Adapters
         /\ {[ctx |-> "live", started |-> TRUE], [ctx |-> "none", started |-> FALSE]} \subseteq
            Adapters
         /\ \A x \in Intakes : /\ [x EXCEPT !.closed = f] \in Intakes
                              /\ [x EXCEPT !.refreshing = f] \in Intakes
                              /\ [x EXCEPT !.waited = f] \in Intakes
         /\ \A x \in Links : /\ [x EXCEPT !.up = f] \in Links
                            /\ [up |-> f, generation |-> x.generation + 1] \in Links
  BY DEF Bridges, Coords, Adapters, Intakes, Links

\* Where a call moves to, and that no other moves.
LEMMA FailedMoves ==
  ASSUME call \in Calls, NEW t \in Threads, NEW p \in Place, NEW f \in BOOLEAN,
         call' = [call EXCEPT ![t].at = p, ![t].failed = f]
  PROVE  call'[t].at = p /\ call'[t].failed = f /\ \A u \in Threads \ {t} : call'[u] = call[u]
  BY DEF Calls

LEMMA GotoMoves ==
  ASSUME call \in Calls, NEW t \in Threads, NEW p \in Place, Goto(t, p)
  PROVE  call'[t].at = p /\ call'[t].failed = call[t].failed /\ \A u \in Threads \ {t} : call'[u]
     = call[u]
  BY DEF Calls, Goto

\* The steps of a Shutdown that may set its failed flag.
Moves(t, p, q) ==
  /\ call[t].at = p /\ call'[t].at = q
  /\ \A u \in Threads \ {t} : call'[u] = call[u]

LEMMA ShutdownMoves ==
  ASSUME TypeOK, NEW t \in Threads
  PROVE  /\ StopRuntime(t) =>
              \/ Moves(t, "stopRuntime", "disconnect") /\ coord.started /\ ~coord.stopping
              \/ Moves(t, "stopRuntime", "stopAll") /\ (coord.stopping \/ ~coord.started)
         /\ AdapterDisconnect(t) => Moves(t, "disconnect", "close")
         /\ RuntimeStopped(t) => Moves(t, "stopped", "stopAll") /\ (coord'.started =>
            call'[t].failed)
         /\ StopAll(t) => Moves(t, "stopAll", "clear") /\ (call[t].failed => call'[t].failed)
  <1> USE Places DEF TypeOK, At
  <1>1. ASSUME StopRuntime(t)
        PROVE  \/ Moves(t, "stopRuntime", "disconnect") /\ coord.started /\ ~coord.stopping
               \/ Moves(t, "stopRuntime", "stopAll") /\ (coord.stopping \/ ~coord.started)
    <2>1. PICK f \in BOOLEAN : f = coord.started
      BY FlagTypes
    <2>2. CASE coord.started /\ ~coord.stopping
      <3>1. Goto(t, "disconnect")
        BY <1>1, <2>2 DEF StopRuntime
      <3>2. QED
        BY <1>1, <2>2, <3>1, GotoMoves DEF Moves, StopRuntime
    <2>3. CASE ~(coord.started /\ ~coord.stopping)
      <3>1. call' = [call EXCEPT ![t].at = "stopAll", ![t].failed = f]
        BY <1>1, <2>1, <2>3 DEF StopRuntime
      <3>2. QED
        BY <1>1, <2>3, <3>1, FailedMoves DEF Moves, StopRuntime
    <2>4. QED
      BY <2>2, <2>3
  <1>2. ASSUME AdapterDisconnect(t) PROVE Moves(t, "disconnect", "close")
    <2>1. Goto(t, "close") \/ call' = [call EXCEPT ![t].at = "close", ![t].failed = TRUE]
      BY <1>2 DEF AdapterDisconnect
    <2>2. QED
      BY <1>2, <2>1, GotoMoves, FailedMoves DEF Moves, AdapterDisconnect
  <1>3. ASSUME RuntimeStopped(t) PROVE Moves(t, "stopped", "stopAll") /\ (coord'.started =>
     call'[t].failed)
    <2>1. \/ Goto(t, "stopAll") /\ coord' = [started |-> FALSE, stopping |-> FALSE]
          \/ call' = [call EXCEPT ![t].at = "stopAll", ![t].failed = TRUE]
      BY <1>3 DEF RuntimeStopped
    <2>2. CASE Goto(t, "stopAll") /\ coord' = [started |-> FALSE, stopping |-> FALSE]
      BY <1>3, <2>2, GotoMoves DEF Moves, RuntimeStopped
    <2>3. CASE call' = [call EXCEPT ![t].at = "stopAll", ![t].failed = TRUE]
      BY <1>3, <2>3, FailedMoves DEF Moves, RuntimeStopped
    <2>4. QED
      BY <2>1, <2>2, <2>3
  <1>4. ASSUME StopAll(t) PROVE Moves(t, "stopAll", "clear") /\ (call[t].failed =>
     call'[t].failed)
    <2>1. Goto(t, "clear") \/ call' = [call EXCEPT ![t].at = "clear", ![t].failed = TRUE]
      BY <1>4 DEF StopAll
    <2>2. QED
      BY <1>4, <2>1, GotoMoves, FailedMoves DEF Moves, StopAll
  <1>5. QED
    BY <1>1, <1>2, <1>3, <1>4

LEMMA RefreshType ==
  ASSUME intake \in Intakes PROVE ensureRuntimeInfo \in Intakes
  BY DEF Intakes, ensureRuntimeInfo

LEMMA GotoType ==
  ASSUME call \in Calls, NEW t \in Threads, NEW p \in Place, Goto(t, p) PROVE call' \in Calls
  BY CallTypes DEF Goto

LEMMA FinishType ==
  ASSUME call \in Calls, NEW t \in Threads, Finish(t) PROVE call' \in Calls
  BY CallTypes DEF Finish

LEMMA AbandonType ==
  ASSUME call \in Calls, NEW t \in Threads, Abandon(t) PROVE call' \in Calls /\ mutex' = Nobody
  <1>1. CASE t \in Hosts
    BY <1>1, GotoType, Places DEF Abandon
  <1>2. CASE t \notin Hosts
    BY <1>2, FinishType DEF Abandon
  <1>3. QED
    BY <1>1, <1>2

LEMMA FailedType ==
  ASSUME call \in Calls, NEW t \in Threads, NEW p \in Place, NEW f \in BOOLEAN,
         call' = [call EXCEPT ![t].at = p, ![t].failed = f]
  PROVE  call' \in Calls
  BY CallTypes

LEMMA FaultType ==
  ASSUME faults \in Nat, Works \/ Fails PROVE faults' \in Nat
  BY DEF Works, Fails

LEMMA ConnectType ==
  ASSUME TransportOK, NEW ok \in BOOLEAN, Connect(ok) PROVE TransportOK'
  BY FlagTypes DEF TransportOK, Connect

LEMMA DisconnectType ==
  ASSUME TransportOK, Disconnect PROVE TransportOK'
  BY FlagTypes DEF TransportOK, Disconnect

LEMMA TransportStays ==
  ASSUME TransportOK, UNCHANGED transportVars PROVE TransportOK'
  BY DEF TransportOK, transportVars

LEMMA TypeStep ==
  ASSUME TypeOK, [Next]_vars PROVE TypeOK'
  <1> USE Apart, Places, FlagTypes, TransportStays DEF TypeOK
  <1>1. ASSUME NEW h \in Hosts, StartCall(h) PROVE TypeOK'
    <2>1. h \in Threads
      OBVIOUS
    <2>2. call' \in Calls
      BY <1>1, <2>1, GotoType DEF StartCall
    <2>3. starts' \in Nat
      BY <1>1 DEF StartCall
    <2>4. bridge' \in Bridges
      BY <1>1 DEF StartCall
    <2>5. QED
      BY <1>1, <2>2, <2>3, <2>4 DEF StartCall
  <1>2. ASSUME NEW t \in Threads, StartPrepare(t) PROVE TypeOK'
    BY <1>2, GotoType, FaultType DEF StartPrepare
  <1>3. ASSUME NEW t \in Threads, Lock(t) PROVE TypeOK'
    BY <1>3, GotoType DEF Lock
  <1>4. ASSUME NEW t \in Threads, AdapterConnect(t) PROVE TypeOK'
    BY <1>4, GotoType, AbandonType, FaultType, ConnectType DEF AdapterConnect
  <1>5. ASSUME NEW t \in Threads, Identify(t) PROVE TypeOK'
    BY <1>5, GotoType, AbandonType, FaultType, DisconnectType DEF Identify
  <1>6. ASSUME NEW t \in Threads, AdapterStarted(t) PROVE TypeOK'
    BY <1>6, GotoType, AbandonType, FaultType, DisconnectType, RefreshType DEF AdapterStarted
  <1>7. ASSUME NEW t \in Threads, StartCommit(t) PROVE TypeOK'
    BY <1>7, GotoType DEF StartCommit
  <1>8. ASSUME NEW t \in Threads, StartBegin(t) PROVE TypeOK'
    BY <1>8, GotoType DEF StartBegin
  <1>9. ASSUME NEW t \in Threads, StartEnd(t) PROVE TypeOK'
    BY <1>9, FinishType DEF StartEnd
  <1>10. ASSUME NEW h \in Hosts, ShutdownCall(h) PROVE TypeOK'
    <2>1. h \in Threads
      OBVIOUS
    <2>2. call' \in Calls
      BY <1>10, <2>1, GotoType DEF ShutdownCall
    <2>3. QED
      BY <1>10, <2>2 DEF ShutdownCall
  <1>11. ASSUME NEW t \in Threads, StopRuntime(t) PROVE TypeOK'
    <2>1. PICK f \in BOOLEAN : f = coord.started
      OBVIOUS
    <2>2. Goto(t, "disconnect") \/ call' = [call EXCEPT ![t].at = "stopAll", ![t].failed = f]
      BY <1>11, <2>1 DEF StopRuntime
    <2>3. call' \in Calls
      BY <2>2, GotoType, FailedType
    <2>4. QED
      BY <1>11, <2>3 DEF StopRuntime
  <1>12. ASSUME NEW t \in Threads, AdapterDisconnect(t) PROVE TypeOK'
    <2>1. Goto(t, "close") \/ call' = [call EXCEPT ![t].at = "close", ![t].failed = TRUE]
      BY <1>12 DEF AdapterDisconnect
    <2>2. call' \in Calls
      BY <2>1, GotoType, FailedType
    <2>3. QED
      BY <1>12, FaultType, DisconnectType, <2>2 DEF AdapterDisconnect
  <1>13. ASSUME NEW t \in Threads, IntakeClose(t) PROVE TypeOK'
    BY <1>13, GotoType DEF IntakeClose
  <1>14. ASSUME NEW t \in Threads, IntakeClosed(t) PROVE TypeOK'
    BY <1>14, GotoType DEF IntakeClosed
  <1>15. ASSUME NEW t \in Threads, RuntimeStopped(t) PROVE TypeOK'
    <2>1. Goto(t, "stopAll") \/ call' = [call EXCEPT ![t].at = "stopAll", ![t].failed = TRUE]
      BY <1>15 DEF RuntimeStopped
    <2>2. call' \in Calls
      BY <2>1, GotoType, FailedType
    <2>3. QED
      BY <1>15, FaultType, <2>2 DEF RuntimeStopped
  <1>16. ASSUME NEW t \in Threads, StopAll(t) PROVE TypeOK'
    <2>1. Goto(t, "clear") \/ call' = [call EXCEPT ![t].at = "clear", ![t].failed = TRUE]
      BY <1>16 DEF StopAll
    <2>2. call' \in Calls
      BY <2>1, GotoType, FailedType
    <2>3. QED
      BY <1>16, FaultType, <2>2 DEF StopAll
  <1>17. ASSUME NEW t \in Threads, ShutdownClear(t) PROVE TypeOK'
    BY <1>17, GotoType, CallTypes DEF ShutdownClear
  <1>18. ASSUME NEW t \in Threads, ShutdownEnd(t) PROVE TypeOK'
    BY <1>18, FinishType DEF ShutdownEnd
  <1>19. ASSUME NEW t \in Threads, ReconnectCall(t) PROVE TypeOK'
    BY <1>19, GotoType DEF ReconnectCall
  <1>20. ASSUME NEW t \in Threads, ReconnectCheck(t) PROVE TypeOK'
    BY <1>20, GotoType, FinishType DEF ReconnectCheck
  <1>21. ASSUME NEW t \in Threads, ReconnectLock(t) PROVE TypeOK'
    BY <1>21, GotoType, FinishType DEF ReconnectLock
  <1>22. ASSUME NEW t \in Threads, ReconnectDrop(t) PROVE TypeOK'
    BY <1>22, GotoType, AbandonType, FaultType, DisconnectType DEF ReconnectDrop
  <1>23. ASSUME NEW t \in Threads, Reconnected(t) PROVE TypeOK'
    BY <1>23, FinishType DEF Reconnected
  <1>24. CASE RefreshEnds
    BY <1>24 DEF RefreshEnds
  <1>25. CASE HostCtxEnds
    BY <1>25 DEF HostCtxEnds
  <1>26. ASSUME NEW m \in Msgs, HandleLarkEvent(m) PROVE TypeOK'
    BY <1>26, RefreshType DEF HandleLarkEvent, TransportOK
  <1>27. CASE Deliver /\ UNCHANGED <<bridge, coord, adapter, mutex, intake, handled, call, starts,
     faults, hurt>>
    BY <1>27 DEF Deliver, emit, TransportOK
  <1>28. CASE UNCHANGED vars
    BY <1>28 DEF vars
  <1>29. QED
    BY <1>1, <1>2, <1>3, <1>4, <1>5, <1>6, <1>7, <1>8, <1>9, <1>10, <1>11, <1>12, <1>13, <1>14,
       <1>15, <1>16, <1>17, <1>18, <1>19, <1>20, <1>21, <1>22, <1>23, <1>24, <1>25, <1>26, <1>27,
       <1>28 DEF Next, Step

LEMMA CallersStep ==
  ASSUME TypeOK, CallersInv, [Next]_vars PROVE CallersInv'
  <1>0. call \in Calls /\ bridge \in Bridges /\ mutex \in Threads \cup {Nobody}
    BY DEF TypeOK, TransportOK
  <1> USE <1>0, Apart DEF CallersInv, Calls, Bridges, Place, Early, Starting, Late, Closing,
     Undoing, Stopping, Inside, Reconnecting
  <1>1. ASSUME NEW h \in Hosts, StartCall(h) PROVE CallersInv'
    BY <1>1 DEF StartCall, Goto, transportVars
  <1>2. ASSUME NEW t \in Threads, StartPrepare(t) PROVE CallersInv'
    BY <1>2 DEF StartPrepare, At, Goto, Works, Fails, transportVars
  <1>3. ASSUME NEW t \in Threads, Lock(t) PROVE CallersInv'
    BY <1>3 DEF Lock, At, Goto, transportVars
  <1>4. ASSUME NEW t \in Threads, AdapterConnect(t) PROVE CallersInv'
    BY <1>4 DEF AdapterConnect, Connect, Abandon, At, Goto, Finish, Idle, Works, Fails,
       transportVars
  <1>5. ASSUME NEW t \in Threads, Identify(t) PROVE CallersInv'
    BY <1>5 DEF Identify, Disconnect, Abandon, At, Goto, Finish, Idle, Works, Fails, transportVars
  <1>6. ASSUME NEW t \in Threads, AdapterStarted(t) PROVE CallersInv'
    BY <1>6 DEF AdapterStarted, ensureRuntimeInfo, Disconnect, Abandon, At, Goto, Finish, Idle,
       Works, Fails, transportVars
  <1>7. ASSUME NEW t \in Threads, StartCommit(t) PROVE CallersInv'
    BY <1>7 DEF StartCommit, At, Goto, transportVars
  <1>8. ASSUME NEW t \in Threads, StartBegin(t) PROVE CallersInv'
    BY <1>8 DEF StartBegin, At, Goto, transportVars
  <1>9. ASSUME NEW t \in Threads, StartEnd(t) PROVE CallersInv'
    BY <1>9 DEF StartEnd, At, Finish, Idle, transportVars
  <1>10. ASSUME NEW h \in Hosts, ShutdownCall(h) PROVE CallersInv'
    BY <1>10 DEF ShutdownCall, Goto, Idle, transportVars
  <1>11. ASSUME NEW t \in Threads, StopRuntime(t) PROVE CallersInv'
    <2>1. \/ Moves(t, "stopRuntime", "disconnect") /\ coord.started
          \/ Moves(t, "stopRuntime", "stopAll") /\ (coord.stopping \/ ~coord.started)
      BY <1>11, ShutdownMoves
    <2>2. UNCHANGED <<bridge, mutex>>
      BY <1>11 DEF StopRuntime
    <2>3. QED
      BY <2>1, <2>2 DEF Moves
  <1>12. ASSUME NEW t \in Threads, AdapterDisconnect(t) PROVE CallersInv'
    <2>1. Moves(t, "disconnect", "close")
      BY <1>12, ShutdownMoves
    <2>2. UNCHANGED <<bridge, mutex>>
      BY <1>12 DEF AdapterDisconnect
    <2>3. QED
      BY <2>1, <2>2 DEF Moves
  <1>13. ASSUME NEW t \in Threads, IntakeClose(t) PROVE CallersInv'
    BY <1>13 DEF IntakeClose, At, Goto, transportVars
  <1>14. ASSUME NEW t \in Threads, IntakeClosed(t) PROVE CallersInv'
    BY <1>14 DEF IntakeClosed, At, Goto, transportVars
  <1>15. ASSUME NEW t \in Threads, RuntimeStopped(t) PROVE CallersInv'
    <2>1. Moves(t, "stopped", "stopAll") /\ (coord'.started => call'[t].failed)
      BY <1>15, ShutdownMoves
    <2>2. UNCHANGED <<bridge, mutex>>
      BY <1>15 DEF RuntimeStopped
    <2>3. QED
      BY <2>1, <2>2 DEF Moves
  <1>16. ASSUME NEW t \in Threads, StopAll(t) PROVE CallersInv'
    <2>1. Moves(t, "stopAll", "clear") /\ (call[t].failed => call'[t].failed)
      BY <1>16, ShutdownMoves
    <2>2. UNCHANGED <<bridge, mutex>>
      BY <1>16 DEF StopAll
    <2>3. QED
      BY <2>1, <2>2 DEF Moves
  <1>17. ASSUME NEW t \in Threads, ShutdownClear(t) PROVE CallersInv'
    BY <1>17 DEF ShutdownClear, At, Goto, transportVars
  <1>18. ASSUME NEW t \in Threads, ShutdownEnd(t) PROVE CallersInv'
    BY <1>18 DEF ShutdownEnd, At, Finish, Idle, transportVars
  <1>19. ASSUME NEW t \in Threads, ReconnectCall(t) PROVE CallersInv'
    BY <1>19 DEF ReconnectCall, Goto, Idle, transportVars
  <1>20. ASSUME NEW t \in Threads, ReconnectCheck(t) PROVE CallersInv'
    BY <1>20 DEF ReconnectCheck, At, Goto, Finish, Idle, transportVars
  <1>21. ASSUME NEW t \in Threads, ReconnectLock(t) PROVE CallersInv'
    BY <1>21 DEF ReconnectLock, At, Goto, Finish, Idle, transportVars
  <1>22. ASSUME NEW t \in Threads, ReconnectDrop(t) PROVE CallersInv'
    BY <1>22 DEF ReconnectDrop, Disconnect, Abandon, At, Goto, Finish, Idle, Works, Fails,
       transportVars
  <1>23. ASSUME NEW t \in Threads, Reconnected(t) PROVE CallersInv'
    BY <1>23 DEF Reconnected, At, Finish, Idle, transportVars
  <1>24. CASE RefreshEnds
    BY <1>24 DEF RefreshEnds, transportVars
  <1>25. CASE HostCtxEnds
    BY <1>25 DEF HostCtxEnds, transportVars
  <1>26. ASSUME NEW m \in Msgs, HandleLarkEvent(m) PROVE CallersInv'
    BY <1>26 DEF HandleLarkEvent, ensureRuntimeInfo
  <1>27. CASE Deliver /\ UNCHANGED <<bridge, coord, adapter, mutex, intake, handled, call, starts,
     faults, hurt>>
    BY <1>27 DEF Deliver, emit
  <1>28. CASE UNCHANGED vars
    BY <1>28 DEF vars, transportVars
  <1>29. QED
    BY <1>1, <1>2, <1>3, <1>4, <1>5, <1>6, <1>7, <1>8, <1>9, <1>10, <1>11, <1>12, <1>13, <1>14,
       <1>15, <1>16, <1>17, <1>18, <1>19, <1>20, <1>21, <1>22, <1>23, <1>24, <1>25, <1>26, <1>27,
       <1>28 DEF Next, Step

LEMMA LinkStep ==
  ASSUME TypeOK, CallersInv, LinkInv, PhaseInv, [Next]_vars PROVE LinkInv'
  <1>0. call \in Calls /\ link \in Links /\ adapter \in Adapters /\ mutex \in Threads \cup
     {Nobody}
    BY DEF TypeOK, TransportOK
  <1> USE <1>0, Apart DEF CallersInv, LinkInv, Calls, Links, Adapters, Place, Early, Starting,
     Late, Closing, Undoing, Stopping, Inside, Reconnecting
  <1>1. ASSUME NEW h \in Hosts, StartCall(h) PROVE LinkInv'
    BY <1>1 DEF StartCall, Goto, transportVars
  <1>2. ASSUME NEW t \in Threads, StartPrepare(t) PROVE LinkInv'
    BY <1>2 DEF StartPrepare, At, Goto, Works, Fails, transportVars
  <1>3. ASSUME NEW t \in Threads, Lock(t) PROVE LinkInv'
    <2>1. t \in Hosts /\ t # Nobody /\ call[t].at = "lock"
      BY <1>3 DEF Lock, At
    <2>2. adapter.ctx = "none" /\ ~adapter.started /\ ~link.up
      BY <1>3, <2>1 DEF PhaseInv, Lock, Down
    <2>3. Moves(t, "lock", "connecting") /\ mutex' = t /\ UNCHANGED <<link, adapter>>
      BY <1>3, GotoMoves, Places DEF Lock, At, Moves, transportVars
    <2>4. QED
      BY <2>1, <2>2, <2>3 DEF Moves
  <1>4. ASSUME NEW t \in Threads, AdapterConnect(t) PROVE LinkInv'
    BY <1>4 DEF AdapterConnect, Connect, Abandon, At, Goto, Finish, Idle, Works, Fails,
       transportVars
  <1>5. ASSUME NEW t \in Threads, Identify(t) PROVE LinkInv'
    BY <1>5 DEF Identify, Disconnect, Abandon, At, Goto, Finish, Idle, Works, Fails, transportVars
  <1>6. ASSUME NEW t \in Threads, AdapterStarted(t) PROVE LinkInv'
    BY <1>6 DEF AdapterStarted, ensureRuntimeInfo, Disconnect, Abandon, At, Goto, Finish, Idle,
       Works, Fails, transportVars
  <1>7. ASSUME NEW t \in Threads, StartCommit(t) PROVE LinkInv'
    BY <1>7 DEF StartCommit, At, Goto, transportVars
  <1>8. ASSUME NEW t \in Threads, StartBegin(t) PROVE LinkInv'
    BY <1>8 DEF StartBegin, At, Goto, transportVars
  <1>9. ASSUME NEW t \in Threads, StartEnd(t) PROVE LinkInv'
    BY <1>9 DEF StartEnd, At, Finish, Idle, transportVars
  <1>10. ASSUME NEW h \in Hosts, ShutdownCall(h) PROVE LinkInv'
    BY <1>10 DEF ShutdownCall, Goto, Idle, transportVars
  <1>11. ASSUME NEW t \in Threads, StopRuntime(t) PROVE LinkInv'
    BY <1>11 DEF StopRuntime, At, Goto, transportVars
  <1>12. ASSUME NEW t \in Threads, AdapterDisconnect(t) PROVE LinkInv'
    BY <1>12 DEF AdapterDisconnect, Disconnect, At, Goto, Works, Fails, transportVars
  <1>13. ASSUME NEW t \in Threads, IntakeClose(t) PROVE LinkInv'
    BY <1>13 DEF IntakeClose, At, Goto, transportVars
  <1>14. ASSUME NEW t \in Threads, IntakeClosed(t) PROVE LinkInv'
    BY <1>14 DEF IntakeClosed, At, Goto, transportVars
  <1>15. ASSUME NEW t \in Threads, RuntimeStopped(t) PROVE LinkInv'
    BY <1>15 DEF RuntimeStopped, At, Goto, Works, Fails, transportVars
  <1>16. ASSUME NEW t \in Threads, StopAll(t) PROVE LinkInv'
    BY <1>16 DEF StopAll, At, Goto, Works, Fails, transportVars
  <1>17. ASSUME NEW t \in Threads, ShutdownClear(t) PROVE LinkInv'
    <2>1. t \in Hosts /\ t # Nobody /\ call[t].at = "clear"
      BY <1>17 DEF ShutdownClear, At
    <2>2. adapter.ctx = "none"
      BY <2>1 DEF PhaseInv
    <2>3. Moves(t, "clear", "shutEnd") /\ UNCHANGED <<link, adapter, mutex>>
      BY <1>17, GotoMoves, Places DEF ShutdownClear, At, Moves, transportVars
    <2>4. QED
      BY <2>1, <2>2, <2>3 DEF Moves
  <1>18. ASSUME NEW t \in Threads, ShutdownEnd(t) PROVE LinkInv'
    BY <1>18 DEF ShutdownEnd, At, Finish, Idle, transportVars
  <1>19. ASSUME NEW t \in Threads, ReconnectCall(t) PROVE LinkInv'
    BY <1>19 DEF ReconnectCall, Goto, Idle, transportVars
  <1>20. ASSUME NEW t \in Threads, ReconnectCheck(t) PROVE LinkInv'
    BY <1>20 DEF ReconnectCheck, At, Goto, Finish, Idle, transportVars
  <1>21. ASSUME NEW t \in Threads, ReconnectLock(t) PROVE LinkInv'
    BY <1>21 DEF ReconnectLock, At, Goto, Finish, Idle, transportVars
  <1>22. ASSUME NEW t \in Threads, ReconnectDrop(t) PROVE LinkInv'
    BY <1>22 DEF ReconnectDrop, Disconnect, Abandon, At, Goto, Finish, Idle, Works, Fails,
       transportVars
  <1>23. ASSUME NEW t \in Threads, Reconnected(t) PROVE LinkInv'
    BY <1>23 DEF Reconnected, At, Finish, Idle, transportVars
  <1>24. CASE RefreshEnds
    BY <1>24 DEF RefreshEnds, transportVars
  <1>25. CASE HostCtxEnds
    BY <1>25 DEF HostCtxEnds, transportVars
  <1>26. ASSUME NEW m \in Msgs, HandleLarkEvent(m) PROVE LinkInv'
    BY <1>26 DEF HandleLarkEvent, ensureRuntimeInfo
  <1>27. CASE Deliver /\ UNCHANGED <<bridge, coord, adapter, mutex, intake, handled, call, starts,
     faults, hurt>>
    BY <1>27 DEF Deliver, emit
  <1>28. CASE UNCHANGED vars
    BY <1>28 DEF vars, transportVars
  <1>29. QED
    BY <1>1, <1>2, <1>3, <1>4, <1>5, <1>6, <1>7, <1>8, <1>9, <1>10, <1>11, <1>12, <1>13, <1>14,
       <1>15, <1>16, <1>17, <1>18, <1>19, <1>20, <1>21, <1>22, <1>23, <1>24, <1>25, <1>26, <1>27,
       <1>28 DEF Next, Step

LEMMA PhaseStep ==
  ASSUME TypeOK, CallersInv, LinkInv, PhaseInv, [Next]_vars PROVE PhaseInv'
  <1>0. call \in Calls /\ bridge \in Bridges /\ coord \in Coords /\ adapter \in Adapters /\ mutex
     \in Threads \cup {Nobody}
    BY DEF TypeOK, TransportOK
  <1> USE <1>0, Apart DEF CallersInv, LinkInv, PhaseInv, Down, Up, Halted, Running, Ending, Calls,
     Bridges, Coords, Adapters, Place, Early, Starting, Late, Closing, Undoing, Stopping, Inside,
     Reconnecting
  <1>1. ASSUME NEW h \in Hosts, StartCall(h) PROVE PhaseInv'
    <2>1. \A g \in Hosts : call[g].at \notin Starting \cup Stopping
      BY <1>1 DEF StartCall
    <2>2. ~bridge.started /\ ~bridge'.started /\ Down
      BY <1>1, <2>1 DEF StartCall
    <2>3. Moves(h, call[h].at, "load") /\ UNCHANGED <<coord, adapter, hurt>>
      BY <1>1, GotoMoves, Places DEF StartCall, Moves
    <2>4. \A g \in Hosts : call'[g].at \in {"idle", "load"}
      BY <2>1, <2>3 DEF Moves
    <2>5. ~bridge'.started /\ Down' /\ call'[h].at = "load"
      BY <2>2, <2>3 DEF Moves
    <2> HIDE DEF Calls, Bridges, Coords, Adapters, Place, CallersInv, LinkInv, Down, Up, Starting,
       Stopping, Reconnecting
    <2>6. QED
      BY <2>4, <2>5 DEF Undoing
  <1>2. ASSUME NEW t \in Threads, StartPrepare(t) PROVE PhaseInv'
    BY <1>2, SMTT(30) DEF StartPrepare, At, Goto, Works, Fails, transportVars
  <1>3. ASSUME NEW t \in Threads, Lock(t) PROVE PhaseInv'
    BY <1>3 DEF Lock, At, Goto, transportVars
  <1>4. ASSUME NEW t \in Threads, AdapterConnect(t) PROVE PhaseInv'
    BY <1>4, SMTT(30) DEF AdapterConnect, Connect, Abandon, At, Goto, Finish, Idle, Works, Fails,
       transportVars
  <1>5. ASSUME NEW t \in Threads, Identify(t) PROVE PhaseInv'
    BY <1>5 DEF Identify, Disconnect, Abandon, At, Goto, Finish, Idle, Works, Fails, transportVars
  <1>6. ASSUME NEW t \in Threads, AdapterStarted(t) PROVE PhaseInv'
    <2>1. t \in Hosts /\ call[t].at = "connected" /\ ~bridge.started /\ Down
      BY <1>6 DEF AdapterStarted, At
    <2>2. CASE Goto(t, "commit") /\ adapter' = [ctx |-> "live", started |-> TRUE] /\ UNCHANGED
       <<bridge, coord>>
      <3>1. Moves(t, "connected", "commit")
        BY <2>1, <2>2, GotoMoves, Places DEF Moves
      <3>2. \A g \in Hosts \ {t} : call'[g].at \in {"idle", "shutEnd"}
        BY <2>1, <3>1 DEF Moves
      <3>3. adapter'.ctx # "none" /\ Halted' /\ ~bridge'.started
        BY <2>1, <2>2
      <3>4. call'[t].at = "commit"
        BY <3>1 DEF Moves
      <3> HIDE DEF Calls, Bridges, Coords, Adapters, Place, CallersInv, LinkInv, Down, Up,
         Starting, Stopping, Reconnecting
      <3>5. QED
        BY <2>1, <3>2, <3>3, <3>4
    <2>3. CASE Goto(t, "startEnd") /\ UNCHANGED <<bridge, coord, adapter, hurt>>
      <3>1. Moves(t, "connected", "startEnd")
        BY <2>1, <2>3, GotoMoves, Places DEF Moves
      <3>2. QED
        BY <2>1, <2>3, <3>1 DEF Moves
    <2>4. QED
      BY <1>6, <2>2, <2>3 DEF AdapterStarted, Abandon
  <1>7. ASSUME NEW t \in Threads, StartCommit(t) PROVE PhaseInv'
    <2>1. t \in Hosts /\ call[t].at = "commit" /\ ~bridge.started
      BY <1>7 DEF StartCommit, At
    <2>2. Moves(t, "commit", "begin")
      BY <1>7, <2>1, GotoMoves, Places DEF StartCommit, Moves
    <2>3. Running' /\ UNCHANGED <<bridge, adapter, hurt>>
      BY <1>7, <2>1 DEF StartCommit
    <2>4. QED
      BY <2>1, <2>2, <2>3 DEF Moves
  <1>8. ASSUME NEW t \in Threads, StartBegin(t) PROVE PhaseInv'
    BY <1>8 DEF StartBegin, At, Goto, transportVars
  <1>9. ASSUME NEW t \in Threads, StartEnd(t) PROVE PhaseInv'
    BY <1>9 DEF StartEnd, At, Finish, Idle, transportVars
  <1>10. ASSUME NEW h \in Hosts, ShutdownCall(h) PROVE PhaseInv'
    BY <1>10 DEF ShutdownCall, Goto, Idle, transportVars
  <1>11. ASSUME NEW t \in Threads, StopRuntime(t) PROVE PhaseInv'
    BY <1>11, SMTT(30) DEF StopRuntime, At, Goto, transportVars
  <1>12. ASSUME NEW t \in Threads, AdapterDisconnect(t) PROVE PhaseInv'
    BY <1>12 DEF AdapterDisconnect, Disconnect, At, Goto, Works, Fails, transportVars
  <1>13. ASSUME NEW t \in Threads, IntakeClose(t) PROVE PhaseInv'
    BY <1>13 DEF IntakeClose, At, Goto, transportVars
  <1>14. ASSUME NEW t \in Threads, IntakeClosed(t) PROVE PhaseInv'
    BY <1>14 DEF IntakeClosed, At, Goto, transportVars
  <1>15. ASSUME NEW t \in Threads, RuntimeStopped(t) PROVE PhaseInv'
    <2>1. t \in Hosts /\ call[t].at = "stopped" /\ bridge.started /\ Ending /\ adapter.ctx =
       "none"
      BY <1>15 DEF RuntimeStopped, At
    <2>2. Moves(t, "stopped", "stopAll") /\ (coord'.started => call'[t].failed)
      BY <1>15, ShutdownMoves
    <2>3. ~coord'.stopping /\ UNCHANGED <<bridge, adapter, hurt>>
      BY <1>15 DEF RuntimeStopped
    <2>4. QED
      BY <2>1, <2>2, <2>3 DEF Moves
  <1>16. ASSUME NEW t \in Threads, StopAll(t) PROVE PhaseInv'
    BY <1>16, SMTT(30) DEF StopAll, At, Goto, Works, Fails, transportVars
  <1>17. ASSUME NEW t \in Threads, ShutdownClear(t) PROVE PhaseInv'
    BY <1>17 DEF ShutdownClear, At, Goto, transportVars
  <1>18. ASSUME NEW t \in Threads, ShutdownEnd(t) PROVE PhaseInv'
    BY <1>18 DEF ShutdownEnd, At, Finish, Idle, transportVars
  <1>19. ASSUME NEW t \in Threads, ReconnectCall(t) PROVE PhaseInv'
    BY <1>19 DEF ReconnectCall, Goto, Idle, transportVars
  <1>20. ASSUME NEW t \in Threads, ReconnectCheck(t) PROVE PhaseInv'
    <2>1. t \notin Hosts
      BY <1>20 DEF ReconnectCheck, At
    <2>2. \A h \in Hosts : call'[h] = call[h]
      BY <1>20, <2>1 DEF ReconnectCheck, Goto, Finish
    <2>3. QED
      BY <1>20, <2>2 DEF ReconnectCheck
  <1>21. ASSUME NEW t \in Threads, ReconnectLock(t) PROVE PhaseInv'
    BY <1>21 DEF ReconnectLock, At, Goto, Finish, Idle, transportVars
  <1>22. ASSUME NEW t \in Threads, ReconnectDrop(t) PROVE PhaseInv'
    BY <1>22 DEF ReconnectDrop, Disconnect, Abandon, At, Goto, Finish, Idle, Works, Fails,
       transportVars
  <1>23. ASSUME NEW t \in Threads, Reconnected(t) PROVE PhaseInv'
    BY <1>23 DEF Reconnected, At, Finish, Idle, transportVars
  <1>24. CASE RefreshEnds
    BY <1>24 DEF RefreshEnds, transportVars
  <1>25. CASE HostCtxEnds
    BY <1>25 DEF HostCtxEnds, transportVars
  <1>26. ASSUME NEW m \in Msgs, HandleLarkEvent(m) PROVE PhaseInv'
    BY <1>26 DEF HandleLarkEvent, ensureRuntimeInfo
  <1>27. CASE Deliver /\ UNCHANGED <<bridge, coord, adapter, mutex, intake, handled, call, starts,
     faults, hurt>>
    BY <1>27 DEF Deliver, emit
  <1>28. CASE UNCHANGED vars
    BY <1>28 DEF vars, transportVars
  <1>29. QED
    BY <1>1, <1>2, <1>3, <1>4, <1>5, <1>6, <1>7, <1>8, <1>9, <1>10, <1>11, <1>12, <1>13, <1>14,
       <1>15, <1>16, <1>17, <1>18, <1>19, <1>20, <1>21, <1>22, <1>23, <1>24, <1>25, <1>26, <1>27,
       <1>28 DEF Next, Step

LEMMA IntakeStep ==
  ASSUME TypeOK, CallersInv, IntakeInv, [Next]_vars PROVE IntakeInv'
  <1>0. call \in Calls /\ intake \in Intakes
    BY DEF TypeOK, TransportOK
  <1> USE <1>0, Apart DEF CallersInv, IntakeInv, Tasks, Calls, Intakes, Place, Early, Starting,
     Late, Closing, Undoing, Stopping, Inside, Reconnecting
  <1>1. ASSUME NEW h \in Hosts, StartCall(h) PROVE IntakeInv'
    BY <1>1 DEF StartCall, Goto, transportVars
  <1>2. ASSUME NEW t \in Threads, StartPrepare(t) PROVE IntakeInv'
    BY <1>2 DEF StartPrepare, At, Goto, Works, Fails, transportVars
  <1>3. ASSUME NEW t \in Threads, Lock(t) PROVE IntakeInv'
    BY <1>3 DEF Lock, At, Goto, transportVars
  <1>4. ASSUME NEW t \in Threads, AdapterConnect(t) PROVE IntakeInv'
    BY <1>4 DEF AdapterConnect, Connect, Abandon, At, Goto, Finish, Idle, Works, Fails,
       transportVars
  <1>5. ASSUME NEW t \in Threads, Identify(t) PROVE IntakeInv'
    BY <1>5 DEF Identify, Disconnect, Abandon, At, Goto, Finish, Idle, Works, Fails, transportVars
  <1>6. ASSUME NEW t \in Threads, AdapterStarted(t) PROVE IntakeInv'
    <2>1. intake' = intake \/ intake' = ensureRuntimeInfo
      BY <1>6 DEF AdapterStarted
    <2>2. t \in Hosts /\ (Moves(t, "connected", "commit") \/ Moves(t, "connected", "startEnd"))
      BY <1>6, GotoMoves, Places DEF AdapterStarted, Abandon, At, Moves
    <2>3. Tasks' = Tasks
      BY <2>2 DEF Moves
    <2>4. /\ intake'.closed = intake.closed /\ intake'.waited = intake.waited
          /\ intake.closed /\ intake'.refreshing => intake.refreshing
      <3>1. CASE intake' = intake
        BY <3>1
      <3>2. CASE intake' = ensureRuntimeInfo /\ intake.once
        BY <3>2 DEF ensureRuntimeInfo
      <3>3. CASE intake' = [intake EXCEPT !.once = TRUE, !.refreshing = ~intake.closed]
        BY <3>3
      <3>4. QED
        BY <2>1, <3>1, <3>2, <3>3 DEF ensureRuntimeInfo
    <2>5. \A h \in Hosts : call'[h].at = "waiting" => call[h].at = "waiting"
      BY <2>2 DEF Moves
    <2>6. QED
      BY <2>3, <2>4, <2>5
  <1>7. ASSUME NEW t \in Threads, StartCommit(t) PROVE IntakeInv'
    BY <1>7 DEF StartCommit, At, Goto, transportVars
  <1>8. ASSUME NEW t \in Threads, StartBegin(t) PROVE IntakeInv'
    BY <1>8 DEF StartBegin, At, Goto, transportVars
  <1>9. ASSUME NEW t \in Threads, StartEnd(t) PROVE IntakeInv'
    BY <1>9 DEF StartEnd, At, Finish, Idle, transportVars
  <1>10. ASSUME NEW h \in Hosts, ShutdownCall(h) PROVE IntakeInv'
    BY <1>10 DEF ShutdownCall, Goto, Idle, transportVars
  <1>11. ASSUME NEW t \in Threads, StopRuntime(t) PROVE IntakeInv'
    BY <1>11 DEF StopRuntime, At, Goto, transportVars
  <1>12. ASSUME NEW t \in Threads, AdapterDisconnect(t) PROVE IntakeInv'
    BY <1>12 DEF AdapterDisconnect, Disconnect, At, Goto, Works, Fails, transportVars
  <1>13. ASSUME NEW t \in Threads, IntakeClose(t) PROVE IntakeInv'
    BY <1>13 DEF IntakeClose, At, Goto, transportVars
  <1>14. ASSUME NEW t \in Threads, IntakeClosed(t) PROVE IntakeInv'
    BY <1>14 DEF IntakeClosed, At, Goto, transportVars
  <1>15. ASSUME NEW t \in Threads, RuntimeStopped(t) PROVE IntakeInv'
    BY <1>15 DEF RuntimeStopped, At, Goto, Works, Fails, transportVars
  <1>16. ASSUME NEW t \in Threads, StopAll(t) PROVE IntakeInv'
    BY <1>16 DEF StopAll, At, Goto, Works, Fails, transportVars
  <1>17. ASSUME NEW t \in Threads, ShutdownClear(t) PROVE IntakeInv'
    BY <1>17 DEF ShutdownClear, At, Goto, transportVars
  <1>18. ASSUME NEW t \in Threads, ShutdownEnd(t) PROVE IntakeInv'
    BY <1>18 DEF ShutdownEnd, At, Finish, Idle, transportVars
  <1>19. ASSUME NEW t \in Threads, ReconnectCall(t) PROVE IntakeInv'
    BY <1>19 DEF ReconnectCall, Goto, Idle, transportVars
  <1>20. ASSUME NEW t \in Threads, ReconnectCheck(t) PROVE IntakeInv'
    BY <1>20 DEF ReconnectCheck, At, Goto, Finish, Idle, transportVars
  <1>21. ASSUME NEW t \in Threads, ReconnectLock(t) PROVE IntakeInv'
    BY <1>21 DEF ReconnectLock, At, Goto, Finish, Idle, transportVars
  <1>22. ASSUME NEW t \in Threads, ReconnectDrop(t) PROVE IntakeInv'
    BY <1>22 DEF ReconnectDrop, Disconnect, Abandon, At, Goto, Finish, Idle, Works, Fails,
       transportVars
  <1>23. ASSUME NEW t \in Threads, Reconnected(t) PROVE IntakeInv'
    BY <1>23 DEF Reconnected, At, Finish, Idle, transportVars
  <1>24. CASE RefreshEnds
    BY <1>24 DEF RefreshEnds, transportVars
  <1>25. CASE HostCtxEnds
    BY <1>25 DEF HostCtxEnds, transportVars
  <1>26. ASSUME NEW m \in Msgs, HandleLarkEvent(m) PROVE IntakeInv'
    BY <1>26 DEF HandleLarkEvent, ensureRuntimeInfo
  <1>27. CASE Deliver /\ UNCHANGED <<bridge, coord, adapter, mutex, intake, handled, call, starts,
     faults, hurt>>
    BY <1>27 DEF Deliver, emit
  <1>28. CASE UNCHANGED vars
    BY <1>28 DEF vars, transportVars
  <1>29. QED
    BY <1>1, <1>2, <1>3, <1>4, <1>5, <1>6, <1>7, <1>8, <1>9, <1>10, <1>11, <1>12, <1>13, <1>14,
       <1>15, <1>16, <1>17, <1>18, <1>19, <1>20, <1>21, <1>22, <1>23, <1>24, <1>25, <1>26, <1>27,
       <1>28 DEF Next, Step

LEMMA HandledStep ==
  ASSUME TypeOK, HandledInv, [Next]_vars PROVE HandledInv'
  <1>0. handled \in [Msgs -> Nat] /\ inHand \subseteq Msgs
    BY DEF TypeOK, TransportOK
  <1> USE <1>0, Apart DEF HandledInv
  <1>1. ASSUME NEW h \in Hosts, StartCall(h) PROVE HandledInv'
    BY <1>1 DEF StartCall, Goto, transportVars
  <1>2. ASSUME NEW t \in Threads, StartPrepare(t) PROVE HandledInv'
    BY <1>2 DEF StartPrepare, At, Goto, Works, Fails, transportVars
  <1>3. ASSUME NEW t \in Threads, Lock(t) PROVE HandledInv'
    BY <1>3 DEF Lock, At, Goto, transportVars
  <1>4. ASSUME NEW t \in Threads, AdapterConnect(t) PROVE HandledInv'
    BY <1>4 DEF AdapterConnect, Connect, Abandon, At, Goto, Finish, Idle, Works, Fails,
       transportVars
  <1>5. ASSUME NEW t \in Threads, Identify(t) PROVE HandledInv'
    BY <1>5 DEF Identify, Disconnect, Abandon, At, Goto, Finish, Idle, Works, Fails, transportVars
  <1>6. ASSUME NEW t \in Threads, AdapterStarted(t) PROVE HandledInv'
    BY <1>6 DEF AdapterStarted, ensureRuntimeInfo, Disconnect, Abandon, At, Goto, Finish, Idle,
       Works, Fails, transportVars
  <1>7. ASSUME NEW t \in Threads, StartCommit(t) PROVE HandledInv'
    BY <1>7 DEF StartCommit, At, Goto, transportVars
  <1>8. ASSUME NEW t \in Threads, StartBegin(t) PROVE HandledInv'
    BY <1>8 DEF StartBegin, At, Goto, transportVars
  <1>9. ASSUME NEW t \in Threads, StartEnd(t) PROVE HandledInv'
    BY <1>9 DEF StartEnd, At, Finish, Idle, transportVars
  <1>10. ASSUME NEW h \in Hosts, ShutdownCall(h) PROVE HandledInv'
    BY <1>10 DEF ShutdownCall, Goto, Idle, transportVars
  <1>11. ASSUME NEW t \in Threads, StopRuntime(t) PROVE HandledInv'
    BY <1>11 DEF StopRuntime, At, Goto, transportVars
  <1>12. ASSUME NEW t \in Threads, AdapterDisconnect(t) PROVE HandledInv'
    BY <1>12 DEF AdapterDisconnect, Disconnect, At, Goto, Works, Fails, transportVars
  <1>13. ASSUME NEW t \in Threads, IntakeClose(t) PROVE HandledInv'
    BY <1>13 DEF IntakeClose, At, Goto, transportVars
  <1>14. ASSUME NEW t \in Threads, IntakeClosed(t) PROVE HandledInv'
    BY <1>14 DEF IntakeClosed, At, Goto, transportVars
  <1>15. ASSUME NEW t \in Threads, RuntimeStopped(t) PROVE HandledInv'
    BY <1>15 DEF RuntimeStopped, At, Goto, Works, Fails, transportVars
  <1>16. ASSUME NEW t \in Threads, StopAll(t) PROVE HandledInv'
    BY <1>16 DEF StopAll, At, Goto, Works, Fails, transportVars
  <1>17. ASSUME NEW t \in Threads, ShutdownClear(t) PROVE HandledInv'
    BY <1>17 DEF ShutdownClear, At, Goto, transportVars
  <1>18. ASSUME NEW t \in Threads, ShutdownEnd(t) PROVE HandledInv'
    BY <1>18 DEF ShutdownEnd, At, Finish, Idle, transportVars
  <1>19. ASSUME NEW t \in Threads, ReconnectCall(t) PROVE HandledInv'
    BY <1>19 DEF ReconnectCall, Goto, Idle, transportVars
  <1>20. ASSUME NEW t \in Threads, ReconnectCheck(t) PROVE HandledInv'
    BY <1>20 DEF ReconnectCheck, At, Goto, Finish, Idle, transportVars
  <1>21. ASSUME NEW t \in Threads, ReconnectLock(t) PROVE HandledInv'
    BY <1>21 DEF ReconnectLock, At, Goto, Finish, Idle, transportVars
  <1>22. ASSUME NEW t \in Threads, ReconnectDrop(t) PROVE HandledInv'
    BY <1>22 DEF ReconnectDrop, Disconnect, Abandon, At, Goto, Finish, Idle, Works, Fails,
       transportVars
  <1>23. ASSUME NEW t \in Threads, Reconnected(t) PROVE HandledInv'
    BY <1>23 DEF Reconnected, At, Finish, Idle, transportVars
  <1>24. CASE RefreshEnds
    BY <1>24 DEF RefreshEnds, transportVars
  <1>25. CASE HostCtxEnds
    BY <1>25 DEF HostCtxEnds, transportVars
  <1>26. ASSUME NEW m \in Msgs, HandleLarkEvent(m) PROVE HandledInv'
    BY <1>26 DEF HandleLarkEvent, ensureRuntimeInfo
  <1>27. CASE Deliver /\ UNCHANGED <<bridge, coord, adapter, mutex, intake, handled, call, starts,
     faults, hurt>>
    BY <1>27 DEF Deliver, emit
  <1>28. CASE UNCHANGED vars
    BY <1>28 DEF vars, transportVars
  <1>29. QED
    BY <1>1, <1>2, <1>3, <1>4, <1>5, <1>6, <1>7, <1>8, <1>9, <1>10, <1>11, <1>12, <1>13, <1>14,
       <1>15, <1>16, <1>17, <1>18, <1>19, <1>20, <1>21, <1>22, <1>23, <1>24, <1>25, <1>26, <1>27,
       <1>28 DEF Next, Step

LEMMA InitIInv == Init => IInv
  <1> SUFFICES ASSUME Init PROVE IInv
    OBVIOUS
  <1> USE Apart DEF Init, TransportInit, Idle
  <1>1. TypeOK
    BY DEF TypeOK, TransportOK, Links, Bridges, Coords, Adapters, Intakes, Calls, Place
  <1>2. CallersInv
    BY DEF CallersInv, Starting, Early, Stopping, Undoing, Closing, Late, Inside, Reconnecting
  <1>3. LinkInv
    BY DEF LinkInv
  <1>4. PhaseInv
    BY DEF PhaseInv, Down, Halted, Undoing, Closing, Late, Early
  <1>5. IntakeInv /\ HandledInv
    BY DEF IntakeInv, HandledInv
  <1>6. QED
    BY <1>1, <1>2, <1>3, <1>4, <1>5 DEF IInv

LEMMA NextIInv == IInv /\ [Next]_vars => IInv'
  BY TypeStep, CallersStep, LinkStep, PhaseStep, IntakeStep, HandledStep DEF IInv

\* When no call is under way, nobody is inside and no host is anywhere.
LEMMA QuietIsIdle ==
  ASSUME IInv, Quiet
  PROVE  mutex = Nobody /\ \A t \in Threads : call[t].at = "idle"
  <1>1. \A t \in Threads : call[t].at = "idle"
    BY DEF Quiet, Idle
  <1>2. QED
    BY <1>1 DEF IInv, TypeOK, CallersInv, Inside

\* Start, Shutdown and Reconnect of any number of goroutines keep their types.
THEOREM LifecycleTypes == Spec => []TypeOK
  BY InitIInv, NextIInv, PTL DEF Spec, IInv

\* However the calls of Start, Shutdown and Reconnect overlap, and whichever of their
\* steps fail, between calls a Bridge that is not started has no connection left, and
\* one that is started has one unless its last Shutdown or Reconnect failed half way.
THEOREM LifecycleFollows == Spec => []ConnectionFollows
  <1>1. ASSUME IInv, Quiet, ~bridge.started PROVE StoppedIsDown
    <2>1. mutex = Nobody /\ \A h \in Hosts : call[h].at = "idle"
      BY <1>1, QuietIsIdle, Apart
    <2>2. Down
      BY <1>1, <2>1 DEF IInv, PhaseInv
    <2>3. coord = [started |-> FALSE, stopping |-> FALSE]
      BY <1>1, <2>2 DEF IInv, TypeOK, Coords, Down, Halted
    <2>4. QED
      BY <1>1, <2>1, <2>2, <2>3 DEF IInv, LinkInv, Down, StoppedIsDown
  <1>2. ASSUME IInv, Quiet, bridge.started, ~hurt PROVE StartedIsUp
    <2>1. mutex = Nobody /\ \A h \in Hosts : call[h].at = "idle"
      BY <1>2, QuietIsIdle, Apart
    <2>2. Up
      BY <1>2, <2>1 DEF IInv, PhaseInv, Undoing, Closing, Late
    <2>3. coord = [started |-> TRUE, stopping |-> FALSE]
      BY <1>2, <2>2 DEF IInv, TypeOK, Coords, Up, Running
    <2>4. QED
      BY <1>2, <2>1, <2>2, <2>3 DEF IInv, LinkInv, Up, StartedIsUp
  <1>3. IInv => ConnectionFollows
    BY <1>1, <1>2 DEF ConnectionFollows, StoppedIsDown, StartedIsUp
  <1>4. QED
    BY <1>3, InitIInv, NextIInv, PTL DEF Spec

\* However often a message is delivered, and by how many channels, the intake handles
\* it once; after a Close that waited no task of the intake runs or begins.
THEOREM LifecycleHandles == Spec => []HandledWhileOpen
  <1>1. IInv => HandledWhileOpen
    BY DEF IInv, HandledInv, IntakeInv, HandledWhileOpen, HandledOnce, ClosedIsEmpty
  <1>2. QED
    BY <1>1, InitIInv, NextIInv, PTL DEF Spec
-----------------------------------------------------------------------------
CardKinds == {"none", "card-id", "raw-card"}
CardStates == [kind : CardKinds, sequence : Nat]
CardsTypes ==
  /\ entry \in CardStates /\ card \in CardStates /\ forgotten \in BOOLEAN
  /\ caller \in [Callers -> [at : {"idle", "call", "store"}, entry : CardStates]]

\* The number that is stored is the platform's, or the one before it while the caller
\* that was accepted has still to store it; nobody is further ahead than one.
AboutToStore(c) == caller[c].at = "store"
SequenceInv ==
  /\ card.kind = "none" => entry.kind = "none" /\ \A c \in Callers : caller[c].at = "idle"
  /\ (card.kind = "card-id" /\ ~forgotten) =>
       /\ \A c, d \in Callers : AboutToStore(c) /\ AboutToStore(d) => c = d
       /\ \A c \in Callers : AboutToStore(c) =>
            caller[c].entry.sequence = card.sequence /\ card.sequence = entry.sequence + 1
       /\ (\A c \in Callers : ~AboutToStore(c)) => entry.sequence = card.sequence
       /\ \A c \in Callers : caller[c].at = "call" => caller[c].entry.sequence <= entry.sequence + 1
      
CardsInv == CardsTypes /\ SequenceInv

\* The invariant holds before the card is sent.
LEMMA CardsInitHolds == CardsInit => CardsInv
<1> SUFFICES ASSUME CardsInit PROVE CardsInv
  OBVIOUS
<1>1. NoEntry \in CardStates /\ NoEntry.kind = "none" /\ NoEntry.sequence = 0
  BY DEF NoEntry, CardStates, CardKinds
<1>2. CardsTypes
  BY <1>1 DEF CardsInit, CardsTypes
<1>3. \A c \in Callers : caller[c].at = "idle"
  BY DEF CardsInit
<1> QED BY <1>1, <1>2, <1>3 DEF CardsInit, CardsInv, SequenceInv

\* It says that the number which is stored follows.
LEMMA CardsInvFollows == CardsInv => SequenceFollows
<1> SUFFICES ASSUME CardsInv PROVE SequenceFollows
  OBVIOUS
<1>1. card.sequence \in Nat /\ entry.sequence \in Nat
  BY DEF CardsInv, CardsTypes, CardStates
<1> QED BY <1>1 DEF CardsInv, CardsTypes, SequenceInv, SequenceFollows, AboutToStore

\* What a step does to the fields.
LEMMA SendDoes ==
  ASSUME CardsTypes, Send
  PROVE  /\ CardsTypes' /\ card.kind = "none" /\ UNCHANGED <<caller, forgotten>>
         /\ card'.kind # "none" /\ card'.sequence = 0 /\ entry' = card'
  BY DEF Send, CardsTypes, CardStates, CardKinds

\* Forget.
LEMMA ForgetDoes ==
  ASSUME CardsTypes, Forget
  PROVE  CardsTypes' /\ forgotten' /\ entry.kind # "none" /\ UNCHANGED <<card, caller>>
<1>1. NoEntry \in CardStates
  BY DEF NoEntry, CardStates, CardKinds
<1> QED BY <1>1 DEF Forget, CardsTypes

\* The first step of Update.
LEMMA ReadsDoes ==
  ASSUME CardsTypes, NEW c \in Callers, UpdateReads(c)
  PROVE  /\ CardsTypes' /\ caller[c].at = "idle" /\ entry.kind # "none" /\ UNCHANGED <<entry, card, forgotten>>
         /\ caller'[c].at = "call" /\ caller'[c].entry.sequence = entry.sequence + 1
         /\ \A d \in Callers \ {c} : caller'[d] = caller[d]
  BY DEF UpdateReads, CardsTypes, CardStates

\* The call of Update.
LEMMA CallsDoes ==
  ASSUME CardsTypes, NEW c \in Callers, UpdateCalls(c)
  PROVE  /\ CardsTypes' /\ caller[c].at = "call" /\ UNCHANGED <<entry, forgotten>>
         /\ \A d \in Callers \ {c} : caller'[d] = caller[d]
         /\ caller'[c].entry = caller[c].entry
         /\ \/ /\ card.kind = "raw-card" \/ caller[c].entry.sequence > card.sequence
               /\ card'.kind = card.kind /\ card'.sequence = caller[c].entry.sequence
               /\ caller'[c].at = "store"
            \/ card' = card /\ caller'[c].at = "idle"
  BY DEF UpdateCalls, CardsTypes, CardStates

\* The last step of Update.
LEMMA StoresDoes ==
  ASSUME CardsTypes, NEW c \in Callers, UpdateStores(c)
  PROVE  /\ CardsTypes' /\ caller[c].at = "store" /\ entry' = caller[c].entry /\ UNCHANGED <<card, forgotten>>
         /\ caller'[c].at = "idle" /\ \A d \in Callers \ {c} : caller'[d] = caller[d]
  BY DEF UpdateStores, CardsTypes, CardStates

\* Every step keeps the invariant of the card.
LEMMA CardsStep == CardsInv /\ [CardsNext]_cardVars => CardsInv'
<1> SUFFICES ASSUME CardsInv, [CardsNext]_cardVars PROVE CardsInv'
  OBVIOUS
<1> USE DEF CardsInv
<1>0. /\ card.sequence \in Nat /\ entry.sequence \in Nat
      /\ \A c \in Callers : caller[c].entry.sequence \in Nat
  BY DEF CardsTypes, CardStates
<1>1. CASE Send
  BY <1>1, SendDoes DEF SequenceInv, AboutToStore
<1>2. CASE Forget
  BY <1>2, ForgetDoes DEF SequenceInv
<1>3. ASSUME NEW c \in Callers, UpdateReads(c) PROVE CardsInv'
  BY <1>0, <1>3, ReadsDoes DEF SequenceInv, AboutToStore
<1>4. ASSUME NEW c \in Callers, UpdateCalls(c) PROVE CardsInv'
  BY <1>0, <1>4, CallsDoes DEF SequenceInv, AboutToStore
<1>5. ASSUME NEW c \in Callers, UpdateStores(c) PROVE CardsInv'
  BY <1>0, <1>5, StoresDoes DEF SequenceInv, AboutToStore
<1>6. CASE UNCHANGED cardVars
  BY <1>6 DEF cardVars, CardsTypes, SequenceInv, AboutToStore
<1> QED BY <1>1, <1>2, <1>3, <1>4, <1>5, <1>6 DEF CardsNext

\* The number stored for a card follows the one the platform has, however the updates of
\* its callers overlap, so that the next one is taken (Update of cardmanaged).
THEOREM CardFollows == CardsSpec => []SequenceFollows
  BY CardsInitHolds, CardsInvFollows, CardsStep, PTL DEF CardsSpec
-----------------------------------------------------------------------------
\* The events of the process message: what is started or ended, and which.
Subjects == {e.id : e \in Happening}
Tags == Nat \cup {"understand", "process"} \cup Subjects
CotEventTypes == {"RUN_STARTED", "RUN_FINISHED", "RUN_ERROR", "STEP_STARTED", "STEP_FINISHED",
          "TEXT_MESSAGE_START", "TEXT_MESSAGE_CONTENT", "TEXT_MESSAGE_END",
          "REASONING_START", "REASONING_MESSAGE_START", "REASONING_MESSAGE_CONTENT",
          "REASONING_MESSAGE_END", "REASONING_END", "TOOL_CALL_START", "TOOL_CALL_END", "TOOL_CALL_RESULT"}
CotKinds == {"run", "step", "reasoning", "text", "action", "tool"}
CotEvents == [type : CotEventTypes, id : CotKinds \X Tags]
TextSources == {""} \cup Subjects
OpenStates == [reasoning : BOOLEAN, step : BOOLEAN, text : Nat, texts : Nat, source : TextSources,
          action : Nat, actions : Nat]
CotTypes ==
  /\ events \in Seq(Happening) /\ open \in OpenStates
  /\ todo \in Seq(CotEvents) /\ told \in Seq(CotEvents) /\ buffer \in Seq(CotEvents) /\ sent \in Seq(CotEvents)
  /\ timer \in {"none", "armed", "fired"} /\ flushing \in BOOLEAN /\ disabled \in BOOLEAN
  /\ flusher \in [Flushers -> [at : {"idle", "wait", "call", "sent", "failed"}, batch : Seq(CotEvents)]]
  /\ consumer \in [at : {"run", "ending", "flushing", "over"}, reason : {"none", "done", "error"}, attempts : Nat]
  /\ completed \in {"none", "done", "error"} /\ cotFailures \in Nat

\* The tags of what is started and ended.
LEMMA TagsHold == /\ \A n \in Nat : n \in Tags
                  /\ "understand" \in Tags /\ "process" \in Tags
                  /\ \A e \in Happening : e.id \in Tags /\ e.id \in Subjects
  BY DEF Tags, Subjects

\* A COT event of a type about something.
LEMMA EvType ==
  ASSUME NEW type \in CotEventTypes, NEW a \in CotKinds, NEW b \in Tags
  PROVE  Ev(type, <<a, b>>) \in CotEvents /\ Ev(type, <<a, b>>).type = type /\ Ev(type, <<a, b>>).id = <<a, b>>
  BY DEF Ev, CotEvents

\* A sequence of one, and of two.
LEMMA One == ASSUME NEW S, NEW e \in S PROVE <<e>> \in Seq(S)
  OBVIOUS

\* A sequence of two.
LEMMA Two == ASSUME NEW S, NEW e \in S, NEW f \in S PROVE <<e, f>> \in Seq(S)
  OBVIOUS

\* What ends the open reasoning, text, action and step are COT events.
LEMMA ClosesType ==
  ASSUME NEW o \in OpenStates
  PROVE  /\ closeReasoning(o) \in Seq(CotEvents) /\ closeText(o) \in Seq(CotEvents)
         /\ closeAction(o) \in Seq(CotEvents) /\ closeStep(o) \in Seq(CotEvents)
<1>0. 0 \in Tags /\ "process" \in Tags /\ o.text \in Tags /\ o.action \in Tags
  BY TagsHold DEF OpenStates
<1>1. Ev("REASONING_MESSAGE_END", Reasoning) \in CotEvents
  BY <1>0 DEF Ev, CotEvents, CotEventTypes, CotKinds, Reasoning
<1>2. Ev("REASONING_END", Reasoning) \in CotEvents
  BY <1>0 DEF Ev, CotEvents, CotEventTypes, CotKinds, Reasoning
<1>3. Ev("TEXT_MESSAGE_END", <<"text", o.text>>) \in CotEvents
  BY <1>0 DEF Ev, CotEvents, CotEventTypes, CotKinds
<1>4. Ev("STEP_FINISHED", <<"action", o.action>>) \in CotEvents
  BY <1>0 DEF Ev, CotEvents, CotEventTypes, CotKinds
<1>5. Ev("STEP_FINISHED", <<"step", "process">>) \in CotEvents
  BY <1>0 DEF Ev, CotEvents, CotEventTypes, CotKinds
<1>6. <<>> \in Seq(CotEvents)
  OBVIOUS
<1>7. closeReasoning(o) \in Seq(CotEvents)
  BY <1>1, <1>2, <1>6, Two DEF closeReasoning
<1> QED BY <1>3, <1>4, <1>5, <1>6, <1>7, One DEF closeText, closeAction, closeStep

\* How often an event is in a sequence, and how often more it is begun than ended.
PlacesOf(s, type, id) == {i \in DOMAIN s : s[i].type = type /\ s[i].id = id}
CountIn(s, type, id) == Cardinality(PlacesOf(s, type, id))
Diff(s, p, id) == CountIn(s, p[1], id) - CountIn(s, p[2], id)

\* A count is a number.
LEMMA CountType ==
  ASSUME NEW S, NEW s \in Seq(S), NEW type, NEW id
  PROVE  IsFiniteSet(PlacesOf(s, type, id)) /\ CountIn(s, type, id) \in Nat
<1>1. PlacesOf(s, type, id) \in SUBSET (1 .. Len(s))
  BY LenProperties DEF PlacesOf
<1>2. IsFiniteSet(1 .. Len(s))
  BY FS_Interval, LenProperties
<1>3. IsFiniteSet(PlacesOf(s, type, id))
  BY <1>1, <1>2, FS_Subset
<1> QED BY <1>3, FS_CardinalityType DEF CountIn

\* What is in two sequences one after the other is in the one or in the other.
LEMMA CountConcat ==
  ASSUME NEW S, NEW s \in Seq(S), NEW t \in Seq(S), NEW type, NEW id
  PROVE  CountIn(s \o t, type, id) = CountIn(s, type, id) + CountIn(t, type, id)
<1> DEFINE A == PlacesOf(s, type, id)
           B == PlacesOf(t, type, id)
           C == PlacesOf(s \o t, type, id)
           n == Len(s)
           T == {i \in n + 1 .. n + Len(t) : i - n \in B}
           f == [i \in B |-> n + i]
<1>1. /\ n \in Nat /\ Len(t) \in Nat /\ Len(s \o t) = n + Len(t) /\ DOMAIN (s \o t) = 1 .. n + Len(t)
      /\ DOMAIN s = 1 .. n /\ DOMAIN t = 1 .. Len(t)
      /\ \A i \in 1 .. n : (s \o t)[i] = s[i]
      /\ \A i \in n + 1 .. n + Len(t) : (s \o t)[i] = t[i - n]
  <2>1. \A i \in 1 .. n + Len(t) : (s \o t)[i] = IF i <= n THEN s[i] ELSE t[i - n]
    BY ConcatProperties
  <2>2. n \in Nat /\ Len(t) \in Nat /\ DOMAIN s = 1 .. n /\ DOMAIN t = 1 .. Len(t)
    BY LenProperties
  <2>3. Len(s \o t) = n + Len(t) /\ s \o t \in Seq(S)
    BY ConcatProperties
  <2>4. DOMAIN (s \o t) = 1 .. n + Len(t)
    BY <2>3, LenProperties
  <2> QED BY <2>1, <2>2, <2>3, <2>4
<1>2. C = A \cup T
  <2>1. \A i \in A : i \in C
    BY <1>1 DEF PlacesOf
  <2>2. \A i \in T : i \in C
    <3> SUFFICES ASSUME NEW i \in T PROVE i \in C
      OBVIOUS
    <3>1. i \in n + 1 .. n + Len(t) /\ i - n \in B
      OBVIOUS
    <3>2. (s \o t)[i] = t[i - n] /\ i \in 1 .. n + Len(t)
      BY <1>1, <3>1
    <3>3. t[i - n].type = type /\ t[i - n].id = id
      BY <3>1 DEF PlacesOf
    <3> QED BY <1>1, <3>2, <3>3 DEF PlacesOf
  <2>3. \A i \in C : i \in A \cup T
    <3> SUFFICES ASSUME NEW i \in C PROVE i \in A \cup T
      OBVIOUS
    <3>1. i \in 1 .. n + Len(t) /\ (s \o t)[i].type = type /\ (s \o t)[i].id = id
      BY <1>1 DEF PlacesOf
    <3>2. CASE i <= n
      <4>1. i \in 1 .. n
        BY <1>1, <3>1, <3>2
      <4> QED BY <1>1, <3>1, <4>1 DEF PlacesOf
    <3>3. CASE i > n
      <4>1. i \in n + 1 .. n + Len(t) /\ i - n \in 1 .. Len(t)
        BY <1>1, <3>1, <3>3
      <4>2. i - n \in B
        BY <1>1, <3>1, <4>1 DEF PlacesOf
      <4> QED BY <4>1, <4>2
    <3> QED BY <1>1, <3>1, <3>2, <3>3
  <2> QED BY <2>1, <2>2, <2>3
<1>3. A \cap T = {}
  BY <1>1 DEF PlacesOf
<1>4. IsFiniteSet(A) /\ IsFiniteSet(B)
  BY CountType
<1>5. f \in Bijection(B, T)
  <2>1. \A i \in B : i \in 1 .. Len(t)
    BY <1>1 DEF PlacesOf
  <2>2. \A i \in B : n + i \in T /\ (n + i) - n = i
    BY <1>1, <2>1
  <2>3. f \in [B -> T]
    BY <2>2
  <2>4. f \in Injection(B, T)
    BY <1>1, <2>1, <2>3 DEF Injection, IsInjective
  <2>5. \A j \in T : \E i \in B : f[i] = j
    <3> SUFFICES ASSUME NEW j \in T PROVE \E i \in B : f[i] = j
      OBVIOUS
    <3>1. j - n \in B /\ j \in Int
      BY <1>1
    <3>2. n + (j - n) = j
      BY <1>1, <3>1
    <3>3. f[j - n] = n + (j - n)
      BY <3>1
    <3> QED BY <3>1, <3>2, <3>3
  <2> QED BY <2>3, <2>4, <2>5 DEF Bijection, Surjection
<1>6. IsFiniteSet(T) /\ Cardinality(T) = Cardinality(B)
  BY <1>4, <1>5, FS_Bijection DEF ExistsBijection
<1>7. Cardinality(A \cup T) = Cardinality(A) + Cardinality(T) - Cardinality(A \cap T)
  BY <1>4, <1>6, FS_Union
<1>8. Cardinality(A \cap T) = 0
  BY <1>3, FS_EmptySet
<1>9. Cardinality(A) \in Nat /\ Cardinality(T) \in Nat
  BY <1>4, <1>6, FS_CardinalityType
<1>10. Cardinality(C) = Cardinality(A) + Cardinality(B)
  BY <1>2, <1>6, <1>7, <1>8, <1>9
<1> QED BY <1>10 DEF CountIn

\* What is in a sequence of one.
LEMMA CountOne ==
  ASSUME NEW e, NEW type, NEW id
  PROVE  CountIn(<<e>>, type, id) = IF e.type = type /\ e.id = id THEN 1 ELSE 0
<1>1. DOMAIN <<e>> = {1} /\ <<e>>[1] = e
  OBVIOUS
<1>2. CASE e.type = type /\ e.id = id
  <2>1. PlacesOf(<<e>>, type, id) = {1}
    BY <1>1, <1>2 DEF PlacesOf
  <2> QED BY <1>2, <2>1, FS_Singleton DEF CountIn
<1>3. CASE ~(e.type = type /\ e.id = id)
  <2>1. PlacesOf(<<e>>, type, id) = {}
    BY <1>1, <1>3 DEF PlacesOf
  <2> QED BY <1>3, <2>1, FS_EmptySet DEF CountIn
<1> QED BY <1>2, <1>3

\* Nothing is in the empty sequence.
LEMMA CountNone ==
  ASSUME NEW type, NEW id PROVE CountIn(<<>>, type, id) = 0
<1>1. PlacesOf(<<>>, type, id) = {}
  BY DEF PlacesOf
<1> QED BY <1>1, FS_EmptySet DEF CountIn

\* What is left open by two sequences is the sum.
LEMMA DiffConcat ==
  ASSUME NEW S, NEW s \in Seq(S), NEW t \in Seq(S), NEW p, NEW id
  PROVE  /\ Diff(s \o t, p, id) = Diff(s, p, id) + Diff(t, p, id)
         /\ Diff(s, p, id) \in Int /\ Diff(t, p, id) \in Int /\ s \o t \in Seq(S)
<1>1. /\ CountIn(s \o t, p[1], id) = CountIn(s, p[1], id) + CountIn(t, p[1], id)
      /\ CountIn(s \o t, p[2], id) = CountIn(s, p[2], id) + CountIn(t, p[2], id)
  BY CountConcat
<1>2. /\ CountIn(s, p[1], id) \in Nat /\ CountIn(s, p[2], id) \in Nat
      /\ CountIn(t, p[1], id) \in Nat /\ CountIn(t, p[2], id) \in Nat
  BY CountType
<1>3. s \o t \in Seq(S)
  BY ConcatProperties
<1> QED BY <1>1, <1>2, <1>3 DEF Diff

TextPair == <<"TEXT_MESSAGE_START", "TEXT_MESSAGE_END">>
ThoughtPair == <<"REASONING_START", "REASONING_END">>
CallPair == <<"TOOL_CALL_START", "TOOL_CALL_END">>

\* The three pairs and their names.
LEMMA PairsAre ==
  /\ Pairs = {TextPair, ThoughtPair, CallPair}
  /\ TextPair # ThoughtPair /\ TextPair # CallPair /\ ThoughtPair # CallPair
  /\ TextPair[1] = "TEXT_MESSAGE_START" /\ TextPair[2] = "TEXT_MESSAGE_END"
  /\ ThoughtPair[1] = "REASONING_START" /\ ThoughtPair[2] = "REASONING_END"
  /\ CallPair[1] = "TOOL_CALL_START" /\ CallPair[2] = "TOOL_CALL_END"
  BY DEF Pairs, TextPair, ThoughtPair, CallPair

\* What is begun and not ended: a text, a thought.
TextOpen(o, p, id) == IF p = TextPair /\ o.text # 0 /\ id = <<"text", o.text>> THEN 1 ELSE 0
ThoughtOpen(o, p, id) == IF p = ThoughtPair /\ o.reasoning /\ id = Reasoning THEN 1 ELSE 0

\* What is open is a number.
LEMMA OpenTypes == \A o, p, id : TextOpen(o, p, id) \in Int /\ ThoughtOpen(o, p, id) \in Int
  BY DEF TextOpen, ThoughtOpen

\* What one event opens or ends.
LEMMA DiffOne ==
  ASSUME NEW e, NEW p, NEW id
  PROVE  Diff(<<e>>, p, id) = (IF e.type = p[1] /\ e.id = id THEN 1 ELSE 0) - (IF e.type = p[2] /\ e.id = id THEN 1 ELSE 0)
  BY CountOne DEF Diff

\* What no event opens.
LEMMA DiffNone == ASSUME NEW p, NEW id PROVE Diff(<<>>, p, id) = 0
<1>1. CountIn(<<>>, p[1], id) = 0 /\ CountIn(<<>>, p[2], id) = 0
  BY CountNone
<1> QED BY <1>1 DEF Diff

\* What two events open or end.
LEMMA DiffTwo ==
  ASSUME NEW S, NEW a \in S, NEW b \in S, NEW p, NEW id
  PROVE  Diff(<<a, b>>, p, id) = Diff(<<a>>, p, id) + Diff(<<b>>, p, id)
<1>1. <<a>> \in Seq(S) /\ <<b>> \in Seq(S) /\ <<a, b>> \in Seq(S)
  OBVIOUS
<1>2. Len(<<a>>) = 1 /\ Len(<<b>>) = 1 /\ Len(<<a, b>>) = 2
  OBVIOUS
<1>3. /\ <<a>> \o <<b>> \in Seq(S) /\ Len(<<a>> \o <<b>>) = 2
      /\ \A i \in 1 .. 2 : (<<a>> \o <<b>>)[i] = IF i <= 1 THEN <<a>>[i] ELSE <<b>>[i - 1]
  BY <1>1, <1>2, ConcatProperties
<1>4. \A i \in 1 .. 2 : (<<a>> \o <<b>>)[i] = <<a, b>>[i]
  BY <1>3
<1>5. <<a, b>> = <<a>> \o <<b>>
  <2>1. Len(<<a>> \o <<b>>) = Len(<<a, b>>) /\ \A i \in 1 .. Len(<<a>> \o <<b>>) : (<<a>> \o <<b>>)[i] = <<a, b>>[i]
    BY <1>2, <1>3, <1>4
  <2> QED BY <1>1, <1>3, <2>1, SeqEqual
<1>6. \A s, t \in Seq(S) : Diff(s \o t, p, id) = Diff(s, p, id) + Diff(t, p, id)
  BY DiffConcat
<1>7. Diff(<<a>> \o <<b>>, p, id) = Diff(<<a>>, p, id) + Diff(<<b>>, p, id)
  BY <1>1, <1>6, Zenon
<1> QED BY <1>5, <1>7
Ended == {"TEXT_MESSAGE_START", "TEXT_MESSAGE_END", "REASONING_START", "REASONING_END", "TOOL_CALL_START", "TOOL_CALL_END"}

\* The other events open and end nothing.
LEMMA DiffOther ==
  ASSUME NEW e, e.type \notin Ended, NEW p \in Pairs, NEW id
  PROVE  Diff(<<e>>, p, id) = 0
<1>1. e.type # p[1] /\ e.type # p[2]
  BY PairsAre DEF Ended
<1> QED BY <1>1, DiffOne

\* The fields of a COT event.
LEMMA EvIs == \A type, id : Ev(type, id).type = type /\ Ev(type, id).id = id
  BY DEF Ev

\* What ends the open text and reasoning ends exactly these.
LEMMA ClosesDiff ==
  ASSUME NEW o \in OpenStates, NEW p \in Pairs, NEW id
  PROVE  /\ Diff(closeReasoning(o), p, id) = - ThoughtOpen(o, p, id)
         /\ Diff(closeText(o), p, id) = - TextOpen(o, p, id)
         /\ Diff(closeAction(o), p, id) = 0 /\ Diff(closeStep(o), p, id) = 0
<1>0. 0 \in Tags /\ "process" \in Tags /\ o.text \in Tags /\ o.action \in Tags
  BY TagsHold DEF OpenStates
<1>1. Diff(closeReasoning(o), p, id) = - ThoughtOpen(o, p, id)
  <2> DEFINE a == Ev("REASONING_MESSAGE_END", Reasoning)
             b == Ev("REASONING_END", Reasoning)
  <2>1. a \in CotEvents /\ b \in CotEvents
    BY <1>0 DEF Ev, CotEvents, CotEventTypes, CotKinds, Reasoning
  <2>2. a.type = "REASONING_MESSAGE_END" /\ b.type = "REASONING_END" /\ b.id = Reasoning
    BY DEF Ev
  <2> HIDE DEF a, b
  <2>4. Diff(<<a, b>>, p, id) = Diff(<<a>>, p, id) + Diff(<<b>>, p, id)
    BY <2>1, DiffTwo
  <2>5. Diff(<<a>>, p, id) = 0
    BY <2>2, DiffOther DEF Ended
  <2>6. Diff(<<b>>, p, id) = IF p = ThoughtPair /\ id = Reasoning THEN -1 ELSE 0
    BY <2>2, DiffOne, PairsAre
  <2>7. CASE o.reasoning
    <3>1. closeReasoning(o) = <<a, b>>
      BY <2>7 DEF closeReasoning, a, b
    <3> QED BY <2>4, <2>5, <2>6, <2>7, <3>1 DEF ThoughtOpen
  <2>8. CASE ~o.reasoning
    <3>1. closeReasoning(o) = <<>>
      BY <2>8 DEF closeReasoning
    <3> QED BY <2>8, <3>1, DiffNone DEF ThoughtOpen
  <2> QED BY <2>7, <2>8
<1>2. Diff(closeText(o), p, id) = - TextOpen(o, p, id)
  <2> DEFINE a == Ev("TEXT_MESSAGE_END", <<"text", o.text>>)
  <2>1. a.type = "TEXT_MESSAGE_END" /\ a.id = <<"text", o.text>>
    BY DEF Ev
  <2> HIDE DEF a
  <2>2. Diff(<<a>>, p, id) = IF p = TextPair /\ id = <<"text", o.text>> THEN -1 ELSE 0
    BY <2>1, DiffOne, PairsAre
  <2>7. CASE o.text # 0
    <3>1. closeText(o) = <<a>>
      BY <2>7 DEF closeText, a
    <3> QED BY <2>2, <2>7, <3>1 DEF TextOpen
  <2>8. CASE o.text = 0
    <3>1. closeText(o) = <<>>
      BY <2>8 DEF closeText
    <3> QED BY <2>8, <3>1, DiffNone DEF TextOpen
  <2> QED BY <2>7, <2>8
<1>3. Diff(closeAction(o), p, id) = 0
  BY EvIs, DiffOther, DiffNone DEF closeAction, Ended
<1>4. Diff(closeStep(o), p, id) = 0
  BY EvIs, DiffOther, DiffNone DEF closeStep, Ended
<1> QED BY <1>1, <1>2, <1>3, <1>4

\* What is left open by three, four, five and six sequences is the sum.
LEMMA DiffConcat3 ==
  ASSUME NEW S, NEW s \in Seq(S), NEW t \in Seq(S), NEW u \in Seq(S), NEW p, NEW id
  PROVE  /\ Diff(s \o t \o u, p, id) = Diff(s, p, id) + Diff(t, p, id) + Diff(u, p, id)
         /\ s \o t \o u \in Seq(S) /\ Diff(s, p, id) \in Int /\ Diff(t, p, id) \in Int /\ Diff(u, p, id) \in Int
<1>1. s \o t \in Seq(S) /\ Diff(s \o t, p, id) = Diff(s, p, id) + Diff(t, p, id)
  BY DiffConcat
<1>2. Diff(s, p, id) \in Int /\ Diff(t, p, id) \in Int
  BY DiffConcat
<1>3. PICK z : z = s \o t
  OBVIOUS
<1>4. z \in Seq(S)
  BY <1>1, <1>3
<1>5. /\ Diff(z \o u, p, id) = Diff(z, p, id) + Diff(u, p, id)
      /\ z \o u \in Seq(S) /\ Diff(u, p, id) \in Int
  <2> HIDE <1>3
  <2> QED BY <1>4, DiffConcat
<1> QED BY <1>1, <1>2, <1>3, <1>5

\* Of four.
LEMMA DiffConcat4 ==
  ASSUME NEW S, NEW s \in Seq(S), NEW t \in Seq(S), NEW u \in Seq(S), NEW v \in Seq(S), NEW p, NEW id
  PROVE  /\ Diff(s \o t \o u \o v, p, id) = Diff(s, p, id) + Diff(t, p, id) + Diff(u, p, id) + Diff(v, p, id)
         /\ s \o t \o u \o v \in Seq(S)
         /\ Diff(s, p, id) \in Int /\ Diff(t, p, id) \in Int /\ Diff(u, p, id) \in Int /\ Diff(v, p, id) \in Int
<1>1. s \o t \o u \in Seq(S) /\ Diff(s \o t \o u, p, id) = Diff(s, p, id) + Diff(t, p, id) + Diff(u, p, id)
  BY DiffConcat3
<1>2. Diff(s, p, id) \in Int /\ Diff(t, p, id) \in Int /\ Diff(u, p, id) \in Int
  BY DiffConcat3
<1>3. PICK z : z = s \o t \o u
  OBVIOUS
<1>4. z \in Seq(S)
  BY <1>1, <1>3
<1>5. /\ Diff(z \o v, p, id) = Diff(z, p, id) + Diff(v, p, id)
      /\ z \o v \in Seq(S) /\ Diff(v, p, id) \in Int
  <2> HIDE <1>3
  <2> QED BY <1>4, DiffConcat
<1> QED BY <1>1, <1>2, <1>3, <1>5

\* Of five.
LEMMA DiffConcat5 ==
  ASSUME NEW S, NEW s \in Seq(S), NEW t \in Seq(S), NEW u \in Seq(S), NEW v \in Seq(S), NEW w \in Seq(S), NEW p, NEW id
  PROVE  /\ Diff(s \o t \o u \o v \o w, p, id) =
              Diff(s, p, id) + Diff(t, p, id) + Diff(u, p, id) + Diff(v, p, id) + Diff(w, p, id)
         /\ s \o t \o u \o v \o w \in Seq(S)
         /\ Diff(s, p, id) \in Int /\ Diff(t, p, id) \in Int /\ Diff(u, p, id) \in Int /\ Diff(v, p, id) \in Int
         /\ Diff(w, p, id) \in Int
<1>1. /\ s \o t \o u \o v \in Seq(S)
      /\ Diff(s \o t \o u \o v, p, id) = Diff(s, p, id) + Diff(t, p, id) + Diff(u, p, id) + Diff(v, p, id)
  BY DiffConcat4
<1>2. Diff(s, p, id) \in Int /\ Diff(t, p, id) \in Int /\ Diff(u, p, id) \in Int /\ Diff(v, p, id) \in Int
  BY DiffConcat4
<1>3. PICK z : z = s \o t \o u \o v
  OBVIOUS
<1>4. z \in Seq(S)
  BY <1>1, <1>3
<1>5. /\ Diff(z \o w, p, id) = Diff(z, p, id) + Diff(w, p, id)
      /\ z \o w \in Seq(S) /\ Diff(w, p, id) \in Int
  <2> HIDE <1>3
  <2> QED BY <1>4, DiffConcat
<1> QED BY <1>1, <1>2, <1>3, <1>5

\* Of six.
LEMMA DiffConcat6 ==
  ASSUME NEW S, NEW s \in Seq(S), NEW t \in Seq(S), NEW u \in Seq(S), NEW v \in Seq(S), NEW w \in Seq(S), NEW x \in Seq(S),
         NEW p, NEW id
  PROVE  /\ Diff(s \o t \o u \o v \o w \o x, p, id) =
              Diff(s, p, id) + Diff(t, p, id) + Diff(u, p, id) + Diff(v, p, id) + Diff(w, p, id) + Diff(x, p, id)
         /\ s \o t \o u \o v \o w \o x \in Seq(S)
<1>1. /\ s \o t \o u \o v \o w \in Seq(S)
      /\ Diff(s \o t \o u \o v \o w, p, id)
           = Diff(s, p, id) + Diff(t, p, id) + Diff(u, p, id) + Diff(v, p, id) + Diff(w, p, id)
  BY DiffConcat5
<1>2. /\ Diff(s, p, id) \in Int /\ Diff(t, p, id) \in Int /\ Diff(u, p, id) \in Int /\ Diff(v, p, id) \in Int
      /\ Diff(w, p, id) \in Int
  BY DiffConcat5
<1>3. PICK z : z = s \o t \o u \o v \o w
  OBVIOUS
<1>4. z \in Seq(S)
  BY <1>1, <1>3
<1>5. Diff(z \o x, p, id) = Diff(z, p, id) + Diff(x, p, id) /\ z \o x \in Seq(S)
  <2> HIDE <1>3
  <2> QED BY <1>4, DiffConcat
<1> QED BY <1>1, <1>2, <1>3, <1>5

\* What is made of an event leaves open what was begun in it and not ended.
Balances(o, b) ==
  /\ b.out \in Seq(CotEvents) /\ b.open \in OpenStates
  /\ \A p \in Pairs : \A id : TextOpen(o, p, id) + ThoughtOpen(o, p, id) + Diff(b.out, p, id)
                              = TextOpen(b.open, p, id) + ThoughtOpen(b.open, p, id)

\* The COT events made of an action of the user.
LEMMA UserActionBalances ==
  ASSUME NEW o \in OpenStates, NEW e, e.type = "userAction"
  PROVE  Balances(o, Consume(o, e))
<1> DEFINE r == closeReasoning(o)
           t == closeText(o)
           a == closeAction(o)
           x == <<Ev("STEP_STARTED", <<"action", o.actions + 1>>)>>
           new == [o EXCEPT !.reasoning = FALSE, !.text = 0, !.action = o.actions + 1, !.actions = @ + 1]
<1>0. /\ o.reasoning \in BOOLEAN /\ o.step \in BOOLEAN /\ o.text \in Nat /\ o.texts \in Nat
      /\ o.source \in TextSources /\ o.action \in Nat /\ o.actions \in Nat /\ o.actions + 1 \in Nat /\ o.texts + 1 \in Nat
  BY DEF OpenStates
<1>1. Consume(o, e) = Become(r \o t \o a \o x, new)
  BY <1>0 DEF Consume, onText, Become
<1>2. new \in OpenStates /\ new.reasoning = FALSE /\ new.text = 0
  BY <1>0 DEF OpenStates
<1> HIDE DEF new
<1>3. Ev("STEP_STARTED", <<"action", o.actions + 1>>) \in CotEvents /\ x = <<Ev("STEP_STARTED", <<"action", o.actions + 1>>)>>
  BY <1>0, TagsHold DEF Ev, CotEvents, CotEventTypes, CotKinds, Reasoning, Run
<1>4. r \in Seq(CotEvents) /\ t \in Seq(CotEvents) /\ a \in Seq(CotEvents) /\ x \in Seq(CotEvents)
  BY <1>3, One, ClosesType
<1> HIDE DEF r, t, a, x
<1>5. ASSUME NEW p \in Pairs, NEW id
      PROVE  TextOpen(o, p, id) + ThoughtOpen(o, p, id) + Diff(r \o t \o a \o x, p, id)
               = TextOpen(new, p, id) + ThoughtOpen(new, p, id)
  <2>1. Diff(r, p, id) = - ThoughtOpen(o, p, id) /\ Diff(t, p, id) = - TextOpen(o, p, id) /\ Diff(a, p, id) = 0 /\ Diff(x, p, id) = 0
    BY ClosesDiff, DiffOther, EvIs DEF r, t, a, x, Ended
  <2>8. Diff(r \o t \o a \o x, p, id) = Diff(r, p, id) + Diff(t, p, id) + Diff(a, p, id) + Diff(x, p, id)
    BY <1>4, DiffConcat4
  <2>9. TextOpen(new, p, id) = 0 /\ ThoughtOpen(new, p, id) = 0
    BY <1>0, <1>2 DEF TextOpen, ThoughtOpen
  <2> QED BY <2>1, <2>8, <2>9, OpenTypes
<1>6. r \o t \o a \o x \in Seq(CotEvents)
  BY <1>4, DiffConcat4
<1> QED BY <1>1, <1>2, <1>5, <1>6 DEF Balances, Become

\* Of a thought.
LEMMA ThinkingBalances ==
  ASSUME NEW o \in OpenStates, NEW e, e.type = "thinking"
  PROVE  Balances(o, Consume(o, e))
<1> DEFINE t == closeText(o)
           b == Ev("REASONING_START", Reasoning)
           m == Ev("REASONING_MESSAGE_START", Reasoning)
           k == IF o.reasoning THEN <<>> ELSE <<b, m>>
           x == <<Ev("REASONING_MESSAGE_CONTENT", Reasoning)>>
           new == [o EXCEPT !.text = 0, !.reasoning = TRUE]
<1>0. /\ o.reasoning \in BOOLEAN /\ o.step \in BOOLEAN /\ o.text \in Nat /\ o.texts \in Nat
      /\ o.source \in TextSources /\ o.action \in Nat /\ o.actions \in Nat /\ o.actions + 1 \in Nat /\ o.texts + 1 \in Nat
  BY DEF OpenStates
<1>1. Consume(o, e) = Become(t \o k \o x, new)
  BY <1>0 DEF Consume, onText, Become
<1>2. new \in OpenStates /\ new.reasoning = TRUE /\ new.text = 0
  BY <1>0 DEF OpenStates
<1> HIDE DEF new
<1>3. Ev("REASONING_MESSAGE_CONTENT", Reasoning) \in CotEvents /\ x = <<Ev("REASONING_MESSAGE_CONTENT", Reasoning)>>
  BY TagsHold DEF Ev, CotEvents, CotEventTypes, CotKinds, Reasoning, Run
<1>7. b \in CotEvents /\ m \in CotEvents /\ b.type = "REASONING_START" /\ b.id = Reasoning /\ m.type = "REASONING_MESSAGE_START"
  BY TagsHold DEF Ev, CotEvents, CotEventTypes, CotKinds, Reasoning
<1>8. <<b, m>> \in Seq(CotEvents)
  <2> HIDE DEF b, m
  <2> QED BY <1>7, Two
<1>4. t \in Seq(CotEvents) /\ k \in Seq(CotEvents) /\ x \in Seq(CotEvents)
  <2>1. <<>> \in Seq(CotEvents)
    OBVIOUS
  <2>2. k \in {<<>>, <<b, m>>}
    OBVIOUS
  <2> QED BY <1>3, <1>8, <2>1, <2>2, One, ClosesType
<1> HIDE DEF t, x, b, m
<1>5. ASSUME NEW p \in Pairs, NEW id
      PROVE  TextOpen(o, p, id) + ThoughtOpen(o, p, id) + Diff(t \o k \o x, p, id)
               = TextOpen(new, p, id) + ThoughtOpen(new, p, id)
  <2>1. Diff(t, p, id) = - TextOpen(o, p, id) /\ Diff(x, p, id) = 0
    BY ClosesDiff, DiffOther, EvIs DEF t, x, Ended
  <2>2. Diff(<<b, m>>, p, id) = Diff(<<b>>, p, id) + Diff(<<m>>, p, id)
    BY <1>7, DiffTwo
  <2>3. Diff(<<m>>, p, id) = 0
    BY <1>7, DiffOther DEF Ended
  <2>4. Diff(<<b>>, p, id) = IF p = ThoughtPair /\ id = Reasoning THEN 1 ELSE 0
    BY <1>7, DiffOne, PairsAre
  <2>5. Diff(k, p, id) = IF p = ThoughtPair /\ id = Reasoning /\ ~o.reasoning THEN 1 ELSE 0
    BY <2>2, <2>3, <2>4, DiffNone
  <2> HIDE DEF k
  <2>8. Diff(t \o k \o x, p, id) = Diff(t, p, id) + Diff(k, p, id) + Diff(x, p, id)
    BY <1>4, DiffConcat3
  <2>9. TextOpen(new, p, id) = 0 /\ ThoughtOpen(new, p, id) = ThoughtOpen(o, p, id) + Diff(k, p, id) /\ Diff(k, p, id) \in Int
    BY <1>0, <1>2, <2>5 DEF TextOpen, ThoughtOpen
  <2> QED BY <2>1, <2>8, <2>9, OpenTypes
<1> HIDE DEF k
<1>6. t \o k \o x \in Seq(CotEvents)
  BY <1>4, DiffConcat3
<1> QED BY <1>1, <1>2, <1>5, <1>6 DEF Balances, Become

\* Of the use of a tool.
LEMMA ToolUseBalances ==
  ASSUME NEW o \in OpenStates, NEW e, e.type = "toolUse", e.id \in Subjects
  PROVE  Balances(o, Consume(o, e))
<1> DEFINE r == closeReasoning(o)
           t == closeText(o)
           c == <<"tool", e.id>>
           b == Ev("TOOL_CALL_START", c)
           m == Ev("TOOL_CALL_END", c)
           k == <<b, m>>
           new == [o EXCEPT !.reasoning = FALSE, !.text = 0]
<1>0. /\ o.reasoning \in BOOLEAN /\ o.step \in BOOLEAN /\ o.text \in Nat /\ o.texts \in Nat
      /\ o.source \in TextSources /\ o.action \in Nat /\ o.actions \in Nat /\ o.actions + 1 \in Nat /\ o.texts + 1 \in Nat
  BY DEF OpenStates
<1>1. Consume(o, e) = Become(r \o t \o k, new)
  BY <1>0 DEF Consume, onText, Become
<1>2. new \in OpenStates /\ new.reasoning = FALSE /\ new.text = 0
  BY <1>0 DEF OpenStates
<1> HIDE DEF new
<1>7. /\ b \in CotEvents /\ m \in CotEvents /\ b.type = "TOOL_CALL_START" /\ b.id = c
      /\ m.type = "TOOL_CALL_END" /\ m.id = c
  <2>1. e.id \in Tags
    BY DEF Tags
  <2> QED BY <2>1 DEF Ev, CotEvents, CotEventTypes, CotKinds
<1> HIDE DEF b, m, c
<1>4. r \in Seq(CotEvents) /\ t \in Seq(CotEvents) /\ k \in Seq(CotEvents)
  BY <1>7, Two, ClosesType
<1> HIDE DEF r, t
<1>5. ASSUME NEW p \in Pairs, NEW id
      PROVE  TextOpen(o, p, id) + ThoughtOpen(o, p, id) + Diff(r \o t \o k, p, id)
               = TextOpen(new, p, id) + ThoughtOpen(new, p, id)
  <2>1. Diff(r, p, id) = - ThoughtOpen(o, p, id) /\ Diff(t, p, id) = - TextOpen(o, p, id)
    BY ClosesDiff DEF r, t
  <2>2. Diff(<<b, m>>, p, id) = Diff(<<b>>, p, id) + Diff(<<m>>, p, id)
    BY <1>7, DiffTwo
  <2>3. Diff(<<m>>, p, id) = IF p = CallPair /\ id = c THEN -1 ELSE 0
    BY <1>7, DiffOne, PairsAre
  <2>4. Diff(<<b>>, p, id) = IF p = CallPair /\ id = c THEN 1 ELSE 0
    BY <1>7, DiffOne, PairsAre
  <2>5. Diff(k, p, id) = 0
    BY <2>2, <2>3, <2>4
  <2> HIDE DEF k
  <2>8. Diff(r \o t \o k, p, id) = Diff(r, p, id) + Diff(t, p, id) + Diff(k, p, id)
    BY <1>4, DiffConcat3
  <2>9. TextOpen(new, p, id) = 0 /\ ThoughtOpen(new, p, id) = 0 /\ Diff(k, p, id) = 0
    BY <1>0, <1>2, <2>5 DEF TextOpen, ThoughtOpen
  <2> QED BY <2>1, <2>8, <2>9, OpenTypes
<1> HIDE DEF k
<1>6. r \o t \o k \in Seq(CotEvents)
  BY <1>4, DiffConcat3
<1> QED BY <1>1, <1>2, <1>5, <1>6 DEF Balances, Become

\* Of its result.
LEMMA ToolResultBalances ==
  ASSUME NEW o \in OpenStates, NEW e, e.type = "toolResult", e.id \in Subjects
  PROVE  Balances(o, Consume(o, e))
<1> DEFINE a == closeAction(o)
           x == <<Ev("TOOL_CALL_RESULT", <<"tool", e.id>>)>>
           new == [o EXCEPT !.action = 0]
<1>0. /\ o.reasoning \in BOOLEAN /\ o.step \in BOOLEAN /\ o.text \in Nat /\ o.texts \in Nat
      /\ o.source \in TextSources /\ o.action \in Nat /\ o.actions \in Nat /\ o.actions + 1 \in Nat /\ o.texts + 1 \in Nat
  BY DEF OpenStates
<1>1. Consume(o, e) = Become(a \o x, new)
  BY <1>0 DEF Consume, onText, Become
<1>2. new \in OpenStates /\ new.reasoning = o.reasoning /\ new.text = o.text
  BY <1>0 DEF OpenStates
<1> HIDE DEF new
<1>3. Ev("TOOL_CALL_RESULT", <<"tool", e.id>>) \in CotEvents
  <2>1. e.id \in Tags
    BY DEF Tags
  <2> QED BY <2>1 DEF Ev, CotEvents, CotEventTypes, CotKinds
<1>4. a \in Seq(CotEvents) /\ x \in Seq(CotEvents)
  BY <1>3, One, ClosesType
<1> HIDE DEF a, x
<1>5. ASSUME NEW p \in Pairs, NEW id
      PROVE  TextOpen(o, p, id) + ThoughtOpen(o, p, id) + Diff(a \o x, p, id)
               = TextOpen(new, p, id) + ThoughtOpen(new, p, id)
  <2>1. Diff(a, p, id) = 0 /\ Diff(x, p, id) = 0
    BY ClosesDiff, DiffOther, EvIs DEF a, x, Ended
  <2>8. Diff(a \o x, p, id) = Diff(a, p, id) + Diff(x, p, id)
    BY <1>4, DiffConcat
  <2>9. TextOpen(new, p, id) = TextOpen(o, p, id) /\ ThoughtOpen(new, p, id) = ThoughtOpen(o, p, id)
    BY <1>0, <1>2 DEF TextOpen, ThoughtOpen
  <2> QED BY <2>1, <2>8, <2>9, OpenTypes
<1>6. a \o x \in Seq(CotEvents)
  BY <1>4, DiffConcat
<1> QED BY <1>1, <1>2, <1>5, <1>6 DEF Balances, Become

\* Of the final text.
LEMMA FinalBalances ==
  ASSUME NEW o \in OpenStates, NEW e, e.type = "text", e.phase = "final"
  PROVE  Balances(o, Consume(o, e))
<1> DEFINE a == closeAction(o)
           r == closeReasoning(o)
           t == closeText(o)
           new == [[o EXCEPT !.action = 0, !.reasoning = FALSE] EXCEPT !.text = 0]
<1>0. /\ o.reasoning \in BOOLEAN /\ o.step \in BOOLEAN /\ o.text \in Nat /\ o.texts \in Nat
      /\ o.source \in TextSources /\ o.action \in Nat /\ o.actions \in Nat /\ o.actions + 1 \in Nat /\ o.texts + 1 \in Nat
  BY DEF OpenStates
<1>1. Consume(o, e) = Become(a \o r \o t, new)
  BY <1>0 DEF Consume, onText, Become
<1>2. new \in OpenStates /\ new.reasoning = FALSE /\ new.text = 0
  BY <1>0 DEF OpenStates
<1> HIDE DEF new
<1>4. a \in Seq(CotEvents) /\ r \in Seq(CotEvents) /\ t \in Seq(CotEvents)
  BY ClosesType
<1> HIDE DEF a, r, t
<1>5. ASSUME NEW p \in Pairs, NEW id
      PROVE  TextOpen(o, p, id) + ThoughtOpen(o, p, id) + Diff(a \o r \o t, p, id)
               = TextOpen(new, p, id) + ThoughtOpen(new, p, id)
  <2>1. Diff(r, p, id) = - ThoughtOpen(o, p, id) /\ Diff(t, p, id) = - TextOpen(o, p, id) /\ Diff(a, p, id) = 0
    BY ClosesDiff DEF r, t, a
  <2>8. Diff(a \o r \o t, p, id) = Diff(a, p, id) + Diff(r, p, id) + Diff(t, p, id)
    BY <1>4, DiffConcat3
  <2>9. TextOpen(new, p, id) = 0 /\ ThoughtOpen(new, p, id) = 0
    BY <1>0, <1>2 DEF TextOpen, ThoughtOpen
  <2> QED BY <2>1, <2>8, <2>9, OpenTypes
<1>6. a \o r \o t \in Seq(CotEvents)
  BY <1>4, DiffConcat3
<1> QED BY <1>1, <1>2, <1>5, <1>6 DEF Balances, Become

\* Of the end of the run.
LEMMA EndsBalances ==
  ASSUME NEW o \in OpenStates, NEW e, e.type \in {"done", "error"}
  PROVE  Balances(o, Consume(o, e)) /\ Consume(o, e).open.text = 0 /\ ~Consume(o, e).open.reasoning
<1> DEFINE r == closeReasoning(o)
           t == closeText(o)
           st == closeStep(o)
           x == <<Ev(IF e.type = "error" THEN "RUN_ERROR" ELSE "RUN_FINISHED", Run)>>
           a == closeAction(o)
           new == [o EXCEPT !.reasoning = FALSE, !.text = 0, !.step = FALSE, !.action = 0]
<1>0. /\ o.reasoning \in BOOLEAN /\ o.step \in BOOLEAN /\ o.text \in Nat /\ o.texts \in Nat
      /\ o.source \in TextSources /\ o.action \in Nat /\ o.actions \in Nat /\ o.actions + 1 \in Nat /\ o.texts + 1 \in Nat
  BY DEF OpenStates
<1>1. Consume(o, e) = Become(r \o t \o st \o x \o a, new)
  BY <1>0 DEF Consume, onText, Become
<1>2. new \in OpenStates /\ new.reasoning = FALSE /\ new.text = 0
  BY <1>0 DEF OpenStates
<1> HIDE DEF new
<1>3. Ev("RUN_ERROR", Run) \in CotEvents /\ Ev("RUN_FINISHED", Run) \in CotEvents
  BY TagsHold DEF Ev, CotEvents, CotEventTypes, CotKinds, Run
<1>7. x \in {<<Ev("RUN_ERROR", Run)>>, <<Ev("RUN_FINISHED", Run)>>}
  OBVIOUS
<1>4. r \in Seq(CotEvents) /\ t \in Seq(CotEvents) /\ st \in Seq(CotEvents) /\ x \in Seq(CotEvents) /\ a \in Seq(CotEvents)
  BY <1>3, <1>7, One, ClosesType
<1> HIDE DEF r, t, st, a, x
<1>5. ASSUME NEW p \in Pairs, NEW id
      PROVE  TextOpen(o, p, id) + ThoughtOpen(o, p, id) + Diff(r \o t \o st \o x \o a, p, id)
               = TextOpen(new, p, id) + ThoughtOpen(new, p, id)
  <2>1. Diff(r, p, id) = - ThoughtOpen(o, p, id) /\ Diff(t, p, id) = - TextOpen(o, p, id) /\ Diff(a, p, id) = 0 /\ Diff(st, p, id) = 0 /\ Diff(x, p, id) = 0
    <3>1. Diff(r, p, id) = - ThoughtOpen(o, p, id) /\ Diff(t, p, id) = - TextOpen(o, p, id) /\ Diff(a, p, id) = 0 /\ Diff(st, p, id) = 0
      BY ClosesDiff DEF r, t, a, st
    <3>2. Diff(<<Ev("RUN_ERROR", Run)>>, p, id) = 0 /\ Diff(<<Ev("RUN_FINISHED", Run)>>, p, id) = 0
      BY DiffOther, EvIs DEF Ended
    <3> QED BY <1>7, <3>1, <3>2
  <2>8. Diff(r \o t \o st \o x \o a, p, id) = Diff(r, p, id) + Diff(t, p, id) + Diff(st, p, id) + Diff(x, p, id) + Diff(a, p, id)
    BY <1>4, DiffConcat5
  <2>9. TextOpen(new, p, id) = 0 /\ ThoughtOpen(new, p, id) = 0
    BY <1>0, <1>2 DEF TextOpen, ThoughtOpen
  <2> QED BY <2>1, <2>8, <2>9, OpenTypes
<1>6. r \o t \o st \o x \o a \in Seq(CotEvents)
  BY <1>4, DiffConcat5
<1> QED BY <1>1, <1>2, <1>5, <1>6 DEF Balances, Become

\* Of the end of the channel.
LEMMA ClosedBalances ==
  ASSUME NEW o \in OpenStates, NEW e, e.type = "closed"
  PROVE  Balances(o, Consume(o, e)) /\ Consume(o, e).open.text = 0 /\ ~Consume(o, e).open.reasoning
<1> DEFINE r == closeReasoning(o)
           t == closeText(o)
           a == closeAction(o)
           new == [o EXCEPT !.reasoning = FALSE, !.text = 0, !.action = 0]
<1>0. /\ o.reasoning \in BOOLEAN /\ o.step \in BOOLEAN /\ o.text \in Nat /\ o.texts \in Nat
      /\ o.source \in TextSources /\ o.action \in Nat /\ o.actions \in Nat /\ o.actions + 1 \in Nat /\ o.texts + 1 \in Nat
  BY DEF OpenStates
<1>1. Consume(o, e) = Become(r \o t \o a, new)
  BY <1>0 DEF Consume, onText, Become
<1>2. new \in OpenStates /\ new.reasoning = FALSE /\ new.text = 0
  BY <1>0 DEF OpenStates
<1> HIDE DEF new
<1>4. r \in Seq(CotEvents) /\ t \in Seq(CotEvents) /\ a \in Seq(CotEvents)
  BY ClosesType
<1> HIDE DEF r, t, a
<1>5. ASSUME NEW p \in Pairs, NEW id
      PROVE  TextOpen(o, p, id) + ThoughtOpen(o, p, id) + Diff(r \o t \o a, p, id)
               = TextOpen(new, p, id) + ThoughtOpen(new, p, id)
  <2>1. Diff(r, p, id) = - ThoughtOpen(o, p, id) /\ Diff(t, p, id) = - TextOpen(o, p, id) /\ Diff(a, p, id) = 0
    BY ClosesDiff DEF r, t, a
  <2>8. Diff(r \o t \o a, p, id) = Diff(r, p, id) + Diff(t, p, id) + Diff(a, p, id)
    BY <1>4, DiffConcat3
  <2>9. TextOpen(new, p, id) = 0 /\ ThoughtOpen(new, p, id) = 0
    BY <1>0, <1>2 DEF TextOpen, ThoughtOpen
  <2> QED BY <2>1, <2>8, <2>9, OpenTypes
<1>6. r \o t \o a \in Seq(CotEvents)
  BY <1>4, DiffConcat3
<1> QED BY <1>1, <1>2, <1>5, <1>6 DEF Balances, Become

\* Of a text before the final one.
LEMMA CommentaryBalances ==
  ASSUME NEW o \in OpenStates, NEW e, e.type = "text", e.phase # "final", e.id \in Subjects
  PROVE  Balances(o, Consume(o, e))
<1> DEFINE a == closeAction(o)
           r == closeReasoning(o)
           fresh == o.text = 0 \/ o.source # e.id
           n == IF fresh THEN o.texts + 1 ELSE o.text
           c == <<"text", n>>
           k == IF o.source # e.id THEN closeText(o) ELSE <<>>
           st == IF o.step THEN <<>> ELSE <<Ev("STEP_STARTED", <<"step", "process">>)>>
           b == Ev("TEXT_MESSAGE_START", c)
           f == IF fresh THEN <<b>> ELSE <<>>
           x == <<Ev("TEXT_MESSAGE_CONTENT", c)>>
           new == [[o EXCEPT !.action = 0, !.reasoning = FALSE] EXCEPT !.step = TRUE, !.text = n, !.texts = n, !.source = e.id]
<1>0. /\ o.reasoning \in BOOLEAN /\ o.step \in BOOLEAN /\ o.text \in Nat /\ o.texts \in Nat
      /\ o.source \in TextSources /\ o.action \in Nat /\ o.actions \in Nat /\ o.actions + 1 \in Nat /\ o.texts + 1 \in Nat
  BY DEF OpenStates
<1>1. Consume(o, e) = Become(a \o r \o k \o st \o f \o x, new)
  BY DEF Consume, onText, Become
<1>2. n \in Nat /\ n # 0 /\ n \in Tags /\ (~fresh => n = o.text)
  <2>1. n \in Nat /\ n # 0 /\ (~fresh => n = o.text)
    BY <1>0
  <2> QED BY <2>1, TagsHold
<1> HIDE DEF n
<1>3. new \in OpenStates /\ new.reasoning = FALSE /\ new.text = n
  BY <1>0, <1>2 DEF OpenStates, TextSources
<1> HIDE DEF new
<1>7. /\ b \in CotEvents /\ b.type = "TEXT_MESSAGE_START" /\ b.id = c
      /\ Ev("TEXT_MESSAGE_CONTENT", c) \in CotEvents
      /\ Ev("STEP_STARTED", <<"step", "process">>) \in CotEvents
  BY <1>2, TagsHold DEF Ev, CotEvents, CotEventTypes, CotKinds
<1> HIDE DEF b
<1>4. /\ a \in Seq(CotEvents) /\ r \in Seq(CotEvents) /\ k \in Seq(CotEvents) /\ st \in Seq(CotEvents)
      /\ f \in Seq(CotEvents) /\ x \in Seq(CotEvents)
  <2>1. <<>> \in Seq(CotEvents)
    OBVIOUS
  <2>2. a \in Seq(CotEvents) /\ r \in Seq(CotEvents) /\ k \in Seq(CotEvents)
    BY <2>1, ClosesType
  <2>3. st \in Seq(CotEvents) /\ f \in Seq(CotEvents) /\ x \in Seq(CotEvents)
    BY <2>1, <1>7, One
  <2> QED BY <2>2, <2>3
<1>5. ASSUME NEW p \in Pairs, NEW id
      PROVE  TextOpen(o, p, id) + ThoughtOpen(o, p, id) + Diff(a \o r \o k \o st \o f \o x, p, id)
               = TextOpen(new, p, id) + ThoughtOpen(new, p, id)
  <2>1. Diff(a, p, id) = 0 /\ Diff(r, p, id) = - ThoughtOpen(o, p, id)
    BY ClosesDiff
  <2>2. Diff(x, p, id) = 0 /\ Diff(st, p, id) = 0
    BY DiffOther, DiffNone, EvIs DEF Ended
  <2>3. Diff(k, p, id) = IF o.source # e.id THEN - TextOpen(o, p, id) ELSE 0
    BY ClosesDiff, DiffNone
  <2> HIDE DEF c
  <2>4. Diff(<<b>>, p, id) = IF p = TextPair /\ id = c THEN 1 ELSE 0
    BY <1>7, DiffOne, PairsAre
  <2>5. Diff(f, p, id) = IF fresh /\ p = TextPair /\ id = c THEN 1 ELSE 0
    BY <2>4, DiffNone
  <2>6. TextOpen(new, p, id) = IF p = TextPair /\ id = c THEN 1 ELSE 0
    BY <1>2, <1>3 DEF TextOpen, c
  <2>7. ThoughtOpen(new, p, id) = 0
    BY <1>3 DEF ThoughtOpen
  <2>9. TextOpen(o, p, id) + Diff(k, p, id) + Diff(f, p, id) = TextOpen(new, p, id)
    <3>1. CASE o.source # e.id
      BY <3>1, <2>3, <2>5, <2>6, OpenTypes
    <3>2. CASE o.source = e.id /\ o.text = 0
      BY <3>2, <2>3, <2>5, <2>6 DEF TextOpen
    <3>3. CASE o.source = e.id /\ o.text # 0
      <4>1. n = o.text
        BY <3>3, <1>2
      <4>2. TextOpen(new, p, id) = TextOpen(o, p, id)
        BY <1>3, <4>1 DEF TextOpen
      <4> QED BY <3>3, <4>2, <2>3, <2>5, OpenTypes
    <3> QED BY <3>1, <3>2, <3>3
  <2>10. Diff(k, p, id) \in Int /\ Diff(f, p, id) \in Int
    BY <2>3, <2>5, OpenTypes
  <2> HIDE DEF a, r, k, st, f, x
  <2>8. Diff(a \o r \o k \o st \o f \o x, p, id)
          = Diff(a, p, id) + Diff(r, p, id) + Diff(k, p, id) + Diff(st, p, id) + Diff(f, p, id) + Diff(x, p, id)
    BY <1>4, DiffConcat6, SMTT(30)
  <2> QED BY <2>1, <2>2, <2>7, <2>8, <2>9, <2>10, OpenTypes
<1> HIDE DEF a, r, k, st, f, x
<1>6. a \o r \o k \o st \o f \o x \in Seq(CotEvents)
  BY <1>4, DiffConcat6
<1> QED BY <1>1, <1>3, <1>5, <1>6 DEF Balances, Become

\* Whatever event is consumed, what is open after it is what was open and what it opens;
\* after the last one nothing is open.
LEMMA ConsumeBalances ==
  ASSUME NEW o \in OpenStates, NEW e, e.type \in {"toolUse", "toolResult", "text"} => e.id \in Subjects
  PROVE  /\ Balances(o, Consume(o, e))
         /\ e.type \in {"done", "error", "closed"} => Consume(o, e).open.text = 0 /\ ~Consume(o, e).open.reasoning
<1>1. CASE e.type \notin {"userAction", "thinking", "toolUse", "toolResult", "text", "done", "error", "closed"}
  <2>1. Consume(o, e) = Become(<<>>, o)
    BY <1>1 DEF Consume
  <2>2. \A p, id : Diff(<<>>, p, id) = 0
    BY DiffNone
  <2> QED BY <1>1, <2>1, <2>2, OpenTypes DEF Balances, Become
<1>2. CASE e.type \in {"done", "error"}
  BY <1>2, EndsBalances
<1>3. CASE e.type = "text"
  BY <1>3, FinalBalances, CommentaryBalances
<1>4. CASE e.type \in {"userAction", "thinking", "toolUse", "toolResult"}
  BY <1>4, UserActionBalances, ThinkingBalances, ToolUseBalances, ToolResultBalances
<1>5. CASE e.type = "closed"
  BY <1>5, ClosedBalances
<1> QED BY <1>1, <1>2, <1>3, <1>4, <1>5

Busy(f) == flusher[f].at \in {"call", "sent", "failed"}
Carries(f) == flusher[f].at \in {"call", "failed"}
\* One after the other.
Made(w, s, t, u, v) == w = s \o t \o u \o v
\* What was enqueued is what was sent, what a flush carries, what waits, and what was dropped.
Keeps(load) == \E rest : rest \in Seq(CotEvents) /\ Made(told, sent, load, buffer, rest) /\ (disabled \/ rest = <<>>)
OneFlushes ==
  /\ \A f, g \in Flushers : Busy(f) /\ Busy(g) => f = g
  /\ \A f \in Flushers : Busy(f) => flushing
OrderInv ==
  /\ \A f \in Flushers : Carries(f) => Keeps(flusher[f].batch)
  /\ (\A f \in Flushers : ~Carries(f)) => Keeps(<<>>)
FinishInv ==
  /\ consumer.at \in {"flushing", "over"} => todo = <<>>
  /\ consumer.at # "run" => open.text = 0 /\ ~open.reasoning
  /\ consumer.at \in {"run", "ending"} => flusher[Finisher].at = "idle"
  /\ consumer.at = "flushing" /\ flusher[Finisher].at = "idle" /\ ~disabled => buffer = <<>> /\ ~flushing
  /\ completed # "none" => consumer.at = "over"
  /\ completed = "done" => ~disabled /\ buffer = <<>> /\ ~flushing
BalanceInv == ~disabled =>
  \A p \in Pairs : \A id : Diff(told \o todo, p, id) = TextOpen(open, p, id) + ThoughtOpen(open, p, id)
CotInv == CotTypes /\ OneFlushes /\ OrderInv /\ FinishInv /\ BalanceInv

\* The first of two sequences is a prefix of both.
LEMMA PrefixOfConcat ==
  ASSUME NEW S, NEW s \in Seq(S), NEW t \in Seq(S), NEW u, u = s \o t
  PROVE  Len(s) <= Len(u) /\ s = SubSeq(u, 1, Len(s))
<1>1. Len(s) \in Nat /\ Len(t) \in Nat
  BY LenProperties
<1>2. u \in Seq(S) /\ Len(u) = Len(s) + Len(t) /\ \A i \in 1 .. Len(s) + Len(t) : u[i] = IF i <= Len(s) THEN s[i] ELSE t[i - Len(s)]
  BY ConcatProperties
<1>3. \A i \in 1 .. Len(s) : u[i] = s[i] /\ u[i] \in S
  BY <1>1, <1>2, ElementOfSeq
<1>4. /\ SubSeq(u, 1, Len(s)) \in Seq(S)
      /\ Len(SubSeq(u, 1, Len(s))) = IF 1 <= Len(s) THEN Len(s) - 1 + 1 ELSE 0
      /\ \A i \in 1 .. Len(s) - 1 + 1 : SubSeq(u, 1, Len(s))[i] = u[1 + i - 1]
  BY <1>1, <1>3, SubSeqProperties
<1>5. Len(SubSeq(u, 1, Len(s))) = Len(s)
  BY <1>1, <1>4
<1>6. \A i \in 1 .. Len(s) : s[i] = SubSeq(u, 1, Len(s))[i]
  BY <1>1, <1>3, <1>4
<1>7. s = SubSeq(u, 1, Len(s))
  BY <1>4, <1>5, <1>6, SeqEqual
<1> QED BY <1>1, <1>2, <1>7

\* Sequences one after the other are a sequence.
LEMMA ConcatTypes ==
  ASSUME NEW S, NEW s \in Seq(S), NEW t \in Seq(S)
  PROVE  s \o t \in Seq(S) /\ s \o <<>> = s /\ <<>> \in Seq(S)
  BY ConcatProperties, ConcatEmptySeq, EmptySeq

\* The first part is a prefix of the whole.
LEMMA MadePrefix ==
  ASSUME NEW S, NEW s \in Seq(S), NEW t \in Seq(S), NEW u \in Seq(S), NEW v \in Seq(S), NEW w, Made(w, s, t, u, v)
  PROVE  Len(s) <= Len(w) /\ s = SubSeq(w, 1, Len(s))
<1>1. PICK x : x = t \o u
  OBVIOUS
<1>2. x \in Seq(S) /\ s \o t \o u = s \o x
  BY <1>1, ConcatTypes, ConcatAssociative
<1>3. PICK y : y = x \o v
  OBVIOUS
<1>4. y \in Seq(S) /\ s \o x \o v = s \o y
  BY <1>2, <1>3, ConcatTypes, ConcatAssociative
<1>5. w = s \o y
  BY <1>2, <1>4 DEF Made
<1>6. y \in Seq(S)
  BY <1>4
<1> QED BY <1>5, <1>6, PrefixOfConcat

\* A flush takes the first of what waits.
LEMMA MadeTake ==
  ASSUME NEW S, NEW s \in Seq(S), NEW t \in Seq(S), NEW u \in Seq(S), NEW v \in Seq(S), NEW w,
         NEW b, b = t \o u, Made(w, s, <<>>, b, v)
  PROVE  Made(w, s, t, u, v)
<1>1. s \o <<>> = s
  BY ConcatTypes
<1>2. s \o b = s \o t \o u
  BY ConcatAssociative, SMTT(30)
<1> QED BY <1>1, <1>2 DEF Made

\* The platform gets what a flush carries.
LEMMA MadeSent ==
  ASSUME NEW S, NEW s \in Seq(S), NEW t \in Seq(S), NEW u, NEW v, NEW w, NEW x, x = s \o t, Made(w, s, t, u, v)
  PROVE  Made(w, x, <<>>, u, v)
<1>1. x \in Seq(S)
  BY ConcatTypes
<1>2. x \o <<>> = x
  BY <1>1, ConcatTypes
<1> QED BY <1>2 DEF Made

\* What waits is dropped, and what a flush carries with it.
LEMMA MadeDropped ==
  ASSUME NEW S, NEW s \in Seq(S), NEW t \in Seq(S), NEW u \in Seq(S), NEW v \in Seq(S), NEW w, Made(w, s, t, u, v)
  PROVE  /\ \E r : r \in Seq(S) /\ Made(w, s, t, <<>>, r)
         /\ \E r : r \in Seq(S) /\ Made(w, s, <<>>, <<>>, r)
<1>1. PICK x : x = s \o t
  OBVIOUS
<1>2. x \in Seq(S)
  BY <1>1, ConcatTypes
<1>3. x \o <<>> = x /\ s \o <<>> = s /\ u \o v \in Seq(S)
  BY <1>2, ConcatTypes
<1>4. x \o (u \o v) = x \o u \o v
  BY <1>2, ConcatAssociative, SMTT(30)
<1>5. PICK y : y = u \o v
  OBVIOUS
<1>6. y \in Seq(S) /\ w = x \o y
  BY <1>1, <1>3, <1>4, <1>5 DEF Made
<1>7. Made(w, s, t, <<>>, y)
  BY <1>1, <1>3, <1>6 DEF Made
<1>8. PICK z : z = t \o y
  OBVIOUS
<1>9. z \in Seq(S) /\ w = s \o z
  <2>1. y \in Seq(S)
    BY <1>6
  <2>2. t \o y \in Seq(S) /\ s \o t \o y = s \o (t \o y)
    BY <2>1, ConcatTypes, ConcatAssociative
  <2> QED BY <2>2, <1>1, <1>6, <1>8
<1>10. Made(w, s, <<>>, <<>>, z)
  BY <1>3, <1>9 DEF Made
<1> QED BY <1>6, <1>7, <1>9, <1>10

\* More is enqueued.
LEMMA MadeMore ==
  ASSUME NEW S, NEW s \in Seq(S), NEW t \in Seq(S), NEW u \in Seq(S), NEW x \in Seq(S), NEW w,
         NEW a, a = w \o x, NEW b, b = u \o x, Made(w, s, t, u, <<>>)
  PROVE  Made(a, s, t, b, <<>>)
<1>1. PICK y : y = s \o t
  OBVIOUS
<1>2. y \in Seq(S)
  BY <1>1, ConcatTypes
<1>3. y \o u \in Seq(S) /\ y \o b = y \o u \o x
  <2>1. y \o u \o x = y \o b
    BY <1>2, ConcatAssociative, SMTT(30)
  <2> QED BY <1>2, <2>1, ConcatTypes
<1>4. b \in Seq(S)
  BY ConcatTypes
<1>5. PICK z : z = y \o u
  OBVIOUS
<1>6. z \in Seq(S) /\ z \o <<>> = z
  <2>1. z \in Seq(S)
    BY <1>3, <1>5
  <2> QED BY <2>1, ConcatTypes
<1>7. w = z
  BY <1>1, <1>5, <1>6 DEF Made
<1>8. PICK c : c = y \o b
  OBVIOUS
<1>9. c \in Seq(S) /\ c \o <<>> = c
  <2>1. c \in Seq(S)
    BY <1>2, <1>4, <1>8, ConcatTypes
  <2> QED BY <2>1, ConcatTypes
<1>10. a = c
  BY <1>3, <1>5, <1>7, <1>8
<1> QED BY <1>1, <1>8, <1>9, <1>10 DEF Made

\* Nothing is left over.
LEMMA MadeOfOne ==
  ASSUME NEW S, NEW s \in Seq(S), NEW w, Made(w, s, <<>>, <<>>, <<>>)
  PROVE  w = s
<1>1. s \o <<>> = s
  BY ConcatTypes
<1> QED BY <1>1 DEF Made

\* The invariant is about the promise of the process message.
LEMMA CotInvFollows == CotInv => ProcessTold
<1> SUFFICES ASSUME CotInv PROVE ProcessTold
  OBVIOUS
<1>0. sent \in Seq(CotEvents) /\ told \in Seq(CotEvents) /\ buffer \in Seq(CotEvents)
  BY DEF CotInv, CotTypes
<1>1. PICK b \in Seq(CotEvents) : Keeps(b) /\ ((\A f \in Flushers : ~Carries(f)) => b = <<>>)
  <2>1. CASE \A f \in Flushers : ~Carries(f)
    <3>1. <<>> \in Seq(CotEvents)
      BY EmptySeq
    <3> QED BY <2>1, <3>1 DEF CotInv, OrderInv
  <2>2. CASE \E f \in Flushers : Carries(f)
    BY <2>2 DEF CotInv, OrderInv, CotTypes
  <2> QED BY <2>1, <2>2
<1>2. PICK rest : rest \in Seq(CotEvents) /\ Made(told, sent, b, buffer, rest) /\ (disabled \/ rest = <<>>)
  BY <1>1 DEF Keeps
<1>4. Len(sent) <= Len(told) /\ sent = SubSeq(told, 1, Len(sent))
  BY <1>0, <1>1, <1>2, MadePrefix
<1>5. ASSUME completed \notin {"none", "error"}
      PROVE  /\ sent = told /\ buffer = <<>> /\ ~flushing
             /\ \A p \in Pairs : \A id \in Ids : Count(p[1], id) = Count(p[2], id)
  <2>1. completed = "done"
    BY <1>5 DEF CotInv, CotTypes
  <2>2. ~disabled /\ buffer = <<>> /\ ~flushing /\ consumer.at = "over" /\ todo = <<>> /\ open.text = 0 /\ ~open.reasoning
    BY <2>1 DEF CotInv, FinishInv
  <2>3. b = <<>> /\ rest = <<>>
    BY <1>1, <1>2, <2>2 DEF CotInv, OneFlushes, Busy, Carries
  <2>4. sent \o <<>> = sent /\ told \o <<>> = told
    BY <1>0, ConcatTypes
  <2>5. sent = told
    <3>1. Made(told, sent, <<>>, <<>>, <<>>)
      BY <1>2, <2>2, <2>3
    <3> QED BY <1>0, <3>1, MadeOfOne
  <2>6. ASSUME NEW p \in Pairs, NEW id
        PROVE  Count(p[1], id) = Count(p[2], id)
    <3>1. Diff(told, p, id) = TextOpen(open, p, id) + ThoughtOpen(open, p, id)
      BY <2>2, <2>4 DEF CotInv, BalanceInv
    <3>2. TextOpen(open, p, id) = 0 /\ ThoughtOpen(open, p, id) = 0
      BY <2>2 DEF TextOpen, ThoughtOpen
    <3>3. CountIn(told, p[1], id) \in Nat /\ CountIn(told, p[2], id) \in Nat
      BY <1>0, CountType
    <3>4. CountIn(told, p[1], id) = CountIn(told, p[2], id)
      BY <3>1, <3>2, <3>3 DEF Diff
    <3> QED BY <2>5, <3>4 DEF Count, CountIn, PlacesOf
  <2> QED BY <2>2, <2>5, <2>6
<1> QED BY <1>4, <1>5 DEF ProcessTold

\* It holds when the process message was started.
LEMMA CotInitHolds == CotInit => CotInv
<1> SUFFICES ASSUME CotInit PROVE CotInv
  OBVIOUS
<1> DEFINE a == Ev("RUN_STARTED", Run)
           b == Ev("STEP_STARTED", <<"step", "understand">>)
<1>0. /\ a \in CotEvents /\ b \in CotEvents /\ a.type = "RUN_STARTED" /\ b.type = "STEP_STARTED" /\ todo = <<a, b>>
      /\ <<>> \in Seq(CotEvents)
  BY TagsHold, EmptySeq DEF Ev, CotEvents, CotEventTypes, CotKinds, Run, CotInit
<1> HIDE DEF a, b
<1>1. todo \in Seq(CotEvents)
  BY <1>0, Two
<1>2. open \in OpenStates /\ open.text = 0 /\ open.reasoning = FALSE
  BY DEF CotInit, OpenStates, TextSources
<1>3. /\ flusher \in [Flushers -> [at : {"idle", "wait", "call", "sent", "failed"}, batch : Seq(CotEvents)]]
      /\ \A f \in Flushers : flusher[f].at = "idle"
  BY <1>0 DEF CotInit
<1>4. CotTypes
  BY <1>0, <1>1, <1>2, <1>3, CotAssumption DEF CotTypes, CotInit
<1>5. OneFlushes /\ FinishInv
  BY <1>3 DEF OneFlushes, FinishInv, Busy, CotInit, Flushers
<1>6. OrderInv
  <2>1. Keeps(<<>>)
    BY <1>0, ConcatTypes DEF Keeps, Made, CotInit
  <2> QED BY <1>3, <2>1 DEF OrderInv, Carries
<1>7. BalanceInv
  <2> SUFFICES ASSUME NEW p \in Pairs, NEW id PROVE Diff(told \o todo, p, id) = TextOpen(open, p, id) + ThoughtOpen(open, p, id)
    BY DEF BalanceInv
  <2>1. told \o todo = todo
    BY <1>1, ConcatEmptySeq DEF CotInit
  <2>2. Diff(<<a, b>>, p, id) = Diff(<<a>>, p, id) + Diff(<<b>>, p, id)
    BY <1>0, DiffTwo
  <2>3. Diff(<<a>>, p, id) = 0 /\ Diff(<<b>>, p, id) = 0
    BY <1>0, DiffOther DEF Ended
  <2>4. Diff(todo, p, id) = 0
    BY <1>0, <2>2, <2>3
  <2> QED BY <1>2, <2>1, <2>4 DEF TextOpen, ThoughtOpen
<1> QED BY <1>4, <1>5, <1>6, <1>7 DEF CotInv

\* What the flushers carry is as before if they are, and what was enqueued and sent.
LEMMA OrderStays ==
  ASSUME OneFlushes, OrderInv, UNCHANGED <<told, sent, buffer, disabled, flushing>>,
         \A f \in Flushers : (Busy(f) \/ Busy(f)') => flusher'[f] = flusher[f]
  PROVE  OneFlushes' /\ OrderInv'
<1>1. \A f \in Flushers : (Busy(f)' <=> Busy(f)) /\ (Carries(f)' <=> Carries(f))
                          /\ (Carries(f) => flusher'[f].batch = flusher[f].batch)
  BY DEF Busy, Carries
<1>2. OneFlushes'
  BY <1>1 DEF OneFlushes
<1>3. \A load : Keeps(load) => Keeps(load)'
  BY DEF Keeps
<1>4. ASSUME NEW f \in Flushers, Carries(f)' PROVE Keeps(flusher[f].batch)'
  <2>1. PICK load : load = flusher[f].batch
    OBVIOUS
  <2>2. Keeps(load)
    BY <1>1, <1>4, <2>1 DEF OrderInv
  <2>3. flusher'[f].batch = load
    BY <1>1, <1>4, <2>1
  <2> QED BY <1>3, <2>2, <2>3 DEF Keeps
<1>5. (\A f \in Flushers : ~Carries(f)') => Keeps(<<>>)'
  BY <1>1, <1>3 DEF OrderInv
<1> QED BY <1>2, <1>4, <1>5 DEF OrderInv

\* A sequence is its first element and the others.
LEMMA HeadFirst ==
  ASSUME NEW S, NEW s \in Seq(S), s # <<>>
  PROVE  Head(s) \in S /\ Tail(s) \in Seq(S) /\ s = <<Head(s)>> \o Tail(s)
<1>1. Head(s) \in S /\ Tail(s) \in Seq(S) /\ Tail(s) = SubSeq(s, 2, Len(s))
  BY HeadTailProperties, TailIsSubSeq
<1>2. Len(s) \in Nat /\ Len(s) # 0 /\ Head(s) = s[1]
  BY LenProperties, EmptySeq
<1>3. 1 \in 1 .. Len(s) /\ Len(s) \in 1 .. Len(s)
  BY <1>2
<1>4. SubSeq(s, 1, Len(s)) = <<s[1]>> \o SubSeq(s, 2, Len(s))
  BY <1>3, SubSeqRecursiveFirst
<1> QED BY <1>1, <1>2, <1>4, SubSeqFull

\* Of a sequence any n are the first, and the rest the others.
LEMMA FirstAndOthers ==
  ASSUME NEW S, NEW s \in Seq(S), NEW n \in 1 .. Len(s)
  PROVE  SubSeq(s, 1, n) \in Seq(S) /\ SubSeq(s, n + 1, Len(s)) \in Seq(S)
         /\ s = SubSeq(s, 1, n) \o SubSeq(s, n + 1, Len(s))
<1>1. Len(s) \in Nat /\ n \in Nat /\ \A i \in 1 .. Len(s) : s[i] \in S
  BY LenProperties, ElementOfSeq
<1>2. SubSeq(s, 1, n) \in Seq(S)
  <2>1. \A i \in 1 .. n : s[i] \in S
    BY <1>1
  <2> QED BY <1>1, <2>1, SubSeqProperties
<1>3. SubSeq(s, n + 1, Len(s)) \in Seq(S)
  <2>1. \A i \in n + 1 .. Len(s) : s[i] \in S
    BY <1>1
  <2> QED BY <1>1, <2>1, SubSeqProperties
<1>4. 1 \in 1 .. Len(s) + 1 /\ n \in 1 - 1 .. Len(s) /\ Len(s) \in n .. Len(s)
  BY <1>1
<1>5. SubSeq(s, 1, n) \o SubSeq(s, n + 1, Len(s)) = SubSeq(s, 1, Len(s))
  BY <1>4, ConcatAdjacentSubSeq
<1> QED BY <1>2, <1>3, <1>5, SubSeqFull

\* ConsumeEvents makes COT events of the next event.
LEMMA ReadHolds == ASSUME CotInv, Read PROVE CotInv'
<1> DEFINE e == IF events = <<>> THEN [type |-> "closed", reason |-> "normal"] ELSE Head(events)
           b == Consume(open, e)
<1>1. /\ consumer.at = "run" /\ todo = <<>> /\ todo' = b.out /\ open' = b.open
      /\ events' = IF events = <<>> THEN <<>> ELSE Tail(events)
      /\ UNCHANGED <<told, buffer, flushing, disabled, flusher, sent>> /\ UNCHANGED <<timer, completed, cotFailures>>
  BY DEF Read
<1>2. consumer' = IF e.type \in {"done", "error", "closed"}
          THEN [consumer EXCEPT !.at = "ending",
                                !.reason = IF e.type # "error" /\ e.reason = "normal" THEN "done" ELSE "error"]
          ELSE consumer
  BY DEF Read
<1>3. e.type \in {"toolUse", "toolResult", "text"} => e.id \in Subjects
  <2>1. CASE events = <<>>
    BY <2>1
  <2>2. CASE events # <<>>
    <3>1. Head(events) \in Happening
      BY <2>2, HeadTailProperties DEF CotInv, CotTypes
    <3> QED BY <2>2, <3>1, TagsHold
  <2> QED BY <2>1, <2>2
<1>4. open \in OpenStates
  BY DEF CotInv, CotTypes
<1> HIDE DEF e
<1>5. Balances(open, b) /\ (e.type \in {"done", "error", "closed"} => b.open.text = 0 /\ ~b.open.reasoning)
  BY <1>3, <1>4, ConsumeBalances
<1> HIDE DEF b
<1>6. CotTypes'
  <2>1. events' \in Seq(Happening)
    BY <1>1, HeadTailProperties, EmptySeq DEF CotInv, CotTypes
  <2>2. todo' \in Seq(CotEvents) /\ open' \in OpenStates
    BY <1>1, <1>5 DEF Balances
  <2>3. consumer' \in [at : {"run", "ending", "flushing", "over"}, reason : {"none", "done", "error"}, attempts : Nat]
    BY <1>2 DEF CotInv, CotTypes
  <2> QED BY <1>1, <2>1, <2>2, <2>3 DEF CotInv, CotTypes
<1>7. OneFlushes' /\ OrderInv'
  BY <1>1, OrderStays DEF CotInv
<1>8. FinishInv'
  <2>1. consumer'.at \in {"run", "ending"} /\ (consumer'.at = "ending" => e.type \in {"done", "error", "closed"})
    BY <1>1, <1>2 DEF CotInv, CotTypes
  <2>2. completed' = "none" /\ flusher'[Finisher].at = "idle"
    BY <1>1 DEF CotInv, FinishInv
  <2> QED BY <1>1, <1>5, <2>1, <2>2 DEF FinishInv
<1>9. BalanceInv'
  <2> SUFFICES ASSUME ~disabled, NEW p \in Pairs, NEW id
               PROVE  Diff(told \o b.out, p, id) = TextOpen(b.open, p, id) + ThoughtOpen(b.open, p, id)
    BY <1>1 DEF BalanceInv
  <2>1. told \in Seq(CotEvents) /\ b.out \in Seq(CotEvents)
    BY <1>5 DEF CotInv, CotTypes, Balances
  <2>2. told \o todo = told
    BY <1>1, <2>1, ConcatTypes
  <2>3. Diff(told, p, id) = TextOpen(open, p, id) + ThoughtOpen(open, p, id)
    BY <2>2 DEF CotInv, BalanceInv
  <2>4. TextOpen(open, p, id) + ThoughtOpen(open, p, id) + Diff(b.out, p, id)
                              = TextOpen(b.open, p, id) + ThoughtOpen(b.open, p, id)
    BY <1>5 DEF Balances
  <2>5. PICK o : o = b.out
    OBVIOUS
  <2>6. o \in Seq(CotEvents)
    BY <2>1, <2>5
  <2>7. Diff(told \o o, p, id) = Diff(told, p, id) + Diff(o, p, id)
    BY <2>1, <2>6, DiffConcat
  <2> QED BY <2>3, <2>4, <2>5, <2>7
<1> QED BY <1>6, <1>7, <1>8, <1>9 DEF CotInv

\* A timer fires.
LEMMA TimerFiresHolds == ASSUME CotInv, NEW c \in Callbacks, TimerFires(c) PROVE CotInv'
<1>1. /\ flusher[c].at = "idle" /\ timer' = "fired" /\ flusher' = [flusher EXCEPT ![c].at = "wait"]
      /\ UNCHANGED <<told, buffer, flushing, disabled, sent>> /\ UNCHANGED <<events, open, todo, consumer, completed, cotFailures>>
  BY DEF TimerFires
<1>2. c \in Flushers /\ c # Finisher /\ Finisher \in Flushers
  BY CotAssumption DEF Flushers
<1>3. flusher \in [Flushers -> [at : {"idle", "wait", "call", "sent", "failed"}, batch : Seq(CotEvents)]]
  BY DEF CotInv, CotTypes
<1>4. CotTypes'
  <2>1. flusher' \in [Flushers -> [at : {"idle", "wait", "call", "sent", "failed"}, batch : Seq(CotEvents)]]
    BY <1>1, <1>2, <1>3
  <2> QED BY <1>1, <2>1 DEF CotInv, CotTypes
<1>5. \A f \in Flushers : (Busy(f) \/ Busy(f)') => flusher'[f] = flusher[f]
  BY <1>1, <1>2, <1>3 DEF Busy
<1>6. OneFlushes' /\ OrderInv'
  BY <1>1, <1>5, OrderStays DEF CotInv
<1>7. FinishInv'
  <2>1. flusher'[Finisher] = flusher[Finisher]
    BY <1>1, <1>2, <1>3
  <2> QED BY <1>1, <2>1 DEF CotInv, FinishInv
<1>8. BalanceInv'
  BY <1>1 DEF CotInv, BalanceInv
<1> QED BY <1>4, <1>6, <1>7, <1>8 DEF CotInv

\* Finish begins to flush.
LEMMA FinishFlushesHolds == ASSUME CotInv, FinishFlushes PROVE CotInv'
<1>1. /\ consumer.at = "ending" /\ todo = <<>> /\ consumer' = [consumer EXCEPT !.at = "flushing"]
      /\ timer' = "none" /\ flusher' = [flusher EXCEPT ![Finisher].at = "wait"]
      /\ UNCHANGED <<told, buffer, flushing, disabled, sent>> /\ UNCHANGED <<events, open, todo, completed, cotFailures>>
  BY DEF FinishFlushes
<1>2. Finisher \in Flushers /\ flusher[Finisher].at = "idle" /\ completed = "none"
  BY <1>1 DEF Flushers, CotInv, FinishInv
<1>3. /\ flusher \in [Flushers -> [at : {"idle", "wait", "call", "sent", "failed"}, batch : Seq(CotEvents)]]
      /\ consumer \in [at : {"run", "ending", "flushing", "over"}, reason : {"none", "done", "error"}, attempts : Nat]
  BY DEF CotInv, CotTypes
<1>4. CotTypes'
  <2>1. flusher' \in [Flushers -> [at : {"idle", "wait", "call", "sent", "failed"}, batch : Seq(CotEvents)]]
    BY <1>1, <1>2, <1>3
  <2>2. consumer' \in [at : {"run", "ending", "flushing", "over"}, reason : {"none", "done", "error"}, attempts : Nat]
    BY <1>1, <1>3
  <2> QED BY <1>1, <2>1, <2>2 DEF CotInv, CotTypes
<1>5. \A f \in Flushers : (Busy(f) \/ Busy(f)') => flusher'[f] = flusher[f]
  BY <1>1, <1>2, <1>3 DEF Busy
<1>6. OneFlushes' /\ OrderInv'
  BY <1>1, <1>5, OrderStays DEF CotInv
<1>7. FinishInv'
  <2>1. flusher'[Finisher].at = "wait" /\ consumer'.at = "flushing"
    BY <1>1, <1>2, <1>3
  <2>2. open.text = 0 /\ ~open.reasoning
    BY <1>1 DEF CotInv, FinishInv
  <2> QED BY <1>1, <1>2, <2>1, <2>2 DEF FinishInv
<1>8. BalanceInv'
  BY <1>1 DEF CotInv, BalanceInv
<1> QED BY <1>4, <1>6, <1>7, <1>8 DEF CotInv

\* Finish completes the message, or fails to.
LEMMA CompleteHolds == ASSUME CotInv, Complete PROVE CotInv'
<1>1. /\ consumer.at = "flushing" /\ flusher[Finisher].at = "idle"
      /\ \/ completed' = (IF disabled THEN "error" ELSE consumer.reason) /\ consumer' = [consumer EXCEPT !.at = "over"]
         \/ /\ completed' = completed
            /\ consumer' = [consumer EXCEPT !.attempts = @ + 1, !.at = IF consumer.attempts = 2 THEN "over" ELSE @]
      /\ cotFailures' \in {cotFailures, cotFailures + 1}
      /\ UNCHANGED <<told, buffer, flushing, disabled, flusher, sent>> /\ UNCHANGED <<events, open, todo, timer>>
  BY DEF Complete
<1>2. consumer \in [at : {"run", "ending", "flushing", "over"}, reason : {"none", "done", "error"}, attempts : Nat]
  BY DEF CotInv, CotTypes
<1>3. consumer'.at \in {"flushing", "over"} /\ (consumer'.at = "flushing" => completed' = completed)
  BY <1>1, <1>2
<1>4. CotTypes'
  <2>1. completed' \in {"none", "done", "error"}
    BY <1>1, <1>2 DEF CotInv, CotTypes
  <2>2. consumer' \in [at : {"run", "ending", "flushing", "over"}, reason : {"none", "done", "error"}, attempts : Nat]
    <3>1. CASE consumer' = [consumer EXCEPT !.at = "over"]
      BY <1>2, <3>1
    <3>2. CASE consumer' = [consumer EXCEPT !.attempts = @ + 1, !.at = IF consumer.attempts = 2 THEN "over" ELSE @]
      <4>1. CASE consumer.attempts = 2
        <5>1. consumer' = [consumer EXCEPT !.attempts = 3, !.at = "over"]
          BY <3>2, <4>1
        <5> QED BY <1>2, <5>1
      <4>2. CASE consumer.attempts # 2
        <5>1. consumer' = [consumer EXCEPT !.attempts = @ + 1]
          BY <1>2, <3>2, <4>2
        <5> QED BY <1>2, <5>1
      <4> QED BY <4>1, <4>2
    <3> QED BY <1>1, <3>1, <3>2
  <2> QED BY <1>1, <2>1, <2>2 DEF CotInv, CotTypes
<1>6. OneFlushes' /\ OrderInv'
  BY <1>1, OrderStays DEF CotInv
<1>7. FinishInv'
  <2>1. todo = <<>> /\ open.text = 0 /\ ~open.reasoning /\ completed = "none" /\ (~disabled => buffer = <<>> /\ ~flushing)
    <3>1. completed = "none"
      BY <1>1 DEF CotInv, CotTypes, FinishInv
    <3>2. todo = <<>> /\ open.text = 0 /\ ~open.reasoning
      BY <1>1 DEF CotInv, FinishInv
    <3>3. ~disabled => buffer = <<>> /\ ~flushing
      BY <1>1 DEF CotInv, FinishInv
    <3> QED BY <3>1, <3>2, <3>3
  <2>2. completed' # "none" => consumer'.at = "over"
    BY <1>1, <1>2, <2>1
  <2>3. completed' = "done" => ~disabled
    BY <1>1, <2>1
  <2> QED BY <1>1, <1>3, <2>1, <2>2, <2>3 DEF FinishInv
<1>8. BalanceInv'
  BY <1>1 DEF CotInv, BalanceInv
<1> QED BY <1>4, <1>6, <1>7, <1>8 DEF CotInv

\* The context of Finish is over.
LEMMA ConsumerCancelledHolds == ASSUME CotInv, ConsumerCancelled PROVE CotInv'
<1>1. /\ consumer.at = "flushing" /\ consumer' = [consumer EXCEPT !.at = "over"]
      /\ flusher' = IF flusher[Finisher].at = "wait" THEN [flusher EXCEPT ![Finisher].at = "idle"] ELSE flusher
      /\ UNCHANGED <<told, buffer, flushing, disabled, sent>> /\ UNCHANGED <<events, open, todo, timer, completed, cotFailures>>
  BY DEF ConsumerCancelled
<1>2. Finisher \in Flushers /\ completed = "none" /\ todo = <<>> /\ open.text = 0 /\ ~open.reasoning
  BY <1>1 DEF Flushers, CotInv, FinishInv
<1>3. /\ flusher \in [Flushers -> [at : {"idle", "wait", "call", "sent", "failed"}, batch : Seq(CotEvents)]]
      /\ consumer \in [at : {"run", "ending", "flushing", "over"}, reason : {"none", "done", "error"}, attempts : Nat]
  BY DEF CotInv, CotTypes
<1>4. CotTypes'
  <2>1. flusher' \in [Flushers -> [at : {"idle", "wait", "call", "sent", "failed"}, batch : Seq(CotEvents)]]
    BY <1>1, <1>2, <1>3
  <2>2. consumer' \in [at : {"run", "ending", "flushing", "over"}, reason : {"none", "done", "error"}, attempts : Nat]
    BY <1>1, <1>3
  <2> QED BY <1>1, <2>1, <2>2 DEF CotInv, CotTypes
<1>5. \A f \in Flushers : (Busy(f) \/ Busy(f)') => flusher'[f] = flusher[f]
  BY <1>1, <1>2, <1>3 DEF Busy
<1>6. OneFlushes' /\ OrderInv'
  BY <1>1, <1>5, OrderStays DEF CotInv
<1>7. FinishInv'
  <2>1. consumer'.at = "over"
    BY <1>1, <1>3
  <2> QED BY <1>1, <1>2, <2>1 DEF FinishInv
<1>8. BalanceInv'
  BY <1>1 DEF CotInv, BalanceInv
<1> QED BY <1>4, <1>6, <1>7, <1>8 DEF CotInv

\* A flush takes its batch, or finds nothing to send.
LEMMA FlushTakesHolds == ASSUME CotInv, NEW f \in Flushers, FlushTakes(f) PROVE CotInv'
<1> DEFINE n == IF Len(buffer) > UpdateLimit THEN UpdateLimit ELSE Len(buffer)
<1>1. /\ flusher[f].at = "wait" /\ ~flushing
      /\ UNCHANGED <<told, disabled, sent>> /\ UNCHANGED <<events, open, todo, consumer, completed, cotFailures>>
  BY DEF FlushTakes
<1>2. /\ flusher \in [Flushers -> [at : {"idle", "wait", "call", "sent", "failed"}, batch : Seq(CotEvents)]]
      /\ told \in Seq(CotEvents) /\ sent \in Seq(CotEvents) /\ buffer \in Seq(CotEvents)
      /\ Finisher \in Flushers
  BY DEF CotInv, CotTypes, Flushers
<1>3. \A g \in Flushers : ~Busy(g)
  BY <1>1 DEF CotInv, OneFlushes
<1>4. BalanceInv'
  BY <1>1 DEF CotInv, BalanceInv
<1>5. consumer.at \in {"run", "ending"} => f # Finisher
  BY <1>1 DEF CotInv, FinishInv
<1>6. CASE disabled \/ buffer = <<>>
  <2>1. flusher' = [flusher EXCEPT ![f].at = "idle"] /\ UNCHANGED <<buffer, timer, flushing>>
    BY <1>6 DEF FlushTakes
  <2>2. flusher' \in [Flushers -> [at : {"idle", "wait", "call", "sent", "failed"}, batch : Seq(CotEvents)]]
    BY <1>2, <2>1
  <2>3. CotTypes'
    BY <1>1, <2>1, <2>2 DEF CotInv, CotTypes
  <2>4. \A g \in Flushers : (Busy(g) \/ Busy(g)') => flusher'[g] = flusher[g]
    BY <1>1, <1>2, <2>1 DEF Busy
  <2>5. OneFlushes' /\ OrderInv'
    BY <1>1, <2>1, <2>4, OrderStays DEF CotInv
  <2>6. flusher'[Finisher].at = "idle" \/ flusher'[Finisher] = flusher[Finisher]
    BY <1>2, <2>1
  <2>7. FinishInv'
    <3>1. consumer'.at \in {"run", "ending"} => flusher'[Finisher].at = "idle"
      BY <1>1, <2>6 DEF CotInv, FinishInv
    <3>2. ~disabled => buffer' = <<>> /\ ~flushing'
      BY <1>1, <1>6, <2>1
    <3> QED BY <1>1, <2>1, <3>1, <3>2 DEF CotInv, FinishInv
  <2> QED BY <1>4, <2>3, <2>5, <2>7 DEF CotInv
<1>7. CASE ~disabled /\ buffer # <<>>
  <2>0. /\ flushing' = TRUE /\ timer' = "none"
        /\ flusher' = [flusher EXCEPT ![f] = [at |-> "call", batch |-> SubSeq(buffer, 1, n)]]
        /\ buffer' = SubSeq(buffer, n + 1, Len(buffer))
    BY <1>7 DEF FlushTakes
  <2>1. n \in 1 .. Len(buffer)
    <3>1. Len(buffer) \in Nat /\ Len(buffer) # 0
      BY <1>2, <1>7, LenProperties, EmptySeq
    <3> QED BY <3>1, CotAssumption
  <2> HIDE DEF n
  <2>2. PICK t : t = SubSeq(buffer, 1, n)
    OBVIOUS
  <2>3. t \in Seq(CotEvents) /\ buffer' \in Seq(CotEvents) /\ buffer = t \o buffer'
    <3>1. /\ SubSeq(buffer, 1, n) \in Seq(CotEvents) /\ SubSeq(buffer, n + 1, Len(buffer)) \in Seq(CotEvents)
          /\ buffer = SubSeq(buffer, 1, n) \o SubSeq(buffer, n + 1, Len(buffer))
      BY <1>2, <2>1, FirstAndOthers
    <3> QED BY <2>0, <2>2, <3>1
  <2>4. flusher' = [flusher EXCEPT ![f] = [at |-> "call", batch |-> t]]
    BY <2>0, <2>2
  <2>5. flusher' \in [Flushers -> [at : {"idle", "wait", "call", "sent", "failed"}, batch : Seq(CotEvents)]]
    BY <1>2, <2>3, <2>4
  <2>6. CotTypes'
    BY <1>1, <2>0, <2>3, <2>5 DEF CotInv, CotTypes
  <2>7. \A g \in Flushers : Busy(g)' <=> g = f
    BY <1>2, <1>3, <2>4 DEF Busy
  <2>8. OneFlushes'
    BY <2>0, <2>7 DEF OneFlushes
  <2>9. OrderInv'
    <3>1. PICK rest : rest \in Seq(CotEvents) /\ Made(told, sent, <<>>, buffer, rest) /\ (disabled \/ rest = <<>>)
      <4>1. Keeps(<<>>)
        BY <1>3 DEF CotInv, OrderInv, Carries, Busy
      <4> QED BY <4>1 DEF Keeps
    <3>2. Made(told, sent, t, buffer', rest)
      BY <1>2, <2>3, <3>1, MadeTake
    <3>3. Keeps(t)'
      BY <1>1, <3>1, <3>2 DEF Keeps
    <3>4. flusher'[f].batch = t /\ Carries(f)'
      BY <1>2, <2>4 DEF Carries
    <3>5. \A g \in Flushers : Carries(g)' => g = f
      BY <2>7 DEF Carries, Busy
    <3> QED BY <3>3, <3>4, <3>5 DEF OrderInv, Keeps
  <2>10. FinishInv'
    <3>1. flusher'[Finisher] = flusher[Finisher] \/ (f = Finisher /\ flusher'[Finisher].at = "call")
      BY <1>2, <2>4
    <3>2. completed # "done"
      BY <1>7 DEF CotInv, FinishInv
    <3>3. consumer.at = "flushing" => flusher'[Finisher].at # "idle"
      BY <1>7, <3>1 DEF CotInv, FinishInv
    <3>4. consumer.at \in {"run", "ending"} => flusher'[Finisher].at = "idle"
      BY <1>5, <3>1 DEF CotInv, FinishInv
    <3> QED BY <1>1, <3>2, <3>3, <3>4 DEF CotInv, FinishInv
  <2> QED BY <1>4, <2>6, <2>8, <2>9, <2>10 DEF CotInv
<1> QED BY <1>6, <1>7

\* The call of a flush.
LEMMA FlushCallsHolds == ASSUME CotInv, NEW f \in Flushers, FlushCalls(f) PROVE CotInv'
<1>1. /\ flusher[f].at = "call"
      /\ UNCHANGED <<told, buffer, disabled, flushing>> /\ UNCHANGED <<events, open, todo, timer, consumer, completed>>
  BY DEF FlushCalls
<1>2. /\ flusher \in [Flushers -> [at : {"idle", "wait", "call", "sent", "failed"}, batch : Seq(CotEvents)]]
      /\ told \in Seq(CotEvents) /\ sent \in Seq(CotEvents) /\ buffer \in Seq(CotEvents)
      /\ Finisher \in Flushers
  BY DEF CotInv, CotTypes, Flushers
<1>3. \A g \in Flushers : Busy(g) => g = f
  BY <1>1 DEF CotInv, OneFlushes, Busy
<1>4. BalanceInv'
  BY <1>1 DEF CotInv, BalanceInv
<1>5. flushing = TRUE
  BY <1>1 DEF CotInv, CotTypes, OneFlushes, Busy
<1>6. PICK t : t = flusher[f].batch
  OBVIOUS
<1>7. t \in Seq(CotEvents)
  BY <1>2, <1>6
<1>8. PICK rest : rest \in Seq(CotEvents) /\ Made(told, sent, t, buffer, rest) /\ (disabled \/ rest = <<>>)
  <2>1. Keeps(t)
    BY <1>1, <1>6 DEF CotInv, OrderInv, Carries
  <2> QED BY <2>1 DEF Keeps
<1>9. ASSUME flusher'[Finisher] = flusher[Finisher] \/ (f = Finisher /\ flusher'[Finisher].at \in {"sent", "failed"})
      PROVE  FinishInv'
  <2>1. completed # "done" /\ consumer.at \in {"run", "ending"} => f # Finisher
    BY <1>1, <1>5 DEF CotInv, FinishInv
  <2>2. completed # "done" /\ (consumer.at = "flushing" /\ flusher[Finisher].at = "idle" => disabled)
    BY <1>5 DEF CotInv, FinishInv
  <2>3. consumer.at = "flushing" /\ flusher'[Finisher].at = "idle" => disabled
    BY <1>9, <2>2
  <2>4. consumer.at \in {"run", "ending"} => flusher'[Finisher].at = "idle"
    BY <1>9, <2>1, <2>2 DEF CotInv, FinishInv
  <2> QED BY <1>1, <2>2, <2>3, <2>4 DEF CotInv, FinishInv
<1>10. CASE sent' = sent \o flusher[f].batch /\ flusher' = [flusher EXCEPT ![f] = [at |-> "sent", batch |-> <<>>]]
            /\ UNCHANGED cotFailures
  <2>1. sent' \in Seq(CotEvents) /\ sent' = sent \o t
    BY <1>2, <1>6, <1>7, <1>10, ConcatTypes
  <2>2. flusher' \in [Flushers -> [at : {"idle", "wait", "call", "sent", "failed"}, batch : Seq(CotEvents)]]
    BY <1>2, <1>10, EmptySeq
  <2>3. CotTypes'
    BY <1>1, <1>10, <2>1, <2>2 DEF CotInv, CotTypes
  <2>4. \A g \in Flushers : (Busy(g)' <=> g = f) /\ ~Carries(g)'
    BY <1>2, <1>3, <1>10 DEF Busy, Carries
  <2>5. OneFlushes'
    BY <1>1, <1>5, <2>4 DEF OneFlushes
  <2>6. Made(told, sent', <<>>, buffer, rest)
    BY <1>2, <1>7, <1>8, <2>1, MadeSent
  <2>7. OrderInv'
    BY <1>1, <1>8, <2>4, <2>6 DEF OrderInv, Keeps
  <2>8. FinishInv'
    BY <1>2, <1>9, <1>10
  <2> QED BY <1>4, <2>3, <2>5, <2>7, <2>8 DEF CotInv
<1>11. CASE cotFailures' = cotFailures + 1 /\ flusher' = [flusher EXCEPT ![f].at = "failed"] /\ UNCHANGED sent
  <2>2. flusher' \in [Flushers -> [at : {"idle", "wait", "call", "sent", "failed"}, batch : Seq(CotEvents)]]
    BY <1>2, <1>11
  <2>3. CotTypes'
    BY <1>1, <1>11, <2>2 DEF CotInv, CotTypes
  <2>4. \A g \in Flushers : (Busy(g)' <=> g = f) /\ (Carries(g)' <=> g = f)
    BY <1>2, <1>3, <1>11 DEF Busy, Carries
  <2>5. OneFlushes'
    BY <1>1, <1>5, <2>4 DEF OneFlushes
  <2>6. flusher'[f].batch = t
    BY <1>2, <1>6, <1>11
  <2>7. OrderInv'
    BY <1>1, <1>8, <1>11, <2>4, <2>6 DEF OrderInv, Keeps
  <2>8. FinishInv'
    BY <1>2, <1>9, <1>11
  <2> QED BY <1>4, <2>3, <2>5, <2>7, <2>8 DEF CotInv
<1> QED BY <1>10, <1>11 DEF FlushCalls

\* A flush after its call.
LEMMA FlushReturnsHolds == ASSUME CotInv, NEW f \in Flushers, FlushReturns(f) PROVE CotInv'
<1>1. /\ flusher[f].at \in {"sent", "failed"} /\ flushing' = FALSE
      /\ UNCHANGED <<told, sent>> /\ UNCHANGED <<events, open, todo, timer, consumer, completed, cotFailures>>
  BY DEF FlushReturns
<1>2. /\ flusher \in [Flushers -> [at : {"idle", "wait", "call", "sent", "failed"}, batch : Seq(CotEvents)]]
      /\ told \in Seq(CotEvents) /\ sent \in Seq(CotEvents) /\ buffer \in Seq(CotEvents)
      /\ Finisher \in Flushers
  BY DEF CotInv, CotTypes, Flushers
<1>3. \A g \in Flushers : Busy(g) => g = f
  BY <1>1 DEF CotInv, OneFlushes, Busy
<1>5. flushing = TRUE
  BY <1>1 DEF CotInv, CotTypes, OneFlushes, Busy
<1>6. completed # "done" /\ (consumer.at \in {"run", "ending"} => f # Finisher)
  BY <1>1, <1>5 DEF CotInv, FinishInv
<1>7. CASE flusher[f].at = "failed"
  <2>1. flusher' = [flusher EXCEPT ![f] = [at |-> "idle", batch |-> <<>>]] /\ disabled' = TRUE /\ buffer' = <<>>
    BY <1>7 DEF FlushReturns, disable
  <2>2. flusher' \in [Flushers -> [at : {"idle", "wait", "call", "sent", "failed"}, batch : Seq(CotEvents)]]
    BY <1>2, <2>1, EmptySeq
  <2>3. CotTypes'
    BY <1>1, <2>1, <2>2, EmptySeq DEF CotInv, CotTypes
  <2>4. \A g \in Flushers : ~Busy(g)' /\ ~Carries(g)'
    BY <1>2, <1>3, <2>1 DEF Busy, Carries
  <2>5. OneFlushes'
    BY <2>4 DEF OneFlushes
  <2>6. PICK t : t = flusher[f].batch
    OBVIOUS
  <2>7. t \in Seq(CotEvents)
    BY <1>2, <2>6
  <2>8. PICK rest : rest \in Seq(CotEvents) /\ Made(told, sent, t, buffer, rest)
    <3>1. Keeps(t)
      BY <1>7, <2>6 DEF CotInv, OrderInv, Carries
    <3> QED BY <3>1 DEF Keeps
  <2>9. PICK r : r \in Seq(CotEvents) /\ Made(told, sent, <<>>, <<>>, r)
    BY <1>2, <2>7, <2>8, MadeDropped
  <2>10. OrderInv'
    BY <1>1, <2>1, <2>4, <2>9 DEF OrderInv, Keeps
  <2>11. FinishInv'
    <3>1. consumer.at \in {"run", "ending"} => flusher'[Finisher].at = "idle"
      BY <1>2, <1>6, <2>1 DEF CotInv, FinishInv
    <3> QED BY <1>1, <1>6, <2>1, <3>1 DEF CotInv, FinishInv
  <2>12. BalanceInv'
    BY <2>1 DEF BalanceInv
  <2> QED BY <2>3, <2>5, <2>10, <2>11, <2>12 DEF CotInv
<1>8. CASE flusher[f].at = "sent"
  <2>1. /\ flusher' = [flusher EXCEPT ![f].at = IF buffer # <<>> /\ ~disabled THEN "wait" ELSE "idle"]
        /\ UNCHANGED <<buffer, disabled>>
    BY <1>8 DEF FlushReturns
  <2>2. flusher' \in [Flushers -> [at : {"idle", "wait", "call", "sent", "failed"}, batch : Seq(CotEvents)]]
    BY <1>2, <2>1
  <2>3. CotTypes'
    BY <1>1, <2>1, <2>2 DEF CotInv, CotTypes
  <2>4. \A g \in Flushers : ~Busy(g)' /\ ~Carries(g)' /\ ~Carries(g)
    BY <1>2, <1>3, <1>8, <2>1 DEF Busy, Carries
  <2>5. OneFlushes'
    BY <2>4 DEF OneFlushes
  <2>6. Keeps(<<>>)
    BY <2>4 DEF CotInv, OrderInv
  <2>7. OrderInv'
    BY <1>1, <2>1, <2>4, <2>6 DEF OrderInv, Keeps
  <2>8. FinishInv'
    <3>1. consumer.at \in {"run", "ending"} => flusher'[Finisher].at = "idle"
      BY <1>2, <1>6, <2>1 DEF CotInv, FinishInv
    <3>2. consumer.at = "flushing" /\ flusher'[Finisher].at = "idle" /\ ~disabled => buffer = <<>>
      <4>1. CASE f = Finisher
        BY <1>2, <2>1, <4>1
      <4>2. CASE f # Finisher
        <5>1. flusher'[Finisher] = flusher[Finisher]
          BY <1>2, <2>1, <4>2
        <5> QED BY <5>1 DEF CotInv, FinishInv
      <4> QED BY <4>1, <4>2
    <3> QED BY <1>1, <1>6, <2>1, <3>1, <3>2 DEF CotInv, FinishInv
  <2>9. BalanceInv'
    BY <1>1, <2>1 DEF CotInv, BalanceInv
  <2> QED BY <2>3, <2>5, <2>7, <2>8, <2>9 DEF CotInv
<1> QED BY <1>1, <1>7, <1>8

\* Of the same event twice only the content of a text is made, which opens nothing.
LEMMA CopiesBalance ==
  ASSUME NEW h \in CotEvents, NEW n \in IF h.type = "TEXT_MESSAGE_CONTENT" THEN {1, 2} ELSE {1},
         NEW es, es = [i \in 1 .. n |-> h], NEW p \in Pairs, NEW id
  PROVE  es \in Seq(CotEvents) /\ Diff(es, p, id) = Diff(<<h>>, p, id)
<1>1. CASE n = 1
  <2>1. es = <<h>>
    BY <1>1
  <2> QED BY <2>1
<1>2. CASE n = 2
  <2>1. es = <<h, h>> /\ h.type = "TEXT_MESSAGE_CONTENT"
    BY <1>2
  <2>2. Diff(<<h, h>>, p, id) = Diff(<<h>>, p, id) + Diff(<<h>>, p, id)
    BY DiffTwo
  <2>3. Diff(<<h>>, p, id) = 0
    BY <2>1, DiffOther DEF Ended
  <2>4. es \in Seq(CotEvents)
    BY <2>1
  <2> QED BY <2>1, <2>2, <2>3, <2>4
<1> QED BY <1>1, <1>2

\* A COT event is enqueued, or is the one that cannot be sent.
LEMMA EnqueueHolds == ASSUME CotInv, Enqueue PROVE CotInv'
<1>1. /\ todo # <<>> /\ todo' = Tail(todo)
      /\ UNCHANGED <<events, open, flushing, flusher, sent>> /\ UNCHANGED <<consumer, completed, cotFailures>>
  BY DEF Enqueue
<1>2. /\ flusher \in [Flushers -> [at : {"idle", "wait", "call", "sent", "failed"}, batch : Seq(CotEvents)]]
      /\ told \in Seq(CotEvents) /\ sent \in Seq(CotEvents) /\ buffer \in Seq(CotEvents) /\ todo \in Seq(CotEvents)
  BY DEF CotInv, CotTypes
<1>3. PICK h : h = Head(todo)
  OBVIOUS
<1>4. PICK r : r = Tail(todo)
  OBVIOUS
<1>5. h \in CotEvents /\ r \in Seq(CotEvents) /\ todo = <<h>> \o r
  BY <1>1, <1>2, <1>3, <1>4, HeadFirst
<1>6. consumer.at \in {"run", "ending"} /\ completed = "none"
  BY <1>1 DEF CotInv, CotTypes, FinishInv
<1>7. FinishInv'
  BY <1>1, <1>6 DEF CotInv, FinishInv
<1>8. OneFlushes'
  BY <1>1 DEF CotInv, OneFlushes, Busy
<1>9. \A f \in Flushers : Carries(f)' <=> Carries(f)
  BY <1>1 DEF Carries
<1>10. CASE disabled /\ UNCHANGED <<told, buffer, timer, disabled>>
  <2>1. CotTypes'
    BY <1>1, <1>4, <1>5, <1>10 DEF CotInv, CotTypes
  <2>2. OrderInv'
    BY <1>1, <1>10, OrderStays DEF CotInv
  <2>3. BalanceInv'
    BY <1>10 DEF BalanceInv
  <2> QED BY <1>7, <1>8, <2>1, <2>2, <2>3 DEF CotInv
<1>11. CASE disable /\ UNCHANGED <<told, timer>>
  <2>0. disabled' = TRUE /\ buffer' = <<>>
    BY <1>11 DEF disable
  <2>1. CotTypes'
    BY <1>1, <1>4, <1>5, <1>11, <2>0, EmptySeq DEF CotInv, CotTypes
  <2>2. ASSUME NEW load \in Seq(CotEvents), Keeps(load) PROVE Keeps(load)'
    <3>1. PICK rest : rest \in Seq(CotEvents) /\ Made(told, sent, load, buffer, rest)
      BY <2>2 DEF Keeps
    <3>2. PICK x : x \in Seq(CotEvents) /\ Made(told, sent, load, <<>>, x)
      BY <1>2, <3>1, MadeDropped
    <3> QED BY <1>1, <1>11, <2>0, <3>2 DEF Keeps
  <2>3. OrderInv'
    <3>1. <<>> \in Seq(CotEvents)
      BY EmptySeq
    <3>2. ASSUME NEW f \in Flushers, Carries(f)' PROVE Keeps(flusher[f].batch)'
      <4>1. PICK load : load = flusher[f].batch
        OBVIOUS
      <4>2. load \in Seq(CotEvents) /\ Keeps(load) /\ flusher'[f].batch = load
        BY <1>1, <1>2, <1>9, <3>2, <4>1 DEF CotInv, OrderInv
      <4>3. Keeps(load)'
        BY <2>2, <4>2
      <4> QED BY <4>2, <4>3 DEF Keeps
    <3> QED BY <1>9, <2>2, <3>1, <3>2 DEF CotInv, OrderInv
  <2>4. BalanceInv'
    BY <2>0 DEF BalanceInv
  <2> QED BY <1>7, <1>8, <2>1, <2>3, <2>4 DEF CotInv
<1>12. CASE ~disabled /\ UNCHANGED disabled /\ timer' \in {"armed", timer} /\
            \E n \in IF Head(todo).type = "TEXT_MESSAGE_CONTENT" THEN {1, 2} ELSE {1} :
                  LET es == [i \in 1 .. n |-> Head(todo)] IN buffer' = buffer \o es /\ told' = told \o es
  <2>1. PICK n \in IF h.type = "TEXT_MESSAGE_CONTENT" THEN {1, 2} ELSE {1} :
               buffer' = buffer \o [i \in 1 .. n |-> h] /\ told' = told \o [i \in 1 .. n |-> h]
    BY <1>3, <1>12
  <2>2. PICK es : es = [i \in 1 .. n |-> h]
    OBVIOUS
  <2>3. buffer' = buffer \o es /\ told' = told \o es
    BY <2>1, <2>2
  <2>4. n \in IF h.type = "TEXT_MESSAGE_CONTENT" THEN {1, 2} ELSE {1}
    BY <2>1
  <2>5. \A p \in Pairs : \A id : es \in Seq(CotEvents) /\ Diff(es, p, id) = Diff(<<h>>, p, id)
    BY <1>5, <2>2, <2>4, CopiesBalance
  <2>6. es \in Seq(CotEvents)
    BY <2>5, PairsAre
  <2>7. buffer' \in Seq(CotEvents) /\ told' \in Seq(CotEvents)
    BY <1>2, <2>3, <2>6, ConcatTypes
  <2>8. CotTypes'
    BY <1>1, <1>4, <1>5, <1>12, <2>7 DEF CotInv, CotTypes
  <2>9. ASSUME NEW load \in Seq(CotEvents), Keeps(load) PROVE Keeps(load)'
    <3>1. Made(told, sent, load, buffer, <<>>)
      BY <1>12, <2>9 DEF Keeps
    <3>2. Made(told', sent, load, buffer', <<>>)
      BY <1>2, <2>3, <2>6, <3>1, MadeMore
    <3> QED BY <1>1, <3>2, EmptySeq DEF Keeps
  <2>10. OrderInv'
    <3>1. <<>> \in Seq(CotEvents)
      BY EmptySeq
    <3>2. ASSUME NEW f \in Flushers, Carries(f)' PROVE Keeps(flusher[f].batch)'
      <4>1. PICK load : load = flusher[f].batch
        OBVIOUS
      <4>2. load \in Seq(CotEvents) /\ Keeps(load) /\ flusher'[f].batch = load
        BY <1>1, <1>2, <1>9, <3>2, <4>1 DEF CotInv, OrderInv
      <4>3. Keeps(load)'
        BY <2>9, <4>2
      <4> QED BY <4>2, <4>3 DEF Keeps
    <3> QED BY <1>9, <2>9, <3>1, <3>2 DEF CotInv, OrderInv
  <2>11. BalanceInv'
    <3> SUFFICES ASSUME NEW p \in Pairs, NEW id
                 PROVE  Diff(told' \o todo', p, id) = TextOpen(open, p, id) + ThoughtOpen(open, p, id)
      BY <1>1 DEF BalanceInv
    <3>1. Diff(told \o todo, p, id) = TextOpen(open, p, id) + ThoughtOpen(open, p, id)
      BY <1>12 DEF CotInv, BalanceInv
    <3>2. Diff(told \o todo, p, id) = Diff(told, p, id) + Diff(todo, p, id)
      BY <1>2, DiffConcat
    <3>3. Diff(told', p, id) = Diff(told, p, id) + Diff(es, p, id)
      BY <1>2, <2>3, <2>6, DiffConcat
    <3>4. Diff(todo, p, id) = Diff(<<h>>, p, id) + Diff(r, p, id)
      <4>1. PICK o : o = <<h>>
        OBVIOUS
      <4>2. o \in Seq(CotEvents) /\ todo = o \o r
        BY <1>5, <4>1
      <4>3. Diff(o \o r, p, id) = Diff(o, p, id) + Diff(r, p, id)
        BY <1>5, <4>2, DiffConcat
      <4> QED BY <4>1, <4>2, <4>3
    <3>5. PICK t : t = told'
      OBVIOUS
    <3>6. t \in Seq(CotEvents)
      BY <2>7, <3>5
    <3>7. Diff(t \o r, p, id) = Diff(t, p, id) + Diff(r, p, id)
      BY <1>5, <3>6, DiffConcat
    <3>8. Diff(told, p, id) \in Int /\ Diff(es, p, id) \in Int /\ Diff(r, p, id) \in Int
      BY <1>2, <1>5, <2>6, DiffConcat
    <3>9. Diff(told' \o todo', p, id) = Diff(told', p, id) + Diff(r, p, id)
      BY <1>1, <1>4, <3>5, <3>7
    <3>10. Diff(es, p, id) = Diff(<<h>>, p, id)
      BY <2>5
    <3> QED BY <3>1, <3>2, <3>3, <3>4, <3>8, <3>9, <3>10
  <2> QED BY <1>7, <1>8, <2>8, <2>10, <2>11 DEF CotInv
<1> QED BY <1>10, <1>11, <1>12 DEF Enqueue

\* Nothing moves.
LEMMA StutterHolds == ASSUME CotInv, UNCHANGED cotVars PROVE CotInv'
<1>1. UNCHANGED <<told, buffer, flushing, disabled, flusher, sent>>
      /\ UNCHANGED <<events, open, todo, timer, consumer, completed, cotFailures>>
  BY DEF cotVars
<1>2. OneFlushes' /\ OrderInv'
  BY <1>1, OrderStays DEF CotInv
<1>3. CotTypes'
  BY <1>1 DEF CotInv, CotTypes
<1>4. FinishInv' /\ BalanceInv'
  BY <1>1 DEF CotInv, FinishInv, BalanceInv
<1> QED BY <1>2, <1>3, <1>4 DEF CotInv

\* Every step keeps the invariant of the process message.
LEMMA CotStep == CotInv /\ [CotNext]_cotVars => CotInv'
  BY ReadHolds, EnqueueHolds, FinishFlushesHolds, CompleteHolds, ConsumerCancelledHolds, TimerFiresHolds,
     FlushTakesHolds, FlushCallsHolds, FlushReturnsHolds, StutterHolds DEF CotNext

\* The platform gets the events of a process message in the order they were enqueued, by
\* whichever timer or Finish, and one completed as done has got all of them, with an end
\* for every text, thought and call (Publisher of cotpresenter).
THEOREM ProcessMessageTold == CotSpec => []ProcessTold
  BY CotStep, CotInitHolds, CotInvFollows, PTL DEF CotSpec

\* The locals of ConsumeEvents, the buffer and the flushes of a Publisher keep their types.
THEOREM ProcessMessageTypes == CotSpec => []CotTypes
<1>1. CotInv => CotTypes
  BY DEF CotInv
<1> QED BY <1>1, CotStep, CotInitHolds, PTL DEF CotSpec

\* A process message and a managed card that are told to the platform at once each
\* arrive in the order they were made.
THEOREM PublishedArrives == PublishedSpec => []PublishedInOrder
<1>1. PublishedInit => CotInv /\ CardsInv
  BY CotInitHolds, CardsInitHolds DEF PublishedInit
<1>2. CotInv /\ CardsInv /\ [PublishedNext]_<<cotVars, cardVars>> => (CotInv /\ CardsInv)'
  <2> SUFFICES ASSUME CotInv, CardsInv, [PublishedNext]_<<cotVars, cardVars>> PROVE CotInv' /\ CardsInv'
    OBVIOUS
  <2>1. [CotNext]_cotVars /\ [CardsNext]_cardVars
    BY DEF PublishedNext
  <2> QED BY <2>1, CotStep, CardsStep
<1>3. CotInv /\ CardsInv => PublishedInOrder
  BY CotInvFollows, CardsInvFollows DEF PublishedInOrder
<1> QED BY <1>1, <1>2, <1>3, PTL DEF PublishedSpec
-----------------------------------------------------------------------------
\* What the intake is made of.
Knowledge == [owner : Owners \cup {NoOne}, state : {"unknown", "ok", "failed"}]
Batches == [at : {"resolving", "running"}, msgs : Seq(Messages), profile : Profiles, controls : Knowledge]
OwnedTypes == disk \in Profiles \cup {Unreadable} /\ controls \in Knowledge /\ stopped \in BOOLEAN
QueueTypes ==
  /\ place \in [Messages -> {"new", "admitted", "queued", "over"}]
  /\ pending \in [Chats -> Seq(Messages)] /\ handed \in [Chats -> Seq(Seq(Messages))]
  /\ batch \in [Chats -> {NoBatch} \cup Batches]
  /\ runs \subseteq [msgs : Seq(Messages), profile : Profiles, controls : Knowledge]
ReactionTypes ==
  /\ reaction \in [Messages -> {None, "adding", "sent", "closed"}]
  /\ cleanup \in [Messages -> {None, "waiting", "done"}] /\ typing \subseteq Messages
FormTypes ==
  /\ tasks \in [Forms -> Nat] /\ clicks \in [Forms -> Nat]
  /\ restart \in [pending : BOOLEAN, at : {None, "delay", "running"}, form : Forms \cup {None}]
  /\ restartSeen \subseteq Forms /\ restarts \in [Forms -> Nat]
MessageTypes == OwnedTypes /\ QueueTypes /\ ReactionTypes

\* A message is queued while it waits, is handed over, or is in the batch of its chat,
\* and it is in one of these places only.
Serving(c) == batch[c].at # None
Working(c) == Range(batch[c].msgs)
QueuedInv == \A c \in Chats :
  /\ \A m \in Range(pending[c]) : place[m] = "queued" /\ m.chat = c
  /\ \A i \in DOMAIN handed[c] :
       handed[c][i] # <<>> /\ \A m \in Range(handed[c][i]) : place[m] = "queued" /\ m.chat = c
  /\ Serving(c) => batch[c].msgs # <<>> /\ \A m \in Working(c) : place[m] = "queued" /\ m.chat = c
ApartInv == \A c \in Chats :
  /\ \A i, j \in DOMAIN handed[c] : i # j => \A m \in Range(handed[c][i]) : m \notin Range(handed[c][j])
  /\ \A i \in DOMAIN handed[c] : \A m \in Range(handed[c][i]) :
       m \notin Range(pending[c]) /\ (Serving(c) => m \notin Working(c))
  /\ Serving(c) => \A m \in Working(c) : m \notin Range(pending[c])

\* Who may be served by the profile and the owner known.
Serves(m, profile, known) ==
  Permits(IF m.p2p THEN CanUseDM(profile, known, m.sender) ELSE CanUseGroup(profile, known, m.chat, m.sender))
\* A message answered instead of run for.
Turned(m) == <<m, "group hint">> \in answers \/ <<m, "command">> \in answers
\* The chat of a message works on it.
InRun(m) == batch[m.chat].at = "running" /\ m \in Working(m.chat)
ServedInv ==
  /\ \A c \in Chats : Serving(c) => Serves(batch[c].msgs[1], batch[c].profile, batch[c].controls)
  /\ \A r \in runs : Serves(r.msgs[1], r.profile, r.controls)
TurnedInv ==
  /\ \A m \in Messages : Turned(m) => place[m] = "over"
  /\ \A r \in runs : \A m \in Range(r.msgs) : (place[m] = "over" \/ InRun(m)) /\ ~Turned(m)

\* A reaction is added, or there, only while its run is on or its removal waits.
LastOf(m) == m.chat \in Chats /\ InRun(m) /\ m = batch[m.chat].msgs[Len(batch[m.chat].msgs)]
TypingInv ==
  /\ \A m \in Messages : reaction[m] # None \/ cleanup[m] # None => place[m] = "over" \/ InRun(m)
  /\ \A m \in Messages : cleanup[m] # None => place[m] = "over"
  /\ ~stopped => \A m \in Messages :
       /\ m \in typing => reaction[m] = "sent"
       /\ reaction[m] \in {"adding", "sent"} => LastOf(m) \/ cleanup[m] = "waiting"
MessagesInv == MessageTypes /\ QueuedInv /\ ApartInv /\ ServedInv /\ TurnedInv /\ TypingInv

\* A form that restarted the connection is remembered, and the one whose restart is
\* delayed has not.
RestartInv ==
  /\ restart.pending <=> restart.at # None
  /\ restart.at # None => restart.form \in Forms
  /\ restart.at = "delay" => restart.form \in restartSeen /\ restarts[restart.form] = 0
  /\ \A f \in Forms : f \notin restartSeen => restarts[f] = 0
FormsInv == FormTypes /\ RestartInv /\ OneRestartPerForm
-----------------------------------------------------------------------------
\* What is known of sequences of messages.
LEMMA SetOf ==
  /\ Range(<<>>) = {}
  /\ \A s \in Seq(Messages) : Range(s) \subseteq Messages
  /\ \A s \in Seq(Messages) : s # <<>> => s[1] \in Range(s) /\ s[Len(s)] \in Range(s)
  BY DEF Range

\* A message more.
LEMMA SetOfAppend ==
  ASSUME NEW s \in Seq(Messages), NEW m \in Messages
  PROVE  Append(s, m) \in Seq(Messages) /\ Range(Append(s, m)) = Range(s) \cup {m}
  <1> DEFINE t == Append(s, m)
  <1>1. t \in Seq(Messages) /\ DOMAIN t = 1..(Len(s) + 1) /\ t[Len(s) + 1] = m /\ \A i \in 1..Len(s) : t[i] = s[i]
    OBVIOUS
  <1>2. DOMAIN s = 1..Len(s) /\ Len(s) \in Nat
    OBVIOUS
  <1>3. Range(t) = {t[i] : i \in 1..(Len(s) + 1)} /\ Range(s) = {s[i] : i \in 1..Len(s)}
    BY <1>1, <1>2 DEF Range
  <1> HIDE DEF t
  <1>4. Range(t) \subseteq Range(s) \cup {m}
    BY <1>1, <1>2, <1>3
  <1>5. Range(s) \cup {m} \subseteq Range(t)
    BY <1>1, <1>2, <1>3
  <1> QED BY <1>1, <1>4, <1>5 DEF t

\* A batch taken from what was handed over.
LEMMA HeadAndRest ==
  ASSUME NEW h \in Seq(Seq(Messages)), h # <<>>
  PROVE  /\ Tail(h) \in Seq(Seq(Messages)) /\ 1 \in DOMAIN h /\ Head(h) = h[1] /\ h[1] \in Seq(Messages)
         /\ \A i \in DOMAIN Tail(h) : i + 1 \in DOMAIN h /\ i + 1 # 1 /\ Tail(h)[i] = h[i + 1] /\ i \in Nat
  OBVIOUS

\* A batch handed over.
LEMMA HandedOver ==
  ASSUME NEW h \in Seq(Seq(Messages)), NEW s \in Seq(Messages)
  PROVE  /\ Append(h, s) \in Seq(Seq(Messages))
         /\ \A i \in DOMAIN Append(h, s) : (i \in DOMAIN h /\ Append(h, s)[i] = h[i]) \/ (i = Len(h) + 1 /\ Append(h, s)[i] = s)
  OBVIOUS

\* Every message belongs to a chat.
LEMMA ChatOf == \A m \in Messages : m.chat \in Chats
  BY DEF Chats
-----------------------------------------------------------------------------
\* Nothing has come at first.
LEMMA MessagesInitHolds == IntakeInit => MessagesInv
  <1> SUFFICES ASSUME IntakeInit PROVE MessagesInv
    OBVIOUS
  <1>1. MessageTypes
    <2>1. OwnedTypes
      BY DEF IntakeInit, OwnedTypes, Knowledge
    <2>2. QueueTypes
      BY DEF IntakeInit, QueueTypes
    <2>3. ReactionTypes
      BY DEF IntakeInit, ReactionTypes
    <2> QED BY <2>1, <2>2, <2>3 DEF MessageTypes
  <1>2. QueuedInv /\ ApartInv
    BY SetOf DEF IntakeInit, QueuedInv, ApartInv, Serving, NoBatch
  <1>3. ServedInv /\ TurnedInv
    BY DEF IntakeInit, ServedInv, TurnedInv, Serving, Turned, NoBatch
  <1>4. TypingInv
    BY DEF IntakeInit, TypingInv, None
  <1> QED BY <1>1, <1>2, <1>3, <1>4 DEF MessagesInv

\* What the queue, the batches and the runs are is not changed by the profile and the
\* owner that are known.
LEMMA QueueStays ==
  ASSUME MessagesInv, UNCHANGED messaging
  PROVE  QueueTypes' /\ QueuedInv' /\ ApartInv' /\ ServedInv' /\ TurnedInv'
  <1>1. QueueTypes' /\ QueuedInv' /\ ApartInv'
    BY DEF MessagesInv, MessageTypes, messaging, QueueTypes, QueuedInv, ApartInv, Serving, Working
  <1>2. ServedInv'
    BY DEF MessagesInv, messaging, ServedInv, Serving
  <1>3. TurnedInv'
    BY DEF MessagesInv, messaging, TurnedInv, Turned, InRun, Working
  <1> QED BY <1>1, <1>2, <1>3

\* The same of the reactions.
LEMMA ReactionsStay ==
  ASSUME MessagesInv, UNCHANGED <<messaging, reacting>>, stopped => stopped'
  PROVE  ReactionTypes' /\ TypingInv'
  BY DEF MessagesInv, MessageTypes, messaging, reacting, ReactionTypes, TypingInv, InRun, LastOf, Working

\* Another profile is on disk.
LEMMA ProfileChangesStep == ASSUME MessagesInv, ProfileChanges PROVE MessagesInv'
  <1>1. OwnedTypes'
    BY DEF MessagesInv, MessageTypes, OwnedTypes, ProfileChanges
  <1> QED BY <1>1, QueueStays, ReactionsStay DEF MessagesInv, MessageTypes, ProfileChanges

\* The owner is asked for.
LEMMA RefreshStep == ASSUME MessagesInv, refreshRuntimeOwner PROVE MessagesInv'
  <1>1. OwnedTypes'
    BY DEF MessagesInv, MessageTypes, OwnedTypes, refreshRuntimeOwner, Knowledge
  <1> QED BY <1>1, QueueStays, ReactionsStay DEF MessagesInv, MessageTypes, refreshRuntimeOwner

\* The task that adds a reaction ends.
LEMMA ReactionEndsStep ==
  ASSUME MessagesInv, NEW m \in Messages, ReactionEnds(m) PROVE MessagesInv'
  <1>1. OwnedTypes' /\ UNCHANGED messaging
    BY DEF MessagesInv, MessageTypes, OwnedTypes, ReactionEnds, owned
  <1>2. ReactionTypes'
    BY DEF MessagesInv, MessageTypes, ReactionTypes, ReactionEnds
  <1>3. TypingInv'
    BY DEF MessagesInv, MessageTypes, ReactionTypes, TypingInv, ReactionEnds, messaging, InRun, LastOf, Working, None
  <1> QED BY <1>1, <1>2, <1>3, QueueStays DEF MessagesInv, MessageTypes

\* The task that removes it ends.
LEMMA CleanupEndsStep ==
  ASSUME MessagesInv, NEW m \in Messages, CleanupEnds(m) PROVE MessagesInv'
  <1>1. OwnedTypes' /\ UNCHANGED messaging
    BY DEF MessagesInv, MessageTypes, OwnedTypes, CleanupEnds, owned
  <1>2. ReactionTypes'
    BY DEF MessagesInv, MessageTypes, ReactionTypes, CleanupEnds
  <1>3. TypingInv'
    BY DEF MessagesInv, MessageTypes, ReactionTypes, TypingInv, CleanupEnds, messaging, InRun, LastOf, Working, None
  <1> QED BY <1>1, <1>2, <1>3, QueueStays DEF MessagesInv, MessageTypes
-----------------------------------------------------------------------------
\* Who is only told that the profile cannot be read is not turned away for good.
LEMMA FailureTurnsNobody ==
  ASSUME NEW m, answers' = answers \cup notifyRuntimeConfigFailure(m)
  PROVE  \A n : Turned(n)' <=> Turned(n)
  BY DEF Turned, notifyRuntimeConfigFailure

\* A hint turns one message away.
LEMMA HintTurnsOne ==
  ASSUME NEW m, answers' = answers \cup sendNonAllowedGroupHint(m)
  PROVE  \A n : Turned(n)' => Turned(n) \/ n = m
  BY DEF Turned, sendNonAllowedGroupHint

\* So does the answer to a command.
LEMMA CommandTurnsOne ==
  ASSUME NEW m, answers' = answers \cup {<<m, "command">>}
  PROVE  \A n : Turned(n)' => Turned(n) \/ n = m
  BY DEF Turned

\* What is queued, worked on and run for are messages.
LEMMA TheirMessages ==
  ASSUME QueueTypes
  PROVE  /\ \A c \in Chats : /\ pending[c] \in Seq(Messages) /\ Range(pending[c]) \subseteq Messages
                             /\ handed[c] \in Seq(Seq(Messages))
                             /\ \A i \in DOMAIN handed[c] : handed[c][i] \in Seq(Messages) /\ Range(handed[c][i]) \subseteq Messages
                             /\ Serving(c) => batch[c] \in Batches /\ batch[c].msgs \in Seq(Messages) /\ Working(c) \subseteq Messages
         /\ \A r \in runs : r.msgs \in Seq(Messages) /\ Range(r.msgs) \subseteq Messages
  <1>1. \A c \in Chats : pending[c] \in Seq(Messages) /\ handed[c] \in Seq(Seq(Messages))
    BY DEF QueueTypes
  <1>2. \A c \in Chats : \A i \in DOMAIN handed[c] : handed[c][i] \in Seq(Messages)
    BY <1>1
  <1>3. \A c \in Chats : Serving(c) => batch[c] \in Batches
    BY DEF QueueTypes, Serving, NoBatch
  <1>4. \A c \in Chats : Serving(c) => batch[c].msgs \in Seq(Messages)
    BY <1>3 DEF Batches
  <1>5. \A r \in runs : r.msgs \in Seq(Messages)
    BY DEF QueueTypes
  <1> QED BY <1>1, <1>2, <1>3, <1>4, <1>5, SetOf DEF Working

\* A message that has just come or was admitted is in no queue and no run.
LEMMA NewIsNowhere ==
  ASSUME MessagesInv, NEW m \in Messages, place[m] \in {"new", "admitted"}
  PROVE  /\ \A c \in Chats : /\ m \notin Range(pending[c])
                             /\ \A i \in DOMAIN handed[c] : m \notin Range(handed[c][i])
                             /\ Serving(c) => m \notin Working(c)
         /\ \A r \in runs : m \notin Range(r.msgs)
         /\ ~InRun(m) /\ ~Turned(m) /\ reaction[m] = None /\ cleanup[m] = None
  <1>1. \A c \in Chats : /\ m \notin Range(pending[c])
                         /\ \A i \in DOMAIN handed[c] : m \notin Range(handed[c][i])
                         /\ Serving(c) => m \notin Working(c)
    BY DEF MessagesInv, QueuedInv
  <1>2. ~InRun(m)
    BY <1>1, ChatOf DEF InRun, Serving, None
  <1> QED BY <1>1, <1>2 DEF MessagesInv, TurnedInv, TypingInv

\* A message comes.
LEMMA handleMessageStep ==
  ASSUME MessagesInv, NEW m \in Messages, handleMessage(m) PROVE MessagesInv'
  <1>1. OwnedTypes' /\ ReactionTypes' /\ UNCHANGED <<pending, handed, batch, runs, reaction, cleanup, typing, stopped>>
    BY DEF MessagesInv, MessageTypes, OwnedTypes, ReactionTypes, handleMessage, owned, reacting
  <1>2. place[m] = "new" /\ place' \in [Messages -> {"new", "admitted", "queued", "over"}]
        /\ (\A n \in Messages : n # m => place'[n] = place[n])
        /\ \A n \in Messages : Turned(n)' => Turned(n) \/ (n = m /\ place'[m] = "over")
    <2>1. QueueTypes /\ handleMessage(m)
      BY DEF MessagesInv, MessageTypes
    <2>2. CASE disk = Unreadable
      <3>1. place[m] = "new" /\ place' = [place EXCEPT ![m] = "over"] /\ answers' = answers \cup notifyRuntimeConfigFailure(m)
        BY <2>1, <2>2 DEF handleMessage
      <3> QED BY <2>1, <3>1, FailureTurnsNobody DEF QueueTypes
    <2>3. CASE disk # Unreadable /\ ~Permits(messageAccess(m, disk))
      <3>1. place[m] = "new" /\ place' = [place EXCEPT ![m] = "over"] /\ answers' = answers \cup sendNonAllowedGroupHint(m)
        BY <2>1, <2>3 DEF handleMessage
      <3> QED BY <2>1, <3>1, HintTurnsOne DEF QueueTypes
    <2>4. CASE disk # Unreadable /\ Permits(messageAccess(m, disk))
      <3>1. place[m] = "new" /\ answers' = answers
            /\ place' = [place EXCEPT ![m] = IF ~m.p2p /\ disk.requireMention /\ ~m.mentioned THEN "over" ELSE "admitted"]
        BY <2>1, <2>4 DEF handleMessage
      <3>2. \A n \in Messages : Turned(n)' <=> Turned(n)
        BY <3>1 DEF Turned
      <3> QED BY <2>1, <3>1, <3>2 DEF QueueTypes
    <2> QED BY <2>2, <2>3, <2>4
  <1>3. QueueTypes' /\ QueuedInv' /\ ApartInv' /\ ServedInv'
    <2>1. QueueTypes'
      BY <1>1, <1>2 DEF MessagesInv, MessageTypes, QueueTypes
    <2>2. QueuedInv'
      <3>1. QueueTypes /\ QueuedInv
        BY DEF MessagesInv, MessageTypes
      <3> SUFFICES ASSUME NEW c \in Chats
                   PROVE  /\ \A n \in Range(pending[c]) : place'[n] = "queued" /\ n.chat = c
                          /\ \A i \in DOMAIN handed[c] :
                               handed[c][i] # <<>> /\ \A n \in Range(handed[c][i]) : place'[n] = "queued" /\ n.chat = c
                          /\ Serving(c) => batch[c].msgs # <<>> /\ \A n \in Working(c) : place'[n] = "queued" /\ n.chat = c
        BY <1>1 DEF QueuedInv, Serving, Working
      <3>2. \A n \in Range(pending[c]) : n \in Messages /\ n # m /\ place[n] = "queued" /\ n.chat = c
        BY <1>2, <3>1, NewIsNowhere, TheirMessages DEF QueuedInv
      <3>3. ASSUME NEW i \in DOMAIN handed[c]
            PROVE  handed[c][i] # <<>> /\ \A n \in Range(handed[c][i]) : place'[n] = "queued" /\ n.chat = c
        <4>1. \A n \in Range(handed[c][i]) : n \in Messages /\ n # m
          BY <1>2, <3>1, NewIsNowhere, TheirMessages
        <4>2. handed[c][i] # <<>> /\ \A n \in Range(handed[c][i]) : place[n] = "queued" /\ n.chat = c
          BY <3>1 DEF QueuedInv
        <4> QED BY <1>2, <4>1, <4>2
      <3>4. Serving(c) => batch[c].msgs # <<>> /\ \A n \in Working(c) : n \in Messages /\ n # m
        BY <1>2, <3>1, NewIsNowhere, TheirMessages DEF QueuedInv
      <3>5. Serving(c) => \A n \in Working(c) : place[n] = "queued" /\ n.chat = c
        BY <3>1 DEF QueuedInv
      <3> QED BY <1>2, <3>2, <3>3, <3>4, <3>5
    <2>3. ApartInv' /\ ServedInv'
      BY <1>1 DEF MessagesInv, ApartInv, ServedInv, Serving, Working
    <2> QED BY <2>1, <2>2, <2>3
  <1>4. TurnedInv'
    <2>1. \A n \in Messages : InRun(n)' <=> InRun(n)
      BY <1>1 DEF InRun, Working
    <2>2. \A n \in Messages : Turned(n)' => place'[n] = "over"
      BY <1>2, NewIsNowhere DEF MessagesInv, TurnedInv
    <2>3. \A r \in runs : \A n \in Range(r.msgs) : n \in Messages /\ n # m
      BY NewIsNowhere, TheirMessages, <1>2 DEF MessagesInv, MessageTypes
    <2>4. \A r \in runs' : \A n \in Range(r.msgs) : (place'[n] = "over" \/ InRun(n)') /\ ~Turned(n)'
      BY <1>1, <1>2, <2>1, <2>3 DEF MessagesInv, TurnedInv
    <2> QED BY <2>2, <2>4 DEF TurnedInv
  <1>5. TypingInv'
    BY <1>1, <1>2, NewIsNowhere DEF MessagesInv, TypingInv, InRun, LastOf, Working
  <1> QED BY <1>1, <1>3, <1>4, <1>5 DEF MessagesInv, MessageTypes
\* Messages are over: they have left the queue and the batches, from which nothing
\* else was added to.
Rest(c, k) == \A i \in DOMAIN handed'[c] : i \in Nat /\ i + k \in DOMAIN handed[c] /\ handed'[c][i] = handed[c][i + k]
Shrinks(gone) ==
  /\ place' = [n \in Messages |-> IF n \in gone THEN "over" ELSE place[n]]
  /\ \A c \in Chats : Range(pending'[c]) \subseteq Range(pending[c]) /\ \E k \in Nat : Rest(c, k)
  /\ \A c \in Chats : batch'[c] = batch[c] \/ (batch'[c] = NoBatch /\ (batch[c].at = "running" => Working(c) \subseteq gone))
  /\ \A n \in gone : \A c \in Chats :
       /\ n \notin Range(pending'[c]) /\ \A i \in DOMAIN handed'[c] : n \notin Range(handed'[c][i])
       /\ batch'[c] # NoBatch => n \notin Range(batch'[c].msgs)
Turns(gone) ==
  /\ runs' = runs
  /\ \A n \in Messages : Turned(n)' /\ ~Turned(n) => n \in gone /\ \A r \in runs : n \notin Range(r.msgs)

\* Who is left is where it was, and there only.
LEMMA LeavingQueued ==
  ASSUME MessagesInv, NEW gone \in SUBSET Messages, Shrinks(gone)
  PROVE  QueuedInv' /\ ApartInv'
  <1>1. QueueTypes /\ QueuedInv /\ ApartInv
    BY DEF MessagesInv, MessageTypes
  <1>2. \A c \in Chats : Range(pending[c]) \subseteq Messages /\ \A i \in DOMAIN handed[c] : Range(handed[c][i]) \subseteq Messages
    BY <1>1, TheirMessages
  <1>3. \A c \in Chats : Serving(c)' => Serving(c) /\ batch'[c] = batch[c] /\ Working(c)' = Working(c) /\ Working(c) \subseteq Messages
    BY <1>1, TheirMessages DEF Shrinks, Serving, Working, NoBatch
  <1>4. ASSUME NEW c \in Chats
        PROVE  /\ \A m \in Range(pending'[c]) : place'[m] = "queued" /\ m.chat = c
               /\ \A i \in DOMAIN handed'[c] :
                    handed'[c][i] # <<>> /\ \A m \in Range(handed'[c][i]) : place'[m] = "queued" /\ m.chat = c
               /\ Serving(c)' => batch'[c].msgs # <<>> /\ \A m \in Working(c)' : place'[m] = "queued" /\ m.chat = c
    <2>1. \A m \in Range(pending'[c]) : place'[m] = "queued" /\ m.chat = c
      BY <1>1, <1>2 DEF Shrinks, QueuedInv
    <2>2. PICK k \in Nat : Rest(c, k)
      BY DEF Shrinks
    <2>3. \A i \in DOMAIN handed'[c] :
            handed'[c][i] # <<>> /\ \A m \in Range(handed'[c][i]) : m \in Messages /\ place[m] = "queued" /\ m.chat = c
      BY <1>1, <1>2, <2>2 DEF Rest, QueuedInv
    <2>4. \A i \in DOMAIN handed'[c] : \A m \in Range(handed'[c][i]) : place'[m] = "queued"
      BY <2>3 DEF Shrinks
    <2>5. Serving(c)' => batch'[c].msgs # <<>> /\ \A m \in Working(c)' : m \in Messages /\ place[m] = "queued" /\ m.chat = c
      BY <1>1, <1>3 DEF QueuedInv
    <2>6. Serving(c)' => \A m \in Working(c)' : m \notin gone
      BY DEF Shrinks, Serving, Working, NoBatch
    <2>7. Serving(c)' => \A m \in Working(c)' : place'[m] = "queued"
      BY <2>5, <2>6 DEF Shrinks
    <2> QED BY <2>1, <2>3, <2>4, <2>5, <2>7
  <1>5. QueuedInv'
    BY <1>4 DEF QueuedInv
  <1>6. ASSUME NEW c \in Chats
        PROVE  /\ \A i, j \in DOMAIN handed'[c] : i # j => \A m \in Range(handed'[c][i]) : m \notin Range(handed'[c][j])
               /\ \A i \in DOMAIN handed'[c] : \A m \in Range(handed'[c][i]) :
                    m \notin Range(pending'[c]) /\ (Serving(c)' => m \notin Working(c)')
               /\ Serving(c)' => \A m \in Working(c)' : m \notin Range(pending'[c])
    <2>1. PICK k \in Nat : Rest(c, k)
      BY DEF Shrinks
    <2>2. \A i, j \in DOMAIN handed'[c] : i # j => i + k # j + k
      BY <2>1 DEF Rest
    <2>3. \A i, j \in DOMAIN handed'[c] : i # j => \A m \in Range(handed'[c][i]) : m \notin Range(handed'[c][j])
      BY <1>1, <2>1, <2>2 DEF Rest, ApartInv
    <2>4. \A i \in DOMAIN handed'[c] : \A m \in Range(handed'[c][i]) :
            m \notin Range(pending'[c]) /\ (Serving(c)' => m \notin Working(c)')
      <3> SUFFICES ASSUME NEW i \in DOMAIN handed'[c], NEW m \in Range(handed'[c][i])
                   PROVE  m \notin Range(pending'[c]) /\ (Serving(c)' => m \notin Working(c)')
        OBVIOUS
      <3>1. i + k \in DOMAIN handed[c] /\ m \in Range(handed[c][i + k])
        BY <2>1 DEF Rest
      <3>2. m \notin Range(pending[c]) /\ (Serving(c) => m \notin Working(c))
        BY <1>1, <3>1 DEF ApartInv
      <3>3. Range(pending'[c]) \subseteq Range(pending[c])
        BY DEF Shrinks
      <3> QED BY <1>3, <3>2, <3>3
    <2>5. Serving(c)' => \A m \in Working(c)' : m \notin Range(pending'[c])
      BY <1>1, <1>3 DEF ApartInv, Shrinks
    <2> QED BY <2>3, <2>4, <2>5
  <1>7. ApartInv'
    BY <1>6 DEF ApartInv
  <1> QED BY <1>5, <1>7

\* Who leaves a run is over.
LEMMA LeavingRuns ==
  ASSUME MessagesInv, NEW gone \in SUBSET Messages, Shrinks(gone), Turns(gone)
  PROVE  ServedInv' /\ TurnedInv'
  <1>1. QueueTypes /\ ServedInv /\ TurnedInv /\ QueuedInv
    BY DEF MessagesInv, MessageTypes
  <1>2. ServedInv'
    BY <1>1 DEF ServedInv, Serving, Shrinks, Turns, NoBatch
  <1>3. \A n \in Messages : place[n] = "over" => place'[n] = "over"
    BY DEF Shrinks
  <1>4. \A n \in Messages : InRun(n) => n \in gone \/ InRun(n)'
    BY ChatOf DEF InRun, Working, Shrinks
  <1>5. \A n \in Messages : Turned(n)' => place'[n] = "over"
    BY <1>1, <1>3 DEF TurnedInv, Turns, Shrinks
  <1>6. \A r \in runs' : \A n \in Range(r.msgs) : (place'[n] = "over" \/ InRun(n)') /\ ~Turned(n)'
    <2> SUFFICES ASSUME NEW r \in runs', NEW n \in Range(r.msgs)
                 PROVE  (place'[n] = "over" \/ InRun(n)') /\ ~Turned(n)'
      OBVIOUS
    <2>1. r \in runs /\ n \in Messages
      BY <1>1, TheirMessages DEF Turns
    <2>2. (place[n] = "over" \/ InRun(n)) /\ ~Turned(n)
      BY <1>1, <2>1 DEF TurnedInv
    <2>3. ~Turned(n)'
      BY <2>1, <2>2 DEF Turns
    <2>4. n \in gone => place'[n] = "over"
      BY <2>1 DEF Shrinks
    <2> QED BY <1>3, <1>4, <2>1, <2>2, <2>3, <2>4
  <1> QED BY <1>2, <1>5, <1>6 DEF TurnedInv

\* As long as the runs go on, the reactions need nothing.
LEMMA LeavingTyping ==
  ASSUME MessagesInv, NEW gone \in SUBSET Messages, Shrinks(gone),
         \A c \in Chats : batch[c].at = "running" => batch'[c] = batch[c],
         UNCHANGED <<reaction, cleanup, typing>>, stopped => stopped'
  PROVE  TypingInv'
  <1>1. \A n \in Messages : InRun(n) => InRun(n)'
    BY ChatOf DEF InRun, Working
  <1>2. \A n \in Messages : LastOf(n) => LastOf(n)'
    BY <1>1, ChatOf DEF LastOf, InRun
  <1>3. \A n \in Messages : place[n] = "over" => place'[n] = "over"
    BY DEF Shrinks
  <1> QED BY <1>1, <1>2, <1>3 DEF MessagesInv, TypingInv
\* A command cancels what waits.
LEMMA HandleCommandStep ==
  ASSUME MessagesInv, NEW m \in Messages, HandleCommand(m) PROVE MessagesInv'
  <1> USE ChatOf
  <1>1. /\ OwnedTypes' /\ ReactionTypes'
        /\ UNCHANGED <<handed, batch, runs, reaction, cleanup, typing, stopped>>
        /\ place[m] = "admitted" /\ QueueTypes /\ QueuedInv
    BY DEF MessagesInv, MessageTypes, OwnedTypes, ReactionTypes, HandleCommand, owned, reacting
  <1>2. PICK gone \in SUBSET Messages :
          /\ m \in gone /\ place' = [n \in Messages |-> IF n \in gone THEN "over" ELSE place[n]]
          /\ \A n \in Messages : Turned(n)' => Turned(n) \/ n = m
          /\ \A c \in Chats : pending'[c] = pending[c] \/ (c = m.chat /\ pending'[c] = <<>>)
          /\ pending' \in [Chats -> Seq(Messages)]
          /\ \A n \in gone : n = m \/ (n \in Range(pending[m.chat]) /\ pending'[m.chat] = <<>>)
    <2>1. CASE /\ pending' = [pending EXCEPT ![m.chat] = <<>>]
               /\ place' = [n \in Messages |-> IF n = m \/ n \in Range(pending[m.chat]) THEN "over" ELSE place[n]]
               /\ answers' = answers \cup {<<m, "command">>}
      <3> DEFINE gone == {m} \cup Range(pending[m.chat])
      <3>1. gone \in SUBSET Messages
        BY <1>1, TheirMessages
      <3>2. place' = [n \in Messages |-> IF n \in gone THEN "over" ELSE place[n]]
        BY <2>1
      <3>3. pending' \in [Chats -> Seq(Messages)] /\ pending'[m.chat] = <<>>
        BY <2>1, <1>1 DEF QueueTypes
      <3>4. \A c \in Chats : pending'[c] = pending[c] \/ (c = m.chat /\ pending'[c] = <<>>)
        BY <2>1, <1>1 DEF QueueTypes
      <3> QED BY <2>1, <3>1, <3>2, <3>3, <3>4, CommandTurnsOne
    <2>2. CASE place' = [place EXCEPT ![m] = "over"] /\ UNCHANGED <<pending, answers>>
      <3> DEFINE gone == {m}
      <3>1. place' = [n \in Messages |-> IF n \in gone THEN "over" ELSE place[n]]
        BY <2>2, <1>1 DEF QueueTypes
      <3>2. \A n \in Messages : Turned(n)' => Turned(n)
        BY <2>2 DEF Turned
      <3>3. pending' = pending /\ pending \in [Chats -> Seq(Messages)]
        BY <2>2, <1>1 DEF QueueTypes
      <3>4. gone \in SUBSET Messages /\ m \in gone /\ \A n \in gone : n = m
        OBVIOUS
      <3> HIDE DEF gone
      <3> QED BY <3>1, <3>2, <3>3, <3>4
    <2> QED BY <2>1, <2>2 DEF HandleCommand
  <1>3. \A n \in gone : \A c \in Chats : /\ n \notin Range(pending'[c]) /\ (Serving(c) => n \notin Working(c))
                                          /\ \A i \in DOMAIN handed[c] : n \notin Range(handed[c][i])
    <2> SUFFICES ASSUME NEW n \in gone, NEW c \in Chats
                 PROVE  /\ n \notin Range(pending'[c]) /\ (Serving(c) => n \notin Working(c))
                        /\ \A i \in DOMAIN handed[c] : n \notin Range(handed[c][i])
      OBVIOUS
    <2>1. CASE n = m
      BY <1>1, <1>2, <2>1, NewIsNowhere, SetOf
    <2>2. CASE n # m
      <3>1. n \in Range(pending[m.chat]) /\ pending'[m.chat] = <<>> /\ n.chat = m.chat
        BY <1>1, <1>2, <2>2 DEF QueuedInv
      <3>2. CASE c # m.chat
        BY <1>1, <1>2, <3>1, <3>2 DEF QueuedInv
      <3>3. CASE c = m.chat
        BY <3>1, <3>3, SetOf DEF MessagesInv, ApartInv
      <3> QED BY <3>2, <3>3
    <2> QED BY <2>1, <2>2
  <1>4. Shrinks(gone)
    <2>1. \A c \in Chats : Range(pending'[c]) \subseteq Range(pending[c])
      BY <1>2, SetOf
    <2>2. \A c \in Chats : Rest(c, 0)
      BY <1>1, TheirMessages DEF Rest
    <2>3. \A n \in gone : \A c \in Chats : batch[c] # NoBatch => n \notin Range(batch[c].msgs)
      BY <1>1, <1>3 DEF QueueTypes, Serving, Working, Batches, None
    <2> QED BY <1>1, <1>2, <1>3, <2>1, <2>2, <2>3 DEF Shrinks
  <1>5. Turns(gone)
    BY <1>1, <1>2, NewIsNowhere DEF Turns
  <1>6. QueueTypes'
    BY <1>1, <1>2 DEF QueueTypes
  <1> QED BY <1>1, <1>4, <1>5, <1>6, LeavingQueued, LeavingRuns, LeavingTyping DEF MessagesInv, MessageTypes
\* A message is queued.
LEMMA PushMessageStep ==
  ASSUME MessagesInv, NEW m \in Messages, PushMessage(m) PROVE MessagesInv'
  <1>1. OwnedTypes' /\ ReactionTypes' /\ UNCHANGED <<handed, batch, answers, runs, reaction, cleanup, typing, stopped>>
    BY DEF MessagesInv, MessageTypes, OwnedTypes, ReactionTypes, PushMessage, owned, reacting
  <1>2. QueueTypes /\ QueuedInv /\ ApartInv /\ place[m] = "admitted"
    BY DEF MessagesInv, MessageTypes, PushMessage
  <1>3. m.chat \in Chats /\ pending[m.chat] \in Seq(Messages)
    BY <1>2, ChatOf DEF QueueTypes
  <1>4. PICK word \in {"over", "queued"} : place' = [place EXCEPT ![m] = word]
    BY DEF PushMessage
  <1>5. pending' \in [Chats -> Seq(Messages)]
        /\ \A c \in Chats : Range(pending'[c]) = Range(pending[c])
             \/ (c = m.chat /\ Range(pending'[c]) = Range(pending[c]) \cup {m} /\ place'[m] = "queued")
    <2>1. CASE stopped
      <3>1. pending' = pending
        BY <2>1 DEF PushMessage
      <3> QED BY <3>1, <1>2 DEF QueueTypes
    <2>2. CASE ~stopped
      <3>1. place' = [place EXCEPT ![m] = "queued"] /\ pending' = [pending EXCEPT ![m.chat] = Append(@, m)]
        BY <2>2 DEF PushMessage
      <3>2. PICK s : s = Append(pending[m.chat], m)
        OBVIOUS
      <3>3. s \in Seq(Messages) /\ Range(s) = Range(pending[m.chat]) \cup {m}
        BY <1>3, <3>2, SetOfAppend
      <3>4. pending' = [pending EXCEPT ![m.chat] = s]
        BY <3>1, <3>2
      <3>5. place'[m] = "queued" /\ pending'[m.chat] = s /\ \A c \in Chats : c # m.chat => pending'[c] = pending[c]
        BY <3>1, <3>4, <1>2, <1>3 DEF QueueTypes
      <3>6. pending' \in [Chats -> Seq(Messages)]
        BY <3>3, <3>4, <1>2 DEF QueueTypes
      <3> QED BY <3>3, <3>5, <3>6
    <2> QED BY <2>1, <2>2
  <1>6. QueueTypes' /\ \A n \in Messages : n # m => place'[n] = place[n]
    BY <1>1, <1>2, <1>4, <1>5 DEF QueueTypes
  <1>7. QueuedInv'
    <2> SUFFICES ASSUME NEW c \in Chats
                 PROVE  /\ \A n \in Range(pending'[c]) : place'[n] = "queued" /\ n.chat = c
                        /\ \A i \in DOMAIN handed[c] :
                             handed[c][i] # <<>> /\ \A n \in Range(handed[c][i]) : place'[n] = "queued" /\ n.chat = c
                        /\ Serving(c) => batch[c].msgs # <<>> /\ \A n \in Working(c) : place'[n] = "queued" /\ n.chat = c
      BY <1>1 DEF QueuedInv, Serving, Working
    <2>1. \A n \in Range(pending'[c]) : place'[n] = "queued" /\ n.chat = c
      <3> SUFFICES ASSUME NEW n \in Range(pending'[c]) PROVE place'[n] = "queued" /\ n.chat = c
        OBVIOUS
      <3>1. CASE n \in Range(pending[c])
        <4>1. n \in Messages /\ n # m
          BY <1>2, <3>1, NewIsNowhere, TheirMessages
        <4> QED BY <1>2, <1>6, <3>1, <4>1 DEF QueuedInv
      <3>2. CASE n \notin Range(pending[c])
        BY <1>5, <3>2
      <3> QED BY <3>1, <3>2
    <2>2. ASSUME NEW i \in DOMAIN handed[c]
          PROVE  handed[c][i] # <<>> /\ \A n \in Range(handed[c][i]) : place'[n] = "queued" /\ n.chat = c
      <3>1. \A n \in Range(handed[c][i]) : n \in Messages /\ n # m
        BY <1>2, NewIsNowhere, TheirMessages
      <3>2. handed[c][i] # <<>> /\ \A n \in Range(handed[c][i]) : place[n] = "queued" /\ n.chat = c
        BY <1>2 DEF QueuedInv
      <3> QED BY <1>6, <3>1, <3>2
    <2>3. Serving(c) => batch[c].msgs # <<>> /\ \A n \in Working(c) : place'[n] = "queued" /\ n.chat = c
      BY <1>2, <1>6, NewIsNowhere, TheirMessages DEF QueuedInv
    <2> QED BY <2>1, <2>2, <2>3
  <1>8. ApartInv'
    <2>1. \A c \in Chats :
            /\ \A i \in DOMAIN handed[c] : \A n \in Range(handed[c][i]) : n \notin Range(pending'[c])
            /\ Serving(c) => \A n \in Working(c) : n \notin Range(pending'[c])
      <3> SUFFICES ASSUME NEW c \in Chats
                   PROVE  /\ \A i \in DOMAIN handed[c] : \A n \in Range(handed[c][i]) : n \notin Range(pending'[c])
                          /\ Serving(c) => \A n \in Working(c) : n \notin Range(pending'[c])
        OBVIOUS
      <3>1. Range(pending'[c]) \subseteq Range(pending[c]) \cup {m}
        BY <1>5
      <3>2. (\A i \in DOMAIN handed[c] : m \notin Range(handed[c][i])) /\ (Serving(c) => m \notin Working(c))
        BY <1>2, NewIsNowhere
      <3>3. /\ \A i \in DOMAIN handed[c] : \A n \in Range(handed[c][i]) : n \notin Range(pending[c])
            /\ Serving(c) => \A n \in Working(c) : n \notin Range(pending[c])
        BY <1>2 DEF ApartInv
      <3> QED BY <3>1, <3>2, <3>3
    <2> QED BY <1>1, <1>2, <2>1 DEF ApartInv, Serving, Working
  <1>9. ServedInv'
    BY <1>1 DEF MessagesInv, ServedInv, Serving
  <1>10. \A n \in Messages : (InRun(n)' <=> InRun(n)) /\ (Turned(n)' <=> Turned(n)) /\ (LastOf(n)' <=> LastOf(n))
    BY <1>1 DEF InRun, Working, Turned, LastOf
  <1>11. TurnedInv'
    <2>1. \A n \in Messages : Turned(n)' => place'[n] = "over"
      BY <1>6, <1>10, NewIsNowhere, <1>2 DEF MessagesInv, TurnedInv
    <2>2. \A r \in runs' : \A n \in Range(r.msgs) : (place'[n] = "over" \/ InRun(n)') /\ ~Turned(n)'
      BY <1>1, <1>2, <1>6, <1>10, NewIsNowhere, TheirMessages DEF MessagesInv, TurnedInv
    <2> QED BY <2>1, <2>2 DEF TurnedInv
  <1>12. TypingInv'
    BY <1>1, <1>2, <1>6, <1>10, NewIsNowhere DEF MessagesInv, TypingInv
  <1> QED BY <1>1, <1>6, <1>7, <1>8, <1>9, <1>11, <1>12 DEF MessagesInv, MessageTypes

\* The timer of a chat hands over what waits.
LEMMA QueueFiresStep ==
  ASSUME MessagesInv, NEW d \in Chats, QueueFires(d) PROVE MessagesInv'
  <1>1. OwnedTypes' /\ ReactionTypes' /\ UNCHANGED <<place, batch, answers, runs, reaction, cleanup, typing, stopped>>
    BY DEF MessagesInv, MessageTypes, OwnedTypes, ReactionTypes, QueueFires, owned, reacting
  <1>2. QueueTypes /\ QueuedInv /\ ApartInv /\ pending[d] \in Seq(Messages) /\ handed[d] \in Seq(Seq(Messages))
    BY DEF MessagesInv, MessageTypes, QueueTypes
  <1>3. PICK h : h = Append(handed[d], pending[d])
    OBVIOUS
  <1>4. h \in Seq(Seq(Messages))
        /\ \A i \in DOMAIN h : (i \in DOMAIN handed[d] /\ h[i] = handed[d][i]) \/ (i = Len(handed[d]) + 1 /\ h[i] = pending[d])
    BY <1>2, <1>3, HandedOver
  <1>5. handed' = [handed EXCEPT ![d] = h] /\ pending' = [pending EXCEPT ![d] = <<>>] /\ pending[d] # <<>>
    BY <1>3 DEF QueueFires
  <1>6. QueueTypes'
    BY <1>1, <1>2, <1>4, <1>5 DEF QueueTypes
  <1>7. handed'[d] = h /\ pending'[d] = <<>> /\ Range(pending'[d]) = {}
        /\ \A c \in Chats : c # d => handed'[c] = handed[c] /\ pending'[c] = pending[c]
    BY <1>2, <1>5, SetOf DEF QueueTypes
  <1>8. QueuedInv'
    <2> SUFFICES ASSUME NEW c \in Chats
                 PROVE  /\ \A n \in Range(pending'[c]) : place[n] = "queued" /\ n.chat = c
                        /\ \A i \in DOMAIN handed'[c] :
                             handed'[c][i] # <<>> /\ \A n \in Range(handed'[c][i]) : place[n] = "queued" /\ n.chat = c
                        /\ Serving(c) => batch[c].msgs # <<>> /\ \A n \in Working(c) : place[n] = "queued" /\ n.chat = c
      BY <1>1 DEF QueuedInv, Serving, Working
    <2>1. CASE c # d
      BY <1>2, <1>7, <2>1 DEF QueuedInv
    <2>2. CASE c = d
      BY <1>2, <1>4, <1>5, <1>7, <2>2 DEF QueuedInv
    <2> QED BY <2>1, <2>2
  <1>9. ApartInv'
    <2> SUFFICES ASSUME NEW c \in Chats
                 PROVE  /\ \A i, j \in DOMAIN handed'[c] : i # j => \A m \in Range(handed'[c][i]) : m \notin Range(handed'[c][j])
                        /\ \A i \in DOMAIN handed'[c] : \A m \in Range(handed'[c][i]) :
                             m \notin Range(pending'[c]) /\ (Serving(c) => m \notin Working(c))
                        /\ Serving(c) => \A m \in Working(c) : m \notin Range(pending'[c])
      BY <1>1 DEF ApartInv, Serving, Working
    <2>1. CASE c # d
      BY <1>2, <1>7, <2>1 DEF ApartInv
    <2>2. CASE c = d
      <3>1. /\ handed'[c] = h /\ Range(pending'[c]) = {}
            /\ \A i, j \in DOMAIN handed[c] : i # j => \A m \in Range(handed[c][i]) : m \notin Range(handed[c][j])
            /\ \A i \in DOMAIN handed[c] : \A m \in Range(handed[c][i]) :
                 m \notin Range(pending[c]) /\ (Serving(c) => m \notin Working(c))
            /\ Serving(c) => \A m \in Working(c) : m \notin Range(pending[c])
        BY <1>2, <1>7, <2>2 DEF ApartInv
      <3>2. ASSUME NEW i \in DOMAIN h, NEW j \in DOMAIN h, i # j, NEW m \in Range(h[i])
            PROVE  m \notin Range(h[j])
        BY <1>4, <2>2, <3>1, <3>2
      <3>3. ASSUME NEW i \in DOMAIN h, NEW m \in Range(h[i]), Serving(c)
            PROVE  m \notin Working(c)
        BY <1>4, <2>2, <3>1, <3>3
      <3> QED BY <3>1, <3>2, <3>3
    <2> QED BY <2>1, <2>2
  <1>10. ServedInv' /\ TurnedInv'
    <2>1. ServedInv'
      BY <1>1 DEF MessagesInv, ServedInv, Serving
    <2>2. TurnedInv'
      BY <1>1 DEF MessagesInv, TurnedInv, Turned, InRun, Working
    <2> QED BY <2>1, <2>2
  <1>11. TypingInv'
    BY <1>1 DEF MessagesInv, TypingInv, InRun, LastOf, Working
  <1> QED BY <1>1, <1>6, <1>8, <1>9, <1>10, <1>11 DEF MessagesInv, MessageTypes
\* The worker takes a batch off what was handed over: it is over when the profile cannot be
\* read or does not allow it, else it is worked on.
LEMMA handleBatchStep ==
  ASSUME MessagesInv, NEW d \in Chats, handleBatch(d) PROVE MessagesInv'
  <1>1. OwnedTypes' /\ ReactionTypes' /\ UNCHANGED <<disk, controls, pending, runs, reaction, cleanup, typing, stopped>>
        /\ handed[d] # <<>> /\ batch[d].at = None
    BY DEF MessagesInv, MessageTypes, OwnedTypes, ReactionTypes, handleBatch, owned, reacting
  <1>2. QueueTypes /\ QueuedInv /\ ApartInv /\ OwnedTypes /\ handed[d] \in Seq(Seq(Messages)) /\ ~Serving(d)
    BY <1>1 DEF MessagesInv, MessageTypes, QueueTypes, Serving
  <1>3. PICK ms, h : ms = Head(handed[d]) /\ h = Tail(handed[d])
    OBVIOUS
  <1>4. /\ h \in Seq(Seq(Messages)) /\ 1 \in DOMAIN handed[d] /\ ms = handed[d][1] /\ ms \in Seq(Messages)
        /\ \A i \in DOMAIN h : i + 1 \in DOMAIN handed[d] /\ i + 1 # 1 /\ h[i] = handed[d][i + 1] /\ i \in Nat
    BY <1>1, <1>2, <1>3, HeadAndRest
  <1>5. handed' = [handed EXCEPT ![d] = h]
    BY <1>3 DEF handleBatch
  <1>6. handed'[d] = h /\ handed' \in [Chats -> Seq(Seq(Messages))] /\ \A c \in Chats : c # d => handed'[c] = handed[c]
    BY <1>2, <1>4, <1>5 DEF QueueTypes
  <1>7. /\ ms # <<>> /\ Range(ms) \subseteq Messages
        /\ \A n \in Range(ms) : place[n] = "queued" /\ n.chat = d /\ n \notin Range(pending[d])
        /\ \A n \in Range(ms) : \A i \in DOMAIN h : n \notin Range(h[i])
    <2>1. ms # <<>> /\ Range(ms) \subseteq Messages
      BY <1>2, <1>4, SetOf DEF QueuedInv
    <2>2. \A n \in Range(ms) : place[n] = "queued" /\ n.chat = d
      BY <1>2, <1>4 DEF QueuedInv
    <2>3. \A n \in Range(ms) : n \notin Range(pending[d])
      BY <1>2, <1>4 DEF ApartInv
    <2>4. \A n \in Range(ms) : \A i \in DOMAIN h : n \notin Range(h[i])
      BY <1>2, <1>4 DEF ApartInv
    <2> QED BY <2>1, <2>2, <2>3, <2>4
  <1>8. \A c \in Chats : \E k \in Nat : Rest(c, k)
    <2>1. Rest(d, 1)
      BY <1>4, <1>6 DEF Rest
    <2>2. \A c \in Chats : c # d => Rest(c, 0)
      BY <1>2, <1>6, TheirMessages DEF Rest
    <2> QED BY <2>1, <2>2
  <1>9. ms[1] \in Range(ms)
    BY <1>4, <1>7, SetOf
  <1>10. CASE disk = Unreadable \/ ~Permits(messageAccess(ms[1], disk))
    <2> DEFINE gone == Range(ms)
    <2>1. place' = [n \in Messages |-> IF n \in gone THEN "over" ELSE place[n]] /\ batch' = batch
          /\ (answers' = answers \cup notifyRuntimeConfigFailure(ms[1]) \/ answers' = answers \cup sendNonAllowedGroupHint(ms[1]))
      BY <1>3, <1>10 DEF handleBatch, Over
    <2>2. \A n \in gone : \A c \in Chats :
            /\ n \notin Range(pending'[c]) /\ \A i \in DOMAIN handed'[c] : n \notin Range(handed'[c][i])
            /\ batch[c] # NoBatch => n \notin Range(batch[c].msgs)
      <3> SUFFICES ASSUME NEW n \in gone, NEW c \in Chats
                   PROVE  /\ n \notin Range(pending'[c]) /\ \A i \in DOMAIN handed'[c] : n \notin Range(handed'[c][i])
                          /\ batch[c] # NoBatch => n \notin Range(batch[c].msgs)
        OBVIOUS
      <3>1. CASE c = d
        BY <1>1, <1>2, <1>6, <1>7, <3>1 DEF QueueTypes, Batches, None
      <3>2. CASE c # d
        <4>1. n.chat # c
          BY <1>7, <3>2
        <4>2. batch[c] # NoBatch => Serving(c)
          BY <1>2 DEF QueueTypes, Serving, Batches, None
        <4>3. n \notin Range(pending[c]) /\ (\A i \in DOMAIN handed[c] : n \notin Range(handed[c][i])) /\ (Serving(c) => n \notin Working(c))
          BY <1>2, <4>1 DEF QueuedInv
        <4> QED BY <1>1, <1>6, <3>2, <4>2, <4>3 DEF Working
      <3> QED BY <3>1, <3>2
    <2>3. gone \in SUBSET Messages
      BY <1>7
    <2>4. \A n \in Messages : Turned(n)' => Turned(n) \/ n = ms[1]
      BY <2>1, FailureTurnsNobody, HintTurnsOne
    <2>5. \A r \in runs : ms[1] \notin Range(r.msgs)
      BY <1>1, <1>7, <1>9 DEF MessagesInv, TurnedInv, InRun, None
    <2>6. QueueTypes'
      BY <1>1, <1>2, <1>6, <2>1 DEF QueueTypes
    <2> HIDE DEF gone
    <2>7. Shrinks(gone)
      BY <1>1, <1>8, <2>1, <2>2 DEF Shrinks
    <2>8. Turns(gone)
      BY <1>1, <1>9, <2>4, <2>5 DEF Turns, gone
    <2> QED BY <1>1, <2>1, <2>3, <2>6, <2>7, <2>8, LeavingQueued, LeavingRuns, LeavingTyping DEF MessagesInv, MessageTypes
  <1>11. CASE disk # Unreadable /\ Permits(messageAccess(ms[1], disk))
    <2>1. PICK b : b = [at |-> "resolving", msgs |-> ms, profile |-> disk, controls |-> controls]
      OBVIOUS
    <2>2. batch' = [batch EXCEPT ![d] = b] /\ place' = place /\ answers' = answers
      BY <1>3, <1>11, <2>1 DEF handleBatch
    <2>3. b \in Batches /\ b.at = "resolving" /\ b.msgs = ms /\ b.profile = disk /\ b.controls = controls
      BY <1>2, <1>4, <1>11, <2>1 DEF Batches, OwnedTypes
    <2>4. batch'[d] = b /\ batch' \in [Chats -> {NoBatch} \cup Batches] /\ \A c \in Chats : c # d => batch'[c] = batch[c]
      BY <1>2, <2>2, <2>3 DEF QueueTypes
    <2>5. QueueTypes'
      BY <1>1, <1>2, <1>6, <2>2, <2>4 DEF QueueTypes
    <2>6. Serving(d)' /\ Working(d)' = Range(ms) /\ \A c \in Chats : c # d => (Serving(c)' <=> Serving(c)) /\ Working(c)' = Working(c)
      BY <2>3, <2>4 DEF Serving, Working, None
    <2>7. QueuedInv'
      <3>1. \A c \in Chats : \A i \in DOMAIN handed'[c] :
              handed'[c][i] # <<>> /\ \A n \in Range(handed'[c][i]) : place[n] = "queued" /\ n.chat = c
        <4>1. ASSUME NEW i \in DOMAIN h
              PROVE  h[i] # <<>> /\ \A n \in Range(h[i]) : place[n] = "queued" /\ n.chat = d
          BY <1>2, <1>4 DEF QueuedInv
        <4>2. ASSUME NEW c \in Chats, NEW i \in DOMAIN handed'[c]
              PROVE  handed'[c][i] # <<>> /\ \A n \in Range(handed'[c][i]) : place[n] = "queued" /\ n.chat = c
          <5>1. CASE c = d
            BY <1>6, <4>1, <4>2, <5>1
          <5>2. CASE c # d
            <6>1. handed'[c] = handed[c] /\ i \in DOMAIN handed[c]
              BY <1>6, <4>2, <5>2
            <6> QED BY <1>2, <6>1 DEF QueuedInv
          <5> QED BY <5>1, <5>2
        <4> QED BY <4>2
      <3>2. \A c \in Chats : Serving(c)' => batch'[c].msgs # <<>> /\ \A n \in Working(c)' : place[n] = "queued" /\ n.chat = c
        BY <1>2, <1>7, <2>3, <2>4, <2>6 DEF QueuedInv
      <3> QED BY <1>1, <1>2, <2>2, <3>1, <3>2 DEF QueuedInv
    <2>8. ApartInv'
      <3>1. ASSUME NEW c \in Chats, c # d
            PROVE  /\ \A i, j \in DOMAIN handed'[c] : i # j => \A m \in Range(handed'[c][i]) : m \notin Range(handed'[c][j])
                   /\ \A i \in DOMAIN handed'[c] : \A m \in Range(handed'[c][i]) :
                        m \notin Range(pending'[c]) /\ (Serving(c)' => m \notin Working(c)')
                   /\ Serving(c)' => \A m \in Working(c)' : m \notin Range(pending'[c])
        BY <1>1, <1>2, <1>6, <2>6, <3>1 DEF ApartInv
      <3>2. \A i, j \in DOMAIN h : i # j => \A m \in Range(h[i]) : m \notin Range(h[j])
        <4>1. \A i, j \in DOMAIN h : i # j => i + 1 # j + 1
          BY <1>4
        <4> QED BY <1>2, <1>4, <4>1 DEF ApartInv
      <3>3. \A i \in DOMAIN h : \A m \in Range(h[i]) : m \notin Range(pending[d])
        BY <1>2, <1>4 DEF ApartInv
      <3>4. \A i \in DOMAIN h : \A m \in Range(h[i]) : m \notin Range(ms)
        BY <1>7
      <3> QED BY <1>1, <1>6, <1>7, <2>6, <3>1, <3>2, <3>3, <3>4 DEF ApartInv
    <2>9. ServedInv'
      <3>1. Serves(b.msgs[1], b.profile, b.controls)
        BY <1>11, <2>3 DEF Serves, messageAccess
      <3> QED BY <1>1, <2>4, <2>6, <3>1 DEF MessagesInv, ServedInv
    <2>10. \A n \in Messages : (InRun(n)' <=> InRun(n)) /\ (LastOf(n) => LastOf(n)') /\ (Turned(n)' <=> Turned(n))
      <3>1. \A n \in Messages : n.chat = d => ~InRun(n) /\ ~InRun(n)'
        BY <1>1, <2>3, <2>4 DEF InRun, None
      <3>2. \A n \in Messages : n.chat # d => (InRun(n)' <=> InRun(n)) /\ (LastOf(n) => LastOf(n)')
        BY <2>4, ChatOf DEF InRun, LastOf, Working
      <3>3. \A n \in Messages : Turned(n)' <=> Turned(n)
        BY <2>2 DEF Turned
      <3> QED BY <3>1, <3>2, <3>3 DEF LastOf
    <2>11. TurnedInv'
      BY <1>1, <1>2, <2>2, <2>10, TheirMessages DEF MessagesInv, TurnedInv
    <2>12. TypingInv'
      BY <1>1, <2>2, <2>10 DEF MessagesInv, TypingInv
    <2> QED BY <1>1, <2>5, <2>7, <2>8, <2>9, <2>11, <2>12 DEF MessagesInv, MessageTypes
  <1> QED BY <1>10, <1>11
\* A batch that ends is of no run any more, and who was in it is over.
LEMMA BatchLeaves ==
  ASSUME MessagesInv, NEW d \in Chats, Serving(d), batch' = [batch EXCEPT ![d] = NoBatch],
         place' = [n \in Messages |-> IF n \in Working(d) THEN "over" ELSE place[n]],
         UNCHANGED <<pending, handed, runs>>, NEW m \in Working(d),
         \A n \in Messages : Turned(n)' => Turned(n)
  PROVE  Working(d) \in SUBSET Messages /\ Shrinks(Working(d)) /\ Turns(Working(d)) /\ QueueTypes'
         /\ batch'[d] = NoBatch /\ \A c \in Chats : c # d => batch'[c] = batch[c]
  <1>1. QueueTypes /\ QueuedInv /\ ApartInv /\ Working(d) \in SUBSET Messages
    BY TheirMessages DEF MessagesInv, MessageTypes
  <1>2. batch'[d] = NoBatch /\ \A c \in Chats : c # d => batch'[c] = batch[c]
    BY <1>1 DEF QueueTypes
  <1>3. QueueTypes'
    BY <1>1 DEF QueueTypes
  <1>4. PICK gone : gone = Working(d)
    OBVIOUS
  <1>5. \A n \in gone : \A c \in Chats :
          /\ n \notin Range(pending'[c]) /\ \A i \in DOMAIN handed'[c] : n \notin Range(handed'[c][i])
          /\ batch'[c] # NoBatch => n \notin Range(batch'[c].msgs)
    <2> SUFFICES ASSUME NEW n \in gone, NEW c \in Chats
                 PROVE  /\ n \notin Range(pending[c]) /\ \A i \in DOMAIN handed[c] : n \notin Range(handed[c][i])
                        /\ batch'[c] # NoBatch => n \notin Range(batch'[c].msgs)
      OBVIOUS
    <2>1. n \in Working(d) /\ n.chat = d
      BY <1>1, <1>4 DEF QueuedInv
    <2>2. CASE c = d
      BY <1>1, <1>2, <2>1, <2>2 DEF ApartInv
    <2>3. CASE c # d
      <3>1. batch[c] # NoBatch => Serving(c)
        BY <1>1 DEF QueueTypes, Serving, Batches, None
      <3> QED BY <1>1, <1>2, <2>1, <2>3, <3>1 DEF QueuedInv, Working
    <2> QED BY <2>2, <2>3
  <1>6. \A c \in Chats : Rest(c, 0)
    BY <1>1, TheirMessages DEF Rest
  <1>7. Shrinks(gone)
    BY <1>2, <1>4, <1>5, <1>6 DEF Shrinks
  <1>8. Turns(gone)
    BY DEF Turns
  <1> QED BY <1>1, <1>2, <1>3, <1>4, <1>7, <1>8

\* The run of a batch is refused.
LEMMA RunRefusedStep ==
  ASSUME MessagesInv, NEW d \in Chats, RunRefused(d) PROVE MessagesInv'
  <1>1. OwnedTypes' /\ ReactionTypes' /\ UNCHANGED <<pending, handed, runs, reaction, cleanup, typing, stopped>>
        /\ batch[d].at = "resolving" /\ batch' = [batch EXCEPT ![d] = NoBatch]
        /\ place' = [n \in Messages |-> IF n \in Working(d) THEN "over" ELSE place[n]]
    BY DEF MessagesInv, MessageTypes, OwnedTypes, ReactionTypes, RunRefused, owned, reacting, Over, Working
  <1>2. QueueTypes /\ Serving(d)
    BY <1>1 DEF MessagesInv, MessageTypes, Serving, None
  <1>3. batch[d].msgs \in Seq(Messages) /\ batch[d].msgs # <<>>
    BY <1>2, TheirMessages DEF MessagesInv, QueuedInv
  <1>4. PICK m : m = batch[d].msgs[Len(batch[d].msgs)]
    OBVIOUS
  <1>5. m \in Working(d)
    BY <1>3, <1>4, SetOf DEF Working
  <1>6. answers' \in {answers, answers \cup {<<m, "refused">>}}
    BY <1>4 DEF RunRefused
  <1>7. \A n \in Messages : Turned(n)' => Turned(n)
    <2>1. CASE answers' = answers
      BY <2>1 DEF Turned
    <2>2. CASE answers' = answers \cup {<<m, "refused">>}
      BY <2>2 DEF Turned
    <2> QED BY <1>6, <2>1, <2>2
  <1>8. PICK gone \in SUBSET Messages : Shrinks(gone) /\ Turns(gone)
    BY <1>1, <1>2, <1>5, <1>7, BatchLeaves
  <1>9. QueueTypes' /\ \A c \in Chats : batch[c].at = "running" => batch'[c] = batch[c]
    BY <1>1, <1>2, <1>5, <1>7, BatchLeaves
  <1> QED BY <1>1, <1>8, <1>9, LeavingQueued, LeavingRuns, LeavingTyping DEF MessagesInv, MessageTypes

\* A run ends: of its messages the last one may show the reaction, and then its removal
\* waits.
LEMMA RunEndsStep ==
  ASSUME MessagesInv, NEW d \in Chats, RunEnds(d) PROVE MessagesInv'
  <1>1. OwnedTypes' /\ UNCHANGED <<pending, handed, answers, runs, reaction, typing, stopped>>
        /\ batch[d].at = "running" /\ batch' = [batch EXCEPT ![d] = NoBatch]
        /\ place' = [n \in Messages |-> IF n \in Working(d) THEN "over" ELSE place[n]]
    BY DEF MessagesInv, MessageTypes, OwnedTypes, RunEnds, owned, Over, Working
  <1>2. QueueTypes /\ Serving(d) /\ ReactionTypes
    BY <1>1 DEF MessagesInv, MessageTypes, Serving, None
  <1>3. batch[d].msgs \in Seq(Messages) /\ batch[d].msgs # <<>>
    BY <1>2, TheirMessages DEF MessagesInv, QueuedInv
  <1>4. PICK last : last = batch[d].msgs[Len(batch[d].msgs)]
    OBVIOUS
  <1>5. last \in Working(d) /\ last \in Messages
    BY <1>2, <1>3, <1>4, SetOf, TheirMessages DEF Working
  <1>6. cleanup' = [cleanup EXCEPT ![last] = IF reaction[last] = None \/ stopped THEN None ELSE "waiting"]
    BY <1>4 DEF RunEnds
  <1>7. ReactionTypes'
    BY <1>1, <1>2, <1>6 DEF ReactionTypes
  <1>8. \A n \in Messages : Turned(n)' => Turned(n)
    BY <1>1 DEF Turned
  <1>9. QueueTypes' /\ Working(d) \in SUBSET Messages /\ Shrinks(Working(d)) /\ Turns(Working(d))
        /\ \A c \in Chats : c # d => batch'[c] = batch[c]
    BY <1>1, <1>2, <1>5, <1>8, BatchLeaves
  <1>10. TypingInv'
    <2>1. \A n \in Messages : (place[n] = "over" => place'[n] = "over") /\ (n \in Working(d) => place'[n] = "over")
      BY <1>1
    <2>2. \A n \in Messages : n \notin Working(d) => (InRun(n) => InRun(n)') /\ (LastOf(n) => LastOf(n)')
      BY <1>9, ChatOf DEF InRun, LastOf, Working
    <2>3. \A n \in Messages : LastOf(n) /\ n \in Working(d) => n = last
      BY <1>2, <1>4 DEF MessagesInv, QueuedInv, LastOf
    <2>4. \A n \in Messages : n # last => cleanup'[n] = cleanup[n]
      BY <1>2, <1>5, <1>6 DEF ReactionTypes
    <2>5. cleanup'[last] = IF reaction[last] = None \/ stopped THEN None ELSE "waiting"
      BY <1>2, <1>5, <1>6 DEF ReactionTypes
    <2>6. \A n \in Messages : reaction'[n] # None \/ cleanup'[n] # None => place'[n] = "over" \/ InRun(n)'
      BY <1>1, <1>5, <2>1, <2>2, <2>4 DEF MessagesInv, TypingInv
    <2>7. \A n \in Messages : cleanup'[n] # None => place'[n] = "over"
      BY <1>5, <2>1, <2>4 DEF MessagesInv, TypingInv
    <2>8. ASSUME ~stopped, NEW n \in Messages
          PROVE  /\ n \in typing => reaction[n] = "sent"
                 /\ reaction[n] \in {"adding", "sent"} => LastOf(n)' \/ cleanup'[n] = "waiting"
      <3>1. /\ n \in typing => reaction[n] = "sent"
            /\ reaction[n] \in {"adding", "sent"} => LastOf(n) \/ cleanup[n] = "waiting"
        BY <2>8 DEF MessagesInv, TypingInv
      <3>2. CASE n = last
        BY <2>5, <2>8, <3>1, <3>2 DEF None
      <3>3. CASE n # last
        BY <2>2, <2>3, <2>4, <3>1, <3>3
      <3> QED BY <3>2, <3>3
    <2> QED BY <1>1, <2>6, <2>7, <2>8 DEF TypingInv
  <1> QED BY <1>1, <1>7, <1>9, <1>10, LeavingQueued, LeavingRuns DEF MessagesInv, MessageTypes

\* A run starts.
LEMMA RunStartsStep ==
  ASSUME MessagesInv, NEW d \in Chats, RunStarts(d) PROVE MessagesInv'
  <1>1. OwnedTypes' /\ UNCHANGED <<place, pending, handed, answers, cleanup, typing, stopped>>
        /\ batch[d].at = "resolving" /\ batch' = [batch EXCEPT ![d].at = "running"]
        /\ runs' = runs \cup {[msgs |-> batch[d].msgs, profile |-> batch[d].profile, controls |-> batch[d].controls]}
    BY DEF MessagesInv, MessageTypes, OwnedTypes, RunStarts, owned
  <1>2. QueueTypes /\ Serving(d) /\ ReactionTypes
    BY <1>1 DEF MessagesInv, MessageTypes, Serving, None
  <1>3. batch[d] \in Batches /\ batch[d].msgs \in Seq(Messages) /\ batch[d].msgs # <<>> /\ Working(d) \subseteq Messages
    BY <1>2, TheirMessages DEF MessagesInv, QueuedInv
  <1>4. PICK last : last = batch[d].msgs[Len(batch[d].msgs)]
    OBVIOUS
  <1>5. last \in Working(d) /\ last \in Messages
    BY <1>3, <1>4, SetOf DEF Working
  <1>6. PICK word : /\ reaction' = [reaction EXCEPT ![last] = word]
                   /\ word = IF ~batch[d].profile.typing THEN None ELSE IF stopped THEN "closed" ELSE "adding"
    BY <1>4 DEF RunStarts
  <1>7. PICK b : b = [batch[d] EXCEPT !.at = "running"]
    OBVIOUS
  <1>8. b \in Batches /\ b.at = "running" /\ b.msgs = batch[d].msgs /\ b.profile = batch[d].profile /\ b.controls = batch[d].controls
    BY <1>3, <1>7 DEF Batches
  <1>9. batch' = [batch EXCEPT ![d] = b]
    BY <1>1, <1>7
  <1>10. batch'[d] = b /\ batch' \in [Chats -> {NoBatch} \cup Batches] /\ \A c \in Chats : c # d => batch'[c] = batch[c]
    BY <1>2, <1>8, <1>9 DEF QueueTypes
  <1>11. PICK r : r = [msgs |-> batch[d].msgs, profile |-> batch[d].profile, controls |-> batch[d].controls]
    OBVIOUS
  <1>12. /\ r \in [msgs : Seq(Messages), profile : Profiles, controls : Knowledge] /\ runs' = runs \cup {r}
         /\ r.msgs = batch[d].msgs /\ r.profile = batch[d].profile /\ r.controls = batch[d].controls
    BY <1>1, <1>3, <1>11 DEF Batches
  <1>13. QueueTypes'
    BY <1>1, <1>2, <1>10, <1>12 DEF QueueTypes
  <1>14. ReactionTypes'
    BY <1>1, <1>2, <1>6 DEF ReactionTypes
  <1>15. \A c \in Chats : (Serving(c)' <=> Serving(c)) /\ Working(c)' = Working(c) /\ batch'[c].msgs = batch[c].msgs
                         /\ batch'[c].profile = batch[c].profile /\ batch'[c].controls = batch[c].controls
    BY <1>1, <1>2, <1>8, <1>10 DEF Serving, Working, None
  <1>16. QueuedInv' /\ ApartInv'
    <2>1. QueuedInv'
      BY <1>1, <1>15 DEF MessagesInv, QueuedInv
    <2>2. ApartInv'
      BY <1>1, <1>15 DEF MessagesInv, ApartInv
    <2> QED BY <2>1, <2>2
  <1>17. ServedInv'
    BY <1>2, <1>12, <1>15 DEF MessagesInv, ServedInv
  <1>18. \A n \in Messages : (InRun(n) => InRun(n)') /\ (LastOf(n) => LastOf(n)') /\ (Turned(n)' <=> Turned(n))
    <2>1. \A n \in Messages : InRun(n) => InRun(n)'
      BY <1>8, <1>10, <1>15, ChatOf DEF InRun
    <2>2. \A n \in Messages : LastOf(n) => LastOf(n)'
      BY <2>1, <1>15, ChatOf DEF LastOf
    <2> QED BY <1>1, <2>1, <2>2 DEF Turned
  <1>19. \A n \in Working(d) : InRun(n)' /\ ~InRun(n) /\ place[n] = "queued" /\ n.chat = d
    <2>1. \A n \in Working(d) : place[n] = "queued" /\ n.chat = d
      BY <1>2 DEF MessagesInv, QueuedInv
    <2> QED BY <1>1, <1>8, <1>10, <1>15, <2>1 DEF InRun
  <1>20. TurnedInv'
    <2>1. \A n \in Range(r.msgs) : InRun(n)' /\ ~Turned(n)'
      BY <1>3, <1>12, <1>18, <1>19 DEF MessagesInv, TurnedInv, Working
    <2>2. \A q \in runs : \A n \in Range(q.msgs) : (place'[n] = "over" \/ InRun(n)') /\ ~Turned(n)'
      BY <1>1, <1>2, <1>18, TheirMessages DEF MessagesInv, TurnedInv
    <2> QED BY <1>1, <1>12, <1>18, <2>1, <2>2 DEF MessagesInv, TurnedInv
  <1>21. TypingInv'
    <2>1. \A n \in Messages : n # last => reaction'[n] = reaction[n]
      BY <1>2, <1>6 DEF ReactionTypes
    <2>2. reaction'[last] = word /\ reaction[last] = None /\ cleanup[last] = None
      BY <1>2, <1>5, <1>6, <1>19 DEF ReactionTypes, MessagesInv, TypingInv
    <2>3. LastOf(last)'
      BY <1>4, <1>5, <1>15, <1>19 DEF LastOf
    <2>4. \A n \in Messages : reaction'[n] # None \/ cleanup'[n] # None => place'[n] = "over" \/ InRun(n)'
      BY <1>1, <1>18, <2>1, <2>3 DEF MessagesInv, TypingInv, LastOf
    <2>5. \A n \in Messages : cleanup'[n] # None => place'[n] = "over"
      BY <1>1 DEF MessagesInv, TypingInv
    <2>6. ASSUME ~stopped, NEW n \in Messages
          PROVE  /\ n \in typing => reaction'[n] = "sent"
                 /\ reaction'[n] \in {"adding", "sent"} => LastOf(n)' \/ cleanup'[n] = "waiting"
      <3>1. /\ n \in typing => reaction[n] = "sent"
            /\ reaction[n] \in {"adding", "sent"} => LastOf(n) \/ cleanup[n] = "waiting"
        BY <2>6 DEF MessagesInv, TypingInv
      <3>2. CASE n = last
        BY <2>2, <2>3, <3>1, <3>2 DEF None
      <3>3. CASE n # last
        BY <1>1, <1>18, <2>1, <3>1, <3>3
      <3> QED BY <3>2, <3>3
    <2> QED BY <1>1, <2>4, <2>5, <2>6 DEF TypingInv
  <1> QED BY <1>1, <1>13, <1>14, <1>16, <1>17, <1>20, <1>21 DEF MessagesInv, MessageTypes
\* The intake is closed: the queue drops what it has not handed over.
LEMMA CloseIntakeStep ==
  ASSUME MessagesInv, CloseIntake PROVE MessagesInv'
  <1>1. OwnedTypes' /\ ReactionTypes' /\ UNCHANGED <<handed, batch, answers, runs, reaction, cleanup, typing>> /\ stopped'
        /\ pending' = [c \in Chats |-> <<>>]
        /\ place' = [m \in Messages |-> IF \E c \in Chats : m \in Range(pending[c]) THEN "over" ELSE place[m]]
    BY DEF MessagesInv, MessageTypes, OwnedTypes, ReactionTypes, CloseIntake, owned, reacting
  <1>2. QueueTypes /\ QueuedInv /\ ApartInv
    BY DEF MessagesInv, MessageTypes
  <1>3. PICK gone \in SUBSET Messages : \A m \in Messages : m \in gone <=> \E c \in Chats : m \in Range(pending[c])
    <2> DEFINE gone == {m \in Messages : \E c \in Chats : m \in Range(pending[c])}
    <2>1. gone \in SUBSET Messages /\ \A m \in Messages : m \in gone <=> \E c \in Chats : m \in Range(pending[c])
      OBVIOUS
    <2> HIDE DEF gone
    <2> QED BY <2>1
  <1>4. place' = [n \in Messages |-> IF n \in gone THEN "over" ELSE place[n]]
    BY <1>1, <1>3
  <1>5. \A c \in Chats : pending'[c] = <<>> /\ Range(pending'[c]) = {}
    BY <1>1, SetOf
  <1>6. QueueTypes'
    BY <1>1, <1>2, <1>4 DEF QueueTypes
  <1>7. \A n \in gone : \A c \in Chats :
          /\ n \notin Range(pending'[c]) /\ \A i \in DOMAIN handed'[c] : n \notin Range(handed'[c][i])
          /\ batch'[c] # NoBatch => n \notin Range(batch'[c].msgs)
    <2> SUFFICES ASSUME NEW n \in gone, NEW c \in Chats
                 PROVE  /\ n \notin Range(pending'[c]) /\ \A i \in DOMAIN handed[c] : n \notin Range(handed[c][i])
                        /\ batch[c] # NoBatch => n \notin Range(batch[c].msgs)
      BY <1>1
    <2>1. PICK d \in Chats : n \in Range(pending[d])
      BY <1>3
    <2>2. batch[c] # NoBatch => Serving(c)
      BY <1>2 DEF QueueTypes, Serving, Batches, None
    <2>3. CASE c = d
      BY <1>2, <1>5, <2>1, <2>2, <2>3 DEF ApartInv, Working
    <2>4. CASE c # d
      BY <1>2, <1>5, <2>1, <2>2, <2>4 DEF QueuedInv, Working
    <2> QED BY <2>3, <2>4
  <1>8. \A c \in Chats : Rest(c, 0)
    BY <1>1, <1>2, TheirMessages DEF Rest
  <1>9. Shrinks(gone)
    BY <1>1, <1>4, <1>5, <1>7, <1>8 DEF Shrinks
  <1>10. Turns(gone)
    BY <1>1 DEF Turns, Turned
  <1> QED BY <1>1, <1>6, <1>9, <1>10, LeavingQueued, LeavingRuns, LeavingTyping DEF MessagesInv, MessageTypes
-----------------------------------------------------------------------------
\* The forms touch nothing the messages are about, and the other way round.
LEMMA FormsAlone ==
  ASSUME MessagesInv, UNCHANGED <<owned, messaging, reacting, stopped>> PROVE MessagesInv'
  <1>1. OwnedTypes'
    BY DEF MessagesInv, MessageTypes, OwnedTypes, owned
  <1> QED BY <1>1, QueueStays, ReactionsStay DEF MessagesInv, MessageTypes

\* Every step keeps what is known of the messages.
LEMMA MessagesKeepInv == MessagesInv /\ [MessagesNext \/ FormsNext]_intakeVars => MessagesInv'
  <1> SUFFICES ASSUME MessagesInv, [MessagesNext \/ FormsNext]_intakeVars PROVE MessagesInv'
    OBVIOUS
  <1>1. CASE MessagesNext
    <2>1. CASE ProfileChanges \/ refreshRuntimeOwner \/ CloseIntake
      BY <2>1, ProfileChangesStep, RefreshStep, CloseIntakeStep
    <2>2. ASSUME NEW m \in Messages,
                 handleMessage(m) \/ HandleCommand(m) \/ PushMessage(m) \/ ReactionEnds(m) \/ CleanupEnds(m)
          PROVE  MessagesInv'
      BY <2>2, handleMessageStep, HandleCommandStep, PushMessageStep, ReactionEndsStep, CleanupEndsStep
    <2>3. ASSUME NEW c \in Chats, QueueFires(c) \/ handleBatch(c) \/ RunRefused(c) \/ RunStarts(c) \/ RunEnds(c)
          PROVE  MessagesInv'
      BY <2>3, QueueFiresStep, handleBatchStep, RunRefusedStep, RunStartsStep, RunEndsStep
    <2> QED BY <1>1, <2>1, <2>2, <2>3 DEF MessagesNext
  <1>2. CASE FormsNext
    <2>1. CASE ProfileChanges \/ CloseIntake
      BY <2>1, ProfileChangesStep, CloseIntakeStep
    <2>2. ASSUME NEW f \in Forms, Dispatch(f) \/ DetachedEnds(f) \/ SeenExpires(f) PROVE MessagesInv'
      BY <2>2, FormsAlone DEF Dispatch, DetachedEnds, SeenExpires
    <2>3. CASE RestartBegins \/ RestartEnds
      BY <2>3, FormsAlone DEF RestartBegins, RestartEnds
    <2> QED BY <1>2, <2>1, <2>2, <2>3 DEF FormsNext
  <1>3. CASE UNCHANGED intakeVars
    BY <1>3, FormsAlone DEF intakeVars
  <1> QED BY <1>1, <1>2, <1>3

\* No form has come at first.
LEMMA FormsInitHolds == IntakeInit => FormsInv
  BY DEF IntakeInit, FormsInv, FormTypes, RestartInv, OneRestartPerForm, None

\* What does not touch the forms.
LEMMA AccountsStay == ASSUME FormsInv, UNCHANGED accounts PROVE FormsInv'
  BY DEF FormsInv, FormTypes, RestartInv, OneRestartPerForm, accounts

\* A click starts a task or none.
LEMMA DispatchStep == ASSUME FormsInv, NEW f \in Forms, Dispatch(f) PROVE FormsInv'
  <1>1. UNCHANGED <<restart, restartSeen, restarts>> /\ clicks' \in [Forms -> Nat] /\ tasks' \in [Forms -> Nat]
    BY DEF FormsInv, FormTypes, Dispatch
  <1> QED BY <1>1 DEF FormsInv, FormTypes, RestartInv, OneRestartPerForm

\* A detached task of a form, that asks for a restart or failed.
LEMMA DetachedStep == ASSUME FormsInv, NEW f \in Forms, DetachedEnds(f) PROVE FormsInv'
  <1>1. UNCHANGED <<restarts, clicks>> /\ tasks' \in [Forms -> Nat]
    BY DEF FormsInv, FormTypes, DetachedEnds
  <1>2. CASE UNCHANGED <<restart, restartSeen>>
    BY <1>1, <1>2 DEF FormsInv, FormTypes, RestartInv, OneRestartPerForm
  <1>3. CASE restartSeen' = restartSeen \cup {f} /\ restart' = restart
    BY <1>1, <1>3 DEF FormsInv, FormTypes, RestartInv, OneRestartPerForm
  <1>4. CASE restartSeen' = restartSeen \cup {f} /\ f \notin restartSeen
             /\ restart' = [pending |-> TRUE, at |-> "delay", form |-> f]
    <2>1. restart'.pending = TRUE /\ restart'.at = "delay" /\ restart'.form = f
          /\ restart' \in [pending : BOOLEAN, at : {None, "delay", "running"}, form : Forms \cup {None}]
      BY <1>4
    <2> QED BY <1>1, <1>4, <2>1 DEF FormsInv, FormTypes, RestartInv, OneRestartPerForm, None
  <1> QED BY <1>2, <1>3, <1>4 DEF DetachedEnds, scheduleAccountReconnect

\* The delay of a restart ends: its form had none yet.
LEMMA RestartBeginsStep == ASSUME FormsInv, RestartBegins PROVE FormsInv'
  <1>1. /\ UNCHANGED <<tasks, restartSeen, clicks>> /\ restart.at = "delay" /\ restart.form \in restartSeen
        /\ restart.form \in Forms /\ restarts[restart.form] = 0
        /\ restart' = [restart EXCEPT !.at = "running"] /\ restarts' = [restarts EXCEPT ![restart.form] = @ + 1]
    BY DEF FormsInv, RestartInv, RestartBegins, None
  <1>2. restart'.at = "running" /\ restart'.pending = restart.pending /\ restart'.form = restart.form
        /\ restart' \in [pending : BOOLEAN, at : {None, "delay", "running"}, form : Forms \cup {None}]
    BY <1>1 DEF FormsInv, FormTypes
  <1>3. restarts' \in [Forms -> Nat] /\ restarts'[restart.form] = 1 /\ \A f \in Forms : f # restart.form => restarts'[f] = restarts[f]
    BY <1>1 DEF FormsInv, FormTypes
  <1> QED BY <1>1, <1>2, <1>3 DEF FormsInv, FormTypes, RestartInv, OneRestartPerForm, None

\* A restart ends.
LEMMA RestartEndsStep == ASSUME FormsInv, RestartEnds PROVE FormsInv'
  <1>1. restart'.at = None /\ restart'.pending = FALSE
        /\ restart' \in [pending : BOOLEAN, at : {None, "delay", "running"}, form : Forms \cup {None}]
    BY DEF RestartEnds
  <1> QED BY <1>1 DEF RestartEnds, FormsInv, FormTypes, RestartInv, OneRestartPerForm, None

\* A form is forgotten, and its restart with it.
LEMMA SeenExpiresStep == ASSUME FormsInv, NEW f \in Forms, SeenExpires(f) PROVE FormsInv'
  <1>1. /\ UNCHANGED <<tasks, restart, clicks>> /\ restartSeen' = restartSeen \ {f}
        /\ ~(restart.at = "delay" /\ restart.form = f) /\ restarts' = [restarts EXCEPT ![f] = 0]
    BY DEF SeenExpires
  <1>2. restarts' \in [Forms -> Nat] /\ restarts'[f] = 0 /\ \A g \in Forms : g # f => restarts'[g] = restarts[g]
    BY <1>1 DEF FormsInv, FormTypes
  <1> QED BY <1>1, <1>2 DEF FormsInv, FormTypes, RestartInv, OneRestartPerForm

\* Every step keeps what is known of the forms.
LEMMA FormsKeepInv == FormsInv /\ [MessagesNext \/ FormsNext]_intakeVars => FormsInv'
  <1> SUFFICES ASSUME FormsInv, [MessagesNext \/ FormsNext]_intakeVars PROVE FormsInv'
    OBVIOUS
  <1>1. CASE MessagesNext
    BY <1>1, AccountsStay DEF MessagesNext, ProfileChanges, refreshRuntimeOwner, CloseIntake, handleMessage, HandleCommand,
         PushMessage, ReactionEnds, CleanupEnds, QueueFires, handleBatch, RunRefused, RunStarts, RunEnds
  <1>2. CASE FormsNext
    BY <1>2, AccountsStay, DispatchStep, DetachedStep, SeenExpiresStep, RestartBeginsStep, RestartEndsStep
       DEF FormsNext, ProfileChanges, CloseIntake
  <1>3. CASE UNCHANGED intakeVars
    BY <1>3, AccountsStay DEF intakeVars
  <1> QED BY <1>1, <1>2, <1>3

\* The state of the intake has its types.
THEOREM IntakeTypes == IntakeSpec => [](MessageTypes /\ FormTypes)
  <1>1. MessagesInv /\ FormsInv => MessageTypes /\ FormTypes
    BY DEF MessagesInv, FormsInv
  <1> QED
    BY <1>1, MessagesInitHolds, FormsInitHolds, MessagesKeepInv, FormsKeepInv, PTL DEF IntakeSpec

\* Whatever becomes of profile, owner and queue while a message waits, only who may be
\* served is run for, and nothing that was answered otherwise; and a saved form restarts
\* the bridge once.
THEOREM IntakeServes == IntakeSpec => []IntakeHolds
  <1>1. MessagesInv /\ FormsInv => IntakeHolds
    BY DEF MessagesInv, FormsInv, ServedInv, TurnedInv, Serves, Turned, IntakeHolds, NoStrangerRuns
  <1> QED
    BY <1>1, MessagesInitHolds, FormsInitHolds, MessagesKeepInv, FormsKeepInv, PTL DEF IntakeSpec

\* A reaction whose run is over is one whose removal waits, unless the intake is closed.
THEOREM TypingIsRemoved == IntakeSpec => []TypingGoesAway
  <1>1. MessagesInv => TypingGoesAway
    <2> SUFFICES ASSUME MessagesInv, NEW m \in Messages, m \in typing, place[m] = "over", ~stopped
                 PROVE  cleanup[m] = "waiting"
      BY DEF TypingGoesAway
    <2>1. ~InRun(m)
      BY DEF MessagesInv, QueuedInv, InRun, Serving, None, Chats
    <2> QED BY <2>1 DEF MessagesInv, TypingInv, LastOf
  <1> QED
    BY <1>1, MessagesInitHolds, MessagesKeepInv, PTL DEF IntakeSpec
-----------------------------------------------------------------------------
\* What normalising makes of permissions and of a profile.
NormalPermissions(x) ==
  /\ x = [default |-> x.default, max |-> x.max, claude |-> x.claude]
  /\ IsAccessMode(x.default) /\ IsAccessMode(x.max) /\ Within(x.default, x.max)
  /\ x.claude = Unset \/ (x.claude \in DOMAIN claudePermissionAccess /\ Within(claudePermissionAccess[x.claude], x.max))
NormalCodex(x) == x = <<>> \/ \E home, inherit, ignoreRules :
                                x = <<[home |-> home, inherit |-> <<inherit>>, ignoreRules |-> <<ignoreRules>>]>>
NormalCli(x) == \E preset \in {"user-default", "bot-only"}, import \in ImportStatuses \cup {Unset} :
                  x = <<[preset |-> preset, import |-> import]>>
Normal(p) ==
  /\ p = [field \in ProfileFields |-> p[field]]
  /\ p.version = 2 /\ p.agent \in {"claude", "codex"} /\ p.app # NoText /\ (p.agent = "codex" => p.codex # <<>>)
  /\ NormalPermissions(p.permissions) /\ p.sandbox = NoSandbox
  /\ p.reply \in {"card", "markdown", "text", NoText} /\ p.mention = <<>>
  /\ (\E b : p.requireMention = <<b>>) /\ NormalCodex(p.codex) /\ NormalCli(p.larkCli)
  /\ p.attachments \in Int /\ p.attachments > 0
NormalRoot(r) == IsRoot(r) /\ \A name \in DOMAIN r.profiles : Normal(r.profiles[name])
-----------------------------------------------------------------------------
\* Modes are compared by their rank.
LEMMA Modes ==
  /\ DOMAIN Rank = {"readonly", "workspace", "full"} /\ Unset \notin DOMAIN Rank /\ Invalid \notin DOMAIN Rank
  /\ Rank["readonly"] = 0 /\ Rank["workspace"] = 1 /\ Rank["full"] = 2
  /\ DOMAIN claudePermissionAccess = {"plan", "default", "acceptEdits", "bypassPermissions"}
  /\ \A mode \in DOMAIN claudePermissionAccess : claudePermissionAccess[mode] \in DOMAIN Rank
  /\ Unset \notin DOMAIN claudePermissionAccess
  BY DEF Rank, claudePermissionAccess, Unset, Invalid

\* What is not refused is in order.
LEMMA PairInOrder ==
  ASSUME NEW default, NEW max, NEW claude, Pair(default, max, claude) # Refused
  PROVE  /\ IsAccessMode(default) /\ IsAccessMode(max) /\ Within(default, max)
         /\ Pair(default, max, claude) = [default |-> default, max |-> max, claude |-> claude]
  <1>1. CASE IsAccessMode(default) /\ IsAccessMode(max) /\ Within(default, max)
    BY <1>1 DEF Pair
  <1>2. CASE ~(IsAccessMode(default) /\ IsAccessMode(max) /\ Within(default, max))
    <2>1. Pair(default, max, claude) = [default |-> Invalid, max |-> Invalid, claude |-> Invalid]
      BY <1>2 DEF Pair
    <2>2. Refused = [default |-> Invalid, max |-> Invalid, claude |-> Invalid]
      BY Modes DEF Pair, Refused, IsAccessMode
    <2> QED BY <2>1, <2>2
  <1> QED BY <1>1, <1>2

\* So are the permissions of a profile, and normalising them again changes nothing.
LEMMA PermissionsAreNormal ==
  ASSUME NEW given, NEW sandbox, NormalizePermissions(given, sandbox) # Refused
  PROVE  NormalPermissions(NormalizePermissions(given, sandbox))
  <1>1. PICK base : NormalizePermissions(given, sandbox) = normalizeCanonical(given, base)
    BY DEF NormalizePermissions
  <1>2. PICK max, default : normalizeCanonical(given, base) =
             IF /\ IsAccessMode(max)
                /\ given.claude = Unset \/ (given.claude \in DOMAIN claudePermissionAccess
                                            /\ Within(claudePermissionAccess[given.claude], max))
             THEN Pair(default, max, given.claude) ELSE Refused
    BY DEF normalizeCanonical
  <1>3. /\ given.claude = Unset \/ (given.claude \in DOMAIN claudePermissionAccess
                                    /\ Within(claudePermissionAccess[given.claude], max))
        /\ NormalizePermissions(given, sandbox) = Pair(default, max, given.claude)
    BY <1>1, <1>2
  <1>4. /\ IsAccessMode(default) /\ IsAccessMode(max) /\ Within(default, max)
        /\ NormalizePermissions(given, sandbox) = [default |-> default, max |-> max, claude |-> given.claude]
    BY <1>3, PairInOrder
  <1>5. PICK x : x = [default |-> default, max |-> max, claude |-> given.claude]
    OBVIOUS
  <1>6. NormalPermissions(x)
    BY <1>3, <1>4, <1>5 DEF NormalPermissions
  <1> QED BY <1>4, <1>5, <1>6

\* Normal permissions stay as they are.
LEMMA PermissionsStay ==
  ASSUME NEW x, NormalPermissions(x) PROVE NormalizePermissions(x, NoSandbox) = x /\ x # Refused
  <1>1. IsAccessMode(x.default) /\ IsAccessMode(x.max) /\ x.default # Unset /\ x.max # Unset
    BY Modes DEF NormalPermissions, IsAccessMode
  <1>2. PICK base : base = Pair("full", "full", Unset)
    OBVIOUS
  <1>3. base.max = "full"
    BY <1>2, Modes DEF Pair, IsAccessMode, Within
  <1>4. Refused.max = Invalid
    BY Modes DEF Pair, Refused, IsAccessMode
  <1>5. NormalizePermissions(x, NoSandbox) = normalizeCanonical(x, base)
    BY <1>2, <1>3, <1>4, Modes DEF NormalizePermissions
  <1>6. normalizeCanonical(x, base) = Pair(x.default, x.max, x.claude)
    BY <1>1 DEF normalizeCanonical, NormalPermissions, OneOf
  <1>7. Pair(x.default, x.max, x.claude) = x
    BY DEF Pair, NormalPermissions
  <1>8. x # Refused
    BY <1>1, <1>4, Modes DEF IsAccessMode
  <1> QED BY <1>5, <1>6, <1>7, <1>8

\* The parts of a profile.
LEMMA PartsAreNormal ==
  /\ \A given : NormalCodex(normalizeCodex(given)) /\ NormalCli(normalizeLarkCli(given))
  /\ \A given : normalizeCodex(given) = <<>> <=> given = <<>>
  /\ \A x : NormalCodex(x) => normalizeCodex(x) = x
  /\ \A x : NormalCli(x) => normalizeLarkCli(x) = x
  <1>1. ASSUME NEW given PROVE NormalCodex(normalizeCodex(given)) /\ (normalizeCodex(given) = <<>> <=> given = <<>>)
    <2>1. CASE given = <<>>
      BY <2>1 DEF normalizeCodex, NormalCodex
    <2>2. CASE given # <<>>
      <3>1. PICK home, inherit, ignoreRules :
              home = given[1].home /\ inherit = Or(given[1].inherit, TRUE) /\ ignoreRules = Or(given[1].ignoreRules, TRUE)
        OBVIOUS
      <3>2. normalizeCodex(given) = <<[home |-> home, inherit |-> <<inherit>>, ignoreRules |-> <<ignoreRules>>]>>
        BY <2>2, <3>1 DEF normalizeCodex
      <3>3. NormalCodex(normalizeCodex(given))
        BY <3>2 DEF NormalCodex
      <3> QED BY <2>2, <3>2, <3>3
    <2> QED BY <2>1, <2>2
  <1>2. ASSUME NEW given PROVE NormalCli(normalizeLarkCli(given))
    <2>1. PICK cli : cli = Or(given, [preset |-> Unset, import |-> Unset])
      OBVIOUS
    <2>2. PICK preset, import : /\ preset = IF cli.preset = "user-default" THEN "user-default" ELSE "bot-only"
                                /\ import = IF cli.import \in ImportStatuses THEN cli.import ELSE Unset
      OBVIOUS
    <2>3. normalizeLarkCli(given) = <<[preset |-> preset, import |-> import]>>
      BY <2>1, <2>2 DEF normalizeLarkCli
    <2>4. preset \in {"user-default", "bot-only"} /\ import \in ImportStatuses \cup {Unset}
      BY <2>2
    <2> QED BY <2>3, <2>4 DEF NormalCli
  <1>3. ASSUME NEW x, NormalCodex(x) PROVE normalizeCodex(x) = x
    <2>1. CASE x = <<>>
      BY <2>1 DEF normalizeCodex
    <2>2. CASE x # <<>>
      <3>1. PICK home, inherit, ignoreRules : x = <<[home |-> home, inherit |-> <<inherit>>, ignoreRules |-> <<ignoreRules>>]>>
        BY <1>3, <2>2 DEF NormalCodex
      <3>2. x[1].home = home /\ x[1].inherit = <<inherit>> /\ x[1].ignoreRules = <<ignoreRules>>
        BY <3>1
      <3>3. Or(x[1].inherit, TRUE) = inherit /\ Or(x[1].ignoreRules, TRUE) = ignoreRules
        BY <3>2 DEF Or
      <3> QED BY <2>2, <3>1, <3>2, <3>3 DEF normalizeCodex
    <2> QED BY <2>1, <2>2
  <1>4. ASSUME NEW x, NormalCli(x) PROVE normalizeLarkCli(x) = x
    <2>1. PICK preset \in {"user-default", "bot-only"}, import \in ImportStatuses \cup {Unset} :
            x = <<[preset |-> preset, import |-> import]>>
      BY <1>4 DEF NormalCli
    <2>2. PICK cli : cli = [preset |-> preset, import |-> import]
      OBVIOUS
    <2>3. Or(x, [preset |-> Unset, import |-> Unset]) = cli
      BY <2>1, <2>2 DEF Or
    <2>4. /\ preset = IF cli.preset = "user-default" THEN "user-default" ELSE "bot-only"
          /\ import = IF cli.import \in ImportStatuses THEN cli.import ELSE Unset
      BY <2>2
    <2> QED BY <2>1, <2>3, <2>4 DEF normalizeLarkCli
  <1> QED BY <1>1, <1>2, <1>3, <1>4

\* A profile that is not refused is normal then, and a normal one is what it normalises to.
LEMMA ProfileIsNormal ==
  ASSUME NEW p, IsProfile(p), normalizeProfile(p) # <<>>
  PROVE  \E q : normalizeProfile(p) = <<q>> /\ Normal(q)
  <1>1. PICK permissions : permissions = NormalizePermissions(p.permissions, p.sandbox)
    OBVIOUS
  <1>2. PICK b : b = Or(FirstGiven(p.requireMention, p.mention), TRUE)
    OBVIOUS
  <1>3. PICK codex, cli : codex = normalizeCodex(p.codex) /\ cli = normalizeLarkCli(p.larkCli)
    OBVIOUS
  <1>4. PICK q : q = [p EXCEPT !.permissions = permissions, !.sandbox = NoSandbox,
                        !.reply = IF @ \in {"card", "markdown", "text"} THEN @ ELSE NoText,
                        !.mention = <<>>, !.requireMention = <<b>>,
                        !.codex = codex, !.attachments = IF @ <= 0 THEN DefaultMax ELSE @, !.larkCli = cli]
    OBVIOUS
  <1>5. /\ p.version = 2 /\ p.agent \in {"claude", "codex"} /\ p.app # NoText
        /\ (p.agent = "codex" => p.codex # <<>>) /\ permissions # Refused
        /\ normalizeProfile(p) = <<q>>
    BY <1>1, <1>2, <1>3, <1>4 DEF normalizeProfile
  <1>6. /\ q.version = p.version /\ q.agent = p.agent /\ q.app = p.app /\ q.permissions = permissions
        /\ q.sandbox = NoSandbox /\ q.mention = <<>> /\ q.requireMention = <<b>> /\ q.codex = codex /\ q.larkCli = cli
        /\ q.reply = (IF p.reply \in {"card", "markdown", "text"} THEN p.reply ELSE NoText)
        /\ q.attachments = (IF p.attachments <= 0 THEN DefaultMax ELSE p.attachments)
        /\ q = [field \in ProfileFields |-> q[field]]
    BY <1>4 DEF IsProfile, ProfileFields
  <1>7. NormalPermissions(q.permissions)
    BY <1>1, <1>5, <1>6, PermissionsAreNormal
  <1>8. NormalCodex(q.codex) /\ NormalCli(q.larkCli) /\ (q.agent = "codex" => q.codex # <<>>)
    BY <1>3, <1>5, <1>6, PartsAreNormal
  <1>9. q.attachments \in Int /\ q.attachments > 0 /\ q.reply \in {"card", "markdown", "text", NoText}
    BY <1>6, MaxAssumption DEF IsProfile
  <1> QED BY <1>5, <1>6, <1>7, <1>8, <1>9 DEF Normal

\* A normal profile stays as it is.
LEMMA NormalStays ==
  ASSUME NEW p, Normal(p) PROVE normalizeProfile(p) = <<p>>
  <1>1. NormalizePermissions(p.permissions, p.sandbox) = p.permissions /\ p.permissions # Refused
    BY PermissionsStay DEF Normal
  <1>2. normalizeCodex(p.codex) = p.codex /\ normalizeLarkCli(p.larkCli) = p.larkCli
    BY PartsAreNormal DEF Normal
  <1>3. <<Or(FirstGiven(p.requireMention, p.mention), TRUE)>> = p.requireMention
    BY DEF Normal, Or, FirstGiven
  <1>4. PICK permissions, codex, cli, mention :
          permissions = p.permissions /\ codex = p.codex /\ cli = p.larkCli /\ mention = p.requireMention
    OBVIOUS
  <1>5. PICK q : q = [p EXCEPT !.permissions = permissions, !.sandbox = NoSandbox,
                        !.reply = IF @ \in {"card", "markdown", "text"} THEN @ ELSE NoText,
                        !.mention = <<>>, !.requireMention = mention,
                        !.codex = codex, !.attachments = IF @ <= 0 THEN DefaultMax ELSE @, !.larkCli = cli]
    OBVIOUS
  <1>6. /\ q.version = p.version /\ q.agent = p.agent /\ q.app = p.app /\ q.secrets = p.secrets
        /\ q.users = p.users /\ q.chats = p.chats /\ q.admins = p.admins /\ q.workspace = p.workspace
        /\ q.permissions = p.permissions /\ q.sandbox = p.sandbox /\ q.mention = p.mention
        /\ q.requireMention = p.requireMention /\ q.codex = p.codex /\ q.larkCli = p.larkCli
        /\ q = [field \in ProfileFields |-> q[field]]
    BY <1>4, <1>5 DEF Normal, ProfileFields
  <1>7. q.reply = p.reply /\ q.attachments = p.attachments
    BY <1>5 DEF Normal, ProfileFields
  <1>8. \A field \in ProfileFields : q[field] = p[field]
    BY <1>6, <1>7 DEF ProfileFields
  <1>9. p = q
    BY <1>6, <1>8 DEF Normal
  <1> QED BY <1>1, <1>2, <1>3, <1>4, <1>5, <1>9 DEF normalizeProfile, Normal
-----------------------------------------------------------------------------
\* The same of the root.
LEMMA RootIsNormal ==
  ASSUME NEW root, IsRoot(root), \A name \in DOMAIN root.profiles : IsProfile(root.profiles[name]), NormalizeRoot(root) # <<>>
  PROVE  \E r : NormalizeRoot(root) = <<r>> /\ NormalRoot(r)
  <1>1. PICK profiles : profiles = [name \in DOMAIN root.profiles |-> normalizeProfile(root.profiles[name])]
    OBVIOUS
  <1>2. PICK firsts : firsts = [name \in DOMAIN profiles |-> profiles[name][1]]
    OBVIOUS
  <1>3. /\ \A name \in DOMAIN profiles : profiles[name] # <<>>
        /\ NormalizeRoot(root) = <<[root EXCEPT !.profiles = firsts]>>
    BY <1>1, <1>2 DEF NormalizeRoot
  <1>4. PICK r : r = [root EXCEPT !.profiles = firsts]
    OBVIOUS
  <1>5. r = [field \in RootFields |-> r[field]] /\ r.kind = "root" /\ r.profiles = firsts
    BY <1>4 DEF IsRoot, RootFields
  <1>6. IsRoot(r)
    BY <1>2, <1>5 DEF IsRoot
  <1>7. ASSUME NEW name \in DOMAIN firsts PROVE Normal(firsts[name])
    <2>1. PICK given : given = root.profiles[name]
      OBVIOUS
    <2>2. IsProfile(given) /\ profiles[name] = normalizeProfile(given) /\ normalizeProfile(given) # <<>>
      BY <1>1, <1>2, <1>3, <1>7, <2>1
    <2>3. PICK q : normalizeProfile(given) = <<q>> /\ Normal(q)
      BY <2>2, ProfileIsNormal
    <2>4. firsts[name] = q
      BY <1>2, <1>7, <2>2, <2>3
    <2> QED BY <2>3, <2>4
  <1> QED BY <1>3, <1>4, <1>5, <1>6, <1>7 DEF NormalRoot

\* A normal root stays as it is.
LEMMA RootStays ==
  ASSUME NEW r, NormalRoot(r) PROVE NormalizeRoot(r) = <<r>>
  <1>1. PICK profiles : profiles = [name \in DOMAIN r.profiles |-> normalizeProfile(r.profiles[name])]
    OBVIOUS
  <1>2. ASSUME NEW name \in DOMAIN r.profiles PROVE profiles[name] = <<r.profiles[name]>>
    <2>1. PICK q : q = r.profiles[name]
      OBVIOUS
    <2>2. normalizeProfile(q) = <<q>>
      BY <1>2, <2>1, NormalStays DEF NormalRoot
    <2> QED BY <1>1, <1>2, <2>1, <2>2
  <1>3. PICK firsts : firsts = [name \in DOMAIN profiles |-> profiles[name][1]]
    OBVIOUS
  <1>4. ASSUME NEW name \in DOMAIN profiles PROVE profiles[name] # <<>> /\ profiles[name][1] = r.profiles[name]
    <2>1. PICK q : q = r.profiles[name]
      OBVIOUS
    <2>2. profiles[name] = <<q>>
      BY <1>1, <1>2, <1>4, <2>1
    <2> QED BY <2>1, <2>2
  <1>5. firsts = r.profiles
    <2>1. firsts = [name \in DOMAIN r.profiles |-> r.profiles[name]]
      BY <1>1, <1>3, <1>4
    <2> QED BY <2>1 DEF NormalRoot, IsRoot
  <1>6. NormalizeRoot(r) = <<[r EXCEPT !.profiles = firsts]>>
    BY <1>1, <1>3, <1>4 DEF NormalizeRoot
  <1>7. [r EXCEPT !.profiles = firsts] = r
    BY <1>5 DEF NormalRoot, IsRoot, RootFields
  <1> QED BY <1>6, <1>7

\* A file of the first version becomes a normal root.
LEMMA LegacyIsNormal ==
  ASSUME NEW legacy, IsProfile(legacy.profile), NEW opts, normalizeLegacy(legacy, opts) # <<>>
  PROVE  \E r : normalizeLegacy(legacy, opts) = <<r>> /\ NormalRoot(r)
  <1>1. PICK name, agent, p : name = OneOf(opts.profile, opts.active, "claude") /\ p = legacy.profile
                              /\ agent = IF opts.agent = Unset THEN "claude" ELSE opts.agent
    OBVIOUS
  <1>2. PICK given : given = [p EXCEPT !.version = 2, !.agent = agent, !.codex = opts.codex,
                               !.requireMention = p.mention, !.permissions = NoPermissions, !.sandbox = NoSandbox,
                               !.attachments = 0, !.larkCli = <<>>]
    OBVIOUS
  <1>3. given = [field \in ProfileFields |-> given[field]] /\ given.attachments = 0
    BY <1>1, <1>2 DEF IsProfile, ProfileFields
  <1>4. IsProfile(given)
    BY <1>3 DEF IsProfile
  <1>5. PICK profile : profile = normalizeProfile(given)
    OBVIOUS
  <1>6. /\ profile # <<>>
        /\ normalizeLegacy(legacy, opts) =
             <<[kind |-> "root", active |-> name, secrets |-> legacy.secrets, migrated |-> {name}, extra |-> {},
                profiles |-> [n \in {name} |-> profile[1]]]>>
    BY <1>1, <1>2, <1>5 DEF normalizeLegacy
  <1>7. PICK q : profile = <<q>> /\ Normal(q)
    BY <1>4, <1>5, <1>6, ProfileIsNormal
  <1>8. PICK profiles : profiles = [n \in {name} |-> profile[1]]
    OBVIOUS
  <1>9. profiles = [n \in DOMAIN profiles |-> profiles[n]] /\ \A n \in DOMAIN profiles : Normal(profiles[n])
    BY <1>7, <1>8
  <1>10. PICK r : r = [kind |-> "root", active |-> name, secrets |-> legacy.secrets, migrated |-> {name}, extra |-> {},
                       profiles |-> profiles]
    OBVIOUS
  <1>11. r = [field \in RootFields |-> r[field]] /\ r.kind = "root" /\ r.profiles = profiles
    BY <1>10 DEF RootFields
  <1>12. NormalRoot(r)
    BY <1>9, <1>11 DEF NormalRoot, IsRoot
  <1> QED BY <1>6, <1>8, <1>10, <1>12

\* What is written of a normal root is that root without what it does not know.
LEMMA SavedStays ==
  ASSUME NEW r, NormalRoot(r)
  PROVE  serializeRootConfig(r) = [r EXCEPT !.extra = {}] /\ NormalRoot([r EXCEPT !.extra = {}])
  <1>1. PICK profiles : profiles = [name \in DOMAIN r.profiles |-> [r.profiles[name] EXCEPT !.sandbox = NoSandbox]]
    OBVIOUS
  <1>2. ASSUME NEW name \in DOMAIN r.profiles PROVE profiles[name] = r.profiles[name]
    <2>1. PICK q : q = r.profiles[name]
      OBVIOUS
    <2>2. q = [field \in ProfileFields |-> q[field]] /\ q.sandbox = NoSandbox
      BY <1>2, <2>1 DEF NormalRoot, Normal
    <2>3. [q EXCEPT !.sandbox = NoSandbox] = q
      BY <2>2 DEF ProfileFields
    <2> QED BY <1>1, <1>2, <2>1, <2>3
  <1>3. profiles = r.profiles
    BY <1>1, <1>2 DEF NormalRoot, IsRoot
  <1>4. serializeRootConfig(r) = [r EXCEPT !.extra = {}, !.profiles = profiles]
    BY <1>1 DEF serializeRootConfig
  <1>5. PICK w, v : w = [r EXCEPT !.extra = {}] /\ v = [r EXCEPT !.extra = {}, !.profiles = profiles]
    OBVIOUS
  <1>6. /\ w = [field \in RootFields |-> w[field]] /\ v = [field \in RootFields |-> v[field]]
        /\ \A field \in RootFields : w[field] = v[field]
        /\ w.kind = "root" /\ w.profiles = r.profiles
    BY <1>3, <1>5 DEF NormalRoot, IsRoot, RootFields
  <1>7. w = v
    BY <1>6
  <1>8. NormalRoot(w)
    BY <1>6 DEF NormalRoot, IsRoot
  <1> QED BY <1>4, <1>5, <1>7, <1>8
-----------------------------------------------------------------------------
\* What was loaded as asked for.
LoadedOK(l, opts) ==
  /\ NormalRoot(l.root) /\ l.name = selectProfile(l.root, opts) /\ l.name \in DOMAIN l.root.profiles
  /\ l = [root |-> l.root, name |-> l.name, runtime |-> runtimeConfig(l.root, l.name)]

\* Loading gives a normal root, and of a normal root that root.
LEMMA LoadGives ==
  ASSUME NEW config, config \in Files \/ NormalRoot(config), NEW opts, Normalize(config, opts) # <<>>
  PROVE  \E l : Normalize(config, opts) = <<l>> /\ LoadedOK(l, opts) /\ (NormalRoot(config) => l.root = config)
  <1>1. PICK root : root = NormalizeRootOrLegacy(config, opts)
    OBVIOUS
  <1>2. root # <<>>
    BY <1>1 DEF Normalize
  <1>3. PICK r : root = <<r>> /\ NormalRoot(r) /\ (NormalRoot(config) => r = config)
    <2>1. CASE NormalRoot(config)
      BY <1>1, <2>1, RootStays DEF NormalizeRootOrLegacy, NormalRoot, IsRoot
    <2>2. CASE ~NormalRoot(config) /\ IsRoot(config) /\ \A name \in DOMAIN config.profiles : IsProfile(config.profiles[name])
      <3>1. root = NormalizeRoot(config)
        BY <1>1, <2>2 DEF NormalizeRootOrLegacy, IsRoot
      <3> QED BY <1>2, <2>2, <3>1, RootIsNormal
    <2>3. CASE ~NormalRoot(config) /\ config.kind = "legacy" /\ IsProfile(config.profile)
      <3>1. root = normalizeLegacy(config, opts)
        BY <1>1, <2>3 DEF NormalizeRootOrLegacy
      <3> QED BY <1>2, <2>3, <3>1, LegacyIsNormal
    <2> QED BY <2>1, <2>2, <2>3, FilesAssumption
  <1>4. PICK name : name = selectProfile(r, opts)
    OBVIOUS
  <1>5. PICK l : l = [root |-> r, name |-> name, runtime |-> runtimeConfig(r, name)]
    OBVIOUS
  <1>6. name \in DOMAIN r.profiles /\ Normalize(config, opts) = <<l>>
    BY <1>1, <1>3, <1>4, <1>5 DEF Normalize
  <1>7. l.root = r /\ l.name = name /\ l.runtime = runtimeConfig(r, name)
    BY <1>5
  <1>8. LoadedOK(l, opts)
    BY <1>3, <1>4, <1>5, <1>6, <1>7 DEF LoadedOK
  <1> QED BY <1>3, <1>6, <1>7, <1>8

\* What was saved is loaded as it was.
LEMMA ReloadGives ==
  ASSUME NEW e, NEW opts, LoadedOK(e, opts), NEW l, LoadedOK(l, opts), l.root = [e.root EXCEPT !.extra = {}]
  PROVE  l = [e EXCEPT !.root.extra = {}]
  <1>1. PICK r, w : r = e.root /\ w = [r EXCEPT !.extra = {}]
    OBVIOUS
  <1>2. l.root = w /\ NormalRoot(r)
    BY <1>1 DEF LoadedOK
  <1>3. w.active = r.active /\ w.profiles = r.profiles /\ w.secrets = r.secrets
    BY <1>1, <1>2 DEF NormalRoot, IsRoot, RootFields
  <1>4. l.name = e.name
    BY <1>1, <1>2, <1>3 DEF LoadedOK, selectProfile
  <1>5. PICK name : name = e.name
    OBVIOUS
  <1>6. runtimeConfig(w, name) = runtimeConfig(r, name)
    BY <1>3 DEF runtimeConfig
  <1>7. PICK runtime : runtime = runtimeConfig(r, name)
    OBVIOUS
  <1>8. l = [root |-> w, name |-> name, runtime |-> runtime] /\ e = [root |-> r, name |-> name, runtime |-> runtime]
    BY <1>1, <1>2, <1>4, <1>5, <1>6, <1>7 DEF LoadedOK
  <1>9. [e EXCEPT !.root.extra = {}] = [root |-> w, name |-> name, runtime |-> runtime]
    BY <1>1, <1>8
  <1> QED BY <1>8, <1>9
-----------------------------------------------------------------------------
\* A run has its access, which is within both limits, in all three ways.
LEMMA AllowWithin ==
  ASSUME NEW request, NEW profile, NEW capability,
         IsAccessMode(profile.default), IsAccessMode(profile.max), IsAccessMode(capability.max)
  PROVE  LET run == Allow(request, profile, capability) IN
         /\ Within(run.access, profile.max) /\ Within(run.access, capability.max)
         /\ CodexSandboxToAccess(run.sandbox) = run.access
         /\ Within(claudePermissionAccess[run.mode], run.access)
  <1>1. PICK access : access = ClampAccess(profile.default, profile.max, capability.max)
    OBVIOUS
  <1>2. /\ access \in {"readonly", "workspace", "full"}
        /\ Within(access, profile.max) /\ Within(access, capability.max)
    BY <1>1, Modes DEF ClampAccess, Lower, Within, IsAccessMode
  <1>3. PICK sandbox, mode : sandbox = SandboxOf[access] /\ mode = AccessToClaudePermissionMode(access, profile.claude)
    OBVIOUS
  <1>4. CodexSandboxToAccess(sandbox) = access
    BY <1>2, <1>3, Modes DEF CodexSandboxToAccess, SandboxOf
  <1>5. Within(claudePermissionAccess[mode], access)
    <2>1. CASE profile.claude \in DOMAIN claudePermissionAccess /\ Within(claudePermissionAccess[profile.claude], access)
      BY <1>3, <2>1 DEF AccessToClaudePermissionMode
    <2>2. CASE ~(profile.claude \in DOMAIN claudePermissionAccess /\ Within(claudePermissionAccess[profile.claude], access))
      <3>1. mode = [readonly |-> "plan", workspace |-> "acceptEdits", full |-> "bypassPermissions"][access]
        BY <1>3, <2>2 DEF AccessToClaudePermissionMode
      <3>2. claudePermissionAccess[mode] = access
        BY <1>2, <3>1 DEF claudePermissionAccess
      <3> QED BY <1>2, <3>2, Modes DEF Within
    <2> QED BY <2>1, <2>2
  <1>6. PICK run : run = Allow(request, profile, capability)
    OBVIOUS
  <1>7. run.access = access /\ run.sandbox = sandbox /\ run.mode = mode
    BY <1>1, <1>3, <1>6 DEF Allow
  <1> QED BY <1>2, <1>4, <1>5, <1>6, <1>7
-----------------------------------------------------------------------------
\* The file is as it was found or as it was saved, and what was loaded of it is in order.
ConfigInv ==
  /\ IF earlier = <<>> THEN file \in Files
     ELSE LoadedOK(earlier[1], LoadOptions(options)) /\ file = [earlier[1].root EXCEPT !.extra = {}]
  /\ loaded # <<>> => LoadedOK(loaded[1], LoadOptions(options))
  /\ ConfigHolds

\* A load after the save finds what was loaded before it.
LEMMA LoadStep == ASSUME ConfigInv, Load PROVE ConfigInv'
  <1>1. PICK opts, config : opts = LoadOptions(options) /\ config = file
    OBVIOUS
  <1>2. loaded' = Normalize(config, opts) /\ loaded' # <<>> /\ UNCHANGED <<file, options, earlier, allowed>>
    BY <1>1 DEF Load
  <1>3. opts = LoadOptions(options)'
    BY <1>1, <1>2 DEF LoadOptions
  <1>4. config \in Files \/ NormalRoot(config)
    <2>1. CASE earlier = <<>>
      BY <1>1, <2>1 DEF ConfigInv
    <2>2. CASE earlier # <<>>
      <3>1. PICK r : r = earlier[1].root
        OBVIOUS
      <3>2. NormalRoot(r) /\ config = [r EXCEPT !.extra = {}]
        BY <1>1, <2>2, <3>1 DEF ConfigInv, LoadedOK
      <3> QED BY <3>2, SavedStays
    <2> QED BY <2>1, <2>2
  <1>5. PICK l : loaded' = <<l>> /\ LoadedOK(l, opts) /\ (NormalRoot(config) => l.root = config)
    BY <1>2, <1>4, LoadGives
  <1>6. loaded'[1] = l
    BY <1>5
  <1>7. ConfigSettles'
    <2>1. CASE earlier = <<>>
      BY <1>2, <2>1 DEF ConfigSettles
    <2>2. CASE earlier # <<>>
      <3>1. PICK e : e = earlier[1]
        OBVIOUS
      <3>2. PICK r : r = e.root
        OBVIOUS
      <3>3. LoadedOK(e, opts) /\ NormalRoot(r) /\ config = [r EXCEPT !.extra = {}]
        BY <1>1, <2>2, <3>1, <3>2 DEF ConfigInv, LoadedOK
      <3>4. NormalRoot(config)
        BY <3>3, SavedStays
      <3>5. l.root = [e.root EXCEPT !.extra = {}]
        BY <1>5, <3>2, <3>3, <3>4
      <3>6. l = [e EXCEPT !.root.extra = {}]
        BY <1>5, <3>3, <3>5, ReloadGives
      <3> QED BY <1>2, <1>6, <3>1, <3>6 DEF ConfigSettles
    <2> QED BY <2>1, <2>2
  <1>8. RunsWithinPermissions'
    BY <1>2 DEF ConfigInv, ConfigHolds, RunsWithinPermissions
  <1> QED BY <1>1, <1>2, <1>3, <1>5, <1>6, <1>7, <1>8 DEF ConfigInv, ConfigHolds

\* What is saved is what was loaded.
LEMMA SaveStep == ASSUME ConfigInv, SaveRoot PROVE ConfigInv'
  <1>1. PICK r, opts : r = loaded[1].root /\ opts = LoadOptions(options)
    OBVIOUS
  <1>2. /\ loaded # <<>> /\ earlier = <<>> /\ file' = serializeRootConfig(r) /\ earlier' = loaded /\ loaded' = <<>>
        /\ UNCHANGED <<options, allowed>>
    BY <1>1 DEF SaveRoot
  <1>3. LoadedOK(loaded[1], opts) /\ NormalRoot(r)
    BY <1>1, <1>2 DEF ConfigInv, LoadedOK
  <1>4. file' = [r EXCEPT !.extra = {}]
    BY <1>2, <1>3, SavedStays
  <1>5. opts = LoadOptions(options)'
    BY <1>1, <1>2 DEF LoadOptions
  <1>6. ConfigHolds'
    BY <1>2 DEF ConfigInv, ConfigHolds, ConfigSettles, RunsWithinPermissions
  <1> QED BY <1>1, <1>2, <1>3, <1>4, <1>5, <1>6 DEF ConfigInv

\* A run is evaluated on a profile in order.
LEMMA EvaluateStep ==
  ASSUME ConfigInv, NEW given \in Requests, NEW limit \in {Unset, "readonly", "workspace"}, Evaluate(given, limit)
  PROVE  ConfigInv'
  <1>1. PICK profile : profile = loaded[1].runtime.profile
    OBVIOUS
  <1>2. PICK decision : decision = CanUseDM(profile, [owner |-> NoOne, state |-> "unknown"], given.sender)
    OBVIOUS
  <1>3. PICK request : request = [given EXCEPT !.permitted = Permits(decision)]
    OBVIOUS
  <1>4. PICK policy, capability : policy = Policy(profile) /\ capability = Capability(profile.agent, limit)
    OBVIOUS
  <1>5. PICK run : run = Allow(request, policy, capability)
    OBVIOUS
  <1>6. /\ loaded # <<>> /\ UNCHANGED <<file, options, loaded, earlier>>
        /\ allowed' = IF Rejection(request) # "none" THEN <<>>
                      ELSE <<[given |-> run, limit |-> capability.max, profile |-> profile, sender |-> request.sender]>>
    BY <1>1, <1>2, <1>3, <1>4, <1>5 DEF Evaluate
  <1>7. Normal(profile)
    <2>1. PICK r, name : r = loaded[1].root /\ name = loaded[1].name
      OBVIOUS
    <2>2. LoadedOK(loaded[1], LoadOptions(options))
      BY <1>6 DEF ConfigInv
    <2>3. loaded[1].runtime = runtimeConfig(r, name) /\ NormalRoot(r) /\ name \in DOMAIN r.profiles
      BY <2>1, <2>2 DEF LoadedOK
    <2>4. profile = r.profiles[name]
      BY <1>1, <2>3 DEF runtimeConfig
    <2> QED BY <2>3, <2>4 DEF NormalRoot
  <1>8. policy.default = profile.permissions.default /\ policy.max = profile.permissions.max
    BY <1>4 DEF Policy
  <1>9. IsAccessMode(policy.default) /\ IsAccessMode(policy.max) /\ IsAccessMode(capability.max)
    BY <1>4, <1>7, <1>8, Modes DEF Normal, NormalPermissions, Capability, IsAccessMode
  <1>10. /\ Within(run.access, policy.max) /\ Within(run.access, capability.max)
         /\ CodexSandboxToAccess(run.sandbox) = run.access
         /\ Within(claudePermissionAccess[run.mode], run.access)
    BY <1>5, <1>9, AllowWithin
  <1>11. RunsWithinPermissions'
    <2>1. CASE Rejection(request) # "none"
      BY <1>6, <2>1 DEF RunsWithinPermissions
    <2>2. CASE Rejection(request) = "none"
      <3>1. request.permitted = Permits(decision) /\ request.sender = given.sender
        BY <1>3, RequestsAssumption
      <3>2. Permits(decision)
        BY <2>2, <3>1 DEF Rejection
      <3>3. given.sender \in profile.users \cup profile.admins
        BY <1>2, <3>2 DEF Permits, CanUseDM, IsCreator
      <3>4. PICK sender, max : sender = request.sender /\ max = capability.max
        OBVIOUS
      <3>5. allowed' = <<[given |-> run, limit |-> max, profile |-> profile, sender |-> sender]>>
        BY <1>6, <2>2, <3>4
      <3>6. /\ allowed'[1].given = run /\ allowed'[1].limit = max /\ allowed'[1].profile = profile
            /\ allowed'[1].sender = sender
        BY <3>5
      <3> QED BY <1>8, <1>10, <3>1, <3>3, <3>4, <3>6 DEF RunsWithinPermissions
    <2> QED BY <2>1, <2>2
  <1>12. ConfigSettles'
    BY <1>6 DEF ConfigInv, ConfigHolds, ConfigSettles
  <1>13. LoadOptions(options)' = LoadOptions(options)
    BY <1>6 DEF LoadOptions
  <1> QED BY <1>6, <1>11, <1>12, <1>13 DEF ConfigInv, ConfigHolds

\* A configuration that was loaded and saved reads as it did before, for every file, whatever it
\* leaves out or spells in the old way; and no run may do more than its profile and its agent
\* (configstore: Load, SaveRoot; runpolicy.Evaluate, permissions.ClampAccess).
THEOREM ConfigKept == ConfigSpec => []ConfigHolds
  <1>1. ConfigInit => ConfigInv
    BY DEF ConfigInit, ConfigInv, ConfigHolds, ConfigSettles, RunsWithinPermissions
  <1>2. ConfigInv /\ [ConfigNext]_configVars => ConfigInv'
    <2> SUFFICES ASSUME ConfigInv, [ConfigNext]_configVars PROVE ConfigInv'
      OBVIOUS
    <2>1. CASE ConfigNext
      BY <2>1, LoadStep, SaveStep, EvaluateStep DEF ConfigNext
    <2>2. CASE UNCHANGED configVars
      <3>1. UNCHANGED <<file, options, loaded, earlier, allowed>>
        BY <2>2 DEF configVars
      <3>2. LoadOptions(options)' = LoadOptions(options)
        BY <3>1 DEF LoadOptions
      <3> QED BY <3>1, <3>2 DEF ConfigInv, ConfigHolds, ConfigSettles, RunsWithinPermissions
    <2> QED BY <2>1, <2>2
  <1>3. ConfigInv => ConfigHolds
    BY DEF ConfigInv
  <1> QED BY <1>1, <1>2, <1>3, PTL DEF ConfigSpec
=============================================================================
