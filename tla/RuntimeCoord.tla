---------------------------- MODULE RuntimeCoord ----------------------------
(***************************************************************************)
(* The runtime coordinator, internal/app/runtimecoord/coordinator.go and   *)
(* registry.go: Start takes the profile's lock and the app's, registers    *)
(* the process and starts the adapter; Shutdown undoes it; Reconnect may   *)
(* change the app.  Each coordinator is a process of its own whose calls   *)
(* come from several threads; the locks of RuntimeLock are taken here in   *)
(* one step.  A lock object has a serial number: Release of an object that *)
(* was released before does nothing (sync.Once).                           *)
(***************************************************************************)
EXTENDS Naturals, FiniteSets

CONSTANTS Coords, ProfileOf,   \* the coordinators, each with its profile
          Threads, CoordOf,    \* the goroutines that call them
          Reconnecters,        \* those of them that call Reconnect
          Apps, NoApp,
          RegistryFails,       \* whether registry operations may fail (its own lock is busy)
          MaxLocks             \* bound of the lock objects made in a model

Names == {ProfileOf[c] : c \in Coords} \cup Apps
Free == [n |-> 0, by |-> NoApp]
Objects == [n : 1 .. MaxLocks, by : Coords]

ASSUME CoordAssumption ==
  /\ CoordOf \in [Threads -> Coords] /\ Reconnecters \subseteq Threads /\ MaxLocks \in Nat /\ NoApp \notin Apps \cup Coords
  /\ Apps \cap {ProfileOf[c] : c \in Coords} = {} /\ RegistryFails \in BOOLEAN

VARIABLES held,      \* the locks: name |-> object
          serial,    \* the objects made so far
          registry,  \* processes.json: entries [id, by, app]
          mem,       \* the coordinator's fields
          conn,      \* what its adapter is connected to
          call       \* the calls

coordVars == <<held, serial, registry, mem, conn, call>>

Stopped == [started |-> FALSE, stopping |-> FALSE, app |-> NoApp, id |-> 0, prof |-> Free, lock |-> Free]
Unconnected == [app |-> NoApp, id |-> 0]
NoCall == [at |-> "idle"]
-----------------------------------------------------------------------------
Goto(t, where) == call' = [call EXCEPT ![t].at = where]
Finish(t) == call' = [call EXCEPT ![t] = NoCall]

Take(l, c) ==
  /\ serial < MaxLocks
  /\ serial' = serial + 1
  /\ held' = [held EXCEPT ![l] = [n |-> serial', by |-> c]]
Made(c) == [n |-> serial', by |-> c]
Release(objects) ==
  /\ held' = [l \in Names |-> IF held[l] \in objects THEN Free ELSE held[l]]
  /\ UNCHANGED serial

\* readAndPruneProcesses keeps the entries whose process holds both locks.
Live == {e \in registry : held[ProfileOf[e.by]].by = e.by /\ held[e.app].by = e.by}
Unregistered(id) == {{e \in Live : e.id # id}} \cup (IF RegistryFails THEN {registry} ELSE {})

CoordInit ==
  /\ held = [l \in Names |-> Free] /\ serial = 0
  /\ registry = {}
  /\ mem = [c \in Coords |-> Stopped]
  /\ conn = [c \in Coords |-> Unconnected]
  /\ call = [t \in Threads |-> NoCall]
-----------------------------------------------------------------------------
StartCall(t, a) == LET c == CoordOf[t] IN
  /\ call[t] = NoCall /\ ~mem[c].started /\ ~mem[c].stopping
  /\ call' = [call EXCEPT ![t] = [at |-> "profile", app |-> a, prof |-> Free, lock |-> Free]]
  /\ UNCHANGED <<held, serial, registry, mem, conn>>

StartProfile(t) == LET c == CoordOf[t] IN
  /\ call[t].at = "profile"
  /\ \/ /\ held[ProfileOf[c]] = Free
        /\ Take(ProfileOf[c], c)
        /\ call' = [call EXCEPT ![t].at = "app", ![t].prof = Made(c)]
     \/ /\ held[ProfileOf[c]] # Free
        /\ Finish(t) /\ UNCHANGED <<held, serial>>
  /\ UNCHANGED <<registry, mem, conn>>

\* Mutant of StartApp: a lock that is held is no conflict.
StartAppUnlocked(t) == LET c == CoordOf[t] IN
  /\ call[t].at = "app"
  /\ \/ /\ held[call[t].app] = Free
        /\ Take(call[t].app, c)
        /\ call' = [call EXCEPT ![t].at = "register", ![t].lock = Made(c)]
     \/ /\ held[call[t].app] # Free
        /\ Goto(t, "register") /\ UNCHANGED <<held, serial>>
  /\ UNCHANGED <<registry, mem, conn>>

StartApp(t) == LET c == CoordOf[t] IN
  /\ call[t].at = "app"
  /\ \/ /\ held[call[t].app] = Free
        /\ Take(call[t].app, c)
        /\ call' = [call EXCEPT ![t].at = "register", ![t].lock = Made(c)]
     \/ /\ held[call[t].app] # Free
        /\ Finish(t) /\ Release({call[t].prof})
  /\ UNCHANGED <<registry, mem, conn>>

\* The deferred functions of a Start that fails.
StartUndo(t) ==
  /\ registry' \in Unregistered(call[t].prof.n)
  /\ Release({call[t].prof, call[t].lock})
  /\ Finish(t)

\* Entries of other processes for the app are a conflict; otherwise the process
\* registers.  The entry's id stands for the random one.
StartRegister(t) == LET c == CoordOf[t] IN
  /\ call[t].at = "register"
  /\ \/ /\ \A e \in Live : e.app = call[t].app => e.by = c
        /\ registry' = Live \cup {[id |-> call[t].prof.n, by |-> c, app |-> call[t].app]}
        /\ Goto(t, "adapter") /\ UNCHANGED <<held, serial>>
     \/ /\ RegistryFails \/ \E e \in Live : e.app = call[t].app /\ e.by # c
        /\ StartUndo(t)
  /\ UNCHANGED <<mem, conn>>

\* Mutant of StartAdapter: a failed start keeps the locks.
StartAdapterLeaks(t) == LET c == CoordOf[t] IN
  /\ call[t].at = "adapter"
  /\ \/ /\ conn' = [conn EXCEPT ![c] = [app |-> call[t].app, id |-> call[t].prof.n]]
        /\ Goto(t, "commit") /\ UNCHANGED <<held, serial, registry>>
     \/ /\ registry' \in Unregistered(call[t].prof.n)
        /\ Finish(t) /\ UNCHANGED <<held, serial, conn>>
  /\ UNCHANGED mem

StartAdapter(t) == LET c == CoordOf[t] IN
  /\ call[t].at = "adapter"
  /\ \/ /\ conn' = [conn EXCEPT ![c] = [app |-> call[t].app, id |-> call[t].prof.n]]
        /\ Goto(t, "commit") /\ UNCHANGED <<held, serial, registry>>
     \/ StartUndo(t) /\ UNCHANGED conn
  /\ UNCHANGED mem

\* Another Start may have won meanwhile; then this one's handle is shut down.
StartCommit(t) == LET c == CoordOf[t] IN
  /\ call[t].at = "commit"
  /\ IF mem[c].started
       THEN conn' = [conn EXCEPT ![c] = Unconnected] /\ StartUndo(t) /\ UNCHANGED mem
       ELSE /\ mem' = [mem EXCEPT ![c].started = TRUE, ![c].app = call[t].app, ![c].id = call[t].prof.n,
                                  ![c].prof = call[t].prof, ![c].lock = call[t].lock]
            /\ Finish(t) /\ UNCHANGED <<held, serial, registry, conn>>
-----------------------------------------------------------------------------
ShutdownCall(t) == LET c == CoordOf[t] IN
  /\ call[t] = NoCall /\ mem[c].started /\ ~mem[c].stopping
  /\ mem' = [mem EXCEPT ![c].stopping = TRUE]
  /\ call' = [call EXCEPT ![t] = [at |-> "closing", id |-> mem[c].id, failed |-> FALSE,
                                  objects |-> {mem[c].prof, mem[c].lock} \ {Free}]]
  /\ UNCHANGED <<held, serial, registry, conn>>

\* Mutants of ShutdownHandle: a failure leaves stopping set; a failure counts
\* as stopped.
ShutdownHandleStuck(t) == LET c == CoordOf[t] IN
  /\ call[t].at = "closing"
  /\ \/ /\ conn' = [conn EXCEPT ![c] = IF @.id = call[t].id THEN Unconnected ELSE @]
        /\ Goto(t, "unregister") /\ UNCHANGED mem
     \/ /\ Finish(t) /\ UNCHANGED <<mem, conn>>
  /\ UNCHANGED <<held, serial, registry>>
ShutdownHandleIgnored(t) ==
  /\ call[t].at = "closing"
  /\ Goto(t, "unregister")
  /\ UNCHANGED <<held, serial, registry, mem, conn>>

\* handle.Shutdown: when it fails everything stays as it was.
ShutdownHandle(t) == LET c == CoordOf[t] IN
  /\ call[t].at = "closing"
  /\ \/ /\ conn' = [conn EXCEPT ![c] = IF @.id = call[t].id THEN Unconnected ELSE @]
        /\ Goto(t, "unregister") /\ UNCHANGED mem
     \/ /\ mem' = [mem EXCEPT ![c].stopping = FALSE]
        /\ Finish(t) /\ UNCHANGED conn
  /\ UNCHANGED <<held, serial, registry>>

ShutdownUnregister(t) ==
  /\ call[t].at = "unregister"
  /\ \/ registry' = {e \in Live : e.id # call[t].id} /\ Goto(t, "releasing")
     \/ /\ RegistryFails /\ UNCHANGED registry
        /\ call' = [call EXCEPT ![t].at = "releasing", ![t].failed = TRUE]
  /\ UNCHANGED <<held, serial, mem, conn>>

\* The app's lock, then the profile's.
ShutdownRelease(t) ==
  /\ call[t].at = "releasing"
  /\ Release(call[t].objects)
  /\ Goto(t, "clearing")
  /\ UNCHANGED <<registry, mem, conn>>

ShutdownEnd(t) == LET c == CoordOf[t] IN
  /\ call[t].at = "clearing"
  /\ mem' = [mem EXCEPT ![c] = IF call[t].failed THEN [@ EXCEPT !.stopping = FALSE] ELSE Stopped]
  /\ Finish(t)
  /\ UNCHANGED <<held, serial, registry, conn>>
-----------------------------------------------------------------------------
ReconnectCall(t, a) == LET c == CoordOf[t] IN
  /\ t \in Reconnecters
  /\ call[t] = NoCall /\ mem[c].started /\ ~mem[c].stopping
  /\ call' = [call EXCEPT ![t] = [at |-> IF a = mem[c].app THEN "hook" ELSE "next", app |-> a,
                                  id |-> mem[c].id, old |-> mem[c].lock, next |-> Free]]
  /\ UNCHANGED <<held, serial, registry, mem, conn>>

ReconnectLock(t) == LET c == CoordOf[t] IN
  /\ call[t].at = "next"
  /\ \/ /\ held[call[t].app] = Free
        /\ Take(call[t].app, c)
        /\ call' = [call EXCEPT ![t].at = "hook", ![t].next = Made(c)]
     \/ /\ held[call[t].app] # Free
        /\ Finish(t) /\ UNCHANGED <<held, serial>>
  /\ UNCHANGED <<registry, mem, conn>>

ReconnectFails(t) == Release({call[t].next} \ {Free}) /\ Finish(t)

\* The adapter's hook; a handle that was shut down does not reconnect.
ReconnectHook(t) == LET c == CoordOf[t] IN
  /\ call[t].at = "hook"
  /\ \/ /\ conn[c].id = call[t].id
        /\ conn' = [conn EXCEPT ![c].app = call[t].app]
        /\ Goto(t, "update") /\ UNCHANGED <<held, serial>>
     \/ ReconnectFails(t) /\ UNCHANGED conn
  /\ UNCHANGED <<registry, mem>>

ReconnectUpdate(t) ==
  /\ call[t].at = "update"
  /\ \/ /\ registry' = {IF e.id = call[t].id THEN [e EXCEPT !.app = call[t].app] ELSE e : e \in Live}
        /\ Goto(t, "swap") /\ UNCHANGED <<held, serial>>
     \/ /\ RegistryFails
        /\ ReconnectFails(t) /\ UNCHANGED registry
  /\ UNCHANGED <<mem, conn>>

\* Mutant of ReconnectSwap: the new lock stays with the deferred release.
ReconnectSwapForgets(t) == LET c == CoordOf[t] IN
  /\ call[t].at = "swap"
  /\ mem' = [mem EXCEPT ![c].app = call[t].app]
  /\ Release({call[t].next} \ {Free})
  /\ Goto(t, "releaseOld")
  /\ UNCHANGED <<registry, conn>>

\* The new app and its lock become the coordinator's, if it still is the same
\* run of it; otherwise the new lock is released.
ReconnectSwap(t) == LET c == CoordOf[t] IN
  /\ call[t].at = "swap"
  /\ IF mem[c].id = call[t].id
       THEN /\ mem' = [mem EXCEPT ![c].app = call[t].app,
                                  ![c].lock = IF call[t].next = Free THEN @ ELSE call[t].next]
            /\ UNCHANGED <<held, serial>>
       ELSE Release({call[t].next} \ {Free}) /\ UNCHANGED mem
  /\ Goto(t, "releaseOld")
  /\ UNCHANGED <<registry, conn>>

ReconnectRelease(t) ==
  /\ call[t].at = "releaseOld"
  /\ Release(IF call[t].next = Free THEN {} ELSE {call[t].old} \ {Free})
  /\ Finish(t)
  /\ UNCHANGED <<registry, mem, conn>>
-----------------------------------------------------------------------------
CoordNext == \E t \in Threads :
  \/ \E a \in Apps : StartCall(t, a) \/ ReconnectCall(t, a)
  \/ StartProfile(t) \/ StartApp(t) \/ StartRegister(t) \/ StartAdapter(t) \/ StartCommit(t)
  \/ ShutdownCall(t) \/ ShutdownHandle(t) \/ ShutdownUnregister(t) \/ ShutdownRelease(t)
  \/ ShutdownEnd(t)
  \/ ReconnectLock(t) \/ ReconnectHook(t) \/ ReconnectUpdate(t) \/ ReconnectSwap(t)
  \/ ReconnectRelease(t)
CoordSpec == CoordInit /\ [][CoordNext]_coordVars
-----------------------------------------------------------------------------
ShuttingDown(t) == call[t].at \in {"closing", "unregister", "releasing", "clearing"}

CoordTypeOK ==
  /\ held \in [Names -> Objects \cup {Free}] /\ serial \in 0 .. MaxLocks
  /\ registry \subseteq [id : 1 .. MaxLocks, by : Coords, app : Apps]
  /\ mem \in [Coords -> [started : BOOLEAN, stopping : BOOLEAN, app : Apps \cup {NoApp},
                         id : 0 .. MaxLocks, prof : Objects \cup {Free}, lock : Objects \cup {Free}]]
  /\ conn \in [Coords -> [app : Apps \cup {NoApp}, id : 0 .. MaxLocks]]
  /\ \A c \in Coords :
       mem[c].stopping <=> Cardinality({t \in Threads : CoordOf[t] = c /\ ShuttingDown(t)}) = 1

\* Two processes are never connected to one app, nor run one profile.
Exclusive ==
  \A c, d \in Coords : c # d /\ conn[c] # Unconnected /\ conn[d] # Unconnected =>
    conn[c].app # conn[d].app /\ ProfileOf[c] # ProfileOf[d]

Quiet(c) == \A t \in Threads : CoordOf[t] = c => call[t] = NoCall

\* Nobody else calls a coordinator that somebody reconnects.
ReconnectsAlone(c) ==
  \A t \in Reconnecters, u \in Threads : CoordOf[t] = c /\ CoordOf[u] = c => t = u

\* Between calls a coordinator holds the locks of its connection and no other:
\* what was started and stopped again, or failed to, left nothing behind.  (A
\* Shutdown that overlaps a Reconnect to another app releases the lock it read
\* at its beginning; the new one is left behind.)
LocksFollowConnection ==
  \A c \in Coords : Quiet(c) /\ ReconnectsAlone(c) =>
    {l \in Names : held[l].by = c} =
      IF conn[c] = Unconnected THEN {} ELSE {ProfileOf[c], conn[c].app}

\* Between calls the coordinator, its connection and the registry agree: a
\* Shutdown that failed left it started, connected and registered.
RegistryAgrees ==
  \A c \in Coords : Quiet(c) =>
    /\ mem[c].started <=> conn[c] # Unconnected
    /\ {e \in Live : e.by = c} =
         IF mem[c].started THEN {[id |-> mem[c].id, by |-> c, app |-> conn[c].app]} ELSE {}

\* A connection has its locks: the profile's, and that of the app it is for.
ConnectedIsLocked ==
  \A c \in Coords : conn[c] # Unconnected =>
    held[ProfileOf[c]].by = c /\ held[conn[c].app].by = c

\* All three: whatever ended between calls, the locks, the connection, the registry
\* and the coordinator tell the same story.
CallsLeaveOrder == ConnectedIsLocked /\ LocksFollowConnection /\ RegistryAgrees
=============================================================================
