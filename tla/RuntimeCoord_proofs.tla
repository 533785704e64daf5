------------------------- MODULE RuntimeCoord_proofs -------------------------
(***************************************************************************)
(* Two processes are never connected to one app nor run one profile, and   *)
(* what is left between calls is in order, as long as the registry can be  *)
(* written and nobody overlaps two Reconnects of one coordinator.  The     *)
(* coordinator takes a lock in one step; that the directory lock excludes, *)
(* step by step, is the last part.                                         *)
(***************************************************************************)
EXTENDS RuntimeCoord, RuntimeLock, TLAPS

\* The conditions: of two Reconnects that overlap, one may release the lock the
\* other's connection needs; one whose registry update fails stays connected and
\* gives its lock back.
Careful == ~RegistryFails /\ \A t, u \in Reconnecters : CoordOf[t] = CoordOf[u] => t = u

StartCalls == [at : {"profile", "app", "register", "adapter", "commit"}, app : Apps,
               prof : Objects \cup {Free}, lock : Objects \cup {Free}]
ShutdownCalls == [at : {"closing", "unregister", "releasing", "clearing"}, id : Nat \ {0}, failed : BOOLEAN,
                  objects : SUBSET Objects]
ReconnectCalls == [at : {"next", "hook", "update", "swap", "releaseOld"}, app : Apps, id : Nat \ {0},
                   old : Objects, next : Objects \cup {Free}]
Calls == {NoCall} \cup StartCalls \cup ShutdownCalls \cup ReconnectCalls
Mems == [started : BOOLEAN, stopping : BOOLEAN, app : Apps \cup {NoApp}, id : Nat,
         prof : Objects \cup {Free}, lock : Objects \cup {Free}]
Conns == [app : Apps \cup {NoApp}, id : Nat]
Entries == [id : Nat \ {0}, by : Coords, app : Apps]

Begun(t) == call[t].at \in {"app", "register", "adapter", "commit"}
BothLocked(t) == call[t].at \in {"register", "adapter", "commit"}
Reconnecting(t) == call[t].at \in {"next", "hook", "update", "swap", "releaseOld"}
Swapping(t) == call[t].at \in {"hook", "update", "swap"}
Naming(t) == ShuttingDown(t) \/ Reconnecting(t)

\* The lock objects a call, and a coordinator, still knows; and those that only
\* the call knows.
Refs(t) == IF Begun(t) THEN {call[t].prof, call[t].lock} \ {Free}
           ELSE IF ShuttingDown(t) THEN call[t].objects
           ELSE IF Reconnecting(t) THEN {call[t].old, call[t].next} \ {Free}
           ELSE {}
MemRefs(c) == {mem[c].prof, mem[c].lock} \ {Free}
Own(t) == IF Begun(t) THEN {call[t].prof, call[t].lock} \ {Free}
          ELSE IF Swapping(t) THEN {call[t].next} \ {Free}
          ELSE {}

Types ==
  /\ held \in [Names -> Objects \cup {Free}] /\ serial \in Nat
  /\ registry \subseteq Entries
  /\ mem \in [Coords -> Mems]
  /\ conn \in [Coords -> Conns]
  /\ call \in [Threads -> Calls]

\* Every object known was made, by the coordinator that knows it.
BoundInv ==
  /\ \A t \in Threads : \A o \in Refs(t) : o.n <= serial /\ o.by = CoordOf[t]
  /\ \A c \in Coords : \A o \in MemRefs(c) : o.n <= serial /\ o.by = c

\* What is a call's own no other call knows, nor any coordinator.
OwnInv ==
  /\ \A t \in Threads : \A u \in Threads \ {t} : Own(t) \cap Refs(u) = {}
  /\ \A t \in Threads : \A c \in Coords : Own(t) \cap MemRefs(c) = {}

\* The fields of a coordinator.
MemOK(c) ==
  /\ ~mem[c].started => mem[c].id = 0 /\ mem[c].prof = Free /\ mem[c].lock = Free
  /\ mem[c].started => /\ mem[c].prof \in Objects /\ mem[c].lock \in Objects /\ mem[c].app \in Apps
                       /\ mem[c].prof # mem[c].lock
                       /\ mem[c].id = mem[c].prof.n
MemInv == \A c \in Coords : MemOK(c)

\* The fields of a call: a Shutdown is of the run its coordinator is in; a
\* Reconnect's old lock is that of the run it names, until it swaps them.
StartOK(t) ==
  /\ call[t].at \in {"profile", "app"} => call[t].lock = Free
  /\ Begun(t) => call[t].prof \in Objects
  /\ BothLocked(t) => call[t].lock \in Objects /\ call[t].lock # call[t].prof
StartInv == \A t \in Threads : StartOK(t)
ShutdownOK(t) ==
  ShuttingDown(t) =>
    /\ mem[CoordOf[t]].started /\ mem[CoordOf[t]].stopping /\ call[t].id = mem[CoordOf[t]].id
    /\ call[t].at # "closing" => conn[CoordOf[t]].id # mem[CoordOf[t]].id
ShutdownInv ==
  /\ \A t \in Threads : ShutdownOK(t)
  /\ \A t, u \in Threads : ShuttingDown(t) /\ ShuttingDown(u) /\ CoordOf[t] = CoordOf[u] => t = u
ReconnectOK(t) ==
  Reconnecting(t) =>
    /\ t \in Reconnecters
    /\ call[t].at = "next" => call[t].next = Free
    /\ call[t].next # call[t].old
    /\ call[t].id # mem[CoordOf[t]].id => call[t].old \notin MemRefs(CoordOf[t])
    /\ call[t].id = mem[CoordOf[t]].id =>
         /\ call[t].at # "releaseOld" => call[t].old = mem[CoordOf[t]].lock
         /\ call[t].at = "releaseOld" /\ call[t].next # Free => call[t].old \notin MemRefs(CoordOf[t])
         /\ Swapping(t) /\ call[t].next = Free => call[t].app = mem[CoordOf[t]].app
ReconnectInv == \A t \in Threads : ReconnectOK(t)

\* Nobody names the run a Start is about to commit.
IdInv ==
  /\ \A t \in Threads : Naming(t) => call[t].id \in 1 .. serial
  /\ \A t \in Threads : Begun(t) =>
       /\ mem[CoordOf[t]].id # call[t].prof.n
       /\ \A u \in Threads : Naming(u) /\ CoordOf[u] = CoordOf[t] => call[u].id # call[t].prof.n

\* A call holds what is its own.
HoldOK(t) ==
  /\ Begun(t) => held[ProfileOf[CoordOf[t]]] = call[t].prof
  /\ BothLocked(t) => held[call[t].app] = call[t].lock
  /\ Swapping(t) /\ call[t].next # Free => held[call[t].app] = call[t].next
HoldInv == \A t \in Threads : HoldOK(t)

\* A connection is that of a Start about to commit or of its coordinator's run,
\* which has its locks; its app is the run's, but for a Reconnect under way.
Runs(c) == mem[c].started /\ conn[c].id = mem[c].id
ConnInv ==
  /\ \A t \in Threads : Begun(t) =>
       IF call[t].at = "commit" THEN conn[CoordOf[t]].app = call[t].app /\ conn[CoordOf[t]].id = call[t].prof.n
                                ELSE conn[CoordOf[t]].id = 0
  /\ \A c \in Coords :
       /\ conn[c].id = 0 => conn[c] = Unconnected
       /\ conn[c].id # 0 => Runs(c) \/ \E t \in Threads : CoordOf[t] = c /\ call[t].at = "commit"
RunOK(c) ==
  Runs(c) =>
    /\ held[ProfileOf[c]] = mem[c].prof /\ held[mem[c].app] = mem[c].lock
    /\ \A t \in Threads : CoordOf[t] = c /\ call[t].at \in {"update", "swap"} /\ call[t].id = mem[c].id =>
         conn[c].app = call[t].app
    /\ \/ conn[c].app = mem[c].app
       \/ \E t \in Threads : /\ CoordOf[t] = c /\ call[t].at \in {"update", "swap"}
                             /\ call[t].next # Free /\ call[t].id = mem[c].id
RunInv == \A c \in Coords : RunOK(c)

Invs == BoundInv /\ OwnInv /\ MemInv /\ StartInv /\ ShutdownInv /\ ReconnectInv /\ IdInv /\ HoldInv /\ ConnInv /\ RunInv
IInv == Types /\ Invs
-----------------------------------------------------------------------------
LEMMA CallKinds ==
  ASSUME Types, NEW t \in Threads
  PROVE  /\ call[t] \in Calls
         /\ call[t].at = "profile" \/ Begun(t) => call[t] \in StartCalls
         /\ ShuttingDown(t) => call[t] \in ShutdownCalls
         /\ Reconnecting(t) => call[t] \in ReconnectCalls
         /\ call[t].at = "idle" => call[t] = NoCall
  BY DEF Types, Calls, StartCalls, ShutdownCalls, ReconnectCalls, NoCall, Begun, ShuttingDown, Reconnecting

LEMMA FinishMoves ==
  ASSUME Types, NEW t \in Threads, Finish(t)
  PROVE  call' \in [Threads -> Calls] /\ call'[t] = NoCall /\ \A u \in Threads \ {t} : call'[u] = call[u]
  BY DEF Finish, Types, Calls

LEMMA StartMoves ==
  ASSUME Types, NEW t \in Threads, NEW p \in {"app", "register", "adapter", "commit"}, call[t] \in StartCalls, Goto(t, p)
  PROVE  /\ call' \in [Threads -> Calls] /\ call'[t] \in StartCalls /\ \A u \in Threads \ {t} : call'[u] = call[u]
         /\ call'[t].at = p /\ call'[t].app = call[t].app
         /\ call'[t].prof = call[t].prof /\ call'[t].lock = call[t].lock
  <1>1. call' = [call EXCEPT ![t] = [call[t] EXCEPT !.at = p]]
    BY DEF Goto, Types
  <1>2. [call[t] EXCEPT !.at = p] \in StartCalls
    BY DEF StartCalls
  <1>3. QED
    BY <1>1, <1>2 DEF Types, Calls, StartCalls

LEMMA ShutdownMoves ==
  ASSUME Types, NEW t \in Threads, NEW p \in {"unregister", "releasing", "clearing"}, call[t] \in ShutdownCalls, Goto(t, p)
  PROVE  /\ call' \in [Threads -> Calls] /\ call'[t] \in ShutdownCalls /\ \A u \in Threads \ {t} : call'[u] = call[u]
         /\ call'[t].at = p /\ call'[t].id = call[t].id /\ call'[t].objects = call[t].objects
         /\ call'[t].failed = call[t].failed
  <1>1. call' = [call EXCEPT ![t] = [call[t] EXCEPT !.at = p]]
    BY DEF Goto, Types
  <1>2. [call[t] EXCEPT !.at = p] \in ShutdownCalls
    BY DEF ShutdownCalls
  <1>3. QED
    BY <1>1, <1>2 DEF Types, Calls, ShutdownCalls

LEMMA ReconnectMoves ==
  ASSUME Types, NEW t \in Threads, NEW p \in {"update", "swap", "releaseOld"}, call[t] \in ReconnectCalls, Goto(t, p)
  PROVE  /\ call' \in [Threads -> Calls] /\ call'[t] \in ReconnectCalls /\ \A u \in Threads \ {t} : call'[u] = call[u]
         /\ call'[t].at = p /\ call'[t].app = call[t].app /\ call'[t].id = call[t].id
         /\ call'[t].old = call[t].old /\ call'[t].next = call[t].next
  <1>1. call' = [call EXCEPT ![t] = [call[t] EXCEPT !.at = p]]
    BY DEF Goto, Types
  <1>2. [call[t] EXCEPT !.at = p] \in ReconnectCalls
    BY DEF ReconnectCalls
  <1>3. QED
    BY <1>1, <1>2 DEF Types, Calls, ReconnectCalls

\* A new lock object.
Fresh(c) == [n |-> serial + 1, by |-> c]
LEMMA TakeMakes ==
  ASSUME Types, CoordAssumption, NEW c \in Coords, NEW l \in Names, Take(l, c)
  PROVE  /\ serial' = serial + 1 /\ Fresh(c) \in Objects /\ Made(c) = Fresh(c)
         /\ held' \in [Names -> Objects \cup {Free}]
         /\ held'[l] = Fresh(c) /\ \A k \in Names \ {l} : held'[k] = held[k]
  <1>1. serial' = serial + 1 /\ Fresh(c) \in Objects
    BY DEF Take, Fresh, Objects, Types, CoordAssumption
  <1>2. held' = [held EXCEPT ![l] = Fresh(c)] /\ Made(c) = Fresh(c)
    BY <1>1 DEF Take, Fresh, Made
  <1>3. QED
    BY <1>1, <1>2 DEF Types

\* What a step of t may do to what is known of the lock objects.
Shrinks(t) ==
  /\ serial' = serial /\ Refs(t)' \subseteq Refs(t) /\ Own(t)' \subseteq Own(t)
  /\ MemRefs(CoordOf[t])' \subseteq MemRefs(CoordOf[t])
Takes(t) ==
  /\ serial' = serial + 1 /\ mem' = mem
  /\ Refs(t)' \subseteq Refs(t) \cup {Fresh(CoordOf[t])} /\ Own(t)' \subseteq Own(t) \cup {Fresh(CoordOf[t])}
Enters(t) ==
  /\ serial' = serial /\ Refs(t)' \subseteq MemRefs(CoordOf[t]) /\ Own(t)' = {}
  /\ MemRefs(CoordOf[t])' \subseteq MemRefs(CoordOf[t])
Hands(t) ==
  /\ serial' = serial /\ Refs(t)' \subseteq Refs(t) /\ Own(t)' = {}
  /\ MemRefs(CoordOf[t])' \subseteq MemRefs(CoordOf[t]) \cup Own(t)
Released(S) == \A l \in Names : held'[l] = IF held[l] \in S THEN Free ELSE held[l]
GivesOwn(t) == Released(Own(t))
GivesOld(t) == Released({call[t].old})
GivesKnown(t) == Released(Refs(t))
SameRun(c) == mem'[c].started = mem[c].started /\ mem'[c].id = mem[c].id /\ mem'[c].prof = mem[c].prof
Changes(t) ==
  /\ \A u \in Threads \ {t} : call'[u] = call[u]
  /\ \A c \in Coords \ {CoordOf[t]} : mem'[c] = mem[c] /\ conn'[c] = conn[c]
  /\ \A l \in Names : held'[l] = held[l] \/ held[l] = Free \/ (held'[l] = Free /\ held[l] \in Refs(t))
  /\ Shrinks(t) \/ Takes(t) \/ Enters(t) \/ Hands(t)
-----------------------------------------------------------------------------
LEMMA FieldTypes ==
  ASSUME CoordAssumption, Types, NEW t \in Threads
  PROVE  /\ CoordOf[t] \in Coords /\ ProfileOf[CoordOf[t]] \in Names /\ Apps \subseteq Names
         /\ Free \notin Objects /\ Unconnected \in Conns /\ Stopped \in Mems /\ NoCall \in Calls
         /\ \A c \in Coords : mem[c] \in Mems /\ conn[c] \in Conns /\ ProfileOf[c] \in Names
         /\ \A o \in Objects : o.n \in Nat \ {0} /\ o.by \in Coords
         /\ Live \subseteq Entries
  <1>1. CoordOf[t] \in Coords /\ Apps \subseteq Names /\ \A c \in Coords : ProfileOf[c] \in Names
    BY DEF CoordAssumption, Names
  <1>2. Free \notin Objects /\ Unconnected \in Conns /\ \A o \in Objects : o.n \in Nat \ {0} /\ o.by \in Coords
    BY DEF CoordAssumption, Free, Objects, Unconnected, Conns
  <1>3. Stopped \in Mems /\ NoCall \in Calls
    BY DEF Stopped, Mems, Calls
  <1>4. QED
    BY <1>1, <1>2, <1>3 DEF Types, Live

LEMMA ReleaseFrees ==
  ASSUME CoordAssumption, Types, NEW S \in SUBSET (Objects \cup {Free}), Release(S)
  PROVE  held' \in [Names -> Objects \cup {Free}] /\ serial' = serial
  BY DEF Release, Types

LEMMA UndoTypes ==
  ASSUME CoordAssumption, Types, NEW t \in Threads, StartUndo(t), call[t] \in StartCalls
  PROVE  /\ held' \in [Names -> Objects \cup {Free}] /\ serial' = serial /\ registry' \subseteq Entries
         /\ Released({call[t].prof, call[t].lock})
         /\ call' \in [Threads -> Calls] /\ call'[t] = NoCall /\ \A u \in Threads \ {t} : call'[u] = call[u]
  <1>1. registry' \subseteq Entries
    BY FieldTypes DEF StartUndo, Unregistered, Types
  <1>2. /\ held' = [l \in Names |-> IF held[l] \in {call[t].prof, call[t].lock} THEN Free ELSE held[l]]
        /\ serial' = serial
    BY DEF StartUndo, Release
  <1>3. Finish(t)
    BY DEF StartUndo
  <1>4. QED
    BY <1>1, <1>2, <1>3, FinishMoves DEF Types, Released, GivesOwn, GivesKnown

LEMMA FailTypes ==
  ASSUME CoordAssumption, Types, NEW t \in Threads, ReconnectFails(t)
  PROVE  /\ held' \in [Names -> Objects \cup {Free}] /\ serial' = serial
         /\ Released({call[t].next} \ {Free})
         /\ call' \in [Threads -> Calls] /\ call'[t] = NoCall /\ \A u \in Threads \ {t} : call'[u] = call[u]
  <1>2. /\ held' = [l \in Names |-> IF held[l] \in {call[t].next} \ {Free} THEN Free ELSE held[l]]
        /\ serial' = serial
    BY DEF ReconnectFails, Release
  <1>3. Finish(t)
    BY DEF ReconnectFails
  <1>4. QED
    BY <1>2, <1>3, FinishMoves DEF Types, Released, GivesOwn, GivesKnown
-----------------------------------------------------------------------------
LEMMA StartCallDoes ==
  ASSUME CoordAssumption, Types, NEW t \in Threads, NEW a \in Apps, StartCall(t, a)
  PROVE  /\ Types' /\ Changes(t)
         /\ call[t] = NoCall /\ call'[t].at = "profile" /\ call'[t].lock = Free
         /\ UNCHANGED <<held, serial, mem, conn>>
  <1> DEFINE new == [at |-> "profile", app |-> a, prof |-> Free, lock |-> Free]
  <1>1. call' = [call EXCEPT ![t] = new] /\ new \in StartCalls
    BY DEF StartCall, StartCalls
  <1>2. /\ call' \in [Threads -> Calls] /\ call'[t].at = "profile" /\ call'[t].lock = Free
        /\ \A u \in Threads \ {t} : call'[u] = call[u]
    BY <1>1 DEF Types, Calls
  <1>3. call[t] = NoCall /\ UNCHANGED <<held, serial, registry, mem, conn>>
    BY DEF StartCall
  <1>4. Shrinks(t)
    BY <1>2, <1>3 DEF Shrinks, Refs, Own, MemRefs, Begun, ShuttingDown, Reconnecting, Swapping
  <1>5. QED
    BY <1>2, <1>3, <1>4 DEF Types, Changes

\* A call that ends knows nothing any more.
LEMMA FinishShrinks ==
  ASSUME Types, NEW t \in Threads, Finish(t), serial' = serial,
         MemRefs(CoordOf[t])' \subseteq MemRefs(CoordOf[t])
  PROVE  Shrinks(t)
  BY FinishMoves DEF Shrinks, Refs, Own, Begun, ShuttingDown, Reconnecting, Swapping, NoCall

LEMMA StartProfileDoes ==
  ASSUME CoordAssumption, Types, StartInv, NEW t \in Threads, StartProfile(t)
  PROVE  /\ Types' /\ Changes(t) /\ UNCHANGED <<mem, conn>> /\ call[t].at = "profile"
         /\ \/ /\ call'[t].at = "app" /\ call'[t].prof = Fresh(CoordOf[t]) /\ call'[t].lock = Free
               /\ serial' = serial + 1 /\ Fresh(CoordOf[t]) \in Objects
               /\ held[ProfileOf[CoordOf[t]]] = Free /\ held'[ProfileOf[CoordOf[t]]] = Fresh(CoordOf[t])
            \/ call'[t] = NoCall /\ UNCHANGED <<held, serial>>
  <1> DEFINE c == CoordOf[t]
  <1>0. c \in Coords /\ ProfileOf[c] \in Names /\ call[t].at = "profile" /\ call[t] \in StartCalls /\ call[t].lock = Free
    BY FieldTypes, CallKinds DEF StartProfile, StartInv, StartOK
  <1>1. UNCHANGED <<registry, mem, conn>>
    BY DEF StartProfile
  <1>2. ASSUME held[ProfileOf[c]] = Free, Take(ProfileOf[c], c),
               call' = [call EXCEPT ![t].at = "app", ![t].prof = Made(c)]
        PROVE  /\ Types' /\ Changes(t)
               /\ call'[t].at = "app" /\ call'[t].prof = Fresh(c) /\ call'[t].lock = Free
               /\ serial' = serial + 1 /\ Fresh(c) \in Objects /\ held'[ProfileOf[c]] = Fresh(c)
    <2>1. /\ serial' = serial + 1 /\ Fresh(c) \in Objects /\ Made(c) = Fresh(c)
          /\ held' \in [Names -> Objects \cup {Free}]
          /\ held'[ProfileOf[c]] = Fresh(c) /\ \A k \in Names \ {ProfileOf[c]} : held'[k] = held[k]
      BY <1>0, <1>2, TakeMakes
    <2>2. call' = [call EXCEPT ![t] = [call[t] EXCEPT !.at = "app", !.prof = Fresh(c)]]
      BY <1>2, <2>1 DEF Types
    <2>3. [call[t] EXCEPT !.at = "app", !.prof = Fresh(c)] \in StartCalls
      BY <1>0, <2>1 DEF StartCalls
    <2>4. /\ call' \in [Threads -> Calls] /\ \A u \in Threads \ {t} : call'[u] = call[u]
          /\ call'[t].at = "app" /\ call'[t].prof = Fresh(c) /\ call'[t].lock = Free
      BY <1>0, <2>2, <2>3 DEF Types, Calls, StartCalls
    <2>5. Takes(t)
      BY <1>1, <2>1, <2>4 DEF Takes, Refs, Own, Begun, ShuttingDown, Reconnecting, Swapping
    <2>6. QED
      BY <1>1, <1>2, <2>1, <2>4, <2>5 DEF Types, Changes
  <1>3. ASSUME Finish(t), UNCHANGED <<held, serial>> PROVE Types' /\ Changes(t) /\ call'[t] = NoCall
    <2>1. Shrinks(t)
      BY <1>1, <1>3, FinishShrinks DEF MemRefs
    <2>2. QED
      BY <1>1, <1>3, <2>1, FinishMoves DEF Types, Changes
  <1>4. QED
    BY <1>0, <1>1, <1>2, <1>3 DEF StartProfile

LEMMA StartAppDoes ==
  ASSUME CoordAssumption, Types, StartInv, NEW t \in Threads, StartApp(t)
  PROVE  /\ Types' /\ Changes(t) /\ UNCHANGED <<mem, conn>> /\ call[t].at = "app"
         /\ \/ /\ call'[t].at = "register" /\ call'[t].app = call[t].app /\ call'[t].prof = call[t].prof
               /\ call'[t].lock = Fresh(CoordOf[t]) /\ serial' = serial + 1 /\ Fresh(CoordOf[t]) \in Objects
               /\ held[call[t].app] = Free /\ held'[call[t].app] = Fresh(CoordOf[t])
               /\ \A l \in Names : l # call[t].app => held'[l] = held[l]
            \/ call'[t] = NoCall /\ GivesOwn(t) /\ UNCHANGED serial
  <1> DEFINE c == CoordOf[t]
  <1>0. /\ c \in Coords /\ call[t].at = "app" /\ call[t] \in StartCalls /\ call[t].prof \in Objects
        /\ call[t].app \in Names
    BY FieldTypes, CallKinds DEF StartApp, StartInv, StartOK, Begun, StartCalls
  <1>1. UNCHANGED <<registry, mem, conn>>
    BY DEF StartApp
  <1>2. ASSUME held[call[t].app] = Free, Take(call[t].app, c),
               call' = [call EXCEPT ![t].at = "register", ![t].lock = Made(c)]
        PROVE  /\ Types' /\ Changes(t)
               /\ call'[t].at = "register" /\ call'[t].app = call[t].app /\ call'[t].prof = call[t].prof
               /\ call'[t].lock = Fresh(c) /\ serial' = serial + 1 /\ Fresh(c) \in Objects
               /\ held'[call[t].app] = Fresh(c) /\ \A k \in Names \ {call[t].app} : held'[k] = held[k]
    <2>0. PICK l \in Names : l = call[t].app
      BY <1>0
    <2>1. /\ serial' = serial + 1 /\ Fresh(c) \in Objects /\ Made(c) = Fresh(c)
          /\ held' \in [Names -> Objects \cup {Free}]
          /\ held'[l] = Fresh(c) /\ \A k \in Names \ {l} : held'[k] = held[k]
      BY <1>0, <1>2, <2>0, TakeMakes
    <2>2. call' = [call EXCEPT ![t] = [call[t] EXCEPT !.at = "register", !.lock = Fresh(c)]]
      BY <1>2, <2>1 DEF Types
    <2>3. [call[t] EXCEPT !.at = "register", !.lock = Fresh(c)] \in StartCalls
      BY <1>0, <2>1 DEF StartCalls
    <2>4. /\ call' \in [Threads -> Calls] /\ \A u \in Threads \ {t} : call'[u] = call[u]
          /\ call'[t].at = "register" /\ call'[t].app = call[t].app /\ call'[t].prof = call[t].prof
          /\ call'[t].lock = Fresh(c)
      BY <1>0, <2>2, <2>3 DEF Types, Calls, StartCalls
    <2>5. Takes(t)
      BY <1>0, <1>1, <2>1, <2>4 DEF Takes, Refs, Own, Begun, ShuttingDown, Reconnecting, Swapping
    <2>6. QED
      BY <1>1, <1>2, <2>0, <2>1, <2>4, <2>5 DEF Types, Changes
  <1>3. ASSUME Finish(t), Release({call[t].prof})
        PROVE  Types' /\ Changes(t) /\ call'[t] = NoCall /\ GivesOwn(t) /\ UNCHANGED serial
    <2>1. held' = [l \in Names |-> IF held[l] \in {call[t].prof} THEN Free ELSE held[l]] /\ serial' = serial
      BY <1>3 DEF Release
    <2>2. Own(t) = {call[t].prof} /\ Own(t) \subseteq Refs(t)
      BY <1>0, FieldTypes DEF Own, Refs, Begun, StartInv, StartOK
    <2>3. held' \in [Names -> Objects \cup {Free}] /\ GivesOwn(t)
      BY <2>1, <2>2 DEF Types, Released, GivesOwn, GivesKnown
    <2>4. Shrinks(t)
      BY <1>1, <1>3, <2>1, FinishShrinks DEF MemRefs
    <2>5. QED
      BY <1>1, <1>3, <2>1, <2>2, <2>3, <2>4, FinishMoves DEF Types, Changes, Released, GivesOwn, GivesKnown
  <1>4. QED
    BY <1>0, <1>1, <1>2, <1>3 DEF StartApp

\* A Start that fails gives back what is its own.
LEMMA UndoShrinks ==
  ASSUME CoordAssumption, Types, StartInv, NEW t \in Threads, BothLocked(t), StartUndo(t), UNCHANGED mem,
         conn' \in [Coords -> Conns], \A c \in Coords \ {CoordOf[t]} : conn'[c] = conn[c]
  PROVE  Types' /\ Changes(t) /\ call'[t] = NoCall /\ GivesOwn(t) /\ UNCHANGED serial
  <1>1. Begun(t) /\ call[t] \in StartCalls
    BY CallKinds DEF BothLocked, Begun
  <1>2. Own(t) = {call[t].prof, call[t].lock} /\ Refs(t) = Own(t)
    BY <1>1, FieldTypes DEF Own, Refs, StartInv, StartOK
  <1>3. GivesOwn(t) /\ Finish(t) /\ UNCHANGED serial
    BY <1>1, <1>2, UndoTypes DEF StartUndo, Released, GivesOwn
  <1>4. Shrinks(t)
    BY <1>3, FinishShrinks DEF MemRefs
  <1>5. QED
    BY <1>1, <1>2, <1>3, <1>4, UndoTypes DEF Types, Changes, Released, GivesOwn, GivesKnown

LEMMA StartRegisterDoes ==
  ASSUME CoordAssumption, Types, StartInv, NEW t \in Threads, StartRegister(t)
  PROVE  /\ Types' /\ Changes(t) /\ UNCHANGED <<mem, conn>> /\ call[t].at = "register"
         /\ \/ /\ call'[t].at = "adapter" /\ call'[t].app = call[t].app /\ call'[t].prof = call[t].prof
               /\ call'[t].lock = call[t].lock /\ UNCHANGED <<held, serial>>
            \/ call'[t] = NoCall /\ GivesOwn(t) /\ UNCHANGED serial
  <1>0. /\ call[t].at = "register" /\ call[t] \in StartCalls /\ BothLocked(t) /\ call[t].prof \in Objects
        /\ call[t].app \in Apps /\ UNCHANGED <<mem, conn>>
    BY FieldTypes, CallKinds DEF StartRegister, StartInv, StartOK, Begun, BothLocked, StartCalls
  <1>1. ASSUME registry' = Live \cup {[id |-> call[t].prof.n, by |-> CoordOf[t], app |-> call[t].app]},
               Goto(t, "adapter"), UNCHANGED <<held, serial>>
        PROVE  Types' /\ Changes(t)
    <2>1. registry' \subseteq Entries
      BY <1>0, <1>1, FieldTypes DEF Entries
    <2>2. Shrinks(t)
      BY <1>0, <1>1, StartMoves DEF Shrinks, Refs, Own, MemRefs, Begun, BothLocked, ShuttingDown, Reconnecting, Swapping
    <2>3. QED
      BY <1>0, <1>1, <2>1, <2>2, StartMoves DEF Types, Changes
  <1>2. ASSUME StartUndo(t)
        PROVE  Types' /\ Changes(t) /\ call'[t] = NoCall /\ GivesOwn(t) /\ UNCHANGED serial
    BY <1>0, <1>2, UndoShrinks DEF Types
  <1>3. QED
    BY <1>0, <1>1, <1>2, StartMoves DEF StartRegister

LEMMA StartAdapterDoes ==
  ASSUME CoordAssumption, Types, StartInv, NEW t \in Threads, StartAdapter(t)
  PROVE  /\ Types' /\ Changes(t) /\ UNCHANGED mem /\ call[t].at = "adapter"
         /\ \/ /\ call'[t].at = "commit" /\ call'[t].app = call[t].app /\ call'[t].prof = call[t].prof
               /\ call'[t].lock = call[t].lock /\ UNCHANGED <<held, serial>>
               /\ conn'[CoordOf[t]].app = call[t].app /\ conn'[CoordOf[t]].id = call[t].prof.n
            \/ call'[t] = NoCall /\ GivesOwn(t) /\ UNCHANGED <<conn, serial>>
  <1>0. /\ call[t].at = "adapter" /\ call[t] \in StartCalls /\ BothLocked(t) /\ call[t].prof \in Objects
        /\ call[t].app \in Apps /\ CoordOf[t] \in Coords /\ UNCHANGED mem
    BY FieldTypes, CallKinds DEF StartAdapter, StartInv, StartOK, Begun, BothLocked, StartCalls
  <1>1. ASSUME conn' = [conn EXCEPT ![CoordOf[t]] = [app |-> call[t].app, id |-> call[t].prof.n]],
               Goto(t, "commit"), UNCHANGED <<held, serial, registry>>
        PROVE  /\ Types' /\ Changes(t)
               /\ conn'[CoordOf[t]].app = call[t].app /\ conn'[CoordOf[t]].id = call[t].prof.n
    <2>1. /\ conn' \in [Coords -> Conns] /\ conn'[CoordOf[t]] = [app |-> call[t].app, id |-> call[t].prof.n]
          /\ \A c \in Coords \ {CoordOf[t]} : conn'[c] = conn[c]
      BY <1>0, <1>1, FieldTypes DEF Conns, Types
    <2>2. Shrinks(t)
      BY <1>0, <1>1, StartMoves DEF Shrinks, Refs, Own, MemRefs, Begun, BothLocked, ShuttingDown, Reconnecting, Swapping
    <2>3. QED
      BY <1>0, <1>1, <2>1, <2>2, StartMoves DEF Types, Changes
  <1>2. ASSUME StartUndo(t), UNCHANGED conn
        PROVE  Types' /\ Changes(t) /\ call'[t] = NoCall /\ GivesOwn(t) /\ UNCHANGED serial
    BY <1>0, <1>2, UndoShrinks DEF Types
  <1>3. QED
    BY <1>0, <1>1, <1>2, StartMoves DEF StartAdapter

LEMMA StartCommitDoes ==
  ASSUME CoordAssumption, Types, StartInv, NEW t \in Threads, StartCommit(t)
  PROVE  /\ Types' /\ Changes(t) /\ call[t].at = "commit" /\ call'[t] = NoCall
         /\ \/ /\ mem[CoordOf[t]].started /\ UNCHANGED <<mem, serial>> /\ conn'[CoordOf[t]] = Unconnected
               /\ GivesOwn(t)
            \/ /\ ~mem[CoordOf[t]].started /\ UNCHANGED <<held, serial, conn>>
               /\ mem'[CoordOf[t]].started /\ mem'[CoordOf[t]].app = call[t].app
               /\ mem'[CoordOf[t]].id = call[t].prof.n
               /\ mem'[CoordOf[t]].prof = call[t].prof /\ mem'[CoordOf[t]].lock = call[t].lock
  <1> DEFINE c == CoordOf[t]
  <1> DEFINE new == [mem[c] EXCEPT !.started = TRUE, !.app = call[t].app, !.id = call[t].prof.n,
                                   !.prof = call[t].prof, !.lock = call[t].lock]
  <1>0. /\ call[t].at = "commit" /\ call[t] \in StartCalls /\ BothLocked(t) /\ Begun(t)
        /\ call[t].prof \in Objects /\ call[t].lock \in Objects
        /\ call[t].app \in Apps /\ c \in Coords /\ mem[c] \in Mems
    BY FieldTypes, CallKinds DEF StartCommit, StartInv, StartOK, Begun, BothLocked, StartCalls
  <1>1. ASSUME mem[c].started
        PROVE  /\ Types' /\ Changes(t) /\ call'[t] = NoCall /\ UNCHANGED <<mem, serial>>
               /\ conn'[c] = Unconnected /\ GivesOwn(t)
    <2>1. conn' = [conn EXCEPT ![c] = Unconnected] /\ StartUndo(t) /\ UNCHANGED mem
      BY <1>1 DEF StartCommit
    <2>2. conn' \in [Coords -> Conns] /\ conn'[c] = Unconnected /\ \A d \in Coords \ {c} : conn'[d] = conn[d]
      BY <1>0, <2>1, FieldTypes DEF Types
    <2>3. QED
      BY <1>0, <2>1, <2>2, UndoShrinks
  <1>2. ASSUME ~mem[c].started
        PROVE  /\ Types' /\ Changes(t) /\ call'[t] = NoCall /\ UNCHANGED <<held, serial, conn>>
               /\ mem'[c].started /\ mem'[c].app = call[t].app /\ mem'[c].id = call[t].prof.n
               /\ mem'[c].prof = call[t].prof /\ mem'[c].lock = call[t].lock
    <2>1. /\ mem' = [mem EXCEPT ![c].started = TRUE, ![c].app = call[t].app, ![c].id = call[t].prof.n,
                                ![c].prof = call[t].prof, ![c].lock = call[t].lock]
          /\ Finish(t) /\ UNCHANGED <<held, serial, registry, conn>>
      BY <1>2 DEF StartCommit
    <2>2. mem' = [mem EXCEPT ![c] = new]
      BY <2>1, <1>0 DEF Types
    <2>3. /\ new \in Mems /\ new.started /\ new.app = call[t].app /\ new.id = call[t].prof.n
          /\ new.prof = call[t].prof /\ new.lock = call[t].lock
      BY <1>0, FieldTypes DEF Mems
    <2>4. mem' \in [Coords -> Mems] /\ mem'[c] = new /\ \A d \in Coords \ {c} : mem'[d] = mem[d]
      BY <1>0, <2>2, <2>3 DEF Types
    <2>5. MemRefs(c)' \subseteq Own(t)
      BY <1>0, <2>3, <2>4 DEF MemRefs, Own
    <2>6. Hands(t)
      BY <2>1, <2>5, FinishMoves DEF Hands, Refs, Own, Begun, ShuttingDown, Reconnecting, Swapping, NoCall
    <2>7. QED
      BY <2>1, <2>3, <2>4, <2>6, FinishMoves DEF Types, Changes
  <1>3. QED
    BY <1>0, <1>1, <1>2

LEMMA ShutdownCallDoes ==
  ASSUME CoordAssumption, Types, BoundInv, MemInv, NEW t \in Threads, ShutdownCall(t)
  PROVE  /\ Types' /\ Changes(t) /\ UNCHANGED <<held, serial, conn>>
         /\ call[t] = NoCall /\ mem[CoordOf[t]].started /\ ~mem[CoordOf[t]].stopping
         /\ mem'[CoordOf[t]].stopping /\ SameRun(CoordOf[t])
         /\ mem'[CoordOf[t]].app = mem[CoordOf[t]].app /\ mem'[CoordOf[t]].lock = mem[CoordOf[t]].lock
         /\ call'[t].at = "closing" /\ call'[t].id = mem[CoordOf[t]].id /\ call'[t].objects = MemRefs(CoordOf[t])
         /\ ~call'[t].failed
  <1> DEFINE c == CoordOf[t]
             old == [at |-> "closing", id |-> mem[c].id, failed |-> FALSE, objects |-> MemRefs(c)]
             new == [mem[c] EXCEPT !.stopping = TRUE]
  <1>0. /\ call[t] = NoCall /\ mem[c].started /\ ~mem[c].stopping /\ c \in Coords /\ mem[c] \in Mems
        /\ mem[c].prof \in Objects /\ mem[c].lock \in Objects /\ mem[c].id = mem[c].prof.n
    BY FieldTypes DEF ShutdownCall, MemInv, MemOK
  <1>1. mem' = [mem EXCEPT ![c] = new] /\ call' = [call EXCEPT ![t] = old] /\ UNCHANGED <<held, serial, registry, conn>>
    BY <1>0 DEF ShutdownCall, Types, MemRefs
  <1>2. old \in Calls /\ old.at = "closing" /\ old.id = mem[c].id /\ old.objects = MemRefs(c) /\ ~old.failed
    BY <1>0, FieldTypes DEF Calls, ShutdownCalls, MemRefs
  <1>3. /\ call' \in [Threads -> Calls] /\ call'[t].at = "closing" /\ call'[t].id = mem[c].id
        /\ call'[t].objects = MemRefs(c) /\ ~call'[t].failed /\ \A u \in Threads \ {t} : call'[u] = call[u]
    BY <1>1, <1>2 DEF Types
  <1>4. /\ new \in Mems /\ new.prof = mem[c].prof /\ new.lock = mem[c].lock /\ new.app = mem[c].app
        /\ new.id = mem[c].id /\ new.started = mem[c].started /\ new.stopping
    BY <1>0 DEF Mems
  <1>5. mem' \in [Coords -> Mems] /\ mem'[c] = new /\ \A d \in Coords \ {c} : mem'[d] = mem[d]
    BY <1>0, <1>1, <1>4 DEF Types
  <1>6. MemRefs(c)' = MemRefs(c)
    BY <1>4, <1>5 DEF MemRefs
  <1>7. Enters(t)
    BY <1>1, <1>3, <1>6 DEF Enters, Refs, Own, Begun, ShuttingDown, Reconnecting, Swapping
  <1>8. QED
    BY <1>0, <1>1, <1>3, <1>4, <1>5, <1>7 DEF Types, Changes, SameRun

LEMMA ShutdownHandleDoes ==
  ASSUME CoordAssumption, Types, NEW t \in Threads, ShutdownHandle(t)
  PROVE  /\ Types' /\ Changes(t) /\ UNCHANGED <<held, serial>> /\ call[t].at = "closing"
         /\ \/ /\ call'[t].at = "unregister" /\ call'[t].id = call[t].id /\ call'[t].objects = call[t].objects
               /\ call'[t].failed = call[t].failed /\ UNCHANGED mem
               /\ conn'[CoordOf[t]] = IF conn[CoordOf[t]].id = call[t].id THEN Unconnected ELSE conn[CoordOf[t]]
            \/ /\ call'[t] = NoCall /\ UNCHANGED conn
               /\ SameRun(CoordOf[t])
               /\ mem'[CoordOf[t]].app = mem[CoordOf[t]].app /\ mem'[CoordOf[t]].lock = mem[CoordOf[t]].lock
  <1> DEFINE c == CoordOf[t]
             new == [mem[c] EXCEPT !.stopping = FALSE]
             left == IF conn[c].id = call[t].id THEN Unconnected ELSE conn[c]
  <1>0. /\ call[t].at = "closing" /\ ShuttingDown(t) /\ call[t] \in ShutdownCalls /\ c \in Coords /\ mem[c] \in Mems
        /\ conn[c] \in Conns /\ UNCHANGED <<held, serial, registry>>
    BY FieldTypes, CallKinds DEF ShutdownHandle, ShuttingDown
  <1>1. ASSUME conn' = [conn EXCEPT ![c] = IF @.id = call[t].id THEN Unconnected ELSE @],
               Goto(t, "unregister"), UNCHANGED mem
        PROVE  Types' /\ Changes(t) /\ conn'[c] = left
    <2>1. left \in Conns /\ conn' = [conn EXCEPT ![c] = left]
      BY <1>0, <1>1, FieldTypes DEF Types
    <2>2. conn' \in [Coords -> Conns] /\ conn'[c] = left /\ \A d \in Coords \ {c} : conn'[d] = conn[d]
      BY <1>0, <2>1 DEF Types
    <2>3. Shrinks(t)
      BY <1>0, <1>1, ShutdownMoves DEF Shrinks, Refs, Own, MemRefs, Begun, ShuttingDown, Reconnecting, Swapping
    <2>4. QED
      BY <1>0, <1>1, <2>2, <2>3, ShutdownMoves DEF Types, Changes
  <1>2. ASSUME mem' = [mem EXCEPT ![c].stopping = FALSE], Finish(t), UNCHANGED conn
        PROVE  /\ Types' /\ Changes(t) /\ SameRun(c) /\ mem'[c].app = mem[c].app /\ mem'[c].lock = mem[c].lock
    <2>1. /\ mem' = [mem EXCEPT ![c] = new] /\ new \in Mems /\ new.prof = mem[c].prof /\ new.lock = mem[c].lock
          /\ new.app = mem[c].app /\ new.id = mem[c].id /\ new.started = mem[c].started
      BY <1>0, <1>2 DEF Mems, Types
    <2>2. mem' \in [Coords -> Mems] /\ mem'[c] = new /\ \A d \in Coords \ {c} : mem'[d] = mem[d]
      BY <1>0, <2>1 DEF Types
    <2>3. Shrinks(t)
      BY <1>0, <1>2, <2>1, <2>2, FinishShrinks DEF MemRefs
    <2>4. QED
      BY <1>0, <1>2, <2>1, <2>2, <2>3, FinishMoves DEF Types, Changes, SameRun
  <1>3. QED
    BY <1>0, <1>1, <1>2, ShutdownMoves, FinishMoves DEF ShutdownHandle

LEMMA ShutdownUnregisterDoes ==
  ASSUME CoordAssumption, Careful, Types, NEW t \in Threads, ShutdownUnregister(t)
  PROVE  /\ Types' /\ Changes(t) /\ UNCHANGED <<held, serial, mem, conn>> /\ call[t].at = "unregister"
         /\ call'[t].at = "releasing" /\ call'[t].id = call[t].id /\ call'[t].objects = call[t].objects
         /\ call'[t].failed = call[t].failed
  <1>0. /\ call[t].at = "unregister" /\ ShuttingDown(t) /\ call[t] \in ShutdownCalls
        /\ UNCHANGED <<held, serial, mem, conn>>
        /\ registry' = {e \in Live : e.id # call[t].id} /\ Goto(t, "releasing")
    BY FieldTypes, CallKinds DEF ShutdownUnregister, ShuttingDown, Careful
  <1>1. registry' \subseteq Entries
    BY <1>0, FieldTypes
  <1>2. Shrinks(t)
    BY <1>0, ShutdownMoves DEF Shrinks, Refs, Own, MemRefs, Begun, ShuttingDown, Reconnecting, Swapping
  <1>3. QED
    BY <1>0, <1>1, <1>2, ShutdownMoves DEF Types, Changes

LEMMA ShutdownReleaseDoes ==
  ASSUME CoordAssumption, Types, NEW t \in Threads, ShutdownRelease(t)
  PROVE  /\ Types' /\ Changes(t) /\ UNCHANGED <<serial, mem, conn>> /\ call[t].at = "releasing"
         /\ call'[t].at = "clearing" /\ call'[t].id = call[t].id /\ call'[t].objects = call[t].objects
         /\ call'[t].failed = call[t].failed /\ GivesKnown(t)
  <1>0. /\ call[t].at = "releasing" /\ ShuttingDown(t) /\ call[t] \in ShutdownCalls /\ Goto(t, "clearing")
        /\ UNCHANGED <<serial, registry, mem, conn>>
        /\ held' = [l \in Names |-> IF held[l] \in call[t].objects THEN Free ELSE held[l]]
    BY CallKinds DEF ShutdownRelease, ShuttingDown, Release
  <1>1. Refs(t) = call[t].objects
    BY <1>0 DEF Refs, Begun, ShuttingDown
  <1>2. held' \in [Names -> Objects \cup {Free}] /\ GivesKnown(t)
    BY <1>0, <1>1 DEF Types, Released, GivesOwn, GivesKnown
  <1>3. Shrinks(t)
    BY <1>0, ShutdownMoves DEF Shrinks, Refs, Own, MemRefs, Begun, ShuttingDown, Reconnecting, Swapping
  <1>4. QED
    BY <1>0, <1>2, <1>3, ShutdownMoves DEF Types, Changes, Released, GivesOwn, GivesKnown

LEMMA ShutdownEndDoes ==
  ASSUME CoordAssumption, Types, NEW t \in Threads, ShutdownEnd(t)
  PROVE  /\ Types' /\ Changes(t) /\ UNCHANGED <<held, serial, conn>> /\ call[t].at = "clearing" /\ call'[t] = NoCall
         /\ \/ ~call[t].failed /\ mem'[CoordOf[t]] = Stopped
            \/ /\ call[t].failed /\ SameRun(CoordOf[t])
               /\ mem'[CoordOf[t]].app = mem[CoordOf[t]].app /\ mem'[CoordOf[t]].lock = mem[CoordOf[t]].lock
  <1> DEFINE c == CoordOf[t]
             new == IF call[t].failed THEN [mem[c] EXCEPT !.stopping = FALSE] ELSE Stopped
  <1>0. /\ call[t].at = "clearing" /\ c \in Coords /\ mem[c] \in Mems /\ Finish(t)
        /\ UNCHANGED <<held, serial, registry, conn>>
        /\ mem' = [mem EXCEPT ![c] = new]
    BY FieldTypes DEF ShutdownEnd, Types
  <1>1. /\ new \in Mems /\ {new.prof, new.lock} \ {Free} \subseteq MemRefs(c)
        /\ \/ ~call[t].failed /\ new = Stopped
           \/ /\ call[t].failed /\ new.prof = mem[c].prof /\ new.lock = mem[c].lock /\ new.app = mem[c].app
              /\ new.id = mem[c].id /\ new.started = mem[c].started
    BY <1>0, FieldTypes DEF Mems, MemRefs, Stopped
  <1>2. mem' \in [Coords -> Mems] /\ mem'[c] = new /\ \A d \in Coords \ {c} : mem'[d] = mem[d]
    BY <1>0, <1>1 DEF Types
  <1>3. MemRefs(c)' \subseteq MemRefs(c)
    BY <1>1, <1>2 DEF MemRefs
  <1>4. Shrinks(t)
    BY <1>0, <1>3, FinishShrinks
  <1>5. QED
    BY <1>0, <1>1, <1>2, <1>4, FinishMoves DEF Types, Changes, SameRun
-----------------------------------------------------------------------------
LEMMA ReconnectCallDoes ==
  ASSUME CoordAssumption, Types, BoundInv, MemInv, NEW t \in Threads, NEW a \in Apps, ReconnectCall(t, a)
  PROVE  /\ Types' /\ Changes(t) /\ UNCHANGED <<held, serial, mem, conn>>
         /\ call[t] = NoCall /\ mem[CoordOf[t]].started /\ t \in Reconnecters
         /\ call'[t].at = (IF a = mem[CoordOf[t]].app THEN "hook" ELSE "next") /\ call'[t].app = a
         /\ call'[t].id = mem[CoordOf[t]].id /\ call'[t].old = mem[CoordOf[t]].lock /\ call'[t].next = Free
  <1> DEFINE c == CoordOf[t]
             new == [at |-> IF a = mem[c].app THEN "hook" ELSE "next", app |-> a,
                     id |-> mem[c].id, old |-> mem[c].lock, next |-> Free]
  <1>0. /\ call[t] = NoCall /\ mem[c].started /\ t \in Reconnecters /\ c \in Coords
        /\ mem[c].prof \in Objects /\ mem[c].lock \in Objects /\ mem[c].id = mem[c].prof.n
        /\ UNCHANGED <<held, serial, registry, mem, conn>> /\ call' = [call EXCEPT ![t] = new]
    BY FieldTypes DEF ReconnectCall, MemInv, MemOK
  <1>1. new \in Calls
    BY <1>0, FieldTypes DEF Calls, ReconnectCalls
  <1>2. call' \in [Threads -> Calls] /\ call'[t] = new /\ \A u \in Threads \ {t} : call'[u] = call[u]
    BY <1>0, <1>1 DEF Types
  <1>3. Refs(t)' \subseteq {mem[c].lock} /\ Own(t)' = {}
    BY <1>2 DEF Refs, Own, Begun, ShuttingDown, Reconnecting, Swapping
  <1>4. mem[c].lock \in MemRefs(c)
    BY <1>0, FieldTypes DEF MemRefs
  <1>5. Enters(t)
    BY <1>0, <1>3, <1>4 DEF Enters, MemRefs
  <1>6. QED
    BY <1>0, <1>2, <1>5 DEF Types, Changes

\* A Reconnect that fails gives the new lock back.
LEMMA FailShrinks ==
  ASSUME CoordAssumption, Types, NEW t \in Threads, call[t].at = "hook", ReconnectFails(t),
         UNCHANGED <<registry, mem, conn>>
  PROVE  Types' /\ Changes(t) /\ call'[t] = NoCall /\ GivesOwn(t) /\ UNCHANGED serial
  <1>1. Own(t) = {call[t].next} \ {Free} /\ Own(t) \subseteq Refs(t)
    BY DEF Own, Refs, Begun, Swapping, Reconnecting, ShuttingDown
  <1>2. GivesOwn(t) /\ Finish(t) /\ UNCHANGED serial
    BY <1>1, FailTypes DEF ReconnectFails, Released, GivesOwn
  <1>3. Shrinks(t)
    BY <1>2, FinishShrinks DEF MemRefs
  <1>4. QED
    BY <1>1, <1>2, <1>3, FailTypes DEF Types, Changes, Released, GivesOwn, GivesKnown

LEMMA ReconnectLockDoes ==
  ASSUME CoordAssumption, Types, ReconnectInv, NEW t \in Threads, ReconnectLock(t)
  PROVE  /\ Types' /\ Changes(t) /\ UNCHANGED <<mem, conn>> /\ call[t].at = "next"
         /\ \/ /\ call'[t].at = "hook" /\ call'[t].app = call[t].app /\ call'[t].id = call[t].id
               /\ call'[t].old = call[t].old /\ call'[t].next = Fresh(CoordOf[t])
               /\ serial' = serial + 1 /\ Fresh(CoordOf[t]) \in Objects
               /\ held[call[t].app] = Free /\ held'[call[t].app] = Fresh(CoordOf[t])
            \/ call'[t] = NoCall /\ UNCHANGED <<held, serial>>
  <1> DEFINE c == CoordOf[t]
  <1>0. /\ c \in Coords /\ call[t].at = "next" /\ call[t] \in ReconnectCalls /\ call[t].next = Free
        /\ call[t].app \in Names
    BY FieldTypes, CallKinds DEF ReconnectLock, ReconnectInv, ReconnectOK, Reconnecting, ReconnectCalls
  <1>1. UNCHANGED <<registry, mem, conn>>
    BY DEF ReconnectLock
  <1>2. ASSUME held[call[t].app] = Free, Take(call[t].app, c),
               call' = [call EXCEPT ![t].at = "hook", ![t].next = Made(c)]
        PROVE  /\ Types' /\ Changes(t)
               /\ call'[t].at = "hook" /\ call'[t].app = call[t].app /\ call'[t].id = call[t].id
               /\ call'[t].old = call[t].old /\ call'[t].next = Fresh(c)
               /\ serial' = serial + 1 /\ Fresh(c) \in Objects
               /\ held'[call[t].app] = Fresh(c)
    <2>0. PICK l \in Names : l = call[t].app
      BY <1>0
    <2>1. /\ serial' = serial + 1 /\ Fresh(c) \in Objects /\ Made(c) = Fresh(c)
          /\ held' \in [Names -> Objects \cup {Free}]
          /\ held'[l] = Fresh(c) /\ \A k \in Names \ {l} : held'[k] = held[k]
      BY <1>0, <1>2, <2>0, TakeMakes
    <2>2. call' = [call EXCEPT ![t] = [call[t] EXCEPT !.at = "hook", !.next = Fresh(c)]]
      BY <1>2, <2>1 DEF Types
    <2>3. [call[t] EXCEPT !.at = "hook", !.next = Fresh(c)] \in ReconnectCalls
      BY <1>0, <2>1 DEF ReconnectCalls
    <2>4. /\ call' \in [Threads -> Calls] /\ \A u \in Threads \ {t} : call'[u] = call[u]
          /\ call'[t].at = "hook" /\ call'[t].app = call[t].app /\ call'[t].id = call[t].id
          /\ call'[t].old = call[t].old /\ call'[t].next = Fresh(c)
      BY <1>0, <2>2, <2>3 DEF Types, Calls, ReconnectCalls
    <2>5. Takes(t)
      BY <1>0, <1>1, <2>1, <2>4 DEF Takes, Refs, Own, Begun, ShuttingDown, Reconnecting, Swapping
    <2>6. QED
      BY <1>1, <1>2, <2>0, <2>1, <2>4, <2>5 DEF Types, Changes
  <1>3. ASSUME Finish(t), UNCHANGED <<held, serial>> PROVE Types' /\ Changes(t) /\ call'[t] = NoCall
    <2>1. Shrinks(t)
      BY <1>1, <1>3, FinishShrinks DEF MemRefs
    <2>2. QED
      BY <1>1, <1>3, <2>1, FinishMoves DEF Types, Changes
  <1>4. QED
    BY <1>0, <1>1, <1>2, <1>3 DEF ReconnectLock

LEMMA ReconnectHookDoes ==
  ASSUME CoordAssumption, Types, NEW t \in Threads, ReconnectHook(t)
  PROVE  /\ Types' /\ Changes(t) /\ UNCHANGED <<mem, serial>> /\ call[t].at = "hook"
         /\ \/ /\ call'[t].at = "update" /\ call'[t].app = call[t].app /\ call'[t].id = call[t].id
               /\ call'[t].old = call[t].old /\ call'[t].next = call[t].next /\ UNCHANGED held
               /\ conn[CoordOf[t]].id = call[t].id
               /\ conn'[CoordOf[t]].id = call[t].id /\ conn'[CoordOf[t]].app = call[t].app
            \/ call'[t] = NoCall /\ GivesOwn(t) /\ UNCHANGED conn
  <1> DEFINE c == CoordOf[t]
             new == [conn[c] EXCEPT !.app = call[t].app]
  <1>0. /\ call[t].at = "hook" /\ Reconnecting(t) /\ call[t] \in ReconnectCalls /\ c \in Coords
        /\ conn[c] \in Conns /\ UNCHANGED <<registry, mem>>
    BY FieldTypes, CallKinds DEF ReconnectHook, Reconnecting
  <1>1. ASSUME conn[c].id = call[t].id, conn' = [conn EXCEPT ![c].app = call[t].app],
               Goto(t, "update"), UNCHANGED <<held, serial>>
        PROVE  Types' /\ Changes(t) /\ conn'[c].id = call[t].id /\ conn'[c].app = call[t].app
    <2>1. /\ conn' = [conn EXCEPT ![c] = new] /\ new \in Conns
          /\ new.id = call[t].id /\ new.app = call[t].app
      BY <1>0, <1>1 DEF Types, Conns, ReconnectCalls
    <2>2. conn' \in [Coords -> Conns] /\ conn'[c] = new /\ \A d \in Coords \ {c} : conn'[d] = conn[d]
      BY <1>0, <2>1 DEF Types
    <2>3. Shrinks(t)
      BY <1>0, <1>1, ReconnectMoves DEF Shrinks, Refs, Own, MemRefs, Begun, ShuttingDown, Reconnecting, Swapping
    <2>4. QED
      BY <1>0, <1>1, <2>1, <2>2, <2>3, ReconnectMoves DEF Types, Changes
  <1>2. ASSUME ReconnectFails(t), UNCHANGED conn
        PROVE  Types' /\ Changes(t) /\ call'[t] = NoCall /\ GivesOwn(t) /\ UNCHANGED serial
    BY <1>0, <1>2, FailShrinks
  <1>3. QED
    BY <1>0, <1>1, <1>2, ReconnectMoves DEF ReconnectHook

LEMMA ReconnectUpdateDoes ==
  ASSUME CoordAssumption, Careful, Types, NEW t \in Threads, ReconnectUpdate(t)
  PROVE  /\ Types' /\ Changes(t) /\ UNCHANGED <<held, serial, mem, conn>> /\ call[t].at = "update"
         /\ call'[t].at = "swap" /\ call'[t].app = call[t].app /\ call'[t].id = call[t].id
         /\ call'[t].old = call[t].old /\ call'[t].next = call[t].next
  <1>0. /\ call[t].at = "update" /\ Reconnecting(t) /\ call[t] \in ReconnectCalls /\ call[t].app \in Apps
        /\ UNCHANGED <<held, serial, mem, conn>> /\ Goto(t, "swap")
        /\ registry' = {IF e.id = call[t].id THEN [e EXCEPT !.app = call[t].app] ELSE e : e \in Live}
    BY FieldTypes, CallKinds DEF ReconnectUpdate, Reconnecting, Careful, ReconnectCalls
  <1>1. \A e \in Entries : [e EXCEPT !.app = call[t].app] \in Entries
    BY <1>0 DEF Entries
  <1>2. registry' \subseteq Entries
    BY <1>0, <1>1, FieldTypes
  <1>3. Shrinks(t)
    BY <1>0, ReconnectMoves DEF Shrinks, Refs, Own, MemRefs, Begun, ShuttingDown, Reconnecting, Swapping
  <1>4. QED
    BY <1>0, <1>2, <1>3, ReconnectMoves DEF Types, Changes

LEMMA ReconnectSwapDoes ==
  ASSUME CoordAssumption, Types, NEW t \in Threads, ReconnectSwap(t)
  PROVE  /\ Types' /\ Changes(t) /\ UNCHANGED <<serial, conn>> /\ call[t].at = "swap"
         /\ call'[t].at = "releaseOld" /\ call'[t].app = call[t].app /\ call'[t].id = call[t].id
         /\ call'[t].old = call[t].old /\ call'[t].next = call[t].next
         /\ \/ /\ mem[CoordOf[t]].id = call[t].id /\ UNCHANGED held
               /\ SameRun(CoordOf[t]) /\ mem'[CoordOf[t]].stopping = mem[CoordOf[t]].stopping
               /\ mem'[CoordOf[t]].app = call[t].app
               /\ mem'[CoordOf[t]].lock = IF call[t].next = Free THEN mem[CoordOf[t]].lock ELSE call[t].next
            \/ mem[CoordOf[t]].id # call[t].id /\ UNCHANGED mem /\ GivesOwn(t)
  <1> DEFINE c == CoordOf[t]
             new == [mem[c] EXCEPT !.app = call[t].app,
                                   !.lock = IF call[t].next = Free THEN mem[c].lock ELSE call[t].next]
  <1>0. /\ call[t].at = "swap" /\ Reconnecting(t) /\ call[t] \in ReconnectCalls /\ c \in Coords
        /\ mem[c] \in Mems /\ UNCHANGED <<registry, conn>> /\ Goto(t, "releaseOld")
    BY FieldTypes, CallKinds DEF ReconnectSwap, Reconnecting
  <1>1. Own(t) = {call[t].next} \ {Free} /\ Own(t) \subseteq Refs(t) /\ Own(t)' = {} /\ Refs(t)' \subseteq Refs(t)
    BY <1>0, ReconnectMoves DEF Own, Refs, Begun, Swapping, Reconnecting, ShuttingDown
  <1>2. ASSUME mem[c].id = call[t].id
        PROVE  /\ Types' /\ Changes(t) /\ UNCHANGED <<held, serial>>
               /\ SameRun(c) /\ mem'[c].stopping = mem[c].stopping /\ mem'[c].app = call[t].app
               /\ mem'[c].lock = IF call[t].next = Free THEN mem[c].lock ELSE call[t].next
    <2>1. mem' = [mem EXCEPT ![c] = new] /\ UNCHANGED <<held, serial>>
      BY <1>0, <1>2 DEF ReconnectSwap, Types
    <2>2. /\ new \in Mems /\ {new.prof, new.lock} \ {Free} \subseteq MemRefs(c) \cup Own(t)
          /\ new.started = mem[c].started /\ new.stopping = mem[c].stopping /\ new.id = mem[c].id
          /\ new.prof = mem[c].prof /\ new.app = call[t].app
          /\ new.lock = IF call[t].next = Free THEN mem[c].lock ELSE call[t].next
      BY <1>0, <1>1 DEF Mems, ReconnectCalls, MemRefs
    <2>3. mem' \in [Coords -> Mems] /\ mem'[c] = new /\ \A d \in Coords \ {c} : mem'[d] = mem[d]
      BY <1>0, <2>1, <2>2 DEF Types
    <2>4. Hands(t)
      BY <1>1, <2>1, <2>2, <2>3 DEF Hands, MemRefs
    <2>5. QED
      BY <1>0, <2>1, <2>2, <2>3, <2>4, ReconnectMoves DEF Types, Changes, SameRun
  <1>3. ASSUME mem[c].id # call[t].id
        PROVE  Types' /\ Changes(t) /\ UNCHANGED <<serial, mem>> /\ GivesOwn(t)
    <2>1. /\ held' = [l \in Names |-> IF held[l] \in {call[t].next} \ {Free} THEN Free ELSE held[l]]
          /\ UNCHANGED <<serial, mem>>
      BY <1>3 DEF ReconnectSwap, Release
    <2>2. held' \in [Names -> Objects \cup {Free}] /\ GivesOwn(t)
      BY <1>1, <2>1 DEF Types, Released, GivesOwn, GivesKnown
    <2>3. Shrinks(t)
      BY <1>1, <2>1 DEF Shrinks, MemRefs
    <2>4. QED
      BY <1>0, <1>1, <2>1, <2>2, <2>3, ReconnectMoves DEF Types, Changes, Released, GivesOwn, GivesKnown
  <1>4. QED
    BY <1>0, <1>2, <1>3, ReconnectMoves

LEMMA ReconnectReleaseDoes ==
  ASSUME CoordAssumption, Types, NEW t \in Threads, ReconnectRelease(t)
  PROVE  /\ Types' /\ Changes(t) /\ UNCHANGED <<serial, mem, conn>> /\ call[t].at = "releaseOld"
         /\ call'[t] = NoCall
         /\ call[t].next = Free => UNCHANGED held
         /\ call[t].next # Free => GivesOld(t)
  <1>0. /\ call[t].at = "releaseOld" /\ Reconnecting(t) /\ call[t] \in ReconnectCalls /\ Finish(t)
        /\ UNCHANGED <<registry, serial, mem, conn>>
        /\ held' = [l \in Names |-> IF held[l] \in (IF call[t].next = Free THEN {} ELSE {call[t].old} \ {Free})
                                    THEN Free ELSE held[l]]
    BY CallKinds DEF ReconnectRelease, Reconnecting, Release
  <1>1. call[t].old \in Refs(t) /\ call[t].old # Free
    BY <1>0, FieldTypes DEF Refs, Begun, ShuttingDown, Reconnecting, ReconnectCalls
  <1>2. /\ held' \in [Names -> Objects \cup {Free}] /\ (call[t].next # Free => GivesOld(t))
        /\ call[t].next = Free => held' = held
    BY <1>0, <1>1 DEF Types, Released, GivesOld
  <1>3. Shrinks(t)
    BY <1>0, FinishShrinks DEF MemRefs
  <1>4. QED
    BY <1>0, <1>1, <1>2, <1>3, FinishMoves DEF Types, Changes, Released, GivesOld
-----------------------------------------------------------------------------
\* Whoever has not moved knows what it knew.
LEMMA OthersKnow ==
  ASSUME NEW t \in Threads, Changes(t)
  PROVE  /\ \A u \in Threads \ {t} : Refs(u)' = Refs(u) /\ Own(u)' = Own(u)
         /\ \A c \in Coords \ {CoordOf[t]} : MemRefs(c)' = MemRefs(c)
  BY DEF Changes, Refs, Own, MemRefs, Begun, ShuttingDown, Reconnecting, Swapping

LEMMA OwnIsKnown ==
  ASSUME NEW t \in Threads PROVE Own(t) \subseteq Refs(t)
  BY DEF Own, Refs, Begun, Swapping, ShuttingDown, Reconnecting

LEMMA KnownTypes ==
  ASSUME CoordAssumption, Types
  PROVE  /\ \A t \in Threads : CoordOf[t] \in Coords /\ Refs(t) \subseteq Objects
         /\ \A c \in Coords : MemRefs(c) \subseteq Objects
         /\ \A o \in Objects : o.n \in Nat \ {0}
  <1>1. ASSUME NEW t \in Threads PROVE CoordOf[t] \in Coords /\ Refs(t) \subseteq Objects
    BY <1>1, CallKinds, FieldTypes DEF Refs, StartCalls, ShutdownCalls, ReconnectCalls
  <1>2. \A c \in Coords : MemRefs(c) \subseteq Objects
    BY DEF Types, Mems, MemRefs
  <1>3. \A o \in Objects : o.n \in Nat \ {0}
    BY DEF Objects
  <1>4. QED
    BY <1>1, <1>2, <1>3

LEMMA BoundStep ==
  ASSUME CoordAssumption, Types, Types', BoundInv, NEW t \in Threads, Changes(t) PROVE BoundInv'
  <1>1. serial' \in Nat /\ serial \in Nat /\ serial' >= serial /\ CoordOf[t] \in Coords
    BY KnownTypes DEF Types, Changes, Shrinks, Takes, Enters, Hands
  <1>2. ASSUME NEW o \in Refs(t)' PROVE o.n <= serial' /\ o.by = CoordOf[t]
    BY <1>1, <1>2, KnownTypes, OwnIsKnown DEF Changes, Shrinks, Takes, Enters, Hands, Fresh, BoundInv
  <1>3. ASSUME NEW o \in MemRefs(CoordOf[t])' PROVE o.n <= serial' /\ o.by = CoordOf[t]
    <2>1. MemRefs(CoordOf[t])' \subseteq MemRefs(CoordOf[t]) \cup Refs(t)
      BY OwnIsKnown DEF Changes, Shrinks, Takes, Enters, Hands, MemRefs
    <2>2. QED
      BY <1>1, <1>3, <2>1, KnownTypes DEF BoundInv
  <1>4. ASSUME NEW u \in Threads \ {t}, NEW o \in Refs(u)' PROVE o.n <= serial' /\ o.by = CoordOf[u]
    BY <1>1, <1>4, KnownTypes, OthersKnow DEF BoundInv
  <1>5. ASSUME NEW c \in Coords \ {CoordOf[t]}, NEW o \in MemRefs(c)' PROVE o.n <= serial' /\ o.by = c
    BY <1>1, <1>5, KnownTypes, OthersKnow DEF BoundInv
  <1>6. QED
    BY <1>2, <1>3, <1>4, <1>5 DEF BoundInv

\* Nobody knows a lock object before it is made.
LEMMA FreshIsNew ==
  ASSUME CoordAssumption, Types, BoundInv, NEW t \in Threads
  PROVE  /\ \A u \in Threads : Fresh(CoordOf[t]) \notin Refs(u)
         /\ \A c \in Coords : Fresh(CoordOf[t]) \notin MemRefs(c)
  <1>1. Fresh(CoordOf[t]).n = serial + 1 /\ serial \in Nat
    BY DEF Fresh, Types
  <1>2. QED
    BY <1>1 DEF BoundInv

LEMMA OwnStep ==
  ASSUME CoordAssumption, Types, BoundInv, OwnInv, NEW t \in Threads, Changes(t) PROVE OwnInv'
  <1> DEFINE c == CoordOf[t]
             new == Fresh(CoordOf[t])
  <1>0. c \in Coords /\ (\A u \in Threads : new \notin Refs(u)) /\ \A d \in Coords : new \notin MemRefs(d)
    BY FreshIsNew, KnownTypes
  <1>1. ASSUME NEW u \in Threads \ {t} PROVE Own(t)' \cap Refs(u)' = {} /\ Own(u)' \cap Refs(t)' = {}
    <2>1. Refs(u)' = Refs(u) /\ Own(u)' = Own(u) /\ Own(u) \subseteq Refs(u)
      BY OthersKnow, OwnIsKnown
    <2>2. Own(t) \cap Refs(u) = {} /\ Own(u) \cap Refs(t) = {} /\ Own(u) \cap MemRefs(c) = {}
      BY <1>0 DEF OwnInv
    <2>3. Own(t)' \subseteq Own(t) \cup {new} /\ Refs(t)' \subseteq Refs(t) \cup {new} \cup MemRefs(c)
      BY DEF Changes, Shrinks, Takes, Enters, Hands
    <2>4. QED
      BY <1>0, <2>1, <2>2, <2>3
  <1>2. ASSUME NEW d \in Coords PROVE Own(t)' \cap MemRefs(d)' = {}
    <2>1. Own(t) \cap MemRefs(d) = {} /\ new \notin MemRefs(d)
      BY <1>0 DEF OwnInv
    <2>2. Own(t)' = {} \/ MemRefs(d)' \subseteq MemRefs(d)
      BY OthersKnow DEF Changes, Shrinks, Takes, Enters, Hands, MemRefs
    <2>3. Own(t)' \subseteq Own(t) \cup {new}
      BY DEF Changes, Shrinks, Takes, Enters, Hands
    <2>4. QED
      BY <2>1, <2>2, <2>3
  <1>3. ASSUME NEW u \in Threads \ {t}, NEW d \in Coords PROVE Own(u)' \cap MemRefs(d)' = {}
    <2>1. Own(u)' = Own(u) /\ Own(u) \cap MemRefs(d) = {} /\ Own(u) \cap Own(t) = {}
      BY OthersKnow, OwnIsKnown DEF OwnInv
    <2>2. MemRefs(d)' \subseteq MemRefs(d) \cup Own(t)
      BY OthersKnow DEF Changes, Shrinks, Takes, Enters, Hands, MemRefs
    <2>3. QED
      BY <2>1, <2>2
  <1>4. ASSUME NEW u \in Threads \ {t}, NEW v \in Threads \ {t}, u # v PROVE Own(u)' \cap Refs(v)' = {}
    BY <1>4, OthersKnow DEF OwnInv
  <1>5. QED
    BY <1>1, <1>2, <1>3, <1>4 DEF OwnInv
-----------------------------------------------------------------------------
CallStep(t) ==
  \/ \E a \in Apps : StartCall(t, a) \/ ReconnectCall(t, a)
  \/ StartProfile(t) \/ StartApp(t) \/ StartRegister(t) \/ StartAdapter(t) \/ StartCommit(t)
  \/ ShutdownCall(t) \/ ShutdownHandle(t) \/ ShutdownUnregister(t) \/ ShutdownRelease(t)
  \/ ShutdownEnd(t)
  \/ ReconnectLock(t) \/ ReconnectHook(t) \/ ReconnectUpdate(t) \/ ReconnectSwap(t)
  \/ ReconnectRelease(t)

LEMMA StepChanges ==
  ASSUME CoordAssumption, Careful, IInv, NEW t \in Threads, CallStep(t)
  PROVE  Types' /\ Changes(t)
  <1>0. /\ Types /\ BoundInv /\ OwnInv /\ MemInv /\ StartInv /\ ShutdownInv /\ ReconnectInv /\ IdInv
        /\ HoldInv /\ ConnInv /\ RunInv
    BY DEF IInv, Invs
  <1>10. ASSUME NEW a \in Apps, StartCall(t, a) PROVE Types' /\ Changes(t)
    BY <1>0, <1>10, StartCallDoes
  <1>11. CASE StartProfile(t)
    BY <1>0, <1>11, StartProfileDoes
  <1>12. CASE StartApp(t)
    BY <1>0, <1>12, StartAppDoes
  <1>13. CASE StartRegister(t)
    BY <1>0, <1>13, StartRegisterDoes
  <1>14. CASE StartAdapter(t)
    BY <1>0, <1>14, StartAdapterDoes
  <1>15. CASE StartCommit(t)
    BY <1>0, <1>15, StartCommitDoes
  <1>16. CASE ShutdownCall(t)
    BY <1>0, <1>16, ShutdownCallDoes
  <1>17. CASE ShutdownHandle(t)
    BY <1>0, <1>17, ShutdownHandleDoes
  <1>18. CASE ShutdownUnregister(t)
    BY <1>0, <1>18, ShutdownUnregisterDoes
  <1>19. CASE ShutdownRelease(t)
    BY <1>0, <1>19, ShutdownReleaseDoes
  <1>20. CASE ShutdownEnd(t)
    BY <1>0, <1>20, ShutdownEndDoes
  <1>21. ASSUME NEW a \in Apps, ReconnectCall(t, a) PROVE Types' /\ Changes(t)
    BY <1>0, <1>21, ReconnectCallDoes
  <1>22. CASE ReconnectLock(t)
    BY <1>0, <1>22, ReconnectLockDoes
  <1>23. CASE ReconnectHook(t)
    BY <1>0, <1>23, ReconnectHookDoes
  <1>24. CASE ReconnectUpdate(t)
    BY <1>0, <1>24, ReconnectUpdateDoes
  <1>25. CASE ReconnectSwap(t)
    BY <1>0, <1>25, ReconnectSwapDoes
  <1>26. CASE ReconnectRelease(t)
    BY <1>0, <1>26, ReconnectReleaseDoes
  <1>27. QED
    BY <1>10, <1>11, <1>12, <1>13, <1>14, <1>15, <1>16, <1>17, <1>18, <1>19, <1>20, <1>21, <1>22, <1>23, <1>24, <1>25, <1>26 DEF CallStep

LEMMA MemStep ==
  ASSUME CoordAssumption, Careful, IInv, NEW t \in Threads, CallStep(t) PROVE MemInv'
  <1> DEFINE c == CoordOf[t]
  <1>0. /\ Types /\ BoundInv /\ OwnInv /\ MemInv /\ StartInv /\ ShutdownInv /\ ReconnectInv /\ IdInv
        /\ HoldInv /\ ConnInv /\ RunInv
    BY DEF IInv, Invs
  <1>1. c \in Coords /\ mem[c] \in Mems /\ MemOK(c)
    BY <1>0, FieldTypes DEF MemInv
  <1>2. \A d \in Coords \ {c} : mem'[d] = mem[d]
    BY StepChanges DEF Changes
  <1>3. \A d \in Coords \ {c} : MemOK(d)'
    BY <1>0, <1>2 DEF MemInv, MemOK
  <1>4. SUFFICES MemOK(c)'
    BY <1>3 DEF MemInv
  <1>10. ASSUME NEW a \in Apps, StartCall(t, a) PROVE MemOK(c)'
    BY <1>0, <1>1, <1>10, StartCallDoes DEF MemOK
  <1>11. CASE StartProfile(t)
    BY <1>0, <1>1, <1>11, StartProfileDoes DEF MemOK
  <1>12. CASE StartApp(t)
    BY <1>0, <1>1, <1>12, StartAppDoes DEF MemOK
  <1>13. CASE StartRegister(t)
    BY <1>0, <1>1, <1>13, StartRegisterDoes DEF MemOK
  <1>14. CASE StartAdapter(t)
    BY <1>0, <1>1, <1>14, StartAdapterDoes DEF MemOK
  <1>15. CASE StartCommit(t)
    <2>1. Begun(t) /\ BothLocked(t) /\ call[t] \in StartCalls
      BY <1>0, <1>15, StartCommitDoes, CallKinds DEF Begun, BothLocked
    <2>2. /\ call[t].prof \in Objects /\ call[t].lock \in Objects /\ call[t].prof # call[t].lock
          /\ call[t].app \in Apps
      BY <1>0, <2>1 DEF StartInv, StartOK, StartCalls
    <2>3. CASE mem[c].started
      BY <1>0, <1>1, <1>15, <2>3, StartCommitDoes DEF MemOK
    <2>4. CASE ~mem[c].started
      BY <1>0, <1>1, <1>15, <2>2, <2>4, StartCommitDoes DEF MemOK
    <2>5. QED
      BY <2>3, <2>4
  <1>16. CASE ShutdownCall(t)
    BY <1>0, <1>1, <1>16, ShutdownCallDoes DEF MemOK, SameRun
  <1>17. CASE ShutdownHandle(t)
    <2>1. mem[c].started
      BY <1>0, <1>17, ShutdownHandleDoes DEF ShutdownInv, ShutdownOK, ShuttingDown
    <2>2. QED
      BY <1>0, <1>1, <1>17, <2>1, ShutdownHandleDoes DEF MemOK, SameRun
  <1>18. CASE ShutdownUnregister(t)
    BY <1>0, <1>1, <1>18, ShutdownUnregisterDoes DEF MemOK
  <1>19. CASE ShutdownRelease(t)
    BY <1>0, <1>1, <1>19, ShutdownReleaseDoes DEF MemOK
  <1>20. CASE ShutdownEnd(t)
    <2>1. mem[c].started
      BY <1>0, <1>20, ShutdownEndDoes DEF ShutdownInv, ShutdownOK, ShuttingDown
    <2>2. QED
      BY <1>0, <1>1, <1>20, <2>1, ShutdownEndDoes DEF MemOK, SameRun, Stopped
  <1>21. ASSUME NEW a \in Apps, ReconnectCall(t, a) PROVE MemOK(c)'
    BY <1>0, <1>1, <1>21, ReconnectCallDoes DEF MemOK
  <1>22. CASE ReconnectLock(t)
    BY <1>0, <1>1, <1>22, ReconnectLockDoes DEF MemOK
  <1>23. CASE ReconnectHook(t)
    BY <1>0, <1>1, <1>23, ReconnectHookDoes DEF MemOK
  <1>24. CASE ReconnectUpdate(t)
    BY <1>0, <1>1, <1>24, ReconnectUpdateDoes DEF MemOK
  <1>25. CASE ReconnectSwap(t)
    <2>1. call[t] \in ReconnectCalls /\ Reconnecting(t) /\ Swapping(t) /\ ~Begun(t)
      BY <1>0, <1>25, ReconnectSwapDoes, CallKinds DEF Reconnecting, Swapping, Begun
    <2>2. call[t].id # 0 /\ call[t].app \in Apps /\ (call[t].next # Free => call[t].next \in Own(t) /\ call[t].next \in Objects)
      BY <2>1 DEF Own, ReconnectCalls
    <2>3. Own(t) \cap MemRefs(c) = {}
      BY <1>0, <1>1 DEF OwnInv
    <2>4. CASE mem[c].id = call[t].id
      <3>1. mem[c].started
        BY <1>1, <2>2, <2>4 DEF MemOK, Stopped
      <3>2. call[t].next # Free => call[t].next # mem[c].prof
        BY <1>1, <2>2, <2>3, <3>1 DEF MemRefs
      <3>3. /\ SameRun(c) /\ mem'[c].app = call[t].app
            /\ mem'[c].lock = IF call[t].next = Free THEN mem[c].lock ELSE call[t].next
        BY <1>0, <1>25, <2>4, ReconnectSwapDoes
      <3>4. QED
        BY <1>1, <2>2, <3>1, <3>2, <3>3 DEF MemOK, SameRun
    <2>5. CASE mem[c].id # call[t].id
      BY <1>0, <1>1, <1>25, <2>5, ReconnectSwapDoes DEF MemOK
    <2>6. QED
      BY <2>4, <2>5
  <1>26. CASE ReconnectRelease(t)
    BY <1>0, <1>1, <1>26, ReconnectReleaseDoes DEF MemOK
  <1>27. QED
    BY <1>10, <1>11, <1>12, <1>13, <1>14, <1>15, <1>16, <1>17, <1>18, <1>19, <1>20, <1>21, <1>22, <1>23, <1>24, <1>25, <1>26 DEF CallStep

LEMMA StartStep ==
  ASSUME CoordAssumption, Careful, IInv, NEW t \in Threads, CallStep(t) PROVE StartInv'
  <1>0. /\ Types /\ BoundInv /\ OwnInv /\ MemInv /\ StartInv /\ ShutdownInv /\ ReconnectInv /\ IdInv
        /\ HoldInv /\ ConnInv /\ RunInv
    BY DEF IInv, Invs
  <1>1. StartOK(t)
    BY <1>0 DEF StartInv
  <1>2. \A u \in Threads \ {t} : call'[u] = call[u]
    BY StepChanges DEF Changes
  <1>3. \A u \in Threads \ {t} : StartOK(u)'
    BY <1>0, <1>2 DEF StartInv, StartOK, Begun, BothLocked
  <1>4. SUFFICES StartOK(t)'
    BY <1>3 DEF StartInv
  <1>10. ASSUME NEW a \in Apps, StartCall(t, a) PROVE StartOK(t)'
    BY <1>0, <1>1, <1>10, StartCallDoes DEF StartOK, Begun, BothLocked, NoCall
  <1>11. CASE StartProfile(t)
    BY <1>0, <1>1, <1>11, StartProfileDoes DEF StartOK, Begun, BothLocked, NoCall
  <1>12. CASE StartApp(t)
    <2>1. call[t].prof \in Objects /\ call[t].prof \in Refs(t)
      BY <1>0, <1>1, <1>12, StartAppDoes, FieldTypes DEF Refs, Begun, StartOK
    <2>2. Fresh(CoordOf[t]) \notin Refs(t)
      BY <1>0, FreshIsNew
    <2>3. QED
      BY <1>0, <1>1, <1>12, <2>1, <2>2, StartAppDoes DEF StartOK, Begun, BothLocked, NoCall
  <1>13. CASE StartRegister(t)
    BY <1>0, <1>1, <1>13, StartRegisterDoes DEF StartOK, Begun, BothLocked, NoCall
  <1>14. CASE StartAdapter(t)
    BY <1>0, <1>1, <1>14, StartAdapterDoes DEF StartOK, Begun, BothLocked, NoCall
  <1>15. CASE StartCommit(t)
    BY <1>0, <1>1, <1>15, StartCommitDoes DEF StartOK, Begun, BothLocked, NoCall
  <1>16. CASE ShutdownCall(t)
    BY <1>0, <1>1, <1>16, ShutdownCallDoes DEF StartOK, Begun, BothLocked, NoCall
  <1>17. CASE ShutdownHandle(t)
    BY <1>0, <1>1, <1>17, ShutdownHandleDoes DEF StartOK, Begun, BothLocked, NoCall
  <1>18. CASE ShutdownUnregister(t)
    BY <1>0, <1>1, <1>18, ShutdownUnregisterDoes DEF StartOK, Begun, BothLocked, NoCall
  <1>19. CASE ShutdownRelease(t)
    BY <1>0, <1>1, <1>19, ShutdownReleaseDoes DEF StartOK, Begun, BothLocked, NoCall
  <1>20. CASE ShutdownEnd(t)
    BY <1>0, <1>1, <1>20, ShutdownEndDoes DEF StartOK, Begun, BothLocked, NoCall
  <1>21. ASSUME NEW a \in Apps, ReconnectCall(t, a) PROVE StartOK(t)'
    BY <1>0, <1>1, <1>21, ReconnectCallDoes DEF StartOK, Begun, BothLocked, NoCall
  <1>22. CASE ReconnectLock(t)
    BY <1>0, <1>1, <1>22, ReconnectLockDoes DEF StartOK, Begun, BothLocked, NoCall
  <1>23. CASE ReconnectHook(t)
    BY <1>0, <1>1, <1>23, ReconnectHookDoes DEF StartOK, Begun, BothLocked, NoCall
  <1>24. CASE ReconnectUpdate(t)
    BY <1>0, <1>1, <1>24, ReconnectUpdateDoes DEF StartOK, Begun, BothLocked, NoCall
  <1>25. CASE ReconnectSwap(t)
    <2>1. call'[t].at = "releaseOld"
      BY <1>0, <1>25, ReconnectSwapDoes
    <2>2. QED
      BY <2>1 DEF StartOK, Begun, BothLocked
  <1>26. CASE ReconnectRelease(t)
    BY <1>0, <1>1, <1>26, ReconnectReleaseDoes DEF StartOK, Begun, BothLocked, NoCall
  <1>27. QED
    BY <1>10, <1>11, <1>12, <1>13, <1>14, <1>15, <1>16, <1>17, <1>18, <1>19, <1>20, <1>21, <1>22, <1>23, <1>24, <1>25, <1>26 DEF CallStep

\* A Start that has its profile's lock is alone in that; a run that is on names its
\* first lock.
LEMMA OneStart ==
  ASSUME CoordAssumption, IInv, NEW t \in Threads, NEW u \in Threads, Begun(t), Begun(u), CoordOf[t] = CoordOf[u]
  PROVE  t = u
  <1>1. call[t].prof \in Objects /\ call[t].prof = call[u].prof
    BY DEF IInv, Invs, HoldInv, HoldOK, StartInv, StartOK
  <1>2. Free \notin Objects
    BY FieldTypes DEF IInv
  <1>3. call[t].prof \in Own(t) /\ call[t].prof \in Refs(u)
    BY <1>1, <1>2 DEF Own, Refs
  <1>4. QED
    BY <1>3 DEF IInv, Invs, OwnInv

LEMMA RunIds ==
  ASSUME CoordAssumption, IInv, NEW c \in Coords
  PROVE  /\ mem[c].started => mem[c].id \in 1 .. serial /\ mem[c].prof \in MemRefs(c) /\ mem[c].lock \in MemRefs(c)
         /\ ~mem[c].started => mem[c].id = 0 /\ MemRefs(c) = {}
  <1>1. MemOK(c) /\ (\A o \in MemRefs(c) : o.n <= serial) /\ serial \in Nat
    BY DEF IInv, Invs, MemInv, BoundInv, Types
  <1>2. Free \notin Objects /\ \A o \in Objects : o.n \in Nat \ {0}
    BY DEF Free, Objects
  <1>3. QED
    BY <1>1, <1>2 DEF MemOK, MemRefs

\* Other Shutdowns of the coordinator still are of its run.
LEMMA ShutdownOthers ==
  ASSUME CoordAssumption, Careful, IInv, NEW t \in Threads, CallStep(t),
         NEW u \in Threads \ {t}, CoordOf[u] = CoordOf[t], ShuttingDown(u)
  PROVE  ShutdownOK(u)'
  <1> DEFINE c == CoordOf[t]
  <1>0. /\ Types /\ BoundInv /\ OwnInv /\ MemInv /\ StartInv /\ ShutdownInv /\ ReconnectInv /\ IdInv
        /\ HoldInv /\ ConnInv /\ RunInv
    BY DEF IInv, Invs
  <1>1. c \in Coords /\ ShutdownOK(u) /\ mem[c].started /\ mem[c].stopping /\ call[u].id = mem[c].id
    BY <1>0, FieldTypes DEF ShutdownInv, ShutdownOK
  <1>2. mem[c].id # 0 /\ ~ShuttingDown(t) /\ (Begun(t) => mem[c].id # call[t].prof.n)
    BY <1>0, <1>1, RunIds DEF ShutdownInv, IdInv
  <1>3. call'[u] = call[u]
    BY StepChanges DEF Changes
  <1> DEFINE Kept == /\ mem'[c].started /\ mem'[c].stopping /\ mem'[c].id = mem[c].id
                     /\ conn[c].id # mem[c].id => conn'[c].id # mem[c].id
  <1>4. SUFFICES Kept
    BY <1>1, <1>3 DEF ShutdownOK, ShuttingDown
  <1>10. ASSUME NEW a \in Apps, StartCall(t, a) PROVE Kept
    BY <1>0, <1>1, <1>2, <1>10, StartCallDoes DEF ShuttingDown, Begun, Unconnected, SameRun
  <1>11. CASE StartProfile(t)
    BY <1>0, <1>1, <1>2, <1>11, StartProfileDoes DEF ShuttingDown, Begun, Unconnected, SameRun
  <1>12. CASE StartApp(t)
    BY <1>0, <1>1, <1>2, <1>12, StartAppDoes DEF ShuttingDown, Begun, Unconnected, SameRun
  <1>13. CASE StartRegister(t)
    BY <1>0, <1>1, <1>2, <1>13, StartRegisterDoes DEF ShuttingDown, Begun, Unconnected, SameRun
  <1>14. CASE StartAdapter(t)
    BY <1>0, <1>1, <1>2, <1>14, StartAdapterDoes DEF ShuttingDown, Begun, Unconnected, SameRun
  <1>15. CASE StartCommit(t)
    BY <1>0, <1>1, <1>2, <1>15, StartCommitDoes DEF ShuttingDown, Begun, Unconnected, SameRun
  <1>16. CASE ShutdownCall(t)
    BY <1>0, <1>1, <1>2, <1>16, ShutdownCallDoes DEF ShuttingDown, Begun, Unconnected, SameRun
  <1>17. CASE ShutdownHandle(t)
    BY <1>0, <1>1, <1>2, <1>17, ShutdownHandleDoes DEF ShuttingDown, Begun, Unconnected, SameRun
  <1>18. CASE ShutdownUnregister(t)
    BY <1>0, <1>1, <1>2, <1>18, ShutdownUnregisterDoes DEF ShuttingDown, Begun, Unconnected, SameRun
  <1>19. CASE ShutdownRelease(t)
    BY <1>0, <1>1, <1>2, <1>19, ShutdownReleaseDoes DEF ShuttingDown, Begun, Unconnected, SameRun
  <1>20. CASE ShutdownEnd(t)
    BY <1>0, <1>1, <1>2, <1>20, ShutdownEndDoes DEF ShuttingDown, Begun, Unconnected, SameRun
  <1>21. ASSUME NEW a \in Apps, ReconnectCall(t, a) PROVE Kept
    BY <1>0, <1>1, <1>2, <1>21, ReconnectCallDoes DEF ShuttingDown, Begun, Unconnected, SameRun
  <1>22. CASE ReconnectLock(t)
    BY <1>0, <1>1, <1>2, <1>22, ReconnectLockDoes DEF ShuttingDown, Begun, Unconnected, SameRun
  <1>23. CASE ReconnectHook(t)
    BY <1>0, <1>1, <1>2, <1>23, ReconnectHookDoes DEF ShuttingDown, Begun, Unconnected, SameRun
  <1>24. CASE ReconnectUpdate(t)
    BY <1>0, <1>1, <1>2, <1>24, ReconnectUpdateDoes DEF ShuttingDown, Begun, Unconnected, SameRun
  <1>25. CASE ReconnectSwap(t)
    BY <1>0, <1>1, <1>2, <1>25, ReconnectSwapDoes DEF ShuttingDown, Begun, Unconnected, SameRun
  <1>26. CASE ReconnectRelease(t)
    BY <1>0, <1>1, <1>2, <1>26, ReconnectReleaseDoes DEF ShuttingDown, Begun, Unconnected, SameRun
  <1>27. QED
    BY <1>10, <1>11, <1>12, <1>13, <1>14, <1>15, <1>16, <1>17, <1>18, <1>19, <1>20, <1>21, <1>22, <1>23, <1>24, <1>25, <1>26 DEF CallStep

LEMMA ShutdownStep ==
  ASSUME CoordAssumption, Careful, IInv, NEW t \in Threads, CallStep(t) PROVE ShutdownInv'
  <1> DEFINE c == CoordOf[t]
             Joins == ShuttingDown(t)' /\ ~ShuttingDown(t) => ~mem[c].stopping
  <1>0. /\ Types /\ BoundInv /\ OwnInv /\ MemInv /\ StartInv /\ ShutdownInv /\ ReconnectInv /\ IdInv
        /\ HoldInv /\ ConnInv /\ RunInv
    BY DEF IInv, Invs
  <1>1. c \in Coords /\ ShutdownOK(t)
    BY <1>0, FieldTypes DEF ShutdownInv
  <1>2. /\ \A u \in Threads \ {t} : call'[u] = call[u]
        /\ \A d \in Coords \ {c} : mem'[d] = mem[d] /\ conn'[d] = conn[d]
    BY StepChanges DEF Changes
  <1>3. ASSUME NEW u \in Threads \ {t} PROVE ShutdownOK(u)'
    <2>1. CASE CoordOf[u] = c /\ ShuttingDown(u)
      BY <2>1, ShutdownOthers
    <2>2. CASE ~ShuttingDown(u)
      BY <1>2, <2>2 DEF ShutdownOK, ShuttingDown
    <2>3. CASE CoordOf[u] # c
      <3>1. CoordOf[u] \in Coords \ {c} /\ ShutdownOK(u)
        BY <1>0, <2>3, KnownTypes DEF ShutdownInv
      <3>2. QED
        BY <1>2, <3>1 DEF ShutdownOK, ShuttingDown
    <2>4. QED
      BY <2>1, <2>2, <2>3
  <1>4. SUFFICES ShutdownOK(t)' /\ Joins
    <2>1. \A u \in Threads : ShutdownOK(u)'
      BY <1>3, <1>4
    <2>2. ASSUME NEW u \in Threads \ {t}, ShuttingDown(t)', ShuttingDown(u)', CoordOf[u] = c PROVE FALSE
      <3>1. ShuttingDown(u)
        BY <1>2, <2>2 DEF ShuttingDown
      <3>2. mem[c].stopping
        BY <1>0, <2>2, <3>1 DEF ShutdownInv, ShutdownOK
      <3>3. ShuttingDown(t)
        BY <1>4, <2>2, <3>2
      <3>4. QED
        BY <1>0, <2>2, <3>1, <3>3 DEF ShutdownInv
    <2>3. ASSUME NEW u \in Threads \ {t}, NEW v \in Threads \ {t}, ShuttingDown(u)', ShuttingDown(v)', CoordOf[u] = CoordOf[v]
          PROVE u = v
      BY <1>0, <1>2, <2>3 DEF ShutdownInv, ShuttingDown
    <2>4. QED
      BY <2>1, <2>2, <2>3 DEF ShutdownInv
  <1>10. ASSUME NEW a \in Apps, StartCall(t, a) PROVE ShutdownOK(t)' /\ Joins
    BY <1>0, <1>1, <1>10, StartCallDoes DEF ShutdownOK, ShuttingDown, NoCall
  <1>11. CASE StartProfile(t)
    BY <1>0, <1>1, <1>11, StartProfileDoes DEF ShutdownOK, ShuttingDown, NoCall
  <1>12. CASE StartApp(t)
    BY <1>0, <1>1, <1>12, StartAppDoes DEF ShutdownOK, ShuttingDown, NoCall
  <1>13. CASE StartRegister(t)
    BY <1>0, <1>1, <1>13, StartRegisterDoes DEF ShutdownOK, ShuttingDown, NoCall
  <1>14. CASE StartAdapter(t)
    BY <1>0, <1>1, <1>14, StartAdapterDoes DEF ShutdownOK, ShuttingDown, NoCall
  <1>15. CASE StartCommit(t)
    BY <1>0, <1>1, <1>15, StartCommitDoes DEF ShutdownOK, ShuttingDown, NoCall
  <1>16. CASE ShutdownCall(t)
    BY <1>0, <1>1, <1>16, ShutdownCallDoes DEF ShutdownOK, ShuttingDown, SameRun
  <1>17. CASE ShutdownHandle(t)
    <2>1. ShuttingDown(t) /\ mem[c].started /\ mem[c].stopping /\ call[t].id = mem[c].id /\ mem[c].id # 0
      BY <1>0, <1>1, <1>17, RunIds, ShutdownHandleDoes DEF ShutdownOK, ShuttingDown
    <2>2. QED
      BY <1>0, <1>17, <2>1, ShutdownHandleDoes DEF ShutdownOK, ShuttingDown, Unconnected, NoCall
  <1>18. CASE ShutdownUnregister(t)
    BY <1>0, <1>1, <1>18, ShutdownUnregisterDoes DEF ShutdownOK, ShuttingDown, NoCall
  <1>19. CASE ShutdownRelease(t)
    BY <1>0, <1>1, <1>19, ShutdownReleaseDoes DEF ShutdownOK, ShuttingDown, NoCall
  <1>20. CASE ShutdownEnd(t)
    BY <1>0, <1>1, <1>20, ShutdownEndDoes DEF ShutdownOK, ShuttingDown, NoCall
  <1>21. ASSUME NEW a \in Apps, ReconnectCall(t, a) PROVE ShutdownOK(t)' /\ Joins
    BY <1>0, <1>1, <1>21, ReconnectCallDoes DEF ShutdownOK, ShuttingDown, NoCall
  <1>22. CASE ReconnectLock(t)
    BY <1>0, <1>1, <1>22, ReconnectLockDoes DEF ShutdownOK, ShuttingDown, NoCall
  <1>23. CASE ReconnectHook(t)
    BY <1>0, <1>1, <1>23, ReconnectHookDoes DEF ShutdownOK, ShuttingDown, NoCall
  <1>24. CASE ReconnectUpdate(t)
    BY <1>0, <1>1, <1>24, ReconnectUpdateDoes DEF ShutdownOK, ShuttingDown, NoCall
  <1>25. CASE ReconnectSwap(t)
    <2>1. call'[t].at = "releaseOld"
      BY <1>0, <1>25, ReconnectSwapDoes
    <2>2. QED
      BY <2>1 DEF ShutdownOK, ShuttingDown
  <1>26. CASE ReconnectRelease(t)
    BY <1>0, <1>1, <1>26, ReconnectReleaseDoes DEF ShutdownOK, ShuttingDown, NoCall
  <1>27. QED
    BY <1>10, <1>11, <1>12, <1>13, <1>14, <1>15, <1>16, <1>17, <1>18, <1>19, <1>20, <1>21, <1>22, <1>23, <1>24, <1>25, <1>26 DEF CallStep

\* A step of t takes no lock from what is another call's own.
LEMMA HoldStep ==
  ASSUME CoordAssumption, Careful, IInv, NEW t \in Threads, CallStep(t) PROVE HoldInv'
  <1> DEFINE c == CoordOf[t]
  <1>0. /\ Types /\ BoundInv /\ OwnInv /\ MemInv /\ StartInv /\ ShutdownInv /\ ReconnectInv /\ IdInv
        /\ HoldInv /\ ConnInv /\ RunInv
    BY DEF IInv, Invs
  <1>1. /\ c \in Coords /\ ProfileOf[c] \in Names /\ Apps \subseteq Names /\ HoldOK(t) /\ StartOK(t) /\ Free \notin Objects
        /\ ReconnectOK(t) /\ ProfileOf[c] \notin Apps
    BY <1>0, FieldTypes DEF HoldInv, StartInv, ReconnectInv, CoordAssumption
  <1>2. ASSUME NEW u \in Threads \ {t} PROVE HoldOK(u)'
    <2>1. call'[u] = call[u]
      BY StepChanges DEF Changes
    <2>2. \A l \in Names : held[l] \in Own(u) => held'[l] = held[l]
      <3>1. Own(u) \cap Refs(t) = {} /\ Free \notin Own(u)
        BY <1>0 DEF OwnInv, Own
      <3>2. QED
        BY <3>1, StepChanges DEF Changes
    <2>3. HoldOK(u) /\ StartOK(u) /\ ProfileOf[CoordOf[u]] \in Names
      BY <1>0, FieldTypes DEF HoldInv, StartInv
    <2>4. CASE Begun(u)
      <3>1. call[u].app \in Names /\ call[u].prof \in Own(u) /\ (BothLocked(u) => call[u].lock \in Own(u))
        BY <1>0, <1>1, <2>3, <2>4, CallKinds DEF StartOK, Own, StartCalls
      <3>2. ~Swapping(u)
        BY <2>4 DEF Begun, Swapping
      <3>3. QED
        BY <2>1, <2>2, <2>3, <2>4, <3>1, <3>2 DEF HoldOK, Begun, BothLocked, Swapping
    <2>5. CASE Swapping(u)
      <3>1. call[u] \in ReconnectCalls /\ ~Begun(u) /\ ~BothLocked(u)
        BY <1>0, <2>5, CallKinds DEF Swapping, Reconnecting, Begun, BothLocked
      <3>2. call[u].app \in Names /\ (call[u].next # Free => call[u].next \in Own(u))
        BY <1>1, <2>5, <3>1 DEF Own, ReconnectCalls
      <3>3. QED
        BY <2>1, <2>2, <2>3, <2>5, <3>1, <3>2 DEF HoldOK, Begun, BothLocked, Swapping
    <2>6. QED
      BY <2>1, <2>4, <2>5 DEF HoldOK, Begun, BothLocked, Swapping
  <1>3. SUFFICES HoldOK(t)'
    BY <1>2 DEF HoldInv
  <1>10. ASSUME NEW a \in Apps, StartCall(t, a) PROVE HoldOK(t)'
    BY <1>0, <1>1, <1>10, StartCallDoes DEF HoldOK, Begun, BothLocked, Swapping, NoCall
  <1>11. CASE StartProfile(t)
    BY <1>0, <1>1, <1>11, StartProfileDoes DEF HoldOK, Begun, BothLocked, Swapping, NoCall
  <1>12. CASE StartApp(t)
    <2>1. call[t].app \in Names /\ call[t].app # ProfileOf[c]
      BY <1>0, <1>1, <1>12, StartAppDoes, CallKinds DEF StartCalls, Begun
    <2>2. QED
      BY <1>0, <1>1, <1>12, <2>1, StartAppDoes DEF HoldOK, Begun, BothLocked, Swapping, NoCall
  <1>13. CASE StartRegister(t)
    BY <1>0, <1>1, <1>13, StartRegisterDoes DEF HoldOK, Begun, BothLocked, Swapping, NoCall
  <1>14. CASE StartAdapter(t)
    BY <1>0, <1>1, <1>14, StartAdapterDoes DEF HoldOK, Begun, BothLocked, Swapping, NoCall
  <1>15. CASE StartCommit(t)
    BY <1>0, <1>1, <1>15, StartCommitDoes DEF HoldOK, Begun, BothLocked, Swapping, NoCall
  <1>16. CASE ShutdownCall(t)
    BY <1>0, <1>1, <1>16, ShutdownCallDoes DEF HoldOK, Begun, BothLocked, Swapping, NoCall
  <1>17. CASE ShutdownHandle(t)
    BY <1>0, <1>1, <1>17, ShutdownHandleDoes DEF HoldOK, Begun, BothLocked, Swapping, NoCall
  <1>18. CASE ShutdownUnregister(t)
    BY <1>0, <1>1, <1>18, ShutdownUnregisterDoes DEF HoldOK, Begun, BothLocked, Swapping, NoCall
  <1>19. CASE ShutdownRelease(t)
    BY <1>0, <1>1, <1>19, ShutdownReleaseDoes DEF HoldOK, Begun, BothLocked, Swapping, NoCall
  <1>20. CASE ShutdownEnd(t)
    BY <1>0, <1>1, <1>20, ShutdownEndDoes DEF HoldOK, Begun, BothLocked, Swapping, NoCall
  <1>21. ASSUME NEW a \in Apps, ReconnectCall(t, a) PROVE HoldOK(t)'
    <2>1. /\ call'[t].at \in {"hook", "next"} /\ call'[t].next = Free
      BY <1>0, <1>21, ReconnectCallDoes
    <2>2. QED
      BY <2>1 DEF HoldOK, Begun, BothLocked, Swapping
  <1>22. CASE ReconnectLock(t)
    BY <1>0, <1>1, <1>22, ReconnectLockDoes DEF HoldOK, Begun, BothLocked, Swapping, NoCall
  <1>23. CASE ReconnectHook(t)
    BY <1>0, <1>1, <1>23, ReconnectHookDoes DEF HoldOK, Begun, BothLocked, Swapping, NoCall
  <1>24. CASE ReconnectUpdate(t)
    BY <1>0, <1>1, <1>24, ReconnectUpdateDoes DEF HoldOK, Begun, BothLocked, Swapping, NoCall
  <1>25. CASE ReconnectSwap(t)
    <2>1. call'[t].at = "releaseOld"
      BY <1>0, <1>25, ReconnectSwapDoes
    <2>2. QED
      BY <2>1 DEF HoldOK, Begun, BothLocked, Swapping
  <1>26. CASE ReconnectRelease(t)
    BY <1>0, <1>1, <1>26, ReconnectReleaseDoes DEF HoldOK, Begun, BothLocked, Swapping, NoCall
  <1>27. QED
    BY <1>10, <1>11, <1>12, <1>13, <1>14, <1>15, <1>16, <1>17, <1>18, <1>19, <1>20, <1>21, <1>22, <1>23, <1>24, <1>25, <1>26 DEF CallStep

\* A coordinator has one Reconnect at a time.
LEMMA OneReconnect ==
  ASSUME CoordAssumption, Careful, IInv, NEW t \in Threads, NEW u \in Threads, Reconnecting(t), Reconnecting(u),
         CoordOf[t] = CoordOf[u]
  PROVE  t = u
  BY DEF IInv, Invs, ReconnectInv, ReconnectOK, Careful

LEMMA ReconnectStep ==
  ASSUME CoordAssumption, Careful, IInv, NEW t \in Threads, CallStep(t) PROVE ReconnectInv'
  <1> DEFINE c == CoordOf[t]
  <1>0. /\ Types /\ BoundInv /\ OwnInv /\ MemInv /\ StartInv /\ ShutdownInv /\ ReconnectInv /\ IdInv
        /\ HoldInv /\ ConnInv /\ RunInv
    BY DEF IInv, Invs
  <1>1. c \in Coords /\ ReconnectOK(t) /\ Free \notin Objects /\ MemOK(c)
    BY <1>0, FieldTypes DEF ReconnectInv, MemInv
  <1>2. ASSUME NEW u \in Threads \ {t}, Reconnecting(u) PROVE ReconnectOK(u)'
    <2>0. call'[u] = call[u] /\ ReconnectOK(u) /\ call[u] \in ReconnectCalls /\ Reconnecting(u)'
      BY <1>0, <1>2, StepChanges, CallKinds DEF Changes, ReconnectInv, Reconnecting
    <2>1. CASE CoordOf[u] # c
      <3>1. mem'[CoordOf[u]] = mem[CoordOf[u]]
        BY <1>0, <2>1, KnownTypes, StepChanges DEF Changes
      <3>2. QED
        BY <1>2, <2>0, <3>1 DEF ReconnectOK, Reconnecting, Swapping, MemRefs
    <2>2. CASE CoordOf[u] = c
      <3> DEFINE Same == /\ mem'[c].id = mem[c].id /\ mem'[c].prof = mem[c].prof
                         /\ mem'[c].lock = mem[c].lock /\ mem'[c].app = mem[c].app
                 Other == mem'[c].id # call[u].id /\ call[u].old \notin MemRefs(c)'
      <3>1. Same \/ Other => ReconnectOK(u)'
        <4>1. CASE Same
          BY <1>2, <2>0, <2>2, <4>1 DEF ReconnectOK, Reconnecting, Swapping, MemRefs
        <4>2. CASE Other
          BY <1>2, <2>0, <2>2, <4>2 DEF ReconnectOK, Reconnecting, Swapping
        <4>3. QED
          BY <4>1, <4>2
      <3>2. call[u].old \in Refs(u) /\ call[u].id # 0 /\ ~Reconnecting(t)
        <4>1. call[u].old \in Objects /\ call[u].id # 0
          BY <2>0 DEF ReconnectCalls
        <4>2. QED
          BY <1>1, <1>2, <2>2, <4>1, OneReconnect DEF Refs, Reconnecting, Begun, ShuttingDown
      <3>3. CASE UNCHANGED mem
        BY <3>1, <3>3
      <3>4. CASE StartCommit(t)
        <4>1. Begun(t) /\ call[t].at = "commit"
          BY <1>0, <3>4, StartCommitDoes DEF Begun
        <4>2. call[u].id # call[t].prof.n /\ Own(t) \cap Refs(u) = {}
          BY <1>0, <1>2, <2>2, <4>1 DEF IdInv, Naming, OwnInv
        <4>3. CASE UNCHANGED mem
          BY <3>1, <4>3
        <4>4. CASE /\ mem'[c].id = call[t].prof.n /\ mem'[c].prof = call[t].prof /\ mem'[c].lock = call[t].lock
          <5>1. MemRefs(c)' \subseteq Own(t)
            BY <4>1, <4>4 DEF MemRefs, Own
          <5>2. QED
            BY <3>1, <3>2, <4>2, <4>4, <5>1
        <4>5. QED
          BY <1>0, <3>4, <4>3, <4>4, StartCommitDoes
      <3>5. CASE ShutdownCall(t) \/ ShutdownHandle(t)
        BY <1>0, <3>1, <3>5, ShutdownCallDoes, ShutdownHandleDoes DEF SameRun
      <3>6. CASE ShutdownEnd(t)
        <4>1. CASE mem'[c] = Stopped
          BY <3>1, <3>2, <4>1 DEF Stopped, MemRefs
        <4>2. QED
          BY <1>0, <3>1, <3>6, <4>1, ShutdownEndDoes DEF SameRun
      <3>7. ~ReconnectSwap(t)
        BY <1>0, <3>2, ReconnectSwapDoes DEF Reconnecting
      <3>8. QED
        BY <1>0, <3>3, <3>4, <3>5, <3>6, <3>7, StartCallDoes, StartProfileDoes, StartAppDoes, StartRegisterDoes,
           StartAdapterDoes, ShutdownUnregisterDoes, ShutdownReleaseDoes, ReconnectCallDoes, ReconnectLockDoes,
           ReconnectHookDoes, ReconnectUpdateDoes, ReconnectReleaseDoes DEF CallStep
    <2>3. QED
      BY <2>1, <2>2
  <1>3. ASSUME NEW u \in Threads \ {t}, ~Reconnecting(u) PROVE ReconnectOK(u)'
    BY <1>3, StepChanges DEF Changes, ReconnectOK, Reconnecting
  <1>4. SUFFICES ReconnectOK(t)'
    BY <1>2, <1>3 DEF ReconnectInv
  <1>10. ASSUME NEW a \in Apps, StartCall(t, a) PROVE ReconnectOK(t)'
    BY <1>0, <1>1, <1>10, StartCallDoes DEF ReconnectOK, Reconnecting, Swapping, NoCall, MemRefs
  <1>11. CASE StartProfile(t)
    BY <1>0, <1>1, <1>11, StartProfileDoes DEF ReconnectOK, Reconnecting, Swapping, NoCall, MemRefs
  <1>12. CASE StartApp(t)
    BY <1>0, <1>1, <1>12, StartAppDoes DEF ReconnectOK, Reconnecting, Swapping, NoCall, MemRefs
  <1>13. CASE StartRegister(t)
    BY <1>0, <1>1, <1>13, StartRegisterDoes DEF ReconnectOK, Reconnecting, Swapping, NoCall, MemRefs
  <1>14. CASE StartAdapter(t)
    BY <1>0, <1>1, <1>14, StartAdapterDoes DEF ReconnectOK, Reconnecting, Swapping, NoCall, MemRefs
  <1>15. CASE StartCommit(t)
    BY <1>0, <1>1, <1>15, StartCommitDoes DEF ReconnectOK, Reconnecting, Swapping, NoCall, MemRefs
  <1>16. CASE ShutdownCall(t)
    <2>1. call'[t].at = "closing"
      BY <1>0, <1>16, ShutdownCallDoes
    <2>2. QED
      BY <2>1 DEF ReconnectOK, Reconnecting
  <1>17. CASE ShutdownHandle(t)
    BY <1>0, <1>1, <1>17, ShutdownHandleDoes DEF ReconnectOK, Reconnecting, Swapping, NoCall, MemRefs
  <1>18. CASE ShutdownUnregister(t)
    BY <1>0, <1>1, <1>18, ShutdownUnregisterDoes DEF ReconnectOK, Reconnecting, Swapping, NoCall, MemRefs
  <1>19. CASE ShutdownRelease(t)
    BY <1>0, <1>1, <1>19, ShutdownReleaseDoes DEF ReconnectOK, Reconnecting, Swapping, NoCall, MemRefs
  <1>20. CASE ShutdownEnd(t)
    BY <1>0, <1>1, <1>20, ShutdownEndDoes DEF ReconnectOK, Reconnecting, Swapping, NoCall, MemRefs
  <1>21. ASSUME NEW a \in Apps, ReconnectCall(t, a) PROVE ReconnectOK(t)'
    <2>1. mem[c].started /\ mem[c].lock \in Objects
      BY <1>0, <1>1, <1>21, ReconnectCallDoes DEF MemOK
    <2>2. QED
      BY <1>0, <1>1, <1>21, <2>1, ReconnectCallDoes DEF ReconnectOK, Reconnecting, Swapping
  <1>22. CASE ReconnectLock(t)
    <2>1. call[t].old \in Refs(t) /\ Reconnecting(t)
      BY <1>0, <1>1, <1>22, ReconnectLockDoes, CallKinds DEF Refs, Reconnecting, Begun, ShuttingDown, ReconnectCalls
    <2>2. call[t].old # Fresh(c) /\ Fresh(c) # Free
      BY <1>0, <1>1, <2>1, FreshIsNew DEF Fresh, Free, Types
    <2>3. QED
      BY <1>0, <1>1, <1>22, <2>1, <2>2, ReconnectLockDoes DEF ReconnectOK, Reconnecting, Swapping, NoCall, MemRefs
  <1>23. CASE ReconnectHook(t)
    BY <1>0, <1>1, <1>23, ReconnectHookDoes DEF ReconnectOK, Reconnecting, Swapping, NoCall, MemRefs
  <1>24. CASE ReconnectUpdate(t)
    BY <1>0, <1>1, <1>24, ReconnectUpdateDoes DEF ReconnectOK, Reconnecting, Swapping, NoCall, MemRefs
  <1>25. CASE ReconnectSwap(t)
    <2>1. /\ call[t].at = "swap" /\ call'[t].at = "releaseOld" /\ call'[t].id = call[t].id
          /\ call'[t].old = call[t].old /\ call'[t].next = call[t].next
      BY <1>0, <1>25, ReconnectSwapDoes
    <2>2. t \in Reconnecters /\ call[t].next # call[t].old /\ call[t] \in ReconnectCalls
      BY <1>0, <1>1, <2>1, CallKinds DEF ReconnectOK, Reconnecting
    <2>3. CASE mem[c].id = call[t].id
      <3>1. /\ mem'[c].id = mem[c].id /\ mem'[c].prof = mem[c].prof
            /\ call[t].next # Free => mem'[c].lock = call[t].next
        BY <1>0, <1>25, <2>3, ReconnectSwapDoes DEF SameRun
      <3>2. call[t].old = mem[c].lock /\ mem[c].started
        BY <1>1, <2>1, <2>2, <2>3 DEF ReconnectOK, Reconnecting, MemOK, ReconnectCalls
      <3>3. call[t].old # mem[c].prof
        BY <1>1, <3>2 DEF MemOK
      <3>4. QED
        BY <2>1, <2>2, <2>3, <3>1, <3>3 DEF ReconnectOK, Swapping, MemRefs
    <2>4. CASE mem[c].id # call[t].id
      BY <1>0, <1>1, <1>25, <2>1, <2>2, <2>4, ReconnectSwapDoes DEF ReconnectOK, Reconnecting, Swapping, MemRefs
    <2>5. QED
      BY <2>3, <2>4
  <1>26. CASE ReconnectRelease(t)
    BY <1>0, <1>1, <1>26, ReconnectReleaseDoes DEF ReconnectOK, Reconnecting, Swapping, NoCall, MemRefs
  <1>27. QED
    BY <1>10, <1>11, <1>12, <1>13, <1>14, <1>15, <1>16, <1>17, <1>18, <1>19, <1>20, <1>21, <1>22, <1>23, <1>24, <1>25, <1>26 DEF CallStep

\* The names a step gives.
LEMMA NameSources ==
  ASSUME CoordAssumption, Careful, IInv, NEW t \in Threads, CallStep(t)
  PROVE  /\ Naming(t)' => \/ Naming(t) /\ call'[t].id = call[t].id
                          \/ mem[CoordOf[t]].started /\ call'[t].id = mem[CoordOf[t]].id
         /\ Begun(t)' => \/ Begun(t) /\ call'[t].prof = call[t].prof
                         \/ call'[t].prof = Fresh(CoordOf[t])
         /\ mem'[CoordOf[t]].id \in {0, mem[CoordOf[t]].id} \/ (Begun(t) /\ ~Begun(t)' /\ mem'[CoordOf[t]].id = call[t].prof.n)
  <1> DEFINE c == CoordOf[t]
             Sources == /\ Naming(t)' => \/ Naming(t) /\ call'[t].id = call[t].id
                                         \/ mem[c].started /\ call'[t].id = mem[c].id
                        /\ Begun(t)' => \/ Begun(t) /\ call'[t].prof = call[t].prof
                                        \/ call'[t].prof = Fresh(c)
                        /\ mem'[c].id \in {0, mem[c].id} \/ (Begun(t) /\ ~Begun(t)' /\ mem'[c].id = call[t].prof.n)
  <1>0. /\ Types /\ BoundInv /\ OwnInv /\ MemInv /\ StartInv /\ ShutdownInv /\ ReconnectInv /\ IdInv
        /\ HoldInv /\ ConnInv /\ RunInv
    BY DEF IInv, Invs
  <1>1. SUFFICES Sources
    OBVIOUS
  <1>10. ASSUME NEW a \in Apps, StartCall(t, a) PROVE Sources
    BY <1>0, <1>10, StartCallDoes DEF Naming, ShuttingDown, Reconnecting, Begun, NoCall, SameRun
  <1>11. CASE StartProfile(t)
    BY <1>0, <1>11, StartProfileDoes DEF Naming, ShuttingDown, Reconnecting, Begun, NoCall, SameRun
  <1>12. CASE StartApp(t)
    BY <1>0, <1>12, StartAppDoes DEF Naming, ShuttingDown, Reconnecting, Begun, NoCall, SameRun
  <1>13. CASE StartRegister(t)
    BY <1>0, <1>13, StartRegisterDoes DEF Naming, ShuttingDown, Reconnecting, Begun, NoCall, SameRun
  <1>14. CASE StartAdapter(t)
    BY <1>0, <1>14, StartAdapterDoes DEF Naming, ShuttingDown, Reconnecting, Begun, NoCall, SameRun
  <1>15. CASE StartCommit(t)
    BY <1>0, <1>15, StartCommitDoes DEF Naming, ShuttingDown, Reconnecting, Begun, NoCall, SameRun
  <1>16. CASE ShutdownCall(t)
    BY <1>0, <1>16, ShutdownCallDoes DEF Naming, ShuttingDown, Reconnecting, Begun, NoCall, SameRun
  <1>17. CASE ShutdownHandle(t)
    BY <1>0, <1>17, ShutdownHandleDoes DEF Naming, ShuttingDown, Reconnecting, Begun, NoCall, SameRun
  <1>18. CASE ShutdownUnregister(t)
    BY <1>0, <1>18, ShutdownUnregisterDoes DEF Naming, ShuttingDown, Reconnecting, Begun, NoCall, SameRun
  <1>19. CASE ShutdownRelease(t)
    BY <1>0, <1>19, ShutdownReleaseDoes DEF Naming, ShuttingDown, Reconnecting, Begun, NoCall, SameRun
  <1>20. CASE ShutdownEnd(t)
    BY <1>0, <1>20, ShutdownEndDoes DEF Naming, ShuttingDown, Reconnecting, Begun, NoCall, SameRun, Stopped
  <1>21. ASSUME NEW a \in Apps, ReconnectCall(t, a) PROVE Sources
    <2>1. /\ call'[t].at \in {"hook", "next"} /\ call'[t].id = mem[c].id /\ mem[c].started /\ UNCHANGED mem
      BY <1>0, <1>21, ReconnectCallDoes
    <2>2. QED
      BY <2>1 DEF Naming, ShuttingDown, Reconnecting, Begun
  <1>22. CASE ReconnectLock(t)
    BY <1>0, <1>22, ReconnectLockDoes DEF Naming, ShuttingDown, Reconnecting, Begun, NoCall, SameRun
  <1>23. CASE ReconnectHook(t)
    BY <1>0, <1>23, ReconnectHookDoes DEF Naming, ShuttingDown, Reconnecting, Begun, NoCall, SameRun
  <1>24. CASE ReconnectUpdate(t)
    BY <1>0, <1>24, ReconnectUpdateDoes DEF Naming, ShuttingDown, Reconnecting, Begun, NoCall, SameRun
  <1>25. CASE ReconnectSwap(t)
    <2>1. call[t].at = "swap" /\ call'[t].at = "releaseOld" /\ call'[t].id = call[t].id /\ mem'[c].id = mem[c].id
      BY <1>0, <1>25, ReconnectSwapDoes DEF SameRun
    <2>2. QED
      BY <2>1 DEF Naming, ShuttingDown, Reconnecting, Begun
  <1>26. CASE ReconnectRelease(t)
    BY <1>0, <1>26, ReconnectReleaseDoes DEF Naming, ShuttingDown, Reconnecting, Begun, NoCall, SameRun
  <1>27. QED
    BY <1>10, <1>11, <1>12, <1>13, <1>14, <1>15, <1>16, <1>17, <1>18, <1>19, <1>20, <1>21, <1>22, <1>23, <1>24, <1>25, <1>26 DEF CallStep

LEMMA IdStep ==
  ASSUME CoordAssumption, Careful, IInv, NEW t \in Threads, CallStep(t) PROVE IdInv'
  <1> DEFINE c == CoordOf[t]
  <1>0. /\ Types /\ BoundInv /\ OwnInv /\ MemInv /\ StartInv /\ ShutdownInv /\ ReconnectInv /\ IdInv
        /\ HoldInv /\ ConnInv /\ RunInv
    BY DEF IInv, Invs
  <1>1. c \in Coords /\ serial \in Nat /\ Fresh(c).n = serial + 1
    BY <1>0, FieldTypes DEF Types, Fresh
  <1>2. /\ \A u \in Threads \ {t} : call'[u] = call[u]
        /\ \A d \in Coords \ {c} : mem'[d] = mem[d]
        /\ serial' \in {serial, serial + 1}
    BY StepChanges DEF Changes, Shrinks, Takes, Enters, Hands
  <1>3. mem[c].id \in 0 .. serial /\ (mem[c].started => mem[c].id # 0)
    BY <1>1, RunIds
  <1>4. \A u \in Threads : Naming(u) => call[u].id \in 1 .. serial
    BY <1>0 DEF IdInv
  <1>5. \A u \in Threads : Begun(u) => call[u].prof.n \in Nat \ {0}
    BY <1>0 DEF StartInv, StartOK, Objects
  <1>6. ASSUME NEW u \in Threads, Naming(u)' PROVE call'[u].id \in 1 .. serial'
    <2>1. CASE u = t
      BY <1>1, <1>2, <1>3, <1>4, <1>6, <2>1, NameSources
    <2>2. CASE u # t
      <3>1. Naming(u) /\ call'[u] = call[u]
        BY <1>2, <1>6, <2>2 DEF Naming, ShuttingDown, Reconnecting
      <3>2. QED
        BY <1>1, <1>2, <1>4, <3>1
    <2>3. QED
      BY <2>1, <2>2
  <1>7. ASSUME NEW v \in Threads, Begun(v)' PROVE mem'[CoordOf[v]].id # call'[v].prof.n
    <2>1. CASE v = t
      <3>1. CASE Begun(t) /\ call'[t].prof = call[t].prof
        <4>1. mem'[c].id \in {0, mem[c].id}
          BY <1>7, <2>1, NameSources
        <4>2. QED
          BY <1>0, <1>5, <2>1, <3>1, <4>1 DEF IdInv
      <3>2. CASE call'[t].prof = Fresh(c)
        <4>1. mem'[c].id \in {0, mem[c].id} /\ call'[t].prof.n = serial + 1
          BY <1>1, <1>7, <2>1, <3>2, NameSources
        <4>2. QED
          BY <1>1, <1>3, <2>1, <4>1
      <3>3. QED
        BY <1>7, <2>1, <3>1, <3>2, NameSources
    <2>2. CASE v # t
      <3>1. Begun(v) /\ call'[v] = call[v]
        BY <1>2, <1>7, <2>2 DEF Begun
      <3>2. CASE CoordOf[v] = c
        BY <1>0, <1>5, <2>2, <3>1, <3>2, NameSources, OneStart DEF IdInv
      <3>3. CASE CoordOf[v] # c
        BY <1>0, <1>2, <3>1, <3>3, KnownTypes DEF IdInv
      <3>4. QED
        BY <3>2, <3>3
    <2>3. QED
      BY <2>1, <2>2
  <1>8. ASSUME NEW v \in Threads, Begun(v)', NEW u \in Threads, Naming(u)', CoordOf[u] = CoordOf[v]
        PROVE  call'[u].id # call'[v].prof.n
    <2>1. ~(u = t /\ v = t)
      BY <1>8 DEF Naming, Begun, ShuttingDown, Reconnecting
    <2>2. CASE v = t
      <3>1. Naming(u) /\ call'[u] = call[u] /\ call[u].id \in 1 .. serial
        BY <1>2, <1>4, <1>8, <2>1, <2>2 DEF Naming, ShuttingDown, Reconnecting
      <3>2. QED
        BY <1>0, <1>1, <1>8, <2>2, <3>1, NameSources DEF IdInv
    <2>3. CASE u = t
      <3>1. Begun(v) /\ call'[v] = call[v]
        BY <1>2, <1>8, <2>1, <2>3 DEF Begun
      <3>2. QED
        BY <1>0, <1>8, <2>3, <3>1, NameSources DEF IdInv
    <2>4. CASE u # t /\ v # t
      BY <1>0, <1>2, <1>8, <2>4 DEF IdInv, Naming, ShuttingDown, Reconnecting, Begun
    <2>5. QED
      BY <2>2, <2>3, <2>4
  <1>9. QED
    BY <1>6, <1>7, <1>8 DEF IdInv


\* Where the profile's lock is free there is no connection.
LEMMA FreeIsUnconnected ==
  ASSUME CoordAssumption, IInv, NEW c \in Coords, held[ProfileOf[c]] = Free
  PROVE  conn[c].id = 0
  <1>1. Free \notin Objects
    BY DEF Free, Objects
  <1>2. ~Runs(c)
    BY <1>1 DEF IInv, Invs, RunInv, RunOK, MemInv, MemOK, Runs
  <1>3. \A t \in Threads : CoordOf[t] = c => ~Begun(t)
    BY <1>1 DEF IInv, Invs, HoldInv, HoldOK, StartInv, StartOK
  <1>4. QED
    BY <1>2, <1>3 DEF IInv, Invs, ConnInv, Begun

\* What a Start sees of its connection.
StartConn(t) ==
  Begun(t) => IF call[t].at = "commit" THEN conn[CoordOf[t]].app = call[t].app /\ conn[CoordOf[t]].id = call[t].prof.n
                                       ELSE conn[CoordOf[t]].id = 0

LEMMA StartConnOthers ==
  ASSUME CoordAssumption, Careful, IInv, NEW t \in Threads, CallStep(t), NEW v \in Threads \ {t} PROVE StartConn(v)'
  <1> DEFINE c == CoordOf[t]
  <1>0. /\ Types /\ BoundInv /\ OwnInv /\ MemInv /\ StartInv /\ ShutdownInv /\ ReconnectInv /\ IdInv
        /\ HoldInv /\ ConnInv /\ RunInv
    BY DEF IInv, Invs
  <1>1. call'[v] = call[v]
    BY StepChanges DEF Changes
  <1>2. StartConn(v)
    BY <1>0 DEF ConnInv, StartConn
  <1>3. CASE ~Begun(v)
    BY <1>1, <1>3 DEF StartConn, Begun
  <1>4. CASE CoordOf[v] # c
    <2>1. conn'[CoordOf[v]] = conn[CoordOf[v]]
      BY <1>0, <1>4, KnownTypes, StepChanges DEF Changes
    <2>2. QED
      BY <1>1, <1>2, <2>1 DEF StartConn, Begun
  <1>5. CASE Begun(v) /\ CoordOf[v] = c
    <2>1. ~Begun(t)
      BY <1>5, OneStart
    <2>2. Naming(t) => call[t].id # call[v].prof.n /\ call[t].id # 0
      BY <1>0, <1>5 DEF IdInv
    <2>3. Naming(t) => conn[c].id # call[t].id
      BY <1>2, <1>5, <2>2 DEF StartConn
    <2>4. conn'[c].id = conn[c].id /\ conn'[c].app = conn[c].app
      <3>1. CASE ShutdownHandle(t)
        BY <1>0, <2>3, <3>1, ShutdownHandleDoes DEF Naming, ShuttingDown
      <3>2. CASE ReconnectHook(t)
        BY <1>0, <2>3, <3>2, ReconnectHookDoes DEF Naming, Reconnecting
      <3>3. ~StartAdapter(t) /\ ~StartCommit(t)
        BY <1>0, <2>1, StartAdapterDoes, StartCommitDoes DEF Begun
      <3>4. QED
        BY <1>0, <3>1, <3>2, <3>3, StartCallDoes, StartProfileDoes, StartAppDoes, StartRegisterDoes,
           ShutdownCallDoes, ShutdownUnregisterDoes, ShutdownReleaseDoes, ShutdownEndDoes,
           ReconnectCallDoes, ReconnectLockDoes, ReconnectUpdateDoes, ReconnectSwapDoes, ReconnectReleaseDoes
           DEF CallStep
    <2>5. QED
      BY <1>1, <1>2, <1>5, <2>4 DEF StartConn, Begun
  <1>6. QED
    BY <1>3, <1>4, <1>5

LEMMA StartConnOwn ==
  ASSUME CoordAssumption, Careful, IInv, NEW t \in Threads, CallStep(t) PROVE StartConn(t)'
  <1> DEFINE c == CoordOf[t]
  <1>0. /\ Types /\ BoundInv /\ OwnInv /\ MemInv /\ StartInv /\ ShutdownInv /\ ReconnectInv /\ IdInv
        /\ HoldInv /\ ConnInv /\ RunInv
    BY DEF IInv, Invs
  <1>1. StartConn(t) /\ c \in Coords
    BY <1>0, FieldTypes DEF ConnInv, StartConn
  <1>10. ASSUME NEW a \in Apps, StartCall(t, a) PROVE StartConn(t)'
    BY <1>0, <1>1, <1>10, StartCallDoes DEF StartConn, Begun, NoCall
  <1>11. CASE StartProfile(t)
    BY <1>0, <1>1, <1>11, StartProfileDoes, FreeIsUnconnected DEF StartConn, Begun, NoCall
  <1>12. CASE StartApp(t)
    BY <1>0, <1>1, <1>12, StartAppDoes DEF StartConn, Begun, NoCall
  <1>13. CASE StartRegister(t)
    BY <1>0, <1>1, <1>13, StartRegisterDoes DEF StartConn, Begun, NoCall
  <1>14. CASE StartAdapter(t)
    BY <1>0, <1>1, <1>14, StartAdapterDoes DEF StartConn, Begun, NoCall
  <1>15. CASE StartCommit(t)
    BY <1>0, <1>1, <1>15, StartCommitDoes DEF StartConn, Begun, NoCall
  <1>16. CASE ShutdownCall(t)
    BY <1>0, <1>1, <1>16, ShutdownCallDoes DEF StartConn, Begun, NoCall
  <1>17. CASE ShutdownHandle(t)
    BY <1>0, <1>1, <1>17, ShutdownHandleDoes DEF StartConn, Begun, NoCall
  <1>18. CASE ShutdownUnregister(t)
    BY <1>0, <1>1, <1>18, ShutdownUnregisterDoes DEF StartConn, Begun, NoCall
  <1>19. CASE ShutdownRelease(t)
    BY <1>0, <1>1, <1>19, ShutdownReleaseDoes DEF StartConn, Begun, NoCall
  <1>20. CASE ShutdownEnd(t)
    BY <1>0, <1>1, <1>20, ShutdownEndDoes DEF StartConn, Begun, NoCall
  <1>21. ASSUME NEW a \in Apps, ReconnectCall(t, a) PROVE StartConn(t)'
    <2>1. call'[t].at \in {"hook", "next"}
      BY <1>0, <1>21, ReconnectCallDoes
    <2>2. QED
      BY <2>1 DEF StartConn, Begun
  <1>22. CASE ReconnectLock(t)
    BY <1>0, <1>1, <1>22, ReconnectLockDoes DEF StartConn, Begun, NoCall
  <1>23. CASE ReconnectHook(t)
    BY <1>0, <1>1, <1>23, ReconnectHookDoes DEF StartConn, Begun, NoCall
  <1>24. CASE ReconnectUpdate(t)
    BY <1>0, <1>1, <1>24, ReconnectUpdateDoes DEF StartConn, Begun, NoCall
  <1>25. CASE ReconnectSwap(t)
    <2>1. call'[t].at = "releaseOld"
      BY <1>0, <1>25, ReconnectSwapDoes
    <2>2. QED
      BY <2>1 DEF StartConn, Begun
  <1>26. CASE ReconnectRelease(t)
    BY <1>0, <1>1, <1>26, ReconnectReleaseDoes DEF StartConn, Begun, NoCall
  <1>27. QED
    BY <1>10, <1>11, <1>12, <1>13, <1>14, <1>15, <1>16, <1>17, <1>18, <1>19, <1>20, <1>21, <1>22, <1>23, <1>24, <1>25, <1>26 DEF CallStep

\* A connection is of a run or of a Start.
Accounted(c) ==
  /\ conn[c].id = 0 => conn[c] = Unconnected
  /\ conn[c].id # 0 => Runs(c) \/ \E t \in Threads : CoordOf[t] = c /\ call[t].at = "commit"

LEMMA AccountedStep ==
  ASSUME CoordAssumption, Careful, IInv, NEW t \in Threads, CallStep(t) PROVE Accounted(CoordOf[t])'
  <1> DEFINE c == CoordOf[t]
             Committing == \E u \in Threads \ {t} : CoordOf[u] = c /\ call[u].at = "commit"
  <1>0. /\ Types /\ BoundInv /\ OwnInv /\ MemInv /\ StartInv /\ ShutdownInv /\ ReconnectInv /\ IdInv
        /\ HoldInv /\ ConnInv /\ RunInv
    BY DEF IInv, Invs
  <1>1. c \in Coords /\ Accounted(c)
    BY <1>0, FieldTypes DEF ConnInv, Accounted
  <1>2. Committing => Committing'
    BY StepChanges DEF Changes
  <1>3. /\ (Runs(c) /\ SameRun(c) /\ conn'[c].id = conn[c].id) => Runs(c)'
        /\ Committing' => \E u \in Threads : CoordOf[u] = c /\ call'[u].at = "commit"
    BY DEF Runs, SameRun
  <1>4. call[t].at # "commit" /\ conn[c].id # 0 => Runs(c) \/ Committing
    BY <1>1 DEF Accounted
  <1>5. ASSUME conn'[c] = conn[c], SameRun(c), call[t].at # "commit" PROVE Accounted(c)'
    BY <1>1, <1>2, <1>3, <1>4, <1>5 DEF Accounted
  <1>6. UNCHANGED mem => SameRun(c)
    BY DEF SameRun
  <1> HIDE DEF Committing
  <1>10. ASSUME NEW a \in Apps, StartCall(t, a) PROVE Accounted(c)'
    BY <1>0, <1>5, <1>6, <1>10, StartCallDoes DEF NoCall
  <1>11. CASE StartProfile(t)
    BY <1>0, <1>5, <1>6, <1>11, StartProfileDoes DEF NoCall
  <1>12. CASE StartApp(t)
    BY <1>0, <1>5, <1>6, <1>12, StartAppDoes DEF NoCall
  <1>13. CASE StartRegister(t)
    BY <1>0, <1>5, <1>6, <1>13, StartRegisterDoes DEF NoCall
  <1>14. CASE StartAdapter(t)
    <2>1. CASE UNCHANGED conn
      BY <1>0, <1>5, <1>6, <1>14, <2>1, StartAdapterDoes
    <2>2. CASE call'[t].at = "commit" /\ conn'[c].id = call[t].prof.n
      <3>1. call[t].prof.n # 0
        BY <1>0, <1>14, StartAdapterDoes DEF StartInv, StartOK, Begun, Objects
      <3>2. QED
        BY <1>1, <2>2, <3>1 DEF Accounted
    <2>3. QED
      BY <1>0, <1>14, <2>1, <2>2, StartAdapterDoes
  <1>15. CASE StartCommit(t)
    <2>1. CASE conn'[c] = Unconnected
      BY <2>1 DEF Accounted, Unconnected
    <2>2. CASE ~mem[c].started
      <3>1. conn' = conn /\ mem'[c].started /\ mem'[c].id = call[t].prof.n
        BY <1>0, <1>15, <2>2, StartCommitDoes
      <3>2. conn[c].id = call[t].prof.n
        BY <1>0, <1>15, StartCommitDoes DEF ConnInv, Begun
      <3>3. QED
        BY <1>1, <3>1, <3>2 DEF Accounted, Runs
    <2>3. QED
      BY <1>0, <1>15, <2>1, <2>2, StartCommitDoes
  <1>16. CASE ShutdownCall(t)
    BY <1>0, <1>5, <1>6, <1>16, ShutdownCallDoes DEF NoCall
  <1>17. CASE ShutdownHandle(t)
    <2>1. CASE conn'[c] = Unconnected
      BY <2>1 DEF Accounted, Unconnected
    <2>2. CASE conn'[c] = conn[c]
      BY <1>0, <1>5, <1>6, <1>17, <2>2, ShutdownHandleDoes
    <2>3. QED
      BY <1>0, <1>17, <2>1, <2>2, ShutdownHandleDoes
  <1>18. CASE ShutdownUnregister(t)
    BY <1>0, <1>5, <1>6, <1>18, ShutdownUnregisterDoes DEF NoCall
  <1>19. CASE ShutdownRelease(t)
    BY <1>0, <1>5, <1>6, <1>19, ShutdownReleaseDoes DEF NoCall
  <1>20. CASE ShutdownEnd(t)
    <2>1. conn[c].id # mem[c].id
      BY <1>0, <1>20, ShutdownEndDoes DEF ShutdownInv, ShutdownOK, ShuttingDown
    <2>2. ~Runs(c) /\ call[t].at # "commit" /\ conn'[c] = conn[c]
      BY <1>0, <1>20, <2>1, ShutdownEndDoes DEF Runs
    <2>3. QED
      BY <1>1, <1>2, <1>3, <1>4, <2>2 DEF Accounted
  <1>21. ASSUME NEW a \in Apps, ReconnectCall(t, a) PROVE Accounted(c)'
    BY <1>0, <1>5, <1>6, <1>21, ReconnectCallDoes DEF NoCall
  <1>22. CASE ReconnectLock(t)
    BY <1>0, <1>5, <1>6, <1>22, ReconnectLockDoes DEF NoCall
  <1>23. CASE ReconnectHook(t)
    <2>1. CASE UNCHANGED conn
      BY <1>0, <1>5, <1>6, <1>23, <2>1, ReconnectHookDoes
    <2>2. CASE conn'[c].id = call[t].id /\ conn[c].id = call[t].id
      <3>1. call[t].id # 0
        BY <1>0, <1>23, ReconnectHookDoes DEF IdInv, Naming, Reconnecting
      <3>2. call[t].at # "commit" /\ SameRun(c)
        BY <1>0, <1>6, <1>23, ReconnectHookDoes
      <3>3. QED
        BY <1>2, <1>3, <1>4, <2>2, <3>1, <3>2 DEF Accounted
    <2>3. QED
      BY <1>0, <1>23, <2>1, <2>2, ReconnectHookDoes
  <1>24. CASE ReconnectUpdate(t)
    BY <1>0, <1>5, <1>6, <1>24, ReconnectUpdateDoes DEF NoCall
  <1>25. CASE ReconnectSwap(t)
    <2>1. call[t].at = "swap" /\ SameRun(c) /\ conn'[c] = conn[c]
      BY <1>0, <1>6, <1>25, ReconnectSwapDoes
    <2>2. QED
      BY <1>5, <2>1
  <1>26. CASE ReconnectRelease(t)
    BY <1>0, <1>5, <1>6, <1>26, ReconnectReleaseDoes DEF NoCall
  <1>27. QED
    BY <1>10, <1>11, <1>12, <1>13, <1>14, <1>15, <1>16, <1>17, <1>18, <1>19, <1>20, <1>21, <1>22, <1>23, <1>24, <1>25, <1>26 DEF CallStep

LEMMA ConnStep ==
  ASSUME CoordAssumption, Careful, IInv, NEW t \in Threads, CallStep(t) PROVE ConnInv'
  <1> DEFINE c == CoordOf[t]
  <1>0. /\ Types /\ BoundInv /\ OwnInv /\ MemInv /\ StartInv /\ ShutdownInv /\ ReconnectInv /\ IdInv
        /\ HoldInv /\ ConnInv /\ RunInv
    BY DEF IInv, Invs
  <1>1. \A v \in Threads : StartConn(v)'
    BY StartConnOthers, StartConnOwn
  <1>2. ASSUME NEW d \in Coords \ {c} PROVE Accounted(d)'
    <2>1. Accounted(d) /\ mem'[d] = mem[d] /\ conn'[d] = conn[d] /\ \A u \in Threads \ {t} : call'[u] = call[u]
      BY <1>0, StepChanges DEF ConnInv, Accounted, Changes
    <2>2. QED
      BY <2>1 DEF Accounted, Runs
  <1>3. QED
    BY <1>1, <1>2, AccountedStep DEF ConnInv, StartConn, Accounted

\* No step but the release of a Shutdown takes a lock from a coordinator.
LEMMA KeepsLocks ==
  ASSUME CoordAssumption, Careful, IInv, NEW t \in Threads, CallStep(t), ~ShutdownRelease(t),
         NEW l \in Names, held[l] \in MemRefs(CoordOf[t])
  PROVE  held'[l] = held[l]
  <1> DEFINE c == CoordOf[t]
  <1>0. /\ Types /\ BoundInv /\ OwnInv /\ MemInv /\ StartInv /\ ShutdownInv /\ ReconnectInv /\ IdInv
        /\ HoldInv /\ ConnInv /\ RunInv
    BY DEF IInv, Invs
  <1>1. c \in Coords /\ held[l] \notin Own(t) /\ held[l] # Free
    BY <1>0, FieldTypes DEF OwnInv, MemRefs
  <1>2. GivesOwn(t) => held'[l] = held[l]
    BY <1>1 DEF GivesOwn, Released
  <1>10. ASSUME NEW a \in Apps, StartCall(t, a) PROVE held'[l] = held[l]
    BY <1>0, <1>2, <1>10, StartCallDoes
  <1>11. CASE StartProfile(t)
    <2>1. serial' = serial + 1 \/ held' = held
      BY <1>0, <1>11, StartProfileDoes
    <2>2. CASE l = ProfileOf[c] \/ held' = held
      BY <1>0, <1>1, <1>11, <2>2, StartProfileDoes
    <2>3. CASE l # ProfileOf[c]
      BY <1>1, <1>11, <2>3 DEF StartProfile, Take, Types, IInv
    <2>4. QED
      BY <2>2, <2>3
  <1>12. CASE StartApp(t)
    BY <1>0, <1>1, <1>2, <1>12, StartAppDoes
  <1>13. CASE StartRegister(t)
    BY <1>0, <1>2, <1>13, StartRegisterDoes
  <1>14. CASE StartAdapter(t)
    BY <1>0, <1>2, <1>14, StartAdapterDoes
  <1>15. CASE StartCommit(t)
    BY <1>0, <1>2, <1>15, StartCommitDoes
  <1>16. CASE ShutdownCall(t)
    BY <1>0, <1>2, <1>16, ShutdownCallDoes
  <1>17. CASE ShutdownHandle(t)
    BY <1>0, <1>2, <1>17, ShutdownHandleDoes
  <1>18. CASE ShutdownUnregister(t)
    BY <1>0, <1>2, <1>18, ShutdownUnregisterDoes
  <1>20. CASE ShutdownEnd(t)
    BY <1>0, <1>2, <1>20, ShutdownEndDoes
  <1>21. ASSUME NEW a \in Apps, ReconnectCall(t, a) PROVE held'[l] = held[l]
    BY <1>0, <1>2, <1>21, ReconnectCallDoes
  <1>22. CASE ReconnectLock(t)
    BY <1>1, <1>22 DEF ReconnectLock, Take, Types, IInv
  <1>23. CASE ReconnectHook(t)
    BY <1>0, <1>2, <1>23, ReconnectHookDoes
  <1>24. CASE ReconnectUpdate(t)
    BY <1>0, <1>2, <1>24, ReconnectUpdateDoes
  <1>25. CASE ReconnectSwap(t)
    BY <1>0, <1>1, <1>2, <1>25, ReconnectSwapDoes
  <1>26. CASE ReconnectRelease(t)
    <2>1. call[t].next = Free => held' = held
      BY <1>0, <1>26, ReconnectReleaseDoes
    <2>2. call[t].next # Free => call[t].old \notin MemRefs(c)
      BY <1>0, <1>26, ReconnectReleaseDoes DEF ReconnectInv, ReconnectOK, Reconnecting
    <2>3. call[t].next # Free => GivesOld(t)
      BY <1>0, <1>26, ReconnectReleaseDoes
    <2>4. QED
      BY <2>1, <2>2, <2>3 DEF GivesOld, Released
  <1>27. QED
    BY <1>10, <1>11, <1>12, <1>13, <1>14, <1>15, <1>16, <1>17, <1>18, <1>20, <1>21, <1>22, <1>23, <1>24, <1>25, <1>26 DEF CallStep

\* None takes one from a run that is on.
LEMMA RunKeepsLocks ==
  ASSUME CoordAssumption, Careful, IInv, NEW t \in Threads, CallStep(t), Runs(CoordOf[t]),
         NEW l \in Names, held[l] \in MemRefs(CoordOf[t])
  PROVE  held'[l] = held[l]
  <1>1. ~ShutdownRelease(t)
    BY DEF IInv, Invs, ShutdownInv, ShutdownOK, ShuttingDown, Runs, ShutdownRelease
  <1>2. QED
    BY <1>1, KeepsLocks

\* Its locks, and the app of its connection.
RunLocks(c) == held[ProfileOf[c]] = mem[c].prof /\ held[mem[c].app] = mem[c].lock
RunApp(c) ==
  /\ \A t \in Threads : CoordOf[t] = c /\ call[t].at \in {"update", "swap"} /\ call[t].id = mem[c].id =>
       conn[c].app = call[t].app
  /\ \/ conn[c].app = mem[c].app
     \/ \E t \in Threads : /\ CoordOf[t] = c /\ call[t].at \in {"update", "swap"}
                           /\ call[t].next # Free /\ call[t].id = mem[c].id

LEMMA RunNames ==
  ASSUME CoordAssumption, IInv, NEW c \in Coords, mem[c].started
  PROVE  /\ ProfileOf[c] \in Names /\ mem[c].app \in Names
         /\ mem[c].prof \in MemRefs(c) /\ mem[c].lock \in MemRefs(c) /\ mem[c].id # 0
  BY RunIds DEF IInv, Invs, MemInv, MemOK, Names

\* The runs of other coordinators.
LEMMA RunOthers ==
  ASSUME CoordAssumption, Careful, IInv, NEW t \in Threads, CallStep(t), NEW d \in Coords \ {CoordOf[t]} PROVE RunOK(d)'
  <1> DEFINE c == CoordOf[t]
  <1>0. /\ Types /\ BoundInv /\ OwnInv /\ MemInv /\ StartInv /\ ShutdownInv /\ ReconnectInv /\ IdInv
        /\ HoldInv /\ ConnInv /\ RunInv
    BY DEF IInv, Invs
  <1>1. mem'[d] = mem[d] /\ conn'[d] = conn[d] /\ RunOK(d)
    BY <1>0, StepChanges DEF RunInv, Changes
  <1>2. ASSUME Runs(d) PROVE RunLocks(d)'
    <2>1. /\ ProfileOf[d] \in Names /\ mem[d].app \in Names
          /\ mem[d].prof \in MemRefs(d) /\ mem[d].lock \in MemRefs(d)
      BY <1>2, RunNames DEF Runs
    <2>2. MemRefs(d) \cap Refs(t) = {} /\ Free \notin MemRefs(d)
      BY <1>0 DEF BoundInv, MemRefs
    <2>3. \A l \in Names : held[l] \in MemRefs(d) => held'[l] = held[l]
      BY <2>2, StepChanges DEF Changes
    <2>4. RunLocks(d)
      BY <1>1, <1>2 DEF RunOK, RunLocks
    <2>5. QED
      BY <1>1, <2>1, <2>3, <2>4 DEF RunLocks
  <1>3. ASSUME Runs(d) PROVE RunApp(d)'
    <2>1. RunApp(d)
      BY <1>1, <1>3 DEF RunOK, RunApp
    <2>2. \A u \in Threads : CoordOf[u] = d => call'[u] = call[u]
      BY StepChanges DEF Changes
    <2>3. QED
      BY <1>1, <2>1, <2>2 DEF RunApp
  <1>4. Runs(d)' => Runs(d)
    BY <1>1 DEF Runs
  <1>5. QED
    BY <1>2, <1>3, <1>4 DEF RunOK, RunLocks, RunApp

\* A step that leaves the run as it is and is none of a Reconnect's that matter.
LEMMA RunStays ==
  ASSUME CoordAssumption, Careful, IInv, NEW t \in Threads, CallStep(t),
         SameRun(CoordOf[t]), mem'[CoordOf[t]].app = mem[CoordOf[t]].app, mem'[CoordOf[t]].lock = mem[CoordOf[t]].lock,
         conn'[CoordOf[t]] = conn[CoordOf[t]],
         \/ call[t].at \notin {"update", "swap"} /\ call'[t].at \notin {"update", "swap"}
         \/ call[t].id # mem[CoordOf[t]].id /\ call'[t].at \notin {"update", "swap"}
         \/ call[t].at = "update" /\ call'[t].at = "swap" /\ call'[t].id = call[t].id /\ call'[t].app = call[t].app
            /\ call'[t].next = call[t].next
  PROVE  RunOK(CoordOf[t])'
  <1> DEFINE c == CoordOf[t]
  <1>0. /\ Types /\ BoundInv /\ OwnInv /\ MemInv /\ StartInv /\ ShutdownInv /\ ReconnectInv /\ IdInv
        /\ HoldInv /\ ConnInv /\ RunInv
    BY DEF IInv, Invs
  <1>1. c \in Coords /\ RunOK(c)
    BY <1>0, FieldTypes DEF RunInv
  <1>2. Runs(c)' => Runs(c)
    BY DEF Runs, SameRun
  <1>3. ASSUME Runs(c) PROVE RunLocks(c)'
    <2>1. RunLocks(c)
      BY <1>1, <1>3 DEF RunOK, RunLocks
    <2>2. QED
      BY <1>1, <1>3, <2>1, RunNames, RunKeepsLocks DEF RunLocks, SameRun, Runs
  <1>4. ASSUME Runs(c) PROVE RunApp(c)'
    <2>1. RunApp(c)
      BY <1>1, <1>4 DEF RunOK, RunApp
    <2>2. \A u \in Threads \ {t} : call'[u] = call[u]
      BY StepChanges DEF Changes
    <2>3. QED
      BY <2>1, <2>2 DEF RunApp, SameRun
  <1>5. QED
    BY <1>2, <1>3, <1>4 DEF RunOK, RunLocks, RunApp

LEMMA RunOwn ==
  ASSUME CoordAssumption, Careful, IInv, NEW t \in Threads, CallStep(t) PROVE RunOK(CoordOf[t])'
  <1> DEFINE c == CoordOf[t]
  <1>0. /\ Types /\ BoundInv /\ OwnInv /\ MemInv /\ StartInv /\ ShutdownInv /\ ReconnectInv /\ IdInv
        /\ HoldInv /\ ConnInv /\ RunInv
    BY DEF IInv, Invs
  <1>1. c \in Coords /\ RunOK(c) /\ (UNCHANGED mem => SameRun(c))
    BY <1>0, FieldTypes DEF RunInv, SameRun
  <1>10. ASSUME NEW a \in Apps, StartCall(t, a) PROVE RunOK(c)'
    BY <1>0, <1>1, RunStays, <1>10, StartCallDoes DEF NoCall
  <1>11. CASE StartProfile(t)
    BY <1>0, <1>1, RunStays, <1>11, StartProfileDoes DEF NoCall
  <1>12. CASE StartApp(t)
    BY <1>0, <1>1, RunStays, <1>12, StartAppDoes DEF NoCall
  <1>13. CASE StartRegister(t)
    BY <1>0, <1>1, RunStays, <1>13, StartRegisterDoes DEF NoCall
  <1>14. CASE StartAdapter(t)
    <2>1. CASE UNCHANGED conn
      BY <1>0, <1>1, RunStays, <1>14, <2>1, StartAdapterDoes DEF NoCall
    <2>2. CASE conn'[c].id = call[t].prof.n
      <3>1. mem[c].id # call[t].prof.n
        BY <1>0, <1>14, StartAdapterDoes DEF IdInv, Begun
      <3>2. mem'[c] = mem[c]
        BY <1>0, <1>14, StartAdapterDoes
      <3>3. QED
        BY <2>2, <3>1, <3>2 DEF RunOK, Runs
    <2>3. QED
      BY <1>0, <1>14, <2>1, <2>2, StartAdapterDoes
  <1>15. CASE StartCommit(t)
    <2>0. Begun(t) /\ BothLocked(t) /\ call[t].at = "commit"
      BY <1>0, <1>15, StartCommitDoes DEF Begun, BothLocked
    <2>1. CASE mem[c].started
      <3>1. conn'[c].id = 0 /\ mem'[c].id # 0
        BY <1>0, <1>1, <1>15, <2>1, StartCommitDoes, RunNames DEF Unconnected
      <3>2. QED
        BY <3>1 DEF RunOK, Runs
    <2>2. CASE ~mem[c].started
      <3>1. /\ mem'[c].app = call[t].app /\ mem'[c].id = call[t].prof.n
            /\ mem'[c].prof = call[t].prof /\ mem'[c].lock = call[t].lock /\ UNCHANGED <<held, conn>>
        BY <1>0, <1>15, <2>2, StartCommitDoes
      <3>2. RunLocks(c)'
        BY <1>0, <2>0, <3>1 DEF RunLocks, HoldInv, HoldOK
      <3>3. \A u \in Threads : Naming(u) /\ CoordOf[u] = c => call[u].id # call[t].prof.n
        BY <1>0, <2>0 DEF IdInv
      <3>4. call'[t].at \notin {"update", "swap"} /\ \A u \in Threads \ {t} : call'[u] = call[u]
        BY <1>0, <1>15, StartCommitDoes, StepChanges DEF NoCall, Changes
      <3>5. conn[c].app = call[t].app
        BY <1>0, <2>0 DEF ConnInv
      <3>6. RunApp(c)'
        BY <3>1, <3>3, <3>4, <3>5 DEF RunApp, Naming, Reconnecting
      <3>7. QED
        BY <3>2, <3>6 DEF RunOK, RunLocks, RunApp
    <2>3. QED
      BY <2>1, <2>2
  <1>16. CASE ShutdownCall(t)
    BY <1>0, <1>1, RunStays, <1>16, ShutdownCallDoes DEF NoCall
  <1>17. CASE ShutdownHandle(t)
    <2>1. CASE conn'[c] = conn[c]
      BY <1>0, <1>1, RunStays, <1>17, <2>1, ShutdownHandleDoes DEF NoCall
    <2>2. CASE conn'[c] = Unconnected /\ UNCHANGED mem
      <3>1. Runs(c)' => mem[c].started /\ mem[c].id = 0
        BY <2>2 DEF Runs, Unconnected
      <3>2. QED
        BY <1>1, <3>1, RunNames DEF RunOK
    <2>3. QED
      BY <1>0, <1>17, <2>1, <2>2, ShutdownHandleDoes
  <1>18. CASE ShutdownUnregister(t)
    BY <1>0, <1>1, RunStays, <1>18, ShutdownUnregisterDoes DEF NoCall
  <1>19. CASE ShutdownRelease(t)
    BY <1>0, <1>1, RunStays, <1>19, ShutdownReleaseDoes DEF NoCall
  <1>20. CASE ShutdownEnd(t)
    <2>1. CASE mem'[c] = Stopped
      BY <2>1 DEF RunOK, Runs, Stopped
    <2>2. CASE SameRun(c) /\ mem'[c].app = mem[c].app /\ mem'[c].lock = mem[c].lock
      BY <1>0, <1>1, RunStays, <1>20, <2>2, ShutdownEndDoes DEF NoCall
    <2>3. QED
      BY <1>0, <1>20, <2>1, <2>2, ShutdownEndDoes
  <1>21. ASSUME NEW a \in Apps, ReconnectCall(t, a) PROVE RunOK(c)'
    <2>1. call'[t].at \in {"hook", "next"} /\ call[t] = NoCall /\ UNCHANGED <<mem, conn>>
      BY <1>0, <1>21, ReconnectCallDoes
    <2>2. QED
      BY <1>1, <2>1, RunStays DEF NoCall
  <1>22. CASE ReconnectLock(t)
    BY <1>0, <1>1, RunStays, <1>22, ReconnectLockDoes DEF NoCall
  <1>23. CASE ReconnectHook(t)
    <2>0. Reconnecting(t) /\ Swapping(t) /\ call[t].at = "hook" /\ UNCHANGED mem
      BY <1>0, <1>23, ReconnectHookDoes DEF Reconnecting, Swapping
    <2>1. CASE UNCHANGED conn /\ call'[t] = NoCall
      BY <1>0, <1>1, RunStays, <2>0, <2>1 DEF NoCall
    <2>2. CASE /\ call'[t].at = "update" /\ call'[t].app = call[t].app /\ call'[t].id = call[t].id
               /\ call'[t].next = call[t].next /\ UNCHANGED held
               /\ conn[c].id = call[t].id /\ conn'[c].id = call[t].id /\ conn'[c].app = call[t].app
      <3>1. SUFFICES ASSUME Runs(c)' PROVE RunLocks(c)' /\ RunApp(c)'
        BY DEF RunOK, RunLocks, RunApp
      <3>2. Runs(c) /\ call[t].id = mem[c].id
        BY <2>0, <2>2, <3>1 DEF Runs
      <3>3. RunLocks(c)'
        BY <1>1, <2>0, <2>2, <3>2 DEF RunOK, RunLocks
      <3>4. \A u \in Threads \ {t} : CoordOf[u] = c => call'[u].at \notin {"update", "swap"}
        BY <2>0, OneReconnect, StepChanges DEF Changes, Reconnecting
      <3>5. call[t].next = Free => call[t].app = mem[c].app
        BY <1>0, <2>0, <3>2 DEF ReconnectInv, ReconnectOK
      <3>6. RunApp(c)'
        BY <2>0, <2>2, <3>2, <3>4, <3>5 DEF RunApp
      <3>7. QED
        BY <3>3, <3>6
    <2>3. QED
      BY <1>0, <1>23, <2>1, <2>2, ReconnectHookDoes
  <1>24. CASE ReconnectUpdate(t)
    BY <1>0, <1>1, RunStays, <1>24, ReconnectUpdateDoes DEF NoCall
  <1>25. CASE ReconnectSwap(t)
    <2>0. Reconnecting(t) /\ Swapping(t) /\ call[t].at = "swap" /\ call'[t].at = "releaseOld" /\ conn' = conn
      BY <1>0, <1>25, ReconnectSwapDoes DEF Reconnecting, Swapping
    <2>1. CASE mem[c].id # call[t].id
      BY <1>0, <1>1, RunStays, <1>25, <2>0, <2>1, ReconnectSwapDoes
    <2>2. CASE mem[c].id = call[t].id
      <3>0. /\ SameRun(c) /\ UNCHANGED held /\ mem'[c].app = call[t].app
            /\ mem'[c].lock = IF call[t].next = Free THEN mem[c].lock ELSE call[t].next
        BY <1>0, <1>25, <2>2, ReconnectSwapDoes
      <3>1. SUFFICES ASSUME Runs(c)' PROVE RunLocks(c)' /\ RunApp(c)'
        BY DEF RunOK, RunLocks, RunApp
      <3>2. Runs(c) /\ RunLocks(c) /\ RunApp(c)
        BY <1>1, <2>0, <3>0, <3>1 DEF Runs, SameRun, RunOK, RunLocks, RunApp
      <3>3. call[t].next = Free => call[t].app = mem[c].app
        BY <1>0, <2>0, <2>2 DEF ReconnectInv, ReconnectOK
      <3>4. call[t].next # Free => held[call[t].app] = call[t].next
        BY <1>0, <2>0 DEF HoldInv, HoldOK
      <3>5. RunLocks(c)'
        BY <3>0, <3>2, <3>3, <3>4 DEF RunLocks, SameRun
      <3>6. \A u \in Threads \ {t} : CoordOf[u] = c => call'[u].at \notin {"update", "swap"}
        BY <2>0, OneReconnect, StepChanges DEF Changes, Reconnecting
      <3>7. conn[c].app = call[t].app
        BY <2>0, <2>2, <3>2 DEF RunApp
      <3>8. RunApp(c)'
        BY <2>0, <3>0, <3>6, <3>7 DEF RunApp
      <3>9. QED
        BY <3>5, <3>8
    <2>3. QED
      BY <2>1, <2>2
  <1>26. CASE ReconnectRelease(t)
    BY <1>0, <1>1, RunStays, <1>26, ReconnectReleaseDoes DEF NoCall
  <1>27. QED
    BY <1>10, <1>11, <1>12, <1>13, <1>14, <1>15, <1>16, <1>17, <1>18, <1>19, <1>20, <1>21, <1>22, <1>23, <1>24, <1>25, <1>26 DEF CallStep

LEMMA RunStep ==
  ASSUME CoordAssumption, Careful, IInv, NEW t \in Threads, CallStep(t) PROVE RunInv'
  BY RunOthers, RunOwn DEF RunInv

LEMMA NextIInv ==
  ASSUME CoordAssumption, Careful, IInv, [CoordNext]_coordVars PROVE IInv'
  <1>1. ASSUME NEW t \in Threads, CallStep(t) PROVE IInv'
    <2>1. Types' /\ Changes(t) /\ Types /\ BoundInv /\ OwnInv
      BY <1>1, StepChanges DEF IInv, Invs
    <2>2. BoundInv' /\ OwnInv'
      BY <2>1, BoundStep, OwnStep
    <2>3. MemInv' /\ StartInv' /\ ShutdownInv' /\ ReconnectInv' /\ IdInv'
      BY <1>1, MemStep, StartStep, ShutdownStep, ReconnectStep, IdStep
    <2>4. HoldInv' /\ ConnInv' /\ RunInv'
      BY <1>1, HoldStep, ConnStep, RunStep
    <2>5. QED
      BY <2>1, <2>2, <2>3, <2>4 DEF IInv, Invs
  <1>2. CASE UNCHANGED coordVars
    <2>1. UNCHANGED <<held, serial, registry, mem, conn, call>>
      BY <1>2 DEF coordVars
    <2>2. Types' /\ MemInv'
      BY <2>1 DEF IInv, Invs, Types, MemInv, MemOK
    <2>3. /\ \A t \in Threads : Refs(t)' = Refs(t) /\ Own(t)' = Own(t)
          /\ \A c \in Coords : MemRefs(c)' = MemRefs(c)
      BY <2>1 DEF Refs, Own, MemRefs, Begun, ShuttingDown, Reconnecting, Swapping
    <2>4. BoundInv' /\ OwnInv'
      BY <2>1, <2>3 DEF IInv, Invs, BoundInv, OwnInv
    <2>5. StartInv' /\ ShutdownInv' /\ ReconnectInv' /\ IdInv'
      BY <2>1 DEF IInv, Invs, StartInv, StartOK, ShutdownInv, ShutdownOK, ReconnectInv, ReconnectOK, IdInv, MemRefs,
         Begun, BothLocked, ShuttingDown, Reconnecting, Swapping, Naming
    <2>6. HoldInv' /\ ConnInv' /\ RunInv'
      BY <2>1 DEF IInv, Invs, HoldInv, HoldOK, ConnInv, RunInv, RunOK, Runs, Begun, BothLocked, Swapping
    <2>7. QED
      BY <2>2, <2>4, <2>5, <2>6 DEF IInv, Invs
  <1>3. QED
    BY <1>1, <1>2 DEF CoordNext, CallStep

LEMMA InitIInv ==
  ASSUME CoordAssumption, CoordInit PROVE IInv
  <1> USE DEF CoordInit
  <1>1. /\ \A t \in Threads : call[t] = NoCall /\ CoordOf[t] \in Coords
        /\ \A c \in Coords : mem[c] = Stopped /\ conn[c] = Unconnected
    BY DEF CoordAssumption
  <1>2. Stopped \in Mems /\ Unconnected \in Conns /\ NoCall \in Calls
    BY DEF Stopped, Mems, Unconnected, Conns, Calls
  <1>3. Types
    BY <1>2 DEF Types
  <1>4. \A t \in Threads : /\ ~Begun(t) /\ ~BothLocked(t) /\ ~ShuttingDown(t) /\ ~Reconnecting(t)
                           /\ ~Swapping(t) /\ ~Naming(t) /\ Refs(t) = {} /\ Own(t) = {}
    BY <1>1 DEF NoCall, Begun, BothLocked, ShuttingDown, Reconnecting, Swapping, Naming, Refs, Own
  <1>5. \A c \in Coords : MemRefs(c) = {} /\ MemOK(c) /\ ~Runs(c)
    BY <1>1 DEF MemRefs, MemOK, Runs, Stopped
  <1>6. BoundInv /\ OwnInv /\ MemInv /\ IdInv
    BY <1>4, <1>5 DEF BoundInv, OwnInv, MemInv, IdInv
  <1>7. StartInv /\ ShutdownInv /\ ReconnectInv /\ HoldInv
    BY <1>1, <1>4 DEF StartInv, StartOK, ShutdownInv, ShutdownOK, ReconnectInv, ReconnectOK, HoldInv, HoldOK, NoCall
  <1>8. ConnInv /\ RunInv
    BY <1>1, <1>4, <1>5 DEF ConnInv, RunInv, RunOK, Unconnected
  <1>9. QED
    BY <1>3, <1>6, <1>7, <1>8 DEF IInv, Invs

\* Whatever connection there is has its two locks.
LEMMA ConnectionsAreLocked ==
  ASSUME CoordAssumption, IInv PROVE ConnectedIsLocked
  <1>1. SUFFICES ASSUME NEW c \in Coords, conn[c] # Unconnected
                 PROVE  held[ProfileOf[c]].by = c /\ held[conn[c].app].by = c
    BY DEF ConnectedIsLocked
  <1>2. BoundInv /\ Free \notin Objects
    BY DEF IInv, Invs, Free, Objects
  <1>3. CASE Runs(c)
    <2>1. RunLocks(c) /\ RunApp(c)
      BY <1>3 DEF IInv, Invs, RunInv, RunOK, RunLocks, RunApp
    <2>2. mem[c].prof.by = c /\ mem[c].lock.by = c
      BY <1>2, <1>3, RunNames DEF Runs, BoundInv
    <2>3. CASE conn[c].app = mem[c].app
      BY <2>1, <2>2, <2>3 DEF RunLocks
    <2>4. ASSUME NEW t \in Threads, CoordOf[t] = c, call[t].at \in {"update", "swap"}, call[t].next # Free,
                 call[t].id = mem[c].id
          PROVE  held[conn[c].app].by = c
      <3>1. conn[c].app = call[t].app
        BY <2>1, <2>4 DEF RunApp
      <3>2. held[call[t].app] = call[t].next
        BY <2>4 DEF IInv, Invs, HoldInv, HoldOK, Swapping
      <3>3. call[t].next \in Refs(t)
        BY <2>4 DEF Refs, Begun, ShuttingDown, Reconnecting
      <3>4. QED
        BY <1>2, <2>4, <3>1, <3>2, <3>3 DEF BoundInv
    <2>5. QED
      BY <2>1, <2>2, <2>3, <2>4 DEF RunLocks, RunApp
  <1>4. ASSUME NEW t \in Threads, CoordOf[t] = c, call[t].at = "commit"
        PROVE  held[ProfileOf[c]].by = c /\ held[conn[c].app].by = c
    <2>1. conn[c].app = call[t].app /\ held[ProfileOf[c]] = call[t].prof /\ held[call[t].app] = call[t].lock
      BY <1>4 DEF IInv, Invs, ConnInv, HoldInv, HoldOK, Begun, BothLocked
    <2>2. call[t].prof \in Refs(t) /\ call[t].lock \in Refs(t)
      BY <1>2, <1>4 DEF IInv, Invs, StartInv, StartOK, Refs, Begun, BothLocked
    <2>3. QED
      BY <1>2, <1>4, <2>1, <2>2 DEF BoundInv
  <1>5. Runs(c) \/ \E t \in Threads : CoordOf[t] = c /\ call[t].at = "commit"
    BY <1>1 DEF IInv, Invs, ConnInv
  <1>6. QED
    BY <1>3, <1>4, <1>5

\* However the calls of any number of coordinators and goroutines overlap, and whatever
\* else of them fails, two of them are never connected to one app nor run one profile.
THEOREM CoordExcludes == Careful /\ CoordSpec => []Exclusive
  <1>1. ConnectedIsLocked => Exclusive
    BY DEF ConnectedIsLocked, Exclusive
  <1>2. CoordInit => IInv
    BY InitIInv, CoordAssumption
  <1>3. Careful /\ IInv /\ [CoordNext]_coordVars => IInv'
    BY NextIInv, CoordAssumption
  <1>4. IInv => Exclusive
    BY <1>1, ConnectionsAreLocked, CoordAssumption
  <1>5. CASE Careful
    <2>1. IInv /\ [CoordNext]_coordVars => IInv'
      BY <1>3, <1>5
    <2>2. QED
      BY <1>2, <1>4, <2>1, PTL DEF CoordSpec
  <1>6. QED
    BY <1>5

-----------------------------------------------------------------------------
\* Further invariants, for what is left between calls.
\* No registry operation of a Shutdown has failed; a run that nobody has disconnected is
\* connected, and has its locks until they are released.
At(c, places) == \E t \in Threads : CoordOf[t] = c /\ call[t].at \in places
NoneFailed == \A t \in Threads : ShuttingDown(t) => ~call[t].failed
KeptInv == \A c \in Coords : mem[c].started /\ ~At(c, {"clearing"}) => RunLocks(c)
StartedInv ==
  \A c \in Coords : mem[c].started /\ ~At(c, {"unregister", "releasing", "clearing"}) => conn[c].id = mem[c].id

\* The runs that a coordinator and its calls name are no other coordinator's.
RunOf(t) == IF Begun(t) THEN call[t].prof.n ELSE IF Naming(t) THEN call[t].id ELSE 0
Ids(c) == ({mem[c].id} \cup {RunOf(t) : t \in {u \in Threads : CoordOf[u] = c}}) \ {0}
IdsInv == \A c \in Coords : \A d \in Coords \ {c} : Ids(c) \cap Ids(d) = {}

\* The entries are those of the Starts that have registered, and of the runs that no
\* Shutdown has taken out; a Reconnect changes the app of the entry before the run's.
Entering(t, e) == call[t].at \in {"adapter", "commit"} /\ e.id = call[t].prof.n /\ e.app = call[t].app
Moving(t) == call[t].at = "swap" /\ call[t].id = mem[CoordOf[t]].id
EntryApp(c, a) ==
  \/ \E t \in Threads : CoordOf[t] = c /\ Moving(t) /\ a = call[t].app
  \/ a = mem[c].app /\ \A t \in Threads : CoordOf[t] = c => ~Moving(t)
Entered(c, e) ==
  /\ mem[c].started /\ ~At(c, {"releasing", "clearing"})
  /\ e.id = mem[c].id /\ EntryApp(c, e.app)
Registered(e) == Entered(e.by, e) \/ \E t \in Threads : CoordOf[t] = e.by /\ Entering(t, e)
RegInv == \A e \in Entries : e \in registry <=> Registered(e)

\* A lock object is held under one name only.
OnceInv ==
  /\ \A l \in Names : held[l] # Free => held[l].n <= serial
  /\ \A k, l \in Names : held[k] = held[l] /\ held[k] # Free => k = l

\* Where nobody else overlaps a Reconnect: a Shutdown releases all that its coordinator
\* has, and whatever is held is known to somebody who will release it.
ToGive(t) == IF call[t].at = "releaseOld" /\ call[t].next # Free THEN Own(t) \cup {call[t].old} ELSE Own(t)
ObjectsInv ==
  \A t \in Threads : ShuttingDown(t) /\ ReconnectsAlone(CoordOf[t]) => call[t].objects = MemRefs(CoordOf[t])
OwnedBy(c, o) == (o \in MemRefs(c) /\ ~At(c, {"clearing"})) \/ \E t \in Threads : CoordOf[t] = c /\ o \in ToGive(t)
OwnersInv == \A c \in Coords : ReconnectsAlone(c) =>
  \A l \in Names, o \in Objects : held[l] = o /\ o.by = c => OwnedBy(c, o)

Order == NoneFailed /\ KeptInv /\ StartedInv /\ IdsInv /\ RegInv /\ OnceInv /\ ObjectsInv /\ OwnersInv

\* A step of t moves nothing of another call or another coordinator.
LEMMA CallsOfOthers ==
  ASSUME CoordAssumption, Careful, IInv, NEW t \in Threads, CallStep(t)
  PROVE  /\ \A u \in Threads \ {t} : call'[u] = call[u]
         /\ \A d \in Coords \ {CoordOf[t]} : mem'[d] = mem[d] /\ conn'[d] = conn[d]
         /\ \A d \in Coords \ {CoordOf[t]}, u \in Threads : CoordOf[u] = d => call'[u] = call[u]
         /\ \A d \in Coords \ {CoordOf[t]} : MemRefs(d)' = MemRefs(d)
  BY StepChanges DEF Changes, MemRefs

\* With a registry that can be written no Shutdown fails halfway.
LEMMA NoneFailedStep ==
  ASSUME CoordAssumption, Careful, IInv, NoneFailed, NEW t \in Threads, CallStep(t) PROVE NoneFailed'
  <1> DEFINE Sound == ShuttingDown(t)' => ~call'[t].failed
  <1>0. /\ Types /\ BoundInv /\ OwnInv /\ MemInv /\ StartInv /\ ShutdownInv /\ ReconnectInv /\ IdInv
        /\ HoldInv /\ ConnInv /\ RunInv
    BY DEF IInv, Invs
  <1>1. ShuttingDown(t) => ~call[t].failed
    BY DEF NoneFailed
  <1>2. SUFFICES Sound
    BY CallsOfOthers DEF NoneFailed, ShuttingDown
  <1>10. ASSUME NEW a \in Apps, StartCall(t, a) PROVE Sound
    BY <1>0, <1>1, <1>10, StartCallDoes DEF ShuttingDown, NoCall
  <1>11. CASE StartProfile(t)
    BY <1>0, <1>1, <1>11, StartProfileDoes DEF ShuttingDown, NoCall
  <1>12. CASE StartApp(t)
    BY <1>0, <1>1, <1>12, StartAppDoes DEF ShuttingDown, NoCall
  <1>13. CASE StartRegister(t)
    BY <1>0, <1>1, <1>13, StartRegisterDoes DEF ShuttingDown, NoCall
  <1>14. CASE StartAdapter(t)
    BY <1>0, <1>1, <1>14, StartAdapterDoes DEF ShuttingDown, NoCall
  <1>15. CASE StartCommit(t)
    BY <1>0, <1>1, <1>15, StartCommitDoes DEF ShuttingDown, NoCall
  <1>16. CASE ShutdownCall(t)
    BY <1>0, <1>1, <1>16, ShutdownCallDoes DEF ShuttingDown, NoCall
  <1>17. CASE ShutdownHandle(t)
    BY <1>0, <1>1, <1>17, ShutdownHandleDoes DEF ShuttingDown, NoCall
  <1>18. CASE ShutdownUnregister(t)
    BY <1>0, <1>1, <1>18, ShutdownUnregisterDoes DEF ShuttingDown, NoCall
  <1>19. CASE ShutdownRelease(t)
    BY <1>0, <1>1, <1>19, ShutdownReleaseDoes DEF ShuttingDown, NoCall
  <1>20. CASE ShutdownEnd(t)
    BY <1>0, <1>1, <1>20, ShutdownEndDoes DEF ShuttingDown, NoCall
  <1>21. ASSUME NEW a \in Apps, ReconnectCall(t, a) PROVE Sound
    <2>1. call'[t].at \in {"hook", "next"}
      BY <1>0, <1>21, ReconnectCallDoes
    <2>2. QED
      BY <2>1 DEF ShuttingDown
  <1>22. CASE ReconnectLock(t)
    BY <1>0, <1>1, <1>22, ReconnectLockDoes DEF ShuttingDown, NoCall
  <1>23. CASE ReconnectHook(t)
    BY <1>0, <1>1, <1>23, ReconnectHookDoes DEF ShuttingDown, NoCall
  <1>24. CASE ReconnectUpdate(t)
    BY <1>0, <1>1, <1>24, ReconnectUpdateDoes DEF ShuttingDown, NoCall
  <1>25. CASE ReconnectSwap(t)
    <2>1. call'[t].at = "releaseOld"
      BY <1>0, <1>25, ReconnectSwapDoes
    <2>2. QED
      BY <2>1 DEF ShuttingDown
  <1>26. CASE ReconnectRelease(t)
    BY <1>0, <1>1, <1>26, ReconnectReleaseDoes DEF ShuttingDown, NoCall
  <1>27. QED
    BY <1>10, <1>11, <1>12, <1>13, <1>14, <1>15, <1>16, <1>17, <1>18, <1>19, <1>20, <1>21, <1>22, <1>23, <1>24, <1>25, <1>26 DEF CallStep

\* A run has its locks until a Shutdown has released them.
KeptOf(c) == mem[c].started /\ ~At(c, {"clearing"}) => RunLocks(c)
LEMMA KeptStep ==
  ASSUME CoordAssumption, Careful, IInv, NoneFailed, KeptInv, NEW t \in Threads, CallStep(t) PROVE KeptInv'
  <1> DEFINE c == CoordOf[t]
  <1>0. /\ Types /\ BoundInv /\ OwnInv /\ MemInv /\ StartInv /\ ShutdownInv /\ ReconnectInv /\ IdInv
        /\ HoldInv /\ ConnInv /\ RunInv
    BY DEF IInv, Invs
  <1>1. c \in Coords /\ KeptOf(c) /\ MemOK(c)
    BY <1>0, FieldTypes DEF KeptInv, KeptOf, MemInv
  <1>2. ASSUME NEW d \in Coords \ {c} PROVE KeptOf(d)'
    <2>1. /\ mem'[d] = mem[d] /\ KeptOf(d) /\ MemRefs(d)' = MemRefs(d)
          /\ At(d, {"clearing"})' <=> At(d, {"clearing"})
      BY CallsOfOthers DEF KeptInv, KeptOf, At
    <2>2. ASSUME mem[d].started, RunLocks(d) PROVE RunLocks(d)'
      <3>1. /\ ProfileOf[d] \in Names /\ mem[d].app \in Names
            /\ mem[d].prof \in MemRefs(d) /\ mem[d].lock \in MemRefs(d)
        BY <2>2, RunNames
      <3>2. MemRefs(d) \cap Refs(t) = {} /\ Free \notin MemRefs(d)
        BY <1>0 DEF BoundInv, MemRefs
      <3>3. \A l \in Names : held[l] \in MemRefs(d) => held'[l] = held[l]
        BY <3>2, StepChanges DEF Changes
      <3>4. QED
        BY <2>1, <2>2, <3>1, <3>3 DEF RunLocks
    <2>3. QED
      BY <2>1, <2>2 DEF KeptOf
  <1>3. call[t].at # "clearing" /\ At(c, {"clearing"}) => At(c, {"clearing"})'
    BY CallsOfOthers DEF At
  <1>4. ASSUME ~ShutdownRelease(t), mem[c].started, RunLocks(c),
               SameRun(c), mem'[c].app = mem[c].app, mem'[c].lock = mem[c].lock
        PROVE  RunLocks(c)'
    BY <1>1, <1>4, RunNames, KeepsLocks DEF RunLocks, SameRun
  <1>5. ASSUME ~ShutdownRelease(t), call[t].at # "clearing",
               SameRun(c), mem'[c].app = mem[c].app, mem'[c].lock = mem[c].lock
        PROVE  KeptOf(c)'
    BY <1>1, <1>3, <1>4, <1>5 DEF KeptOf, SameRun
  <1>6. (UNCHANGED mem => SameRun(c)) /\ (ShutdownRelease(t) => call[t].at = "releasing")
    BY DEF SameRun, ShutdownRelease
  <1>7. SUFFICES KeptOf(c)'
    BY <1>2 DEF KeptInv, KeptOf
  <1>10. ASSUME NEW a \in Apps, StartCall(t, a) PROVE KeptOf(c)'
    BY <1>0, <1>5, <1>6, <1>10, StartCallDoes DEF NoCall
  <1>11. CASE StartProfile(t)
    BY <1>0, <1>5, <1>6, <1>11, StartProfileDoes DEF NoCall
  <1>12. CASE StartApp(t)
    BY <1>0, <1>5, <1>6, <1>12, StartAppDoes DEF NoCall
  <1>13. CASE StartRegister(t)
    BY <1>0, <1>5, <1>6, <1>13, StartRegisterDoes DEF NoCall
  <1>14. CASE StartAdapter(t)
    BY <1>0, <1>5, <1>6, <1>14, StartAdapterDoes DEF NoCall
  <1>15. CASE StartCommit(t)
    <2>1. CASE mem[c].started
      BY <1>0, <1>5, <1>6, <1>15, <2>1, StartCommitDoes
    <2>2. CASE ~mem[c].started
      <3>1. /\ mem'[c].app = call[t].app /\ mem'[c].prof = call[t].prof /\ mem'[c].lock = call[t].lock
            /\ held' = held /\ BothLocked(t) /\ Begun(t)
        BY <1>0, <1>15, <2>2, StartCommitDoes DEF BothLocked, Begun
      <3>2. QED
        BY <1>0, <3>1 DEF KeptOf, RunLocks, HoldInv, HoldOK
    <2>3. QED
      BY <2>1, <2>2
  <1>16. CASE ShutdownCall(t)
    BY <1>0, <1>5, <1>6, <1>16, ShutdownCallDoes DEF NoCall
  <1>17. CASE ShutdownHandle(t)
    BY <1>0, <1>5, <1>6, <1>17, ShutdownHandleDoes DEF NoCall
  <1>18. CASE ShutdownUnregister(t)
    BY <1>0, <1>5, <1>6, <1>18, ShutdownUnregisterDoes DEF NoCall
  <1>19. CASE ShutdownRelease(t)
    BY <1>0, <1>19, ShutdownReleaseDoes DEF KeptOf, At
  <1>20. CASE ShutdownEnd(t)
    <2>1. mem'[c] = Stopped
      BY <1>0, <1>20, ShutdownEndDoes DEF NoneFailed, ShuttingDown
    <2>2. QED
      BY <2>1 DEF KeptOf, Stopped
  <1>21. ASSUME NEW a \in Apps, ReconnectCall(t, a) PROVE KeptOf(c)'
    BY <1>0, <1>5, <1>6, <1>21, ReconnectCallDoes DEF NoCall
  <1>22. CASE ReconnectLock(t)
    BY <1>0, <1>5, <1>6, <1>22, ReconnectLockDoes DEF NoCall
  <1>23. CASE ReconnectHook(t)
    BY <1>0, <1>5, <1>6, <1>23, ReconnectHookDoes DEF NoCall
  <1>24. CASE ReconnectUpdate(t)
    BY <1>0, <1>5, <1>6, <1>24, ReconnectUpdateDoes DEF NoCall
  <1>25. CASE ReconnectSwap(t)
    <2>0. call[t].at = "swap" /\ Swapping(t) /\ Reconnecting(t) /\ call[t] \in ReconnectCalls
      BY <1>0, <1>25, ReconnectSwapDoes, CallKinds DEF Reconnecting, Swapping
    <2>1. CASE mem[c].id # call[t].id
      BY <1>0, <1>5, <1>6, <1>25, <2>0, <2>1, ReconnectSwapDoes
    <2>2. CASE mem[c].id = call[t].id
      <3>0. /\ SameRun(c) /\ UNCHANGED held /\ mem'[c].app = call[t].app
            /\ mem'[c].lock = IF call[t].next = Free THEN mem[c].lock ELSE call[t].next
        BY <1>0, <1>25, <2>2, ReconnectSwapDoes
      <3>1. call[t].next = Free => call[t].app = mem[c].app
        BY <1>0, <2>0, <2>2 DEF ReconnectInv, ReconnectOK
      <3>2. call[t].next # Free => held[call[t].app] = call[t].next
        BY <1>0, <2>0 DEF HoldInv, HoldOK
      <3>3. RunLocks(c) => RunLocks(c)'
        BY <3>0, <3>1, <3>2 DEF RunLocks, SameRun
      <3>4. QED
        BY <1>1, <1>3, <2>0, <3>0, <3>3 DEF KeptOf, SameRun
    <2>3. QED
      BY <2>1, <2>2
  <1>26. CASE ReconnectRelease(t)
    BY <1>0, <1>5, <1>6, <1>26, ReconnectReleaseDoes DEF NoCall
  <1>27. QED
    BY <1>10, <1>11, <1>12, <1>13, <1>14, <1>15, <1>16, <1>17, <1>18, <1>19, <1>20, <1>21, <1>22, <1>23, <1>24, <1>25, <1>26 DEF CallStep

\* A Start that has the profile's lock finds no run but one whose locks are released.
LEMMA StartedBlocks ==
  ASSUME CoordAssumption, IInv, KeptInv, NEW t \in Threads, Begun(t), mem[CoordOf[t]].started
  PROVE  At(CoordOf[t], {"clearing"})
  <1> DEFINE c == CoordOf[t]
  <1>0. /\ Types /\ BoundInv /\ OwnInv /\ MemInv /\ StartInv /\ ShutdownInv /\ ReconnectInv /\ IdInv
        /\ HoldInv /\ ConnInv /\ RunInv
    BY DEF IInv, Invs
  <1>1. c \in Coords /\ Free \notin Objects
    BY <1>0, FieldTypes
  <1>2. call[t].prof \in Own(t) /\ held[ProfileOf[c]] = call[t].prof
    BY <1>0, <1>1 DEF Own, StartInv, StartOK, HoldInv, HoldOK
  <1>3. mem[c].prof \in MemRefs(c) /\ Own(t) \cap MemRefs(c) = {}
    BY <1>0, <1>1, RunNames DEF OwnInv
  <1>4. ~RunLocks(c)
    BY <1>2, <1>3 DEF RunLocks
  <1>5. QED
    BY <1>1, <1>4 DEF KeptInv

\* A run is connected until a Shutdown has disconnected it.
StartedOf(c) == mem[c].started /\ ~At(c, {"unregister", "releasing", "clearing"}) => conn[c].id = mem[c].id
LEMMA StartedStep ==
  ASSUME CoordAssumption, Careful, IInv, NoneFailed, KeptInv, StartedInv, NEW t \in Threads, CallStep(t)
  PROVE  StartedInv'
  <1> DEFINE c == CoordOf[t]
  <1>0. /\ Types /\ BoundInv /\ OwnInv /\ MemInv /\ StartInv /\ ShutdownInv /\ ReconnectInv /\ IdInv
        /\ HoldInv /\ ConnInv /\ RunInv
    BY DEF IInv, Invs
  <1> DEFINE Leaving == {"unregister", "releasing", "clearing"}
  <1>1. c \in Coords /\ StartedOf(c)
    BY <1>0, FieldTypes DEF StartedInv, StartedOf
  <1>2. ASSUME NEW d \in Coords \ {c} PROVE StartedOf(d)'
    <2>1. /\ mem'[d] = mem[d] /\ conn'[d] = conn[d] /\ StartedOf(d)
          /\ At(d, Leaving)' <=> At(d, Leaving)
      BY CallsOfOthers DEF StartedInv, StartedOf, At
    <2>2. QED
      BY <2>1 DEF StartedOf
  <1>3. call[t].at \notin Leaving /\ At(c, Leaving) => At(c, Leaving)'
    BY CallsOfOthers DEF At
  <1>4. ASSUME conn'[c].id = conn[c].id, SameRun(c), call[t].at \notin Leaving PROVE StartedOf(c)'
    BY <1>1, <1>3, <1>4 DEF StartedOf, SameRun
  <1>5. ASSUME call'[t].at \in Leaving PROVE StartedOf(c)'
    BY <1>5 DEF StartedOf, At
  <1>6. ASSUME Begun(t), mem[c].started PROVE StartedOf(c)'
    <2>1. call[t].at \notin Leaving /\ At(c, Leaving)
      BY <1>6, StartedBlocks DEF Begun, At
    <2>2. QED
      BY <1>3, <2>1 DEF StartedOf
  <1>7. UNCHANGED mem => SameRun(c)
    BY DEF SameRun
  <1>8. SUFFICES StartedOf(c)'
    BY <1>2 DEF StartedInv, StartedOf
  <1>10. ASSUME NEW a \in Apps, StartCall(t, a) PROVE StartedOf(c)'
    BY <1>0, <1>4, <1>7, <1>10, StartCallDoes DEF NoCall
  <1>11. CASE StartProfile(t)
    BY <1>0, <1>4, <1>7, <1>11, StartProfileDoes DEF NoCall
  <1>12. CASE StartApp(t)
    BY <1>0, <1>4, <1>7, <1>12, StartAppDoes DEF NoCall
  <1>13. CASE StartRegister(t)
    BY <1>0, <1>4, <1>7, <1>13, StartRegisterDoes DEF NoCall
  <1>14. CASE StartAdapter(t)
    BY <1>0, <1>4, <1>6, <1>7, <1>14, StartAdapterDoes DEF StartedOf, Begun
  <1>15. CASE StartCommit(t)
    <2>1. CASE mem[c].started
      BY <1>0, <1>6, <1>15, <2>1, StartCommitDoes DEF Begun
    <2>2. CASE ~mem[c].started
      <3>1. conn' = conn /\ mem'[c].id = call[t].prof.n /\ call[t].at = "commit" /\ Begun(t)
        BY <1>0, <1>15, <2>2, StartCommitDoes DEF Begun
      <3>2. QED
        BY <1>0, <3>1 DEF StartedOf, ConnInv
    <2>3. QED
      BY <2>1, <2>2
  <1>16. CASE ShutdownCall(t)
    BY <1>0, <1>4, <1>7, <1>16, ShutdownCallDoes DEF NoCall
  <1>17. CASE ShutdownHandle(t)
    BY <1>0, <1>4, <1>5, <1>7, <1>17, ShutdownHandleDoes
  <1>18. CASE ShutdownUnregister(t)
    BY <1>0, <1>5, <1>18, ShutdownUnregisterDoes
  <1>19. CASE ShutdownRelease(t)
    BY <1>0, <1>5, <1>19, ShutdownReleaseDoes
  <1>20. CASE ShutdownEnd(t)
    <2>1. mem'[c] = Stopped
      BY <1>0, <1>20, ShutdownEndDoes DEF NoneFailed, ShuttingDown
    <2>2. QED
      BY <2>1 DEF StartedOf, Stopped
  <1>21. ASSUME NEW a \in Apps, ReconnectCall(t, a) PROVE StartedOf(c)'
    BY <1>0, <1>4, <1>7, <1>21, ReconnectCallDoes DEF NoCall
  <1>22. CASE ReconnectLock(t)
    BY <1>0, <1>4, <1>7, <1>22, ReconnectLockDoes DEF NoCall
  <1>23. CASE ReconnectHook(t)
    BY <1>0, <1>4, <1>7, <1>23, ReconnectHookDoes DEF NoCall
  <1>24. CASE ReconnectUpdate(t)
    BY <1>0, <1>4, <1>7, <1>24, ReconnectUpdateDoes DEF NoCall
  <1>25. CASE ReconnectSwap(t)
    BY <1>0, <1>4, <1>7, <1>25, ReconnectSwapDoes DEF NoCall
  <1>26. CASE ReconnectRelease(t)
    BY <1>0, <1>4, <1>7, <1>26, ReconnectReleaseDoes DEF NoCall
  <1>27. QED
    BY <1>10, <1>11, <1>12, <1>13, <1>14, <1>15, <1>16, <1>17, <1>18, <1>19, <1>20, <1>21, <1>22, <1>23, <1>24, <1>25, <1>26 DEF CallStep

\* The run a call names is one that was named, or a new one.
LEMMA RunOfSteps ==
  ASSUME CoordAssumption, Careful, IInv, NEW t \in Threads, CallStep(t)
  PROVE  /\ RunOf(t)' \in {0, RunOf(t), mem[CoordOf[t]].id, serial + 1}
         /\ mem'[CoordOf[t]].id \in {0, RunOf(t), mem[CoordOf[t]].id}
  <1>1. Fresh(CoordOf[t]).n = serial + 1 /\ ~(Begun(t) /\ Naming(t))
    BY DEF Fresh, Begun, Naming, ShuttingDown, Reconnecting
  <1>2. QED
    BY <1>1, NameSources DEF RunOf

\* The names are of runs there have been.
LEMMA IdsAreMade ==
  ASSUME CoordAssumption, IInv, NEW c \in Coords PROVE Ids(c) \subseteq 1 .. serial
  <1>1. serial \in Nat /\ mem[c].id \in 0 .. serial
    BY RunIds DEF IInv, Types
  <1>2. ASSUME NEW t \in Threads PROVE RunOf(t) \in 0 .. serial
    <2>1. CASE Begun(t)
      <3>1. call[t].prof \in Refs(t) /\ call[t].prof \in Objects
        BY <2>1, FieldTypes DEF IInv, Invs, StartInv, StartOK, Refs
      <3>2. call[t].prof.n \in 1 .. serial
        BY <1>1, <3>1, KnownTypes DEF IInv, Invs, BoundInv
      <3>3. QED
        BY <2>1, <3>2 DEF RunOf
    <2>2. CASE ~Begun(t)
      BY <1>1, <2>2 DEF RunOf, IInv, Invs, IdInv
    <2>3. QED
      BY <2>1, <2>2
  <1>3. QED
    BY <1>1, <1>2 DEF Ids

\* So no two coordinators ever name one run.
LEMMA IdsStep ==
  ASSUME CoordAssumption, Careful, IInv, IdsInv, NEW t \in Threads, CallStep(t) PROVE IdsInv'
  <1> DEFINE c == CoordOf[t]
  <1>1. c \in Coords /\ serial \in Nat /\ \A u \in Threads \ {t} : RunOf(u)' = RunOf(u)
    BY FieldTypes, CallsOfOthers DEF IInv, Types, RunOf, Begun, Naming, ShuttingDown, Reconnecting
  <1>2. ASSUME NEW d \in Coords \ {c} PROVE Ids(d)' = Ids(d)
    <2>1. mem'[d] = mem[d] /\ \A u \in Threads : CoordOf[u] = d => RunOf(u)' = RunOf(u)
      BY <1>1, CallsOfOthers
    <2>2. QED
      BY <2>1 DEF Ids
  <1>3. Ids(c)' \subseteq Ids(c) \cup {serial + 1}
    <2>1. mem[c].id \in Ids(c) \cup {0} /\ \A u \in Threads : CoordOf[u] = c => RunOf(u) \in Ids(c) \cup {0}
      BY DEF Ids
    <2>2. RunOf(t)' \in Ids(c) \cup {0, serial + 1} /\ mem'[c].id \in Ids(c) \cup {0}
      BY <2>1, RunOfSteps
    <2>3. \A u \in Threads : CoordOf[u] = c => RunOf(u)' \in Ids(c) \cup {0, serial + 1}
      BY <1>1, <2>1, <2>2
    <2>4. QED
      BY <2>2, <2>3 DEF Ids
  <1>4. ASSUME NEW d \in Coords \ {c} PROVE Ids(c)' \cap Ids(d)' = {}
    <2>1. serial + 1 \notin Ids(d)
      BY <1>1, IdsAreMade
    <2>2. QED
      BY <1>1, <1>2, <1>3, <2>1 DEF IdsInv
  <1>5. QED
    BY <1>2, <1>4 DEF IdsInv

\* Every entry's process has both locks.
LEMMA AllLive ==
  ASSUME CoordAssumption, IInv, KeptInv, RegInv PROVE Live = registry
  <1>0. /\ Types /\ BoundInv /\ OwnInv /\ MemInv /\ StartInv /\ ShutdownInv /\ ReconnectInv /\ IdInv
        /\ HoldInv /\ ConnInv /\ RunInv
    BY DEF IInv, Invs
  <1>1. SUFFICES ASSUME NEW e \in registry PROVE held[ProfileOf[e.by]].by = e.by /\ held[e.app].by = e.by
    BY DEF Live
  <1>2. PICK b \in Coords : b = e.by
    BY <1>0 DEF Types, Entries
  <1>3. Registered(e)
    BY <1>0, <1>1 DEF RegInv, Types
  <1>4. Free \notin Objects
    BY DEF Free, Objects, CoordAssumption
  <1>5. CASE Entered(b, e)
    <2>1. mem[b].started /\ RunLocks(b)
      BY <1>5 DEF KeptInv, Entered, At
    <2>2. mem[b].prof.by = b /\ mem[b].lock.by = b /\ mem[b].id # 0
      BY <1>0, <2>1, RunNames DEF BoundInv
    <2>3. CASE e.app = mem[b].app
      BY <1>2, <2>1, <2>2, <2>3 DEF RunLocks
    <2>4. ASSUME NEW t \in Threads, CoordOf[t] = b, Moving(t), e.app = call[t].app PROVE held[e.app].by = b
      <3>1. Swapping(t) /\ Reconnecting(t) /\ call[t].id = mem[b].id /\ ~Begun(t) /\ ~ShuttingDown(t)
        BY <2>4 DEF Moving, Swapping, Reconnecting, Begun, ShuttingDown
      <3>2. CASE call[t].next = Free
        <4>1. call[t].app = mem[b].app
          BY <1>0, <2>4, <3>1, <3>2 DEF ReconnectInv, ReconnectOK
        <4>2. QED
          BY <2>1, <2>2, <2>4, <4>1 DEF RunLocks
      <3>3. CASE call[t].next # Free
        <4>1. held[call[t].app] = call[t].next /\ call[t].next \in Refs(t)
          BY <1>0, <3>1, <3>3 DEF HoldInv, HoldOK, Refs
        <4>2. QED
          BY <1>0, <2>4, <4>1 DEF BoundInv
      <3>4. QED
        BY <3>2, <3>3
    <2>5. QED
      BY <1>2, <1>5, <2>1, <2>2, <2>3, <2>4 DEF Entered, EntryApp, RunLocks
  <1>6. ASSUME NEW t \in Threads, CoordOf[t] = b, Entering(t, e)
        PROVE  held[ProfileOf[e.by]].by = e.by /\ held[e.app].by = e.by
    <2>1. Begun(t) /\ BothLocked(t) /\ e.app = call[t].app
      BY <1>6 DEF Entering, Begun, BothLocked
    <2>2. held[ProfileOf[b]] = call[t].prof /\ held[e.app] = call[t].lock
      BY <1>0, <1>6, <2>1 DEF HoldInv, HoldOK
    <2>3. call[t].prof \in Refs(t) /\ call[t].lock \in Refs(t)
      BY <1>0, <1>4, <2>1 DEF StartInv, StartOK, Refs
    <2>4. QED
      BY <1>0, <1>2, <1>6, <2>2, <2>3 DEF BoundInv
  <1>7. QED
    BY <1>2, <1>3, <1>5, <1>6 DEF Registered

\* An entry is named by a run of its coordinator.
LEMMA EntriesNamed ==
  ASSUME CoordAssumption, IInv, NEW e \in Entries, Registered(e) PROVE e.id \in Ids(e.by)
  <1>1. PICK b \in Coords : b = e.by
    BY DEF Entries
  <1>2. e.id # 0
    BY DEF Entries
  <1>3. CASE Entered(b, e)
    BY <1>1, <1>2, <1>3 DEF Entered, Ids
  <1>4. ASSUME NEW t \in Threads, CoordOf[t] = b, Entering(t, e) PROVE e.id \in Ids(b)
    <2>1. RunOf(t) = e.id
      BY <1>4 DEF Entering, RunOf, Begun
    <2>2. QED
      BY <1>2, <1>4, <2>1 DEF Ids
  <1>5. QED
    BY <1>1, <1>3, <1>4 DEF Registered

\* The entry of a Start is not that of the run, nor of a run that somebody names.
LEMMA EntriesOfOne ==
  ASSUME CoordAssumption, IInv, NEW e \in Entries, NEW t \in Threads, Begun(t), CoordOf[t] = e.by
  PROVE  /\ e.id = call[t].prof.n => ~Entered(e.by, e)
         /\ \A u \in Threads : CoordOf[u] = e.by /\ Entering(u, e) => u = t
  <1>1. mem[CoordOf[t]].id # call[t].prof.n
    BY DEF IInv, Invs, IdInv
  <1>2. \A u \in Threads : CoordOf[u] = e.by /\ Entering(u, e) => u = t
    BY OneStart DEF Entering, Begun
  <1>3. QED
    BY <1>1, <1>2 DEF Entered

\* The last places of a Shutdown; a step of another coordinator changes no entry of this one's.
Last == {"releasing", "clearing"}
LEMMA RegOthers ==
  ASSUME CoordAssumption, Careful, IInv, NEW t \in Threads, CallStep(t), NEW e \in Entries, e.by # CoordOf[t]
  PROVE  Registered(e)' <=> Registered(e)
  <1>1. PICK b \in Coords \ {CoordOf[t]} : b = e.by
    BY DEF Entries
  <1>2. /\ mem'[b] = mem[b] /\ \A u \in Threads : CoordOf[u] = b => call'[u] = call[u]
    BY CallsOfOthers
  <1>3. /\ At(b, Last)' <=> At(b, Last)
        /\ \A u \in Threads : CoordOf[u] = b => (Moving(u)' <=> Moving(u))
        /\ \A u \in Threads : CoordOf[u] = b => (Entering(u, e)' <=> Entering(u, e))
    BY <1>2 DEF At, Moving, Entering
  <1>4. EntryApp(b, e.app)' <=> EntryApp(b, e.app)
    BY <1>2, <1>3 DEF EntryApp
  <1>5. Entered(b, e)' <=> Entered(b, e)
    BY <1>2, <1>3, <1>4 DEF Entered, Last
  <1>6. QED
    BY <1>1, <1>3, <1>5 DEF Registered

\* A step that no entry of its coordinator's run depends on.
LEMMA EnteredSame ==
  ASSUME CoordAssumption, Careful, IInv, NEW t \in Threads, CallStep(t), NEW e \in Entries,
         mem'[CoordOf[t]].started = mem[CoordOf[t]].started, mem'[CoordOf[t]].id = mem[CoordOf[t]].id,
         mem'[CoordOf[t]].app = mem[CoordOf[t]].app,
         call[t].at \in Last <=> call'[t].at \in Last, ~Moving(t), ~Moving(t)'
  PROVE  Entered(CoordOf[t], e)' <=> Entered(CoordOf[t], e)
  <1> DEFINE c == CoordOf[t]
  <1>1. \A u \in Threads \ {t} : call'[u] = call[u]
    BY CallsOfOthers
  <1>2. At(c, Last)' <=> At(c, Last)
    BY <1>1 DEF At
  <1>3. \A u \in Threads : CoordOf[u] = c => (Moving(u)' <=> Moving(u))
    BY <1>1 DEF Moving
  <1>4. EntryApp(c, e.app)' <=> EntryApp(c, e.app)
    BY <1>1, <1>3 DEF EntryApp
  <1>5. QED
    BY <1>2, <1>4 DEF Entered, Last

\* Nor does it change what another Start has entered.
LEMMA EnteringOthers ==
  ASSUME CoordAssumption, Careful, IInv, NEW t \in Threads, CallStep(t), NEW e \in Entries
  PROVE  \A u \in Threads \ {t} : Entering(u, e)' <=> Entering(u, e)
  BY CallsOfOthers DEF Entering

\* What is left to show of a step: the registry is that of the entries after it.
Fits == \A e \in Entries : e \in registry' <=> Registered(e)'

\* A step that leaves the registry alone.
LEMMA RegKept ==
  ASSUME CoordAssumption, Careful, IInv, RegInv, NEW t \in Threads, CallStep(t), UNCHANGED registry,
         \A e \in Entries : e.by = CoordOf[t] => (Registered(e)' <=> Registered(e))
  PROVE  Fits
  <1>1. ASSUME NEW e \in Entries PROVE Registered(e)' <=> Registered(e)
    BY RegOthers
  <1>2. QED
    BY <1>1 DEF Fits, RegInv

\* A step that comes before the entry, or after it is gone.
LEMMA RegPlain ==
  ASSUME CoordAssumption, Careful, IInv, RegInv, NEW t \in Threads, CallStep(t), UNCHANGED registry,
         SameRun(CoordOf[t]), mem'[CoordOf[t]].app = mem[CoordOf[t]].app,
         call[t].at \notin {"adapter", "commit", "swap", "releasing", "clearing"},
         call'[t].at \notin {"adapter", "commit", "swap", "releasing", "clearing"}
  PROVE  Fits
  <1>1. SUFFICES ASSUME NEW e \in Entries, e.by = CoordOf[t] PROVE Registered(e)' <=> Registered(e)
    BY RegKept
  <1>2. Entered(CoordOf[t], e)' <=> Entered(CoordOf[t], e)
    BY EnteredSame DEF Moving, Last, SameRun
  <1>3. \A u \in Threads : Entering(u, e)' <=> Entering(u, e)
    BY EnteringOthers DEF Entering
  <1>4. QED
    BY <1>1, <1>2, <1>3 DEF Registered

\* A Start that fails takes out its entry, and no other.
LEMMA RegUndo ==
  ASSUME CoordAssumption, Careful, IInv, KeptInv, IdsInv, RegInv, NEW t \in Threads, CallStep(t),
         StartUndo(t), BothLocked(t), UNCHANGED mem, call'[t] = NoCall
  PROVE  Fits
  <1> DEFINE c == CoordOf[t]
  <1>0. /\ Begun(t) /\ call[t].at \notin Last /\ ~Moving(t) /\ call'[t].at \notin Last /\ ~Moving(t)'
        /\ c \in Coords /\ \A e \in Entries : ~Entering(t, e)'
    BY FieldTypes DEF BothLocked, Begun, Last, Moving, Entering, NoCall, IInv
  <1>1. registry' = {e \in registry : e.id # call[t].prof.n}
    BY AllLive DEF StartUndo, Unregistered, Careful
  <1>2. SUFFICES ASSUME NEW e \in Entries PROVE e \in registry' <=> Registered(e)'
    BY DEF Fits
  <1>3. CASE e.by # c
    <2>1. call[t].prof.n \in Ids(c)
      BY <1>0 DEF Ids, RunOf, IInv, Invs, StartInv, StartOK, Objects
    <2>2. e \in registry => e.id # call[t].prof.n
      <3>1. e \in registry => e.id \in Ids(e.by) /\ e.by \in Coords \ {c}
        BY <1>3, EntriesNamed DEF RegInv, Entries
      <3>2. QED
        BY <1>0, <2>1, <3>1 DEF IdsInv
    <2>3. QED
      BY <1>1, <1>3, <2>2, RegOthers DEF RegInv
  <1>4. CASE e.by = c
    <2>1. Entered(c, e)' <=> Entered(c, e)
      BY <1>0, EnteredSame
    <2>2. \A u \in Threads : CoordOf[u] = c => ~Entering(u, e)'
      BY <1>0, <1>4, EntriesOfOne, EnteringOthers
    <2>3. Registered(e)' <=> Entered(c, e)
      BY <1>4, <2>1, <2>2 DEF Registered
    <2>4. e.id = call[t].prof.n => ~Entered(c, e)
      BY <1>0, <1>4, EntriesOfOne
    <2>5. e.id # call[t].prof.n => (Registered(e) <=> Entered(c, e))
      <3>1. ASSUME e.id # call[t].prof.n, NEW u \in Threads, CoordOf[u] = c PROVE ~Entering(u, e)
        BY <1>0, <1>4, <3>1, EntriesOfOne DEF Entering
      <3>2. QED
        BY <1>4, <3>1 DEF Registered
    <2>6. QED
      BY <1>1, <2>3, <2>4, <2>5 DEF RegInv
  <1>5. QED
    BY <1>3, <1>4

\* A Start enters itself, and stays entered until it commits or gives up.
LEMMA RegRegister ==
  ASSUME CoordAssumption, Careful, IInv, KeptInv, IdsInv, RegInv, NEW t \in Threads, StartRegister(t), CallStep(t)
  PROVE  Fits
  <1> DEFINE c == CoordOf[t]
  <1>0. /\ Types /\ BoundInv /\ OwnInv /\ MemInv /\ StartInv /\ ShutdownInv /\ ReconnectInv /\ IdInv
        /\ HoldInv /\ ConnInv /\ RunInv
    BY DEF IInv, Invs
  <1> DEFINE new == [id |-> call[t].prof.n, by |-> c, app |-> call[t].app]
  <1>1. /\ c \in Coords /\ call[t].at = "register" /\ BothLocked(t) /\ Begun(t) /\ UNCHANGED mem
        /\ call[t] \in StartCalls
    BY <1>0, StartRegisterDoes, FieldTypes, CallKinds DEF BothLocked, Begun
  <1>2. CASE StartUndo(t)
    BY <1>1, <1>2, RegUndo DEF StartUndo, Finish, IInv, Types
  <1>3. CASE registry' = Live \cup {new} /\ Goto(t, "adapter")
    <2>1. /\ call'[t].at = "adapter" /\ call'[t].app = call[t].app /\ call'[t].prof = call[t].prof
      BY <1>0, <1>1, <1>3, StartMoves
    <2>2. registry' = registry \cup {new}
      BY <1>3, AllLive
    <2>3. SUFFICES ASSUME NEW e \in Entries PROVE e \in registry' <=> Registered(e)'
      BY DEF Fits
    <2>4. CASE e.by # c
      BY <2>2, <2>4, RegOthers DEF RegInv
    <2>5. CASE e.by = c
      <3>1. Entered(c, e)' <=> Entered(c, e)
        BY <1>1, <2>1, EnteredSame DEF Last, Moving
      <3>2. Entering(t, e)' <=> e = new
        BY <2>1, <2>5 DEF Entering, Entries
      <3>3. \A u \in Threads \ {t} : Entering(u, e)' <=> Entering(u, e)
        BY EnteringOthers
      <3>4. ~Entering(t, e)
        BY <1>1 DEF Entering
      <3>5. Registered(e)' <=> Registered(e) \/ e = new
        BY <2>5, <3>1, <3>2, <3>3, <3>4 DEF Registered
      <3>6. QED
        BY <2>2, <3>5 DEF RegInv
    <2>6. QED
      BY <2>4, <2>5
  <1>4. QED
    BY <1>2, <1>3 DEF StartRegister

LEMMA RegAdapter ==
  ASSUME CoordAssumption, Careful, IInv, KeptInv, IdsInv, RegInv, NEW t \in Threads, StartAdapter(t), CallStep(t)
  PROVE  Fits
  <1> DEFINE c == CoordOf[t]
  <1>0. /\ Types /\ BoundInv /\ OwnInv /\ MemInv /\ StartInv /\ ShutdownInv /\ ReconnectInv /\ IdInv
        /\ HoldInv /\ ConnInv /\ RunInv
    BY DEF IInv, Invs
  <1>1. /\ c \in Coords /\ call[t].at = "adapter" /\ BothLocked(t) /\ Begun(t) /\ UNCHANGED mem
        /\ call[t] \in StartCalls
    BY <1>0, StartAdapterDoes, FieldTypes, CallKinds DEF BothLocked, Begun
  <1>2. CASE StartUndo(t)
    BY <1>1, <1>2, RegUndo DEF StartUndo, Finish, IInv, Types
  <1>3. CASE registry' = registry /\ Goto(t, "commit")
    <2>1. /\ call'[t].at = "commit" /\ call'[t].app = call[t].app /\ call'[t].prof = call[t].prof
      BY <1>0, <1>1, <1>3, StartMoves
    <2>2. SUFFICES ASSUME NEW e \in Entries, e.by = c PROVE Registered(e)' <=> Registered(e)
      BY <1>3, RegKept
    <2>3. Entered(c, e)' <=> Entered(c, e)
      BY <1>1, <2>1, EnteredSame DEF Last, Moving
    <2>4. \A u \in Threads : Entering(u, e)' <=> Entering(u, e)
      BY <1>1, <2>1, EnteringOthers DEF Entering
    <2>5. QED
      BY <2>2, <2>3, <2>4 DEF Registered
  <1>4. QED
    BY <1>2, <1>3 DEF StartAdapter

\* A Start that commits makes its entry the run's.
LEMMA RegCommit ==
  ASSUME CoordAssumption, Careful, IInv, KeptInv, IdsInv, RegInv, NEW t \in Threads, StartCommit(t), CallStep(t)
  PROVE  Fits
  <1> DEFINE c == CoordOf[t]
  <1>0. /\ Types /\ BoundInv /\ OwnInv /\ MemInv /\ StartInv /\ ShutdownInv /\ ReconnectInv /\ IdInv
        /\ HoldInv /\ ConnInv /\ RunInv
    BY DEF IInv, Invs
  <1>1. /\ c \in Coords /\ call[t].at = "commit" /\ BothLocked(t) /\ Begun(t) /\ call'[t] = NoCall
        /\ call[t] \in StartCalls
    BY <1>0, StartCommitDoes, FieldTypes, CallKinds DEF BothLocked, Begun
  <1>2. CASE mem[c].started
    BY <1>1, <1>2, RegUndo DEF StartCommit
  <1>3. CASE ~mem[c].started
    <2>1. /\ mem'[c].started /\ mem'[c].app = call[t].app /\ mem'[c].id = call[t].prof.n
          /\ UNCHANGED registry
      BY <1>0, <1>3, StartCommitDoes DEF StartCommit
    <2>2. SUFFICES ASSUME NEW e \in Entries, e.by = c PROVE Registered(e)' <=> Registered(e)
      BY <2>1, RegKept
    <2>3. ~Entered(c, e) /\ \A u \in Threads \ {t} : CoordOf[u] = c => ~Entering(u, e) /\ ~Entering(u, e)'
      BY <1>1, <1>3, <2>2, EntriesOfOne, EnteringOthers DEF Entered
    <2>4. ~Entering(t, e)' /\ (Entering(t, e) <=> e.id = call[t].prof.n /\ e.app = call[t].app)
      BY <1>1 DEF Entering, NoCall
    <2>5. ~At(c, Last)'
      <3>1. \A u \in Threads \ {t} : CoordOf[u] = c => ~ShuttingDown(u) /\ call'[u] = call[u]
        BY <1>0, <1>3, CallsOfOthers DEF ShutdownInv, ShutdownOK
      <3>2. QED
        BY <1>1, <3>1 DEF At, Last, ShuttingDown, NoCall
    <2>6. \A u \in Threads : CoordOf[u] = c => ~Moving(u)'
      <3>1. \A u \in Threads \ {t} : CoordOf[u] = c /\ Naming(u) => call[u].id # call[t].prof.n
        BY <1>0, <1>1 DEF IdInv
      <3>2. QED
        BY <1>1, <2>1, <3>1, CallsOfOthers DEF Moving, Naming, Reconnecting, NoCall
    <2>7. Entered(c, e)' <=> e.id = call[t].prof.n /\ e.app = call[t].app
      BY <2>1, <2>5, <2>6 DEF Entered, EntryApp, Last
    <2>8. QED
      BY <1>1, <2>2, <2>3, <2>4, <2>7 DEF Registered
  <1>4. QED
    BY <1>2, <1>3

\* A Shutdown takes out the entry of its run, and no other.
LEMMA RegUnregister ==
  ASSUME CoordAssumption, Careful, IInv, KeptInv, IdsInv, RegInv, NEW t \in Threads, ShutdownUnregister(t), CallStep(t)
  PROVE  Fits
  <1> DEFINE c == CoordOf[t]
  <1>0. /\ Types /\ BoundInv /\ OwnInv /\ MemInv /\ StartInv /\ ShutdownInv /\ ReconnectInv /\ IdInv
        /\ HoldInv /\ ConnInv /\ RunInv
    BY DEF IInv, Invs
  <1>1. /\ c \in Coords /\ call[t].at = "unregister" /\ ShuttingDown(t) /\ call'[t].at = "releasing" /\ UNCHANGED mem
    BY <1>0, ShutdownUnregisterDoes, FieldTypes DEF ShuttingDown
  <1>2. call[t].id = mem[c].id /\ mem[c].started /\ mem[c].id # 0
    BY <1>0, <1>1, RunNames DEF ShutdownInv, ShutdownOK
  <1>3. registry' = {e \in registry : e.id # mem[c].id}
    BY <1>2, AllLive DEF ShutdownUnregister, Careful
  <1>4. SUFFICES ASSUME NEW e \in Entries PROVE e \in registry' <=> Registered(e)'
    BY DEF Fits
  <1>5. CASE e.by # c
    <2>1. mem[c].id \in Ids(c)
      BY <1>2 DEF Ids
    <2>2. e \in registry => e.id # mem[c].id
      <3>1. e \in registry => e.id \in Ids(e.by) /\ e.by \in Coords \ {c}
        BY <1>5, EntriesNamed DEF RegInv, Entries
      <3>2. QED
        BY <1>1, <2>1, <3>1 DEF IdsInv
    <2>3. QED
      BY <1>3, <1>5, <2>2, RegOthers DEF RegInv
  <1>6. CASE e.by = c
    <2>1. ~Entered(c, e)'
      BY <1>1 DEF Entered, At
    <2>2. \A u \in Threads : Entering(u, e)' <=> Entering(u, e)
      BY <1>1, EnteringOthers DEF Entering
    <2>3. \A u \in Threads : CoordOf[u] = c /\ Entering(u, e) => e.id # mem[c].id
      BY <1>0 DEF Entering, IdInv, Begun
    <2>4. Registered(e)' <=> Registered(e) /\ e.id # mem[c].id
      BY <1>6, <2>1, <2>2, <2>3 DEF Registered, Entered
    <2>5. QED
      BY <1>3, <2>4 DEF RegInv
  <1>7. QED
    BY <1>5, <1>6

\* The entry of the run named, if it has one, is moved to the new app.
LEMMA RegUpdate ==
  ASSUME CoordAssumption, Careful, IInv, KeptInv, IdsInv, RegInv, NEW t \in Threads, ReconnectUpdate(t), CallStep(t)
  PROVE  Fits
  <1> DEFINE c == CoordOf[t]
  <1>0. /\ Types /\ BoundInv /\ OwnInv /\ MemInv /\ StartInv /\ ShutdownInv /\ ReconnectInv /\ IdInv
        /\ HoldInv /\ ConnInv /\ RunInv
    BY DEF IInv, Invs
  <1> DEFINE Moved(e) == IF e.id = call[t].id THEN [e EXCEPT !.app = call[t].app] ELSE e
  <1>1. /\ c \in Coords /\ call[t].at = "update" /\ Reconnecting(t) /\ Naming(t) /\ call[t] \in ReconnectCalls
        /\ call'[t].at = "swap" /\ call'[t].id = call[t].id /\ call'[t].app = call[t].app /\ UNCHANGED mem
    BY <1>0, ReconnectUpdateDoes, FieldTypes, CallKinds DEF Reconnecting, Naming
  <1>2. registry' = {Moved(e) : e \in registry}
    BY AllLive DEF ReconnectUpdate, Careful
  <1>3. call[t].id # 0 /\ call[t].id \in Ids(c) /\ call[t].app \in Apps
    BY <1>1 DEF ReconnectCalls, Ids, RunOf, Begun
  <1>4. \A e \in registry : e \in Entries /\ e.id \in Ids(e.by) /\ Registered(e)
    BY <1>0, EntriesNamed DEF RegInv, Types
  <1>5. \A e \in registry : e.id = call[t].id => e.by = c
    BY <1>1, <1>3, <1>4 DEF IdsInv, Entries
  <1>6. \A e \in Entries : \A u \in Threads : CoordOf[u] = c /\ Entering(u, e) => e.id # call[t].id
    BY <1>0, <1>1 DEF Entering, IdInv, Begun
  <1>7. \A e \in Entries : Moved(e).id = e.id /\ Moved(e).by = e.by /\ Moved(e) \in Entries
    BY <1>3 DEF Entries
  <1>8. SUFFICES ASSUME NEW e \in Entries PROVE e \in registry' <=> Registered(e)'
    BY DEF Fits
  <1>9. e.id # call[t].id => (e \in registry' <=> e \in registry)
    BY <1>2, <1>4, <1>7
  <1>10. CASE e.by # c
    <2>1. e.id = call[t].id => e \notin registry /\ e \notin registry'
      BY <1>2, <1>4, <1>5, <1>7, <1>10
    <2>2. QED
      BY <1>9, <1>10, <2>1, RegOthers DEF RegInv
  <1>11. CASE e.by = c /\ e.id # call[t].id
    <2>1. \A u \in Threads : Entering(u, e)' <=> Entering(u, e)
      BY <1>1, EnteringOthers DEF Entering
    <2>2. CASE mem[c].id # call[t].id
      <3>1. Entered(c, e)' <=> Entered(c, e)
        BY <1>1, <2>2, EnteredSame DEF Last, Moving
      <3>2. QED
        BY <1>9, <1>11, <2>1, <3>1 DEF Registered, RegInv
    <2>3. CASE mem[c].id = call[t].id
      <3>1. ~Entered(c, e) /\ ~Entered(c, e)'
        BY <1>1, <1>11, <2>3 DEF Entered
      <3>2. QED
        BY <1>9, <1>11, <2>1, <3>1 DEF Registered, RegInv
    <2>4. QED
      BY <2>2, <2>3
  <1>12. CASE e.by = c /\ e.id = call[t].id
    <2>1. \A f \in Entries, u \in Threads : f.id = call[t].id /\ CoordOf[u] = c => ~Entering(u, f)
      BY <1>6
    <2>2. Registered(e)' <=> Entered(c, e)'
      <3>1. \A u \in Threads : CoordOf[u] = c => ~Entering(u, e)'
        BY <1>1, <1>12, <2>1, EnteringOthers DEF Entering
      <3>2. QED
        BY <1>12, <3>1 DEF Registered
    <2>3. \A f \in Entries : f.id = call[t].id /\ f.by = c => (f \in registry <=> Entered(c, f))
      BY <2>1 DEF RegInv, Registered
    <2>4. \A u \in Threads : CoordOf[u] = c => ~Moving(u)
      BY <1>1, OneReconnect DEF Moving, Reconnecting
    <2> DEFINE On == mem[c].started /\ ~At(c, Last) /\ mem[c].id = call[t].id
               old == [id |-> mem[c].id, by |-> c, app |-> mem[c].app]
    <2>5. \A f \in Entries : f.id = call[t].id => (Entered(c, f) <=> On /\ f.app = mem[c].app)
      BY <2>4 DEF Entered, EntryApp, Last
    <2>6. At(c, Last)' <=> At(c, Last)
      BY <1>1, CallsOfOthers DEF At, Last
    <2>7. mem[c].id = call[t].id => (EntryApp(c, e.app)' <=> e.app = call[t].app)
      <3>1. \A u \in Threads \ {t} : CoordOf[u] = c => ~Moving(u)'
        BY <1>1, <2>4, CallsOfOthers DEF Moving
      <3>2. mem[c].id = call[t].id => Moving(t)'
        BY <1>1 DEF Moving
      <3>3. QED
        BY <1>1, <3>1, <3>2 DEF EntryApp
    <2>8. Entered(c, e)' <=> On /\ e.app = call[t].app
      BY <1>1, <1>12, <2>6, <2>7 DEF Entered, Last
    <2>9. e \in registry' => On /\ e.app = call[t].app
      BY <1>2, <1>3, <1>4, <1>7, <1>12, <2>3, <2>5 DEF Entries
    <2>10. ASSUME On, e.app = call[t].app PROVE e \in registry'
      <3>1. old \in Entries
        BY <1>0, <1>1, <2>10, RunNames DEF MemInv, MemOK, Entries, Types, Mems
      <3>2. old \in registry
        BY <2>3, <2>5, <2>10, <3>1
      <3>3. Moved(old) = e
        BY <1>12, <2>10 DEF Entries
      <3>4. QED
        BY <1>2, <3>2, <3>3
    <2>11. QED
      BY <2>2, <2>8, <2>9, <2>10
  <1>13. QED
    BY <1>10, <1>11, <1>12

\* The app the entry was moved to becomes the run's.
LEMMA RegSwap ==
  ASSUME CoordAssumption, Careful, IInv, RegInv, NEW t \in Threads, ReconnectSwap(t), CallStep(t)
  PROVE  Fits
  <1> DEFINE c == CoordOf[t]
  <1>0. /\ Types /\ BoundInv /\ OwnInv /\ MemInv /\ StartInv /\ ShutdownInv /\ ReconnectInv /\ IdInv
        /\ HoldInv /\ ConnInv /\ RunInv
    BY DEF IInv, Invs
  <1>1. /\ c \in Coords /\ call[t].at = "swap" /\ call'[t].at = "releaseOld" /\ Reconnecting(t)
        /\ UNCHANGED registry
    BY <1>0, ReconnectSwapDoes, FieldTypes DEF Reconnecting, ReconnectSwap
  <1>2. SUFFICES ASSUME NEW e \in Entries, e.by = c PROVE Registered(e)' <=> Registered(e)
    BY <1>1, RegKept
  <1>3. \A u \in Threads : Entering(u, e)' <=> Entering(u, e)
    BY <1>1, EnteringOthers DEF Entering
  <1>4. CASE mem[c].id # call[t].id
    <2>1. UNCHANGED mem
      BY <1>0, <1>4, ReconnectSwapDoes
    <2>2. Entered(c, e)' <=> Entered(c, e)
      BY <1>1, <1>4, <2>1, EnteredSame DEF Last, Moving
    <2>3. QED
      BY <1>2, <1>3, <2>2 DEF Registered
  <1>5. CASE mem[c].id = call[t].id
    <2>1. SameRun(c) /\ mem'[c].app = call[t].app
      BY <1>0, <1>5, ReconnectSwapDoes
    <2>2. At(c, Last)' <=> At(c, Last)
      BY <1>1, CallsOfOthers DEF At, Last
    <2>3. Moving(t) /\ ~Moving(t)' /\ \A u \in Threads \ {t} : CoordOf[u] = c => ~Moving(u) /\ ~Moving(u)'
      BY <1>1, <1>5, OneReconnect, CallsOfOthers DEF Moving, Reconnecting
    <2>4. EntryApp(c, e.app) <=> e.app = call[t].app
      BY <2>3 DEF EntryApp
    <2>5. EntryApp(c, e.app)' <=> e.app = call[t].app
      BY <2>1, <2>3 DEF EntryApp
    <2>6. Entered(c, e)' <=> Entered(c, e)
      BY <2>1, <2>2, <2>4, <2>5 DEF Entered, Last, SameRun
    <2>7. QED
      BY <1>2, <1>3, <2>6 DEF Registered
  <1>6. QED
    BY <1>4, <1>5

\* The entry is gone before the locks are released.
LEMMA RegEnd ==
  ASSUME CoordAssumption, Careful, IInv, NoneFailed, RegInv, NEW t \in Threads, CallStep(t),
         ShutdownRelease(t) \/ ShutdownEnd(t)
  PROVE  Fits
  <1> DEFINE c == CoordOf[t]
  <1>0. /\ Types /\ BoundInv /\ OwnInv /\ MemInv /\ StartInv /\ ShutdownInv /\ ReconnectInv /\ IdInv
        /\ HoldInv /\ ConnInv /\ RunInv
    BY DEF IInv, Invs
  <1>1. /\ c \in Coords /\ call[t].at \in Last /\ UNCHANGED registry
        /\ call'[t].at \in Last \/ ~mem'[c].started
        /\ call'[t].at \notin {"adapter", "commit"}
    BY <1>0, ShutdownReleaseDoes, ShutdownEndDoes, FieldTypes
       DEF ShutdownRelease, ShutdownEnd, Last, NoneFailed, ShuttingDown, NoCall, Stopped
  <1>2. SUFFICES ASSUME NEW e \in Entries, e.by = c PROVE Registered(e)' <=> Registered(e)
    BY <1>1, RegKept
  <1>3. \A u \in Threads : Entering(u, e)' <=> Entering(u, e)
    BY <1>1, EnteringOthers DEF Entering, Last
  <1>4. ~Entered(c, e) /\ ~Entered(c, e)'
    BY <1>1 DEF Entered, At, Last
  <1>5. QED
    BY <1>2, <1>3, <1>4 DEF Registered

\* So the registry always tells who has registered and not been taken out.
LEMMA RegStep ==
  ASSUME CoordAssumption, Careful, IInv, NoneFailed, KeptInv, IdsInv, RegInv, NEW t \in Threads, CallStep(t) PROVE RegInv'
  <1> DEFINE c == CoordOf[t]
  <1>0. /\ Types /\ BoundInv /\ OwnInv /\ MemInv /\ StartInv /\ ShutdownInv /\ ReconnectInv /\ IdInv
        /\ HoldInv /\ ConnInv /\ RunInv
    BY DEF IInv, Invs
  <1>1. UNCHANGED mem => SameRun(c)
    BY DEF SameRun
  <1>2. SUFFICES Fits
    BY DEF Fits, RegInv
  <1> DEFINE Plain == /\ UNCHANGED registry /\ SameRun(c) /\ mem'[c].app = mem[c].app
                      /\ call[t].at \notin {"adapter", "commit", "swap", "releasing", "clearing"}
                      /\ call'[t].at \notin {"adapter", "commit", "swap", "releasing", "clearing"}
  <1>3. Plain => Fits
    BY RegPlain
  <1> HIDE DEF Plain
  <1>10. ASSUME NEW a \in Apps, StartCall(t, a) PROVE Fits
    <2>1. UNCHANGED registry
      BY <1>10 DEF StartCall
    <2>2. Plain
      BY <1>0, <1>1, <1>10, <2>1, StartCallDoes DEF Plain, NoCall
    <2>3. QED
      BY <1>3, <2>2
  <1>11. CASE StartProfile(t)
    <2>1. UNCHANGED registry
      BY <1>11 DEF StartProfile
    <2>2. Plain
      BY <1>0, <1>1, <1>11, <2>1, StartProfileDoes DEF Plain, NoCall
    <2>3. QED
      BY <1>3, <2>2
  <1>12. CASE StartApp(t)
    <2>1. UNCHANGED registry
      BY <1>12 DEF StartApp
    <2>2. Plain
      BY <1>0, <1>1, <1>12, <2>1, StartAppDoes DEF Plain, NoCall
    <2>3. QED
      BY <1>3, <2>2
  <1>13. CASE StartRegister(t)
    BY <1>13, RegRegister
  <1>14. CASE StartAdapter(t)
    BY <1>14, RegAdapter
  <1>15. CASE StartCommit(t)
    BY <1>15, RegCommit
  <1>16. CASE ShutdownCall(t)
    <2>1. UNCHANGED registry
      BY <1>16 DEF ShutdownCall
    <2>2. Plain
      BY <1>0, <1>1, <1>16, <2>1, ShutdownCallDoes DEF Plain, NoCall
    <2>3. QED
      BY <1>3, <2>2
  <1>17. CASE ShutdownHandle(t)
    <2>1. UNCHANGED registry
      BY <1>17 DEF ShutdownHandle
    <2>2. Plain
      BY <1>0, <1>1, <1>17, <2>1, ShutdownHandleDoes DEF Plain, NoCall
    <2>3. QED
      BY <1>3, <2>2
  <1>18. CASE ShutdownUnregister(t)
    BY <1>18, RegUnregister
  <1>19. CASE ShutdownRelease(t)
    BY <1>19, RegEnd
  <1>20. CASE ShutdownEnd(t)
    BY <1>20, RegEnd
  <1>21. ASSUME NEW a \in Apps, ReconnectCall(t, a) PROVE Fits
    <2>1. call'[t].at \in {"hook", "next"} /\ call[t] = NoCall /\ UNCHANGED mem
      BY <1>0, <1>21, ReconnectCallDoes
    <2>2. UNCHANGED registry
      BY <1>21 DEF ReconnectCall
    <2>3. QED
      BY <1>1, <1>3, <2>1, <2>2 DEF Plain, NoCall
  <1>22. CASE ReconnectLock(t)
    <2>1. UNCHANGED registry
      BY <1>22 DEF ReconnectLock
    <2>2. Plain
      BY <1>0, <1>1, <1>22, <2>1, ReconnectLockDoes DEF Plain, NoCall
    <2>3. QED
      BY <1>3, <2>2
  <1>23. CASE ReconnectHook(t)
    <2>1. UNCHANGED registry
      BY <1>23 DEF ReconnectHook
    <2>2. Plain
      BY <1>0, <1>1, <1>23, <2>1, ReconnectHookDoes DEF Plain, NoCall
    <2>3. QED
      BY <1>3, <2>2
  <1>24. CASE ReconnectUpdate(t)
    BY <1>24, RegUpdate
  <1>25. CASE ReconnectSwap(t)
    BY <1>25, RegSwap
  <1>26. CASE ReconnectRelease(t)
    <2>1. UNCHANGED registry
      BY <1>26 DEF ReconnectRelease
    <2>2. Plain
      BY <1>0, <1>1, <1>26, <2>1, ReconnectReleaseDoes DEF Plain, NoCall
    <2>3. QED
      BY <1>3, <2>2
  <1>27. QED
    BY <1>10, <1>11, <1>12, <1>13, <1>14, <1>15, <1>16, <1>17, <1>18, <1>19, <1>20, <1>21, <1>22, <1>23, <1>24, <1>25, <1>26 DEF CallStep

\* A step frees locks or takes one.
Frees == serial' = serial /\ \A l \in Names : held'[l] \in {held[l], Free}
TakesOne(t) ==
  /\ serial' = serial + 1 /\ Fresh(CoordOf[t]) \in Own(t)' /\ Fresh(CoordOf[t]) # Free
  /\ \E m \in Names : held'[m] = Fresh(CoordOf[t]) /\ \A l \in Names \ {m} : held'[l] = held[l]
LEMMA HeldMoves ==
  ASSUME CoordAssumption, Careful, IInv, NEW t \in Threads, CallStep(t) PROVE Frees \/ TakesOne(t)
  <1> DEFINE c == CoordOf[t]
  <1>0. /\ Types /\ BoundInv /\ OwnInv /\ MemInv /\ StartInv /\ ShutdownInv /\ ReconnectInv /\ IdInv
        /\ HoldInv /\ ConnInv /\ RunInv
    BY DEF IInv, Invs
  <1>1. /\ c \in Coords /\ ProfileOf[c] \in Names /\ Apps \subseteq Names /\ serial \in Nat
    BY <1>0, FieldTypes DEF Types
  <1>2. ASSUME NEW S, Released(S), serial' = serial PROVE Frees
    BY <1>2 DEF Released, Frees
  <1>3. UNCHANGED <<held, serial>> => Frees
    BY DEF Frees
  <1>4. ASSUME NEW m \in Names, Take(m, c), Fresh(c) \in Own(t)' PROVE TakesOne(t)
    <2>1. /\ serial' = serial + 1 /\ held'[m] = Fresh(c) /\ \A l \in Names \ {m} : held'[l] = held[l]
          /\ Fresh(c) # Free
      BY <1>0, <1>1, <1>4, TakeMakes DEF Fresh, Free
    <2>2. QED
      BY <1>4, <2>1 DEF TakesOne
  <1>5. Fresh(c) # Free
    BY <1>1 DEF Fresh, Free
  <1>10. ASSUME NEW a \in Apps, StartCall(t, a) PROVE Frees \/ TakesOne(t)
    BY <1>0, <1>2, <1>3, <1>10, StartCallDoes DEF GivesOwn, GivesKnown
  <1>11. CASE StartProfile(t)
    <2>1. CASE UNCHANGED <<held, serial>>
      BY <1>3, <2>1
    <2>2. CASE Take(ProfileOf[c], c) /\ serial' = serial + 1
      <3>1. call'[t].at = "app" /\ call'[t].prof = Fresh(c)
        BY <1>0, <1>1, <1>11, <2>2, StartProfileDoes
      <3>2. Fresh(c) \in Own(t)'
        BY <1>5, <3>1 DEF Own, Begun
      <3>3. QED
        BY <1>1, <1>4, <2>2, <3>2
    <2>3. QED
      BY <1>11, <2>1, <2>2 DEF StartProfile, Take
  <1>12. CASE StartApp(t)
    <2>1. CASE GivesOwn(t) /\ UNCHANGED serial
      BY <1>2, <2>1 DEF GivesOwn
    <2>2. CASE /\ call'[t].at = "register" /\ call'[t].lock = Fresh(c) /\ serial' = serial + 1
               /\ held'[call[t].app] = Fresh(c) /\ \A l \in Names : l # call[t].app => held'[l] = held[l]
      <3>1. Fresh(c) \in Own(t)'
        BY <1>5, <2>2 DEF Own, Begun
      <3>2. call[t].app \in Names
        BY <1>0, <1>1, <1>12, StartAppDoes, CallKinds DEF StartCalls, Begun
      <3>3. QED
        BY <1>5, <2>2, <3>1, <3>2 DEF TakesOne
    <2>3. QED
      BY <1>0, <1>12, <2>1, <2>2, StartAppDoes
  <1>13. CASE StartRegister(t)
    BY <1>0, <1>2, <1>3, <1>13, StartRegisterDoes DEF GivesOwn, GivesKnown
  <1>14. CASE StartAdapter(t)
    BY <1>0, <1>2, <1>3, <1>14, StartAdapterDoes DEF GivesOwn, GivesKnown
  <1>15. CASE StartCommit(t)
    BY <1>0, <1>2, <1>3, <1>15, StartCommitDoes DEF GivesOwn, GivesKnown
  <1>16. CASE ShutdownCall(t)
    BY <1>0, <1>2, <1>3, <1>16, ShutdownCallDoes DEF GivesOwn, GivesKnown
  <1>17. CASE ShutdownHandle(t)
    BY <1>0, <1>2, <1>3, <1>17, ShutdownHandleDoes DEF GivesOwn, GivesKnown
  <1>18. CASE ShutdownUnregister(t)
    BY <1>0, <1>2, <1>3, <1>18, ShutdownUnregisterDoes DEF GivesOwn, GivesKnown
  <1>19. CASE ShutdownRelease(t)
    BY <1>0, <1>2, <1>3, <1>19, ShutdownReleaseDoes DEF GivesOwn, GivesKnown
  <1>20. CASE ShutdownEnd(t)
    BY <1>0, <1>2, <1>3, <1>20, ShutdownEndDoes DEF GivesOwn, GivesKnown
  <1>21. ASSUME NEW a \in Apps, ReconnectCall(t, a) PROVE Frees \/ TakesOne(t)
    BY <1>0, <1>2, <1>3, <1>21, ReconnectCallDoes DEF GivesOwn, GivesKnown
  <1>22. CASE ReconnectLock(t)
    <2>1. CASE UNCHANGED <<held, serial>>
      BY <1>3, <2>1
    <2>2. CASE Take(call[t].app, c) /\ serial' = serial + 1
      <3>0. PICK m \in Names : m = call[t].app
        BY <1>0, <1>1, <1>22, ReconnectLockDoes, CallKinds DEF ReconnectCalls, Reconnecting
      <3>1. call'[t].at = "hook" /\ call'[t].next = Fresh(c)
        BY <1>0, <1>1, <1>22, <2>2, ReconnectLockDoes
      <3>2. Fresh(c) \in Own(t)'
        BY <1>5, <3>1 DEF Own, Begun, Swapping
      <3>3. QED
        BY <1>4, <2>2, <3>0, <3>2
    <2>3. QED
      BY <1>22, <2>1, <2>2 DEF ReconnectLock, Take
  <1>23. CASE ReconnectHook(t)
    BY <1>0, <1>2, <1>3, <1>23, ReconnectHookDoes DEF GivesOwn, GivesKnown
  <1>24. CASE ReconnectUpdate(t)
    BY <1>0, <1>2, <1>3, <1>24, ReconnectUpdateDoes DEF GivesOwn, GivesKnown
  <1>25. CASE ReconnectSwap(t)
    BY <1>0, <1>2, <1>3, <1>25, ReconnectSwapDoes DEF GivesOwn, GivesKnown
  <1>26. CASE ReconnectRelease(t)
    BY <1>0, <1>2, <1>3, <1>26, ReconnectReleaseDoes DEF GivesOld
  <1>27. QED
    BY <1>10, <1>11, <1>12, <1>13, <1>14, <1>15, <1>16, <1>17, <1>18, <1>19, <1>20, <1>21, <1>22, <1>23, <1>24, <1>25, <1>26 DEF CallStep

\* An object is under one name only.
LEMMA OnceStep ==
  ASSUME CoordAssumption, Careful, IInv, OnceInv, NEW t \in Threads, CallStep(t) PROVE OnceInv'
  <1> DEFINE new == Fresh(CoordOf[t])
  <1>0. /\ serial \in Nat /\ new.n = serial + 1 /\ held \in [Names -> Objects \cup {Free}]
        /\ \A o \in Objects : o.n \in Nat
    BY DEF IInv, Types, Fresh, Objects
  <1>1. \A l \in Names : held[l] # Free => held[l].n <= serial /\ held[l].n \in Nat
    BY <1>0 DEF OnceInv
  <1>2. CASE Frees
    BY <1>2 DEF Frees, OnceInv
  <1>3. CASE TakesOne(t)
    <2>1. PICK m \in Names : held'[m] = new /\ \A l \in Names \ {m} : held'[l] = held[l]
      BY <1>3 DEF TakesOne
    <2>2. serial' = serial + 1
      BY <1>3 DEF TakesOne
    <2>3. \A l \in Names : held'[l] # Free => held'[l].n <= serial'
      BY <1>0, <1>1, <2>1, <2>2
    <2>4. \A l \in Names \ {m} : held'[l] # Free => held'[l] # new
      BY <1>0, <1>1, <2>1
    <2>5. \A k, l \in Names : held'[k] = held'[l] /\ held'[k] # Free => k = l
      BY <2>1, <2>4 DEF OnceInv
    <2>6. QED
      BY <2>3, <2>5 DEF OnceInv
  <1>4. QED
    BY <1>2, <1>3, HeldMoves

\* While a Shutdown that no Reconnect overlaps is under way, its coordinator knows the
\* same lock objects.
LEMMA SameObjects ==
  ASSUME CoordAssumption, Careful, IInv, NEW t \in Threads, CallStep(t),
         NEW u \in Threads \ {t}, ShuttingDown(u), CoordOf[u] = CoordOf[t], ReconnectsAlone(CoordOf[t])
  PROVE  MemRefs(CoordOf[t])' = MemRefs(CoordOf[t])
  <1> DEFINE c == CoordOf[t]
  <1>0. /\ Types /\ BoundInv /\ OwnInv /\ MemInv /\ StartInv /\ ShutdownInv /\ ReconnectInv /\ IdInv
        /\ HoldInv /\ ConnInv /\ RunInv
    BY DEF IInv, Invs
  <1>1. /\ c \in Coords /\ mem[c].started /\ mem[c].stopping /\ ~ShuttingDown(t)
    BY <1>0, FieldTypes DEF ShutdownInv, ShutdownOK
  <1>2. t \notin Reconnecters
    BY DEF ReconnectsAlone
  <1> DEFINE Same == mem'[c].prof = mem[c].prof /\ mem'[c].lock = mem[c].lock
  <1>3. SUFFICES Same
    BY DEF MemRefs
  <1>10. ASSUME NEW a \in Apps, StartCall(t, a) PROVE Same
    BY <1>0, <1>1, <1>10, StartCallDoes DEF ShuttingDown, SameRun
  <1>11. CASE StartProfile(t)
    BY <1>0, <1>1, <1>11, StartProfileDoes DEF ShuttingDown, SameRun
  <1>12. CASE StartApp(t)
    BY <1>0, <1>1, <1>12, StartAppDoes DEF ShuttingDown, SameRun
  <1>13. CASE StartRegister(t)
    BY <1>0, <1>1, <1>13, StartRegisterDoes DEF ShuttingDown, SameRun
  <1>14. CASE StartAdapter(t)
    BY <1>0, <1>1, <1>14, StartAdapterDoes DEF ShuttingDown, SameRun
  <1>15. CASE StartCommit(t)
    BY <1>0, <1>1, <1>15, StartCommitDoes DEF ShuttingDown, SameRun
  <1>16. CASE ShutdownCall(t)
    BY <1>0, <1>1, <1>16, ShutdownCallDoes DEF ShuttingDown, SameRun
  <1>17. CASE ShutdownHandle(t)
    BY <1>0, <1>1, <1>17, ShutdownHandleDoes DEF ShuttingDown, SameRun
  <1>18. CASE ShutdownUnregister(t)
    BY <1>0, <1>1, <1>18, ShutdownUnregisterDoes DEF ShuttingDown, SameRun
  <1>19. CASE ShutdownRelease(t)
    BY <1>0, <1>1, <1>19, ShutdownReleaseDoes DEF ShuttingDown, SameRun
  <1>20. CASE ShutdownEnd(t)
    BY <1>0, <1>1, <1>20, ShutdownEndDoes DEF ShuttingDown, SameRun
  <1>21. ASSUME NEW a \in Apps, ReconnectCall(t, a) PROVE Same
    BY <1>0, <1>1, <1>21, ReconnectCallDoes DEF ShuttingDown, SameRun
  <1>22. CASE ReconnectLock(t)
    BY <1>0, <1>1, <1>22, ReconnectLockDoes DEF ShuttingDown, SameRun
  <1>23. CASE ReconnectHook(t)
    BY <1>0, <1>1, <1>23, ReconnectHookDoes DEF ShuttingDown, SameRun
  <1>24. CASE ReconnectUpdate(t)
    BY <1>0, <1>1, <1>24, ReconnectUpdateDoes DEF ShuttingDown, SameRun
  <1>25. CASE ReconnectSwap(t)
    BY <1>0, <1>2, <1>25, ReconnectSwapDoes DEF ReconnectInv, ReconnectOK, Reconnecting
  <1>26. CASE ReconnectRelease(t)
    BY <1>0, <1>1, <1>26, ReconnectReleaseDoes DEF ShuttingDown, SameRun
  <1>27. QED
    BY <1>10, <1>11, <1>12, <1>13, <1>14, <1>15, <1>16, <1>17, <1>18, <1>19, <1>20, <1>21, <1>22, <1>23, <1>24, <1>25, <1>26 DEF CallStep

\* What a Shutdown will release is all its coordinator has.
LEMMA ObjectsStep ==
  ASSUME CoordAssumption, Careful, IInv, ObjectsInv, NEW t \in Threads, CallStep(t) PROVE ObjectsInv'
  <1> DEFINE c == CoordOf[t]
  <1>0. /\ Types /\ BoundInv /\ OwnInv /\ MemInv /\ StartInv /\ ShutdownInv /\ ReconnectInv /\ IdInv
        /\ HoldInv /\ ConnInv /\ RunInv
    BY DEF IInv, Invs
  <1>1. ASSUME NEW u \in Threads \ {t}, ShuttingDown(u)', ReconnectsAlone(CoordOf[u])
        PROVE  call'[u].objects = MemRefs(CoordOf[u])'
    <2>1. call'[u] = call[u] /\ ShuttingDown(u) /\ CoordOf[u] \in Coords
      BY <1>0, <1>1, CallsOfOthers, KnownTypes DEF ShuttingDown
    <2>2. MemRefs(CoordOf[u])' = MemRefs(CoordOf[u])
      BY <1>1, <2>1, SameObjects, CallsOfOthers
    <2>3. QED
      BY <1>1, <2>1, <2>2 DEF ObjectsInv
  <1> DEFINE All == ShuttingDown(t)' /\ ReconnectsAlone(c) => call'[t].objects = MemRefs(c)'
  <1>2. SUFFICES All
    BY <1>1 DEF ObjectsInv, ReconnectsAlone
  <1>3. ASSUME ShuttingDown(t), call'[t].objects = call[t].objects, UNCHANGED mem PROVE All
    BY <1>3 DEF ObjectsInv, MemRefs
  <1>10. ASSUME NEW a \in Apps, StartCall(t, a) PROVE All
    BY <1>0, <1>3, <1>10, StartCallDoes DEF ShuttingDown, NoCall
  <1>11. CASE StartProfile(t)
    BY <1>0, <1>3, <1>11, StartProfileDoes DEF ShuttingDown, NoCall
  <1>12. CASE StartApp(t)
    BY <1>0, <1>3, <1>12, StartAppDoes DEF ShuttingDown, NoCall
  <1>13. CASE StartRegister(t)
    BY <1>0, <1>3, <1>13, StartRegisterDoes DEF ShuttingDown, NoCall
  <1>14. CASE StartAdapter(t)
    BY <1>0, <1>3, <1>14, StartAdapterDoes DEF ShuttingDown, NoCall
  <1>15. CASE StartCommit(t)
    BY <1>0, <1>3, <1>15, StartCommitDoes DEF ShuttingDown, NoCall
  <1>16. CASE ShutdownCall(t)
    BY <1>0, <1>16, ShutdownCallDoes DEF MemRefs, SameRun
  <1>17. CASE ShutdownHandle(t)
    BY <1>0, <1>3, <1>17, ShutdownHandleDoes DEF ShuttingDown, NoCall
  <1>18. CASE ShutdownUnregister(t)
    BY <1>0, <1>3, <1>18, ShutdownUnregisterDoes DEF ShuttingDown, NoCall
  <1>19. CASE ShutdownRelease(t)
    BY <1>0, <1>3, <1>19, ShutdownReleaseDoes DEF ShuttingDown, NoCall
  <1>20. CASE ShutdownEnd(t)
    BY <1>0, <1>3, <1>20, ShutdownEndDoes DEF ShuttingDown, NoCall
  <1>21. ASSUME NEW a \in Apps, ReconnectCall(t, a) PROVE All
    <2>1. call'[t].at \in {"hook", "next"}
      BY <1>0, <1>21, ReconnectCallDoes
    <2>2. QED
      BY <2>1 DEF ShuttingDown
  <1>22. CASE ReconnectLock(t)
    BY <1>0, <1>3, <1>22, ReconnectLockDoes DEF ShuttingDown, NoCall
  <1>23. CASE ReconnectHook(t)
    BY <1>0, <1>3, <1>23, ReconnectHookDoes DEF ShuttingDown, NoCall
  <1>24. CASE ReconnectUpdate(t)
    BY <1>0, <1>3, <1>24, ReconnectUpdateDoes DEF ShuttingDown, NoCall
  <1>25. CASE ReconnectSwap(t)
    <2>1. call'[t].at = "releaseOld"
      BY <1>0, <1>25, ReconnectSwapDoes
    <2>2. QED
      BY <2>1 DEF ShuttingDown
  <1>26. CASE ReconnectRelease(t)
    BY <1>0, <1>3, <1>26, ReconnectReleaseDoes DEF ShuttingDown, NoCall
  <1>27. QED
    BY <1>10, <1>11, <1>12, <1>13, <1>14, <1>15, <1>16, <1>17, <1>18, <1>19, <1>20, <1>21, <1>22, <1>23, <1>24, <1>25, <1>26 DEF CallStep

\* Of what its own coordinator has, a step frees what nobody would release any more.
LEMMA OwnersOwn ==
  ASSUME CoordAssumption, Careful, IInv, NoneFailed, ObjectsInv, NEW t \in Threads, CallStep(t),
         ReconnectsAlone(CoordOf[t]), NEW l \in Names, NEW o \in Objects, held[l] = o, held'[l] = o,
         OwnedBy(CoordOf[t], o)
  PROVE  OwnedBy(CoordOf[t], o)'
  <1> DEFINE c == CoordOf[t]
  <1>0. /\ Types /\ BoundInv /\ OwnInv /\ MemInv /\ StartInv /\ ShutdownInv /\ ReconnectInv /\ IdInv
        /\ HoldInv /\ ConnInv /\ RunInv
    BY DEF IInv, Invs
  <1>1. c \in Coords /\ Free \notin Objects /\ MemOK(c) /\ o # Free
    BY <1>0, FieldTypes DEF MemInv
  <1>2. ASSUME NEW u \in Threads \ {t}, CoordOf[u] = c, o \in ToGive(u) PROVE OwnedBy(c, o)'
    <2>1. ToGive(u)' = ToGive(u)
      BY CallsOfOthers DEF ToGive, Own, Begun, Swapping
    <2>2. QED
      BY <1>2, <2>1 DEF OwnedBy
  <1>3. ASSUME NEW S, Released(S), o \in S PROVE FALSE
    BY <1>1, <1>3 DEF Released
  <1>4. ASSUME o \in ToGive(t)' PROVE OwnedBy(c, o)'
    BY <1>4 DEF OwnedBy
  <1>5. CASE o \in MemRefs(c) /\ ~At(c, {"clearing"})
    <2>1. call'[t].at # "clearing" => ~At(c, {"clearing"})'
      BY <1>5, CallsOfOthers DEF At
    <2>2. call[t].at # "clearing"
      BY <1>5 DEF At
    <2> DEFINE Same == mem'[c].prof = mem[c].prof /\ mem'[c].lock = mem[c].lock /\ call'[t].at # "clearing"
    <2>3. Same => OwnedBy(c, o)'
      BY <1>5, <2>1 DEF OwnedBy, MemRefs
    <2>4. mem[c].started
      BY <1>1, <1>5 DEF MemOK, MemRefs
    <2> HIDE DEF Same
    <2>10. ASSUME NEW a \in Apps, StartCall(t, a) PROVE OwnedBy(c, o)'
      BY <1>0, <2>3, <2>10, StartCallDoes DEF Same, SameRun, NoCall
    <2>11. CASE StartProfile(t)
      BY <1>0, <2>3, <2>11, StartProfileDoes DEF Same, SameRun, NoCall
    <2>12. CASE StartApp(t)
      BY <1>0, <2>3, <2>12, StartAppDoes DEF Same, SameRun, NoCall
    <2>13. CASE StartRegister(t)
      BY <1>0, <2>3, <2>13, StartRegisterDoes DEF Same, SameRun, NoCall
    <2>14. CASE StartAdapter(t)
      BY <1>0, <2>3, <2>14, StartAdapterDoes DEF Same, SameRun, NoCall
    <2>15. CASE StartCommit(t)
      BY <1>0, <2>3, <2>4, <2>15, StartCommitDoes DEF Same, NoCall
    <2>16. CASE ShutdownCall(t)
      BY <1>0, <2>3, <2>16, ShutdownCallDoes DEF Same, SameRun, NoCall
    <2>17. CASE ShutdownHandle(t)
      BY <1>0, <2>3, <2>17, ShutdownHandleDoes DEF Same, SameRun, NoCall
    <2>18. CASE ShutdownUnregister(t)
      BY <1>0, <2>3, <2>18, ShutdownUnregisterDoes DEF Same, SameRun, NoCall
    <2>19. CASE ShutdownRelease(t)
      <3>1. ShuttingDown(t) /\ ~Begun(t) /\ GivesKnown(t)
        BY <1>0, <2>19, ShutdownReleaseDoes DEF ShuttingDown, Begun
      <3>2. Refs(t) = MemRefs(c)
        BY <3>1 DEF ObjectsInv, Refs
      <3>3. QED
        BY <1>3, <1>5, <3>1, <3>2 DEF GivesKnown
    <2>20. CASE ShutdownEnd(t)
      BY <1>0, <2>2, <2>20, ShutdownEndDoes
    <2>21. ASSUME NEW a \in Apps, ReconnectCall(t, a) PROVE OwnedBy(c, o)'
      <3>1. call'[t].at \in {"hook", "next"} /\ UNCHANGED mem
        BY <1>0, <2>21, ReconnectCallDoes
      <3>2. QED
        BY <2>3, <3>1 DEF Same
    <2>22. CASE ReconnectLock(t)
      BY <1>0, <2>3, <2>22, ReconnectLockDoes DEF Same, SameRun, NoCall
    <2>23. CASE ReconnectHook(t)
      BY <1>0, <2>3, <2>23, ReconnectHookDoes DEF Same, SameRun, NoCall
    <2>24. CASE ReconnectUpdate(t)
      BY <1>0, <2>3, <2>24, ReconnectUpdateDoes DEF Same, SameRun, NoCall
    <2>25. CASE ReconnectSwap(t)
      <3>0. /\ call[t].at = "swap" /\ Reconnecting(t) /\ call'[t].at = "releaseOld"
            /\ call'[t].old = call[t].old /\ call'[t].next = call[t].next
        BY <1>0, <2>25, ReconnectSwapDoes DEF Reconnecting
      <3>1. CASE mem[c].id # call[t].id \/ call[t].next = Free
        BY <1>0, <2>3, <3>0, <3>1, <2>25, ReconnectSwapDoes DEF Same, SameRun
      <3>2. CASE mem[c].id = call[t].id /\ call[t].next # Free
        <4>1. mem'[c].prof = mem[c].prof /\ call[t].old = mem[c].lock
          BY <1>0, <3>0, <3>2, <2>25, ReconnectSwapDoes DEF SameRun, ReconnectInv, ReconnectOK
        <4>2. CASE o = mem[c].lock
          <5>1. o \in ToGive(t)'
            BY <3>0, <3>2, <4>1, <4>2 DEF ToGive
          <5>2. QED
            BY <1>4, <5>1
        <4>3. CASE o = mem[c].prof
          <5>1. o \in MemRefs(c)'
            BY <1>1, <4>1, <4>3 DEF MemRefs
          <5>2. QED
            BY <2>1, <3>0, <5>1 DEF OwnedBy
        <4>4. QED
          BY <1>5, <4>2, <4>3 DEF MemRefs
      <3>3. QED
        BY <3>1, <3>2
    <2>26. CASE ReconnectRelease(t)
      BY <1>0, <2>3, <2>26, ReconnectReleaseDoes DEF Same, SameRun, NoCall
    <2>27. QED
      BY <2>10, <2>11, <2>12, <2>13, <2>14, <2>15, <2>16, <2>17, <2>18, <2>19, <2>20, <2>21, <2>22,
         <2>23, <2>24, <2>25, <2>26 DEF CallStep
  <1>6. CASE o \in ToGive(t)
    <2>1. call[t].at \in {"app", "register", "adapter", "commit", "hook", "update", "swap", "releaseOld"}
      BY <1>6 DEF ToGive, Own, Begun, Swapping
    <2>2. call[t].at # "releaseOld" => o \in Own(t)
      BY <1>6 DEF ToGive
    <2>3. ~GivesOwn(t) \/ call[t].at = "releaseOld"
      BY <1>3, <2>2 DEF GivesOwn
    <2>10. ASSUME NEW a \in Apps, StartCall(t, a) PROVE OwnedBy(c, o)'
      BY <1>0, <2>1, <2>10, StartCallDoes DEF NoCall
    <2>11. CASE StartProfile(t)
      BY <1>0, <2>1, <2>11, StartProfileDoes DEF NoCall
    <2>12. CASE StartApp(t)
      <3>1. call[t].at = "app" /\ o \in Own(t)
        BY <1>0, <2>2, <2>12, StartAppDoes
      <3>2. CASE call'[t].at = "register" /\ call'[t].prof = call[t].prof
        <4>1. call[t].lock = Free
          BY <1>0, <3>1 DEF StartInv, StartOK
        <4>2. o \in Own(t)'
          BY <3>1, <3>2, <4>1 DEF Own, Begun
        <4>3. QED
          BY <1>4, <4>2 DEF ToGive
      <3>3. QED
        BY <1>0, <2>3, <3>1, <3>2, <2>12, StartAppDoes
    <2>13. CASE StartRegister(t)
      <3>1. CASE GivesOwn(t)
        BY <1>0, <2>3, <3>1, <2>13, StartRegisterDoes
      <3>2. CASE ~GivesOwn(t)
        <4>1. Own(t)' = Own(t)
          BY <1>0, <3>2, <2>13, StartRegisterDoes DEF Own, Begun, Swapping
        <4>2. QED
          BY <1>0, <1>4, <2>2, <4>1, <2>13, StartRegisterDoes DEF ToGive
      <3>3. QED
        BY <3>1, <3>2
    <2>14. CASE StartAdapter(t)
      <3>1. CASE GivesOwn(t)
        BY <1>0, <2>3, <3>1, <2>14, StartAdapterDoes
      <3>2. CASE ~GivesOwn(t)
        <4>1. Own(t)' = Own(t)
          BY <1>0, <3>2, <2>14, StartAdapterDoes DEF Own, Begun, Swapping
        <4>2. QED
          BY <1>0, <1>4, <2>2, <4>1, <2>14, StartAdapterDoes DEF ToGive
      <3>3. QED
        BY <3>1, <3>2
    <2>15. CASE StartCommit(t)
      <3>1. call[t].at = "commit" /\ Begun(t) /\ o \in Own(t) /\ call'[t] = NoCall
        BY <1>0, <2>2, <2>15, StartCommitDoes DEF Begun
      <3>2. ~mem[c].started /\ mem'[c].prof = call[t].prof /\ mem'[c].lock = call[t].lock
        BY <1>0, <2>3, <3>1, <2>15, StartCommitDoes
      <3>3. o \in MemRefs(c)'
        BY <3>1, <3>2 DEF Own, MemRefs
      <3>4. ~At(c, {"clearing"})'
        <4>1. \A u \in Threads \ {t} : CoordOf[u] = c => ~ShuttingDown(u) /\ call'[u] = call[u]
          BY <1>0, <3>2, CallsOfOthers DEF ShutdownInv, ShutdownOK
        <4>2. QED
          BY <3>1, <4>1 DEF At, ShuttingDown, NoCall
      <3>5. QED
        BY <3>3, <3>4 DEF OwnedBy
    <2>16. CASE ShutdownCall(t)
      BY <1>0, <2>1, <2>16, ShutdownCallDoes DEF NoCall
    <2>17. CASE ShutdownHandle(t)
      BY <1>0, <2>1, <2>17, ShutdownHandleDoes DEF NoCall
    <2>18. CASE ShutdownUnregister(t)
      BY <1>0, <2>1, <2>18, ShutdownUnregisterDoes DEF NoCall
    <2>19. CASE ShutdownRelease(t)
      BY <1>0, <2>1, <2>19, ShutdownReleaseDoes DEF NoCall
    <2>20. CASE ShutdownEnd(t)
      BY <1>0, <2>1, <2>20, ShutdownEndDoes DEF NoCall
    <2>21. ASSUME NEW a \in Apps, ReconnectCall(t, a) PROVE OwnedBy(c, o)'
      BY <1>0, <2>1, <2>21, ReconnectCallDoes DEF NoCall
    <2>22. CASE ReconnectLock(t)
      BY <1>0, <2>1, <2>22, ReconnectLockDoes DEF NoCall
    <2>23. CASE ReconnectHook(t)
      <3>1. CASE GivesOwn(t)
        BY <1>0, <2>3, <3>1, <2>23, ReconnectHookDoes
      <3>2. CASE ~GivesOwn(t)
        <4>1. Own(t)' = Own(t)
          BY <1>0, <3>2, <2>23, ReconnectHookDoes DEF Own, Begun, Swapping
        <4>2. QED
          BY <1>0, <1>4, <2>2, <4>1, <2>23, ReconnectHookDoes DEF ToGive
      <3>3. QED
        BY <3>1, <3>2
    <2>24. CASE ReconnectUpdate(t)
      <3>1. Own(t)' = Own(t) /\ o \in Own(t)
        BY <1>0, <2>2, <2>24, ReconnectUpdateDoes DEF Own, Begun, Swapping
      <3>2. QED
        BY <1>4, <3>1 DEF ToGive
    <2>25. CASE ReconnectSwap(t)
      <3>0. /\ call[t].at = "swap" /\ Reconnecting(t) /\ call'[t].at = "releaseOld"
            /\ o \in Own(t) /\ t \in Reconnecters
        BY <1>0, <2>2, <2>25, ReconnectSwapDoes DEF Reconnecting, ReconnectInv, ReconnectOK
      <3>1. o = call[t].next
        BY <3>0 DEF Own, Begun, Swapping
      <3>2. mem'[c].lock = o
        BY <1>0, <1>1, <2>3, <3>0, <3>1, <2>25, ReconnectSwapDoes
      <3>3. o \in MemRefs(c)'
        BY <1>1, <3>2 DEF MemRefs
      <3>4. ~At(c, {"clearing"})'
        BY <3>0 DEF At, ReconnectsAlone
      <3>5. QED
        BY <3>3, <3>4 DEF OwnedBy
    <2>26. CASE ReconnectRelease(t)
      <3>1. call[t].at = "releaseOld" /\ call[t].next # Free /\ o = call[t].old
        BY <1>0, <1>6, <2>26, ReconnectReleaseDoes DEF ToGive, Own, Begun, Swapping
      <3>2. GivesOld(t)
        BY <1>0, <3>1, <2>26, ReconnectReleaseDoes
      <3>3. QED
        BY <1>3, <3>1, <3>2 DEF GivesOld
    <2>27. QED
      BY <2>10, <2>11, <2>12, <2>13, <2>14, <2>15, <2>16, <2>17, <2>18, <2>19, <2>20, <2>21, <2>22,
         <2>23, <2>24, <2>25, <2>26 DEF CallStep
  <1>7. QED
    BY <1>2, <1>5, <1>6 DEF OwnedBy

\* Nothing is held that nobody will release.
LEMMA OwnersStep ==
  ASSUME CoordAssumption, Careful, IInv, NoneFailed, ObjectsInv, OwnersInv, NEW t \in Threads, CallStep(t) PROVE OwnersInv'
  <1> DEFINE new == Fresh(CoordOf[t])
  <1>1. SUFFICES ASSUME NEW d \in Coords, ReconnectsAlone(d), NEW l \in Names, NEW o \in Objects, held'[l] = o, o.by = d
                 PROVE  OwnedBy(d, o)'
    BY DEF OwnersInv, ReconnectsAlone
  <1>2. Free \notin Objects /\ new.by = CoordOf[t] /\ CoordOf[t] \in Coords
    BY FieldTypes DEF Fresh, IInv
  <1>3. held[l] = o \/ (o = new /\ new \in Own(t)')
    BY <1>1, <1>2, HeldMoves DEF Frees, TakesOne
  <1>4. held[l] = o => OwnedBy(d, o)
    BY <1>1 DEF OwnersInv
  <1>5. CASE d # CoordOf[t]
    <2>1. /\ mem'[d] = mem[d] /\ \A u \in Threads : CoordOf[u] = d => call'[u] = call[u]
      BY <1>5, CallsOfOthers
    <2>2. /\ MemRefs(d)' = MemRefs(d) /\ (At(d, {"clearing"})' <=> At(d, {"clearing"}))
          /\ \A u \in Threads : CoordOf[u] = d => ToGive(u)' = ToGive(u)
      BY <2>1 DEF MemRefs, At, ToGive, Own, Begun, Swapping
    <2>3. OwnedBy(d, o)
      BY <1>1, <1>2, <1>3, <1>4, <1>5
    <2>4. QED
      BY <2>2, <2>3 DEF OwnedBy
  <1>6. CASE d = CoordOf[t] /\ held[l] = o
    BY <1>1, <1>4, <1>6, OwnersOwn
  <1>7. CASE d = CoordOf[t] /\ o = new /\ new \in Own(t)'
    <2>1. o \in ToGive(t)'
      BY <1>7 DEF ToGive
    <2>2. QED
      BY <1>7, <2>1 DEF OwnedBy
  <1>8. QED
    BY <1>3, <1>5, <1>6, <1>7

\* All of it holds after every step, and at the beginning.
LEMMA OrderStep ==
  ASSUME CoordAssumption, Careful, IInv, Order, [CoordNext]_coordVars PROVE Order'
  <1>1. ASSUME NEW t \in Threads, CallStep(t) PROVE Order'
    <2>1. NoneFailed' /\ KeptInv' /\ StartedInv' /\ IdsInv'
      BY <1>1, NoneFailedStep, KeptStep, StartedStep, IdsStep DEF Order
    <2>2. RegInv' /\ OnceInv'
      BY <1>1, RegStep, OnceStep DEF Order
    <2>3. ObjectsInv' /\ OwnersInv'
      BY <1>1, ObjectsStep, OwnersStep DEF Order
    <2>4. QED
      BY <2>1, <2>2, <2>3 DEF Order
  <1>2. CASE UNCHANGED coordVars
    <2>1. UNCHANGED <<held, serial, registry, mem, conn, call>>
      BY <1>2 DEF coordVars
    <2>2. \A c \in Coords : /\ MemRefs(c)' = MemRefs(c) /\ Ids(c)' = Ids(c) /\ (RunLocks(c)' <=> RunLocks(c))
      BY <2>1 DEF MemRefs, Ids, RunOf, Begun, Naming, ShuttingDown, Reconnecting, RunLocks
    <2>3. NoneFailed' /\ KeptInv' /\ StartedInv' /\ IdsInv' /\ OnceInv'
      BY <2>1, <2>2 DEF Order, NoneFailed, ShuttingDown, KeptInv, StartedInv, IdsInv, OnceInv, At
    <2>4. RegInv'
      BY <2>1 DEF Order, RegInv, Registered, Entered, Entering, EntryApp, Moving, At
    <2>5. \A t \in Threads : ToGive(t)' = ToGive(t)
      BY <2>1 DEF ToGive, Own, Begun, Swapping
    <2>6. ObjectsInv' /\ OwnersInv'
      BY <2>1, <2>2, <2>5 DEF Order, ObjectsInv, OwnersInv, OwnedBy, At, ShuttingDown, ReconnectsAlone
    <2>7. QED
      BY <2>3, <2>4, <2>6 DEF Order
  <1>3. QED
    BY <1>1, <1>2 DEF CoordNext, CallStep

LEMMA InitOrder ==
  ASSUME CoordAssumption, CoordInit PROVE Order
  <1> USE DEF CoordInit
  <1>1. /\ \A t \in Threads : call[t] = NoCall /\ CoordOf[t] \in Coords
        /\ \A c \in Coords : mem[c] = Stopped
        /\ \A l \in Names : held[l] = Free
        /\ registry = {} /\ Free \notin Objects
    BY DEF CoordAssumption, Free, Objects
  <1>2. \A t \in Threads : ~ShuttingDown(t) /\ ~Begun(t) /\ ~Naming(t) /\ RunOf(t) = 0
    BY <1>1 DEF NoCall, ShuttingDown, Begun, Naming, Reconnecting, RunOf
  <1>3. \A c \in Coords : ~mem[c].started /\ mem[c].id = 0
    BY <1>1 DEF Stopped
  <1>4. NoneFailed /\ KeptInv /\ StartedInv /\ OnceInv /\ ObjectsInv
    BY <1>1, <1>2, <1>3 DEF NoneFailed, KeptInv, StartedInv, OnceInv, ObjectsInv
  <1>5. IdsInv
    BY <1>2, <1>3 DEF IdsInv, Ids
  <1>6. \A e \in Entries : ~Registered(e)
    BY <1>1, <1>3 DEF Entries, Registered, Entered, Entering, NoCall
  <1>7. RegInv /\ OwnersInv
    BY <1>1, <1>6 DEF RegInv, OwnersInv
  <1>8. QED
    BY <1>4, <1>5, <1>7 DEF Order

\* Between calls a coordinator that is started is connected, and one that is connected started.
LEMMA QuietConnected ==
  ASSUME CoordAssumption, IInv, Order, NEW c \in Coords, Quiet(c)
  PROVE  /\ mem[c].started <=> conn[c] # Unconnected
         /\ mem[c].started => /\ conn[c].app = mem[c].app /\ conn[c].app \in Apps /\ RunLocks(c)
                              /\ mem[c].id # 0
  <1>1. \A t \in Threads : CoordOf[t] = c => call[t].at = "idle"
    BY DEF Quiet, NoCall
  <1>2. mem[c].started => Runs(c) /\ RunLocks(c) /\ mem[c].id # 0
    BY <1>1, RunNames DEF Order, StartedInv, KeptInv, At, Runs
  <1>3. mem[c].started => conn[c].app = mem[c].app
    BY <1>1, <1>2 DEF IInv, Invs, RunInv, RunOK
  <1>4. mem[c].started => mem[c].app \in Apps
    BY DEF IInv, Invs, MemInv, MemOK
  <1>5. conn[c] # Unconnected => mem[c].started
    BY <1>1 DEF IInv, Invs, ConnInv, Runs
  <1>6. mem[c].started => conn[c] # Unconnected
    BY <1>2 DEF Runs, Unconnected
  <1>7. QED
    BY <1>2, <1>3, <1>4, <1>5, <1>6

\* Between calls: the registry, and the locks.
LEMMA OrderAgrees ==
  ASSUME CoordAssumption, IInv, Order PROVE RegistryAgrees
  <1>1. SUFFICES ASSUME NEW c \in Coords, Quiet(c)
                 PROVE  {e \in Live : e.by = c} =
                          IF mem[c].started THEN {[id |-> mem[c].id, by |-> c, app |-> conn[c].app]} ELSE {}
    BY QuietConnected DEF RegistryAgrees
  <1> DEFINE own == [id |-> mem[c].id, by |-> c, app |-> conn[c].app]
  <1>2. \A t \in Threads : CoordOf[t] = c => call[t].at = "idle"
    BY <1>1 DEF Quiet, NoCall
  <1>3. \A e \in Entries : e.by = c => (Registered(e) <=> mem[c].started /\ e.id = mem[c].id /\ e.app = mem[c].app)
    BY <1>2 DEF Registered, Entered, Entering, EntryApp, Moving, At
  <1>4. Live \subseteq Entries /\ \A e \in Entries : e \in Live <=> Registered(e)
    BY AllLive DEF Order, RegInv, IInv, Types
  <1>5. mem[c].started => own \in Entries /\ conn[c].app = mem[c].app
    BY <1>1, QuietConnected DEF Entries, IInv, Types, Mems
  <1>6. \A e \in Entries : mem[c].started => (e = own <=> e.by = c /\ e.id = mem[c].id /\ e.app = mem[c].app)
    BY <1>5 DEF Entries
  <1>7. CASE mem[c].started
    BY <1>3, <1>4, <1>5, <1>6, <1>7
  <1>8. CASE ~mem[c].started
    BY <1>3, <1>4, <1>8
  <1>9. QED
    BY <1>7, <1>8

LEMMA OrderFollows ==
  ASSUME CoordAssumption, IInv, Order PROVE LocksFollowConnection
  <1>1. SUFFICES ASSUME NEW c \in Coords, Quiet(c), ReconnectsAlone(c)
                 PROVE  {l \in Names : held[l].by = c} =
                          IF conn[c] = Unconnected THEN {} ELSE {ProfileOf[c], conn[c].app}
    BY DEF LocksFollowConnection
  <1>2. \A t \in Threads : CoordOf[t] = c => ToGive(t) = {}
    BY <1>1 DEF Quiet, NoCall, ToGive, Own, Begun, Swapping
  <1>3. Free.by # c
    BY DEF CoordAssumption, Free
  <1>4. ASSUME NEW l \in Names, held[l].by = c PROVE held[l] \in MemRefs(c)
    <2>1. held[l] \in Objects
      BY <1>3, <1>4 DEF IInv, Types
    <2>2. OwnedBy(c, held[l])
      BY <1>1, <1>4, <2>1 DEF Order, OwnersInv
    <2>3. QED
      BY <1>2, <2>2 DEF OwnedBy
  <1>5. CASE conn[c] = Unconnected
    <2>1. MemRefs(c) = {}
      BY <1>1, <1>5, QuietConnected, RunIds
    <2>2. QED
      BY <1>4, <1>5, <2>1
  <1>6. CASE conn[c] # Unconnected
    <2>1. mem[c].started /\ conn[c].app = mem[c].app /\ RunLocks(c)
      BY <1>1, <1>6, QuietConnected
    <2>2. ProfileOf[c] \in Names /\ conn[c].app \in Names
      BY <2>1, RunNames
    <2>3. held[ProfileOf[c]].by = c /\ held[conn[c].app].by = c
      BY <1>6, ConnectionsAreLocked DEF ConnectedIsLocked
    <2>4. ASSUME NEW l \in Names, held[l].by = c PROVE l \in {ProfileOf[c], conn[c].app}
      <3>1. held[l] # Free /\ (held[l] = held[ProfileOf[c]] \/ held[l] = held[mem[c].app])
        BY <1>3, <1>4, <2>1, <2>4 DEF MemRefs, RunLocks
      <3>2. QED
        BY <2>1, <2>2, <2>4, <3>1 DEF Order, OnceInv
    <2>5. QED
      BY <1>6, <2>2, <2>3, <2>4
  <1>7. QED
    BY <1>5, <1>6

\* Whatever calls overlap, fail and end: a connection has its two locks; between calls the
\* registry and the coordinator tell what is connected; and, where nobody overlaps a
\* Reconnect, the coordinator holds those two locks and no other.
THEOREM CoordLeavesOrder == Careful /\ CoordSpec => []CallsLeaveOrder
  <1>1. CoordInit => IInv /\ Order
    BY InitIInv, InitOrder, CoordAssumption
  <1>2. Careful /\ IInv /\ Order /\ [CoordNext]_coordVars => IInv' /\ Order'
    BY NextIInv, OrderStep, CoordAssumption
  <1>3. IInv /\ Order => CallsLeaveOrder
    BY ConnectionsAreLocked, OrderAgrees, OrderFollows, CoordAssumption DEF CallsLeaveOrder
  <1>4. CASE Careful
    <2>1. (IInv /\ Order) /\ [CoordNext]_coordVars => (IInv /\ Order)'
      BY <1>2, <1>4
    <2>2. QED
      BY <1>1, <1>3, <2>1, PTL DEF CoordSpec
  <1>5. QED
    BY <1>4
-----------------------------------------------------------------------------
Owning(p) == proc[p] \in {"holding", "releasing"}

\* Without trouble the directory is fresh exactly while it is owned, by one
\* process only, and nobody ever sees it stale.
OwnedOnce ==
  /\ dir = "fresh" => \E p \in Procs : Owning(p)
  /\ dir # "stale"
  /\ \A p \in Procs : proc[p] \notin {"removing", "crashed"}
  /\ \A p, q \in Procs : Owning(p) /\ Owning(q) => p = q
  /\ \A p \in Procs : Owning(p) => dir # "none"

LockIInv == LockTypeOK /\ (troubled = {} => OwnedOnce)

LEMMA LockInitIInv == LockInit => LockIInv
  BY DEF LockInit, LockIInv, LockTypeOK, OwnedOnce, Owning

\* While everybody runs, a lock that exists is touched in time or just being
\* released, so it does not age.
LEMMA NeverAges ==
  ASSUME LockIInv, troubled = {} PROVE ~Age
  <1>1. sleeping = {}
    BY DEF LockIInv, LockTypeOK
  <1>2. SUFFICES ASSUME Age PROVE FALSE
    OBVIOUS
  <1>3. PICK p \in Procs : Owning(p)
    BY <1>2 DEF Age, LockIInv, OwnedOnce
  <1>4. QED
    BY <1>1, <1>2, <1>3 DEF Age, Touching, Owning

LEMMA LockTypeStep ==
  ASSUME LockTypeOK, [LockNext]_lockVars PROVE LockTypeOK'
  <1> USE LockAssumption DEF LockTypeOK
  <1>1. CASE UNCHANGED lockVars
    BY <1>1 DEF lockVars
  <1>2. CASE Age
    BY <1>2 DEF Age
  <1>3. ASSUME NEW p \in Procs, LockCall(p) \/ Mkdir(p) \/ Stat(p) \/ RemoveStale(p) \/ Touch(p)
        PROVE LockTypeOK'
    BY <1>3 DEF LockCall, Mkdir, Stat, RemoveStale, Touch, Running, Touching
  <1>4. ASSUME NEW p \in Procs, ReleaseCall(p) \/ ReleaseRemoves(p) PROVE LockTypeOK'
    BY <1>4 DEF ReleaseCall, ReleaseRemoves, Running
  <1>5. ASSUME NEW p \in Procs, Crash(p) \/ Suspend(p) \/ Resume(p) PROVE LockTypeOK'
    BY <1>5 DEF Crash, Suspend, Resume, Running
  <1>6. QED
    BY <1>1, <1>2, <1>3, <1>4, <1>5 DEF LockNext, LockStep

\* Trouble is remembered.
LEMMA TroubleStays ==
  ASSUME [LockNext]_lockVars PROVE troubled \subseteq troubled'
  BY DEF LockNext, LockStep, Age, LockCall, Mkdir, Stat, RemoveStale, Touch, ReleaseCall, ReleaseRemoves,
         Crash, Suspend, Resume, lockVars

LEMMA LockNextIInv ==
  ASSUME LockIInv, [LockNext]_lockVars PROVE LockIInv'
  <1>0. LockTypeOK /\ LockTypeOK'
    BY LockTypeStep DEF LockIInv
  <1> SUFFICES ASSUME troubled' = {} PROVE OwnedOnce'
    BY <1>0 DEF LockIInv
  <1>1. troubled = {} /\ OwnedOnce
    BY TroubleStays DEF LockIInv
  <1> USE <1>0, <1>1 DEF LockTypeOK
  <1>2. CASE UNCHANGED lockVars
    BY <1>2 DEF lockVars, OwnedOnce, Owning
  <1>3. ASSUME NEW p \in Procs, LockCall(p) \/ Stat(p) PROVE OwnedOnce'
    BY <1>3 DEF LockCall, Stat, OwnedOnce, Owning
  <1>4. ASSUME NEW p \in Procs, Mkdir(p) PROVE OwnedOnce'
    <2>1. CASE dir = "none"
      <3>1. \A q \in Procs : ~Owning(q)
        BY <2>1 DEF OwnedOnce
      <3>2. dir' = "fresh" /\ proc' = [proc EXCEPT ![p] = "holding"]
        BY <1>4, <2>1 DEF Mkdir
      <3>3. QED
        BY <3>1, <3>2 DEF OwnedOnce, Owning
    <2>2. CASE dir # "none"
      BY <1>4, <2>2 DEF Mkdir, OwnedOnce, Owning
    <2>3. QED
      BY <2>1, <2>2
  <1>5. ASSUME NEW p \in Procs, ReleaseCall(p) PROVE OwnedOnce'
    BY <1>5 DEF ReleaseCall, OwnedOnce, Owning
  <1>6. ASSUME NEW p \in Procs, ReleaseRemoves(p) PROVE OwnedOnce'
    <2>1. dir' = "none" /\ proc' = [proc EXCEPT ![p] = "out"] /\ Owning(p)
      BY <1>6 DEF ReleaseRemoves, Owning
    <2>2. \A q \in Procs : ~Owning(q)'
      BY <2>1 DEF OwnedOnce, Owning
    <2>3. QED
      BY <2>1, <2>2 DEF OwnedOnce, Owning
  <1>7. ASSUME NEW p \in Procs PROVE ~RemoveStale(p) /\ ~Touch(p)
    BY DEF RemoveStale, Touch, OwnedOnce
  <1>8. ASSUME NEW p \in Procs PROVE ~Crash(p) /\ ~Suspend(p) /\ ~Resume(p)
    BY DEF Crash, Suspend, Resume
  <1>9. QED
    BY <1>2, <1>3, <1>4, <1>5, <1>6, <1>7, <1>8, NeverAges DEF LockIInv, LockNext, LockStep

\* Until a process crashes or is suspended, at most one holds the lock and the
\* directory of whoever holds it is there: acquireDirLock, touchLoop and Release
\* in any order, between any number of processes.
THEOREM LockExcludes == LockSpec => [](OneHolder /\ HolderHasDir)
  <1>1. LockIInv => OneHolder /\ HolderHasDir
    BY DEF LockIInv, OwnedOnce, OneHolder, HolderHasDir, Owning, Touching
  <1>2. LockIInv /\ [LockNext]_lockVars => LockIInv'
    BY LockNextIInv
  <1>3. QED
    BY <1>1, <1>2, LockInitIInv, PTL DEF LockSpec
=====
