----------------------------- MODULE RunExecutor -----------------------------
(***************************************************************************)
(* Runs of the agent, internal/app/runexecutor/run_executor.go, over the   *)
(* process pool and the registry of active runs.  Submit reserves the      *)
(* scope, acquires a slot, prepares and spawns the agent process and       *)
(* registers it; the pump of the event fan-out cleans up behind the        *)
(* terminal event; RunExecution.Stop, /stop (Interrupt), /reconnect and    *)
(* shutdown (StopAll, WaitForAll) end runs from outside.  Each step below  *)
(* is one critical section or one blocking call, so that every goroutine   *)
(* may run between any two of them.  A run is named by its submission.     *)
(* The registry (active_runs.go) says which scope has a registered run,    *)
(* which is reserved by a submission on its way to one, which handles are  *)
(* marked interrupted, and how many callers pause new runs.                *)
(***************************************************************************)
EXTENDS ProcessPool

CONSTANTS Scopes,  \* conversation scopes
          NoRun    \* no handle is registered

CONSTANTS ScopeOf,      \* the scope of each submission
          Nowait,       \* the submissions that use TryAcquire
          Controllers,  \* goroutines that stop or await every run
          Orders        \* what each may do: "stop", "wait" (/reconnect), "shutdown"

ASSUME ExecutorAssumption ==
  /\ ScopeOf \in [Callers -> Scopes]
  /\ Nowait \subseteq Callers
  /\ NoRun \notin Callers /\ IsFiniteSet(Controllers)
  /\ Orders \in [Controllers -> SUBSET {"stop", "wait", "shutdown"}]

VARIABLES handles,      \* the registered run of each scope, or NoRun
          reserved,     \* the scopes with a reservation
          interrupted,  \* the runs whose handle is marked interrupted
          pauseDepth    \* callers of PauseNewRuns that have not resumed

VARIABLES submit,    \* where each submission is
          proc,      \* the agent process of each run
          pump,      \* the goroutine that pumps each run's events
          cleanup,   \* how far the run's cleanup (a sync.Once) has come
          waits,     \* the runs whose cleanup waits for the process to exit
          stopper,   \* where RunExecution.Stop is (its sync.Once)
          killing,   \* the goroutines Interrupt started to stop a process
          ctl, todo, \* where each controller is, and the runs it has to go through
          failed     \* the controllers that saw an error

activeRunsVars == <<handles, reserved, interrupted, pauseDepth>>
execVars == <<submit, proc, pump, cleanup, waits, stopper, killing, ctl, todo, failed>>
allVars  == <<poolVars, activeRunsVars, execVars>>

-----------------------------------------------------------------------------
\* The registry of active runs: every operator is one critical section of its mutex.
ActiveRunsInit ==
  /\ handles = [sc \in Scopes |-> NoRun]
  /\ reserved = {}
  /\ interrupted = {}
  /\ pauseDepth = 0

NewRunsPaused == pauseDepth > 0

\* Mutant of CanReserve: a scope with a registered run can be reserved.
CanReserveBusy(sc) == sc \notin reserved

\* Reserve succeeds on a scope with neither a handle nor a reservation.
CanReserve(sc) == handles[sc] = NoRun /\ sc \notin reserved

Reserve(sc) ==
  /\ CanReserve(sc)
  /\ reserved' = reserved \cup {sc}
  /\ UNCHANGED <<handles, interrupted, pauseDepth>>

\* The function Reserve returns deletes by scope: it does not know whose
\* reservation it deletes.
ReleaseReservation(sc) ==
  /\ reserved' = reserved \ {sc}
  /\ UNCHANGED <<handles, interrupted, pauseDepth>>

\* Register refuses a scope with a handle; it does not ask for a reservation.
Register(sc, r) ==
  /\ handles[sc] = NoRun
  /\ handles' = [handles EXCEPT ![sc] = r]
  /\ reserved' = reserved \ {sc}
  /\ UNCHANGED <<interrupted, pauseDepth>>

\* Unregister removes the handle only while it is still this run's.
Unregister(sc, r) ==
  /\ handles' = [handles EXCEPT ![sc] = IF @ = r THEN NoRun ELSE @]
  /\ UNCHANGED <<reserved, interrupted, pauseDepth>>

\* MarkInterrupted on a handle the caller already has.
MarkInterrupted(r) ==
  /\ interrupted' = interrupted \cup {r}
  /\ UNCHANGED <<handles, reserved, pauseDepth>>

\* Mutant of InterruptScope: the handle is not marked.
InterruptUnmarked(sc) ==
  /\ handles[sc] # NoRun
  /\ handles' = [handles EXCEPT ![sc] = NoRun]
  /\ reserved' = reserved \ {sc}
  /\ UNCHANGED <<interrupted, pauseDepth>>

\* The critical section of Interrupt, on a scope that has a handle.
InterruptScope(sc) ==
  /\ handles[sc] # NoRun
  /\ interrupted' = interrupted \cup {handles[sc]}
  /\ handles' = [handles EXCEPT ![sc] = NoRun]
  /\ reserved' = reserved \ {sc}
  /\ UNCHANGED pauseDepth

Registered == {handles[sc] : sc \in Scopes} \ {NoRun}

\* The critical section of StopAll: reservations go too.
ClearAll ==
  /\ interrupted' = interrupted \cup Registered
  /\ handles' = [sc \in Scopes |-> NoRun]
  /\ reserved' = {}
  /\ UNCHANGED pauseDepth

PauseNewRuns ==
  /\ pauseDepth' = pauseDepth + 1
  /\ UNCHANGED <<handles, reserved, interrupted>>

\* The function PauseNewRuns returns; sync.Once lets it act once.
ResumeNewRuns ==
  /\ pauseDepth' = IF pauseDepth > 0 THEN pauseDepth - 1 ELSE 0
  /\ UNCHANGED <<handles, reserved, interrupted>>
-----------------------------------------------------------------------------
submitFrame  == <<proc, pump, cleanup, waits, stopper, killing, ctl, todo, failed>>
controlFrame == <<submit, pump, cleanup, waits, stopper, killing>>

SubmitStates ==
  {"new", "reserve", "acquire", "acquiring", "recheck", "prepare", "lastCheck", "spawn",
   "spawned", "undoPool", "undoScope", "undoStop", "returned", "failed"}

Go(s, from, to) == submit[s] = from /\ submit' = [submit EXCEPT ![s] = to]

\* Stop either makes the process exit, or returns an error and leaves it.
StopProcess(s) ==
  \/ proc' = [proc EXCEPT ![s] = IF @ = "running" THEN "exited" ELSE @]
  \/ UNCHANGED proc
-----------------------------------------------------------------------------
Init ==
  /\ PoolInit
  /\ ActiveRunsInit
  /\ submit = [s \in Callers |-> "new"]
  /\ proc = [s \in Callers |-> "none"]
  /\ pump = [s \in Callers |-> "none"]
  /\ cleanup = [s \in Callers |-> "unowned"]
  /\ waits = {}
  /\ stopper = [s \in Callers |-> "none"]
  /\ killing = {}
  /\ ctl = [k \in Controllers |-> "idle"]
  /\ todo = [k \in Controllers |-> {}]
  /\ failed = {}

\* Submit, first look at the pause; an expired policy is refused as well.
SubmitCall(s) ==
  /\ \/ NewRunsPaused /\ Go(s, "new", "failed")
     \/ Go(s, "new", "failed")
     \/ ~NewRunsPaused /\ Go(s, "new", "reserve")
  /\ UNCHANGED <<poolVars, activeRunsVars, submitFrame>>

SubmitReserve(s) ==
  /\ \/ Reserve(ScopeOf[s]) /\ Go(s, "reserve", "acquire")
     \/ /\ ~CanReserve(ScopeOf[s])
        /\ Go(s, "reserve", "failed")
        /\ UNCHANGED activeRunsVars
  /\ UNCHANGED <<poolVars, submitFrame>>

\* Mutant of SubmitTry: the rejection keeps the reservation.
SubmitTryLeaks(s) ==
  /\ s \in Nowait
  /\ \/ TryAcquire(s) /\ Go(s, "acquire", "recheck")
     \/ active >= CurrentCap /\ Go(s, "acquire", "failed") /\ UNCHANGED poolVars
  /\ UNCHANGED <<activeRunsVars, submitFrame>>

\* acquirePool with nowait: a full pool rejects the submission at once.
SubmitTry(s) ==
  /\ s \in Nowait
  /\ \/ TryAcquire(s) /\ Go(s, "acquire", "recheck")
     \/ active >= CurrentCap /\ Go(s, "acquire", "undoScope") /\ UNCHANGED poolVars
  /\ UNCHANGED <<activeRunsVars, submitFrame>>

\* acquirePool otherwise: the steps of ProcessPool.Acquire.
SubmitAcquire(s) ==
  /\ s \notin Nowait
  /\ \/ AcquireCall(s) /\ Go(s, "acquire", "acquiring")
     \/ AcquireSlot(s) /\ Go(s, "acquiring", "recheck")
     \/ (AcquirePark(s) \/ AcquireWake(s) \/ AcquireDone(s)) /\ UNCHANGED submit
     \/ RemoveWaiter(s) /\ Go(s, "acquiring", "undoScope")
  /\ UNCHANGED <<activeRunsVars, submitFrame>>

\* The submission waited for a slot, so the pause is looked at again.
SubmitRecheck(s) ==
  /\ IF NewRunsPaused THEN Go(s, "recheck", "undoPool") ELSE Go(s, "recheck", "prepare")
  /\ UNCHANGED <<poolVars, activeRunsVars, submitFrame>>

\* agent.PrepareRun fails or succeeds.
SubmitPrepare(s) ==
  /\ Go(s, "prepare", "undoPool") \/ Go(s, "prepare", "lastCheck")
  /\ UNCHANGED <<poolVars, activeRunsVars, submitFrame>>

\* ctx.Err and the pause, for the last time before the process is started.
SubmitLastCheck(s) ==
  /\ IF s \in expired \/ NewRunsPaused
     THEN Go(s, "lastCheck", "undoPool") ELSE Go(s, "lastCheck", "spawn")
  /\ UNCHANGED <<poolVars, activeRunsVars, submitFrame>>

\* agent.Run starts the process, or fails.
SubmitSpawn(s) ==
  /\ \/ Go(s, "spawn", "spawned") /\ proc' = [proc EXCEPT ![s] = "running"]
     \/ Go(s, "spawn", "undoPool") /\ UNCHANGED proc
  /\ UNCHANGED <<poolVars, activeRunsVars, pump, cleanup, waits, stopper, killing, ctl, todo, failed>>

\* Mutant of SubmitRegister: Submit returns an execution nobody pumps.
SubmitRegisterUnpumped(s) ==
  /\ Go(s, "spawned", "returned")
  /\ Register(ScopeOf[s], s)
  /\ UNCHANGED <<poolVars, submitFrame>>

\* ctx.Err again, then Register; the pump starts with the execution.
SubmitRegister(s) ==
  /\ \/ /\ s \notin expired
        /\ Register(ScopeOf[s], s)
        /\ Go(s, "spawned", "returned")
        /\ pump' = [pump EXCEPT ![s] = "reading"]
     \/ /\ s \in expired \/ handles[ScopeOf[s]] # NoRun
        /\ Go(s, "spawned", "undoPool")
        /\ UNCHANGED <<activeRunsVars, pump>>
  /\ UNCHANGED <<poolVars, proc, cleanup, waits, stopper, killing, ctl, todo, failed>>

\* Mutant of SubmitUndo: a failed submission keeps its slot.
SubmitUndoKeepsSlot(s) ==
  /\ \/ Go(s, "undoPool", "undoScope") /\ UNCHANGED <<poolVars, activeRunsVars, proc>>
     \/ /\ ReleaseReservation(ScopeOf[s])
        /\ Go(s, "undoScope", IF proc[s] = "none" THEN "failed" ELSE "undoStop")
        /\ UNCHANGED <<poolVars, proc>>
     \/ Go(s, "undoStop", "failed") /\ StopProcess(s) /\ UNCHANGED <<poolVars, activeRunsVars>>
  /\ UNCHANGED <<pump, cleanup, waits, stopper, killing, ctl, todo, failed>>

\* releaseBoth: the slot, then the reservation; a process already started is
\* stopped after that.
SubmitUndo(s) ==
  /\ \/ Release(s) /\ Go(s, "undoPool", "undoScope") /\ UNCHANGED <<activeRunsVars, proc>>
     \/ /\ ReleaseReservation(ScopeOf[s])
        /\ Go(s, "undoScope", IF proc[s] = "none" THEN "failed" ELSE "undoStop")
        /\ UNCHANGED <<poolVars, proc>>
     \/ Go(s, "undoStop", "failed") /\ StopProcess(s) /\ UNCHANGED <<poolVars, activeRunsVars>>
  /\ UNCHANGED <<pump, cleanup, waits, stopper, killing, ctl, todo, failed>>

\* The submission's context ends while Submit still looks at it.
ContextDone(s) ==
  /\ submit[s] \in {"acquiring", "recheck", "prepare", "lastCheck", "spawn", "spawned"}
  /\ Expire(s)
  /\ UNCHANGED <<activeRunsVars, execVars>>
-----------------------------------------------------------------------------
ProcessExits(s) ==
  /\ proc[s] = "running"
  /\ proc' = [proc EXCEPT ![s] = "exited"]
  /\ UNCHANGED <<poolVars, activeRunsVars, controlFrame, ctl, todo, failed>>

\* The pump saw a terminal event, which may come before the exit, or the end
\* of the events; onDone reads Interrupted() before it enters cleanup.
PumpEnds(s) ==
  /\ pump[s] = "reading"
  /\ pump' = [pump EXCEPT ![s] = IF s \in interrupted THEN "onDone" ELSE "onDoneWait"]
  /\ UNCHANGED <<poolVars, activeRunsVars, submit, proc, cleanup, waits, stopper, killing, ctl, todo, failed>>

\* cleanupOnce.Do: the pump or Stop runs the cleanup, whoever comes first; the
\* other one waits until it is over.
EnterCleanup(s) ==
  /\ cleanup[s] = "unowned"
  /\ \/ pump[s] = "onDoneWait" /\ waits' = waits \cup {s}
     \/ pump[s] = "onDone" /\ UNCHANGED waits
     \/ stopper[s] = "cleanup" /\ UNCHANGED waits
  /\ cleanup' = [cleanup EXCEPT ![s] = "unregister"]
  /\ UNCHANGED <<poolVars, activeRunsVars, submit, proc, pump, stopper, killing, ctl, todo, failed>>

\* Mutant of CleanupUnregister: the handle stays behind.
CleanupKeepsHandle(s) ==
  /\ cleanup[s] = "unregister"
  /\ cleanup' = [cleanup EXCEPT ![s] = "release"]
  /\ UNCHANGED <<poolVars, activeRunsVars, submit, proc, pump, waits, stopper, killing, ctl, todo, failed>>

\* First the handle, if it is still this run's.
CleanupUnregister(s) ==
  /\ cleanup[s] = "unregister"
  /\ Unregister(ScopeOf[s], s)
  /\ cleanup' = [cleanup EXCEPT ![s] = "release"]
  /\ UNCHANGED <<poolVars, submit, proc, pump, waits, stopper, killing, ctl, todo, failed>>

\* The slot is free from here on, even while waitOrStop awaits the process.
CleanupRelease(s) ==
  /\ cleanup[s] = "release"
  /\ Release(s)
  /\ cleanup' = [cleanup EXCEPT ![s] = IF s \in waits THEN "linger" ELSE "cleaned"]
  /\ UNCHANGED <<activeRunsVars, submit, proc, pump, waits, stopper, killing, ctl, todo, failed>>

\* waitOrStop: the process exited within the grace period, or is stopped, which
\* may fail too.
CleanupLinger(s) ==
  /\ cleanup[s] = "linger"
  /\ proc[s] = "running" => StopProcess(s)
  /\ proc[s] # "running" => UNCHANGED proc
  /\ cleanup' = [cleanup EXCEPT ![s] = "cleaned"]
  /\ UNCHANGED <<poolVars, activeRunsVars, submit, pump, waits, stopper, killing, ctl, todo, failed>>

\* The fan-out is done: its subscribers' channels close.
PumpDone(s) ==
  /\ pump[s] \in {"onDone", "onDoneWait"}
  /\ cleanup[s] = "cleaned"
  /\ pump' = [pump EXCEPT ![s] = "done"]
  /\ UNCHANGED <<poolVars, activeRunsVars, submit, proc, cleanup, waits, stopper, killing, ctl, todo, failed>>

\* RunExecution.Stop: mark, stop the process, clean up without waiting.  A Stop
\* that fails leaves the cleanup to the pump.
StopCall(s) ==
  /\ submit[s] = "returned"
  /\ stopper[s] = "none"
  /\ MarkInterrupted(s)
  /\ stopper' = [stopper EXCEPT ![s] = "stopping"]
  /\ UNCHANGED <<poolVars, submit, proc, pump, cleanup, waits, killing, ctl, todo, failed>>

StopProceeds(s) ==
  /\ \/ /\ stopper[s] = "stopping"
        /\ \/ proc' = [proc EXCEPT ![s] = "exited"] /\ stopper' = [stopper EXCEPT ![s] = "cleanup"]
           \/ UNCHANGED proc /\ stopper' = [stopper EXCEPT ![s] = "done"]
     \/ /\ stopper[s] = "cleanup"
        /\ cleanup[s] = "cleaned"
        /\ stopper' = [stopper EXCEPT ![s] = "done"]
        /\ UNCHANGED proc
  /\ UNCHANGED <<poolVars, activeRunsVars, submit, pump, cleanup, waits, killing, ctl, todo, failed>>

\* Interrupt unregisters at once and stops the process in a goroutine.
Interrupt(sc) ==
  /\ InterruptScope(sc)
  /\ killing' = killing \cup {handles[sc]}
  /\ UNCHANGED <<poolVars, submit, proc, pump, cleanup, waits, stopper, ctl, todo, failed>>

InterruptStops(s) ==
  /\ s \in killing
  /\ killing' = killing \ {s}
  /\ StopProcess(s)
  /\ UNCHANGED <<poolVars, activeRunsVars, submit, pump, cleanup, waits, stopper, ctl, todo, failed>>
-----------------------------------------------------------------------------
\* /reconnect pauses new runs before anything else; shutdown does not.
ControlBegin(k) ==
  /\ ctl[k] = "idle"
  /\ \E order \in Orders[k] :
       /\ ctl' = [ctl EXCEPT ![k] = order]
       /\ IF order = "shutdown" THEN UNCHANGED activeRunsVars ELSE PauseNewRuns
  /\ UNCHANGED <<poolVars, controlFrame, proc, todo, failed>>

\* StopAll marks and forgets every handle and forgets every reservation;
\* WaitForAll takes a snapshot of the handles.
ControlSnapshot(k) ==
  /\ \/ ctl[k] \in {"stop", "shutdown"} /\ ClearAll
     \/ ctl[k] = "wait" /\ UNCHANGED activeRunsVars
  /\ todo' = [todo EXCEPT ![k] = Registered]
  /\ ctl' = [ctl EXCEPT ![k] = CASE @ = "stop"     -> "stopping"
                                 [] @ = "shutdown" -> "closing"
                                 [] @ = "wait"     -> "waiting"]
  /\ UNCHANGED <<poolVars, controlFrame, proc, failed>>

\* One run after another is stopped or awaited; the first error is kept.
ControlNext(k) ==
  /\ \E s \in todo[k] :
       /\ todo' = [todo EXCEPT ![k] = @ \ {s}]
       /\ \/ /\ ctl[k] \in {"stopping", "closing"}
             /\ proc' = [proc EXCEPT ![s] = "exited"]
             /\ UNCHANGED failed
          \/ ctl[k] = "waiting" /\ proc[s] = "exited" /\ UNCHANGED <<proc, failed>>
          \/ failed' = failed \cup {k} /\ UNCHANGED proc
  /\ UNCHANGED <<poolVars, activeRunsVars, controlFrame, ctl>>

\* Without an error /reconnect restarts the connection.
ControlRestart(k) ==
  /\ ctl[k] \in {"stopping", "waiting"}
  /\ todo[k] = {}
  /\ ctl' = [ctl EXCEPT ![k] = IF k \in failed THEN "resuming" ELSE "restarting"]
  /\ UNCHANGED <<poolVars, activeRunsVars, controlFrame, proc, todo, failed>>

\* Mutant of ControlEnd: a /reconnect whose stop failed does not resume.
ControlEndPaused(k) ==
  /\ \/ ctl[k] = "restarting" /\ ResumeNewRuns
     \/ ctl[k] = "resuming" /\ UNCHANGED activeRunsVars
     \/ ctl[k] = "closing" /\ todo[k] = {} /\ UNCHANGED activeRunsVars
  /\ ctl' = [ctl EXCEPT ![k] = "done"]
  /\ UNCHANGED <<poolVars, controlFrame, proc, todo, failed>>

\* The deferred resume, when the restart returned.
ControlEnd(k) ==
  /\ \/ ctl[k] \in {"restarting", "resuming"} /\ ResumeNewRuns
     \/ ctl[k] = "closing" /\ todo[k] = {} /\ UNCHANGED activeRunsVars
  /\ ctl' = [ctl EXCEPT ![k] = "done"]
  /\ UNCHANGED <<poolVars, controlFrame, proc, todo, failed>>
-----------------------------------------------------------------------------
SubmitStep(s) ==
  \/ SubmitCall(s) \/ SubmitReserve(s) \/ SubmitTry(s) \/ SubmitAcquire(s) \/ SubmitRecheck(s)
  \/ SubmitPrepare(s) \/ SubmitLastCheck(s) \/ SubmitSpawn(s) \/ SubmitRegister(s) \/ SubmitUndo(s)

CleanupStep(s) ==
  EnterCleanup(s) \/ CleanupUnregister(s) \/ CleanupRelease(s) \/ CleanupLinger(s) \/ PumpDone(s)

RunStep(s) ==
  \/ SubmitStep(s) \/ ContextDone(s) \/ ProcessExits(s) \/ PumpEnds(s) \/ CleanupStep(s)
  \/ StopCall(s) \/ StopProceeds(s) \/ InterruptStops(s)

ControlStep(k) ==
  ControlBegin(k) \/ ControlSnapshot(k) \/ ControlNext(k) \/ ControlRestart(k) \/ ControlEnd(k)

Next ==
  \/ \E s \in Callers : RunStep(s)
  \/ \E sc \in Scopes : Interrupt(sc)
  \/ \E k \in Controllers : ControlStep(k)

Spec == Init /\ [][Next]_allVars

\* The events of an exited process end, and the goroutines that clean up behind
\* a run go on.  Nothing else need happen: agents need not exit, calls of Stop
\* need not proceed, and nobody has to submit or stop anything.
PumpSeesExit(s) == proc[s] = "exited" /\ PumpEnds(s)
Fairness ==
  \A s \in Callers : WF_allVars(CleanupStep(s)) /\ WF_allVars(PumpSeesExit(s))
FairSpec == Spec /\ Fairness
-----------------------------------------------------------------------------
TypeOK ==
  /\ PoolTypeOK
  /\ handles \in [Scopes -> Callers \cup {NoRun}]
  /\ reserved \in SUBSET Scopes
  /\ interrupted \in SUBSET Callers
  /\ pauseDepth \in Nat
  /\ submit \in [Callers -> SubmitStates]
  /\ proc \in [Callers -> {"none", "running", "exited"}]
  /\ pump \in [Callers -> {"none", "reading", "onDone", "onDoneWait", "done"}]
  /\ cleanup \in [Callers -> {"unowned", "unregister", "release", "linger", "cleaned"}]
  /\ waits \in SUBSET Callers
  /\ stopper \in [Callers -> {"none", "stopping", "cleanup", "done"}]
  /\ killing \in SUBSET Callers
  /\ ctl \in [Controllers -> {"idle", "stop", "wait", "shutdown", "stopping", "waiting",
                              "closing", "restarting", "resuming", "done"}]
  /\ todo \in [Controllers -> SUBSET Callers]
  /\ failed \in SUBSET Controllers

\* Submissions between a successful Reserve and Register or releaseScope.
Reserving(s) ==
  submit[s] \in {"acquire", "acquiring", "recheck", "prepare", "lastCheck", "spawn",
                 "spawned", "undoPool", "undoScope"}
HasHandle(s) == handles[ScopeOf[s]] = s

\* A slot is held exactly by the submissions between acquisition and undo and
\* by the executions whose cleanup has not released it: no error path, no Stop
\* racing the pump, no interrupt and no StopAll leaks a slot or frees it twice.
SlotOwnership ==
  \A s \in Callers :
    pool[s] = "holding" <=>
      \/ submit[s] \in {"recheck", "prepare", "lastCheck", "spawn", "spawned", "undoPool"}
      \/ submit[s] = "returned" /\ cleanup[s] \in {"unowned", "unregister", "release"}

\* Every reservation belongs to a submission still on its way: a scope is never
\* left refusing runs for good (TestPrepareFailureReleasesScopeAndPool).
NoOrphanReservation ==
  \A sc \in reserved : \E s \in Callers : ScopeOf[s] = sc /\ Reserving(s)

\* A handle belongs to a run that was returned and whose cleanup has not
\* unregistered it: /stop always finds a run it can stop, or none.
HandlesAreLive ==
  \A s \in Callers :
    HasHandle(s) => submit[s] = "returned" /\ cleanup[s] \in {"unowned", "unregister"}

\* The three together: nothing leaks and nothing is taken away too early.
NothingLeaks == SlotOwnership /\ NoOrphanReservation /\ HandlesAreLive

\* No StopAll has dropped a reservation so far.
ReservationsKept ==
  \A k \in Controllers : ctl[k] \in {"idle", "stop", "shutdown", "wait", "waiting"}

\* Until somebody stops all runs, a scope has at most one submission on its way
\* or registered run: the one whose cleanup or undo is pending never disturbs
\* the next one's reservation or handle.
ScopeExclusive ==
  ReservationsKept =>
    \A s, t \in Callers :
      s # t /\ ScopeOf[s] = ScopeOf[t] =>
        ~ ((Reserving(s) \/ HasHandle(s)) /\ (Reserving(t) \/ HasHandle(t)))

\* New runs stay paused exactly as long as some /reconnect has not resumed.
PausedWhileReconnecting ==
  pauseDepth = Cardinality({k \in Controllers :
    ctl[k] \in {"stop", "wait", "stopping", "waiting", "restarting", "resuming"}})

\* A run that lost its handle without being asked to end has cleaned up: only
\* an interrupt or its own cleanup unregisters a run.
UnregisteredIsOver ==
  \A s \in Callers :
    submit[s] = "returned" /\ ~HasHandle(s) =>
      s \in interrupted \/ cleanup[s] \in {"release", "linger", "cleaned"}

\* Both: a scope belongs to one run at a time, from its reservation to its cleanup.
OneRunPerScope == ScopeExclusive /\ UnregisteredIsOver

\* The slot of an exited process comes back, whoever was stopping it and
\* whichever of those calls failed; so do its subscribers.
SlotComesBack ==
  \A s \in Callers :
    (submit[s] = "returned" /\ proc[s] = "exited") ~> (pool[s] # "holding" /\ pump[s] = "done")
=============================================================================
