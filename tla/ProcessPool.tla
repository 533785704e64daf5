---------------------------- MODULE ProcessPool ----------------------------
(***************************************************************************)
(* The pool of agent process slots, internal/app/runexecutor/process_pool. *)
(* Acquire is a loop: under the mutex it takes a slot when one is free,    *)
(* else it appends a fresh channel to the FIFO of waiters, unlocks and     *)
(* selects on that channel and its context.  A release gives the slot back *)
(* and closes the channel of the first waiter; the woken caller competes   *)
(* again with whoever calls Acquire meanwhile.  A caller has at most one   *)
(* channel at a time, so the channel is written as the caller itself.      *)
(***************************************************************************)
EXTENDS Integers, Sequences, FiniteSets

CONSTANTS Callers,  \* the goroutines that may ask for a slot
          RawCap    \* what the pool's cap() callback returns

ASSUME PoolAssumption == IsFiniteSet(Callers) /\ RawCap \in Int

VARIABLES active,   \* the counter of slots handed out
          waiters,  \* the FIFO of parked callers whose channel is still open
          pool,     \* where each caller is in Acquire / release
          expired   \* the callers whose context is done

poolVars == <<active, waiters, pool, expired>>

\* currentCapLocked: a cap below one counts as one.
CurrentCap == IF RawCap < 1 THEN 1 ELSE RawCap

\* "trying": about to lock the mutex; "parked": in the select; "leaving": the
\* select chose ctx.Done and removeWaiter has not locked the mutex yet.
PoolStates == {"idle", "trying", "parked", "leaving", "holding"}

Holders == {c \in Callers : pool[c] = "holding"}
Queued  == {waiters[i] : i \in 1 .. Len(waiters)}

\* Parked callers whose channel was closed, and callers about to (re)try: each
\* will look at the counter again before it sleeps.
Awake == {c \in Callers : pool[c] = "trying" \/ (pool[c] = "parked" /\ c \notin Queued)}

\* Callers whose context ended and whose channel is out of the queue: woken or
\* removed, they look at the counter no more.
GaveUp == {c \in expired : pool[c] \in {"idle", "leaving"} /\ c \notin Queued}

\* removeWaiter's slice with the first entry of c cut out.
FirstOf(q, c) == CHOOSE i \in 1 .. Len(q) : q[i] = c /\ \A j \in 1 .. i - 1 : q[j] # c
CutOut(q, i) == [k \in 1 .. Len(q) - 1 |-> IF k < i THEN q[k] ELSE q[k + 1]]
----------------------------------------------------------------------------
PoolInit ==
  /\ active = 0
  /\ waiters = <<>>
  /\ pool = [c \in Callers |-> "idle"]
  /\ expired = {}

\* Acquire is called with a context of its own.
AcquireCall(c) ==
  /\ pool[c] = "idle"
  /\ pool' = [pool EXCEPT ![c] = "trying"]
  /\ expired' = expired \ {c}
  /\ UNCHANGED <<active, waiters>>

\* Mutant of AcquireSlot: a woken caller takes its slot without checking again.
AcquireSlotUnchecked(c) ==
  /\ pool[c] = "trying"
  /\ active' = active + 1
  /\ pool' = [pool EXCEPT ![c] = "holding"]
  /\ UNCHANGED <<waiters, expired>>

\* The locked part of one turn of Acquire's loop, a slot being free.
AcquireSlot(c) ==
  /\ pool[c] = "trying"
  /\ active < CurrentCap
  /\ active' = active + 1
  /\ pool' = [pool EXCEPT ![c] = "holding"]
  /\ UNCHANGED <<waiters, expired>>

\* The same, the pool being full.
AcquirePark(c) ==
  /\ pool[c] = "trying"
  /\ active >= CurrentCap
  /\ waiters' = Append(waiters, c)
  /\ pool' = [pool EXCEPT ![c] = "parked"]
  /\ UNCHANGED <<active, expired>>

\* select: the channel is closed.
AcquireWake(c) ==
  /\ pool[c] = "parked"
  /\ c \notin Queued
  /\ pool' = [pool EXCEPT ![c] = "trying"]
  /\ UNCHANGED <<active, waiters, expired>>

\* select: the context is done.  With the channel closed as well, Go takes
\* either branch.
AcquireDone(c) ==
  /\ pool[c] = "parked"
  /\ c \in expired
  /\ pool' = [pool EXCEPT ![c] = "leaving"]
  /\ UNCHANGED <<active, waiters, expired>>

\* removeWaiter, and Acquire returns ctx.Err().
RemoveWaiter(c) ==
  /\ pool[c] = "leaving"
  /\ waiters' = IF c \in Queued THEN CutOut(waiters, FirstOf(waiters, c)) ELSE waiters
  /\ pool' = [pool EXCEPT ![c] = "idle"]
  /\ UNCHANGED <<active, expired>>

\* TryAcquire on a pool with room; on a full one it returns nil and changes
\* nothing.
TryAcquire(c) ==
  /\ pool[c] = "idle"
  /\ active < CurrentCap
  /\ active' = active + 1
  /\ pool' = [pool EXCEPT ![c] = "holding"]
  /\ UNCHANGED <<waiters, expired>>

\* Mutants of WakeNext: a release wakes nobody; the newest waiter goes first.
WakeNobody(n) == UNCHANGED waiters
WakeNewest(n) ==
  waiters' = IF n >= CurrentCap \/ waiters = <<>> THEN waiters
             ELSE SubSeq(waiters, 1, Len(waiters) - 1)

\* wakeNextLocked after the counter became n: at most one waiter leaves.
WakeNext(n) ==
  waiters' = IF n >= CurrentCap \/ waiters = <<>> THEN waiters ELSE Tail(waiters)

\* Mutant of Release: without the sync.Once both owners of the function release
\* the slot.
ReleaseTwice(c) ==
  /\ pool[c] = "holding"
  /\ active' = active - 2
  /\ WakeNext(active')
  /\ pool' = [pool EXCEPT ![c] = "idle"]
  /\ UNCHANGED expired

\* The release function; sync.Once lets it act once per acquired slot.
Release(c) ==
  /\ pool[c] = "holding"
  /\ active' = IF active > 0 THEN active - 1 ELSE active
  /\ WakeNext(active')
  /\ pool' = [pool EXCEPT ![c] = "idle"]
  /\ UNCHANGED expired

\* The caller's context ends, while it waits or while it holds the slot.
Expire(c) ==
  /\ pool[c] # "idle"
  /\ c \notin expired
  /\ expired' = expired \cup {c}
  /\ UNCHANGED <<active, waiters, pool>>

SlotStep(c) ==
  \/ AcquireCall(c) \/ AcquireSlot(c) \/ AcquirePark(c) \/ AcquireWake(c)
  \/ TryAcquire(c) \/ Release(c)

CancelStep(c) == Expire(c) \/ AcquireDone(c) \/ RemoveWaiter(c)

PoolNext == \E c \in Callers : SlotStep(c) \/ CancelStep(c)
PoolSpec == PoolInit /\ [][PoolNext]_poolVars

\* A goroutine that can run does run, and a run that holds a slot ends.
PoolProgress(c) ==
  AcquireSlot(c) \/ AcquirePark(c) \/ AcquireWake(c) \/ AcquireDone(c) \/ RemoveWaiter(c)
PoolFairness == \A c \in Callers : WF_poolVars(PoolProgress(c)) /\ WF_poolVars(Release(c))

FairPoolSpec == PoolSpec /\ PoolFairness
----------------------------------------------------------------------------
PoolTypeOK ==
  /\ active \in Nat
  /\ waiters \in Seq(Callers)
  /\ pool \in [Callers -> PoolStates]
  /\ expired \in SUBSET Callers

\* The counter is exactly the number of slots that callers hold, however
\* acquisitions, cancellations and releases interleave: none is lost and none
\* is counted twice (active++ at 31/57, active-- at 78).
SlotAccounting == active = Cardinality(Holders)

\* The pool never has more holders than its cap.
WithinCap == Cardinality(Holders) <= CurrentCap

\* An open channel in the FIFO belongs to one caller that still sleeps on it
\* or is about to remove it, and to that caller once.
WaitersAreAsleep ==
  /\ \A i \in 1 .. Len(waiters) : pool[waiters[i]] \in {"parked", "leaving"}
  /\ \A i, j \in 1 .. Len(waiters) : waiters[i] = waiters[j] => i = j

\* wakeNextLocked wakes one waiter per release and passes nothing on when that
\* waiter leaves through ctx.Done.  So a slot can be free beside a sleeper with
\* nobody about to take it, but never more slots than there are callers whose
\* context ended: every free slot has an awake caller or such a caller to blame.
NoLostWakeup ==
  waiters # <<>> => Cardinality(Awake \cup GaveUp) >= CurrentCap - active

\* Waiters are woken in the order in which they queued: the FIFO only loses its
\* head to a release; only the caller's own removal takes out another.
WokenInOrder ==
  [][ \A c \in Queued \ {waiters'[i] : i \in 1 .. Len(waiters')} :
        pool[c] = "parked" => c = Head(waiters) ]_poolVars

\* As long as no context ends, a slot does not stay free forever while a caller
\* sleeps in Acquire: the waiters are served as slots are released.
SleepersServed ==
  [](expired = {}) =>
    ~ <>[](active < CurrentCap /\ \E c \in Callers : pool[c] = "parked" /\ c \in Queued)
============================================================================
