------------------------- MODULE RunExecutor_proofs -------------------------
(***************************************************************************)
(* The process pool, for any callers and any cap, and the executor that    *)
(* uses it: slots, reservations and handles of the runs, for any number of *)
(* submissions, scopes and controllers.                                    *)
(***************************************************************************)
EXTENDS RunExecutor, FiniteSetTheorems, TLAPS
-----------------------------------------------------------------------------
(* The pool. *)

PoolInv == PoolTypeOK /\ SlotAccounting /\ WithinCap /\ WaitersAreAsleep

\* The effective cap is a positive integer.
LEMMA CapIsPositive == CurrentCap \in Nat \ {0}
  BY PoolAssumption DEF CurrentCap

\* A set of callers is finite; one member more or less is one more or less.
LEMMA CallersCount ==
  ASSUME NEW S \in SUBSET Callers
  PROVE  /\ IsFiniteSet(S)
         /\ Cardinality(S) \in Nat
         /\ \A c \in Callers : c \notin S => Cardinality(S \cup {c}) = Cardinality(S) + 1
         /\ \A c \in S : Cardinality(S \ {c}) = Cardinality(S) - 1
  <1>1. IsFiniteSet(S)
    BY PoolAssumption, FS_Subset
  <1>2. QED
    BY <1>1, FS_CardinalityType, FS_AddElement, FS_RemoveElement

\* A caller that takes a slot joins the holders, one that releases leaves them.
LEMMA HoldersChange ==
  ASSUME PoolTypeOK, NEW c \in Callers, NEW st \in PoolStates,
         pool' = [pool EXCEPT ![c] = st]
  PROVE  /\ st = "holding" => Holders' = Holders \cup {c}
         /\ st # "holding" => Holders' = Holders \ {c}
  BY DEF PoolTypeOK, Holders

\* A step that moves no caller into or out of "holding" keeps the holders.
LEMMA HoldersSame ==
  ASSUME PoolTypeOK, NEW c \in Callers, NEW st \in PoolStates \ {"holding"},
         pool[c] # "holding", pool' = [pool EXCEPT ![c] = st]
  PROVE  Holders' = Holders
  BY DEF PoolTypeOK, Holders

\* Cutting out the first entry of a queued caller.
LEMMA FirstOfQueued ==
  ASSUME PoolTypeOK, WaitersAreAsleep, NEW c \in Callers, c \in Queued
  PROVE  /\ FirstOf(waiters, c) \in 1 .. Len(waiters)
         /\ waiters[FirstOf(waiters, c)] = c
  <1>1. PICK i \in 1 .. Len(waiters) : waiters[i] = c
    BY DEF Queued
  <1>2. \A j \in 1 .. i - 1 : waiters[j] # c
    BY <1>1 DEF WaitersAreAsleep, PoolTypeOK
  <1>3. QED
    BY <1>1, <1>2 DEF FirstOf

LEMMA CutOutQueue ==
  ASSUME NEW q \in Seq(Callers), NEW i \in 1 .. Len(q)
  PROVE  /\ CutOut(q, i) \in Seq(Callers)
         /\ Len(CutOut(q, i)) = Len(q) - 1
         /\ \A k \in 1 .. Len(q) - 1 :
              CutOut(q, i)[k] = IF k < i THEN q[k] ELSE q[k + 1]
  BY DEF CutOut

LEMMA PoolInitInv == PoolInit => PoolInv
  <1> SUFFICES ASSUME PoolInit PROVE PoolInv
    OBVIOUS
  <1> USE DEF PoolInit
  <1>1. PoolTypeOK
    BY DEF PoolTypeOK, PoolStates
  <1>2. Holders = {}
    BY DEF Holders
  <1>3. SlotAccounting /\ WithinCap
    BY <1>2, FS_EmptySet, CapIsPositive DEF SlotAccounting, WithinCap
  <1>4. WaitersAreAsleep
    BY DEF WaitersAreAsleep
  <1>5. QED
    BY <1>1, <1>3, <1>4 DEF PoolInv

\* Types survive every step.
LEMMA PoolTypeStep ==
  ASSUME PoolInv, [PoolNext]_poolVars PROVE PoolTypeOK'
  <1> USE DEF PoolInv, PoolTypeOK, PoolStates
  <1>1. ASSUME NEW c \in Callers, SlotStep(c) PROVE PoolTypeOK'
    <2>1. CASE AcquireCall(c) \/ AcquireSlot(c) \/ AcquirePark(c) \/ AcquireWake(c) \/ TryAcquire(c)
      BY <2>1 DEF AcquireCall, AcquireSlot, AcquirePark, AcquireWake, TryAcquire
    <2>2. CASE Release(c)
      <3>1. waiters' \in Seq(Callers)
        BY <2>2 DEF Release, WakeNext
      <3>2. QED
        BY <2>2, <3>1 DEF Release
    <2>3. QED
      BY <1>1, <2>1, <2>2 DEF SlotStep
  <1>2. ASSUME NEW c \in Callers, CancelStep(c) PROVE PoolTypeOK'
    <2>1. CASE Expire(c) \/ AcquireDone(c)
      BY <2>1 DEF Expire, AcquireDone
    <2>2. CASE RemoveWaiter(c)
      <3>1. waiters' \in Seq(Callers)
        BY <2>2, FirstOfQueued, CutOutQueue DEF RemoveWaiter
      <3>2. QED
        BY <2>2, <3>1 DEF RemoveWaiter
    <2>3. QED
      BY <1>2, <2>1, <2>2 DEF CancelStep
  <1>3. CASE UNCHANGED poolVars
    BY <1>3 DEF poolVars
  <1>4. QED
    BY <1>1, <1>2, <1>3 DEF PoolNext

\* The counter follows the holders, and no step adds one to a full pool.
LEMMA PoolCountStep ==
  ASSUME PoolInv, [PoolNext]_poolVars PROVE (SlotAccounting /\ WithinCap)'
  <1> USE CapIsPositive DEF PoolInv, SlotAccounting, WithinCap
  <1>0. CurrentCap' = CurrentCap /\ Holders \in SUBSET Callers /\ Cardinality(Holders) \in Nat
    BY CallersCount DEF CurrentCap, Holders
  <1>1. ASSUME NEW c \in Callers, AcquireSlot(c) \/ TryAcquire(c)
        PROVE (SlotAccounting /\ WithinCap)'
    <2>1. Holders' = Holders \cup {c} /\ c \notin Holders
      BY <1>1, HoldersChange DEF AcquireSlot, TryAcquire, Holders, PoolStates
    <2>2. Cardinality(Holders') = Cardinality(Holders) + 1
      BY <1>0, <2>1, CallersCount
    <2>3. QED
      BY <1>0, <1>1, <2>2 DEF AcquireSlot, TryAcquire
  <1>2. ASSUME NEW c \in Callers, Release(c)
        PROVE (SlotAccounting /\ WithinCap)'
    <2>1. Holders' = Holders \ {c} /\ c \in Holders
      BY <1>2, HoldersChange DEF Release, Holders, PoolStates
    <2>2. Cardinality(Holders') = Cardinality(Holders) - 1
      BY <1>0, <2>1, CallersCount
    <2>3. Cardinality(Holders') \in Nat
      BY <1>0, <2>1, CallersCount
    <2>4. QED
      BY <1>0, <1>2, <2>2, <2>3 DEF Release
  <1>3. ASSUME NEW c \in Callers,
               \/ AcquireCall(c) \/ AcquirePark(c) \/ AcquireWake(c)
               \/ AcquireDone(c) \/ RemoveWaiter(c) \/ Expire(c)
        PROVE (SlotAccounting /\ WithinCap)'
    <2>1. Holders' = Holders
      <3>1. CASE Expire(c)
        BY <3>1 DEF Expire, Holders
      <3>2. CASE ~Expire(c)
        BY <1>3, <3>2, HoldersSame
        DEF AcquireCall, AcquirePark, AcquireWake, AcquireDone, RemoveWaiter, PoolStates
      <3>3. QED
        BY <3>1, <3>2
    <2>2. active' = active
      BY <1>3 DEF AcquireCall, AcquirePark, AcquireWake, AcquireDone, RemoveWaiter, Expire
    <2>3. QED
      BY <1>0, <2>1, <2>2
  <1>4. CASE UNCHANGED poolVars
    BY <1>0, <1>4 DEF poolVars, Holders
  <1>5. QED
    BY <1>1, <1>2, <1>3, <1>4 DEF PoolNext, SlotStep, CancelStep

\* The queue holds distinct sleepers after every step.
LEMMA PoolQueueStep ==
  ASSUME PoolInv, [PoolNext]_poolVars PROVE WaitersAreAsleep'
  <1> USE DEF PoolInv, PoolTypeOK, WaitersAreAsleep
  <1>1. ASSUME NEW c \in Callers,
               AcquireCall(c) \/ AcquireSlot(c) \/ TryAcquire(c) \/ AcquireDone(c) \/ Expire(c)
        PROVE WaitersAreAsleep'
    BY <1>1 DEF AcquireCall, AcquireSlot, TryAcquire, AcquireDone, Expire
  <1>2. ASSUME NEW c \in Callers, AcquireWake(c) PROVE WaitersAreAsleep'
    BY <1>2 DEF AcquireWake, Queued
  <1>3. ASSUME NEW c \in Callers, AcquirePark(c) PROVE WaitersAreAsleep'
    <2>1. Len(waiters') = Len(waiters) + 1 /\ waiters'[Len(waiters) + 1] = c
      BY <1>3 DEF AcquirePark
    <2>2. \A i \in 1 .. Len(waiters) : waiters'[i] = waiters[i] /\ waiters[i] # c
      BY <1>3 DEF AcquirePark
    <2>3. pool' = [pool EXCEPT ![c] = "parked"]
      BY <1>3 DEF AcquirePark
    <2>4. QED
      BY <2>1, <2>2, <2>3
  <1>4. ASSUME NEW c \in Callers, Release(c) PROVE WaitersAreAsleep'
    <2>1. \A i \in 1 .. Len(waiters) : waiters[i] # c
      BY <1>4 DEF Release
    <2>2. pool' = [pool EXCEPT ![c] = "idle"]
      BY <1>4 DEF Release
    <2>3. CASE waiters' = waiters
      BY <2>1, <2>2, <2>3
    <2>4. CASE waiters # <<>> /\ waiters' = Tail(waiters)
      <3>1. Len(waiters') = Len(waiters) - 1
        BY <2>4
      <3>2. \A i \in 1 .. Len(waiters') : waiters'[i] = waiters[i + 1] /\ i + 1 \in 1 .. Len(waiters)
        BY <2>4, <3>1
      <3>3. ASSUME NEW i \in 1 .. Len(waiters')
            PROVE  pool'[waiters'[i]] \in {"parked", "leaving"}
        <4>1. waiters[i + 1] # c /\ waiters[i + 1] \in Callers
          BY <2>1, <3>2, <3>3
        <4>2. QED
          BY <2>2, <3>2, <3>3, <4>1
      <3>4. ASSUME NEW i \in 1 .. Len(waiters'), NEW j \in 1 .. Len(waiters'),
                   waiters'[i] = waiters'[j]
            PROVE  i = j
        <4>1. i + 1 = j + 1
          BY <3>2, <3>4
        <4>2. QED
          BY <4>1, <3>1
      <3>5. QED
        BY <3>3, <3>4
    <2>5. QED
      BY <1>4, <2>3, <2>4 DEF Release, WakeNext
  <1>5. ASSUME NEW c \in Callers, RemoveWaiter(c) PROVE WaitersAreAsleep'
    <2>1. pool' = [pool EXCEPT ![c] = "idle"]
      BY <1>5 DEF RemoveWaiter
    <2>2. CASE c \notin Queued
      BY <1>5, <2>1, <2>2 DEF RemoveWaiter, Queued
    <2>3. CASE c \in Queued
      <3> DEFINE n == FirstOf(waiters, c)
      <3>1. n \in 1 .. Len(waiters) /\ waiters[n] = c
        BY <2>3, FirstOfQueued
      <3>2. waiters' = CutOut(waiters, n)
        BY <1>5, <2>3 DEF RemoveWaiter
      <3>3. /\ Len(waiters') = Len(waiters) - 1
            /\ \A k \in 1 .. Len(waiters') :
                 waiters'[k] = IF k < n THEN waiters[k] ELSE waiters[k + 1]
        BY <3>1, <3>2, CutOutQueue
      <3> HIDE DEF n
      <3>4. \A k \in 1 .. Len(waiters') : waiters'[k] # c
        BY <3>1, <3>3
      <3>5. ASSUME NEW i \in 1 .. Len(waiters')
            PROVE  pool'[waiters'[i]] \in {"parked", "leaving"}
        <4>1. waiters'[i] \in Queued /\ waiters'[i] # c
          BY <3>1, <3>3, <3>4, <3>5 DEF Queued
        <4>2. pool[waiters'[i]] \in {"parked", "leaving"} /\ waiters'[i] \in Callers
          BY <4>1 DEF Queued
        <4>3. QED
          BY <2>1, <4>1, <4>2
      <3>6. ASSUME NEW i \in 1 .. Len(waiters'), NEW j \in 1 .. Len(waiters'),
                   waiters'[i] = waiters'[j]
            PROVE  i = j
        <4> DEFINE at(k) == IF k < n THEN k ELSE k + 1
        <4>1. at(i) \in 1 .. Len(waiters) /\ at(j) \in 1 .. Len(waiters)
          BY <3>1, <3>3
        <4>2. waiters[at(i)] = waiters[at(j)]
          BY <3>3, <3>6
        <4>3. at(i) = at(j)
          BY <4>1, <4>2
        <4>4. QED
          BY <3>1, <3>3, <4>3
      <3>7. QED
        BY <3>5, <3>6
    <2>4. QED
      BY <2>2, <2>3
  <1>6. CASE UNCHANGED poolVars
    BY <1>6 DEF poolVars
  <1>7. QED
    BY <1>1, <1>2, <1>3, <1>4, <1>5, <1>6 DEF PoolNext, SlotStep, CancelStep

\* However callers come, wait, give up and release, the pool's counter is the
\* number of slots held, at most the cap, and its queue holds distinct
\* sleepers: process_pool.go's Acquire, TryAcquire, releaseFunc, removeWaiter.
THEOREM PoolSafety == PoolSpec => []PoolInv
  <1>1. PoolInv /\ [PoolNext]_poolVars => PoolInv'
    BY PoolTypeStep, PoolCountStep, PoolQueueStep DEF PoolInv
  <1>2. QED
    BY PoolInitInv, <1>1, PTL DEF PoolSpec

\* The pool's counter equals the number of holders, which never exceeds the cap.
THEOREM PoolNeverOverCap == PoolSpec => [](SlotAccounting /\ WithinCap)
  <1>1. PoolInv => SlotAccounting /\ WithinCap
    BY DEF PoolInv
  <1>2. QED
    BY PoolSafety, <1>1, PTL
-----------------------------------------------------------------------------
-----------------------------------------------------------------------------
\* A caller between ctx.Done and removeWaiter has a context that ended.
LeaversExpired == \A c \in Callers : pool[c] = "leaving" => c \in expired

\* Whoever is awake or gave up: the callers that account for free slots.
Alert == Awake \cup GaveUp

WakeInv == PoolInv /\ LeaversExpired /\ NoLostWakeup

LEMMA LeaversExpiredStep ==
  ASSUME PoolInv, LeaversExpired, [PoolNext]_poolVars PROVE LeaversExpired'
  BY DEF PoolInv, PoolTypeOK, LeaversExpired, PoolNext, SlotStep, CancelStep, AcquireCall, AcquireSlot,
         AcquirePark, AcquireWake, TryAcquire, Release, Expire, AcquireDone, RemoveWaiter, poolVars

\* Such callers are counted like any set of callers, and more are no fewer.
LEMMA AlertCount ==
  ASSUME PoolTypeOK
  PROVE  /\ Alert \in SUBSET Callers
         /\ IsFiniteSet(Alert)
         /\ Cardinality(Alert) \in Nat
  BY CallersCount DEF Alert, Awake, GaveUp, PoolTypeOK

LEMMA AlertCountNext ==
  ASSUME PoolTypeOK' 
  PROVE  /\ Alert' \in SUBSET Callers
         /\ IsFiniteSet(Alert')
         /\ Cardinality(Alert') \in Nat
  <1>1. Alert' \in SUBSET Callers
    BY DEF Alert, Awake, GaveUp, PoolTypeOK
  <1>2. QED
    BY <1>1, CallersCount

LEMMA MoreAlert ==
  ASSUME NEW S \in SUBSET Callers, NEW T \in SUBSET S
  PROVE  Cardinality(T) <= Cardinality(S)
  BY CallersCount, FS_Subset

\* A queue that loses some entry keeps no caller that was not in it.
LEMMA TailQueued ==
  ASSUME waiters \in Seq(Callers), waiters # <<>>, waiters' = Tail(waiters), WaitersAreAsleep
  PROVE  Queued' \subseteq Queued \ {Head(waiters)}
  <1>1. /\ Len(waiters') = Len(waiters) - 1
        /\ \A i \in 1 .. Len(waiters') : waiters'[i] = waiters[i + 1] /\ i + 1 \in 1 .. Len(waiters)
    OBVIOUS
  <1>2. ASSUME NEW i \in 1 .. Len(waiters') PROVE waiters'[i] \in Queued \ {Head(waiters)}
    <2>1. waiters[i + 1] # waiters[1]
      BY <1>1 DEF WaitersAreAsleep
    <2>2. QED
      BY <1>1, <2>1 DEF Queued
  <1>3. QED
    BY <1>2 DEF Queued

LEMMA RemovalQueued ==
  ASSUME PoolInv, NEW c \in Callers, RemoveWaiter(c)
  PROVE  Queued' \subseteq Queued \ {c}
  <1> USE DEF PoolInv, PoolTypeOK
  <1>1. CASE c \notin Queued
    BY <1>1 DEF RemoveWaiter, Queued
  <1>2. CASE c \in Queued
    <2> DEFINE n == FirstOf(waiters, c)
    <2>1. n \in 1 .. Len(waiters) /\ waiters[n] = c
      BY <1>2, FirstOfQueued
    <2>2. waiters' = CutOut(waiters, n)
      BY <1>2 DEF RemoveWaiter
    <2>3. /\ Len(waiters') = Len(waiters) - 1
          /\ \A k \in 1 .. Len(waiters') :
               waiters'[k] = IF k < n THEN waiters[k] ELSE waiters[k + 1]
      BY <2>1, <2>2, CutOutQueue
    <2> HIDE DEF n
    <2>4. ASSUME NEW k \in 1 .. Len(waiters') PROVE waiters'[k] \in Queued \ {c}
      <3>1. CASE k < n
        BY <2>1, <2>3, <3>1 DEF Queued, WaitersAreAsleep
      <3>2. CASE ~(k < n)
        BY <2>1, <2>3, <3>2 DEF Queued, WaitersAreAsleep
      <3>3. QED
        BY <3>1, <3>2
    <2>5. QED
      BY <2>4 DEF Queued
  <1>3. QED
    BY <1>1, <1>2

\* A release that leaves sleepers in the queue and a slot free made one more
\* caller alert.
LEMMA ReleaseWakes ==
  ASSUME WakeInv, NEW c \in Callers, Release(c), waiters' # <<>>, active' < CurrentCap
  PROVE  \E w \in Callers : w \notin Alert /\ Alert \cup {w} \subseteq Alert'
  <1> USE DEF WakeInv, PoolInv, PoolTypeOK
  <1>1. waiters # <<>> /\ waiters' = Tail(waiters)
    <2>1. active' \in Int
      BY DEF Release
    <2>2. ~(active' >= CurrentCap)
      BY <2>1, CapIsPositive
    <2>3. QED
      BY <2>2 DEF Release, WakeNext
  <1> DEFINE w == Head(waiters)
  <1>2. w \in Callers /\ w \in Queued /\ w = waiters[1]
    BY <1>1 DEF Queued
  <1>3. pool[w] \in {"parked", "leaving"}
    BY <1>1, <1>2 DEF WaitersAreAsleep
  <1>4. Queued' \subseteq Queued \ {w}
    BY <1>1, TailQueued
  <1> HIDE DEF w
  <1>5. pool' = [pool EXCEPT ![c] = "idle"] /\ pool[c] = "holding" /\ expired' = expired
    BY DEF Release
  <1>6. w \notin Alert
    BY <1>2, <1>3 DEF Alert, Awake, GaveUp
  <1>7. pool'[w] = pool[w]
    BY <1>2, <1>3, <1>5
  <1>8. w \in Alert'
    BY <1>2, <1>3, <1>4, <1>5, <1>7 DEF Alert, Awake, GaveUp, LeaversExpired
  <1>9. Alert \subseteq Alert'
    BY <1>4, <1>5 DEF Alert, Awake, GaveUp
  <1>10. QED
    BY <1>2, <1>6, <1>8, <1>9

LEMMA NoLostWakeupStep ==
  ASSUME WakeInv, PoolTypeOK', [PoolNext]_poolVars PROVE NoLostWakeup'
  <1> USE AlertCount, AlertCountNext, CapIsPositive DEF WakeInv, PoolInv, PoolTypeOK, PoolStates
  <1>0. /\ CurrentCap' = CurrentCap
        /\ NoLostWakeup <=> (waiters # <<>> => Cardinality(Alert) >= CurrentCap - active)
        /\ NoLostWakeup' <=> (waiters' # <<>> => Cardinality(Alert') >= CurrentCap - active')
    BY DEF CurrentCap, NoLostWakeup, Alert
  \* Steps that keep the counter, the queue's emptiness and every alert caller.
  <1>1. ASSUME active' = active, waiters' # <<>> => waiters # <<>>, Alert \subseteq Alert'
        PROVE  NoLostWakeup'
    BY <1>0, <1>1, MoreAlert
  <1>2. ASSUME NEW c \in Callers, AcquireCall(c) PROVE NoLostWakeup'
    <2>1. Alert \subseteq Alert'
      BY <1>2 DEF AcquireCall, Alert, Awake, GaveUp, Queued
    <2>2. QED
      BY <1>1, <1>2, <2>1 DEF AcquireCall
  <1>3. ASSUME NEW c \in Callers, AcquireSlot(c) \/ TryAcquire(c) PROVE NoLostWakeup'
    <2>1. Alert \ {c} \subseteq Alert'
      BY <1>3 DEF AcquireSlot, TryAcquire, Alert, Awake, GaveUp, Queued
    <2>2. Cardinality(Alert \ {c}) >= Cardinality(Alert) - 1
      <3>1. CASE c \in Alert
        BY <3>1, CallersCount
      <3>2. CASE c \notin Alert
        <4>1. Alert \ {c} = Alert
          BY <3>2
        <4>2. \A k \in Nat : k >= k - 1
          OBVIOUS
        <4>3. QED
          BY <4>1, <4>2, AlertCount, Zenon
      <3>3. QED
        BY <3>1, <3>2
    <2>3. Cardinality(Alert \ {c}) <= Cardinality(Alert')
      BY <2>1, MoreAlert
    <2>4. Cardinality(Alert \ {c}) \in Nat
      BY CallersCount
    <2>5. QED
      BY <1>0, <1>3, <2>2, <2>3, <2>4 DEF AcquireSlot, TryAcquire
  <1>4. ASSUME NEW c \in Callers, AcquirePark(c) PROVE NoLostWakeup'
    BY <1>0, <1>4 DEF AcquirePark
  <1>5. ASSUME NEW c \in Callers, AcquireWake(c) \/ AcquireDone(c) PROVE NoLostWakeup'
    <2>1. Alert \subseteq Alert'
      BY <1>5 DEF AcquireWake, AcquireDone, Alert, Awake, GaveUp, Queued
    <2>2. QED
      BY <1>1, <1>5, <2>1 DEF AcquireWake, AcquireDone
  <1>6. ASSUME NEW c \in Callers, Expire(c) PROVE NoLostWakeup'
    <2>1. Alert \subseteq Alert'
      BY <1>6 DEF Expire, Alert, Awake, GaveUp, Queued
    <2>2. QED
      BY <1>1, <1>6, <2>1 DEF Expire
  <1>7. ASSUME NEW c \in Callers, RemoveWaiter(c) PROVE NoLostWakeup'
    <2>1. Queued' \subseteq Queued
      BY <1>7, RemovalQueued
    <2>2. Alert \subseteq Alert'
      BY <1>7, <2>1 DEF RemoveWaiter, Alert, Awake, GaveUp, LeaversExpired
    <2>3. waiters' # <<>> => waiters # <<>>
      BY <1>7 DEF RemoveWaiter, Queued
    <2>4. QED
      BY <1>1, <1>7, <2>2, <2>3 DEF RemoveWaiter
  <1>8. ASSUME NEW c \in Callers, Release(c) PROVE NoLostWakeup'
    <2>1. SUFFICES ASSUME waiters' # <<>>, active' < CurrentCap
                   PROVE  Cardinality(Alert') >= CurrentCap - active'
      BY <1>0
    <2>2. PICK w \in Callers : w \notin Alert /\ Alert \cup {w} \subseteq Alert'
      BY <1>8, <2>1, ReleaseWakes
    <2>3. Cardinality(Alert \cup {w}) = Cardinality(Alert) + 1
      BY <2>2, CallersCount
    <2>4. Cardinality(Alert \cup {w}) <= Cardinality(Alert')
      BY <2>2, MoreAlert
    <2>5. waiters # <<>>
      BY <1>8, <2>1 DEF Release, WakeNext
    <2>6. active' >= active - 1
      BY <1>8 DEF Release
    <2>7. QED
      BY <1>0, <2>3, <2>4, <2>5, <2>6
  <1>9. CASE UNCHANGED poolVars
    <2>1. Alert' = Alert
      BY <1>9 DEF poolVars, Alert, Awake, GaveUp, Queued
    <2>2. QED
      BY <1>1, <1>9, <2>1 DEF poolVars
  <1>10. QED
    BY <1>2, <1>3, <1>4, <1>5, <1>6, <1>7, <1>8, <1>9 DEF PoolNext, SlotStep, CancelStep

\* While anyone is queued, every free slot has an awake caller that will look at
\* it, or a caller whose context ended to blame: wakeNextLocked wakes one waiter
\* per release, and the ctx.Done branch of Acquire is the only way to lose that.
THEOREM PoolNeverIdle == PoolSpec => []NoLostWakeup
  <1>1. PoolInit => WakeInv
    <2>1. PoolInit => LeaversExpired /\ NoLostWakeup
      BY DEF PoolInit, LeaversExpired, NoLostWakeup
    <2>2. QED
      BY <2>1, PoolInitInv DEF WakeInv
  <1>2. WakeInv /\ [PoolNext]_poolVars => WakeInv'
    <2>1. WakeInv /\ [PoolNext]_poolVars => PoolInv'
      BY PoolTypeStep, PoolCountStep, PoolQueueStep DEF WakeInv, PoolInv
    <2>2. QED
      BY <2>1, LeaversExpiredStep, NoLostWakeupStep DEF WakeInv, PoolInv
  <1>3. WakeInv => NoLostWakeup
    BY DEF WakeInv
  <1>4. QED
    BY <1>1, <1>2, <1>3, PTL DEF PoolSpec
-----------------------------------------------------------------------------
(* The executor. *)

\* The steps that leave the pool alone, and those that use it.
LEMMA PoolStep ==
  ASSUME [Next]_allVars PROVE [PoolNext]_poolVars
  <1>1. ASSUME NEW s \in Callers, SubmitStep(s) PROVE [PoolNext]_poolVars
    <2>1. CASE SubmitTry(s) \/ SubmitAcquire(s)
      BY <2>1 DEF SubmitTry, SubmitAcquire, PoolNext, SlotStep, CancelStep
    <2>2. CASE SubmitUndo(s)
      BY <2>2 DEF SubmitUndo, PoolNext, SlotStep
    <2>3. CASE SubmitCall(s) \/ SubmitReserve(s) \/ SubmitRecheck(s) \/ SubmitPrepare(s) \/ SubmitLastCheck(s)
               \/ SubmitSpawn(s) \/ SubmitRegister(s)
      BY <2>3 DEF SubmitCall, SubmitReserve, SubmitRecheck, SubmitPrepare, SubmitLastCheck, SubmitSpawn, SubmitRegister
    <2>4. QED
      BY <1>1, <2>1, <2>2, <2>3 DEF SubmitStep
  <1>2. ASSUME NEW s \in Callers, CleanupStep(s) PROVE [PoolNext]_poolVars
    BY <1>2 DEF CleanupStep, EnterCleanup, CleanupUnregister, CleanupRelease, CleanupLinger, PumpDone, PoolNext, SlotStep
  <1>3. ASSUME NEW s \in Callers, ContextDone(s) PROVE [PoolNext]_poolVars
    BY <1>3 DEF ContextDone, PoolNext, CancelStep
  <1>4. ASSUME NEW s \in Callers,
               ProcessExits(s) \/ PumpEnds(s) \/ StopCall(s) \/ StopProceeds(s) \/ InterruptStops(s)
        PROVE UNCHANGED poolVars
    BY <1>4 DEF ProcessExits, PumpEnds, StopCall, StopProceeds, InterruptStops
  <1>5. ASSUME NEW sc \in Scopes, Interrupt(sc) PROVE UNCHANGED poolVars
    BY <1>5 DEF Interrupt
  <1>6. ASSUME NEW k \in Controllers, ControlStep(k) PROVE UNCHANGED poolVars
    BY <1>6 DEF ControlStep, ControlBegin, ControlSnapshot, ControlNext, ControlRestart, ControlEnd
  <1>7. QED
    BY <1>1, <1>2, <1>3, <1>4, <1>5, <1>6 DEF Next, RunStep, allVars

\* The executor uses the pool as its callers may: every acquisition, whatever becomes
\* of it, and every release is a step of the pool, so what holds of the pool for any
\* callers holds of it below Submit (acquirePool, releasePool).
THEOREM ExecutorUsesPool == Spec => PoolSpec
  <1>1. Init => PoolInit
    BY DEF Init
  <1>2. QED
    BY <1>1, PoolStep, PTL DEF Spec, PoolSpec
-----------------------------------------------------------------------------
\* Only a run that Submit returned is pumped, stopped or cleaned up.
Unstarted ==
  \A s \in Callers : submit[s] # "returned" => pump[s] = "none" /\ cleanup[s] = "unowned" /\ stopper[s] = "none"

\* A run is registered for its own scope.
Handles == \A sc \in Scopes : handles[sc] # NoRun => ScopeOf[handles[sc]] = sc

\* Until a StopAll a submission on its way has its reservation.
ReservationsBacked == ReservationsKept => \A s \in Callers : Reserving(s) => ScopeOf[s] \in reserved

Owned ==
  /\ Unstarted /\ SlotOwnership
  /\ Handles /\ HandlesAreLive /\ UnregisteredIsOver
  /\ NoOrphanReservation /\ ReservationsBacked /\ ScopeExclusive
-----------------------------------------------------------------------------
ExecTypeOK ==
  /\ handles \in [Scopes -> Callers \cup {NoRun}]
  /\ reserved \in SUBSET Scopes
  /\ interrupted \in SUBSET Callers
  /\ pauseDepth \in Nat
  /\ submit \in [Callers -> SubmitStates]
  /\ proc \in [Callers -> {"none", "running", "exited"}]
  /\ pump \in [Callers -> {"none", "reading", "onDone", "onDoneWait", "done"}]
  /\ cleanup \in [Callers -> {"unowned", "unregister", "release", "linger", "cleaned"}]
  /\ waits \in SUBSET Callers
  /\ stopper \in [Callers -> {"none", "stopping", "cleanup", "done"}]
  /\ killing \in SUBSET Callers
  /\ ctl \in [Controllers -> {"idle", "stop", "wait", "shutdown", "stopping", "waiting",
                              "closing", "restarting", "resuming", "done"}]
  /\ todo \in [Controllers -> SUBSET Callers]
  /\ failed \in SUBSET Controllers

LEMMA RegisteredCallers ==
  ASSUME ExecTypeOK PROVE Registered \in SUBSET Callers
  BY DEF ExecTypeOK, Registered

LEMMA TypeStep ==
  ASSUME ExecTypeOK, [Next]_allVars PROVE ExecTypeOK'
  <1> USE ExecutorAssumption DEF ExecTypeOK, SubmitStates, Go, activeRunsVars, submitFrame
  <1>1. ASSUME NEW s \in Callers, SubmitCall(s) \/ SubmitReserve(s) PROVE ExecTypeOK'
    BY <1>1 DEF SubmitCall, SubmitReserve, Reserve
  <1>2. ASSUME NEW s \in Callers, SubmitTry(s) \/ SubmitAcquire(s) PROVE ExecTypeOK'
    BY <1>2 DEF SubmitTry, SubmitAcquire
  <1>3. ASSUME NEW s \in Callers, SubmitRecheck(s) \/ SubmitPrepare(s) \/ SubmitLastCheck(s) PROVE ExecTypeOK'
    BY <1>3 DEF SubmitRecheck, SubmitPrepare, SubmitLastCheck
  <1>4. ASSUME NEW s \in Callers, SubmitSpawn(s) \/ SubmitRegister(s) PROVE ExecTypeOK'
    BY <1>4 DEF SubmitSpawn, SubmitRegister, Register
  <1>5. ASSUME NEW s \in Callers, SubmitUndo(s) PROVE ExecTypeOK'
    BY <1>5 DEF SubmitUndo, ReleaseReservation, StopProcess
  <1>6. ASSUME NEW s \in Callers, CleanupStep(s) PROVE ExecTypeOK'
    BY <1>6 DEF CleanupStep, EnterCleanup, CleanupUnregister, Unregister, CleanupRelease, CleanupLinger, StopProcess, PumpDone
  <1>7. ASSUME NEW s \in Callers, ContextDone(s) \/ ProcessExits(s) \/ PumpEnds(s) PROVE ExecTypeOK'
    BY <1>7 DEF ContextDone, execVars, ProcessExits, controlFrame, PumpEnds
  <1>8. ASSUME NEW s \in Callers, StopCall(s) \/ StopProceeds(s) \/ InterruptStops(s) PROVE ExecTypeOK'
    BY <1>8 DEF StopCall, MarkInterrupted, StopProceeds, InterruptStops, StopProcess
  <1>9. ASSUME NEW sc \in Scopes, Interrupt(sc) PROVE ExecTypeOK'
    BY <1>9 DEF Interrupt, InterruptScope
  <1>10. ASSUME NEW k \in Controllers, ControlStep(k) PROVE ExecTypeOK'
    <2> USE DEF controlFrame
    <2>1. CASE ControlBegin(k)
      BY <2>1 DEF ControlBegin, PauseNewRuns
    <2>2. CASE ControlSnapshot(k)
      BY <2>2, RegisteredCallers DEF ControlSnapshot, ClearAll
    <2>3. CASE ControlNext(k)
      BY <2>3 DEF ControlNext
    <2>4. CASE ControlRestart(k) \/ ControlEnd(k)
      BY <2>4 DEF ControlRestart, ControlEnd, ResumeNewRuns
    <2>5. QED
      BY <1>10, <2>1, <2>2, <2>3, <2>4 DEF ControlStep
  <1>11. CASE UNCHANGED allVars
    BY <1>11 DEF allVars, execVars
  <1>12. QED
    BY <1>1, <1>2, <1>3, <1>4, <1>5, <1>6, <1>7, <1>8, <1>9, <1>10, <1>11 DEF Next, RunStep, SubmitStep
-----------------------------------------------------------------------------
(* Who owns what: the slot, the handle and the reservation of a run, step by step. *)
LEMMA SlotStepKeeps ==
  ASSUME PoolTypeOK, ExecTypeOK, Unstarted, SlotOwnership, [Next]_allVars PROVE Unstarted' /\ SlotOwnership'
  <1> USE DEF PoolTypeOK, PoolStates, ExecTypeOK, Unstarted, SlotOwnership, Go, submitFrame
  <1>1. ASSUME NEW s \in Callers, SubmitCall(s) \/ SubmitReserve(s) PROVE Unstarted' /\ SlotOwnership'
    BY <1>1 DEF SubmitCall, SubmitReserve, poolVars
  <1>2. ASSUME NEW s \in Callers, SubmitTry(s) PROVE Unstarted' /\ SlotOwnership'
    BY <1>2 DEF SubmitTry, TryAcquire, poolVars
  <1>3. ASSUME NEW s \in Callers, SubmitAcquire(s) PROVE Unstarted' /\ SlotOwnership'
    BY <1>3 DEF SubmitAcquire, AcquireCall, AcquireSlot, AcquirePark, AcquireWake, AcquireDone, RemoveWaiter, poolVars
  <1>4. ASSUME NEW s \in Callers, SubmitRecheck(s) \/ SubmitPrepare(s) \/ SubmitLastCheck(s) PROVE Unstarted' /\ SlotOwnership'
    BY <1>4 DEF SubmitRecheck, SubmitPrepare, SubmitLastCheck, poolVars
  <1>5. ASSUME NEW s \in Callers, SubmitSpawn(s) \/ SubmitRegister(s) PROVE Unstarted' /\ SlotOwnership'
    BY <1>5 DEF SubmitSpawn, SubmitRegister, poolVars
  <1>6. ASSUME NEW s \in Callers, SubmitUndo(s) PROVE Unstarted' /\ SlotOwnership'
    BY <1>6 DEF SubmitUndo, Release, poolVars
  <1>7. ASSUME NEW s \in Callers, CleanupStep(s) PROVE Unstarted' /\ SlotOwnership'
    BY <1>7 DEF CleanupStep, EnterCleanup, CleanupUnregister, CleanupRelease, Release, CleanupLinger, PumpDone, poolVars
  <1>8. ASSUME NEW s \in Callers, ContextDone(s) \/ ProcessExits(s) \/ PumpEnds(s) PROVE Unstarted' /\ SlotOwnership'
    BY <1>8 DEF ContextDone, Expire, execVars, ProcessExits, controlFrame, PumpEnds, poolVars
  <1>9. ASSUME NEW s \in Callers, StopCall(s) \/ StopProceeds(s) \/ InterruptStops(s) PROVE Unstarted' /\ SlotOwnership'
    BY <1>9 DEF StopCall, StopProceeds, InterruptStops, poolVars
  <1>10. ASSUME NEW sc \in Scopes, Interrupt(sc) PROVE Unstarted' /\ SlotOwnership'
    BY <1>10 DEF Interrupt, poolVars
  <1>11. ASSUME NEW k \in Controllers, ControlStep(k) PROVE Unstarted' /\ SlotOwnership'
    <2>1. UNCHANGED <<poolVars, submit, pump, cleanup, stopper>>
      BY <1>11 DEF ControlStep, ControlBegin, ControlSnapshot, ControlNext, ControlRestart, ControlEnd, controlFrame
    <2>2. QED
      BY <2>1 DEF poolVars
  <1>12. CASE UNCHANGED allVars
    BY <1>12 DEF allVars, poolVars, execVars
  <1>13. QED
    BY <1>1, <1>2, <1>3, <1>4, <1>5, <1>6, <1>7, <1>8, <1>9, <1>10, <1>11, <1>12 DEF Next, RunStep, SubmitStep

LEMMA HandleStepKeeps ==
  ASSUME ExecTypeOK, Unstarted, Handles, HandlesAreLive, UnregisteredIsOver, [Next]_allVars
  PROVE  (Handles /\ HandlesAreLive /\ UnregisteredIsOver)'
  <1> DEFINE Kept == (Handles /\ HandlesAreLive /\ UnregisteredIsOver)'
  <1> USE ExecutorAssumption DEF ExecTypeOK, Unstarted, Handles, HandlesAreLive, UnregisteredIsOver, HasHandle, Go, submitFrame, controlFrame, activeRunsVars
  <1>1. ASSUME NEW s \in Callers, SubmitCall(s) \/ SubmitReserve(s) PROVE Kept
    BY <1>1 DEF SubmitCall, SubmitReserve, Reserve
  <1>2. ASSUME NEW s \in Callers, SubmitTry(s) \/ SubmitAcquire(s) PROVE Kept
    BY <1>2 DEF SubmitTry, SubmitAcquire
  <1>3. ASSUME NEW s \in Callers, SubmitRecheck(s) \/ SubmitPrepare(s) \/ SubmitLastCheck(s) \/ SubmitSpawn(s) PROVE Kept
    BY <1>3 DEF SubmitRecheck, SubmitPrepare, SubmitLastCheck, SubmitSpawn
  <1>4. ASSUME NEW s \in Callers, SubmitRegister(s) PROVE Kept
    BY <1>4 DEF SubmitRegister, Register
  <1>5. ASSUME NEW s \in Callers, SubmitUndo(s) PROVE Kept
    BY <1>5 DEF SubmitUndo, ReleaseReservation
  <1>6. ASSUME NEW s \in Callers, EnterCleanup(s) \/ CleanupRelease(s) \/ CleanupLinger(s) \/ PumpDone(s) PROVE Kept
    BY <1>6 DEF EnterCleanup, CleanupRelease, CleanupLinger, PumpDone
  <1>7. ASSUME NEW s \in Callers, CleanupUnregister(s) PROVE Kept
    BY <1>7 DEF CleanupUnregister, Unregister
  <1>8. ASSUME NEW s \in Callers, ContextDone(s) \/ ProcessExits(s) \/ PumpEnds(s) PROVE Kept
    BY <1>8 DEF ContextDone, ProcessExits, PumpEnds, execVars
  <1>9. ASSUME NEW s \in Callers, StopCall(s) \/ StopProceeds(s) \/ InterruptStops(s) PROVE Kept
    BY <1>9 DEF StopCall, StopProceeds, InterruptStops, MarkInterrupted
  <1>10. ASSUME NEW sc \in Scopes, Interrupt(sc) PROVE Kept
    BY <1>10 DEF Interrupt, InterruptScope
  <1>11. ASSUME NEW k \in Controllers, ControlBegin(k) \/ ControlNext(k) \/ ControlRestart(k) \/ ControlEnd(k) PROVE Kept
    BY <1>11 DEF ControlBegin, ControlNext, ControlRestart, ControlEnd, PauseNewRuns, ResumeNewRuns
  <1>12. ASSUME NEW k \in Controllers, ControlSnapshot(k) PROVE Kept
    BY <1>12 DEF ControlSnapshot, ClearAll, Registered
  <1>13. CASE UNCHANGED allVars
    BY <1>13 DEF allVars, execVars, activeRunsVars
  <1>14. QED
    BY <1>1, <1>2, <1>3, <1>4, <1>5, <1>6, <1>7, <1>8, <1>9, <1>10, <1>11, <1>12, <1>13 DEF Next, RunStep, SubmitStep, CleanupStep, ControlStep

LEMMA ReservationStepKeeps ==
  ASSUME ExecTypeOK, Unstarted, Handles, HandlesAreLive, NoOrphanReservation, ReservationsBacked, ScopeExclusive, [Next]_allVars
  PROVE  (NoOrphanReservation /\ ReservationsBacked /\ ScopeExclusive)'
  <1> DEFINE Kept == (NoOrphanReservation /\ ReservationsBacked /\ ScopeExclusive)'
  <1> USE ExecutorAssumption DEF ExecTypeOK, Unstarted, Handles, HandlesAreLive, NoOrphanReservation, ReservationsBacked, ScopeExclusive,
          ReservationsKept, Reserving, HasHandle, Go, submitFrame, controlFrame, activeRunsVars
  <1>1. ASSUME NEW s \in Callers, SubmitCall(s) PROVE Kept
    BY <1>1 DEF SubmitCall
  <1>2. ASSUME NEW s \in Callers, SubmitReserve(s) PROVE Kept
    BY <1>2 DEF SubmitReserve, Reserve, CanReserve
  <1>3. ASSUME NEW s \in Callers, SubmitTry(s) \/ SubmitAcquire(s) PROVE Kept
    BY <1>3 DEF SubmitTry, SubmitAcquire
  <1>4. ASSUME NEW s \in Callers, SubmitRecheck(s) \/ SubmitPrepare(s) \/ SubmitLastCheck(s) \/ SubmitSpawn(s) PROVE Kept
    BY <1>4 DEF SubmitRecheck, SubmitPrepare, SubmitLastCheck, SubmitSpawn
  <1>5. ASSUME NEW s \in Callers, SubmitRegister(s) PROVE Kept
    BY <1>5 DEF SubmitRegister, Register
  <1>6. ASSUME NEW s \in Callers, SubmitUndo(s) PROVE Kept
    BY <1>6 DEF SubmitUndo, ReleaseReservation
  <1>7. ASSUME NEW s \in Callers, EnterCleanup(s) \/ CleanupRelease(s) \/ CleanupLinger(s) \/ PumpDone(s) PROVE Kept
    BY <1>7 DEF EnterCleanup, CleanupRelease, CleanupLinger, PumpDone
  <1>8. ASSUME NEW s \in Callers, CleanupUnregister(s) PROVE Kept
    BY <1>8 DEF CleanupUnregister, Unregister
  <1>9. ASSUME NEW s \in Callers, ContextDone(s) \/ ProcessExits(s) \/ PumpEnds(s) PROVE Kept
    BY <1>9 DEF ContextDone, ProcessExits, PumpEnds, execVars
  <1>10. ASSUME NEW s \in Callers, StopCall(s) \/ StopProceeds(s) \/ InterruptStops(s) PROVE Kept
    BY <1>10 DEF StopCall, StopProceeds, InterruptStops, MarkInterrupted
  <1>11. ASSUME NEW sc \in Scopes, Interrupt(sc) PROVE Kept
    BY <1>11 DEF Interrupt, InterruptScope
  <1>12. ASSUME NEW k \in Controllers, ControlBegin(k) \/ ControlNext(k) \/ ControlRestart(k) \/ ControlEnd(k) PROVE Kept
    BY <1>12 DEF ControlBegin, ControlNext, ControlRestart, ControlEnd, PauseNewRuns, ResumeNewRuns
  <1>13. ASSUME NEW k \in Controllers, ControlSnapshot(k) PROVE Kept
    BY <1>13 DEF ControlSnapshot, ClearAll
  <1>14. CASE UNCHANGED allVars
    BY <1>14 DEF allVars, execVars, activeRunsVars
  <1>15. QED
    BY <1>1, <1>2, <1>3, <1>4, <1>5, <1>6, <1>7, <1>8, <1>9, <1>10, <1>11, <1>12, <1>13, <1>14 DEF Next, RunStep, SubmitStep, CleanupStep, ControlStep
-----------------------------------------------------------------------------
Reconnecting == {k \in Controllers :
  ctl[k] \in {"stop", "wait", "stopping", "waiting", "restarting", "resuming"}}

\* A set of controllers is finite; one more or less is one more or less.
LEMMA ControllersCount ==
  ASSUME NEW S \in SUBSET Controllers
  PROVE  /\ Cardinality(S) \in Nat
         /\ \A k \in Controllers \ S : Cardinality(S \cup {k}) = Cardinality(S) + 1
         /\ \A k \in S : Cardinality(S \ {k}) = Cardinality(S) - 1
  <1>1. IsFiniteSet(S)
    BY ExecutorAssumption, FS_Subset
  <1>2. QED
    BY <1>1, FS_CardinalityType, FS_AddElement, FS_RemoveElement

\* Only the steps of a controller touch the pause.
LEMMA RunsLeavePause ==
  ASSUME NEW s \in Callers, RunStep(s) PROVE UNCHANGED <<ctl, pauseDepth>>
  <1> USE DEF submitFrame, activeRunsVars
  <1>1. CASE SubmitStep(s)
    BY <1>1 DEF SubmitStep, SubmitCall, SubmitReserve, Reserve, SubmitTry, SubmitAcquire, SubmitRecheck, SubmitPrepare,
                SubmitLastCheck, SubmitSpawn, SubmitRegister, Register, SubmitUndo, ReleaseReservation
  <1>2. CASE CleanupStep(s)
    BY <1>2 DEF CleanupStep, EnterCleanup, CleanupUnregister, Unregister, CleanupRelease, CleanupLinger, PumpDone
  <1>3. CASE ContextDone(s) \/ ProcessExits(s) \/ PumpEnds(s)
    BY <1>3 DEF ContextDone, execVars, ProcessExits, PumpEnds
  <1>4. CASE StopCall(s) \/ StopProceeds(s) \/ InterruptStops(s)
    BY <1>4 DEF StopCall, MarkInterrupted, StopProceeds, InterruptStops
  <1>5. QED
    BY <1>1, <1>2, <1>3, <1>4 DEF RunStep

LEMMA PauseStep ==
  ASSUME ExecTypeOK, PausedWhileReconnecting, [Next]_allVars PROVE PausedWhileReconnecting'
  <1> USE DEF ExecTypeOK, activeRunsVars
  <1>0. Reconnecting \in SUBSET Controllers /\ pauseDepth = Cardinality(Reconnecting)
    BY DEF Reconnecting, PausedWhileReconnecting
  <1>1. SUFFICES pauseDepth' = Cardinality(Reconnecting')
    BY DEF Reconnecting, PausedWhileReconnecting
  <1>2. CASE UNCHANGED <<ctl, pauseDepth>>
    BY <1>0, <1>2 DEF Reconnecting
  <1>3. ASSUME NEW k \in Controllers, ControlBegin(k) PROVE pauseDepth' = Cardinality(Reconnecting')
    <2>1. PICK order \in Orders[k] : ctl' = [ctl EXCEPT ![k] = order]
            /\ IF order = "shutdown" THEN UNCHANGED activeRunsVars ELSE PauseNewRuns
      BY <1>3 DEF ControlBegin
    <2>2. order \in {"stop", "wait", "shutdown"} /\ k \notin Reconnecting
      BY <1>3, <2>1, ExecutorAssumption DEF ControlBegin, Reconnecting
    <2>3. CASE order = "shutdown"
      <3>1. Reconnecting' = Reconnecting /\ pauseDepth' = pauseDepth
        BY <2>1, <2>2, <2>3 DEF Reconnecting
      <3>2. QED
        BY <1>0, <3>1
    <2>4. CASE order # "shutdown"
      <3>1. Reconnecting' = Reconnecting \cup {k} /\ pauseDepth' = pauseDepth + 1
        BY <2>1, <2>2, <2>4 DEF Reconnecting, PauseNewRuns
      <3>2. QED
        BY <1>0, <2>2, <3>1, ControllersCount
    <2>5. QED
      BY <2>3, <2>4
  <1>4. ASSUME NEW k \in Controllers, ControlSnapshot(k) \/ ControlNext(k) \/ ControlRestart(k)
        PROVE pauseDepth' = Cardinality(Reconnecting')
    <2>1. Reconnecting' = Reconnecting /\ pauseDepth' = pauseDepth
      BY <1>4 DEF Reconnecting, ControlSnapshot, ClearAll, ControlNext, ControlRestart
    <2>2. QED
      BY <1>0, <2>1
  <1>5. ASSUME NEW k \in Controllers, ControlEnd(k) PROVE pauseDepth' = Cardinality(Reconnecting')
    <2>1. CASE k \in Reconnecting
      <3>1. Reconnecting' = Reconnecting \ {k} /\ pauseDepth' = IF pauseDepth > 0 THEN pauseDepth - 1 ELSE 0
        BY <1>5, <2>1 DEF Reconnecting, ControlEnd, ResumeNewRuns
      <3>2. Cardinality(Reconnecting') = Cardinality(Reconnecting) - 1 /\ Cardinality(Reconnecting') \in Nat
        BY <1>0, <2>1, <3>1, ControllersCount
      <3>3. QED
        BY <1>0, <3>1, <3>2
    <2>2. CASE k \notin Reconnecting
      <3>1. Reconnecting' = Reconnecting /\ pauseDepth' = pauseDepth
        BY <1>5, <2>2 DEF Reconnecting, ControlEnd
      <3>2. QED
        BY <1>0, <3>1
    <2>3. QED
      BY <2>1, <2>2
  <1>6. ASSUME NEW sc \in Scopes, Interrupt(sc) PROVE UNCHANGED <<ctl, pauseDepth>>
    BY <1>6 DEF Interrupt, InterruptScope
  <1>7. CASE UNCHANGED allVars
    BY <1>2, <1>7 DEF allVars, execVars
  <1>8. QED
    BY <1>2, <1>3, <1>4, <1>5, <1>6, <1>7, RunsLeavePause DEF Next, ControlStep
-----------------------------------------------------------------------------
IInv == PoolInv /\ ExecTypeOK /\ Owned /\ PausedWhileReconnecting

LEMMA InitIInv == Init => IInv
  <1> SUFFICES ASSUME Init PROVE IInv
    OBVIOUS
  <1> USE DEF Init, ActiveRunsInit
  <1>1. PoolInv
    BY PoolInitInv
  <1>2. ExecTypeOK
    BY DEF ExecTypeOK, SubmitStates
  <1>3. Owned
    BY ExecutorAssumption DEF Owned, Unstarted, SlotOwnership, PoolInit, Handles, HandlesAreLive, HasHandle, UnregisteredIsOver,
       NoOrphanReservation, ReservationsBacked, ScopeExclusive, Reserving
  <1>4. {k \in Controllers : ctl[k] \in {"stop", "wait", "stopping", "waiting", "restarting", "resuming"}} = {}
    OBVIOUS
  <1>5. PausedWhileReconnecting
    BY <1>4, FS_EmptySet DEF PausedWhileReconnecting
  <1>6. QED
    BY <1>1, <1>2, <1>3, <1>5 DEF IInv

LEMMA NextIInv == IInv /\ [Next]_allVars => IInv'
  <1> SUFFICES ASSUME IInv, [Next]_allVars PROVE IInv'
    OBVIOUS
  <1>1. PoolInv'
    BY PoolStep, PoolTypeStep, PoolCountStep, PoolQueueStep DEF IInv, PoolInv
  <1>2. ExecTypeOK'
    BY TypeStep DEF IInv
  <1>3. (Unstarted /\ SlotOwnership)'
    BY SlotStepKeeps DEF IInv, PoolInv, Owned
  <1>4. (Handles /\ HandlesAreLive /\ UnregisteredIsOver)'
    BY HandleStepKeeps DEF IInv, Owned
  <1>5. (NoOrphanReservation /\ ReservationsBacked /\ ScopeExclusive)'
    BY ReservationStepKeeps DEF IInv, Owned
  <1>6. PausedWhileReconnecting'
    BY PauseStep DEF IInv
  <1>7. QED
    BY <1>1, <1>2, <1>3, <1>4, <1>5, <1>6 DEF IInv, Owned

LEMMA SpecIInv == Spec => []IInv
  BY InitIInv, NextIInv, PTL DEF Spec

\* The fields keep their types (the executor, its pool and its registry).
THEOREM ExecutorTypes == Spec => []TypeOK
  <1>1. IInv => TypeOK
    BY DEF IInv, PoolInv, ExecTypeOK, TypeOK
  <1>2. QED
    BY <1>1, SpecIInv, PTL

\* Whatever stops, fails or ends a run, and in whatever order (releaseBoth, the cleanup of
\* the pump or of Stop, Interrupt, StopAll), a slot, a reservation and a handle are given
\* back once, by their owner.
THEOREM ExecutorLeaksNothing == Spec => []NothingLeaks
  <1>1. IInv => NothingLeaks
    BY DEF IInv, Owned, NothingLeaks
  <1>2. QED
    BY <1>1, SpecIInv, PTL

\* A scope is one run's from its reservation to its cleanup (Reserve, Register, Unregister).
THEOREM ExecutorScopes == Spec => []OneRunPerScope
  <1>1. IInv => OneRunPerScope
    BY DEF IInv, Owned, OneRunPerScope
  <1>2. QED
    BY <1>1, SpecIInv, PTL

\* Overlapping calls of /reconnect count: the first that resumes does not end the pause of
\* another (PauseNewRuns and the function it returns).
THEOREM ExecutorPauses == Spec => []PausedWhileReconnecting
  <1>1. IInv => PausedWhileReconnecting
    BY DEF IInv
  <1>2. QED
    BY <1>1, SpecIInv, PTL
=============================================================================
