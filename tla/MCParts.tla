------------------------------- MODULE MCParts -------------------------------
(***************************************************************************)
(* Four parts that work alone, in one run: every behaviour is one of the   *)
(* pool, the fan-out, the queue or the lock, and the three others stay as  *)
(* they begin.  Fairness is that of the parts.  The fan-out and the queue  *)
(* come to an end and rest then; the pool and the lock never do, so a      *)
(* deadlock would be theirs.                                               *)
(*                                                                         *)
(* The queue has two scopes, one of which has a handler that may never     *)
(* return; two flushing goroutines are enough to overtake each other and,  *)
(* since an endless flush needs a message, to leave one free for the other *)
(* scope.  One subscriber of the fan-out may stop receiving.  One process  *)
(* may crash while it has the lock and one be suspended now and then.      *)
(***************************************************************************)
EXTENDS ProcessPool, EventFanout, IntakeQueue, RuntimeLock

VARIABLE part
partVars == <<part, poolVars, fanoutVars, queueVars, lockVars>>

Init ==
  /\ part \in {"pool", "fanout", "queue", "lock"}
  /\ PoolInit /\ FanoutInit /\ QueueInit /\ LockInit

Next ==
  /\ UNCHANGED part
  /\ \/ part = "pool" /\ PoolNext /\ UNCHANGED <<fanoutVars, queueVars, lockVars>>
     \/ part = "fanout" /\ FanoutNext /\ UNCHANGED <<poolVars, queueVars, lockVars>>
     \/ part = "queue" /\ QueueNext /\ UNCHANGED <<poolVars, fanoutVars, lockVars>>
     \/ part = "lock" /\ LockNext /\ UNCHANGED <<poolVars, fanoutVars, queueVars>>
     \/ part \in {"fanout", "queue"} /\ UNCHANGED partVars

\* The fairness of the four parts, each under its own condition.
PoolFair == \A c \in Callers :
  WF_poolVars(part = "pool" /\ PoolProgress(c)) /\ WF_poolVars(part = "pool" /\ Release(c))
FanoutFair ==
  /\ WF_fanoutVars(part = "fanout" /\ SourceCloses)
  /\ WF_fanoutVars(part = "fanout" /\ OnDone)
  /\ WF_fanoutVars(part = "fanout" /\ PumpCloses)
  /\ \A c \in Subscribers : WF_fanoutVars(part = "fanout" /\ SubStep(c))
  /\ \A c \in Subscribers \ Slow : WF_fanoutVars(part = "fanout" /\ HandOut(c))
QueueFair ==
  /\ \A f \in Flushers : WF_queueVars(part = "queue" /\ (FlushStep(f) \/ SendGivesUp(f)))
  /\ \A s \in Scopes : /\ SF_queueVars(part = "queue" /\ \E f \in Flushers : Fire(f, s))
                       /\ WF_queueVars(part = "queue" /\ WorkerTakes(s))
                       /\ WF_queueVars(part = "queue" /\ HandlerUnblocks(s))
  /\ \A s \in Scopes \ Endless : WF_queueVars(part = "queue" /\ (HandlerBlocks(s) \/ HandlerReturns(s)))
LockFair ==
  /\ WF_lockVars(part = "lock" /\ Age)
  /\ \A p \in Procs : /\ WF_lockVars(part = "lock" /\ LockCall(p))
                      /\ SF_lockVars(part = "lock" /\ LockStep(p))

FairSpec == Init /\ [][Next]_partVars /\ PoolFair /\ FanoutFair /\ QueueFair /\ LockFair
=============================================================================
