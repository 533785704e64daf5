----------------------------- MODULE IntakeQueue -----------------------------
(***************************************************************************)
(* The queue between Lark messages and agent runs,                         *)
(* internal/app/intake/queue.go.  Messages of a scope are collected until  *)
(* it has been quiet for a while; then a timer goroutine drains them into  *)
(* a batch and hands it to the scope's worker, who calls the handler for   *)
(* one batch at a time.  The handler (managedLarkIntake.handleBatch)       *)
(* blocks the scope's timer while its run lasts.  Messages are numbered in *)
(* the order Push accepts them.                                            *)
(***************************************************************************)
EXTENDS Naturals, Sequences, FiniteSets

CONSTANTS Scopes,
          Flushers,   \* goroutines that flush: timers that fired, calls of Flush
          Endless,    \* scopes whose handler may never return
          WorkerCap,  \* capacity of a worker's channel (16)
          MaxPush     \* bound of the messages pushed in a model

ASSUME QueueAssumption ==
  /\ Endless \subseteq Scopes
  /\ WorkerCap \in Nat \ {0}
  /\ MaxPush \in Nat

VARIABLES pending,    \* the messages collected, per scope; <<>>: no entry
          armed,      \* scopes whose entry has a running timer
          blocked,
          closed,     \* the flag, and the channel done that Close closes
          flush,      \* the flushing goroutines: [at, scope, batch]
          chan,       \* the channels of the workers: batches
          worker,     \* where each scope's worker is
          item,       \* the batch the worker has in hand
          pushed,     \* how many messages Push accepted
          accepted,   \* the scope of each of them
          delivered,  \* the messages handlers were called with, per scope
          dropped     \* the messages given up

entries == <<pending, armed>>
ghosts == <<pushed, accepted, delivered, dropped>>
queueVars == <<entries, blocked, closed, flush, chan, worker, item, ghosts>>

ElementsOf(batch) == {batch[i] : i \in 1 .. Len(batch)}
Idle == [at |-> "idle"]
Flushing(f, where, s) == flush[f].at = where /\ flush[f].scope = s
-----------------------------------------------------------------------------
QueueInit ==
  /\ pending = [s \in Scopes |-> <<>>] /\ armed = {}
  /\ blocked = {} /\ closed = FALSE
  /\ flush = [f \in Flushers |-> Idle]
  /\ chan = [s \in Scopes |-> <<>>]
  /\ worker = [s \in Scopes |-> "none"]
  /\ item = [s \in Scopes |-> <<>>]
  /\ pushed = 0 /\ accepted = <<>>
  /\ delivered = [s \in Scopes |-> <<>>] /\ dropped = {}

\* Push stops the entry's timer and starts a new one, unless the scope is blocked.
Push(s) ==
  /\ ~closed /\ pushed < MaxPush
  /\ pushed' = pushed + 1 /\ accepted' = Append(accepted, s)
  /\ pending' = [pending EXCEPT ![s] = Append(@, pushed')]
  /\ armed' = IF s \in blocked THEN armed \ {s} ELSE armed \cup {s}
  /\ UNCHANGED <<blocked, closed, flush, chan, worker, item, delivered, dropped>>

\* Entries deleted with what they hold; their timers are stopped.
Discard(scopes) ==
  /\ dropped' = dropped \cup UNION {ElementsOf(pending[s]) : s \in scopes}
  /\ pending' = [s \in Scopes |-> IF s \in scopes THEN <<>> ELSE pending[s]]
  /\ armed' = armed \ scopes

\* A slash command was handled: what the scope had collected is cancelled.
Cancel(s) ==
  /\ pending[s] # <<>>
  /\ Discard({s})
  /\ UNCHANGED <<blocked, closed, flush, chan, worker, item, pushed, accepted, delivered>>

CancelAll ==
  /\ Discard(Scopes)
  /\ blocked' = {}
  /\ UNCHANGED <<closed, flush, chan, worker, item, pushed, accepted, delivered>>

Close ==
  /\ ~closed
  /\ closed' = TRUE
  /\ Discard(Scopes)
  /\ blocked' = {}
  /\ UNCHANGED <<flush, chan, worker, item, pushed, accepted, delivered>>
-----------------------------------------------------------------------------
\* ctx tells the background context of a timer from the one a caller brings.
Started(f, s, ctx) ==
  flush' = [flush EXCEPT ![f] = [at |-> "draining", scope |-> s, ctx |-> ctx, batch |-> <<>>]]

\* A timer fires: its function runs in a goroutine of its own.
Fire(f, s) ==
  /\ flush[f] = Idle /\ s \in armed
  /\ Started(f, s, "background")
  /\ armed' = armed \ {s}
  /\ UNCHANGED <<pending, blocked, closed, chan, worker, item, ghosts>>

\* Somebody calls Flush, or FlushAll comes to this scope.
FlushCall(f, s) ==
  /\ flush[f] = Idle
  /\ Started(f, s, "caller")
  /\ UNCHANGED <<entries, blocked, closed, chan, worker, item, ghosts>>

\* Mutant of Drain: the entry stays.
DrainKeeps(f) ==
  /\ flush[f].at = "draining"
  /\ LET s == flush[f].scope IN
       IF closed \/ pending[s] = <<>>
         THEN flush' = [flush EXCEPT ![f] = Idle] /\ UNCHANGED <<pending, armed>>
         ELSE /\ flush' = [flush EXCEPT ![f].at = "asking", ![f].batch = pending[s]]
              /\ armed' = armed \ {s}
              /\ UNCHANGED pending
  /\ UNCHANGED <<blocked, closed, chan, worker, item, ghosts>>

\* The whole entry becomes the batch, whether or not the scope is blocked by now.
Drain(f) ==
  /\ flush[f].at = "draining"
  /\ LET s == flush[f].scope IN
       IF closed \/ pending[s] = <<>>
         THEN flush' = [flush EXCEPT ![f] = Idle] /\ UNCHANGED <<pending, armed>>
         ELSE /\ flush' = [flush EXCEPT ![f].at = "asking", ![f].batch = pending[s]]
              /\ pending' = [pending EXCEPT ![s] = <<>>]
              /\ armed' = armed \ {s}
  /\ UNCHANGED <<blocked, closed, chan, worker, item, ghosts>>

GivenUp(f) ==
  /\ flush' = [flush EXCEPT ![f] = Idle]
  /\ dropped' = dropped \cup ElementsOf(flush[f].batch)
  /\ UNCHANGED <<pushed, accepted, delivered>>

\* submit looks up the scope's worker, or starts it.
Ask(f) ==
  /\ flush[f].at = "asking"
  /\ \/ /\ closed
        /\ GivenUp(f) /\ UNCHANGED worker
     \/ /\ ~closed
        /\ flush' = [flush EXCEPT ![f].at = "sending"]
        /\ worker' = [worker EXCEPT ![flush[f].scope] = IF @ = "none" THEN "ready" ELSE @]
        /\ UNCHANGED ghosts
  /\ UNCHANGED <<entries, blocked, closed, chan, item>>

\* Mutant of Send: the channel takes any number of batches.
SendUnbounded(f) ==
  /\ flush[f].at = "sending"
  /\ chan' = [chan EXCEPT ![flush[f].scope] = Append(@, flush[f].batch)]
  /\ flush' = [flush EXCEPT ![f].at = "waiting"]
  /\ UNCHANGED <<entries, blocked, closed, worker, item, ghosts>>

Send(f) ==
  /\ flush[f].at = "sending" /\ Len(chan[flush[f].scope]) < WorkerCap
  /\ chan' = [chan EXCEPT ![flush[f].scope] = Append(@, flush[f].batch)]
  /\ flush' = [flush EXCEPT ![f].at = "waiting"]
  /\ UNCHANGED <<entries, blocked, closed, worker, item, ghosts>>

\* The first select of submit takes q.done, or the context of a caller of Flush.
SendGivesUp(f) ==
  /\ flush[f].at = "sending" /\ (closed \/ flush[f].ctx = "caller")
  /\ GivenUp(f)
  /\ UNCHANGED <<entries, blocked, closed, chan, worker, item>>

\* Mutant of Return: the second select does not watch q.done.
ReturnWaits(f) ==
  /\ flush[f].at = "answered"
  /\ flush' = [flush EXCEPT ![f] = Idle]
  /\ UNCHANGED <<entries, blocked, closed, chan, worker, item, ghosts>>

\* The second select: the worker answered, the queue is closed, or the context
\* of a caller of Flush ends.
Return(f) ==
  /\ \/ flush[f].at = "answered"
     \/ flush[f].at = "waiting" /\ (closed \/ flush[f].ctx = "caller")
  /\ flush' = [flush EXCEPT ![f] = Idle]
  /\ UNCHANGED <<entries, blocked, closed, chan, worker, item, ghosts>>
-----------------------------------------------------------------------------
\* The worker calls the handler with the next batch.
WorkerTakes(s) ==
  /\ worker[s] = "ready" /\ chan[s] # <<>>
  /\ item' = [item EXCEPT ![s] = Head(chan[s])]
  /\ chan' = [chan EXCEPT ![s] = Tail(@)]
  /\ delivered' = [delivered EXCEPT ![s] = @ \o item'[s]]
  /\ worker' = [worker EXCEPT ![s] = "called"]
  /\ UNCHANGED <<entries, blocked, closed, flush, pushed, accepted, dropped>>

WorkerQuits(s) ==
  /\ worker[s] = "ready" /\ closed
  /\ worker' = [worker EXCEPT ![s] = "over"]
  /\ UNCHANGED <<entries, blocked, closed, flush, chan, item, ghosts>>

\* The handler lets the batch pass its checks and calls Block.
HandlerBlocks(s) ==
  /\ worker[s] = "called"
  /\ worker' = [worker EXCEPT ![s] = "running"]
  /\ blocked' = IF closed THEN blocked ELSE blocked \cup {s}
  /\ armed' = armed \ {s}
  /\ UNCHANGED <<pending, closed, flush, chan, item, ghosts>>

\* Mutants of HandlerUnblocks: the timer is not started again; the scope stays
\* blocked.
UnblockUnarmed(s) ==
  /\ worker[s] = "running"
  /\ worker' = [worker EXCEPT ![s] = "leaving"]
  /\ blocked' = blocked \ {s}
  /\ UNCHANGED <<entries, closed, flush, chan, item, ghosts>>
UnblockNever(s) ==
  /\ worker[s] = "running"
  /\ worker' = [worker EXCEPT ![s] = "leaving"]
  /\ UNCHANGED <<entries, blocked, closed, flush, chan, item, ghosts>>

\* The deferred Unblock: what came in meanwhile gets a timer.
HandlerUnblocks(s) ==
  /\ worker[s] = "running"
  /\ worker' = [worker EXCEPT ![s] = "leaving"]
  /\ blocked' = blocked \ {s}
  /\ armed' = IF pending[s] # <<>> THEN armed \cup {s} ELSE armed
  /\ UNCHANGED <<pending, closed, flush, chan, item, ghosts>>

\* The handler returns, early or after its run, and the flusher that still
\* waits for this batch gets the answer.
HandlerReturns(s) ==
  /\ worker[s] \in {"called", "leaving"}
  /\ worker' = [worker EXCEPT ![s] = "ready"]
  /\ flush' = [f \in Flushers |->
                 IF Flushing(f, "waiting", s) /\ flush[f].batch = item[s]
                   THEN [flush[f] EXCEPT !.at = "answered"] ELSE flush[f]]
  /\ item' = [item EXCEPT ![s] = <<>>]
  /\ UNCHANGED <<entries, blocked, closed, chan, ghosts>>
-----------------------------------------------------------------------------
FlushStep(f) == Drain(f) \/ Ask(f) \/ Send(f) \/ Return(f)
QueueNext ==
  \/ \E s \in Scopes : \/ Push(s) \/ Cancel(s)
                       \/ WorkerTakes(s) \/ WorkerQuits(s) \/ HandlerBlocks(s)
                       \/ HandlerUnblocks(s) \/ HandlerReturns(s)
  \/ CancelAll \/ Close
  \/ \E f \in Flushers : \/ FlushStep(f) \/ SendGivesUp(f)
                         \/ \E s \in Scopes : Fire(f, s) \/ FlushCall(f, s)
QueueSpec == QueueInit /\ [][QueueNext]_queueVars

\* Timers fire, goroutines run, and the handlers of all but the endless scopes
\* return.  Nobody has to push, cancel, close or flush by hand.  A timer brings
\* a goroutine of its own: callers of Flush that keep the model's flushers busy
\* must not keep it from firing, hence SF.
QueueFairness ==
  /\ \A f \in Flushers : WF_queueVars(FlushStep(f) \/ SendGivesUp(f))
  /\ \A s \in Scopes : /\ SF_queueVars(\E f \in Flushers : Fire(f, s))
                        /\ WF_queueVars(WorkerTakes(s)) /\ WF_queueVars(HandlerUnblocks(s))
  /\ \A s \in Scopes \ Endless : WF_queueVars(HandlerBlocks(s) \/ HandlerReturns(s))
FairQueueSpec == QueueSpec /\ QueueFairness
-----------------------------------------------------------------------------
FlushState == [at : {"idle"}]
  \cup [at : {"draining", "asking", "sending", "waiting", "answered"},
        scope : Scopes, ctx : {"background", "caller"}, batch : Seq(1 .. pushed)]

QueueTypeOK ==
  /\ pushed \in 0 .. MaxPush
  /\ accepted \in Seq(Scopes) /\ Len(accepted) = pushed
  /\ pending \in [Scopes -> Seq(1 .. pushed)]
  /\ armed \subseteq Scopes /\ blocked \subseteq Scopes /\ closed \in BOOLEAN
  /\ flush \in [Flushers -> FlushState]
  /\ chan \in [Scopes -> Seq(Seq(1 .. pushed))]
  /\ \A s \in Scopes : Len(chan[s]) <= WorkerCap
  /\ worker \in [Scopes -> {"none", "ready", "called", "running", "leaving", "over"}]
  /\ item \in [Scopes -> Seq(1 .. pushed)]
  /\ delivered \in [Scopes -> Seq(1 .. pushed)]
  /\ dropped \subseteq 1 .. pushed

InHand(f, s) == Flushing(f, "asking", s) \/ Flushing(f, "sending", s)

\* The batches of a scope, wherever they are, and the messages they hold.
Places(s) == <<pending[s], delivered[s]>> \o chan[s]
PlacesOf(m, s) ==
  {<<"place", i>> : i \in {i \in 1 .. Len(Places(s)) : m \in ElementsOf(Places(s)[i])}}
  \cup {<<"hand", f>> : f \in {f \in Flushers : InHand(f, s) /\ m \in ElementsOf(flush[f].batch)}}
  \cup (IF m \in dropped THEN {<<"dropped", 0>>} ELSE {})

\* A message that Push accepted is in one place of its own scope: still to be
\* drained, on its way to the worker, delivered once, or given up.
EachOnce ==
  \A m \in 1 .. pushed :
    /\ Cardinality(PlacesOf(m, accepted[m])) = 1
    /\ \A s \in Scopes \ {accepted[m]} : PlacesOf(m, s) \subseteq {<<"dropped", 0>>}

\* No timer runs for a scope whose handler is at work, none for an empty entry.
QuietWhileBlocked == armed \cap (blocked \cup {s \in Scopes : pending[s] = <<>>}) = {}

\* A collected message has somebody to flush it: a timer, a goroutine about to
\* drain it, or the handler at work, who will start the timer again.
SomebodyFlushes ==
  \A s \in Scopes : pending[s] # <<>> =>
    \/ s \in armed
    \/ \E f \in Flushers : Flushing(f, "draining", s)
    \/ s \in blocked /\ worker[s] = "running"

\* A blocked scope always has the handler that will unblock it.
BlockHasOwner == \A s \in blocked : worker[s] = "running"

\* A message is delivered or given up at last, unless the queue is closed or
\* its handler never returns.
Settled ==
  \A m \in 1 .. MaxPush, s \in Scopes \ Endless :
    (m <= pushed /\ accepted[m] = s) ~> (m \in ElementsOf(delivered[s]) \cup dropped \/ closed)

\* Close sets every flush free, even one whose handler never returns.
CloseFreesFlushers == \A f \in Flushers : closed ~> (flush[f] = Idle)

\* Both: what is pushed is dealt with, and what waits is freed by Close.
QueueSettles == Settled /\ CloseFreesFlushers
=============================================================================
