----------------------------- MODULE EventFanout -----------------------------
(***************************************************************************)
(* The fan-out of a run's events, internal/app/runexecutor/fanout.go.  One *)
(* pump moves the agent's events into a buffer and closes the channels of  *)
(* the waiting subscribers; each subscriber is a goroutine with its own    *)
(* index that replays the buffer from the start, sends event by event and  *)
(* sleeps on a fresh channel when it has caught up.                        *)
(***************************************************************************)
EXTENDS Naturals, Sequences

CONSTANTS Progress,     \* the non-terminal events
          Terminal,     \* the terminal ones (EventDone, EventError)
          Subscribers,  \* calls of Subscribe
          Slow,         \* the subscribers whose receiver may stop receiving
          MaxEvents     \* bound of the events one run emits in a model

ASSUME FanoutAssumption ==
  /\ Progress \cap Terminal = {}
  /\ Slow \subseteq Subscribers
  /\ MaxEvents \in Nat

Events == Progress \cup Terminal

VARIABLES buffer,   \* the events so far
          pump,     \* where the pump is
          done,     \* the flag that ends the subscribers
          parked,   \* the subscribers whose waiter channel is registered
          sub,      \* where each subscriber's goroutine is
          index,    \* how many events it has taken from the buffer
          got,      \* what it has sent to its receiver
          given     \* the subscribers whose context is done

fanoutVars == <<buffer, pump, done, parked, sub, index, got, given>>
subFrame == <<sub, index, got, given>>
-----------------------------------------------------------------------------
FanoutInit ==
  /\ buffer = <<>>
  /\ pump = "reading"
  /\ done = FALSE
  /\ parked = {}
  /\ sub = [c \in Subscribers |-> "none"]
  /\ index = [c \in Subscribers |-> 0]
  /\ got = [c \in Subscribers |-> <<>>]
  /\ given = {}

\* Mutant of PumpEvent: subscribers are not woken.
PumpEventSilently(e) ==
  /\ pump = "reading" /\ Len(buffer) < MaxEvents
  /\ buffer' = Append(buffer, e)
  /\ pump' = IF e \in Terminal THEN "onDone" ELSE pump
  /\ UNCHANGED <<done, parked, subFrame>>

\* One turn of the pump's loop; wakeAllLocked empties the set of waiters.
PumpEvent(e) ==
  /\ pump = "reading" /\ Len(buffer) < MaxEvents
  /\ buffer' = Append(buffer, e)
  /\ parked' = {}
  /\ pump' = IF e \in Terminal THEN "onDone" ELSE pump
  /\ UNCHANGED <<done, subFrame>>

\* The agent closes its channel without a terminal event.
SourceCloses ==
  /\ pump = "reading"
  /\ pump' = "onDone"
  /\ UNCHANGED <<buffer, done, parked, subFrame>>

\* onDone, the cleanup of the run, returns at last.
OnDone ==
  /\ pump = "onDone"
  /\ pump' = "closing"
  /\ UNCHANGED <<buffer, done, parked, subFrame>>

\* Mutant of PumpCloses: nobody is woken for the end.
PumpClosesSilently ==
  /\ pump = "closing"
  /\ pump' = "over"
  /\ done' = TRUE
  /\ UNCHANGED <<buffer, parked, subFrame>>

PumpCloses ==
  /\ pump = "closing"
  /\ pump' = "over"
  /\ done' = TRUE
  /\ parked' = {}
  /\ UNCHANGED <<buffer, subFrame>>
-----------------------------------------------------------------------------
Subscribe(c) ==
  /\ sub[c] = "none"
  /\ sub' = [sub EXCEPT ![c] = "looking"]
  /\ UNCHANGED <<buffer, pump, done, parked, index, got, given>>

\* Mutants of Look: an event too many is taken; the end is tested before the
\* rest of the buffer.
LookTooFar(c) ==
  /\ sub[c] = "looking"
  /\ index' = [index EXCEPT ![c] = @ + 1]
  /\ sub' = [sub EXCEPT ![c] = "sending"]
  /\ UNCHANGED <<buffer, pump, done, parked, got, given>>
LookForEndFirst(c) ==
  /\ sub[c] = "looking"
  /\ \/ /\ done
        /\ sub' = [sub EXCEPT ![c] = "closed"]
        /\ UNCHANGED <<index, parked>>
     \/ /\ ~done /\ index[c] < Len(buffer)
        /\ index' = [index EXCEPT ![c] = @ + 1]
        /\ sub' = [sub EXCEPT ![c] = "sending"]
        /\ UNCHANGED parked
     \/ /\ ~done /\ index[c] = Len(buffer)
        /\ parked' = parked \cup {c}
        /\ sub' = [sub EXCEPT ![c] = "waiting"]
        /\ UNCHANGED index
  /\ UNCHANGED <<buffer, pump, done, got, given>>

\* The locked part of the subscriber's loop: take the next event, or end, or
\* register a channel to sleep on.
Look(c) ==
  /\ sub[c] = "looking"
  /\ \/ /\ index[c] < Len(buffer)
        /\ index' = [index EXCEPT ![c] = @ + 1]
        /\ sub' = [sub EXCEPT ![c] = "sending"]
        /\ UNCHANGED parked
     \/ /\ index[c] = Len(buffer) /\ done
        /\ sub' = [sub EXCEPT ![c] = "closed"]
        /\ UNCHANGED <<index, parked>>
     \/ /\ index[c] = Len(buffer) /\ ~done
        /\ parked' = parked \cup {c}
        /\ sub' = [sub EXCEPT ![c] = "waiting"]
        /\ UNCHANGED index
  /\ UNCHANGED <<buffer, pump, done, got, given>>

\* The event goes out, outside the lock.
HandOut(c) ==
  /\ sub[c] = "sending"
  /\ got' = [got EXCEPT ![c] = Append(@, buffer[index[c]])]
  /\ sub' = [sub EXCEPT ![c] = "looking"]
  /\ UNCHANGED <<buffer, pump, done, parked, index, given>>

Wake(c) ==
  /\ sub[c] = "waiting" /\ c \notin parked
  /\ sub' = [sub EXCEPT ![c] = "looking"]
  /\ UNCHANGED <<buffer, pump, done, parked, index, got, given>>

\* The subscriber's context ends.
GiveUp(c) ==
  /\ sub[c] \notin {"none", "closed"} /\ c \notin given
  /\ given' = given \cup {c}
  /\ UNCHANGED <<buffer, pump, done, parked, sub, index, got>>

\* Either select takes ctx.Done: the event in hand is dropped, or the waiter
\* is deleted and the goroutine returns.
Leaves(c) ==
  /\ c \in given
  /\ \/ sub[c] = "sending" /\ sub' = [sub EXCEPT ![c] = "closed"] /\ UNCHANGED parked
     \/ sub[c] = "waiting" /\ sub' = [sub EXCEPT ![c] = "leaving"] /\ UNCHANGED parked
     \/ sub[c] = "leaving" /\ sub' = [sub EXCEPT ![c] = "closed"] /\ parked' = parked \ {c}
  /\ UNCHANGED <<buffer, pump, done, index, got, given>>

SubStep(c) == Look(c) \/ Wake(c) \/ Leaves(c)
FanoutNext ==
  \/ \E e \in Events : PumpEvent(e)
  \/ SourceCloses \/ OnDone \/ PumpCloses
  \/ \E c \in Subscribers : Subscribe(c) \/ Look(c) \/ HandOut(c) \/ Wake(c) \/ GiveUp(c) \/ Leaves(c)

FanoutSpec == FanoutInit /\ [][FanoutNext]_fanoutVars

\* Goroutines run, the agent's stream ends, cleanup returns (its waits have
\* timeouts), and receivers other than the slow ones receive.
FanoutFairness ==
  /\ WF_fanoutVars(SourceCloses) /\ WF_fanoutVars(OnDone) /\ WF_fanoutVars(PumpCloses)
  /\ \A c \in Subscribers : WF_fanoutVars(SubStep(c))
  /\ \A c \in Subscribers \ Slow : WF_fanoutVars(HandOut(c))
FairFanoutSpec == FanoutSpec /\ FanoutFairness
-----------------------------------------------------------------------------
FanoutTypeOK ==
  /\ buffer \in Seq(Events)
  /\ pump \in {"reading", "onDone", "closing", "over"}
  /\ done \in BOOLEAN
  /\ parked \in SUBSET Subscribers
  /\ sub \in [Subscribers -> {"none", "looking", "sending", "waiting", "leaving", "closed"}]
  /\ index \in [Subscribers -> 0 .. Len(buffer)]
  /\ got \in [Subscribers -> Seq(Events)]
  /\ given \in SUBSET Subscribers

\* A subscriber whose channel is still registered has seen everything there is:
\* it never sleeps through an event or through the end.
NobodySleepsThrough ==
  \A c \in parked : index[c] = Len(buffer) /\ ~done

\* What a subscriber got is the beginning of the buffer, event by event,
\* whenever it subscribed and however slow it is.
GotIsPrefix ==
  \A c \in Subscribers :
    /\ Len(got[c]) <= Len(buffer)
    /\ \A i \in 1 .. Len(got[c]) : got[c][i] = buffer[i]

\* A stream that ends on its own was complete, and cleanup was over by then.
EndsComplete ==
  \A c \in Subscribers : sub[c] = "closed" /\ c \notin given => done /\ got[c] = buffer

\* Nothing follows a terminal event, so a consumer may stop at it.
TerminalIsLast ==
  \A i \in 1 .. Len(buffer) : buffer[i] \in Terminal => i = Len(buffer)

\* Every subscriber that keeps receiving reaches the end, however many others
\* have stopped receiving.
EveryoneFinishes ==
  \A c \in Subscribers \ Slow : (sub[c] = "looking") ~> (sub[c] = "closed")

\* The fan-out implements the log it promises.
Promise == INSTANCE EventLog
  WITH log <- buffer, sealed <- pump # "reading", view <- got,
       over <- {c \in Subscribers : sub[c] = "closed"},
       left <- {c \in given : sub[c] = "closed"}
PromisedLog == Promise!LogSpec
=============================================================================
