---------------------------- MODULE CotPublisher ----------------------------
(***************************************************************************)
(* The process presenter, internal/app/cotpresenter/publisher.go:          *)
(* ConsumeEvents turns the events of a run into COT events and enqueues    *)
(* them; a throttle timer flushes them in batches while more are enqueued; *)
(* Finish flushes the rest and completes the process message.  A call that *)
(* fails has had no effect (assumption).                                   *)
(***************************************************************************)
EXTENDS Naturals, Sequences, FiniteSets

CONSTANTS Runs,            \* what the channel yields, records: type, id, phase, reason
          UpdateLimit,     \* updateEventLimit
          Callbacks,       \* timers whose callbacks may be at work
          MaxCotFailures   \* bound of the calls that fail

\* Runs are finite, updateEventLimit is not 0, and Finish is not a timer.
Happening == UNION {{r[i] : i \in DOMAIN r} : r \in Runs}
Finisher == "finish"
ASSUME CotAssumption == Runs \subseteq Seq(Happening) /\ UpdateLimit \in Nat \ {0} /\ Finisher \notin Callbacks

VARIABLES events,    \* of the run, not read
          open,      \* ConsumeEvents' locals: what was started and not ended
          todo,      \* COT events of the current event, not enqueued
          told,      \* history: enqueued
          buffer, timer, flushing, disabled,
          flusher,   \* per timer callback, and for Finish: at and batch
          sent,      \* what the platform has got
          consumer,  \* of ConsumeEvents and Finish: at, reason, attempts
          completed, \* the reason the process message was completed with, or none
          cotFailures

cotVars == <<events, open, todo, told, buffer, timer, flushing, disabled, flusher, sent,
             consumer, completed, cotFailures>>
Flushers == Callbacks \cup {Finisher}
Ev(type, id) == [type |-> type, id |-> id]   \* id: what is started or ended, and which
Run == <<"run", 0>>
Reasoning == <<"reasoning", 0>>

\* Publisher.Start enqueues the first two when the message was created.
CotInit ==
  /\ events \in Runs
  /\ open = [reasoning |-> FALSE, step |-> FALSE, text |-> 0, texts |-> 0, source |-> "", action |-> 0, actions |-> 0]
  /\ todo = <<Ev("RUN_STARTED", Run), Ev("STEP_STARTED", <<"step", "understand">>)>> /\ told = <<>>
  /\ buffer = <<>> /\ timer = "none" /\ flushing = FALSE /\ disabled = FALSE
  /\ flusher = [f \in Flushers |-> [at |-> "idle", batch |-> <<>>]]
  /\ sent = <<>> /\ consumer = [at |-> "run", reason |-> "none", attempts |-> 0]
  /\ completed = "none" /\ cotFailures = 0
-----------------------------------------------------------------------------
closeReasoning(o) == IF o.reasoning THEN <<Ev("REASONING_MESSAGE_END", Reasoning), Ev("REASONING_END", Reasoning)>> ELSE <<>>
closeText(o) == IF o.text # 0 THEN <<Ev("TEXT_MESSAGE_END", <<"text", o.text>>)>> ELSE <<>>
closeAction(o) == IF o.action # 0 THEN <<Ev("STEP_FINISHED", <<"action", o.action>>)>> ELSE <<>>
closeStep(o) == IF o.step THEN <<Ev("STEP_FINISHED", <<"step", "process">>)>> ELSE <<>>

\* What ConsumeEvents makes of one event: the COT events and what is open then.
Become(out, o) == [out |-> out, open |-> o]
onText(o, e) ==
  LET shut == closeAction(o) \o closeReasoning(o)
      o1 == [o EXCEPT !.action = 0, !.reasoning = FALSE] IN
  IF e.phase = "final" THEN Become(shut \o closeText(o), [o1 EXCEPT !.text = 0])
  ELSE LET fresh == o.text = 0 \/ o.source # e.id
           n == IF fresh THEN o.texts + 1 ELSE o.text IN
       Become(shut \o (IF o.source # e.id THEN closeText(o) ELSE <<>>)
                \o (IF o.step THEN <<>> ELSE <<Ev("STEP_STARTED", <<"step", "process">>)>>)
                \o (IF fresh THEN <<Ev("TEXT_MESSAGE_START", <<"text", n>>)>> ELSE <<>>)
                \o <<Ev("TEXT_MESSAGE_CONTENT", <<"text", n>>)>>,
              [o1 EXCEPT !.step = TRUE, !.text = n, !.texts = n, !.source = e.id])
Consume(o, e) ==
  CASE e.type = "userAction" ->
         Become(closeReasoning(o) \o closeText(o) \o closeAction(o) \o <<Ev("STEP_STARTED", <<"action", o.actions + 1>>)>>,
                [o EXCEPT !.reasoning = FALSE, !.text = 0, !.action = o.actions + 1, !.actions = @ + 1])
    [] e.type = "thinking" ->
         Become(closeText(o)
                  \o (IF o.reasoning THEN <<>> ELSE <<Ev("REASONING_START", Reasoning), Ev("REASONING_MESSAGE_START", Reasoning)>>)
                  \o <<Ev("REASONING_MESSAGE_CONTENT", Reasoning)>>, [o EXCEPT !.text = 0, !.reasoning = TRUE])
    [] e.type = "toolUse" ->
         Become(closeReasoning(o) \o closeText(o) \o <<Ev("TOOL_CALL_START", <<"tool", e.id>>), Ev("TOOL_CALL_END", <<"tool", e.id>>)>>,
                [o EXCEPT !.reasoning = FALSE, !.text = 0])
    [] e.type = "toolResult" ->
         Become(closeAction(o) \o <<Ev("TOOL_CALL_RESULT", <<"tool", e.id>>)>>, [o EXCEPT !.action = 0])
    [] e.type = "text" -> onText(o, e)
    [] e.type \in {"done", "error"} ->
         Become(closeReasoning(o) \o closeText(o) \o closeStep(o)
                  \o <<Ev(IF e.type = "error" THEN "RUN_ERROR" ELSE "RUN_FINISHED", Run)>> \o closeAction(o),
                [o EXCEPT !.reasoning = FALSE, !.text = 0, !.step = FALSE, !.action = 0])
    [] e.type = "closed" ->   \* the channel is closed, or the context is over
         Become(closeReasoning(o) \o closeText(o) \o closeAction(o),
                [o EXCEPT !.reasoning = FALSE, !.text = 0, !.action = 0])
    [] OTHER -> Become(<<>>, o)

Read ==
  /\ consumer.at = "run" /\ todo = <<>>
  /\ LET e == IF events = <<>> THEN [type |-> "closed", reason |-> "normal"] ELSE Head(events)
         b == Consume(open, e) IN
     /\ todo' = b.out /\ open' = b.open
     /\ consumer' = IF e.type \in {"done", "error", "closed"}
          THEN [consumer EXCEPT !.at = "ending",
                                !.reason = IF e.type # "error" /\ e.reason = "normal" THEN "done" ELSE "error"]
          ELSE consumer
  /\ events' = IF events = <<>> THEN <<>> ELSE Tail(events)
  /\ UNCHANGED <<told, buffer, timer, flushing, disabled, flusher, sent, completed, cotFailures>>

\* disableLocked: what was not sent is dropped.
disable == disabled' = TRUE /\ buffer' = <<>>

\* Enqueue: an event too long for the wire is several, or cannot be sent at all.
Enqueue ==
  /\ todo # <<>> /\ todo' = Tail(todo)
  /\ IF disabled THEN UNCHANGED <<told, buffer, timer, disabled>>
     ELSE \/ /\ \E n \in IF Head(todo).type = "TEXT_MESSAGE_CONTENT" THEN {1, 2} ELSE {1} :
                  LET es == [i \in 1 .. n |-> Head(todo)] IN buffer' = buffer \o es /\ told' = told \o es
             /\ timer' = IF timer = "none" /\ ~flushing THEN "armed" ELSE timer
             /\ UNCHANGED disabled
          \/ Head(todo).type = "TOOL_CALL_START" /\ disable /\ UNCHANGED <<told, timer>>
  /\ UNCHANGED <<events, open, flushing, flusher, sent, consumer, completed, cotFailures>>

TimerFires(c) ==
  /\ timer = "armed" /\ flusher[c].at = "idle"
  /\ timer' = "fired" /\ flusher' = [flusher EXCEPT ![c].at = "wait"]
  /\ UNCHANGED <<events, open, todo, told, buffer, flushing, disabled, sent, consumer, completed, cotFailures>>
-----------------------------------------------------------------------------
\* Mutant of FlushTakes: nobody waits for the call that is in flight.
FlushTakesAtOnce(f) ==
  /\ flusher[f].at = "wait"
  /\ IF disabled \/ buffer = <<>>
       THEN flusher' = [flusher EXCEPT ![f].at = "idle"] /\ UNCHANGED <<buffer, timer, flushing>>
     ELSE LET n == IF Len(buffer) > UpdateLimit THEN UpdateLimit ELSE Len(buffer) IN
          /\ flushing' = TRUE /\ timer' = "none"
          /\ flusher' = [flusher EXCEPT ![f] = [at |-> "call", batch |-> SubSeq(buffer, 1, n)]]
          /\ buffer' = SubSeq(buffer, n + 1, Len(buffer))
  /\ UNCHANGED <<events, open, todo, told, disabled, sent, consumer, completed, cotFailures>>

\* Flush up to its call: it waits for another's call, and is over when there is
\* nothing to send.
FlushTakes(f) ==
  /\ flusher[f].at = "wait" /\ ~flushing
  /\ IF disabled \/ buffer = <<>>
       THEN flusher' = [flusher EXCEPT ![f].at = "idle"] /\ UNCHANGED <<buffer, timer, flushing>>
     ELSE LET n == IF Len(buffer) > UpdateLimit THEN UpdateLimit ELSE Len(buffer) IN
          /\ flushing' = TRUE /\ timer' = "none"
          /\ flusher' = [flusher EXCEPT ![f] = [at |-> "call", batch |-> SubSeq(buffer, 1, n)]]
          /\ buffer' = SubSeq(buffer, n + 1, Len(buffer))
  /\ UNCHANGED <<events, open, todo, told, disabled, sent, consumer, completed, cotFailures>>

FlushCalls(f) ==
  /\ flusher[f].at = "call"
  /\ \/ sent' = sent \o flusher[f].batch /\ flusher' = [flusher EXCEPT ![f] = [at |-> "sent", batch |-> <<>>]]
        /\ UNCHANGED cotFailures
     \/ /\ cotFailures < MaxCotFailures /\ cotFailures' = cotFailures + 1
        /\ flusher' = [flusher EXCEPT ![f].at = "failed"] /\ UNCHANGED sent
  /\ UNCHANGED <<events, open, todo, told, buffer, timer, flushing, disabled, consumer, completed>>

\* Flush after its call: on while there is more, and off for good after an error.
FlushReturns(f) ==
  /\ flusher[f].at \in {"sent", "failed"} /\ flushing' = FALSE
  /\ IF flusher[f].at = "failed"
       THEN disable /\ flusher' = [flusher EXCEPT ![f] = [at |-> "idle", batch |-> <<>>]]
     ELSE /\ flusher' = [flusher EXCEPT ![f].at = IF buffer # <<>> /\ ~disabled THEN "wait" ELSE "idle"]
          /\ UNCHANGED <<buffer, disabled>>
  /\ UNCHANGED <<events, open, todo, told, timer, sent, consumer, completed, cotFailures>>
-----------------------------------------------------------------------------
\* Finish: the timer is stopped, the rest flushed, the message completed with three
\* attempts; if the context is over that is not tried.
FinishFlushes ==
  /\ consumer.at = "ending" /\ todo = <<>>
  /\ consumer' = [consumer EXCEPT !.at = "flushing"]
  /\ timer' = "none" /\ flusher' = [flusher EXCEPT ![Finisher].at = "wait"]
  /\ UNCHANGED <<events, open, todo, told, buffer, flushing, disabled, sent, completed, cotFailures>>

Complete ==
  /\ consumer.at = "flushing" /\ flusher[Finisher].at = "idle"
  /\ \/ /\ completed' = IF disabled THEN "error" ELSE consumer.reason
        /\ consumer' = [consumer EXCEPT !.at = "over"] /\ UNCHANGED cotFailures
     \/ /\ cotFailures < MaxCotFailures /\ cotFailures' = cotFailures + 1 /\ UNCHANGED completed
        /\ consumer' = [consumer EXCEPT !.attempts = @ + 1, !.at = IF consumer.attempts = 2 THEN "over" ELSE @]
  /\ UNCHANGED <<events, open, todo, told, buffer, timer, flushing, disabled, flusher, sent>>

ConsumerCancelled ==
  /\ consumer.at = "flushing"
  /\ consumer' = [consumer EXCEPT !.at = "over"]
  /\ flusher' = IF flusher[Finisher].at = "wait" THEN [flusher EXCEPT ![Finisher].at = "idle"] ELSE flusher
  /\ flusher[Finisher].at \in {"wait", "idle"}
  /\ UNCHANGED <<events, open, todo, told, buffer, timer, flushing, disabled, sent, completed, cotFailures>>

CotNext ==
  \/ Read \/ Enqueue \/ FinishFlushes \/ Complete \/ ConsumerCancelled
  \/ \E c \in Callbacks : TimerFires(c)
  \/ \E f \in Flushers : FlushTakes(f) \/ FlushCalls(f) \/ FlushReturns(f)
CotSpec == CotInit /\ [][CotNext]_cotVars
-----------------------------------------------------------------------------
Count(type, id) == Cardinality({i \in DOMAIN sent : sent[i].type = type /\ sent[i].id = id})
Ids == {sent[i].id : i \in DOMAIN sent}
Pairs == {<<"TEXT_MESSAGE_START", "TEXT_MESSAGE_END">>, <<"REASONING_START", "REASONING_END">>,
          <<"TOOL_CALL_START", "TOOL_CALL_END">>}

\* The platform gets what was enqueued in that order and without gaps, whichever of
\* the timers and Finish sends it; a process message that is completed as done has
\* got everything, with an end for every text, thought and call, and no call is out.
ProcessTold ==
  /\ Len(sent) <= Len(told) /\ sent = SubSeq(told, 1, Len(sent))
  /\ completed \notin {"none", "error"} =>
       /\ sent = told /\ buffer = <<>> /\ ~flushing
       /\ \A p \in Pairs : \A id \in Ids : Count(p[1], id) = Count(p[2], id)
=============================================================================
