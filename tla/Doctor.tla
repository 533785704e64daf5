--------------------------------- MODULE Doctor ---------------------------------
(***************************************************************************)
(* /doctor, internal/app/commands: what is checked before an agent is      *)
(* started, the run that is asked for an echo, and what is reported.  The  *)
(* run is in a scope of its own next to that of the chat and takes a slot  *)
(* of the same pool without waiting for one (RunExecutor models the pool   *)
(* and the registry, EventFanout how a subscriber gets every event).       *)
(***************************************************************************)
EXTENDS Naturals, FiniteSets, Sequences
LOCAL INSTANCE SequencesExt

CONSTANTS Callers,      \* goroutines that handle a command
          Requests,     \* [sender, place, cwd]
          Admins,       \* senders
          Usable,       \* directories an agent may work in
          Allowed,      \* directories the policy allows a run in
          Cap,          \* slots of the pool
          HasExecutor, Words, \* what an agent may say, or fail with
          MaxChecks, MaxEvents, MaxOthers \* bounds

VARIABLES checking,    \* caller -> [at, request, run, next, echo, left, report]
          probes,      \* the runs that were asked for an echo: [place, events, over, held]
          others,      \* slots that other runs have
          doctors      \* checks begun
doctorVars == <<checking, probes, others, doctors>>

Places == {r.place : r \in Requests}
Held == {n \in DOMAIN probes : probes[n].held}   \* those that have a slot and their scope
Active == others + Cardinality(Held)
NoRequest == [sender |-> "", place |-> "", cwd |-> ""]
NoReport == [queue |-> 0, echo |-> <<>>, checks |-> <<>>]
Resting == [at |-> "idle", request |-> NoRequest, run |-> 0, next |-> 1, echo |-> <<>>, left |-> FALSE, report |-> NoReport]

\* Of the report, what depends on the others: the slots taken, and the checks that say something.
doctorReport(view) ==
  [queue |-> IF HasExecutor THEN Active ELSE 0, echo |-> view.echo,
   checks |-> (IF view.workspace # "" THEN <<view.workspace>> ELSE <<>>) \o (IF view.policy # "" THEN <<view.policy>> ELSE <<>>)]
buildDoctorView(workspace, policy, echo) == doctorReport([workspace |-> workspace, policy |-> policy, echo |-> echo])

Reports(c, workspace, policy, echo) ==
  checking' = [checking EXCEPT ![c].at = "done", ![c].report = buildDoctorView(workspace, policy, echo)]
-----------------------------------------------------------------------------
DoctorInit ==
  /\ checking = [c \in Callers |-> Resting] /\ probes = <<>>
  /\ others = 0 /\ doctors = 0

isAdminCommand(c, request) ==
  /\ checking[c].at = "idle" /\ doctors < MaxChecks /\ doctors' = doctors + 1
  /\ checking' = [checking EXCEPT ![c] = [Resting EXCEPT !.request = request, !.at = IF request.sender \in Admins THEN "checks" ELSE "refused"]]
  /\ UNCHANGED <<probes, others>>
\* Without a directory, or one that may be used, no agent is started.
handleDoctor(c) ==
  /\ checking[c].at = "checks"
  /\ LET cwd == checking[c].request.cwd IN
     IF cwd = "" THEN Reports(c, "not set", "", <<"skipped">>)
     ELSE IF cwd \notin Usable THEN Reports(c, "unusable", "", <<"skipped">>)
     ELSE IF cwd \notin Allowed THEN Reports(c, "ok", "", <<"rejected">>)
     ELSE IF ~HasExecutor THEN Reports(c, "ok", "ok", <<"run executor unavailable">>)
     ELSE checking' = [checking EXCEPT ![c].at = "submits"]
  /\ UNCHANGED <<probes, others, doctors>>
\* New runs may be paused or the agent not start; only a full pool is told apart from that.
Submit(c) ==
  /\ checking[c].at = "submits"
  /\ LET place == checking[c].request.place   busy == \E n \in Held : probes[n].place = place IN
     \/ UNCHANGED probes /\ (Reports(c, "ok", "ok", <<"failed">>) \/ (~busy /\ Active >= Cap /\ Reports(c, "ok", "ok", <<"pool-full">>)))
     \/ /\ ~busy /\ Active < Cap
        /\ probes' = Append(probes, [place |-> place, events |-> <<>>, over |-> FALSE, held |-> TRUE])
        /\ checking' = [checking EXCEPT ![c].at = "listens", ![c].run = Len(probes')]
  /\ UNCHANGED <<others, doctors>>

\* Only of a run that is heard is it kept what it says.
ProbeSays(n, event) ==
  /\ ~probes[n].over /\ \E c \in Callers : checking[c].at = "listens" /\ checking[c].run = n /\ Len(probes[n].events) < MaxEvents
  /\ probes' = [probes EXCEPT ![n].events = Append(@, event)] /\ UNCHANGED <<checking, others, doctors>>
\* It ends of itself or is stopped, and then leaves its slot and its scope.
ProbeEnds(n) ==
  /\ ~probes[n].over /\ probes' = [probes EXCEPT ![n].over = TRUE] /\ UNCHANGED <<checking, others, doctors>>
cleanup(n) ==
  /\ probes[n].over /\ probes[n].held /\ probes' = [probes EXCEPT ![n].held = FALSE] /\ UNCHANGED <<checking, others, doctors>>
\* White space is no echo, and a long one is cut.
Trimmed(echo) ==
  LET said == SelectSeq(echo, LAMBDA w : w # " ") IN
  IF said = <<>> THEN <<"empty">> ELSE IF Len(said) > 2 THEN SubSeq(said, 1, 2) \o <<"...">> ELSE said
Echoes(c, echo) == Reports(c, "ok", "ok", echo)
runDoctorEcho(c) ==
  /\ checking[c].at = "listens"
  /\ LET d == checking[c]   run == probes[d.run]   event == run.events[d.next] IN
     \/ /\ d.next <= Len(run.events)
        /\ CASE event.type = "text" -> checking' = [checking EXCEPT ![c].next = @ + 1, ![c].echo = Append(@, event.word)]
             [] event.type = "done" -> Echoes(c, Trimmed(d.echo))
             [] event.type = "error" -> Echoes(c, <<IF event.word = "" THEN "error" ELSE event.word>>)
             [] OTHER -> checking' = [checking EXCEPT ![c].next = @ + 1]
     \/ run.over /\ d.next > Len(run.events) /\ Echoes(c, Trimmed(d.echo))
  /\ UNCHANGED <<probes, others, doctors>>
\* The events end with the context of the command, and what was said so far is the echo.
GivenUp(c) ==
  /\ checking[c].at = "listens"
  /\ checking' = [checking EXCEPT ![c].at = "done", ![c].left = TRUE, ![c].report = buildDoctorView("ok", "ok", Trimmed(checking[c].echo))]
  /\ UNCHANGED <<probes, others, doctors>>
Told(c) ==
  /\ checking[c].at \in {"done", "refused"} /\ checking' = [checking EXCEPT ![c] = Resting]
  /\ probes' = [n \in DOMAIN probes |-> IF n = checking[c].run THEN [probes[n] EXCEPT !.events = <<>>] ELSE probes[n]]
  /\ UNCHANGED <<others, doctors>>

\* The runs of the chats, which come and go.
OthersRun ==
  /\ \/ Active < Cap /\ others < MaxOthers /\ others' = others + 1
     \/ others > 0 /\ others' = others - 1
  /\ UNCHANGED <<checking, probes, doctors>>
DoctorNext ==
  \/ \E c \in Callers : \/ \E request \in Requests : isAdminCommand(c, request)
                        \/ handleDoctor(c) \/ Submit(c) \/ runDoctorEcho(c) \/ GivenUp(c) \/ Told(c)
  \/ \E n \in DOMAIN probes : \/ \E event \in Words : ProbeSays(n, event)
                             \/ ProbeEnds(n) \/ cleanup(n)
  \/ OthersRun
-----------------------------------------------------------------------------
Outcome(events) ==
  LET last == events[Len(events)] IN
  IF events # <<>> /\ last.type = "error" THEN <<IF last.word = "" THEN "error" ELSE last.word>>
  ELSE LET said == SelectSeq(events, LAMBDA e : e.type = "text") IN Trimmed([n \in DOMAIN said |-> said[n].word])

\* The echo is what the probe of that check said up to its end or its error, whichever came first,
\* or, if it was stopped or the command given up, up to then, however many checks overlap and
\* whatever runs in the place later (service.go: runDoctorEcho).
EchoIsOwn ==
  \A c \in Callers : LET d == checking[c]   run == probes[d.run] IN
    d.at = "done" /\ d.run # 0 =>
      /\ run.place = d.request.place
      /\ \E n \in 0..Len(run.events) :
           /\ d.report.echo = Outcome(SubSeq(run.events, 1, n))
           /\ \A m \in 1..n - 1 : run.events[m].type \notin {"done", "error"}
           /\ d.left \/ (n > 0 /\ run.events[n].type \in {"done", "error"}) \/ (run.over /\ n = Len(run.events))

\* An agent is started only for an administrator in a directory it may be run in, once at a time
\* for a place and within the slots, and the check that started it goes on to hear it; a check
\* without one says why (service.go: handleDoctor).
ProbesAreDue ==
  /\ Active <= Cap
  /\ \A m, n \in Held : probes[m].place = probes[n].place => m = n
  /\ \A c \in Callers : LET d == checking[c] IN
       /\ d.run # 0 => HasExecutor /\ d.request.sender \in Admins /\ d.request.cwd \in Usable \cap Allowed
       /\ d.at = "done" => d.report.echo # <<>> /\ d.report.queue <= Cap
       /\ d.at = "refused" => d.run = 0 /\ d.report = NoReport

DoctorHeld == EchoIsOwn /\ ProbesAreDue
=============================================================================
