---------------------------- MODULE AgentProcess ----------------------------
(***************************************************************************)
(* One run of a coding agent's CLI, internal/adapters/agent/claudecli and  *)
(* codexcli.  Three goroutines follow the process: captureStderr,          *)
(* writePrompt (codex) and stream, which translates standard output,       *)
(* waits for the other reader and for the exit, decides how the run ended  *)
(* and sends the terminal event last; calls of Stop signal the process     *)
(* group from outside.  The process stands for its group: it has exited    *)
(* when nobody holds the pipes any more.                                   *)
(*                                                                         *)
(* Its events become messages in a Stream, agentoutput.Stream in           *)
(* internal/compat/agentoutput/messages.go: of the texts without a phase   *)
(* the stream holds back the last one: whatever follows it shows that it   *)
(* was commentary; what is left at the end of a successful run is the      *)
(* final answer.  Usage comes after it, and a user action is announced     *)
(* once.                                                                   *)
(***************************************************************************)
EXTENDS Naturals, Sequences, FiniteSets

CONSTANTS Bodies,   \* texts of messages, told apart when trimmed, and these two:
          Empty,    \* no text at all
          Blank,    \* nothing but white space
          Keys,     \* identities of user actions
          Links,    \* authorization links, none a part of another; a link is the key
                    \* of its own action
          NoEvent, NoText

ASSUME OutputAssumption ==
  /\ {Empty, Blank} \subseteq Bodies /\ NoText \notin Bodies
  /\ Links \subseteq Keys

Unclassified == "unclassified"  \* the phase ""
Commentary   == "commentary"
FinalAnswer  == "final_answer"
Phases       == {Unclassified, Commentary, FinalAnswer}

Text(b, p)   == [type |-> "text", body |-> b, phase |-> p]
\* An action found in the result of lark-cli: its key is its link.
Login(l)     == [type |-> "user_action", key |-> l, link |-> l, found |-> TRUE]
\* An action the agent marked itself; its message may contain a link.
Marked(k, l) == [type |-> "user_action", key |-> k, link |-> l, found |-> FALSE]
ToolUse      == [type |-> "tool_use"]    \* thinking is treated alike
Passing      == [type |-> "tool_result"] \* system and tool results pass through
Usage        == [type |-> "usage"]

Texts    == [type : {"text"}, body : Bodies, phase : Phases]
Actions  == {Login(l) : l \in Links} \cup [type : {"user_action"}, key : Keys, link : Links \cup {NoText}, found : {FALSE}]
Messages == Texts \cup Actions \cup {ToolUse, Passing, Usage}

\* No candidate is not a text (pending is a pointer).
ASSUME CandidateAssumption == NoEvent \notin Texts

IsText(e)   == e.type = "text"
IsAction(e) == e.type = "user_action"
IsFinal(e)  == IsText(e) /\ e.phase = FinalAnswer

\* Comparisons of texts trim them first.
IsBlank(b)     == b \in {Empty, Blank}
SameText(b, c) == b = c \/ (IsBlank(b) /\ IsBlank(c))

\* Whether the last message of a CLI is an action.
IsRequest(final) == final \in Actions
-----------------------------------------------------------------------------
\* The state of a Stream: the candidate, the usage held back, the keys of the
\* actions announced and the links found.
Fresh == [pending |-> NoEvent, usage |-> <<>>, seen |-> {}, links |-> {}]
Streams == [pending : Texts \cup {NoEvent}, usage : Seq({Usage}), seen : SUBSET Keys, links : SUBSET Links]

\* Mutant of flushProgress: the candidate is dropped.
flushNothing(s) == <<>>

\* What goes out when it turns out that the candidate was commentary.
flushProgress(s) ==
  IF s.pending = NoEvent THEN <<>> ELSE <<[s.pending EXCEPT !.phase = Commentary]>>
Flushed(s) == [s EXCEPT !.pending = NoEvent]

\* Each operator below returns the new state and what goes out.
Result(s, out) == [state |-> s, out |-> out]

PushText(s, e) ==
  IF e.body = Empty /\ e.phase # FinalAnswer THEN Result(s, <<>>)
  ELSE IF e.phase = FinalAnswer /\ s.pending # NoEvent /\ SameText(s.pending.body, e.body)
       THEN Result([s EXCEPT !.pending = e], <<>>)
  ELSE IF e.phase = Commentary
       THEN Result(Flushed(s), Append(flushProgress(s), e))
  ELSE Result([s EXCEPT !.pending = e], flushProgress(s))

\* Mutant of ActionKey: a marked action keeps its own identity.
ActionOwnKey(s, e) == e.key

\* A marked action that repeats a link found before is the action of that link.
ActionKey(s, e) == IF e.link \in s.links THEN e.link ELSE e.key

PushAction(s, e) ==
  LET key   == ActionKey(s, e)
      after == [Flushed(s) EXCEPT !.seen = @ \cup {key},
                                  !.links = IF e.found THEN @ \cup {e.link} ELSE @]
  IN  Result(after, IF key \in s.seen THEN flushProgress(s) ELSE Append(flushProgress(s), e))

Push(s, e) ==
  CASE IsText(e)           -> PushText(s, e)
    [] IsAction(e)         -> PushAction(s, e)
    [] e.type = "tool_use" -> Result(Flushed(s), Append(flushProgress(s), e))
    [] e.type = "usage"    -> Result([s EXCEPT !.usage = Append(@, e)], <<>>)
    [] OTHER               -> Result(s, <<e>>)

\* Mutant of Finish: a failed run's candidate becomes its answer.
FinishAlways(s, final, success) ==
  (IF s.pending # NoEvent /\ ~IsBlank(s.pending.body)
   THEN <<[s.pending EXCEPT !.phase = FinalAnswer]>> ELSE <<>>) \o s.usage

\* The end of the stream.  final is what the CLI wrote as its last message, an
\* action perhaps, or NoText when it wrote none.
Finish(s, final, success) ==
  LET held   == s.pending # NoEvent
      differ == held /\ (IsRequest(final) \/ ~SameText(s.pending.body, final))
      answer == IF IsRequest(final) THEN PushAction(Flushed(s), final).out
                ELSE IF IsBlank(final) THEN <<>> ELSE <<Text(final, FinalAnswer)>>
  IN  (IF ~success THEN flushProgress(s)
       ELSE IF final # NoText THEN (IF differ THEN flushProgress(s) ELSE <<>>) \o answer
       ELSE IF held /\ ~IsBlank(s.pending.body)
            THEN <<[s.pending EXCEPT !.phase = FinalAnswer]>> ELSE <<>>) \o s.usage
-----------------------------------------------------------------------------
CONSTANTS Lines,     \* what the translator makes of a line of output
          Finals,    \* what the file of the last message may hold (codex)
          Stoppers,  \* calls of Stop
          ChanCap,   \* the events channel's buffer: 32 in the code
          MaxLines   \* the lines of output (bound)

Done(r)  == [type |-> "done", reason |-> r]
Error(c) == [type |-> "error", cause |-> c]
Interrupted == Done("interrupted")
Normal      == Done("normal")
Endings == {Normal, Interrupted} \cup {Error(c) : c \in {"reported", "runtime", "exit", "ended", "spawn"}}

\* A line becomes messages, then perhaps the terminal event of the agent.
IsTerminal(e) == e.type \in {"done", "error"}
LineShape(l) ==
  \A i \in 1 .. Len(l) :
    l[i] \in Messages \/ (i = Len(l) /\ l[i] \in {Normal, Error("reported")})

ASSUME ProcessAssumption ==
  /\ Lines \subseteq Seq(Messages \cup Endings) /\ \A l \in Lines : LineShape(l)
  /\ Finals \subseteq Bodies \cup Actions \cup {NoText}
  /\ ChanCap \in Nat \ {0} /\ MaxLines \in Nat

VARIABLES proc,      \* the process group: "running" or "exited"
          failed,    \* whether its exit status is an error
          read,      \* how many lines of its output were read
          line,      \* the events of the last one that are not handled yet
          stream,    \* where the goroutine stream is
          terminal,  \* the terminal event kept aside
          held,      \* the Stream
          out,       \* what r.emit has still to send
          chan,      \* the events channel
          taken,     \* what its consumer has taken
          sidekicks, \* the goroutines captureStderr and writePrompt that still run
          broken,    \* runtimeError is set
          asked,     \* stopReason is set
          doneClosed,\* the channel done is closed
          stopper    \* where each call of Stop is

procVars == <<proc, failed>>
streamVars == <<stream, read, line, terminal, held, out, chan, doneClosed>>
stopVars == <<asked, stopper>>
vars == <<procVars, streamVars, taken, sidekicks, broken, stopVars>>

NoEnding == NoEvent
-----------------------------------------------------------------------------
\* Run started the process, or could not: a failedRun has one event and is over.
Init ==
  /\ read = 0 /\ line = <<>> /\ held = Fresh /\ out = <<>> /\ broken = FALSE /\ taken = <<>>
  /\ asked = FALSE /\ stopper = [s \in Stoppers |-> "none"]
  /\ \/ /\ proc = "running" /\ failed = FALSE
        /\ stream = "reading" /\ terminal = NoEnding
        /\ chan = <<>> /\ doneClosed = FALSE
        /\ sidekicks \in {{"stderr"}, {"stderr", "prompt"}}
     \/ /\ proc = "exited" /\ failed = TRUE
        /\ stream = "closed" /\ terminal = Error("spawn")
        /\ chan = <<terminal>> /\ doneClosed = TRUE
        /\ sidekicks = {}
-----------------------------------------------------------------------------
\* The process exits, by itself or obeying SIGTERM; what it wrote stays readable.
Exit(f) ==
  /\ proc = "running"
  /\ proc' = "exited" /\ failed' = f
  /\ UNCHANGED <<streamVars, taken, sidekicks, broken, stopVars>>
-----------------------------------------------------------------------------
\* captureStderr reads to the end, or fails on a line too long.
StderrEnds ==
  /\ "stderr" \in sidekicks
  /\ sidekicks' = sidekicks \ {"stderr"}
  /\ \/ proc = "exited" /\ UNCHANGED broken
     \/ broken' = TRUE
  /\ UNCHANGED <<procVars, streamVars, taken, stopVars>>

\* writePrompt; nobody waits for it.
PromptEnds ==
  /\ "prompt" \in sidekicks
  /\ sidekicks' = sidekicks \ {"prompt"}
  /\ broken' \in {broken, TRUE}
  /\ UNCHANGED <<procVars, streamVars, taken, stopVars>>
-----------------------------------------------------------------------------
\* One turn of the loop over standard output, the process having written l by now.
\* After the agent's own terminal event the translator ignores what comes.
ReadLine(l) ==
  /\ stream = "reading" /\ line = <<>> /\ out = <<>> /\ read < MaxLines
  /\ read' = read + 1
  /\ line' = IF terminal = NoEnding THEN l ELSE <<>>
  /\ UNCHANGED <<procVars, stream, terminal, held, out, chan, doneClosed, taken, sidekicks, broken, stopVars>>

\* Mutant of Handle: the terminal event is emitted where it is read.
HandleEmitsEnd ==
  /\ line # <<>> /\ out = <<>> /\ line' = Tail(line)
  /\ IF IsTerminal(Head(line))
     THEN terminal' = Head(line) /\ out' = <<Head(line)>> /\ UNCHANGED held
     ELSE LET r == Push(held, Head(line))
          IN  held' = r.state /\ out' = r.out /\ UNCHANGED terminal
  /\ UNCHANGED <<procVars, stream, read, chan, doneClosed, taken, sidekicks, broken, stopVars>>

\* The inner loop: the terminal event is kept aside, the others are pushed.
Handle ==
  /\ line # <<>> /\ out = <<>> /\ line' = Tail(line)
  /\ IF IsTerminal(Head(line))
     THEN terminal' = Head(line) /\ UNCHANGED <<held, out>>
     ELSE LET r == Push(held, Head(line))
          IN  held' = r.state /\ out' = r.out /\ UNCHANGED terminal
  /\ UNCHANGED <<procVars, stream, read, chan, doneClosed, taken, sidekicks, broken, stopVars>>

\* The loop ends: everything is read, or a line is too long.
ReadEnds ==
  /\ stream = "reading" /\ line = <<>> /\ out = <<>>
  /\ \/ proc = "exited" /\ UNCHANGED broken
     \/ broken' = TRUE
  /\ stream' = "waiting"
  /\ UNCHANGED <<procVars, read, line, terminal, held, out, chan, doneClosed, taken, sidekicks, stopVars>>

\* Mutant of Emit: the channel has no limit.
EmitUnbounded ==
  /\ out # <<>>
  /\ chan' = Append(chan, Head(out)) /\ out' = Tail(out)
  /\ UNCHANGED <<procVars, stream, read, line, terminal, held, doneClosed, taken, sidekicks, broken, stopVars>>

\* r.emit sends one event; a full channel blocks it.
Emit ==
  /\ out # <<>> /\ Len(chan) < ChanCap
  /\ chan' = Append(chan, Head(out)) /\ out' = Tail(out)
  /\ UNCHANGED <<procVars, stream, read, line, terminal, held, doneClosed, taken, sidekicks, broken, stopVars>>

\* Mutant of Ending: what the agent said outweighs the stop.
EndingIgnoresStop(t) ==
  IF t # NoEnding THEN t
  ELSE IF asked THEN Interrupted
  ELSE IF broken THEN Error("runtime") ELSE Error("ended")

\* How the run ended, the agent having said t: a stop outweighs an error of the
\* adapter, which outweighs the exit status and the agent's own word.
Ending(t) ==
  IF asked THEN Interrupted
  ELSE IF broken THEN Error("runtime")
  ELSE IF failed /\ (t = NoEnding \/ t.type # "error") THEN Error("exit")
  ELSE IF t = NoEnding THEN Error("ended")
  ELSE t

\* Mutant of Decide: the run's end awaits the goroutine that writes the prompt.
DecideAwaitsPrompt ==
  /\ stream = "waiting" /\ sidekicks = {} /\ proc = "exited"
  /\ terminal' = Ending(terminal)
  /\ \E final \in Finals \cup {NoText} :
       out' = Append(Finish(held, final, terminal' = Normal), terminal')
  /\ held' = Fresh
  /\ stream' = "ending"
  /\ UNCHANGED <<procVars, read, line, chan, doneClosed, taken, sidekicks, broken, stopVars>>

\* cmd.Wait returned: the ending is decided and the last events are emitted.
\* Nothing but the process's exit and the end of captureStderr is waited for.
Decide ==
  /\ stream = "waiting" /\ "stderr" \notin sidekicks /\ proc = "exited"
  /\ terminal' = Ending(terminal)
  /\ \E final \in Finals \cup {NoText} :
       out' = Append(Finish(held, final, terminal' = Normal), terminal')
  /\ held' = Fresh
  /\ stream' = "ending"
  /\ UNCHANGED <<procVars, read, line, chan, doneClosed, taken, sidekicks, broken, stopVars>>

\* The deferred calls: done is closed before events.
CloseDone ==
  /\ stream = "ending" /\ out = <<>>
  /\ stream' = "closing" /\ doneClosed' = TRUE
  /\ UNCHANGED <<procVars, read, line, terminal, held, out, chan, taken, sidekicks, broken, stopVars>>
CloseEvents ==
  /\ stream = "closing"
  /\ stream' = "closed"
  /\ UNCHANGED <<procVars, read, line, terminal, held, out, chan, doneClosed, taken, sidekicks, broken, stopVars>>
-----------------------------------------------------------------------------
At(s, from, to) == stopper[s] = from /\ stopper' = [stopper EXCEPT ![s] = to]
stopFrame == <<streamVars, taken, sidekicks, broken>>

StopCall(s) ==
  /\ At(s, "none", "asked") /\ asked' = TRUE
  /\ UNCHANGED <<procVars, stopFrame>>

\* done is closed already; or the group gets SIGTERM and Stop starts to wait; or
\* the signal cannot be sent.
StopTerminate(s) ==
  /\ \/ doneClosed /\ At(s, "asked", "returned")
     \/ ~doneClosed /\ At(s, "asked", "grace")
     \/ ~doneClosed /\ proc = "running" /\ At(s, "asked", "returned")
  /\ UNCHANGED <<procVars, stopFrame, asked>>

\* The grace period is over: SIGKILL, or an error of the call.
StopKill(s) ==
  /\ \/ /\ At(s, "grace", "killed")
        /\ proc' = "exited" /\ failed' = (failed \/ proc = "running")
     \/ proc = "running" /\ At(s, "grace", "returned") /\ UNCHANGED <<proc, failed>>
  /\ UNCHANGED <<stopFrame, asked>>

\* Stop returns: the run is over, or the caller's context is.
StopReturn(s) ==
  /\ At(s, "grace", "returned") \/ At(s, "killed", "returned")
  /\ UNCHANGED <<procVars, stopFrame, asked>>
-----------------------------------------------------------------------------
\* The pump of the event fan-out reads the channel up to the terminal event.
IsOver(log) == log # <<>> /\ IsTerminal(log[Len(log)])
Take ==
  /\ chan # <<>> /\ ~IsOver(taken)
  /\ taken' = Append(taken, Head(chan)) /\ chan' = Tail(chan)
  /\ UNCHANGED <<procVars, stream, read, line, terminal, held, out, doneClosed, sidekicks, broken, stopVars>>

StreamStep ==
  \/ \E l \in Lines : ReadLine(l)
  \/ Handle \/ ReadEnds \/ Emit \/ Decide \/ CloseDone \/ CloseEvents
Next ==
  \/ \E f \in BOOLEAN : Exit(f)
  \/ StderrEnds \/ PromptEnds \/ StreamStep \/ Take
  \/ \E s \in Stoppers : StopCall(s) \/ StopTerminate(s) \/ StopKill(s) \/ StopReturn(s)

Spec == Init /\ [][Next]_vars

\* The goroutines of the run and its consumer go on, and an exited process closes
\* its pipes.  It need not write, exit or obey, and nobody need call Stop.
Fairness ==
  WF_vars(StreamStep) /\ WF_vars(StderrEnds /\ proc = "exited") /\ WF_vars(Take)
FairSpec == Spec /\ Fairness
-----------------------------------------------------------------------------
\* What the run has emitted so far, taken or not.
Emitted == taken \o chan

TypeOK ==
  /\ proc \in {"running", "exited"} /\ failed \in BOOLEAN
  /\ stream \in {"reading", "waiting", "ending", "closing", "closed"}
  /\ read \in 0 .. MaxLines /\ line \in Seq(Messages \cup Endings)
  /\ terminal \in Endings \cup {NoEnding}
  /\ held \in Streams
  /\ out \in Seq(Messages \cup Endings) /\ taken \in Seq(Messages \cup Endings)
  /\ chan \in Seq(Messages \cup Endings) /\ Len(chan) <= ChanCap
  /\ sidekicks \in SUBSET {"stderr", "prompt"}
  /\ broken \in BOOLEAN /\ doneClosed \in BOOLEAN /\ asked \in BOOLEAN
  /\ stopper \in [Stoppers -> {"none", "asked", "grace", "killed", "returned"}]

\* A run announces its end exactly once, after everything else, whatever the
\* agent says, whoever stops it and whichever reader fails: what the stream sends
\* ends in a terminal event, and no other event is one.
EndsOnce ==
  LET all == Emitted \o out
  IN  /\ \A i \in 1 .. Len(all) : IsTerminal(all[i]) => i = Len(all) /\ stream \notin {"reading", "waiting"}
      /\ stream \in {"ending", "closing", "closed"} => IsOver(all)

\* "Failed or interrupted runs do not promote progress to a final answer"
\* (docs/pkg/bridge.md): a run has at most one final answer, only usage comes
\* between it and the end, and that end is the normal one.
FinalAnswerIsFinal ==
  \A i \in 1 .. Len(Emitted) :
    IsFinal(Emitted[i]) =>
      /\ terminal = Normal
      /\ \A j \in i + 1 .. Len(Emitted) : Emitted[j] = Usage \/ IsTerminal(Emitted[j])

\* A user action is announced once, and never again under another identity once
\* its link was found in a tool's result.
AnnouncedOnce ==
  \A i, j \in 1 .. Len(Emitted) :
    i < j /\ IsAction(Emitted[i]) /\ IsAction(Emitted[j]) =>
      /\ Emitted[i].key # Emitted[j].key
      /\ Emitted[i].found => Emitted[i].link # Emitted[j].link

\* Both at once: what a reader of the events may rely on.
SoundOutput == FinalAnswerIsFinal /\ AnnouncedOnce

\* No text of the agent gets lost on the way: the candidate that is held back
\* comes out before or with the end, whatever follows it.
CandidateSurvives ==
  \A b \in Bodies \ {Empty, Blank} :
    [](held.pending # NoEvent /\ held.pending.body = b =>
         [](stream = "closed" => \E i \in 1 .. Len(Emitted) : IsText(Emitted[i]) /\ Emitted[i].body = b))

\* Stop called while the process runs makes the run interrupted for everybody
\* who reads its events, also when the agent has already announced its own end.
StopIsReported ==
  [](asked /\ proc = "running" => [](stream = "closed" => terminal = Interrupted))

\* Once the process is gone, which a Stop that reaches its kill brings about, the
\* run is over: its consumer gets the end, and done is closed, so WaitForExit and
\* the pending calls of Stop return.
ExitEndsRun == proc = "exited" ~> doneClosed /\ IsOver(taken)
=============================================================================
