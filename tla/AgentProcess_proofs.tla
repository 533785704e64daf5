------------------------ MODULE AgentProcess_proofs ------------------------
(***************************************************************************)
(* For any output of the process, any calls of Stop and any size of the    *)
(* channel: a run announces its end exactly once and last; it has at most  *)
(* one final answer, and announces an action once; the candidate that is   *)
(* held back gets sent; and a Stop while the process runs is reported.     *)
(***************************************************************************)
EXTENDS AgentProcess, SequenceTheorems, TLAPS

EventSet == Messages \cup Endings

\* What every action has.
LEMMA ActionKind ==
  ASSUME NEW e \in Actions
  PROVE  e.type = "user_action" /\ e.key \in Keys /\ (e.found => e.link \in Links)
  <1>1. CASE \E l \in Links : e = Login(l)
    <2>1. PICK l \in Links : e = Login(l)
      BY <1>1
    <2>2. e.type = "user_action" /\ e.key = l /\ e.link = l
      BY <2>1 DEF Login
    <2>3. QED
      BY <2>2, OutputAssumption
  <1>2. CASE e \in [type : {"user_action"}, key : Keys, link : Links \cup {NoText}, found : {FALSE}]
    BY <1>2
  <1>3. QED
    BY <1>1, <1>2 DEF Actions

\* The kinds of messages are told apart by their type.
LEMMA Kinds ==
  ASSUME NEW e \in Messages
  PROVE  \/ e \in Texts /\ e.type = "text"
         \/ /\ e \in Actions /\ e.type = "user_action"
            /\ e.key \in Keys /\ (e.found => e.link \in Links)
         \/ e = ToolUse /\ e.type = "tool_use"
         \/ e = Passing /\ e.type = "tool_result"
         \/ e = Usage /\ e.type = "usage"
  <1>1. CASE e \in Texts
    BY <1>1 DEF Texts
  <1>2. CASE e \in Actions
    BY <1>2, ActionKind
  <1>3. CASE e = ToolUse
    BY <1>3 DEF ToolUse
  <1>4. CASE e = Passing
    BY <1>4 DEF Passing
  <1>5. CASE e = Usage
    BY <1>5 DEF Usage
  <1>6. QED
    BY <1>1, <1>2, <1>3, <1>4, <1>5 DEF Messages

\* Messages are not terminal, endings are.
LEMMA OnlyEndingsEnd ==
  /\ \A e \in Messages : ~IsTerminal(e)
  /\ \A e \in Endings : IsTerminal(e)
  <1>1. ASSUME NEW e \in Messages PROVE ~IsTerminal(e)
    BY Kinds DEF IsTerminal
  <1>2. ASSUME NEW e \in Endings PROVE IsTerminal(e)
    <2>1. CASE e \in {Normal, Interrupted}
      BY <2>1 DEF Normal, Interrupted, Done, IsTerminal
    <2>2. CASE e \notin {Normal, Interrupted}
      <3>1. PICK c : e = Error(c)
        BY <2>2 DEF Endings
      <3>2. e.type = "error"
        BY <3>1 DEF Error
      <3>3. QED
        BY <3>2 DEF IsTerminal
    <2>3. QED
      BY <2>1, <2>2
  <1>3. QED
    BY <1>1, <1>2

\* The candidate flushed as commentary.
LEMMA FlushType ==
  ASSUME NEW s \in Streams
  PROVE  flushProgress(s) \in Seq(Messages) /\ Flushed(s) \in Streams
  <1>1. CASE s.pending = NoEvent
    BY <1>1 DEF flushProgress, Flushed, Streams
  <1>2. CASE s.pending # NoEvent
    <2>1. [s.pending EXCEPT !.phase = Commentary] \in Messages
      BY <1>2 DEF Streams, Texts, Messages, Phases
    <2>2. QED
      BY <1>2, <2>1 DEF flushProgress, Flushed, Streams
  <1>3. QED
    BY <1>1, <1>2

\* What Push returns.
LEMMA PushTextType ==
  ASSUME NEW s \in Streams, NEW e \in Texts
  PROVE  PushText(s, e).state \in Streams /\ PushText(s, e).out \in Seq(Messages)
  <1>1. flushProgress(s) \in Seq(Messages) /\ Flushed(s) \in Streams /\ e \in Messages
    BY FlushType DEF Messages
  <1>2. [s EXCEPT !.pending = e] \in Streams
    BY DEF Streams
  <1>3. Append(flushProgress(s), e) \in Seq(Messages)
    BY <1>1
  <1>4. QED
    BY <1>1, <1>2, <1>3 DEF PushText, Result

LEMMA PushActionType ==
  ASSUME NEW s \in Streams, NEW e \in Actions
  PROVE  PushAction(s, e).state \in Streams /\ PushAction(s, e).out \in Seq(Messages)
  <1> DEFINE key == ActionKey(s, e)
             f == Flushed(s)
             a == [f EXCEPT !.seen = @ \cup {key}, !.links = IF e.found THEN @ \cup {e.link} ELSE @]
  <1>1. e \in Messages
    BY DEF Messages
  <1>2. flushProgress(s) \in Seq(Messages) /\ f \in Streams
    BY FlushType
  <1>3. e.key \in Keys /\ (e.found => e.link \in Links)
    BY ActionKind
  <1>4. key \in Keys
    BY <1>3, OutputAssumption DEF ActionKey, Streams
  <1>5. f.seen \cup {key} \in SUBSET Keys
    BY <1>2, <1>4 DEF Streams
  <1>6. (IF e.found THEN f.links \cup {e.link} ELSE f.links) \in SUBSET Links
    BY <1>2, <1>3 DEF Streams
  <1>7. a \in Streams
    BY <1>2, <1>5, <1>6 DEF Streams
  <1>8. Append(flushProgress(s), e) \in Seq(Messages)
    BY <1>1, <1>2
  <1>9. PushAction(s, e).state = a
    BY DEF PushAction, Result
  <1>10. PushAction(s, e).out \in Seq(Messages)
    BY <1>2, <1>8 DEF PushAction, Result
  <1>11. QED
    BY <1>7, <1>9, <1>10

LEMMA PushType ==
  ASSUME NEW s \in Streams, NEW e \in Messages
  PROVE  Push(s, e).state \in Streams /\ Push(s, e).out \in Seq(Messages)
  <1>0. flushProgress(s) \in Seq(Messages) /\ Flushed(s) \in Streams
    BY FlushType
  <1>1. CASE e \in Texts /\ e.type = "text"
    <2>1. Push(s, e) = PushText(s, e)
      BY <1>1 DEF Push, IsText, IsAction
    <2>2. QED
      BY <1>1, <2>1, PushTextType
  <1>2. CASE e \in Actions /\ e.type = "user_action"
    <2>1. Push(s, e) = PushAction(s, e)
      BY <1>2 DEF Push, IsText, IsAction
    <2>2. QED
      BY <1>2, <2>1, PushActionType
  <1>3. CASE e = ToolUse /\ e.type = "tool_use"
    <2>1. Push(s, e) = Result(Flushed(s), Append(flushProgress(s), e))
      BY <1>3 DEF Push, IsText, IsAction
    <2>2. Append(flushProgress(s), e) \in Seq(Messages)
      BY <1>0
    <2>3. QED
      BY <1>0, <2>1, <2>2 DEF Result
  <1>4. CASE e = Passing /\ e.type = "tool_result"
    <2>1. Push(s, e) = Result(s, <<e>>)
      BY <1>4 DEF Push, IsText, IsAction
    <2>2. QED
      BY <2>1 DEF Result
  <1>5. CASE e = Usage /\ e.type = "usage"
    <2>1. Push(s, e) = Result([s EXCEPT !.usage = Append(@, e)], <<>>)
      BY <1>5 DEF Push, IsText, IsAction
    <2>2. Append(s.usage, e) \in Seq({Usage})
      BY <1>5 DEF Streams
    <2>3. [s EXCEPT !.usage = Append(@, e)] \in Streams
      BY <2>2 DEF Streams
    <2>4. <<>> \in Seq(Messages)
      OBVIOUS
    <2>5. QED
      BY <2>1, <2>3, <2>4 DEF Result
  <1>6. QED
    BY <1>1, <1>2, <1>3, <1>4, <1>5, Kinds

\* What Finish returns.
LEMMA FinishType ==
  ASSUME NEW s \in Streams, NEW final \in Finals \cup {NoText}, NEW success \in BOOLEAN
  PROVE  Finish(s, final, success) \in Seq(Messages)
  <1>0. flushProgress(s) \in Seq(Messages) /\ Flushed(s) \in Streams
    BY FlushType
  <1>1. s.usage \in Seq(Messages)
    BY DEF Streams, Messages
  <1>2. final \in Actions => PushAction(Flushed(s), final).out \in Seq(Messages)
    <2>1. SUFFICES ASSUME final \in Actions PROVE PushAction(Flushed(s), final).out \in Seq(Messages)
      OBVIOUS
    <2>2. flushProgress(Flushed(s)) \in Seq(Messages) /\ final \in Messages
      BY <1>0, <2>1, FlushType DEF Messages
    <2>3. QED
      BY <2>2 DEF PushAction, Result
  <1>3. ~IsRequest(final) /\ final # NoText => <<Text(final, FinalAnswer)>> \in Seq(Messages)
    BY ProcessAssumption DEF IsRequest, Text, Messages, Texts, Phases
  <1>4. s.pending # NoEvent => <<[s.pending EXCEPT !.phase = FinalAnswer]>> \in Seq(Messages)
    BY DEF Streams, Texts, Messages, Phases
  <1>5. QED
    BY <1>0, <1>1, <1>2, <1>3, <1>4 DEF Finish, IsRequest

\* Taking an event, and appending one, keeps the events together.
LEMMA TakeKeeps ==
  ASSUME NEW S, NEW p \in Seq(S), NEW c \in Seq(S), c # <<>>
  PROVE  Append(p, Head(c)) \o Tail(c) = p \o c
  <1> DEFINE l == Append(p, Head(c)) \o Tail(c)
  <1>1. /\ Head(c) \in S /\ Head(c) = c[1] /\ Tail(c) \in Seq(S) /\ Len(Tail(c)) = Len(c) - 1
        /\ \A i \in 1 .. Len(c) - 1 : Tail(c)[i] = c[i + 1]
    BY HeadTailProperties
  <1>2. l \in Seq(S) /\ p \o c \in Seq(S) /\ Len(l) = Len(p \o c)
    BY <1>1
  <1>3. ASSUME NEW i \in 1 .. Len(l) PROVE l[i] = (p \o c)[i]
    BY <1>1, <1>2
  <1>4. QED
    BY <1>2, <1>3, SeqEqual

\* Concatenation regrouped, stated of constants alone: in the lemmas of steps the
\* provers are given an instance of this one.
LEMMA Regroup ==
  ASSUME NEW S, NEW p \in Seq(S), NEW f \in Seq(S), NEW l \in Seq(S)
  PROVE  p \o (f \o l) = (p \o f) \o l
  BY ConcatAssociative

LEMMA AppendLast ==
  ASSUME NEW S, NEW p \in Seq(S), NEW f \in Seq(S), NEW t \in S
  PROVE  p \o Append(f, t) = Append(p \o f, t)
  <1> DEFINE q == <<t>>
  <1>1. q \in Seq(S)
    OBVIOUS
  <1>2. Append(f, t) = f \o q
    BY AppendIsConcat
  <1>3. p \o f \in Seq(S)
    BY ConcatProperties
  <1>4. Append(p \o f, t) = (p \o f) \o q
    BY <1>3, AppendIsConcat
  <1> HIDE DEF q
  <1>5. (p \o f) \o q = p \o (f \o q)
    BY <1>1, Regroup, SMTT(60)
  <1>6. QED
    BY <1>2, <1>4, <1>5, Zenon
-----------------------------------------------------------------------------
\* Up to the decision nothing that was sent is terminal; from then on everything
\* sent or about to be sent is messages and then one ending.
Before == stream \in {"reading", "waiting"} =>
            taken \in Seq(Messages) /\ chan \in Seq(Messages) /\ out \in Seq(Messages)
After == stream \in {"ending", "closing", "closed"} =>
           \E m \in Seq(Messages), t \in Endings : Emitted \o out = Append(m, t)
LineRead == stream # "reading" => line = <<>>

IInv == TypeOK /\ Before /\ After /\ LineRead

\* The ending is one.
LEMMA EndingType ==
  ASSUME TypeOK PROVE Ending(terminal) \in Endings
  <1>1. Interrupted \in Endings
    BY DEF Endings
  <1>2. \A c \in {"runtime", "exit", "ended"} : Error(c) \in Endings
    BY DEF Endings
  <1>3. terminal # NoEnding => terminal \in Endings
    BY DEF TypeOK
  <1>4. QED
    BY <1>1, <1>2, <1>3 DEF Ending

\* What the goroutine stream does to the events, action by action.
LEMMA HandleStep == ASSUME IInv, Handle PROVE IInv'
  <1> USE DEF IInv, Handle, procVars, stopVars
  <1>1. stream = "reading"
    BY DEF LineRead
  <1>2. Head(line) \in EventSet /\ line' \in Seq(EventSet)
    BY HeadTailProperties DEF TypeOK, EventSet
  <1>3. CASE IsTerminal(Head(line))
    <2>1. Head(line) \in Endings
      BY <1>2, <1>3, OnlyEndingsEnd DEF EventSet
    <2>2. TypeOK'
      BY <1>2, <1>3, <2>1 DEF TypeOK, EventSet
    <2>3. QED
      BY <1>1, <1>3, <2>2 DEF Before, After, LineRead
  <1>4. CASE ~IsTerminal(Head(line))
    <2>1. Head(line) \in Messages
      BY <1>2, <1>4, OnlyEndingsEnd DEF EventSet
    <2>2. held' \in Streams /\ out' \in Seq(Messages)
      BY <1>4, <2>1, PushType DEF TypeOK
    <2>3. out' \in Seq(EventSet)
      BY <2>2, SeqMonotonic DEF EventSet
    <2>4. TypeOK'
      BY <1>2, <1>4, <2>2, <2>3 DEF TypeOK, EventSet
    <2>5. QED
      BY <1>1, <2>2, <2>4 DEF Before, After, LineRead
  <1>5. QED
    BY <1>3, <1>4

LEMMA ReadStep == ASSUME IInv, (\E l \in Lines : ReadLine(l)) \/ ReadEnds PROVE IInv'
  <1> USE DEF IInv, procVars, stopVars
  <1>1. CASE ReadEnds
    BY <1>1 DEF ReadEnds, TypeOK, Before, After, LineRead
  <1>2. ASSUME NEW l \in Lines, ReadLine(l) PROVE IInv'
    <2>1. line' \in Seq(Messages \cup Endings) /\ read' \in 0 .. MaxLines
      BY <1>2, ProcessAssumption DEF ReadLine, TypeOK
    <2>2. TypeOK'
      BY <1>2, <2>1 DEF ReadLine, TypeOK
    <2>3. QED
      BY <1>2, <2>2 DEF ReadLine, Before, After, LineRead
  <1>3. QED
    BY <1>1, <1>2

\* Sending an event and taking one leave what was sent or is about to be.
LEMMA EmitKeeps == ASSUME IInv, Emit PROVE Emitted' \o out' = Emitted \o out
  <1> DEFINE q == <<Head(out)>>
             o == out'
             pc == Emitted
  <1>1. Head(out) \in EventSet /\ out' \in Seq(EventSet)
    BY HeadTailProperties DEF IInv, Emit, TypeOK, EventSet
  <1>2. q \in Seq(EventSet)
    BY <1>1
  <1>3. chan' = chan \o q
    BY <1>1, AppendIsConcat DEF IInv, Emit, TypeOK, EventSet
  <1>4. out = q \o o
    BY <1>1 DEF IInv, Emit, TypeOK
  <1>5. taken \in Seq(EventSet) /\ chan \in Seq(EventSet) /\ o \in Seq(EventSet)
    BY <1>1 DEF IInv, TypeOK, EventSet
  <1> HIDE DEF q
  <1>6. pc \in Seq(EventSet) /\ pc \o q = taken \o (chan \o q)
    <2>1. (taken \o chan) \o q = taken \o (chan \o q)
      BY <1>2, <1>5, Regroup, SMTT(60)
    <2>2. QED
      BY <1>5, <2>1, ConcatProperties, Zenon DEF Emitted
  <1> HIDE DEF o, pc
  <1>7. pc \o (q \o o) = (pc \o q) \o o
    <2>1. pc \in Seq(EventSet) /\ q \in Seq(EventSet) /\ o \in Seq(EventSet)
      BY <1>2, <1>5, <1>6
    <2>2. QED
      BY <2>1, Regroup, SMTT(60)
  <1>8. Emitted' = pc \o q
    BY <1>3, <1>6, Zenon DEF Emitted, Emit
  <1>9. QED
    BY <1>4, <1>7, <1>8, Zenon DEF o, pc

LEMMA EmitStep == ASSUME IInv, Emit PROVE IInv'
  <1>1. Head(out) \in EventSet /\ out' \in Seq(EventSet)
    BY HeadTailProperties DEF IInv, Emit, TypeOK, EventSet
  <1>2. chan' \in Seq(EventSet) /\ Len(chan') <= ChanCap
    BY <1>1, ProcessAssumption DEF IInv, Emit, TypeOK, EventSet
  <1>3. TypeOK'
    BY <1>1, <1>2 DEF IInv, Emit, procVars, stopVars, TypeOK, EventSet
  <1>4. Before'
    BY HeadTailProperties DEF IInv, Emit, Before
  <1>5. QED
    BY <1>3, <1>4, EmitKeeps DEF IInv, Emit, After, LineRead

LEMMA TakeEmitted == ASSUME IInv, Take PROVE Emitted' = Emitted
  BY TakeKeeps DEF IInv, Take, TypeOK, Emitted

LEMMA TakeStep == ASSUME IInv, Take PROVE IInv'
  <1> USE DEF IInv, Take, procVars, stopVars
  <1>1. Head(chan) \in EventSet /\ chan' \in Seq(EventSet) /\ Len(chan') <= ChanCap
    BY HeadTailProperties, ProcessAssumption DEF TypeOK, EventSet
  <1>2. TypeOK'
    BY <1>1 DEF TypeOK, EventSet
  <1>3. Before'
    BY HeadTailProperties DEF Before
  <1>4. QED
    BY <1>2, <1>3, TakeEmitted DEF After, LineRead

LEMMA DecideStep == ASSUME IInv, Decide PROVE IInv'
  <1>1. terminal' \in Endings
    BY EndingType DEF IInv, Decide
  <1>2. PICK f \in Seq(Messages) : out' = Append(f, terminal')
    <2>1. PICK final \in Finals \cup {NoText} :
            out' = Append(Finish(held, final, terminal' = Normal), terminal')
      BY DEF Decide
    <2>2. Finish(held, final, terminal' = Normal) \in Seq(Messages)
      BY FinishType DEF IInv, TypeOK
    <2>3. QED
      BY <2>1, <2>2, Zenon
  <1>3. terminal' \in EventSet /\ Messages \subseteq EventSet
    BY <1>1 DEF EventSet
  <1>4. f \in Seq(EventSet)
    BY <1>3, SeqMonotonic
  <1>5. out' \in Seq(EventSet)
    BY <1>2, <1>3, <1>4, AppendProperties, Zenon
  <1>6. Fresh \in Streams
    BY DEF Fresh, Streams
  <1>7. TypeOK'
    BY <1>1, <1>5, <1>6 DEF IInv, Decide, procVars, stopVars, TypeOK, EventSet
  <1> DEFINE pc == Emitted
             t == terminal'
  <1>8. Emitted' = pc /\ pc \in Seq(Messages)
    BY DEF IInv, Decide, Before, Emitted
  <1> HIDE DEF pc, t
  <1>9. pc \o f \in Seq(Messages) /\ pc \in Seq(EventSet) /\ t \in EventSet
    BY <1>3, <1>8, SeqMonotonic, ConcatProperties DEF t
  <1>10. pc \o Append(f, t) = Append(pc \o f, t)
    BY <1>4, <1>9, AppendLast
  <1>11. Emitted' \o out' = Append(pc \o f, terminal')
    BY <1>2, <1>8, <1>10, Zenon DEF t
  <1>12. After'
    BY <1>1, <1>9, <1>11, Zenon DEF After
  <1>13. QED
    BY <1>7, <1>12 DEF IInv, Decide, Before, LineRead

\* The other actions leave the events alone.
LEMMA OtherSteps ==
  ASSUME IInv,
         \/ \E f \in BOOLEAN : Exit(f)
         \/ StderrEnds \/ PromptEnds \/ CloseDone \/ CloseEvents
         \/ \E s \in Stoppers : StopCall(s) \/ StopTerminate(s) \/ StopKill(s) \/ StopReturn(s)
         \/ UNCHANGED vars
  PROVE  IInv'
  <1> USE DEF IInv, procVars, streamVars, stopVars
  <1> DEFINE Kept == UNCHANGED <<read, line, terminal, held, out, chan, taken>>
  <1>1. Kept /\ TypeOK'
    <2>1. CASE \E f \in BOOLEAN : Exit(f)
      BY <2>1 DEF Exit, TypeOK
    <2>2. CASE StderrEnds \/ PromptEnds
      BY <2>2 DEF StderrEnds, PromptEnds, TypeOK
    <2>3. CASE CloseDone \/ CloseEvents
      BY <2>3 DEF CloseDone, CloseEvents, TypeOK
    <2>4. CASE \E s \in Stoppers : StopCall(s) \/ StopTerminate(s) \/ StopReturn(s)
      BY <2>4 DEF StopCall, StopTerminate, StopReturn, At, stopFrame, TypeOK
    <2>5. CASE \E s \in Stoppers : StopKill(s)
      BY <2>5 DEF StopKill, At, stopFrame, TypeOK
    <2>6. CASE UNCHANGED vars
      BY <2>6 DEF vars, TypeOK
    <2>7. QED
      BY <2>1, <2>2, <2>3, <2>4, <2>5, <2>6
  <1>2. stream' = stream \/ (stream \in {"ending", "closing"} /\ stream' \in {"closing", "closed"})
    BY DEF Exit, StderrEnds, PromptEnds, CloseDone, CloseEvents, StopCall, StopTerminate,
           StopKill, StopReturn, stopFrame, vars
  <1>3. QED
    BY <1>1, <1>2 DEF Before, After, LineRead, Emitted

LEMMA InitStage == Init => IInv
  <1> SUFFICES ASSUME Init PROVE IInv
    OBVIOUS
  <1>1. read = 0 /\ line = <<>> /\ held = Fresh /\ out = <<>> /\ broken = FALSE /\ taken = <<>>
        /\ asked = FALSE /\ stopper = [s \in Stoppers |-> "none"]
    BY DEF Init
  <1>2. /\ held \in Streams /\ read \in 0 .. MaxLines /\ broken \in BOOLEAN /\ asked \in BOOLEAN
        /\ stopper \in [Stoppers -> {"none", "asked", "grace", "killed", "returned"}]
    <2>1. Fresh \in Streams
      BY DEF Fresh, Streams
    <2>2. stopper \in [Stoppers -> {"none", "asked", "grace", "killed", "returned"}]
      BY <1>1
    <2>3. read \in 0 .. MaxLines
      BY <1>1, ProcessAssumption
    <2>4. QED
      BY <1>1, <2>1, <2>2, <2>3, Zenon
  <1>3. \A S : line \in Seq(S) /\ out \in Seq(S) /\ taken \in Seq(S)
    BY <1>1, EmptySeq, Zenon
  <1>4. CASE stream = "reading"
    <2>1. /\ proc = "running" /\ failed = FALSE /\ stream = "reading" /\ terminal = NoEnding
          /\ chan = <<>> /\ doneClosed = FALSE /\ sidekicks \in {{"stderr"}, {"stderr", "prompt"}}
      BY <1>4 DEF Init
    <2>2. \A S : chan \in Seq(S)
      BY <2>1, EmptySeq, Zenon
    <2>3. Len(chan) <= ChanCap
      BY <2>1, ProcessAssumption
    <2>4. TypeOK
      BY <1>2, <1>3, <2>1, <2>2, <2>3 DEF TypeOK
    <2>5. QED
      BY <1>1, <1>3, <2>1, <2>2, <2>4 DEF IInv, Before, After, LineRead
  <1>5. CASE stream = "closed"
    <2>1. /\ proc = "exited" /\ failed = TRUE /\ stream = "closed" /\ terminal = Error("spawn")
          /\ chan = <<terminal>> /\ doneClosed = TRUE /\ sidekicks = {}
      BY <1>5 DEF Init
    <2>2. terminal \in Endings
      BY <2>1 DEF Endings
    <2>3. chan \in Seq(Messages \cup Endings) /\ Len(chan) <= ChanCap
      BY <2>1, <2>2, ProcessAssumption
    <2>4. TypeOK
      BY <1>2, <1>3, <2>1, <2>2, <2>3 DEF TypeOK
    <2>5. Emitted \o out = Append(<<>>, terminal)
      BY <1>1, <2>1 DEF Emitted
    <2>6. <<>> \in Seq(Messages)
      OBVIOUS
    <2>7. After
      BY <2>2, <2>5, <2>6, Zenon DEF After
    <2>8. QED
      BY <1>1, <2>1, <2>4, <2>7 DEF IInv, Before, LineRead
  <1>6. QED
    BY <1>4, <1>5 DEF Init

\* The invariant says what EndsOnce says.
LEMMA StageEndsOnce == IInv => EndsOnce
  <1> SUFFICES ASSUME IInv PROVE EndsOnce
    OBVIOUS
  <1> DEFINE all == Emitted \o out
  <1>1. CASE stream \in {"reading", "waiting"}
    <2>1. all \in Seq(Messages)
      BY <1>1 DEF IInv, Before, Emitted
    <2>2. \A i \in 1 .. Len(all) : ~IsTerminal(all[i])
      BY <2>1, OnlyEndingsEnd
    <2>3. QED
      BY <1>1, <2>2 DEF EndsOnce
  <1>2. CASE stream \in {"ending", "closing", "closed"}
    <2>1. PICK m \in Seq(Messages), t \in Endings : all = Append(m, t)
      BY <1>2 DEF IInv, After
    <2>2. /\ Len(all) = Len(m) + 1 /\ Len(m) \in Nat /\ all # <<>> /\ all[Len(all)] = t
          /\ \A i \in 1 .. Len(m) : all[i] \in Messages
      BY <2>1
    <2>3. \A i \in 1 .. Len(all) : IsTerminal(all[i]) => i = Len(all)
      BY <2>2, OnlyEndingsEnd
    <2>4. IsOver(all)
      BY <2>2, OnlyEndingsEnd DEF IsOver
    <2>5. QED
      BY <1>2, <2>3, <2>4 DEF EndsOnce
  <1>3. QED
    BY <1>1, <1>2 DEF IInv, TypeOK

\* A run announces its end exactly once and after everything else, for every
\* output, number of Stop calls and channel size (EndsOnce), and its state has
\* its types.
THEOREM AgentEndsOnce == Spec => [](TypeOK /\ EndsOnce)
  <1>1. IInv /\ [Next]_vars => IInv'
    BY HandleStep, ReadStep, EmitStep, TakeStep, DecideStep, OtherSteps DEF Next, StreamStep
  <1>2. IInv => TypeOK /\ EndsOnce
    BY StageEndsOnce DEF IInv
  <1>3. QED
    BY InitStage, <1>1, <1>2, PTL DEF Spec
-----------------------------------------------------------------------------
(* What the run sends: at most one final answer, actions announced once. *)

NonFinal == {m \in Messages : ~IsFinal(m)}

\* Actions are announced once in the events a; the stream s knows those in a.
Once(a) ==
  \A i, j \in 1 .. Len(a) :
    i < j /\ IsAction(a[i]) /\ IsAction(a[j]) =>
      /\ a[i].key # a[j].key
      /\ a[i].found => a[i].link # a[j].link
Known(a, s) ==
  \A i \in 1 .. Len(a) : IsAction(a[i]) => a[i].key \in s.seen /\ (a[i].found => a[i].link \in s.links)

\* What the stream gives out on its way from s to t: at most one action, unknown
\* before and known after.
News(o, s, t) ==
  /\ \A i, j \in 1 .. Len(o) : IsAction(o[i]) /\ IsAction(o[j]) => i = j
  /\ \A i \in 1 .. Len(o) : IsAction(o[i]) => o[i].key \notin s.seen /\ o[i].link \notin s.links
  /\ Known(o, t)
  /\ s.seen \subseteq t.seen /\ s.links \subseteq t.links

LEMMA NewsAdds ==
  ASSUME NEW S, NEW a \in Seq(S), NEW o \in Seq(S), NEW s, NEW t, Once(a), Known(a, s), News(o, s, t)
  PROVE  Once(a \o o) /\ Known(a \o o, t)
  <1> DEFINE c == a \o o
  <1>1. /\ Len(c) = Len(a) + Len(o) /\ Len(a) \in Nat /\ Len(o) \in Nat
        /\ \A i \in 1 .. Len(a) : c[i] = a[i]
        /\ \A i \in Len(a) + 1 .. Len(c) : c[i] = o[i - Len(a)]
    BY ConcatProperties
  <1> HIDE DEF c
  <1>2. Known(c, t)
    <2> SUFFICES ASSUME NEW i \in 1 .. Len(c), IsAction(c[i])
                 PROVE  c[i].key \in t.seen /\ (c[i].found => c[i].link \in t.links)
      BY DEF Known
    <2>1. CASE i <= Len(a)
      <3>1. i \in 1 .. Len(a) /\ c[i] = a[i]
        BY <1>1, <2>1
      <3>2. QED BY <3>1 DEF Known, News
    <2>2. CASE i > Len(a)
      <3>1. i - Len(a) \in 1 .. Len(o) /\ c[i] = o[i - Len(a)]
        BY <1>1, <2>2
      <3>2. QED BY <3>1 DEF Known, News
    <2>3. QED BY <1>1, <2>1, <2>2
  <1>3. Once(c)
    <2> SUFFICES ASSUME NEW i \in 1 .. Len(c), NEW j \in 1 .. Len(c), i < j, IsAction(c[i]), IsAction(c[j])
                 PROVE  c[i].key # c[j].key /\ (c[i].found => c[i].link # c[j].link)
      BY DEF Once
    <2>1. CASE j <= Len(a)
      BY <1>1, <2>1 DEF Once
    <2>2. CASE i > Len(a)
      <3>1. /\ i - Len(a) \in 1 .. Len(o) /\ j - Len(a) \in 1 .. Len(o) /\ i - Len(a) # j - Len(a)
            /\ c[i] = o[i - Len(a)] /\ c[j] = o[j - Len(a)]
        BY <1>1, <2>2
      <3>2. QED BY <3>1 DEF News
    <2>3. CASE i <= Len(a) /\ j > Len(a)
      <3>1. i \in 1 .. Len(a) /\ j - Len(a) \in 1 .. Len(o) /\ c[i] = a[i] /\ c[j] = o[j - Len(a)]
        BY <1>1, <2>3
      <3>2. c[i].key \in s.seen /\ (c[i].found => c[i].link \in s.links)
        BY <3>1 DEF Known
      <3>3. c[j].key \notin s.seen /\ c[j].link \notin s.links
        BY <3>1 DEF News
      <3>4. QED BY <3>2, <3>3
    <2>4. QED BY <1>1, <2>1, <2>2, <2>3
  <1>4. QED
    BY <1>2, <1>3 DEF c

\* The candidate flushed is one text, and no final answer.
LEMMA FlushShape ==
  ASSUME NEW s \in Streams
  PROVE  /\ flushProgress(s) \in Seq(NonFinal) /\ Len(flushProgress(s)) <= 1
         /\ \A i \in 1 .. Len(flushProgress(s)) : ~IsAction(flushProgress(s)[i])
         /\ s.pending # NoEvent => /\ Len(flushProgress(s)) = 1 /\ IsText(flushProgress(s)[1])
                                  /\ flushProgress(s)[1].body = s.pending.body
         /\ Flushed(s).seen = s.seen /\ Flushed(s).links = s.links /\ Flushed(s).pending = NoEvent
  <1>1. CASE s.pending = NoEvent
    <2>1. flushProgress(s) = <<>>
      BY <1>1 DEF flushProgress
    <2>2. Flushed(s).seen = s.seen /\ Flushed(s).links = s.links /\ Flushed(s).pending = NoEvent
      BY DEF Flushed, Streams
    <2>3. QED
      BY <1>1, <2>1, <2>2
  <1>2. CASE s.pending # NoEvent
    <2> DEFINE m == [s.pending EXCEPT !.phase = Commentary]
    <2>1. m \in Texts /\ m.phase = Commentary /\ m.type = "text" /\ m.body = s.pending.body
      BY <1>2 DEF Streams, Texts, Phases
    <2>2. m \in NonFinal /\ ~IsAction(m) /\ IsText(m)
      BY <2>1 DEF NonFinal, Messages, IsFinal, IsText, IsAction, Commentary, FinalAnswer
    <2>3. flushProgress(s) = <<m>>
      BY <1>2 DEF flushProgress
    <2>4. Flushed(s).seen = s.seen /\ Flushed(s).links = s.links /\ Flushed(s).pending = NoEvent
      BY DEF Flushed, Streams
    <2> HIDE DEF m
    <2>5. QED
      BY <2>1, <2>2, <2>3, <2>4
  <1>3. QED
    BY <1>1, <1>2

\* What one message makes the stream give out: no final answer, news of actions,
\* and the candidate, should it be displaced by anything but the same text.
PushFacts(s, e) ==
  LET r == Push(s, e)
  IN  /\ r.out \in Seq(NonFinal) /\ News(r.out, s, r.state) /\ r.state.links \subseteq r.state.seen
      /\ \A b \in Bodies \ {Empty, Blank} :
           s.pending # NoEvent /\ s.pending.body = b =>
             \/ r.state.pending # NoEvent /\ r.state.pending.body = b
             \/ \E i \in 1 .. Len(r.out) : IsText(r.out[i]) /\ r.out[i].body = b

\* One more event behind the candidate.
LEMMA FlushThen ==
  ASSUME NEW s \in Streams, NEW e \in NonFinal
  PROVE  LET o == Append(flushProgress(s), e)
         IN  /\ o \in Seq(NonFinal)
             /\ s.pending # NoEvent => \E i \in 1 .. Len(o) : IsText(o[i]) /\ o[i].body = s.pending.body
             /\ \A i, j \in 1 .. Len(o) : IsAction(o[i]) /\ IsAction(o[j]) => i = j
             /\ \A i \in 1 .. Len(o) : IsAction(o[i]) => o[i] = e
  <1> DEFINE f == flushProgress(s)
             o == Append(f, e)
  <1>1. /\ f \in Seq(NonFinal) /\ Len(f) <= 1
        /\ \A i \in 1 .. Len(f) : ~IsAction(f[i])
        /\ s.pending # NoEvent => Len(f) = 1 /\ IsText(f[1]) /\ f[1].body = s.pending.body
    BY FlushShape
  <1> HIDE DEF f
  <1>2. /\ o \in Seq(NonFinal) /\ Len(o) = Len(f) + 1 /\ o[Len(o)] = e /\ Len(f) \in {0, 1}
        /\ \A i \in 1 .. Len(f) : o[i] = f[i]
    <2>1. Len(f) \in Nat /\ Len(f) <= 1
      BY <1>1, LenProperties, Zenon
    <2>2. Len(f) \in {0, 1}
      BY <2>1
    <2>3. QED
      BY <1>1, <2>2, AppendProperties
  <1> HIDE DEF o
  <1>3. \A i \in 1 .. Len(o) : IsAction(o[i]) => i = Len(o)
    BY <1>1, <1>2
  <1>4. s.pending # NoEvent => 1 \in 1 .. Len(o) /\ IsText(o[1]) /\ o[1].body = s.pending.body
    BY <1>1, <1>2
  <1>5. /\ \A i, j \in 1 .. Len(o) : IsAction(o[i]) /\ IsAction(o[j]) => i = j
        /\ \A i \in 1 .. Len(o) : IsAction(o[i]) => o[i] = e
    BY <1>2, <1>3
  <1>6. s.pending # NoEvent => \E i \in 1 .. Len(o) : IsText(o[i]) /\ o[i].body = s.pending.body
    BY <1>4
  <1>7. QED
    BY <1>2, <1>5, <1>6, Zenon DEF o, f

\* One way to show them: the stream goes on as t and gives out o.
LEMMA PushOf ==
  ASSUME NEW s, NEW e, NEW t, NEW o \in Seq(NonFinal), Push(s, e) = Result(t, o),
         t.links \subseteq t.seen, s.seen \subseteq t.seen, s.links \subseteq t.links,
         \A i, j \in 1 .. Len(o) : IsAction(o[i]) /\ IsAction(o[j]) => i = j,
         \A i \in 1 .. Len(o) : IsAction(o[i]) =>
           /\ o[i].key \notin s.seen /\ o[i].link \notin s.links
           /\ o[i].key \in t.seen /\ (o[i].found => o[i].link \in t.links),
         \A b \in Bodies \ {Empty, Blank} :
           s.pending # NoEvent /\ s.pending.body = b =>
             \/ t.pending # NoEvent /\ t.pending.body = b
             \/ \E i \in 1 .. Len(o) : IsText(o[i]) /\ o[i].body = b
  PROVE  PushFacts(s, e)
  <1>1. Push(s, e).state = t /\ Push(s, e).out = o
    BY DEF Result
  <1>2. News(o, s, t)
    BY DEF News, Known
  <1>3. QED
    BY <1>1, <1>2 DEF PushFacts

LEMMA PushTextFacts ==
  ASSUME NEW s \in Streams, s.links \subseteq s.seen, NEW e \in Texts, e.type = "text"
  PROVE  PushFacts(s, e)
  <1>1. Push(s, e) = PushText(s, e) /\ IsText(e) /\ ~IsAction(e) /\ e # NoEvent /\ e \in Messages
    BY CandidateAssumption DEF Push, IsText, IsAction, Messages
  <1> DEFINE u == [s EXCEPT !.pending = e]
             f == flushProgress(s)
             h == Flushed(s)
             d == Append(f, e)
  <1>2. u.seen = s.seen /\ u.links = s.links /\ u.pending = e
    BY DEF Streams
  <1>3. /\ f \in Seq(NonFinal) /\ Len(f) <= 1
        /\ \A i \in 1 .. Len(f) : ~IsAction(f[i])
        /\ s.pending # NoEvent => Len(f) = 1 /\ IsText(f[1]) /\ f[1].body = s.pending.body
        /\ h.seen = s.seen /\ h.links = s.links
    BY FlushShape
  <1> DEFINE z == <<>>
  <1>4. z \in Seq(NonFinal) /\ 1 .. Len(z) = {}
    OBVIOUS
  <1>5. CASE e.body = Empty /\ e.phase # FinalAnswer
    <2>1. Push(s, e) = Result(s, z)
      BY <1>1, <1>5 DEF PushText
    <2> HIDE DEF z
    <2>2. QED
      BY <1>4, <2>1, PushOf
  <1>6. CASE /\ ~(e.body = Empty /\ e.phase # FinalAnswer) /\ e.phase = FinalAnswer
             /\ s.pending # NoEvent /\ SameText(s.pending.body, e.body)
    <2>1. Push(s, e) = Result(u, z)
      BY <1>1, <1>6 DEF PushText
    <2>2. \A b \in Bodies \ {Empty, Blank} : s.pending.body = b => e.body = b
      BY <1>6 DEF SameText, IsBlank
    <2> HIDE DEF u, z
    <2>3. QED
      BY <1>1, <1>2, <1>4, <2>1, <2>2, PushOf
  <1>7. CASE /\ ~(e.body = Empty /\ e.phase # FinalAnswer)
             /\ ~(e.phase = FinalAnswer /\ s.pending # NoEvent /\ SameText(s.pending.body, e.body))
             /\ e.phase = Commentary
    <2>1. Push(s, e) = Result(h, d)
      BY <1>1, <1>7 DEF PushText
    <2>2. e \in NonFinal
      BY <1>1, <1>7 DEF NonFinal, IsFinal, Commentary, FinalAnswer
    <2>3. /\ d \in Seq(NonFinal)
          /\ s.pending # NoEvent => \E i \in 1 .. Len(d) : IsText(d[i]) /\ d[i].body = s.pending.body
          /\ \A i \in 1 .. Len(d) : IsAction(d[i]) => d[i] = e
      BY <2>2, FlushThen
    <2> HIDE DEF d, h, f
    <2>4. QED
      BY <1>1, <1>3, <2>1, <2>3, PushOf
  <1>8. CASE /\ ~(e.body = Empty /\ e.phase # FinalAnswer)
             /\ ~(e.phase = FinalAnswer /\ s.pending # NoEvent /\ SameText(s.pending.body, e.body))
             /\ e.phase # Commentary
    <2>1. Push(s, e) = Result(u, f)
      BY <1>1, <1>8 DEF PushText
    <2> HIDE DEF u, f
    <2>2. s.pending # NoEvent => \E i \in 1 .. Len(f) : IsText(f[i]) /\ f[i].body = s.pending.body
      BY <1>3
    <2>3. QED
      BY <1>2, <1>3, <2>1, <2>2, PushOf
  <1>9. QED
    BY <1>5, <1>6, <1>7, <1>8

LEMMA PushActionFacts ==
  ASSUME NEW s \in Streams, s.links \subseteq s.seen, NEW e \in Actions, e.type = "user_action",
         e.found => e.key = e.link /\ e.link \in Links
  PROVE  PushFacts(s, e)
  <1> DEFINE key == ActionKey(s, e)
             f == flushProgress(s)
             h == Flushed(s)
             t == [h EXCEPT !.seen = @ \cup {key}, !.links = IF e.found THEN @ \cup {e.link} ELSE @]
             d == Append(f, e)
             o == IF key \in s.seen THEN f ELSE d
  <1>1. Push(s, e) = Result(t, o) /\ IsAction(e) /\ ~IsText(e)
    BY DEF Push, IsText, IsAction, PushAction
  <1>2. /\ f \in Seq(NonFinal) /\ Len(f) <= 1
        /\ \A i \in 1 .. Len(f) : ~IsAction(f[i])
        /\ s.pending # NoEvent => Len(f) = 1 /\ IsText(f[1]) /\ f[1].body = s.pending.body
        /\ h.seen = s.seen /\ h.links = s.links
    BY FlushShape
  <1>3. t.seen = s.seen \cup {key} /\ t.links = (IF e.found THEN s.links \cup {e.link} ELSE s.links)
    BY DEF Flushed, Streams
  <1>4. e \in NonFinal
    BY <1>1 DEF NonFinal, Messages, IsFinal
  <1>5. /\ d \in Seq(NonFinal)
        /\ s.pending # NoEvent => \E i \in 1 .. Len(d) : IsText(d[i]) /\ d[i].body = s.pending.body
        /\ \A i, j \in 1 .. Len(d) : IsAction(d[i]) /\ IsAction(d[j]) => i = j
        /\ \A i \in 1 .. Len(d) : IsAction(d[i]) => d[i] = e
    BY <1>4, FlushThen
  <1>6. key = (IF e.link \in s.links THEN e.link ELSE e.key)
    BY DEF ActionKey
  <1>7. t.links \subseteq t.seen
    BY <1>3, <1>6
  <1>8. key \notin s.seen => e.link \notin s.links /\ e.key = key
    BY <1>6
  <1> HIDE DEF t, key, f, h, d
  <1>9. CASE key \in s.seen
    <2>1. s.pending # NoEvent => \E i \in 1 .. Len(f) : IsText(f[i]) /\ f[i].body = s.pending.body
      BY <1>2
    <2>2. Push(s, e) = Result(t, f)
      BY <1>1, <1>9
    <2>3. QED
      BY <1>2, <1>3, <1>7, <2>1, <2>2, PushOf
  <1>10. CASE key \notin s.seen
    <2>1. Push(s, e) = Result(t, d)
      BY <1>1, <1>10
    <2>2. \A i \in 1 .. Len(d) : IsAction(d[i]) =>
            /\ d[i].key \notin s.seen /\ d[i].link \notin s.links
            /\ d[i].key \in t.seen /\ (d[i].found => d[i].link \in t.links)
      BY <1>3, <1>5, <1>8, <1>10
    <2>3. QED
      BY <1>3, <1>5, <1>7, <2>1, <2>2, PushOf
  <1>11. QED
    BY <1>9, <1>10

LEMMA FoundIsLogin ==
  ASSUME NEW e \in Actions
  PROVE  e.found => e.key = e.link /\ e.link \in Links
  <1>1. CASE \E l \in Links : e = Login(l)
    BY <1>1 DEF Login
  <1>2. CASE e \in [type : {"user_action"}, key : Keys, link : Links \cup {NoText}, found : {FALSE}]
    BY <1>2
  <1>3. QED
    BY <1>1, <1>2 DEF Actions

LEMMA PushKeeps ==
  ASSUME NEW s \in Streams, s.links \subseteq s.seen, NEW e \in Messages
  PROVE  PushFacts(s, e)
  <1>1. CASE e \in Texts /\ e.type = "text"
    BY <1>1, PushTextFacts
  <1>2. CASE e \in Actions /\ e.type = "user_action"
    BY <1>2, PushActionFacts, FoundIsLogin
  <1> DEFINE f == flushProgress(s)
             h == Flushed(s)
             d == Append(f, e)
             one == <<e>>
             z == <<>>
             v == [s EXCEPT !.usage = Append(@, e)]
  <1>3. CASE e = ToolUse /\ e.type = "tool_use"
    <2>1. Push(s, e) = Result(h, d) /\ ~IsAction(e)
      BY <1>3 DEF Push, IsText, IsAction
    <2>2. e \in NonFinal
      BY <1>3 DEF NonFinal, IsFinal, IsText
    <2>3. /\ d \in Seq(NonFinal)
          /\ s.pending # NoEvent => \E i \in 1 .. Len(d) : IsText(d[i]) /\ d[i].body = s.pending.body
          /\ \A i \in 1 .. Len(d) : IsAction(d[i]) => d[i] = e
      BY <2>2, FlushThen
    <2>4. h.seen = s.seen /\ h.links = s.links
      BY FlushShape
    <2> HIDE DEF d, h, f
    <2>5. QED
      BY <2>1, <2>3, <2>4, PushOf
  <1>4. CASE e = Passing /\ e.type = "tool_result"
    <2>1. Push(s, e) = Result(s, one) /\ ~IsAction(e)
      BY <1>4 DEF Push, IsText, IsAction
    <2>2. e \in NonFinal
      BY <1>4 DEF NonFinal, IsFinal, IsText
    <2>3. one \in Seq(NonFinal) /\ \A i \in 1 .. Len(one) : one[i] = e
      BY <2>2
    <2> HIDE DEF one
    <2>4. QED
      BY <2>1, <2>3, PushOf
  <1>5. CASE e = Usage /\ e.type = "usage"
    <2>1. Push(s, e) = Result(v, z)
      BY <1>5 DEF Push, IsText, IsAction
    <2>2. v.seen = s.seen /\ v.links = s.links /\ v.pending = s.pending
      BY DEF Streams
    <2>3. z \in Seq(NonFinal) /\ 1 .. Len(z) = {}
      OBVIOUS
    <2> HIDE DEF v, z
    <2>4. QED
      BY <2>1, <2>2, <2>3, PushOf
  <1>6. QED
    BY <1>1, <1>2, <1>3, <1>4, <1>5, Kinds

\* The parts of what Finish gives out: messages that are no final answer, at most
\* one final answer, of a successful run only, and the usage held back.
FinishFacts(s, out0, success) ==
  \E p \in Seq(NonFinal), f \in Seq(Texts), u \in Seq({Usage}) : \E t :
    /\ out0 = (p \o f) \o u
    /\ Len(f) <= 1 /\ (f # <<>> => success)
    /\ News(p, s, t)
    /\ \A b \in Bodies \ {Empty, Blank} :
         s.pending # NoEvent /\ s.pending.body = b =>
           \/ \E i \in 1 .. Len(p) : IsText(p[i]) /\ p[i].body = b
           \/ \E i \in 1 .. Len(f) : f[i].body = b

LEMMA FinishOf ==
  ASSUME NEW s, NEW success, NEW p \in Seq(NonFinal), NEW f \in Seq(Texts), NEW u \in Seq({Usage}), NEW t, NEW o,
         o = (p \o f) \o u, Len(f) <= 1, f # <<>> => success, News(p, s, t),
         \A b \in Bodies \ {Empty, Blank} :
           s.pending # NoEvent /\ s.pending.body = b =>
             \/ \E i \in 1 .. Len(p) : IsText(p[i]) /\ p[i].body = b
             \/ \E i \in 1 .. Len(f) : f[i].body = b
  PROVE  FinishFacts(s, o, success)
  BY Zenon DEF FinishFacts

LEMMA FinishKeeps ==
  ASSUME NEW s \in Streams, s.links \subseteq s.seen, NEW final \in Finals \cup {NoText}, NEW success \in BOOLEAN
  PROVE  FinishFacts(s, Finish(s, final, success), success)
  <1> DEFINE fl == flushProgress(s)
             z == <<>>
             u == s.usage
  <1>1. /\ fl \in Seq(NonFinal) /\ \A i \in 1 .. Len(fl) : ~IsAction(fl[i])
        /\ s.pending # NoEvent => /\ 1 \in 1 .. Len(fl) /\ IsText(fl[1]) /\ fl[1].body = s.pending.body
    <2>1. /\ fl \in Seq(NonFinal) /\ \A i \in 1 .. Len(fl) : ~IsAction(fl[i])
          /\ s.pending # NoEvent => Len(fl) = 1 /\ IsText(fl[1]) /\ fl[1].body = s.pending.body
      BY FlushShape
    <2> HIDE DEF fl
    <2>2. QED BY <2>1
  <1>2. /\ z \in Seq(NonFinal) /\ z \in Seq(Texts) /\ Len(z) = 0 /\ 1 .. Len(z) = {} /\ z = <<>>
        /\ \A S : \A q \in Seq(S) : q \o z = q /\ z \o q = q
    <2>1. \A S : \A q \in Seq(S) : q \o z = q /\ z \o q = q
      BY ConcatEmptySeq
    <2>2. QED BY <2>1
  <1>3. News(fl, s, s) /\ News(z, s, s)
    BY <1>1, <1>2 DEF News, Known
  <1>4. u \in Seq({Usage})
    BY DEF Streams
  <1>5. s.pending # NoEvent => \E i \in 1 .. Len(fl) : IsText(fl[i]) /\ fl[i].body = s.pending.body
    BY <1>1
  <1> HIDE DEF fl, z, u
  <1>6. CASE ~success
    <2>1. Finish(s, final, success) = (fl \o z) \o u
      BY <1>1, <1>2, <1>6 DEF Finish, fl, u
    <2>2. \A b \in Bodies \ {Empty, Blank} :
              s.pending # NoEvent /\ s.pending.body = b =>
                \/ \E i \in 1 .. Len(fl) : IsText(fl[i]) /\ fl[i].body = b
                \/ \E i \in 1 .. Len(z) : z[i].body = b
      BY <1>5
    <2>3. Len(z) <= 1 /\ (z # <<>> => success)
      BY <1>2
    <2>4. QED
      BY <1>1, <1>2, <1>3, <1>4, <2>1, <2>2, <2>3, FinishOf, ZenonT(30)
  <1>7. CASE success /\ final # NoText /\ IsRequest(final)
    <2> DEFINE o == Push(s, final).out
               t == Push(s, final).state
    <2>1. final \in Actions /\ final \in Messages /\ final.type = "user_action"
      BY <1>7, ActionKind DEF IsRequest, Messages
    <2>2. o \in Seq(NonFinal) /\ News(o, s, t)
          /\ \A b \in Bodies \ {Empty, Blank} :
               s.pending # NoEvent /\ s.pending.body = b =>
                 \/ t.pending # NoEvent /\ t.pending.body = b
                 \/ \E i \in 1 .. Len(o) : IsText(o[i]) /\ o[i].body = b
      BY <2>1, PushKeeps DEF PushFacts
    <2>3. Push(s, final) = PushAction(s, final)
      BY <2>1 DEF Push, IsText, IsAction
    <2>4. t.pending = NoEvent /\ t \in Streams
      <3>1. t \in Streams
        BY <2>1, PushType
      <3> DEFINE h == Flushed(s)
                 after == [h EXCEPT !.seen = @ \cup {ActionKey(s, final)},
                                    !.links = IF final.found THEN @ \cup {final.link} ELSE @]
      <3>2. h \in Streams /\ h.pending = NoEvent
        BY FlushType, FlushShape
      <3>3. t = after
        BY <2>3 DEF PushAction, Result
      <3>4. after.pending = h.pending
        BY <3>2 DEF Streams
      <3>5. QED BY <3>1, <3>2, <3>3, <3>4
    <2>5. (IF s.pending # NoEvent THEN fl ELSE <<>>) = fl
      BY DEF fl, flushProgress
    <2>6. fl \o PushAction(Flushed(s), final).out = o
      <3> DEFINE h == Flushed(s)
                 one == <<final>>
      <3>1. h.seen = s.seen /\ h.links = s.links /\ h.pending = NoEvent
        BY FlushShape
      <3>2. ActionKey(h, final) = ActionKey(s, final)
        BY <3>1 DEF ActionKey
      <3>3. flushProgress(h) = z /\ Append(z, final) = one
        BY <3>1 DEF flushProgress, z
      <3>4. PushAction(h, final).out = IF ActionKey(s, final) \in s.seen THEN z ELSE one
        BY <3>1, <3>2, <3>3 DEF PushAction, Result
      <3>5. o = IF ActionKey(s, final) \in s.seen THEN fl ELSE Append(fl, final)
        BY <2>3 DEF PushAction, Result, fl
      <3>6. fl \in Seq(Messages) /\ Append(fl, final) = fl \o one
        <4>1. fl \in Seq(Messages)
          BY FlushType DEF fl
        <4>2. QED BY <4>1, <2>1, AppendIsConcat
      <3>7. QED BY <1>2, <3>4, <3>5, <3>6
    <2>7. Finish(s, final, success) = (o \o z) \o u
      <3>1. Finish(s, final, success) =
              ((IF s.pending # NoEvent THEN fl ELSE <<>>) \o PushAction(Flushed(s), final).out) \o u
        BY <1>7 DEF Finish, fl, u
      <3>2. QED BY <1>2, <2>2, <2>5, <2>6, <3>1
    <2> HIDE DEF o, t
    <2>8. \A b \in Bodies \ {Empty, Blank} :
              s.pending # NoEvent /\ s.pending.body = b =>
                \/ \E i \in 1 .. Len(o) : IsText(o[i]) /\ o[i].body = b
                \/ \E i \in 1 .. Len(z) : z[i].body = b
      BY <2>2, <2>4
    <2>9. Len(z) <= 1 /\ (z # <<>> => success)
      BY <1>2
    <2>10. QED
      BY <1>2, <1>4, <2>2, <2>7, <2>8, <2>9, FinishOf, ZenonT(30)
  <1>8. CASE success /\ final # NoText /\ ~IsRequest(final)
    <2> DEFINE differ == s.pending # NoEvent /\ ~SameText(s.pending.body, final)
               x == Text(final, FinalAnswer)
               one == <<x>>
               p == IF differ THEN fl ELSE z
               f == IF IsBlank(final) THEN z ELSE one
    <2>1. final \in Bodies
      BY <1>8, ProcessAssumption DEF IsRequest
    <2>2. x \in Texts /\ x.body = final
      BY <2>1 DEF Texts, Text, Phases
    <2>3. one \in Seq(Texts) /\ Len(one) = 1 /\ one[1] = x /\ 1 \in 1 .. Len(one)
      BY <2>2
    <2>4. Finish(s, final, success) = (p \o f) \o u
      BY <1>8 DEF Finish, fl, u, z
    <2>5. p \in Seq(NonFinal) /\ f \in Seq(Texts) /\ Len(f) <= 1 /\ News(p, s, s)
      BY <1>1, <1>2, <1>3, <2>3
    <2>6. ASSUME NEW b \in Bodies \ {Empty, Blank}, s.pending # NoEvent, s.pending.body = b
          PROVE  \/ \E i \in 1 .. Len(p) : IsText(p[i]) /\ p[i].body = b
                 \/ \E i \in 1 .. Len(f) : f[i].body = b
      <3>1. CASE differ
        BY <1>5, <2>6, <3>1
      <3>2. CASE ~differ
        <4>1. final = b /\ ~IsBlank(final)
          BY <2>6, <3>2 DEF SameText, IsBlank
        <4>2. f = one
          BY <4>1
        <4> HIDE DEF one, x, f
        <4>3. QED BY <2>2, <2>3, <4>1, <4>2
      <3>3. QED BY <3>1, <3>2
    <2> HIDE DEF p, f
    <2>7. QED
      BY <1>4, <1>8, <2>4, <2>5, <2>6, FinishOf
  <1>9. CASE success /\ final = NoText
    <2> DEFINE x == [s.pending EXCEPT !.phase = FinalAnswer]
               one == <<x>>
               answered == s.pending # NoEvent /\ ~IsBlank(s.pending.body)
               f == IF answered THEN one ELSE z
    <2>1. answered => x \in Texts /\ x.body = s.pending.body
      BY DEF Streams, Texts, Phases
    <2>2. answered => one \in Seq(Texts)
      BY <2>1
    <2>3. Len(one) = 1 /\ one[1] = x /\ 1 \in 1 .. Len(one)
      OBVIOUS
    <2>4. Finish(s, final, success) = f \o u
      BY <1>9 DEF Finish, u, z
    <2> HIDE DEF one, x
    <2>5. f \in Seq(Texts) /\ Len(f) <= 1
      <3>1. CASE answered
        <4>1. f = one
          BY <3>1
        <4>2. one \in Seq(Texts) /\ Len(one) <= 1
          BY <2>2, <2>3, <3>1
        <4>3. QED BY <4>1, <4>2, Zenon
      <3>2. CASE ~answered
        BY <1>2, <3>2
      <3>3. QED BY <3>1, <3>2
    <2>6. ASSUME NEW b \in Bodies \ {Empty, Blank}, s.pending # NoEvent, s.pending.body = b
          PROVE  \E i \in 1 .. Len(f) : f[i].body = b
      <3>1. answered
        BY <2>6 DEF IsBlank
      <3>2. f = one
        BY <3>1
      <3>3. QED BY <2>1, <2>3, <2>6, <3>1, <3>2
    <2> HIDE DEF f
    <2>7. Finish(s, final, success) = (z \o f) \o u
      BY <1>2, <2>4, <2>5
    <2>8. \A b \in Bodies \ {Empty, Blank} :
              s.pending # NoEvent /\ s.pending.body = b =>
                \/ \E i \in 1 .. Len(z) : IsText(z[i]) /\ z[i].body = b
                \/ \E i \in 1 .. Len(f) : f[i].body = b
      BY <2>6
    <2>9. QED
      BY <1>2, <1>3, <1>4, <1>9, <2>5, <2>7, <2>8, FinishOf, ZenonT(30)
  <1>10. QED
    BY <1>6, <1>7, <1>8, <1>9
-----------------------------------------------------------------------------
\* A final answer among the events a comes of a run that ended normally, with
\* nothing but usage between it and the end.
FinalLast(a, t) ==
  \A i \in 1 .. Len(a) :
    IsFinal(a[i]) => t = Normal /\ \A j \in i + 1 .. Len(a) : a[j] = Usage \/ IsTerminal(a[j])
Has(a, b) == \E i \in 1 .. Len(a) : IsText(a[i]) /\ a[i].body = b

LEMMA HasConcat ==
  ASSUME NEW S, NEW a \in Seq(S), NEW o \in Seq(S), NEW b, Has(a, b) \/ Has(o, b)
  PROVE  Has(a \o o, b)
  <1>1. CASE Has(a, b)
    <2>1. PICK i \in 1 .. Len(a) : IsText(a[i]) /\ a[i].body = b
      BY <1>1 DEF Has
    <2>2. i \in 1 .. Len(a \o o) /\ (a \o o)[i] = a[i]
      OBVIOUS
    <2>3. QED BY <2>1, <2>2 DEF Has
  <1>2. CASE Has(o, b)
    <2>1. PICK i \in 1 .. Len(o) : IsText(o[i]) /\ o[i].body = b
      BY <1>2 DEF Has
    <2>2. Len(a) + i \in 1 .. Len(a \o o) /\ (a \o o)[Len(a) + i] = o[i]
      OBVIOUS
    <2>3. QED BY <2>1, <2>2 DEF Has
  <1>3. QED BY <1>1, <1>2

\* What the kinds of events are not.
LEMMA Nots ==
  /\ \A e \in Texts : IsText(e) /\ ~IsAction(e)
  /\ ~IsFinal(Usage) /\ ~IsAction(Usage)
  /\ \A e \in Endings : ~IsText(e) /\ ~IsFinal(e) /\ ~IsAction(e) /\ IsTerminal(e)
  /\ \A e \in NonFinal : ~IsFinal(e)
  <1>1. \A e \in Endings : e.type \in {"done", "error"}
    BY OnlyEndingsEnd DEF IsTerminal
  <1>2. QED
    BY <1>1, OnlyEndingsEnd DEF Texts, IsText, IsAction, IsFinal, Usage, NonFinal

LEMMA ConcatIndex ==
  ASSUME NEW S, NEW a \in Seq(S), NEW b \in Seq(S), NEW n, NEW k, n = Len(a), k = Len(b), NEW c, c = a \o b
  PROVE  /\ c \in Seq(S) /\ Len(c) = n + k
         /\ \A i \in 1 .. n : c[i] = a[i]
         /\ \A i \in n + 1 .. n + k : c[i] = b[i - n]
  BY ConcatProperties

\* The parts of all that a run sends, one behind the other.
LEMMA EndOfRun ==
  ASSUME NEW q \in Seq(NonFinal), NEW f \in Seq(Texts), NEW u \in Seq({Usage}), NEW t \in Endings,
         Len(f) <= 1, f # <<>> => t = Normal, Once(q)
  PROVE  LET c == Append((q \o f) \o u, t)
         IN  /\ FinalLast(c, t) /\ Once(c)
             /\ \A b : Has(q, b) \/ (\E i \in 1 .. Len(f) : f[i].body = b) => Has(c, b)
  <1> DEFINE g == q \o f
             h == g \o u
             c == Append(h, t)
             n == Len(q)
             k == Len(f)
             m == Len(u)
  <1>1. q \in Seq(EventSet) /\ f \in Seq(EventSet) /\ u \in Seq(EventSet) /\ t \in EventSet
    BY SeqMonotonic DEF NonFinal, EventSet, Messages
  <1>2. n \in Nat /\ k \in Nat /\ m \in Nat /\ n = Len(q) /\ k = Len(f) /\ m = Len(u)
    OBVIOUS
  <1>3. k <= 1 /\ (k > 0 => t = Normal)
    BY <1>2
  <1> HIDE DEF n, k, m
  <1>4. /\ g \in Seq(EventSet) /\ Len(g) = n + k
        /\ \A i \in 1 .. n : g[i] = q[i]
        /\ \A i \in n + 1 .. n + k : g[i] = f[i - n]
    <2>1. g = q \o f
      OBVIOUS
    <2> HIDE DEF g
    <2>2. QED BY <1>1, <1>2, <2>1, ConcatIndex
  <1> HIDE DEF g
  <1>5. /\ h \in Seq(EventSet) /\ Len(h) = (n + k) + m
        /\ \A i \in 1 .. n + k : h[i] = g[i]
        /\ \A i \in (n + k) + 1 .. (n + k) + m : h[i] = u[i - (n + k)]
    <2> DEFINE e == n + k
    <2>1. e = Len(g) /\ g \in Seq(EventSet) /\ h = g \o u
      BY <1>4
    <2> HIDE DEF h, e
    <2>2. /\ h \in Seq(EventSet) /\ Len(h) = e + m
          /\ \A i \in 1 .. e : h[i] = g[i]
          /\ \A i \in e + 1 .. e + m : h[i] = u[i - e]
      BY <1>1, <1>2, <2>1, ConcatIndex
    <2>3. QED BY <2>2 DEF e
  <1> HIDE DEF h
  <1>6. /\ Len(c) = n + k + m + 1 /\ c[n + k + m + 1] = t
        /\ \A i \in 1 .. n + k + m : c[i] = h[i]
    <2>1. Len(c) = Len(h) + 1 /\ c[Len(h) + 1] = t /\ \A i \in 1 .. Len(h) : c[i] = h[i]
      BY <1>1, <1>5, AppendProperties
    <2> HIDE DEF c
    <2>2. QED BY <1>2, <1>5, <2>1
  <1> HIDE DEF c
  <1>7. /\ \A i \in 1 .. n : q[i] \in NonFinal
        /\ \A i \in 1 .. k : f[i] \in Texts
        /\ \A i \in 1 .. m : u[i] = Usage
    <2>1. \A S : \A x \in Seq(S) : \A i \in 1 .. Len(x) : x[i] \in S
      BY ElementOfSeq, Zenon
    <2>2. \A i \in 1 .. m : u[i] \in {Usage}
      BY <1>2, <2>1, Zenon
    <2>3. QED BY <1>2, <2>1, <2>2, Zenon
  <1>8. ASSUME NEW i \in 1 .. n PROVE c[i] = q[i] /\ c[i] \in NonFinal
    BY <1>2, <1>4, <1>5, <1>6, <1>7
  <1>9. ASSUME NEW i \in n + 1 .. n + k PROVE c[i] = f[i - n] /\ c[i] \in Texts
    <2>1. i - n \in 1 .. k /\ i \in 1 .. n + k /\ i \in 1 .. n + k + m
      BY <1>2
    <2>2. QED BY <1>4, <1>5, <1>6, <1>7, <2>1
  <1>10. ASSUME NEW i \in n + k + 1 .. n + k + m PROVE c[i] = Usage
    <2>1. i - (n + k) \in 1 .. m /\ i \in (n + k) + 1 .. (n + k) + m /\ i \in 1 .. n + k + m
      BY <1>2
    <2>2. QED BY <1>5, <1>6, <1>7, <2>1
  <1>11. FinalLast(c, t)
    <2> SUFFICES ASSUME NEW i \in 1 .. Len(c), IsFinal(c[i])
                 PROVE  t = Normal /\ \A j \in i + 1 .. Len(c) : c[j] = Usage \/ IsTerminal(c[j])
      BY DEF FinalLast
    <2>0. n \in Nat /\ k \in Nat /\ m \in Nat /\ Len(c) = n + k + m + 1
      BY <1>2, <1>6, Zenon
    <2>1. i \in n + 1 .. n + k
      <3>1. i \in 1 .. n \/ i \in n + 1 .. n + k \/ i \in n + k + 1 .. n + k + m \/ i = n + k + m + 1
        BY <2>0
      <3>2. QED BY <1>6, <1>8, <1>10, <3>1, Nots
    <2>2. k = 1 /\ t = Normal
      BY <1>2, <1>3, <2>1
    <2>3. ASSUME NEW j \in i + 1 .. Len(c) PROVE c[j] = Usage \/ IsTerminal(c[j])
      <3>1. i = n + 1 /\ k = 1
        BY <2>0, <2>1, <2>2
      <3>2. j \in n + k + 1 .. n + k + m \/ j = n + k + m + 1
        BY <2>0, <3>1
      <3>3. QED BY <1>6, <1>10, <3>2, Nots
    <2>4. QED BY <2>2, <2>3
  <1>12. ASSUME NEW i \in 1 .. Len(c), IsAction(c[i]) PROVE i \in 1 .. n /\ c[i] = q[i]
    <2>0. n \in Nat /\ k \in Nat /\ m \in Nat /\ Len(c) = n + k + m + 1
      BY <1>2, <1>6, Zenon
    <2>1. i \in 1 .. n \/ i \in n + 1 .. n + k \/ i \in n + k + 1 .. n + k + m \/ i = n + k + m + 1
      BY <2>0
    <2>2. QED BY <1>6, <1>8, <1>9, <1>10, <1>12, <2>1, Nots
  <1>13. Once(c)
    <2> SUFFICES ASSUME NEW i \in 1 .. Len(c), NEW j \in 1 .. Len(c), i < j, IsAction(c[i]), IsAction(c[j])
                 PROVE  c[i].key # c[j].key /\ (c[i].found => c[i].link # c[j].link)
      BY DEF Once
    <2>1. i \in 1 .. n /\ c[i] = q[i] /\ j \in 1 .. n /\ c[j] = q[j]
      BY <1>12
    <2>2. QED BY <2>1 DEF Once, n
  <1>14. ASSUME NEW b, Has(q, b) \/ \E i \in 1 .. Len(f) : f[i].body = b PROVE Has(c, b)
    <2>1. CASE Has(q, b)
      <3>1. PICK i \in 1 .. n : IsText(q[i]) /\ q[i].body = b
        BY <2>1 DEF Has, n
      <3>2. i \in 1 .. Len(c) /\ c[i] = q[i]
        BY <1>2, <1>6, <1>8
      <3>3. IsText(c[i]) /\ c[i].body = b
        BY <3>1, <3>2 DEF IsText
      <3>4. QED BY <3>2, <3>3 DEF Has
    <2>2. CASE \E i \in 1 .. Len(f) : f[i].body = b
      <3>1. PICK i \in 1 .. k : f[i].body = b
        BY <2>2 DEF k
      <3>2. n + i \in 1 .. Len(c) /\ n + i \in n + 1 .. n + k /\ (n + i) - n = i
        BY <1>2, <1>6
      <3>3. c[n + i] = f[i] /\ c[n + i] \in Texts
        BY <1>9, <3>2
      <3>4. IsText(c[n + i]) /\ c[n + i].body = b
        BY <3>1, <3>3, Nots
      <3>5. QED BY <3>2, <3>4 DEF Has
    <2>3. QED BY <1>14, <2>1, <2>2
  <1>15. QED
    BY <1>11, <1>13, <1>14 DEF c, h, g

\* All that a run has sent or is about to send.
Sent == Emitted \o out

\* Until the decision no final answer is among it, and the stream knows its
\* actions; from then on its final answer is last and the candidate is gone.
\* A stage begins when everything before it is sent.
Undecided == stream \in {"reading", "waiting"}
SoundBefore == Undecided => Sent \in Seq(NonFinal) /\ Once(Sent) /\ Known(Sent, held) /\ held.links \subseteq held.seen
SoundAfter == ~Undecided => FinalLast(Sent, terminal) /\ Once(Sent) /\ held.pending = NoEvent
AllSent == stream \in {"waiting", "closing", "closed"} => out = <<>>
SInv == SoundBefore /\ SoundAfter /\ AllSent

\* Every action but two leaves alone what was sent, and the stage.
LEMMA OthersKeep ==
  ASSUME IInv, [Next]_vars, ~Handle, ~Decide
  PROVE  /\ Sent' = Sent /\ held' = held /\ terminal' = terminal /\ Undecided' = Undecided
         /\ AllSent => AllSent'
  <1>1. CASE Emit
    BY <1>1, EmitKeeps DEF Emit, Sent, Undecided, AllSent, IInv, TypeOK
  <1>2. CASE Take
    BY <1>2, TakeEmitted DEF Take, Sent, Undecided, AllSent
  <1>3. CASE \E l \in Lines : ReadLine(l)
    BY <1>3 DEF ReadLine, Sent, Emitted, Undecided, AllSent
  <1>4. CASE ReadEnds
    BY <1>4 DEF ReadEnds, Sent, Emitted, Undecided, AllSent
  <1>5. CASE CloseDone \/ CloseEvents
    BY <1>5 DEF CloseDone, CloseEvents, Sent, Emitted, Undecided, AllSent
  <1>6. CASE (\E f \in BOOLEAN : Exit(f)) \/ StderrEnds \/ PromptEnds \/ UNCHANGED vars
    BY <1>6 DEF Exit, StderrEnds, PromptEnds, vars, streamVars, Sent, Emitted, Undecided, AllSent
  <1>7. CASE \E s \in Stoppers : StopCall(s) \/ StopTerminate(s) \/ StopKill(s) \/ StopReturn(s)
    BY <1>7 DEF StopCall, StopTerminate, StopKill, StopReturn, stopFrame, streamVars, Sent, Emitted, Undecided, AllSent
  <1>8. QED
    BY <1>1, <1>2, <1>3, <1>4, <1>5, <1>6, <1>7 DEF Next, StreamStep

\* Handling a line: what comes out are news.
LEMMA HandleSound ==
  ASSUME IInv, SInv, Handle
  PROVE  /\ SInv' /\ Undecided /\ Undecided'
         /\ \A b \in Bodies \ {Empty, Blank} :
              (held.pending # NoEvent /\ held.pending.body = b) \/ Has(Sent, b) =>
                (held'.pending # NoEvent /\ held'.pending.body = b) \/ Has(Sent', b)
  <1>1. /\ stream = "reading" /\ stream' = stream /\ out = <<>> /\ Emitted' = Emitted
        /\ Emitted \in Seq(Messages) /\ Undecided /\ Undecided'
    BY DEF IInv, LineRead, Before, Handle, Emitted, Undecided
  <1>2. Sent = Emitted
    BY <1>1, ConcatEmptySeq DEF Sent
  <1>3. Head(line) \in EventSet
    BY HeadTailProperties DEF IInv, Handle, TypeOK, EventSet
  <1>4. CASE IsTerminal(Head(line))
    <2>1. Sent' = Sent /\ held' = held
      BY <1>1, <1>4 DEF Handle, Sent
    <2>2. QED
      BY <1>1, <2>1 DEF SInv, SoundBefore, SoundAfter, AllSent
  <1>5. CASE ~IsTerminal(Head(line))
    <2> DEFINE e == Head(line)
               o == out'
               t == held'
               a == Emitted
    <2>1. e \in Messages
      BY <1>3, <1>5, OnlyEndingsEnd DEF EventSet
    <2>2. o = Push(held, e).out /\ t = Push(held, e).state
      BY <1>5 DEF Handle
    <2>3. held \in Streams /\ held.links \subseteq held.seen
      BY <1>1 DEF IInv, TypeOK, SInv, SoundBefore
    <2>4. PushFacts(held, e)
      BY <2>1, <2>3, PushKeeps
    <2>5. /\ o \in Seq(NonFinal) /\ News(o, held, t) /\ t.links \subseteq t.seen
          /\ \A b \in Bodies \ {Empty, Blank} :
               held.pending # NoEvent /\ held.pending.body = b =>
                 (t.pending # NoEvent /\ t.pending.body = b) \/ Has(o, b)
      BY <2>2, <2>4 DEF PushFacts, Has
    <2>6. a \in Seq(NonFinal) /\ Once(a) /\ Known(a, held)
      BY <1>1, <1>2 DEF SInv, SoundBefore
    <2> HIDE DEF o, t, a, e
    <2>7. Once(a \o o) /\ Known(a \o o, t) /\ a \o o \in Seq(NonFinal)
      BY <2>5, <2>6, NewsAdds, ConcatProperties
    <2>8. Sent' = a \o o
      BY <1>1 DEF Sent, a, o
    <2>9. SInv'
      BY <1>1, <2>5, <2>7, <2>8 DEF SInv, SoundBefore, SoundAfter, AllSent, t
    <2>10. ASSUME NEW b \in Bodies \ {Empty, Blank}, (held.pending # NoEvent /\ held.pending.body = b) \/ Has(Sent, b)
           PROVE  (t.pending # NoEvent /\ t.pending.body = b) \/ Has(Sent', b)
      <3>1. CASE Has(Sent, b)
        <4>1. Has(a, b)
          BY <1>2, <3>1 DEF a
        <4>2. Has(a \o o, b)
          BY <2>5, <2>6, <4>1, HasConcat
        <4>3. QED BY <2>8, <4>2
      <3>2. CASE Has(o, b)
        <4>1. Has(a \o o, b)
          BY <2>5, <2>6, <3>2, HasConcat
        <4>2. QED BY <2>8, <4>1
      <3>3. QED BY <2>5, <2>10, <3>1, <3>2
    <2>11. QED
      BY <1>1, <2>9, <2>10 DEF t
  <1>6. QED
    BY <1>4, <1>5

\* The decision: the parts of Finish behind what was sent, then the end.
LEMMA DecideSound ==
  ASSUME IInv, SInv, Decide
  PROVE  /\ SInv' /\ Undecided /\ ~Undecided'
         /\ \A b \in Bodies \ {Empty, Blank} :
              (held.pending # NoEvent /\ held.pending.body = b) \/ Has(Sent, b) => Has(Sent', b)
  <1> DEFINE t == terminal'
             a == Emitted
             s == held
  <1>1. t \in Endings /\ stream = "waiting" /\ stream' = "ending" /\ Emitted' = a /\ held'.pending = NoEvent
    BY EndingType DEF IInv, Decide, Emitted, Fresh
  <1>2. a \in Seq(Messages) /\ s \in Streams
    BY <1>1 DEF IInv, TypeOK, Before, Emitted
  <1>3. a = Sent /\ a \in Seq(NonFinal) /\ Once(a) /\ Known(a, s) /\ s.links \subseteq s.seen /\ Undecided /\ ~Undecided'
    <2>1. out = <<>>
      BY <1>1 DEF SInv, AllSent
    <2>2. Sent = a
      BY <1>2, <2>1, ConcatEmptySeq DEF Sent
    <2>3. QED
      BY <1>1, <2>2 DEF SInv, SoundBefore, Undecided
  <1>4. PICK o : FinishFacts(s, o, t = Normal) /\ out' = Append(o, t)
    <2>1. PICK final \in Finals \cup {NoText} : out' = Append(Finish(s, final, t = Normal), t)
      BY DEF Decide
    <2>2. FinishFacts(s, Finish(s, final, t = Normal), t = Normal)
      BY <1>2, <1>3, FinishKeeps
    <2>3. QED
      BY <2>1, <2>2, Zenon
  <1> HIDE DEF t, a, s
  <1>5. PICK p \in Seq(NonFinal), f \in Seq(Texts), u \in Seq({Usage}) :
          /\ o = (p \o f) \o u
          /\ Len(f) <= 1 /\ (f # <<>> => t = Normal)
          /\ \E k : News(p, s, k)
          /\ \A b \in Bodies \ {Empty, Blank} :
               s.pending # NoEvent /\ s.pending.body = b =>
                 \/ \E i \in 1 .. Len(p) : IsText(p[i]) /\ p[i].body = b
                 \/ \E i \in 1 .. Len(f) : f[i].body = b
    BY <1>4, Zenon DEF FinishFacts
  <1> DEFINE q == a \o p
             c == Append((q \o f) \o u, t)
  <1>6. q \in Seq(NonFinal) /\ Once(q)
    BY <1>3, <1>5, NewsAdds, ConcatProperties
  <1>7. Sent' = c
    <2>1. /\ a \in Seq(EventSet) /\ p \in Seq(EventSet) /\ f \in Seq(EventSet) /\ u \in Seq(EventSet)
          /\ t \in EventSet
      BY <1>1, <1>3, SeqMonotonic DEF NonFinal, EventSet, Messages
    <2> DEFINE g == p \o f
               h == g \o u
    <2>2. q \in Seq(EventSet) /\ g \in Seq(EventSet) /\ h \in Seq(EventSet)
      BY <2>1, ConcatProperties
    <2>3. a \o g = q \o f
      BY <2>1, Regroup
    <2>4. a \o h = (a \o g) \o u
      <3> HIDE DEF g
      <3>1. a \in Seq(EventSet) /\ g \in Seq(EventSet) /\ u \in Seq(EventSet)
        BY <2>1, <2>2
      <3>2. QED BY <3>1, Regroup, SMTT(60)
    <2>5. a \o Append(h, t) = Append(a \o h, t)
      <3> HIDE DEF h, q
      <3>1. a \in Seq(EventSet) /\ h \in Seq(EventSet) /\ t \in EventSet
        BY <2>1, <2>2
      <3>2. QED BY <3>1, AppendLast
    <2>6. out' = Append(h, t)
      BY <1>4, <1>5
    <2>7. Sent' = a \o Append(h, t)
      BY <1>1, <2>6, Zenon DEF Sent
    <2> HIDE DEF h, g, q
    <2>8. Append(a \o h, t) = Append((q \o f) \o u, t)
      BY <2>3, <2>4, Zenon
    <2>9. QED
      BY <2>5, <2>7, <2>8, Zenon
  <1>8. /\ FinalLast(c, t) /\ Once(c)
        /\ \A b : Has(q, b) \/ (\E i \in 1 .. Len(f) : f[i].body = b) => Has(c, b)
    <2> HIDE DEF q
    <2>1. QED BY <1>1, <1>5, <1>6, EndOfRun
  <1> HIDE DEF c
  <1>9. SInv'
    BY <1>1, <1>3, <1>7, <1>8, Zenon DEF SInv, SoundBefore, SoundAfter, AllSent, t
  <1>10. ASSUME NEW b \in Bodies \ {Empty, Blank}, (held.pending # NoEvent /\ held.pending.body = b) \/ Has(Sent, b)
         PROVE  Has(Sent', b)
    <2>1. CASE Has(Sent, b)
      <3>1. Has(q, b)
        BY <1>3, <1>5, <2>1, HasConcat
      <3>2. QED BY <1>7, <1>8, <3>1
    <2>2. CASE s.pending # NoEvent /\ s.pending.body = b
      <3>1. Has(p, b) \/ \E i \in 1 .. Len(f) : f[i].body = b
        BY <1>5, <2>2 DEF Has
      <3>2. Has(p, b) => Has(q, b)
        BY <1>3, <1>5, HasConcat
      <3>3. QED BY <1>7, <1>8, <3>1, <3>2
    <2>3. QED BY <1>10, <2>1, <2>2 DEF s
  <1>11. QED
    BY <1>3, <1>9, <1>10

LEMMA SoundInit == Init => SInv
  <1> SUFFICES ASSUME Init PROVE SInv
    OBVIOUS
  <1>1. out = <<>> /\ taken = <<>> /\ held = Fresh /\ held.pending = NoEvent /\ held.links \subseteq held.seen
    BY DEF Init, Fresh
  <1>2. CASE stream = "reading"
    <2>1. chan = <<>>
      BY <1>2 DEF Init
    <2>2. Sent = <<>>
      BY <1>1, <2>1 DEF Sent, Emitted
    <2>3. QED
      BY <1>1, <1>2, <2>2 DEF SInv, SoundBefore, SoundAfter, AllSent, Undecided, Once, Known
  <1>3. CASE stream = "closed"
    <2>1. chan = <<terminal>> /\ terminal = Error("spawn")
      BY <1>3 DEF Init
    <2>2. Sent = <<terminal>> /\ terminal \in Endings
      BY <1>1, <2>1 DEF Sent, Emitted, Endings
    <2>3. Len(Sent) = 1 /\ Sent[1] = terminal
      BY <2>2
    <2>4. FinalLast(Sent, terminal) /\ Once(Sent)
      BY <2>2, <2>3, Nots DEF FinalLast, Once
    <2>5. QED
      BY <1>1, <1>3, <2>4 DEF SInv, SoundBefore, SoundAfter, AllSent, Undecided
  <1>4. QED
    BY <1>2, <1>3 DEF Init

LEMMA SoundStep == IInv /\ SInv /\ [Next]_vars => SInv'
  <1> SUFFICES ASSUME IInv, SInv, [Next]_vars PROVE SInv'
    OBVIOUS
  <1>1. CASE ~Handle /\ ~Decide
    BY <1>1, OthersKeep DEF SInv, SoundBefore, SoundAfter
  <1>2. QED
    BY <1>1, HandleSound, DecideSound

LEMMA StageStep == IInv /\ [Next]_vars => IInv'
  BY HandleStep, ReadStep, EmitStep, TakeStep, DecideStep, OtherSteps DEF Next, StreamStep

\* The invariant speaks of all that is sent, the property of what was emitted.
LEMMA SoundIsSound == IInv /\ SInv => SoundOutput
  <1> SUFFICES ASSUME IInv, SInv PROVE SoundOutput
    OBVIOUS
  <1> DEFINE e == Emitted
             a == Sent
  <1>1. e \in Seq(EventSet) /\ out \in Seq(EventSet)
    BY ConcatProperties DEF IInv, TypeOK, EventSet, Emitted
  <1>2. Len(e) \in Nat /\ Len(e) <= Len(a) /\ Len(a) \in Nat /\ \A i \in 1 .. Len(e) : a[i] = e[i]
    <2>1. Len(a) = Len(e) + Len(out) /\ \A i \in 1 .. Len(e) : a[i] = e[i]
      BY <1>1, ConcatProperties DEF Sent
    <2>2. QED BY <1>1, <2>1, LenProperties
  <1>3. Once(a)
    BY DEF SInv, SoundBefore, SoundAfter
  <1>4. \A i \in 1 .. Len(a) : IsFinal(a[i]) =>
          terminal = Normal /\ \A j \in i + 1 .. Len(a) : a[j] = Usage \/ IsTerminal(a[j])
    <2>1. CASE Undecided
      <3>1. a \in Seq(NonFinal)
        BY <2>1 DEF SInv, SoundBefore
      <3> HIDE DEF a
      <3>2. \A i \in 1 .. Len(a) : ~IsFinal(a[i])
        BY <3>1, ElementOfSeq, Nots
      <3>3. QED BY <3>2
    <2>2. CASE ~Undecided
      BY <2>2 DEF SInv, SoundAfter, FinalLast
    <2>3. QED BY <2>1, <2>2
  <1>5. FinalAnswerIsFinal
    <2> SUFFICES ASSUME NEW i \in 1 .. Len(e), IsFinal(e[i])
                 PROVE  terminal = Normal /\ \A j \in i + 1 .. Len(e) : e[j] = Usage \/ IsTerminal(e[j])
      BY DEF FinalAnswerIsFinal
    <2> HIDE DEF a, e
    <2>1. i \in 1 .. Len(a) /\ a[i] = e[i]
      BY <1>2
    <2>2. ASSUME NEW j \in i + 1 .. Len(e) PROVE j \in i + 1 .. Len(a) /\ a[j] = e[j]
      BY <1>2
    <2>3. QED BY <1>4, <2>1, <2>2
  <1>6. AnnouncedOnce
    <2> SUFFICES ASSUME NEW i \in 1 .. Len(e), NEW j \in 1 .. Len(e), i < j, IsAction(e[i]), IsAction(e[j])
                 PROVE  e[i].key # e[j].key /\ (e[i].found => e[i].link # e[j].link)
      BY DEF AnnouncedOnce
    <2> HIDE DEF a, e
    <2>1. i \in 1 .. Len(a) /\ j \in 1 .. Len(a) /\ a[i] = e[i] /\ a[j] = e[j]
      BY <1>2
    <2>2. QED BY <1>3, <2>1 DEF Once
  <1>7. QED BY <1>5, <1>6 DEF SoundOutput

\* What a reader of a run's events may rely on: at most one final answer, of a
\* normal end and last; every action announced once.  For any output.
THEOREM OutputIsSound == Spec => []SoundOutput
  BY InitStage, StageStep, SoundInit, SoundStep, SoundIsSound, PTL DEF Spec

-----------------------------------------------------------------------------
\* A text without a phase that the stream held back is sent before the end of
\* the run, whatever the process does afterwards.
THEOREM CandidateIsSent == Spec => CandidateSurvives
  <1> DEFINE Candidate(b) == held.pending # NoEvent /\ held.pending.body = b
             Kept(b) == Candidate(b) \/ Has(Sent, b)
             Shown(b) == stream = "closed" => \E i \in 1 .. Len(Emitted) : IsText(Emitted[i]) /\ Emitted[i].body = b
  <1>1. SUFFICES ASSUME NEW b \in Bodies \ {Empty, Blank}
                 PROVE  Spec => [](Candidate(b) => []Shown(b))
    BY DEF CandidateSurvives
  <1>2. IInv /\ SInv /\ [Next]_vars /\ Kept(b) => Kept(b)'
    <2> SUFFICES ASSUME IInv, SInv, [Next]_vars, Kept(b) PROVE Kept(b)'
      OBVIOUS
    <2>1. CASE Handle
      BY <2>1, HandleSound
    <2>2. CASE Decide
      BY <2>2, DecideSound
    <2>3. CASE ~Handle /\ ~Decide
      BY <2>3, OthersKeep
    <2>4. QED BY <2>1, <2>2, <2>3
  <1>3. IInv /\ SInv /\ Kept(b) => Shown(b)
    <2> SUFFICES ASSUME IInv, SInv, Kept(b), stream = "closed"
                 PROVE  \E i \in 1 .. Len(Emitted) : IsText(Emitted[i]) /\ Emitted[i].body = b
      OBVIOUS
    <2>1. held.pending = NoEvent /\ out = <<>>
      BY DEF SInv, SoundAfter, AllSent, Undecided
    <2>2. Sent = Emitted
      <3>1. Emitted \in Seq(EventSet)
        BY ConcatProperties DEF IInv, TypeOK, EventSet, Emitted
      <3>2. QED BY <2>1, <3>1, ConcatEmptySeq DEF Sent
    <2>3. QED BY <2>1, <2>2 DEF Has
  <1>4. QED
    BY <1>2, <1>3, InitStage, StageStep, SoundInit, SoundStep, PTL DEF Spec

\* A Stop that comes while the process runs makes the run an interrupted one.
THEOREM StopInterrupts == Spec => StopIsReported
  <1> DEFINE Live == proc = "running" => Undecided
             Stopped == asked /\ (Undecided \/ terminal = Interrupted)
             Told == stream = "closed" => terminal = Interrupted
  <1>1. Init => Live
    BY DEF Init, Undecided
  <1>2. IInv /\ Live /\ [Next]_vars => Live'
    <2> SUFFICES ASSUME IInv, Live, [Next]_vars PROVE Live'
      OBVIOUS
    <2>1. proc' = "running" => proc = "running"
      BY DEF Next, Exit, StderrEnds, PromptEnds, StreamStep, ReadLine, Handle, ReadEnds, Emit, Decide, CloseDone, CloseEvents,
             Take, StopCall, StopTerminate, StopKill, StopReturn, procVars, vars
    <2>2. CASE Handle
      BY <2>1, <2>2 DEF Handle, Undecided
    <2>3. CASE Decide
      BY <2>3 DEF Decide, procVars
    <2>4. CASE ~Handle /\ ~Decide
      BY <2>1, <2>4, OthersKeep
    <2>5. QED BY <2>2, <2>3, <2>4
  <1>3. IInv /\ Stopped /\ [Next]_vars => Stopped'
    <2> SUFFICES ASSUME IInv, Stopped, [Next]_vars PROVE Stopped'
      OBVIOUS
    <2>1. asked'
      BY DEF Next, Exit, StderrEnds, PromptEnds, StreamStep, ReadLine, Handle, ReadEnds, Emit, Decide, CloseDone, CloseEvents,
             Take, StopCall, StopTerminate, StopKill, StopReturn, stopVars, vars, IInv, TypeOK
    <2>2. CASE Handle
      <3>1. stream = "reading" /\ stream' = stream
        BY <2>2 DEF Handle, IInv, LineRead
      <3>2. QED BY <2>1, <3>1 DEF Undecided
    <2>3. CASE Decide
      BY <2>1, <2>3 DEF Decide, Ending
    <2>4. CASE ~Handle /\ ~Decide
      BY <2>1, <2>4, OthersKeep
    <2>5. QED BY <2>2, <2>3, <2>4
  <1>4. Live /\ asked /\ proc = "running" => Stopped
    OBVIOUS
  <1>5. Stopped => Told
    BY DEF Undecided
  <1>6. QED
    BY <1>1, <1>2, <1>3, <1>4, <1>5, InitStage, StageStep, PTL DEF Spec, StopIsReported
=============================================================================
