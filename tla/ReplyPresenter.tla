--------------------------- MODULE ReplyPresenter ---------------------------
(***************************************************************************)
(* Present, internal/app/impresenter/presenter.go: one run shown as a      *)
(* message that is edited, a card that is edited, or one answer in the     *)
(* end; with a separate process presenter (COT) as presentRun of           *)
(* pkg/bridge/lark_managed.go joins the two.  An event and the calls it    *)
(* leads to are one step: between them nothing but the failure of the      *)
(* process presenter can happen, and that is only looked at between them.  *)
(* A call that fails has had no effect (assumption).  What a reply shows   *)
(* of a run is reduced as in cardrender/state.go and cut as in             *)
(* card_rollover.go: the text of an event is a sequence of atoms, a tool   *)
(* is shown by its status; wording and layout are left out.                *)
(***************************************************************************)
EXTENDS Naturals, Sequences, FiniteSets
LOCAL INSTANCE SequencesExt

CONSTANTS Settings,     \* records: mode, separate (COT), hideTools, maxUpdates, maxBytes (0: no limit),
                        \* idle
          Scripts,      \* what the run's channel yields before it is closed
          MaxMessageUpdates, MaxLiveMarkdown,
          MaxFailures, MaxMessages   \* bounds of the calls that fail, of the messages of a reply

VARIABLES setting,   \* the input of Present
          script,    \* events of the run that are not read
          reply,     \* Present's state: see PresentInit
          cot,       \* the process presenter: "off", "on", "failed"; cotDone: it has returned
          cotDone

replyVars == <<setting, script, reply, cot, cotDone>>

NewRunState == [status |-> "queued", footer |-> FALSE, blocks |-> <<>>,
                reasoning |-> <<>>, error |-> FALSE]
isActive(s) == s.status \in {"queued", "running"}

TextBlock(phase, id, content, streaming) ==
  [kind |-> "text", phase |-> phase, id |-> id, content |-> content, streaming |-> streaming, tool |-> "none"]
ToolBlock(id) ==
  [kind |-> "tool", phase |-> "", id |-> id, content |-> <<>>, streaming |-> FALSE, tool |-> "running"]

ensureRunning(s) == [s EXCEPT !.status = IF @ = "queued" THEN "running" ELSE @, !.footer = TRUE]
closeStreamingText(s) == [s EXCEPT !.blocks = [i \in DOMAIN @ |-> [@[i] EXCEPT !.streaming = FALSE]]]
statusFromTermination(reason, fromError) ==
  CASE reason = "interrupted" -> "cancelled" [] reason = "timeout" -> "timeout"
    [] reason = "normal" -> IF fromError THEN "failed" ELSE "succeeded" [] OTHER -> "failed"

\* Text continues the block that is open for its phase and item, or opens one.
AddText(s, e) ==
  LET n == Len(s.blocks) IN
  IF n > 0 /\ s.blocks[n].kind = "text" /\ s.blocks[n].streaming
       /\ s.blocks[n].phase = e.phase /\ s.blocks[n].id = e.id
    THEN [s EXCEPT !.blocks[n].content = @ \o e.delta]
    ELSE [closeStreamingText(s) EXCEPT !.blocks = Append(@, TextBlock(e.phase, e.id, e.delta, TRUE))]

Ended(s, status) == [closeStreamingText(s) EXCEPT !.footer = FALSE, !.status = status]

Reduce(s, e) ==
  CASE e.type = "text" -> AddText(ensureRunning(s), e)
    [] e.type = "userAction" -> closeStreamingText(ensureRunning(s))
    [] e.type = "thinking" -> [ensureRunning(s) EXCEPT !.reasoning = @ \o e.delta]
    [] e.type = "toolUse" ->
         [closeStreamingText(ensureRunning(s)) EXCEPT !.blocks = Append(@, ToolBlock(e.id))]
    [] e.type = "toolResult" ->
         [s EXCEPT !.blocks = [i \in DOMAIN @ |->
            IF @[i].kind = "tool" /\ @[i].id = e.id THEN [@[i] EXCEPT !.tool = "done"] ELSE @[i]]]
    [] e.type = "usage" -> ensureRunning(s)
    [] e.type = "system" -> IF s.status = "queued" THEN [s EXCEPT !.status = "running", !.footer = TRUE] ELSE s
    [] e.type = "error" ->
         LET status == statusFromTermination(e.reason, TRUE)
         IN  [Ended(s, status) EXCEPT !.error = @ \/ status = "failed"]
    [] e.type = "done" -> Ended(s, statusFromTermination(e.reason, FALSE))

MarkTimeout(s) == Ended(s, "timeout")
FinalizeIfRunning(s) == IF isActive(s) THEN Ended(s, "succeeded") ELSE s
-----------------------------------------------------------------------------
Keep(s, Test(_)) == [s EXCEPT !.blocks = SelectSeq(@, Test)]
IsFinal(b) == b.kind = "text" /\ b.phase = "final"

progressOnlyState(s) == LET Progress(b) == ~IsFinal(b) IN Keep(s, Progress)
finalAnswerOnlyState(s) ==
  LET hasFinal == \E i \in DOMAIN s.blocks : IsFinal(s.blocks[i])
      Answer(b) == IsFinal(b) \/ (~hasFinal /\ b.kind = "text" /\ b.phase = "")
  IN  [Keep(s, Answer) EXCEPT !.reasoning = <<>>, !.footer = FALSE]
withoutTools(s) == LET Text(b) == b.kind = "text" IN Keep(s, Text)

\* hasCardContent
hasContent(s) ==
  \/ s.reasoning # <<>> \/ s.error
  \/ \E i \in DOMAIN s.blocks : s.blocks[i].kind = "tool" \/ s.blocks[i].content # <<>>

\* What RenderText and RenderCard show: the text, the tools, the line about how the
\* run ended and whether it still goes on; only a card shows the reasoning.
Render(card, s) ==
  LET texts == SelectSeq(s.blocks, LAMBDA b : b.kind = "text")
      tools == SelectSeq(s.blocks, LAMBDA b : b.kind = "tool")
  IN [text |-> FlattenSeq([i \in DOMAIN texts |-> texts[i].content]),
      tools |-> [i \in DOMAIN tools |-> <<tools[i].id, tools[i].tool>>],
      thought |-> IF card THEN s.reasoning ELSE <<>>,
      note |-> IF s.status \in {"cancelled", "timeout"} \/ (s.status = "failed" /\ s.error)
                 THEN s.status ELSE "none",
      running |-> isActive(s) /\ (card \/ s.footer)]
Blank(body) == body.text = <<>> /\ body.tools = <<>> /\ body.note = "none" /\ ~body.running
SizeOf(body) == Len(body.text) + Len(body.tools) + Len(body.thought)
-----------------------------------------------------------------------------
stringDelta(previous, current) ==
  IF IsPrefix(previous, current) THEN SubSeq(current, Len(previous) + 1, Len(current)) ELSE current

\* What a state shows that a published one did not: blocks are compared by place.
cardStateDelta(published, current) ==
  LET New(i) ==
        IF i > Len(published.blocks) THEN <<current.blocks[i]>>
        ELSE LET b == current.blocks[i]  p == published.blocks[i] IN
             IF b.kind = "text" /\ p.kind = "text"
               THEN LET d == stringDelta(p.content, b.content)
                    IN  IF d = <<>> THEN <<>> ELSE <<[b EXCEPT !.content = d]>>
             ELSE IF b = p THEN <<>> ELSE <<b>>
  IN [current EXCEPT !.blocks = FlattenSeq([i \in DOMAIN current.blocks |-> New(i)]),
                     !.reasoning = stringDelta(published.reasoning, current.reasoning)]

\* The longest part of a state that fits, from its start; at least one atom of it.
cardStatePrefix(s, Fits(_)) ==
  LET Cut(i, n) ==   \* the blocks before i and n atoms of block i
        [s EXCEPT !.blocks = Append(SubSeq(s.blocks, 1, i - 1),
                                    [s.blocks[i] EXCEPT !.content = SubSeq(@, 1, n)])]
      Whole(i) == [s EXCEPT !.blocks = SubSeq(s.blocks, 1, i)]
      first == CHOOSE i \in 1 .. Len(s.blocks) : ~Fits(Whole(i)) /\ \A j \in 1 .. i - 1 : Fits(Whole(j))
      Thought(n) == [s EXCEPT !.blocks = <<>>, !.reasoning = SubSeq(@, 1, n)]
      best(len, F(_)) == CHOOSE n \in 1 .. len :
        /\ F(n) \/ n = 1
        /\ \A m \in n + 1 .. len : ~F(m)
  IN CASE Fits(s) -> s
       [] ~Fits(s) /\ s.reasoning # <<>> /\ ~Fits(Thought(Len(s.reasoning))) ->
            Thought(best(Len(s.reasoning), LAMBDA n : Fits(Thought(n))))
       [] OTHER ->
            IF s.blocks[first].kind = "text" /\ s.blocks[first].content # <<>>
              THEN Cut(first, best(Len(s.blocks[first].content), LAMBDA n : Fits(Cut(first, n))))
            ELSE IF hasContent(Whole(first - 1)) THEN Whole(first - 1) ELSE Whole(first)
-----------------------------------------------------------------------------
NoStream == [id |-> 0, state |-> NewRunState, published |-> NewRunState, updates |-> 0]
NoMarkdown == [id |-> 0, base |-> NewRunState, published |-> NewRunState, updates |-> 0]
Start(g) == [at |-> "start", state |-> NewRunState,
             card |-> NoStream, md |-> NoMarkdown, updateFailed |-> FALSE,
             finalOnly |-> g.separate, deferred |-> g.separate, mayResume |-> g.separate,
             tools |-> {}, idle |-> FALSE,
             actionPending |-> FALSE, prompts |-> {}, lost |-> {},
             server |-> <<>>,             \* the messages of the chat, by their ids
             ok |-> TRUE, failures |-> 0, \* of the last call; of all
             rest |-> NewRunState, result |-> "none"]
PresentInit ==
  /\ setting \in Settings /\ script \in Scripts
  /\ reply = Start(setting)
  /\ cot = (IF setting.separate THEN "on" ELSE "off") /\ cotDone = FALSE

\* renderRunState and what is rendered from it; settled is without the footer.
renderRunState(p, s) ==
  LET t == IF p.finalOnly THEN finalAnswerOnlyState(s) ELSE s
  IN  IF setting.hideTools THEN withoutTools(t) ELSE t
Shown(p, s) == Render(setting.mode = "card", renderRunState(p, s))
Settled(p, s) == Shown(p, [s EXCEPT !.footer = FALSE])
progress(s) == IF setting.separate THEN progressOnlyState(s) ELSE s
-----------------------------------------------------------------------------
\* The calls, each with what may come of it.
Fails(p) == IF p.failures < MaxFailures
              THEN {[p EXCEPT !.ok = FALSE, !.failures = @ + 1]} ELSE {}
SendBody(p, body) == {[p EXCEPT !.ok = TRUE, !.server = Append(@, body)]} \cup Fails(p)
UpdateBody(p, id, body) == {[p EXCEPT !.ok = TRUE, !.server[id] = body]} \cup Fails(p)
Then(ps, F(_)) == UNION {IF p.ok THEN F(p) ELSE {p} : p \in ps}
Whatever(ps) == {[p EXCEPT !.ok = TRUE] : p \in ps}   \* the error is dropped

\* Mutant of settleMarkdown: the message that is left is not touched any more.
settleNever(p, id, s) == {p}

\* settleMarkdownMessage: markdownSettleAttempts attempts.
settleMarkdown(p, id, s) ==
  IF id = 0 \/ Blank(Settled(p, s)) THEN {p}
  ELSE Whatever(UNION {IF q.ok THEN {q} ELSE UpdateBody(q, id, Settled(p, s))
                         : q \in UpdateBody(p, id, Settled(p, s))})

mdStart(p, s) ==
  IF Blank(Shown(p, s)) THEN {[p EXCEPT !.ok = TRUE]}
  ELSE Then(SendBody(p, Shown(p, s)),
            LAMBDA q : {[q EXCEPT !.md = [@ EXCEPT !.id = Len(q.server), !.published = s, !.updates = 0]]})

hasUnpublished(p, s) == ~Blank(Settled(p, cardStateDelta(p.md.published, s)))

EmptyNote == [text |-> <<>>, tools |-> <<>>, thought |-> <<>>, note |-> "nothing returned", running |-> FALSE]
mdUpdate(p, s) ==
  LET body == Shown(p, cardStateDelta(p.md.base, s)) IN
  IF Blank(body) /\ isActive(s) THEN {[p EXCEPT !.ok = TRUE]}
  ELSE Then(UpdateBody(p, p.md.id, IF Blank(body) THEN EmptyNote ELSE body),
            LAMBDA q : {[q EXCEPT !.md.published = s, !.md.updates = @ + 1]})

\* Mutant of mdRollover: the new message starts where the old one did.
mdRolloverRepeats(p, s) ==
  LET delta == cardStateDelta(p.md.base, s)  body == Shown(p, delta) IN
  IF Blank(body) THEN mdUpdate(p, s)
  ELSE Then(SendBody(p, body), LAMBDA q :
         settleMarkdown([q EXCEPT !.md = [id |-> Len(q.server), base |-> p.md.published,
                                          published |-> s, updates |-> 0]],
                        p.md.id, cardStateDelta(p.md.base, p.md.published)))

\* What is not published goes to a new message, then the old one is settled.
mdRollover(p, s) ==
  LET delta == cardStateDelta(p.md.published, s)  body == Shown(p, delta) IN
  IF Blank(body) THEN mdUpdate(p, s)
  ELSE IF isActive(s) /\ SizeOf(body) > MaxLiveMarkdown THEN {[p EXCEPT !.ok = TRUE]}
  ELSE Then(SendBody(p, body), LAMBDA q :
         settleMarkdown([q EXCEPT !.md = [id |-> Len(q.server), base |-> p.md.published,
                                          published |-> s, updates |-> 0]],
                        p.md.id, cardStateDelta(p.md.base, p.md.published)))

mdFull(p) == p.md.updates >= MaxMessageUpdates
mdFlush(p, s) ==
  IF p.md.id = 0 THEN mdStart(p, s)
  ELSE IF mdFull(p) THEN (IF hasUnpublished(p, s) THEN mdRollover(p, s) ELSE {[p EXCEPT !.ok = TRUE]})
  ELSE mdUpdate(p, s)
mdFinish(p, s) == IF mdFull(p) /\ hasUnpublished(p, s) THEN mdRollover(p, s) ELSE mdUpdate(p, s)
mdFallback(p, s) ==
  LET missing == Shown(p, cardStateDelta(p.md.published, s)) IN
  IF Blank(missing) THEN settleMarkdown(p, p.md.id, cardStateDelta(p.md.base, s))
  ELSE UNION {SendBody(q, missing) : q \in settleMarkdown(p, p.md.id, cardStateDelta(p.md.base, p.md.published))}
-----------------------------------------------------------------------------
Fits(p, s) == SizeOf(Shown(p, s)) <= setting.maxBytes
prefix(p, s) == IF setting.maxBytes = 0 THEN s ELSE cardStatePrefix(s, LAMBDA t : Fits(p, t))

shouldRollover(p) ==
  /\ hasContent(renderRunState(p, cardStateDelta(p.card.published, p.card.state)))
  /\ \/ setting.maxUpdates > 0 /\ p.card.updates >= setting.maxUpdates
     \/ setting.maxBytes > 0 /\ ~Fits(p, p.card.state)

\* The next card shows what fits of what is not published; closing the old one is
\* best effort.
cardRollover(p) ==
  LET pending == cardStateDelta(p.card.published, p.card.state)
      next == prefix(p, pending) IN
  Then(SendBody(p, Shown(p, next)), LAMBDA q :
    LET r == [q EXCEPT !.card = [id |-> Len(q.server), state |-> pending,
                                                  published |-> next, updates |-> 0]]
    IN  IF p.card.id = 0 THEN {r}
        ELSE Whatever(UpdateBody(r, p.card.id, Shown(p, Ended(p.card.published, "succeeded")))))

RECURSIVE cardFlush(_, _)
cardFlush(p, rolledOver) ==
  IF shouldRollover(p) THEN Then(cardRollover(p), LAMBDA q : cardFlush(q, TRUE))
  ELSE IF rolledOver THEN {p}
  ELSE Then(UpdateBody(p, p.card.id, Shown(p, p.card.state)),
            LAMBDA q : {[q EXCEPT !.card.published = q.card.state, !.card.updates = @ + 1]})

applyFinalState(p) ==
  [p EXCEPT !.card.state = [closeStreamingText(@) EXCEPT
     !.status = p.state.status, !.footer = p.state.footer, !.error = p.state.error]]
RECURSIVE prepareFinal(_)
prepareFinal(p) ==
  LET q == applyFinalState(p) IN
  IF shouldRollover(q) THEN Then(cardRollover(q), prepareFinal) ELSE {q}
-----------------------------------------------------------------------------
startProgress(p) ==
  CASE setting.mode = "card" ->
         Then(SendBody(p, Shown(p, progress(p.state))), LAMBDA q :
              {[q EXCEPT !.card = [@ EXCEPT !.id = Len(q.server), !.published = q.card.state, !.updates = 0]]})
    [] setting.mode = "markdown" ->
         LET s == Reduce(p.state, [type |-> "system"])
         IN  mdStart([p EXCEPT !.state = s], progress(s))
    [] OTHER -> {p}
\* A failure puts everything off to the end.
OrDefer(ps) == {IF q.ok THEN q ELSE [q EXCEPT !.ok = TRUE, !.deferred = TRUE] : q \in ps}

PresentStarts ==
  /\ reply.at = "start"
  /\ \E q \in (IF reply.deferred THEN {reply} ELSE OrDefer(startProgress(reply))) :
       reply' = [q EXCEPT !.at = "loop"]
  /\ UNCHANGED <<setting, script, cot, cotDone>>

Resumed(p) == [p EXCEPT !.mayResume = FALSE, !.finalOnly = FALSE]
ResumeLive ==
  /\ reply.at = "loop" /\ reply.mayResume /\ cot = "failed"
  /\ reply' \in OrDefer(startProgress([Resumed(reply) EXCEPT !.deferred = FALSE]))
  /\ UNCHANGED <<setting, script, cot, cotDone>>

\* actionDelivery.send: a prompt that cannot be sent is sent as a card.  One that
\* was delivered is not sent again.
sendAction(p, e) ==
  IF e.id \in p.prompts THEN {p}
  ELSE {[p EXCEPT !.prompts = @ \cup {e.id}, !.lost = @ \ {e.id}]}
       \cup (IF p.failures = MaxFailures THEN {}
             ELSE {[p EXCEPT !.lost = @ \cup {e.id}, !.failures = @ + 1]})

\* What follows an event: the states, then the card and the message unless they
\* were edited a moment ago (streamThrottle).  An edit of the message that fails
\* is the last.
afterEvent(p, e) ==
  LET s == Reduce(p.state, e)
      q == [p EXCEPT !.state = s, !.card.state = Reduce(@, e)]
      carded == IF ~q.deferred /\ q.card.id # 0 THEN {q} \cup Whatever(cardFlush(q, FALSE)) ELSE {q}
      marked(r) == IF r.deferred \/ r.updateFailed \/ setting.mode # "markdown"
                        \/ Blank(Shown(r, progress(s))) THEN {r}
                   ELSE mdFlush(r, progress(s)) \cup (IF r.md.id = 0 THEN {} ELSE {r})
      noted(r) == IF r.ok THEN r ELSE [r EXCEPT !.ok = TRUE, !.updateFailed = r.md.id # 0]
  IN IF setting.separate /\ e.type = "text" /\ e.phase = "final" THEN {[p EXCEPT !.state = s]}
     ELSE IF setting.separate /\ ~isActive(s) THEN {[q EXCEPT !.at = "done"]}
     ELSE {[noted(r) EXCEPT !.at = IF isActive(s) THEN "loop" ELSE "done"] : r \in UNION {marked(c) : c \in carded}}

OnEvent ==
  /\ reply.at = "loop" /\ script # <<>>
  /\ script' = Tail(script)
  /\ LET e == Head(script)
         flight == CASE e.type = "toolUse" -> reply.tools \cup {e.id}
                     [] e.type = "toolResult" -> reply.tools \ {e.id}
                     [] OTHER -> reply.tools
         p == [reply EXCEPT !.tools = flight]
         acted == IF e.type = "userAction"
                    THEN {[q EXCEPT !.actionPending = TRUE] : q \in sendAction(p, e)}
                  ELSE IF e.type \in {"text", "thinking", "toolUse", "toolResult"}
                    THEN {[p EXCEPT !.actionPending = FALSE]} ELSE {p}
     IN reply' \in UNION {afterEvent(q, e) : q \in acted}
  /\ UNCHANGED <<setting, cot, cotDone>>

EventsEnd ==
  /\ reply.at = "loop" /\ script = <<>> /\ reply' = [reply EXCEPT !.at = "done"]
  /\ UNCHANGED <<setting, script, cot, cotDone>>

\* Nothing came for the idle time and no tool is at work: the run is stopped.
IdleFires ==
  /\ reply.at = "loop" /\ setting.idle /\ reply.tools = {}
  /\ reply' = [reply EXCEPT !.at = "done", !.idle = TRUE] /\ script' = <<>>
  /\ UNCHANGED <<setting, cot, cotDone>>

Over(p, ok) == [p EXCEPT !.at = "over", !.result = IF ok /\ p.lost = {} THEN "ok" ELSE "error"]
Cancelled ==
  /\ reply.at \in {"loop", "before"} /\ reply' = Over(reply, FALSE)
  /\ UNCHANGED <<setting, script, cot, cotDone>>

\* The process presenter: it may fail, and it returns once the run's events are over.
CotFails ==
  /\ cot = "on" /\ ~cotDone /\ cot' = "failed" /\ UNCHANGED <<setting, script, reply, cotDone>>
CotReturns ==
  /\ cot # "off" /\ ~cotDone /\ (script = <<>> \/ reply.at \in {"done", "before"})
  /\ cotDone' = TRUE /\ UNCHANGED <<setting, script, reply, cot>>
-----------------------------------------------------------------------------
Finalised ==
  /\ reply.at = "done"
  /\ reply' = [reply EXCEPT !.at = "before",
       !.state = IF ~isActive(@) THEN @ ELSE IF reply.idle THEN MarkTimeout(@) ELSE FinalizeIfRunning(@)]
  /\ UNCHANGED <<setting, script, cot, cotDone>>

\* Progress that was resumed is settled and the answer gets a message of its own.
separateAnswer(p) ==
  IF ~setting.separate \/ p.finalOnly THEN {p}
  ELSE LET s == progressOnlyState(p.state)
           marked == settleMarkdown(p, p.md.id, cardStateDelta(p.md.base, s))
           carded == UNION {IF q.card.id = 0 THEN {q}
                            ELSE Whatever(UpdateBody(q, q.card.id, Shown(q, s))) : q \in marked}
       IN {[q EXCEPT !.finalOnly = TRUE, !.deferred = TRUE, !.md = NoMarkdown,
                     !.card = [NoStream EXCEPT !.state = p.state, !.published = p.state]] : q \in carded}

Placeholder == 0   \* the text of an answer that did not come
unanswered(p) == p.finalOnly /\ p.state.status = "succeeded" /\ ~hasContent(finalAnswerOnlyState(p.state))
withPlaceholder(p) ==
  IF unanswered(p)
    THEN [p EXCEPT !.state.blocks = Append(@, TextBlock("final", "", <<Placeholder>>, FALSE))] ELSE p

sendFinal(p, s) ==
  IF setting.mode = "card"
    THEN IF p.card.id # 0 THEN UpdateBody(p, p.card.id, Shown(p, s)) ELSE SendBody(p, Shown(p, s))
  ELSE IF setting.mode = "markdown" /\ p.md.id # 0
    THEN IF p.updateFailed THEN mdFallback(p, s)
         ELSE UNION {IF q.ok THEN {q} ELSE mdFallback([q EXCEPT !.ok = TRUE], s) : q \in mdFinish(p, s)}
  ELSE IF Blank(Shown(p, s)) THEN {p} ELSE SendBody(p, Shown(p, s))

deliver(p) ==
  CASE setting.mode = "card" /\ p.deferred /\ setting.maxBytes > 0 /\ ~Fits(p, p.state) ->
         {[p EXCEPT !.at = "split", !.rest = renderRunState(p, p.state)]}
    [] setting.mode = "card" /\ ~p.deferred ->
         {Over(r, r.ok) : r \in Then(prepareFinal(p), LAMBDA q : sendFinal(q, q.card.state))}
    [] OTHER -> {Over(r, r.ok) : r \in sendFinal(p, p.state)}

\* BeforeFinal waits for the process presenter, whose last failure is looked for
\* once more.  A run that ends with a prompt the user has seen needs no answer.
Answered ==
  /\ reply.at = "before" /\ (setting.separate => cotDone)
  /\ LET p == IF reply.mayResume /\ cot = "failed" THEN Resumed(reply) ELSE reply IN
     reply' \in UNION {IF unanswered(q) /\ q.actionPending /\ q.prompts # {} THEN {Over(q, TRUE)}
                       ELSE deliver(withPlaceholder(q)) : q \in separateAnswer(p)}
  /\ UNCHANGED <<setting, script, cot, cotDone>>

\* sendSplitFinalCards: card after card while there is something left to show.
SplitCard ==
  /\ reply.at = "split" /\ Len(reply.server) < MaxMessages
  /\ LET next == prefix(reply, reply.rest)
         rest == cardStateDelta(next, reply.rest) IN
     reply' \in {IF ~r.ok \/ ~hasContent(renderRunState(r, rest)) THEN Over(r, r.ok)
                 ELSE [r EXCEPT !.rest = rest] : r \in SendBody(reply, Shown(reply, next))}
  /\ UNCHANGED <<setting, script, cot, cotDone>>

PresentNext ==
  \/ PresentStarts \/ ResumeLive \/ OnEvent \/ EventsEnd \/ IdleFires \/ Cancelled
  \/ CotFails \/ CotReturns \/ Finalised \/ Answered \/ SplitCard
-----------------------------------------------------------------------------
Times(a) == LET shows(i) == {k \in DOMAIN reply.server[i].text : reply.server[i].text[k] = a}
            IN  Cardinality(UNION {{<<i, k>> : k \in shows(i)} : i \in DOMAIN reply.server})
Atoms(s) == UNION {{s.blocks[i].content[k] : k \in DOMAIN s.blocks[i].content} : i \in DOMAIN s.blocks}
resumed == setting.separate /\ ~reply.mayResume

\* When Present returns without an error, every prompt was delivered and the chat
\* shows every piece of the answer once, whichever edits failed and wherever it went
\* on in a new message; without a separate process presenter so with the rest of the
\* text.  Text that has no phase is progress and answer when progress was resumed.
ShownOnce == reply.result = "ok" =>
  /\ reply.lost = {}
  /\ \A a \in Atoms(finalAnswerOnlyState(reply.state)) :
       Times(a) = 1 \/ (resumed /\ Times(a) > 0 /\ a \in Atoms(progressOnlyState(reply.state)))
  /\ ~setting.separate => \A a \in Atoms(reply.state) : Times(a) = 1

\* A run that is over is not shown as going on, unless a call failed: not by a
\* message that shows anything else.
SettledWhenOver == (reply.result = "ok" /\ reply.failures = 0) =>
  \A i \in DOMAIN reply.server :
    reply.server[i].running => (setting.mode = "markdown" /\ SizeOf(reply.server[i]) = 0 /\ i < Len(reply.server))

\* Every card a long answer is split into shows something of it.
OnlyUnpublished == reply.at = "split" =>
  \A i \in DOMAIN reply.server : SizeOf(reply.server[i]) > 0
=============================================================================
