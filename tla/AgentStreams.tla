------------------------------ MODULE AgentStreams ------------------------------
(***************************************************************************)
(* How the lines an agent prints become events: the translators of         *)
(* claudecli/stream_json.go and compat/codex/jsonl.go, which remember what *)
(* was begun, and what agentoutput finds in the messages and results.      *)
(* Commands run side by side, so that their results come in any order.     *)
(***************************************************************************)
EXTENDS Naturals, Sequences, FiniteSets
LOCAL INSTANCE SequencesExt

CONSTANTS ClaudeLines, CodexLines,   \* what they may print, one record a line
          MaxLinesRead               \* bound: of the lines of a run

VARIABLES agent,   \* which of the two
          known,   \* the translator: [session, terminal, commands, started, error, drift]
          heard,   \* the lines read
          told     \* the events told
streamVars == <<agent, known, heard, told>>

\* A command is known by what it is: a login with both flags, alone or wrapped by a shell as one
\* literal; a compound one is never taken apart.
loginCommandFields(command) == IF command = "sh -c 'login'" THEN "login" ELSE IF command = "login | tee" THEN "" ELSE command
\* The output holds the link itself, or under data; it has to be one of https.
LarkAuthorization(command, output) ==
  IF loginCommandFields(command) = "login" /\ output \in {"url", "data url"} THEN <<[type |-> "user_action", kind |-> "authorization"]>> ELSE <<>>

Text(body, phase) == [type |-> "text", body |-> body, phase |-> phase]
ToolUse(id, command) == [type |-> "tool_use", id |-> id, command |-> command]
ToolResult(id, output, error) == [type |-> "tool_result", id |-> id, output |-> output, error |-> error]
System(session) == [type |-> "system", session |-> session]
Error(message) == [type |-> "error", message |-> message]
doneEvent(session, reason) == [type |-> "done", session |-> session, reason |-> reason]
usageEvent(line) == IF line.usage THEN <<[type |-> "usage"]>> ELSE <<>>
IsEnd(e) == e.type \in {"done", "error"}

Blank == [session |-> "", terminal |-> FALSE, commands |-> {}, started |-> {}, error |-> "", drift |-> 0]
\* The commands remembered are pairs of an id and the command.
CommandOf(k, id) == IF \E c \in k.commands : c[1] = id THEN (CHOOSE c \in k.commands : c[1] = id)[2] ELSE ""
Forget(k, id) == [k EXCEPT !.commands = {c \in @ : c[1] # id}]
Remember(k, id, command) == [Forget(k, id) EXCEPT !.commands = @ \cup {<<id, command>>}]
Becomes(k, events) == [known |-> k, events |-> events]
-----------------------------------------------------------------------------
\* Claude Code: a line holds blocks; what is of a subtask is commentary.
translateAssistant(line) ==
  LET Translated(b) ==
        CASE b.kind = "text" -> IF b.body = "" THEN <<>> ELSE <<Text(b.body, IF line.parent THEN "commentary" ELSE "")>>
          [] b.kind = "thinking" -> <<[type |-> "thinking"]>>
          [] b.kind = "tool_use" /\ b.id # "" -> <<ToolUse(b.id, IF b.name = "Bash" THEN b.command ELSE "")>>
          [] OTHER -> <<>>
  IN FlattenSeq([n \in DOMAIN line.blocks |-> Translated(line.blocks[n])])
rememberCommands(k, line) ==
  LET Remembers(m, b) == IF b.kind = "tool_use" /\ b.id # "" /\ b.name = "Bash" THEN Remember(m, b.id, b.command) ELSE m
  IN FoldLeft(Remembers, k, line.blocks)

\* A result made of parts is passed on as their JSON, in which no link is found.
translateUser(k, line) ==
  LET Results(m, b) ==
        LET output == IF b.parts THEN "json" ELSE b.output
        IN Becomes(Forget(m.known, b.id),
             m.events \o <<ToolResult(b.id, output, b.error)>>
             \o (IF b.error THEN <<>> ELSE LarkAuthorization(CommandOf(m.known, b.id), output)))
  IN FoldLeft(Results, Becomes(k, <<>>), SelectSeq(line.blocks, LAMBDA b : b.id # ""))

translateResult(k, line) ==
  LET session == IF line.session # "" THEN line.session ELSE k.session
  IN Becomes([k EXCEPT !.terminal = TRUE, !.session = session],
       (IF line.failed THEN <<>> ELSE <<Text(line.result, "final_answer")>>) \o usageEvent(line)
       \o (IF line.failed THEN <<Error(line.result)>> ELSE <<doneEvent(session, "normal")>>))

ClaudeTranslate(k, line) ==
  CASE line.type = "init" -> Becomes([k EXCEPT !.session = line.session], <<System(line.session)>>)
    [] line.type = "assistant" -> Becomes(rememberCommands(k, line), translateAssistant(line))
    [] line.type = "user" -> translateUser(k, line)
    [] line.type = "result" -> translateResult(k, line)
    [] OTHER -> Becomes(k, <<>>)
ClaudeFinish(k, reason) == IF reason = "failed" THEN <<>> ELSE <<doneEvent(k.session, reason)>>
-----------------------------------------------------------------------------
\* Codex: a line is an item; what does not fit is counted as drift.
Drifts(k) == [k EXCEPT !.drift = @ + 1]
translateItemStarted(k, line) ==
  IF line.id = "" THEN Becomes(Drifts(k), <<>>)
  ELSE Becomes([Remember(k, line.id, line.command) EXCEPT !.started = @ \cup {line.id}], <<ToolUse(line.id, line.command)>>)
\* Without an exit code a command has not failed.
translateCommandExecutionCompleted(k, line) ==
  LET error == line.exit \notin {"", "0"}
      drifted == IF line.id \in k.started THEN k ELSE Drifts(k)
  IN IF line.id = "" THEN Becomes(Drifts(k), <<>>)
     ELSE Becomes([Forget(drifted, line.id) EXCEPT !.started = @ \ {line.id}],
            <<ToolResult(line.id, line.output, error)>>
            \o (IF error THEN <<>> ELSE LarkAuthorization(CommandOf(k, line.id), line.output)))
CodexTranslate(k, line) ==
  CASE line.type = "thread.started" ->
         IF line.session = "" THEN Becomes(Drifts(k), <<>>)
         ELSE Becomes([k EXCEPT !.session = line.session], <<System(line.session)>>)
    [] line.type = "item.started" -> translateItemStarted(k, line)
    [] line.type = "item.completed" -> translateCommandExecutionCompleted(k, line)
    [] line.type = "agent_message" -> Becomes(k, IF line.body = "" THEN <<>> ELSE <<Text(line.body, line.phase)>>)
    [] line.type = "turn.completed" ->
         Becomes([k EXCEPT !.terminal = TRUE], usageEvent(line) \o <<doneEvent(k.session, "normal")>>)
    [] line.type = "turn.failed" -> Becomes([k EXCEPT !.terminal = TRUE], <<Error(line.message)>>)
    [] line.type = "error" -> Becomes([k EXCEPT !.error = line.message], <<>>)
    [] line.type = "turn.started" -> Becomes(k, <<>>)
    [] OTHER -> Becomes(Drifts(k), <<>>)
CodexFinish(k, reason) == IF reason = "failed" THEN <<Error(k.error)>> ELSE <<doneEvent(k.session, reason)>>
-----------------------------------------------------------------------------
StreamInit == agent \in {"claude", "codex"} /\ known = Blank /\ heard = <<>> /\ told = <<>>

\* What follows the end of a run changes nothing.
TranslateLine(line) ==
  /\ ~known.terminal /\ Len(heard) < MaxLinesRead /\ heard' = Append(heard, line)
  /\ LET after == IF agent = "claude" THEN ClaudeTranslate(known, line) ELSE CodexTranslate(known, line)
     IN known' = after.known /\ told' = told \o after.events
  /\ UNCHANGED agent
FinishStream(reason) ==
  /\ ~known.terminal /\ known' = [known EXCEPT !.terminal = TRUE]
  /\ told' = told \o (IF agent = "claude" THEN ClaudeFinish(known, reason) ELSE CodexFinish(known, reason))
  /\ UNCHANGED <<agent, heard>>

StreamNext ==
  \/ \E line \in IF agent = "claude" THEN ClaudeLines ELSE CodexLines : TranslateLine(line)
  \/ \E reason \in {"failed", "interrupted", "timeout"} : FinishStream(reason)
-----------------------------------------------------------------------------
\* The command whose result is the n-th event: the last one begun under its id and not answered yet.
Begun(n) ==
  LET uses == {m \in 1..n - 1 : told[m].type \in {"tool_use", "tool_result"} /\ told[m].id = told[n].id}
      last == CHOOSE m \in uses : \A l \in uses : l <= m
  IN IF uses # {} /\ told[last].type = "tool_use" THEN told[last].command ELSE ""
\* A login is announced right after the result of a command that was begun as a login and did not
\* fail, whatever else was begun or ended between them, and for nothing else (stream_json.go:
\* Translate; jsonl.go: translateCommandExecutionCompleted).
LoginsAnnounced ==
  /\ \A n \in DOMAIN told : told[n].type = "tool_result" =>
       (Begun(n) \in {"login", "sh -c 'login'"} /\ ~told[n].error /\ told[n].output \in {"url", "data url"}
        <=> n < Len(told) /\ told[n + 1].type = "user_action")
  /\ \A n \in DOMAIN told : told[n].type = "user_action" => n > 1 /\ told[n - 1].type = "tool_result"

\* A run ends once, after everything else, and under the session it was told last
\* (the terminal flag of both translators).
EndIsLast ==
  /\ \A n \in DOMAIN told : IsEnd(told[n]) => n = Len(told)
  /\ told # <<>> /\ Last(told).type = "done" =>
       LET named == SelectSeq(heard, LAMBDA l : l.type \in {"init", "thread.started", "result"} /\ l.session # "")
       IN Last(told).session = (IF named = <<>> THEN "" ELSE Last(named).session)

\* What a subtask of Claude says is never taken for the answer.
SubtasksAreCommentary == \A n \in DOMAIN told : told[n].type = "text" /\ told[n].body = "sub" => told[n].phase = "commentary"

StreamsHeld == LoginsAnnounced /\ EndIsLast /\ SubtasksAreCommentary
=============================================================================
