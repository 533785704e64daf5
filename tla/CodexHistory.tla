------------------------------ MODULE CodexHistory ------------------------------
(***************************************************************************)
(* What the bridge asks of a `codex app-server` it starts for one question *)
(* (internal/adapters/codexhistory): the threads of a directory, which     *)
(* /resume then offers, or how much of the quota is used.  query is a      *)
(* select of the time, the end of the child and the lines a goroutine      *)
(* reads; the child may print anything at any time and may end by itself,  *)
(* and waiting for it closes the pipe it is read from.                     *)
(***************************************************************************)
EXTENDS Naturals, FiniteSets, Sequences, TLC
LOCAL INSTANCE SequencesExt

CONSTANTS Questions,  \* [question, config, current]: what is asked, [home, inherit] of the profile, the thread of the scope or ""
          Environ,    \* the environment of the bridge, <<key, value>> in order
          ProfileHome,
          Output,     \* question -> lines a child may print for it: [id, error, result], [junk], [long]
          LineCap,    \* capacity of the channel of lines
          MaxPrinted  \* bound

VARIABLES ask,      \* [at, question, config, env, current, result]
          child,    \* "none", "runs", "exited" of itself, "killed"
          waited,   \* proc.Wait has returned and closed the pipe
          pipe, lines, reader,
          ending,   \* "no", "timeout" of the query, "cancelled" by the caller
          printed   \* all that the child has printed
historyVars == <<ask, child, waited, pipe, lines, reader, ending, printed>>

ReadError == [failed |-> TRUE]
First(values) == IF \E n \in DOMAIN values : values[n] # "" THEN SelectSeq(values, LAMBDA v : v # "")[1] ELSE ""
-----------------------------------------------------------------------------
envOverrides(config) ==
  IF config.home # "" THEN <<config.home>> ELSE IF ~config.inherit THEN <<ProfileHome>> ELSE <<>>
\* The last of several values counts, at the place of the first.
mergeEnv(base, overrides) ==
  LET LastOf(key) == Last(SelectSeq(base, LAMBDA e : e[1] = key))[2]
      firsts == SelectSeq([n \in DOMAIN base |-> <<n, base[n][1]>>], LAMBDA e : \A m \in 1..e[1] - 1 : base[m][1] # e[2])
      Merged(e) == <<e[2], IF e[2] = "CODEX_HOME" THEN overrides[1] ELSE LastOf(e[2])>>
      kept == [n \in DOMAIN firsts |-> Merged(firsts[n])]
  IN IF overrides = <<>> THEN base
     ELSE IF \E n \in DOMAIN base : base[n][1] = "CODEX_HOME" THEN kept ELSE Append(kept, <<"CODEX_HOME", overrides[1]>>)

\* A thread without an id or a directory is left out.
normalizeThread(raw) ==
  [id |-> raw.id, cwd |-> raw.cwd, preview |-> First(<<raw.said, raw.preview, "empty">>), name |-> raw.name, source |-> First(<<raw.source, "unknown">>)]
parseThreadListResponse(result) ==
  IF ~result.whole THEN [kind |-> "malformed"]
  ELSE LET usable == SelectSeq(result.threads, LAMBDA t : t.id # "" /\ t.cwd # "") IN
       [kind |-> "list", threads |-> [n \in DOMAIN usable |-> normalizeThread(usable[n])]]

Label(minutes) ==
  CASE minutes > 0 /\ minutes % 1440 = 0 -> <<minutes \div 1440, "days">> [] minutes > 0 /\ minutes % 1440 # 0 /\ minutes % 60 = 0 -> <<minutes \div 60, "hours">>
    [] minutes > 0 /\ minutes % 60 # 0 -> <<minutes, "minutes">> [] OTHER -> <<0, "window">>
\* The limits in order, and if there are none the single one of before.
formatUsage(result) ==
  LET snapshots == IF result.limits # <<>> THEN result.limits ELSE result.single
      Lines(s) == LET known == SelectSeq(s.windows, LAMBDA w : w.used # <<>>)
                      credits == [n \in DOMAIN s.credits |-> [credits |-> s.credits[n]]]
                  IN [n \in DOMAIN known |-> [used |-> known[n].used[1], window |-> Label(known[n].minutes)]] \o credits
      Section(s) == [name |-> First(<<s.name, s.key>>), lines |-> IF Lines(s) = <<>> THEN <<[none |-> TRUE]>> ELSE Lines(s)]
  IN IF snapshots = <<>> THEN [kind |-> "malformed"]
     ELSE [kind |-> "usage", sections |-> [n \in DOMAIN snapshots |-> Section(snapshots[n])]]
-----------------------------------------------------------------------------
Idle == [at |-> "idle", question |-> "", config |-> [home |-> "", inherit |-> TRUE], env |-> <<>>, current |-> "", result |-> [kind |-> "none"]]
HistoryInit ==
  /\ ask = Idle /\ child = "none" /\ waited = FALSE /\ pipe = <<>> /\ lines = <<>> /\ reader = "none" /\ ending = "no" /\ printed = <<>>

Answers(kind) == ask' = [ask EXCEPT !.at = "done", !.result = [kind |-> kind]]
\* Whatever the answer is, the child does not outlive it.
cleanupProcess == child' = IF child = "runs" THEN "killed" ELSE child

Start(question, config, current) ==
  /\ ask.at = "idle"
  /\ LET asked == [Idle EXCEPT !.question = question, !.config = config, !.current = current, !.env = mergeEnv(Environ, envOverrides(config))] IN
     \/ ask' = [asked EXCEPT !.at = "writes"] /\ child' = "runs" /\ reader' = "scans"
     \/ ask' = [asked EXCEPT !.at = "done", !.result = [kind |-> "no child"]] /\ UNCHANGED <<child, reader>>
  /\ UNCHANGED <<waited, pipe, lines, ending, printed>>
WritesRequest ==
  /\ ask.at = "writes"
  /\ \/ ask' = [ask EXCEPT !.at = "reads"] /\ UNCHANGED child
     \/ child # "runs" /\ Answers("unwritten") /\ cleanupProcess
  /\ UNCHANGED <<waited, pipe, lines, reader, ending, printed>>

ChildPrints(line) ==
  /\ child = "runs" /\ ask.at # "writes" /\ Len(printed) < MaxPrinted
  /\ pipe' = Append(pipe, line) /\ printed' = Append(printed, line) /\ UNCHANGED <<ask, child, waited, lines, reader, ending>>
ChildEnds ==
  /\ child = "runs" /\ child' = (IF ending = "no" THEN "exited" ELSE "killed") /\ UNCHANGED <<ask, waited, pipe, lines, reader, ending, printed>>
\* What has not been read is gone with the pipe.
WaitReturns ==
  /\ child \in {"exited", "killed"} /\ ~waited /\ waited' = TRUE
  /\ pipe' \in {SubSeq(pipe, 1, n) : n \in 0..Len(pipe)} /\ UNCHANGED <<ask, child, lines, reader, ending, printed>>
TimeIsOver ==
  /\ ask.at \in {"writes", "reads"} /\ ending = "no" /\ ending' \in {"timeout", "cancelled"} /\ UNCHANGED <<ask, child, waited, pipe, lines, reader, printed>>

scanLines ==
  /\ reader = "scans" /\ Len(lines) < LineCap
  /\ \/ /\ pipe # <<>> /\ pipe' = Tail(pipe)
        /\ IF "long" \in DOMAIN Head(pipe) THEN lines' = Append(lines, ReadError) /\ reader' = "ended"
           ELSE lines' = Append(lines, Head(pipe)) /\ UNCHANGED reader
     \/ pipe = <<>> /\ child \in {"exited", "killed"} /\ reader' = "ended" /\ UNCHANGED pipe
        /\ \/ UNCHANGED lines
           \/ waited /\ lines' = Append(lines, ReadError)
  /\ UNCHANGED <<ask, child, waited, ending, printed>>

QueryIsOver ==
  /\ ask.at = "reads" /\ ending # "no" /\ Answers(ending) /\ cleanupProcess
  /\ UNCHANGED <<waited, pipe, lines, reader, ending, printed>>
ChildIsOver ==
  /\ ask.at = "reads" /\ waited /\ Answers(IF ending # "no" THEN ending ELSE "exited")
  /\ UNCHANGED <<child, waited, pipe, lines, reader, ending, printed>>
\* Lines that are no answer, or one to the first request, are passed over.
ReadsLine ==
  /\ ask.at = "reads" /\ lines # <<>> /\ lines' = Tail(lines)
  /\ LET line == Head(lines) IN
     \/ line = ReadError /\ Answers("unread") /\ cleanupProcess
     \/ line # ReadError /\ ("junk" \in DOMAIN line \/ ("id" \in DOMAIN line /\ line.id # 2)) /\ UNCHANGED <<ask, child>>
     \/ /\ "id" \in DOMAIN line /\ line.id = 2 /\ cleanupProcess
        /\ IF line.error THEN Answers("app-server")
           ELSE ask' = [ask EXCEPT !.at = "done",
                          !.result = IF ask.question = "list" THEN parseThreadListResponse(line.result) ELSE formatUsage(line.result)]
  /\ UNCHANGED <<waited, pipe, reader, ending, printed>>
HistoryNext ==
  \/ \E q \in Questions : Start(q.question, q.config, q.current)
  \/ WritesRequest \/ (ask.question # "" /\ \E line \in Output[ask.question] : ChildPrints(line))
  \/ ChildEnds \/ WaitReturns \/ TimeIsOver \/ scanLines \/ QueryIsOver \/ ChildIsOver \/ ReadsLine

\* What /resume offers: those threads, and where there are none the one of the scope.
listCodexResume ==
  LET threads == IF ask.result.kind = "list" THEN ask.result.threads ELSE <<>> IN
  IF threads # <<>> THEN [n \in DOMAIN threads |-> [thread |-> threads[n].id, preview |-> First(<<threads[n].name, threads[n].preview>>), current |-> threads[n].id = ask.current]]
  ELSE IF ask.current # "" THEN <<[thread |-> ask.current, preview |-> "", current |-> TRUE]>> ELSE <<>>
-----------------------------------------------------------------------------
Answered == SelectSeq(printed, LAMBDA l : "id" \in DOMAIN l /\ l.id = 2)

\* The question has the answer the child gave to it, the first if it says more; any failure is
\* the one that happened, the time the query has is not that of the command, and a child that
\* answers and stays is heard (provider.go: query).
AnswerIsOwn ==
  ask.at = "done" =>
    LET kind == ask.result.kind IN
    /\ kind \in {"list", "usage", "malformed"} =>
         /\ Answered # <<>> /\ ~Answered[1].error
         /\ ask.result = IF ask.question = "list" THEN parseThreadListResponse(Answered[1].result) ELSE formatUsage(Answered[1].result)
    /\ kind = "app-server" => Answered # <<>> /\ Answered[1].error
    /\ kind \in {"timeout", "cancelled"} => ending = kind
    /\ kind \in {"exited", "unwritten"} => child # "runs" /\ (ending = "no" => child = "exited")
    /\ kind = "unread" => child # "runs" /\ (waited \/ \E n \in DOMAIN printed : "long" \in DOMAIN printed[n])
    /\ child # "runs"

\* The child has one CODEX_HOME, its own where the profile says so, and the rest as the bridge has it.
EnvIsOwn ==
  ask.env # <<>> =>
    LET Values(env, key) == {env[n][2] : n \in {m \in DOMAIN env : env[m][1] = key}}
        LastOf(env, key) == Last(SelectSeq(env, LAMBDA e : e[1] = key))[2]
        own == ask.config.home # "" \/ ~ask.config.inherit
    IN /\ own => Values(ask.env, "CODEX_HOME") = {IF ask.config.home # "" THEN ask.config.home ELSE ProfileHome}
       /\ \A n \in DOMAIN Environ : LET key == Environ[n][1] IN (own /\ key = "CODEX_HOME") \/ LastOf(ask.env, key) = LastOf(Environ, key)

\* Whoever has a thread may come back to it, whatever became of the question; what is offered has
\* an id and a preview, and a window of the quota is as long as it is called.
OfferedIsUsable ==
  ask.at = "done" =>
    /\ ask.question = "list" /\ ask.current # "" => listCodexResume # <<>>
    /\ ask.question = "list" => \A o \in ToSet(listCodexResume) : o.thread # "" /\ (o.preview # "" \/ o.current)
    /\ ask.result.kind = "usage" => \A s \in ToSet(ask.result.sections) : s.lines # <<>> /\ s.name # ""
    /\ \A minutes \in {0, 1, 59, 60, 90, 300, 1440, 10080, 1500} :
         Label(minutes)[1] * (CASE Label(minutes)[2] = "days" -> 1440 [] Label(minutes)[2] = "hours" -> 60 [] OTHER -> 1) = minutes

HistoryHeld == AnswerIsOwn /\ EnvIsOwn /\ OfferedIsUsable
=============================================================================
