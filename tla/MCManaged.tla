------------------------------ MODULE MCManaged ------------------------------
(***************************************************************************)
(* The parts of a managed bridge, each on its own: every behaviour is one  *)
(* of the lifecycle, of the messages or the forms of the intake, of a      *)
(* reply, of a process message or of a managed card, and all the others    *)
(* stay as they begin.  Each comes to rest, and then nothing happens.      *)
(***************************************************************************)
EXTENDS BridgeLifecycle, ManagedIntake, Published, ConfigStore

VARIABLES part, setting, script, reply, cot, cotDone

Msg(s, c, p, at, cmd) == [sender |-> s, chat |-> c, p2p |-> p, mentioned |-> at, command |-> cmd]
Open == [users |-> {"u"}, chats |-> {"g"}, admins |-> {"a"}, requireMention |-> TRUE, typing |-> TRUE]
Shut == [users |-> {}, chats |-> {}, admins |-> {"a"}, requireMention |-> FALSE, typing |-> FALSE]
SentMessages == {Msg("a", "g", FALSE, FALSE, FALSE), Msg("x", "g", FALSE, TRUE, FALSE), Msg("a", "g", FALSE, TRUE, TRUE)}
AccessProfiles == {Open, Shut}

\* Runs whose text and tools fall on several edits and several messages.
T(phase, id, delta) == [type |-> "text", phase |-> phase, id |-> id, delta |-> delta]
Thinks(delta) == [type |-> "thinking", delta |-> delta]
Tool(type) == [type |-> type, id |-> "t"]
Asks(id) == [type |-> "userAction", id |-> id]
Ends(type, reason) == [type |-> type, reason |-> reason]
Texts == {
  <<T("commentary", "c", <<1>>), Tool("toolUse"), Tool("toolResult"), T("commentary", "c", <<2>>),
    T("final", "f", <<3, 4, 5>>), T("final", "f", <<6>>), Ends("done", "normal")>>,
  <<Thinks(<<1>>), T("", "", <<2, 3>>), Asks("a"), T("", "", <<4>>), Ends("done", "normal")>>,
  <<T("commentary", "c", <<1>>), T("commentary", "d", <<2>>), T("commentary", "d", <<3>>), Asks("a"), Asks("a"),
    Ends("error", "normal")>>,
  <<T("final", "f", <<1>>), Tool("toolUse"), T("final", "f", <<2>>), [type |-> "usage"]>>,
  <<Thinks(<<1, 2, 3>>), T("final", "f", <<4, 5, 6>>), Ends("error", "normal")>>}
Setting(m, s, h, u, b, i) ==
  [mode |-> m, separate |-> s, hideTools |-> h, maxUpdates |-> u, maxBytes |-> b, idle |-> i]
Ways ==
  {Setting("markdown", s, h, 0, 0, s) : s, h \in BOOLEAN}
  \cup {Setting("card", s, h, u, b, h) : s, h \in BOOLEAN, u \in {0, 1}, b \in {0, 2}}
  \cup {Setting("text", s, TRUE, 0, 0, FALSE) : s \in BOOLEAN}
Reply == INSTANCE ReplyPresenter WITH
  Settings <- Ways, Scripts <- Texts, MaxMessageUpdates <- 1, MaxLiveMarkdown <- 2, MaxFailures <- 1, MaxMessages <- 6
replyVars == <<setting, script, reply, cot, cotDone>>

Told(type, id, phase, reason) == [type |-> type, id |-> id, phase |-> phase, reason |-> reason]
CotRuns == {
  <<Told("thinking", "", "", ""), Told("text", "c", "commentary", ""), Told("toolUse", "t", "", ""),
      Told("toolResult", "t", "", ""), Told("text", "f", "final", ""), Told("done", "", "", "normal")>>,
  <<Told("text", "c", "commentary", ""), Told("text", "d", "commentary", ""), Told("userAction", "", "", ""),
      Told("error", "", "", "normal")>>,
  <<Told("userAction", "", "", ""), Told("thinking", "", "", ""), Told("usage", "", "", "")>>}

\* Files with defaults left out, with old spellings, and with what is to be refused.
May(default, max, claude) == [default |-> default, max |-> max, claude |-> claude]
Plain == [version |-> 2, agent |-> "claude", app |-> "a1", secrets |-> <<>>, reply |-> "card", mention |-> <<>>,
          users |-> {"u"}, chats |-> {"g"}, admins |-> {"a"}, requireMention |-> <<>>, workspace |-> "",
          sandbox |-> NoSandbox, permissions |-> May("unset", "unset", "unset"), codex |-> <<>>,
          attachments |-> 0, larkCli |-> <<>>]
Coded(home) == [Plain EXCEPT !.agent = "codex", !.codex = <<[home |-> home, inherit |-> <<>>, ignoreRules |-> <<FALSE>>]>>]
Root(profiles) == [kind |-> "root", active |-> "p", secrets |-> <<"root">>, migrated |-> {"p"}, extra |-> {"x"},
                   profiles |-> profiles]
FilesFound ==
  {Root([p |-> [Plain EXCEPT !.permissions = May(d, m, c)]]) :
     d \in {"unset", "readonly", "full"}, m \in {"unset", "workspace", "full"}, c \in {"unset", "plan", "bypassPermissions"}}
  \cup {Root([p |-> [Plain EXCEPT !.sandbox = [NoSandbox EXCEPT !.max = m, !.defaultMode = d],
                                  !.permissions = May("unset", "unset", c), !.mention = <<FALSE>>]]) :
           m, d \in {"unset", "read-only", "workspace-write"}, c \in {"unset", "acceptEdits"}}
  \cup {Root([p |-> Coded(h), q |-> [Plain EXCEPT !.version = v, !.reply = "post", !.secrets = <<"own">>,
                                     !.larkCli = <<[preset |-> "other", import |-> "imported"]>>]]) : h \in {"", "h"}, v \in {1, 2}}
  \cup {[kind |-> "legacy", profile |-> [Plain EXCEPT !.mention = <<FALSE>>, !.app = app], secrets |-> <<"root">>] : app \in {"", "a1"}}
AskedFor == {[profile |-> p, active |-> "unset", activeFile |-> f, agent |-> a, codex |-> <<>>] :
               p \in {"unset", "q"}, f \in {"unset", "p"}, a \in {"unset", "codex"}}
RunsAsked == {[permitted |-> TRUE, sender |-> s, reason |-> "dm", attachments |-> {[required |-> r, decision |-> "rejected"]},
               scope |-> [source |-> "im", chat |-> "g", thread |-> "", comment |-> "", bindings |-> {}],
               cwd |-> "w", codexHome |-> "unset", inherit |-> FALSE, now |-> 1, ttl |-> 0] : s \in {"u", "x"}, r \in BOOLEAN}

managedVars == <<part, vars, intakeVars, replyVars, cotVars, cardVars, configVars>>
ManagedInit ==
  /\ part \in {"lifecycle", "messages", "forms", "reply", "process", "card", "config"}
  /\ Init /\ IntakeInit /\ Reply!PresentInit /\ CotInit /\ CardsInit
  /\ ConfigInit
  /\ part \notin {"messages", "forms"} => disk = Open
  /\ part # "reply" => setting = Setting("text", FALSE, TRUE, 0, 0, FALSE) /\ Len(script) = 4
  /\ part # "process" => Len(events) = 3
  /\ part # "config" => file = Root([p |-> Plain]) /\ options.profile = "q" /\ options.activeFile = "p" /\ options.agent = "codex"
ManagedNext ==
  /\ UNCHANGED part
  /\ \/ part = "lifecycle" /\ Next /\ UNCHANGED <<intakeVars, replyVars, cotVars, cardVars, configVars>>
     \/ part = "messages" /\ MessagesNext /\ UNCHANGED <<vars, replyVars, cotVars, cardVars, configVars>>
     \/ part = "forms" /\ FormsNext /\ UNCHANGED <<vars, replyVars, cotVars, cardVars, configVars>>
     \/ part = "reply" /\ Reply!PresentNext /\ UNCHANGED <<vars, intakeVars, cotVars, cardVars, configVars>>
     \/ part = "process" /\ CotNext /\ UNCHANGED <<vars, intakeVars, replyVars, cardVars, configVars>>
     \/ part = "card" /\ CardsNext /\ UNCHANGED <<vars, intakeVars, replyVars, cotVars, configVars>>
     \/ part = "config" /\ ConfigNext /\ UNCHANGED <<vars, intakeVars, replyVars, cotVars, cardVars>>
     \/ UNCHANGED managedVars
ManagedSpec == ManagedInit /\ [][ManagedNext]_managedVars

\* Fairness of the lifecycle, under the condition of its part.
LifecycleFair ==
  /\ \A t \in Threads : WF_vars(part = "lifecycle" /\ Step(t))
  /\ WF_vars(part = "lifecycle" /\ RefreshEnds)
  /\ WF_vars(part = "lifecycle" /\ bridge.started /\ \E h \in Hosts : ShutdownCall(h))
ManagedFairSpec == ManagedSpec /\ LifecycleFair

\* All of an answer is shown, once, and nothing of it as if it were going on.
RepliesHold == Reply!ShownOnce /\ Reply!SettledWhenOver
OnlyUnpublished == Reply!OnlyUnpublished
=============================================================================
