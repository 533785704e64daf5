---------------------------- MODULE MCConversations ----------------------------
(***************************************************************************)
(* What the users of a chat, a document or the command line meet, each     *)
(* part on its own: every behaviour is one of the part it begins with.     *)
(* The commands are handled by two goroutines, and so are /resume, which   *)
(* asks Codex for its threads, and /doctor, which runs a probe; the        *)
(* settings are forms that overlap, and preferences on their way from the  *)
(* file to the runs. The messages come from a socket that three calls      *)
(* connect; they quote others and have attachments of two batches; an      *)
(* agent prints four lines about them, cards are pressed meanwhile, and a  *)
(* final answer goes out in parts. The comments are on one document, some  *)
(* of them under its token in a wiki; and the service is controlled by two *)
(* callers.                                                                *)
(***************************************************************************)
EXTENDS Integers, Sequences, TLC, ServiceControl, SettingsForms, Commands

CONSTANT MaxSent   \* bound on what is sent to each part

VARIABLES part,
  mention, docRuns, sessions, typing, comments, halted, commentFaults,
  agent, known, heard, told,
  directory, batch, taken, batches, mediaFaults,
  holder, connects, dials, closing, received, tried,
  connection, botId, grants, active, cards, detached, last, runs, presses, dispatchFaults,
  work, rendering, forwards, quotes, dropped, prompt, quoteFaults,
  sending, timeline, flying, ids, over, deliveryFaults,
  ask, child, waited, pipe, lines, reader, ending, printed,
  checking, probes, others, doctors

Asked(name, sender, chat) == [cmd |-> name, sender |-> sender, chat |-> chat, p2p |-> chat = "dm"]
Naming(who) == [mentions |-> {[id |-> who, bot |-> FALSE], [id |-> "bot", bot |-> TRUE]}]
AccessRequests ==
  {Asked(c, s, "g") @@ [kind |-> "admin"] @@ Naming("u") : c \in {"/invite", "/remove"}, s \in {"a", "u"}}
  \cup {Asked("/invite", "a", "g") @@ [kind |-> k] @@ Naming("v") : k \in {"user", "group", "all group"}}
  \cup {Asked("/remove", "a", "g") @@ [kind |-> "group"] @@ Naming("v"), Asked("/remove", "u", "g") @@ [kind |-> "admin"] @@ Naming("a"),
        Asked("/invite", "a", "dm") @@ [kind |-> "group"] @@ Naming("v")}
WorkspaceRequests ==
  {Asked("/ws", "a", chat) @@ [sub |-> sub, name |-> "n"] : chat \in {"g", "dm"}, sub \in {"save", "use", "remove"}}
  \cup {Asked("/cd", "a", "g") @@ [dir |-> "d"], Asked("/new chat", "u", "g")}
RunRequests ==
  {Asked("/stop", "u", "g") @@ [target |-> ""], Asked("/stop", "u", "dm") @@ [target |-> "g"],
   Asked("/timeout", "u", "g") @@ [target |-> "", value |-> 5], Asked("/timeout", "a", "g") @@ [target |-> "comment", value |-> -1],
   Asked("/timeout", "u", "g") @@ [target |-> "comment", value |-> 121],
   Asked("/exit", "a", "g") @@ [target |-> "1", rank |-> 1], Asked("/exit", "u", "g") @@ [target |-> "b", rank |-> 0],
   Asked("/exit", "a", "g") @@ [target |-> "b2", rank |-> 0]}
CmdAccesses == {[users |-> {}, chats |-> {"g"}, admins |-> {"a"}]}
CmdGlobal == <<"n">> :> "old"
CmdBots == <<[id |-> "b1", prefixes |-> {"b", "b1"}], [id |-> "b2", prefixes |-> {"b", "b2"}]>>
CmdRequests == AccessRequests \cup WorkspaceRequests \cup RunRequests
\* A behaviour has requests of one kind.
Only(requests) == \A t \in Threads : request'[t].cmd \in {r.cmd : r \in requests \cup {Nothing}}

ConfigSent(m, sub, dir, identity, mentions) ==
  [kind |-> "config", sub |-> sub, message |-> m, dir |-> dir, identity |-> identity, mention |-> mentions]
AccountSent(m, sub, app, secret) ==
  [kind |-> "account", sub |-> sub, message |-> m, app |-> app, secret |-> secret, tenant |-> "feishu"]
Few == {<<>>, <<1>>}   \* in halves: no number, and one half
SettingsWritten ==
  [reply : {"unset", "card", "text"}, migrated : BOOLEAN, tools : {<<>>, <<FALSE>>}, cot : {"unset", "simple", "on"},
              max : Few \cup {<<5>>, <<200>>}, idle : Few \cup {<<61>>, <<2000>>, <<-2>>}, mention : BOOLEAN]
SettingsTyped == Few \cup {<<0>>, <<-2>>, <<7>>, <<300>>, <<1000000000>>}
SettingsFormsSent ==
  {ConfigSent("m1", "submit", "ok", "user-default", "no"), ConfigSent("m2", "submit", "ok", "left", "left"),
                ConfigSent("m3", "cancelled", "bad", "left", "left"), ConfigSent("m3", "submit", "bad", "left", "left"),
                ConfigSent("m5", "form", "bad", "left", "left"),
                AccountSent("m1", "submit", "x", "s2"), AccountSent("m4", "submit", "y", "s"),
                AccountSent("m4", "submit", "y", "bad"), AccountSent("m4", "submit", "", "")}
SettingsValid == {<<"x", "s1", "feishu">>, <<"x", "s2", "feishu">>, <<"y", "s", "feishu">>}

\* w is a token of the wiki for d, and v one for slides; d has a directory under the key of before.
Named(doc, type, reply, mentioned) == [doc |-> doc, type |-> type, reply |-> reply, mentioned |-> mentioned, self |-> FALSE]
AllMentions == {Named("w", "doc", "r1", TRUE), Named("d", "docx", "r2", TRUE), Named("d", "docx", "r3", TRUE),
                Named("w", "doc", "gone", TRUE), Named("v", "doc", "r5", TRUE)}
Event(type, phase, session) == [type |-> type, phase |-> phase, session |-> session]
DocWikiOf == "w" :> [doc |-> "d", type |-> "docx"] @@ "v" :> [doc |-> "s", type |-> "slides"]
DocThreadOf ==
  [m \in AllMentions |->
     IF m.reply = "gone" THEN [page |-> 3, replies |-> <<[id |-> "r6", question |-> TRUE]>>]
     ELSE [page |-> 0, replies |-> <<[id |-> "r0", question |-> FALSE], [id |-> m.reply, question |-> TRUE]>>]]
DocWatched == {m \in AllMentions : m.reply = "r3"}
DocConfigured == [k \in {"new", "old"} \X {"d", "w", "s", "v"} |-> IF k[1] = "old" THEN "o" ELSE ""]
DocRemembered == {<<<<"old", "d">>, "o", "p1">> :> "s1"}
DocOutputsOf ==
  [m \in AllMentions |->
    {CASE m.reply = "r1" -> <<Event("text", "", ""), Event("toolUse", "", ""), Event("text", "final", "")>>
       [] m.reply = "r2" -> <<Event("system", "", "n1"), Event("interrupted", "", "")>>
       [] m.reply = "r3" -> <<Event("system", "", "n2"), Event("done", "", "")>>
       [] OTHER -> <<Event("text", "commentary", ""), Event("error", "", "")>>}]
Doc == INSTANCE DocComments WITH
  Mentions <- AllMentions, WikiOf <- DocWikiOf, ThreadOf <- DocThreadOf, PageLimit <- 2, Agent <- "claude",
  Policy <- "p2", Watched <- DocWatched, Configured <- DocConfigured, Default <- "p", Usable <- {"o", "p"},
  Remembered <- DocRemembered, OutputsOf <- DocOutputsOf, MaxMentions <- MaxSent, MaxCommentFaults <- 1
commentVars == <<mention, docRuns, sessions, typing, comments, halted, commentFaults>>

File(id, kind, mime, content) == [id |-> id, kind |-> kind, mime |-> mime, content |-> content]
MediaBatches ==
  LET a == File("k1", "file", "text/plain", "a")   c == File("k3", "image", "image/jpeg", "c") IN
    {<<a>>, <<File("k2", "img", "", "b"), c>>, <<a, c, a>>, <<a, File("k7", "image", "text/plain", "b"), a>>,
     <<File("k4", "sticker", "", "a"), File("", "file", "", "a"), File("k5", "post", "", "d"), File("k6", "audio", "", "a")>>}
MediaSizeOf == "a" :> 1 @@ "b" :> 2 @@ "c" :> 3 @@ "d" :> 40
MediaAttachments == [count |-> 2, bytes |-> 4, file |-> 0, image |-> 0]
Media == INSTANCE MediaCache WITH
  Scopes <- {"s1", "s2"}, Batches <- MediaBatches, SizeOf <- MediaSizeOf, Attachments <- MediaAttachments,
  CacheLimit <- 4, Keeps <- TRUE, MaxBatches <- 2, MaxMediaFaults <- 1
mediaVars == <<directory, batch, taken, batches, mediaFaults>>

Prints(blocks, parent) == [type |-> "assistant", parent |-> parent, blocks |-> blocks]
Bash(id, run) == [kind |-> "tool_use", id |-> id, name |-> "Bash", command |-> run]
Returned(id, output, error, parts) == [id |-> id, output |-> output, error |-> error, parts |-> parts]
Returns(blocks) == [type |-> "user", blocks |-> blocks]
Result(failed, session) == [type |-> "result", failed |-> failed, result |-> "a", usage |-> TRUE, session |-> session]
Completed(id, output, exit) == [type |-> "item.completed", id |-> id, output |-> output, exit |-> exit]
Started(id, run) == [type |-> "item.started", id |-> id, command |-> run]
StreamsClaudeLines ==
  {[type |-> "init", session |-> "n1"], [type |-> "init", session |-> "n2"],
     Prints(<<Bash("t1", "login"), Bash("t2", "sh -c 'login'")>>, FALSE), Prints(<<[kind |-> "text", body |-> "sub"], Bash("t1", "login | tee")>>, TRUE),
     Prints(<<[kind |-> "text", body |-> ""], [kind |-> "thinking"], [kind |-> "tool_use", id |-> "t3", name |-> "Read", command |-> "login"], [kind |-> "other"]>>, FALSE),
     Returns(<<Returned("t2", "url", FALSE, FALSE), Returned("t1", "data url", FALSE, FALSE)>>), Returns(<<Returned("t1", "url", TRUE, FALSE), Returned("", "url", FALSE, FALSE), Returned("t2", "url", FALSE, TRUE)>>),
     Result(FALSE, "n2"), Result(TRUE, ""), [type |-> "other"]}
StreamsCodexLines ==
  {[type |-> "thread.started", session |-> "n1"], [type |-> "thread.started", session |-> ""], Started("t1", "login"), Started("t2", "sh -c 'login'"), Started("", "login"),
     Completed("t1", "url", "0"), Completed("t2", "data url", ""), Completed("t1", "url", "1"), Completed("", "url", "0"),
     [type |-> "agent_message", body |-> "", phase |-> ""], [type |-> "agent_message", body |-> "a", phase |-> "commentary"],
     [type |-> "turn.completed", usage |-> TRUE], [type |-> "turn.failed", message |-> "m"], [type |-> "error", message |-> "e"], [type |-> "turn.started"], [type |-> "other"]}
Streams == INSTANCE AgentStreams WITH
  MaxLinesRead <- 4, ClaudeLines <- StreamsClaudeLines, CodexLines <- StreamsCodexLines
streamVars == <<agent, known, heard, told>>

Head0 == [id |-> "", at |-> ""]
Element(tag, text, key) == [tag |-> tag, text |-> text, key |-> key, href |-> "h", user |-> "", id |-> "i", emoji |-> "e", images |-> IF tag = "md" THEN <<"k9">> ELSE <<>>]
Document(title, v1, v2, whole) == [title |-> title, v1 |-> v1, v2 |-> v2, whole |-> whole]
Text(t) == Document("", <<<<Element("text", t, "")>>>>, <<>>, TRUE)
Message(type, content) == [kind |-> "message", base |-> [id |-> "e", at |-> ""], body |-> [id |-> "x", at |-> "2"], at |-> "3", sender |-> "u", type |-> type, content |-> content]
Flat(object, key, text) == [object |-> object, key |-> key, text |-> text]
Post(object, single, locales) == [object |-> object, single |-> single, locales |-> locales]
Comment(at, notice, mentioned) == [kind |-> "comment", base |-> [id |-> "", at |-> ""], body |-> [id |-> "x", at |-> at], file |-> "f", by |-> "u", at |-> "", acted |-> "", notice |-> notice, mentioned |-> mentioned, mention |-> <<FALSE>>]
IngressWire ==
  {Message(type, Flat(TRUE, key, text)) : type \in {"text", "media", "sticker", "folder", "interactive", "new"}, key \in {"", "k"}, text \in {""}}
     \cup {Message("merge_forward", Flat(FALSE, "", "t")), Message("image", Flat(FALSE, "k", "")),
        Message("post", Post(FALSE, FALSE, <<>>)), Message("post", Post(TRUE, TRUE, "" :> Text("a"))),
        Message("post", Post(TRUE, FALSE, "en_us" :> Text("b") @@ "zh-CN" :> Document("t", <<>>, <<<<Element("img", "", "k1"), Element("md", "m", "")>>, <<Element("file", "", "k2"), Element("at", "", ""), Element("a", "", "")>>>>, TRUE))),
        Message("post", Post(TRUE, FALSE, "EN-US" :> Text("b") @@ "zh_cn" :> Document("", <<>>, <<>>, FALSE))),
        Message("post", Post(TRUE, FALSE, "ja_jp" :> Text("b") @@ "EN-US" :> Text("c"))),
        Message("post", Post(TRUE, FALSE, "ja_jp" :> Text("b"))),
        Comment("", <<>>, <<TRUE>>), Comment("2", <<[file |-> "n", by |-> "v", at |-> "4", mentioned |-> <<TRUE>>]>>, <<>>),
        [kind |-> "card", base |-> Head0, body |-> Head0, by |-> "u", context |-> "g", value |-> "stop"]}
IngressLanguagePriority == <<"zh_cn", "en_us">>
IngressSortedLocales == <<"", "EN-US", "en_us", "ja_jp", "zh-CN", "zh_cn">>
IngressFolded == "" :> "" @@ "EN-US" :> "en-us" @@ "en_us" :> "en_us" @@ "ja_jp" :> "ja_jp" @@ "zh-CN" :> "zh-cn" @@ "zh_cn" :> "zh_cn"
IngressCanonical == "" :> "" @@ "EN-US" :> "en" @@ "en_us" :> "en" @@ "ja_jp" :> "ja" @@ "zh-CN" :> "zh" @@ "zh_cn" :> "zh"
Ingress == INSTANCE IngressTransport WITH
  Connectors <- {"h1", "h2"}, Wire <- IngressWire, LanguagePriority <- IngressLanguagePriority,
  SortedLocales <- IngressSortedLocales, Folded <- IngressFolded, Canonical <- IngressCanonical,
  MaxConnects <- 3
ingressVars == <<holder, connects, dials, closing, received, tried>>

PressesPlaces ==
  {[chat |-> "g", thread |-> "", p2p |-> FALSE, tells |-> FALSE], [chat |-> "g", thread |-> "t", p2p |-> FALSE, tells |-> FALSE],
             [chat |-> "dm", thread |-> "", p2p |-> TRUE, tells |-> FALSE]}
PressesGrants == {[users |-> {"u"}, chats |-> {"g"}, admins |-> {}], [users |-> {}, chats |-> {}, admins |-> {"v"}]}
Presses == INSTANCE CardDispatch WITH
  Places <- PressesPlaces, Askers <- {"u"}, Users <- {"u", "v"}, Bot <- "bot", Grants <- PressesGrants,
  MaxRuns <- 2, MaxPresses <- 1, MaxDispatchFaults <- 1
dispatchVars == <<connection, botId, grants, active, cards, detached, last, runs, presses, dispatchFaults>>

Keeps(type, upper, at) == [type |-> type, upper |-> upper, at |-> at, dsl |-> FALSE, v2 |-> FALSE, placeholder |-> type = "interactive"]
Posted(id, type, reply, words) ==
  [id |-> id, type |-> type, reply |-> reply, parent |-> "", thread |-> "", root |-> "", sender |-> "u", name |-> "", by |-> "user", words |-> words,
   keys |-> {}, mentions |-> <<[id |-> "bot", name |-> "b", key |-> "", bot |-> <<>>], [id |-> "", name |-> "x", key |-> id, bot |-> <<FALSE>>]>>, raws |-> <<"", "c">>]
QuoteQuoteBatches ==
  {<<Posted("F", "merge_forward", "", <<"f">>), Posted("m", "text", "F", <<"a">>)>>,
    <<Posted("m1", "text", "T", <<"a">>), Posted("m2", "text", "N", <<"b", "k1">>), [Posted("m3", "interactive", "T", <<"k1">>) EXCEPT !.keys = {"k1"}]>>,
    <<[Posted("m1", "text", "F", <<"a">>) EXCEPT !.thread = "t", !.root = "F"], [Posted("m2", "image", "", <<>>) EXCEPT !.parent = "S", !.name = "n"]>>,
    <<[Posted("m1", "image", "C", <<"k1">>) EXCEPT !.keys = {"k1"}, !.thread = "t", !.root = "T"]>>, <<Posted("m1", "text", "gone", <<>>)>>}
\* F is a forward of a text, a forward N and a card; N of a text and a forward S, S of a text. C is a chain of forwards.
QuoteKept ==
  "F" :> Keeps("merge_forward", "", 0) @@ "T" :> Keeps("text", "F", 1) @@ "N" :> Keeps("merge_forward", "F", 2) @@ "I" :> Keeps("interactive", "F", 9)
    @@ "T2" :> Keeps("text", "N", 3) @@ "S" :> Keeps("merge_forward", "N", 4) @@ "T3" :> Keeps("text", "S", 5)
    @@ "C" :> Keeps("merge_forward", "", 0) @@ "D" :> Keeps("merge_forward", "C", 1) @@ "E" :> Keeps("merge_forward", "D", 2) @@ "G" :> Keeps("merge_forward", "E", 3)
    @@ "H" :> Keeps("merge_forward", "G", 4) @@ "J" :> Keeps("merge_forward", "H", 5) @@ "K" :> Keeps("merge_forward", "J", 6) @@ "L" :> Keeps("text", "K", 7)
QuoteFetched ==
  "F" :> <<"F", "T", "T2", "N", "S", "I">> @@ "N" :> <<"N", "T2", "S", "T3">> @@ "S" :> <<"S", "T3">> @@ "T" :> <<"T">> @@ "gone" :> <<>>
    @@ "C" :> <<"C", "D">> @@ "D" :> <<"D", "E">> @@ "E" :> <<"E", "G">> @@ "G" :> <<"G", "H">> @@ "H" :> <<"H", "J">> @@ "J" :> <<"J", "K">> @@ "K" :> <<"K", "L">>
Quote == INSTANCE Quotes WITH
  QuoteBatches <- QuoteQuoteBatches, Kept <- QuoteKept, Fetched <- QuoteFetched, BotId <- "bot",
  ForwardLimit <- 7, MaxQuoteFaults <- 1
quoteVars == <<work, rendering, forwards, quotes, dropped, prompt, quoteFaults>>

Ordered(kind, parts, final, replyTo, inThread) == [kind |-> kind, parts |-> parts, final |-> final, replyTo |-> replyTo, inThread |-> inThread, thread |-> inThread, known |-> TRUE]
DeliveryOrders ==
  {Ordered("markdown", 2, TRUE, FALSE, FALSE), Ordered("markdown", 3, TRUE, TRUE, TRUE), Ordered("card", 1, FALSE, TRUE, TRUE), Ordered("text", 1, FALSE, FALSE, FALSE),
             Ordered("text", 1, TRUE, FALSE, TRUE), Ordered("empty", 1, TRUE, TRUE, FALSE), [Ordered("card", 1, TRUE, FALSE, FALSE) EXCEPT !.known = FALSE]}
Delivery == INSTANCE FinalDelivery WITH
  Senders <- {"h1"}, Orders <- DeliveryOrders, MaxDeliveryFaults <- 4
deliveryVars == <<sending, timeline, flying, ids, over, deliveryFaults>>

Reply(id, error, result) == [id |-> id, error |-> error, result |-> result]
Talk(id, where, said) == [id |-> id, cwd |-> where, said |-> said, preview |-> "", name |-> "", source |-> ""]
Quota(key, windows, credits) == [key |-> key, name |-> "", windows |-> windows, credits |-> credits]
About(question, own, inherit, current) == [question |-> question, config |-> [home |-> own, inherit |-> inherit], current |-> current]
HistoryQuestions == {About("list", "own", TRUE, "t1"), About("list", "", TRUE, ""), About("list", "", FALSE, "t1"), About("usage", "", FALSE, "")}
HistoryEnviron == <<<<"A", "1">>, <<"CODEX_HOME", "x">>, <<"A", "2">>>>
HistoryOutput ==
  "list" :> {[junk |-> TRUE], [long |-> TRUE], Reply(1, FALSE, [whole |-> FALSE]), Reply(2, TRUE, [whole |-> FALSE]), Reply(2, FALSE, [whole |-> FALSE]),
               Reply(2, FALSE, [whole |-> TRUE, threads |-> <<Talk("t1", "d", "hi"), Talk("", "d", ""), Talk("t2", "d", "")>>])}
     @@ "usage" :> {Reply(2, FALSE, [limits |-> <<>>, single |-> <<>>]), Reply(2, FALSE, [limits |-> <<>>, single |-> <<Quota("codex", <<>>, <<"free">>)>>]),
               Reply(2, FALSE, [limits |-> <<Quota("a", <<[used |-> <<5>>, minutes |-> 300], [used |-> <<>>, minutes |-> 0]>>, <<>>), Quota("b", <<>>, <<>>)>>, single |-> <<>>])}
History == INSTANCE CodexHistory WITH
  Questions <- HistoryQuestions, Environ <- HistoryEnviron, ProfileHome <- "profile", Output <- HistoryOutput,
  LineCap <- 1, MaxPrinted <- 3
historyVars == <<ask, child, waited, pipe, lines, reader, ending, printed>>

Check(sender, place, where) == [sender |-> sender, place |-> place, cwd |-> where]
Tells(type, word) == [type |-> type, word |-> word]
HealthRequests == {Check("a", "g", "d"), Check("a", "dm", "d"), Check("u", "g", "d"), Check("a", "g", ""), Check("a", "dm", "e")}
HealthWords == {Tells("text", "OK"), Tells("done", ""), Tells("error", "")}
Health == INSTANCE Doctor WITH
  Callers <- {"h1", "h2"}, Requests <- HealthRequests, Admins <- {"a"}, Usable <- {"d", "e"}, Allowed <- {"d"},
  Cap <- 1, HasExecutor <- TRUE, Words <- HealthWords, MaxChecks <- 2, MaxEvents <- 2, MaxOthers <- 1
doctorVars == <<checking, probes, others, doctors>>
-----------------------------------------------------------------------------
conversationVars == <<part, commandVars, settingVars, commentVars, preferenceVars, mediaVars, streamVars, serviceVars, ingressVars, dispatchVars, quoteVars, deliveryVars, historyVars, doctorVars>>
\* What the variables of the other parts are.
NoSetting == SettingsInit /\ secrets = ("x" :> "s1" @@ "y" :> Unset)
NoComment ==
  /\ mention = 0 /\ docRuns = 0 /\ sessions = 0 /\ typing = 0 /\ comments = 0 /\ halted = 0
  /\ commentFaults = 0
NoPreference == preferences = (CHOOSE p \in Written : TRUE) /\ sent = [count |-> 0]
NoMedia == directory = 0 /\ batch = 0 /\ taken = 0 /\ batches = 0 /\ mediaFaults = 0
NoStream == agent = 0 /\ known = 0 /\ heard = 0 /\ told = 0
NoService == ServiceInit /\ platform = "systemd"
NoIngress == holder = 0 /\ connects = 0 /\ dials = 0 /\ closing = 0 /\ received = 0 /\ tried = 0
NoDispatch ==
  /\ connection = 0 /\ botId = 0 /\ grants = 0 /\ active = 0 /\ cards = 0 /\ detached = 0 /\ last = 0
  /\ runs = 0 /\ presses = 0 /\ dispatchFaults = 0
NoQuote == work = 0 /\ rendering = 0 /\ forwards = 0 /\ quotes = 0 /\ dropped = 0 /\ prompt = 0 /\ quoteFaults = 0
NoDelivery == sending = 0 /\ timeline = 0 /\ flying = 0 /\ ids = 0 /\ over = 0 /\ deliveryFaults = 0
NoHistory == ask = 0 /\ child = 0 /\ waited = 0 /\ pipe = 0 /\ lines = 0 /\ reader = 0 /\ ending = 0 /\ printed = 0
NoDoctor == checking = 0 /\ probes = 0 /\ others = 0 /\ doctors = 0
ConversationInit ==
  /\ part \in {"access", "workspaces", "runs", "settings", "comments", "preferences", "media", "streams", "service", "ingress", "presses", "quotes", "delivery", "history", "doctor"}
  /\ CommandInit
  /\ IF part = "settings" THEN SettingsInit ELSE NoSetting
  /\ IF part = "comments" THEN Doc!CommentInit ELSE NoComment
  /\ IF part = "preferences" THEN PreferencesInit ELSE NoPreference
  /\ IF part = "media" THEN Media!MediaInit ELSE NoMedia
  /\ IF part = "streams" THEN Streams!StreamInit ELSE NoStream
  /\ IF part = "service" THEN ServiceInit ELSE NoService
  /\ IF part = "ingress" THEN Ingress!IngressInit ELSE NoIngress
  /\ IF part = "presses" THEN Presses!DispatchInit ELSE NoDispatch
  /\ IF part = "quotes" THEN Quote!QuoteInit ELSE NoQuote
  /\ IF part = "delivery" THEN Delivery!DeliveryInit ELSE NoDelivery
  /\ IF part = "history" THEN History!HistoryInit ELSE NoHistory
  /\ IF part = "doctor" THEN Health!DoctorInit ELSE NoDoctor
ConversationNext ==
  /\ UNCHANGED part
  /\ \/ part = "access" /\ CommandNext /\ Only(AccessRequests)
     \/ part = "workspaces" /\ CommandNext /\ Only(WorkspaceRequests)
     \/ part = "runs" /\ CommandNext /\ Only(RunRequests)
     \/ part = "settings" /\ SettingsNext
     \/ part = "comments" /\ Doc!CommentNext
     \/ part = "preferences" /\ PreferencesNext
     \/ part = "media" /\ Media!MediaNext
     \/ part = "streams" /\ Streams!StreamNext
     \/ part = "service" /\ ServiceNext
     \/ part = "ingress" /\ Ingress!IngressNext
     \/ part = "presses" /\ Presses!DispatchNext
     \/ part = "quotes" /\ Quote!QuoteNext
     \/ part = "delivery" /\ Delivery!DeliveryNext
     \/ part = "history" /\ History!HistoryNext
     \/ part = "doctor" /\ Health!DoctorNext
  /\ part \notin {"access", "workspaces", "runs"} => UNCHANGED commandVars
  /\ part # "settings" => UNCHANGED settingVars
  /\ part # "comments" => UNCHANGED commentVars
  /\ part # "preferences" => UNCHANGED preferenceVars
  /\ part # "media" => UNCHANGED mediaVars
  /\ part # "streams" => UNCHANGED streamVars
  /\ part # "service" => UNCHANGED serviceVars
  /\ part # "ingress" => UNCHANGED ingressVars
  /\ part # "presses" => UNCHANGED dispatchVars
  /\ part # "quotes" => UNCHANGED quoteVars
  /\ part # "delivery" => UNCHANGED deliveryVars
  /\ part # "history" => UNCHANGED historyVars
  /\ part # "doctor" => UNCHANGED doctorVars
ConversationSpec == ConversationInit /\ [][ConversationNext]_conversationVars
-----------------------------------------------------------------------------
\* The properties of the parts that have instances, as those of their modules.
MessagesHeld ==
  /\ part = "history" => History!HistoryHeld
  /\ part = "doctor" => Health!DoctorHeld
  /\ part = "comments" => Doc!CommentsHeld
  /\ part = "media" => Media!MediaHeld
  /\ part = "streams" => Streams!StreamsHeld
  /\ part = "ingress" => Ingress!IngressHeld
  /\ part = "presses" => Presses!PressesHeld
  /\ part = "quotes" => Quote!QuotesHeld
  /\ part = "delivery" => Delivery!DeliveriesHeld
=============================================================================
