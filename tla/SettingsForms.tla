----------------------------- MODULE SettingsForms -----------------------------
(***************************************************************************)
(* What becomes of a submitted or cancelled form of /config or /account:   *)
(* the checks, the writes, each of which may fail, the card that tells the *)
(* user, and the missing permission of the app that is asked for when the  *)
(* bot is to answer in groups unmentioned.  A form runs in a task of its   *)
(* own, so several overlap.  Of the settings the model keeps the identity  *)
(* lark-cli acts under and whether groups have to mention the bot.         *)
(***************************************************************************)
EXTENDS Integers, FiniteSets

CONSTANTS FormsSent,  \* records [kind, sub, message] and, of /config, dir, identity and mention, of /account, app, secret, tenant
          Valid,      \* what the platform takes for credentials: <<app, secret, tenant>>
          HasScope,   \* whether the app may read the messages of groups
          MaxForms, MaxFormFaults   \* bounds: of the forms that are used, of everything that fails

VARIABLES prefs,     \* identity and mention, in config.json
          acts,      \* the identity lark-cli acts under
          account,   \* [app, tenant] in config.json
          secrets,   \* app -> secret
          form,      \* form -> what it has come to
          card,      \* message -> the card it shows
          replies,   \* the cards sent in answer
          link,      \* form -> the request for the permission
          granted,   \* forms whose request was granted
          written,   \* history: forms that were saved
          slips,     \* history: "raced", "unapplied"
          formFaults
settingVars == <<prefs, acts, account, secrets, form, card, replies, link, granted, written, slips, formFaults>>

\* An app is registered with one tenant of the platform.
ASSUME ValidAssumption == \A u, v \in Valid : u = <<u[1], u[2], u[3]>> /\ (u[1] = v[1] => u[3] = v[3])

Left == "left"    \* a field the form leaves out
Unset == ""       \* a field without a value
FormFails == formFaults < MaxFormFaults /\ formFaults' = formFaults + 1
FormWorks == UNCHANGED formFaults
Reaches(f, at) == form' = [form EXCEPT ![f] = [@ EXCEPT !.at = at]]
Comes(f, view) == form' = [form EXCEPT ![f] = [@ EXCEPT !.at = "answer", !.view = view]]
Failure(reason) == [outcome |-> "failed", reason |-> reason]
Saved == [outcome |-> "saved", reason |-> Unset]
Opens(f) == form[f].at = "sent" /\ Cardinality({g \in FormsSent : form[g].at # "sent"}) < MaxForms
Busy(kind) == {f \in FormsSent : f.kind = kind /\ form[f].at \notin {"sent", "answer", "over"}}
-----------------------------------------------------------------------------
\* What is asked for is shown, and what is cancelled: the settings are read first, an error is only logged.
Answers(f) ==
  /\ Opens(f) /\ f.sub \in {"cancelled", "form"}
  /\ Comes(f, [outcome |-> f.sub, reason |-> Unset]) /\ FormWorks
  /\ UNCHANGED <<prefs, acts, account, secrets, card, replies, link, granted, written, slips>>
UnreadableConfig(f) ==
  /\ Opens(f) /\ f.kind = "config" /\ Reaches(f, "over") /\ FormFails
  /\ UNCHANGED <<prefs, acts, account, secrets, card, replies, link, granted, written, slips>>

parseLarkCLIIdentity(raw, current) == IF raw \in {"bot-only", "user-default"} THEN raw ELSE current
parseRequireMention(raw, current) == IF raw \in {"yes", "no"} THEN raw ELSE current

\* submitConfig up to its write: lark-cli acts first, and what the form leaves out is as it was read.
SubmitConfig(f) ==
  /\ Opens(f) /\ f.kind = "config" /\ f.sub = "submit"
  /\ slips' = slips \cup (IF Busy("config") # {} THEN {"raced"} ELSE {})
  /\ LET next == [identity |-> parseLarkCLIIdentity(f.identity, prefs.identity),
                  mention |-> parseRequireMention(f.mention, prefs.mention)]
         save == form' = [form EXCEPT ![f] = [@ EXCEPT !.at = "save", !.next = next, !.previous = prefs.identity]]
     IN IF f.dir = "bad" THEN Comes(f, Failure("dir")) /\ FormWorks /\ UNCHANGED acts
        ELSE IF next.identity = prefs.identity THEN save /\ FormWorks /\ UNCHANGED acts
        ELSE \/ save /\ FormWorks /\ acts' = next.identity
             \/ Comes(f, Failure("identity")) /\ FormFails /\ UNCHANGED acts
  /\ UNCHANGED <<prefs, account, secrets, card, replies, link, granted, written>>

\* Mutant of SaveConfig: what lark-cli was told stays.
SaveConfigOnly(f) ==
  /\ form[f].at = "save" /\ f.kind = "config"
  /\ \/ /\ prefs' = form[f].next /\ written' = written \cup {f}
        /\ (Comes(f, Saved) /\ FormWorks) \/ (Reaches(f, "over") /\ FormFails)
     \/ Comes(f, Failure("save")) /\ FormFails /\ UNCHANGED <<prefs, written>>
  /\ UNCHANGED <<acts, slips, account, secrets, card, replies, link, granted>>
\* The write, and the second reading; when the write fails lark-cli is told what it was before, which may fail too.
SaveConfig(f) ==
  /\ form[f].at = "save" /\ f.kind = "config"
  /\ \/ /\ prefs' = form[f].next /\ written' = written \cup {f}
        /\ (Comes(f, Saved) /\ FormWorks) \/ (Reaches(f, "over") /\ FormFails)
        /\ UNCHANGED <<acts, slips>>
     \/ /\ Comes(f, Failure("save")) /\ FormFails
        /\ \/ acts' = (IF form[f].next.identity # form[f].previous THEN form[f].previous ELSE acts) /\ UNCHANGED slips
           \/ slips' = slips \cup {"unapplied"} /\ UNCHANGED acts
        /\ UNCHANGED <<prefs, written>>
  /\ UNCHANGED <<account, secrets, card, replies, link, granted>>
-----------------------------------------------------------------------------
\* submitAccount: the platform is asked, then the secret is kept, then the app is put into config.json.
Accepted(f) == <<f.app, f.secret, f.tenant>> \in Valid
\* Mutant of Validate: whatever is not empty.
ValidateNothing(f) ==
  /\ Opens(f) /\ f.kind = "account" /\ f.sub = "submit"
  /\ (IF f.app = Unset \/ f.secret = Unset THEN Comes(f, Failure("empty")) ELSE Reaches(f, "store")) /\ FormWorks
  /\ UNCHANGED <<prefs, acts, account, secrets, card, replies, link, granted, written, slips>>
Validate(f) ==
  /\ Opens(f) /\ f.kind = "account" /\ f.sub = "submit"
  /\ IF f.app = Unset \/ f.secret = Unset THEN Comes(f, Failure("empty")) /\ FormWorks
     ELSE \/ (IF Accepted(f) THEN Reaches(f, "store") ELSE Comes(f, Failure("refused"))) /\ FormWorks
          \/ Comes(f, Failure("unreachable")) /\ FormFails
  /\ UNCHANGED <<prefs, acts, account, secrets, card, replies, link, granted, written, slips>>
StoreSecret(f) ==
  /\ form[f].at = "store"
  /\ \/ secrets' = [secrets EXCEPT ![f.app] = f.secret] /\ Reaches(f, "save") /\ FormWorks
     \/ Comes(f, Failure("store")) /\ FormFails /\ UNCHANGED secrets
  /\ UNCHANGED <<prefs, acts, account, card, replies, link, granted, written, slips>>
submitAccount(f) ==
  /\ form[f].at = "save" /\ f.kind = "account"
  /\ \/ account' = [app |-> f.app, tenant |-> f.tenant] /\ written' = written \cup {f} /\ Comes(f, Saved) /\ FormWorks
     \/ Comes(f, Failure("save")) /\ FormFails /\ UNCHANGED <<account, written>>
  /\ UNCHANGED <<prefs, acts, secrets, card, replies, link, granted, slips>>
-----------------------------------------------------------------------------
Card(f, says, prefill) == [of |-> {f}, says |-> says, app |-> prefill]
NoCard == [of |-> {}, says |-> "form", app |-> Unset]
AccountFormCard(f) == Card(f, "form", f.app)
accountResponseCard(f, view) == Card(f, view.outcome, Unset)
\* The card of a saved /config shows the access of the profile as well: unreadable, it says that saving failed.
configResponseCard(f, view) ==
  \/ FormWorks /\ form' = [form EXCEPT ![f] = [@ EXCEPT !.card = Card(f, view.outcome, Unset), !.at = "show"]]
  \/ FormFails /\ form' = [form EXCEPT ![f] = [@ EXCEPT !.card = Card(f, "failed", Unset), !.at = "show", !.unread = TRUE]]
commandResponseCard(f) ==
  /\ form[f].at = "answer"
  /\ IF f.kind = "config" THEN configResponseCard(f, form[f].view)
     ELSE FormWorks /\ form' = [form EXCEPT ![f] = [@ EXCEPT !.card = accountResponseCard(f, form[f].view), !.at = "show"]]
  /\ UNCHANGED <<prefs, acts, account, secrets, card, replies, link, granted, written, slips>>

\* The message that held the form shows the card; if that fails it is sent as a new one.
Retry(f) == f.kind = "account" /\ form[f].view.outcome = "failed"
Asks(f) == f.kind = "config" /\ form[f].view.outcome = "saved" /\ form[f].next.mention = "no"
scheduleGroupMsgScopeGrant(f) == link' = [link EXCEPT ![f] = IF Asks(f) THEN "check" ELSE @]
sendCommandCardResponse(f) ==
  /\ form[f].at = "show" /\ ~Retry(f)
  /\ \/ card' = [card EXCEPT ![f.message] = form[f].card] /\ FormWorks /\ UNCHANGED replies
     \/ replies' \in {replies, replies \cup {form[f].card}} /\ FormFails /\ UNCHANGED card
  /\ Reaches(f, "over") /\ scheduleGroupMsgScopeGrant(f)
  /\ UNCHANGED <<prefs, acts, account, secrets, granted, written, slips>>
\* A failed account form shows the failure, and a new form is sent with the app filled in.
sendAccountFailureRetryForm(f) ==
  /\ form[f].at = "show" /\ Retry(f)
  /\ \/ FormWorks /\ card' = [card EXCEPT ![f.message] = form[f].card] /\ replies' = replies \cup {AccountFormCard(f)}
     \/ FormFails /\ \/ replies' = replies \cup {AccountFormCard(f)} /\ UNCHANGED card
                     \/ card' = [card EXCEPT ![f.message] = form[f].card] /\ UNCHANGED replies
  /\ Reaches(f, "over")
  /\ UNCHANGED <<prefs, acts, account, secrets, link, granted, written, slips>>
-----------------------------------------------------------------------------
To(f, state) == link' = [link EXCEPT ![f] = state]
\* promptGroupMsgScopeIfMissing: a link the user cannot be shown is cancelled.
Prompts(f) ==
  /\ \/ link[f] = "check" /\ (IF HasScope THEN To(f, "none") ELSE To(f, "request")) /\ FormWorks
     \/ link[f] \in {"check", "request"} /\ To(f, "none") /\ FormFails
     \/ link[f] = "request" /\ To(f, "open") /\ FormWorks
  /\ UNCHANGED <<prefs, acts, account, secrets, form, card, replies, granted, written, slips>>
\* Mutant of SendsLink: the link is left open.
SendsLinkOnly(f) ==
  /\ link[f] = "open"
  /\ \/ To(f, "wait") /\ replies' = replies \cup {Card(f, "grant", Unset)} /\ FormWorks
     \/ To(f, "lost") /\ FormFails /\ UNCHANGED replies
  /\ UNCHANGED <<prefs, acts, account, secrets, form, card, granted, written, slips>>
SendsLink(f) ==
  /\ link[f] = "open"
  /\ \/ To(f, "wait") /\ replies' = replies \cup {Card(f, "grant", Unset)} /\ FormWorks
     \/ To(f, "cancelled") /\ FormFails /\ UNCHANGED replies
  /\ UNCHANGED <<prefs, acts, account, secrets, form, card, granted, written, slips>>
\* waitGroupMsgScopeGrant: the user grants it and the card says so, if it can be changed; or it is not granted in time.
waitGroupMsgScopeGrant(f) ==
  /\ link[f] = "wait"
  /\ \/ /\ granted' = granted \cup {f} /\ To(f, "none")
        /\ \/ replies' = (replies \ {Card(f, "grant", Unset)}) \cup {Card(f, "granted", Unset)} /\ FormWorks
           \/ FormFails /\ UNCHANGED replies
     \/ To(f, "expired") /\ FormWorks /\ UNCHANGED <<granted, replies>>
  /\ UNCHANGED <<prefs, acts, account, secrets, form, card, written, slips>>

SettingsInit ==
  /\ prefs = [identity |-> "bot-only", mention |-> "yes"] /\ acts = "bot-only"
  /\ \E v \in Valid : account = [app |-> v[1], tenant |-> v[3]] /\ secrets = [a \in {u[1] : u \in Valid} |-> IF a = v[1] THEN v[2] ELSE Unset]
  /\ form = [f \in FormsSent |-> [at |-> "sent", view |-> Saved, next |-> prefs, previous |-> "bot-only", card |-> NoCard, unread |-> FALSE]]
  /\ card = [m \in {f.message : f \in FormsSent} |-> NoCard] /\ replies = {}
  /\ link = [f \in FormsSent |-> "none"] /\ granted = {} /\ written = {} /\ slips = {} /\ formFaults = 0
SettingsNext == \E f \in FormsSent :
  \/ Answers(f) \/ UnreadableConfig(f) \/ SubmitConfig(f) \/ SaveConfig(f) \/ Validate(f) \/ StoreSecret(f) \/ submitAccount(f)
  \/ commandResponseCard(f) \/ sendCommandCardResponse(f) \/ sendAccountFailureRetryForm(f)
  \/ Prompts(f) \/ SendsLink(f) \/ waitGroupMsgScopeGrant(f)
-----------------------------------------------------------------------------
(* The app in config.json can connect with the secret kept for it, whatever *)
(* fails and however forms overlap; lark-cli acts as the settings say,      *)
(* unless forms overlapped or it could not be told; what a card says is so, *)
(* except that a saved form whose card cannot be made says the contrary;    *)
(* and whoever is told of a permission can follow the link or has got it,   *)
(* while a link nobody was shown is withdrawn.                              *)
FormsHeld ==
  /\ <<account.app, secrets[account.app], account.tenant>> \in Valid
  /\ slips = {} /\ Busy("config") = {} => acts = prefs.identity
  /\ \A shown \in {card[m] : m \in DOMAIN card} \cup replies : \A f \in shown.of :
       /\ shown.says = "saved" => f \in written
       /\ shown.says \in {"failed", "cancelled"} => f \notin written \/ form[f].unread
       /\ shown.says = "granted" => f \in granted
  /\ \A f \in FormsSent : link[f] # "lost" /\ (link[f] = "wait" => Card(f, "grant", Unset) \in replies)
-----------------------------------------------------------------------------
(* The preferences of a profile: as config.json has them, as the form of   *)
(* /config shows them, as a submitted form changes them, and as runs read  *)
(* them, with code of their own (internal/app/commands, pkg/bridge,        *)
(* internal/app/cardkit).  Numbers are counted in halves, so that they may *)
(* have a fraction; <<>> is a value that is missing or of another type.    *)
CONSTANTS Written,   \* preferences somebody may have written into config.json
          Typed,     \* what may be typed into a field for a number: <<halves>>, or <<>> if that is none
          MaxSubmits \* bound on the forms that are submitted

\* What is written, or typed, is of its type or missing.
Halves(n) == n = <<>> \/ (n = <<n[1]>> /\ n[1] \in Int)
ASSUME WrittenAssumption ==
  /\ \A n \in Typed : Halves(n)
  /\ \A p \in Written :
       /\ DOMAIN p = {"reply", "migrated", "tools", "cot", "max", "idle", "mention"}
       /\ p.tools \in {<<>>, <<FALSE>>, <<TRUE>>} /\ Halves(p.max) /\ Halves(p.idle) /\ {p.migrated, p.mention} \subseteq BOOLEAN

Huge == 1000000000   \* numbers beyond those of 64 bits

VARIABLES preferences,   \* [reply, migrated, tools, cot, max, idle, mention] in config.json
          sent     \* the last form: the view it was filled in from, its fields, and what runs read before
preferenceVars == <<preferences, sent>>

Absent == <<>>
AtMost(n, max) == IF n > max THEN max ELSE n
-----------------------------------------------------------------------------
\* What a form says, if it says something that is understood.
parseMessageReply(raw, current) == IF raw \in {"markdown", "text", "card"} THEN raw ELSE current
parseShowToolCalls(raw, current) == IF raw \in {"hide", "false"} THEN FALSE ELSE IF raw \in {"show", "true"} THEN TRUE ELSE current
parseCotMessages(raw, current) ==
  IF raw \in {"brief", "simple"} THEN "brief" ELSE IF raw \in {"detailed", "on"} THEN "detailed" ELSE IF raw = "off" THEN "off" ELSE current
\* A number beyond 64 bits becomes the least or the largest one, as the machine has it.
parseClampedInt(raw, current, min, max, allowZero) ==
  IF raw = Absent THEN {current}
  ELSE IF raw[1] = 0 /\ allowZero THEN {0}
  ELSE IF raw[1] < 2 * min THEN {current}
  ELSE IF raw[1] >= Huge THEN {-Huge, max}
  ELSE {AtMost(raw[1] \div 2, max)}

\* The two readers: of the commands, and of the runs.
\* Mutant of getMessageReply: as it is written.
getMessageReplyRaw(p) == IF p.reply \in {"card", "markdown", "text"} THEN p.reply ELSE "markdown"
getMessageReply(p) ==
  IF p.reply = "text" /\ ~p.migrated THEN "markdown" ELSE IF p.reply \in {"card", "markdown", "text"} THEN p.reply ELSE "markdown"
getShowToolCalls(p) == p.tools = Absent \/ p.tools = <<TRUE>>
getCotMessages(p) == IF p.cot \in {"brief", "simple"} THEN "brief" ELSE IF p.cot \in {"detailed", "on"} THEN "detailed" ELSE "off"
getMaxConcurrentRuns(p) == IF p.max = Absent \/ (p.max # Absent /\ p.max[1] < 2) THEN 10 ELSE AtMost(p.max[1] \div 2, 50)
getRunIdleTimeoutMinutes(p) == IF p.idle = Absent \/ (p.idle # Absent /\ p.idle[1] <= 0) THEN 0 ELSE AtMost(p.idle[1] \div 2, 120)
configSnapshot(p) ==
  [reply |-> getMessageReply(p), tools |-> getShowToolCalls(p), cot |-> getCotMessages(p), max |-> getMaxConcurrentRuns(p),
   idle |-> getRunIdleTimeoutMinutes(p), mention |-> p.mention]

managedPreferenceMessageReply(p) == IF p.reply \in {"card", "markdown"} \/ (p.reply = "text" /\ p.migrated) THEN p.reply ELSE "markdown"
managedPreferenceShowToolCalls(p) == p.tools \in {Absent, <<TRUE>>}
managedPreferenceCotMessages(p) == IF p.cot \in {"brief", "simple"} THEN "brief" ELSE IF p.cot \in {"detailed", "on"} THEN "detailed" ELSE "off"
managedPreferenceRunIdleTimeoutMinutes(p) == IF p.idle = Absent THEN 0 ELSE IF p.idle[1] <= 0 THEN 0 ELSE AtMost(p.idle[1] \div 2, 120)
\* The pool reads the number of runs itself, as the commands do.
managedRuntimeConfig(p) ==
  [reply |-> managedPreferenceMessageReply(p), tools |-> managedPreferenceShowToolCalls(p), cot |-> managedPreferenceCotMessages(p),
   max |-> getMaxConcurrentRuns(p), idle |-> managedPreferenceRunIdleTimeoutMinutes(p), mention |-> p.mention]
-----------------------------------------------------------------------------
\* The form offers text and markdown, and shows the interactive card as markdown.
ConfigForm(view) ==
  [reply |-> IF view.reply = "card" THEN "markdown" ELSE view.reply, tools |-> IF view.tools THEN "show" ELSE "hide",
   cot |-> view.cot, max |-> <<2 * view.max>>, idle |-> <<2 * view.idle>>, mention |-> IF view.mention THEN "yes" ELSE "no"]
Offered == [reply |-> {"text", "markdown", Left}, tools |-> {"show", "hide", Left}, cot |-> {"off", "brief", "detailed", Left},
            max |-> Typed, idle |-> Typed, mention |-> {"yes", "no", Left}]

\* submitConfig: a field that is left out is as the snapshot has it, but for the reply, which is read once more.
Again(view) == [reply |-> view.reply, migrated |-> FALSE]
Submit(view, fields) ==
  \E max \in parseClampedInt(fields.max, view.max, 1, 50, FALSE), idle \in parseClampedInt(fields.idle, view.idle, 0, 120, TRUE) :
    preferences' = [preferences EXCEPT !.reply = parseMessageReply(fields.reply, getMessageReply(Again(view))), !.migrated = TRUE,
                           !.tools = <<parseShowToolCalls(fields.tools, view.tools)>>, !.cot = parseCotMessages(fields.cot, view.cot),
                           !.max = <<2 * max>>, !.idle = <<2 * idle>>,
                           !.mention = IF fields.mention = Left THEN view.mention ELSE fields.mention = "yes"]

\* A form in which one field was changed, or none.
SubmitsForm ==
  /\ sent.count < MaxSubmits
  /\ LET view == configSnapshot(preferences)  shown == ConfigForm(view) IN
     \E k \in DOMAIN shown : \E value \in Offered[k] \cup {shown[k]} :
       /\ Submit(view, [shown EXCEPT ![k] = value])
       /\ sent' = [count |-> sent.count + 1, before |-> managedRuntimeConfig(preferences), field |-> k, raw |-> value, same |-> value = shown[k]]
PreferencesInit == preferences \in Written /\ sent = [count |-> 0]
PreferencesNext == SubmitsForm
-----------------------------------------------------------------------------
(* What /config shows is what runs go by, and within bounds; of a submitted *)
(* form the field that was changed is in force, and all others are as they  *)
(* were, except that a form shown for the interactive card turns it into    *)
(* markdown, and that a reply that is left out turns text into it; a number *)
(* that is none, too small or far too large leaves the old one or the       *)
(* default in force.                                                        *)
Meant(k) == IF k = "tools" THEN sent.raw = "show" ELSE IF k = "mention" THEN sent.raw = "yes" ELSE sent.raw
Numbers == [max |-> [least |-> 1, most |-> 50, otherwise |-> 10], idle |-> [least |-> 0, most |-> 120, otherwise |-> 0]]
InForce(k, now, before) ==
  IF sent.same THEN now = before \/ (k = "reply" /\ before = "card" /\ now = "markdown")
  ELSE IF k \in DOMAIN Numbers THEN
    IF sent.raw # Absent /\ sent.raw[1] \in 2 * Numbers[k].least .. Huge - 1 THEN now = AtMost(sent.raw[1] \div 2, Numbers[k].most)
    ELSE now \in {before, Numbers[k].otherwise, Numbers[k].most}
  ELSE IF sent.raw = Left THEN now = before \/ (k = "reply" /\ now = "markdown")
  ELSE now = Meant(k)
PreferencesHeld ==
  LET now == managedRuntimeConfig(preferences) IN
  /\ now = configSnapshot(preferences) /\ now.max \in 1 .. 50 /\ now.idle \in 0 .. 120
  /\ sent.count > 0 => \A k \in DOMAIN now :
       IF k = sent.field THEN InForce(k, now[k], sent.before[k])
       ELSE now[k] = sent.before[k] \/ (k = "reply" /\ sent.before.reply = "card" /\ now.reply = "markdown")
-----------------------------------------------------------------------------
\* The forms, and the preferences, each on its own.
SettingsSpec ==
  /\ SettingsInit /\ PreferencesInit
  /\ [][\/ SettingsNext /\ UNCHANGED preferenceVars
        \/ PreferencesNext /\ UNCHANGED settingVars]_<<settingVars, preferenceVars>>
(* What forms and their cards say of the settings holds, and preferences are *)
(* what the form was shown and filled in with.                               *)
SettingsHeld == FormsHeld /\ PreferencesHeld
=============================================================================
