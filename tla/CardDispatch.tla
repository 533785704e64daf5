------------------------------ MODULE CardDispatch ------------------------------
(***************************************************************************)
(* From what the channel of the SDK delivers to the scope it is about:     *)
(* the mapping of messages and of presses on cards (oapi_transport.go),    *)
(* the adapter that drops what the bot itself did (adapter.go and          *)
(* internal/app/intake), the dispatcher of presses (carddispatch) and the  *)
(* managed intake before and behind it (lark_managed.go).  CardAuth has    *)
(* the tokens and their storage; here a token is what it was signed for.   *)
(***************************************************************************)
EXTENDS Naturals, FiniteSets, AccessPolicy, TLC

CONSTANTS Places,    \* [chat, thread, p2p, tells]: tells, if the id of the chat tells that it is private
          Askers, Users, Bot,   \* who sends messages, and who presses
          Grants,    \* [users, chats, admins] as config.json may have them
          MaxRuns, MaxPresses, MaxDispatchFaults

VARIABLES connection, botId,   \* that of the adapter, and selfLoopPolicy.BotOpenID
          grants,        \* the access of the profile in config.json
          active,        \* scope -> number of the run registered for it
          cards,         \* cards in the chats, [value, place, by, run, signed]
          detached,      \* presses whose command is a task of its own
          last,          \* what became of a press in the step that was the last
          runs, presses, dispatchFaults
dispatchVars == <<connection, botId, grants, active, cards, detached, last, runs, presses, dispatchFaults>>

Controls == [state |-> "known", owner |-> NoOne]
chatScopeKey(chat, thread) == IF thread = "" THEN <<chat>> ELSE <<chat, thread>>
Scoped(m) == m @@ [mode |-> IF m.thread # "" THEN "topic" ELSE IF m.p2p THEN "p2p" ELSE "group", scope |-> chatScopeKey(m.chat, m.thread)]
-----------------------------------------------------------------------------
mapMessage(place, user) == Scoped([chat |-> place.chat, thread |-> place.thread, p2p |-> place.p2p, by |-> user])
MessageScope(place) == mapMessage(place, Bot).scope

\* A press names its message, and Lark is asked for the thread of that, with no regard to errors;
\* without a chat it is taken for one with the user alone.
ResolveCarrierThreadID(place, answers) == IF answers THEN place.thread ELSE ""
mapCardAction(place, user, told, answers) ==
  LET private == ~told \/ place.tells IN
  Scoped([chat |-> IF told THEN place.chat ELSE user, p2p |-> private, by |-> user,
          thread |-> IF private THEN "" ELSE ResolveCarrierThreadID(place, answers)])

\* What the mapping gives has none of the marks of a reply of the bridge.
evaluate(user) == botId # "" /\ user = botId
cardActionAccessDecision(config, action) ==
  Permits(IF action.p2p THEN CanUseDM(config, Controls, action.by) ELSE CanUseGroup(config, Controls, action.chat, action.by))
accessDecision(config, action) ==
  Permits(IF action.mode = "p2p" THEN CanUseDM(config, Controls, action.by) ELSE CanUseGroup(config, Controls, action.chat, action.by))

shouldDetachCardCommand(card) == card.value \in {"config.submit", "config.cancel"} /\ ~card.signed
isSignedCallback(card) == card.signed
ActiveRun(scope) == IF scope \in DOMAIN active THEN active[scope] ELSE 0
\* A token of a form is good after its run as well.
verify(card, action) ==
  /\ action.scope = MessageScope(card.place) /\ action.chat = card.place.chat /\ action.by = card.by
  /\ card.value = "form" \/ ActiveRun(action.scope) = card.run
-----------------------------------------------------------------------------
Fails == dispatchFaults < MaxDispatchFaults /\ dispatchFaults' = dispatchFaults + 1
DispatchInit ==
  /\ connection = "off" /\ botId = "" /\ grants \in Grants /\ active = <<>> /\ cards = {} /\ detached = {} /\ last = <<>>
  /\ runs = 0 /\ presses = 0 /\ dispatchFaults = 0

\* connect: events come from here on, and the identity of the bot, or the projection, may fail.
Connect == connection = "off" /\ connection' = "connected" /\ last' = <<>> /\ UNCHANGED <<botId, grants, active, cards, detached, runs, presses, dispatchFaults>>
Identity ==
  /\ connection = "connected"
  /\ \/ connection' = "ready" /\ botId' = Bot /\ UNCHANGED dispatchFaults
     \/ Fails /\ connection' = "off" /\ UNCHANGED botId
  /\ last' = <<>> /\ UNCHANGED <<grants, active, cards, detached, runs, presses>>
\* Disconnect, or the first half of Reconnect: the identity is kept.
Disconnect == connection = "ready" /\ connection' = "off" /\ last' = <<>> /\ UNCHANGED <<botId, grants, active, cards, detached, runs, presses, dispatchFaults>>

\* A message that is let in begins a run, and what may be pressed comes with it: the stop button,
\* signed if that comes off, a form of the agent, one of a command, or what does nothing.
HandleMessage(place, user) ==
  LET message == mapMessage(place, user)
      Card(value, signed) == [value |-> value, place |-> place, by |-> user, run |-> runs + 1, signed |-> signed]
  IN /\ connection # "off" /\ ~evaluate(user) /\ cardActionAccessDecision(grants, message)
     /\ message.scope \notin DOMAIN active /\ runs < MaxRuns
     /\ runs' = runs + 1 /\ active' = message.scope :> runs + 1 @@ active
     /\ \/ cards' \in {cards \cup {Card(v, v \in {"stop", "form"})} : v \in {"stop", "form", "config.submit", "none"}} /\ UNCHANGED dispatchFaults
        \/ Fails /\ cards' = cards \cup {Card("stop", FALSE)}
     /\ last' = <<>> /\ UNCHANGED <<connection, botId, grants, detached, presses>>
unregisterActiveRun(scope) ==
  /\ active' = [s \in DOMAIN active \ {scope} |-> active[s]]
  /\ last' = <<>> /\ UNCHANGED <<connection, botId, grants, cards, detached, runs, presses, dispatchFaults>>
AccessChanges(config) ==
  /\ grants # config /\ presses > 0 /\ grants' = config
  /\ last' = <<>> /\ UNCHANGED <<connection, botId, active, cards, detached, runs, presses, dispatchFaults>>

\* dispatchCardActionNow and Dispatch: with the configuration that was read when the press came.
Dispatch(card, action, config) ==
  LET Answers(outcome) == [card |-> card, action |-> action, config |-> config, outcome |-> outcome, run |-> ActiveRun(action.scope)]
      verified == isSignedCallback(card) => verify(card, action)
      command == card.value \in {"stop", "config.submit", "config.cancel"}
      outcome == IF card.value = "none" THEN "ignored"
                 ELSE IF ~verified THEN "rejected"
                 ELSE IF card.value = "form" THEN "enqueued"
                 ELSE IF accessDecision(config, action) THEN "command" ELSE "denied"
  IN /\ last' = Answers(outcome)
     /\ active' = IF outcome = "command" /\ card.value = "stop" THEN [s \in DOMAIN active \ {action.scope} |-> active[s]] ELSE active
     \* The token is spent.
     /\ cards' = IF isSignedCallback(card) /\ verified THEN cards \ {card} ELSE cards
CardPressed(card, user, told, answers) ==
  LET action == mapCardAction(card.place, user, told, answers)
      Refused(outcome) == last' = [card |-> card, action |-> action, config |-> grants, outcome |-> outcome, run |-> 0]
                          /\ UNCHANGED <<active, cards, detached>>
  IN /\ connection # "off" /\ presses < MaxPresses /\ presses' = presses + 1
     /\ ~answers => card.place.thread # ""
     /\ \/ evaluate(user) /\ Refused("self") /\ UNCHANGED dispatchFaults
        \/ ~evaluate(user) /\ Fails /\ Refused("config-unavailable")
        \/ ~evaluate(user) /\ ~cardActionAccessDecision(grants, action) /\ Refused("denied") /\ UNCHANGED dispatchFaults
        \/ /\ ~evaluate(user) /\ cardActionAccessDecision(grants, action) /\ UNCHANGED dispatchFaults
           /\ IF shouldDetachCardCommand(card)
                THEN detached' = detached \cup {[card |-> card, action |-> action, config |-> grants]} /\ last' = <<>> /\ UNCHANGED <<active, cards>>
                ELSE Dispatch(card, action, grants) /\ UNCHANGED detached
     /\ UNCHANGED <<connection, botId, grants, runs>>
dispatchDetachedCardCommand(task) ==
  /\ Dispatch(task.card, task.action, task.config) /\ detached' = detached \ {task}
  /\ UNCHANGED <<connection, botId, grants, runs, presses, dispatchFaults>>

DispatchNext ==
  \/ Connect \/ Identity \/ Disconnect
  \/ \E place \in Places, user \in Askers \cup {Bot} : HandleMessage(place, user)
  \/ \E scope \in DOMAIN active : unregisterActiveRun(scope)
  \/ \E config \in Grants : AccessChanges(config)
  \/ \E card \in cards, user \in Users \cup {Bot}, told, answers \in BOOLEAN : CardPressed(card, user, told, answers)
  \/ \E task \in detached : dispatchDetachedCardCommand(task)
-----------------------------------------------------------------------------
Acted == last # <<>> /\ last.outcome \in {"command", "enqueued"}
AtItsPlace == last.action.scope = MessageScope(last.card.place)

\* A signed card does what it says to its own run or its own scope and for its own user, and a
\* stop that could not be signed does so to whatever is of the scope of the press; that is
\* another one only where Lark did not say which thread or which chat the card is in
\* (oapi_transport.go: mapCardAction drops the error of the lookup).
ActsOnItsOwn ==
  Acted =>
    /\ last.card.signed => AtItsPlace /\ last.action.by = last.card.by /\ (last.card.value = "stop" => last.run = last.card.run)
    /\ AtItsPlace \/ (last.action.thread = "" /\ (last.card.place.thread # "" \/ last.action.chat = last.action.by))

\* Whom the profile did not grant it when he pressed does nothing, in a private chat or a group,
\* nor does the bot once it knows itself (adapter.go: selfLoopPolicy).
GrantedWhenPressed ==
  Acted =>
    /\ last.action.p2p = last.card.place.p2p /\ AtItsPlace =>
         Permits(IF last.card.place.p2p THEN CanUseDM(last.config, Controls, last.action.by)
                 ELSE CanUseGroup(last.config, Controls, last.card.place.chat, last.action.by))
    /\ last.action.mode = "p2p" <=> (last.action.p2p /\ last.action.thread = "")

\* One scope is one chat, or one thread of one chat, for messages and for presses.
ScopesApart ==
  \A p, q \in Places : MessageScope(p) = MessageScope(q) <=> (p.chat = q.chat /\ p.thread = q.thread)

PressesHeld == ActsOnItsOwn /\ GrantedWhenPressed /\ ScopesApart
=============================================================================
