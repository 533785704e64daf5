---------------------------- MODULE ManagedIntake ----------------------------
(***************************************************************************)
(* The managed intake, pkg/bridge/lark_managed.go: what becomes of a       *)
(* message or a submitted account form.  The profile is read from disk for *)
(* every event and once more for every batch, while other programs and the *)
(* /config command replace it; the owner of the app is asked for again and *)
(* again.  The queue is the one of IntakeQueue, here one step per          *)
(* operation.  Answers the intake sends are remembered, not their text;    *)
(* that a send fails is only logged.                                       *)
(***************************************************************************)
EXTENDS AccessPolicy, Naturals, Sequences, Functions

CONSTANTS Messages,  \* records: sender, chat, p2p, mentioned, command
          Profiles,  \* records: users, chats, admins, requireMention, typing (COT is off and
                     \* replies are not cards)
          Owners,    \* who FetchLarkOwner may name
          Forms,     \* account forms: key of app and message
          MaxClicks, MaxProfiles   \* bounds of the clicks on a form, of the changes on disk

Unreadable == [unreadable |-> TRUE]
Chats == {m.chat : m \in Messages}
None == "none"

VARIABLES disk,      \* the profile in the file, or Unreadable
          controls,  \* the owner of the app, and the state of its refresh
          place,     \* where each message is
          pending,   \* the queue's messages per chat
          handed,    \* batches handed to the chat's worker
          batch,     \* what the worker is doing: [at, msgs, profile, controls]
          activeRuns,
          answers,   \* what the intake sent: <<message, answer>>
          runs,      \* history: the runs, [msgs, profile, controls]
          reaction,  \* per message: the task that adds the Typing reaction, and its channel
          cleanup,   \* per message: the task that removes it
          typing,    \* messages that show it
          tasks,     \* detached tasks per form
          restart,   \* accountReconnectPending and the task: [pending, at, form]
          restartSeen,
          restarts,  \* history: restarts per form while it is in restartSeen
          stopped,   \* lifecycleClosed
          clicks, changes

owned == <<disk, controls, changes>>
messaging == <<place, pending, handed, batch, activeRuns, answers, runs>>
reacting == <<reaction, cleanup, typing>>
accounts == <<tasks, restart, restartSeen, restarts, clicks>>
intakeVars == <<owned, messaging, reacting, accounts, stopped>>

NoBatch == [at |-> None]
IntakeInit ==
  /\ disk \in Profiles /\ controls = [owner |-> NoOne, state |-> "unknown"] /\ changes = 0
  /\ place = [m \in Messages |-> "new"]
  /\ pending = [c \in Chats |-> <<>>] /\ handed = [c \in Chats |-> <<>>]
  /\ batch = [c \in Chats |-> NoBatch] /\ activeRuns = [c \in Chats |-> {}]
  /\ answers = {} /\ runs = {}
  /\ reaction = [m \in Messages |-> None] /\ cleanup = [m \in Messages |-> None] /\ typing = {}
  /\ tasks = [f \in Forms |-> 0] /\ clicks = [f \in Forms |-> 0]
  /\ restart = [pending |-> FALSE, at |-> None, form |-> None]
  /\ restartSeen = {} /\ restarts = [f \in Forms |-> 0]
  /\ stopped = FALSE

-----------------------------------------------------------------------------
\* Another writer replaces the profile, or leaves a file that cannot be read.
ProfileChanges ==
  /\ changes < MaxProfiles /\ changes' = changes + 1
  /\ disk' \in (Profiles \cup {Unreadable}) \ {disk}
  /\ UNCHANGED <<controls, messaging, reacting, accounts, stopped>>

\* refreshRuntimeOwner: a failure keeps the owner that was known.
refreshRuntimeOwner ==
  /\ ~stopped
  /\ \/ \E o \in Owners : controls' = [owner |-> o, state |-> "ok"]
     \/ controls' = [controls EXCEPT !.state = "failed"]
  /\ UNCHANGED <<disk, changes, messaging, reacting, accounts, stopped>>

\* messageAccessDecisionWithProfile
messageAccess(m, profile) ==
  IF m.p2p THEN CanUseDM(profile, controls, m.sender)
  ELSE CanUseGroup(profile, controls, m.chat, m.sender)

\* What is sent for a profile that cannot be read, and to a group that is not allowed.
notifyRuntimeConfigFailure(m) ==
  IF m.p2p \/ m.mentioned THEN {<<m, "profile failure">>} ELSE {}
sendNonAllowedGroupHint(m) ==
  IF ~m.p2p /\ m.mentioned THEN {<<m, "group hint">>} ELSE {}

\* handleMessage up to the command: the profile may change before what follows.
handleMessage(m) ==
  /\ place[m] = "new"
  /\ IF disk = Unreadable
       THEN /\ place' = [place EXCEPT ![m] = "over"]
            /\ answers' = answers \cup notifyRuntimeConfigFailure(m)
     ELSE IF ~Permits(messageAccess(m, disk))
       THEN /\ place' = [place EXCEPT ![m] = "over"]
            /\ answers' = answers \cup sendNonAllowedGroupHint(m)
     ELSE /\ place' = [place EXCEPT ![m] = IF ~m.p2p /\ disk.requireMention /\ ~m.mentioned
                                             THEN "over" ELSE "admitted"]
          /\ UNCHANGED answers
  /\ UNCHANGED <<pending, handed, batch, activeRuns, runs, owned, reacting, accounts, stopped>>

\* A command that is handled cancels what its chat had pending and is answered;
\* one that fails is only logged.
HandleCommand(m) ==
  /\ place[m] = "admitted" /\ m.command
  /\ \/ /\ pending' = [pending EXCEPT ![m.chat] = <<>>]
        /\ place' = [n \in Messages |-> IF n = m \/ n \in Range(pending[m.chat]) THEN "over" ELSE place[n]]
        /\ answers' = answers \cup {<<m, "command">>}
     \/ place' = [place EXCEPT ![m] = "over"] /\ UNCHANGED <<pending, answers>>
  /\ UNCHANGED <<handed, batch, activeRuns, runs, owned, reacting, accounts, stopped>>

\* Everything else goes to the queue, which refuses it once it is closed.
PushMessage(m) ==
  /\ place[m] = "admitted" /\ ~m.command
  /\ IF stopped THEN place' = [place EXCEPT ![m] = "over"] /\ UNCHANGED pending
     ELSE /\ place' = [place EXCEPT ![m] = "queued"]
          /\ pending' = [pending EXCEPT ![m.chat] = Append(@, m)]
  /\ UNCHANGED <<handed, batch, activeRuns, answers, runs, owned, reacting, accounts, stopped>>

\* The timer of the chat, which does not run while its handler has blocked it.
QueueFires(c) ==
  /\ pending[c] # <<>> /\ batch[c].at \notin {"resolving", "running"} /\ ~stopped
  /\ handed' = [handed EXCEPT ![c] = Append(@, pending[c])]
  /\ pending' = [pending EXCEPT ![c] = <<>>]
  /\ UNCHANGED <<place, batch, activeRuns, answers, runs, owned, reacting, accounts, stopped>>
-----------------------------------------------------------------------------
\* handleBatch, first part: the profile is read again, and whoever wrote first is
\* checked again.  The worker may have taken a batch that Close would drop.
Over(ms) == place' = [n \in Messages |-> IF n \in Range(ms) THEN "over" ELSE place[n]]

\* Mutant of handleBatch: the decision of handleMessage is taken for good.
handleBatchTrusting(c) ==
  /\ handed[c] # <<>> /\ batch[c].at = None
  /\ handed' = [handed EXCEPT ![c] = Tail(@)]
  /\ LET ms == Head(handed[c]) IN
     IF disk = Unreadable
       THEN Over(ms) /\ answers' = answers \cup notifyRuntimeConfigFailure(ms[1]) /\ UNCHANGED batch
     ELSE /\ batch' = [batch EXCEPT ![c] = [at |-> "resolving", msgs |-> ms,
                                            profile |-> disk, controls |-> controls]]
          /\ UNCHANGED <<place, answers>>
  /\ UNCHANGED <<pending, activeRuns, runs, owned, reacting, accounts, stopped>>

handleBatch(c) ==
  /\ handed[c] # <<>> /\ batch[c].at = None
  /\ handed' = [handed EXCEPT ![c] = Tail(@)]
  /\ LET ms == Head(handed[c]) IN
     IF disk = Unreadable
       THEN Over(ms) /\ answers' = answers \cup notifyRuntimeConfigFailure(ms[1]) /\ UNCHANGED batch
     ELSE IF ~Permits(messageAccess(ms[1], disk))
       THEN Over(ms) /\ answers' = answers \cup sendNonAllowedGroupHint(ms[1]) /\ UNCHANGED batch
     ELSE /\ batch' = [batch EXCEPT ![c] = [at |-> "resolving", msgs |-> ms,
                                            profile |-> disk, controls |-> controls]]
          /\ UNCHANGED <<place, answers>>
  /\ UNCHANGED <<pending, activeRuns, runs, owned, reacting, accounts, stopped>>

\* Attachments that cannot be loaded and a run that is refused are answered, another
\* error is logged; else the run starts and is registered, and unless the process
\* is shown elsewhere a task adds the Typing reaction to the last message.
RunRefused(c) ==
  /\ batch[c].at = "resolving"
  /\ LET last == batch[c].msgs[Len(batch[c].msgs)] IN
     answers' \in {answers, answers \cup {<<last, "refused">>}}
  /\ Over(batch[c].msgs)
  /\ batch' = [batch EXCEPT ![c] = NoBatch]
  /\ UNCHANGED <<pending, handed, activeRuns, runs, owned, reacting, accounts, stopped>>

RunStarts(c) ==
  /\ batch[c].at = "resolving"
  /\ LET b == batch[c]  last == b.msgs[Len(b.msgs)] IN
     /\ batch' = [batch EXCEPT ![c].at = "running"]
     /\ activeRuns' = [activeRuns EXCEPT ![c] = {last}]
     /\ runs' = runs \cup {[msgs |-> b.msgs, profile |-> b.profile, controls |-> b.controls]}
     /\ reaction' = [reaction EXCEPT ![last] =
          IF ~b.profile.typing THEN None ELSE IF stopped THEN "closed" ELSE "adding"]
  /\ UNCHANGED <<place, pending, handed, answers, owned, cleanup, typing, accounts, stopped>>

\* presentRun returns, and the deferred calls are made.
RunEnds(c) ==
  /\ batch[c].at = "running"
  /\ LET ms == batch[c].msgs  last == ms[Len(ms)] IN
     /\ Over(ms)
     /\ cleanup' = [cleanup EXCEPT ![last] =
          IF reaction[last] = None \/ stopped THEN None ELSE "waiting"]
     /\ activeRuns' = [activeRuns EXCEPT ![c] = @ \ {last}]
  /\ batch' = [batch EXCEPT ![c] = NoBatch]
  /\ UNCHANGED <<pending, handed, answers, runs, owned, reaction, typing, accounts, stopped>>
-----------------------------------------------------------------------------
\* The task of addWorkingReaction: it closes its channel in the end, with the
\* reaction in it or without.
ReactionEnds(m) ==
  /\ reaction[m] = "adding"
  /\ \/ reaction' = [reaction EXCEPT ![m] = "sent"] /\ typing' = typing \cup {m}
     \/ reaction' = [reaction EXCEPT ![m] = "closed"] /\ UNCHANGED typing
     \/ stopped /\ reaction' = [reaction EXCEPT ![m] = "closed"] /\ typing' = typing \cup {m}
  /\ UNCHANGED <<cleanup, owned, messaging, accounts, stopped>>

\* Mutant of CleanupEnds: after the grace period the task gives up.
CleanupGivesUp(m) ==
  /\ cleanup[m] = "waiting"
  /\ \/ reaction[m] = "sent" /\ typing' = typing \ {m} /\ reaction' = [reaction EXCEPT ![m] = "closed"]
     \/ UNCHANGED <<reaction, typing>>
  /\ cleanup' = [cleanup EXCEPT ![m] = "done"]
  /\ UNCHANGED <<owned, messaging, accounts, stopped>>

\* The task of scheduleWorkingReactionCleanup waits for the channel, longer than
\* its grace period if need be, and removes the reaction.
CleanupEnds(m) ==
  /\ cleanup[m] = "waiting"
  /\ \/ reaction[m] = "sent" /\ typing' = typing \ {m} /\ reaction' = [reaction EXCEPT ![m] = "closed"]
     \/ (reaction[m] = "closed" \/ stopped) /\ UNCHANGED <<reaction, typing>>
  /\ cleanup' = [cleanup EXCEPT ![m] = "done"]
  /\ UNCHANGED <<owned, messaging, accounts, stopped>>
-----------------------------------------------------------------------------
\* Dispatch of an account form: a profile that cannot be read and an operator
\* without access end it; the rest is a task, so that the click is answered at once.
\* The platform delivers a click again that it thinks was not answered.
Dispatch(f) ==
  /\ clicks[f] < MaxClicks /\ clicks' = [clicks EXCEPT ![f] = @ + 1]
  /\ IF disk = Unreadable \/ stopped THEN UNCHANGED tasks
     ELSE tasks' \in {tasks, [tasks EXCEPT ![f] = @ + 1]}
  /\ UNCHANGED <<restart, restartSeen, restarts, owned, messaging, reacting, stopped>>

\* Mutant of scheduleAccountReconnect: forms are not remembered.
scheduleAgain(f) ==
  /\ UNCHANGED restartSeen
  /\ IF ~restart.pending /\ ~stopped
       THEN restart' = [pending |-> TRUE, at |-> "delay", form |-> f]
       ELSE UNCHANGED restart

\* A form that was seen, or that comes while a restart is pending, starts none.
scheduleAccountReconnect(f) ==
  /\ restartSeen' = restartSeen \cup {f}
  /\ IF f \notin restartSeen /\ ~restart.pending /\ ~stopped
       THEN restart' = [pending |-> TRUE, at |-> "delay", form |-> f]
       ELSE UNCHANGED restart

\* The detached task: the command saves the account, or fails and sends the form
\* once more; of the response the restart is what is left.
DetachedEnds(f) ==
  /\ tasks[f] > 0 /\ tasks' = [tasks EXCEPT ![f] = @ - 1]
  /\ scheduleAccountReconnect(f) \/ UNCHANGED <<restart, restartSeen>>
  /\ UNCHANGED <<restarts, clicks, owned, messaging, reacting, stopped>>

\* The task of the restart: its delay, Restart, and in any case the flag.
RestartBegins ==
  /\ restart.at = "delay" /\ ~stopped
  /\ restart' = [restart EXCEPT !.at = "running"]
  /\ restarts' = [restarts EXCEPT ![restart.form] = @ + 1]
  /\ UNCHANGED <<tasks, restartSeen, clicks, owned, messaging, reacting, stopped>>

RestartEnds ==
  /\ restart.at = "running" \/ (restart.at = "delay" /\ stopped)
  /\ restart' = [pending |-> FALSE, at |-> None, form |-> None]
  /\ UNCHANGED <<tasks, restartSeen, restarts, clicks, owned, messaging, reacting, stopped>>

\* managedAccountReconnectDedupTTL, which is longer than the delay of a restart, has
\* passed since the form was seen.
SeenExpires(f) ==
  /\ f \in restartSeen /\ ~(restart.at = "delay" /\ restart.form = f)
  /\ restartSeen' = restartSeen \ {f}
  /\ restarts' = [restarts EXCEPT ![f] = 0]
  /\ UNCHANGED <<tasks, restart, clicks, owned, messaging, reacting, stopped>>

\* Close: the queue forgets what it has not handed over; a batch in a worker's
\* channel may still be taken.
CloseIntake ==
  /\ ~stopped /\ stopped' = TRUE
  /\ pending' = [c \in Chats |-> <<>>]
  /\ place' = [m \in Messages |-> IF \E c \in Chats : m \in Range(pending[c]) THEN "over" ELSE place[m]]
  /\ UNCHANGED <<handed, batch, activeRuns, answers, runs, owned, reacting, accounts>>

MessagesNext ==
  \/ ProfileChanges \/ refreshRuntimeOwner \/ CloseIntake
  \/ \E m \in Messages : handleMessage(m) \/ HandleCommand(m) \/ PushMessage(m)
                       \/ ReactionEnds(m) \/ CleanupEnds(m)
  \/ \E c \in Chats : QueueFires(c) \/ handleBatch(c) \/ RunRefused(c) \/ RunStarts(c) \/ RunEnds(c)
FormsNext ==
  \/ ProfileChanges \/ CloseIntake
  \/ \E f \in Forms : Dispatch(f) \/ DetachedEnds(f) \/ SeenExpires(f)
  \/ RestartBegins \/ RestartEnds
IntakeSpec == IntakeInit /\ [][MessagesNext \/ FormsNext]_intakeVars
-----------------------------------------------------------------------------
\* Nobody gets a run of their own whom the profile of the run and the owner known
\* at the time do not allow, however long the message waited, and nothing the
\* intake answered otherwise is in a run.
NoStrangerRuns == \A r \in runs :
  /\ LET m == r.msgs[1] IN
     Permits(IF m.p2p THEN CanUseDM(r.profile, r.controls, m.sender)
             ELSE CanUseGroup(r.profile, r.controls, m.chat, m.sender))
  /\ \A m \in Range(r.msgs) : \A a \in {"group hint", "command"} : <<m, a>> \notin answers

\* A Typing reaction whose run is over, however late it was added, has a task that
\* will remove it, unless the intake is closed.
TypingGoesAway == \A m \in Messages :
  (m \in typing /\ place[m] = "over") => cleanup[m] = "waiting" \/ stopped

\* A form restarts the connection once, however often the click is delivered and
\* whatever other forms do, until it is forgotten.
OneRestartPerForm == \A f \in Forms : restarts[f] <= 1

\* Only who may be served is run for, and a saved form restarts the bridge once.
IntakeHolds == NoStrangerRuns /\ OneRestartPerForm
=============================================================================
