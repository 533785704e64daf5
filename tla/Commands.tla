-------------------------------- MODULE Commands --------------------------------
(***************************************************************************)
(* The commands of internal/app/commands that only admins may use, or only *)
(* for the place they are in, from the message to their effect: /invite    *)
(* and /remove, /ws, /cd, /new chat, /stop, /timeout and /exit.  A request *)
(* is judged by the profile that was loaded when its message arrived; what *)
(* it changes it reads anew, under the mutex of config.json.               *)
(***************************************************************************)
EXTENDS AccessPolicy, Integers, Sequences
LOCAL INSTANCE Functions

CONSTANTS Threads, Requests,  \* goroutines; records [cmd, sender, chat, p2p] and what the command takes
          Accesses, Owner,    \* what config.json may hold at first; the owner of the app
          Global,             \* aliases of before they were kept by scope: name -> directory
          KnownChats, NewChat, Bots,   \* the groups of the bot, one to be made, the bots as they started
          HasPath,            \* whether the host gave the path of config.json
          MaxRequests, MaxCommandFaults   \* bounds

VARIABLES config,    \* the access of the profile in config.json
          owner,     \* the owner as known so far
          named, cwd,  \* alias -> directory, scope -> directory, as persisted
          idle,      \* scope -> its timeout, or <<>>
          running,   \* scopes with a run
          bots,      \* the running bots in the order of their start
          request,   \* thread -> the request in hand, judged by [access, owner]
          kept,      \* history: <<list, id>> -> whether the last answer said it is in, if any did
          vouched,   \* history: <<list, id>> that somebody who may has put there
          saved,     \* history: <<scope, name>> -> the last alias saved
          deeds,     \* history: what admins only may do, and who did it
          handled, commandFaults
commandVars == <<config, owner, named, cwd, idle, running, bots, request, kept, vouched, saved, deeds, handled, commandFaults>>

Lists == {"users", "chats", "admins"}
Entries(access) == UNION {{<<l, id>> : id \in access[l]} : l \in Lists}
controls(known) == [owner |-> known, state |-> IF known = NoOne THEN "unknown" ELSE "ok"]
Put(f, key, value) == [k \in DOMAIN f \cup {key} |-> IF k = key THEN value ELSE f[k]]
Without(f, key) == [k \in DOMAIN f \ {key} |-> f[k]]
Nothing == [cmd |-> "none"]
\* A request with the access and the owner it is judged by.
Judged(r, access, known) ==
  [k \in DOMAIN r \cup {"seen", "known"} |-> IF k = "seen" THEN access ELSE IF k = "known" THEN known ELSE r[k]]
-----------------------------------------------------------------------------
\* Mutant of isAdminCommand: /invite is for everybody.
isAdminCommandLess(r) == r.cmd \in {"/cd", "/ws", "/remove", "/exit"}
isAdminCommand(r) == r.cmd \in {"/cd", "/ws", "/invite", "/remove", "/exit"}
Elsewhere(r) == r.cmd \in {"/stop", "/timeout"} /\ r.target # ""
canAdmin(r) == Permits(CanRunAdminCommand(r.seen, controls(r.known), r.sender))
Refuses(r) == (isAdminCommand(r) \/ Elsewhere(r)) /\ ~canAdmin(r)

Arrives(t) ==
  /\ request[t] = Nothing /\ handled < MaxRequests
  /\ \E r \in Requests :
       /\ Permits(IF r.p2p THEN CanUseDM(config, controls(owner), r.sender)
                  ELSE CanUseGroup(config, controls(owner), r.chat, r.sender))
       /\ request' = [request EXCEPT ![t] = Judged(r, config, owner)]
  /\ handled' = handled + 1
  /\ UNCHANGED <<config, owner, named, cwd, idle, running, bots, kept, vouched, saved, deeds, commandFaults>>

Answered(t) == request' = [request EXCEPT ![t] = Nothing]
Fallible == \/ commandFaults' = commandFaults
            \/ commandFaults < MaxCommandFaults /\ commandFaults' = commandFaults + 1
Failed == commandFaults' # commandFaults
\* Mutant of mutated: the access of the request is changed instead of the one that is in the file.
mutatedSeen(t) == request[t].seen
mutated(t) == config

\* The list of an /invite or /remove, and who or what is to be on it or off it.
accessKind(r) == IF r.kind = "group" THEN "chats" ELSE IF r.kind = "admin" THEN "admins" ELSE "users"
Targets(r) ==
  IF r.kind = "all group" THEN KnownChats
  ELSE IF r.kind = "group" THEN (IF r.p2p THEN {} ELSE {r.chat})
  ELSE {m.id : m \in {n \in r.mentions : ~n.bot}}
ListOf(r) == IF r.kind = "all group" THEN "chats" ELSE accessKind(r)
saveAccess(t, next) ==
  /\ Fallible
  /\ config' = IF HasPath /\ ~Failed THEN next ELSE config
  /\ kept' = IF Failed THEN kept
             ELSE [k \in DOMAIN kept \cup ({ListOf(request[t])} \X Targets(request[t])) |->
                     IF k \in {ListOf(request[t])} \X Targets(request[t]) THEN k \in Entries(next) ELSE kept[k]]
  /\ UNCHANGED <<owner, named, cwd, idle, running, bots, saved>>
handleInvite(t) ==
  LET r == request[t]  l == ListOf(r)
      next == [m \in Lists |-> IF m = l THEN mutated(t)[m] \cup Targets(r) ELSE mutated(t)[m]]
  IN /\ r.cmd = "/invite" /\ saveAccess(t, next)
     /\ vouched' = vouched \cup (IF <<"admins", r.sender>> \in vouched THEN {l} \X Targets(r) ELSE {})
handleRemove(t) ==
  LET r == request[t]
      next == [m \in Lists |-> IF m = ListOf(r) THEN mutated(t)[m] \ Targets(r) ELSE mutated(t)[m]]
  IN r.cmd = "/remove" /\ r.kind # "all group" /\ saveAccess(t, next) /\ UNCHANGED vouched
-----------------------------------------------------------------------------
\* An alias belongs to the owner, as far as known, and to the scope.
scopedWorkspaceName(r, name) == <<r.known, r.chat, name>>
workspaceAlias(r, name) ==
  IF scopedWorkspaceName(r, name) \in DOMAIN named THEN named[scopedWorkspaceName(r, name)]
  ELSE IF <<name>> \in DOMAIN named THEN named[<<name>>] ELSE ""
\* Mutant of removeWorkspaceAlias: the one that all scopes see goes too.
removeBothAliases(r, name) == Without(Without(named, scopedWorkspaceName(r, name)), <<name>>)
removeWorkspaceAlias(r, name) ==
  IF scopedWorkspaceName(r, name) \in DOMAIN named THEN Without(named, scopedWorkspaceName(r, name)) ELSE Without(named, <<name>>)
effectiveCWD(r) == IF r.chat \in DOMAIN cwd THEN cwd[r.chat] ELSE "default"
\* /cd, and /ws use, which also interrupt the run of the scope; the session they end is in SessionFlow.
SetCWD(scope, dir) ==
  /\ cwd' = IF Failed THEN cwd ELSE Put(cwd, scope, dir)
  /\ running' = IF Failed THEN running ELSE running \ {scope}
handleCD(t) == LET r == request[t] IN
  r.cmd = "/cd" /\ Fallible /\ SetCWD(r.chat, r.dir) /\ UNCHANGED <<config, owner, named, idle, bots, kept, vouched, saved>>
handleWS(t) ==
  LET r == request[t] IN
  /\ r.cmd = "/ws" /\ Fallible
  /\ named' = IF Failed THEN named
              ELSE IF r.sub = "save" THEN Put(named, scopedWorkspaceName(r, r.name), effectiveCWD(r))
              ELSE IF r.sub = "remove" THEN removeWorkspaceAlias(r, r.name) ELSE named
  /\ saved' = IF Failed THEN saved
              ELSE IF r.sub = "save" THEN Put(saved, <<r.chat, r.name>>, [owner |-> r.known, dir |-> effectiveCWD(r)])
              ELSE IF r.sub = "remove" THEN Without(saved, <<r.chat, r.name>>) ELSE saved
  /\ IF r.sub = "use" /\ workspaceAlias(r, r.name) # "" THEN SetCWD(r.chat, workspaceAlias(r, r.name)) ELSE UNCHANGED <<cwd, running>>
  /\ UNCHANGED <<config, owner, idle, bots, kept, vouched>>

\* The new group inherits the directory, unless making it or saving that fails.
handleNewChat(t) ==
  /\ request[t].cmd = "/new chat" /\ Fallible
  /\ cwd' = IF Failed THEN cwd ELSE Put(cwd, NewChat, effectiveCWD(request[t]))
  /\ UNCHANGED <<config, owner, named, idle, running, bots, kept, vouched, saved>>

Default == -1    \* a scope with no timeout of its own; any other number that is no number of minutes changes nothing
Scope(r) == IF r.target = "" THEN r.chat ELSE r.target
handleStop(t) ==
  /\ request[t].cmd = "/stop" /\ running' = running \ {Scope(request[t])}
  /\ UNCHANGED <<config, owner, named, cwd, idle, bots, kept, vouched, saved, commandFaults>>
handleTimeout(t) == LET r == request[t] IN
  /\ r.cmd = "/timeout"
  /\ idle' = IF r.value \in 0 .. 120 THEN Put(idle, Scope(r), r.value)
             ELSE IF r.value = Default THEN Without(idle, Scope(r)) ELSE idle
  /\ UNCHANGED <<config, owner, named, cwd, running, bots, kept, vouched, saved, commandFaults>>

\* A number is a place in the list; another text is an id, or how just one id begins.
resolveProcessTarget(r) ==
  IF r.rank \in DOMAIN bots THEN {bots[r.rank]}
  ELSE LET matches == {b \in Range(bots) : r.target \in b.prefixes} IN IF \E b \in matches : matches = {b} THEN matches ELSE {}
handleExit(t) ==
  LET found == resolveProcessTarget(request[t])
  IN /\ request[t].cmd = "/exit"
     /\ \/ bots' = SelectSeq(bots, LAMBDA b : b \notin found)
        \/ UNCHANGED bots    \* it is still there, or could not be asked
     /\ UNCHANGED <<config, owner, named, cwd, idle, running, kept, vouched, saved, commandFaults>>
-----------------------------------------------------------------------------
Handle(t) ==
  /\ request[t] # Nothing /\ ~Refuses(request[t])
  /\ \/ handleInvite(t) \/ handleRemove(t) \/ handleCD(t) \/ handleWS(t) \/ handleNewChat(t)
     \/ handleStop(t) \/ handleTimeout(t) \/ handleExit(t)
  /\ deeds' = IF isAdminCommand(request[t]) \/ Elsewhere(request[t]) THEN deeds \cup {request[t].sender} ELSE deeds
  /\ Answered(t)
  /\ UNCHANGED handled
Refused(t) ==
  /\ request[t] # Nothing /\ Refuses(request[t]) /\ Answered(t)
  /\ UNCHANGED <<config, owner, named, cwd, idle, running, bots, kept, vouched, saved, deeds, handled, commandFaults>>
OwnerBecomesKnown ==
  /\ owner = NoOne /\ owner' = Owner
  /\ UNCHANGED <<config, named, cwd, idle, running, bots, request, kept, vouched, saved, deeds, handled, commandFaults>>
RunBegins(scope) ==
  /\ scope \notin running /\ running' = running \cup {scope}
  /\ UNCHANGED <<config, owner, named, cwd, idle, bots, request, kept, vouched, saved, deeds, handled, commandFaults>>

CommandInit ==
  /\ config \in Accesses /\ owner = NoOne
  /\ named = Global /\ cwd = [s \in {} |-> ""] /\ idle = [s \in {} |-> 0] /\ running = {} /\ bots = Bots
  /\ request = [t \in Threads |-> Nothing]
  /\ kept = [k \in {} |-> TRUE] /\ vouched = Entries(config) \cup {<<"admins", Owner>>} /\ saved = [k \in {} |-> ""]
  /\ deeds = {} /\ handled = 0 /\ commandFaults = 0
CommandNext ==
  \/ \E t \in Threads : Arrives(t) \/ Handle(t) \/ Refused(t)
  \/ OwnerBecomesKnown
  \/ \E r \in Requests : RunBegins(r.chat)
CommandSpec == CommandInit /\ [][CommandNext]_commandVars
-----------------------------------------------------------------------------
(* Whoever may use the bot was let in by somebody who was let in as an      *)
(* admin, and so was whoever did what is for admins; what the answers to    *)
(* /invite and /remove said last is so; and an alias is found as it was     *)
(* last saved in its scope, until it is removed there, as long as it is     *)
(* known whose bot this is.                                                 *)
CommandsHeld ==
  /\ Entries(config) \subseteq vouched
  /\ \A who \in deeds : <<"admins", who>> \in vouched
  /\ HasPath => \A k \in DOMAIN kept : kept[k] <=> k \in Entries(config)
  /\ \A key \in DOMAIN saved : saved[key].owner = owner =>
       workspaceAlias([known |-> owner, chat |-> key[1]], key[2]) = saved[key].dir
=============================================================================
