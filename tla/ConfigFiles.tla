------------------------------ MODULE ConfigFiles ------------------------------
(***************************************************************************)
(* The files of a bridge home and the programs that change them: the       *)
(* profile commands, migration and first start of cmd/lark-channel-bridge, *)
(* the overlay of internal/app/larkcli that shows lark-cli another         *)
(* config.json for a while, and the commands of a running bridge that      *)
(* change its profile.  A program reads what it needs, which decides the   *)
(* effects it then has on the files, one after the other; any of them may  *)
(* fail, and the process may crash between two.  Those that take the lock  *)
(* of config.json exclude each other; a first start and the commands of a  *)
(* running bridge do not take it.                                          *)
(***************************************************************************)
EXTENDS Naturals, Sequences, FiniteSets

CONSTANTS Procs,    \* processes
          Names,    \* profiles
          Default,  \* the profile that is meant where none is named
          Users,    \* users that may be invited
          Homes,    \* what may be on disk at first
          MaxCalls, MaxFaults, MaxCrashes   \* bounds of the commands, of failing effects and of crashes

VARIABLES home,      \* file -> <<>>, or <<what is in it>>
          lock,      \* the holder of config.json.lock
          proc,      \* process -> what it does
          promised,  \* profiles and users of them that a command said it added
          raced,     \* a write replaced what its writer had not seen, an overlay was left, or an undo failed
          purged,    \* profiles removed for good
          calls, faults, crashes
filesVars == <<home, lock, proc, promised, raced, purged, calls, faults, crashes>>

NoProc == "nobody"
Config == <<"config">>   Active == <<"active-profile">>
Backup == <<"backup">>   Marker == <<"marker">>
State == <<"state">>     \* what the first version kept next to its config.json
Dir(n) == <<"profiles", n>>
Trash(n) == <<"trash", n>>
Files == {Config, Active, Backup, Marker, State} \cup UNION {{Dir(n), Trash(n)} : n \in Names}
In(file) == IF home[file] = <<>> THEN {} ELSE home[file][1]
StateEntries == <<"sessions", "secrets">>

\* An effect replaces, drops or moves a file, or puts something into a directory; its undo
\* is what is done instead of what was to follow when it fails.
Put(file, content, undo) == [do |-> "put", file |-> file, content |-> <<content>>, undo |-> undo]
Drop(file, undo) == [do |-> "put", file |-> file, content |-> <<>>, undo |-> undo]
Move(from, to, undo) == [do |-> "move", file |-> to, from |-> from, undo |-> undo]
Store(n) == [do |-> "store", file |-> Dir(n), undo |-> <<>>]
MoveEntry(x, from, to, undo) == [do |-> "entry", entry |-> x, file |-> to, from |-> from, undo |-> undo]

CanDo(e) ==
  /\ e.do = "move" => home[e.from] # <<>> /\ home[e.file] = <<>>
  /\ e.do = "entry" => e.entry \notin In(e.file)
After(e) ==
  IF e.do = "put" THEN [home EXCEPT ![e.file] = e.content]
  ELSE IF e.do = "move" THEN [home EXCEPT ![e.file] = home[e.from], ![e.from] = <<>>]
  ELSE IF e.do = "store" THEN [home EXCEPT ![e.file] = <<In(e.file) \cup {"secrets"}>>]
  ELSE [home EXCEPT ![e.file] = <<In(e.file) \cup {e.entry}>>, ![e.from] = <<In(e.from) \ {e.entry}>>]

\* A configuration is a root of profiles or, in the first version, one profile.
Bootstrapped == [secret |-> "ref", users |-> {}, identity |-> "bot"]
RootOf(n, profile) == [kind |-> "root", active |-> n, profiles |-> [m \in {n} |-> profile]]
AsRoot(n) == IF home[Config][1].kind = "root" THEN home[Config][1] ELSE RootOf(n, home[Config][1].profile)
loadProfileRoot == IF home[Active] = <<>> THEN AsRoot(Default) ELSE [AsRoot(Default) EXCEPT !.active = home[Active][1]]
Loads(n) == home[Config] # <<>> /\ n \in DOMAIN AsRoot(n).profiles
With(root, n, profile) == [root EXCEPT !.profiles = [m \in DOMAIN @ \cup {n} |-> IF m = n THEN profile ELSE @[m]]]
Without(root, n) == [root EXCEPT !.profiles = [m \in DOMAIN @ \ {n} |-> @[m]]]

RunsProfile(p, n) == proc[p].at = "runs" /\ proc[p].name = n
Removing(p, n) == proc[p].op \in {"remove", "purge"} /\ proc[p].at = "does" /\ proc[p].name = n
-----------------------------------------------------------------------------
(* What each program does to the files, from what it reads.                *)
bootstrapStartConfig(n) ==
  <<Store(n), Put(Config, RootOf(n, Bootstrapped), <<>>), Put(Active, n, <<>>)>>

runProfileCreate(n) ==
  IF home[Config] = <<>> THEN bootstrapStartConfig(n)
  ELSE IF n \in DOMAIN loadProfileRoot.profiles THEN <<>>
  ELSE <<Store(n), Put(Config, With(loadProfileRoot, n, Bootstrapped), <<>>)>>

runProfileUse(n) ==
  IF home[Config] = <<>> \/ n \notin DOMAIN loadProfileRoot.profiles THEN <<>>
  ELSE <<Put(Config, [loadProfileRoot EXCEPT !.active = n], <<>>), Put(Active, n, <<>>)>>

\* Mutant of restoreRemovedProfile: the directory comes back, the configuration does not.
restoreDirectory(root, n, moved) == IF moved THEN <<Move(Trash(n), Dir(n), <<>>)>> ELSE <<>>

restoreRemovedProfile(root, n, moved) ==
  (IF moved THEN <<Move(Trash(n), Dir(n), <<>>)>> ELSE <<>>)
  \o <<Put(Config, root, <<>>), Put(Active, root.active, <<>>)>>

\* Mutant of runProfileRemove: the profile that was active is still named.
RemoveLeavesActive(n, purge) ==
  IF home[Config] = <<>> \/ n \notin DOMAIN loadProfileRoot.profiles \/ home[Dir(n)] = <<>> THEN <<>>
  ELSE <<Move(Dir(n), Trash(n), <<>>), Put(Config, Without(loadProfileRoot, n), <<>>)>>

\* The profile that becomes active is the first that is left.
runProfileRemove(n, purge) ==
  IF home[Config] = <<>> \/ ~({n, loadProfileRoot.active} \subseteq DOMAIN loadProfileRoot.profiles)
     \/ (\E q \in Procs : RunsProfile(q, n)) \/ (~purge /\ home[Dir(n)] = <<>>)
  THEN <<>>
  ELSE LET root == loadProfileRoot
           left == Without(root, n)
           next == IF root.active = n /\ left.profiles # <<>> THEN [left EXCEPT !.active = CHOOSE m \in DOMAIN left.profiles : TRUE] ELSE left
           moves == home[Dir(n)] # <<>>
           undo == restoreRemovedProfile(root, n, moves)
       IN (IF moves THEN <<Move(Dir(n), Trash(n), <<>>)>> ELSE <<>>)
          \o (IF DOMAIN left.profiles = {} THEN <<Drop(Config, undo), Drop(Active, undo)>>
              ELSE <<Put(Config, next, undo), Put(Active, next.active, undo)>>)
          \o (IF purge /\ moves THEN <<Drop(Trash(n), <<>>)>> ELSE <<>>)

\* Migration moves the state entry by entry and undoes all of it when a step fails.
rollbackLegacyMigration(n, entries) ==
  [i \in 1..Len(entries) |-> MoveEntry(entries[Len(entries) + 1 - i], Dir(n), State, <<>>)]
  \o <<Put(Config, home[Config][1], <<>>), Drop(Active, <<>>)>>
migrateV1ToV2(p, n) ==
  IF home[Config] = <<>> \/ home[Config][1].kind = "root" \/ \E q \in Procs \ {p} : proc[q].at = "runs" THEN <<>>
  ELSE LET entries == SelectSeq(StateEntries, LAMBDA x : x \in In(State))
           undo == rollbackLegacyMigration(n, entries)
       IN [i \in 1..Len(entries) |->
             MoveEntry(entries[i], State, Dir(n), rollbackLegacyMigration(n, SubSeq(entries, 1, i - 1)))]
          \o <<Put(Config, AsRoot(n), undo), Put(Active, n, undo)>>

materializeEnvSecret(n) ==
  IF Loads(n) /\ AsRoot(n).profiles[n].secret = "env"
  THEN <<Store(n), Put(Config, With(AsRoot(n), n, [AsRoot(n).profiles[n] EXCEPT !.secret = "ref"]), <<>>)>> ELSE <<>>

persistLarkCliConfig(n) ==
  IF Loads(n) THEN <<Put(Config, With(AsRoot(n), n, [AsRoot(n).profiles[n] EXCEPT !.identity = "user"]), <<>>)>> ELSE <<>>

\* An overlay that was left is undone before another one is made.  One that cannot be shown is left.
recoverLegacyLarkCliSourceOverlay ==
  IF home[Marker] = <<>> THEN <<>>
  ELSE <<[do |-> "put", file |-> Config, content |-> IF home[Marker][1] THEN home[Backup] ELSE <<>>, undo |-> <<>>],
         Drop(Backup, <<>>), Drop(Marker, <<>>)>>
WithLegacyLarkCliSourceOverlay(n) ==
  LET original == IF home[Marker] = <<>> THEN home[Config] ELSE IF home[Marker][1] THEN home[Backup] ELSE <<>>
      Back(file, content) == [do |-> "put", file |-> file, content |-> content, undo |-> <<>>]
  IN IF home[Marker] = <<TRUE>> /\ home[Backup] = <<>> THEN <<>>
     ELSE recoverLegacyLarkCliSourceOverlay
          \o <<Back(Backup, original), Put(Marker, original # <<>>, <<>>),
               Put(Config, [kind |-> "legacy", profile |-> Bootstrapped], <<>>),
               Back(Config, original), Drop(Backup, <<>>), Drop(Marker, <<>>)>>

\* What a command of a running bridge does: read, change, save.
mutateRootProfile(n, user) ==
  IF Loads(n) THEN <<Put(Config, With(AsRoot(n), n, [AsRoot(n).profiles[n] EXCEPT !.users = @ \cup {user}]), <<>>)>> ELSE <<>>
-----------------------------------------------------------------------------
LockedEffects(p, op, n) ==
  CASE op = "create" -> runProfileCreate(n)
    [] op = "use" -> runProfileUse(n)
    [] op = "remove" -> runProfileRemove(n, FALSE)
    [] op = "purge" -> runProfileRemove(n, TRUE)
    [] op \in {"migrate", "start"} -> migrateV1ToV2(p, n)
    [] op = "materialize" -> materializeEnvSecret(n)
    [] op = "persist" -> persistLarkCliConfig(n)
    [] op = "overlay" -> WithLegacyLarkCliSourceOverlay(n)

\* Where a process is when a program of it is over.
Leaves(op, ok) ==
  IF op = "start" /\ ok THEN "loads"
  ELSE IF op \in {"overlay", "persist"} \/ (op = "materialize" /\ ok) THEN "loaded"
  ELSE IF op = "invite" THEN "runs" ELSE "idle"

\* A program that has nothing to do, or may not: a start does not go on with a
\* configuration that could not be migrated, nor one whose secret could not be stored.
Skipped(op, n) ==
  Leaves(op, (op = "start" => home[Config] = <<>> \/ home[Config][1].kind = "root") /\ (op = "materialize" => Loads(n)))

Promise(n, user) == [name |-> n, user |-> user]
Idle == [op |-> "none", name |-> Default, at |-> "idle", todo |-> <<>>, stale |-> FALSE, gives |-> {}, failed |-> FALSE]
To(p, at) == [proc EXCEPT ![p] = [Idle EXCEPT !.name = proc[p].name, !.at = at]]

Call(p) ==
  /\ proc[p].at = "idle" /\ calls < MaxCalls /\ calls' = calls + 1
  /\ \E op \in {"create", "use", "remove", "purge", "migrate"}, n \in Names :
       /\ op \in {"remove", "purge"} => home[Trash(n)] = <<>>   \* an archive has a name of its own
       /\ proc' = [proc EXCEPT ![p] = [Idle EXCEPT !.op = op, !.name = n, !.at = "asks"]]
  /\ UNCHANGED <<home, lock, promised, raced, purged, faults, crashes>>

\* ensureStartConfigMigrated looks at the configuration before it takes the lock.
Start(p) ==
  /\ proc[p].at = "idle" /\ calls < MaxCalls /\ calls' = calls + 1
  /\ \E n \in Names :
       proc' = [proc EXCEPT ![p] = [Idle EXCEPT !.op = "start", !.name = n,
                  !.at = IF home[Config] = <<>> \/ home[Config][1].kind = "root" THEN "loads" ELSE "asks"]]
  /\ UNCHANGED <<home, lock, promised, raced, purged, faults, crashes>>

Working(p, effects, gives) == [proc EXCEPT ![p].at = "does", ![p].todo = effects, ![p].gives = gives]

\* With the lock, a program reads the files and knows what it will do.
TakeLock(p) ==
  /\ proc[p].at = "asks" /\ lock = NoProc
  /\ LET n == proc[p].name
         effects == LockedEffects(p, proc[p].op, n)
     IN IF effects = <<>> THEN proc' = To(p, Skipped(proc[p].op, n)) /\ UNCHANGED lock
        ELSE /\ proc' = Working(p, effects, IF proc[p].op = "create" THEN {Promise(n, "")} ELSE {})
             /\ lock' = p
  /\ UNCHANGED <<home, promised, raced, purged, calls, faults, crashes>>

\* A first start writes a configuration where it found none.
StartLoads(p) ==
  /\ proc[p].at = "loads"
  /\ proc' = IF home[Config] = <<>> THEN [Working(p, bootstrapStartConfig(proc[p].name), {}) EXCEPT ![p].op = "start"]
             ELSE To(p, IF Loads(proc[p].name) THEN "loaded" ELSE "idle")
  /\ UNCHANGED <<home, lock, promised, raced, purged, calls, faults, crashes>>
Prepares(p) ==
  /\ proc[p].at = "loaded" /\ calls < MaxCalls /\ calls' = calls + 1
  /\ \E op \in {"materialize", "persist", "overlay"} : proc' = [proc EXCEPT ![p].op = op, ![p].at = "asks"]
  /\ UNCHANGED <<home, lock, promised, raced, purged, faults, crashes>>

\* The runtime lock of a profile: one process runs it, and none while it is removed.
RunBegins(p) ==
  /\ proc[p].at = "loaded"
  /\ ~\E q \in Procs \ {p} : RunsProfile(q, proc[p].name) \/ Removing(q, proc[p].name)
  /\ proc' = To(p, "runs")
  /\ UNCHANGED <<home, lock, promised, raced, purged, calls, faults, crashes>>
Invite(p) ==
  /\ proc[p].at = "runs" /\ calls < MaxCalls /\ calls' = calls + 1
  /\ \E user \in Users :
       LET effects == mutateRootProfile(proc[p].name, user)
       IN /\ effects # <<>>
          /\ proc' = [Working(p, effects, {Promise(proc[p].name, user)}) EXCEPT ![p].op = "invite"]
  /\ UNCHANGED <<home, lock, promised, raced, purged, faults, crashes>>
RunEnds(p) ==
  /\ proc[p].at = "runs"
  /\ proc' = To(p, "idle")
  /\ UNCHANGED <<home, lock, promised, raced, purged, calls, faults, crashes>>

Free(p) == lock' = IF lock = p THEN NoProc ELSE lock
Of(n) == {pr \in promised : pr.name = n}

\* A write without the lock races with whoever has it, or wrote since it read; one that
\* builds on an overlay that was left is undone with it.
Races(p) ==
  IF lock = p THEN home[Marker] # <<>> /\ proc[p].op # "overlay"
  ELSE lock # NoProc \/ proc[p].stale \/ home[Marker] # <<>>
Wrote(p, e, next) == IF e.file # Config THEN next ELSE [q \in Procs |-> [next[q] EXCEPT !.stale = @ \/ (q # p /\ next[q].at = "does")]]

\* One effect.
Does(p) ==
  /\ proc[p].at = "does" /\ CanDo(Head(proc[p].todo))
  /\ LET me == proc[p]
         e == Head(me.todo)
         over == Tail(me.todo) = <<>>
     IN /\ home' = After(e)
        /\ raced' = (raced \/ Races(p))
        /\ purged' = IF e.file = Trash(me.name) /\ e.do = "put" THEN purged \cup {me.name} ELSE purged
        /\ promised' = IF ~over \/ me.failed THEN promised
                       ELSE IF me.op \in {"remove", "purge"} THEN promised \ Of(me.name) ELSE promised \cup me.gives
        /\ IF over THEN proc' = Wrote(p, e, To(p, Leaves(me.op, ~me.failed))) /\ Free(p)
           ELSE proc' = Wrote(p, e, [proc EXCEPT ![p].todo = Tail(@)]) /\ UNCHANGED lock
  /\ UNCHANGED <<calls, faults, crashes>>

\* One that fails: what undoes the program follows, or nothing.  A removed profile whose
\* archive cannot be deleted stays removed.
Fails(p) ==
  /\ proc[p].at = "does"
  /\ LET me == proc[p]
         e == Head(me.todo)
     IN /\ IF CanDo(e) THEN faults < MaxFaults /\ faults' = faults + 1 ELSE UNCHANGED faults
        /\ IF e.undo = <<>> THEN proc' = To(p, Leaves(me.op, FALSE)) /\ Free(p)
           ELSE proc' = [proc EXCEPT ![p].todo = e.undo, ![p].failed = TRUE] /\ UNCHANGED lock
        /\ promised' = IF e.file = Trash(me.name) /\ e.do = "put" THEN promised \ Of(me.name) ELSE promised
        /\ raced' = (raced \/ me.failed)
  /\ UNCHANGED <<home, purged, calls, crashes>>

\* A crash leaves the files as they are and the lock free.
Crash(p) ==
  /\ proc[p].at # "idle" /\ crashes < MaxCrashes /\ crashes' = crashes + 1
  /\ promised' = IF Removing(p, proc[p].name) THEN promised \ Of(proc[p].name) ELSE promised
  /\ proc' = To(p, "idle") /\ Free(p)
  /\ UNCHANGED <<home, raced, purged, calls, faults>>

FilesInit ==
  /\ home \in Homes /\ lock = NoProc /\ proc = [p \in Procs |-> Idle]
  /\ promised = IF home[Config] = <<>> \/ home[Config][1].kind # "root" THEN {}
                ELSE {Promise(n, "") : n \in DOMAIN home[Config][1].profiles}
  /\ raced = FALSE /\ purged = {} /\ calls = 0 /\ faults = 0 /\ crashes = 0
FilesNext ==
  \E p \in Procs : \/ Call(p) \/ Start(p) \/ TakeLock(p) \/ StartLoads(p) \/ Prepares(p) \/ RunBegins(p)
                   \/ Invite(p) \/ RunEnds(p) \/ Does(p) \/ Fails(p) \/ Crash(p)
-----------------------------------------------------------------------------
Holds(pr, config) ==
  /\ config # <<>> /\ config[1].kind = "root" /\ pr.name \in DOMAIN config[1].profiles
  /\ pr.user = "" \/ pr.user \in config[1].profiles[pr.name].users
Kept(pr) ==
  Holds(pr, home[Config]) \/ (home[Marker] # <<>> /\ Holds(pr, home[Backup])) \/ \E p \in Procs : Removing(p, pr.name)

(* What a command said it did stays done: a profile and the users of it are *)
(* in the configuration until the profile is removed, whatever else is      *)
(* created, removed, migrated, bound or fails half-way, as long as no write *)
(* came between the reading and the writing of another and no undo failed.  *)
PromisesKept == ~raced => \A pr \in promised : Kept(pr)

(* The same of every answer, whatever the writers do at the same time.      *)
AnswersHold == \A pr \in promised : Kept(pr)

Quiet == /\ lock = NoProc /\ home[Marker] = <<>> /\ ~raced /\ crashes = 0
         /\ \A p \in Procs : proc[p].at # "does"

(* Between the commands, and without a crash, the active profile is one     *)
(* that is configured, and the secret a profile refers to is in the         *)
(* keystore of its directory, or where the first version left it.           *)
HomeAgrees ==
  Quiet => LET names == IF home[Config] = <<>> THEN {} ELSE DOMAIN AsRoot(Default).profiles
           IN /\ home[Active] # <<>> => home[Active][1] \in names
              /\ \A n \in names : AsRoot(Default).profiles[n].secret = "ref" => "secrets" \in In(Dir(n)) \cup In(State)

(* Nothing of the state is lost or doubled by a migration or a removal that *)
(* fails or crashes: it is in one place until a profile is purged.          *)
StateInOnePlace ==
  purged = {} => Cardinality({f \in Files \ {Config, Active, Backup, Marker} : "sessions" \in In(f)}) = 1
=============================================================================
