-------------------------------- MODULE Keystore --------------------------------
(***************************************************************************)
(* The keystores of the profiles, internal/app/secretstore, and those who  *)
(* use them: the secrets commands of cmd/lark-channel-bridge, the getter   *)
(* that lark-cli runs, and the resolving of the secret of an app.  A store *)
(* is two files, a salt and the entries encrypted under it; it is read,    *)
(* changed and replaced without a lock.  An entry can be read only under   *)
(* the salt it was written with.  A command that is asked for a secret is a*)
(* process that may leave another behind, which keeps the pipe open after  *)
(* it has ended: the run is over only when the pipe is.                    *)
(***************************************************************************)
EXTENDS Integers, Sequences, FiniteSets

CONSTANTS KeyUsers,    \* processes
          Profiles,    \* the profiles in their sorted order
          Ids,         \* what secrets are stored under
          Values, Roots,   \* what is stored; <<>> or <<[active, profiles]>> as config.json is found
          Inputs,      \* [secret, providers, app] as configured
          Environment, \* variable -> value
          Stores,      \* what the files of entries may be at first
          MaxOps, MaxWriteFaults   \* bounds of the operations and of the failing writes

CONSTANTS Providers,    \* [name, id, pass, env, max] of a reference and its provider, max in the unit of sizes
          OwnEnv,       \* the environment of the bridge, <<key, value>> in order
          DefaultMax,   \* of a provider without a limit
          Pieces,       \* what a command may print: [size, whole, values, errors]
          MaxPieces     \* bound

ProfileNames == {Profiles[i] : i \in DOMAIN Profiles}
NoText == ""   \* what is not named, given or printed

\* A root lists its profiles once each; no file holds entries of the version that is read, since
\* none was acknowledged.
ASSUME ProfilesAssumption ==
  /\ Profiles \in Seq(ProfileNames) /\ NoText \notin ProfileNames
  /\ \A root \in Roots : root # <<>> =>
       LET names == root[1].profiles IN
       names \in Seq(ProfileNames) /\ \A i, j \in DOMAIN names : names[i] = names[j] => i = j
ASSUME StoresAssumption ==
  \A files \in Stores : /\ DOMAIN files = ProfileNames
                        /\ \A n \in ProfileNames : files[n] = <<>> \/ files[n][1].version # 1
ASSUME LimitAssumption ==
  DefaultMax \in Nat /\ (\A command \in Providers : command.max \in Int) /\ \A piece \in Pieces : piece.size \in Nat
ASSUME EnvAssumption ==
  /\ OwnEnv \in Seq({OwnEnv[n] : n \in DOMAIN OwnEnv})
  /\ \A command \in Providers : IsFiniteSet(DOMAIN command.env)

VARIABLES salt,    \* profile -> <<>> or <<salt>>
          store,   \* profile -> <<>> or <<[version, entries]>>
          user,    \* process -> its operation
          truth,   \* profile -> the secrets as acknowledged
          clash,   \* profiles where a file was replaced that had changed since it was read
          salts, ops, writeFaults

VARIABLES query,     \* [at, command, named, env, result]
          helper,    \* [state, heir] of the command
          stdout,    \* [size, exceeded, pieces] as taken in
          overdue    \* "no", "deadline", "cancelled"
providerVars == <<query, helper, stdout, overdue>>
keyVars == <<salt, store, user, truth, clash, salts, ops, writeFaults>>

NoSecrets == [i \in {} |-> NoText]
SetEntry(entries, id, e) == [i \in DOMAIN entries \cup {id} |-> IF i = id THEN e ELSE entries[i]]
RemoveEntry(entries, id) == [i \in DOMAIN entries \ {id} |-> entries[i]]

\* A file of another version counts as an empty one.
readStore(n) == IF store[n] = <<>> \/ store[n][1].version # 1 THEN NoSecrets ELSE store[n][1].entries
writeStore(n, entries) == store' = [store EXCEPT ![n] = <<[version |-> 1, entries |-> entries]>>]

\* Where a secret is looked for: one profile, or the active one and then the others of the root, in
\* their order.
secretLookupPaths(root, profile) ==
  IF profile # NoText THEN <<profile>>
  ELSE IF root = <<>> THEN Profiles
  ELSE LET names == root[1].profiles
           has == {i \in DOMAIN names : names[i] = root[1].active}
           at == CHOOSE i \in has : TRUE
       IN IF has = {} THEN <<>>
          ELSE <<root[1].active>> \o SubSeq(names, 1, at - 1) \o SubSeq(names, at + 1, Len(names))

\* The provider a reference means: the one it names, the default of its source, or "default".
lookupProvider(providers, ref) ==
  LET named == IF ref.provider # NoText THEN ref.provider
               ELSE IF ref.source \in DOMAIN providers.defaults THEN providers.defaults[ref.source] ELSE "default"
  IN IF named \in DOMAIN providers.named THEN <<providers.named[named]>> ELSE <<>>

Fails == [way |-> "fails"]
Given(value) == [way |-> "given", value |-> value]
resolvePlainOrTemplate(secret) ==
  IF secret.kind = "plain" THEN Given(secret.value)
  ELSE IF secret.name \in DOMAIN Environment THEN Given(Environment[secret.name]) ELSE Fails
resolveEnvRef(ref, pc) ==
  IF ref.id \in DOMAIN Environment /\ (pc = <<>> \/ pc[1].allowlist = {} \/ ref.id \in pc[1].allowlist)
  THEN Given(Environment[ref.id]) ELSE Fails
resolveInlineRef(ref, pc) == Given(IF pc # <<>> /\ pc[1].value # NoText THEN pc[1].value ELSE ref.id)
\* A provider that is the bridge itself is not run: its keystore is asked.
resolveExecRef(ref, pc, app) ==
  IF pc = <<>> \/ pc[1].command = NoText THEN Fails
  ELSE IF pc[1].command = "bridge" THEN [way |-> "keystore", ids |-> <<ref.id, app>>] ELSE [way |-> "spawn"]
ResolveSecretInput(input) ==
  LET ref == input.secret IN
  IF ref.kind = "none" THEN Fails
  ELSE IF ref.kind # "ref" THEN resolvePlainOrTemplate(ref)
  ELSE LET pc == lookupProvider(input.providers, ref) IN
       IF ref.source = "env" THEN resolveEnvRef(ref, pc)
       ELSE IF ref.source = "inline" THEN resolveInlineRef(ref, pc)
       ELSE IF ref.source = "exec" THEN resolveExecRef(ref, pc, input.app) ELSE Fails
-----------------------------------------------------------------------------
(* An operation of a process: set and remove name an entry; get and resolve *)
(* look at several, in order, and resolve is content with the first.        *)
Resting == [kind |-> "none", at |-> "idle", todo |-> <<>>, value |-> NoText, key |-> 0, seen |-> NoSecrets,
            found |-> <<>>, stale |-> FALSE, asked |-> <<>>]
Is(p, place) == user[p].at = place
Where(p) == Head(user[p].todo)[1]
What(p) == Head(user[p].todo)[2]
Answers(p, found) == user' = [user EXCEPT ![p] = [Resting EXCEPT !.kind = user[p].kind, !.at = "done", !.found = found,
                                                    !.stale = user[p].stale, !.asked = user[p].asked]]
Refused(p) == Answers(p, <<>>)

Begins(p, kind, at, todo, value) ==
  /\ Is(p, "idle") /\ ops < MaxOps /\ ops' = ops + 1
  /\ user' = [user EXCEPT ![p] = [Resting EXCEPT !.kind = kind, !.at = at, !.todo = todo, !.value = value, !.asked = todo]]
  /\ UNCHANGED <<salt, store, truth, clash, salts, writeFaults>>
SetSecret(p) == \E n \in ProfileNames, id \in Ids, v \in Values : Begins(p, "set", "key", <<<<n, id>>>>, v)
RemoveSecret(p) == \E n \in ProfileNames, id \in Ids : Begins(p, "remove", "read", <<<<n, id>>>>, NoText)
runSecretsGet(p) ==
  \E root \in Roots, profile \in ProfileNames \cup {NoText}, id \in Ids :
    LET paths == secretLookupPaths(root, profile)
    IN paths # <<>> /\ Begins(p, "get", "read", [i \in DOMAIN paths |-> <<paths[i], id>>], NoText)
ResolveAppSecret(p) ==
  \E n \in ProfileNames, input \in Inputs :
    LET answer == ResolveSecretInput(input)
    IN /\ answer.way = "keystore"
       /\ Begins(p, "resolve", "read", [i \in 1..2 |-> <<n, answer.ids[i]>>], NoText)

\* The key needs the salt, and the first to need it makes it.
deriveKey(p) ==
  /\ Is(p, "key")
  /\ user' = [user EXCEPT ![p].at = IF salt[Where(p)] = <<>> THEN "salt" ELSE IF user[p].kind = "set" THEN "read" ELSE "decrypt",
                          ![p].key = IF salt[Where(p)] = <<>> THEN 0 ELSE salt[Where(p)][1]]
  /\ UNCHANGED <<salt, store, truth, clash, salts, ops, writeFaults>>
\* Mutant of loadOrCreateSalt: the salt is kept in memory only.
saltInMemory(p) ==
  /\ Is(p, "salt") /\ salts' = salts + 1
  /\ user' = [user EXCEPT ![p].at = IF user[p].kind = "set" THEN "read" ELSE "decrypt", ![p].key = salts']
  /\ UNCHANGED <<salt, store, truth, clash, ops, writeFaults>>
loadOrCreateSalt(p) ==
  /\ Is(p, "salt") /\ salts' = salts + 1
  /\ salt' = [salt EXCEPT ![Where(p)] = <<salts'>>]
  /\ user' = [q \in KeyUsers |->
       IF q = p THEN [user[p] EXCEPT !.at = IF user[p].kind = "set" THEN "read" ELSE "decrypt", !.key = salts']
       ELSE [user[q] EXCEPT !.stale = TRUE]]
  /\ clash' = IF salt[Where(p)] # <<>> THEN clash \cup {Where(p)} ELSE clash
  /\ UNCHANGED <<store, truth, ops, writeFaults>>

\* An entry that is not there is not removed; one that is looked for may be in the next place.
LooksOn(p, found) ==
  LET rest == Tail(user[p].todo)
  IN IF rest = <<>> \/ (user[p].kind = "resolve" /\ found # <<>>) THEN Answers(p, found)
     ELSE user' = [user EXCEPT ![p].at = "read", ![p].todo = rest, ![p].found = found]
StoreRead(p) ==
  /\ Is(p, "read")
  /\ LET entries == readStore(Where(p))
         here == What(p) \in DOMAIN entries
         Goes(place) == user' = [user EXCEPT ![p].at = place, ![p].seen = entries,
                                             ![p].stale = IF user[p].kind \in {"set", "remove"} THEN FALSE ELSE @]
     IN IF user[p].kind = "set" \/ (user[p].kind = "remove" /\ here) THEN Goes("write")
        ELSE IF user[p].kind = "remove" THEN Refused(p)
        ELSE IF here THEN Goes("key") ELSE LooksOn(p, user[p].found)
  /\ UNCHANGED <<salt, store, truth, clash, salts, ops, writeFaults>>
decryptEnvelope(p) ==
  /\ Is(p, "decrypt")
  /\ LET e == user[p].seen[What(p)]
     IN IF e.key = user[p].key THEN LooksOn(p, Append(user[p].found, e.value)) ELSE Refused(p)
  /\ UNCHANGED <<salt, store, truth, clash, salts, ops, writeFaults>>
StoreWrite(p) ==
  /\ Is(p, "write")
  /\ LET n == Where(p)  id == What(p)  u == user[p]
     IN /\ writeStore(n, IF u.kind = "set" THEN SetEntry(u.seen, id, [key |-> u.key, value |-> u.value]) ELSE RemoveEntry(u.seen, id))
        /\ truth' = [truth EXCEPT ![n] = IF u.kind = "set" THEN SetEntry(@, id, u.value) ELSE RemoveEntry(@, id)]
        /\ clash' = IF u.stale THEN clash \cup {n} ELSE clash
        /\ user' = [q \in KeyUsers |-> IF q = p THEN Resting ELSE [user[q] EXCEPT !.stale = TRUE]]
  /\ UNCHANGED <<salt, salts, ops, writeFaults>>

\* A write that fails, or a crash before it, leaves the file as it is.
StoreWriteFails(p) ==
  /\ (Is(p, "salt") \/ Is(p, "write")) /\ writeFaults < MaxWriteFaults /\ writeFaults' = writeFaults + 1
  /\ user' = [user EXCEPT ![p] = Resting]
  /\ UNCHANGED <<salt, store, truth, clash, salts, ops>>
Told(p) ==
  /\ Is(p, "done")
  /\ user' = [user EXCEPT ![p] = Resting]
  /\ UNCHANGED <<salt, store, truth, clash, salts, ops, writeFaults>>

KeyInit ==
  /\ salt = [n \in ProfileNames |-> <<>>] /\ store \in Stores /\ user = [p \in KeyUsers |-> Resting]
  /\ truth = [n \in ProfileNames |-> NoSecrets] /\ clash = {} /\ salts = 0 /\ ops = 0 /\ writeFaults = 0
KeyNext ==
  \E p \in KeyUsers : \/ SetSecret(p) \/ RemoveSecret(p) \/ runSecretsGet(p) \/ ResolveAppSecret(p)
                   \/ deriveKey(p) \/ loadOrCreateSalt(p) \/ StoreRead(p) \/ decryptEnvelope(p)
                   \/ StoreWrite(p) \/ StoreWriteFails(p) \/ Told(p)
-----------------------------------------------------------------------------
Readable(n) ==
  LET ids == {id \in DOMAIN readStore(n) : salt[n] # <<>> /\ readStore(n)[id].key = salt[n][1]}
  IN [id \in ids |-> readStore(n)[id].value]

\* What should be found in the first of some places that has it.
Sought(places) ==
  LET has == {i \in DOMAIN places : places[i][2] \in DOMAIN truth[places[i][1]]}
      first == CHOOSE i \in has : \A j \in has : i <= j
  IN IF has = {} THEN <<>> ELSE <<truth[places[first][1]][places[first][2]]>>

(* What was stored stays readable until it is replaced or removed, and what *)
(* is found is what was stored last in the first of the places it is looked *)
(* for in, whatever fails, as long as no two writers of one profile overlap *)
(* and no first readers make two salts.                                     *)
KeysKept ==
  clash = {} =>
    /\ \A n \in ProfileNames : Readable(n) = truth[n]
    /\ \A p \in KeyUsers : Is(p, "done") /\ ~user[p].stale /\ user[p].kind \in {"get", "resolve"} =>
         (IF user[p].found = <<>> THEN <<>> ELSE <<Head(user[p].found)>>) = Sought(user[p].asked)
-----------------------------------------------------------------------------
\* A command that is asked for a secret: what it is started with, how long and how
\* much it may answer, and what is made of its end.
Variables(env) == {env[n][1] : n \in DOMAIN env}
\* Of several entries the last counts.
LastOf(env, key) == CHOOSE n \in DOMAIN env : env[n][1] = key /\ \A m \in DOMAIN env : env[m][1] = key => m <= n
ValueIn(env, key) == env[LastOf(env, key)][2]

\* What is passed on, unless it is empty, and what the provider says itself, which wins.
Overrides(command) ==
  LET passed == {key \in command.pass : key \in Variables(OwnEnv) /\ ValueIn(OwnEnv, key) # NoText} IN
  [key \in passed \cup DOMAIN command.env |-> IF key \in DOMAIN command.env THEN command.env[key] ELSE ValueIn(OwnEnv, key)]
\* An entry stays in its place; of one that is overridden only the first does.  What is new follows
\* in any order.
Orders(keys) == {f \in [1..Cardinality(keys) -> keys] :
                   \A key \in keys : \E i \in DOMAIN f : f[i] = key /\ \A j \in DOMAIN f : f[j] = key => j = i}
Staying(base, override) ==
  {n \in DOMAIN base : base[n][1] \notin DOMAIN override \/ \A m \in 1..n - 1 : base[m][1] # base[n][1]}
Overridden(e, override) == IF e[1] \in DOMAIN override THEN <<e[1], override[e[1]]>> ELSE e
mergeEnv(base, override) ==
  UNION {{[i \in DOMAIN places |-> Overridden(base[places[i]], override)] \o [i \in DOMAIN new |-> <<new[i], override[new[i]]>>] :
            new \in Orders(DOMAIN override \ Variables(base))} :
           places \in {f \in Orders(Staying(base, override)) : \A i, j \in DOMAIN f : i < j => f[i] < f[j]}}
Limit(command) == IF command.max > 0 THEN command.max ELSE DefaultMax
-----------------------------------------------------------------------------
NoCommand == [name |-> NoText, id |-> NoText, pass |-> {}, env |-> [k \in {} |-> NoText], max |-> 0]
ProviderInit ==
  /\ query = [at |-> "idle", command |-> NoCommand, named |-> NoText, env |-> <<>>, result |-> [kind |-> "none"]]
  /\ helper = [state |-> "none", heir |-> FALSE] /\ stdout = [size |-> 0, exceeded |-> FALSE, pieces |-> <<>>] /\ overdue = "no"

\* The provider is told the name the reference has for it, not the default of its source.
spawnExecProvider(command) ==
  /\ query.at = "idle"
  /\ \E env \in IF Overrides(command) = NoCommand.env THEN {OwnEnv} ELSE mergeEnv(OwnEnv, Overrides(command)) :
     LET asked == [query EXCEPT !.command = command, !.named = IF command.name # NoText THEN command.name ELSE "default", !.env = env] IN
     \/ query' = [asked EXCEPT !.at = "runs"] /\ helper' = [helper EXCEPT !.state = "runs"]
     \/ query' = [asked EXCEPT !.at = "done", !.result = [kind |-> "not started"]] /\ UNCHANGED helper
  /\ UNCHANGED <<stdout, overdue>>

\* What goes beyond the limit is not kept, and nothing is taken in after it.
WritesStdout(piece) ==
  /\ (helper.state = "runs" \/ helper.heir) /\ Len(stdout.pieces) < MaxPieces /\ ~stdout.exceeded
  /\ stdout' = IF stdout.size + piece.size > Limit(query.command) THEN [stdout EXCEPT !.exceeded = TRUE]
               ELSE [stdout EXCEPT !.size = @ + piece.size, !.pieces = Append(@, piece)]
  /\ UNCHANGED <<query, helper, overdue>>
HelperExits ==
  /\ helper.state = "runs" /\ helper' \in [state : {"succeeded", "failed"}, heir : BOOLEAN] /\ UNCHANGED <<query, stdout, overdue>>
HeirEnds == helper.heir /\ helper' = [helper EXCEPT !.heir = FALSE] /\ UNCHANGED <<query, stdout, overdue>>
Expires ==
  /\ query.at = "runs" /\ overdue = "no" /\ overdue' \in {"deadline", "cancelled"} /\ UNCHANGED <<query, helper, stdout>>
\* The command is killed, but not what it has left behind.
Kills ==
  /\ helper.state = "runs" /\ overdue # "no" /\ \E heir \in BOOLEAN : helper' = [state |-> "killed", heir |-> heir]
  /\ UNCHANGED <<query, stdout, overdue>>

\* What is printed has to be one document.
Read(pieces, id) ==
  IF Len(pieces) # 1 \/ ~pieces[1].whole THEN [kind |-> "invalid"]
  ELSE IF id \in DOMAIN pieces[1].values THEN [kind |-> "value", value |-> pieces[1].values[id]]
  ELSE IF id \in DOMAIN pieces[1].errors /\ pieces[1].errors[id] # NoText THEN [kind |-> "missing", why |-> pieces[1].errors[id]]
  ELSE [kind |-> "missing", why |-> NoText]
\* The command may have succeeded and be killed before that is known.
Run ==
  /\ query.at = "runs" /\ helper.state \in {"succeeded", "failed", "killed"} /\ ~helper.heir
  /\ \E result \in IF overdue = "deadline" THEN {[kind |-> "timed out"]}
                   ELSE IF stdout.exceeded THEN {[kind |-> "too long"]}
                   ELSE IF helper.state # "succeeded" THEN {[kind |-> "exited"]}
                   ELSE {Read(stdout.pieces, query.command.id)} \cup (IF overdue = "cancelled" THEN {[kind |-> "not started"]} ELSE {}) :
       query' = [query EXCEPT !.at = "done", !.result = result]
  /\ UNCHANGED <<helper, stdout, overdue>>
ProviderNext ==
  \/ \E command \in Providers : spawnExecProvider(command)
  \/ \E piece \in Pieces : WritesStdout(piece)
  \/ HelperExits \/ HeirEnds \/ Expires \/ Kills \/ Run
SecretSpec ==
  KeyInit /\ ProviderInit
  /\ [][(KeyNext /\ UNCHANGED providerVars) \/ (ProviderNext /\ UNCHANGED keyVars)]_<<keyVars, providerVars>>
-----------------------------------------------------------------------------
\* A secret is the one the command gave under the id that was asked for, in one answer within the
\* limit; a command that failed, was killed, or had not ended with all it left behind by its
\* deadline gives none, and neither it nor what may still write is there afterwards
\* (resolver.go: spawnExecProvider, OSExecRunner.Run).
SecretIsGiven ==
  query.at = "done" =>
    /\ helper.state # "runs" /\ ~helper.heir
    /\ query.result.kind = "value" =>
         /\ helper.state = "succeeded" /\ overdue # "deadline" /\ ~stdout.exceeded /\ stdout.size <= Limit(query.command)
         /\ \E n \in DOMAIN stdout.pieces : stdout.pieces[n].values[query.command.id] = query.result.value
    /\ query.result.kind = "missing" => \A n \in DOMAIN stdout.pieces : query.command.id \notin DOMAIN stdout.pieces[n].values
    /\ query.result.kind = "timed out" => overdue = "deadline"
    /\ query.result.kind = "exited" => helper.state \in {"failed", "killed"} /\ (helper.state = "killed" => overdue = "cancelled")

\* The command finds what its provider sets, once, and what is passed on and everything else as the
\* bridge has it (resolver.go: mergeEnv).
Finds(env, command) ==
  LET Places(key) == {n \in DOMAIN env : env[n][1] = key} IN
  /\ Variables(env) = Variables(OwnEnv) \cup DOMAIN command.env
  /\ \A key \in DOMAIN command.env : Cardinality(Places(key)) = 1 /\ ValueIn(env, key) = command.env[key]
  /\ \A key \in Variables(OwnEnv) \ DOMAIN command.env : ValueIn(env, key) = ValueIn(OwnEnv, key)
EnvReaches == query.env # <<>> => Finds(query.env, query.command)

(* Of the keystores and of the commands that are asked.                     *)
SecretsHeld == KeysKept /\ SecretIsGiven /\ EnvReaches
=============================================================================
