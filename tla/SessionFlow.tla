----------------------------- MODULE SessionFlow -----------------------------
(***************************************************************************)
(* Which agent session the next run of a conversation resumes:             *)
(* internal/app/session (store and catalog), internal/app/runflow and the  *)
(* commands /new, /cd, /resume and /timeout of internal/app/commands, for  *)
(* one scope (scopes share nothing but the files).  A run looks its        *)
(* session up, starts, and a goroutine of its own records the session the  *)
(* agent announces; commands run beside both.  Every access to a store is  *)
(* a step.  A place is a working directory with a policy fingerprint.      *)
(***************************************************************************)
EXTENDS Naturals, FiniteSets, TLC

CONSTANTS Runs,         \* calls of Client.Run
          Commands,     \* commands, each of any kind
          Sids,         \* session ids (Claude) or thread ids (Codex)
          Dirs,         \* working directories
          Policies,     \* what else the policy fingerprint depends on
          Agents,       \* "claude" or "codex"
          None,         \* no session, directory, run or place
          MaxOffers,    \* bound on the candidates of /resume
          MaxTrouble    \* bound on failing writes and restarts together

ASSUME FlowAssumption ==
  /\ None \notin Sids \cup Dirs \cup Runs
  /\ Agents \subseteq {"claude", "codex"}
  /\ MaxOffers \in Nat
  /\ MaxTrouble \in Nat

VARIABLES agent,               \* the agent of the profile
          cwd, policy,         \* the scope's directory; the configuration in force
          store, storeFile,    \* sessions.json: session and directory
          catalog, catalogFile,\* the session catalog, per place
          candidates,          \* what /resume offered: place and session
          run, place, resumed, \* where each run is, where it works, what it resumes
          active,              \* the registered run of the scope
          announced, recorder, \* the session an agent announced, and who records it
          cmd,                 \* each command: kind, step, place, argument
          faults, restarts,
          left, revived,       \* history: sessions a reset left behind, and those
                               \* of them that were recorded again after it
          last                 \* history: the session recorded last at each place

storeVars   == <<store, storeFile>>
catalogVars == <<catalog, catalogFile>>
runVars     == <<run, place, resumed, announced>>
history     == <<left, revived, last>>
vars == <<agent, cwd, policy, storeVars, catalogVars, candidates, runVars, active, recorder,
          cmd, faults, restarts, history>>

Places == Dirs \X Policies
Empty  == [sid |-> None, dir |-> None]
Absent == [sid |-> None, status |-> "none"]
Idle   == [kind |-> "none", at |-> "start", place |-> None, arg |-> None]
Done   == [Idle EXCEPT !.at = "done"]

\* persistLocked: the whole map is written; a failure is only remembered.
Persist(file, value) ==
  \/ file' = value /\ UNCHANGED faults
  \/ faults + restarts < MaxTrouble /\ faults' = faults + 1 /\ UNCHANGED file
StoreBecomes(e)   == store' = e /\ Persist(storeFile, e)
CatalogBecomes(c) == catalog' = c /\ Persist(catalogFile, c)

\* Store.Set; the idle override an entry also has is not modelled.
SetSession(s, d) == StoreBecomes([sid |-> s, dir |-> d])

\* Mutant of ClearSession: the file keeps the session.
ClearSessionInMemory ==
  /\ store' = Empty
  /\ UNCHANGED <<storeFile, faults>>

\* Store.Clear; a scope without an entry is not even written.
ClearSession ==
  \/ StoreBecomes(Empty)
  \/ store = Empty /\ UNCHANGED <<storeVars, faults>>

\* Mutant of ResumeFor: the directory is not compared.
ResumeForAny(d) == store.sid

ResumeFor(d) == IF store.dir = d THEN store.sid ELSE None
ActiveFor(p) == IF catalog[p].status = "active" THEN catalog[p].sid ELSE None

\* Mutant of UpsertActive: the file does not get it.
UpsertInMemory(p, s) ==
  /\ catalog' = [catalog EXCEPT ![p] = [sid |-> s, status |-> "active"]]
  /\ UNCHANGED <<catalogFile, faults>>

UpsertActive(p, s) == CatalogBecomes([catalog EXCEPT ![p] = [sid |-> s, status |-> "active"]])

\* Mutant of ArchiveActive: any status is overwritten.
ArchiveAll(p) == CatalogBecomes([catalog EXCEPT ![p].status = "archived"])

ArchiveActive(p) ==
  \/ catalog[p].status = "active" /\ CatalogBecomes([catalog EXCEPT ![p].status = "archived"])
  \/ catalog[p].status # "active" /\ UNCHANGED <<catalogVars, faults>>

\* History of a session that is recorded, of one that is chosen by /resume.
Recorded(s) ==
  /\ revived' = revived \cup {p \in Places \X Sids : p[2] = s /\ s \in left[p[1]]}
  /\ UNCHANGED left
Chosen(s) ==
  /\ left' = [p \in Places |-> left[p] \ {s}]
  /\ UNCHANGED revived
-----------------------------------------------------------------------------
Init ==
  /\ agent \in Agents
  /\ cwd \in Dirs
  /\ policy \in Policies
  /\ store = Empty /\ storeFile = Empty
  /\ catalog = [p \in Places |-> Absent] /\ catalogFile = catalog
  /\ candidates = {}
  /\ run = [r \in Runs |-> "new"]
  /\ place = [r \in Runs |-> None]
  /\ resumed = [r \in Runs |-> None]
  /\ active = None
  /\ announced = [r \in Runs |-> None]
  /\ recorder = [r \in Runs |-> "none"]
  /\ cmd = [c \in Commands |-> Idle]
  /\ faults = 0 /\ restarts = 0
  /\ left = [p \in Places |-> {}]
  /\ revived = {}
  /\ last = [p \in Places |-> None]

RunGoes(r, from, to) == run[r] = from /\ run' = [run EXCEPT ![r] = to]

\* Start: directory and policy are read once.
RunStart(r) ==
  /\ RunGoes(r, "new", "catalog")
  /\ place' = [place EXCEPT ![r] = <<cwd, policy>>]
  /\ UNCHANGED <<agent, cwd, policy, storeVars, catalogVars, candidates, resumed, active,
                 announced, recorder, cmd, faults, restarts, history>>

\* resolveResume: the catalog first, for Claude the store next.
LookCatalog(r) ==
  /\ run[r] = "catalog"
  /\ \/ /\ ActiveFor(place[r]) # None
        /\ resumed' = [resumed EXCEPT ![r] = ActiveFor(place[r])]
        /\ RunGoes(r, "catalog", "submit")
     \/ /\ ActiveFor(place[r]) = None
        /\ RunGoes(r, "catalog", IF agent = "claude" THEN "store" ELSE "submit")
        /\ UNCHANGED resumed
  /\ UNCHANGED <<agent, cwd, policy, storeVars, catalogVars, candidates, place, active,
                 announced, recorder, cmd, faults, restarts, history>>

LookStore(r) ==
  /\ run[r] = "store"
  /\ \/ /\ ResumeFor(place[r][1]) # None
        /\ resumed' = [resumed EXCEPT ![r] = ResumeFor(place[r][1])]
        /\ RunGoes(r, "store", "submit")
     \/ ResumeFor(place[r][1]) = None /\ RunGoes(r, "store", "stale") /\ UNCHANGED resumed
  /\ UNCHANGED <<agent, cwd, policy, storeVars, catalogVars, candidates, place, active,
                 announced, recorder, cmd, faults, restarts, history>>

\* GetRaw finds an entry of another directory, and Clear removes whatever the
\* scope has by then.
LookStale(r) ==
  /\ run[r] = "stale"
  /\ RunGoes(r, "stale", IF store.dir \in {None, place[r][1]} THEN "submit" ELSE "clear")
  /\ UNCHANGED <<agent, cwd, policy, storeVars, catalogVars, candidates, place, resumed, active,
                 announced, recorder, cmd, faults, restarts, history>>

ClearStale(r) ==
  /\ RunGoes(r, "clear", "submit")
  /\ ClearSession
  /\ UNCHANGED <<agent, cwd, policy, catalogVars, candidates, place, resumed, active,
                 announced, recorder, cmd, restarts, history>>

\* Submit registers the run or rejects it; recordSessionEvents starts.
Submit(r) ==
  /\ \/ active = None /\ RunGoes(r, "submit", "live") /\ active' = r
     \/ RunGoes(r, "submit", "over") /\ UNCHANGED active
  /\ UNCHANGED <<agent, cwd, policy, storeVars, catalogVars, candidates, place, resumed,
                 announced, recorder, cmd, faults, restarts, history>>

\* The agent names its session: the one it resumes, or a new one.  An
\* interrupted agent may still do so until its process is gone.
Announce(r) ==
  /\ run[r] = "live"
  /\ announced[r] = None
  /\ \E s \in Sids :
       /\ s = resumed[r] \/ \A q \in Runs : s \notin {announced[q], resumed[q]}
       /\ announced' = [announced EXCEPT ![r] = s]
  /\ recorder' = [recorder EXCEPT ![r] = IF agent = "claude" THEN "set" ELSE "upsert"]
  /\ UNCHANGED <<agent, cwd, policy, storeVars, catalogVars, candidates, run, place, resumed,
                 active, cmd, faults, restarts, history>>

RunEnds(r) ==
  /\ RunGoes(r, "live", "over")
  /\ active' = IF active = r THEN None ELSE active
  /\ UNCHANGED <<agent, cwd, policy, storeVars, catalogVars, candidates, place, resumed,
                 announced, recorder, cmd, faults, restarts, history>>

\* RecordSessionEvent: the store (Claude only), then the catalog.
RecordSet(r) ==
  /\ recorder[r] = "set"
  /\ SetSession(announced[r], place[r][1])
  /\ recorder' = [recorder EXCEPT ![r] = "upsert"]
  /\ Recorded(announced[r])
  /\ UNCHANGED <<agent, cwd, policy, catalogVars, candidates, runVars, active, cmd, restarts, last>>

RecordUpsert(r) ==
  /\ recorder[r] = "upsert"
  /\ UpsertActive(place[r], announced[r])
  /\ recorder' = [recorder EXCEPT ![r] = "done"]
  /\ Recorded(announced[r])
  /\ last' = [last EXCEPT ![place[r]] = announced[r]]
  /\ UNCHANGED <<agent, cwd, policy, storeVars, candidates, runVars, active, cmd, restarts>>
-----------------------------------------------------------------------------
\* A reset that has archived but not cleared.
Clearing(c) == cmd[c].at = "clear"

At(c, step) == IF step = "done" THEN Done ELSE [cmd[c] EXCEPT !.at = step]

Goes(c, kind, from, to) ==
  /\ cmd[c].kind = kind
  /\ cmd[c].at = from
  /\ cmd' = [cmd EXCEPT ![c] = At(c, to)]

\* /new and /reset, /cd and /ws use, /resume use; the policy is the one in
\* force when the command arrives.
CommandCall(c) ==
  /\ cmd[c] = Idle
  /\ \/ cmd' = [cmd EXCEPT ![c] = [kind |-> "new", at |-> "interrupt", place |-> <<cwd, policy>>, arg |-> None]]
     \/ \E d \in Dirs : cmd' = [cmd EXCEPT ![c] =
          [kind |-> "cd", at |-> "setCWD", place |-> <<cwd, policy>>, arg |-> d]]
     \/ \E s \in Sids : cmd' = [cmd EXCEPT ![c] =
          [kind |-> "resume", at |-> "consume", place |-> <<cwd, policy>>, arg |-> s]]
  /\ UNCHANGED <<agent, cwd, policy, storeVars, catalogVars, candidates, runVars, active,
                 recorder, faults, restarts, history>>

\* SetCWD writes the file or takes the change back.
SetCWD(c) ==
  /\ \/ Goes(c, "cd", "setCWD", "interrupt") /\ cwd' = cmd[c].arg /\ UNCHANGED faults
     \/ /\ Goes(c, "cd", "setCWD", "done")
        /\ faults + restarts < MaxTrouble /\ faults' = faults + 1
        /\ UNCHANGED cwd
  /\ UNCHANGED <<agent, policy, storeVars, catalogVars, candidates, runVars, active,
                 recorder, restarts, history>>

\* Interrupt forgets the registered run at once; its process ends some time.
InterruptRun(c) ==
  /\ \/ Goes(c, "new", "interrupt", "archive")
     \/ Goes(c, "cd", "interrupt", "archive")
     \/ Goes(c, "resume", "interrupt", "upsert")
     \/ Goes(c, "resume", "interruptOwn", "set")
  /\ active' = None
  /\ UNCHANGED <<agent, cwd, policy, storeVars, catalogVars, candidates, runVars,
                 recorder, faults, restarts, history>>

\* archiveCurrentSession works on the directory of this moment; without a usable
\* directory or an allowing policy it does nothing.
ArchiveCurrent(c) ==
  /\ cmd[c].kind \in {"new", "cd"} /\ cmd[c].at = "archive"
  /\ \/ LET p == <<cwd, cmd[c].place[2]>> IN
          /\ ArchiveActive(p)
          /\ cmd' = [cmd EXCEPT ![c].at = "clear", ![c].place = p]
          /\ left' = [left EXCEPT ![p] = {announced[r] : r \in Runs} \ {None}]
          /\ revived' = {x \in revived : x[1] # p}
          /\ last' = [last EXCEPT ![p] = None]
     \/ /\ cmd' = [cmd EXCEPT ![c].at = "clear", ![c].place = None]
        /\ UNCHANGED <<catalogVars, faults, history>>
  /\ UNCHANGED <<agent, cwd, policy, storeVars, candidates, runVars, active,
                 recorder, restarts>>

\* Sessions.Clear; with it the reset of /cd is complete, and that of /new but
\* for the idle override.
ClearCurrent(c) ==
  /\ \/ Goes(c, "new", "clear", "clearIdle")
     \/ Goes(c, "cd", "clear", "done")
  /\ ClearSession
  /\ UNCHANGED <<agent, cwd, policy, catalogVars, candidates, runVars, active,
                 recorder, restarts, history>>

ClearIdle(c) ==
  /\ Goes(c, "new", "clearIdle", "done")
  /\ StoreBecomes(store) \/ UNCHANGED <<storeVars, faults>>
  /\ UNCHANGED <<agent, cwd, policy, catalogVars, candidates, runVars, active,
                 recorder, restarts, history>>

\* /resume without a token offers sessions of the current directory.
ResumeList ==
  /\ Cardinality(candidates) < MaxOffers
  /\ \E s \in {announced[r] : r \in {q \in Runs : place[q] # None /\ place[q][1] = cwd}} \ {None} :
       candidates' = candidates \cup {<<<<cwd, policy>>, s>>}
  /\ UNCHANGED <<agent, cwd, policy, storeVars, catalogVars, runVars, active, recorder,
                 cmd, faults, restarts, history>>

CandidateExpires ==
  /\ \E x \in candidates : candidates' = candidates \ {x}
  /\ UNCHANGED <<agent, cwd, policy, storeVars, catalogVars, runVars, active, recorder,
                 cmd, faults, restarts, history>>

\* A token is consumed by whoever shows it; only at its own place it resumes.
\* Otherwise Claude accepts the id of the session that is active here.
ResumeConsume(c) ==
  /\ cmd[c].kind = "resume" /\ cmd[c].at = "consume"
  /\ \/ \E x \in candidates :
          /\ x[2] = cmd[c].arg
          /\ candidates' = candidates \ {x}
          /\ cmd' = [cmd EXCEPT ![c] = At(c, IF x[1] = cmd[c].place THEN "interrupt" ELSE "done")]
     \/ /\ UNCHANGED candidates
        /\ cmd' = [cmd EXCEPT ![c] =
             At(c, IF agent = "claude" /\ ActiveFor(cmd[c].place) = cmd[c].arg
                   THEN "interruptOwn" ELSE "done")]
  /\ UNCHANGED <<agent, cwd, policy, storeVars, catalogVars, runVars, active, recorder,
                 faults, restarts, history>>

\* A catalog that cannot be written ends the command.
ResumeUpsert(c) ==
  /\ cmd[c].kind = "resume" /\ cmd[c].at = "upsert"
  /\ UpsertActive(cmd[c].place, cmd[c].arg)
  /\ cmd' = [cmd EXCEPT ![c] =
       At(c, IF faults' = faults /\ agent = "claude" THEN "set" ELSE "done")]
  /\ Chosen(cmd[c].arg)
  /\ last' = [last EXCEPT ![cmd[c].place] = cmd[c].arg]
  /\ UNCHANGED <<agent, cwd, policy, storeVars, candidates, runVars, active, recorder, restarts>>

ResumeSet(c) ==
  /\ Goes(c, "resume", "set", "done")
  /\ SetSession(cmd[c].arg, cmd[c].place[1])
  /\ Chosen(cmd[c].arg)
  /\ UNCHANGED <<agent, cwd, policy, catalogVars, candidates, runVars, active, recorder,
                 restarts, last>>

\* /timeout writes the entry with another override.
Timeout ==
  /\ StoreBecomes(store)
  /\ UNCHANGED <<agent, cwd, policy, catalogVars, candidates, runVars, active, recorder,
                 cmd, restarts, history>>

\* An administrator changes what the policy fingerprint is made of.
Reconfigure ==
  /\ \E p \in Policies \ {policy} : policy' = p
  /\ UNCHANGED <<agent, cwd, storeVars, catalogVars, candidates, runVars, active, recorder,
                 cmd, faults, restarts, history>>

\* The bridge ends at any time; LoadState reads both files.
Restart ==
  /\ faults + restarts < MaxTrouble
  /\ restarts' = restarts + 1
  /\ store' = storeFile
  /\ catalog' = catalogFile
  /\ candidates' = {}
  /\ run' = [r \in Runs |-> IF run[r] = "new" THEN "new" ELSE "over"]
  /\ active' = None
  /\ recorder' = [r \in Runs |-> IF recorder[r] = "none" THEN "none" ELSE "done"]
  /\ cmd' = [c \in Commands |-> IF cmd[c] = Idle THEN Idle ELSE Done]
  /\ left' = [p \in Places |-> IF \E c \in Commands : Clearing(c) /\ cmd[c].place = p
                               THEN {} ELSE left[p]]
  /\ UNCHANGED <<agent, cwd, policy, storeFile, catalogFile, place, resumed, announced,
                 faults, revived, last>>
-----------------------------------------------------------------------------
RunStep(r) ==
  \/ RunStart(r) \/ LookCatalog(r) \/ LookStore(r) \/ LookStale(r) \/ ClearStale(r)
  \/ Submit(r) \/ Announce(r) \/ RunEnds(r) \/ RecordSet(r) \/ RecordUpsert(r)

CommandStep(c) ==
  \/ CommandCall(c) \/ SetCWD(c) \/ InterruptRun(c) \/ ArchiveCurrent(c) \/ ClearCurrent(c)
  \/ ClearIdle(c) \/ ResumeConsume(c) \/ ResumeUpsert(c) \/ ResumeSet(c)

Next ==
  \/ \E r \in Runs : RunStep(r)
  \/ \E c \in Commands : CommandStep(c)
  \/ ResumeList \/ CandidateExpires \/ Timeout \/ Reconfigure \/ Restart

Spec == Init /\ [][Next]_vars
-----------------------------------------------------------------------------
Entries == [sid : Sids, status : {"active", "archived"}] \cup {Absent}
StoreEntries ==
  {e \in [sid : Sids \cup {None}, dir : Dirs \cup {None}] : e.sid = None <=> e.dir = None}

\* A session is stored with its directory, and no catalog entry is without a
\* session (isValidAgentEntry).
TypeOK ==
  /\ agent \in Agents /\ cwd \in Dirs /\ policy \in Policies
  /\ {store, storeFile} \subseteq StoreEntries
  /\ {catalog, catalogFile} \subseteq [Places -> Entries]
  /\ candidates \subseteq Places \X Sids
  /\ run \in [Runs -> {"new", "catalog", "store", "stale", "clear", "submit", "live", "over"}]
  /\ place \in [Runs -> Places \cup {None}]
  /\ {resumed, announced} \subseteq [Runs -> Sids \cup {None}]
  /\ active \in Runs \cup {None}
  /\ recorder \in [Runs -> {"none", "set", "upsert", "done"}]
  /\ faults \in Nat /\ restarts \in Nat /\ faults + restarts <= MaxTrouble
  /\ left \in [Places -> SUBSET Sids]
  /\ last \in [Places -> Sids \cup {None}]

\* A run resumes only a session that worked in its directory, whatever command,
\* recorder or restart came between ("the stale session was resumed").
ResumedIsOfPlace ==
  \A r \in Runs : resumed[r] # None =>
    \E q \in Runs : announced[q] = resumed[r] /\ place[q][1] = place[r][1]

\* What run r finds when it looks, unless a reset is under way.
Finds(r, s) ==
  /\ run[r] \in {"catalog", "store"} /\ run'[r] = "submit"
  /\ resumed'[r] = s
  /\ \A c \in Commands : ~Clearing(c)

\* After /new, /cd or a restart behind them, a run does not resume a session the
\* reset left behind, unless a late recorder wrote it again.
NewStaysNew ==
  [][\A r \in Runs, s \in Sids :
       faults = 0 /\ Finds(r, s) /\ s \in left[place[r]] => <<place[r], s>> \in revived]_vars

\* "started a new session": after /new or /cd nothing old is resumed.
NewStartsAfresh ==
  [][\A r \in Runs, s \in Sids : faults = 0 /\ Finds(r, s) => s \notin left[place[r]]]_vars

\* A conversation goes on: the session recorded or chosen last at a place is the
\* one the next run there resumes, after a restart too.
ResumesLast ==
  [][\A r \in Runs :
       /\ faults = 0 /\ run[r] = "catalog" /\ run'[r] \in {"store", "submit"}
       /\ last[place[r]] # None
       => resumed'[r] = last[place[r]]]_vars

\* Runs, commands, sessions, directories and policies are interchangeable.
Interchangeable == UNION {Permutations(S) : S \in {Runs, Commands, Sids, Dirs, Policies}}
=============================================================================
