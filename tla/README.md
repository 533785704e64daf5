# Verification of the Lark bridge

The repository is a Go SDK and a program that connect a chat (Lark/Feishu) with
coding agents (Claude Code, Codex): messages, comments and card clicks come in,
each conversation gets runs of an agent process, and the events of a run go back
as messages and cards. This directory holds TLA+ models of its concurrent and
stateful parts, the TLC configurations that check them, and proofs checked by TLAPS.
The file `PROJECT.json` lists components, runs, mutants, hazards and theorems, and
says for each definition which source lines it stands for. Paths below are
relative to `src/`; `app/` stands for `internal/app/`.

    tlc -workers 2 -config MCManaged.cfg MCManaged
    tlapm Parts_proofs.tla

## 1. The system

| component | state | operations | what is hard, what makes it correct |
|---|---|---|---|
| process pool (`app/runexecutor/process_pool.go`) | counter, FIFO of waiter channels | Acquire, TryAcquire, release | cancellation races wake-up; never over the cap, no slot lost |
| run executor (`app/runexecutor/run_executor.go`, `active_runs.go`) | handles and reservations per scope, pause depth | Submit, Stop, Interrupt, StopAll, WaitForAll, PauseNewRuns | a submission with seven ways to fail, cleanup by whoever comes first; one run per scope, every slot comes back |
| event fan-out (`app/runexecutor/fanout.go`) | buffer, waiter channels | pump, Subscribe | late and slow subscribers; everyone sees every event once, in order |
| intake queue (`app/intake/queue.go`) | entries with timers, blocks, workers | Push, Cancel, Flush, Block, Unblock, Close | timers race blocks; no message forgotten or handled twice |
| runtime lock, coordinator, process registry (`app/runtimecoord`) | a directory and its age; locks held, registry entry, adapter handle | Acquire, touch, Release; Start, Shutdown, Reconnect | crashes, suspended machines, overlapping calls with failing steps; one holder, one process per profile and app |
| bridge lifecycle (`pkg/bridge/bridge.go`, `adapters/lark/adapter.go`) | started, starting, stopping; the connection | Start, Shutdown, Reconnect | overlapping lifecycles, partial failures; connected exactly while started |
| managed intake (`pkg/bridge/lark_managed.go`) | detached tasks, forms seen, reactions | handleMessage, handleBatch, account forms | a profile that changes while messages wait; nobody gets a run the profile does not allow |
| card callbacks and dispatch (`app/cardauth`, `app/carddispatch`) | nonces used, pending callbacks, two files | Sign, SignPending, Cancel, Revoke, Verify, VerifyPending, dispatch | double clicks, failing writes, restarts, lookups that fail; a card acts once, at its place |
| agent sessions (`app/session`, `app/runflow`, `pkg/bridge/client.go`) | session store, catalog, two files | resolveResume, RecordSessionEvent | a recorder that comes late; a run resumes the right conversation |
| commands (`app/commands/service.go`) | config.json, aliases, candidates of /resume | /new, /reset, /cd, /ws, /resume, /timeout, /stop, /exit, /invite, /remove, /config, /account, /doctor | several stores changed one after another, while runs and other commands go on |
| agent processes and output (`adapters/agent`, `compat/codex`, `compat/agentoutput`) | process, pipes, stop reason; the candidate text | Run, Stop, WaitForExit; translators, Push, Finish | exit, grace period, failing readers in any order, results in any order; one end, one final answer, every login link once |
| presenters (`app/impresenter`, `app/cotpresenter`, `app/cardrender`, `app/cardmanaged`) | run state, buffers, sequence numbers | Present, Publisher, Update | failing edits, rollover into new messages, timers; the answer appears once |
| transport (`adapters/lark`) | connection generations, ids seen, socket | Connect, Disconnect, emit, ResolveLarkQuote, SendMessage, SendCard | redelivery, overlapping connects, lost answers; each event once, each part of an answer once |
| document comments (`app/comments`) | runs per document | Handle | mentions of one document share a session, which one run at a time resumes |
| media cache (`app/media`) | files and their age | Resolve, GC | one directory for all scopes; what a run was promised is there |
| configuration, keystores (`app/configstore`, `app/secretstore`, `cmd/`) | config.json, active-profile, profile directories, stores | load, normalise, save; profile create/use/remove, migration; Get, Set, Resolve | several processes on one file, crashes between two writes; what was answered stays so |
| lark-cli (`app/larkcli`, `app/larkclipreflight`) | the private configuration of lark-cli | preflight, overlay, identity policy | sequences of failing commands; lark-cli acts as the profile says |
| run policy, access, permissions (`internal/domain`) | none | pure functions | what a run may do never exceeds what its profile may |
| service control (`app/service`) | the platform's service manager | start, stop, restart, unregister, kill | a manager that restarts processes on its own; stopped stays stopped |
| Codex history (`adapters/codexhistory`) | one child process | query | answer, exit, timeout race; the answer is that of the question |
| telemetry, prompts' wording, card layout, command line | none of their own | formatting, wiring | not modelled, see section 7 |

How they interact. The transport delivers each event of the current connection once
to the adapter, which drops what the bot itself did and calls the managed intake. That
handles a slash command at once (cancelling what the scope's queue holds) and pushes
every other message into the **intake queue**. The queue's worker calls `handleBatch`,
which blocks the scope, gathers quotes and files (**media cache**), starts a run through
the run flow (policy, then **session** lookup) and the **run executor** (scope
reservation, **pool** slot, process) and awaits its presenter. The lines of the process
are translated, pass the agent output and the **fan-out** and reach the presenters and
the session recorder, a goroutine of its own. **Cards** carry tokens; a click comes in
as another event of the transport. The **coordinator** owns the connection of a process
and uses one **runtime lock** per profile and app. /reconnect and a saved account pause
new runs in the executor, stop or await all runs and then reconnect through the
coordinator. Commands of running bridges, commands of the program and other bridges
share the **files** of one home.

## 2. Modules

Modules named `MC...` give constants their values for TLC; `..._proofs` hold theorems.
Unless the row says otherwise an action has the name of the function it models, or of
the step of it.

| module | models | state and actions against the code |
|---|---|---|
| `ProcessPool` | the pool | `active`, `waiters` are the fields; `pool[c]` is where caller c is in Acquire. Acquire is a loop with an unlocked gap, so it is split into AcquireCall, AcquireSlot/AcquirePark (the critical section), AcquireWake/AcquireDone (the select), RemoveWaiter. Release is one critical section. |
| `RunExecutor` | Submit, the registry of active runs and everything that ends a run; EXTENDS ProcessPool | `submit[s]` is the line Submit has reached; the steps of Acquire are those of ProcessPool; SubmitUndo is `releaseBoth`, SubmitSpawn `agent.Run`. `cleanup` is the sync.Once of a run, entered by the pump or by Stop; `handles`, `reserved`, `interrupted` and `pauseDepth` are the registry, one operator per critical section. Controllers are /reconnect ("stop", "wait") and Shutdown ("shutdown"). |
| `EventLog` | abstract: what a fan-out promises | a log that grows until it is sealed, and views of it. |
| `EventFanout` | pump and subscribers | the critical section of each loop is a step (PumpEvent, Look), sends and receives are others. Refines EventLog. |
| `AgentProcess` | agentoutput.Stream, and one run of a CLI: the goroutines stream, captureStderr and writePrompt, calls of Stop, the consumer | Push and Finish map the state of the output and a message to a state and what goes out. `line` is the rest of the translated line, `terminal` the event kept aside, `out` what emit has still to send into `chan`; Decide is what follows cmd.Wait up to the emission; `stopper[s]` is where a call of Stop is. |
| `AgentStreams` | the two translators and the search for login links | `known` is the translator's fields (session, commands begun, items started, error); one action per line read; `told` the events. |
| `IntakeQueue` | the queue, its timers and workers, the handler's Block/Unblock | `pending`/`armed` are an entry and its timer; `flush[f]` a goroutine in flushScope; `chan`, `worker`, `item` the scope's worker. |
| `RuntimeLock` | the directory lock, file operation by file operation | `dir` is the directory and whether it looks stale; Mkdir, Stat, RemoveStale, Touch, ReleaseCall, ReleaseRemoves; Age is the passing of the stale time. |
| `RuntimeCoord` | the coordinators of several processes | `held` names who has a lock (one step here, RuntimeLock has the detail); every call is a record with its position and the locals it read. |
| `BridgeLifecycle` | Bridge, Adapter, the tasks of the intake, and Connect, Disconnect, emit of the SDK transport | `link` is the channel with its generation, `seen` the ids handled before, `deliveries` what the SDK still delivers; the flags of each object; `call[t]` is where a goroutine's Start, Shutdown or Reconnect is, `mutex` the adapter's lifecycleMu; the coordinator succeeds or fails. |
| `AccessPolicy` | who may use the bot | pure: a decision is its reason. |
| `ManagedIntake` | a message from access to the end of its run, Typing reactions, account forms; EXTENDS AccessPolicy | `disk` is the profile as it can be read now, `place[m]` where a message is, `batch` the handler of a scope, `cleanup` the retries of a reaction's removal, `restart` the task a saved form asks for. |
| `CardAuth` | both stores, their files, clicks, runs, faults, restarts | memory and file are separate variables; every mutex section of Verify and VerifyPending is a step. |
| `CardDispatch` | mode, scope and access of messages and presses | `cards` are what is in the chats, `active` the run of each scope; a press is one step up to its effect, but for what becomes a task of its own (`detached`). |
| `SessionFlow` | stores, run flow, recorder and commands | `store`/`storeFile` and `catalog`/`catalogFile`; every access to a store is a step, as each takes and gives back its mutex. `left`, `revived`, `last` are history for the properties only. |
| `ReplyPresenter` | Present in its modes, rollovers, prompts, idle timeout, the process presenter beside it; the reduction of events (`cardrender/state.go`) and the deltas of the rollovers | `reply` has the run state, what is published and what the server shows; an event and its calls are one step, any call may fail. |
| `CotPublisher` | ConsumeEvents, Enqueue, the throttle timer, Flush, Finish | `buffer`, `timer`, `flushing`, `disabled` are the fields; `flusher` is where a flush is; `sent` what the platform took. |
| `ManagedCards` | Send, Update in three steps, Forget | `entry` is byMessageID of the card, `card` the platform's number. |
| `Published` | CotPublisher and ManagedCards side by side | what both promise of the order in which the platform gets what is shown. |
| `ConfigStore` | permissions, evaluation and fingerprint of a run; load, normalise, migrate and save of config.json | operators named as the functions; `loaded` and `earlier` two loads around a save, `allowed` a run evaluated. |
| `ConfigFiles` | the programs that change a home | `home` maps files to contents, `proc[p]` the effects a command has still to have, `lock` the file lock; any effect may fail, the process may crash between two. |
| `Keystore` | salts and entries of the profiles, the secrets commands, resolving; the run of a command asked for a secret | a read, a change and a replacement are steps of a user; `truth` is what was stored last; `helper` is the process and an heir that keeps its pipe, `stdout` the limited buffer, `overdue` what ended the context. |
| `LarkCliIdentity` | preflight, identity policy, identity of /config | `target` is lark-cli's private configuration, `saved` the profile's; each command of lark-cli is a step that may fail. |
| `Commands` | /invite, /remove, /ws, /cd, /new chat, /stop, /timeout, /exit | a request is judged by the profile read when it arrived, and its effect, under the mutex, is another step. |
| `Doctor` | /doctor and its probe | `checking[c]` is a handler, `probes` the runs it submitted, `others` slots taken by others. |
| `CodexHistory` | one query of `codex app-server`, /resume and /usage over it | `child`, `waited`, `pipe`, `lines`, `reader` are process, Wait, pipe, channel and scanning goroutine; QueryIsOver, ChildIsOver and ReadsLine are the arms of the select. |
| `SettingsForms` | /config and /account forms; preferences from file to form to runs | `form[f]` is the step its task has reached, `card` what a message shows; numbers are counted in halves. |
| `DocComments` | a mention from its event to its answer | `mention[m]` is where its handler is, `docRuns` the counter per document, `sessions` the store. |
| `MediaCache` | Resolve with its three cleanings | `directory` the files by age, `batch[s]` the work of a scope, `taken[s]` what others removed of what it was promised. |
| `Quotes` | forwards and quotes of a batch, and the prompt | `rendering` is the recursion as a stack of lists still to be shown; each fetch is a step that may fail. |
| `FinalDelivery` | SendMessage, SendCard, the parts of a final answer | `timeline` the chat, `flying` requests given up that may still arrive, `sending[s]` part, attempt and id. |
| `IngressTransport` | the raw event transport | `holder` whose handler is set, `connects[c]` a Connect, `dials[c]` the socket it started; the mapping of events is operators. |
| `ServiceControl` | start, stop, restart, unregister, kill on three platforms | `manager` and `bridges` are external: what the platform does with its definition and its processes; `command[c]` is where a caller is. |

RunExecutor composes ProcessPool and the registry of active runs in one state space, BridgeLifecycle the
bridge, adapter, intake and transport, ReplyPresenter the presenter with the process
presenter, CardDispatch the mapping, adapter, dispatcher and intake. RuntimeCoord
uses RuntimeLock's result (a lock has one holder) as an assumption, which is why
it is a theorem there; BridgeLifecycle uses RuntimeCoord's (a call succeeds or fails and
leaves order). IntakeQueue and RunExecutor meet only in `handleBatch`,
which IntakeQueue reduces to Block, Unblock and return and ManagedIntake models with a
queue of one step per operation. For RunExecutor a process is something that may exit at
any time and is stopped or not, for EventFanout a sequence of events that ends, and
AgentProcess is what shows that it is that (`EndsOnce`, `ExitEndsRun`); there a line is
any legal list of events, and AgentStreams has what the lines really become.

Parts that do not interact share a run: `MCParts`, `MCManaged`, `MCSetup` and
`MCConversations` begin in one of their parts, take the steps of that part only, and
leave the variables of the others as they begin. A property of such a run is the
conjunction of what its parts promise, each guarded by its part.

## 3. Runs

Passing runs:

| run | instance | shows |
|---|---|---|
| `MCRunExecutor` | 2 submissions to one scope, one with nowait, cap 1, and a /reconnect that stops or awaits all runs, or a Shutdown; 626 k states | `NothingLeaks`: slots, handles and reservations belong to exactly who should have them; `OneRunPerScope`: one submission at a time has the scope; `PausedWhileReconnecting`; `SlotComesBack`: the slot of every exited process comes back |
| `MCAgentProcess` | any 3 of 10 kinds of lines, a channel of one event, one Stop; 474 k states | `EndsOnce`: one end, the last event; `SoundOutput`: one final answer of a normal run only, no action announced twice; `CandidateSurvives`: no text lost; `StopIsReported`; `ExitEndsRun` |
| `MCParts` | pool: 4 callers, cap 2. Fan-out: 2 subscribers, one of whom may stop receiving, 3 events. Queue: 2 scopes (the handler of one may never return), 2 flushers, channel capacity 1, 2 messages. Lock: 4 processes, one may crash, one may be suspended. 64 k states; deadlock checked | `NoLostWakeup`, `SleepersServed`; `PromisedLog` (the fan-out refines EventLog), `EveryoneFinishes`; `EachOnce`, `SomebodyFlushes`, `QueueSettles`; `OneHolder`, `LeftoverIsReclaimed` |
| `MCSessionFlow` | 2 runs, a command of any kind, 2 sessions, directories and policies, one fault or restart; 2 M states | `ResumesLast`: a run resumes the last session of its place; `ResumedIsOfPlace`: none of another directory; `NewStaysNew`: none a reset left behind unless it was recorded again |
| `MCManaged` | the parts of a managed bridge, below; 528 k states | `ConnectionFollows`, `RetriedShutdownStops`: connected exactly while started, and a Shutdown can be retried; `HandledWhileOpen`; `IntakeHolds`, `TypingGoesAway`; `RepliesHold`: all of an answer shown once and settled; `PublishedInOrder`: process messages and card updates in order; `ConfigHolds`: a saved configuration reads as before, runs stay within permissions |
| `MCSetup` | what surrounds the runs, below; 2 M states | `AtMostOnce`, `FormsKept` (tokens); `Exclusive`, `CallsLeaveOrder` (coordinators); `HomeKept` (files); `SecretsHeld`: what was stored stays readable, what is found was stored last, a command gives a secret only in time and whole, and has its environment; `IdentityHeld`: lark-cli acts as its profile says |
| `MCConversations` | what users meet, below; 2 M states | `CommandsHeld`, `SettingsHeld`, `ServiceHeld`: what their modules promise; `MessagesHeld`: the conjunction of what the modules of all other parts promise |

Each property of a passing run has a mutant: a plausible bug of the code, written
before the definition it replaces, under which TLC finds the property violated.

Runs that are expected to find a violation, each a disagreement between the code
and what its texts say:

| run | property | what happens |
|---|---|---|
| `MCCardAuthStop` | `StopHitsItsRun` | the stop button of one run, checked while it is active, interrupts the scope a moment later, when the next run may be registered. |
| `MCSessionFlowLate` | `NewStartsAfresh` | the recorder of the run that /new interrupted writes its session after /new has cleared it; the next message resumes the conversation the user has left. |
| `MCReplySplit` | `OnlyUnpublished` | a failed run whose answer is longer than a card gets card after card with nothing but the error. |
| `MCHomeLost` | `AnswersHold` | /invite of a running bridge and `profile create` rewrite config.json at the same time; the user who was told to be added is lost. |
| `MCOptOutLost` | `OptOutKept` | a start that binds lark-cli anew forgets that bot-only was the user's choice; the next one imports the local user. |

### The parts of the composed runs

| run, part | instance |
|---|---|
| `MCManaged` lifecycle | 2 goroutines of the host with 2 calls of Start, a /reconnect, a restart after /account, one message delivered at most twice per channel, 3 channels, one failing step |
| messages, forms | 3 messages (an admin's, a stranger's with a mention, a command) in one group, a profile that changes once, two forms delivered twice |
| reply | 5 runs (phases, tools, prompts, an error, an end without an answer) under every mode, separate process presenter or not, rollover limits of 1 and 2 edits, one failing call, at most 6 messages |
| process | 3 runs, updates of 2 events, 2 timer callbacks, 3 failing calls |
| card | 2 callers, 3 updates |
| config | 51 files: every pairing of permissions, old and new spellings, one profile and two, legacy; loaded, saved, loaded again, one run evaluated |
| `MCSetup` cards | a form and a stop token, 2 clicks, 2 runs, 2 failing writes, a restart |
| coord | 3 processes, 2 of one profile, 2 apps, 4 threads, 2 of which reconnect, 5 lock objects |
| files | homes with two profiles, in the first layout, and with config.json deleted; 2 programs, 3 commands, two failing effects, two crashes |
| keys | 2 processes, 2 profiles, 3 uses, one failing write, secrets of every source and provider |
| identity | any target and local login, 2 starts, 2 forms, 2 failing commands |
| provider | 3 commands (no limit, a small one, a passed environment), 2 pieces of output of 4 kinds |
| `MCConversations` access, workspaces, runs | 2 handlers, 3 requests of 10 (access), 8 (workspaces) and 8 (runs) kinds, one failing write |
| settings, preferences | 2 of 9 overlapping forms, 2 failures; every file of preferences, 2 submits |
| comments | 3 of 5 mentions, in a document, its wiki token and slides, one failure |
| media | 2 scopes, 2 of 5 batches of up to 4 attachments, a limit of 4, one failure, ageing and a crash |
| streams | any 4 of 10 lines of Claude and of 16 of Codex |
| service | 2 callers, one interactive, 2 commands, 3 processes, one failure, each platform |
| ingress | 2 callers, 3 Connects, every kind of event |
| presses | a group, its thread and a private chat, 2 users, 2 runs, 1 press of every kind, one failing lookup |
| quotes | 5 batches with nested forwards, one failing fetch, a limit of 7 instead of 50 |
| delivery | up to 3 parts, 3 attempts each, 4 failures of any kind, answers that come late |
| history | 4 questions, 3 printed lines of 6 kinds, a channel of one line |
| doctor | 2 callers, 2 checks, 2 events, one slot, another run |

### Bounds, and why they are enough

Every bound is a constant named `Max...` (or `Cap`, `Limit` where the code has one) and
the sizes of the sets. They are chosen so that the interesting case happens at least once
with one more actor beside it: the pool has twice as many callers as slots, so that a
woken caller loses its slot to a newcomer while another one sleeps; the fan-out has a fast
and a stuck subscriber and a terminal event behind others; the queue's channel holds one
batch, so that a flusher blocks on a full channel while a second one drains; a lock has a
crashed leftover, one sleeper and two healthy processes; a Reconnect changes apps while two
other processes want both; the agent's channel holds one event of the 32, so that every
emission can block, and three lines are a text, what shows that it was commentary, and an
end, or an action, its repetition and a text. Two submissions suffice for a scope, as
handles and reservations are decided pairwise, and the second one meets the first one's
slot between its handle's removal and its release; two runs suffice for a session, as the
stores keep the last writer only. Four failing sends use up the three attempts of one part
and hit the next; a limit of seven forwarded messages is reached in the middle of a nested
forward; the file limits of a batch are smaller than two of its files. `MaxFaults` is 1 in
the lifecycle because a second failure of an owner who retries is the same state again, and
its liveness needs the failures to end. Callers, submissions, clicks, runs, sessions and
places that are interchangeable are symmetric (no symmetry in a run with a temporal property
of liveness). Deadlock is checked for the pool and the lock, which never come
to an end (`MCParts`). In all other parts submissions, events, clicks, commands or runs are
bounded, so that the model comes to its end; it then stutters by a disjunct of its own or the
run does not ask for deadlocks, and that nobody waits for ever is a liveness property
(`SlotComesBack`, `ExitEndsRun`, `EveryoneFinishes`, `QueueSettles`, `RetriedShutdownStops`).

Some properties state an exception: `HomeKept` speaks of answers only as long as no write
came between the reading and the writing of another and no undo of a removal or a migration
failed too (`raced`), `SecretsHeld` of profiles without
overlapping writers (`clash`), `IdentityHeld` not of what the preflight does untold
(`slips`), `ServiceHeld` not of a start that overlaps. Each exception is a behaviour of the
code that section 5 names, and is made as narrow as the run allows; a violation run shows it
where a text of the repository says otherwise.

### Fairness

Weak fairness stands for "a goroutine that can run does run", and is asked of
nothing else: agents need not exit, users need not click, contexts need not end,
handlers of `Endless` scopes and receivers of `Slow` subscribers may hang.
ProcessPool: every caller's own steps, and its Release (a run that holds a slot
ends). RunExecutor: the steps of cleanup, and that the pump of an exited process sees the
end; neither Submit nor any stop need go on. AgentProcess: the stream's goroutine, its
consumer (the pump reads until the end), and that captureStderr sees the end of an exited
process's pipe. EventFanout: the agent's stream ends
(the executor stops processes), cleanup returns (its waits have timeouts).
IntakeQueue: strong fairness for a timer to fire, because each timer has a goroutine of
its own and only the model's finite set of flushers makes it compete. RuntimeLock:
strong fairness for the steps of a process, because a process that is suspended and
resumed again and again does get on in between; and time passes (Age). BridgeLifecycle:
the steps of every call, the end of the refreshing task once its context is over, and a
host that calls Shutdown as long as the Bridge is started, which is what
`RetriedShutdownStops` is about.

## 4. Proofs

All `_proofs` modules are checked by TLAPS to the last leaf, for every value of
the constants that satisfies the modules' assumptions. The general plan: TLC finds out
whether the strengthened invariant holds on the run's instance; then one lemma says what each
action does to the fields it touches, one what it leaves alone, and the step of each part of the
invariant follows from these, action by action.

| theorem | states | the invariant, and why it is needed |
|---|---|---|
| `PoolSafety`, `PoolNeverOverCap`, `PoolNeverIdle` (`RunExecutor_proofs`) | types, exact accounting, sound waiter queue; `WithinCap`; `NoLostWakeup` | PoolInv adds to the types that the counter equals the number of holders and is within the cap (so Release's guard `active > 0` never hides a loss) and that the queue has no duplicate. NoLostWakeup is inductive only with WakeInv, which counts free slots against those awake and those who gave up. |
| `ExecutorUsesPool` (`RunExecutor_proofs`) | `Spec => PoolSpec`: every step of the executor is one of the pool or leaves it alone | so the pool's theorems are theorems about the executor. |
| `ExecutorTypes`, `ExecutorLeaksNothing`, `ExecutorScopes`, `ExecutorPauses` (`RunExecutor_proofs`) | types; `NothingLeaks`; `OneRunPerScope`; `PausedWhileReconnecting` | the line Submit has reached tells whether it has slot, reservation and handle (Owned); a handle is of a run that was submitted, and the `sync.Once` decides who takes it away. A pause is counted by the controllers that are inside one. |
| `FanoutSafety`, `FanoutImplementsLog` (`Parts_proofs`) | types, nobody sleeps through, prefix, complete ends, terminal last; `PromisedLog`: the fan-out implements EventLog | the invariant ties `index` to `got` by the position of each subscriber, and a terminal event to the pump's position. Every step maps to a step of the log or a stutter. |
| `AgentEndsOnce`, `OutputIsSound`, `CandidateIsSent`, `StopInterrupts` (`AgentProcess_proofs`) | types and `EndsOnce`; `SoundOutput`; the action properties `CandidateSurvives`, `StopIsReported` | up to the decision everything sent is messages; from then on everything sent or still to be sent is messages and then one ending, a fact that moves events from `out` to `chan` to `taken` without changing their sequence. SInv adds what the output's state knows of that sequence: which actions it has announced and that the final answer is not yet among it. What Push and Finish return are lemmas. |
| `QueueTypes`, `QueueNeverForgets`, `QueueHandsOnce` (`Parts_proofs`) | types; `SomebodyFlushes`, `BlockHasOwner`, `QuietWhileBlocked`; `EachOnce` | Drain empties the entry it takes, so a second flusher of a scope has nothing; Block happens only in a worker that will unblock. PlacesInv: every message accepted is found in one place (entry, drained batch, channel, handed over, or dropped), in one position of it and in no other scope. |
| `SecretsAreKept` (`Setup_proofs`) | `SecretsHeld` (`KeysKept`, `SecretIsGiven`, `EnvReaches`) | KeysInv, as long as nothing clashed: the entries of a file are what was acknowledged, each under the salt of its profile (StoreOK); a writer that nobody overtook has read the file it replaces, and its key is of the salt that is there (WriterOK); a reader has passed places that hold nothing but for what it found (ReaderOK, which ties `todo`, `asked` and `found`). ProviderInv: nothing is printed before a command is started, what is kept is within its limit, and one is killed only when its time is over or it was cancelled. What mergeEnv returns is lemma `MergedEntries`: an entry keeps its place or is the first of those overridden, and what is new comes once. |
| `IdentityIsTold` (`Setup_proofs`) | `IdentityHeld` | IdentityInv is about what is still to be done: every sequence of steps, and each that may take its place, ends just after the profile was written with what lark-cli then acts as (Plan), and an import is written only after the login was seen to be ready. It needs that no step leaves a login that is only shown once a start has begun (ShownOK), and that what the user chose is marked as a choice until a binding overwrites it (ChoiceOK). |
| `CardTypes`, `CardsOnce`, `CardsKeepForms` (`Setup_proofs`) | types; `AtMostOnce`; `FormsKept` | the click that has the store's mutex is one, and what it read still holds when it acts; a form accepted has no entry; a stop accepted has its nonce consumed in memory, or (after a restart that lost it) its run is over. KeepInv: a form on its way is in memory and on disk until it is spent or late. |
| `FlowTypes`, `ResumesOfPlace`, `NewStays`, `LastIsResumed` (`SessionFlow_proofs`) | types; `ResumedIsOfPlace`; the action properties `NewStaysNew`, `ResumesLast` | WorkedInv: whatever store, catalogue, their files, an offer of /resume or a command's argument names worked in the directory it is named for. HistoryInv, as long as writes succeed: the files are what memory holds, the session recorded last is the active one, and what a reset left behind is neither active nor stored but for a recorder that came late or a command that has yet to clear the store. |
| `LifecycleTypes`, `LifecycleFollows`, `LifecycleHandles` (`Managed_proofs`) | types; `ConnectionFollows`; `HandledWhileOpen` | CallersInv: one Start and one Shutdown at a time, and who is inside has lifecycleMu. PhaseInv: where each call is tells how far bridge, coordinator and adapter are, also beside a call of the other kind. LinkInv: the connection follows the context of the adapter's start, but for whoever is inside. IntakeInv, HandledInv: what was seen is in hand or handled, never both. |
| `ProcessMessageTypes`, `ProcessMessageTold` (`Managed_proofs`) | types; `ProcessTold` | OrderInv: one flusher at a time has a batch, and what was enqueued is what was sent, its batch, the buffer and what was dropped by a failure, in this order. BalanceInv: for every text, thought and call, beginnings less ends among what was enqueued or is about to be are what ConsumeEvents' locals say is open. FinishInv: where Finish is, nothing is open. |
| `IntakeTypes`, `IntakeServes`, `TypingIsRemoved` (`Managed_proofs`) | types; `IntakeHolds` (`NoStrangerRuns`, `OneRestartPerForm`); `TypingGoesAway` | QueuedInv, ApartInv: a queued message is in one of pending, one handed batch and the worker's batch of its chat. Hence what an end, a command or Close takes away is nowhere else (lemmas `LeavingQueued`, `LeavingRuns`), what is in a run was not answered otherwise (TurnedInv), and the batch at work was allowed by the profile it carries (ServedInv). TypingInv: a reaction being added or shown is of the last message of a run that is on, or its removal waits. RestartInv: a form whose restart is delayed is remembered and has had none. |
| `CardFollows`, `PublishedArrives` (`Managed_proofs`) | `SequenceFollows`; `PublishedInOrder` of both together | SequenceInv: the number stored is behind the platform's only by the update whose caller is about to store it. |
| `ConfigKept` (`Managed_proofs`) | `ConfigHolds` (`ConfigSettles`, `RunsWithinPermissions`) | normalising a profile gives one in normal form (lemma `ProfileIsNormal`), and what is in normal form normalises to itself (`NormalStays`); likewise roots and files of the first version. ConfigInv: the file is as it was found, or is what was loaded before, saved; what was loaded is in normal form and has the name the options select. `AllowWithin` is about any request, profile and agent. |
| `ServiceObeys` (`Parts_proofs`) | `ServiceHeld` (`StaysOff`, `NamesService`) | OffInv: what has a process or one that is due is to run. LeftInv: how the service was left off says what its definition lost by it (stopped, it is not started with a logon; removed, it has none). SeenInv: for whoever starts the service, a bridge of the foreground is beyond its boot, and in his list of earlier processes once he has made it. What a call of a manager comes to is one lemma per platform (`AnswerLaunchd`, ...). |
| `CommandsObey` (`Parts_proofs`) | `CommandsHeld` | AccessInv: who is in a list, also in one that a request still in hand is judged by, was let in. So an admin of an outdated list was one (lemma `AdminsVouched`), and a save changes no entry but those of its answer, since it starts from what is kept and not from what its request saw (lemma `SavesKept`). AliasInv: an alias is under the owner that was known when it was saved, so it is found until another owner is known. |
| `SettingsKept` (`Parts_proofs`) | `SettingsHeld` (`FormsHeld`, `PreferencesHeld`) | AccountInv: past its validation an account form is accepted, and from the write of its secret on its app connects with what is kept; since an app has one tenant, a secret of the same app written by an overlapping form connects the account in force as well. IdentityInv, until forms overlap: one form is about to save, and lark-cli acts as it is about to write. CardInv: a card is of forms that have come to their end, so nothing it says is overtaken. The preferences are proved field by field: the two readers agree, what the form shows is read back as it was, and a number that is none, too small or too large leaves one of three values (lemmas `...Agree`, `...Submitted`). |
| `CoordExcludes`, `CoordLeavesOrder` (`RuntimeCoord_proofs`) | `Careful /\ CoordSpec => []Exclusive`; `Careful /\ CoordSpec => []CallsLeaveOrder` | below |
| `LockExcludes` (`RuntimeCoord_proofs`) | `OneHolder` and `HolderHasDir` of RuntimeLock | until a process is troubled the directory is fresh exactly while one process owns it, so nobody finds it stale and nobody removes it from a holder. |

`CoordExcludes` is about calls that release lock objects they read long before. Its argument: every object
known was made by the coordinator that knows it (BoundInv); what a Start or a Reconnect took and has not
handed over is known to nobody else (OwnInv), so only its own failure releases it; a Shutdown is of the run its
coordinator is in, and has disconnected before it releases (ShutdownInv); a Reconnect's old lock is that of
the run it names until it has swapped it, and then no longer the coordinator's (ReconnectInv); nobody names the
run a Start is about to commit (IdInv). Hence no step takes a lock from a run that is on (lemma `RunKeepsLocks`),
a connection has both its locks (`ConnectionsAreLocked`), and two coordinators cannot both have one.
Its hypothesis `Careful` is that the registry can be written and that no two Reconnects of one coordinator
overlap: without either half the code does let a connection lose its lock (section 5), so the theorem
would be false. Two coordinators may reconnect at once, and any Start or Shutdown may overlap a Reconnect.

`CoordLeavesOrder` is about what is left when calls have ended, and needs the invariant `Order` besides: a run has
its locks until a Shutdown has released them (KeptInv) and is connected until one has disconnected it (StartedInv); no
two coordinators name one run (IdsInv); the registry has exactly the entries of the Starts that have registered
and of the runs not yet taken out, with the app a Reconnect has moved them to (RegInv), and pruning takes none of
them (`AllLive`); a lock object is under one name (OnceInv); a Shutdown that no Reconnect overlaps
releases all its coordinator has (ObjectsInv), and whatever is held there is known to somebody who will release
it (OwnersInv). The last two need that nobody else calls a coordinator while it is reconnected, as
LocksFollowConnection does: otherwise the code leaves a lock behind (section 5).

Assumptions on the constants: finite sets of callers and controllers where they are counted, subsets and
disjoint kinds of threads where the code partitions, no app named as a profile is, what stands for no app is neither an app
nor a coordinator, a text is not "no event", the events of a run are a finite sequence, a batch has room for an event, Finish is no timer,
a home lists a profile once, no file of entries is found in the version that is read, limits and sizes are numbers,
a configuration has the fields of its type, a profile may have an attachment, an app is registered with one
tenant of the platform, a preference that is written, or a number that is typed, is of its type or missing, the
bridge's environment is a sequence, a provider sets finitely many variables, and lark-cli's private configuration is
none or has the fields of its type. Nothing
else is assumed, and TLC evaluates all of them in the runs.

Only model-checked: `HomeKept`; of MCConversations `MessagesHeld`; of MCManaged `RepliesHold`, whose
ReplyPresenter cuts texts with RECURSIVE operators. Out of the prover's reach: liveness under fairness (`SleepersServed`, `EveryoneFinishes`, `QueueSettles`, `LeftoverIsReclaimed`, `SlotComesBack`,
`ExitEndsRun`, `RetriedShutdownStops`), ENABLED, what a recursive definition computes, induction over data.

## 5. What the models taught about the code

Behaviour a maintainer should know of, beside the five violation runs. Properties are
stated so that they hold nevertheless; the hazards of `PROJECT.json` name the lines.

Runs and processes
- A waiter of the pool that is woken and then sees its context done passes the wake-up
  to nobody: a slot stays free beside a sleeper until the next release
  (`process_pool.go:41`). NoLostWakeup bounds the loss by the callers that gave up.
- Submit checks the pause for the last time before it spawns; a run may be registered
  after StopAll has gone through the handles (`run_executor.go:222`). StopAll forgets
  reservations (`active_runs.go:149`), so the scope may be reserved twice afterwards;
  OneRunPerScope is stated until then.
- Submit undoes a run refused after its process has started with `run.Stop` under a
  background context (`run_executor.go:218`, `225`), and nobody reads that run's events.
  If the agent has printed more than the channel holds, the goroutine that would close
  `done` waits for a reader, and Stop, and with it Submit, for `done`. ExitEndsRun is
  stated with a consumer for that reason.
- A tool result of Claude that is made of parts is passed on as JSON and no login link is
  found in it; a Codex command without an exit code counts as a success; a login inside a
  compound shell command is not recognised.

Messages
- Two goroutines that drained one scope one after the other may hand their batches over
  in the other order (`intake/queue.go:125`): the queue promises each message once, not
  their order.
- handleBatch runs under a background context and a worker may take an item after Close,
  so a run can start after Shutdown's StopAll; it checks access again for the first message
  of the batch only. Any handled command cancels the pending messages of its scope.
- Every attachment of the managed intake is optional, so the policy's check for required
  ones never fires there; a file that cannot be downloaded is dropped without a word, a
  rejected one is still listed in the prompt with a path that is gone. The limit, the ageing
  or the rejection of another scope's batch may remove a file promised to a running agent,
  also in the middle of its download.
- One fetch that fails drops the whole quote or forward it is part of; somebody mentioned
  without an id in two messages is listed twice.
- A part of a final answer whose three attempts all lost their answer is reported as failed
  though it may be there; sends into a thread that are not final have neither id nor retry.
- After Close the cleanup of a Typing reaction stops, and the reaction stays.

Cards, sessions and commands
- An error of the thread lookup of a pressed card is dropped (`oapi_transport.go:1590`): an
  unsigned command in a topic then acts on the scope of the whole chat, a signed one is
  refused. A stop that could not be signed stops whatever runs in its scope. /config and
  /account of a card use the access read when it was pressed.
- Until the bot's identity is known the bot's own events are not dropped.
- The session store's fallback for Claude compares the directory only, not the policy
  (`runflow/run_flow.go`): ResumedIsOfPlace speaks of directories for that reason; comments
  resume by directory too. The policy fingerprint does not cover the permission mode.
- A reset whose write fails is undone by the next restart; only Flush reports it.
- Without a path of config.json /invite answers that it succeeded although the change is lost;
  an alias saved before the owner is known is not found afterwards; `/exit 2` and `kill 2`
  mean the second of the list as it is then.
- /doctor runs in a scope of its own: /stop of the chat does not reach it, no idle timeout ends
  it, and a second /doctor, a pause and a failing start all answer "failed".
- A codex app-server that exits right after its answer may be reported as "exited before history
  response"; the reader leaks when more than 16 lines follow the answer; /resume takes an error
  of the history for an empty one and lists nothing for Claude.
- A submit of /config that leaves the reply mode out turns a saved "text" into "markdown"; a
  number of 2^63 and more reads back as the default; overlapping submits may leave lark-cli acting
  as another identity than the one saved. A saved form whose profile cannot be read for the card
  is shown as failed. An account whose config.json cannot be saved has its secret replaced already.
- A comment beyond the tenth page of a document is taken for an empty question, and a reply that is
  not in its thread for the last one.

Replies
- A message whose footer was shown before a rollover keeps it (`markdown_rollover.go:53`); a tool
  begun on one card and done on the next is never shown as done on the first; progress resumed
  after a card rollover rewrites the last card with all of it (`docs/pkg/bridge.md:158`); text
  without a phase is then both progress and answer. ShownOnce allows these.
- A run that ends while the user is asked something gets STEP_FINISHED after RUN_FINISHED.
- A Forget of a managed card that overlaps an Update is undone by it.

Lifecycle
- The intake's Close is permanent, so a Bridge that is started again after Shutdown has a connection
  without an intake. A Start that failed after an early event leaves its refreshing task behind. A
  Shutdown during Start returns nil and does nothing. A Shutdown that failed can be repeated:
  the coordinator's returns nil when it is not started.
- A second account saved while a restart is pending is remembered as seen and never restarted for
  (`docs/pkg/bridge.md:220`).
- A stale lock directory may be removed by a process that looked at it before another one
  had replaced it (`lock.go:208`): after a crash or a suspension two may hold a lock.
- Two overlapping Reconnects, or a Shutdown that overlaps one to another app, release the
  lock they read at the beginning and leave the other one behind (`coordinator.go:292`). A Reconnect
  whose registry update fails has connected already, gives the new lock back and stays connected;
  Exclusive is checked and proved with a registry that does not fail.
- A Connect of the raw event transport that still waits while Disconnect and a second Connect go by
  wipes the handler of the second and closes its socket (`oapi_ingress.go:398`).

Files and platform
- Start, the first start of a home and the commands of a running bridge do not take the lock of
  config.json. A crash inside the overlay of lark-cli leaves config.json with one profile, which
  the next start migrates, and a later overlay restores the backup of before; between the removal
  of backup and marker it makes every later overlay fail. The function that would recover it
  (`overlay.go`, RecoverLegacyLarkCliSourceOverlay) has no caller.
- `profile create` and `use` on a configuration of the first version rewrite it without moving the
  state. A crash of a removal leaves config.json or active-profile naming what is gone, and so does a
  failure of what undoes one (`main.go:1694`): the error names the place of the state. A start loads
  the profile before it locks it, so one removed in between still runs.
- The keystore counts a file of an unknown version as empty and overwrites it; two first users may make
  two salts; of two writers one loses its entry.
- The command of an exec provider is waited for until its pipe is closed, so a process it leaves behind
  turns an answer in time into a timeout; it gets the whole environment of the bridge.
- A preflight that switches an existing login to user-default returns the policy it read before, so the
  connect applies bot-only again.
- A service stopped in the pause before systemd restarts it is "not running" and comes back; Unregister
  may remove the definition of one that was just started; launchd starts a stopped one after a logon.
- `Catalog.GC` has no caller.

## 6. Plan

Done: every component of section 1 but those named in section 7, in the order of section 2.
What is left, most important first:

1. Proofs: HomeKept (ConfigFiles), RepliesHold (ReplyPresenter), the parts of MessagesHeld.
2. AgentProcess under RunExecutor: a refinement in which `ProcessExits` and `StopProcess`
   are steps of AgentProcess. A plain composition with EventFanout has millions of states.
3. ManagedIntake over IntakeQueue, and ReplyPresenter over EventLog, as refinements instead of
   one step per operation of the lower part.
4. StopAll over several handles, for which one scope is not enough.
5. Rendering: the splitting of markdown as a pure algorithm.

## 7. Not modelled

Telemetry and logging only observe. The wording of prompts, help, status and cards, their layout,
icons and truncation, and the splitting of markdown into posts format what the models carry as data.
The translation of requests into calls of the SDK is field by field; the registration of an app and the
card kit's transport are external services. The command line program parses arguments and wires
the parts together; what it does to files, secrets and services is modelled. /status, /help and /ps
report and change nothing. The example and the script are not part of the system. The list in
`PROJECT.json` has every directory.

Within modelled parts these are left out: logging and metrics; the contents of messages;
signatures, key versions and the formats of encryption (a click that does not fit returns
early); the registry's legacy file and Status; idle overrides; lock
metadata beside the directory; changes of the pool's cap while it runs (the one
wiring passes a constant); the arguments of a CLI, and the kill of a shell that does not find the
command, on Windows; the projection's contents for lark-cli; the texts of service definitions; the
export of a profile. The process of AgentProcess stands for its group, which has exited
when nobody holds the pipes any more.
