------------------------------ MODULE CardAuth ------------------------------
(***************************************************************************)
(* Single-use card callbacks: internal/app/cardauth (the nonce store, the  *)
(* pending callbacks and their two files) with the way there through       *)
(* carddispatch and pkg/bridge.  A pending token belongs to a form the     *)
(* agent sent and outlives its run and the process; a command token (the   *)
(* stop button) is good while its run is the active one of the scope.      *)
(* Clicks are goroutines; each store has a mutex of its own.  A click that *)
(* is malformed or does not fit the token's context returns early and      *)
(* changes nothing: only fitting clicks are steps here.  Files are         *)
(* replaced atomically (writeAtomic), or not at all.                       *)
(***************************************************************************)
EXTENDS Naturals, FiniteSets

CONSTANTS Tokens, Pending,   \* signed tokens, and those of agent forms
          Clicks,            \* goroutines that serve clicks
          Runs, RunOf,       \* runs of one scope, and the run a token was signed in
          Nobody,            \* no run, no token
          MaxFaults,         \* writes that may fail
          MaxRestarts        \* times the process may die

ASSUME CardAssumption ==
  /\ Pending \subseteq Tokens
  /\ RunOf \in [Tokens -> Runs]
  /\ Nobody \notin Runs \cup Tokens
  /\ MaxFaults \in Nat /\ MaxRestarts \in Nat

VARIABLES
  nonces, nonceFile,     \* token -> "fresh", "used" or "revoked", and the file
  lastErr,               \* the error of the last write of the nonce file
  entries, entriesFile,  \* pending callbacks, and the .pending file
  expired,               \* tokens past their time
  card,                  \* token -> what became of the card it was signed for
  click,                 \* goroutine -> its step, its token and the error it read
  running, presenting,   \* the run the executor has, the run registerActiveRun named
  over,                  \* runs that will not come back
  accepted,              \* token -> how often a click with it was accepted
  spent,                 \* tokens that reached Consume in some process
  stopped,               \* <<token, run>>: the stop button of token hit run
  faults, restarts

stores == <<nonces, nonceFile, lastErr, entries, entriesFile>>
runsVars == <<running, presenting, over>>
history == <<accepted, spent, stopped>>
vars == <<stores, expired, card, click, runsVars, history, faults, restarts>>

NoErr == "nil"
Idle == [at |-> "idle", token |-> Nobody, err |-> NoErr]
Commands == Tokens \ Pending

\* pendingStore.mu is held by a click from its lookup to its last write.
Locked == \E c \in Clicks : click[c].at # "idle" /\ click[c].token \in Pending /\ click[c].at # "deliver"

\* A write comes off, or (within MaxFaults) fails and leaves the file alone.
Write(file, value) == file' = value /\ UNCHANGED faults
WriteFails(file) == faults < MaxFaults /\ faults' = faults + 1 /\ UNCHANGED file
-----------------------------------------------------------------------------
Init ==
  /\ nonces = [t \in Tokens |-> "fresh"] /\ nonceFile = nonces /\ lastErr = NoErr
  /\ entries = {} /\ entriesFile = {}
  /\ expired = {}
  /\ card = [t \in Tokens |-> "none"]
  /\ click = [c \in Clicks |-> Idle]
  /\ running = Nobody /\ presenting = Nobody /\ over = {}
  /\ accepted = [t \in Tokens |-> 0] /\ spent = {} /\ stopped = {}
  /\ faults = 0 /\ restarts = 0

\* handleBatch: the run starts, is registered, ends, and is unregistered; the
\* queue starts the next batch of the scope only then.
RunStart(r) ==
  /\ running = Nobody /\ presenting = Nobody /\ r \notin over
  /\ running' = r /\ over' = over \cup {r}
  /\ UNCHANGED <<stores, expired, card, click, presenting, history, faults, restarts>>

Register ==
  /\ running # Nobody /\ presenting = Nobody
  /\ presenting' = running
  /\ UNCHANGED <<stores, expired, card, click, running, over, history, faults, restarts>>

RunDone ==
  /\ presenting # Nobody /\ running # Nobody
  /\ running' = Nobody
  /\ UNCHANGED <<stores, expired, card, click, presenting, over, history, faults, restarts>>

Unregister ==
  /\ presenting # Nobody /\ running = Nobody
  /\ presenting' = Nobody
  /\ UNCHANGED <<stores, expired, card, click, running, over, history, faults, restarts>>

\* The callback time to live passes.
Expire(t) ==
  /\ card[t] # "none" /\ t \notin expired
  /\ expired' = expired \cup {t}
  /\ UNCHANGED <<stores, card, click, runsVars, history, faults, restarts>>
-----------------------------------------------------------------------------
\* Mutant of Sign: a command token is recorded like a form.
SignRecorded(t) ==
  /\ t \in Commands /\ card[t] = "none" /\ presenting = RunOf[t]
  /\ card' = [card EXCEPT ![t] = "sent"] /\ entries' = entries \cup {t}
  /\ UNCHANGED <<nonces, nonceFile, lastErr, entriesFile, expired, click, runsVars, history, faults, restarts>>

\* Sign for a stop button: nothing is stored.
Sign(t) ==
  /\ t \in Commands /\ card[t] = "none" /\ presenting = RunOf[t]
  /\ card' = [card EXCEPT ![t] = "sent"]
  /\ UNCHANGED <<stores, expired, click, runsVars, history, faults, restarts>>

\* Mutant of SignPending: the sender goes on when the write has failed.
SignPendingUnsaved(t) ==
  /\ t \in Pending /\ card[t] = "none" /\ presenting = RunOf[t] /\ ~Locked
  /\ entries' = (entries \ expired) \cup {t}
  /\ card' = [card EXCEPT ![t] = "sending"]
  /\ Write(entriesFile, entries') \/ WriteFails(entriesFile)
  /\ UNCHANGED <<nonces, nonceFile, lastErr, expired, click, runsVars, history, restarts>>

\* SignPending: expired entries are pruned, the new one is recorded, and taken
\* back when the file cannot be written.
SignPending(t) ==
  /\ t \in Pending /\ card[t] = "none" /\ presenting = RunOf[t] /\ ~Locked
  /\ \/ /\ entries' = (entries \ expired) \cup {t}
        /\ card' = [card EXCEPT ![t] = "sending"]
        /\ Write(entriesFile, entries')
     \/ /\ entries' = entries \ expired
        /\ card' = [card EXCEPT ![t] = "refused"]
        /\ WriteFails(entriesFile)
  /\ UNCHANGED <<nonces, nonceFile, lastErr, expired, click, runsVars, history, restarts>>

\* SendCard returns; an error need not mean that the card did not arrive.
SendCard(t) ==
  /\ card[t] = "sending"
  /\ \E outcome \in {"sent", "cancelling"} : card' = [card EXCEPT ![t] = outcome]
  /\ UNCHANGED <<stores, expired, click, runsVars, history, faults, restarts>>

\* Mutant of CancelPending: the entry is dropped in memory only.
CancelPendingInMemory(t) ==
  /\ card[t] = "cancelling" /\ ~Locked
  /\ entries' = entries \ {t} /\ card' = [card EXCEPT ![t] = "cancelled"]
  /\ UNCHANGED <<nonces, nonceFile, lastErr, entriesFile, expired, click, runsVars, history, faults, restarts>>

\* CancelPending after a failed send; its own error is joined to the report.
CancelPending(t) ==
  /\ card[t] = "cancelling" /\ ~Locked
  /\ entries' = entries \ {t}
  /\ \/ Write(entriesFile, entries') /\ card' = [card EXCEPT ![t] = "cancelled"]
     \/ WriteFails(entriesFile) /\ card' = [card EXCEPT ![t] = "unsure"]
  /\ UNCHANGED <<nonces, nonceFile, lastErr, expired, click, runsVars, history, restarts>>

\* RevokeNonce, by the host of the SDK.
Revoke(t) ==
  /\ card[t] # "none" /\ nonces[t] # "revoked"
  /\ nonces' = [nonces EXCEPT ![t] = "revoked"]
  /\ \/ Write(nonceFile, nonces') /\ lastErr' = NoErr
     \/ WriteFails(nonceFile) /\ lastErr' = "error"
  /\ UNCHANGED <<entries, entriesFile, expired, card, click, runsVars, history, restarts>>
-----------------------------------------------------------------------------
At(c, step) == click[c].at = step
Goes(c, step) == click' = [click EXCEPT ![c].at = step]
Ends(c) == click' = [click EXCEPT ![c] = Idle]

\* VerifyPending up to its call of Verify; any other lookup returns a refusal.
LookPending(c, t) ==
  /\ At(c, "idle") /\ t \in Pending /\ ~Locked
  /\ t \in entries \ expired
  /\ click' = [click EXCEPT ![c] = [at |-> "state", token |-> t, err |-> NoErr]]
  /\ UNCHANGED <<stores, expired, card, runsVars, history, faults, restarts>>

\* Dispatcher.verify of a command: the active run of the scope is what the token
\* is then compared with.
LookActive(c, t) ==
  /\ At(c, "idle") /\ t \in Commands /\ card[t] # "none"
  /\ presenting = RunOf[t]
  /\ click' = [click EXCEPT ![c] = [at |-> "state", token |-> t, err |-> NoErr]]
  /\ UNCHANGED <<stores, expired, card, runsVars, history, faults, restarts>>

\* Verify looks at the time and at the state of the nonce.
State(c) ==
  /\ At(c, "state")
  /\ LET t == click[c].token IN
       IF t \in expired \/ nonces[t] # "fresh" THEN Ends(c) ELSE Goes(c, "consume")
  /\ UNCHANGED <<stores, expired, card, runsVars, history, faults, restarts>>

\* NonceStore.Consume: the first one wins; a failed write is only remembered.
Consume(c) ==
  /\ At(c, "consume")
  /\ LET t == click[c].token IN
       \/ /\ nonces[t] # "fresh" /\ Ends(c)
          /\ UNCHANGED <<nonces, nonceFile, lastErr, accepted, spent, faults>>
       \/ /\ nonces[t] = "fresh"
          /\ nonces' = [nonces EXCEPT ![t] = "used"] /\ spent' = spent \cup {t}
          /\ \/ Write(nonceFile, nonces') /\ lastErr' = NoErr
             \/ WriteFails(nonceFile) /\ lastErr' = "error"
          /\ IF t \in Pending
               THEN Goes(c, "remove") /\ UNCHANGED accepted
               ELSE Goes(c, "deliver") /\ accepted' = [accepted EXCEPT ![t] = @ + 1]
  /\ UNCHANGED <<entries, entriesFile, expired, card, runsVars, stopped, restarts>>

\* VerifyPending deletes the entry and reads the nonce store's last error.
Remove(c) ==
  /\ At(c, "remove")
  /\ entries' = entries \ {click[c].token}
  /\ click' = [click EXCEPT ![c] = [at |-> "persist", token |-> click[c].token, err |-> lastErr]]
  /\ UNCHANGED <<nonces, nonceFile, lastErr, entriesFile, expired, card, runsVars, history, faults, restarts>>

\* Mutant of Persist: a failed write is not reported.
PersistSilently(c) ==
  /\ At(c, "persist") /\ Goes(c, "deliver")
  /\ accepted' = [accepted EXCEPT ![click[c].token] = @ + 1]
  /\ Write(entriesFile, entries) \/ WriteFails(entriesFile)
  /\ UNCHANGED <<nonces, nonceFile, lastErr, entries, expired, card, runsVars, spent, stopped, restarts>>

\* The pending file is written; the click is accepted only if both writes came off.
Persist(c) ==
  /\ At(c, "persist")
  /\ \/ /\ Write(entriesFile, entries) /\ click[c].err = NoErr
        /\ Goes(c, "deliver")
        /\ accepted' = [accepted EXCEPT ![click[c].token] = @ + 1]
     \/ /\ Write(entriesFile, entries) /\ click[c].err # NoErr /\ Ends(c) /\ UNCHANGED accepted
     \/ /\ WriteFails(entriesFile) /\ Ends(c) /\ UNCHANGED accepted
  /\ UNCHANGED <<nonces, nonceFile, lastErr, entries, expired, card, runsVars, spent, stopped, restarts>>

\* The prompt is enqueued, or /stop interrupts whatever the scope runs by now.
Deliver(c) ==
  /\ At(c, "deliver") /\ Ends(c)
  /\ LET t == click[c].token IN
       stopped' = IF t \in Commands /\ running # Nobody
                    THEN stopped \cup {<<t, running>>} ELSE stopped
  /\ UNCHANGED <<stores, expired, card, runsVars, accepted, spent, faults, restarts>>

\* The process dies and starts again: NonceStore.Load and newPendingStore read
\* the files; runs and clicks are gone, cards in the chat are not.
Restart ==
  /\ restarts < MaxRestarts /\ restarts' = restarts + 1
  /\ nonces' = nonceFile /\ lastErr' = NoErr /\ entries' = entriesFile
  /\ click' = [c \in Clicks |-> Idle]
  /\ running' = Nobody /\ presenting' = Nobody
  /\ card' = [t \in Tokens |-> IF card[t] = "sending" THEN "sent"
                               ELSE IF card[t] = "cancelling" THEN "unsure" ELSE card[t]]
  /\ UNCHANGED <<nonceFile, entriesFile, expired, over, history, faults>>
-----------------------------------------------------------------------------
Next ==
  \/ \E r \in Runs : RunStart(r)
  \/ Register \/ RunDone \/ Unregister \/ Restart
  \/ \E t \in Tokens : Expire(t) \/ Sign(t) \/ SignPending(t) \/ SendCard(t) \/ CancelPending(t) \/ Revoke(t)
  \/ \E c \in Clicks, t \in Tokens : LookPending(c, t) \/ LookActive(c, t)
  \/ \E c \in Clicks : State(c) \/ Consume(c) \/ Remove(c) \/ Persist(c) \/ Deliver(c)

Spec == Init /\ [][Next]_vars
-----------------------------------------------------------------------------
Errors == {NoErr, "error"}
NonceStates == {"fresh", "used", "revoked"}
Fates == {"none", "refused", "sending", "sent", "cancelling", "cancelled", "unsure"}
Steps == {"idle", "state", "consume", "remove", "persist", "deliver"}

\* The stores, the files, the clicks and the runs have the types the code gives
\* them; only forms are ever recorded as pending.
TypeOK ==
  /\ nonces \in [Tokens -> NonceStates] /\ nonceFile \in [Tokens -> NonceStates]
  /\ lastErr \in Errors
  /\ entries \subseteq Pending /\ entriesFile \subseteq Pending
  /\ expired \subseteq Tokens
  /\ card \in [Tokens -> Fates]
  /\ click \in [Clicks -> [at : Steps, token : Tokens \cup {Nobody}, err : Errors]]
  /\ \A c \in Clicks : click[c].at # "idle" => click[c].token \in Tokens
  /\ running \in Runs \cup {Nobody} /\ presenting \in Runs \cup {Nobody} /\ over \subseteq Runs
  /\ accepted \in [Tokens -> Nat] /\ spent \subseteq Tokens
  /\ stopped \subseteq Tokens \X Runs
  /\ faults \in Nat /\ restarts \in Nat

\* A card is accepted once: whatever clicks race, writes fail and restarts
\* intervene, VerifyPending and Verify let one click through for each token.
AtMostOnce == \A t \in Tokens : accepted[t] <= 1

\* A form that has been sent, is in time and was not submitted is still there,
\* in memory and for the next process: no write, prune or restart loses it.
UnsubmittedSurvives ==
  \A t \in Pending :
    card[t] = "sent" /\ t \notin expired /\ t \notin spent
      => t \in entries /\ t \in entriesFile

\* A form whose cancellation was recorded does not come back with a restart.
CancelledStaysOut ==
  \A t \in Pending : card[t] = "cancelled" => t \notin entries \cup entriesFile

\* Both: a form is there until it is submitted, cancelled or late, and then not again.
FormsKept == UnsubmittedSurvives /\ CancelledStaysOut

\* "The stop button still requires its run to be active": a stop that was
\* accepted for one run does not stop another.
StopHitsItsRun == \A hit \in stopped : hit[2] = RunOf[hit[1]]
=============================================================================
