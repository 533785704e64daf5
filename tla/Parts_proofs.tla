---------------------------- MODULE Parts_proofs ----------------------------
(***************************************************************************)
(* The fan-out keeps its promise for any subscribers and any events.  In   *)
(* the intake queue no collected message is ever without somebody to flush *)
(* it, and each message is in one place until it is delivered or given up, *)
(* for any scopes, any number of flushing goroutines and any size of the   *)
(* channels.  The background service stays as its last command left it:    *)
(* without being asked it only dies or is started again where it still is  *)
(* to run, and who waits for its process knows the others.  The forms of   *)
(* /config and /account leave settings that work and cards that are true,  *)
(* and preferences are what their form was filled in with.  The commands   *)
(* are judged by the access and the owner of when they arrived, whatever   *)
(* was saved meanwhile: who is in a list was let in by somebody who might, *)
(* and a named workspace leads where its alias was saved to lead.          *)
(***************************************************************************)
EXTENDS EventFanout, IntakeQueue, ServiceControl, SettingsForms, Commands, SequenceTheorems, FiniteSetTheorems, TLAPS

\* Where each subscriber stands relative to what it sent and what there is.
Cursors ==
  \A c \in Subscribers :
    /\ sub[c] \in {"none", "looking", "waiting", "leaving"} => Len(got[c]) = index[c]
    /\ sub[c] = "sending" => Len(got[c]) = index[c] - 1
    /\ sub[c] = "closed" => Len(got[c]) <= index[c]
    /\ sub[c] = "closed" /\ c \notin given => Len(got[c]) = Len(buffer) /\ done

\* Registered channels belong to subscribers in their select or leaving it.
SleepersWait == \A c \in parked : sub[c] \in {"waiting", "leaving"}

\* The pump's state tells whether the end has come and a terminal event did.
PumpState ==
  /\ done <=> pump = "over"
  /\ pump = "reading" => \A i \in 1 .. Len(buffer) : buffer[i] \notin Terminal

FanoutInv == FanoutTypeOK /\ Cursors /\ SleepersWait /\ PumpState
          /\ NobodySleepsThrough /\ GotIsPrefix /\ TerminalIsLast

\* What appending does to the buffer, as the provers need it.
LEMMA BufferGrows ==
  ASSUME FanoutTypeOK, NEW e \in Events, buffer' = Append(buffer, e)
  PROVE  /\ buffer' \in Seq(Events)
         /\ Len(buffer') = Len(buffer) + 1
         /\ buffer'[Len(buffer) + 1] = e
         /\ \A i \in 1 .. Len(buffer) : buffer'[i] = buffer[i]
  BY DEF FanoutTypeOK

\* The pump's turn.
LEMMA PumpEventStep ==
  ASSUME FanoutInv, NEW e \in Events, PumpEvent(e) PROVE FanoutInv'
  <1> USE DEF FanoutInv, PumpEvent, subFrame
  <1>1. /\ buffer' \in Seq(Events)
        /\ Len(buffer') = Len(buffer) + 1 /\ Len(buffer) \in Nat
        /\ buffer'[Len(buffer) + 1] = e
        /\ \A i \in 1 .. Len(buffer) : buffer'[i] = buffer[i]
    BY BufferGrows DEF FanoutTypeOK
  <1>2. pump = "reading" /\ done = FALSE
    BY DEF PumpState, FanoutTypeOK
  <1>3. index' \in [Subscribers -> 0 .. Len(buffer')]
    BY <1>1 DEF FanoutTypeOK
  <1>4. FanoutTypeOK'
    BY <1>1, <1>3 DEF FanoutTypeOK
  <1>5. Cursors'
    BY <1>2 DEF Cursors
  <1>6. SleepersWait' /\ NobodySleepsThrough'
    BY DEF SleepersWait, NobodySleepsThrough
  <1>7. PumpState'
    <2>1. done' <=> pump' = "over"
      BY <1>2 DEF PumpState
    <2>2. ASSUME pump' = "reading", NEW i \in 1 .. Len(buffer') PROVE buffer'[i] \notin Terminal
      BY <1>1, <1>2, <2>2 DEF PumpState
    <2>3. QED
      BY <2>1, <2>2 DEF PumpState
  <1>8. GotIsPrefix'
    BY <1>1 DEF GotIsPrefix, FanoutTypeOK
  <1>9. TerminalIsLast'
    BY <1>1, <1>2 DEF TerminalIsLast, PumpState
  <1>10. QED
    BY <1>4, <1>5, <1>6, <1>7, <1>8, <1>9

\* The steps of the pump that leave the buffer alone.
LEMMA PumpEndStep ==
  ASSUME FanoutInv, SourceCloses \/ OnDone \/ PumpCloses PROVE FanoutInv'
  <1> USE DEF FanoutInv, SourceCloses, OnDone, PumpCloses, subFrame
  <1>1. FanoutTypeOK'
    BY DEF FanoutTypeOK
  <1>2. Cursors' /\ SleepersWait' /\ NobodySleepsThrough'
    BY DEF Cursors, SleepersWait, NobodySleepsThrough, FanoutTypeOK
  <1>3. PumpState'
    BY DEF PumpState
  <1>4. GotIsPrefix' /\ TerminalIsLast'
    BY DEF GotIsPrefix, TerminalIsLast
  <1>5. QED
    BY <1>1, <1>2, <1>3, <1>4

\* The steps of a subscriber that send nothing.
LEMMA SubscriberStep ==
  ASSUME FanoutInv, NEW c \in Subscribers,
         Subscribe(c) \/ Look(c) \/ Wake(c) \/ GiveUp(c) \/ Leaves(c)
  PROVE  FanoutInv'
  <1> USE DEF FanoutInv
  <1>0. /\ buffer' = buffer /\ pump' = pump /\ done' = done /\ got' = got
        /\ Len(buffer) \in Nat
        /\ \A b \in Subscribers : index[b] \in 0 .. Len(buffer) /\ Len(got[b]) \in Nat
    BY DEF Subscribe, Look, Wake, GiveUp, Leaves, FanoutTypeOK
  <1>1. FanoutTypeOK'
    <2>1. CASE Look(c)
      <3>0. index \in [Subscribers -> 0 .. Len(buffer)]
        BY DEF FanoutTypeOK
      <3>1. index' \in [Subscribers -> 0 .. Len(buffer)]
        <4>1. CASE index[c] < Len(buffer) /\ index' = [index EXCEPT ![c] = @ + 1]
          <5>1. index[c] + 1 \in 0 .. Len(buffer)
            BY <1>0, <4>1
          <5>2. QED
            BY <3>0, <4>1, <5>1
        <4>2. CASE index' = index
          BY <3>0, <4>2
        <4>3. QED
          BY <2>1, <4>1, <4>2 DEF Look
      <3>2. QED
        BY <1>0, <2>1, <3>1 DEF Look, FanoutTypeOK
    <2>2. CASE Subscribe(c) \/ Wake(c) \/ GiveUp(c) \/ Leaves(c)
      BY <1>0, <2>2 DEF Subscribe, Wake, GiveUp, Leaves, FanoutTypeOK
    <2>3. QED
      BY <2>1, <2>2
  <1>2. Cursors'
    <2>1. CASE Subscribe(c) \/ Wake(c) \/ GiveUp(c) \/ Leaves(c)
      BY <1>0, <2>1 DEF Subscribe, Wake, GiveUp, Leaves, FanoutTypeOK, Cursors
    <2>2. CASE Look(c)
      BY <1>0, <2>2 DEF Look, FanoutTypeOK, Cursors
    <2>3. QED
      BY <2>1, <2>2
  <1>3. SleepersWait'
    BY DEF Subscribe, Look, Wake, GiveUp, Leaves, FanoutTypeOK, SleepersWait
  <1>4. NobodySleepsThrough'
    BY <1>0 DEF Subscribe, Look, Wake, GiveUp, Leaves, FanoutTypeOK, NobodySleepsThrough, SleepersWait
  <1>5. PumpState' /\ GotIsPrefix' /\ TerminalIsLast'
    BY <1>0 DEF PumpState, GotIsPrefix, TerminalIsLast
  <1>6. QED
    BY <1>1, <1>2, <1>3, <1>4, <1>5

\* The event sent is the next one of the buffer.
LEMMA SendNext ==
  ASSUME FanoutInv, NEW c \in Subscribers, HandOut(c)
  PROVE  /\ Len(got[c]) + 1 = index[c] /\ index[c] \in 1 .. Len(buffer)
         /\ buffer[index[c]] \in Events
         /\ got' = [got EXCEPT ![c] = Append(got[c], buffer[Len(got[c]) + 1])]
  <1>1. /\ buffer \in Seq(Events) /\ Len(buffer) \in Nat
        /\ index[c] \in 0 .. Len(buffer) /\ Len(got[c]) \in Nat
    BY DEF FanoutInv, FanoutTypeOK
  <1>2. Len(got[c]) = index[c] - 1
    BY DEF FanoutInv, HandOut, Cursors
  <1>3. Len(got[c]) + 1 = index[c] /\ index[c] \in 1 .. Len(buffer)
    BY <1>1, <1>2
  <1>4. buffer[index[c]] \in Events
    BY <1>1, <1>3
  <1>5. got' = [got EXCEPT ![c] = Append(got[c], buffer[Len(got[c]) + 1])]
    BY <1>3 DEF HandOut
  <1>6. QED
    BY <1>3, <1>4, <1>5

LEMMA SendStep ==
  ASSUME FanoutInv, NEW c \in Subscribers, HandOut(c) PROVE FanoutInv'
  <1> USE DEF FanoutInv
  <1> DEFINE e == buffer[index[c]]
  <1>1. /\ Len(got[c]) + 1 = index[c] /\ index[c] \in 1 .. Len(buffer)
        /\ e \in Events /\ got' = [got EXCEPT ![c] = Append(got[c], e)]
    BY SendNext
  <1>2. /\ buffer' = buffer /\ pump' = pump /\ done' = done /\ parked' = parked
        /\ index' = index /\ given' = given /\ sub' = [sub EXCEPT ![c] = "looking"]
    BY DEF HandOut
  <1> HIDE DEF e
  <1>3. /\ got[c] \in Seq(Events)
        /\ got'[c] \in Seq(Events) /\ Len(got'[c]) = Len(got[c]) + 1
        /\ got'[c][Len(got[c]) + 1] = e
        /\ \A i \in 1 .. Len(got[c]) : got'[c][i] = got[c][i]
    BY <1>1 DEF FanoutTypeOK
  <1>4. \A b \in Subscribers \ {c} : got'[b] = got[b]
    BY <1>1 DEF FanoutTypeOK
  <1>5. FanoutTypeOK'
    BY <1>1, <1>2, <1>3, <1>4 DEF FanoutTypeOK
  <1>6. Cursors'
    BY <1>1, <1>2, <1>3, <1>4 DEF Cursors, FanoutTypeOK, HandOut
  <1>7. SleepersWait' /\ NobodySleepsThrough'
    BY <1>2 DEF SleepersWait, NobodySleepsThrough, HandOut, FanoutTypeOK
  <1>8. GotIsPrefix'
    <2>1. ASSUME NEW b \in Subscribers
          PROVE  /\ Len(got'[b]) <= Len(buffer)
                 /\ \A i \in 1 .. Len(got'[b]) : got'[b][i] = buffer[i]
      <3>1. CASE b = c
        <4>1. /\ Len(got[c]) \in Nat /\ Len(got[c]) + 1 <= Len(buffer)
              /\ \A i \in 1 .. Len(got[c]) : got'[c][i] = buffer[i]
          BY <1>1, <1>3 DEF GotIsPrefix
        <4>2. got'[c][Len(got[c]) + 1] = buffer[Len(got[c]) + 1]
          BY <1>1, <1>3 DEF e
        <4>3. QED
          BY <1>3, <3>1, <4>1, <4>2, SMTT(30)
      <3>2. CASE b # c
        BY <1>4, <3>2 DEF GotIsPrefix
      <3>3. QED
        BY <3>1, <3>2
    <2>2. QED
      BY <1>2, <2>1 DEF GotIsPrefix
  <1>9. PumpState' /\ TerminalIsLast'
    BY <1>2 DEF PumpState, TerminalIsLast
  <1>10. QED
    BY <1>5, <1>6, <1>7, <1>8, <1>9

LEMMA InitFanoutInv == FanoutInit => FanoutInv
  <1> SUFFICES ASSUME FanoutInit PROVE FanoutInv
    OBVIOUS
  <1>1. Len(buffer) = 0 /\ \A c \in Subscribers : Len(got[c]) = 0
    BY DEF FanoutInit
  <1>2. FanoutTypeOK
    <2>1. 0 \in 0 .. Len(buffer)
      BY <1>1
    <2>2. <<>> \in Seq(Events)
      OBVIOUS
    <2>3. QED
      BY <2>1, <2>2 DEF FanoutInit, FanoutTypeOK
  <1>3. Cursors /\ SleepersWait /\ NobodySleepsThrough
    BY <1>1 DEF FanoutInit, Cursors, SleepersWait, NobodySleepsThrough
  <1>4. PumpState /\ GotIsPrefix /\ TerminalIsLast
    BY <1>1 DEF FanoutInit, PumpState, GotIsPrefix, TerminalIsLast
  <1>5. QED
    BY <1>2, <1>3, <1>4 DEF FanoutInv

LEMMA NextFanoutInv == FanoutInv /\ [FanoutNext]_fanoutVars => FanoutInv'
  <1> SUFFICES ASSUME FanoutInv, [FanoutNext]_fanoutVars PROVE FanoutInv'
    OBVIOUS
  <1>1. CASE UNCHANGED fanoutVars
    BY <1>1 DEF fanoutVars, FanoutInv, FanoutTypeOK, Cursors, SleepersWait, PumpState, NobodySleepsThrough,
                GotIsPrefix, TerminalIsLast
  <1>2. QED
    BY <1>1, PumpEventStep, PumpEndStep, SubscriberStep, SendStep DEF FanoutNext

\* No subscriber sleeps through an event or the end, each has a prefix of the
\* events, a terminal event is the last, and a stream that ends by itself was
\* complete: fanout.go's pump and Subscribe, for every interleaving.
THEOREM FanoutSafety ==
  FanoutSpec => [](NobodySleepsThrough /\ GotIsPrefix /\ TerminalIsLast /\ EndsComplete)
  <1>1. FanoutInv => NobodySleepsThrough /\ GotIsPrefix /\ TerminalIsLast /\ EndsComplete
    <2>1. ASSUME FanoutInv, NEW c \in Subscribers, sub[c] = "closed", c \notin given
          PROVE  done /\ got[c] = buffer
      <3>1. Len(got[c]) = Len(buffer) /\ done
        BY <2>1 DEF FanoutInv, Cursors
      <3>2. \A i \in 1 .. Len(buffer) : got[c][i] = buffer[i]
        BY <2>1, <3>1 DEF FanoutInv, GotIsPrefix
      <3>3. got[c] \in Seq(Events) /\ buffer \in Seq(Events)
        BY <2>1 DEF FanoutInv, FanoutTypeOK
      <3>4. QED
        BY <3>1, <3>2, <3>3
    <2>2. QED
      BY <2>1 DEF FanoutInv, EndsComplete
  <1>2. QED
    BY <1>1, InitFanoutInv, NextFanoutInv, PTL DEF FanoutSpec

-----------------------------------------------------------------------------
\* The four variables of the log that a subscriber's own steps move.
Over == {c \in Subscribers : sub[c] = "closed"}
HaveLeft == {c \in given : sub[c] = "closed"}

\* The steps of the pump publish, seal, or change nothing the log shows.
LEMMA PumpRefines ==
  ASSUME (\E e \in Events : PumpEvent(e)) \/ SourceCloses \/ OnDone \/ PumpCloses
  PROVE  [Promise!LogNext]_Promise!logVars
  <1> USE DEF subFrame, Promise!LogNext, Promise!logVars
  <1>1. ASSUME NEW e \in Events, PumpEvent(e) PROVE Promise!Publish(e)
    BY <1>1 DEF PumpEvent, Promise!Publish
  <1>2. SourceCloses => Promise!Seal
    BY DEF SourceCloses, Promise!Seal
  <1>3. OnDone \/ PumpCloses => UNCHANGED Promise!logVars
    BY DEF OnDone, PumpCloses
  <1>4. QED
    BY <1>1, <1>2, <1>3

\* A subscriber that closes leaves, or ends with the whole log.
LEMMA ClosingRefines ==
  ASSUME FanoutInv, NEW c \in Subscribers, sub[c] # "closed",
         sub' = [sub EXCEPT ![c] = "closed"],
         UNCHANGED <<buffer, pump, got, given>>,
         c \in given \/ (pump # "reading" /\ got[c] = buffer)
  PROVE  Promise!LogNext
  <1>1. Over' = Over \cup {c} /\ c \notin Over
    BY DEF Over, FanoutInv, FanoutTypeOK
  <1>2. CASE c \in given
    <2>1. HaveLeft' = HaveLeft \cup {c}
      BY <1>2 DEF HaveLeft, FanoutInv, FanoutTypeOK
    <2>2. Promise!Leave(c)
      BY <1>1, <2>1 DEF Promise!Leave, Over, HaveLeft
    <2>3. QED
      BY <2>2 DEF Promise!LogNext
  <1>3. CASE c \notin given
    <2>1. HaveLeft' = HaveLeft
      BY <1>3 DEF HaveLeft, FanoutInv, FanoutTypeOK
    <2>2. Promise!End(c)
      BY <1>1, <1>3, <2>1 DEF Promise!End, Over, HaveLeft
    <2>3. QED
      BY <2>2 DEF Promise!LogNext
  <1>4. QED
    BY <1>2, <1>3

\* A subscriber that does not close changes neither set.
LEMMA OpenStutters ==
  ASSUME FanoutInv, NEW c \in Subscribers, sub[c] # "closed", sub'[c] # "closed",
         \A b \in Subscribers \ {c} : sub'[b] = sub[b],
         given' \ {c} = given \ {c}, given' \in SUBSET Subscribers
  PROVE  Over' = Over /\ HaveLeft' = HaveLeft
  BY DEF Over, HaveLeft, FanoutInv, FanoutTypeOK

\* A look that finds the end of the buffer has sent all of it.
LEMMA CaughtUp ==
  ASSUME FanoutInv, NEW c \in Subscribers, sub[c] = "looking", index[c] = Len(buffer)
  PROVE  got[c] = buffer
  <1>1. Len(got[c]) = Len(buffer)
    BY DEF FanoutInv, Cursors
  <1>2. \A i \in 1 .. Len(buffer) : got[c][i] = buffer[i]
    BY <1>1 DEF FanoutInv, GotIsPrefix
  <1>3. got[c] \in Seq(Events) /\ buffer \in Seq(Events)
    BY DEF FanoutInv, FanoutTypeOK
  <1>4. QED
    BY <1>1, <1>2, <1>3

LEMMA SubscriberRefines ==
  ASSUME FanoutInv, NEW c \in Subscribers,
         Subscribe(c) \/ Look(c) \/ Wake(c) \/ GiveUp(c) \/ Leaves(c)
  PROVE  [Promise!LogNext]_Promise!logVars
  <1>1. /\ UNCHANGED <<buffer, pump, got>> /\ sub[c] # "closed"
        /\ \A b \in Subscribers \ {c} : sub'[b] = sub[b]
        /\ given' \ {c} = given \ {c} /\ given' \in SUBSET Subscribers
    BY DEF Subscribe, Look, Wake, GiveUp, Leaves, FanoutInv, FanoutTypeOK
  <1>2. CASE sub'[c] # "closed"
    <2>1. Over' = Over /\ HaveLeft' = HaveLeft
      BY <1>1, <1>2, OpenStutters
    <2>2. QED
      BY <1>1, <2>1 DEF Over, HaveLeft, Promise!logVars
  <1>3. CASE sub'[c] = "closed"
    <2>1. /\ sub' = [sub EXCEPT ![c] = "closed"] /\ given' = given
          /\ c \in given \/ (done /\ sub[c] = "looking" /\ index[c] = Len(buffer))
      BY <1>3 DEF Subscribe, Look, Wake, GiveUp, Leaves, FanoutInv, FanoutTypeOK
    <2>2. c \in given \/ (pump # "reading" /\ got[c] = buffer)
      BY <2>1, CaughtUp DEF FanoutInv, PumpState
    <2>3. QED
      BY <1>1, <2>1, <2>2, ClosingRefines
  <1>4. QED
    BY <1>2, <1>3

LEMMA SendRefines ==
  ASSUME FanoutInv, NEW c \in Subscribers, HandOut(c)
  PROVE  Promise!LogNext
  <1>1. /\ sub[c] = "sending" /\ sub' = [sub EXCEPT ![c] = "looking"]
        /\ UNCHANGED <<buffer, pump, given>>
    BY DEF HandOut
  <1>2. Over' = Over /\ HaveLeft' = HaveLeft /\ c \notin Over
    <2>1. sub'[c] # "closed" /\ \A b \in Subscribers \ {c} : sub'[b] = sub[b]
      BY <1>1 DEF FanoutInv, FanoutTypeOK
    <2>2. given' \in SUBSET Subscribers
      BY <1>1 DEF FanoutInv, FanoutTypeOK
    <2>3. QED
      BY <1>1, <2>1, <2>2, OpenStutters DEF Over
  <1>3. Len(got[c]) \in Nat /\ Len(buffer) \in Nat /\ Len(got[c]) < Len(buffer)
    <2>1. Len(got[c]) \in Nat /\ Len(buffer) \in Nat
      BY DEF FanoutInv, FanoutTypeOK
    <2>2. QED
      BY <2>1, SendNext
  <1>4. got' = [got EXCEPT ![c] = Append(@, buffer[Len(@) + 1])]
    BY SendNext
  <1>5. Promise!Show(c)
    BY <1>1, <1>2, <1>3, <1>4 DEF Promise!Show, Over, HaveLeft
  <1>6. QED
    BY <1>5 DEF Promise!LogNext

\* The fan-out implements the log it promises: Subscribe of any number of
\* subscribers, at any time, is a view of one growing log.
THEOREM FanoutImplementsLog == FanoutSpec => PromisedLog
  <1>1. FanoutInit => Promise!LogInit
    BY DEF FanoutInit, Promise!LogInit
  <1>2. FanoutInv /\ [FanoutNext]_fanoutVars => [Promise!LogNext]_Promise!logVars
    <2> SUFFICES ASSUME FanoutInv, [FanoutNext]_fanoutVars PROVE [Promise!LogNext]_Promise!logVars
      OBVIOUS
    <2>1. CASE UNCHANGED fanoutVars
      BY <2>1 DEF fanoutVars, Promise!logVars
    <2>2. CASE FanoutNext
      BY <2>2, PumpRefines, SubscriberRefines, SendRefines DEF FanoutNext
    <2>3. QED
      BY <2>1, <2>2
  <1>3. QED
    BY <1>1, <1>2, InitFanoutInv, NextFanoutInv, PTL DEF FanoutSpec, PromisedLog, Promise!LogSpec
-----------------------------------------------------------------------------
\* The functions and sets the argument looks into.
Shape ==
  /\ pushed \in Nat /\ pending \in [Scopes -> Seq(Nat)]
  /\ worker \in [Scopes -> {"none", "ready", "called", "running", "leaving", "over"}]
  /\ flush = [f \in Flushers |-> flush[f]]
  /\ armed \subseteq Scopes /\ blocked \subseteq Scopes

\* Close empties the queue for good.
ClosedIsEmpty == closed => blocked = {} /\ \A s \in Scopes : pending[s] = <<>>

QueueInv == Shape /\ ClosedIsEmpty /\ BlockHasOwner /\ QuietWhileBlocked /\ SomebodyFlushes

\* Appending leaves no empty entry.
LEMMA PushedEntry ==
  ASSUME Shape, NEW s \in Scopes
  PROVE  Append(pending[s], pushed + 1) \in Seq(Nat) /\ Append(pending[s], pushed + 1) # <<>>
  <1>1. pending[s] \in Seq(Nat) /\ pushed + 1 \in Nat
    BY DEF Shape
  <1>2. Append(pending[s], pushed + 1) \in Seq(Nat)
    BY <1>1
  <1>3. Len(Append(pending[s], pushed + 1)) = Len(pending[s]) + 1 /\ Len(pending[s]) \in Nat
    BY <1>1
  <1>4. QED
    BY <1>2, <1>3

LEMMA PushStep ==
  ASSUME QueueInv, NEW s \in Scopes, Push(s) PROVE QueueInv'
  <1> USE DEF QueueInv, Push
  <1>1. /\ pending' = [pending EXCEPT ![s] = Append(pending[s], pushed + 1)]
        /\ Append(pending[s], pushed + 1) \in Seq(Nat)
        /\ Append(pending[s], pushed + 1) # <<>>
    BY PushedEntry
  <1>2. Shape' /\ ClosedIsEmpty' /\ BlockHasOwner'
    BY <1>1 DEF Shape, ClosedIsEmpty, BlockHasOwner
  <1>3. QuietWhileBlocked'
    BY <1>1 DEF QuietWhileBlocked, Shape
  <1>4. SomebodyFlushes'
    BY <1>1 DEF SomebodyFlushes, BlockHasOwner, Flushing, Shape
  <1>5. QED
    BY <1>2, <1>3, <1>4

\* Cancel, CancelAll and Close delete whole entries.
LEMMA DiscardStep ==
  ASSUME QueueInv, (\E s \in Scopes : Cancel(s)) \/ CancelAll \/ Close PROVE QueueInv'
  <1> USE DEF QueueInv, Cancel, CancelAll, Close, Discard
  <1>1. PICK gone \in SUBSET Scopes :
          /\ pending' = [s \in Scopes |-> IF s \in gone THEN <<>> ELSE pending[s]]
          /\ armed' = armed \ gone
          /\ (closed' = closed /\ blocked' = blocked) \/ (gone = Scopes /\ blocked' = {})
    OBVIOUS
  <1>2. flush' = flush /\ worker' = worker /\ pushed' = pushed /\ blocked' \subseteq blocked
        /\ (blocked' = blocked \/ gone = Scopes)
    BY <1>1
  <1>3. Shape'
    <2>1. <<>> \in Seq(Nat)
      OBVIOUS
    <2>2. QED
      BY <1>1, <1>2, <2>1 DEF Shape
  <1>4. ClosedIsEmpty' /\ BlockHasOwner' /\ QuietWhileBlocked'
    BY <1>1, <1>2 DEF ClosedIsEmpty, BlockHasOwner, QuietWhileBlocked, Shape
  <1>5. SomebodyFlushes'
    BY <1>1, <1>2 DEF SomebodyFlushes, Flushing, Shape
  <1>6. QED
    BY <1>3, <1>4, <1>5

\* A flush begins: the timer that fired is replaced by the goroutine it started.
LEMMA BeginFlushStep ==
  ASSUME QueueInv, NEW f \in Flushers, \E s \in Scopes : Fire(f, s) \/ FlushCall(f, s) PROVE QueueInv'
  <1> USE DEF QueueInv
  <1>1. PICK s \in Scopes, ctx \in {"background", "caller"} :
          /\ flush[f] = Idle /\ Started(f, s, ctx)
          /\ armed' = armed \/ armed' = armed \ {s}
    <2>1. CASE \E s \in Scopes : Fire(f, s)
      <3>1. PICK s \in Scopes : flush[f] = Idle /\ Started(f, s, "background") /\ armed' = armed \ {s}
        BY <2>1 DEF Fire
      <3>2. QED
        BY <3>1
    <2>2. CASE \E s \in Scopes : FlushCall(f, s)
      <3>1. PICK s \in Scopes : flush[f] = Idle /\ Started(f, s, "caller") /\ armed' = armed
        BY <2>2 DEF FlushCall, entries
      <3>2. QED
        BY <3>1
    <2>3. QED
      BY <2>1, <2>2
  <1>2. UNCHANGED <<pending, blocked, closed, worker, pushed>>
    BY DEF Fire, FlushCall, ghosts, entries
  <1>3. Shape' /\ ClosedIsEmpty' /\ BlockHasOwner' /\ QuietWhileBlocked'
    BY <1>1, <1>2 DEF Shape, ClosedIsEmpty, BlockHasOwner, QuietWhileBlocked, Started
  <1>4. Flushing(f, "draining", s)'
    BY <1>1 DEF Flushing, Started, Shape
  <1>5. ASSUME NEW g \in Flushers, NEW r \in Scopes, Flushing(g, "draining", r)
        PROVE  Flushing(g, "draining", r)'
    <2>1. g # f
      BY <1>1, <1>5 DEF Flushing, Idle
    <2>2. QED
      BY <1>1, <1>5, <2>1 DEF Flushing, Started, Shape
  <1>6. SomebodyFlushes'
    BY <1>1, <1>2, <1>4, <1>5 DEF SomebodyFlushes
  <1>7. QED
    BY <1>3, <1>6

\* A drained entry is gone, so nobody has to flush it any more.
LEMMA DrainStep ==
  ASSUME QueueInv, NEW f \in Flushers, Drain(f) PROVE QueueInv'
  <1> DEFINE s == flush[f].scope
  <1> USE DEF QueueInv
  <1>1. /\ UNCHANGED <<blocked, closed, worker, pushed>> /\ flush[f].at = "draining"
        /\ \A g \in Flushers \ {f} : flush'[g] = flush[g]
        /\ flush' = [g \in Flushers |-> flush'[g]]
    BY DEF Drain, Shape, ghosts
  <1>2. /\ (closed \/ pending[s] = <<>>) => pending' = pending /\ armed' = armed
        /\ ~(closed \/ pending[s] = <<>>) =>
             pending' = [pending EXCEPT ![s] = <<>>] /\ armed' = armed \ {s}
    BY DEF Drain
  <1>3. ~(closed \/ pending[s] = <<>>) \/ pending[s] = <<>> \/ closed
    OBVIOUS
  <1>4. Shape'
    <2>1. <<>> \in Seq(Nat)
      OBVIOUS
    <2>2. QED
      BY <1>1, <1>2, <2>1 DEF Shape
  <1>5. \A r \in Scopes : pending'[r] # <<>> => pending'[r] = pending[r] /\ r # s /\ (r \in armed => r \in armed')
    BY <1>1, <1>2 DEF Shape, ClosedIsEmpty
  <1>6. ClosedIsEmpty' /\ BlockHasOwner'
    BY <1>1, <1>2 DEF ClosedIsEmpty, BlockHasOwner, Shape
  <1>7. QuietWhileBlocked'
    BY <1>1, <1>2 DEF QuietWhileBlocked, Shape
  <1>8. SomebodyFlushes'
    <2>1. ASSUME NEW g \in Flushers, NEW r \in Scopes, r # s, Flushing(g, "draining", r)
          PROVE  Flushing(g, "draining", r)'
      BY <1>1, <2>1 DEF Flushing
    <2>2. QED
      BY <1>1, <1>5, <2>1 DEF SomebodyFlushes
  <1>9. QED
    BY <1>4, <1>6, <1>7, <1>8

\* The rest of a flush, and the steps of a worker that call no Block or Unblock,
\* touch neither the entries nor a goroutine about to drain.
LEMMA QuietStep ==
  ASSUME QueueInv,
         UNCHANGED <<pending, armed, blocked, closed, pushed>>,
         flush' = [f \in Flushers |-> flush'[f]],
         \A f \in Flushers : flush[f].at = "draining" => flush'[f] = flush[f],
         worker' \in [Scopes -> {"none", "ready", "called", "running", "leaving", "over"}],
         \A s \in Scopes : worker[s] = "running" => worker'[s] = "running"
  PROVE  QueueInv'
  <1> USE DEF QueueInv
  <1>1. Shape' /\ ClosedIsEmpty' /\ BlockHasOwner' /\ QuietWhileBlocked'
    BY DEF Shape, ClosedIsEmpty, BlockHasOwner, QuietWhileBlocked
  <1>2. SomebodyFlushes'
    BY DEF SomebodyFlushes, Flushing
  <1>3. QED
    BY <1>1, <1>2

LEMMA FlusherStep ==
  ASSUME QueueInv, NEW f \in Flushers, Ask(f) \/ Send(f) \/ Return(f) \/ SendGivesUp(f) PROVE QueueInv'
  <1> USE DEF Ask, Send, Return, SendGivesUp, GivenUp, entries, ghosts
  <1>1. UNCHANGED <<pending, armed, blocked, closed, pushed>>
    OBVIOUS
  <1>2. /\ flush' = [g \in Flushers |-> flush'[g]] /\ flush[f].at # "draining"
        /\ \A g \in Flushers \ {f} : flush'[g] = flush[g]
    BY DEF QueueInv, Shape
  <1>3. /\ worker' \in [Scopes -> {"none", "ready", "called", "running", "leaving", "over"}]
        /\ \A s \in Scopes : worker[s] = "running" => worker'[s] = "running"
    BY DEF QueueInv, Shape
  <1>4. QED
    BY <1>1, <1>2, <1>3, QuietStep

LEMMA WorkerStep ==
  ASSUME QueueInv, NEW s \in Scopes, WorkerTakes(s) \/ WorkerQuits(s) \/ HandlerReturns(s) PROVE QueueInv'
  <1> USE DEF WorkerTakes, WorkerQuits, HandlerReturns, entries, ghosts
  <1>1. UNCHANGED <<pending, armed, blocked, closed, pushed>>
    OBVIOUS
  <1>2. /\ flush' = [g \in Flushers |-> flush'[g]]
        /\ \A g \in Flushers : flush[g].at = "draining" => flush'[g] = flush[g]
    BY DEF QueueInv, Shape, Flushing
  <1>3. /\ worker' \in [Scopes -> {"none", "ready", "called", "running", "leaving", "over"}]
        /\ \A r \in Scopes : worker[r] = "running" => worker'[r] = "running"
    BY DEF QueueInv, Shape
  <1>4. QED
    BY <1>1, <1>2, <1>3, QuietStep

\* Block takes the timer and promises Unblock, which starts it again.
LEMMA BlockStep ==
  ASSUME QueueInv, NEW s \in Scopes, HandlerBlocks(s) \/ HandlerUnblocks(s) PROVE QueueInv'
  <1> USE DEF QueueInv
  <1>1. UNCHANGED <<pending, closed, flush, pushed>>
    BY DEF HandlerBlocks, HandlerUnblocks, ghosts
  <1>2. Shape'
    BY <1>1 DEF Shape, HandlerBlocks, HandlerUnblocks
  <1>3. ClosedIsEmpty' /\ BlockHasOwner'
    BY <1>1 DEF ClosedIsEmpty, BlockHasOwner, HandlerBlocks, HandlerUnblocks, Shape
  <1>4. QuietWhileBlocked'
    BY <1>1 DEF QuietWhileBlocked, HandlerBlocks, HandlerUnblocks, Shape
  <1>5. SomebodyFlushes'
    BY <1>1 DEF SomebodyFlushes, Flushing, ClosedIsEmpty, HandlerBlocks, HandlerUnblocks, Shape
  <1>6. QED
    BY <1>2, <1>3, <1>4, <1>5

LEMMA InitQueueInv == QueueInit => QueueInv
  <1>1. <<>> \in Seq(Nat)
    OBVIOUS
  <1>2. QED
    BY <1>1 DEF QueueInit, QueueInv, Shape, ClosedIsEmpty, BlockHasOwner, QuietWhileBlocked, SomebodyFlushes

LEMMA NextQueueInv == QueueInv /\ [QueueNext]_queueVars => QueueInv'
  <1> SUFFICES ASSUME QueueInv, [QueueNext]_queueVars PROVE QueueInv'
    OBVIOUS
  <1>1. CASE UNCHANGED queueVars
    BY <1>1 DEF queueVars, entries, ghosts, QueueInv, Shape, ClosedIsEmpty, BlockHasOwner,
                QuietWhileBlocked, SomebodyFlushes, Flushing
  <1>2. CASE QueueNext
    BY <1>2, PushStep, DiscardStep, BeginFlushStep, DrainStep, FlusherStep, WorkerStep, BlockStep
       DEF QueueNext, FlushStep
  <1>3. QED
    BY <1>1, <1>2

\* A collected message always has a timer, a draining goroutine or the handler
\* that will unblock its scope; Push, Block, Unblock, Cancel and Close of queue.go
\* keep it so in every order.
THEOREM QueueNeverForgets == QueueSpec => [](SomebodyFlushes /\ QuietWhileBlocked /\ BlockHasOwner)
  <1>1. QueueInv => SomebodyFlushes /\ QuietWhileBlocked /\ BlockHasOwner
    BY DEF QueueInv
  <1>2. QED
    BY <1>1, InitQueueInv, NextQueueInv, PTL DEF QueueSpec
-----------------------------------------------------------------------------
\* Types.  A flusher at work is one of these.
Underway(n) ==
  [at : {"draining", "asking", "sending", "waiting", "answered"},
   scope : Scopes, ctx : {"background", "caller"}, batch : Seq(1 .. n)]

LEMMA FlushIs ==
  ASSUME QueueTypeOK, NEW f \in Flushers
  PROVE  flush[f] = Idle \/ flush[f] \in Underway(pushed)
  <1>1. flush[f] \in FlushState
    BY DEF QueueTypeOK
  <1>2. QED
    BY <1>1 DEF FlushState, Underway, Idle

LEMMA FlushBecomes ==
  ASSUME QueueTypeOK, NEW f \in Flushers, NEW r, r = Idle \/ r \in Underway(pushed)
  PROVE  [flush EXCEPT ![f] = r] \in [Flushers -> FlushState]
  <1>1. r \in FlushState
    BY DEF FlushState, Underway, Idle
  <1>2. QED
    BY <1>1 DEF QueueTypeOK

\* A flusher at work only moves on.
LEMMA FlushMoves ==
  ASSUME QueueTypeOK, NEW f \in Flushers, flush[f].at \in {"draining", "asking", "sending", "waiting", "answered"},
         NEW where \in {"asking", "sending", "waiting", "answered"}
  PROVE  /\ flush[f] \in Underway(pushed)
         /\ [flush[f] EXCEPT !.at = where] \in Underway(pushed)
  <1>1. flush[f] \in Underway(pushed)
    BY FlushIs DEF Idle
  <1>2. QED
    BY <1>1 DEF Underway

LEMMA Grows ==
  ASSUME NEW n \in Nat
  PROVE  /\ \A q \in Seq(1 .. n) : q \in Seq(1 .. n + 1)
         /\ \A q \in Seq(Seq(1 .. n)) : q \in Seq(Seq(1 .. n + 1))
  <1>1. 1 .. n \subseteq 1 .. n + 1
    OBVIOUS
  <1>2. \A q \in Seq(1 .. n) : q \in Seq(1 .. n + 1)
    BY <1>1, SeqMonotonic
  <1>3. Seq(1 .. n) \subseteq Seq(1 .. n + 1)
    BY <1>2
  <1>4. QED
    BY <1>2, <1>3, SeqMonotonic

LEMMA ElementsIn == ASSUME NEW S, NEW q \in Seq(S) PROVE ElementsOf(q) \subseteq S
  BY DEF ElementsOf

LEMMA ElementsOfAppend ==
  ASSUME NEW q \in Seq(Nat), NEW e \in Nat
  PROVE  ElementsOf(Append(q, e)) = ElementsOf(q) \cup {e}
  <1>1. PICK t : t = Append(q, e)
    OBVIOUS
  <1>2. Len(q) \in Nat
    BY LenProperties
  <1>3. /\ t \in Seq(Nat) /\ Len(t) = Len(q) + 1 /\ t[Len(q) + 1] = e
        /\ \A i \in 1 .. Len(q) : t[i] = q[i]
    BY <1>1, AppendProperties
  <1>4. ASSUME NEW i \in 1 .. Len(t) PROVE t[i] \in ElementsOf(q) \cup {e}
    <2>1. CASE i = Len(q) + 1
      BY <1>3, <2>1
    <2>2. CASE i \in 1 .. Len(q)
      BY <1>3, <2>2 DEF ElementsOf
    <2>3. QED
      BY <1>2, <1>3, <2>1, <2>2
  <1>5. ASSUME NEW i \in 1 .. Len(q) PROVE q[i] \in ElementsOf(t)
    <2>1. i \in 1 .. Len(t) /\ q[i] = t[i]
      BY <1>2, <1>3
    <2>2. QED
      BY <2>1 DEF ElementsOf
  <1>6. e \in ElementsOf(t)
    <2>1. Len(t) \in 1 .. Len(t)
      BY <1>2, <1>3
    <2>2. QED
      BY <1>3, <2>1 DEF ElementsOf
  <1>7. ElementsOf(t) \subseteq ElementsOf(q) \cup {e}
    BY <1>4 DEF ElementsOf
  <1>8. ElementsOf(q) \subseteq ElementsOf(t)
    BY <1>5 DEF ElementsOf
  <1>9. QED
    BY <1>1, <1>6, <1>7, <1>8

LEMMA ElementsOfConcat ==
  ASSUME NEW S, NEW q \in Seq(S), NEW t \in Seq(S)
  PROVE  ElementsOf(q \o t) = ElementsOf(q) \cup ElementsOf(t)
  <1>1. ElementsOf(q \o t) \subseteq ElementsOf(q) \cup ElementsOf(t)
    BY ConcatProperties, LenProperties DEF ElementsOf
  <1>2. \A i \in 1 .. Len(q) : i \in 1 .. Len(q \o t) /\ (q \o t)[i] = q[i]
    OBVIOUS
  <1>3. \A i \in 1 .. Len(t) : Len(q) + i \in 1 .. Len(q \o t) /\ (q \o t)[Len(q) + i] = t[i]
    OBVIOUS
  <1>4. QED
    BY <1>1, <1>2, <1>3 DEF ElementsOf

LEMMA TypePush == ASSUME QueueTypeOK, NEW s \in Scopes, Push(s) PROVE QueueTypeOK'
  <1> USE DEF QueueTypeOK, Push
  <1>1. pushed \in Nat /\ pushed' = pushed + 1 /\ pushed' \in 0 .. MaxPush /\ pushed' \in 1 .. pushed'
    BY QueueAssumption
  <1>2. accepted' \in Seq(Scopes) /\ Len(accepted') = pushed'
    BY <1>1, AppendProperties
  <1>3. \A q \in Seq(1 .. pushed) : q \in Seq(1 .. pushed')
    BY <1>1, Grows
  <1>4. Append(pending[s], pushed') \in Seq(1 .. pushed')
    BY <1>1, <1>3, AppendProperties
  <1>5. pending' \in [Scopes -> Seq(1 .. pushed')]
    BY <1>3, <1>4
  <1>6. flush' \in [Flushers -> FlushState']
    <2>1. \A f \in Flushers : flush[f] \in FlushState'
      <3> SUFFICES ASSUME NEW f \in Flushers PROVE flush[f] \in FlushState'
        OBVIOUS
      <3>1. flush[f] = Idle \/ flush[f] \in Underway(pushed)
        BY FlushIs
      <3>2. QED
        BY <3>1, <1>3 DEF FlushState, Underway, Idle
    <2>2. QED
      BY <2>1
  <1>7. chan' \in [Scopes -> Seq(Seq(1 .. pushed'))] /\ \A r \in Scopes : Len(chan'[r]) <= WorkerCap
    BY <1>1, Grows
  <1>8. item' \in [Scopes -> Seq(1 .. pushed')] /\ delivered' \in [Scopes -> Seq(1 .. pushed')]
    BY <1>3
  <1>9. armed' \subseteq Scopes /\ blocked' \subseteq Scopes /\ closed' \in BOOLEAN /\ dropped' \subseteq 1 .. pushed'
        /\ worker' \in [Scopes -> {"none", "ready", "called", "running", "leaving", "over"}]
    BY <1>1
  <1>10. QED
    BY <1>1, <1>2, <1>5, <1>6, <1>7, <1>8, <1>9

LEMMA TypeDiscard ==
  ASSUME QueueTypeOK, (\E s \in Scopes : Cancel(s)) \/ CancelAll \/ Close PROVE QueueTypeOK'
  <1> USE DEF Cancel, CancelAll, Close, Discard
  <1>1. PICK gone \in SUBSET Scopes :
          /\ dropped' = dropped \cup UNION {ElementsOf(pending[s]) : s \in gone}
          /\ pending' = [s \in Scopes |-> IF s \in gone THEN <<>> ELSE pending[s]]
          /\ armed' = armed \ gone
    OBVIOUS
  <1>2. /\ UNCHANGED <<flush, chan, worker, item, pushed, accepted, delivered>>
        /\ blocked' \subseteq blocked /\ closed' \in BOOLEAN
    BY DEF QueueTypeOK
  <1>3. \A s \in gone : ElementsOf(pending[s]) \subseteq 1 .. pushed
    BY ElementsIn DEF QueueTypeOK
  <1>4. dropped' \subseteq 1 .. pushed
    <2>1. dropped \subseteq 1 .. pushed
      BY DEF QueueTypeOK
    <2> HIDE DEF Cancel, CancelAll, Close, Discard
    <2>2. QED
      BY <1>1, <1>3, <2>1
  <1>5. pending' \in [Scopes -> Seq(1 .. pushed)]
    <2>1. <<>> \in Seq(1 .. pushed)
      OBVIOUS
    <2>2. QED
      BY <1>1, <2>1 DEF QueueTypeOK
  <1>6. QED
    BY <1>1, <1>2, <1>4, <1>5 DEF QueueTypeOK, FlushState

LEMMA TypeFlush ==
  ASSUME QueueTypeOK, NEW f \in Flushers,
         FlushStep(f) \/ SendGivesUp(f) \/ \E s \in Scopes : Fire(f, s) \/ FlushCall(f, s)
  PROVE  QueueTypeOK'
  <1> USE DEF entries, ghosts
  <1>1. <<>> \in Seq(1 .. pushed)
    OBVIOUS
  <1>2. ASSUME NEW s \in Scopes, Fire(f, s) \/ FlushCall(f, s) PROVE QueueTypeOK'
    <2>1. PICK ctx \in {"background", "caller"} : Started(f, s, ctx)
      BY <1>2 DEF Fire, FlushCall
    <2>2. flush' \in [Flushers -> FlushState]
      BY <2>1, <1>1, FlushBecomes DEF Started, Underway
    <2>3. QED
      BY <1>2, <2>2 DEF Fire, FlushCall, QueueTypeOK, FlushState
  <1>3. ASSUME flush' = [flush EXCEPT ![f] = Idle] PROVE flush' \in [Flushers -> FlushState]
    BY <1>3, FlushBecomes
  <1>4. CASE Drain(f)
    <2> DEFINE s == flush[f].scope
    <2>1. CASE closed \/ pending[s] = <<>>
      BY <1>3, <1>4, <2>1 DEF Drain, QueueTypeOK, FlushState
    <2>2. CASE ~(closed \/ pending[s] = <<>>)
      <3>1. flush[f] \in Underway(pushed) /\ s \in Scopes
        BY <1>4, FlushIs DEF Drain, Idle, Underway
      <3>2. [flush[f] EXCEPT !.at = "asking", !.batch = pending[s]] \in Underway(pushed)
        BY <3>1 DEF Underway, QueueTypeOK
      <3>3. flush' = [flush EXCEPT ![f] = [flush[f] EXCEPT !.at = "asking", !.batch = pending[s]]]
        BY <1>4, <2>2 DEF Drain, QueueTypeOK
      <3>4. flush' \in [Flushers -> FlushState]
        BY <3>2, <3>3, FlushBecomes
      <3>5. pending' \in [Scopes -> Seq(1 .. pushed)] /\ armed' \subseteq Scopes
        BY <1>1, <1>4, <2>2 DEF Drain, QueueTypeOK
      <3>6. QED
        BY <1>4, <3>4, <3>5 DEF Drain, QueueTypeOK, FlushState
    <2>3. QED
      BY <2>1, <2>2
  <1>5. ASSUME GivenUp(f), flush[f].at \in {"asking", "sending"}
        PROVE  flush' \in [Flushers -> FlushState] /\ dropped' \subseteq 1 .. pushed
    <2>1. flush[f].batch \in Seq(1 .. pushed)
      BY <1>5, FlushIs DEF Idle, Underway
    <2>2. QED
      BY <1>3, <1>5, <2>1, ElementsIn DEF GivenUp, QueueTypeOK
  <1>6. CASE Ask(f)
    <2>1. CASE GivenUp(f) /\ UNCHANGED worker
      BY <1>5, <1>6, <2>1 DEF Ask, GivenUp, QueueTypeOK, FlushState
    <2>2. CASE ~ (GivenUp(f) /\ UNCHANGED worker)
      <3>1. flush' = [flush EXCEPT ![f] = [flush[f] EXCEPT !.at = "sending"]]
        BY <1>6, <2>2 DEF Ask, QueueTypeOK
      <3>2. flush' \in [Flushers -> FlushState]
        BY <1>6, <3>1, FlushMoves, FlushBecomes DEF Ask
      <3>3. worker' \in [Scopes -> {"none", "ready", "called", "running", "leaving", "over"}]
        BY <1>6, <2>2 DEF Ask, QueueTypeOK
      <3>4. QED
        BY <1>6, <2>2, <3>2, <3>3 DEF Ask, QueueTypeOK, FlushState
    <2>3. QED
      BY <2>1, <2>2
  <1>7. CASE Send(f)
    <2> DEFINE s == flush[f].scope
    <2>1. flush[f] \in Underway(pushed) /\ s \in Scopes /\ flush[f].batch \in Seq(1 .. pushed)
      BY <1>7, FlushIs DEF Send, Idle, Underway
    <2>2. flush' = [flush EXCEPT ![f] = [flush[f] EXCEPT !.at = "waiting"]]
      BY <1>7 DEF Send, QueueTypeOK
    <2>3. flush' \in [Flushers -> FlushState]
      <3>1. [flush[f] EXCEPT !.at = "waiting"] \in Underway(pushed)
        BY <1>7, FlushMoves DEF Send
      <3>2. QED
        BY <2>2, <3>1, FlushBecomes
    <2>4. /\ Append(chan[s], flush[f].batch) \in Seq(Seq(1 .. pushed))
          /\ Len(Append(chan[s], flush[f].batch)) = Len(chan[s]) + 1 /\ Len(chan[s]) \in Nat
      BY <2>1, AppendProperties, LenProperties DEF QueueTypeOK
    <2>5. chan' \in [Scopes -> Seq(Seq(1 .. pushed))] /\ \A r \in Scopes : Len(chan'[r]) <= WorkerCap
      BY <1>7, <2>1, <2>4, QueueAssumption, SMTT(30) DEF Send, QueueTypeOK
    <2>6. QED
      BY <1>7, <2>3, <2>5 DEF Send, QueueTypeOK, FlushState
  <1>8. CASE SendGivesUp(f)
    BY <1>5, <1>8 DEF SendGivesUp, GivenUp, QueueTypeOK, FlushState
  <1>9. CASE Return(f)
    BY <1>3, <1>9 DEF Return, QueueTypeOK, FlushState
  <1>10. QED
    BY <1>2, <1>4, <1>6, <1>7, <1>8, <1>9 DEF FlushStep

LEMMA TypeWorker ==
  ASSUME QueueTypeOK, NEW s \in Scopes,
         WorkerTakes(s) \/ WorkerQuits(s) \/ HandlerBlocks(s) \/ HandlerUnblocks(s) \/ HandlerReturns(s)
  PROVE  QueueTypeOK'
  <1> USE DEF entries, ghosts
  <1>1. CASE WorkerTakes(s)
    <2>1. /\ Head(chan[s]) \in Seq(1 .. pushed) /\ Tail(chan[s]) \in Seq(Seq(1 .. pushed))
          /\ Len(Tail(chan[s])) = Len(chan[s]) - 1 /\ Len(chan[s]) \in Nat
      BY <1>1, HeadTailProperties, LenProperties DEF WorkerTakes, QueueTypeOK
    <2>2. item' \in [Scopes -> Seq(1 .. pushed)] /\ item'[s] = Head(chan[s])
      BY <1>1, <2>1 DEF WorkerTakes, QueueTypeOK
    <2>3. chan' \in [Scopes -> Seq(Seq(1 .. pushed))] /\ \A r \in Scopes : Len(chan'[r]) <= WorkerCap
      BY <1>1, <2>1, QueueAssumption DEF WorkerTakes, QueueTypeOK
    <2>4. delivered[s] \o item'[s] \in Seq(1 .. pushed)
      BY <2>1, <2>2, ConcatProperties DEF QueueTypeOK
    <2>5. delivered' \in [Scopes -> Seq(1 .. pushed)]
      BY <1>1, <2>4 DEF WorkerTakes, QueueTypeOK
    <2>6. QED
      BY <1>1, <2>2, <2>3, <2>5 DEF WorkerTakes, QueueTypeOK, FlushState
  <1>2. CASE WorkerQuits(s) \/ HandlerBlocks(s) \/ HandlerUnblocks(s)
    BY <1>2 DEF WorkerQuits, HandlerBlocks, HandlerUnblocks, QueueTypeOK, FlushState
  <1>3. CASE HandlerReturns(s)
    <2>1. \A f \in Flushers : flush'[f] \in FlushState
      <3> SUFFICES ASSUME NEW f \in Flushers PROVE flush'[f] \in FlushState
        OBVIOUS
      <3>1. CASE Flushing(f, "waiting", s) /\ flush[f].batch = item[s]
        <4>1. [flush[f] EXCEPT !.at = "answered"] \in Underway(pushed)
          BY <3>1, FlushMoves DEF Flushing
        <4>2. QED
          BY <1>3, <3>1, <4>1 DEF HandlerReturns, FlushState, Underway
      <3>2. CASE ~ (Flushing(f, "waiting", s) /\ flush[f].batch = item[s])
        BY <1>3, <3>2 DEF HandlerReturns, QueueTypeOK
      <3>3. QED
        BY <3>1, <3>2
    <2>2. flush' \in [Flushers -> FlushState]
      BY <1>3, <2>1 DEF HandlerReturns
    <2>3. item' \in [Scopes -> Seq(1 .. pushed)]
      <3>1. <<>> \in Seq(1 .. pushed)
        OBVIOUS
      <3>2. QED
        BY <1>3, <3>1 DEF HandlerReturns, QueueTypeOK
    <2>4. QED
      BY <1>3, <2>2, <2>3 DEF HandlerReturns, QueueTypeOK, FlushState
  <1>4. QED
    BY <1>1, <1>2, <1>3

LEMMA TypeInit == QueueInit => QueueTypeOK
  <1>1. <<>> \in Seq(1 .. 0) /\ <<>> \in Seq(Seq(1 .. 0)) /\ <<>> \in Seq(Scopes) /\ Len(<<>>) = 0
    OBVIOUS
  <1> SUFFICES ASSUME QueueInit PROVE QueueTypeOK
    OBVIOUS
  <1>2. pushed \in 0 .. MaxPush /\ accepted \in Seq(Scopes) /\ Len(accepted) = pushed
    BY <1>1, QueueAssumption DEF QueueInit
  <1>3. flush \in [Flushers -> FlushState]
    BY DEF QueueInit, FlushState, Idle
  <1>4. /\ chan \in [Scopes -> Seq(Seq(1 .. pushed))]
        /\ \A s \in Scopes : Len(chan[s]) <= WorkerCap
    BY <1>1, QueueAssumption DEF QueueInit
  <1>5. /\ pending \in [Scopes -> Seq(1 .. pushed)] /\ item \in [Scopes -> Seq(1 .. pushed)]
        /\ delivered \in [Scopes -> Seq(1 .. pushed)]
        /\ worker \in [Scopes -> {"none", "ready", "called", "running", "leaving", "over"}]
        /\ armed \subseteq Scopes /\ blocked \subseteq Scopes /\ closed \in BOOLEAN
        /\ dropped \subseteq 1 .. pushed
    BY <1>1 DEF QueueInit
  <1>6. QED
    BY <1>2, <1>3, <1>4, <1>5 DEF QueueTypeOK

LEMMA TypeNext == QueueTypeOK /\ [QueueNext]_queueVars => QueueTypeOK'
  <1> SUFFICES ASSUME QueueTypeOK, [QueueNext]_queueVars PROVE QueueTypeOK'
    OBVIOUS
  <1>1. CASE UNCHANGED queueVars
    BY <1>1 DEF queueVars, entries, ghosts, QueueTypeOK, FlushState
  <1>2. CASE QueueNext
    BY <1>2, TypePush, TypeDiscard, TypeFlush, TypeWorker DEF QueueNext
  <1>3. QED
    BY <1>1, <1>2

\* The fields of queue.go keep their types, the channels their capacity.
THEOREM QueueTypes == QueueSpec => []QueueTypeOK
  BY TypeInit, TypeNext, PTL DEF QueueSpec

-----------------------------------------------------------------------------
\* The places of a message, kind by kind, without their numbering in Places.
Collected(m, s) == m \in ElementsOf(pending[s])
Handled(m, s) == m \in ElementsOf(delivered[s])
Queued(m, s, i) == i \in 1 .. Len(chan[s]) /\ m \in ElementsOf(chan[s][i])
Carried(m, s, f) == InHand(f, s) /\ m \in ElementsOf(flush[f].batch)

Found(m, s) ==
  \/ Collected(m, s) \/ Handled(m, s) \/ m \in dropped
  \/ \E i \in Nat : Queued(m, s, i)
  \/ \E f \in Flushers : Carried(m, s, f)
NotTwice(m, s) ==
  /\ Collected(m, s) => ~Handled(m, s) /\ m \notin dropped
  /\ Handled(m, s) => m \notin dropped
  /\ \A i \in Nat : Queued(m, s, i) =>
       /\ ~Collected(m, s) /\ ~Handled(m, s) /\ m \notin dropped
       /\ \A j \in Nat : Queued(m, s, j) => i = j
  /\ \A f \in Flushers : Carried(m, s, f) =>
       /\ ~Collected(m, s) /\ ~Handled(m, s) /\ m \notin dropped
       /\ \A i \in Nat : ~Queued(m, s, i)
       /\ \A g \in Flushers : Carried(m, s, g) => f = g
Foreign(m, s) ==
  /\ ~Collected(m, s) /\ ~Handled(m, s)
  /\ \A i \in Nat : ~Queued(m, s, i)
  /\ \A f \in Flushers : ~Carried(m, s, f)

\* What is inductive: every message is found in its own scope, in one place
\* only, and no other scope has it.
Lone(m, s) == Found(m, s) /\ NotTwice(m, s) /\ \A r \in Scopes \ {s} : Foreign(m, r)
PlacesInv == \A m \in 1 .. pushed : Lone(m, accepted[m])

LEMMA AcceptedScope == ASSUME QueueTypeOK, NEW m \in 1 .. pushed PROVE accepted[m] \in Scopes
  BY ElementOfSeq DEF QueueTypeOK

\* The numbers and their scopes are for good: it is enough to follow one message.
LEMMA StaysLone ==
  ASSUME QueueTypeOK, PlacesInv, UNCHANGED <<pushed, accepted>>,
         \A m \in 1 .. pushed, s \in Scopes : Lone(m, s) => Lone(m, s)'
  PROVE  PlacesInv'
  <1> SUFFICES ASSUME NEW m \in 1 .. pushed PROVE Lone(m, accepted[m])'
    BY DEF PlacesInv
  <1>1. PICK s \in Scopes : s = accepted[m]
    BY AcceptedScope
  <1>2. Lone(m, s)'
    BY <1>1 DEF PlacesInv
  <1>3. QED
    BY <1>1, <1>2

\* Nothing that has a number is moved.
LEMMA NobodyMoves ==
  ASSUME QueueTypeOK, PlacesInv,
         UNCHANGED <<pending, delivered, chan, dropped, pushed, accepted>>,
         \A f \in Flushers, s \in Scopes : InHand(f, s)' = InHand(f, s),
         \A f \in Flushers : \A s \in Scopes : InHand(f, s) => flush'[f].batch = flush[f].batch
  PROVE  PlacesInv'
  <1>1. ASSUME NEW m \in 1 .. pushed, NEW s \in Scopes
        PROVE  /\ Collected(m, s)' = Collected(m, s) /\ Handled(m, s)' = Handled(m, s)
               /\ \A i \in Nat : Queued(m, s, i)' = Queued(m, s, i)
               /\ \A f \in Flushers : Carried(m, s, f)' = Carried(m, s, f)
    BY DEF Collected, Handled, Queued, Carried
  <1>2. ASSUME NEW m \in 1 .. pushed, NEW a \in Scopes, Lone(m, a) PROVE Lone(m, a)'
    <2>1. Found(m, a)'
      BY <1>1, <1>2 DEF Lone, Found, NotTwice, Foreign
    <2>2. NotTwice(m, a)'
      BY <1>1, <1>2 DEF Lone, NotTwice, Foreign
    <2>3. \A s \in Scopes \ {a} : Foreign(m, s)'
      BY <1>1, <1>2 DEF Lone, Foreign
    <2>4. QED
      BY <2>1, <2>2, <2>3 DEF Lone
  <1>3. QED
    BY <1>2, StaysLone

LEMMA QuietPlaces ==
  ASSUME QueueTypeOK, PlacesInv,
         \/ \E f \in Flushers, s \in Scopes : Fire(f, s) \/ FlushCall(f, s)
         \/ \E f \in Flushers : Return(f)
         \/ \E s \in Scopes : WorkerQuits(s) \/ HandlerBlocks(s) \/ HandlerUnblocks(s) \/ HandlerReturns(s)
  PROVE  PlacesInv'
  <1> USE DEF entries, ghosts
  <1>1. UNCHANGED <<pending, delivered, chan, dropped, pushed, accepted>>
    BY DEF Fire, FlushCall, Return, WorkerQuits, HandlerBlocks, HandlerUnblocks, HandlerReturns
  <1>2. ASSUME NEW f \in Flushers
        PROVE  \/ flush'[f] = flush[f]
               \/ flush[f].at \notin {"asking", "sending"} /\ flush'[f].at \notin {"asking", "sending"}
    <2>1. CASE \E g \in Flushers, s \in Scopes : Fire(g, s) \/ FlushCall(g, s)
      BY <2>1 DEF Fire, FlushCall, Started, QueueTypeOK, Idle
    <2>2. CASE \E g \in Flushers : Return(g)
      BY <2>2 DEF Return, QueueTypeOK, Idle
    <2>3. CASE \E s \in Scopes : HandlerReturns(s)
      <3>1. PICK s \in Scopes : HandlerReturns(s)
        BY <2>3
      <3>2. CASE Flushing(f, "waiting", s) /\ flush[f].batch = item[s]
        <4>1. flush[f] \in Underway(pushed) /\ flush[f].at = "waiting"
          BY <3>2, FlushIs DEF Idle, Flushing
        <4>2. flush'[f] = [flush[f] EXCEPT !.at = "answered"]
          BY <3>1, <3>2 DEF HandlerReturns
        <4>3. QED
          BY <4>1, <4>2 DEF Underway
      <3>3. CASE ~ (Flushing(f, "waiting", s) /\ flush[f].batch = item[s])
        BY <3>1, <3>3 DEF HandlerReturns
      <3>4. QED
        BY <3>2, <3>3
    <2>4. QED
      BY <2>1, <2>2, <2>3 DEF WorkerQuits, HandlerBlocks, HandlerUnblocks
  <1>3. QED
    BY <1>1, <1>2, NobodyMoves DEF InHand, Flushing

\* Push gives a new number, that nobody has.
LEMMA PushPlaces == ASSUME QueueTypeOK, PlacesInv, NEW r \in Scopes, Push(r) PROVE PlacesInv'
  <1>0. PICK k \in Nat : k = pushed + 1
    BY DEF QueueTypeOK
  <1>1. /\ pushed \in Nat /\ pushed' = k /\ k = pushed + 1
        /\ UNCHANGED <<delivered, chan, dropped, flush>>
    BY <1>0 DEF QueueTypeOK, Push
  <1>2. accepted'[k] = r /\ \A m \in 1 .. pushed : accepted'[m] = accepted[m]
    <2>1. accepted \in Seq(Scopes) /\ Len(accepted) = pushed /\ accepted' = Append(accepted, r)
      BY DEF QueueTypeOK, Push
    <2>2. QED
      BY <1>1, <2>1, AppendProperties
  <1>3. /\ ElementsOf(pending'[r]) = ElementsOf(pending[r]) \cup {k}
        /\ \A s \in Scopes \ {r} : pending'[s] = pending[s]
    <2>1. pending[r] \in Seq(Nat) /\ k \in Nat
      BY <1>1, SeqMonotonic DEF QueueTypeOK
    <2>2. pending'[r] = Append(pending[r], k) /\ \A s \in Scopes \ {r} : pending'[s] = pending[s]
      BY <1>1 DEF Push, QueueTypeOK
    <2>3. QED
      BY <2>1, <2>2, ElementsOfAppend
  <1>4. ASSUME NEW s \in Scopes
        PROVE  Foreign(k, s) /\ k \notin dropped
    <2>1. k \notin 1 .. pushed
      BY <1>1
    <2>2. /\ ElementsOf(pending[s]) \subseteq 1 .. pushed /\ ElementsOf(delivered[s]) \subseteq 1 .. pushed
          /\ \A i \in 1 .. Len(chan[s]) : ElementsOf(chan[s][i]) \subseteq 1 .. pushed
      BY ElementsIn, ElementOfSeq DEF QueueTypeOK
    <2>3. \A f \in Flushers : InHand(f, s) => ElementsOf(flush[f].batch) \subseteq 1 .. pushed
      <3> SUFFICES ASSUME NEW f \in Flushers, InHand(f, s) PROVE ElementsOf(flush[f].batch) \subseteq 1 .. pushed
        OBVIOUS
      <3>1. flush[f] \in Underway(pushed)
        BY FlushIs DEF InHand, Flushing, Idle
      <3>2. QED
        BY <3>1, ElementsIn DEF Underway
    <2>4. QED
      BY <2>1, <2>2, <2>3 DEF Foreign, Collected, Handled, Queued, Carried, QueueTypeOK
  <1>5. ASSUME NEW m, NEW s \in Scopes
        PROVE  /\ Collected(m, s)' = (Collected(m, s) \/ (s = r /\ m = k))
               /\ Handled(m, s)' = Handled(m, s)
               /\ \A i \in Nat : Queued(m, s, i)' = Queued(m, s, i)
               /\ \A f \in Flushers : Carried(m, s, f)' = Carried(m, s, f)
    BY <1>1, <1>3 DEF Collected, Handled, Queued, Carried, InHand, Flushing
  <1>6. ASSUME NEW m \in 1 .. pushed PROVE Lone(m, accepted[m])'
    <2>1. PICK a \in Scopes : a = accepted[m] /\ a = accepted'[m]
      BY <1>2, AcceptedScope
    <2>2. m # k
      BY <1>1
    <2>3. Lone(m, a)
      BY <2>1, Zenon DEF PlacesInv
    <2>4. Lone(m, a)'
      BY <1>1, <1>5, <2>2, <2>3 DEF Lone, Found, NotTwice, Foreign
    <2>5. QED
      BY <2>1, <2>4
  <1>7. Lone(k, accepted[k])'
    <2>1. Lone(k, r)'
      BY <1>1, <1>4, <1>5 DEF Lone, Found, NotTwice, Foreign
    <2>2. QED
      BY <1>2, <2>1
  <1>8. QED
    BY <1>1, <1>6, <1>7 DEF PlacesInv

\* What an entry held is given up.
LEMMA DiscardPlaces ==
  ASSUME QueueTypeOK, PlacesInv, (\E s \in Scopes : Cancel(s)) \/ CancelAll \/ Close PROVE PlacesInv'
  <1>1. PICK gone \in SUBSET Scopes :
          /\ dropped' = dropped \cup UNION {ElementsOf(pending[s]) : s \in gone}
          /\ pending' = [s \in Scopes |-> IF s \in gone THEN <<>> ELSE pending[s]]
    BY DEF Cancel, CancelAll, Close, Discard
  <1>2. UNCHANGED <<flush, chan, pushed, accepted, delivered>>
    BY DEF Cancel, CancelAll, Close
  <1>3. ASSUME NEW m \in 1 .. pushed, NEW s \in Scopes
        PROVE  /\ Collected(m, s)' = (Collected(m, s) /\ s \notin gone)
               /\ Handled(m, s)' = Handled(m, s)
               /\ \A i \in Nat : Queued(m, s, i)' = Queued(m, s, i)
               /\ \A f \in Flushers : Carried(m, s, f)' = Carried(m, s, f)
    BY <1>1, <1>2 DEF Collected, Handled, Queued, Carried, InHand, Flushing, ElementsOf
  <1>4. ASSUME NEW m \in 1 .. pushed
        PROVE  (m \in dropped') = (m \in dropped \/ \E s \in gone : Collected(m, s))
    BY <1>1 DEF Collected
  <1>5. ASSUME NEW m \in 1 .. pushed, NEW a \in Scopes, Lone(m, a) PROVE Lone(m, a)'
    <2>1. Found(m, a)'
      BY <1>3, <1>4, <1>5 DEF Lone, Found, NotTwice, Foreign
    <2>2. NotTwice(m, a)'
      BY <1>3, <1>4, <1>5 DEF Lone, NotTwice, Foreign
    <2>3. \A s \in Scopes \ {a} : Foreign(m, s)'
      BY <1>3, <1>4, <1>5 DEF Lone, Foreign
    <2>4. QED
      BY <2>1, <2>2, <2>3 DEF Lone
  <1>6. QED
    BY <1>2, <1>5, StaysLone

\* The entry moves into the hand of the flusher.
LEMMA DrainPlaces == ASSUME QueueTypeOK, PlacesInv, NEW f \in Flushers, Drain(f) PROVE PlacesInv'
  <1>1. UNCHANGED <<chan, delivered, dropped, pushed, accepted>> /\ flush[f].at = "draining"
    BY DEF Drain, ghosts
  <1>2. PICK r \in Scopes : r = flush[f].scope
    BY <1>1, FlushIs DEF Idle, Underway
  <1>3. CASE closed \/ pending[r] = <<>>
    <2>1. pending' = pending /\ flush' = [flush EXCEPT ![f] = Idle]
      BY <1>2, <1>3 DEF Drain
    <2>2. \A g \in Flushers : flush'[g] = flush[g] \/ (flush[g].at = "draining" /\ flush'[g].at = "idle")
      BY <1>1, <2>1 DEF QueueTypeOK, Idle
    <2>3. QED
      BY <1>1, <2>1, <2>2, NobodyMoves DEF InHand, Flushing
  <1>4. CASE ~(closed \/ pending[r] = <<>>)
    <2>1. /\ pending' = [pending EXCEPT ![r] = <<>>]
          /\ flush'[f].at = "asking" /\ flush'[f].scope = r /\ flush'[f].batch = pending[r]
          /\ \A g \in Flushers \ {f} : flush'[g] = flush[g]
      <3>1. flush[f] \in Underway(pushed)
        BY <1>1, FlushIs DEF Idle
      <3>2. flush' = [flush EXCEPT ![f] = [flush[f] EXCEPT !.at = "asking", !.batch = pending[r]]]
        BY <1>2, <1>4 DEF Drain, QueueTypeOK
      <3>3. QED
        BY <1>2, <1>4, <3>1, <3>2 DEF Drain, QueueTypeOK, Underway
    <2>2. ASSUME NEW m \in 1 .. pushed, NEW s \in Scopes
          PROVE  /\ Collected(m, s)' = (Collected(m, s) /\ s # r)
                 /\ Handled(m, s)' = Handled(m, s)
                 /\ \A i \in Nat : Queued(m, s, i)' = Queued(m, s, i)
                 /\ \A g \in Flushers \ {f} : Carried(m, s, g)' = Carried(m, s, g)
                 /\ ~Carried(m, s, f)
                 /\ Carried(m, s, f)' = (s = r /\ Collected(m, s))
      <3>1. Collected(m, s)' = (Collected(m, s) /\ s # r)
        <4>1. /\ s = r => pending'[s] = <<>>
              /\ s # r => pending'[s] = pending[s]
          BY <2>1 DEF QueueTypeOK
        <4>2. ElementsOf(<<>>) = {}
          BY DEF ElementsOf
        <4>3. QED
          BY <4>1, <4>2 DEF Collected
      <3>2. Handled(m, s)' = Handled(m, s) /\ \A i \in Nat : Queued(m, s, i)' = Queued(m, s, i)
        BY <1>1 DEF Handled, Queued
      <3>3. QED
        BY <1>1, <1>2, <2>1, <3>1, <3>2 DEF Collected, Carried, InHand, Flushing
    <2>3. ASSUME NEW m \in 1 .. pushed, NEW a \in Scopes, Lone(m, a) PROVE Lone(m, a)'
      <3>1. Found(m, a)'
        BY <1>1, <1>2, <2>2, <2>3 DEF Lone, Found, NotTwice, Foreign
      <3>2. NotTwice(m, a)'
        BY <1>1, <1>2, <2>2, <2>3, ZenonT(30) DEF Lone, NotTwice, Foreign
      <3>3. \A s \in Scopes \ {a} : Foreign(m, s)'
        BY <1>1, <1>2, <2>2, <2>3 DEF Lone, Foreign
      <3>4. QED
        BY <3>1, <3>2, <3>3 DEF Lone
    <2>4. QED
      BY <1>1, <2>3, StaysLone
  <1>5. QED
    BY <1>3, <1>4

\* A submission that is given up drops its batch.
LEMMA GivenUpPlaces ==
  ASSUME QueueTypeOK, PlacesInv, NEW f \in Flushers, flush[f].at \in {"asking", "sending"}, GivenUp(f),
         UNCHANGED <<pending, chan>>
  PROVE  PlacesInv'
  <1>1. UNCHANGED <<chan, pending, delivered, pushed, accepted>>
    BY DEF GivenUp
  <1>2. PICK r \in Scopes : r = flush[f].scope
    BY FlushIs DEF Idle, Underway
  <1>3. flush'[f].at = "idle" /\ \A g \in Flushers \ {f} : flush'[g] = flush[g]
    BY DEF GivenUp, QueueTypeOK, Idle
  <1>4. ASSUME NEW m \in 1 .. pushed, NEW s \in Scopes
        PROVE  /\ Collected(m, s)' = Collected(m, s) /\ Handled(m, s)' = Handled(m, s)
               /\ \A i \in Nat : Queued(m, s, i)' = Queued(m, s, i)
               /\ \A g \in Flushers \ {f} : Carried(m, s, g)' = Carried(m, s, g)
               /\ ~Carried(m, s, f)'
               /\ s # r => ~Carried(m, s, f)
    BY <1>1, <1>2, <1>3 DEF Collected, Handled, Queued, Carried, InHand, Flushing
  <1>5. ASSUME NEW m \in 1 .. pushed PROVE (m \in dropped') = (m \in dropped \/ Carried(m, r, f))
    BY <1>2 DEF GivenUp, Carried, InHand, Flushing
  <1>6. ASSUME NEW m \in 1 .. pushed, NEW a \in Scopes, Lone(m, a) PROVE Lone(m, a)'
    <2>1. Found(m, a)'
      BY <1>2, <1>4, <1>5, <1>6 DEF Lone, Found, NotTwice, Foreign
    <2>2. NotTwice(m, a)'
      BY <1>2, <1>4, <1>5, <1>6 DEF Lone, NotTwice, Foreign
    <2>3. \A s \in Scopes \ {a} : Foreign(m, s)'
      BY <1>2, <1>4, <1>5, <1>6 DEF Lone, Foreign
    <2>4. QED
      BY <2>1, <2>2, <2>3 DEF Lone
  <1>7. QED
    BY <1>1, <1>6, StaysLone

LEMMA AskPlaces == ASSUME QueueTypeOK, PlacesInv, NEW f \in Flushers, Ask(f) \/ SendGivesUp(f) PROVE PlacesInv'
  <1>1. CASE GivenUp(f)
    BY <1>1, GivenUpPlaces DEF Ask, SendGivesUp, entries
  <1>2. CASE ~GivenUp(f)
    <2>1. /\ UNCHANGED <<pending, delivered, chan, dropped, pushed, accepted>> /\ flush[f].at = "asking"
          /\ flush' = [flush EXCEPT ![f].at = "sending"]
      BY <1>2 DEF Ask, SendGivesUp, entries, ghosts
    <2>2. flush[f] \in Underway(pushed)
      BY <2>1, FlushIs DEF Idle
    <2>3. \A g \in Flushers : \/ flush'[g] = flush[g]
                              \/ /\ flush[g].at = "asking" /\ flush'[g].at = "sending"
                                 /\ flush'[g].scope = flush[g].scope /\ flush'[g].batch = flush[g].batch
      BY <2>1, <2>2 DEF QueueTypeOK, Underway
    <2>4. QED
      BY <2>1, <2>3, NobodyMoves DEF InHand, Flushing
  <1>3. QED
    BY <1>1, <1>2

\* The batch becomes the last one of the channel.
LEMMA SendPlaces == ASSUME QueueTypeOK, PlacesInv, NEW f \in Flushers, Send(f) PROVE PlacesInv'
  <1>1. UNCHANGED <<pending, delivered, dropped, pushed, accepted>> /\ flush[f].at = "sending"
    BY DEF Send, entries, ghosts
  <1>2. PICK r \in Scopes, b \in Seq(1 .. pushed), n \in Nat :
          /\ r = flush[f].scope /\ b = flush[f].batch /\ n = Len(chan[r]) + 1
          /\ chan[r] \in Seq(Seq(1 .. pushed))
    <2>1. flush[f] \in Underway(pushed)
      BY <1>1, FlushIs DEF Idle
    <2>2. flush[f].scope \in Scopes /\ flush[f].batch \in Seq(1 .. pushed)
      BY <2>1 DEF Underway
    <2>3. chan[flush[f].scope] \in Seq(Seq(1 .. pushed))
      BY <2>2 DEF QueueTypeOK
    <2>4. Len(chan[flush[f].scope]) + 1 \in Nat
      BY <2>3, LenProperties
    <2>5. QED
      BY <2>2, <2>3, <2>4
  <1>3. flush'[f].at = "waiting" /\ \A g \in Flushers \ {f} : flush'[g] = flush[g]
    <2>1. flush[f] \in Underway(pushed)
      BY <1>1, FlushIs DEF Idle
    <2>2. QED
      BY <2>1 DEF Send, QueueTypeOK, Underway
  <1>4. /\ chan'[r] = Append(chan[r], b)
        /\ \A s \in Scopes \ {r} : chan'[s] = chan[s]
    BY <1>2 DEF Send, QueueTypeOK
  <1>5. /\ Len(chan'[r]) = n /\ chan'[r][n] = b
        /\ \A i \in 1 .. n - 1 : chan'[r][i] = chan[r][i]
    BY <1>2, <1>4, AppendProperties
  <1>6. ASSUME NEW m \in 1 .. pushed, NEW s \in Scopes
        PROVE  /\ (Collected(m, s)' <=> Collected(m, s)) /\ (Handled(m, s)' <=> Handled(m, s))
               /\ \A g \in Flushers : Carried(m, s, g)' <=> (Carried(m, s, g) /\ g # f)
               /\ Carried(m, s, f) => s = r
    BY <1>1, <1>2, <1>3 DEF Collected, Handled, Carried, InHand, Flushing
  <1>7. ASSUME NEW m \in 1 .. pushed, NEW s \in Scopes, NEW i \in Nat
        PROVE  /\ Queued(m, s, i)' <=> (Queued(m, s, i) \/ (s = r /\ i = n /\ Carried(m, r, f)))
               /\ ~Queued(m, r, n)
    <2>1. s # r => (Queued(m, s, i)' <=> Queued(m, s, i))
      BY <1>4 DEF Queued
    <2>2. i # n => (Queued(m, r, i)' <=> Queued(m, r, i))
      BY <1>2, <1>5 DEF Queued
    <2>3. ~Queued(m, r, n) /\ (Queued(m, r, n)' <=> Carried(m, r, f))
      BY <1>1, <1>2, <1>5 DEF Queued, Carried, InHand, Flushing
    <2>4. QED
      BY <2>1, <2>2, <2>3
  <1>8. ASSUME NEW m \in 1 .. pushed, NEW a \in Scopes, Lone(m, a) PROVE Lone(m, a)'
    <2>1. Found(m, a)'
      BY <1>1, <1>6, <1>7, <1>8 DEF Lone, Found
    <2>2. NotTwice(m, a)'
      BY <1>1, <1>2, <1>6, <1>7, <1>8 DEF Lone, NotTwice
    <2>3. \A s \in Scopes \ {a} : Foreign(m, s)'
      BY <1>6, <1>7, <1>8 DEF Lone, Foreign
    <2>4. QED
      BY <2>1, <2>2, <2>3 DEF Lone
  <1>9. QED
    BY <1>1, <1>8, StaysLone

\* The first batch of the channel is handed to the handler, the others move up.
LEMMA TakePlaces == ASSUME QueueTypeOK, PlacesInv, NEW r \in Scopes, WorkerTakes(r) PROVE PlacesInv'
  <1>0. PICK c, n : c = chan[r] /\ n = Len(chan[r])
    OBVIOUS
  <1>1. UNCHANGED <<pending, flush, dropped, pushed, accepted>> /\ c # <<>>
    BY <1>0 DEF WorkerTakes, entries
  <1>2. c \in Seq(Seq(1 .. pushed)) /\ n \in Nat \ {0} /\ Head(c) = c[1] /\ c[1] \in Seq(1 .. pushed)
    BY <1>0, <1>1, LenProperties, EmptySeq, ElementOfSeq DEF QueueTypeOK
  <1>3. chan'[r] = Tail(c) /\ \A s \in Scopes \ {r} : chan'[s] = chan[s] /\ delivered'[s] = delivered[s]
    BY <1>0 DEF WorkerTakes, QueueTypeOK
  <1>4. Len(chan'[r]) = n - 1 /\ \A i \in 1 .. n - 1 : chan'[r][i] = c[i + 1]
    BY <1>0, <1>1, <1>2, <1>3, HeadTailProperties
  <1>5. ElementsOf(delivered'[r]) = ElementsOf(delivered[r]) \cup ElementsOf(c[1])
    <2>1. delivered'[r] = delivered[r] \o c[1]
      BY <1>0, <1>2 DEF WorkerTakes, QueueTypeOK
    <2>2. delivered[r] \in Seq(1 .. pushed)
      BY DEF QueueTypeOK
    <2>3. QED
      BY <1>2, <2>1, <2>2, ElementsOfConcat
  <1>6. ASSUME NEW m \in 1 .. pushed, NEW s \in Scopes
        PROVE  /\ Collected(m, s)' <=> Collected(m, s)
               /\ \A g \in Flushers : Carried(m, s, g)' <=> Carried(m, s, g)
               /\ Handled(m, s)' <=> (Handled(m, s) \/ (s = r /\ Queued(m, r, 1)))
    <2>1. (Collected(m, s)' <=> Collected(m, s)) /\ \A g \in Flushers : Carried(m, s, g)' <=> Carried(m, s, g)
      BY <1>1 DEF Collected, Carried, InHand, Flushing
    <2>2. Queued(m, r, 1) <=> m \in ElementsOf(c[1])
      BY <1>0, <1>2 DEF Queued
    <2>3. Handled(m, s)' <=> (Handled(m, s) \/ (s = r /\ m \in ElementsOf(c[1])))
      BY <1>3, <1>5 DEF Handled
    <2>4. QED
      BY <2>1, <2>2, <2>3
  <1>7. ASSUME NEW m \in 1 .. pushed, NEW s \in Scopes, NEW i \in Nat
        PROVE  /\ s # r => (Queued(m, s, i)' <=> Queued(m, s, i))
               /\ Queued(m, r, i)' => Queued(m, r, i + 1) /\ i # 0
               /\ Queued(m, r, i) => i = 1 \/ (i - 1 \in Nat /\ Queued(m, r, i - 1)')
    <2>1. s # r => (Queued(m, s, i)' <=> Queued(m, s, i))
      BY <1>3 DEF Queued
    <2>2. ASSUME Queued(m, r, i)' PROVE Queued(m, r, i + 1) /\ i # 0
      <3>1. i \in 1 .. n - 1 /\ m \in ElementsOf(c[i + 1])
        BY <1>4, <2>2 DEF Queued
      <3>2. i + 1 \in 1 .. n /\ i # 0
        BY <1>2, <3>1
      <3>3. QED
        BY <1>0, <3>1, <3>2 DEF Queued
    <2>3. ASSUME Queued(m, r, i), i # 1 PROVE i - 1 \in Nat /\ Queued(m, r, i - 1)'
      <3>1. i \in 1 .. n /\ m \in ElementsOf(c[i])
        BY <1>0, <2>3 DEF Queued
      <3>2. i - 1 \in 1 .. n - 1 /\ i - 1 \in Nat /\ (i - 1) + 1 = i
        BY <1>2, <2>3, <3>1
      <3>3. QED
        BY <1>4, <3>1, <3>2 DEF Queued
    <2>4. QED
      BY <2>1, <2>2, <2>3
  <1>8. ASSUME NEW m \in 1 .. pushed, NEW a \in Scopes, Lone(m, a) PROVE Lone(m, a)'
    <2>1. CASE a # r
      <3>1. Found(m, a)' /\ NotTwice(m, a)'
        BY <1>1, <1>6, <1>7, <1>8, <2>1 DEF Lone, Found, NotTwice
      <3>2. ASSUME NEW s \in Scopes \ {a} PROVE Foreign(m, s)'
        <4>1. Foreign(m, s)
          BY <1>8 DEF Lone
        <4>2. \A i \in Nat : ~Queued(m, s, i)'
          <5> SUFFICES ASSUME NEW i \in Nat, Queued(m, s, i)' PROVE FALSE
            OBVIOUS
          <5>1. i + 1 \in Nat
            OBVIOUS
          <5>2. QED
            BY <1>7, <4>1, <5>1 DEF Foreign
        <4>3. QED
          BY <1>6, <4>1, <4>2 DEF Foreign
      <3>3. QED
        BY <3>1, <3>2 DEF Lone
    <2>2. CASE a = r
      <3>1. Found(m, a)'
        <4>1. ASSUME NEW i \in Nat, Queued(m, a, i) PROVE Found(m, a)'
          <5>1. CASE i = 1
            BY <1>6, <2>2, <4>1, <5>1 DEF Found
          <5>2. CASE i # 1
            <6>1. PICK j \in Nat : j = i - 1
              BY <1>7, <2>2, <4>1, <5>2
            <6>2. Queued(m, a, j)'
              BY <1>7, <2>2, <4>1, <5>2, <6>1
            <6>3. QED
              BY <6>2 DEF Found
          <5>3. QED
            BY <5>1, <5>2
        <4>2. QED
          BY <1>1, <1>6, <1>8, <2>2, <4>1 DEF Lone, Found
      <3>2. ASSUME NEW i \in Nat, Queued(m, a, i)'
            PROVE  /\ ~Collected(m, a)' /\ ~Handled(m, a)' /\ m \notin dropped'
                   /\ \A j \in Nat : Queued(m, a, j)' => i = j
                   /\ \A f \in Flushers : ~Carried(m, a, f)'
        <4>1. Queued(m, a, i + 1) /\ i # 0 /\ i + 1 \in Nat
          BY <1>7, <2>2, <3>2
        <4>2. /\ ~Collected(m, a) /\ ~Handled(m, a) /\ m \notin dropped
              /\ \A j \in Nat : Queued(m, a, j) => i + 1 = j
              /\ \A f \in Flushers : ~Carried(m, a, f)
          BY <1>8, <4>1 DEF Lone, NotTwice
        <4>3. ~Queued(m, a, 1)
          BY <4>1, <4>2
        <4>4. ASSUME NEW j \in Nat, Queued(m, a, j)' PROVE i = j
          <5>1. Queued(m, a, j + 1) /\ j + 1 \in Nat
            BY <1>7, <2>2, <4>4
          <5>2. i + 1 = j + 1
            BY <4>2, <5>1
          <5>3. QED
            BY <5>2
        <4>5. QED
          BY <1>1, <1>6, <2>2, <4>2, <4>3, <4>4
      <3>3. /\ Collected(m, a)' => ~Handled(m, a)' /\ m \notin dropped'
            /\ Handled(m, a)' => m \notin dropped'
            /\ \A f \in Flushers : Carried(m, a, f)' =>
                 /\ ~Collected(m, a)' /\ ~Handled(m, a)' /\ m \notin dropped'
                 /\ \A g \in Flushers : Carried(m, a, g)' => f = g
        BY <1>1, <1>6, <1>8, <2>2 DEF Lone, NotTwice
      <3>4. \A s \in Scopes \ {a} : Foreign(m, s)'
        <4> SUFFICES ASSUME NEW s \in Scopes \ {a} PROVE Foreign(m, s)'
          OBVIOUS
        <4>1. Foreign(m, s) /\ s # r
          BY <1>8, <2>2 DEF Lone
        <4>2. QED
          BY <1>6, <1>7, <4>1 DEF Foreign
      <3>5. NotTwice(m, a)'
        BY <3>2, <3>3 DEF NotTwice
      <3>6. QED
        BY <3>1, <3>4, <3>5 DEF Lone
    <2>3. QED
      BY <2>1, <2>2
  <1>9. QED
    BY <1>1, <1>8, StaysLone

LEMMA PlacesInit == QueueInit => PlacesInv
  BY DEF QueueInit, PlacesInv

LEMMA PlacesNext == QueueTypeOK /\ PlacesInv /\ [QueueNext]_queueVars => PlacesInv'
  <1> SUFFICES ASSUME QueueTypeOK, PlacesInv, [QueueNext]_queueVars PROVE PlacesInv'
    OBVIOUS
  <1>1. CASE UNCHANGED queueVars
    BY <1>1, NobodyMoves DEF queueVars, entries, ghosts, InHand, Flushing
  <1>2. CASE QueueNext
    BY <1>2, PushPlaces, DiscardPlaces, TakePlaces, QuietPlaces, DrainPlaces, AskPlaces, SendPlaces
       DEF QueueNext, FlushStep
  <1>3. QED
    BY <1>1, <1>2

\* Two batches before a channel: its indices are shifted by two.
LEMMA Shifted ==
  ASSUME NEW S, NEW q \in Seq(S), NEW c \in Seq(S), Len(q) = 2
  PROVE  /\ Len(q \o c) = Len(c) + 2
         /\ (q \o c)[1] = q[1] /\ (q \o c)[2] = q[2]
         /\ \A i \in 1 .. Len(c) : (q \o c)[i + 2] = c[i]
  <1>1. Len(q \o c) = Len(c) + 2
    <2>1. Len(q \o c) = Len(q) + Len(c)
      BY ConcatProperties
    <2>2. Len(c) \in Nat
      BY LenProperties
    <2>3. QED
      BY <2>1, <2>2
  <1>2. (q \o c)[1] = q[1] /\ (q \o c)[2] = q[2]
    <2>1. \A i \in 1 .. Len(q) : (q \o c)[i] = q[i]
      BY ConcatProperties
    <2>2. 1 \in 1 .. Len(q) /\ 2 \in 1 .. Len(q)
      OBVIOUS
    <2>3. QED
      BY <2>1, <2>2, Zenon
  <1>3. \A i \in 3 .. Len(c) + 2 : (q \o c)[i] = c[i - 2]
    BY <1>1, ConcatProperties
  <1>4. \A i \in 1 .. Len(c) : i + 2 \in 3 .. Len(c) + 2 /\ (i + 2) - 2 = i
    BY LenProperties
  <1>5. QED
    BY <1>1, <1>2, <1>3, <1>4

LEMMA Split ==
  ASSUME NEW n \in Nat, NEW k
  PROVE  k \in 1 .. n + 2 <=> k = 1 \/ k = 2 \/ \E i \in 1 .. n : k = i + 2
  <1>1. k \in 1 .. n + 2 => k = 1 \/ k = 2 \/ (k - 2 \in 1 .. n /\ k = (k - 2) + 2)
    OBVIOUS
  <1>2. \A i \in 1 .. n : i + 2 \in 1 .. n + 2
    OBVIOUS
  <1>3. 1 \in 1 .. n + 2 /\ 2 \in 1 .. n + 2
    OBVIOUS
  <1>4. QED
    BY <1>1, <1>2, <1>3, Zenon

\* The numbered places of EachOnce are these.
LEMMA PlaceIs ==
  ASSUME QueueTypeOK, NEW m, NEW s \in Scopes, NEW p
  PROVE  p \in PlacesOf(m, s) <=>
           \/ p = <<"place", 1>> /\ Collected(m, s)
           \/ p = <<"place", 2>> /\ Handled(m, s)
           \/ \E i \in Nat : p = <<"place", i + 2>> /\ Queued(m, s, i)
           \/ \E f \in Flushers : p = <<"hand", f>> /\ Carried(m, s, f)
           \/ p = <<"dropped", 0>> /\ m \in dropped
  <1> DEFINE q == <<pending[s], delivered[s]>>
             n == Len(chan[s])
  <1>1. q \in Seq(Seq(1 .. pushed)) /\ chan[s] \in Seq(Seq(1 .. pushed)) /\ Len(q) = 2 /\ n \in Nat
    BY LenProperties DEF QueueTypeOK
  <1>2. q[1] = pending[s] /\ q[2] = delivered[s] /\ Places(s) = q \o chan[s]
    BY DEF Places
  <1> HIDE DEF q
  <1>3. /\ Len(Places(s)) = n + 2
        /\ Places(s)[1] = pending[s] /\ Places(s)[2] = delivered[s]
        /\ \A i \in 1 .. n : Places(s)[i + 2] = chan[s][i]
    <2> DEFINE S == Seq(1 .. pushed)
               c == chan[s]
    <2>1. q \in Seq(S) /\ c \in Seq(S) /\ Len(q) = 2
      BY <1>1
    <2>2. Places(s) = q \o c /\ n = Len(c)
      BY <1>2
    <2> HIDE DEF S, c, n
    <2>3. /\ Len(q \o c) = Len(c) + 2
          /\ (q \o c)[1] = q[1] /\ (q \o c)[2] = q[2]
          /\ \A i \in 1 .. Len(c) : (q \o c)[i + 2] = c[i]
      BY <2>1, Shifted
    <2> USE DEF c
    <2>4. QED
      BY <1>2, <2>2, <2>3
  <1>4. \A k : k \in 1 .. n + 2 <=> k = 1 \/ k = 2 \/ \E i \in 1 .. n : k = i + 2
    BY <1>1, Split
  <1>5. (\E k \in 1 .. Len(Places(s)) : p = <<"place", k>> /\ m \in ElementsOf(Places(s)[k])) <=>
           \/ p = <<"place", 1>> /\ Collected(m, s)
           \/ p = <<"place", 2>> /\ Handled(m, s)
           \/ \E i \in Nat : p = <<"place", i + 2>> /\ Queued(m, s, i)
    <2>1. (\E i \in 1 .. n : p = <<"place", i + 2>> /\ m \in ElementsOf(Places(s)[i + 2])) <=>
             \E i \in Nat : p = <<"place", i + 2>> /\ Queued(m, s, i)
      BY <1>1, <1>3 DEF Queued
    <2>2. QED
      BY <1>3, <1>4, <2>1 DEF Collected, Handled
  <1>6. p \in PlacesOf(m, s) <=>
           \/ \E k \in 1 .. Len(Places(s)) : p = <<"place", k>> /\ m \in ElementsOf(Places(s)[k])
           \/ \E f \in Flushers : p = <<"hand", f>> /\ Carried(m, s, f)
           \/ p = <<"dropped", 0>> /\ m \in dropped
    BY DEF PlacesOf, Carried
  <1>7. QED
    BY <1>5, <1>6

LEMMA OncePlaced == QueueTypeOK /\ PlacesInv => EachOnce
  <1> SUFFICES ASSUME QueueTypeOK, PlacesInv, NEW m \in 1 .. pushed
               PROVE  /\ Cardinality(PlacesOf(m, accepted[m])) = 1
                      /\ \A s \in Scopes \ {accepted[m]} : PlacesOf(m, s) \subseteq {<<"dropped", 0>>}
    BY DEF EachOnce
  <1>1. PICK a \in Scopes : a = accepted[m]
    BY AcceptedScope
  <1>2. Lone(m, a)
    BY <1>1, Zenon DEF PlacesInv
  <1>3. \E p : PlacesOf(m, a) = {p}
    <2>1. \E p : p \in PlacesOf(m, a)
      BY <1>2, PlaceIs DEF Lone, Found
    <2>2. ASSUME NEW p \in PlacesOf(m, a), NEW q \in PlacesOf(m, a) PROVE p = q
      <3>1. NotTwice(m, a)
        BY <1>2 DEF Lone
      <3>2. \/ p = <<"place", 1>> /\ Collected(m, a)
            \/ p = <<"place", 2>> /\ Handled(m, a)
            \/ \E i \in Nat : p = <<"place", i + 2>> /\ Queued(m, a, i)
            \/ \E f \in Flushers : p = <<"hand", f>> /\ Carried(m, a, f)
            \/ p = <<"dropped", 0>> /\ m \in dropped
        BY PlaceIs
      <3>3. \/ q = <<"place", 1>> /\ Collected(m, a)
            \/ q = <<"place", 2>> /\ Handled(m, a)
            \/ \E i \in Nat : q = <<"place", i + 2>> /\ Queued(m, a, i)
            \/ \E f \in Flushers : q = <<"hand", f>> /\ Carried(m, a, f)
            \/ q = <<"dropped", 0>> /\ m \in dropped
        BY PlaceIs
      <3>4. CASE \E i \in Nat : p = <<"place", i + 2>> /\ Queued(m, a, i)
        BY <3>1, <3>3, <3>4, Zenon DEF NotTwice
      <3>5. CASE \E f \in Flushers : p = <<"hand", f>> /\ Carried(m, a, f)
        BY <3>1, <3>3, <3>5, Zenon DEF NotTwice
      <3>6. CASE p = <<"place", 1>> /\ Collected(m, a)
        BY <3>1, <3>3, <3>6, Zenon DEF NotTwice
      <3>7. CASE p = <<"place", 2>> /\ Handled(m, a)
        BY <3>1, <3>3, <3>7, Zenon DEF NotTwice
      <3>8. CASE p = <<"dropped", 0>> /\ m \in dropped
        BY <3>1, <3>3, <3>8, Zenon DEF NotTwice
      <3>9. QED
        BY <3>2, <3>4, <3>5, <3>6, <3>7, <3>8
    <2>3. QED
      BY <2>1, <2>2
  <1>4. Cardinality(PlacesOf(m, a)) = 1
    BY <1>3, FS_Singleton
  <1>5. ASSUME NEW s \in Scopes \ {a} PROVE PlacesOf(m, s) \subseteq {<<"dropped", 0>>}
    BY <1>2, PlaceIs DEF Lone, Foreign
  <1>6. QED
    BY <1>1, <1>4, <1>5

\* A message that Push took is in one place of its scope until it is delivered
\* or given up, and then never again anywhere: no order of timers, flushes,
\* cancellations and Close hands it over twice or loses it (flushScope, submit,
\* workerLoop, Cancel, Close of queue.go).
THEOREM QueueHandsOnce == QueueSpec => []EachOnce
  BY TypeInit, TypeNext, PlacesInit, PlacesNext, OncePlaced, PTL DEF QueueSpec
-----------------------------------------------------------------------------
(***************************************************************************)
(* The background service.                                                 *)
(***************************************************************************)
ServiceOps == {"install", "start", "stop", "stopAndDisable", "restart", "delete"}
ManagerRecords == [file : BOOLEAN, up : BOOLEAN, auto : BOOLEAN, due : {"no", "start", "restart"}, pid : Nat]
BridgeRecords == [kind : {"service", "foreground"}, at : {"boot", "listed", "connected"}]
Calling == {"call", "wait"}
Starting == {"locks", "try", "preflight", "install"}
GivenCommands == [cmd : {"start", "stop", "restart", "unregister"},
           at : Starting \cup Calling \cup {"replace", "before", "exists", "stop", "delete"},
           tries : Nat, own : SUBSET Nat, before : SUBSET Nat]
Slips == {"foreground", "logon", "blind", "started", "restarting"}
Starts(c) == command[c].cmd \in {"start", "restart"}

\* What is said is at least a word.
ServiceTypes ==
  /\ platform \in {"launchd", "systemd", "schtasks"}
  /\ manager \in ManagerRecords /\ lastPid \in Nat /\ manager.pid <= lastPid
  /\ Alive \subseteq 1 .. lastPid /\ \A p \in Alive : bridges[p] \in BridgeRecords
  /\ command \in [Callers -> {NoCommand} \cup GivenCommands]
  /\ DOMAIN outcome = {"said", "quiet", "slips"}
  /\ outcome.quiet \in {"no", "stopped", "not-running", "removed"} /\ outcome.slips \subseteq Slips

\* A service that is not to run has no process and none is due; none is due while it has one.
OffInv ==
  /\ (manager.due # "no" \/ manager.pid \in Alive) => manager.up
  /\ manager.pid \in Alive => manager.due = "no"

\* How the service was left off is how it is defined.
LeftInv ==
  /\ outcome.quiet = "stopped" /\ platform # "launchd" => ~manager.auto
  /\ outcome.quiet = "removed" => ~manager.file
  /\ StaysOff => ~manager.up

\* Who waits for a process has begun to start one.
PlaceInv == \A c \in Callers :
  /\ command[c].at \in Starting => command[c].cmd = "start"
  /\ command[c].at \in Calling \cup {"replace", "before"} => Starts(c)

\* A bridge of the foreground was there before, for whoever starts the service.
SeenInv == \A c \in Callers : Starts(c) => \A p \in Alive :
  \/ bridges[p].kind = "service" \/ "foreground" \in outcome.slips
  \/ /\ bridges[p].at # "boot"
     /\ command[c].at \in Calling => p \in command[c].before \/ "blind" \in outcome.slips
NamedInv == NamesService => outcome.said[2] = "service"

ServiceInv == ServiceTypes /\ OffInv /\ LeftInv /\ PlaceInv /\ SeenInv /\ NamedInv

\* What a call of the manager comes to on every platform.
Answer(op, m) ==
  /\ m \in ManagerRecords /\ (m.pid = manager.pid \/ m.pid = 0)
  /\ op = "install" => m.up = manager.up /\ m.due = manager.due /\ m.pid = manager.pid
  /\ op \in {"stop", "stopAndDisable"} =>
       ~m.up /\ m.due = "no" /\ m.pid = 0 /\ (m.auto => manager.auto) /\ (m.file => manager.file)
  /\ op = "stopAndDisable" /\ platform # "launchd" => ~m.auto
  /\ op \in {"start", "restart"} =>
       m.up /\ (m.pid = 0 \/ ~manager.up \/ manager.pid \notin Alive \/ m.due = manager.due)
  /\ op = "delete" =>
       /\ ~m.file /\ (m.auto => manager.auto) /\ m.pid = manager.pid /\ (m.up => manager.up)
       /\ m.due = "no" \/ (m.due = manager.due /\ m.up = manager.up)
       /\ manager.pid \in Alive => m.up = manager.up

LEMMA AnswerLaunchd ==
  ASSUME manager \in ManagerRecords, platform = "launchd", NEW op \in ServiceOps, NEW m \in launchd(op, manager)
  PROVE  Answer(op, m)
  <1>1. CASE op = "install"
    BY <1>1 DEF Answer, launchd, ManagerRecords, Service
  <1>2. CASE op = "start"
    <2>1. ~manager.up /\ m = [manager EXCEPT !.up = TRUE, !.due = "start"]
      BY <1>2 DEF launchd
    <2>2. QED
      BY <1>2, <2>1 DEF Answer, ManagerRecords, Service
  <1>3. CASE op = "stop"
    <2>1. m = [manager EXCEPT !.up = FALSE, !.due = "no", !.pid = 0]
      BY <1>3 DEF launchd
    <2>2. QED
      BY <1>3, <2>1 DEF Answer, ManagerRecords
  <1>4. CASE op = "stopAndDisable"
    <2>1. m = [manager EXCEPT !.up = FALSE, !.due = "no", !.pid = 0]
      BY <1>4 DEF launchd
    <2>2. QED
      BY <1>4, <2>1 DEF Answer, ManagerRecords
  <1>5. CASE op = "restart"
    <2>1. manager.up /\ m = [manager EXCEPT !.due = "start", !.pid = 0]
      BY <1>5 DEF launchd
    <2>2. QED
      BY <1>5, <2>1 DEF Answer, ManagerRecords
  <1>6. CASE op = "delete"
    BY <1>6 DEF Answer, launchd, ManagerRecords, Service
  <1>7. QED
    BY <1>1, <1>2, <1>3, <1>4, <1>5, <1>6 DEF ServiceOps

LEMMA AnswerSystemd ==
  ASSUME manager \in ManagerRecords, platform = "systemd", NEW op \in ServiceOps, NEW m \in systemd(op, manager)
  PROVE  Answer(op, m)
  <1>1. CASE op = "install"
    BY <1>1 DEF Answer, systemd, ManagerRecords, Service
  <1>2. CASE op = "start"
    <2>1. \E d \in {"start", manager.due} : (Service = {} \/ d = manager.due) /\ m = [manager EXCEPT !.up = TRUE, !.auto = TRUE, !.due = d]
      BY <1>2 DEF systemd
    <2>2. QED
      BY <1>2, <2>1 DEF Answer, ManagerRecords, Service
  <1>3. CASE op = "stop"
    <2>1. m = [manager EXCEPT !.up = FALSE, !.due = "no", !.pid = 0]
      BY <1>3 DEF systemd
    <2>2. QED
      BY <1>3, <2>1 DEF Answer, ManagerRecords
  <1>4. CASE op = "stopAndDisable"
    <2>1. m = [manager EXCEPT !.up = FALSE, !.auto = FALSE, !.due = "no", !.pid = 0]
      BY <1>4 DEF systemd
    <2>2. QED
      BY <1>4, <2>1 DEF Answer, ManagerRecords
  <1>5. CASE op = "restart"
    <2>1. m = [manager EXCEPT !.up = TRUE, !.due = "start", !.pid = 0]
      BY <1>5 DEF systemd
    <2>2. QED
      BY <1>5, <2>1 DEF Answer, ManagerRecords
  <1>6. CASE op = "delete"
    BY <1>6 DEF Answer, systemd, ManagerRecords, Service
  <1>7. QED
    BY <1>1, <1>2, <1>3, <1>4, <1>5, <1>6 DEF ServiceOps

LEMMA AnswerSchtasks ==
  ASSUME manager \in ManagerRecords, platform = "schtasks", NEW op \in ServiceOps, NEW m \in schtasks(op, manager)
  PROVE  Answer(op, m)
  <1>1. CASE op = "install"
    BY <1>1 DEF Answer, schtasks, ManagerRecords, Service
  <1>2. CASE op = "start"
    <2>1. \E d \in {"start", manager.due} : (Service = {} \/ d = manager.due) /\ m = [manager EXCEPT !.up = TRUE, !.due = d]
      BY <1>2 DEF schtasks
    <2>2. QED
      BY <1>2, <2>1 DEF Answer, ManagerRecords, Service
  <1>3. CASE op = "stop"
    <2>1. m = [manager EXCEPT !.up = FALSE, !.due = "no", !.pid = 0]
      BY <1>3 DEF schtasks
    <2>2. QED
      BY <1>3, <2>1 DEF Answer, ManagerRecords
  <1>4. CASE op = "stopAndDisable"
    <2>1. m = [manager EXCEPT !.up = FALSE, !.auto = FALSE, !.due = "no", !.pid = 0]
      BY <1>4 DEF schtasks
    <2>2. QED
      BY <1>4, <2>1 DEF Answer, ManagerRecords
  <1>5. CASE op = "restart"
    <2>1. m = [manager EXCEPT !.up = TRUE, !.due = "start", !.pid = 0]
      BY <1>5 DEF schtasks
    <2>2. QED
      BY <1>5, <2>1 DEF Answer, ManagerRecords
  <1>6. CASE op = "delete"
    BY <1>6 DEF Answer, schtasks, ManagerRecords, Service
  <1>7. QED
    BY <1>1, <1>2, <1>3, <1>4, <1>5, <1>6 DEF ServiceOps

\* The bridges that are left, and what they are.
Fewer(gone) ==
  /\ DOMAIN bridges' = DOMAIN bridges \ gone
  /\ \A p \in DOMAIN bridges' : bridges'[p] = bridges[p]

LEMMA CallAnswers ==
  ASSUME ServiceTypes, NEW op \in ServiceOps, Calls(op)
  PROVE  /\ Answer(op, manager') /\ \E gone : Fewer(gone)
         /\ manager'.pid \in DOMAIN bridges' => manager'.pid = manager.pid /\ manager.pid \in Alive
  <1>1. PICK m \in Results(op) :
          manager' = m /\ bridges' = Dying(IF m.pid # manager.pid THEN Service ELSE {})
    BY DEF Calls
  <1>2. Answer(op, m)
    <2>1. CASE platform = "launchd"
      BY <1>1, <2>1, AnswerLaunchd DEF Results, ServiceTypes
    <2>2. CASE platform = "systemd"
      BY <1>1, <2>2, AnswerSystemd DEF Results, ServiceTypes
    <2>3. CASE platform = "schtasks"
      BY <1>1, <2>3, AnswerSchtasks DEF Results, ServiceTypes
    <2>4. QED
      BY <2>1, <2>2, <2>3 DEF ServiceTypes
  <1>3. Fewer(IF m.pid # manager.pid THEN Service ELSE {})
    BY <1>1 DEF Dying, Fewer
  <1>4. m.pid = manager.pid \/ m.pid = 0
    BY <1>2 DEF Answer
  <1>5. 0 \notin Alive
    BY DEF ServiceTypes
  <1>6. QED
    BY <1>1, <1>2, <1>3, <1>4, <1>5 DEF Fewer, Alive

\* A caller goes on, or ends.
LEMMA AtTypes ==
  ASSUME ServiceTypes, NEW c \in Callers, command[c].at # "none",
         NEW where \in Starting \cup Calling \cup {"replace", "before", "exists", "stop", "delete"}, At(c, where)
  PROVE  /\ command' \in [Callers -> {NoCommand} \cup GivenCommands]
         /\ command'[c].at = where /\ command'[c].cmd = command[c].cmd /\ command'[c].own = command[c].own
         /\ command'[c].before = command[c].before /\ \A d \in Callers \ {c} : command'[d] = command[d]
  <1>1. command[c] \in GivenCommands
    BY DEF ServiceTypes, NoCommand
  <1>2. PICK q : q = [command[c] EXCEPT !.at = where]
    OBVIOUS
  <1>3. q \in GivenCommands /\ q.at = where /\ q.cmd = command[c].cmd /\ q.own = command[c].own /\ q.before = command[c].before
    BY <1>1, <1>2 DEF GivenCommands
  <1>4. command' = [command EXCEPT ![c] = q]
    BY <1>2, <1>1 DEF At, GivenCommands, ServiceTypes
  <1>5. QED
    BY <1>3, <1>4 DEF ServiceTypes

LEMMA EndsTypes ==
  ASSUME ServiceTypes, NEW c \in Callers, Ends(c)
  PROVE  /\ command' \in [Callers -> {NoCommand} \cup GivenCommands]
         /\ command'[c] = NoCommand /\ \A d \in Callers \ {c} : command'[d] = command[d]
  BY DEF Ends, ServiceTypes

\* The parts of the types that steps change apart from each other.
ProcessTypes ==
  /\ manager \in ManagerRecords /\ lastPid \in Nat /\ manager.pid <= lastPid
  /\ Alive \subseteq 1 .. lastPid /\ \A p \in Alive : bridges[p] \in BridgeRecords
OutcomeTypes ==
  /\ DOMAIN outcome = {"said", "quiet", "slips"}
  /\ outcome.quiet \in {"no", "stopped", "not-running", "removed"} /\ outcome.slips \subseteq Slips
CommandTypes == command \in [Callers -> {NoCommand} \cup GivenCommands]

LEMMA CallTypes ==
  ASSUME ServiceTypes, NEW op \in ServiceOps, Calls(op), UNCHANGED lastPid
  PROVE  ProcessTypes'
  <1>1. PICK gone : Fewer(gone)
    BY CallAnswers
  <1>2. Answer(op, manager')
    BY CallAnswers
  <1>3. Alive' \subseteq Alive /\ \A p \in Alive' : bridges'[p] = bridges[p]
    BY <1>1 DEF Fewer, Alive
  <1>4. manager' \in ManagerRecords /\ (manager'.pid = manager.pid \/ manager'.pid = 0)
    BY <1>2 DEF Answer
  <1>5. QED
    BY <1>3, <1>4 DEF ServiceTypes, ProcessTypes

LEMMA DeathTypes ==
  ASSUME ServiceTypes, UNCHANGED lastPid, NEW gone, bridges' = Dying(gone),
         UNCHANGED manager \/ \E p : manager' = Died(p, manager)
  PROVE  ProcessTypes'
  <1>1. Alive' \subseteq Alive /\ \A p \in Alive' : bridges'[p] = bridges[p]
    BY DEF Dying, Alive
  <1>2. ASSUME NEW p, manager' = Died(p, manager) PROVE manager' \in ManagerRecords /\ manager'.pid = manager.pid
    BY <1>2 DEF Died, ServiceTypes, ManagerRecords
  <1>3. QED
    BY <1>1, <1>2 DEF ServiceTypes, ProcessTypes

LEMMA BeginTypes ==
  ASSUME ServiceTypes, NEW kind \in {"service", "foreground"}, Begins(kind),
         UNCHANGED manager \/ manager' = [manager EXCEPT !.due = "no", !.pid = lastPid']
  PROVE  ProcessTypes'
  <1>1. PICK q : q = [kind |-> kind, at |-> "boot"]
    OBVIOUS
  <1>2. q \in BridgeRecords
    BY <1>1 DEF BridgeRecords
  <1>3. Alive' = Alive \cup {lastPid'} /\ \A p \in Alive' : bridges'[p] = IF p = lastPid' THEN q ELSE bridges[p]
    BY <1>1 DEF Begins, Alive
  <1>4. lastPid' = lastPid + 1 /\ lastPid \in Nat
    BY DEF Begins, ServiceTypes
  <1>5. manager' \in ManagerRecords /\ manager'.pid <= lastPid'
    <2>1. PICK n : n = lastPid'
      OBVIOUS
    <2>2. n \in Nat
      BY <1>4, <2>1
    <2>3. UNCHANGED manager \/ manager' = [manager EXCEPT !.due = "no", !.pid = n]
      BY <2>1
    <2>4. CASE UNCHANGED manager
      BY <1>4, <2>4 DEF ServiceTypes, ManagerRecords
    <2>5. CASE manager' = [manager EXCEPT !.due = "no", !.pid = n]
      <3>1. manager' \in ManagerRecords /\ manager'.pid = n
        BY <2>2, <2>5 DEF ServiceTypes, ManagerRecords
      <3>2. QED
        BY <1>4, <2>1, <2>2, <3>1
    <2>6. QED
      BY <2>3, <2>4, <2>5
  <1>6. QED
    BY <1>2, <1>3, <1>4, <1>5 DEF ServiceTypes, ProcessTypes

LEMMA BegunTypes ==
  ASSUME ServiceTypes, NEW c \in Callers, NEW cmd \in {"start", "stop", "restart", "unregister"},
         NEW at \in Starting \cup {"exists"}, Begun(c, cmd, at)
  PROVE  /\ CommandTypes'
         /\ command'[c].at = at /\ command'[c].cmd = cmd
         /\ \A d \in Callers \ {c} : command'[d] = command[d]
  <1>1. PICK q : q = [cmd |-> cmd, at |-> at, tries |-> 0, own |-> {}, before |-> {}]
    OBVIOUS
  <1>2. q \in GivenCommands /\ q.at = at /\ q.cmd = cmd
    BY <1>1 DEF GivenCommands
  <1>3. command' = [command EXCEPT ![c] = q]
    BY <1>1 DEF Begun
  <1>4. QED
    BY <1>2, <1>3 DEF ServiceTypes, CommandTypes

LEMMA SaidTypes ==
  ASSUME ServiceTypes
  PROVE  /\ UNCHANGED outcome => OutcomeTypes'
         /\ \A what \in Slips : Slip(what) => OutcomeTypes'
         /\ \A what : outcome' = [outcome EXCEPT !.said = what] => OutcomeTypes'
         /\ outcome' = [outcome EXCEPT !.quiet = "no"] => OutcomeTypes'
         /\ outcome' = [outcome EXCEPT !.slips = @ \cup Dead] => OutcomeTypes'
         /\ \A how \in {"stopped", "not-running", "removed"} : LeftOff(how) => OutcomeTypes'
  <1>1. Dead \subseteq Slips
    BY DEF Dead, Slips
  <1>2. QED
    BY <1>1 DEF ServiceTypes, OutcomeTypes, Slip, LeftOff

LEMMA TypesInit == ServiceInit => ServiceTypes
  BY DEF ServiceInit, ServiceTypes, ManagerRecords, Alive, Slips

LEMMA CallsForTypes ==
  ASSUME ServiceTypes, NEW c \in Callers, NEW op \in {"start", "restart"}, command[c].at = "call", CallsFor(c, op)
  PROVE  ServiceTypes'
  <1>1. ProcessTypes'
    <2>1. CASE Calls(op)
      BY <2>1, CallTypes DEF CallsFor, ServiceOps
    <2>2. CASE UNCHANGED <<manager, bridges>>
      BY <2>2 DEF CallsFor, ServiceTypes, ProcessTypes, Alive
    <2>3. QED
      BY <2>1, <2>2 DEF CallsFor
  <1>2. CommandTypes'
    BY AtTypes, EndsTypes DEF CallsFor, Says, CommandTypes, Calling
  <1>3. OutcomeTypes'
    BY SaidTypes DEF CallsFor, Says
  <1>4. QED
    BY <1>1, <1>2, <1>3 DEF CallsFor, ServiceTypes, ProcessTypes, CommandTypes, OutcomeTypes

LEMMA TypesStep == ServiceTypes /\ [ServiceNext]_serviceVars => ServiceTypes'
  <1> SUFFICES ASSUME ServiceTypes, [ServiceNext]_serviceVars PROVE ServiceTypes'
    OBVIOUS
  <1> USE DEF ServiceOps
  <1>0. ProcessTypes' /\ CommandTypes' /\ OutcomeTypes' /\ UNCHANGED platform => ServiceTypes'
    BY DEF ServiceTypes, ProcessTypes, CommandTypes, OutcomeTypes
  <1>1. /\ UNCHANGED <<manager, bridges, lastPid>> => ProcessTypes'
        /\ UNCHANGED command => CommandTypes'
        /\ UNCHANGED outcome => OutcomeTypes'
    BY DEF ServiceTypes, ProcessTypes, CommandTypes, OutcomeTypes, Alive
  <1>2. CASE Spawns
    BY <1>0, <1>1, <1>2, BeginTypes DEF Spawns
  <1>3. CASE RunsInForeground
    BY <1>0, <1>1, <1>3, BeginTypes, SaidTypes DEF RunsInForeground, Slips
  <1>4. CASE Logon
    <2>1. manager' \in ManagerRecords /\ manager'.pid = 0 /\ Alive' = {}
      BY <1>4 DEF Logon, ServiceTypes, ManagerRecords, Dying, Alive
    <2>2. ProcessTypes'
      BY <1>4, <2>1 DEF Logon, ServiceTypes, ProcessTypes
    <2>3. QED
      BY <1>0, <1>1, <1>4, <2>2, SaidTypes DEF Logon, Slips
  <1>5. ASSUME NEW p \in DOMAIN bridges, Advances(p) PROVE ServiceTypes'
    <2>1. CASE bridges' = Dying({p}) /\ manager' = Died(p, manager)
      BY <1>0, <1>1, <1>5, <2>1, DeathTypes DEF Advances
    <2>2. ASSUME NEW at \in {"listed", "connected"}, bridges' = [bridges EXCEPT ![p].at = at], UNCHANGED manager
          PROVE  ServiceTypes'
      <3>1. PICK q : q = [bridges[p] EXCEPT !.at = at]
        OBVIOUS
      <3>2. q \in BridgeRecords
        BY <3>1 DEF ServiceTypes, Alive, BridgeRecords
      <3>3. Alive' = Alive /\ \A r \in Alive : bridges'[r] = IF r = p THEN q ELSE bridges[r]
        BY <2>2, <3>1 DEF Alive
      <3>4. ProcessTypes'
        BY <1>5, <2>2, <3>2, <3>3 DEF Advances, ServiceTypes, ProcessTypes
      <3>5. QED
        BY <1>0, <1>1, <1>5, <3>4 DEF Advances
    <2>3. QED
      BY <1>5, <2>1, <2>2 DEF Advances
  <1>6. ASSUME NEW c \in Callers, Gives(c) PROVE ServiceTypes'
    BY <1>0, <1>1, <1>6, BegunTypes, SaidTypes DEF Gives, Given, Starting, Slips
  <1>7. ASSUME NEW c \in Callers, Kill(c) PROVE ServiceTypes'
    BY <1>0, <1>1, <1>7, DeathTypes DEF Kill
  <1>8. ASSUME NEW c \in Callers, ensureRuntimeLocksAvailable(c) PROVE ServiceTypes'
    <2>1. PICK own : own = currentServicePID
      OBVIOUS
    <2>2. own \in SUBSET Nat
      <3>1. own \subseteq Alive
        BY <2>1 DEF currentServicePID, Service
      <3>2. 1 .. lastPid \subseteq Nat
        BY DEF ServiceTypes
      <3>3. QED
        BY <3>1, <3>2, Zenon DEF ServiceTypes
    <2>3. command[c] \in GivenCommands
      BY <1>8 DEF ensureRuntimeLocksAvailable, ServiceTypes, NoCommand
    <2>4. PICK q : q = [command[c] EXCEPT !.at = "try", !.own = own]
      OBVIOUS
    <2>5. q \in GivenCommands
      BY <2>2, <2>3, <2>4 DEF GivenCommands, Starting
    <2>6. command' = [command EXCEPT ![c] = q]
      BY <1>8, <2>1, <2>3, <2>4 DEF ensureRuntimeLocksAvailable, GivenCommands, ServiceTypes
    <2>7. CommandTypes'
      BY <2>5, <2>6 DEF ServiceTypes, CommandTypes
    <2>8. QED
      BY <1>0, <1>1, <1>8, <2>7 DEF ensureRuntimeLocksAvailable
  <1>9. ASSUME NEW c \in Callers, tryRuntimeLocks(c) PROVE ServiceTypes'
    <2>1. CASE Begun(c, "start", "preflight") /\ UNCHANGED <<outcome, bridges, manager>>
      BY <1>0, <1>1, <1>9, <2>1, BegunTypes DEF tryRuntimeLocks, Starting
    <2>2. CASE Says(c, "refused") /\ UNCHANGED <<bridges, manager>>
      BY <1>0, <1>1, <1>9, <2>2, EndsTypes, SaidTypes DEF tryRuntimeLocks, Says, CommandTypes
    <2>3. ASSUME bridges' = Dying(InTheWay(c)), UNCHANGED outcome,
                 manager' = IF manager.pid \in InTheWay(c) THEN Died(manager.pid, manager) ELSE manager,
                 command' = [command EXCEPT ![c].tries = @ + 1]
          PROVE  ServiceTypes'
      <3>1. command[c] \in GivenCommands
        BY <1>9 DEF tryRuntimeLocks, ServiceTypes, NoCommand
      <3>2. PICK q : q = [command[c] EXCEPT !.tries = @ + 1]
        OBVIOUS
      <3>3. q \in GivenCommands
        BY <3>1, <3>2 DEF GivenCommands
      <3>4. command' = [command EXCEPT ![c] = q]
        BY <2>3, <3>1, <3>2 DEF GivenCommands, ServiceTypes
      <3>5. CommandTypes'
        BY <3>3, <3>4 DEF ServiceTypes, CommandTypes
      <3>6. ProcessTypes'
        BY <1>9, <2>3, DeathTypes DEF tryRuntimeLocks
      <3>7. QED
        BY <1>0, <1>1, <1>9, <2>3, <3>5, <3>6 DEF tryRuntimeLocks
    <2>4. QED
      BY <1>9, <2>1, <2>2, <2>3 DEF tryRuntimeLocks
  <1>10. ASSUME NEW c \in Callers, Preflight(c) PROVE ServiceTypes'
    BY <1>0, <1>1, <1>10, AtTypes, EndsTypes, SaidTypes DEF Preflight, Says, CommandTypes, Starting
  <1>11. ASSUME NEW c \in Callers, Install(c) PROVE ServiceTypes'
    BY <1>0, <1>11, CallTypes, AtTypes, EndsTypes, SaidTypes DEF Install, CommandTypes
  <1>12. ASSUME NEW c \in Callers, Replace(c) PROVE ServiceTypes'
    <2>1. CommandTypes' /\ OutcomeTypes'
      BY <1>1, <1>12, AtTypes, EndsTypes, SaidTypes DEF Replace, Says, CommandTypes
    <2>2. ProcessTypes'
      BY <1>1, <1>12, CallTypes DEF Replace
    <2>3. QED
      BY <1>0, <1>12, <2>1, <2>2 DEF Replace
  <1>13. ASSUME NEW c \in Callers, currentPIDs(c) PROVE ServiceTypes'
    <2>1. CASE At(c, "call")
      BY <1>0, <1>1, <1>13, <2>1, AtTypes, SaidTypes DEF currentPIDs, CommandTypes, Calling, Slips
    <2>2. CASE command' = [command EXCEPT ![c].at = "call", ![c].before = Listed]
      <3>1. PICK before : before = Listed
        OBVIOUS
      <3>2. before \in SUBSET Nat
        BY <3>1 DEF Listed, ServiceTypes, Alive
      <3>3. command[c] \in GivenCommands
        BY <1>13 DEF currentPIDs, ServiceTypes, NoCommand
      <3>4. PICK q : q = [command[c] EXCEPT !.at = "call", !.before = before]
        OBVIOUS
      <3>5. q \in GivenCommands
        BY <3>2, <3>3, <3>4 DEF GivenCommands, Calling
      <3>6. command' = [command EXCEPT ![c] = q]
        BY <2>2, <3>1, <3>3, <3>4 DEF GivenCommands, ServiceTypes
      <3>7. CommandTypes'
        BY <3>5, <3>6 DEF ServiceTypes, CommandTypes
      <3>8. QED
        BY <1>0, <1>1, <1>13, <3>7, SaidTypes DEF currentPIDs, Slips
    <2>3. QED
      BY <1>13, <2>1, <2>2 DEF currentPIDs
  <1>14. ASSUME NEW c \in Callers, Start(c) PROVE ServiceTypes'
    BY <1>14, CallsForTypes DEF Start
  <1>15. ASSUME NEW c \in Callers, Restart(c) PROVE ServiceTypes'
    BY <1>15, CallsForTypes DEF Restart
  <1>16. ASSUME NEW c \in Callers, waitForServiceConnect(c) PROVE ServiceTypes'
    BY <1>0, <1>1, <1>16, EndsTypes, SaidTypes DEF waitForServiceConnect, Says, CommandTypes
  <1>17. ASSUME NEW c \in Callers, Exists(c) PROVE ServiceTypes'
    <2>1. CASE Says(c, "not-installed")
      BY <1>0, <1>1, <1>17, <2>1, EndsTypes, SaidTypes DEF Exists, Says, CommandTypes
    <2>2. ASSUME NEW where \in {"before", "stop"}, At(c, where), UNCHANGED outcome PROVE ServiceTypes'
      BY <1>0, <1>1, <1>17, <2>2, AtTypes DEF Exists, CommandTypes
    <2>3. QED
      BY <1>17, <2>1, <2>2 DEF Exists
  <1>18. ASSUME NEW c \in Callers, Stop(c) PROVE ServiceTypes'
    <2>1. CommandTypes' /\ OutcomeTypes'
      BY <1>1, <1>18, AtTypes, EndsTypes, SaidTypes DEF Stop, Says, CommandTypes
    <2>2. ProcessTypes'
      BY <1>1, <1>18, CallTypes DEF Stop
    <2>3. QED
      BY <1>0, <1>18, <2>1, <2>2 DEF Stop
  <1>19. ASSUME NEW c \in Callers, Unregister(c) PROVE ServiceTypes'
    <2>1. CommandTypes' /\ OutcomeTypes'
      BY <1>1, <1>19, EndsTypes, SaidTypes DEF Unregister, Says, CommandTypes, Slips
    <2>2. ProcessTypes'
      BY <1>1, <1>19, CallTypes DEF Unregister
    <2>3. QED
      BY <1>0, <1>19, <2>1, <2>2 DEF Unregister
  <1>20. CASE UNCHANGED serviceVars
    BY <1>0, <1>1, <1>20 DEF serviceVars
  <1>21. QED
    BY <1>2, <1>3, <1>4, <1>5, <1>6, <1>7, <1>8, <1>9, <1>10, <1>11, <1>12, <1>13, <1>14, <1>15, <1>16, <1>17,
       <1>18, <1>19, <1>20 DEF ServiceNext

\* A step that neither has the service run nor defines it, and forgets nothing that went wrong.
Quietly ==
  /\ UNCHANGED platform /\ outcome'.quiet = outcome.quiet /\ outcome.slips \subseteq outcome'.slips
  /\ "logon" \in outcome'.slips => "logon" \in outcome.slips
  /\ manager'.up => manager.up
  /\ manager'.auto => manager.auto
  /\ manager'.file => manager.file

LEMMA QuietlyLeft == ServiceInv /\ Quietly => LeftInv'
  BY DEF Quietly, ServiceInv, LeftInv, StaysOff

LEMMA NotOff == outcome'.quiet = "no" => LeftInv'
  BY DEF LeftInv, StaysOff

\* What is said of the service elsewhere than when it is left off.
LEMMA SaidQuietly ==
  ASSUME ServiceInv
  PROVE  \/ UNCHANGED outcome
         \/ \E what \in Slips \ {"logon"} : Slip(what)
         \/ \E what : outcome' = [outcome EXCEPT !.said = what]
         \/ outcome' = [outcome EXCEPT !.slips = @ \cup Dead]
         => /\ outcome'.quiet = outcome.quiet /\ outcome.slips \subseteq outcome'.slips
            /\ "logon" \in outcome'.slips => "logon" \in outcome.slips
  BY DEF ServiceInv, ServiceTypes, Slip, Dead

\* A process dies: a service that is to run may be given up, or is due again.
LEMMA DeathOff ==
  ASSUME ServiceInv, NEW gone \in SUBSET Alive, bridges' = Dying(gone), UNCHANGED <<lastPid, platform>>,
         UNCHANGED manager \/ \E p \in gone : manager' = Died(p, manager)
  PROVE  /\ OffInv' /\ (manager'.up => manager.up) /\ manager'.auto = manager.auto /\ manager'.file = manager.file
  <1>1. Alive' = Alive \ gone
    BY DEF Dying, Alive
  <1>2. CASE UNCHANGED manager
    BY <1>1, <1>2 DEF OffInv, ServiceInv
  <1>3. ASSUME NEW p \in gone, manager' = Died(p, manager)
        PROVE  /\ OffInv' /\ (manager'.up => manager.up) /\ manager'.auto = manager.auto /\ manager'.file = manager.file
    <2>1. PICK up \in BOOLEAN : up = (manager.up /\ (p = manager.pid => platform # "schtasks"))
      OBVIOUS
    <2>2. PICK due : due = IF p = manager.pid /\ manager.up /\ platform # "schtasks" THEN "restart" ELSE manager.due
      OBVIOUS
    <2>3. manager' = [manager EXCEPT !.up = up, !.due = due]
      BY <1>3, <2>1, <2>2 DEF Died
    <2>4. /\ manager'.up = up /\ manager'.due = due /\ manager'.pid = manager.pid
          /\ manager'.auto = manager.auto /\ manager'.file = manager.file
      BY <2>3 DEF ServiceInv, ServiceTypes, ManagerRecords
    <2>5. OffInv'
      BY <1>1, <2>1, <2>2, <2>4 DEF OffInv, ServiceInv
    <2>6. QED
      BY <2>1, <2>4, <2>5
  <1>4. QED
    BY <1>2, <1>3

\* A call of the manager.
LEMMA CallOff ==
  ASSUME ServiceInv, NEW op \in ServiceOps, Calls(op)
  PROVE  OffInv'
  <1>1. Answer(op, manager') /\ (manager'.pid \in DOMAIN bridges' => manager'.pid = manager.pid /\ manager.pid \in Alive)
    BY CallAnswers DEF ServiceInv
  <1>2. PICK gone : Fewer(gone)
    BY CallAnswers DEF ServiceInv
  <1>3. 0 \notin Alive'
    BY <1>2 DEF Fewer, Alive, ServiceInv, ServiceTypes
  <1>4. CASE op = "install"
    BY <1>1, <1>4 DEF Answer, OffInv, ServiceInv, Alive
  <1>5. CASE op \in {"stop", "stopAndDisable"}
    BY <1>1, <1>3, <1>5 DEF Answer, OffInv
  <1>6. CASE op \in {"start", "restart"}
    BY <1>1, <1>3, <1>6 DEF Answer, OffInv, ServiceInv, Alive
  <1>7. CASE op = "delete"
    BY <1>1, <1>7 DEF Answer, OffInv, ServiceInv, Alive
  <1>8. QED
    BY <1>4, <1>5, <1>6, <1>7 DEF ServiceOps

LEMMA CallsForOff ==
  ASSUME ServiceInv, NEW c \in Callers, NEW op \in {"start", "restart"}, CallsFor(c, op)
  PROVE  OffInv' /\ LeftInv'
  <1>1. CASE Calls(op) /\ outcome' = [outcome EXCEPT !.quiet = "no"]
    <2>1. outcome'.quiet = "no"
      BY <1>1 DEF ServiceInv, ServiceTypes
    <2>2. QED
      BY <1>1, <2>1, CallOff, NotOff DEF ServiceOps
  <1>2. CASE Says(c, "failed") /\ UNCHANGED <<manager, bridges>>
    BY <1>2, QuietlyLeft, SaidQuietly DEF CallsFor, Says, Quietly, OffInv, ServiceInv, Alive
  <1>3. QED
    BY <1>1, <1>2 DEF CallsFor

LEMMA OffStep == ServiceInv /\ [ServiceNext]_serviceVars => OffInv' /\ LeftInv'
  <1> SUFFICES ASSUME ServiceInv, [ServiceNext]_serviceVars PROVE OffInv' /\ LeftInv'
    OBVIOUS
  <1>0. /\ UNCHANGED <<manager, bridges>> => OffInv'
        /\ UNCHANGED <<platform, manager>> /\ UNCHANGED outcome => LeftInv'
    BY DEF ServiceInv, OffInv, Alive, LeftInv, StaysOff
  <1>2. CASE Spawns
    <2>1. manager.up /\ manager' = [manager EXCEPT !.due = "no", !.pid = lastPid']
      BY <1>2 DEF Spawns, ServiceInv, OffInv
    <2>2. manager'.up /\ manager'.due = "no" /\ manager'.up = manager.up /\ manager'.auto = manager.auto /\ manager'.file = manager.file
      BY <2>1 DEF ServiceInv, ServiceTypes, ManagerRecords
    <2>3. QED
      BY <1>2, <2>2, QuietlyLeft DEF Spawns, Quietly, OffInv
  <1>3. CASE RunsInForeground
    <2>1. Alive' = Alive \cup {lastPid'} /\ lastPid' = lastPid + 1
      BY <1>3 DEF RunsInForeground, Begins, Alive
    <2>2. manager.pid # lastPid'
      BY <2>1 DEF ServiceInv, ServiceTypes, ManagerRecords
    <2>3. OffInv'
      BY <1>3, <2>1, <2>2 DEF RunsInForeground, OffInv, ServiceInv
    <2>4. QED
      BY <1>3, <2>3, QuietlyLeft, SaidQuietly DEF RunsInForeground, Quietly, Slips
  <1>4. CASE Logon
    <2>1. PICK up \in BOOLEAN : up = (manager.auto /\ manager.file)
      OBVIOUS
    <2>2. manager' = [manager EXCEPT !.up = up, !.due = IF up THEN "start" ELSE "no", !.pid = 0]
      BY <1>4, <2>1 DEF Logon
    <2>3. manager'.up = up /\ manager'.due = (IF up THEN "start" ELSE "no") /\ manager'.auto = manager.auto
          /\ manager'.file = manager.file
      BY <2>2 DEF ServiceInv, ServiceTypes, ManagerRecords
    <2>4. Alive' = {}
      BY <1>4 DEF Logon, Dying, Alive
    <2>5. outcome'.quiet = outcome.quiet /\ outcome'.slips = outcome.slips \cup {"logon"} /\ platform' = platform
      BY <1>4 DEF Logon, Slip, ServiceInv, ServiceTypes
    <2>6. OffInv'
      BY <2>3, <2>4 DEF OffInv
    <2>7. StaysOff' => ~up
      BY <2>1, <2>5 DEF StaysOff, ServiceInv, LeftInv, ServiceTypes
    <2>8. QED
      BY <2>3, <2>5, <2>6, <2>7 DEF LeftInv, ServiceInv
  <1>5. ASSUME NEW p \in DOMAIN bridges, Advances(p) PROVE OffInv' /\ LeftInv'
    <2>1. CASE bridges' = Dying({p}) /\ manager' = Died(p, manager)
      BY <1>5, <2>1, DeathOff, QuietlyLeft DEF Advances, Quietly, Alive
    <2>2. CASE UNCHANGED manager /\ DOMAIN bridges' = DOMAIN bridges
      BY <1>0, <1>5, <2>2 DEF Advances, OffInv, Alive, ServiceInv
    <2>3. QED
      BY <1>5, <2>1, <2>2 DEF Advances
  <1>6. ASSUME NEW c \in Callers, Gives(c) PROVE OffInv' /\ LeftInv'
    BY <1>0, <1>6, QuietlyLeft, SaidQuietly DEF Gives, Quietly, Slips
  <1>7. ASSUME NEW c \in Callers, Kill(c) PROVE OffInv' /\ LeftInv'
    BY <1>7, DeathOff, QuietlyLeft DEF Kill, Quietly, Listed, Alive
  <1>8. ASSUME NEW c \in Callers, ensureRuntimeLocksAvailable(c) PROVE OffInv' /\ LeftInv'
    BY <1>0, <1>8 DEF ensureRuntimeLocksAvailable
  <1>9. ASSUME NEW c \in Callers, tryRuntimeLocks(c) PROVE OffInv' /\ LeftInv'
    <2>1. CASE UNCHANGED <<bridges, manager>> /\ (UNCHANGED outcome \/ Says(c, "refused"))
      BY <1>0, <1>9, <2>1, QuietlyLeft, SaidQuietly DEF tryRuntimeLocks, Says, Quietly
    <2>2. CASE bridges' = Dying(InTheWay(c)) /\ UNCHANGED outcome
               /\ manager' = IF manager.pid \in InTheWay(c) THEN Died(manager.pid, manager) ELSE manager
      BY <1>9, <2>2, DeathOff, QuietlyLeft DEF tryRuntimeLocks, Quietly, InTheWay, Listed, Alive
    <2>3. QED
      BY <1>9, <2>1, <2>2 DEF tryRuntimeLocks
  <1>10. ASSUME NEW c \in Callers, Preflight(c) PROVE OffInv' /\ LeftInv'
    BY <1>0, <1>10, QuietlyLeft, SaidQuietly DEF Preflight, Says, Quietly
  <1>11. ASSUME NEW c \in Callers, Install(c) PROVE OffInv' /\ LeftInv'
    <2>1. outcome'.quiet = "no"
      BY <1>11 DEF Install, ServiceInv, ServiceTypes
    <2>2. QED
      BY <1>11, <2>1, CallOff, NotOff DEF Install, ServiceOps
  <1>12. ASSUME NEW c \in Callers, Replace(c) PROVE OffInv' /\ LeftInv'
    <2>1. CASE Calls("stop") /\ UNCHANGED outcome
      <3>1. Answer("stop", manager')
        BY <2>1, CallAnswers DEF ServiceInv, ServiceOps
      <3>2. QED
        BY <1>12, <2>1, <3>1, CallOff, QuietlyLeft DEF Replace, ServiceOps, Answer, Quietly
    <2>2. CASE UNCHANGED <<manager, bridges>>
      BY <1>0, <1>12, <2>2, QuietlyLeft, SaidQuietly DEF Replace, Says, Quietly
    <2>3. QED
      BY <1>12, <2>1, <2>2 DEF Replace
  <1>13. ASSUME NEW c \in Callers, currentPIDs(c) PROVE OffInv' /\ LeftInv'
    BY <1>0, <1>13, QuietlyLeft, SaidQuietly DEF currentPIDs, Quietly, Slips
  <1>14. ASSUME NEW c \in Callers, Start(c) PROVE OffInv' /\ LeftInv'
    BY <1>14, CallsForOff DEF Start
  <1>15. ASSUME NEW c \in Callers, Restart(c) PROVE OffInv' /\ LeftInv'
    BY <1>15, CallsForOff DEF Restart
  <1>16. ASSUME NEW c \in Callers, waitForServiceConnect(c) PROVE OffInv' /\ LeftInv'
    BY <1>0, <1>16, QuietlyLeft, SaidQuietly DEF waitForServiceConnect, Says, Quietly
  <1>17. ASSUME NEW c \in Callers, Exists(c) PROVE OffInv' /\ LeftInv'
    BY <1>0, <1>17, QuietlyLeft, SaidQuietly DEF Exists, Says, Quietly
  <1>18. ASSUME NEW c \in Callers, Stop(c) PROVE OffInv' /\ LeftInv'
    <2>1. CASE ~IsRunning /\ UNCHANGED <<manager, bridges>> /\ LeftOff("not-running")
      <3>1. outcome'.quiet = "not-running" /\ Dead \subseteq outcome'.slips /\ "logon" \notin outcome'.slips
        BY <2>1 DEF LeftOff, Dead, ServiceInv, ServiceTypes
      <3>2. manager.up => "restarting" \in Dead
        BY <2>1 DEF Dead
      <3>3. QED
        BY <1>0, <2>1, <3>1, <3>2 DEF LeftInv, StaysOff
    <2>2. CASE UNCHANGED <<manager, bridges>> /\ outcome' = [outcome EXCEPT !.slips = @ \cup Dead]
      BY <1>0, <1>18, <2>2, QuietlyLeft, SaidQuietly DEF Stop, Quietly
    <2>3. CASE UNCHANGED <<manager, bridges>> /\ Says(c, "failed")
      BY <1>0, <1>18, <2>3, QuietlyLeft, SaidQuietly DEF Stop, Quietly, Says
    <2>4. CASE Calls("stopAndDisable") /\ (UNCHANGED outcome \/ LeftOff("stopped"))
      <3>1. Answer("stopAndDisable", manager') /\ platform' = platform
        BY <1>18, <2>4, CallAnswers DEF Stop, ServiceInv, ServiceOps
      <3>2. ~manager'.up /\ (manager'.file => manager.file) /\ (platform # "launchd" => ~manager'.auto)
            /\ (manager'.auto => manager.auto)
        BY <3>1 DEF Answer
      <3>3. outcome'.quiet \in {outcome.quiet, "stopped"} /\ (outcome'.quiet # "stopped" => UNCHANGED outcome)
        BY <2>4 DEF LeftOff, ServiceInv, ServiceTypes
      <3>4. LeftInv'
        BY <3>1, <3>2, <3>3 DEF LeftInv, ServiceInv, StaysOff
      <3>5. QED
        BY <2>4, <3>4, CallOff DEF ServiceOps
    <2>5. QED
      BY <1>18, <2>1, <2>2, <2>3, <2>4 DEF Stop
  <1>19. ASSUME NEW c \in Callers, Unregister(c) PROVE OffInv' /\ LeftInv'
    <2>1. CASE Calls("delete") /\ (IF IsRunning THEN Slip("started") ELSE LeftOff("removed"))
      <3>1. Answer("delete", manager') /\ platform' = platform
        BY <1>19, <2>1, CallAnswers DEF Unregister, ServiceInv, ServiceOps
      <3>2. ~manager'.file /\ (manager'.up => manager.up) /\ (manager'.auto => manager.auto)
        BY <3>1 DEF Answer
      <3>3. CASE IsRunning
        <4>1. outcome'.quiet = outcome.quiet /\ "started" \in outcome'.slips
          BY <2>1, <3>3 DEF Slip, ServiceInv, ServiceTypes
        <4>2. QED
          BY <2>1, <3>1, <3>2, <4>1, CallOff DEF LeftInv, StaysOff, ServiceInv, ServiceOps
      <3>4. CASE ~IsRunning
        <4>1. outcome'.quiet = "removed" /\ Dead \subseteq outcome'.slips
          <5>1. PICK dead : dead = Dead
            OBVIOUS
          <5>2. LeftOff("removed") /\ "logon" \notin dead
            BY <2>1, <3>4, <5>1 DEF Dead
          <5>3. outcome'.quiet = "removed" /\ outcome'.slips = (outcome.slips \ {"logon"}) \cup dead
            BY <5>1, <5>2 DEF LeftOff, ServiceInv, ServiceTypes
          <5>4. QED
            BY <5>1, <5>3
        <4>2. manager.up => "restarting" \in Dead
          BY <3>4 DEF Dead
        <4>3. QED
          BY <2>1, <3>1, <3>2, <4>1, <4>2, CallOff DEF LeftInv, StaysOff, ServiceOps
      <3>5. QED
        BY <3>3, <3>4
    <2>2. CASE Says(c, "failed") /\ UNCHANGED <<manager, bridges>>
      BY <1>0, <1>19, <2>2, QuietlyLeft, SaidQuietly DEF Unregister, Quietly, Says
    <2>3. QED
      BY <1>19, <2>1, <2>2 DEF Unregister
  <1>20. CASE UNCHANGED serviceVars
    BY <1>0, <1>20 DEF serviceVars
  <1>21. QED
    BY <1>2, <1>3, <1>4, <1>5, <1>6, <1>7, <1>8, <1>9, <1>10, <1>11, <1>12, <1>13, <1>14, <1>15, <1>16, <1>17,
       <1>18, <1>19, <1>20 DEF ServiceNext

LEMMA OnePlace ==
  ASSUME ServiceInv, NEW c \in Callers, \A d \in Callers \ {c} : command'[d] = command[d],
         /\ command'[c].at \in Starting => command'[c].cmd = "start"
         /\ command'[c].at \in Calling \cup {"replace", "before"} => command'[c].cmd \in {"start", "restart"}
  PROVE  PlaceInv'
  BY DEF PlaceInv, ServiceInv, Starts

LEMMA EndsPlace ==
  ASSUME ServiceInv, NEW c \in Callers, Ends(c)
  PROVE  PlaceInv'
  BY EndsTypes, OnePlace DEF NoCommand, Starting, Calling, ServiceInv

LEMMA AtPlace ==
  ASSUME ServiceInv, NEW c \in Callers, command[c].at # "none",
         NEW where \in Starting \cup Calling \cup {"replace", "before", "exists", "stop", "delete"}, At(c, where),
         where \in Starting => command[c].cmd = "start",
         where \in Calling \cup {"replace", "before"} => Starts(c)
  PROVE  PlaceInv'
  BY AtTypes, OnePlace DEF ServiceInv, Starts

LEMMA PlaceStep == ServiceInv /\ [ServiceNext]_serviceVars => PlaceInv'
  <1> SUFFICES ASSUME ServiceInv, [ServiceNext]_serviceVars PROVE PlaceInv'
    OBVIOUS
  <1> USE DEF Starting, Calling
  <1>0. UNCHANGED command => PlaceInv'
    BY DEF ServiceInv, PlaceInv, Starts
  <1>1. \A c \in Callers :
          /\ command[c].at \in {"locks", "try", "preflight", "install"} => command[c].cmd = "start"
          /\ command[c].at \in {"call", "wait", "replace", "before"} => Starts(c)
          /\ command[c].cmd = "start" => Starts(c)
    BY DEF ServiceInv, PlaceInv, Starts
  <1>2. CASE Spawns \/ RunsInForeground \/ Logon \/ \E p \in DOMAIN bridges : Advances(p)
    BY <1>0, <1>2 DEF Spawns, RunsInForeground, Logon, Advances
  <1>6. ASSUME NEW c \in Callers, Gives(c) PROVE PlaceInv'
    <2>1. PICK cmd \in {"start", "stop", "restart", "unregister"}, at \in {"locks", "exists"} :
            Begun(c, cmd, at) /\ (at = "locks" => cmd = "start")
      BY <1>6 DEF Gives, Given
    <2>2. QED
      BY <2>1, BegunTypes, OnePlace DEF ServiceInv
  <1>7. ASSUME NEW c \in Callers, Kill(c) PROVE PlaceInv'
    BY <1>0, <1>7 DEF Kill
  <1>8. ASSUME NEW c \in Callers, ensureRuntimeLocksAvailable(c) PROVE PlaceInv'
    <2>1. command'[c].cmd = command[c].cmd /\ \A d \in Callers \ {c} : command'[d] = command[d]
      BY <1>8 DEF ensureRuntimeLocksAvailable, ServiceInv, ServiceTypes
    <2>2. QED
      BY <1>1, <1>8, <2>1, OnePlace DEF ensureRuntimeLocksAvailable
  <1>9. ASSUME NEW c \in Callers, tryRuntimeLocks(c) PROVE PlaceInv'
    <2>1. CASE Begun(c, "start", "preflight")
      BY <2>1, BegunTypes, OnePlace DEF ServiceInv
    <2>2. CASE command' = [command EXCEPT ![c].tries = @ + 1]
      <3>1. command'[c].cmd = command[c].cmd /\ \A d \in Callers \ {c} : command'[d] = command[d]
        BY <2>2 DEF ServiceInv, ServiceTypes
      <3>2. QED
        BY <1>1, <1>9, <3>1, OnePlace DEF tryRuntimeLocks
    <2>3. QED
      BY <1>9, <2>1, <2>2, EndsPlace DEF tryRuntimeLocks, Says
  <1>10. ASSUME NEW c \in Callers, Preflight(c) PROVE PlaceInv'
    BY <1>1, <1>10, AtPlace, EndsPlace DEF Preflight, Says
  <1>11. ASSUME NEW c \in Callers, Install(c) PROVE PlaceInv'
    BY <1>1, <1>11, AtPlace, EndsPlace DEF Install
  <1>12. ASSUME NEW c \in Callers, Replace(c) PROVE PlaceInv'
    BY <1>1, <1>12, AtPlace, EndsPlace DEF Replace, Says
  <1>13. ASSUME NEW c \in Callers, currentPIDs(c) PROVE PlaceInv'
    <2>1. CASE command' = [command EXCEPT ![c].at = "call", ![c].before = Listed]
      <3>1. command'[c].cmd = command[c].cmd /\ \A d \in Callers \ {c} : command'[d] = command[d]
        BY <2>1 DEF ServiceInv, ServiceTypes
      <3>2. command'[c].cmd \in {"start", "restart"} /\ command'[c].at = "call"
        <4>1. command[c] \in GivenCommands
          BY <1>13 DEF currentPIDs, ServiceInv, ServiceTypes, NoCommand
        <4>2. command'[c].at = "call"
          BY <2>1, <4>1 DEF ServiceInv, ServiceTypes, GivenCommands
        <4>3. QED
          BY <1>1, <1>13, <3>1, <4>2 DEF currentPIDs, Starts
      <3>3. QED
        BY <3>1, <3>2, OnePlace
    <2>2. QED
      BY <1>1, <1>13, <2>1, AtPlace DEF currentPIDs
  <1>14. ASSUME NEW c \in Callers, Start(c) \/ Restart(c) PROVE PlaceInv'
    <2>1. command[c].at = "call" /\ (At(c, "wait") \/ Ends(c))
      BY <1>14 DEF Start, Restart, CallsFor, Says
    <2>2. QED
      BY <1>1, <2>1, AtPlace, EndsPlace
  <1>16. ASSUME NEW c \in Callers, waitForServiceConnect(c) PROVE PlaceInv'
    BY <1>16, EndsPlace DEF waitForServiceConnect, Says
  <1>17. ASSUME NEW c \in Callers, Exists(c) PROVE PlaceInv'
    <2>1. Ends(c) \/ (At(c, "before") /\ Starts(c)) \/ At(c, "stop")
      BY <1>17 DEF Exists, Says, Starts
    <2>2. QED
      BY <1>17, <2>1, AtPlace, EndsPlace DEF Exists
  <1>18. ASSUME NEW c \in Callers, Stop(c) PROVE PlaceInv'
    BY <1>18, AtPlace, EndsPlace DEF Stop, Says
  <1>19. ASSUME NEW c \in Callers, Unregister(c) PROVE PlaceInv'
    BY <1>19, EndsPlace DEF Unregister, Says
  <1>20. CASE UNCHANGED serviceVars
    BY <1>0, <1>20 DEF serviceVars
  <1>21. QED
    BY <1>2, <1>6, <1>7, <1>8, <1>9, <1>10, <1>11, <1>12, <1>13, <1>14, <1>16, <1>17, <1>18, <1>19, <1>20
       DEF ServiceNext

\* What went wrong with the processes is not forgotten.
RemembersSlips == \A what \in {"foreground", "blind"} : what \in outcome.slips => what \in outcome'.slips

LEMMA EveryStepRemembers == ServiceInv /\ [ServiceNext]_serviceVars => RemembersSlips
  <1> SUFFICES ASSUME ServiceInv, [ServiceNext]_serviceVars PROVE RemembersSlips
    OBVIOUS
  <1>1. /\ UNCHANGED outcome => RemembersSlips
        /\ \A what : Slip(what) => RemembersSlips
        /\ \A what : outcome' = [outcome EXCEPT !.said = what] => RemembersSlips
        /\ outcome' = [outcome EXCEPT !.quiet = "no"] => RemembersSlips
        /\ outcome' = [outcome EXCEPT !.slips = @ \cup Dead] => RemembersSlips
        /\ \A how : LeftOff(how) => RemembersSlips
    BY DEF RemembersSlips, Slip, LeftOff, ServiceInv, ServiceTypes
  <1>2. CASE Spawns \/ RunsInForeground \/ Logon \/ \E p \in DOMAIN bridges : Advances(p)
    BY <1>1, <1>2 DEF Spawns, RunsInForeground, Logon, Advances
  <1>3. ASSUME NEW c \in Callers,
               Gives(c) \/ Kill(c) \/ ensureRuntimeLocksAvailable(c) \/ tryRuntimeLocks(c) \/ Preflight(c)
               \/ Install(c) \/ Replace(c) \/ currentPIDs(c)
        PROVE  RemembersSlips
    BY <1>1, <1>3 DEF Gives, Kill, ensureRuntimeLocksAvailable, tryRuntimeLocks, Preflight, Install, Replace,
       currentPIDs, Says
  <1>4. ASSUME NEW c \in Callers, Start(c) \/ Restart(c) \/ waitForServiceConnect(c) \/ Exists(c)
        PROVE  RemembersSlips
    BY <1>1, <1>4 DEF Start, Restart, CallsFor, waitForServiceConnect, Exists, Says
  <1>5. ASSUME NEW c \in Callers, Stop(c) \/ Unregister(c) PROVE RemembersSlips
    BY <1>1, <1>5 DEF Stop, Unregister, Says
  <1>6. CASE UNCHANGED serviceVars
    BY <1>1, <1>6 DEF serviceVars
  <1>7. QED
    BY <1>2, <1>3, <1>4, <1>5, <1>6 DEF ServiceNext

\* No bridge is new, and nobody is further in a start.
Older ==
  \A p \in DOMAIN bridges' :
    /\ p \in Alive /\ bridges'[p].kind = bridges[p].kind
    /\ bridges[p].at # "boot" => bridges'[p].at # "boot"
Follows ==
  \A c \in Callers : command'[c].cmd \in {"start", "restart"} =>
    /\ Starts(c)
    /\ command'[c].at \in Calling => command[c].at \in Calling /\ command'[c].before = command[c].before

LEMMA SeenKept == SeenInv /\ RemembersSlips /\ Older /\ Follows => SeenInv'
  BY DEF SeenInv, RemembersSlips, Older, Follows, Starts, Alive

LEMMA EndsFollows ==
  ASSUME ServiceInv, NEW c \in Callers, Ends(c)
  PROVE  Follows
  BY EndsTypes DEF Follows, NoCommand, ServiceInv, Starts

LEMMA AtFollows ==
  ASSUME ServiceInv, NEW c \in Callers, command[c].at # "none",
         NEW where \in Starting \cup Calling \cup {"replace", "before", "exists", "stop", "delete"}, At(c, where),
         where \in Calling => command[c].at \in Calling
  PROVE  Follows
  BY AtTypes DEF ServiceInv, Starts, Follows

LEMMA CallOlder ==
  ASSUME ServiceInv, NEW op \in ServiceOps, Calls(op)
  PROVE  Older
  BY CallAnswers DEF Older, Fewer, ServiceInv, Alive

LEMMA SeenStep == ServiceInv /\ [ServiceNext]_serviceVars => SeenInv'
  <1> SUFFICES ASSUME ServiceInv, [ServiceNext]_serviceVars PROVE SeenInv'
    OBVIOUS
  <1> USE DEF Starting, Calling
  <1>a. RemembersSlips
    BY EveryStepRemembers
  <1>b. Older /\ Follows => SeenInv'
    BY <1>a, SeenKept DEF ServiceInv
  <1>c. UNCHANGED command => Follows
    BY DEF Follows, Starts
  <1>d. UNCHANGED bridges \/ (\E gone : bridges' = Dying(gone)) => Older
    BY DEF Older, Alive, Dying
  <1>2. CASE Spawns
    <2>1. Alive' = Alive \cup {lastPid'} /\ bridges'[lastPid'].kind = "service"
          /\ \A p \in Alive : p # lastPid' => bridges'[p] = bridges[p]
      BY <1>2 DEF Spawns, Begins, Alive
    <2>2. QED
      BY <1>2, <2>1 DEF Spawns, SeenInv, ServiceInv, Starts
  <1>3. CASE RunsInForeground
    <2>1. (\E c \in Callers : command[c].cmd \in {"start", "restart"}) => "foreground" \in outcome'.slips
      BY <1>3 DEF RunsInForeground, Slip, ServiceInv, ServiceTypes
    <2>2. QED
      BY <1>3, <2>1 DEF RunsInForeground, SeenInv, Starts
  <1>4. CASE Logon
    BY <1>4, <1>b, <1>c, <1>d DEF Logon
  <1>5. ASSUME NEW p \in DOMAIN bridges, Advances(p) PROVE SeenInv'
    <2>1. CASE bridges' = Dying({p})
      BY <1>5, <1>b, <1>c, <1>d, <2>1 DEF Advances
    <2>2. ASSUME NEW at \in {"listed", "connected"}, bridges' = [bridges EXCEPT ![p].at = at] PROVE SeenInv'
      <3>1. bridges[p] \in BridgeRecords
        BY DEF ServiceInv, ServiceTypes, Alive
      <3>2. bridges'[p].kind = bridges[p].kind /\ bridges'[p].at = at
            /\ \A r \in DOMAIN bridges : r # p => bridges'[r] = bridges[r]
        BY <2>2, <3>1 DEF BridgeRecords
      <3>3. Older
        BY <2>2, <3>2 DEF Older, Alive
      <3>4. QED
        BY <1>5, <1>b, <1>c, <3>3 DEF Advances
    <2>3. QED
      BY <1>5, <2>1, <2>2 DEF Advances
  <1>6. ASSUME NEW c \in Callers, Gives(c) PROVE SeenInv'
    <2>1. PICK cmd \in {"start", "stop", "restart", "unregister"}, at \in {"locks", "exists"} : Begun(c, cmd, at)
      BY <1>6 DEF Gives, Given
    <2>2. command'[c].at = at /\ \A d \in Callers \ {c} : command'[d] = command[d]
      BY <2>1, BegunTypes DEF ServiceInv
    <2>3. (\E p \in Alive : bridges[p] = [kind |-> "foreground", at |-> "boot"]) => "foreground" \in outcome'.slips
      BY <1>6 DEF Gives, Slip, ServiceInv, ServiceTypes
    <2>4. \A p \in Alive : bridges[p].kind = "service" \/ bridges[p].at # "boot" \/ "foreground" \in outcome'.slips
      BY <2>3 DEF ServiceInv, ServiceTypes, BridgeRecords
    <2>5. UNCHANGED bridges
      BY <1>6 DEF Gives
    <2>6. QED
      BY <1>a, <2>2, <2>4, <2>5 DEF SeenInv, ServiceInv, Starts, Alive, RemembersSlips
  <1>7. ASSUME NEW c \in Callers, Kill(c) PROVE SeenInv'
    BY <1>7, <1>b, <1>c, <1>d DEF Kill
  <1>8. ASSUME NEW c \in Callers, ensureRuntimeLocksAvailable(c) PROVE SeenInv'
    <2>1. command[c] \in GivenCommands
      BY <1>8 DEF ensureRuntimeLocksAvailable, ServiceInv, ServiceTypes, NoCommand
    <2>2. command'[c].cmd = command[c].cmd /\ command'[c].at = "try" /\ \A d \in Callers \ {c} : command'[d] = command[d]
      BY <1>8, <2>1 DEF ensureRuntimeLocksAvailable, ServiceInv, ServiceTypes, GivenCommands
    <2>3. Follows
      BY <2>2 DEF Follows, Starts
    <2>4. QED
      BY <1>8, <1>b, <1>d, <2>3 DEF ensureRuntimeLocksAvailable
  <1>9. ASSUME NEW c \in Callers, tryRuntimeLocks(c) PROVE SeenInv'
    <2>0. Starts(c) /\ Older
      BY <1>9, <1>d DEF tryRuntimeLocks, ServiceInv, PlaceInv, Starts
    <2>1. CASE Begun(c, "start", "preflight")
      <3>1. command'[c].at = "preflight" /\ \A d \in Callers \ {c} : command'[d] = command[d]
        BY <2>1, BegunTypes DEF ServiceInv
      <3>2. Follows
        BY <2>0, <3>1 DEF Follows, Starts
      <3>3. QED
        BY <1>b, <2>0, <3>2
    <2>2. CASE command' = [command EXCEPT ![c].tries = @ + 1]
      <3>1. command'[c].at = command[c].at /\ \A d \in Callers \ {c} : command'[d] = command[d]
        BY <2>2 DEF ServiceInv, ServiceTypes
      <3>2. Follows
        BY <1>9, <2>0, <3>1 DEF Follows, Starts, tryRuntimeLocks
      <3>3. QED
        BY <1>b, <2>0, <3>2
    <2>3. QED
      BY <1>9, <1>b, <2>0, <2>1, <2>2, EndsFollows DEF tryRuntimeLocks, Says
  <1>10. ASSUME NEW c \in Callers, Preflight(c) PROVE SeenInv'
    BY <1>10, <1>b, <1>d, AtFollows, EndsFollows DEF Preflight, Says
  <1>11. ASSUME NEW c \in Callers, Install(c) PROVE SeenInv'
    BY <1>11, <1>b, CallOlder, AtFollows, EndsFollows DEF Install, ServiceOps
  <1>12. ASSUME NEW c \in Callers, Replace(c) PROVE SeenInv'
    <2>1. Older
      BY <1>12, <1>d, CallOlder DEF Replace, ServiceOps
    <2>2. QED
      BY <1>12, <1>b, <2>1, AtFollows, EndsFollows DEF Replace, Says
  <1>13. ASSUME NEW c \in Callers, currentPIDs(c) PROVE SeenInv'
    <2>0. command[c] \in GivenCommands /\ UNCHANGED bridges /\ Starts(c)
      BY <1>13 DEF currentPIDs, ServiceInv, ServiceTypes, NoCommand, PlaceInv
    <2>1. CASE command' = [command EXCEPT ![c].at = "call", ![c].before = Listed]
      <3>1. command'[c].before = Listed /\ \A d \in Callers \ {c} : command'[d] = command[d]
        BY <2>0, <2>1 DEF ServiceInv, ServiceTypes, GivenCommands
      <3>2. \A p \in Alive : bridges[p].at # "boot" => p \in Listed
        BY DEF Listed, Alive, ServiceInv, ServiceTypes, BridgeRecords
      <3>3. QED
        BY <1>a, <2>0, <3>1, <3>2 DEF SeenInv, ServiceInv, Starts, Alive, RemembersSlips
    <2>2. CASE At(c, "call") /\ Slip("blind")
      <3>1. "blind" \in outcome'.slips
        BY <2>2 DEF Slip, ServiceInv, ServiceTypes
      <3>2. \A d \in Callers \ {c} : command'[d] = command[d]
        BY <2>2 DEF At, ServiceInv, ServiceTypes
      <3>3. QED
        BY <1>a, <2>0, <3>1, <3>2 DEF SeenInv, ServiceInv, Starts, Alive, RemembersSlips
    <2>3. QED
      BY <1>13, <2>1, <2>2 DEF currentPIDs
  <1>14. ASSUME NEW c \in Callers, Start(c) \/ Restart(c) PROVE SeenInv'
    <2>1. PICK op \in {"start", "restart"} : CallsFor(c, op)
      BY <1>14 DEF Start, Restart
    <2>2. Older
      BY <1>d, <2>1, CallOlder DEF CallsFor, ServiceOps
    <2>3. command[c].at = "call" /\ (At(c, "wait") \/ Ends(c))
      BY <1>14 DEF Start, Restart, CallsFor, Says
    <2>4. QED
      BY <1>b, <2>2, <2>3, AtFollows, EndsFollows
  <1>16. ASSUME NEW c \in Callers, waitForServiceConnect(c) PROVE SeenInv'
    BY <1>16, <1>b, <1>d, EndsFollows DEF waitForServiceConnect, Says
  <1>17. ASSUME NEW c \in Callers, Exists(c) PROVE SeenInv'
    <2>1. Ends(c) \/ At(c, "before") \/ At(c, "stop")
      BY <1>17 DEF Exists, Says
    <2>2. QED
      BY <1>17, <1>b, <1>d, <2>1, AtFollows, EndsFollows DEF Exists
  <1>18. ASSUME NEW c \in Callers, Stop(c) PROVE SeenInv'
    <2>1. Older
      BY <1>18, <1>d, CallOlder DEF Stop, ServiceOps
    <2>2. QED
      BY <1>18, <1>b, <2>1, AtFollows, EndsFollows DEF Stop, Says
  <1>19. ASSUME NEW c \in Callers, Unregister(c) PROVE SeenInv'
    <2>1. Older
      BY <1>19, <1>d, CallOlder DEF Unregister, ServiceOps
    <2>2. QED
      BY <1>19, <1>b, <2>1, EndsFollows DEF Unregister, Says
  <1>20. CASE UNCHANGED serviceVars
    BY <1>20, <1>b, <1>c, <1>d DEF serviceVars
  <1>21. QED
    BY <1>2, <1>3, <1>4, <1>5, <1>6, <1>7, <1>8, <1>9, <1>10, <1>11, <1>12, <1>13, <1>14, <1>16, <1>17, <1>18,
       <1>19, <1>20 DEF ServiceNext

LEMMA NamedStep == ServiceInv /\ [ServiceNext]_serviceVars => NamedInv'
  <1> SUFFICES ASSUME ServiceInv, [ServiceNext]_serviceVars PROVE NamedInv'
    OBVIOUS
  <1>a. RemembersSlips
    BY EveryStepRemembers
  <1>b. outcome'.said = outcome.said => NamedInv'
    BY <1>a DEF ServiceInv, NamedInv, NamesService, RemembersSlips
  <1>c. outcome'.said[1] # "connected" => NamedInv'
    BY DEF NamedInv, NamesService
  <1>1. /\ UNCHANGED outcome => NamedInv'
        /\ \A what : Slip(what) => NamedInv'
        /\ outcome' = [outcome EXCEPT !.quiet = "no"] => NamedInv'
        /\ outcome' = [outcome EXCEPT !.slips = @ \cup Dead] => NamedInv'
    BY <1>b DEF Slip, ServiceInv, ServiceTypes
  <1>w. ASSUME NEW what, what # "connected", outcome'.said = <<what>> PROVE NamedInv'
    BY <1>c, <1>w
  <1>2. /\ \A what : outcome' = [outcome EXCEPT !.said = <<what>>] /\ what # "connected" => NamedInv'
        /\ \A how : LeftOff(how) /\ how # "connected" => NamedInv'
    <2>1. ASSUME NEW what, outcome' = [outcome EXCEPT !.said = <<what>>], what # "connected" PROVE NamedInv'
      <3>1. outcome'.said = <<what>>
        BY <2>1 DEF ServiceInv, ServiceTypes
      <3>2. QED
        BY <1>w, <2>1, <3>1
    <2>2. ASSUME NEW how, LeftOff(how), how # "connected" PROVE NamedInv'
      <3>1. outcome'.said = <<how>>
        BY <2>2 DEF LeftOff, ServiceInv, ServiceTypes
      <3>2. QED
        BY <1>w, <2>2, <3>1
    <2>3. QED
      BY <2>1, <2>2
  <1>3. CASE Spawns \/ RunsInForeground \/ Logon \/ \E p \in DOMAIN bridges : Advances(p)
    BY <1>1, <1>3 DEF Spawns, RunsInForeground, Logon, Advances
  <1>4. ASSUME NEW c \in Callers,
               Gives(c) \/ Kill(c) \/ ensureRuntimeLocksAvailable(c) \/ tryRuntimeLocks(c) \/ Preflight(c)
               \/ Install(c) \/ Replace(c) \/ currentPIDs(c)
        PROVE  NamedInv'
    BY <1>1, <1>2, <1>4 DEF Gives, Kill, ensureRuntimeLocksAvailable, tryRuntimeLocks, Preflight, Install, Replace,
       currentPIDs, Says
  <1>5. ASSUME NEW c \in Callers, Start(c) \/ Restart(c) \/ Exists(c) PROVE NamedInv'
    BY <1>1, <1>2, <1>5 DEF Start, Restart, CallsFor, Exists, Says
  <1>6. ASSUME NEW c \in Callers, waitForServiceConnect(c) PROVE NamedInv'
    <2>1. ASSUME NEW p \in freshConnectedProcess(c), outcome' = [outcome EXCEPT !.said = <<"connected", bridges[p].kind>>]
          PROVE  NamedInv'
      <3>1. p \in Alive /\ p \notin command[c].before /\ command[c].at \in Calling /\ Starts(c)
        BY <1>6, <2>1 DEF freshConnectedProcess, Listed, Alive, waitForServiceConnect, ServiceInv, PlaceInv, Calling
      <3>2. bridges[p].kind = "service" \/ "foreground" \in outcome.slips \/ "blind" \in outcome.slips
        BY <3>1 DEF ServiceInv, SeenInv
      <3>3. outcome'.slips = outcome.slips /\ outcome'.said[2] = bridges[p].kind
        BY <2>1 DEF ServiceInv, ServiceTypes
      <3>4. QED
        BY <3>2, <3>3 DEF NamedInv, NamesService
    <2>2. QED
      BY <1>2, <1>6, <2>1 DEF waitForServiceConnect, Says
  <1>7. ASSUME NEW c \in Callers, Stop(c) \/ Unregister(c) PROVE NamedInv'
    BY <1>1, <1>2, <1>7 DEF Stop, Unregister, Says
  <1>8. CASE UNCHANGED serviceVars
    BY <1>1, <1>8 DEF serviceVars
  <1>9. QED
    BY <1>3, <1>4, <1>5, <1>6, <1>7, <1>8 DEF ServiceNext

LEMMA ServiceInitInv == ServiceInit => ServiceInv
  <1> SUFFICES ASSUME ServiceInit PROVE ServiceInv
    OBVIOUS
  <1>1. ServiceTypes
    BY TypesInit
  <1>2. ~manager.up /\ manager.due = "no" /\ Alive = {} /\ outcome.quiet = "no" /\ outcome.said[1] = "nothing"
    BY DEF ServiceInit, Alive
  <1>3. \A c \in Callers : command[c] = NoCommand
    BY DEF ServiceInit
  <1>4. QED
    BY <1>1, <1>2, <1>3 DEF ServiceInv, OffInv, LeftInv, StaysOff, PlaceInv, SeenInv, Starts, NoCommand, NamedInv,
       NamesService, Starting, Calling

LEMMA ServiceInvStep == ServiceInv /\ [ServiceNext]_serviceVars => ServiceInv'
  BY TypesStep, OffStep, PlaceStep, SeenStep, NamedStep DEF ServiceInv

(* A service that was stopped or unregistered is neither to run nor running *)
(* until it is started, also after a logon, and a start that reports it     *)
(* connected has seen a process of the service, with the exceptions that    *)
(* StaysOff and NamesService name: for any callers, any number of commands, *)
(* failures, processes and kills, on each platform (controller.go).         *)
THEOREM ServiceObeys == ServiceSpec => []ServiceHeld
  <1>1. ServiceInv => ServiceHeld
    BY DEF ServiceInv, OffInv, LeftInv, NamedInv, ServiceHeld, Service
  <1>2. QED
    BY <1>1, ServiceInitInv, ServiceInvStep, PTL DEF ServiceSpec

(***************************************************************************)
(* The forms of /config and /account.                                      *)
(***************************************************************************)
FormFields == {"at", "view", "next", "previous", "card", "unread"}
AtEnd == {"show", "over"}
Outcomes == {"saved", "failed", "cancelled", "form"}

FormTypes ==
  /\ DOMAIN form = FormsSent /\ DOMAIN link = FormsSent
  /\ \A f \in FormsSent : DOMAIN form[f] = FormFields
  /\ DOMAIN secrets = {u[1] : u \in Valid}

\* An account form that is past its validation is accepted, and its secret is kept or will be.
Connects(app, tenant) == <<app, secrets[app], tenant>> \in Valid
AccountInv ==
  /\ Connects(account.app, account.tenant)
  /\ \A f \in FormsSent : f.kind = "account" =>
       /\ form[f].at \in {"store", "save"} => Accepted(f)
       /\ form[f].at = "save" => Connects(f.app, f.tenant)
  /\ \A f \in FormsSent : form[f].at = "store" => f.kind = "account"

\* One form at a time has told lark-cli what it is about to write.
Saving == {f \in FormsSent : f.kind = "config" /\ form[f].at = "save"}
IdentityInv == slips = {} =>
  /\ \A f, g \in Saving : f = g
  /\ \A f \in Saving : form[f].previous = prefs.identity /\ acts = form[f].next.identity
  /\ Saving = {} => acts = prefs.identity

\* A form is saved once, and then has its answer; what it asks for comes when it is over.
WrittenInv == \A f \in FormsSent :
  /\ f \in written => form[f].at \in {"answer"} \cup AtEnd
  /\ form[f].at = "answer" =>
       form[f].view.outcome \in Outcomes /\ (f \in written <=> form[f].view.outcome = "saved")
LinkInv == \A f \in FormsSent :
  /\ link[f] # "none" => form[f].at = "over"
  /\ link[f] # "lost" /\ (link[f] = "wait" => Card(f, "grant", Unset) \in replies)

\* A card that is shown, or about to be, is of a form that has come to its end, and says what became of it.
Truthful(shown) == \A f \in shown.of :
  /\ f \in FormsSent /\ form[f].at \in AtEnd
  /\ shown.says = "saved" => f \in written
  /\ shown.says \in {"failed", "cancelled"} => f \notin written \/ form[f].unread
  /\ shown.says = "granted" => f \in granted
CardInv ==
  /\ \A m \in DOMAIN card : Truthful(card[m])
  /\ \A shown \in replies : Truthful(shown)
  /\ \A f \in FormsSent : form[f].at = "show" => Truthful(form[f].card)

FormsInv == FormTypes /\ AccountInv /\ IdentityInv /\ WrittenInv /\ LinkInv /\ CardInv

\* A form goes on to a place, and nothing else of it changes but what is named.
Turns(f, at) ==
  /\ DOMAIN form' = FormsSent /\ \A g \in FormsSent : DOMAIN form'[g] = FormFields
  /\ form'[f].at = at /\ \A g \in FormsSent \ {f} : form'[g] = form[g]
SameSave(f) == form'[f].next = form[f].next /\ form'[f].previous = form[f].previous
SameCard(f) == form'[f].card = form[f].card /\ form'[f].unread = form[f].unread

LEMMA ReachesTurns ==
  ASSUME FormTypes, NEW f \in FormsSent, NEW at, Reaches(f, at)
  PROVE  Turns(f, at) /\ SameSave(f) /\ SameCard(f) /\ form'[f].view = form[f].view
  BY DEF FormTypes, Reaches, Turns, SameSave, SameCard, FormFields

LEMMA ComesTurns ==
  ASSUME FormTypes, NEW f \in FormsSent, NEW view, Comes(f, view)
  PROVE  Turns(f, "answer") /\ SameSave(f) /\ SameCard(f) /\ form'[f].view = view
  BY DEF FormTypes, Comes, Turns, SameSave, SameCard, FormFields

LEMMA SaveTurns ==
  ASSUME FormTypes, NEW f \in FormsSent, NEW next, NEW previous,
         form' = [form EXCEPT ![f] = [@ EXCEPT !.at = "save", !.next = next, !.previous = previous]]
  PROVE  Turns(f, "save") /\ form'[f].next = next /\ form'[f].previous = previous
  BY DEF FormTypes, Turns, FormFields

LEMMA ShowTurns ==
  ASSUME FormTypes, NEW f \in FormsSent, NEW shown,
         \/ form' = [form EXCEPT ![f] = [@ EXCEPT !.card = shown, !.at = "show"]]
         \/ form' = [form EXCEPT ![f] = [@ EXCEPT !.card = shown, !.at = "show", !.unread = TRUE]]
  PROVE  Turns(f, "show") /\ form'[f].card = shown /\ (form'[f].unread = form[f].unread \/ form'[f].unread)
  <1>1. CASE form' = [form EXCEPT ![f] = [@ EXCEPT !.card = shown, !.at = "show"]]
    BY <1>1 DEF FormTypes, Turns, FormFields
  <1>2. CASE form' = [form EXCEPT ![f] = [@ EXCEPT !.card = shown, !.at = "show", !.unread = TRUE]]
    BY <1>2 DEF FormTypes, Turns, FormFields
  <1>3. QED
    BY <1>1, <1>2

\* Cards stay true, for they are of forms that have come to their end.
LEMMA TruthStays ==
  ASSUME NEW shown, Truthful(shown), written \subseteq written', granted \subseteq granted',
         \A f \in FormsSent : form[f].at \in AtEnd =>
            /\ form'[f].at \in AtEnd /\ (form[f].unread => form'[f].unread)
            /\ f \in written' => f \in written
  PROVE  Truthful(shown)'
  BY DEF Truthful

\* A form on its way to its answer touches no card and no request.
LEMMA EarlyTurns ==
  ASSUME FormsInv, NEW f \in FormsSent, NEW at \in {"store", "save", "answer", "over"}, Turns(f, at),
         form[f].at \in {"sent", "store", "save"}, UNCHANGED <<card, replies, link, granted>>,
         DOMAIN secrets' = DOMAIN secrets, written' = written \/ written' = written \cup {f},
         f \in written' => at \in {"answer", "over"},
         at = "answer" => form'[f].view.outcome \in Outcomes /\ (f \in written' <=> form'[f].view.outcome = "saved")
  PROVE  FormTypes' /\ WrittenInv' /\ LinkInv' /\ CardInv'
  <1>1. FormTypes'
    BY DEF FormsInv, FormTypes, Turns
  <1>2. f \notin written /\ link[f] = "none"
    BY DEF FormsInv, WrittenInv, LinkInv, AtEnd
  <1>3. WrittenInv'
    BY <1>2 DEF FormsInv, WrittenInv, Turns, AtEnd
  <1>4. LinkInv'
    BY <1>2 DEF FormsInv, LinkInv, Turns, Card
  <1>5. \A shown : Truthful(shown) => Truthful(shown)'
    BY TruthStays DEF Turns, AtEnd
  <1>6. CardInv'
    BY <1>5 DEF FormsInv, CardInv, Turns
  <1>7. QED
    BY <1>1, <1>3, <1>4, <1>6

LEMMA AccountKept ==
  ASSUME FormsInv, NEW f \in FormsSent, NEW at, Turns(f, at), UNCHANGED <<account, secrets>>,
         at \notin {"store", "save"} \/ (at = "save" /\ f.kind # "account")
  PROVE  AccountInv'
  BY DEF FormsInv, AccountInv, Turns, Connects

LEMMA IdentityKept ==
  ASSUME FormsInv, NEW f \in FormsSent, NEW at, Turns(f, at), UNCHANGED <<prefs, acts, slips>>,
         form[f].at # "save" \/ f.kind # "config", at # "save" \/ f.kind # "config"
  PROVE  IdentityInv'
  <1>1. Saving' = Saving /\ f \notin Saving
    BY DEF Saving, Turns
  <1>2. \A g \in Saving : form'[g] = form[g]
    BY <1>1 DEF Turns, Saving
  <1>3. QED
    BY <1>1, <1>2 DEF FormsInv, IdentityInv

\* A failure is no success.
LEMMA NotSaved ==
  Saved.outcome = "saved" /\ \A reason : Failure(reason).outcome # "saved" /\ Failure(reason).outcome \in Outcomes
  BY DEF Saved, Failure, Outcomes

LEMMA AnswersStep ==
  ASSUME FormsInv, NEW f \in FormsSent, Answers(f) \/ UnreadableConfig(f) \/ Validate(f)
  PROVE  FormsInv'
  <1>0. form[f].at = "sent" /\ UNCHANGED <<prefs, acts, account, secrets, card, replies, link, granted, written, slips>>
    BY DEF Answers, UnreadableConfig, Validate, Opens
  <1>1. f \notin written
    BY <1>0 DEF FormsInv, WrittenInv, AtEnd
  <1>2. ASSUME NEW view, Comes(f, view), view.outcome \in Outcomes \ {"saved"} PROVE FormsInv'
    BY <1>0, <1>1, <1>2, ComesTurns, EarlyTurns, AccountKept, IdentityKept DEF FormsInv
  <1>3. CASE Reaches(f, "over")
    BY <1>0, <1>1, <1>3, ReachesTurns, EarlyTurns, AccountKept, IdentityKept DEF FormsInv
  <1>4. CASE Reaches(f, "store") /\ Accepted(f) /\ f.kind = "account"
    <2>1. Turns(f, "store")
      BY <1>4, ReachesTurns DEF FormsInv
    <2>2. AccountInv'
      BY <1>0, <1>4, <2>1 DEF FormsInv, AccountInv, Turns, Connects
    <2>3. QED
      BY <1>0, <1>1, <2>1, <2>2, EarlyTurns, IdentityKept DEF FormsInv
  <1>5. CASE Answers(f)
    <2>1. PICK view : view = [outcome |-> f.sub, reason |-> Unset]
      OBVIOUS
    <2>2. Comes(f, view) /\ view.outcome \in Outcomes \ {"saved"}
      BY <1>5, <2>1 DEF Answers, Outcomes
    <2>3. QED
      BY <1>2, <2>2
  <1>6. CASE UnreadableConfig(f)
    BY <1>3, <1>6 DEF UnreadableConfig
  <1>7. CASE Validate(f)
    <2>1. \/ \E reason : Comes(f, Failure(reason))
          \/ Reaches(f, "store") /\ Accepted(f) /\ f.kind = "account"
      BY <1>7 DEF Validate
    <2>2. QED
      BY <1>2, <1>4, <2>1, NotSaved
  <1>8. QED
    BY <1>5, <1>6, <1>7

LEMMA SubmitConfigStep ==
  ASSUME FormsInv, NEW f \in FormsSent, SubmitConfig(f)
  PROVE  FormsInv'
  <1>0. /\ form[f].at = "sent" /\ f.kind = "config"
        /\ UNCHANGED <<prefs, account, secrets, card, replies, link, granted, written>>
    BY DEF SubmitConfig, Opens
  <1>1. f \notin written
    BY <1>0 DEF FormsInv, WrittenInv, AtEnd
  <1>2. slips' = {} => slips = {} /\ Busy("config") = {}
    BY DEF SubmitConfig
  <1>3. Saving \subseteq Busy("config")
    BY DEF Saving, Busy
  <1>4. ASSUME NEW view, Comes(f, view), view.outcome \in Outcomes \ {"saved"}, UNCHANGED acts PROVE FormsInv'
    <2>1. Turns(f, "answer") /\ form'[f].view = view
      BY <1>4, ComesTurns DEF FormsInv
    <2>2. Saving' = Saving /\ \A g \in Saving : form'[g] = form[g]
      BY <1>0, <2>1 DEF Saving, Turns
    <2>3. IdentityInv'
      BY <1>0, <1>2, <1>4, <2>2 DEF FormsInv, IdentityInv
    <2>4. QED
      BY <1>0, <1>1, <1>4, <2>1, <2>3, EarlyTurns, AccountKept DEF FormsInv
  <1>5. ASSUME NEW next, NEW previous, previous = prefs.identity,
               form' = [form EXCEPT ![f] = [@ EXCEPT !.at = "save", !.next = next, !.previous = previous]],
               acts' = next.identity \/ (UNCHANGED acts /\ next.identity = prefs.identity)
        PROVE  FormsInv'
    <2>1. Turns(f, "save") /\ form'[f].next = next /\ form'[f].previous = previous
      <3>1. FormTypes
        BY DEF FormsInv
      <3>2. form' = [form EXCEPT ![f] = [@ EXCEPT !.at = "save", !.next = next, !.previous = previous]]
        BY <1>5
      <3>3. QED
        BY <3>1, <3>2, SaveTurns
    <2>2. Saving' = Saving \cup {f}
      BY <1>0, <2>1 DEF Saving, Turns
    <2>3. slips' = {} => Saving' = {f} /\ acts = prefs.identity
      BY <1>2, <1>3, <2>2 DEF FormsInv, IdentityInv
    <2>4. IdentityInv'
      BY <1>0, <1>5, <2>1, <2>3 DEF IdentityInv
    <2>5. QED
      BY <1>0, <1>1, <2>1, <2>4, EarlyTurns, AccountKept DEF FormsInv
  <1>6. QED
    <2>1. PICK next : next = [identity |-> parseLarkCLIIdentity(f.identity, prefs.identity),
                              mention |-> parseRequireMention(f.mention, prefs.mention)]
      OBVIOUS
    <2>2. PICK previous : previous = prefs.identity
      OBVIOUS
    <2>3. \/ \E reason : Comes(f, Failure(reason)) /\ UNCHANGED acts
          \/ /\ form' = [form EXCEPT ![f] = [@ EXCEPT !.at = "save", !.next = next, !.previous = previous]]
             /\ acts' = next.identity \/ (UNCHANGED acts /\ next.identity = prefs.identity)
      BY <2>1, <2>2 DEF SubmitConfig
    <2>4. QED
      BY <1>4, <1>5, <2>2, <2>3, NotSaved

LEMMA SaveConfigStep ==
  ASSUME FormsInv, NEW f \in FormsSent, SaveConfig(f)
  PROVE  FormsInv'
  <1>0. form[f].at = "save" /\ f.kind = "config" /\ UNCHANGED <<account, secrets, card, replies, link, granted>>
    BY DEF SaveConfig
  <1>1. f \notin written /\ f \in Saving
    BY <1>0 DEF FormsInv, WrittenInv, AtEnd, Saving
  <1>2. ASSUME NEW at, Turns(f, at), at # "save", slips' = {} => slips = {} /\ acts' = prefs'.identity
        PROVE  IdentityInv'
    <2>1. Saving' = Saving \ {f}
      BY <1>0, <1>2 DEF Saving, Turns
    <2>2. slips' = {} => Saving' = {}
      BY <1>1, <1>2, <2>1 DEF FormsInv, IdentityInv
    <2>3. QED
      BY <1>2, <2>2 DEF IdentityInv
  <1>3. slips = {} => form[f].previous = prefs.identity /\ acts = form[f].next.identity
    BY <1>1 DEF FormsInv, IdentityInv
  <1>4. CASE prefs' = form[f].next /\ written' = written \cup {f} /\ Comes(f, Saved) /\ UNCHANGED <<acts, slips>>
    <2>1. Turns(f, "answer") /\ form'[f].view = Saved
      BY <1>4, ComesTurns DEF FormsInv
    <2>2. IdentityInv'
      BY <1>2, <1>3, <1>4, <2>1
    <2>3. QED
      BY <1>0, <1>4, <2>1, <2>2, EarlyTurns, AccountKept, NotSaved DEF FormsInv, Outcomes
  <1>5. CASE prefs' = form[f].next /\ written' = written \cup {f} /\ Reaches(f, "over") /\ UNCHANGED <<acts, slips>>
    <2>1. Turns(f, "over")
      BY <1>5, ReachesTurns DEF FormsInv
    <2>2. IdentityInv'
      BY <1>2, <1>3, <1>5, <2>1
    <2>3. QED
      BY <1>0, <1>5, <2>1, <2>2, EarlyTurns, AccountKept DEF FormsInv
  <1>6. CASE Comes(f, Failure("save")) /\ UNCHANGED <<prefs, written>>
             /\ \/ acts' = (IF form[f].next.identity # form[f].previous THEN form[f].previous ELSE acts) /\ UNCHANGED slips
                \/ slips' = slips \cup {"unapplied"} /\ UNCHANGED acts
    <2>1. Turns(f, "answer") /\ form'[f].view.outcome \in Outcomes \ {"saved"}
      BY <1>6, ComesTurns, NotSaved DEF FormsInv
    <2>2. IdentityInv'
      BY <1>2, <1>3, <1>6, <2>1
    <2>3. QED
      BY <1>0, <1>1, <1>6, <2>1, <2>2, EarlyTurns, AccountKept DEF FormsInv
  <1>7. QED
    BY <1>4, <1>5, <1>6 DEF SaveConfig

LEMMA StoreSecretStep ==
  ASSUME FormsInv, NEW f \in FormsSent, StoreSecret(f)
  PROVE  FormsInv'
  <1>0. /\ form[f].at = "store" /\ f.kind = "account" /\ Accepted(f)
        /\ UNCHANGED <<prefs, acts, account, card, replies, link, granted, written, slips>>
    BY DEF StoreSecret, FormsInv, AccountInv
  <1>1. f \notin written
    BY <1>0 DEF FormsInv, WrittenInv, AtEnd
  <1>2. CASE secrets' = [secrets EXCEPT ![f.app] = f.secret] /\ Reaches(f, "save")
    <2>1. Turns(f, "save")
      BY <1>2, ReachesTurns DEF FormsInv
    <2>2. PICK v \in Valid : v = <<f.app, f.secret, f.tenant>>
      BY <1>0 DEF Accepted
    <2>3. f.app = v[1] /\ f.secret = v[2] /\ f.tenant = v[3]
      BY <2>2
    <2>4. DOMAIN secrets' = DOMAIN secrets /\ secrets'[f.app] = f.secret
          /\ \A a \in DOMAIN secrets : a # f.app => secrets'[a] = secrets[a]
      BY <1>2, <2>3 DEF FormsInv, FormTypes
    <2>5. ASSUME NEW app, NEW tenant, Connects(app, tenant) PROVE Connects(app, tenant)'
      <3>1. PICK u \in Valid : u = <<app, secrets[app], tenant>>
        BY <2>5 DEF Connects
      <3>2. app = u[1] /\ tenant = u[3]
        BY <3>1
      <3>3. CASE app = f.app
        <4>1. tenant = f.tenant
          BY <2>3, <3>2, <3>3, ValidAssumption
        <4>2. QED
          BY <2>2, <2>4, <3>3, <4>1 DEF Connects
      <3>4. CASE app # f.app
        BY <2>4, <2>5, <3>2, <3>4 DEF Connects, FormsInv, FormTypes
      <3>5. QED
        BY <3>3, <3>4
    <2>6. Connects(f.app, f.tenant)'
      BY <2>2, <2>4 DEF Connects
    <2>7. AccountInv'
      BY <1>0, <2>1, <2>5, <2>6 DEF FormsInv, AccountInv, Turns
    <2>8. QED
      BY <1>0, <1>1, <2>1, <2>4, <2>7, EarlyTurns, IdentityKept DEF FormsInv
  <1>3. CASE Comes(f, Failure("store")) /\ UNCHANGED secrets
    BY <1>0, <1>1, <1>3, ComesTurns, NotSaved, EarlyTurns, AccountKept, IdentityKept DEF FormsInv
  <1>4. QED
    BY <1>2, <1>3 DEF StoreSecret

LEMMA SubmitAccountStep ==
  ASSUME FormsInv, NEW f \in FormsSent, submitAccount(f)
  PROVE  FormsInv'
  <1>0. /\ form[f].at = "save" /\ f.kind = "account" /\ Connects(f.app, f.tenant)
        /\ UNCHANGED <<prefs, acts, secrets, card, replies, link, granted, slips>>
    BY DEF submitAccount, FormsInv, AccountInv
  <1>1. f \notin written
    BY <1>0 DEF FormsInv, WrittenInv, AtEnd
  <1>2. CASE account' = [app |-> f.app, tenant |-> f.tenant] /\ written' = written \cup {f} /\ Comes(f, Saved)
    <2>1. Turns(f, "answer") /\ form'[f].view = Saved
      BY <1>2, ComesTurns DEF FormsInv
    <2>2. AccountInv'
      BY <1>0, <1>2, <2>1 DEF FormsInv, AccountInv, Turns, Connects
    <2>3. QED
      BY <1>0, <1>2, <2>1, <2>2, EarlyTurns, IdentityKept, NotSaved DEF FormsInv, Outcomes
  <1>3. CASE Comes(f, Failure("save")) /\ UNCHANGED <<account, written>>
    BY <1>0, <1>1, <1>3, ComesTurns, NotSaved, EarlyTurns, AccountKept, IdentityKept DEF FormsInv
  <1>4. QED
    BY <1>2, <1>3 DEF submitAccount

\* From its answer on nothing is written any more.
LEMMA LateTurns ==
  ASSUME FormsInv, NEW f \in FormsSent, NEW at \in AtEnd, Turns(f, at), form[f].at \in {"answer", "show"},
         UNCHANGED <<prefs, acts, account, secrets, granted, written, slips>>, DOMAIN link' = DOMAIN link,
         form'[f].unread = form[f].unread \/ form'[f].unread
  PROVE  /\ FormTypes' /\ AccountInv' /\ IdentityInv' /\ WrittenInv'
         /\ \A shown : Truthful(shown) => Truthful(shown)'
  <1>1. FormTypes'
    BY DEF FormsInv, FormTypes, Turns
  <1>2. AccountInv' /\ IdentityInv'
    BY AccountKept, IdentityKept DEF AtEnd
  <1>3. WrittenInv'
    BY DEF FormsInv, WrittenInv, Turns, AtEnd
  <1>4. \A shown : Truthful(shown) => Truthful(shown)'
    BY TruthStays DEF Turns, AtEnd
  <1>5. QED
    BY <1>1, <1>2, <1>3, <1>4

LEMMA ResponseStep ==
  ASSUME FormsInv, NEW f \in FormsSent, commandResponseCard(f)
  PROVE  FormsInv'
  <1>0. /\ form[f].at = "answer"
        /\ UNCHANGED <<prefs, acts, account, secrets, card, replies, link, granted, written, slips>>
    BY DEF commandResponseCard
  <1>1. PICK says : /\ says = form[f].view.outcome \/ says = "failed"
                    /\ \/ /\ form' = [form EXCEPT ![f] = [@ EXCEPT !.card = Card(f, says, Unset), !.at = "show"]]
                          /\ says = form[f].view.outcome
                       \/ form' = [form EXCEPT ![f] = [@ EXCEPT !.card = Card(f, says, Unset), !.at = "show", !.unread = TRUE]]
    BY DEF commandResponseCard, configResponseCard, accountResponseCard
  <1>2. PICK shown : shown = Card(f, says, Unset)
    OBVIOUS
  <1>3. /\ Turns(f, "show") /\ form'[f].card = shown
        /\ form'[f].unread = form[f].unread \/ form'[f].unread
    BY <1>1, <1>2, ShowTurns DEF FormsInv
  <1>4. says = form[f].view.outcome \/ form'[f].unread
    BY <1>1 DEF FormsInv, FormTypes, FormFields
  <1>5. FormTypes' /\ AccountInv' /\ IdentityInv' /\ WrittenInv' /\ \A s : Truthful(s) => Truthful(s)'
    BY <1>0, <1>3, LateTurns DEF AtEnd
  <1>6. Truthful(shown)'
    <2>1. shown.of = {f} /\ shown.says = says
      BY <1>2 DEF Card
    <2>2. form'[f].at = "show" /\ (f \in written <=> form[f].view.outcome = "saved")
          /\ form[f].view.outcome \in Outcomes
      BY <1>0, <1>3 DEF FormsInv, WrittenInv, Turns
    <2>3. says \in Outcomes
      BY <1>1, <2>2 DEF Outcomes
    <2>4. QED
      BY <1>0, <1>1, <1>4, <2>1, <2>2, <2>3 DEF Truthful, AtEnd, Outcomes
  <1>7. LinkInv'
    BY <1>0, <1>3 DEF FormsInv, LinkInv, Turns, Card
  <1>8. CardInv'
    BY <1>0, <1>3, <1>5, <1>6 DEF FormsInv, CardInv, Turns
  <1>9. QED
    BY <1>5, <1>7, <1>8 DEF FormsInv

LEMMA CardSendStep ==
  ASSUME FormsInv, NEW f \in FormsSent, sendCommandCardResponse(f) \/ sendAccountFailureRetryForm(f)
  PROVE  FormsInv'
  <1>0. /\ form[f].at = "show" /\ Reaches(f, "over") /\ UNCHANGED <<prefs, acts, account, secrets, granted, written, slips>>
        /\ scheduleGroupMsgScopeGrant(f) \/ UNCHANGED link
    BY DEF sendCommandCardResponse, sendAccountFailureRetryForm
  <1>1. PICK again : again = AccountFormCard(f)
    OBVIOUS
  <1>2. PICK shown : shown = form[f].card
    OBVIOUS
  <1>3. /\ UNCHANGED card \/ card' = [card EXCEPT ![f.message] = shown]
        /\ replies \subseteq replies' /\ replies' \subseteq replies \cup {shown, again}
    BY <1>1, <1>2 DEF sendCommandCardResponse, sendAccountFailureRetryForm
  <1>4. Turns(f, "over") /\ form'[f].unread = form[f].unread
    BY <1>0, ReachesTurns DEF FormsInv, SameCard
  <1>5. link[f] = "none" /\ DOMAIN link' = DOMAIN link /\ link'[f] \in {"none", "check"}
        /\ \A g \in FormsSent \ {f} : link'[g] = link[g]
    BY <1>0 DEF FormsInv, LinkInv, FormTypes, scheduleGroupMsgScopeGrant
  <1>6. FormTypes' /\ AccountInv' /\ IdentityInv' /\ WrittenInv' /\ \A s : Truthful(s) => Truthful(s)'
    BY <1>0, <1>4, <1>5, LateTurns DEF AtEnd
  <1>7. Truthful(shown)'
    BY <1>0, <1>2, <1>6 DEF FormsInv, CardInv
  <1>8. Truthful(again)'
    <2>1. again.of = {f} /\ again.says = "form"
      BY <1>1 DEF AccountFormCard, Card
    <2>2. form'[f].at \in AtEnd
      BY <1>4 DEF Turns, AtEnd
    <2>3. QED
      BY <2>1, <2>2 DEF Truthful
  <1>9. CardInv'
    <2>1. ASSUME NEW m \in DOMAIN card', NEW s, s = card'[m] PROVE Truthful(s)'
      <3>1. m \in DOMAIN card /\ (s = card[m] \/ s = shown)
        BY <1>3, <2>1
      <3>2. QED
        BY <1>6, <1>7, <3>1 DEF FormsInv, CardInv
    <2>2. ASSUME NEW s \in replies' PROVE Truthful(s)'
      BY <1>3, <1>6, <1>7, <1>8, <2>2 DEF FormsInv, CardInv
    <2>3. ASSUME NEW g \in FormsSent, form'[g].at = "show", NEW s, s = form'[g].card PROVE Truthful(s)'
      <3>1. g # f /\ form'[g] = form[g]
        BY <1>4, <2>3 DEF Turns
      <3>2. QED
        BY <1>6, <2>3, <3>1 DEF FormsInv, CardInv
    <2>4. QED
      BY <2>1, <2>2, <2>3 DEF CardInv, Truthful
  <1>10. LinkInv'
    BY <1>3, <1>4, <1>5 DEF FormsInv, LinkInv, Turns, Card
  <1>11. QED
    BY <1>6, <1>9, <1>10 DEF FormsInv

\* The request for the permission is the last thing a form does.
LEMMA RequestTurns ==
  ASSUME FormsInv, NEW f \in FormsSent, NEW state, To(f, state), link[f] # "none",
         UNCHANGED <<prefs, acts, account, secrets, form, card, written, slips>>, granted \subseteq granted'
  PROVE  /\ FormTypes' /\ AccountInv' /\ IdentityInv' /\ WrittenInv' /\ form[f].at = "over"
         /\ link'[f] = state /\ \A g \in FormsSent \ {f} : link'[g] = link[g]
         /\ \A shown : Truthful(shown) => Truthful(shown)'
  <1>1. FormTypes' /\ link'[f] = state /\ \A g \in FormsSent \ {f} : link'[g] = link[g]
    BY DEF FormsInv, FormTypes, To
  <1>2. AccountInv' /\ IdentityInv' /\ WrittenInv'
    BY DEF FormsInv, AccountInv, Connects, IdentityInv, Saving, WrittenInv
  <1>3. \A shown : Truthful(shown) => Truthful(shown)'
    BY TruthStays
  <1>4. QED
    BY <1>1, <1>2, <1>3 DEF FormsInv, LinkInv

LEMMA RequestStep ==
  ASSUME FormsInv, NEW f \in FormsSent, Prompts(f) \/ SendsLink(f) \/ waitGroupMsgScopeGrant(f)
  PROVE  FormsInv'
  <1>1. /\ UNCHANGED <<prefs, acts, account, secrets, form, card, written, slips>> /\ granted \subseteq granted'
        /\ link[f] # "none" /\ \E state : To(f, state)
    BY DEF Prompts, SendsLink, waitGroupMsgScopeGrant
  <1>2. PICK state : To(f, state)
    BY <1>1
  <1>3. /\ FormTypes' /\ AccountInv' /\ IdentityInv' /\ WrittenInv' /\ form[f].at = "over"
        /\ link'[f] = state /\ \A g \in FormsSent \ {f} : link'[g] = link[g]
        /\ \A shown : Truthful(shown) => Truthful(shown)'
    BY <1>1, <1>2, RequestTurns
  <1>4. PICK grant : grant = Card(f, "grant", Unset)
    OBVIOUS
  <1>5. PICK grantDone : grantDone = Card(f, "granted", Unset)
    OBVIOUS
  <1>6. \A g \in FormsSent : Card(g, "grant", Unset) = grant => g = f
    BY <1>4 DEF Card
  <1>7. /\ state # "lost" /\ (state = "wait" => replies' = replies \cup {grant})
        /\ replies \ {grant} \subseteq replies' /\ replies' \subseteq replies \cup {grant, grantDone}
        /\ grantDone \in replies' \ replies => f \in granted'
        /\ grant \in replies \/ grant \notin replies'  \/ state = "wait"
    <2>1. CASE Prompts(f)
      BY <1>3, <2>1 DEF Prompts, To, FormsInv, FormTypes
    <2>2. CASE SendsLink(f)
      <3>1. \/ To(f, "wait") /\ replies' = replies \cup {grant}
            \/ To(f, "cancelled") /\ UNCHANGED replies
        BY <1>4, <2>2 DEF SendsLink
      <3>2. CASE To(f, "wait") /\ replies' = replies \cup {grant}
        <4>1. state = "wait"
          BY <1>3, <3>2 DEF To, FormsInv, FormTypes
        <4>2. grantDone # grant
          BY <1>4, <1>5 DEF Card
        <4>3. QED
          BY <3>2, <4>1, <4>2
      <3>3. CASE To(f, "cancelled") /\ UNCHANGED replies
        <4>1. state = "cancelled"
          BY <1>3, <3>3 DEF To, FormsInv, FormTypes
        <4>2. QED
          BY <3>3, <4>1
      <3>4. QED
        BY <3>1, <3>2, <3>3
    <2>3. CASE waitGroupMsgScopeGrant(f)
      <3>1. \/ /\ granted' = granted \cup {f} /\ To(f, "none")
               /\ replies' = (replies \ {grant}) \cup {grantDone} \/ UNCHANGED replies
            \/ To(f, "expired") /\ UNCHANGED <<granted, replies>>
        BY <1>4, <1>5, <2>3 DEF waitGroupMsgScopeGrant
      <3>2. state \in {"none", "expired"}
        BY <1>3, <3>1 DEF To, FormsInv, FormTypes
      <3>3. grantDone # grant
        BY <1>4, <1>5 DEF Card
      <3>4. QED
        BY <3>1, <3>2, <3>3
    <2>4. QED
      BY <2>1, <2>2, <2>3, <1>1
  <1>8. LinkInv'
    <2>1. ASSUME NEW g \in FormsSent
          PROVE  /\ link'[g] # "none" => form'[g].at = "over"
                 /\ link'[g] # "lost" /\ (link'[g] = "wait" => Card(g, "grant", Unset) \in replies')
      <3>1. CASE g = f
        BY <1>1, <1>3, <1>4, <1>7, <3>1
      <3>2. CASE g # f
        BY <1>1, <1>3, <1>6, <1>7, <3>2 DEF FormsInv, LinkInv
      <3>3. QED
        BY <3>1, <3>2
    <2>2. QED
      BY <2>1 DEF LinkInv, Card
  <1>9. CardInv'
    <2>1. Truthful(grant)'
      BY <1>1, <1>3, <1>4 DEF Truthful, Card, AtEnd
    <2>2. grantDone \in replies' \ replies => Truthful(grantDone)'
      BY <1>1, <1>3, <1>5, <1>7 DEF Truthful, Card, AtEnd
    <2>3. QED
      BY <1>1, <1>3, <1>7, <2>1, <2>2 DEF FormsInv, CardInv
  <1>10. QED
    BY <1>3, <1>8, <1>9 DEF FormsInv

LEMMA FormsInitInv == SettingsInit => FormsInv
  <1> SUFFICES ASSUME SettingsInit PROVE FormsInv
    OBVIOUS
  <1>1. FormTypes /\ \A f \in FormsSent : form[f].at = "sent" /\ link[f] = "none"
    BY DEF SettingsInit, FormTypes, FormFields
  <1>2. PICK v \in Valid : account = [app |-> v[1], tenant |-> v[3]]
                         /\ secrets = [a \in {u[1] : u \in Valid} |-> IF a = v[1] THEN v[2] ELSE Unset]
    BY DEF SettingsInit
  <1>3. secrets[v[1]] = v[2] /\ v = <<v[1], v[2], v[3]>>
    BY <1>2, ValidAssumption
  <1>4. AccountInv
    BY <1>1, <1>2, <1>3 DEF AccountInv, Connects
  <1>5. acts = prefs.identity /\ replies = {} /\ written = {} /\ \A m \in DOMAIN card : card[m].of = {}
    BY DEF SettingsInit, NoCard
  <1>6. QED
    BY <1>1, <1>4, <1>5 DEF FormsInv, IdentityInv, Saving, WrittenInv, LinkInv, CardInv, Truthful

LEMMA FormsStep == FormsInv /\ [SettingsNext]_settingVars => FormsInv'
  <1> SUFFICES ASSUME FormsInv, [SettingsNext]_settingVars PROVE FormsInv'
    OBVIOUS
  <1>1. CASE UNCHANGED settingVars
    <2>1. UNCHANGED <<prefs, acts, account, secrets, form, card, replies, link, granted, written, slips>>
      BY <1>1 DEF settingVars
    <2>2. FormTypes' /\ AccountInv' /\ WrittenInv' /\ LinkInv'
      BY <2>1 DEF FormsInv, FormTypes, AccountInv, Connects, WrittenInv, LinkInv, Card
    <2>3. IdentityInv'
      BY <2>1 DEF FormsInv, IdentityInv, Saving
    <2>4. CardInv'
      BY <2>1 DEF FormsInv, CardInv, Truthful
    <2>5. QED
      BY <2>2, <2>3, <2>4 DEF FormsInv
  <1>2. CASE SettingsNext
    BY <1>2, AnswersStep, SubmitConfigStep, SaveConfigStep, StoreSecretStep, SubmitAccountStep, ResponseStep, CardSendStep,
       RequestStep DEF SettingsNext
  <1>3. QED
    BY <1>1, <1>2

LEMMA FormsInvHolds == FormsInv => FormsHeld
  <1> SUFFICES ASSUME FormsInv PROVE FormsHeld
    OBVIOUS
  <1>1. <<account.app, secrets[account.app], account.tenant>> \in Valid
    BY DEF FormsInv, AccountInv, Connects
  <1>2. slips = {} /\ Busy("config") = {} => acts = prefs.identity
    BY DEF FormsInv, IdentityInv, Saving, Busy
  <1>3. \A shown \in {card[m] : m \in DOMAIN card} \cup replies : Truthful(shown)
    BY DEF FormsInv, CardInv
  <1>4. QED
    BY <1>1, <1>2, <1>3 DEF FormsHeld, Truthful, FormsInv, LinkInv

(***************************************************************************)
(* The preferences of a profile.                                           *)
(***************************************************************************)
PreferenceFields == {"reply", "migrated", "tools", "cot", "max", "idle", "mention"}
Flags == {<<>>, <<FALSE>>, <<TRUE>>}
Typical(p) ==
  /\ DOMAIN p = PreferenceFields
  /\ p.tools \in Flags /\ Halves(p.max) /\ Halves(p.idle) /\ p.migrated \in BOOLEAN /\ p.mention \in BOOLEAN
PreferencesInv == Typical(preferences) /\ PreferencesHeld

Replies == {"card", "markdown", "text"}
LEMMA RepliesAgree ==
  ASSUME NEW p, p.migrated \in BOOLEAN
  PROVE  managedPreferenceMessageReply(p) = getMessageReply(p) /\ getMessageReply(p) \in Replies
  BY DEF managedPreferenceMessageReply, getMessageReply, Replies

LEMMA ToolsAgree ==
  ASSUME NEW p
  PROVE  managedPreferenceShowToolCalls(p) = getShowToolCalls(p) /\ getShowToolCalls(p) \in BOOLEAN
  <1>1. managedPreferenceShowToolCalls(p) <=> getShowToolCalls(p)
    BY DEF managedPreferenceShowToolCalls, getShowToolCalls
  <1>2. managedPreferenceShowToolCalls(p) \in BOOLEAN
    BY DEF managedPreferenceShowToolCalls
  <1>3. getShowToolCalls(p) \in BOOLEAN
    BY DEF getShowToolCalls
  <1>4. QED
    BY <1>1, <1>2, <1>3

LEMMA CotsAgree ==
  ASSUME NEW p
  PROVE  managedPreferenceCotMessages(p) = getCotMessages(p) /\ getCotMessages(p) \in {"brief", "detailed", "off"}
  BY DEF managedPreferenceCotMessages, getCotMessages

LEMMA MaxAgrees ==
  ASSUME NEW p, Halves(p.max)
  PROVE  getMaxConcurrentRuns(p) \in 1 .. 50
  <1>1. p.max = Absent \/ p.max[1] \in Int
    BY DEF Halves, Absent
  <1>2. QED
    BY <1>1 DEF getMaxConcurrentRuns, AtMost

LEMMA IdlesAgree ==
  ASSUME NEW p, Halves(p.idle)
  PROVE  managedPreferenceRunIdleTimeoutMinutes(p) = getRunIdleTimeoutMinutes(p) /\ getRunIdleTimeoutMinutes(p) \in 0 .. 120
  <1>1. p.idle = Absent \/ p.idle[1] \in Int
    BY DEF Halves, Absent
  <1>2. QED
    BY <1>1 DEF managedPreferenceRunIdleTimeoutMinutes, getRunIdleTimeoutMinutes, AtMost

\* What a form makes of each preference: of a field as it was shown, of one that is left out, and of one that was changed.
LEMMA ReplyRead ==
  ASSUME NEW view, view.reply \in Replies
  PROVE  getMessageReply(Again(view)) \in {view.reply, "markdown"}
  <1>1. Again(view).reply = view.reply /\ Again(view).migrated = FALSE
    BY DEF Again
  <1>2. QED
    BY <1>1 DEF getMessageReply, Replies

LEMMA ReplySubmitted ==
  ASSUME NEW old \in Replies, NEW raw, NEW again \in {old, "markdown"}, NEW p, p.reply = parseMessageReply(raw, again), p.migrated
  PROVE  /\ raw = (IF old = "card" THEN "markdown" ELSE old)
              => managedPreferenceMessageReply(p) = old \/ (old = "card" /\ managedPreferenceMessageReply(p) = "markdown")
         /\ raw = Left => managedPreferenceMessageReply(p) \in {old, "markdown"}
         /\ raw \in {"text", "markdown"} => managedPreferenceMessageReply(p) = raw
  BY DEF parseMessageReply, managedPreferenceMessageReply, Replies, Left

LEMMA ToolsSubmitted ==
  ASSUME NEW old \in BOOLEAN, NEW raw \in {"show", "hide", Left}, NEW p, p.tools = <<parseShowToolCalls(raw, old)>>
  PROVE  /\ p.tools \in Flags
         /\ raw = (IF old THEN "show" ELSE "hide") => (managedPreferenceShowToolCalls(p) <=> old)
         /\ raw = Left => (managedPreferenceShowToolCalls(p) <=> old)
         /\ raw \in {"show", "hide"} => (managedPreferenceShowToolCalls(p) <=> raw = "show")
  <1>1. PICK says : says = parseShowToolCalls(raw, old)
    OBVIOUS
  <1>2. says \in BOOLEAN /\ (raw = "show" => says = TRUE) /\ (raw = "hide" => says = FALSE) /\ (raw = Left => says = old)
    BY <1>1 DEF parseShowToolCalls, Left
  <1>3. p.tools = <<says>> /\ p.tools # Absent
    BY <1>1 DEF Absent
  <1>4. p.tools = <<TRUE>> <=> says = TRUE
    <2>1. CASE says = TRUE
      BY <1>3, <2>1
    <2>2. CASE says = FALSE
      <3>1. p.tools[1] = FALSE
        BY <1>3, <2>2
      <3>2. <<TRUE>>[1] = TRUE
        OBVIOUS
      <3>3. QED
        BY <2>2, <3>1, <3>2
    <2>3. QED
      BY <1>2, <2>1, <2>2
  <1>5. managedPreferenceShowToolCalls(p) <=> says = TRUE
    BY <1>3, <1>4 DEF managedPreferenceShowToolCalls
  <1>6. p.tools \in Flags
    BY <1>2, <1>3 DEF Flags
  <1>7. QED
    BY <1>2, <1>5, <1>6 DEF Left

LEMMA CotSubmitted ==
  ASSUME NEW old \in {"brief", "detailed", "off"}, NEW raw, NEW p, p.cot = parseCotMessages(raw, old),
         NEW now, now = managedPreferenceCotMessages(p)
  PROVE  /\ raw = old => now = old
         /\ raw = Left => now = old
         /\ raw \in {"brief", "detailed", "off"} => now = raw
  BY DEF parseCotMessages, managedPreferenceCotMessages, Left

LEMMA HugeIsLarge == Huge \in Int /\ Huge > 1000
  BY SMT DEF Huge

MaxChosen(raw, old, max) == max \in parseClampedInt(raw, old, 1, 50, FALSE)
MaxFollows(raw, old, p) ==
  /\ Halves(p.max)
  /\ raw = <<2 * old>> => getMaxConcurrentRuns(p) = old
  /\ raw # Absent /\ raw[1] \in 2 .. Huge - 1 => getMaxConcurrentRuns(p) = AtMost(raw[1] \div 2, 50)
  /\ ~(raw # Absent /\ raw[1] \in 2 .. Huge - 1) => getMaxConcurrentRuns(p) \in {old, 10, 50}
LEMMA MaxSubmitted ==
  ASSUME NEW old \in 1 .. 50, NEW raw, Halves(raw), NEW max, MaxChosen(raw, old, max), NEW p, p.max = <<2 * max>>
  PROVE  MaxFollows(raw, old, p)
  <1> DEFINE now == getMaxConcurrentRuns(p)
  <1>1. raw = Absent \/ (raw # Absent /\ raw[1] \in Int)
    BY DEF Halves, Absent
  <1>2. raw = <<2 * old>> => raw # Absent /\ raw[1] = 2 * old
    BY DEF Absent
  <1>3. max \in Int
    BY <1>1, HugeIsLarge DEF MaxChosen, parseClampedInt, AtMost
  <1>4. p.max # Absent /\ p.max[1] = 2 * max
    BY DEF Absent
  <1>5. now = (IF max < 1 THEN 10 ELSE AtMost(max, 50))
    BY <1>3, <1>4 DEF getMaxConcurrentRuns, AtMost
  <1> HIDE DEF now
  <1>6. ASSUME raw = Absent \/ raw[1] < 2
        PROVE  max = old /\ now = old
    BY <1>1, <1>5, <1>6 DEF MaxChosen, parseClampedInt, AtMost
  <1>7. ASSUME raw # Absent, raw[1] >= Huge
        PROVE  now \in {10, 50}
    <2>1. max \in {-Huge, 50}
      BY <1>1, <1>7, HugeIsLarge DEF MaxChosen, parseClampedInt
    <2>2. QED
      BY <1>5, <2>1, HugeIsLarge DEF AtMost
  <1>8. ASSUME raw # Absent, raw[1] \in 2 .. Huge - 1
        PROVE  now = AtMost(raw[1] \div 2, 50)
    <2>1. max = AtMost(raw[1] \div 2, 50)
      BY <1>1, <1>8, HugeIsLarge DEF MaxChosen, parseClampedInt, AtMost
    <2>2. max \in 1 .. 50
      BY <1>1, <1>8, <2>1, HugeIsLarge DEF AtMost
    <2>3. QED
      BY <1>5, <2>1, <2>2 DEF AtMost
  <1>9. raw = <<2 * old>> => now = old
    BY <1>2, <1>8, HugeIsLarge DEF AtMost
  <1>10. Halves(p.max)
    BY <1>3, <1>4 DEF Halves
  <1>11. QED
    BY <1>1, <1>6, <1>7, <1>8, <1>9, <1>10, HugeIsLarge DEF MaxFollows, now

IdleChosen(raw, old, minutes) == minutes \in parseClampedInt(raw, old, 0, 120, TRUE)
IdleFollows(raw, old, p) ==
  /\ Halves(p.idle)
  /\ raw = <<2 * old>> => managedPreferenceRunIdleTimeoutMinutes(p) = old
  /\ raw # Absent /\ raw[1] \in 0 .. Huge - 1 => managedPreferenceRunIdleTimeoutMinutes(p) = AtMost(raw[1] \div 2, 120)
  /\ ~(raw # Absent /\ raw[1] \in 0 .. Huge - 1) => managedPreferenceRunIdleTimeoutMinutes(p) \in {old, 0, 120}
LEMMA IdleSubmitted ==
  ASSUME NEW old \in 0 .. 120, NEW raw, Halves(raw), NEW minutes, IdleChosen(raw, old, minutes), NEW p, p.idle = <<2 * minutes>>
  PROVE  IdleFollows(raw, old, p)
  <1> DEFINE now == managedPreferenceRunIdleTimeoutMinutes(p)
  <1>1. raw = Absent \/ (raw # Absent /\ raw[1] \in Int)
    BY DEF Halves, Absent
  <1>2. raw = <<2 * old>> => raw # Absent /\ raw[1] = 2 * old
    BY DEF Absent
  <1>3. minutes \in Int
    BY <1>1, HugeIsLarge DEF IdleChosen, parseClampedInt, AtMost
  <1>4. p.idle # Absent /\ p.idle[1] = 2 * minutes
    BY DEF Absent
  <1>5. now = (IF minutes < 1 THEN 0 ELSE AtMost(minutes, 120))
    BY <1>3, <1>4 DEF managedPreferenceRunIdleTimeoutMinutes, AtMost
  <1> HIDE DEF now
  <1>6. ASSUME raw = Absent \/ raw[1] < 0
        PROVE  minutes = old /\ now = old
    BY <1>1, <1>5, <1>6 DEF IdleChosen, parseClampedInt, AtMost
  <1>7. ASSUME raw # Absent, raw[1] >= Huge
        PROVE  now \in {0, 120}
    <2>1. minutes \in {-Huge, 120}
      BY <1>1, <1>7, HugeIsLarge DEF IdleChosen, parseClampedInt
    <2>2. QED
      BY <1>5, <2>1, HugeIsLarge DEF AtMost
  <1>8. ASSUME raw # Absent, raw[1] \in 0 .. Huge - 1
        PROVE  now = AtMost(raw[1] \div 2, 120)
    <2>1. minutes = AtMost(raw[1] \div 2, 120)
      BY <1>1, <1>8, HugeIsLarge DEF IdleChosen, parseClampedInt, AtMost
    <2>2. minutes \in 0 .. 120
      BY <1>1, <1>8, <2>1, HugeIsLarge DEF AtMost
    <2>3. QED
      BY <1>5, <2>1, <2>2 DEF AtMost
  <1>9. raw = <<2 * old>> => now = old
    BY <1>2, <1>8, HugeIsLarge DEF AtMost
  <1>10. Halves(p.idle)
    BY <1>3, <1>4 DEF Halves
  <1>11. QED
    BY <1>1, <1>6, <1>7, <1>8, <1>9, <1>10, HugeIsLarge DEF IdleFollows, now

\* What the form shows, and the preferences that come of it.
LEMMA Shows ==
  ASSUME NEW p, Typical(p), NEW view, view = configSnapshot(p), NEW before, before = managedRuntimeConfig(p),
         NEW shown, shown = ConfigForm(view)
  PROVE  /\ view.reply \in Replies /\ before.reply = view.reply /\ shown.reply = (IF view.reply = "card" THEN "markdown" ELSE view.reply)
         /\ view.tools \in BOOLEAN /\ before.tools = view.tools /\ shown.tools = (IF view.tools THEN "show" ELSE "hide")
         /\ view.cot \in {"brief", "detailed", "off"} /\ before.cot = view.cot /\ shown.cot = view.cot
         /\ view.max \in 1 .. 50 /\ before.max = view.max /\ shown.max = <<2 * view.max>>
         /\ view.idle \in 0 .. 120 /\ before.idle = view.idle /\ shown.idle = <<2 * view.idle>>
         /\ view.mention \in BOOLEAN /\ before.mention = view.mention /\ shown.mention = (IF view.mention THEN "yes" ELSE "no")
         /\ DOMAIN shown = {"reply", "tools", "cot", "max", "idle", "mention"} /\ DOMAIN before = DOMAIN shown
         /\ before = view
  <1>1. view.reply = getMessageReply(p) /\ before.reply = managedPreferenceMessageReply(p)
    BY DEF configSnapshot, managedRuntimeConfig
  <1>2. view.tools = getShowToolCalls(p) /\ before.tools = managedPreferenceShowToolCalls(p)
    BY DEF configSnapshot, managedRuntimeConfig
  <1>3. view.cot = getCotMessages(p) /\ before.cot = managedPreferenceCotMessages(p)
    BY DEF configSnapshot, managedRuntimeConfig
  <1>4. view.max = getMaxConcurrentRuns(p) /\ before.max = getMaxConcurrentRuns(p)
    BY DEF configSnapshot, managedRuntimeConfig
  <1>5. view.idle = getRunIdleTimeoutMinutes(p) /\ before.idle = managedPreferenceRunIdleTimeoutMinutes(p)
    BY DEF configSnapshot, managedRuntimeConfig
  <1>6. view.mention = p.mention /\ before.mention = p.mention
    BY DEF configSnapshot, managedRuntimeConfig
  <1>7. view.reply \in Replies /\ before.reply = view.reply
    BY <1>1, RepliesAgree DEF Typical
  <1>8. view.tools \in BOOLEAN /\ before.tools = view.tools
    BY <1>2, ToolsAgree
  <1>9. view.cot \in {"brief", "detailed", "off"} /\ before.cot = view.cot
    BY <1>3, CotsAgree
  <1>10. view.max \in 1 .. 50 /\ before.max = view.max
    BY <1>4, MaxAgrees DEF Typical
  <1>11. view.idle \in 0 .. 120 /\ before.idle = view.idle
    BY <1>5, IdlesAgree DEF Typical
  <1>12. view.mention \in BOOLEAN /\ before.mention = view.mention
    BY <1>6 DEF Typical
  <1>13. /\ shown.reply = (IF view.reply = "card" THEN "markdown" ELSE view.reply)
         /\ shown.tools = (IF view.tools THEN "show" ELSE "hide") /\ shown.cot = view.cot
         /\ shown.max = <<2 * view.max>> /\ shown.idle = <<2 * view.idle>>
         /\ shown.mention = (IF view.mention THEN "yes" ELSE "no")
         /\ DOMAIN shown = {"reply", "tools", "cot", "max", "idle", "mention"}
    BY DEF ConfigForm
  <1>14. DOMAIN before = DOMAIN shown
    BY <1>13 DEF managedRuntimeConfig
  <1>15. before = view
    <2>1. /\ view = [reply |-> view.reply, tools |-> view.tools, cot |-> view.cot, max |-> view.max, idle |-> view.idle, mention |-> view.mention]
          /\ before = [reply |-> before.reply, tools |-> before.tools, cot |-> before.cot, max |-> before.max, idle |-> before.idle,
                       mention |-> before.mention]
      BY DEF configSnapshot, managedRuntimeConfig
    <2>2. QED
      BY <2>1, <1>7, <1>8, <1>9, <1>10, <1>11, <1>12
  <1>16. QED
    BY <1>7, <1>8, <1>9, <1>10, <1>11, <1>12, <1>13, <1>14, <1>15

\* Of one form: the fields it was shown with, the one that may have been changed, and the preferences that come of it.
LEMMA PreferencesStep ==
  ASSUME PreferencesInv, SubmitsForm
  PROVE  PreferencesInv'
  <1>1. PICK p : p = preferences
    OBVIOUS
  <1>2. PICK view : view = configSnapshot(p)
    OBVIOUS
  <1>3. PICK shown : shown = ConfigForm(view)
    OBVIOUS
  <1>4. PICK before : before = managedRuntimeConfig(p)
    OBVIOUS
  <1>5. /\ view.reply \in Replies /\ before.reply = view.reply /\ shown.reply = (IF view.reply = "card" THEN "markdown" ELSE view.reply)
        /\ view.tools \in BOOLEAN /\ before.tools = view.tools /\ shown.tools = (IF view.tools THEN "show" ELSE "hide")
        /\ view.cot \in {"brief", "detailed", "off"} /\ before.cot = view.cot /\ shown.cot = view.cot
        /\ view.max \in 1 .. 50 /\ before.max = view.max /\ shown.max = <<2 * view.max>>
        /\ view.idle \in 0 .. 120 /\ before.idle = view.idle /\ shown.idle = <<2 * view.idle>>
        /\ view.mention \in BOOLEAN /\ before.mention = view.mention /\ shown.mention = (IF view.mention THEN "yes" ELSE "no")
        /\ DOMAIN shown = {"reply", "tools", "cot", "max", "idle", "mention"}
    BY <1>1, <1>2, <1>3, <1>4, Shows DEF PreferencesInv
  <1>6. PICK k \in DOMAIN shown : \E v \in Offered[k] \cup {shown[k]} :
             /\ Submit(view, [shown EXCEPT ![k] = v])
             /\ sent' = [count |-> sent.count + 1, before |-> before, field |-> k, raw |-> v, same |-> v = shown[k]]
    BY <1>1, <1>2, <1>3, <1>4 DEF SubmitsForm
  <1>7. PICK value \in Offered[k] \cup {shown[k]} :
             /\ Submit(view, [shown EXCEPT ![k] = value])
             /\ sent' = [count |-> sent.count + 1, before |-> before, field |-> k, raw |-> value, same |-> value = shown[k]]
    BY <1>6
  <1>8. PICK fields : fields = [shown EXCEPT ![k] = value]
    OBVIOUS
  <1>9. PICK s : s = sent'
    OBVIOUS
  <1>10. s.before = before /\ s.field = k /\ s.raw = value /\ (s.same <=> value = shown[k])
    BY <1>7, <1>9
  <1>11. PICK q : q = preferences'
    OBVIOUS
  <1>12. PICK max \in parseClampedInt(fields.max, view.max, 1, 50, FALSE), minutes \in parseClampedInt(fields.idle, view.idle, 0, 120, TRUE) :
           q = [p EXCEPT !.reply = parseMessageReply(fields.reply, getMessageReply(Again(view))), !.migrated = TRUE,
                         !.tools = <<parseShowToolCalls(fields.tools, view.tools)>>, !.cot = parseCotMessages(fields.cot, view.cot),
                         !.max = <<2 * max>>, !.idle = <<2 * minutes>>,
                         !.mention = IF fields.mention = Left THEN view.mention ELSE fields.mention = "yes"]
    <2>1. Submit(view, fields)
      BY <1>7, <1>8
    <2>2. QED
      BY <1>1, <1>11, <2>1 DEF Submit
  <1>13. DOMAIN p = PreferenceFields
    BY <1>1 DEF PreferencesInv, Typical
  <1>14. PICK now : now = managedRuntimeConfig(q)
    OBVIOUS
  <1>15. DOMAIN q = PreferenceFields /\ DOMAIN now = DOMAIN shown
    BY <1>5, <1>12, <1>13, <1>14 DEF managedRuntimeConfig, PreferenceFields

  <1>21. /\ (k # "reply" => now.reply = before.reply \/ (before.reply = "card" /\ now.reply = "markdown"))
         /\ (k = "reply" => InForce(k, now.reply, before.reply)')
    <2>1. fields.reply = IF k = "reply" THEN value ELSE shown.reply
      BY <1>5, <1>8
    <2>2. q.reply = parseMessageReply(fields.reply, getMessageReply(Again(view))) /\ q.migrated = TRUE
          /\ now.reply = managedPreferenceMessageReply(q)
      BY <1>12, <1>13, <1>14 DEF managedRuntimeConfig, PreferenceFields
    <2>3. /\ fields.reply = (IF view.reply = "card" THEN "markdown" ELSE view.reply)
                => now.reply = view.reply \/ (view.reply = "card" /\ now.reply = "markdown")
          /\ fields.reply = Left => now.reply = view.reply \/ now.reply = "markdown"
          /\ fields.reply \in {"text", "markdown"} => now.reply = fields.reply
      <3>1. PICK old \in Replies : old = view.reply
        BY <1>5
      <3>2. PICK again \in {old, "markdown"} : again = getMessageReply(Again(view))
        BY <3>1, ReplyRead
      <3>3. PICK raw : raw = fields.reply
        OBVIOUS
      <3>4. q.reply = parseMessageReply(raw, again) /\ q.migrated
        BY <2>2, <3>2, <3>3
      <3>5. /\ raw = (IF old = "card" THEN "markdown" ELSE old)
              => managedPreferenceMessageReply(q) = old \/ (old = "card" /\ managedPreferenceMessageReply(q) = "markdown")
            /\ raw = Left => managedPreferenceMessageReply(q) \in {old, "markdown"}
            /\ raw \in {"text", "markdown"} => managedPreferenceMessageReply(q) = raw
        BY <3>4, ReplySubmitted
      <3>6. QED
        BY <2>2, <3>1, <3>3, <3>5
    <2>4. k = "reply" => value = shown.reply \/ value \in {"text", "markdown", Left}
      BY <1>7 DEF Offered
    <2>5. k # "reply" => now.reply = before.reply \/ (before.reply = "card" /\ now.reply = "markdown")
      BY <1>5, <2>1, <2>3
    <2>6. ASSUME k = "reply" PROVE InForce(k, now.reply, before.reply)'
      <3>1. k \notin DOMAIN Numbers /\ Meant(k)' = value
        BY <1>9, <1>10, <2>6 DEF Numbers, Meant
      <3>2. s.same <=> value = shown.reply
        BY <1>10, <2>6
      <3>3. IF s.same THEN now.reply = before.reply \/ (before.reply = "card" /\ now.reply = "markdown")
            ELSE IF s.raw = Left THEN now.reply = before.reply \/ now.reply = "markdown" ELSE now.reply = value
        BY <1>5, <1>10, <2>1, <2>3, <2>4, <2>6, <3>2
      <3>4. QED
        BY <1>9, <2>6, <3>1, <3>3 DEF InForce
    <2>7. QED
      BY <2>5, <2>6
  <1>22. /\ (k # "cot" => now.cot = before.cot)
         /\ (k = "cot" => InForce(k, now.cot, before.cot)')
    <2>1. fields.cot = IF k = "cot" THEN value ELSE shown.cot
      BY <1>5, <1>8
    <2>2. q.cot = parseCotMessages(fields.cot, view.cot) /\ now.cot = managedPreferenceCotMessages(q)
      BY <1>12, <1>13, <1>14 DEF managedRuntimeConfig, PreferenceFields
    <2>3. /\ fields.cot = view.cot => now.cot = view.cot
          /\ fields.cot = Left => now.cot = view.cot
          /\ fields.cot \in {"brief", "detailed", "off"} => now.cot = fields.cot
      BY <1>5, <2>2, CotSubmitted
    <2>4. k = "cot" => value = shown.cot \/ value \in {"off", "brief", "detailed", Left}
      BY <1>7 DEF Offered
    <2>5. k # "cot" => now.cot = before.cot
      BY <1>5, <2>1, <2>3
    <2>6. ASSUME k = "cot" PROVE InForce(k, now.cot, before.cot)'
      <3>1. k \notin DOMAIN Numbers /\ Meant(k)' = value
        BY <1>9, <1>10, <2>6 DEF Numbers, Meant
      <3>2. s.same <=> value = shown.cot
        BY <1>10, <2>6
      <3>3. IF s.same \/ s.raw = Left THEN now.cot = before.cot ELSE now.cot = value
        BY <1>5, <1>10, <2>1, <2>3, <2>4, <2>6, <3>2
      <3>4. QED
        BY <1>9, <2>6, <3>1, <3>3 DEF InForce
    <2>7. QED
      BY <2>5, <2>6
  <1>23. /\ q.tools \in Flags
         /\ (k # "tools" => now.tools = before.tools)
         /\ (k = "tools" => InForce(k, now.tools, before.tools)')
    <2>1. fields.tools = IF k = "tools" THEN value ELSE shown.tools
      BY <1>5, <1>8
    <2>2. q.tools = <<parseShowToolCalls(fields.tools, view.tools)>> /\ now.tools = managedPreferenceShowToolCalls(q)
      BY <1>12, <1>13, <1>14 DEF managedRuntimeConfig, PreferenceFields
    <2>3. k = "tools" => value = shown.tools \/ value \in {"show", "hide", Left}
      BY <1>7 DEF Offered
    <2>4. fields.tools \in {"show", "hide", Left}
      BY <1>5, <2>1, <2>3
    <2>5. /\ q.tools \in Flags
          /\ fields.tools = (IF view.tools THEN "show" ELSE "hide") => now.tools = view.tools
          /\ fields.tools = Left => now.tools = view.tools
          /\ fields.tools \in {"show", "hide"} => now.tools = (fields.tools = "show")
      <3>1. PICK old \in BOOLEAN : old = view.tools
        BY <1>5
      <3>2. PICK raw \in {"show", "hide", Left} : raw = fields.tools
        BY <2>4
      <3>3. q.tools = <<parseShowToolCalls(raw, old)>>
        BY <2>2, <3>1, <3>2
      <3>4. /\ q.tools \in Flags
            /\ raw = (IF old THEN "show" ELSE "hide") => (managedPreferenceShowToolCalls(q) <=> old)
            /\ raw = Left => (managedPreferenceShowToolCalls(q) <=> old)
            /\ raw \in {"show", "hide"} => (managedPreferenceShowToolCalls(q) <=> raw = "show")
        BY <3>3, ToolsSubmitted
      <3>5. managedPreferenceShowToolCalls(q) \in BOOLEAN
        BY ToolsAgree
      <3>6. QED
        BY <2>2, <3>1, <3>2, <3>4, <3>5
    <2>6. k # "tools" => now.tools = before.tools
      BY <1>5, <2>1, <2>5
    <2>7. ASSUME k = "tools" PROVE InForce(k, now.tools, before.tools)'
      <3>1. k \notin DOMAIN Numbers /\ Meant(k)' = (value = "show")
        BY <1>9, <1>10, <2>7 DEF Numbers, Meant
      <3>2. s.same <=> value = shown.tools
        BY <1>10, <2>7
      <3>3. IF s.same \/ s.raw = Left THEN now.tools = before.tools ELSE now.tools = (value = "show")
        BY <1>5, <1>10, <2>1, <2>3, <2>5, <2>7, <3>2
      <3>4. QED
        BY <1>9, <2>7, <3>1, <3>3 DEF InForce
    <2>8. QED
      BY <2>5, <2>6, <2>7
  <1>24. /\ Halves(q.max)
         /\ (k # "max" => now.max = before.max)
         /\ (k = "max" => InForce(k, now.max, before.max)')
    <2>1. fields.max = IF k = "max" THEN value ELSE shown.max
      BY <1>5, <1>8
    <2>2. q.max = <<2 * max>> /\ now.max = getMaxConcurrentRuns(q)
      BY <1>12, <1>13, <1>14 DEF managedRuntimeConfig, PreferenceFields
    <2>3. k = "max" => value = shown.max \/ value \in Typed
      BY <1>7 DEF Offered
    <2>4. PICK old \in 1 .. 50 : old = view.max
      BY <1>5
    <2>5. Halves(<<2 * old>>)
      BY DEF Halves
    <2>6. PICK raw : raw = fields.max
      OBVIOUS
    <2>7. Halves(raw)
      BY <1>5, <2>1, <2>3, <2>4, <2>5, <2>6, WrittenAssumption
    <2>8. MaxFollows(raw, old, q)
      <3>1. MaxChosen(raw, old, max)
        BY <2>4, <2>6 DEF MaxChosen
      <3>2. QED
        BY <2>2, <2>4, <2>7, <3>1, MaxSubmitted
    <2>9. k # "max" => now.max = before.max
      BY <1>5, <2>1, <2>2, <2>4, <2>6, <2>8 DEF MaxFollows
    <2>10. ASSUME k = "max" PROVE InForce(k, now.max, before.max)'
      <3>1. k \in DOMAIN Numbers /\ 2 * Numbers[k].least = 2 /\ Numbers[k].most = 50 /\ Numbers[k].otherwise = 10
        BY <2>10 DEF Numbers
      <3>2. raw = value /\ (s.same <=> value = <<2 * old>>)
        BY <1>5, <1>10, <2>1, <2>4, <2>6, <2>10
      <3>3. IF s.same THEN now.max = before.max
            ELSE IF s.raw # Absent /\ s.raw[1] \in 2 .. Huge - 1 THEN now.max = AtMost(s.raw[1] \div 2, 50)
            ELSE now.max \in {before.max, 10, 50}
        BY <1>5, <1>10, <2>2, <2>4, <2>8, <3>2 DEF MaxFollows
      <3>4. QED
        BY <1>9, <3>1, <3>3 DEF InForce
    <2>11. QED
      BY <2>8, <2>9, <2>10 DEF MaxFollows
  <1>25. /\ Halves(q.idle)
         /\ (k # "idle" => now.idle = before.idle)
         /\ (k = "idle" => InForce(k, now.idle, before.idle)')
    <2>1. fields.idle = IF k = "idle" THEN value ELSE shown.idle
      BY <1>5, <1>8
    <2>2. q.idle = <<2 * minutes>> /\ now.idle = managedPreferenceRunIdleTimeoutMinutes(q)
      BY <1>12, <1>13, <1>14 DEF managedRuntimeConfig, PreferenceFields
    <2>3. k = "idle" => value = shown.idle \/ value \in Typed
      BY <1>7 DEF Offered
    <2>4. PICK old \in 0 .. 120 : old = view.idle
      BY <1>5
    <2>5. Halves(<<2 * old>>)
      BY DEF Halves
    <2>6. PICK raw : raw = fields.idle
      OBVIOUS
    <2>7. Halves(raw)
      BY <1>5, <2>1, <2>3, <2>4, <2>5, <2>6, WrittenAssumption
    <2>8. IdleFollows(raw, old, q)
      <3>1. IdleChosen(raw, old, minutes)
        BY <2>4, <2>6 DEF IdleChosen
      <3>2. QED
        BY <2>2, <2>4, <2>7, <3>1, IdleSubmitted
    <2>9. k # "idle" => now.idle = before.idle
      BY <1>5, <2>1, <2>2, <2>4, <2>6, <2>8 DEF IdleFollows
    <2>10. ASSUME k = "idle" PROVE InForce(k, now.idle, before.idle)'
      <3>1. k \in DOMAIN Numbers /\ 2 * Numbers[k].least = 0 /\ Numbers[k].most = 120 /\ Numbers[k].otherwise = 0
        BY <2>10 DEF Numbers
      <3>2. raw = value /\ (s.same <=> value = <<2 * old>>)
        BY <1>5, <1>10, <2>1, <2>4, <2>6, <2>10
      <3>3. IF s.same THEN now.idle = before.idle
            ELSE IF s.raw # Absent /\ s.raw[1] \in 0 .. Huge - 1 THEN now.idle = AtMost(s.raw[1] \div 2, 120)
            ELSE now.idle \in {before.idle, 0, 120}
        BY <1>5, <1>10, <2>2, <2>4, <2>8, <3>2 DEF IdleFollows
      <3>4. QED
        BY <1>9, <3>1, <3>3 DEF InForce
    <2>11. QED
      BY <2>8, <2>9, <2>10 DEF IdleFollows
  <1>26. /\ q.mention \in BOOLEAN
         /\ (k # "mention" => now.mention = before.mention)
         /\ (k = "mention" => InForce(k, now.mention, before.mention)')
    <2>1. fields.mention = IF k = "mention" THEN value ELSE shown.mention
      BY <1>5, <1>8
    <2>2. PICK raw : raw = fields.mention
      OBVIOUS
    <2>3. PICK old \in BOOLEAN : old = view.mention
      BY <1>5
    <2>4. PICK new : new = q.mention
      OBVIOUS
    <2>5. new = (IF raw = Left THEN old ELSE raw = "yes")
      BY <1>12, <1>13, <2>2, <2>3, <2>4 DEF PreferenceFields
    <2>6. new \in BOOLEAN /\ (new <=> (IF raw = Left THEN old ELSE raw = "yes"))
      BY <2>5
    <2>7. now.mention = new
      BY <1>14, <2>4 DEF managedRuntimeConfig
    <2>8. k = "mention" => value = shown.mention \/ value \in {"yes", "no", Left}
      BY <1>7 DEF Offered
    <2>9. shown.mention = IF old THEN "yes" ELSE "no"
      BY <1>5, <2>3
    <2>10. before.mention = old
      BY <1>5, <2>3
    <2>11. k # "mention" => now.mention = before.mention
      BY <2>1, <2>2, <2>6, <2>7, <2>9, <2>10 DEF Left
    <2>12. ASSUME k = "mention" PROVE InForce(k, now.mention, before.mention)'
      <3>1. k \notin DOMAIN Numbers /\ Meant(k)' = (value = "yes")
        BY <1>9, <1>10, <2>12 DEF Numbers, Meant
      <3>2. raw = value /\ (s.same <=> value = shown.mention) /\ s.raw = value
        BY <1>10, <2>1, <2>2, <2>12
      <3>3. IF s.same \/ s.raw = Left THEN new = old ELSE new = (value = "yes")
        BY <2>6, <2>9, <3>2 DEF Left
      <3>4. QED
        BY <1>9, <2>7, <2>10, <2>12, <3>1, <3>3 DEF InForce
    <2>13. QED
      BY <2>4, <2>6, <2>11, <2>12

  <1>31. Typical(q)
    BY <1>12, <1>13, <1>15, <1>23, <1>24, <1>25, <1>26 DEF Typical, PreferenceFields
  <1>32. now = configSnapshot(q) /\ now.max \in 1 .. 50 /\ now.idle \in 0 .. 120
    <2>1. PICK seen : seen = configSnapshot(q)
      OBVIOUS
    <2>2. PICK form2 : form2 = ConfigForm(seen)
      OBVIOUS
    <2>3. QED
      BY <1>14, <1>31, <2>1, <2>2, Shows
  <1>33. ASSUME NEW j \in DOMAIN now
         PROVE  IF j = s.field THEN InForce(j, now[j], s.before[j])'
                ELSE now[j] = s.before[j] \/ (j = "reply" /\ s.before.reply = "card" /\ now.reply = "markdown")
    <2>1. j \in {"reply", "tools", "cot", "max", "idle", "mention"}
      BY <1>5, <1>15
    <2>2. QED
      BY <1>10, <1>21, <1>22, <1>23, <1>24, <1>25, <1>26, <2>1
  <1>34. PreferencesHeld'
    BY <1>9, <1>11, <1>14, <1>32, <1>33 DEF PreferencesHeld
  <1>35. QED
    BY <1>11, <1>31, <1>34 DEF PreferencesInv

LEMMA PreferencesInitInv == PreferencesInit => PreferencesInv
  <1> SUFFICES ASSUME PreferencesInit PROVE PreferencesInv
    OBVIOUS
  <1>1. PICK p : p = preferences
    OBVIOUS
  <1>2. Typical(p) /\ sent.count = 0
    BY <1>1, WrittenAssumption DEF PreferencesInit, Typical, PreferenceFields, Flags
  <1>3. PICK view : view = configSnapshot(p)
    OBVIOUS
  <1>4. PICK now : now = managedRuntimeConfig(p)
    OBVIOUS
  <1>5. PICK shown : shown = ConfigForm(view)
    OBVIOUS
  <1>6. now = view /\ now.max \in 1 .. 50 /\ now.idle \in 0 .. 120
    BY <1>2, <1>3, <1>4, <1>5, Shows
  <1>7. QED
    BY <1>1, <1>2, <1>3, <1>4, <1>6 DEF PreferencesInv, PreferencesHeld

\* The step of either part leaves the other as it is.
LEMMA SettingsInvariant == SettingsSpec => [](FormsInv /\ PreferencesInv)
  <1>1. SettingsInit /\ PreferencesInit => FormsInv /\ PreferencesInv
    BY FormsInitInv, PreferencesInitInv
  <1>2. FormsInv /\ PreferencesInv /\ [\/ SettingsNext /\ UNCHANGED preferenceVars
                                       \/ PreferencesNext /\ UNCHANGED settingVars]_<<settingVars, preferenceVars>>
          => (FormsInv /\ PreferencesInv)'
    <2> SUFFICES ASSUME FormsInv, PreferencesInv,
                        [\/ SettingsNext /\ UNCHANGED preferenceVars
                         \/ PreferencesNext /\ UNCHANGED settingVars]_<<settingVars, preferenceVars>>
                 PROVE  (FormsInv /\ PreferencesInv)'
      OBVIOUS
    <2>1. [SettingsNext]_settingVars /\ (UNCHANGED preferenceVars \/ SubmitsForm)
      BY DEF PreferencesNext
    <2>2. FormsInv'
      BY <2>1, FormsStep
    <2>3. ASSUME UNCHANGED preferenceVars PROVE PreferencesInv'
      BY <2>3 DEF preferenceVars, PreferencesInv, PreferencesHeld, InForce, Meant
    <2>4. PreferencesInv'
      BY <2>1, <2>3, PreferencesStep
    <2>5. QED
      BY <2>2, <2>4
  <1>3. QED
    BY <1>1, <1>2, PTL DEF SettingsSpec

(* What forms and their cards say of the settings holds, whatever fails and *)
(* however forms overlap; and the preferences a submitted form leaves are   *)
(* what it was shown and filled in with.                                    *)
THEOREM SettingsKept == SettingsSpec => []SettingsHeld
  <1>1. FormsInv /\ PreferencesInv => SettingsHeld
    BY FormsInvHolds DEF PreferencesInv, SettingsHeld
  <1>2. QED
    BY <1>1, SettingsInvariant, PTL
-----------------------------------------------------------------------------
\* A request is judged by what was so when it arrived, and whoever was let in stays vouched for.
JudgedOK(r) == r = Nothing \/ (Entries(r.seen) \subseteq vouched /\ r.known \in {NoOne, Owner})
AccessInv ==
  /\ Entries(config) \subseteq vouched /\ <<"admins", Owner>> \in vouched /\ owner \in {NoOne, Owner}
  /\ DOMAIN request = Threads /\ \A t \in Threads : JudgedOK(request[t])
DeedsInv == \A who \in deeds : <<"admins", who>> \in vouched
KeptInv == HasPath => \A k \in DOMAIN kept : kept[k] <=> k \in Entries(config)
\* An alias is under the owner that was known when it was saved.
AliasOf(key) == <<saved[key].owner, key[1], key[2]>>
AliasInv ==
  \A key \in DOMAIN saved : /\ key = <<key[1], key[2]>> /\ AliasOf(key) \in DOMAIN named
                            /\ named[AliasOf(key)] = saved[key].dir
CommandInv == AccessInv /\ DeedsInv /\ KeptInv /\ AliasInv

LEMMA EntriesIn == ASSUME NEW access PROVE \A l \in Lists : \A id : <<l, id>> \in Entries(access) <=> id \in access[l]
  BY DEF Entries
LEMMA EntriesWith ==
  ASSUME NEW access, NEW l \in Lists, NEW ids
  PROVE  Entries([m \in Lists |-> IF m = l THEN access[m] \cup ids ELSE access[m]]) = Entries(access) \cup ({l} \X ids)
  BY DEF Entries
LEMMA ListIs == ASSUME NEW r PROVE ListOf(r) \in Lists
  BY DEF ListOf, accessKind, Lists

\* Who may do what is for admins was let in as one.
LEMMA AdminsVouched ==
  ASSUME NEW r, JudgedOK(r), r # Nothing, canAdmin(r), <<"admins", Owner>> \in vouched
  PROVE  <<"admins", r.sender>> \in vouched
  <1>1. CASE IsCreator(controls(r.known), r.sender)
    BY <1>1 DEF IsCreator, controls, JudgedOK
  <1>2. CASE ~IsCreator(controls(r.known), r.sender)
    <2>1. r.sender \in r.seen.admins
      BY <1>2 DEF canAdmin, Permits, CanRunAdminCommand
    <2>2. PICK seen : seen = r.seen
      OBVIOUS
    <2>3. <<"admins", r.sender>> \in Entries(seen)
      BY <2>1, <2>2, EntriesIn DEF Lists
    <2> QED BY <2>2, <2>3 DEF JudgedOK
  <1> QED BY <1>1, <1>2

\* What an answer to /invite or /remove says is so, and what other answers said stays so.
LEMMA SavesKept ==
  ASSUME KeptInv, NEW t \in Threads, NEW next, saveAccess(t, next),
         NEW pairs, pairs = {ListOf(request[t])} \X Targets(request[t]),
         \A k : k \notin pairs => (k \in Entries(next) <=> k \in Entries(config))
  PROVE  KeptInv'
  <1>1. SUFFICES ASSUME HasPath, NEW k \in DOMAIN kept' PROVE kept'[k] <=> k \in Entries(config')
    BY DEF KeptInv
  <1>2. CASE Failed
    BY <1>1, <1>2 DEF saveAccess, KeptInv
  <1>3. CASE ~Failed
    <2>1. config' = next /\ kept' = [x \in DOMAIN kept \cup pairs |-> IF x \in pairs THEN x \in Entries(next) ELSE kept[x]]
      BY <1>1, <1>3 DEF saveAccess
    <2>2. CASE k \in pairs
      BY <2>1, <2>2
    <2>3. CASE k \notin pairs
      <3>1. k \in DOMAIN kept /\ kept'[k] = kept[k]
        BY <1>1, <2>1, <2>3
      <3>2. kept[k] <=> k \in Entries(config)
        BY <1>1, <3>1 DEF KeptInv
      <3> QED BY <2>1, <2>3, <3>1, <3>2
    <2> QED BY <2>2, <2>3
  <1> QED BY <1>2, <1>3

\* What an /invite or a /remove changes.
LEMMA InviteStep ==
  ASSUME CommandInv, NEW t \in Threads, request[t] # Nothing, ~Refuses(request[t]), handleInvite(t)
  PROVE  /\ vouched \subseteq vouched' /\ Entries(config') \subseteq vouched' /\ KeptInv' /\ UNCHANGED <<owner, named, saved>>
  <1>1. PICK r, l, ids : r = request[t] /\ l = ListOf(r) /\ ids = Targets(r)
    OBVIOUS
  <1>2. l \in Lists
    BY <1>1, ListIs
  <1>3. <<"admins", r.sender>> \in vouched
    <2>1. canAdmin(r)
      BY <1>1 DEF Refuses, isAdminCommand, handleInvite
    <2> QED BY <1>1, <2>1, AdminsVouched DEF CommandInv, AccessInv
  <1>4. PICK next : next = [m \in Lists |-> IF m = l THEN config[m] \cup ids ELSE config[m]]
    OBVIOUS
  <1>5. saveAccess(t, next) /\ vouched' = vouched \cup ({l} \X ids)
    BY <1>1, <1>3, <1>4 DEF handleInvite, mutated
  <1>6. Entries(next) = Entries(config) \cup ({l} \X ids)
    BY <1>2, <1>4, EntriesWith
  <1>7. config' \in {config, next} /\ UNCHANGED <<owner, named, saved>>
    BY <1>5 DEF saveAccess
  <1>8. Entries(config') \subseteq vouched'
    <2>1. Entries(config) \subseteq vouched
      BY DEF CommandInv, AccessInv
    <2>2. CASE config' = config
      BY <1>5, <2>1, <2>2
    <2>3. CASE config' = next
      <3>1. Entries(config') = Entries(next)
        BY <2>3
      <3> QED BY <1>5, <1>6, <2>1, <3>1
    <2> QED BY <1>7, <2>2, <2>3
  <1>9. KeptInv'
    <2>1. PICK pairs : pairs = {l} \X ids
      OBVIOUS
    <2>2. pairs = {ListOf(request[t])} \X Targets(request[t])
      BY <1>1, <2>1
    <2>3. KeptInv
      BY DEF CommandInv
    <2> QED BY <1>5, <1>6, <2>1, <2>2, <2>3, SavesKept
  <1> QED BY <1>5, <1>7, <1>8, <1>9

LEMMA RemoveStep ==
  ASSUME CommandInv, NEW t \in Threads, handleRemove(t)
  PROVE  /\ vouched' = vouched /\ Entries(config') \subseteq vouched' /\ KeptInv' /\ UNCHANGED <<owner, named, saved>>
  <1>1. PICK r, l, ids : r = request[t] /\ l = ListOf(r) /\ ids = Targets(r)
    OBVIOUS
  <1>2. l \in Lists
    BY <1>1, ListIs
  <1>4. PICK next : next = [m \in Lists |-> IF m = l THEN config[m] \ ids ELSE config[m]]
    OBVIOUS
  <1>5. saveAccess(t, next) /\ vouched' = vouched
    BY <1>1, <1>4 DEF handleRemove, mutated
  <1>6. Entries(next) = Entries(config) \ ({l} \X ids)
    BY <1>2, <1>4 DEF Entries
  <1>7. config' \in {config, next} /\ UNCHANGED <<owner, named, saved>>
    BY <1>5 DEF saveAccess
  <1>8. Entries(config') \subseteq vouched'
    <2>1. Entries(config) \subseteq vouched
      BY DEF CommandInv, AccessInv
    <2>2. CASE config' = config
      BY <1>5, <2>1, <2>2
    <2>3. CASE config' = next
      <3>1. Entries(config') = Entries(next)
        BY <2>3
      <3> QED BY <1>5, <1>6, <2>1, <3>1
    <2> QED BY <1>7, <2>2, <2>3
  <1>9. KeptInv'
    <2>1. PICK pairs : pairs = {l} \X ids
      OBVIOUS
    <2>2. pairs = {ListOf(request[t])} \X Targets(request[t])
      BY <1>1, <2>1
    <2>3. KeptInv
      BY DEF CommandInv
    <2> QED BY <1>5, <1>6, <2>1, <2>2, <2>3, SavesKept
  <1> QED BY <1>5, <1>7, <1>8, <1>9

\* An alias that is saved or removed is of one owner, scope and name; the others stay.
LEMMA AliasStep == ASSUME AliasInv, NEW t \in Threads, handleWS(t) PROVE AliasInv'
  <1>1. PICK r, full, place : r = request[t] /\ full = <<r.known, r.chat, r.name>> /\ place = <<r.chat, r.name>>
    OBVIOUS
  <1>2. CASE Failed \/ r.sub \notin {"save", "remove"}
    <2>1. named' = named /\ saved' = saved
      BY <1>1, <1>2 DEF handleWS
    <2> QED BY <2>1 DEF AliasInv, AliasOf
  <1>3. CASE ~Failed /\ r.sub = "save"
    <2>1. PICK dir : dir = effectiveCWD(r)
      OBVIOUS
    <2>2. PICK entry : entry = [owner |-> r.known, dir |-> dir]
      OBVIOUS
    <2>3. named' = Put(named, full, dir) /\ saved' = Put(saved, place, entry)
      BY <1>1, <1>3, <2>1, <2>2 DEF handleWS, scopedWorkspaceName
    <2>4. /\ DOMAIN named' = DOMAIN named \cup {full} /\ named'[full] = dir
          /\ \A n \in DOMAIN named : n # full => named'[n] = named[n]
      BY <2>3 DEF Put
    <2>5. /\ DOMAIN saved' = DOMAIN saved \cup {place} /\ saved'[place] = entry
          /\ \A n \in DOMAIN saved : n # place => saved'[n] = saved[n]
      BY <2>3 DEF Put
    <2>6. SUFFICES ASSUME NEW key \in DOMAIN saved'
                   PROVE  /\ key = <<key[1], key[2]>> /\ <<saved'[key].owner, key[1], key[2]>> \in DOMAIN named'
                          /\ named'[<<saved'[key].owner, key[1], key[2]>>] = saved'[key].dir
      BY DEF AliasInv, AliasOf
    <2>7. CASE key = place
      <3>1. key[1] = r.chat /\ key[2] = r.name /\ saved'[key] = entry
        BY <1>1, <2>5, <2>7
      <3>2. <<saved'[key].owner, key[1], key[2]>> = full /\ saved'[key].dir = dir
        BY <1>1, <2>2, <3>1
      <3> QED BY <1>1, <2>4, <2>7, <3>1, <3>2
    <2>8. CASE key # place
      <3>1. key \in DOMAIN saved /\ saved'[key] = saved[key]
        BY <2>5, <2>6, <2>8
      <3>2. PICK o, a, b, n : o = saved[key].owner /\ a = key[1] /\ b = key[2] /\ n = <<o, a, b>>
        OBVIOUS
      <3>3. key = <<a, b>> /\ n \in DOMAIN named /\ named[n] = saved[key].dir
        BY <3>1, <3>2 DEF AliasInv, AliasOf
      <3>4. n # full
        BY <1>1, <2>8, <3>2, <3>3
      <3> QED BY <2>4, <3>1, <3>2, <3>3, <3>4
    <2> QED BY <2>7, <2>8
  <1>4. CASE ~Failed /\ r.sub = "remove"
    <2>1. named' = removeWorkspaceAlias(r, r.name) /\ saved' = Without(saved, place)
      BY <1>1, <1>4 DEF handleWS
    <2>2. PICK gone : gone \in {full, <<r.name>>} /\ named' = Without(named, gone)
      BY <1>1, <2>1 DEF removeWorkspaceAlias, scopedWorkspaceName
    <2>3. DOMAIN named' = DOMAIN named \ {gone} /\ \A n \in DOMAIN named : n # gone => named'[n] = named[n]
      BY <2>2 DEF Without
    <2>4. DOMAIN saved' = DOMAIN saved \ {place} /\ \A n \in DOMAIN saved : n # place => saved'[n] = saved[n]
      BY <2>1 DEF Without
    <2>6. SUFFICES ASSUME NEW key \in DOMAIN saved'
                   PROVE  /\ key = <<key[1], key[2]>> /\ <<saved'[key].owner, key[1], key[2]>> \in DOMAIN named'
                          /\ named'[<<saved'[key].owner, key[1], key[2]>>] = saved'[key].dir
      BY DEF AliasInv, AliasOf
    <2>7. key \in DOMAIN saved /\ key # place /\ saved'[key] = saved[key]
      BY <2>4, <2>6
    <2>8. PICK o, a, b, n : o = saved[key].owner /\ a = key[1] /\ b = key[2] /\ n = <<o, a, b>>
      OBVIOUS
    <2>9. key = <<a, b>> /\ n \in DOMAIN named /\ named[n] = saved[key].dir
      BY <2>7, <2>8 DEF AliasInv, AliasOf
    <2>10. n # full
      BY <1>1, <2>7, <2>8, <2>9
    <2>11. n # <<r.name>>
      BY <2>8
    <2> QED BY <2>2, <2>3, <2>7, <2>8, <2>9, <2>10, <2>11
  <1> QED BY <1>2, <1>3, <1>4

\* What follows of the access and of the requests in hand when somebody may have been let in.
LEMMA RequestsStay ==
  ASSUME AccessInv, vouched \subseteq vouched', owner' \in {NoOne, Owner}, Entries(config') \subseteq vouched',
         NEW t \in Threads, NEW r, request' = [request EXCEPT ![t] = r], JudgedOK(r)'
  PROVE  AccessInv'
  <1>1. DOMAIN request' = Threads /\ request'[t] = r /\ \A u \in Threads \ {t} : request'[u] = request[u]
    BY DEF AccessInv
  <1>2. ASSUME NEW u \in Threads PROVE JudgedOK(request[u])'
    <2>1. CASE u = t
      BY <1>1, <2>1 DEF JudgedOK
    <2>2. CASE u # t
      <3>1. request'[u] = request[u] /\ JudgedOK(request[u])
        BY <1>1, <2>2 DEF AccessInv
      <3> QED BY <3>1 DEF JudgedOK
    <2> QED BY <2>1, <2>2
  <1> QED BY <1>1, <1>2 DEF AccessInv

LEMMA HandleStep == ASSUME CommandInv, NEW t \in Threads, Handle(t) PROVE CommandInv'
  <1>1. PICK r : r = request[t]
    OBVIOUS
  <1>2. r # Nothing /\ ~Refuses(r) /\ JudgedOK(r) /\ <<"admins", Owner>> \in vouched /\ owner \in {NoOne, Owner}
        /\ Entries(config) \subseteq vouched
    BY <1>1 DEF Handle, CommandInv, AccessInv
  <1>3. /\ vouched \subseteq vouched' /\ Entries(config') \subseteq vouched' /\ KeptInv' /\ AliasInv' /\ owner' = owner
    <2>1. CASE handleInvite(t)
      <3>1. AliasInv
        BY DEF CommandInv
      <3>2. UNCHANGED <<owner, named, saved>>
        BY <1>1, <1>2, <2>1, InviteStep
      <3> QED BY <1>1, <1>2, <2>1, <3>1, <3>2, InviteStep DEF AliasInv, AliasOf
    <2>2. CASE handleRemove(t)
      <3>1. AliasInv
        BY DEF CommandInv
      <3>2. UNCHANGED <<owner, named, saved>>
        BY <2>2, RemoveStep
      <3> QED BY <2>2, <3>1, <3>2, RemoveStep DEF AliasInv, AliasOf
    <2>3. CASE handleWS(t)
      <3>1. UNCHANGED <<config, owner, kept, vouched>>
        BY <2>3 DEF handleWS
      <3> QED BY <1>2, <2>3, <3>1, AliasStep DEF CommandInv, KeptInv
    <2>4. CASE handleCD(t) \/ handleNewChat(t) \/ handleStop(t) \/ handleTimeout(t) \/ handleExit(t)
      <3>1. UNCHANGED <<config, owner, named, kept, vouched, saved>>
        BY <2>4 DEF handleCD, handleNewChat, handleStop, handleTimeout, handleExit
      <3> QED BY <1>2, <3>1 DEF CommandInv, KeptInv, AliasInv, AliasOf
    <2> QED BY <2>1, <2>2, <2>3, <2>4 DEF Handle
  <1>4. AccessInv'
    <2>1. request' = [request EXCEPT ![t] = Nothing] /\ JudgedOK(Nothing)'
      BY DEF Handle, Answered, JudgedOK
    <2> QED BY <1>2, <1>3, <2>1, RequestsStay DEF CommandInv
  <1>5. DeedsInv'
    <2>1. isAdminCommand(r) \/ Elsewhere(r) => <<"admins", r.sender>> \in vouched
      BY <1>2, AdminsVouched DEF Refuses
    <2>2. deeds' = IF isAdminCommand(r) \/ Elsewhere(r) THEN deeds \cup {r.sender} ELSE deeds
      BY <1>1 DEF Handle
    <2> QED BY <1>3, <2>1, <2>2 DEF CommandInv, DeedsInv
  <1> QED BY <1>3, <1>4, <1>5 DEF CommandInv

LEMMA ArrivesStep == ASSUME CommandInv, NEW t \in Threads, Arrives(t) PROVE CommandInv'
  <1>1. PICK q \in Requests : request' = [request EXCEPT ![t] = Judged(q, config, owner)]
    BY DEF Arrives
  <1>2. PICK r : r = Judged(q, config, owner)
    OBVIOUS
  <1>3. r.seen = config /\ r.known = owner
    BY <1>2 DEF Judged
  <1>4. UNCHANGED <<config, owner, named, kept, vouched, saved, deeds>>
    BY DEF Arrives
  <1>5. PICK access : access = config
    OBVIOUS
  <1>6. Entries(access) \subseteq vouched' /\ r.seen = access /\ r.known \in {NoOne, Owner}
    BY <1>3, <1>4, <1>5 DEF CommandInv, AccessInv
  <1>7. JudgedOK(r)'
    BY <1>6 DEF JudgedOK
  <1>8. AccessInv'
    BY <1>1, <1>2, <1>4, <1>7, RequestsStay DEF CommandInv, AccessInv
  <1> QED BY <1>4, <1>8 DEF CommandInv, DeedsInv, KeptInv, AliasInv, AliasOf

LEMMA CommandStep == CommandInv /\ [CommandNext]_commandVars => CommandInv'
  <1> SUFFICES ASSUME CommandInv, [CommandNext]_commandVars PROVE CommandInv'
    OBVIOUS
  <1>1. ASSUME NEW t \in Threads, Refused(t) PROVE CommandInv'
    <2>1. UNCHANGED <<config, owner, named, kept, vouched, saved, deeds>> /\ request' = [request EXCEPT ![t] = Nothing]
      BY <1>1 DEF Refused, Answered
    <2>2. JudgedOK(Nothing)'
      BY DEF JudgedOK
    <2>3. AccessInv'
      BY <2>1, <2>2, RequestsStay DEF CommandInv, AccessInv
    <2> QED BY <2>1, <2>3 DEF CommandInv, DeedsInv, KeptInv, AliasInv, AliasOf
  <1>2. CASE UNCHANGED commandVars
    BY <1>2 DEF commandVars, CommandInv, AccessInv, JudgedOK, DeedsInv, KeptInv, AliasInv, AliasOf
  <1>3. CASE OwnerBecomesKnown
    BY <1>3 DEF OwnerBecomesKnown, CommandInv, AccessInv, JudgedOK, DeedsInv, KeptInv, AliasInv, AliasOf
  <1>4. ASSUME NEW r \in Requests, RunBegins(r.chat) PROVE CommandInv'
    BY <1>4 DEF RunBegins, CommandInv, AccessInv, JudgedOK, DeedsInv, KeptInv, AliasInv, AliasOf
  <1> QED BY <1>1, <1>2, <1>3, <1>4, ArrivesStep, HandleStep DEF CommandNext

\* Whoever may use the bot was let in by somebody who was let in as an admin, and so was whoever did
\* what is for admins, however commands overlap that were judged by what was so before; what the
\* answers to /invite and /remove said last is so; and an alias is found as it was saved last
\* (service.go: Handle, mutateRootProfile, scopedWorkspaceName).
THEOREM CommandsObey == CommandSpec => []CommandsHeld
  <1>1. CommandInit => CommandInv
    BY DEF CommandInit, CommandInv, AccessInv, JudgedOK, DeedsInv, KeptInv, AliasInv, AliasOf
  <1>2. CommandInv => CommandsHeld
    <2> SUFFICES ASSUME CommandInv PROVE CommandsHeld
      OBVIOUS
    <2>1. ASSUME NEW key \in DOMAIN saved, saved[key].owner = owner
          PROVE  workspaceAlias([known |-> owner, chat |-> key[1]], key[2]) = saved[key].dir
      BY <2>1 DEF workspaceAlias, scopedWorkspaceName, CommandInv, AliasInv, AliasOf
    <2> QED BY <2>1 DEF CommandInv, AccessInv, DeedsInv, KeptInv, CommandsHeld
  <1> QED BY <1>1, <1>2, CommandStep, PTL DEF CommandSpec
=============================================================================
