------------------------------ MODULE FinalDelivery ------------------------------
(***************************************************************************)
(* How a message or card leaves the bridge: SendMessage and SendCard of    *)
(* oapi_transport.go, and final_delivery.go for the last answer of a run,  *)
(* which is split into parts, each sent until Lark says that it has it.    *)
(* Lark is external: a request may get lost, come to nothing, or be done   *)
(* with its answer lost, even after the sender gave it up; and it does     *)
(* only once what comes twice under one id of a delivery.                  *)
(***************************************************************************)
EXTENDS Naturals, FiniteSets, Sequences

CONSTANTS Senders,
          Orders,        \* what may be sent: [kind, parts, final, replyTo, inThread, thread, known]
          MaxDeliveryFaults

VARIABLES sending,   \* sender -> [at, order, part, attempt, id, made, first, outcome]
          timeline,      \* the messages of the chat in order, [by, part, id, reply]
          flying,    \* requests given up that may still arrive
          ids,       \* number of ids of deliveries made so far
          over,      \* senders whose context is over
          deliveryFaults
deliveryVars == <<sending, timeline, flying, ids, over, deliveryFaults>>

Attempts == 3
NoSending == [at |-> "idle", order |-> <<>>, part |-> 0, attempt |-> 0, id |-> 0, first |-> 0, outcome |-> "none"]
DeliveryInit ==
  /\ sending = [s \in Senders |-> NoSending] /\ timeline = <<>> /\ flying = {} /\ ids = 0 /\ over = {} /\ deliveryFaults = 0
-----------------------------------------------------------------------------
validateThreadSend(order) == (order.thread \/ order.inThread) => order.replyTo
directMessageContent(order) == order.kind # "empty"
\* A reply needs no kind of receiver, and every other one must be told by its id.
sendDirectReaches(order) == order.replyTo \/ order.known

Returns(s, outcome) == sending' = [sending EXCEPT ![s].at = "done", ![s].outcome = outcome]
Begins(s) == sending[s].at = "idle"
SendMessage(s, order) ==
  /\ Begins(s)
  /\ LET d == [NoSending EXCEPT !.order = order, !.part = 1] IN
     sending' = [sending EXCEPT ![s] =
       IF ~validateThreadSend(order) \/ ~directMessageContent(order) THEN [d EXCEPT !.at = "done", !.outcome = "refused"]
       ELSE IF order.final THEN [d EXCEPT !.at = "part"]
       ELSE IF order.inThread THEN [d EXCEPT !.at = "sends"] ELSE [d EXCEPT !.at = "channel"]]
  /\ UNCHANGED <<timeline, flying, ids, over, deliveryFaults>>

\* The channel of the SDK, whose own retries are its own: the message comes or does not.
ChannelSend(s) ==
  /\ sending[s].at = "channel"
  /\ \/ timeline' = Append(timeline, [by |-> s, part |-> 1, id |-> 0]) /\ Returns(s, "sent") /\ UNCHANGED deliveryFaults
     \/ deliveryFaults < MaxDeliveryFaults /\ deliveryFaults' = deliveryFaults + 1 /\ Returns(s, "failed") /\ UNCHANGED timeline
  /\ UNCHANGED <<flying, ids, over>>

\* A part has one id for all of its attempts.
newDeliveryID(s) ==
  /\ sending[s].at = "part" /\ ids' = ids + 1
  /\ sending' = [sending EXCEPT ![s].at = IF s \in over THEN "done" ELSE "sends", ![s].outcome = IF s \in over THEN "ended" ELSE @,
                                ![s].attempt = 1, ![s].id = ids + 1]
  /\ UNCHANGED <<timeline, flying, over, deliveryFaults>>

Has(id) == id # 0 /\ \E n \in DOMAIN timeline : timeline[n].id = id
Place(s) == IF Has(sending[s].id) THEN CHOOSE n \in DOMAIN timeline : timeline[n].id = sending[s].id ELSE Len(timeline) + 1
Shows(s) == IF Has(sending[s].id) THEN timeline ELSE Append(timeline, [by |-> s, part |-> sending[s].part, id |-> sending[s].id])
retryableDeliveryError(failure) == failure \in {"network", "throttled"}

\* After a part that Lark has the next one is due, and the first one is what is answered with.
sendFinalMessage(s) ==
  LET d == sending[s]   first == IF d.first = 0 THEN Place(s) ELSE d.first   more == d.order.final /\ d.part < d.order.parts IN
  sending' = [sending EXCEPT ![s] = [d EXCEPT !.first = first, !.at = IF more THEN "part" ELSE "done",
                                              !.part = IF more THEN @ + 1 ELSE @, !.outcome = IF more THEN @ ELSE "sent"]]
sendDirect(s) ==
  /\ sending[s].at = "sends" /\ sendDirectReaches(sending[s].order)
  /\ timeline' = Shows(s) /\ sendFinalMessage(s) /\ UNCHANGED <<flying, ids, over, deliveryFaults>>
\* What may fail: without a trace, on the way back, with the request still on its way, or by the
\* answer of Lark, which may also lack the id of a message that is there.
sendDirectFails(s) ==
  /\ sending[s].at = "sends" /\ (sendDirectReaches(sending[s].order) => deliveryFaults < MaxDeliveryFaults)
  /\ deliveryFaults' = IF sendDirectReaches(sending[s].order) THEN deliveryFaults + 1 ELSE deliveryFaults
  /\ \E failure \in IF sendDirectReaches(sending[s].order) THEN {"network", "throttled", "code", "no id"} ELSE {"receiver"} :
       /\ IF retryableDeliveryError(failure) /\ sending[s].order.final /\ sending[s].attempt < Attempts
            THEN sending' = [sending EXCEPT ![s].at = "waits"] ELSE Returns(s, failure)
       /\ \/ failure # "no id" /\ UNCHANGED <<timeline, flying>>
          \/ failure \in {"network", "no id"} /\ timeline' = Shows(s) /\ UNCHANGED flying
          \/ /\ failure = "network" /\ UNCHANGED timeline
             /\ flying' = flying \cup {[by |-> s, part |-> sending[s].part, id |-> sending[s].id]}
  /\ UNCHANGED <<ids, over>>
\* The pause before the next attempt, in which the context may end.
WaitIsOver(s) ==
  /\ sending[s].at = "waits"
  /\ \/ s \notin over /\ sending' = [sending EXCEPT ![s].at = "sends", ![s].attempt = @ + 1]
     \/ s \in over /\ Returns(s, "ended")
  /\ UNCHANGED <<timeline, flying, ids, over, deliveryFaults>>
ContextEnds(s) ==
  /\ sending[s].at \in {"part", "waits"} /\ s \notin over /\ over' = over \cup {s}
  /\ UNCHANGED <<sending, timeline, flying, ids, deliveryFaults>>
Arrives ==
  /\ \E m \in flying : flying' = flying \ {m} /\ timeline' = IF Has(m.id) THEN timeline ELSE Append(timeline, m)
  /\ UNCHANGED <<sending, ids, over, deliveryFaults>>
DeliveryNext ==
  \/ \E s \in Senders : \/ \E order \in Orders : SendMessage(s, order)
                        \/ ChannelSend(s) \/ newDeliveryID(s) \/ sendDirect(s) \/ sendDirectFails(s) \/ WaitIsOver(s) \/ ContextEnds(s)
  \/ Arrives
-----------------------------------------------------------------------------
Of(s) == SelectSeq(timeline, LAMBDA m : m.by = s)

\* Whatever gets lost on the way there or back, and however late it comes, the parts of an answer
\* are in the chat once and in their order, with none left out between two
\* (final_delivery.go: sendFinalMessage, one id for every attempt of a part).
PartsOnce == \A s \in Senders : \A n \in DOMAIN Of(s) : Of(s)[n].part = n

\* An answer reported as sent is all there, from the message it is reported as; one that was given
\* up has all of its parts but those from the one that failed on, or that one as well.
SentIsThere ==
  \A s \in Senders : LET d == sending[s] IN
    /\ d.outcome = "sent" => Len(Of(s)) = IF d.order.final THEN d.order.parts ELSE 1
    /\ d.first # 0 => timeline[d.first] = Of(s)[1]
    /\ d.outcome = "refused" => Of(s) = <<>>
    /\ d.outcome \in {"network", "throttled", "code", "no id", "receiver", "ended"} => Len(Of(s)) \in {d.part - 1, d.part}

DeliveriesHeld == PartsOnce /\ SentIsThere
=============================================================================
