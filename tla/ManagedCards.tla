---------------------------- MODULE ManagedCards ----------------------------
(***************************************************************************)
(* A managed card, internal/app/cardmanaged/managed.go, sent and then      *)
(* updated by several callers at once.  An update carries the number after *)
(* the one its caller read, and the platform (external) takes no number    *)
(* that is not greater than the last.  A call that fails has had no effect *)
(* (assumption).                                                           *)
(***************************************************************************)
EXTENDS Naturals

CONSTANTS Callers, MaxUpdates   \* MaxUpdates bounds the numbers

VARIABLES entry,     \* byMessageID of the card's message
          card,      \* the platform's: whether it was sent, by its id or raw, and its last number
          caller,    \* per caller of Update: at, and its copy of the entry
          forgotten  \* history
cardVars == <<entry, card, caller, forgotten>>

NoEntry == [kind |-> "none", sequence |-> 0]
CardsInit ==
  /\ entry = NoEntry /\ card = NoEntry /\ forgotten = FALSE
  /\ caller = [c \in Callers |-> [at |-> "idle", entry |-> NoEntry]]

\* Send: the card by its id, and where that is refused as a message.
Send ==
  /\ card.kind = "none"
  /\ \E k \in {"card-id", "raw-card"} :
       card' = [kind |-> k, sequence |-> 0] /\ entry' = [kind |-> k, sequence |-> 0]
  /\ UNCHANGED <<caller, forgotten>>

\* Update in three steps: the copy with its next number, the call, the copy stored.
UpdateReads(c) ==
  /\ caller[c].at = "idle" /\ entry.kind # "none" /\ entry.sequence < MaxUpdates
  /\ caller' = [caller EXCEPT ![c] = [at |-> "call", entry |-> [entry EXCEPT !.sequence = @ + 1]]]
  /\ UNCHANGED <<entry, card, forgotten>>

\* Mutant of UpdateCalls: what was refused is stored too.
UpdateCallsBlind(c) ==
  LET n == caller[c].entry.sequence
      newer == card.kind = "raw-card" \/ n > card.sequence IN
  /\ caller[c].at = "call"
  /\ card' = IF newer THEN [card EXCEPT !.sequence = n] ELSE card
  /\ caller' = [caller EXCEPT ![c].at = "store"]
  /\ UNCHANGED <<entry, forgotten>>

UpdateCalls(c) ==
  LET n == caller[c].entry.sequence
      newer == card.kind = "raw-card" \/ n > card.sequence IN
  /\ caller[c].at = "call"
  /\ \/ newer /\ card' = [card EXCEPT !.sequence = n] /\ caller' = [caller EXCEPT ![c].at = "store"]
     \/ UNCHANGED card /\ caller' = [caller EXCEPT ![c].at = "idle"]
  /\ UNCHANGED <<entry, forgotten>>

UpdateStores(c) ==
  /\ caller[c].at = "store" /\ entry' = caller[c].entry
  /\ caller' = [caller EXCEPT ![c].at = "idle"]
  /\ UNCHANGED <<card, forgotten>>

Forget ==
  /\ entry.kind # "none" /\ entry' = NoEntry /\ forgotten' = TRUE /\ UNCHANGED <<card, caller>>

CardsNext == Send \/ Forget \/ \E c \in Callers : UpdateReads(c) \/ UpdateCalls(c) \/ UpdateStores(c)
CardsSpec == CardsInit /\ [][CardsNext]_cardVars

\* The number that is stored follows the platform's: however updates overlap, the
\* next one made when none is under way is one the platform takes.
SequenceFollows ==
  (card.kind = "card-id" /\ entry.kind # "none" /\ \A c \in Callers : caller[c].at # "store")
    => entry.sequence >= card.sequence \/ forgotten
=============================================================================
