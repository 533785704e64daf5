------------------------------ MODULE EventLog ------------------------------
(***************************************************************************)
(* What a run execution promises its subscribers: one log of events that   *)
(* only grows until it is sealed, and for every subscriber, whenever it    *)
(* came, the log's events from the first one on, in order and each once;   *)
(* its stream ends with the whole sealed log unless it gave up itself.     *)
(***************************************************************************)
EXTENDS Naturals, Sequences

CONSTANTS Events, Subscribers

VARIABLES log, sealed, view, over, left

logVars == <<log, sealed, view, over, left>>

LogInit ==
  /\ log = <<>> /\ sealed = FALSE
  /\ view = [c \in Subscribers |-> <<>>]
  /\ over = {} /\ left = {}

\* An event is added; it may be the last one.
Publish(e) ==
  /\ ~sealed
  /\ log' = Append(log, e)
  /\ sealed' \in BOOLEAN
  /\ UNCHANGED <<view, over, left>>
Seal == ~sealed /\ sealed' = TRUE /\ UNCHANGED <<log, view, over, left>>
Show(c) ==
  /\ c \notin over
  /\ Len(view[c]) < Len(log)
  /\ view' = [view EXCEPT ![c] = Append(@, log[Len(@) + 1])]
  /\ UNCHANGED <<log, sealed, over, left>>
End(c) ==
  /\ c \notin over /\ sealed /\ view[c] = log
  /\ over' = over \cup {c}
  /\ UNCHANGED <<log, sealed, view, left>>
Leave(c) ==
  /\ c \notin over
  /\ over' = over \cup {c} /\ left' = left \cup {c}
  /\ UNCHANGED <<log, sealed, view>>

LogNext ==
  \/ \E e \in Events : Publish(e)
  \/ Seal
  \/ \E c \in Subscribers : Show(c) \/ End(c) \/ Leave(c)

LogSpec == LogInit /\ [][LogNext]_logVars
=============================================================================
