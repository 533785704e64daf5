------------------------------ MODULE Published ------------------------------
(***************************************************************************)
(* What a run shows step by step: the events of its process message, and   *)
(* the updates of a managed card, which share nothing but the platform.    *)
(***************************************************************************)
EXTENDS CotPublisher, ManagedCards

PublishedInit == CotInit /\ CardsInit
PublishedNext == \/ CotNext /\ UNCHANGED cardVars
                 \/ CardsNext /\ UNCHANGED cotVars
PublishedSpec == PublishedInit /\ [][PublishedNext]_<<cotVars, cardVars>>

\* What is told to the platform step by step arrives in the order it was made: the
\* events of a process message, and the numbered updates of a managed card.
PublishedInOrder == ProcessTold /\ SequenceFollows
=============================================================================
