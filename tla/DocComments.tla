------------------------------ MODULE DocComments ------------------------------
(***************************************************************************)
(* A mention of the bot in a comment of a document, internal/app/comments  *)
(* with the calls of internal/adapters/lark/oapi_comments.go: the document *)
(* and the question are found, one run is started for the mention in a     *)
(* scope of its own, and its answer becomes a comment.  All mentions in a  *)
(* document share one session, which only one run at a time may resume.    *)
(***************************************************************************)
EXTENDS Naturals, Sequences, FiniteSets
LOCAL INSTANCE SequencesExt
LOCAL INSTANCE FiniteSetsExt

CONSTANTS Mentions,    \* records [doc, type, reply, mentioned, self]
          WikiOf,      \* what a token of the wiki stands for: token -> [doc, type]
          ThreadOf,    \* mention -> [page, replies]: on which page of the list of comments it is, 0 if it
                       \* is found at once, and its replies in order, [id, question]
          PageLimit,
          Agent, Policy, Watched,   \* the agent, the policy fingerprint, mentions whose run has a timeout
          Configured, Default, Usable,\* directory set for a key of a document, or ""; those that work
          Remembered,  \* what may be recorded at first: <<key, dir, policy>> -> session
          OutputsOf,   \* mention -> what its agent may do: sequences of [type, phase, session]
          MaxMentions, MaxCommentFaults   \* bounds: of the mentions handled, of what fails

VARIABLES mention,   \* mention -> where its handling is and what it has found out
          docRuns,   \* document -> mentions of it that are being handled, when there are any
          sessions,  \* <<key, dir, policy>> -> the session recorded last
          typing,    \* replies that show the reaction
          comments,  \* mention -> the answers it has got
          halted,    \* whether the bridge is closing
          commentFaults
commentVars == <<mention, docRuns, sessions, typing, comments, halted, commentFaults>>

Supported == {"doc", "docx", "sheet", "file"}
New(doc) == <<"new", doc>>       \* DocumentSessionScopeKey, of a digest
Legacy(doc) == <<"old", doc>>    \* the key of before
Fails == commentFaults < MaxCommentFaults /\ commentFaults' = commentFaults + 1
Fine == UNCHANGED commentFaults
Blank == [at |-> "new", target |-> "", dir |-> "", reaction |-> {}, marked |-> FALSE, resumed |-> {}, output |-> <<>>,
          heard |-> <<>>, answer |-> <<>>, error |-> FALSE, late |-> FALSE, said |-> <<>>, left |-> FALSE]
Answers(m) == comments' = [comments EXCEPT ![m] = @ + 1]
Moves(m, next) == mention' = [mention EXCEPT ![m] = next]
-----------------------------------------------------------------------------
\* A token that is none of the wiki, or cannot be looked up, is that of a document.
ResolveCommentTarget(m, found) == IF found /\ m.doc \in DOMAIN WikiOf THEN WikiOf[m.doc] ELSE [doc |-> m.doc, type |-> m.type]
\* The reply of the event, or the last one if it is not there; on a page beyond the limit no reply is.
findCommentFromList(m) == IF ThreadOf[m].page <= PageLimit THEN ThreadOf[m].replies ELSE <<>>
ExtractCommentQuestionFromReplies(m) ==
  LET replies == findCommentFromList(m)
      named == {i \in DOMAIN replies : replies[i].id = m.reply}
  IN IF replies = <<>> THEN <<>>
     ELSE IF named # {} THEN <<replies[CHOOSE i \in named : \A j \in named : i <= j]>> ELSE <<replies[Len(replies)]>>
Asks(m) == LET reply == ExtractCommentQuestionFromReplies(m) IN reply # <<>> /\ reply[1].question

\* The first that works of the document's directory, the profile's and the one the bridge keeps.
cwdForFirst(doc) == IF Configured[New(doc)] # "" THEN Configured[New(doc)] ELSE Configured[Legacy(doc)]
resolveCommentWorkingDirectory(doc) ==
  LET choices == SelectSeq(<<cwdForFirst(doc), Default, "managed">>, LAMBDA d : d # "" /\ d \in Usable)
  IN IF choices = <<>> THEN "" ELSE choices[1]

\* Handle up to the run: what is not for the bot, or holds no question, is left.
Handle(m) ==
  /\ mention[m].at = "new" /\ Cardinality({n \in Mentions : mention[n].at # "new"}) < MaxMentions
  /\ \E found \in BOOLEAN :
       LET target == ResolveCommentTarget(m, found)
           dir == resolveCommentWorkingDirectory(target.doc)
           leaves == Moves(m, [Blank EXCEPT !.at = "over"]) /\ UNCHANGED typing
       IN IF ~m.mentioned \/ m.self \/ m.type \notin Supported \/ target.type \notin Supported
            THEN leaves /\ Fine /\ UNCHANGED comments
          ELSE \/ leaves /\ Fails /\ UNCHANGED comments    \* the comment cannot be read
               \/ ~Asks(m) /\ leaves /\ Fine /\ UNCHANGED comments
               \/ Asks(m) /\ dir = "" /\ leaves /\ ((Fine /\ Answers(m)) \/ (Fails /\ UNCHANGED comments))
               \/ /\ Asks(m) /\ dir # "" /\ UNCHANGED comments
                  /\ LET asked == ExtractCommentQuestionFromReplies(m)[1].id
                         next == [Blank EXCEPT !.at = "policy", !.target = target.doc, !.dir = dir]
                     IN \/ Moves(m, [next EXCEPT !.reaction = {asked}]) /\ typing' = typing \cup {asked} /\ Fine
                        \/ Moves(m, next) /\ UNCHANGED typing /\ Fails
  /\ UNCHANGED <<docRuns, sessions, halted>>

\* markDocRun, and its release when the mention has been handled.
Count(doc) == IF doc \in DOMAIN docRuns THEN docRuns[doc] ELSE 0
With(f, key, value) == [k \in DOMAIN f \cup {key} |-> IF k = key THEN value ELSE f[k]]
\* Mutant of released: whoever ends first forgets the others.
releasedAll(doc) == [d \in DOMAIN docRuns \ {doc} |-> docRuns[d]]
released(doc) == IF Count(doc) > 1 THEN [docRuns EXCEPT ![doc] = @ - 1] ELSE [d \in DOMAIN docRuns \ {doc} |-> docRuns[d]]

\* Codex resumes what was recorded for the directory and the policy, Claude what was last recorded for the
\* document if that was in the directory, whatever its policy; the old key is tried after the new one.
Under(key, dir) == {s \in DOMAIN sessions : s[1] = key /\ s[2] = dir /\ (Agent = "codex" => s[3] = Policy)}
resolveResume(doc, dir) ==
  IF Count(doc) > 0 THEN {}
  ELSE IF Under(New(doc), dir) # {} THEN {sessions[s] : s \in Under(New(doc), dir)}
  ELSE {sessions[s] : s \in Under(Legacy(doc), dir)}

\* The policy may refuse; the document is marked before its session is looked up; then the pool may refuse.
submitRun(m) ==
  /\ mention[m].at = "policy" /\ Fine
  /\ \/ Moves(m, [mention[m] EXCEPT !.at = "done"]) /\ UNCHANGED docRuns
     \/ /\ docRuns' = With(docRuns, mention[m].target, Count(mention[m].target) + 1)
        /\ LET sids == resolveResume(mention[m].target, mention[m].dir) IN
           \E out \in OutputsOf[m] : Moves(m, [mention[m] EXCEPT !.at = "submit", !.marked = TRUE, !.resumed = sids, !.output = out])
  /\ UNCHANGED <<sessions, typing, comments, halted>>
Submitted(m) ==
  /\ mention[m].at = "submit" /\ UNCHANGED <<docRuns, sessions, typing, halted>>
  /\ \/ Moves(m, [mention[m] EXCEPT !.at = "running"]) /\ Fine /\ UNCHANGED comments
     \/ Moves(m, [mention[m] EXCEPT !.at = "done"]) /\ Fails /\ (Answers(m) \/ UNCHANGED comments)
-----------------------------------------------------------------------------
\* RecordSessionEvent: one entry per document for Claude, and one per place for Codex.
RecordSessionEvent(doc, dir, sid) ==
  With([s \in {t \in DOMAIN sessions : Agent = "claude" => t[1] # New(doc)} |-> sessions[s]], <<New(doc), dir, Policy>>, sid)
\* Of the answer only what follows the last tool is kept, without what is said along the way.
Heard(answer, e) ==
  CASE e.type = "text" -> IF e.phase = "commentary" THEN answer ELSE Append(answer, e)
    [] e.type \in {"toolUse", "toolResult"} -> <<>>
    [] OTHER -> answer
finalizeReply(m) == IF mention[m].error THEN <<"error", <<>>>> ELSE <<"answer", mention[m].answer>>
Answer(m) == IF mention[m].late THEN <<"timeout", <<>>>> ELSE finalizeReply(m)

\* collectReply takes the events one by one, up to the first that ends the run or the end of them.
collectReply(m) ==
  /\ mention[m].at = "running" /\ mention[m].output # <<>>
  /\ LET e == Head(mention[m].output)
         next == [mention[m] EXCEPT !.output = Tail(@), !.heard = Append(@, e), !.answer = Heard(@, e), !.error = e.type = "error"]
     IN /\ sessions' = IF e.type = "system" THEN RecordSessionEvent(mention[m].target, mention[m].dir, e.session) ELSE sessions
        /\ IF e.type = "interrupted" THEN Moves(m, [next EXCEPT !.at = "done"])
           ELSE Moves(m, [next EXCEPT !.at = IF e.type \in {"error", "done"} THEN "reply" ELSE "running"])
  /\ Fine /\ UNCHANGED <<docRuns, typing, comments, halted>>
StreamEnds(m) ==
  /\ mention[m].at = "running" /\ mention[m].output = <<>> /\ Fine
  /\ Moves(m, [mention[m] EXCEPT !.at = "reply"])
  /\ UNCHANGED <<docRuns, sessions, typing, comments, halted>>
\* The run takes too long or the bridge closes: it is stopped.
TimesOut(m) ==
  /\ mention[m].at = "running" /\ m \in Watched /\ Fine
  /\ Moves(m, [mention[m] EXCEPT !.at = "reply", !.late = TRUE])
  /\ UNCHANGED <<docRuns, sessions, typing, comments, halted>>
Cancelled(m) ==
  /\ mention[m].at = "running" /\ halted /\ Fine
  /\ Moves(m, [mention[m] EXCEPT !.at = "done"])
  /\ UNCHANGED <<docRuns, sessions, typing, comments, halted>>

\* A comment on the whole document, or in one that takes no replies, is answered by a new comment.
ReplyToComment(m) ==
  /\ mention[m].at = "reply"
  /\ \/ Moves(m, [mention[m] EXCEPT !.at = "done", !.said = Answer(m)]) /\ Answers(m) /\ Fine
     \/ Moves(m, [mention[m] EXCEPT !.at = "done"]) /\ UNCHANGED comments /\ Fails
  /\ UNCHANGED <<docRuns, sessions, typing, halted>>
\* What is deferred: the document is released if it was marked, and the reaction removed, which may fail.
Deferred(m) ==
  /\ mention[m].at = "done"
  /\ docRuns' = IF mention[m].marked THEN released(mention[m].target) ELSE docRuns
  /\ \/ typing' = typing \ mention[m].reaction /\ Fine /\ Moves(m, [Blank EXCEPT !.at = "over", !.reaction = mention[m].reaction])
     \/ UNCHANGED typing /\ Fails /\ Moves(m, [Blank EXCEPT !.at = "over", !.reaction = mention[m].reaction, !.left = TRUE])
  /\ UNCHANGED <<sessions, comments, halted>>
Halts ==
  /\ ~halted /\ halted' = TRUE
  /\ UNCHANGED <<mention, docRuns, sessions, typing, comments, commentFaults>>

CommentInit ==
  /\ mention = [m \in Mentions |-> Blank]
  /\ docRuns = [d \in {} |-> 0] /\ sessions \in Remembered /\ typing = {} /\ comments = [m \in Mentions |-> 0]
  /\ halted = FALSE /\ commentFaults = 0
CommentNext ==
  \/ Halts
  \/ \E m \in Mentions : \/ Handle(m) \/ submitRun(m) \/ Submitted(m) \/ collectReply(m) \/ StreamEnds(m) \/ TimesOut(m) \/ Cancelled(m)
                          \/ ReplyToComment(m) \/ Deferred(m)
-----------------------------------------------------------------------------
(* No two runs at work resume the same session; a run resumes one that was  *)
(* recorded for its document in its directory; a mention has at most one    *)
(* answer, and of a run's it is what was said after its last tool; and of a *)
(* mention that is over no reaction is left, unless its removal failed, nor *)
(* is its document marked.                                                  *)
LastTool(heard) == Max({0} \cup {i \in DOMAIN heard : heard[i].type \in {"toolUse", "toolResult"}})
CommentsHeld ==
  /\ \A m, n \in Mentions : m # n /\ {mention[m].at, mention[n].at} \subseteq {"submit", "running"}
                              => mention[m].resumed \cap mention[n].resumed = {}
  /\ \A m \in Mentions : comments[m] <= 1
  /\ \A m \in Mentions : mention[m].said # <<>> /\ mention[m].said[1] = "answer" =>
       LET heard == mention[m].heard IN mention[m].said[2] =
         SelectSeq(SubSeq(heard, LastTool(heard) + 1, Len(heard)), LAMBDA e : e.type = "text" /\ e.phase # "commentary")
  /\ \A m \in Mentions : mention[m].at = "over" /\ ~mention[m].left =>
       \A r \in mention[m].reaction : r \in typing => \E n \in Mentions : n # m /\ r \in mention[n].reaction
  /\ \A d \in DOMAIN docRuns : \E m \in Mentions : mention[m].target = d /\ mention[m].at # "over"
=============================================================================
