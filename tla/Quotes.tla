--------------------------------- MODULE Quotes ---------------------------------
(***************************************************************************)
(* What of a batch of messages the agent is given to read: the forwarded   *)
(* messages in it and those it replies to, which Lark is asked for one by  *)
(* one (lark_managed.go: resolveMergedForwardMessages and                  *)
(* resolveQuotedMessages; oapi_transport.go: ResolveLarkQuote), then the   *)
(* prompt.  A forward may hold forwards; what is rendered of it is the     *)
(* sequence of messages shown, each with its depth.  The recursion of the  *)
(* code is a stack of lists still to be shown.                             *)
(***************************************************************************)
EXTENDS Naturals, FiniteSets, Sequences, TLC
LOCAL INSTANCE SequencesExt

CONSTANTS QuoteBatches,   \* batches: sequences of [id, type, reply, parent, thread, root, sender, name, by, words, keys, mentions, raws]
          Kept,           \* id -> what Lark has of the message, [type, upper, at, dsl, v2, placeholder]
          Fetched,        \* id -> the items of an answer: the message, and some of what is in it
          BotId, ForwardLimit,
          MaxQuoteFaults  \* bound

VARIABLES work,        \* [batch, phase, targets]: what is still to be asked for
          rendering,   \* <<>>, or of the one that is being rendered [target, stack, children, visited, remaining, shown, asked]
          forwards,    \* id -> what has been rendered of a forward of the batch
          quotes,      \* what has been rendered of quoted messages, [id, shown]
          dropped,     \* targets of which nothing came
          prompt, quoteFaults
quoteVars == <<work, rendering, forwards, quotes, dropped, prompt, quoteFaults>>

First(values) == IF \E n \in DOMAIN values : values[n] # "" THEN SelectSeq(values, LAMBDA v : v # "")[1] ELSE ""
Ids(batch) == [n \in DOMAIN batch |-> batch[n].id]
Once(targets) == SelectSeq([n \in DOMAIN targets |-> IF \E m \in 1..n - 1 : targets[m] = targets[n] THEN "" ELSE targets[n]], LAMBDA t : t # "")
-----------------------------------------------------------------------------
\* A reply in a thread names the message the thread began with, which is no quote.
managedReplyQuoteTarget(m) ==
  LET replyTo == First(<<m.reply, m.parent>>) IN
  IF m.thread # "" /\ m.root # "" /\ replyTo = m.root THEN "" ELSE replyTo
ForwardTargets(batch) == Ids(SelectSeq(batch, LAMBDA m : m.type = "merge_forward" /\ m.id # ""))
QuoteTargets(batch) ==
  SelectSeq(Once([n \in DOMAIN batch |-> managedReplyQuoteTarget(batch[n])]), LAMBDA t : t \notin ToSet(Ids(batch)))

buildOAPIForwardChildren(items) ==
  LET Upper(id) == First(<<Kept[id].upper, Head(items)>>) IN
  IF items = <<>> THEN <<>> ELSE [u \in {Upper(id) : id \in ToSet(Tail(items))} |-> SelectSeq(Tail(items), LAMBDA id : Upper(id) = u)]
expandOAPIInteractiveCard(card) ==
  CASE card.dsl -> "dsl" [] ~card.dsl /\ (card.v2 \/ card.placeholder) -> "raw" [] OTHER -> "flattened"
renderOAPIQuoteContent(id) == IF Kept[id].type = "interactive" THEN expandOAPIInteractiveCard(Kept[id]) ELSE Kept[id].type

ListOf(r, id) == IF id \in DOMAIN r.children THEN r.children[id] ELSE <<>>
\* Only what is not known yet is asked for, once, and replaces nothing.
MustAsk(r, id) == ListOf(r, id) = <<>> /\ id \notin r.visited /\ Cardinality(r.visited) < ForwardLimit
ensureOAPIForwardChildren(r, id) ==
  IF ~MustAsk(r, id) THEN r
  ELSE [r EXCEPT !.visited = @ \cup {id}, !.asked = Append(@, id), !.children = @ @@ buildOAPIForwardChildren(Fetched[id])]
renderOAPIForwardedMessages(r, id) == [r EXCEPT !.stack = <<ListOf(r, id)>> \o @]
renderOAPIForwardedMessage(r) ==
  LET id == Head(Head(r.stack)) IN
  [r EXCEPT !.remaining = @ - 1, !.stack[1] = Tail(@), !.shown = Append(@, [id |-> id, depth |-> Len(r.stack), as |-> renderOAPIQuoteContent(id)])]
Opened(r, id) == IF Kept[id].type = "merge_forward" THEN renderOAPIForwardedMessages(ensureOAPIForwardChildren(r, id), id) ELSE r
quoteMessageFromOAPIItems(target, items) ==
  Opened([target |-> target, stack |-> <<>>, children |-> buildOAPIForwardChildren(items), visited |-> {target},
          remaining |-> ForwardLimit, shown |-> <<>>, asked |-> <<target>>], target)
-----------------------------------------------------------------------------
\* The texts of the batch, without the references to its files; who said it if there are several.
managedUserInput(batch) ==
  LET keys == UNION {batch[n].keys : n \in DOMAIN batch}
      Text(m) == IF m.id \in DOMAIN forwards THEN [n \in DOMAIN forwards[m.id] |-> forwards[m.id][n].id]
                 ELSE SelectSeq(m.words, LAMBDA w : w \notin keys)
      Part(m) == [text |-> Text(m), by |-> IF Len(batch) > 1 THEN <<First(<<m.name, m.sender>>), m.by>> ELSE <<>>]
      parts == SelectSeq([n \in DOMAIN batch |-> Part(batch[n])], LAMBDA p : p.text # <<>>)
  IN IF parts # <<>> THEN parts
     ELSE <<[text |-> IF keys # {} THEN <<"attachments">> ELSE <<"ping">>, by |-> <<>>]>>
managedMentionDedupeKey(m) == IF m.id # "" THEN <<m.id>> ELSE <<m.name, m.key>>
managedPromptMentions(batch) ==
  LET all == FlattenSeq([n \in DOMAIN batch |-> batch[n].mentions])
      Bot(m) == IF m.bot # <<>> THEN m.bot ELSE IF BotId # "" /\ m.id = BotId THEN <<TRUE>> ELSE <<>>
      firsts == SelectSeq([n \in DOMAIN all |-> <<n, all[n]>>],
                  LAMBDA m : \A k \in 1..m[1] - 1 : managedMentionDedupeKey(all[k]) # managedMentionDedupeKey(m[2]))
  IN [n \in DOMAIN firsts |-> [id |-> firsts[n][2].id, name |-> firsts[n][2].name, bot |-> Bot(firsts[n][2])]]
managedPromptInteractiveCards(batch) ==
  SelectSeq([n \in DOMAIN batch |-> [id |-> batch[n].id, content |-> IF batch[n].type = "interactive" THEN First(batch[n].raws) ELSE ""]],
            LAMBDA c : c.content # "")
-----------------------------------------------------------------------------
QuoteFails == quoteFaults < MaxQuoteFaults /\ quoteFaults' = quoteFaults + 1
QuoteInit ==
  /\ work = [batch |-> <<>>, phase |-> "idle", targets |-> <<>>] /\ rendering = <<>> /\ forwards = <<>> /\ quotes = <<>>
  /\ dropped = {} /\ prompt = <<>> /\ quoteFaults = 0

resolveMergedForwardMessages(batch) ==
  /\ work.phase = "idle" /\ work' = [batch |-> batch, phase |-> "forwards", targets |-> ForwardTargets(batch)]
  /\ UNCHANGED <<rendering, forwards, quotes, dropped, prompt, quoteFaults>>
resolveQuotedMessages ==
  /\ work.phase = "forwards" /\ work.targets = <<>> /\ rendering = <<>>
  /\ work' = [work EXCEPT !.phase = "quotes", !.targets = QuoteTargets(work.batch)]
  /\ UNCHANGED <<rendering, forwards, quotes, dropped, prompt, quoteFaults>>

\* What Lark does not have, or fails to give, is left out, and the batch goes on without it.
Drop(id) == dropped' = dropped \cup {id} /\ rendering' = <<>> /\ UNCHANGED <<forwards, quotes>>
ResolveLarkQuote ==
  /\ work.targets # <<>> /\ rendering = <<>>
  /\ LET target == Head(work.targets)   items == Fetched[target] IN
     \/ Drop(target) /\ QuoteFails
     \/ items = <<>> /\ Drop(target) /\ UNCHANGED quoteFaults
     \/ items # <<>> /\ rendering' = <<quoteMessageFromOAPIItems(target, items)>> /\ UNCHANGED <<forwards, quotes, dropped, quoteFaults>>
  /\ work' = [work EXCEPT !.targets = Tail(@)] /\ UNCHANGED prompt
\* The next message of the innermost list, or the end of that.
renderNext ==
  /\ rendering # <<>> /\ rendering[1].stack # <<>>
  /\ LET r == rendering[1] IN
     IF Head(r.stack) = <<>> \/ r.remaining = 0
       THEN rendering' = <<[r EXCEPT !.stack = Tail(@)]>> /\ UNCHANGED <<forwards, quotes, dropped, quoteFaults>>
       ELSE LET id == Head(Head(r.stack)) IN
            \/ rendering' = <<Opened(renderOAPIForwardedMessage(r), id)>> /\ UNCHANGED <<forwards, quotes, dropped, quoteFaults>>
            \/ Kept[id].type = "merge_forward" /\ MustAsk(r, id) /\ Drop(r.target) /\ QuoteFails
  /\ UNCHANGED <<work, prompt>>
Rendered ==
  /\ rendering # <<>> /\ rendering[1].stack = <<>> /\ rendering' = <<>>
  /\ LET r == rendering[1] IN
     IF work.phase = "forwards" THEN forwards' = r.target :> r.shown @@ forwards /\ UNCHANGED quotes
     ELSE quotes' = Append(quotes, [id |-> r.target, shown |-> r.shown]) /\ UNCHANGED forwards
  /\ UNCHANGED <<work, dropped, prompt, quoteFaults>>
buildMessagePrompt ==
  /\ work.phase = "quotes" /\ work.targets = <<>> /\ rendering = <<>>
  /\ prompt' = [ids |-> SelectSeq(Ids(work.batch), LAMBDA id : id # ""), input |-> managedUserInput(work.batch), quotes |-> quotes,
                mentions |-> managedPromptMentions(work.batch), cards |-> managedPromptInteractiveCards(work.batch)]
  /\ work' = [work EXCEPT !.phase = "done"] /\ UNCHANGED <<rendering, forwards, quotes, dropped, quoteFaults>>
QuoteNext ==
  \/ \E batch \in QuoteBatches : resolveMergedForwardMessages(batch)
  \/ ResolveLarkQuote \/ renderNext \/ Rendered \/ resolveQuotedMessages \/ buildMessagePrompt
-----------------------------------------------------------------------------
\* What is in a forward: the truth the answers of Lark are pieces of.
In(id) == SetToSortSeq({k \in DOMAIN Kept : Kept[k].upper = id}, LAMBDA a, b : Kept[a].at < Kept[b].at)
\* What is shown right below the message at place n of what is shown, 0 for the target.
Below(shown, n) ==
  LET depth == IF n = 0 THEN 0 ELSE shown[n].depth
      rest == {k \in n + 1..Len(shown) : \A m \in n + 1..k : shown[m].depth > depth}
      here == SetToSortSeq({k \in rest : shown[k].depth = depth + 1}, <)
  IN [k \in DOMAIN here |-> shown[here[k]].id]
Whole(target, shown) ==
  /\ Len(shown) <= ForwardLimit
  /\ \A n \in 0..Len(shown) :
       LET id == IF n = 0 THEN target ELSE shown[n].id IN
       IF Len(shown) < ForwardLimit THEN Below(shown, n) = In(id) ELSE IsPrefix(Below(shown, n), In(id))
  /\ \A n \in DOMAIN shown : shown[n].as = "flattened" => ~Kept[shown[n].id].placeholder

\* A forward is shown whole, every message below the one it was forwarded in and in their order,
\* however deep and whatever piece of it each answer of Lark held, until the limit is reached, and
\* then a beginning of that; and no message is asked for twice (oapi_transport.go:
\* renderOAPIForwardedMessages, ensureOAPIForwardChildren).
ForwardsWhole ==
  /\ \A id \in DOMAIN forwards : Whole(id, forwards[id])
  /\ \A n \in DOMAIN quotes : Whole(quotes[n].id, quotes[n].shown)
  /\ rendering # <<>> => IsInjective(rendering[1].asked) /\ Len(rendering[1].asked) <= ForwardLimit

\* The prompt has each message replied to once, none that is of the batch itself, and one that
\* fails takes no other with it; every text of the batch is there, by whom if several wrote, and
\* everyone mentioned once (lark_managed.go: resolveQuotedMessages, buildMessagePrompt).
PromptComplete ==
  prompt # <<>> =>
    LET batch == work.batch
        keys == UNION {batch[n].keys : n \in DOMAIN batch}
        Text(m) == SelectSeq(m.words, LAMBDA w : w \notin keys)
        Reply(m) == First(<<m.reply, m.parent>>)
        asked == {Reply(batch[n]) : n \in {k \in DOMAIN batch : batch[k].thread = "" \/ Reply(batch[k]) # batch[k].root}} \ {""}
    IN /\ \A n, k \in DOMAIN quotes : n # k => quotes[n].id # quotes[k].id
       /\ {quotes[n].id : n \in DOMAIN quotes} \cup dropped = (asked \ ToSet(Ids(batch))) \cup (dropped \cap ToSet(Ids(batch)))
       /\ dropped \ {id \in dropped : Fetched[id] = <<>>} # {} => quoteFaults > 0
       /\ \A n \in DOMAIN batch : Text(batch[n]) # <<>> => \E p \in ToSet(prompt.input) :
            /\ p.text # <<>> /\ (Len(batch) > 1 => p.by[1] \in {batch[n].name, batch[n].sender})
            /\ batch[n].id \in DOMAIN forwards \/ p.text = Text(batch[n])
       /\ \A n \in DOMAIN batch : \A m \in ToSet(batch[n].mentions) :
            LET his == {k \in DOMAIN prompt.mentions : prompt.mentions[k].id = m.id /\ prompt.mentions[k].name = m.name} IN
            his # {} /\ (m.id # "" => Cardinality(his) = 1)

QuotesHeld == ForwardsWhole /\ PromptComplete
=============================================================================
