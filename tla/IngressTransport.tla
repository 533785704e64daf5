---------------------------- MODULE IngressTransport ----------------------------
(***************************************************************************)
(* The transport for programs that want the events of Lark as they are,    *)
(* internal/adapters/lark/oapi_ingress.go: the connection, and how what    *)
(* Lark sends becomes an event.  The one socket of the SDK is external: a  *)
(* Start of it dials, is ready, may lose its connection and ends; a Close  *)
(* ends every connection it has.                                           *)
(***************************************************************************)
EXTENDS Naturals, Sequences, TLC
LOCAL INSTANCE SequencesExt

CONSTANTS Connectors,  \* callers of Connect
          Wire,        \* what Lark may send, [kind, base, body, ...] with headers [id, at]
          LanguagePriority,
          Folded, Canonical,   \* locale -> it in small letters, and its canonical form
          SortedLocales,
          MaxConnects  \* bound

VARIABLES holder,     \* the Connect whose handler, ready channel and cancel the transport holds, or "none"
          connects,  \* caller -> where its Connect is
          dials,     \* caller -> the Start of the socket it made
          closing,   \* a Disconnect that has let go and not closed the socket
          received,  \* the event handled in the step that was the last, by whose handler
          tried
ingressVars == <<holder, connects, dials, closing, received, tried>>

First(values) == IF \E n \in DOMAIN values : values[n] # ""
                 THEN values[CHOOSE n \in DOMAIN values : values[n] # "" /\ \A m \in 1..n - 1 : values[m] = ""] ELSE ""
-----------------------------------------------------------------------------
\* What a content that is no post says and brings: a placeholder where its key is missing.
parseIngressFlatContent(type, raw) ==
  LET kind == IF type = "media" THEN "video" ELSE type
      Says(text) == [text |-> text, resources |-> <<>>]
  IN CASE kind = "merge_forward" -> Says(raw.text)
       [] kind # "merge_forward" /\ ~raw.object -> Says("unsupported")
       [] raw.object /\ kind \in {"image", "file", "audio", "video", "sticker"} ->
            IF raw.key = "" THEN Says(kind)
            ELSE [text |-> raw.key, resources |-> <<[type |-> kind, key |-> raw.key]>>]
       [] raw.object /\ kind \in {"folder", "share_chat", "share_user"} -> Says(raw.key)
       [] raw.object /\ kind = "interactive" -> Says("card")
       [] raw.object /\ kind = "text" -> Says(raw.text)
       [] OTHER -> Says(First(<<raw.text, "unsupported">>))

\* A post is one document, or one for each locale; it may be inside another object.
parseIngressRichPost(raw) ==
  IF ~raw.object THEN <<>>
  ELSE IF raw.single THEN "" :> raw.locales[""] ELSE [l \in {x \in DOMAIN raw.locales : raw.locales[x].whole} |-> raw.locales[l]]
selectIngressLocale(post) ==
  LET there == SelectSeq(SortedLocales, LAMBDA l : l \in DOMAIN post)
      Alike(p, form) == SelectSeq(there, LAMBDA l : form[l] = form[p])
      wanted == SelectSeq(LanguagePriority, LAMBDA p : Alike(p, Canonical) # <<>>)
      first == Head(wanted)
  IN IF wanted = <<>> THEN Head(there) ELSE IF first \in DOMAIN post THEN first
     ELSE Head(Alike(first, Folded) \o Alike(first, Canonical))
ingressDocumentBlocks(document) == IF document.v2 # <<>> THEN document.v2 ELSE document.v1
ingressDocumentPlainText(document) ==
  LET Text(e) == CASE e.tag = "a" -> First(<<e.text, e.href>>) [] e.tag = "at" -> First(<<e.user, e.id>>)
                   [] e.tag = "emotion" -> e.emoji [] e.tag = "hr" -> "---" [] OTHER -> e.text
      elements == FlattenSeq(ingressDocumentBlocks(document))
      title == IF document.title = "" THEN <<>> ELSE <<document.title>>
  IN title \o [n \in DOMAIN elements |-> Text(elements[n])]
ingressDocumentResources(document) ==
  LET Brings(e) == CASE e.tag = "img" /\ e.key # "" -> <<[type |-> "image", key |-> e.key]>>
                     [] e.tag \in {"media", "file"} /\ e.key # "" -> <<[type |-> e.tag, key |-> e.key]>>
                     [] e.tag = "md" -> [n \in DOMAIN e.images |-> [type |-> "image", key |-> e.images[n]]]
                     [] OTHER -> <<>>
      elements == FlattenSeq(ingressDocumentBlocks(document))
  IN FlattenSeq([n \in DOMAIN elements |-> Brings(elements[n])])
parseIngressMessageContent(type, raw) ==
  LET post == parseIngressRichPost(raw)
      document == post[selectIngressLocale(post)]
  IN IF type # "post" THEN parseIngressFlatContent(type, raw)
     ELSE IF post = <<>> THEN [text |-> <<>>, resources |-> <<>>]
     ELSE [text |-> ingressDocumentPlainText(document), resources |-> ingressDocumentResources(document)]

\* The header of the SDK counts before that of the body; a comment has only the latter.
fillIngressEventBase(wire) ==
  [id |-> First(<<wire.base.id, wire.body.id>>), at |-> First(<<wire.base.at, wire.body.at>>)]
mapIngressEnvelope(wire) ==
  [kind |-> "message", id |-> fillIngressEventBase(wire).id, at |-> wire.at, by |-> wire.sender,
   content |-> parseIngressMessageContent(wire.type, wire.content)]
\* The notice of a comment says who, and what the comment itself does not.
mapIngressCommentEvent(wire) ==
  LET notice == IF wire.notice = <<>> THEN [file |-> "", by |-> "", at |-> "", mentioned |-> <<>>] ELSE wire.notice[1]
      said == wire.mentioned \o wire.mention \o notice.mentioned
  IN [kind |-> "comment", id |-> fillIngressEventBase(wire).id,
      file |-> First(<<wire.file, notice.file>>), by |-> First(<<notice.by, wire.by>>),
      at |-> First(<<wire.at, wire.acted, notice.at, fillIngressEventBase(wire).at>>), mentioned |-> said # <<>> /\ Head(said)]
mapIngressCardActionEvent(wire) ==
  [kind |-> "card", id |-> fillIngressEventBase(wire).id, by |-> wire.by, chat |-> wire.context, value |-> wire.value]
Mapped(wire) == CASE wire.kind = "message" -> mapIngressEnvelope(wire) [] wire.kind = "comment" -> mapIngressCommentEvent(wire)
                  [] OTHER -> mapIngressCardActionEvent(wire)
-----------------------------------------------------------------------------
Unused == [at |-> "idle", ready |-> FALSE, disturbed |-> FALSE]
InFlight(c) == connects[c].at \in {"waits", "closing"}
Ended == [c \in Connectors |-> IF dials[c] = "up" THEN "over" ELSE dials[c]]
IngressInit ==
  /\ holder = "none" /\ connects = [c \in Connectors |-> Unused] /\ dials = [c \in Connectors |-> "none"]
  /\ closing = FALSE /\ received = <<>> /\ tried = 0

\* While another is connected or connecting the answer is ErrIngressAlreadyStarted.
ConnectBegins(c) ==
  /\ connects[c].at = "idle" /\ dials[c] \in {"none", "over"} /\ tried < MaxConnects /\ tried' = tried + 1
  /\ IF holder # "none" THEN UNCHANGED <<holder, connects, dials>>
     ELSE LET alone == ~closing /\ \A o \in Connectors \ {c} : ~InFlight(o) /\ dials[o] \in {"none", "over"} IN
          /\ holder' = c /\ dials' = [dials EXCEPT ![c] = "dials"]
          /\ connects' = [connects EXCEPT ![c] = [at |-> "waits", ready |-> FALSE, disturbed |-> ~alone]]
  /\ received' = <<>> /\ UNCHANGED closing
\* The SDK is ready, for the first time or again: whoever waits now is told.
signalReady(c) ==
  /\ dials[c] \in {"dials", "up"} /\ dials' = [dials EXCEPT ![c] = "up"]
  /\ connects' = [o \in Connectors |-> IF o = holder /\ connects[o].at = "waits" THEN [connects[o] EXCEPT !.ready = TRUE] ELSE connects[o]]
  /\ received' = <<>> /\ UNCHANGED <<holder, closing, tried>>
StartReturns(c) ==
  /\ dials[c] \in {"dials", "up"} /\ dials' = [dials EXCEPT ![c] = "over"]
  /\ received' = <<>> /\ UNCHANGED <<holder, connects, closing, tried>>

\* What is ready of the select may be any: a socket that is ready and over, or over in time.
Connect(c) ==
  /\ connects[c].at = "waits" /\ connects[c].ready
  /\ connects' = [connects EXCEPT ![c].at = "connected"] /\ received' = <<>> /\ UNCHANGED <<holder, dials, closing, tried>>
resetFailedStart(c) ==
  /\ \/ connects[c].at = "waits" /\ dials[c] = "over"
     \/ connects[c].at = "closing"
  /\ holder' = "none" /\ connects' = [connects EXCEPT ![c] = Unused] /\ received' = <<>> /\ UNCHANGED <<dials, closing, tried>>
\* Its time or its context is over: the socket is closed, whosever it is by now.
StartTimeout(c) ==
  /\ connects[c].at = "waits" /\ dials' = Ended
  /\ connects' = [connects EXCEPT ![c].at = "closing"] /\ received' = <<>> /\ UNCHANGED <<holder, closing, tried>>
Disconnect ==
  /\ ~closing /\ holder # "none" /\ holder' = "none" /\ closing' = TRUE
  /\ connects' = [c \in Connectors |-> IF connects[c].at = "connected" THEN Unused ELSE [connects[c] EXCEPT !.disturbed = InFlight(c)]]
  /\ received' = <<>> /\ UNCHANGED <<dials, tried>>
SocketClose ==
  /\ closing /\ closing' = FALSE /\ dials' = Ended /\ received' = <<>> /\ UNCHANGED <<holder, connects, tried>>
\* Without a handler Lark is told so, and may send it again.
dispatch(c) ==
  /\ dials[c] = "up" /\ holder # "none"
  /\ \E wire \in Wire : received' = <<holder, wire, Mapped(wire)>>
  /\ UNCHANGED <<holder, connects, dials, closing, tried>>
IngressNext ==
  \/ \E c \in Connectors : \/ ConnectBegins(c) \/ signalReady(c) \/ StartReturns(c) \/ Connect(c) \/ resetFailedStart(c)
                           \/ StartTimeout(c) \/ dispatch(c)
  \/ Disconnect \/ SocketClose
-----------------------------------------------------------------------------
\* A Connect that answered has the handler it was given called, and its own socket has been ready,
\* until a Disconnect; but one that began while another was not over may be forgotten by it, or
\* be answered by its socket (oapi_ingress.go: resetFailedStart and signalReady ask not whose).
AnsweredIsHeard ==
  \A c \in Connectors : connects[c].at = "connected" /\ ~connects[c].disturbed =>
    holder = c /\ dials[c] # "dials"

\* An event is as complete as what was sent: of a post one locale, the first the program prefers
\* that it has at all, with its text and its files; a key shown to the reader is a file to fetch;
\* and a comment has a time and a file if any part of it does.
EventsAreWhole ==
  received # <<>> =>
    LET wire == received[2]   event == received[3] IN
    /\ wire.kind = "message" /\ wire.type = "post" /\ wire.content.object =>
         \E l \in DOMAIN wire.content.locales :
           LET document == wire.content.locales[l] IN
           /\ event.content.text = ingressDocumentPlainText(document)
           /\ \A r \in ToSet(event.content.resources) : \E e \in ToSet(FlattenSeq(document.v1 \o document.v2)) :
                r.key = e.key \/ r.key \in ToSet(e.images)
           /\ \A p \in DOMAIN LanguagePriority : \A k \in DOMAIN wire.content.locales :
                LET canonical == Canonical[LanguagePriority[p]] IN
                wire.content.locales[k].whole /\ Canonical[k] = canonical =>
                  \E q \in 1..p : Canonical[l] = Canonical[LanguagePriority[q]]
    /\ wire.kind = "message" /\ wire.type # "post" =>
         \A r \in ToSet(event.content.resources) : r.key = event.content.text
    /\ wire.kind = "comment" =>
         (event.at = "" <=> \A t \in {wire.at, wire.acted, wire.body.at} : t = "" /\ \A n \in DOMAIN wire.notice : wire.notice[n].at = "")

IngressHeld == AnsweredIsHeard /\ EventsAreWhole
=============================================================================
