------------------------------- MODULE MediaCache -------------------------------
(***************************************************************************)
(* The files that messages bring, internal/app/media: every batch of       *)
(* messages downloads them to the one directory of the profile, under the  *)
(* digest of what they hold, decides which of them the run may have, and   *)
(* cleans the directory.  Batches of several scopes do so at once, while   *)
(* the agents of others read what they were promised.                      *)
(***************************************************************************)
EXTENDS Naturals, Sequences, FiniteSets, TLC
LOCAL INSTANCE SequencesExt
LOCAL INSTANCE FiniteSetsExt

CONSTANTS Scopes,      \* a batch at a time is handled for each
          Batches,     \* sequences of resources [id, kind, mime, content] as messages may bring
          SizeOf,      \* content -> its size
          Attachments, \* [count, bytes, file, image]: the limits of the profile, 0 where it has none
          CacheLimit,  \* size the directory may have, 0 for any
          Keeps,       \* whether files have an age that ends
          MaxBatches, MaxMediaFaults   \* bounds: of the batches handled, of what fails

VARIABLES directory,  \* the files, in the order of their modification times, [path, size, old]
          batch,      \* scope -> what its worker is doing
          taken,      \* scope -> files that another batch has removed from under this one
          batches, mediaFaults
mediaVars == <<directory, batch, taken, batches, mediaFaults>>

Size(files) == FoldSet(LAMBDA f, n : n + f.size, 0, files)
Paths(files) == {f.path : f \in files}
Temp(s) == <<"tmp", s>>
At(path) == {f \in ToSet(directory) : f.path = path}
Only(kept(_)) == directory' = SelectSeq(directory, kept)
-----------------------------------------------------------------------------
\* A descriptor without a key is left out; whatever Lark calls it, what is neither is a file.
\* Nothing is ever required: the policy of runs that refuses a required one is not used.
Known == {"image", "audio", "video", "sticker"}
managedAttachmentKind(kind) == IF kind = "img" THEN "image" ELSE IF kind \in Known THEN kind ELSE "file"
managedResourceRequests(items) ==
  LET WithKey(i) == i.id # ""
      Requested(i) == [i EXCEPT !.kind = managedAttachmentKind(@)]
      chosen == SelectSeq(items, WithKey)
  IN [n \in DOMAIN chosen |-> Requested(chosen[n])]

MimeOf(item) ==
  IF item.mime # "" THEN item.mime
  ELSE CASE item.kind = "image" -> "image/png" [] item.kind = "audio" -> "audio/ogg"
         [] item.kind = "video" -> "video/mp4" [] OTHER -> "application/octet-stream"
imageMIMEExt == ("image/png" :> "png" @@ "image/jpeg" :> "jpg")
SafeExtensionForMIME(mime) == IF mime \in DOMAIN imageMIMEExt THEN imageMIMEExt[mime] ELSE "bin"
PathOf(item) == <<item.content, SafeExtensionForMIME(MimeOf(item))>>

normalizePolicy ==
  [count |-> IF Attachments.count > 0 THEN Attachments.count ELSE 10,
   bytes |-> IF Attachments.bytes > 0 THEN Attachments.bytes ELSE 100,
   file |-> IF Attachments.file > 0 THEN Attachments.file ELSE 25,
   image |-> IF Attachments.image > 0 THEN Attachments.image ELSE 25]
earlyDecision(item) ==
  CASE item.kind = "sticker" -> "sticker"
    [] item.kind \in {"audio", "video"} -> "unsupported-kind"
    [] item.kind = "image" /\ MimeOf(item) \notin DOMAIN imageMIMEExt -> "unsupported-image-mime"
    [] OTHER -> ""
\* What has been accepted so far decides on the next.
Decide(decided, item) ==
  LET accepted == {n \in DOMAIN decided : decided[n].reason = ""}
      bytes == FoldSet(LAMBDA n, sum : sum + SizeOf[decided[n].item.content], 0, accepted)
      size == SizeOf[item.content]
      reason == IF earlyDecision(item) # "" THEN earlyDecision(item)
                ELSE IF Cardinality(accepted) >= normalizePolicy.count THEN "too-many-attachments"
                ELSE IF size > normalizePolicy.file THEN "file-too-large"
                ELSE IF item.kind = "image" /\ size > normalizePolicy.image THEN "image-too-large"
                ELSE IF bytes + size > normalizePolicy.bytes THEN "run-too-large" ELSE ""
  IN Append(decided, [item |-> item, path |-> PathOf(item), reason |-> reason])
NormalizeAttachments(items) == FoldLeft(Decide, <<>>, items)
acceptedPathSet(decided) == {d.path : d \in {x \in ToSet(decided) : x.reason = ""}}
-----------------------------------------------------------------------------
Nothing == [at |-> "idle", todo |-> <<>>, found |-> <<>>, decided |-> <<>>, listed |-> <<>>, alone |-> TRUE]
Busy(s) == batch[s].at \notin {"idle", "runs"}
Moves(s, b) == batch' = [batch EXCEPT ![s] = b]
Fails == mediaFaults < MaxMediaFaults /\ mediaFaults' = mediaFaults + 1
\* What s removes is taken from every other batch that has found it or promised it.
TakesFrom(s, gone) ==
  taken' = [t \in Scopes |-> IF t # s /\ batch[t].at # "idle" THEN taken[t] \cup gone ELSE taken[t]]

MediaInit ==
  /\ directory = <<>> /\ batch = [s \in Scopes |-> Nothing] /\ taken = [s \in Scopes |-> {}]
  /\ batches = 0 /\ mediaFaults = 0

\* resolveAttachments and the beginning of Resolve: the files too old are removed.
GCMediaCache(s) == IF Keeps THEN {f.path : f \in {x \in ToSet(directory) : x.old}} ELSE {}
ResolveBegins(s) ==
  /\ batch[s].at = "idle" /\ batches < MaxBatches /\ batches' = batches + 1
  /\ \E items \in Batches :
       /\ managedResourceRequests(items) # <<>>
       /\ batch' = [t \in Scopes |->
            IF t = s THEN [Nothing EXCEPT !.at = "fetches", !.todo = managedResourceRequests(items), !.alone = \A u \in Scopes : ~Busy(u)]
            ELSE IF batch[t].at # "idle" THEN [batch[t] EXCEPT !.alone = FALSE] ELSE batch[t]]
  /\ Only(LAMBDA f : f.path \notin GCMediaCache(s))
  /\ taken' = [t \in Scopes |-> IF t = s THEN {} ELSE IF batch[t].at # "idle" THEN taken[t] \cup GCMediaCache(s) ELSE taken[t]]
  /\ UNCHANGED mediaFaults

\* resolveOne: a sticker is left out; a file that cannot be had is left out without a word.
DownloadResource(s) ==
  /\ batch[s].at = "fetches" /\ batch[s].todo # <<>>
  /\ LET item == Head(batch[s].todo)
         left == [batch[s] EXCEPT !.todo = Tail(@)]
     IN \/ item.kind = "sticker" /\ Moves(s, left) /\ UNCHANGED <<directory, mediaFaults>>
        \/ item.kind # "sticker" /\ Fails /\ Moves(s, left) /\ UNCHANGED directory
        \/ /\ item.kind # "sticker" /\ Moves(s, [batch[s] EXCEPT !.at = "places"])
           /\ directory' = Append(directory, [path |-> Temp(s), size |-> SizeOf[item.content], old |-> FALSE])
           /\ UNCHANGED mediaFaults
  /\ UNCHANGED <<taken, batches>>
\* The rest of resolveOne: its own file may have been removed by another; a file of the same
\* contents stays as it is, and as old as it is.
resolveOne(s) ==
  /\ batch[s].at = "places"
  /\ LET item == Head(batch[s].todo)
         there == At(Temp(s)) # {}
     IN /\ IF there /\ At(PathOf(item)) = {}
           THEN directory' = [n \in DOMAIN directory |->
                  IF directory[n].path = Temp(s) THEN [directory[n] EXCEPT !.path = PathOf(item)] ELSE directory[n]]
           ELSE Only(LAMBDA f : f.path # Temp(s))
        /\ Moves(s, [batch[s] EXCEPT !.at = "fetches", !.todo = Tail(@), !.found = IF there THEN Append(@, item) ELSE @])
        \* What was taken before it is there again.
        /\ taken' = [taken EXCEPT ![s] = IF there THEN @ \ {PathOf(item)} ELSE @]
  /\ UNCHANGED <<batches, mediaFaults>>

\* The files that the run may not have, unless it also may; they may be those of another run.
removeRejectedResolvedFiles(decided) ==
  {d.path : d \in {x \in ToSet(decided) : x.reason # ""}} \ acceptedPathSet(decided)
Normalize(s) ==
  /\ batch[s].at = "fetches" /\ batch[s].todo = <<>>
  /\ LET decided == NormalizeAttachments(batch[s].found)
         gone == removeRejectedResolvedFiles(decided)
     IN /\ Only(LAMBDA f : f.path \notin gone) /\ TakesFrom(s, gone)
        /\ Moves(s, [batch[s] EXCEPT !.at = "lists", !.decided = decided])
  /\ UNCHANGED <<batches, mediaFaults>>

\* enforceCacheMaxBytes: the directory is listed, then the oldest go that are not protected,
\* until the sum of what was listed is small enough.
Lists(s) ==
  /\ batch[s].at = "lists"
  /\ Moves(s, [batch[s] EXCEPT !.at = "evicts", !.listed = directory])
  /\ UNCHANGED <<directory, taken, batches, mediaFaults>>
Evicted(s) ==
  LET open == SelectSeq(batch[s].listed, LAMBDA f : f.path \notin acceptedPathSet(batch[s].decided))
      Enough(n) == Size(ToSet(batch[s].listed)) <= CacheLimit + Size({open[i] : i \in 1..n})
      ends == {n \in 0..Len(open) : Enough(n) \/ n = Len(open)}
      last == CHOOSE n \in ends : \A m \in ends : n <= m
  IN IF CacheLimit = 0 THEN {} ELSE {open[i].path : i \in 1..last}
enforceCacheMaxBytes(s) ==
  /\ batch[s].at = "evicts"
  /\ LET gone == Evicted(s) IN Only(LAMBDA f : f.path \notin gone) /\ TakesFrom(s, gone)
  /\ Moves(s, [batch[s] EXCEPT !.at = "runs", !.listed = <<>>])
  /\ UNCHANGED <<batches, mediaFaults>>

\* A step that fails ends the batch with a word to its chat; what it downloaded stays.
ResolveFails(s) ==
  /\ batch[s].at \in {"lists", "evicts"} /\ Fails /\ Moves(s, Nothing) /\ taken' = [taken EXCEPT ![s] = {}]
  /\ UNCHANGED <<directory, batches>>
RunOver(s) ==
  /\ batch[s].at = "runs" /\ Moves(s, Nothing) /\ taken' = [taken EXCEPT ![s] = {}]
  /\ UNCHANGED <<directory, batches, mediaFaults>>
FilesAge ==
  /\ Keeps /\ \E f \in ToSet(directory) : ~f.old
  /\ directory' = [n \in DOMAIN directory |-> [directory[n] EXCEPT !.old = TRUE]]
  /\ UNCHANGED <<batch, taken, batches, mediaFaults>>
\* The program ends and starts again: what it was downloading stays in the directory, under a
\* name that is not used again.
MediaCrash ==
  /\ \E s \in Scopes : Busy(s)
  /\ Fails /\ batch' = [s \in Scopes |-> Nothing] /\ taken' = [s \in Scopes |-> {}]
  /\ directory' = [n \in DOMAIN directory |->
       IF directory[n].path[1] = "tmp" THEN [directory[n] EXCEPT !.path[1] = "left"] ELSE directory[n]]
  /\ UNCHANGED batches

MediaNext ==
  \/ \E s \in Scopes : \/ ResolveBegins(s) \/ DownloadResource(s) \/ resolveOne(s) \/ Normalize(s) \/ Lists(s)
                       \/ enforceCacheMaxBytes(s) \/ ResolveFails(s) \/ RunOver(s)
  \/ FilesAge \/ MediaCrash
-----------------------------------------------------------------------------
\* What a run was promised is in the directory, whole, until the run is over: its own batch never
\* removes it, as it may be rejected and accepted in one batch, or the oldest of all.  Only
\* another batch takes it away (media/cache.go: acceptedPathSet protects the files of one batch).
PromisedIsThere ==
  \A s \in Scopes : batch[s].at = "runs" =>
    acceptedPathSet(batch[s].decided) \subseteq Paths(ToSet(directory)) \cup taken[s]

\* A batch that was alone leaves the directory small enough, or with nothing but what it promised,
\* and nothing of what it rejected (media/cache.go: enforceCacheMaxBytes, removeRejectedResolvedFiles).
AloneLeavesOrder ==
  \A s \in Scopes : batch[s].at = "runs" /\ batch[s].alone =>
    LET promised == acceptedPathSet(batch[s].decided) IN
    /\ CacheLimit = 0 \/ Size(ToSet(directory)) <= CacheLimit \/ Paths(ToSet(directory)) \subseteq promised
    /\ \A d \in ToSet(batch[s].decided) : d.reason = "" \/ d.path \in promised \/ At(d.path) = {}

\* What runs get is within the limits of the profile taken together, in the order of the messages,
\* and an earlier file never gives way to a later one (media/attachment.go).
PromisedIsAllowed ==
  \A s \in Scopes : batch[s].at = "runs" =>
    LET given == SelectSeq(batch[s].decided, LAMBDA d : d.reason = "")
        Sum(n) == FoldLeft(LAMBDA sum, d : sum + SizeOf[d.item.content], 0, SubSeq(given, 1, n))
    IN /\ Len(given) <= normalizePolicy.count /\ Sum(Len(given)) <= normalizePolicy.bytes
       /\ [n \in DOMAIN batch[s].decided |-> batch[s].decided[n].item] = batch[s].found
       /\ \A n \in DOMAIN batch[s].decided :
            batch[s].decided[n].reason = "too-many-attachments" => Len(given) = normalizePolicy.count

\* A file being downloaded is left behind by nobody but a program that crashed, and every path
\* is there once.
NoLeftovers ==
  /\ \A m, n \in DOMAIN directory : directory[m].path = directory[n].path => m = n
  /\ mediaFaults = 0 => \A s \in Scopes : At(Temp(s)) # {} => batch[s].at = "places"

MediaHeld == PromisedIsThere /\ AloneLeavesOrder /\ PromisedIsAllowed /\ NoLeftovers
=============================================================================
