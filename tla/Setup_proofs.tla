------------------------------ MODULE Setup_proofs ------------------------------
(***************************************************************************)
(* Of the secrets, the cards and lark-cli's identity, for any users,       *)
(* profiles, tokens, runs, failing writes and restarts. A secret that was  *)
(* acknowledged can be read and is what is found, because the entries of a *)
(* file are under its one salt and a writer that was not overtaken has     *)
(* read the file it replaces; a reader goes by the places it has passed. A *)
(* command gives a secret only when it and all it left behind have ended   *)
(* in time.                                                                *)
(*                                                                         *)
(* A card is accepted at most once. A form is safe because its entry is    *)
(* gone from memory before the click is accepted and from the file with    *)
(* it; a stop button, whose nonce may be lost with a failed write, because *)
(* its run does not survive the restart that forgets it.                   *)
(*                                                                         *)
(* lark-cli acts as its profile says: what a start or a form still has to  *)
(* do determines what holds of lark-cli and of the profile by then.        *)
(***************************************************************************)
EXTENDS CardAuth, Keystore, LarkCliIdentity, SequenceTheorems, FiniteSetTheorems, TLAPS

\* What an operation may ask for.
AskedIds == Ids \cup UNION {{ResolveSecretInput(input).ids[i] : i \in 1..2} : input \in Inputs}
Addresses == ProfileNames \X AskedIds
Fields == {"kind", "at", "todo", "value", "key", "seen", "found", "stale", "asked"}
Begun == {"key", "salt", "read", "decrypt", "write"}

\* The place an operation is at, and whether it has the key of that place.
Place(u) == Head(u.todo)[1]
Name(u) == Head(u.todo)[2]
HasKey(u) == salt[Place(u)] # <<>> /\ u.key = salt[Place(u)][1]
Reads(u) == u.kind \in {"get", "resolve"} /\ ~u.stale

\* What was found in the first k places asked for.
Has(place) == place[2] \in DOMAIN truth[place[1]]
Gives(found, places, k) ==
  /\ found = <<>> => \A i \in 1..k : ~Has(places[i])
  /\ found # <<>> => \E i \in 1..k : /\ Has(places[i]) /\ \A j \in 1..(i - 1) : ~Has(places[j])
                                     /\ Head(found) = truth[places[i][1]][places[i][2]]
Left(u, k) == k + Len(u.todo) = Len(u.asked) /\ \A i \in 1..Len(u.todo) : u.todo[i] = u.asked[i + k]

\* An operation has the shape of its kind.
ShapeOK(u) ==
  /\ DOMAIN u = Fields /\ u.stale \in BOOLEAN
  /\ u.todo \in Seq(Addresses) /\ u.asked \in Seq(Addresses)
  /\ u.at \in Begun => u.todo # <<>>
  /\ \/ u.kind = "none" /\ u.at = "idle"
     \/ u.kind = "set" /\ u.at \in {"key", "salt", "read", "write"} /\ u.value \in Values
     \/ u.kind = "remove" /\ u.at \in {"read", "write", "done"}
     \/ u.kind \in {"get", "resolve"} /\ u.at \in {"read", "key", "salt", "decrypt", "done"}
WriterOK(u) ==
  /\ u.kind = "set" /\ u.at \in {"read", "write"} => HasKey(u)
  /\ u.at = "write" /\ ~u.stale => u.seen = readStore(Place(u))
ReaderOK(u) ==
  Reads(u) =>
    /\ u.found \in Seq(Values)
    /\ u.at \in {"key", "salt", "decrypt"} => u.seen = readStore(Place(u)) /\ Name(u) \in DOMAIN u.seen
    /\ u.at # "salt" /\ (u.at = "decrypt" => HasKey(u))
    /\ u.at # "done" => \E k \in Nat : Left(u, k) /\ Gives(u.found, u.asked, k)
    /\ u.at # "done" /\ u.kind = "resolve" => u.found = <<>>
    /\ u.at = "done" => Gives(u.found, u.asked, Len(u.asked))
OperationOK(u) == ShapeOK(u) /\ WriterOK(u) /\ ReaderOK(u)

\* What is stored is what was acknowledged, under the salt of its file.
StoreOK(n) ==
  /\ truth[n] = [id \in DOMAIN truth[n] |-> truth[n][id]]
  /\ DOMAIN readStore(n) = DOMAIN truth[n]
  /\ \A id \in DOMAIN truth[n] :
       /\ truth[n][id] \in Values /\ readStore(n)[id].value = truth[n][id]
       /\ salt[n] # <<>> /\ readStore(n)[id].key = salt[n][1]
FilesOK == DOMAIN salt = ProfileNames /\ DOMAIN store = ProfileNames /\ DOMAIN truth = ProfileNames
           /\ \A n \in ProfileNames : StoreOK(n)
UsersOK == user = [p \in KeyUsers |-> user[p]] /\ \A p \in KeyUsers : OperationOK(user[p])
KeysInv == clash = {} => FilesOK /\ UsersOK
-----------------------------------------------------------------------------
\* A secret is looked for in profiles.
LEMMA LookupPlaces ==
  ASSUME NEW root \in Roots, NEW profile \in ProfileNames \cup {NoText}
  PROVE  secretLookupPaths(root, profile) \in Seq(ProfileNames)
  <1>1. CASE profile # NoText
    <2>1. profile \in ProfileNames /\ secretLookupPaths(root, profile) = <<profile>>
      BY <1>1 DEF secretLookupPaths
    <2> QED BY <2>1
  <1>2. CASE profile = NoText /\ root = <<>>
    BY <1>2, ProfilesAssumption DEF secretLookupPaths
  <1>3. CASE profile = NoText /\ root # <<>>
    <2>1. PICK names : names = root[1].profiles
      OBVIOUS
    <2>2. names \in Seq(ProfileNames)
      BY <1>3, <2>1, ProfilesAssumption
    <2> DEFINE has == {i \in DOMAIN names : names[i] = root[1].active}
    <2>3. CASE has = {}
      <3>1. secretLookupPaths(root, profile) = <<>>
        BY <1>3, <2>1, <2>3 DEF secretLookupPaths
      <3> QED BY <3>1
    <2>4. CASE has # {}
      <3> DEFINE at == CHOOSE i \in has : TRUE
      <3>1. at \in has
        BY <2>4
      <3>2. PICK a : a = at
        OBVIOUS
      <3>3. a \in 1..Len(names) /\ root[1].active = names[a] /\ root[1].active \in ProfileNames
        BY <2>2, <3>1, <3>2
      <3>4. PICK s, t : s = SubSeq(names, 1, a - 1) /\ t = SubSeq(names, a + 1, Len(names))
        OBVIOUS
      <3>5. s \in Seq(ProfileNames)
        <4>1. \A i \in 1..(a - 1) : names[i] \in ProfileNames
          BY <2>2, <3>3
        <4>2. 1 \in Int /\ a - 1 \in Int
          BY <3>3
        <4> QED BY <3>4, <4>1, <4>2, SubSeqProperties
      <3>6. t \in Seq(ProfileNames)
        <4>1. \A i \in (a + 1)..Len(names) : names[i] \in ProfileNames
          BY <2>2, <3>3
        <4>2. a + 1 \in Int /\ Len(names) \in Int
          BY <2>2, <3>3
        <4> QED BY <3>4, <4>1, <4>2, SubSeqProperties
      <3>7. PICK h : h = <<root[1].active>>
        OBVIOUS
      <3>9. h \in Seq(ProfileNames)
        BY <3>3, <3>7
      <3>8. secretLookupPaths(root, profile) = h \o s \o t
        BY <1>3, <2>1, <2>4, <3>2, <3>4, <3>7 DEF secretLookupPaths
      <3> HIDE DEF at
      <3> QED BY <3>5, <3>6, <3>9, <3>8, ConcatProperties
    <2> QED BY <2>3, <2>4
  <1> QED BY <1>1, <1>2, <1>3

\* While the files stay, so does what holds of an operation.
LEMMA StaysOK ==
  ASSUME UNCHANGED <<salt, store, truth>>
  PROVE  (\A u : OperationOK(u) => OperationOK(u)') /\ (FilesOK => FilesOK')
  <1>1. ASSUME NEW u, OperationOK(u) PROVE OperationOK(u)'
    <2>1. ShapeOK(u)'
      BY <1>1 DEF OperationOK, ShapeOK
    <2>2. WriterOK(u)'
      BY <1>1 DEF OperationOK, WriterOK, HasKey, Place, readStore
    <2>3. ReaderOK(u)'
      BY <1>1 DEF OperationOK, ReaderOK, Reads, HasKey, Gives, Has, Left, Place, Name, readStore
    <2> QED BY <2>1, <2>2, <2>3 DEF OperationOK
  <1>2. ASSUME FilesOK PROVE FilesOK'
    BY <1>2 DEF FilesOK, StoreOK, readStore
  <1> QED BY <1>1, <1>2

\* Only one process goes on.
LEMMA OthersStay ==
  ASSUME KeysInv, clash = {}, UNCHANGED <<salt, store, truth>>, NEW p \in KeyUsers, NEW w,
         user' = [user EXCEPT ![p] = w], OperationOK(w)
  PROVE  FilesOK' /\ UsersOK'
  <1>1. FilesOK /\ UsersOK
    BY DEF KeysInv
  <1>2. FilesOK'
    BY <1>1, StaysOK
  <1>3. user' = [q \in KeyUsers |-> IF q = p THEN w ELSE user[q]]
    BY <1>1 DEF UsersOK
  <1>4. \A q \in KeyUsers : OperationOK(user'[q])
    BY <1>1, <1>3 DEF UsersOK
  <1>5. ASSUME NEW q \in KeyUsers PROVE OperationOK(user[q])'
    <2>1. PICK v : v = user'[q]
      OBVIOUS
    <2>2. OperationOK(v)'
      BY <1>4, <2>1, StaysOK
    <2> QED BY <2>1, <2>2
  <1> QED BY <1>2, <1>3, <1>5 DEF UsersOK

\* An operation that begins has everything to do.
LEMMA BeginsOK ==
  ASSUME KeysInv, clash = {}, NEW p \in KeyUsers, NEW kind, NEW at, NEW todo, NEW value, Begins(p, kind, at, todo, value),
         todo \in Seq(Addresses), todo # <<>>,
         \/ kind = "set" /\ at = "key" /\ value \in Values
         \/ kind \in {"remove", "get", "resolve"} /\ at = "read"
  PROVE  FilesOK' /\ UsersOK'
  <1>1. UNCHANGED <<salt, store, truth>>
    BY DEF Begins
  <1>2. PICK w : w = [Resting EXCEPT !.kind = kind, !.at = at, !.todo = todo, !.value = value, !.asked = todo]
    OBVIOUS
  <1>3. user' = [user EXCEPT ![p] = w]
    BY <1>2 DEF Begins
  <1>4. /\ DOMAIN w = Fields /\ w.kind = kind /\ w.at = at /\ w.todo = todo /\ w.value = value /\ w.asked = todo
        /\ w.stale = FALSE /\ w.found = <<>>
    BY <1>2 DEF Resting, Fields
  <1>5. ShapeOK(w)
    BY <1>4 DEF ShapeOK, Begun
  <1>6. WriterOK(w)
    BY <1>4 DEF WriterOK
  <1>7. ReaderOK(w)
    <2>1. Left(w, 0)
      BY <1>4 DEF Left
    <2>2. Gives(w.found, w.asked, 0)
      BY <1>4 DEF Gives
    <2>3. w.found \in Seq(Values) /\ w.at \in {"read", "key"} /\ (w.kind = "set" \/ w.at = "read")
      BY <1>4
    <2>4. \E k \in Nat : Left(w, k) /\ Gives(w.found, w.asked, k)
      BY <2>1, <2>2
    <2> QED BY <1>4, <2>3, <2>4 DEF ReaderOK, Reads
  <1> QED BY <1>1, <1>3, <1>5, <1>6, <1>7, OthersStay DEF OperationOK
\* A secret that is to be set is one of those that may be.
LEMMA SetSecretStep ==
  ASSUME KeysInv, clash = {}, NEW p \in KeyUsers, SetSecret(p) PROVE FilesOK' /\ UsersOK'
  <1>1. PICK n \in ProfileNames, id \in Ids, v \in Values : Begins(p, "set", "key", <<<<n, id>>>>, v)
    BY DEF SetSecret
  <1>2. PICK s : s = <<<<n, id>>>>
    OBVIOUS
  <1>3. s \in Seq(Addresses) /\ s # <<>>
    BY <1>2 DEF Addresses, AskedIds
  <1> QED BY <1>1, <1>2, <1>3, BeginsOK
\* So is what is to be removed, in a profile there is.
LEMMA RemoveSecretStep ==
  ASSUME KeysInv, clash = {}, NEW p \in KeyUsers, RemoveSecret(p) PROVE FilesOK' /\ UsersOK'
  <1>1. PICK n \in ProfileNames, id \in Ids : Begins(p, "remove", "read", <<<<n, id>>>>, NoText)
    BY DEF RemoveSecret
  <1>2. PICK s : s = <<<<n, id>>>>
    OBVIOUS
  <1>3. s \in Seq(Addresses) /\ s # <<>>
    BY <1>2 DEF Addresses, AskedIds
  <1> QED BY <1>1, <1>2, <1>3, BeginsOK
\* Nothing is found before the first place is looked at.
LEMMA SecretsGetStep ==
  ASSUME KeysInv, clash = {}, NEW p \in KeyUsers, runSecretsGet(p) PROVE FilesOK' /\ UsersOK'
  <1>1. PICK root \in Roots, profile \in ProfileNames \cup {NoText}, id \in Ids :
          LET paths == secretLookupPaths(root, profile)
          IN paths # <<>> /\ Begins(p, "get", "read", [i \in DOMAIN paths |-> <<paths[i], id>>], NoText)
    BY DEF runSecretsGet
  <1>2. PICK paths : paths = secretLookupPaths(root, profile)
    OBVIOUS
  <1>3. paths \in Seq(ProfileNames) /\ paths # <<>>
    BY <1>1, <1>2, LookupPlaces
  <1>4. PICK s : s = [i \in DOMAIN paths |-> <<paths[i], id>>]
    OBVIOUS
  <1>5. s \in Seq(Addresses) /\ s # <<>>
    BY <1>3, <1>4 DEF Addresses, AskedIds
  <1> QED BY <1>1, <1>2, <1>4, <1>5, BeginsOK
\* The same of the two places of an app.
LEMMA ResolveSecretStep ==
  ASSUME KeysInv, clash = {}, NEW p \in KeyUsers, ResolveAppSecret(p) PROVE FilesOK' /\ UsersOK'
  <1>1. PICK n \in ProfileNames, input \in Inputs :
          Begins(p, "resolve", "read", [i \in 1..2 |-> <<n, ResolveSecretInput(input).ids[i]>>], NoText)
    BY DEF ResolveAppSecret
  <1>2. PICK s : s = [i \in 1..2 |-> <<n, ResolveSecretInput(input).ids[i]>>]
    OBVIOUS
  <1>3. s \in Seq(Addresses) /\ s # <<>>
    BY <1>2 DEF Addresses, AskedIds
  <1> QED BY <1>1, <1>2, <1>3, BeginsOK

\* What is rested from is nothing.
LEMMA RestingOK == OperationOK(Resting)
  <1>1. PICK w : w = Resting
    OBVIOUS
  <1>2. DOMAIN w = Fields /\ w.kind = "none" /\ w.at = "idle" /\ w.todo = <<>> /\ w.asked = <<>> /\ w.stale = FALSE
    BY <1>1 DEF Resting, Fields
  <1>3. w.todo \in Seq(Addresses) /\ w.asked \in Seq(Addresses)
    BY <1>2
  <1>4. ShapeOK(w)
    BY <1>2, <1>3 DEF ShapeOK, Begun
  <1>5. WriterOK(w) /\ ReaderOK(w)
    BY <1>2 DEF WriterOK, ReaderOK, Reads
  <1> QED BY <1>1, <1>4, <1>5 DEF OperationOK
\* An operation that ends leaves the files and the others as they are.
LEMMA RestsStep ==
  ASSUME KeysInv, clash = {}, NEW p \in KeyUsers, StoreWriteFails(p) \/ Told(p) PROVE FilesOK' /\ UsersOK'
  <1>1. PICK w : w = Resting
    OBVIOUS
  <1>2. user' = [user EXCEPT ![p] = w] /\ UNCHANGED <<salt, store, truth>>
    BY <1>1 DEF StoreWriteFails, Told
  <1> QED BY <1>1, <1>2, RestingOK, OthersStay

\* The key is that of the salt; a reader whose files are those it has read finds one.
LEMMA deriveKeyStep ==
  ASSUME KeysInv, clash = {}, NEW p \in KeyUsers, deriveKey(p) PROVE FilesOK' /\ UsersOK'
  <1>1. PICK u : u = user[p]
    OBVIOUS
  <1>2. FilesOK /\ OperationOK(u) /\ u.at = "key" /\ UNCHANGED <<salt, store, truth>>
    BY <1>1 DEF KeysInv, UsersOK, deriveKey, Is
  <1>3. PICK w : w = [u EXCEPT !.at = IF salt[Place(u)] = <<>> THEN "salt" ELSE IF u.kind = "set" THEN "read" ELSE "decrypt",
                               !.key = IF salt[Place(u)] = <<>> THEN 0 ELSE salt[Place(u)][1]]
    OBVIOUS
  <1>4. user' = [user EXCEPT ![p] = w]
    BY <1>1, <1>3 DEF deriveKey, Where, Place, KeysInv, UsersOK
  <1>5. /\ DOMAIN w = Fields /\ w.kind = u.kind /\ w.todo = u.todo /\ w.value = u.value /\ w.asked = u.asked
        /\ w.stale = u.stale /\ w.found = u.found /\ w.seen = u.seen
        /\ w.at = IF salt[Place(u)] = <<>> THEN "salt" ELSE IF u.kind = "set" THEN "read" ELSE "decrypt"
        /\ w.key = IF salt[Place(u)] = <<>> THEN 0 ELSE salt[Place(u)][1]
    BY <1>2, <1>3 DEF OperationOK, ShapeOK, Fields
  <1>6. u.todo # <<>> /\ Place(u) \in ProfileNames /\ Place(w) = Place(u) /\ Name(w) = Name(u)
    BY <1>2, <1>5 DEF OperationOK, ShapeOK, Begun, Place, Name, Addresses
  <1>7. ShapeOK(w)
    BY <1>2, <1>5 DEF OperationOK, ShapeOK, Begun
  <1>8. WriterOK(w)
    BY <1>2, <1>5, <1>6 DEF OperationOK, ShapeOK, WriterOK, HasKey
  <1>9. ReaderOK(w)
    <2> SUFFICES ASSUME Reads(w) PROVE ReaderOK(w)
      BY DEF ReaderOK
    <2>1. Reads(u) /\ ReaderOK(u)
      BY <1>2, <1>5 DEF Reads, OperationOK
    <2>2. u.seen = readStore(Place(u)) /\ Name(u) \in DOMAIN u.seen
      BY <1>2, <2>1 DEF ReaderOK
    <2>3. salt[Place(u)] # <<>>
      BY <1>2, <1>6, <2>2 DEF FilesOK, StoreOK
    <2>4. w.at = "decrypt" /\ HasKey(w)
      BY <1>5, <1>6, <2>1, <2>3 DEF HasKey, Reads
    <2>5. \E k \in Nat : Left(w, k) /\ Gives(w.found, w.asked, k)
      BY <1>2, <1>5, <2>1 DEF ReaderOK, Left
    <2> QED BY <1>2, <1>5, <1>6, <2>1, <2>2, <2>4, <2>5 DEF ReaderOK
  <1> QED BY <1>2, <1>4, <1>7, <1>8, <1>9, OthersStay DEF OperationOK

\* An operation is over with what it was found to give.
LEMMA AnswersStep ==
  ASSUME KeysInv, clash = {}, UNCHANGED <<salt, store, truth>>, NEW p \in KeyUsers, NEW found, Answers(p, found),
         user[p].kind \in {"remove", "get", "resolve"},
         Reads(user[p]) => found \in Seq(Values) /\ Gives(found, user[p].asked, Len(user[p].asked))
  PROVE  FilesOK' /\ UsersOK'
  <1>1. PICK u : u = user[p]
    OBVIOUS
  <1>2. PICK w : w = [Resting EXCEPT !.kind = u.kind, !.at = "done", !.found = found, !.stale = u.stale, !.asked = u.asked]
    OBVIOUS
  <1>3. user' = [user EXCEPT ![p] = w]
    BY <1>1, <1>2 DEF Answers
  <1>4. /\ DOMAIN w = Fields /\ w.kind = u.kind /\ w.at = "done" /\ w.todo = <<>> /\ w.asked = u.asked
        /\ w.stale = u.stale /\ w.found = found
    BY <1>2 DEF Resting, Fields
  <1>5. u.asked \in Seq(Addresses) /\ u.stale \in BOOLEAN /\ w.todo \in Seq(Addresses)
    BY <1>1, <1>4 DEF KeysInv, UsersOK, OperationOK, ShapeOK
  <1>6. ShapeOK(w)
    BY <1>1, <1>4, <1>5 DEF ShapeOK, Begun
  <1>7. WriterOK(w) /\ ReaderOK(w)
    BY <1>1, <1>4 DEF WriterOK, ReaderOK, Reads
  <1> QED BY <1>3, <1>6, <1>7, OthersStay DEF OperationOK

\* What is given of a first part is given of all when that is all, or something was found.
LEMMA GivesMore ==
  ASSUME NEW found, NEW places, NEW k \in Nat, NEW l \in Nat, k <= l, Gives(found, places, k), k = l \/ found # <<>>
  PROVE  Gives(found, places, l)
  BY DEF Gives

\* A reader looks on, after the place it was at.
LEMMA LooksOnStep ==
  ASSUME KeysInv, clash = {}, UNCHANGED <<salt, store, truth>>, NEW p \in KeyUsers, NEW found, LooksOn(p, found),
         user[p].kind \in {"get", "resolve"}, user[p].at \in {"read", "decrypt"},
         Reads(user[p]) => found \in Seq(Values) /\ \E k \in Nat : Left(user[p], k) /\ Gives(found, user[p].asked, k + 1)
  PROVE  FilesOK' /\ UsersOK'
  <1>1. PICK u : u = user[p]
    OBVIOUS
  <1>2. OperationOK(u) /\ u.todo # <<>> /\ u.todo \in Seq(Addresses) /\ u.asked \in Seq(Addresses)
    BY <1>1 DEF KeysInv, UsersOK, OperationOK, ShapeOK, Begun
  <1>3. PICK rest : rest = Tail(u.todo)
    OBVIOUS
  <1>4. rest \in Seq(Addresses) /\ Len(rest) = Len(u.todo) - 1 /\ \A i \in 1..Len(rest) : rest[i] = u.todo[i + 1]
    BY <1>2, <1>3
  <1>5. CASE rest = <<>> \/ (u.kind = "resolve" /\ found # <<>>)
    <2>1. Answers(p, found)
      BY <1>1, <1>3, <1>5 DEF LooksOn
    <2>2. Reads(u) => Gives(found, u.asked, Len(u.asked))
      <3> SUFFICES ASSUME Reads(u) PROVE Gives(found, u.asked, Len(u.asked))
        OBVIOUS
      <3>1. PICK k \in Nat : Left(u, k) /\ Gives(found, u.asked, k + 1)
        BY <1>1
      <3>2. k + Len(u.todo) = Len(u.asked) /\ Len(u.todo) \in Nat /\ Len(u.asked) \in Nat /\ Len(u.todo) >= 1
        BY <1>2, <3>1 DEF Left
      <3>3. k + 1 = Len(u.asked) \/ found # <<>>
        BY <1>4, <1>5, <3>2
      <3> QED BY <3>1, <3>2, <3>3, GivesMore
    <2> QED BY <1>1, <2>1, <2>2, AnswersStep
  <1>6. CASE ~(rest = <<>> \/ (u.kind = "resolve" /\ found # <<>>))
    <2>1. PICK w : w = [u EXCEPT !.at = "read", !.todo = rest, !.found = found]
      OBVIOUS
    <2>2. user' = [user EXCEPT ![p] = w]
      BY <1>1, <1>3, <1>6, <2>1 DEF LooksOn, KeysInv, UsersOK
    <2>3. /\ DOMAIN w = Fields /\ w.kind = u.kind /\ w.at = "read" /\ w.todo = rest /\ w.asked = u.asked
          /\ w.stale = u.stale /\ w.found = found
      BY <1>2, <2>1 DEF OperationOK, ShapeOK, Fields
    <2>4. ShapeOK(w)
      BY <1>1, <1>2, <1>4, <1>6, <2>3 DEF OperationOK, ShapeOK, Begun
    <2>5. WriterOK(w)
      BY <1>1, <2>3 DEF WriterOK
    <2>6. ReaderOK(w)
      <3> SUFFICES ASSUME Reads(w) PROVE ReaderOK(w)
        BY DEF ReaderOK
      <3>1. Reads(u) /\ found \in Seq(Values)
        BY <1>1, <2>3 DEF Reads
      <3>2. PICK k \in Nat : Left(u, k) /\ Gives(found, u.asked, k + 1)
        BY <1>1, <3>1
      <3>3. Left(w, k + 1)
        <4>1. k + Len(u.todo) = Len(u.asked) /\ \A i \in 1..Len(u.todo) : u.todo[i] = u.asked[i + k]
          BY <3>2 DEF Left
        <4>2. Len(u.todo) \in Nat /\ Len(rest) \in Nat
          BY <1>2, <1>4
        <4>3. \A i \in 1..Len(rest) : i + 1 \in 1..Len(u.todo) /\ (i + 1) + k = i + (k + 1)
          BY <1>4, <4>2
        <4>4. \A i \in 1..Len(rest) : rest[i] = u.asked[i + (k + 1)]
          BY <1>4, <4>1, <4>3
        <4>5. (k + 1) + Len(rest) = Len(u.asked)
          <5>1. PICK a \in Nat, b \in Nat : a = Len(rest) /\ b = Len(u.todo)
            BY <4>2
          <5>2. a = b - 1 /\ k + b = Len(u.asked)
            BY <1>4, <4>1, <5>1
          <5>3. (k + 1) + a = Len(u.asked)
            BY <5>2
          <5> QED BY <5>1, <5>3
        <4>6. w.todo = rest /\ w.asked = u.asked
          BY <2>3
        <4>7. PICK l : l = k + 1
          OBVIOUS
        <4>8. Left(w, l)
          BY <4>4, <4>5, <4>6, <4>7 DEF Left
        <4> QED BY <4>7, <4>8
      <3>4. \E l \in Nat : Left(w, l) /\ Gives(w.found, w.asked, l)
        BY <2>3, <3>2, <3>3
      <3>5. w.kind = "resolve" => w.found = <<>>
        BY <1>6, <2>3
      <3> QED BY <2>3, <3>1, <3>4, <3>5 DEF ReaderOK
    <2> QED BY <2>2, <2>4, <2>5, <2>6, OthersStay DEF OperationOK
  <1> QED BY <1>5, <1>6

\* What reads the store at a place has it as it is.
LEMMA StoreReadStep ==
  ASSUME KeysInv, clash = {}, NEW p \in KeyUsers, StoreRead(p) PROVE FilesOK' /\ UsersOK'
  <1>1. PICK u : u = user[p]
    OBVIOUS
  <1>2. FilesOK /\ OperationOK(u) /\ u.at = "read" /\ UNCHANGED <<salt, store, truth>>
    BY <1>1 DEF KeysInv, UsersOK, StoreRead, Is
  <1>3. /\ u.todo # <<>> /\ u.todo \in Seq(Addresses) /\ Place(u) \in ProfileNames /\ DOMAIN u = Fields
        /\ u.kind \in {"set", "remove", "get", "resolve"}
    BY <1>2 DEF OperationOK, ShapeOK, Begun, Place, Addresses
  <1>4. PICK its : its = readStore(Place(u))
    OBVIOUS
  <1>5. DOMAIN its = DOMAIN truth[Place(u)]
    BY <1>2, <1>3, <1>4 DEF FilesOK, StoreOK
  <1>6. CASE u.kind = "set" \/ (u.kind = "remove" /\ Name(u) \in DOMAIN its)
    <2>1. PICK w : w = [u EXCEPT !.at = "write", !.seen = its, !.stale = FALSE]
      OBVIOUS
    <2>2. user' = [user EXCEPT ![p] = w]
      BY <1>1, <1>4, <1>6, <2>1 DEF StoreRead, Where, What, Place, Name, KeysInv, UsersOK
    <2>3. /\ DOMAIN w = Fields /\ w.kind = u.kind /\ w.at = "write" /\ w.todo = u.todo /\ w.asked = u.asked
          /\ w.stale = FALSE /\ w.seen = its /\ w.key = u.key /\ w.value = u.value
      BY <1>3, <2>1 DEF Fields
    <2>4. ShapeOK(w)
      BY <1>2, <1>3, <1>6, <2>3 DEF OperationOK, ShapeOK, Begun
    <2>5. WriterOK(w)
      BY <1>2, <1>4, <2>3 DEF OperationOK, WriterOK, HasKey, Place
    <2>6. ReaderOK(w)
      BY <1>6, <2>3 DEF ReaderOK, Reads
    <2> QED BY <1>2, <2>2, <2>4, <2>5, <2>6, OthersStay DEF OperationOK
  <1>7. CASE u.kind = "remove" /\ Name(u) \notin DOMAIN its
    <2>1. Answers(p, <<>>)
      BY <1>1, <1>4, <1>7 DEF StoreRead, Where, What, Place, Name, Refused
    <2> QED BY <1>1, <1>2, <1>7, <2>1, AnswersStep DEF Reads
  <1>8. CASE u.kind \in {"get", "resolve"} /\ Name(u) \in DOMAIN its
    <2>1. PICK w : w = [u EXCEPT !.at = "key", !.seen = its]
      OBVIOUS
    <2>2. user' = [user EXCEPT ![p] = w]
      <3>1. user' = [user EXCEPT ![p].at = "key", ![p].seen = its, ![p].stale = @]
        BY <1>1, <1>4, <1>8 DEF StoreRead, Where, What, Place, Name
      <3> QED BY <1>1, <1>3, <2>1, <3>1 DEF Fields, KeysInv, UsersOK
    <2>3. /\ DOMAIN w = Fields /\ w.kind = u.kind /\ w.at = "key" /\ w.todo = u.todo /\ w.asked = u.asked
          /\ w.stale = u.stale /\ w.seen = its /\ w.found = u.found
      BY <1>3, <2>1 DEF Fields
    <2>4. ShapeOK(w)
      BY <1>2, <1>3, <1>8, <2>3 DEF OperationOK, ShapeOK, Begun
    <2>5. WriterOK(w)
      BY <1>8, <2>3 DEF WriterOK
    <2>6. ReaderOK(w)
      <3> SUFFICES ASSUME Reads(w) PROVE ReaderOK(w)
        BY DEF ReaderOK
      <3>1. Reads(u) /\ ReaderOK(u)
        BY <1>2, <2>3 DEF Reads, OperationOK
      <3>2. \E k \in Nat : Left(w, k) /\ Gives(w.found, w.asked, k)
        BY <1>2, <2>3, <3>1 DEF ReaderOK, Left
      <3>3. Place(w) = Place(u) /\ Name(w) = Name(u)
        BY <2>3 DEF Place, Name
      <3> QED BY <1>2, <1>4, <1>8, <2>3, <3>1, <3>2, <3>3 DEF ReaderOK
    <2> QED BY <1>2, <2>2, <2>4, <2>5, <2>6, OthersStay DEF OperationOK
  <1>9. CASE u.kind \in {"get", "resolve"} /\ Name(u) \notin DOMAIN its
    <2>1. LooksOn(p, u.found)
      BY <1>1, <1>4, <1>9 DEF StoreRead, Where, What, Place, Name
    <2>2. Reads(u) => u.found \in Seq(Values) /\ \E k \in Nat : Left(u, k) /\ Gives(u.found, u.asked, k + 1)
      <3> SUFFICES ASSUME Reads(u)
                   PROVE  u.found \in Seq(Values) /\ \E k \in Nat : Left(u, k) /\ Gives(u.found, u.asked, k + 1)
        OBVIOUS
      <3>1. PICK k \in Nat : Left(u, k) /\ Gives(u.found, u.asked, k)
        BY <1>2 DEF OperationOK, ReaderOK
      <3>2. u.asked[k + 1] = Head(u.todo)
        <4>1. Len(u.todo) \in Nat /\ Len(u.todo) >= 1 /\ Head(u.todo) = u.todo[1]
          BY <1>3
        <4> QED BY <3>1, <4>1 DEF Left
      <3>3. ~Has(u.asked[k + 1])
        BY <1>5, <1>9, <3>2 DEF Has, Place, Name
      <3>4. Gives(u.found, u.asked, k + 1)
        BY <3>1, <3>3 DEF Gives
      <3> QED BY <1>2, <3>1, <3>4 DEF OperationOK, ReaderOK
    <2> QED BY <1>1, <1>2, <1>9, <2>1, <2>2, LooksOnStep
  <1> QED BY <1>3, <1>6, <1>7, <1>8, <1>9

\* A reader whose files are those it has read has the key of the entry, which gives
\* what was acknowledged.
LEMMA decryptEnvelopeStep ==
  ASSUME KeysInv, clash = {}, NEW p \in KeyUsers, decryptEnvelope(p) PROVE FilesOK' /\ UsersOK'
  <1>1. PICK u : u = user[p]
    OBVIOUS
  <1>2. FilesOK /\ OperationOK(u) /\ u.at = "decrypt" /\ UNCHANGED <<salt, store, truth>>
    BY <1>1 DEF KeysInv, UsersOK, decryptEnvelope, Is
  <1>3. u.todo # <<>> /\ u.todo \in Seq(Addresses) /\ Place(u) \in ProfileNames /\ u.kind \in {"get", "resolve"}
    BY <1>2 DEF OperationOK, ShapeOK, Begun, Place, Addresses
  <1>4. PICK e : e = u.seen[Name(u)]
    OBVIOUS
  <1>5. ASSUME Reads(u)
        PROVE  e.key = u.key /\ e.value = truth[Place(u)][Name(u)] /\ e.value \in Values /\ Name(u) \in DOMAIN truth[Place(u)]
    <2>1. u.seen = readStore(Place(u)) /\ Name(u) \in DOMAIN u.seen /\ HasKey(u)
      BY <1>2, <1>5 DEF OperationOK, ReaderOK
    <2> QED BY <1>2, <1>3, <1>4, <2>1 DEF FilesOK, StoreOK, HasKey
  <1>6. CASE e.key = u.key
    <2>1. PICK found : found = Append(u.found, e.value)
      OBVIOUS
    <2>2. LooksOn(p, found)
      BY <1>1, <1>4, <1>6, <2>1 DEF decryptEnvelope, What, Name
    <2>3. ASSUME Reads(u)
          PROVE  found \in Seq(Values) /\ \E k \in Nat : Left(u, k) /\ Gives(found, u.asked, k + 1)
      <3>1. PICK k \in Nat : Left(u, k) /\ Gives(u.found, u.asked, k)
        BY <1>2, <2>3 DEF OperationOK, ReaderOK
      <3>2. u.asked[k + 1] = Head(u.todo)
        <4>1. Len(u.todo) \in Nat /\ Len(u.todo) >= 1 /\ Head(u.todo) = u.todo[1]
          BY <1>3
        <4> QED BY <3>1, <4>1 DEF Left
      <3>3. Has(u.asked[k + 1]) /\ e.value = truth[u.asked[k + 1][1]][u.asked[k + 1][2]]
        BY <1>5, <2>3, <3>2 DEF Has, Place, Name
      <3>4. u.found \in Seq(Values)
        BY <1>2, <2>3 DEF OperationOK, ReaderOK
      <3>5. /\ found \in Seq(Values) /\ found # <<>>
            /\ (u.found = <<>> => Head(found) = e.value) /\ (u.found # <<>> => Head(found) = Head(u.found))
        BY <1>5, <2>1, <2>3, <3>4
      <3>6. Gives(found, u.asked, k + 1)
        <4>1. CASE u.found = <<>>
          <5>1. \A j \in 1..k : ~Has(u.asked[j])
            BY <3>1, <4>1 DEF Gives
          <5> QED BY <3>3, <3>5, <4>1, <5>1 DEF Gives
        <4>2. CASE u.found # <<>>
          BY <3>1, <3>5, <4>2 DEF Gives
        <4> QED BY <4>1, <4>2
      <3> QED BY <3>1, <3>5, <3>6
    <2> QED BY <1>1, <1>2, <1>3, <2>2, <2>3, LooksOnStep
  <1>7. CASE e.key # u.key
    <2>1. Answers(p, <<>>)
      BY <1>1, <1>4, <1>7 DEF decryptEnvelope, What, Name, Refused
    <2> QED BY <1>1, <1>2, <1>3, <1>5, <1>7, <2>1, AnswersStep
  <1> QED BY <1>6, <1>7

\* A file is replaced: the others are stale, and keep the key they have.
LEMMA OthersStale ==
  ASSUME UsersOK, NEW p \in KeyUsers, NEW w, OperationOK(w)', \A m \in ProfileNames : salt[m] # <<>> => salt'[m] = salt[m],
         user' = [q \in KeyUsers |-> IF q = p THEN w ELSE [user[q] EXCEPT !.stale = TRUE]]
  PROVE  UsersOK'
  <1>1. ASSUME NEW q \in KeyUsers, q # p, NEW x, x = [user[q] EXCEPT !.stale = TRUE] PROVE OperationOK(x)'
    <2>1. PICK v : v = user[q]
      OBVIOUS
    <2>2. x = [v EXCEPT !.stale = TRUE]
      BY <1>1, <2>1
    <2>3. OperationOK(v)
      BY <2>1 DEF UsersOK
    <2>4. /\ DOMAIN x = Fields /\ x.kind = v.kind /\ x.todo = v.todo /\ x.asked = v.asked /\ x.stale = TRUE
          /\ x.at = v.at /\ x.key = v.key /\ x.value = v.value
      BY <2>2, <2>3 DEF OperationOK, ShapeOK, Fields
    <2>5. ShapeOK(x)'
      BY <2>3, <2>4 DEF OperationOK, ShapeOK
    <2>6. WriterOK(x)'
      <3>1. v.at \in Begun => Place(v) \in ProfileNames
        BY <2>3 DEF OperationOK, ShapeOK, Place, Addresses
      <3> QED BY <2>3, <2>4, <3>1 DEF OperationOK, WriterOK, HasKey, Place, Begun
    <2>7. ReaderOK(x)'
      BY <2>4 DEF ReaderOK, Reads
    <2> QED BY <2>5, <2>6, <2>7 DEF OperationOK
  <1>2. ASSUME NEW q \in KeyUsers PROVE OperationOK(user[q])'
    <2>1. CASE q = p
      BY <2>1
    <2>2. CASE q # p
      <3>1. PICK x : x = [user[q] EXCEPT !.stale = TRUE]
        OBVIOUS
      <3>2. OperationOK(x)'
        BY <1>1, <2>2, <3>1
      <3>3. user'[q] = x
        BY <2>2, <3>1
      <3> QED BY <3>2, <3>3
    <2> QED BY <2>1, <2>2
  <1>3. user' = [q \in KeyUsers |-> user'[q]]
    OBVIOUS
  <1> QED BY <1>2, <1>3 DEF UsersOK

\* A salt that is made where there is none is nobody else's, and no entry is under it.
LEMMA loadOrCreateSaltStep ==
  ASSUME KeysInv, clash' = {}, NEW p \in KeyUsers, loadOrCreateSalt(p) PROVE FilesOK' /\ UsersOK'
  <1>1. PICK u : u = user[p]
    OBVIOUS
  <1>2. PICK n : n = Place(u)
    OBVIOUS
  <1>3. salt[n] = <<>> /\ clash = {}
    BY <1>1, <1>2 DEF loadOrCreateSalt, Where, Place
  <1>4. FilesOK /\ UsersOK /\ OperationOK(u) /\ u.at = "salt" /\ UNCHANGED <<store, truth>>
    BY <1>1, <1>3 DEF KeysInv, UsersOK, loadOrCreateSalt, Is
  <1>5. u.todo # <<>> /\ u.todo \in Seq(Addresses) /\ n \in ProfileNames /\ DOMAIN u = Fields
    BY <1>2, <1>4 DEF OperationOK, ShapeOK, Begun, Place, Addresses
  <1>6. PICK s : s = <<salts'>>
    OBVIOUS
  <1>7. s # <<>> /\ s[1] = salts'
    BY <1>6
  <1>8. salt' = [salt EXCEPT ![n] = s]
    BY <1>1, <1>2, <1>6 DEF loadOrCreateSalt, Where, Place
  <1>9. salt'[n] = s /\ DOMAIN salt' = ProfileNames /\ \A m \in ProfileNames : m # n => salt'[m] = salt[m]
    BY <1>4, <1>5, <1>8 DEF FilesOK
  <1>10. FilesOK'
    <2>1. \A m \in ProfileNames : StoreOK(m)'
      BY <1>3, <1>4, <1>9 DEF FilesOK, StoreOK, readStore
    <2> QED BY <1>4, <1>9, <2>1 DEF FilesOK
  <1>11. PICK w : w = [u EXCEPT !.at = IF u.kind = "set" THEN "read" ELSE "decrypt", !.key = salts']
    OBVIOUS
  <1>12. user' = [q \in KeyUsers |-> IF q = p THEN w ELSE [user[q] EXCEPT !.stale = TRUE]]
    BY <1>1, <1>11 DEF loadOrCreateSalt
  <1>13. OperationOK(w)'
    <2>1. /\ DOMAIN w = Fields /\ w.kind = u.kind /\ w.todo = u.todo /\ w.asked = u.asked /\ w.stale = u.stale
          /\ w.at = (IF u.kind = "set" THEN "read" ELSE "decrypt") /\ w.key = salts' /\ w.value = u.value
      BY <1>5, <1>11 DEF Fields
    <2>2. u.kind \in {"set", "get", "resolve"} /\ (u.kind # "set" => ~Reads(u))
      BY <1>4 DEF OperationOK, ShapeOK, ReaderOK, Reads
    <2>3. ShapeOK(w)'
      BY <1>4, <1>5, <2>1, <2>2 DEF OperationOK, ShapeOK, Begun
    <2>4. WriterOK(w)'
      BY <1>2, <1>7, <1>9, <2>1 DEF WriterOK, HasKey, Place
    <2>5. ReaderOK(w)'
      BY <2>1, <2>2 DEF ReaderOK, Reads
    <2> QED BY <2>3, <2>4, <2>5 DEF OperationOK
  <1>14. \A m \in ProfileNames : salt[m] # <<>> => salt'[m] = salt[m]
    BY <1>3, <1>9
  <1>15. UsersOK'
    BY <1>4, <1>12, <1>13, <1>14, OthersStale
  <1> QED BY <1>10, <1>15

\* What is written is what was read with the one change, which is acknowledged.
LEMMA StoreWriteStep ==
  ASSUME KeysInv, clash' = {}, NEW p \in KeyUsers, StoreWrite(p) PROVE FilesOK' /\ UsersOK'
  <1>1. PICK u : u = user[p]
    OBVIOUS
  <1>2. PICK n, id : n = Place(u) /\ id = Name(u)
    OBVIOUS
  <1>3. clash = {} /\ ~u.stale
    BY <1>1 DEF StoreWrite
  <1>4. FilesOK /\ UsersOK /\ OperationOK(u) /\ u.at = "write" /\ UNCHANGED salt
    BY <1>1, <1>3 DEF KeysInv, UsersOK, StoreWrite, Is
  <1>5. /\ n \in ProfileNames /\ u.kind \in {"set", "remove"} /\ u.seen = readStore(n)
        /\ u.kind = "set" => u.value \in Values /\ salt[n] # <<>> /\ u.key = salt[n][1]
    BY <1>2, <1>3, <1>4 DEF OperationOK, ShapeOK, WriterOK, HasKey, Begun, Place, Addresses
  <1>6. PICK e : e = IF u.kind = "set" THEN SetEntry(u.seen, id, [key |-> u.key, value |-> u.value]) ELSE RemoveEntry(u.seen, id)
    OBVIOUS
  <1>7. PICK t : t = IF u.kind = "set" THEN SetEntry(truth[n], id, u.value) ELSE RemoveEntry(truth[n], id)
    OBVIOUS
  <1>8. writeStore(n, e) /\ truth' = [truth EXCEPT ![n] = t]
    BY <1>1, <1>2, <1>6, <1>7 DEF StoreWrite, Where, What, Place, Name
  <1>9. PICK f : f = <<[version |-> 1, entries |-> e]>>
    OBVIOUS
  <1>10. store' = [store EXCEPT ![n] = f]
    BY <1>8, <1>9 DEF writeStore
  <1>11. /\ DOMAIN store' = ProfileNames /\ DOMAIN truth' = ProfileNames /\ DOMAIN salt' = ProfileNames
         /\ store'[n] = f /\ truth'[n] = t
         /\ \A m \in ProfileNames : m # n => store'[m] = store[m] /\ truth'[m] = truth[m]
    BY <1>4, <1>5, <1>8, <1>10 DEF FilesOK
  <1>12. readStore(n)' = e
    BY <1>9, <1>11 DEF readStore
  <1>13. StoreOK(n)'
    <2>1. StoreOK(n)
      BY <1>4, <1>5 DEF FilesOK
    <2>2. CASE u.kind = "set"
      <3>1. t = [i \in DOMAIN truth[n] \cup {id} |-> IF i = id THEN u.value ELSE truth[n][i]]
        BY <1>7, <2>2 DEF SetEntry
      <3>2. PICK r : r = [key |-> u.key, value |-> u.value]
        OBVIOUS
      <3>3. e = [i \in DOMAIN u.seen \cup {id} |-> IF i = id THEN r ELSE u.seen[i]]
        BY <1>6, <2>2, <3>2 DEF SetEntry
      <3>4. r.key = u.key /\ r.value = u.value
        BY <3>2
      <3>5. t = [i \in DOMAIN t |-> t[i]] /\ DOMAIN e = DOMAIN t
        BY <1>5, <2>1, <3>1, <3>3 DEF StoreOK
      <3>6. \A i \in DOMAIN t : t[i] \in Values /\ e[i].value = t[i] /\ salt[n] # <<>> /\ e[i].key = salt[n][1]
        BY <1>5, <2>1, <2>2, <3>1, <3>3, <3>4 DEF StoreOK
      <3> QED BY <1>4, <1>11, <1>12, <3>5, <3>6 DEF StoreOK
    <2>3. CASE u.kind = "remove"
      <3>1. t = [i \in DOMAIN truth[n] \ {id} |-> truth[n][i]]
        BY <1>7, <2>3 DEF RemoveEntry
      <3>2. e = [i \in DOMAIN u.seen \ {id} |-> u.seen[i]]
        BY <1>6, <2>3 DEF RemoveEntry
      <3>3. t = [i \in DOMAIN t |-> t[i]] /\ DOMAIN e = DOMAIN t
        BY <1>5, <2>1, <3>1, <3>2 DEF StoreOK
      <3>4. \A i \in DOMAIN t : t[i] \in Values /\ e[i].value = t[i] /\ salt[n] # <<>> /\ e[i].key = salt[n][1]
        BY <1>5, <2>1, <3>1, <3>2 DEF StoreOK
      <3> QED BY <1>4, <1>11, <1>12, <3>3, <3>4 DEF StoreOK
    <2> QED BY <1>5, <2>2, <2>3
  <1>14. FilesOK'
    <2>1. \A m \in ProfileNames : m # n => StoreOK(m)'
      BY <1>4, <1>11 DEF FilesOK, StoreOK, readStore
    <2> QED BY <1>11, <1>13, <2>1 DEF FilesOK
  <1>15. PICK w : w = Resting
    OBVIOUS
  <1>16. OperationOK(w)'
    BY <1>15, RestingOK DEF OperationOK, ShapeOK, WriterOK, ReaderOK, Reads, Resting
  <1>17. user' = [q \in KeyUsers |-> IF q = p THEN w ELSE [user[q] EXCEPT !.stale = TRUE]]
    BY <1>15 DEF StoreWrite
  <1> QED BY <1>4, <1>14, <1>16, <1>17, OthersStale

\* Every step keeps the invariant.
LEMMA KeysStep == KeysInv /\ KeyNext => KeysInv'
  <1> SUFFICES ASSUME KeysInv, KeyNext, clash' = {} PROVE FilesOK' /\ UsersOK'
    BY DEF KeysInv
  <1>1. PICK p \in KeyUsers : \/ SetSecret(p) \/ RemoveSecret(p) \/ runSecretsGet(p) \/ ResolveAppSecret(p)
                           \/ deriveKey(p) \/ loadOrCreateSalt(p) \/ StoreRead(p) \/ decryptEnvelope(p)
                           \/ StoreWrite(p) \/ StoreWriteFails(p) \/ Told(p)
    BY DEF KeyNext
  <1>2. CASE loadOrCreateSalt(p)
    BY <1>2, loadOrCreateSaltStep
  <1>3. CASE StoreWrite(p)
    BY <1>3, StoreWriteStep
  <1>4. CASE ~loadOrCreateSalt(p) /\ ~StoreWrite(p)
    <2>1. clash = {}
      BY <1>1, <1>4 DEF SetSecret, RemoveSecret, runSecretsGet, ResolveAppSecret, Begins, deriveKey, StoreRead, decryptEnvelope,
         StoreWriteFails, Told
    <2> QED BY <1>1, <1>4, <2>1, SetSecretStep, RemoveSecretStep, SecretsGetStep, ResolveSecretStep, deriveKeyStep,
               StoreReadStep, decryptEnvelopeStep, RestsStep
  <1> QED BY <1>2, <1>3, <1>4

\* At first there is no secret.
LEMMA KeysBegin == KeyInit => KeysInv
  <1> SUFFICES ASSUME KeyInit PROVE FilesOK /\ UsersOK
    BY DEF KeysInv
  <1>1. DOMAIN salt = ProfileNames /\ DOMAIN store = ProfileNames /\ DOMAIN truth = ProfileNames
    BY StoresAssumption DEF KeyInit
  <1>2. \A n \in ProfileNames : readStore(n) = NoSecrets /\ truth[n] = NoSecrets
    BY StoresAssumption DEF KeyInit, readStore
  <1>3. \A n \in ProfileNames : StoreOK(n)
    BY <1>2 DEF StoreOK, NoSecrets
  <1>4. UsersOK
    BY RestingOK DEF UsersOK, KeyInit
  <1> QED BY <1>1, <1>3, <1>4 DEF FilesOK

\* From the invariant follows what is promised.
LEMMA KeysFollow == KeysInv => KeysKept
  <1> SUFFICES ASSUME KeysInv, clash = {}
               PROVE  /\ \A n \in ProfileNames : Readable(n) = truth[n]
                      /\ \A p \in KeyUsers : Is(p, "done") /\ ~user[p].stale /\ user[p].kind \in {"get", "resolve"} =>
                           (IF user[p].found = <<>> THEN <<>> ELSE <<Head(user[p].found)>>) = Sought(user[p].asked)
    BY DEF KeysKept
  <1>1. FilesOK /\ UsersOK
    BY DEF KeysInv
  <1>2. ASSUME NEW n \in ProfileNames PROVE Readable(n) = truth[n]
    <2>1. StoreOK(n)
      BY <1>1 DEF FilesOK
    <2>2. {id \in DOMAIN readStore(n) : salt[n] # <<>> /\ readStore(n)[id].key = salt[n][1]} = DOMAIN truth[n]
      BY <2>1 DEF StoreOK
    <2>3. Readable(n) = [id \in DOMAIN truth[n] |-> readStore(n)[id].value]
      BY <2>2 DEF Readable
    <2>4. [id \in DOMAIN truth[n] |-> readStore(n)[id].value] = [id \in DOMAIN truth[n] |-> truth[n][id]]
      BY <2>1 DEF StoreOK
    <2> QED BY <2>1, <2>3, <2>4 DEF StoreOK
  <1>3. ASSUME NEW p \in KeyUsers, Is(p, "done"), ~user[p].stale, user[p].kind \in {"get", "resolve"}
        PROVE  (IF user[p].found = <<>> THEN <<>> ELSE <<Head(user[p].found)>>) = Sought(user[p].asked)
    <2>1. PICK u : u = user[p]
      OBVIOUS
    <2>2. Gives(u.found, u.asked, Len(u.asked)) /\ u.asked \in Seq(Addresses)
      BY <1>1, <1>3, <2>1 DEF UsersOK, OperationOK, ShapeOK, ReaderOK, Reads, Is
    <2>3. PICK places : places = u.asked
      OBVIOUS
    <2>4. DOMAIN places = 1..Len(places) /\ Len(places) \in Nat
      BY <2>2, <2>3
    <2> DEFINE has == {i \in DOMAIN places : places[i][2] \in DOMAIN truth[places[i][1]]}
    <2>5. CASE u.found = <<>>
      <3>1. has = {}
        BY <2>2, <2>3, <2>4, <2>5 DEF Gives, Has
      <3>2. Sought(places) = <<>>
        BY <3>1 DEF Sought
      <3> QED BY <2>1, <2>3, <2>5, <3>2
    <2>6. CASE u.found # <<>>
      <3>1. PICK i \in 1..Len(places) : /\ Has(places[i]) /\ \A j \in 1..(i - 1) : ~Has(places[j])
                                        /\ Head(u.found) = truth[places[i][1]][places[i][2]]
        BY <2>2, <2>3, <2>6 DEF Gives
      <3>2. i \in has
        BY <2>4, <3>1 DEF Has
      <3>3. \A j \in has : i <= j
        BY <2>4, <3>1 DEF Has
      <3>4. \A k \in has : (\A j \in has : k <= j) => k = i
        BY <2>4, <3>2, <3>3
      <3>5. PICK first : first = CHOOSE k \in has : \A j \in has : k <= j
        OBVIOUS
      <3>6. first = i
        BY <3>2, <3>3, <3>4, <3>5
      <3>7. Sought(places) = <<truth[places[first][1]][places[first][2]]>>
        BY <3>2, <3>5 DEF Sought
      <3> QED BY <2>1, <2>3, <2>6, <3>1, <3>6, <3>7
    <2> QED BY <2>5, <2>6
  <1> QED BY <1>2, <1>3
-----------------------------------------------------------------------------
\* A command that is asked: nothing is there before it is started, what is taken in is
\* within its limit, and once it is over all it left behind is.
ProviderShape ==
  /\ DOMAIN query = {"at", "command", "named", "env", "result"} /\ query.at \in {"idle", "runs", "done"}
  /\ DOMAIN helper = {"state", "heir"} /\ helper.heir \in BOOLEAN
  /\ DOMAIN stdout = {"size", "exceeded", "pieces"} /\ stdout.size \in Nat /\ stdout.pieces \in Seq(Pieces)
  /\ overdue \in {"no", "deadline", "cancelled"}
Unasked ==
  /\ query.result.kind = "none" /\ helper.state = "none" /\ ~helper.heir
  /\ stdout.size = 0 /\ ~stdout.exceeded
ProviderInv ==
  /\ ProviderShape
  /\ query.at = "idle" => Unasked
  /\ query.at # "idle" => query.command \in Providers /\ stdout.size <= Limit(query.command)
  /\ helper.state = "killed" => overdue # "no"
  /\ SecretIsGiven /\ EnvReaches

\* A limit is a number.
LEMMA LimitIsNumber == ASSUME NEW command \in Providers PROVE Limit(command) \in Nat
  BY LimitAssumption DEF Limit

\* Nothing has been asked at first.
LEMMA ProviderBegins == ProviderInit => ProviderInv
  <1> SUFFICES ASSUME ProviderInit PROVE ProviderInv
    OBVIOUS
  <1>1. PICK none : none = NoCommand
    OBVIOUS
  <1>2. query = [at |-> "idle", command |-> none, named |-> NoText, env |-> <<>>, result |-> [kind |-> "none"]]
    BY <1>1 DEF ProviderInit
  <1>3. helper = [state |-> "none", heir |-> FALSE] /\ stdout = [size |-> 0, exceeded |-> FALSE, pieces |-> <<>>] /\ overdue = "no"
    BY DEF ProviderInit
  <1>4. query.at = "idle" /\ query.result.kind = "none" /\ DOMAIN query = {"at", "command", "named", "env", "result"}
    BY <1>2
  <1>5. stdout.pieces \in Seq(Pieces)
    BY <1>3
  <1>6. ProviderShape /\ Unasked
    BY <1>3, <1>4, <1>5 DEF ProviderShape, Unasked
  <1> QED BY <1>2, <1>3, <1>4, <1>6 DEF ProviderInv, SecretIsGiven, EnvReaches

\* A set of numbers that is not empty has a least one,
LEMMA LeastOf ==
  ASSUME NEW T \in SUBSET Nat, T # {} PROVE \E x \in T : \A y \in T : x <= y
  <1>1. PICK R : R = OpToRel(<, Nat)
    OBVIOUS
  <1>2. R = {ss \in Nat \X Nat : ss[1] < ss[2]}
    BY <1>1 DEF OpToRel
  <1>3. IsWellFoundedOn(R, Nat)
    BY <1>1, NatLessThanWellFounded
  <1>4. PICK x \in T : \A y \in T : ~ (<<y, x>> \in R)
    BY <1>3, WFMin
  <1>5. \A y \in T : ~(y < x)
    BY <1>2, <1>4
  <1> QED BY <1>5

\* and one that is bounded a greatest.
LEMMA GreatestOf ==
  ASSUME NEW n \in Nat, NEW T \in SUBSET (1..n), T # {} PROVE \E x \in T : \A y \in T : y <= x
  <1> DEFINE U == {k \in Nat : \A t \in T : t <= k}
  <1>1. U \in SUBSET Nat /\ n \in U
    OBVIOUS
  <1>2. PICK x \in U : \A y \in U : x <= y
    BY <1>1, LeastOf
  <1>3. x \in Nat /\ \A t \in T : t \in Nat /\ 1 <= t /\ t <= x
    OBVIOUS
  <1>4. CASE x \in T
    BY <1>3, <1>4
  <1>5. CASE x \notin T
    <2>1. \A t \in T : t <= x - 1
      BY <1>3, <1>5
    <2>2. PICK t \in T : TRUE
      OBVIOUS
    <2>3. x - 1 \in Nat
      BY <1>3, <2>2
    <2>4. x - 1 \in U
      BY <2>1, <2>3
    <2> QED BY <1>2, <1>3, <2>4
  <1> QED BY <1>4, <1>5

\* The last entry of a variable is that which none follows.
LEMMA LastIs ==
  ASSUME NEW env, NEW key, NEW n \in DOMAIN env, DOMAIN env \subseteq Int, env[n][1] = key,
         \A m \in DOMAIN env : env[m][1] = key => m <= n
  PROVE  LastOf(env, key) = n
  <1> DEFINE IsLast(k) == k \in DOMAIN env /\ env[k][1] = key /\ \A m \in DOMAIN env : env[m][1] = key => m <= k
  <1>1. \A k : IsLast(k) => k = n
    OBVIOUS
  <1>2. IsLast(n)
    OBVIOUS
  <1>3. LastOf(env, key) = CHOOSE k : IsLast(k)
    BY DEF LastOf
  <1> HIDE DEF IsLast
  <1> QED BY <1>1, <1>2, <1>3

\* An order of the entries that stay, and then of the new ones;
Ordered(base, len, said, env, c, d, places, new) ==
  /\ len \in Nat /\ c \in Nat /\ d \in Nat /\ DOMAIN base = 1..len /\ DOMAIN env = 1..(c + d)
  /\ places \in [1..c -> Staying(base, said)] /\ new \in [1..d -> DOMAIN said \ Variables(base)]
  /\ \A i \in 1..c : env[i] = Overridden(base[places[i]], said)
  /\ \A i \in 1..d : env[c + i] = <<new[i], said[new[i]]>>
  /\ \A n \in Staying(base, said) : \E i \in 1..c : places[i] = n
  /\ \A i, j \in 1..c : i < j => places[i] < places[j]
  /\ \A key \in DOMAIN said \ Variables(base) : \E i \in 1..d : new[i] = key /\ \A j \in 1..d : new[j] = key => j = i

\* and what it has under each variable.
LEMMA EntriesStay ==
  ASSUME NEW base, NEW len, NEW said, NEW env, NEW c, NEW d, NEW places, NEW new,
         Ordered(base, len, said, env, c, d, places, new)
  PROVE  /\ DOMAIN env \subseteq Int /\ Variables(env) = Variables(base) \cup DOMAIN said
         /\ \A key \in DOMAIN said : \E n \in DOMAIN env : {m \in DOMAIN env : env[m][1] = key} = {n} /\ env[n][2] = said[key]
         /\ \A key \in Variables(base) \ DOMAIN said : ValueIn(env, key) = ValueIn(base, key)
  <1>0. /\ len \in Nat /\ c \in Nat /\ d \in Nat /\ DOMAIN base = 1..len /\ DOMAIN env = 1..(c + d)
        /\ places \in [1..c -> Staying(base, said)] /\ new \in [1..d -> DOMAIN said \ Variables(base)]
        /\ \A i \in 1..c : env[i] = Overridden(base[places[i]], said)
        /\ \A i \in 1..d : env[c + i] = <<new[i], said[new[i]]>>
        /\ \A n \in Staying(base, said) : \E i \in 1..c : places[i] = n
        /\ \A i, j \in 1..c : i < j => places[i] < places[j]
        /\ \A key \in DOMAIN said \ Variables(base) : \E i \in 1..d : new[i] = key /\ \A j \in 1..d : new[j] = key => j = i
    BY DEF Ordered
  <1> USE <1>0
  <1>1. \A n \in DOMAIN env : n \in 1..c \/ \E i \in 1..d : n = c + i
    <2>1. SUFFICES ASSUME NEW n \in DOMAIN env, n \notin 1..c PROVE \E i \in 1..d : n = c + i
      OBVIOUS
    <2>2. n - c \in 1..d /\ n = c + (n - c)
      BY <2>1
    <2> QED BY <2>2
  <1>2. ASSUME NEW i \in 1..c PROVE i \in DOMAIN env /\ places[i] \in DOMAIN base /\ env[i][1] = base[places[i]][1]
    <2>1. i \in DOMAIN env /\ places[i] \in DOMAIN base
      BY DEF Staying
    <2>2. PICK e : e = base[places[i]]
      OBVIOUS
    <2>3. Overridden(e, said)[1] = e[1]
      BY DEF Overridden
    <2> QED BY <2>1, <2>2, <2>3
  <1>3. \A i \in 1..d : c + i \in DOMAIN env /\ env[c + i][1] = new[i] /\ env[c + i][2] = said[new[i]]
    OBVIOUS
  <1>4. ASSUME NEW key \in Variables(base)
        PROVE  \E n \in Staying(base, said) : base[n][1] = key /\ \A m \in DOMAIN base : base[m][1] = key => n <= m
    <2> DEFINE T == {n \in DOMAIN base : base[n][1] = key}
    <2>1. T \in SUBSET Nat /\ T # {}
      BY <1>4 DEF Variables
    <2>2. PICK n \in T : \A m \in T : n <= m
      BY <2>1, LeastOf
    <2>3. ASSUME NEW m \in 1..n - 1 PROVE m \in DOMAIN base /\ m \notin T
      <3>1. len \in Nat /\ n \in 1..len /\ DOMAIN base = 1..len
        OBVIOUS
      <3>2. m \in Nat /\ m < n /\ m \in 1..len
        BY <3>1
      <3>3. ASSUME m \in T PROVE FALSE
        <4>1. n <= m
          BY ONLY <2>2, <3>3
        <4> QED BY ONLY <3>1, <3>2, <4>1
      <3> QED BY <3>1, <3>2, <3>3
    <2>4. n \in Staying(base, said)
      BY <2>2, <2>3 DEF Staying
    <2> QED BY <2>2, <2>4
  <1>5. Variables(env) = Variables(base) \cup DOMAIN said
    <2>1. ASSUME NEW key \in Variables(env) PROVE key \in Variables(base) \cup DOMAIN said
      <3>1. PICK n \in DOMAIN env : env[n][1] = key
        BY <2>1 DEF Variables
      <3>2. CASE n \in 1..c
        BY <1>2, <3>1, <3>2 DEF Variables
      <3>3. CASE \E i \in 1..d : n = c + i
        BY <1>3, <3>1, <3>3
      <3> QED BY <1>1, <3>2, <3>3
    <2>2. ASSUME NEW key \in Variables(base) PROVE key \in Variables(env)
      <3>1. PICK n \in Staying(base, said) : base[n][1] = key
        BY <1>4
      <3>2. PICK i \in 1..c : places[i] = n
        BY <3>1
      <3>3. i \in DOMAIN env /\ env[i][1] = key
        BY <1>2, <3>1, <3>2
      <3> QED BY <3>3 DEF Variables
    <2>3. ASSUME NEW key \in DOMAIN said \ Variables(base) PROVE key \in Variables(env)
      <3>1. PICK i \in 1..d : new[i] = key
        BY <2>3
      <3>2. c + i \in DOMAIN env /\ env[c + i][1] = key
        BY <1>3, <3>1
      <3> QED BY <3>2 DEF Variables
    <2> QED BY <2>1, <2>2, <2>3
  <1>6. ASSUME NEW key \in DOMAIN said
        PROVE  \E n \in DOMAIN env : {m \in DOMAIN env : env[m][1] = key} = {n} /\ env[n][2] = said[key]
    <2>1. CASE key \in Variables(base)
      <3>1. PICK n \in Staying(base, said) : base[n][1] = key /\ \A m \in DOMAIN base : base[m][1] = key => n <= m
        BY <1>4, <2>1
      <3>2. PICK i \in 1..c : places[i] = n
        BY <3>1
      <3>3. i \in DOMAIN env /\ env[i] = <<key, said[key]>>
        BY <1>2, <1>6, <3>1, <3>2 DEF Overridden
      <3>4. ASSUME NEW m \in DOMAIN env, env[m][1] = key PROVE m = i
        <4>1. CASE m \in 1..c
          <5>1. places[m] \in Staying(base, said) /\ places[m] \in 1..len /\ n \in 1..len /\ base[places[m]][1] = key
            BY <1>2, <3>4, <4>1 DEF Staying
          <5>2. \A k \in 1..places[m] - 1 : base[k][1] # key
            BY <1>6, <5>1 DEF Staying
          <5>3. n <= places[m] /\ ~(n < places[m])
            <6>1. PICK k : k = places[m]
              OBVIOUS
            <6>2. k \in DOMAIN base /\ base[k][1] = key /\ k \in Nat /\ n \in Nat /\ n >= 1
              BY <5>1, <6>1 DEF Staying
            <6>3. n <= k
              BY <3>1, <6>2
            <6>4. ASSUME n < k PROVE FALSE
              <7>1. n \in 1..k - 1
                BY <6>2, <6>4
              <7> QED BY <3>1, <5>2, <6>1, <7>1
            <6> QED BY <6>1, <6>3, <6>4
          <5>4. places[m] = places[i]
            BY <3>2, <5>1, <5>3
          <5>5. PICK k : k = places[m]
            OBVIOUS
          <5>6. k \in Nat /\ places[i] = k
            BY <5>1, <5>4, <5>5
          <5>7. ~(i < m)
            <6>1. ASSUME i < m PROVE places[i] < places[m]
              BY <4>1, <3>2, <6>1
            <6> QED BY <5>5, <5>6, <6>1
          <5>8. ~(m < i)
            <6>1. ASSUME m < i PROVE places[m] < places[i]
              BY <4>1, <3>2, <6>1
            <6> QED BY <5>5, <5>6, <6>1
          <5> QED BY <4>1, <3>2, <5>7, <5>8
        <4>2. CASE \E j \in 1..d : m = c + j
          <5>1. PICK j \in 1..d : m = c + j
            BY <4>2
          <5>2. new[j] = key /\ new[j] \notin Variables(base)
            BY <1>3, <3>4, <5>1
          <5> QED BY <2>1, <5>2
        <4> QED BY <1>1, <4>1, <4>2
      <3>5. {m \in DOMAIN env : env[m][1] = key} = {i}
        BY <3>3, <3>4
      <3>6. PICK e, v : e = env[i] /\ v = said[key]
        OBVIOUS
      <3>7. e[2] = v
        BY <3>3, <3>6
      <3> QED BY <3>3, <3>5, <3>6, <3>7
    <2>2. CASE key \notin Variables(base)
      <3>1. PICK i \in 1..d : new[i] = key /\ \A j \in 1..d : new[j] = key => j = i
        BY <1>6, <2>2
      <3>2. c + i \in DOMAIN env /\ env[c + i][1] = key /\ env[c + i][2] = said[key]
        BY <1>3, <3>1
      <3>3. ASSUME NEW m \in DOMAIN env, env[m][1] = key PROVE m = c + i
        <4>1. ASSUME m \in 1..c PROVE FALSE
          <5>1. places[m] \in DOMAIN base /\ base[places[m]][1] = key
            BY <1>2, <3>3, <4>1
          <5> QED BY <2>2, <5>1 DEF Variables
        <4>2. PICK j \in 1..d : m = c + j
          BY <1>1, <4>1
        <4> QED BY <1>3, <3>1, <3>3, <4>2
      <3>4. {m \in DOMAIN env : env[m][1] = key} = {c + i}
        BY <3>2, <3>3
      <3> QED BY <3>2, <3>4
    <2> QED BY <2>1, <2>2
  <1>7. ASSUME NEW key \in Variables(base) \ DOMAIN said PROVE ValueIn(env, key) = ValueIn(base, key)
    <2> DEFINE T == {n \in DOMAIN base : base[n][1] = key}
    <2>1. T \in SUBSET (1..len) /\ T # {}
      BY <1>7 DEF Variables
    <2>2. PICK n \in T : \A m \in T : m <= n
      BY <2>1, GreatestOf
    <2>3. LastOf(base, key) = n
      <3>1. DOMAIN base \subseteq Int /\ n \in DOMAIN base /\ base[n][1] = key
        OBVIOUS
      <3>2. \A m \in DOMAIN base : base[m][1] = key => m <= n
        BY <2>2
      <3> QED BY <3>1, <3>2, LastIs
    <2>4. n \in Staying(base, said)
      BY <1>7, <2>2 DEF Staying
    <2>5. PICK i \in 1..c : places[i] = n
      BY <2>4
    <2>6. i \in DOMAIN env /\ env[i] = base[n] /\ env[i][1] = key
      BY <1>2, <1>7, <2>2, <2>5 DEF Overridden
    <2>7. ASSUME NEW m \in DOMAIN env, env[m][1] = key PROVE m <= i
      <3>1. CASE m \in 1..c
        <4>1. places[m] \in T
          BY <1>2, <2>7, <3>1
        <4>2. places[m] <= places[i] /\ places[m] \in Nat /\ places[i] \in Nat
          BY <2>1, <2>2, <2>5, <4>1
        <4> QED BY <2>5, <3>1, <4>2
      <3>2. CASE \E j \in 1..d : m = c + j
        <4>1. PICK j \in 1..d : m = c + j
          BY <3>2
        <4>2. new[j] = key /\ new[j] \in DOMAIN said
          BY <1>3, <2>7, <4>1
        <4> QED BY <1>7, <4>2
      <3> QED BY <1>1, <3>1, <3>2
    <2>8. LastOf(env, key) = i
      <3>1. DOMAIN env \subseteq Int
        OBVIOUS
      <3> QED BY <2>6, <2>7, <3>1, LastIs
    <2> QED BY <2>3, <2>6, <2>8 DEF ValueIn
  <1>8. DOMAIN env \subseteq Int
    OBVIOUS
  <1> QED BY <1>5, <1>6, <1>7, <1>8

\* An environment that is merged is such an order.
LEMMA MergedEntries ==
  ASSUME NEW base, NEW B, base \in Seq(B), NEW said, IsFiniteSet(DOMAIN said \ Variables(base)), NEW env \in mergeEnv(base, said)
  PROVE  /\ DOMAIN env \subseteq Int /\ Variables(env) = Variables(base) \cup DOMAIN said
         /\ \A key \in DOMAIN said : \E n \in DOMAIN env : {m \in DOMAIN env : env[m][1] = key} = {n} /\ env[n][2] = said[key]
         /\ \A key \in Variables(base) \ DOMAIN said : ValueIn(env, key) = ValueIn(base, key)
  <1>1. PICK places \in {f \in Orders(Staying(base, said)) : \A i, j \in DOMAIN f : i < j => f[i] < f[j]},
             new \in Orders(DOMAIN said \ Variables(base)) :
          env = [i \in DOMAIN places |-> Overridden(base[places[i]], said)] \o [i \in DOMAIN new |-> <<new[i], said[new[i]]>>]
    BY DEF mergeEnv
  <1>2. PICK len \in Nat : DOMAIN base = 1..len
    OBVIOUS
  <1>3. PICK c \in Nat : c = Cardinality(Staying(base, said))
    <2>1. IsFiniteSet(1..len) /\ Staying(base, said) \in SUBSET (1..len)
      BY <1>2, FS_Interval DEF Staying
    <2> QED BY <2>1, FS_Subset, FS_CardinalityType
  <1>4. PICK d \in Nat : d = Cardinality(DOMAIN said \ Variables(base))
    <2>1. PICK N : N = DOMAIN said \ Variables(base)
      OBVIOUS
    <2>2. IsFiniteSet(N)
      BY <2>1
    <2> QED BY <2>1, <2>2, FS_CardinalityType
  <1>5. /\ places \in [1..c -> Staying(base, said)] /\ \A i, j \in 1..c : i < j => places[i] < places[j]
        /\ \A n \in Staying(base, said) : \E i \in 1..c : places[i] = n
    BY <1>1, <1>3 DEF Orders
  <1>6. /\ new \in [1..d -> DOMAIN said \ Variables(base)]
        /\ \A key \in DOMAIN said \ Variables(base) : \E i \in 1..d : new[i] = key /\ \A j \in 1..d : new[j] = key => j = i
    BY <1>1, <1>4 DEF Orders
  <1>7. PICK kept, fresh : /\ kept = [i \in 1..c |-> Overridden(base[places[i]], said)]
                           /\ fresh = [i \in 1..d |-> <<new[i], said[new[i]]>>]
    OBVIOUS
  <1>8. PICK X : X = {kept[i] : i \in 1..c} \cup {fresh[i] : i \in 1..d}
    OBVIOUS
  <1>9. kept \in Seq(X) /\ fresh \in Seq(X) /\ Len(kept) = c /\ Len(fresh) = d
    BY <1>7, <1>8
  <1>10. env = kept \o fresh
    BY <1>1, <1>5, <1>6, <1>7
  <1>11. /\ DOMAIN env = 1..(c + d)
         /\ \A i \in 1..c : env[i] = kept[i]
         /\ \A i \in 1..d : env[c + i] = fresh[i]
    <2>1. Len(kept \o fresh) = c + d /\ kept \o fresh \in Seq(X)
      BY <1>9
    <2>2. \A i \in 1..c : (kept \o fresh)[i] = kept[i]
      BY <1>9
    <2>3. \A i \in 1..d : (kept \o fresh)[c + i] = fresh[i]
      BY <1>9
    <2> QED BY <1>10, <2>1, <2>2, <2>3
  <1>12. /\ \A i \in 1..c : env[i] = Overridden(base[places[i]], said)
         /\ \A i \in 1..d : env[c + i] = <<new[i], said[new[i]]>>
    BY <1>7, <1>11
  <1>13. Ordered(base, len, said, env, c, d, places, new)
    BY <1>2, <1>5, <1>6, <1>11, <1>12 DEF Ordered
  <1> QED BY <1>13, EntriesStay

\* So a command finds what it should.
LEMMA EnvOfCommand ==
  ASSUME NEW command \in Providers,
         NEW env \in IF Overrides(command) = NoCommand.env THEN {OwnEnv} ELSE mergeEnv(OwnEnv, Overrides(command))
  PROVE  Finds(env, command)
  <1> SUFFICES
        /\ Variables(env) = Variables(OwnEnv) \cup DOMAIN command.env
        /\ \A key \in DOMAIN command.env :
             Cardinality({n \in DOMAIN env : env[n][1] = key}) = 1 /\ ValueIn(env, key) = command.env[key]
        /\ \A key \in Variables(OwnEnv) \ DOMAIN command.env : ValueIn(env, key) = ValueIn(OwnEnv, key)
    BY DEF Finds
  <1>1. PICK said : said = Overrides(command)
    OBVIOUS
  <1>2. PICK passed : passed = {key \in command.pass : key \in Variables(OwnEnv) /\ ValueIn(OwnEnv, key) # NoText}
    OBVIOUS
  <1>3. said = [key \in passed \cup DOMAIN command.env |->
                  IF key \in DOMAIN command.env THEN command.env[key] ELSE ValueIn(OwnEnv, key)]
    BY <1>1, <1>2 DEF Overrides
  <1>4. /\ DOMAIN said = passed \cup DOMAIN command.env /\ passed \subseteq Variables(OwnEnv)
        /\ \A key \in DOMAIN command.env : said[key] = command.env[key]
        /\ \A key \in DOMAIN said \ DOMAIN command.env : said[key] = ValueIn(OwnEnv, key)
    BY <1>2, <1>3
  <1>5. CASE said = NoCommand.env
    <2>1. DOMAIN said = {}
      BY <1>5 DEF NoCommand
    <2>2. env = OwnEnv /\ DOMAIN command.env = {}
      BY <1>1, <1>4, <1>5, <2>1
    <2> QED BY <2>2
  <1>6. CASE said # NoCommand.env
    <2>1. env \in mergeEnv(OwnEnv, said)
      BY <1>1, <1>6
    <2>2. IsFiniteSet(DOMAIN said \ Variables(OwnEnv))
      <3>1. IsFiniteSet(DOMAIN command.env) /\ (DOMAIN said \ Variables(OwnEnv)) \in SUBSET DOMAIN command.env
        BY <1>4, EnvAssumption
      <3> QED BY <3>1, FS_Subset
    <2>3. PICK B : OwnEnv \in Seq(B)
      BY EnvAssumption
    <2>4. /\ DOMAIN env \subseteq Int /\ Variables(env) = Variables(OwnEnv) \cup DOMAIN said
          /\ \A key \in DOMAIN said : \E n \in DOMAIN env : {m \in DOMAIN env : env[m][1] = key} = {n} /\ env[n][2] = said[key]
          /\ \A key \in Variables(OwnEnv) \ DOMAIN said : ValueIn(env, key) = ValueIn(OwnEnv, key)
      BY <2>1, <2>2, <2>3, MergedEntries
    <2>5. ASSUME NEW key \in DOMAIN said
          PROVE  Cardinality({n \in DOMAIN env : env[n][1] = key}) = 1 /\ ValueIn(env, key) = said[key]
      <3>1. PICK n \in DOMAIN env : {m \in DOMAIN env : env[m][1] = key} = {n} /\ env[n][2] = said[key]
        BY <2>4
      <3>2. LastOf(env, key) = n
        <4>1. env[n][1] = key /\ \A m \in DOMAIN env : env[m][1] = key => m = n
          BY <3>1
        <4>2. n <= n
          BY <2>4
        <4> QED BY <4>1, <4>2 DEF LastOf
      <3> QED BY <3>1, <3>2, FS_Singleton DEF ValueIn
    <2>6. \A key \in Variables(OwnEnv) \ DOMAIN command.env : ValueIn(env, key) = ValueIn(OwnEnv, key)
      BY <1>4, <2>4, <2>5
    <2> QED BY <1>4, <2>4, <2>5, <2>6
  <1> QED BY <1>5, <1>6

\* It finds that as long as it is the one that is asked.
LEMMA EnvStays ==
  ASSUME EnvReaches, query'.env = query.env, query'.command = query.command PROVE EnvReaches'
  BY DEF EnvReaches

\* A command that is started finds nothing printed, one that cannot be has printed nothing.
LEMMA spawnStep ==
  ASSUME ProviderInv, NEW command \in Providers, spawnExecProvider(command) PROVE ProviderInv'
  <1>1. query.at = "idle" /\ ProviderShape /\ Unasked /\ UNCHANGED <<stdout, overdue>>
    BY DEF spawnExecProvider, ProviderInv
  <1>2. PICK named : named = IF command.name # NoText THEN command.name ELSE "default"
    OBVIOUS
  <1>3. PICK env \in IF Overrides(command) = NoCommand.env THEN {OwnEnv} ELSE mergeEnv(OwnEnv, Overrides(command)) :
          LET asked == [query EXCEPT !.command = command, !.named = named, !.env = env] IN
          \/ query' = [asked EXCEPT !.at = "runs"] /\ helper' = [helper EXCEPT !.state = "runs"]
          \/ query' = [asked EXCEPT !.at = "done", !.result = [kind |-> "not started"]] /\ UNCHANGED helper
    BY <1>2 DEF spawnExecProvider
  <1>4. 0 <= Limit(command)
    BY LimitIsNumber
  <1>5. ASSUME query'.command = command, query'.env = env PROVE EnvReaches'
    BY <1>5, EnvOfCommand DEF EnvReaches
  <1>6. CASE /\ query' = [[query EXCEPT !.command = command, !.named = named, !.env = env] EXCEPT !.at = "runs"]
             /\ helper' = [helper EXCEPT !.state = "runs"]
    <2>1. /\ query'.at = "runs" /\ query'.command = command /\ query'.env = env /\ DOMAIN query' = DOMAIN query
          /\ DOMAIN helper' = DOMAIN helper /\ helper'.heir = helper.heir /\ helper'.state = "runs"
      BY <1>1, <1>6 DEF ProviderShape
    <2>2. ProviderShape'
      BY <1>1, <2>1 DEF ProviderShape
    <2> QED BY <1>1, <1>4, <1>5, <2>1, <2>2 DEF ProviderInv, Unasked, SecretIsGiven
  <1>7. CASE /\ query' = [[query EXCEPT !.command = command, !.named = named, !.env = env]
                            EXCEPT !.at = "done", !.result = [kind |-> "not started"]]
             /\ UNCHANGED helper
    <2>1. /\ query'.at = "done" /\ query'.command = command /\ query'.env = env
          /\ query'.result.kind = "not started" /\ DOMAIN query' = DOMAIN query
      BY <1>1, <1>7 DEF ProviderShape
    <2>2. ProviderShape'
      BY <1>1, <1>7, <2>1 DEF ProviderShape
    <2>3. SecretIsGiven'
      BY <1>1, <1>7, <2>1 DEF Unasked, SecretIsGiven
    <2> QED BY <1>1, <1>4, <1>7, <1>5, <2>1, <2>2, <2>3 DEF ProviderInv, Unasked
  <1> QED BY <1>3, <1>6, <1>7

\* What is printed is taken in up to the limit.
LEMMA WritesStep ==
  ASSUME ProviderInv, NEW piece \in Pieces, WritesStdout(piece) PROVE ProviderInv'
  <1>1. ProviderShape /\ UNCHANGED <<query, helper, overdue>> /\ query.at = "runs"
    BY DEF WritesStdout, ProviderInv, ProviderShape, Unasked, SecretIsGiven
  <1>2. Limit(query.command) \in Nat /\ stdout.size <= Limit(query.command) /\ piece.size \in Nat
    BY <1>1, LimitIsNumber, LimitAssumption DEF ProviderInv
  <1>3. DOMAIN stdout' = DOMAIN stdout /\ stdout'.size \in Nat /\ stdout'.pieces \in Seq(Pieces) /\ stdout'.size <= Limit(query.command)
    <2>1. CASE stdout.size + piece.size > Limit(query.command)
      <3>1. stdout' = [stdout EXCEPT !.exceeded = TRUE]
        BY <2>1 DEF WritesStdout
      <3> QED BY <1>1, <1>2, <3>1 DEF ProviderShape
    <2>2. CASE ~(stdout.size + piece.size > Limit(query.command))
      <3>1. PICK size, pieces : size = stdout.size + piece.size /\ pieces = Append(stdout.pieces, piece)
        OBVIOUS
      <3>2. size \in Nat /\ size <= Limit(query.command) /\ pieces \in Seq(Pieces)
        BY <1>1, <1>2, <2>2, <3>1 DEF ProviderShape
      <3>3. stdout' = [stdout EXCEPT !.size = size, !.pieces = pieces]
        BY <2>2, <3>1 DEF WritesStdout
      <3> QED BY <1>1, <3>2, <3>3 DEF ProviderShape
    <2> QED BY <2>1, <2>2
  <1>4. EnvReaches'
    BY <1>1, EnvStays DEF ProviderInv
  <1> QED BY <1>1, <1>3, <1>4 DEF ProviderInv, ProviderShape, SecretIsGiven

\* A command ends, or is killed, while it is waited for.
LEMMA HelperStep ==
  ASSUME ProviderInv, HelperExits \/ HeirEnds \/ Expires \/ Kills PROVE ProviderInv'
  <1>1. ProviderShape /\ UNCHANGED <<query, stdout>> /\ query.at = "runs"
    BY DEF HelperExits, HeirEnds, Expires, Kills, ProviderInv, ProviderShape, Unasked, SecretIsGiven
  <1>2. /\ DOMAIN helper' = {"state", "heir"} /\ helper'.heir \in BOOLEAN
        /\ overdue' \in {"no", "deadline", "cancelled"} /\ (helper'.state = "killed" => overdue' # "no")
    <2>1. CASE HelperExits
      <3>1. PICK state \in {"succeeded", "failed"}, heir \in BOOLEAN : helper' = [state |-> state, heir |-> heir]
        BY <2>1 DEF HelperExits
      <3> QED BY <1>1, <2>1, <3>1 DEF HelperExits, ProviderShape
    <2>2. CASE HeirEnds
      BY <1>1, <2>2 DEF HeirEnds, ProviderShape, ProviderInv
    <2>3. CASE Expires
      BY <1>1, <2>3 DEF Expires, ProviderShape
    <2>4. CASE Kills
      <3>1. PICK heir \in BOOLEAN : helper' = [state |-> "killed", heir |-> heir]
        BY <2>4 DEF Kills
      <3> QED BY <1>1, <2>4, <3>1 DEF Kills, ProviderShape
    <2> QED BY <2>1, <2>2, <2>3, <2>4
  <1>3. ProviderShape'
    BY <1>1, <1>2 DEF ProviderShape
  <1>4. EnvReaches'
    BY <1>1, EnvStays DEF ProviderInv
  <1> QED BY <1>1, <1>2, <1>3, <1>4 DEF ProviderInv, SecretIsGiven

\* What is read of one answer is what it has under the id.
LEMMA ReadStep ==
  ASSUME query'.at = "done", UNCHANGED <<helper, stdout, overdue>>, stdout.pieces \in Seq(Pieces),
         helper.state = "succeeded", ~helper.heir, overdue # "deadline", ~stdout.exceeded,
         stdout.size <= Limit(query'.command), query'.result = Read(stdout.pieces, query'.command.id)
  PROVE  SecretIsGiven'
  <1>1. PICK pieces, id, result : pieces = stdout.pieces /\ id = query'.command.id /\ result = query'.result
    OBVIOUS
  <1>2. pieces \in Seq(Pieces) /\ result = Read(pieces, id)
    BY <1>1
  <1>3. result.kind \in {"invalid", "value", "missing"}
    BY <1>2 DEF Read
  <1>4. ASSUME result.kind # "invalid" PROVE DOMAIN pieces = {1}
    <2>1. Len(pieces) = 1
      BY <1>2, <1>4 DEF Read
    <2> QED BY <1>2, <2>1
  <1>5. ASSUME result.kind = "value" PROVE pieces[1].values[id] = result.value
    BY <1>2, <1>5 DEF Read
  <1>6. ASSUME result.kind = "missing" PROVE id \notin DOMAIN pieces[1].values
    BY <1>2, <1>6 DEF Read
  <1>7. result.kind = "value" => \E n \in DOMAIN pieces : pieces[n].values[id] = result.value
    BY <1>4, <1>5
  <1>8. result.kind = "missing" => \A n \in DOMAIN pieces : id \notin DOMAIN pieces[n].values
    BY <1>4, <1>6
  <1> QED BY <1>1, <1>3, <1>7, <1>8 DEF SecretIsGiven

\* It is over when the pipe is, and is told what it printed only if it succeeded in time.
LEMMA RunOverStep ==
  ASSUME ProviderInv, Run PROVE ProviderInv'
  <1>1. ProviderShape /\ UNCHANGED <<helper, stdout, overdue>> /\ query.at = "runs"
        /\ helper.state \in {"succeeded", "failed", "killed"} /\ ~helper.heir
    BY DEF Run, ProviderInv
  <1>2. PICK result \in IF overdue = "deadline" THEN {[kind |-> "timed out"]}
                        ELSE IF stdout.exceeded THEN {[kind |-> "too long"]}
                        ELSE IF helper.state # "succeeded" THEN {[kind |-> "exited"]}
                        ELSE {Read(stdout.pieces, query.command.id)}
                             \cup (IF overdue = "cancelled" THEN {[kind |-> "not started"]} ELSE {}) :
          query' = [query EXCEPT !.at = "done", !.result = result]
    BY DEF Run
  <1>3. query'.at = "done" /\ query'.command = query.command /\ query'.env = query.env
        /\ query'.result = result /\ DOMAIN query' = DOMAIN query
    BY <1>1, <1>2 DEF ProviderShape
  <1>4. ProviderShape' /\ query'.command \in Providers /\ stdout'.size <= Limit(query'.command)
    BY <1>1, <1>3 DEF ProviderShape, ProviderInv
  <1>5. SecretIsGiven'
    <2>1. stdout.size <= Limit(query'.command) /\ overdue \in {"no", "deadline", "cancelled"}
          /\ (helper.state = "killed" => overdue # "no")
      BY <1>1, <1>3 DEF ProviderInv, ProviderShape
    <2>2. CASE overdue = "deadline"
      <3>1. result.kind = "timed out"
        <4>1. result = [kind |-> "timed out"]
          BY <1>2, <2>2
        <4> QED BY <4>1
      <3> QED BY <1>1, <1>3, <2>2, <3>1 DEF SecretIsGiven
    <2>3. CASE overdue # "deadline" /\ stdout.exceeded
      <3>1. result.kind = "too long"
        <4>1. result = [kind |-> "too long"]
          BY <1>2, <2>3
        <4> QED BY <4>1
      <3> QED BY <1>1, <1>3, <3>1 DEF SecretIsGiven
    <2>4. CASE overdue # "deadline" /\ ~stdout.exceeded /\ helper.state # "succeeded"
      <3>1. result.kind = "exited"
        <4>1. result = [kind |-> "exited"]
          BY <1>2, <2>4
        <4> QED BY <4>1
      <3>2. helper.state \in {"failed", "killed"} /\ (helper.state = "killed" => overdue = "cancelled")
        BY <1>1, <2>1, <2>4
      <3> QED BY <1>1, <1>3, <3>1, <3>2 DEF SecretIsGiven
    <2>5. CASE overdue # "deadline" /\ ~stdout.exceeded /\ helper.state = "succeeded"
      <3>1. CASE result.kind = "not started"
        BY <1>1, <1>3, <3>1 DEF SecretIsGiven
      <3>2. CASE result = Read(stdout.pieces, query.command.id)
        <4>1. query'.result = Read(stdout.pieces, query'.command.id) /\ stdout.pieces \in Seq(Pieces)
          BY <1>1, <1>3, <3>2 DEF ProviderShape
        <4> QED BY <1>1, <1>3, <2>1, <2>5, <4>1, ReadStep
      <3>3. result.kind = "not started" \/ result = Read(stdout.pieces, query.command.id)
        <4>1. result \in {Read(stdout.pieces, query.command.id)}
                          \cup (IF overdue = "cancelled" THEN {[kind |-> "not started"]} ELSE {})
          BY <1>2, <2>5
        <4>2. result = [kind |-> "not started"] \/ result = Read(stdout.pieces, query.command.id)
          BY <4>1, Zenon
        <4>3. ASSUME result = [kind |-> "not started"] PROVE result.kind = "not started"
          BY <4>3
        <4> QED BY <4>2, <4>3, Zenon
      <3> QED BY <3>1, <3>2, <3>3
    <2> QED BY <2>2, <2>3, <2>4, <2>5
  <1>6. EnvReaches'
    BY <1>3, EnvStays DEF ProviderInv
  <1> QED BY <1>1, <1>3, <1>4, <1>5, <1>6 DEF ProviderInv, ProviderShape

\* So does every step.
LEMMA ProviderStep == ProviderInv /\ ProviderNext => ProviderInv'
  BY spawnStep, WritesStep, HelperStep, RunOverStep DEF ProviderNext

\* What changes nothing of either side.
LEMMA KeysStay == KeysInv /\ UNCHANGED keyVars => KeysInv'
  <1> SUFFICES ASSUME KeysInv, UNCHANGED keyVars PROVE KeysInv'
    OBVIOUS
  <1>1. UNCHANGED <<salt, store, truth>> /\ UNCHANGED <<user, clash>>
    BY DEF keyVars
  <1>2. SUFFICES ASSUME clash = {} PROVE FilesOK' /\ UsersOK'
    BY <1>1 DEF KeysInv
  <1>3. FilesOK /\ UsersOK
    BY <1>2 DEF KeysInv
  <1>4. FilesOK'
    BY <1>1, <1>3, StaysOK
  <1>5. ASSUME NEW q \in KeyUsers PROVE OperationOK(user[q])'
    <2>1. PICK v : v = user[q]
      OBVIOUS
    <2>2. OperationOK(v)'
      BY <1>1, <1>3, <2>1, StaysOK DEF UsersOK
    <2> QED BY <1>1, <2>1, <2>2
  <1> QED BY <1>1, <1>3, <1>4, <1>5 DEF UsersOK

\* A step of the keystores changes nothing of the command.
LEMMA ProviderStays == ProviderInv /\ UNCHANGED providerVars => ProviderInv'
  BY EnvStays DEF providerVars, ProviderInv, ProviderShape, Unasked, SecretIsGiven

\* What was acknowledged stays readable and is what is found, as long as no two writers of a profile
\* overlap; a command gives a secret only when it has ended well, in time and within its limit, with
\* all it left behind, and is started with each variable its provider sets, once, and with those of
\* the bridge otherwise (keystore.go: Store.Set, Store.Get; resolver.go: spawnExecProvider, mergeEnv).
THEOREM SecretsAreKept == SecretSpec => []SecretsHeld
  <1>1. KeyInit /\ ProviderInit => KeysInv /\ ProviderInv
    BY KeysBegin, ProviderBegins
  <1>2. KeysInv /\ ProviderInv
          /\ [(KeyNext /\ UNCHANGED providerVars) \/ (ProviderNext /\ UNCHANGED keyVars)]_<<keyVars, providerVars>>
        => KeysInv' /\ ProviderInv'
    BY KeysStep, ProviderStep, KeysStay, ProviderStays
  <1>3. KeysInv /\ ProviderInv => SecretsHeld
    BY KeysFollow DEF SecretsHeld, ProviderInv
  <1> QED BY <1>1, <1>2, <1>3, PTL DEF SecretSpec
-----------------------------------------------------------------------------
\* A click that has pendingStore.mu.
Holds(c) == click[c].at \in {"state", "consume", "remove", "persist"} /\ click[c].token \in Pending

\* An accepted form has no entry, an entry has a card; the click that holds the lock has not been
\* accepted, and after Remove its entry is out of memory.
FormInv ==
  /\ \A t \in Pending : accepted[t] = 0 \/ (accepted[t] = 1 /\ t \notin entries \cup entriesFile /\ card[t] # "none")
  /\ \A t \in entries \cup entriesFile : card[t] # "none"
  /\ \A c \in Clicks : Holds(c) => accepted[click[c].token] = 0 /\ card[click[c].token] # "none"
  /\ \A c, d \in Clicks : Holds(c) /\ Holds(d) => c = d
  /\ \A c \in Clicks : click[c].at \in {"remove", "persist"} => click[c].token \in Pending
  /\ \A c \in Clicks : click[c].at = "persist" => click[c].token \notin entries

\* Only the run that is there can be named, and it is never started again.
RunInv ==
  /\ running # Nobody => running \in over
  /\ presenting # Nobody => presenting \in over

\* The run of a token is over for good, and no click can still get through for it.
Dead(t) ==
  /\ running # RunOf[t] /\ presenting # RunOf[t]
  /\ \A c \in Clicks : click[c].token = t => click[c].at \in {"idle", "deliver"}

\* A stop button that was accepted has its nonce in memory, or its run is dead.
CommandInv ==
  /\ \A t \in Commands : accepted[t] = 0 \/ (accepted[t] = 1 /\ RunOf[t] \in over /\ (nonces[t] # "fresh" \/ Dead(t)))
  /\ \A c \in Clicks : click[c].at # "idle" /\ click[c].token \in Commands => RunOf[click[c].token] \in over

CardInv == TypeOK /\ FormInv /\ RunInv /\ CommandInv
-----------------------------------------------------------------------------
USE CardAssumption DEF NoErr, Errors, NonceStates, Fates, Steps, Commands

LEMMA CardInit == Init => CardInv
<1>. SUFFICES ASSUME Init PROVE CardInv
  OBVIOUS
<1>1. TypeOK
  BY DEF Init, TypeOK, Idle
<1>2. FormInv
  BY DEF Init, FormInv, Holds, Idle
<1>3. RunInv /\ CommandInv
  BY DEF Init, RunInv, CommandInv, Idle
<1>. QED
  BY <1>1, <1>2, <1>3 DEF CardInv

ClickRecords == [at : Steps, token : Tokens \cup {Nobody}, err : Errors]
ClicksOK == click \in [Clicks -> ClickRecords] /\ \A c \in Clicks : click[c].at # "idle" => click[c].token \in Tokens

\* The part of TypeOK that is not about clicks.
OthersOK ==
  /\ nonces \in [Tokens -> NonceStates] /\ nonceFile \in [Tokens -> NonceStates]
  /\ lastErr \in Errors
  /\ entries \subseteq Pending /\ entriesFile \subseteq Pending
  /\ expired \subseteq Tokens
  /\ card \in [Tokens -> Fates]
  /\ running \in Runs \cup {Nobody} /\ presenting \in Runs \cup {Nobody} /\ over \subseteq Runs
  /\ accepted \in [Tokens -> Nat] /\ spent \subseteq Tokens
  /\ stopped \subseteq Tokens \X Runs
  /\ faults \in Nat /\ restarts \in Nat

\* Replacing one click's record by a sound one keeps them all sound.
LEMMA OneClick ==
  ASSUME ClicksOK, NEW c \in Clicks, NEW k \in ClickRecords, k.at # "idle" => k.token \in Tokens,
         click' = [click EXCEPT ![c] = k]
  PROVE  ClicksOK'
  BY DEF ClicksOK

\* The two ways a click moves on without a new token.
LEMMA ClickMoves ==
  ASSUME ClicksOK, NEW c \in Clicks, Ends(c) \/ \E s \in Steps \ {"idle"} : Goes(c, s) /\ ~At(c, "idle")
  PROVE  ClicksOK'
<1>1. CASE Ends(c)
  <2>1. Idle \in ClickRecords /\ Idle.at = "idle"
    BY DEF Idle, ClickRecords
  <2>. QED
    BY <1>1, <2>1, OneClick DEF Ends
<1>2. ASSUME NEW s \in Steps \ {"idle"}, Goes(c, s), ~At(c, "idle") PROVE ClicksOK'
  <2>. DEFINE k == [click[c] EXCEPT !.at = s]
  <2>1. click[c] \in ClickRecords /\ click[c].token \in Tokens
    BY <1>2 DEF ClicksOK, At
  <2>2. k \in ClickRecords /\ k.token \in Tokens /\ click' = [click EXCEPT ![c] = k]
    BY <1>2, <2>1 DEF ClickRecords, Goes, ClicksOK
  <2>. QED
    BY <2>2, OneClick
<1>. QED
  BY <1>1, <1>2

LEMMA TypeStep == TypeOK /\ [Next]_vars => TypeOK'
<1>. SUFFICES ASSUME TypeOK, [Next]_vars PROVE TypeOK'
  OBVIOUS
<1>0. ClicksOK
  BY DEF TypeOK, ClicksOK, ClickRecords
<1>1. ClicksOK'
  <2>1. ASSUME NEW c \in Clicks, NEW t \in Tokens, LookPending(c, t) \/ LookActive(c, t) PROVE ClicksOK'
    <3>1. [at |-> "state", token |-> t, err |-> NoErr] \in ClickRecords
      BY DEF ClickRecords
    <3>2. click' = [click EXCEPT ![c] = [at |-> "state", token |-> t, err |-> NoErr]]
      BY <2>1 DEF LookPending, LookActive
    <3>. QED
      BY <1>0, <3>1, <3>2, OneClick
  <2>2. ASSUME NEW c \in Clicks, State(c) \/ Consume(c) \/ Persist(c) \/ Deliver(c) PROVE ClicksOK'
    <3>1. Ends(c) \/ \E s \in Steps \ {"idle"} : Goes(c, s) /\ ~At(c, "idle")
      BY <2>2 DEF State, Consume, Persist, Deliver, At
    <3>. QED
      BY <1>0, <3>1, ClickMoves
  <2>3. ASSUME NEW c \in Clicks, Remove(c) PROVE ClicksOK'
    <3>. DEFINE k == [at |-> "persist", token |-> click[c].token, err |-> lastErr]
    <3>1. click[c] \in ClickRecords /\ click[c].token \in Tokens /\ lastErr \in Errors
      BY <1>0, <2>3 DEF ClicksOK, Remove, At, TypeOK
    <3>2. k \in ClickRecords /\ k.token \in Tokens
      BY <3>1 DEF ClickRecords
    <3>3. click' = [click EXCEPT ![c] = k]
      BY <2>3 DEF Remove
    <3>. QED
      BY <1>0, <3>2, <3>3, OneClick
  <2>4. CASE Restart
    BY <2>4 DEF Restart, ClicksOK, ClickRecords, Idle
  <2>5. CASE UNCHANGED click
    BY <1>0, <2>5 DEF ClicksOK
  <2>. QED
    BY <2>1, <2>2, <2>3, <2>4, <2>5
    DEF Next, vars, RunStart, Register, RunDone, Unregister, Expire, Sign, SignPending, SendCard, CancelPending, Revoke
<1>2. OthersOK'
  <2>. OthersOK
    BY DEF TypeOK, OthersOK
  <2>. USE DEF OthersOK, stores, runsVars, history, Write, WriteFails
  <2>1. CASE \E r \in Runs : RunStart(r)
    BY <2>1 DEF RunStart
  <2>2. CASE Register \/ RunDone \/ Unregister
    BY <2>2 DEF Register, RunDone, Unregister
  <2>3. CASE Restart
    <3>1. \A t \in Tokens : card[t] \in Fates
      OBVIOUS
    <3>2. card' \in [Tokens -> Fates]
      BY <2>3, <3>1 DEF Restart
    <3>. QED
      BY <2>3, <3>2 DEF Restart
  <2>4. CASE \E t \in Tokens : Expire(t) \/ Sign(t) \/ SendCard(t)
    BY <2>4 DEF Expire, Sign, SendCard
  <2>5. CASE \E t \in Tokens : SignPending(t)
    BY <2>5 DEF SignPending
  <2>6. CASE \E t \in Tokens : CancelPending(t)
    BY <2>6 DEF CancelPending
  <2>7. CASE \E t \in Tokens : Revoke(t)
    BY <2>7 DEF Revoke
  <2>8. ASSUME NEW c \in Clicks, NEW t \in Tokens, LookPending(c, t) \/ LookActive(c, t) PROVE OthersOK'
    <3>1. UNCHANGED <<stores, expired, card, runsVars, history, faults, restarts>>
      BY <2>8 DEF LookPending, LookActive
    <3>. QED
      BY <3>1
  <2>9. ASSUME NEW c \in Clicks, State(c) PROVE OthersOK'
    <3>1. UNCHANGED <<stores, expired, card, runsVars, history, faults, restarts>>
      BY <2>9 DEF State
    <3>. QED
      BY <3>1
  <2>10. ASSUME NEW c \in Clicks, Consume(c) \/ Persist(c) \/ Deliver(c) \/ Remove(c) PROVE OthersOK'
    <3>1. click[c].token \in Tokens
      BY <1>0, <2>10 DEF ClicksOK, Consume, Persist, Deliver, Remove, At
    <3>2. CASE Consume(c)
      <4>1. nonces' \in [Tokens -> NonceStates] /\ accepted' \in [Tokens -> Nat] /\ spent' \subseteq Tokens
        BY <3>1, <3>2 DEF Consume
      <4>2. (nonceFile' = nonceFile \/ nonceFile' = nonces') /\ lastErr' \in Errors /\ faults' \in Nat
        BY <3>2 DEF Consume
      <4>. QED
        BY <3>2, <4>1, <4>2 DEF Consume
    <3>3. CASE Remove(c)
      BY <3>3 DEF Remove
    <3>4. CASE Persist(c)
      BY <3>1, <3>4 DEF Persist
    <3>5. CASE Deliver(c)
      BY <3>1, <3>5 DEF Deliver
    <3>. QED
      BY <2>10, <3>2, <3>3, <3>4, <3>5
  <2>11. CASE UNCHANGED vars
    BY <2>11 DEF vars
  <2>. QED
    BY <2>1, <2>2, <2>3, <2>4, <2>5, <2>6, <2>7, <2>8, <2>9, <2>10, <2>11 DEF Next
<1>. QED
  BY <1>1, <1>2 DEF TypeOK, ClicksOK, ClickRecords, OthersOK
-----------------------------------------------------------------------------
\* What a step of one click leaves alone, and what it makes of that click.
LEMMA MoveFacts ==
  ASSUME TypeOK, NEW c \in Clicks
  PROVE  /\ Ends(c) => click'[c].at = "idle" /\ \A d \in Clicks \ {c} : click'[d] = click[d]
         /\ \A s \in Steps : Goes(c, s) => /\ click'[c].at = s /\ click'[c].token = click[c].token
                                           /\ \A d \in Clicks \ {c} : click'[d] = click[d]
  BY DEF TypeOK, Ends, Goes, Idle

LEMMA FormStep == CardInv /\ [Next]_vars => FormInv'
<1>. SUFFICES ASSUME TypeOK, FormInv, [Next]_vars PROVE FormInv'
  BY DEF CardInv
<1>1. ASSUME NEW r \in Runs, RunStart(r) PROVE FormInv'
  BY <1>1 DEF RunStart, FormInv, Holds, stores, history
<1>2. CASE Register \/ RunDone \/ Unregister
  BY <1>2 DEF Register, RunDone, Unregister, FormInv, Holds, stores, history
<1>3. CASE Restart
  BY <1>3 DEF Restart, FormInv, Holds, history, Idle, TypeOK
<1>4. ASSUME NEW t \in Tokens, Expire(t) \/ Revoke(t) PROVE FormInv'
  BY <1>4 DEF Expire, Revoke, FormInv, Holds, stores, history
<1>5. ASSUME NEW t \in Tokens, Sign(t) \/ SendCard(t) PROVE FormInv'
  BY <1>5 DEF Sign, SendCard, FormInv, Holds, stores, history, TypeOK
<1>6. ASSUME NEW t \in Tokens, SignPending(t) PROVE FormInv'
  <2>1. \A c \in Clicks : ~Holds(c)
    BY <1>6 DEF SignPending, Locked, Holds
  <2>2. accepted[t] = 0 /\ t \in Pending /\ card'[t] # "none"
    BY <1>6 DEF SignPending, FormInv, TypeOK
  <2>3. /\ entries' \subseteq entries \cup {t} /\ (entriesFile' = entries' \/ entriesFile' = entriesFile)
        /\ UNCHANGED <<accepted, click>>
        /\ \A u \in Tokens : card[u] # "none" => card'[u] # "none"
    BY <1>6 DEF SignPending, Write, WriteFails, history, TypeOK
  <2>4. \A c \in Clicks : ~Holds(c)' /\ click[c].at # "persist"
    BY <2>1, <2>3 DEF Holds, FormInv
  <2>. QED
    BY <2>2, <2>3, <2>4 DEF FormInv, TypeOK
<1>7. ASSUME NEW t \in Tokens, CancelPending(t) PROVE FormInv'
  <2>1. /\ entries' \subseteq entries /\ (entriesFile' = entries' \/ entriesFile' = entriesFile)
        /\ UNCHANGED <<accepted, click>>
        /\ \A u \in Tokens : card[u] # "none" => card'[u] # "none"
    BY <1>7 DEF CancelPending, Write, WriteFails, history, TypeOK
  <2>. QED
    BY <2>1 DEF FormInv, Holds, TypeOK
<1>8. ASSUME NEW c \in Clicks, NEW t \in Tokens, LookPending(c, t) PROVE FormInv'
  <2>1. UNCHANGED <<accepted, card, entries, entriesFile>> /\ t \in entries /\ t \in Pending /\ ~Locked
    BY <1>8 DEF LookPending, stores, history
  <2>2. \A d \in Clicks : ~Holds(d) /\ click[d].at \notin {"remove", "persist"}
    BY <2>1 DEF Locked, Holds, FormInv
  <2>3. click'[c] = [at |-> "state", token |-> t, err |-> NoErr] /\ \A d \in Clicks \ {c} : click'[d] = click[d]
    BY <1>8 DEF LookPending, TypeOK
  <2>4. accepted[t] = 0 /\ card[t] # "none"
    BY <2>1 DEF FormInv
  <2>. QED
    BY <2>1, <2>2, <2>3, <2>4 DEF FormInv, Holds
<1>9. ASSUME NEW c \in Clicks, NEW t \in Tokens, LookActive(c, t) PROVE FormInv'
  <2>1. UNCHANGED <<accepted, card, entries, entriesFile>> /\ t \notin Pending
    BY <1>9 DEF LookActive, stores, history
  <2>2. click'[c] = [at |-> "state", token |-> t, err |-> NoErr] /\ \A d \in Clicks \ {c} : click'[d] = click[d]
    BY <1>9 DEF LookActive, TypeOK
  <2>. QED
    BY <2>1, <2>2 DEF FormInv, Holds
<1>10. ASSUME NEW c \in Clicks, State(c) PROVE FormInv'
  <2>1. UNCHANGED <<accepted, card, entries, entriesFile>> /\ click[c].at = "state"
    BY <1>10 DEF State, stores, history, At
  <2>2. Ends(c) \/ Goes(c, "consume")
    BY <1>10 DEF State
  <2>. QED
    BY <2>1, <2>2, MoveFacts DEF FormInv, Holds
<1>11. ASSUME NEW c \in Clicks, Consume(c) PROVE FormInv'
  <2>. DEFINE t == click[c].token
  <2>1. UNCHANGED <<card, entries, entriesFile>> /\ click[c].at = "consume"
    BY <1>11 DEF Consume, At
  <2>2. CASE Ends(c) /\ UNCHANGED accepted
    BY <2>1, <2>2, MoveFacts DEF FormInv, Holds
  <2>3. CASE t \in Pending /\ Goes(c, "remove") /\ UNCHANGED accepted
    BY <2>1, <2>3, MoveFacts DEF FormInv, Holds
  <2>4. CASE t \notin Pending /\ Goes(c, "deliver") /\ accepted' = [accepted EXCEPT ![t] = @ + 1]
    <3>1. \A u \in Pending : accepted'[u] = accepted[u]
      BY <2>4 DEF TypeOK
    <3>. QED
      BY <2>1, <2>4, <3>1, MoveFacts DEF FormInv, Holds
  <2>. QED
    BY <1>11, <2>2, <2>3, <2>4 DEF Consume
<1>12. ASSUME NEW c \in Clicks, Remove(c) PROVE FormInv'
  <2>1. UNCHANGED <<accepted, card, entriesFile>> /\ click[c].at = "remove" /\ entries' = entries \ {click[c].token}
    BY <1>12 DEF Remove, history, At
  <2>2. /\ click'[c].at = "persist" /\ click'[c].token = click[c].token
        /\ \A d \in Clicks \ {c} : click'[d] = click[d]
    BY <1>12 DEF Remove, TypeOK
  <2>. QED
    BY <2>1, <2>2 DEF FormInv, Holds
<1>13. ASSUME NEW c \in Clicks, Persist(c) PROVE FormInv'
  <2>. DEFINE t == click[c].token
  <2>1. UNCHANGED <<card, entries>> /\ click[c].at = "persist"
    BY <1>13 DEF Persist, At
  <2>2. t \in Pending /\ t \notin entries /\ accepted[t] = 0 /\ card[t] # "none"
    BY <2>1 DEF FormInv, Holds
  <2>3. CASE entriesFile' = entries /\ Goes(c, "deliver") /\ accepted' = [accepted EXCEPT ![t] = @ + 1]
    <3>1. accepted'[t] = 1 /\ \A u \in Pending \ {t} : accepted'[u] = accepted[u]
      BY <2>2, <2>3 DEF TypeOK
    <3>2. \A d \in Clicks : Holds(d) => d = c
      BY <2>1, <2>2 DEF FormInv, Holds
    <3>3. \A d \in Clicks : ~Holds(d)' /\ click'[d].at \notin {"remove", "persist"}
      BY <2>3, <3>2, MoveFacts DEF FormInv, Holds
    <3>. QED
      BY <2>1, <2>2, <2>3, <3>1, <3>3 DEF FormInv
  <2>4. CASE (entriesFile' = entries \/ entriesFile' = entriesFile) /\ Ends(c) /\ UNCHANGED accepted
    BY <2>1, <2>4, MoveFacts DEF FormInv, Holds
  <2>. QED
    BY <1>13, <2>3, <2>4 DEF Persist, Write, WriteFails
<1>14. ASSUME NEW c \in Clicks, Deliver(c) PROVE FormInv'
  <2>1. UNCHANGED <<accepted, card, entries, entriesFile>> /\ Ends(c)
    BY <1>14 DEF Deliver, stores
  <2>. QED
    BY <2>1, MoveFacts DEF FormInv, Holds
<1>15. CASE UNCHANGED vars
  BY <1>15 DEF vars, stores, history, FormInv, Holds
<1>. QED
  BY <1>1, <1>2, <1>3, <1>4, <1>5, <1>6, <1>7, <1>8, <1>9, <1>10, <1>11, <1>12, <1>13, <1>14, <1>15 DEF Next

LEMMA RunStep == CardInv /\ [Next]_vars => RunInv'
<1>. SUFFICES ASSUME RunInv, [Next]_vars PROVE RunInv'
  BY DEF CardInv
<1>1. CASE (\E r \in Runs : RunStart(r)) \/ Register \/ RunDone \/ Unregister \/ Restart
  BY <1>1 DEF RunStart, Register, RunDone, Unregister, Restart, RunInv
<1>2. CASE UNCHANGED runsVars
  BY <1>2 DEF RunInv, runsVars
<1>. QED
  BY <1>1, <1>2 DEF Next, vars, Expire, Sign, SignPending, SendCard, CancelPending, Revoke,
                    LookPending, LookActive, State, Consume, Remove, Persist, Deliver

LEMMA CommandStep == CardInv /\ [Next]_vars => CommandInv'
<1>. SUFFICES ASSUME TypeOK, FormInv, RunInv, CommandInv, [Next]_vars PROVE CommandInv'
  BY DEF CardInv
<1>1. ASSUME NEW r \in Runs, RunStart(r) PROVE CommandInv'
  BY <1>1 DEF RunStart, CommandInv, Dead, stores, history
<1>2. CASE Register \/ RunDone \/ Unregister
  BY <1>2 DEF Register, RunDone, Unregister, CommandInv, Dead, stores, history, TypeOK
<1>3. CASE Restart
  <2>1. /\ UNCHANGED <<accepted, over>> /\ running' = Nobody /\ presenting' = Nobody
        /\ \A c \in Clicks : click'[c].at = "idle"
    BY <1>3 DEF Restart, history, Idle
  <2>2. \A t \in Tokens : Dead(t)'
    BY <2>1 DEF Dead
  <2>. QED
    BY <2>1, <2>2 DEF CommandInv
<1>4. ASSUME NEW t \in Tokens, Expire(t) \/ Sign(t) \/ SendCard(t) \/ SignPending(t) \/ CancelPending(t) PROVE CommandInv'
  BY <1>4 DEF Expire, Sign, SendCard, SignPending, CancelPending, CommandInv, Dead, stores, runsVars, history
<1>5. ASSUME NEW t \in Tokens, Revoke(t) PROVE CommandInv'
  <2>1. UNCHANGED <<accepted, click, runsVars>> /\ \A u \in Tokens : nonces'[u] = nonces[u] \/ nonces'[u] # "fresh"
    BY <1>5 DEF Revoke, history, TypeOK
  <2>. QED
    BY <2>1 DEF CommandInv, Dead, runsVars
<1>6. ASSUME NEW c \in Clicks, NEW t \in Tokens, LookPending(c, t) PROVE CommandInv'
  <2>1. UNCHANGED <<accepted, nonces, running, presenting, over>> /\ t \in Pending
    BY <1>6 DEF LookPending, stores, runsVars, history
  <2>2. click'[c] = [at |-> "state", token |-> t, err |-> NoErr] /\ \A d \in Clicks \ {c} : click'[d] = click[d]
    BY <1>6 DEF LookPending, TypeOK
  <2>. QED
    BY <2>1, <2>2 DEF CommandInv, Dead
<1>7. ASSUME NEW c \in Clicks, NEW t \in Tokens, LookActive(c, t) PROVE CommandInv'
  <2>1. UNCHANGED <<accepted, nonces, running, presenting, over>> /\ presenting = RunOf[t]
    BY <1>7 DEF LookActive, stores, runsVars, history
  <2>2. click'[c] = [at |-> "state", token |-> t, err |-> NoErr] /\ \A d \in Clicks \ {c} : click'[d] = click[d]
    BY <1>7 DEF LookActive, TypeOK
  <2>3. RunOf[t] \in over
    BY <2>1 DEF RunInv
  <2>4. \A u \in Tokens : Dead(u) => Dead(u)'
    BY <2>1, <2>2 DEF Dead
  <2>. QED
    BY <2>1, <2>2, <2>3, <2>4 DEF CommandInv
<1>8. ASSUME NEW c \in Clicks, State(c) PROVE CommandInv'
  <2>1. UNCHANGED <<accepted, nonces, running, presenting, over>> /\ click[c].at = "state" /\ (Ends(c) \/ Goes(c, "consume"))
    BY <1>8 DEF State, stores, runsVars, history, At
  <2>2. /\ click'[c].at # "idle" => click'[c].token = click[c].token
        /\ \A d \in Clicks \ {c} : click'[d] = click[d]
    BY <2>1, MoveFacts
  <2>3. \A u \in Tokens : Dead(u) => Dead(u)'
    BY <2>1, <2>2 DEF Dead
  <2>. QED
    BY <2>1, <2>2, <2>3 DEF CommandInv
<1>9. ASSUME NEW c \in Clicks, Consume(c) PROVE CommandInv'
  <2>. DEFINE t == click[c].token
  <2>1. UNCHANGED <<running, presenting, over>> /\ click[c].at = "consume" /\ t \in Tokens
    BY <1>9 DEF Consume, runsVars, At, TypeOK
  <2>2. CASE Ends(c) /\ UNCHANGED <<accepted, nonces>>
    <3>1. \A u \in Tokens : Dead(u) => Dead(u)'
      BY <2>1, <2>2, MoveFacts DEF Dead
    <3>. QED
      BY <2>1, <2>2, <3>1, MoveFacts DEF CommandInv
  <2>3. CASE t \in Pending /\ Goes(c, "remove") /\ UNCHANGED accepted /\ nonces' = [nonces EXCEPT ![t] = "used"]
    <3>1. \A u \in Commands : Dead(u) => Dead(u)'
      BY <2>1, <2>3, MoveFacts DEF Dead
    <3>2. \A u \in Commands : nonces'[u] = nonces[u]
      BY <2>3 DEF TypeOK
    <3>. QED
      BY <2>1, <2>3, <3>1, <3>2, MoveFacts DEF CommandInv
  <2>4. CASE /\ t \notin Pending /\ Goes(c, "deliver") /\ accepted' = [accepted EXCEPT ![t] = @ + 1]
             /\ nonces[t] = "fresh" /\ nonces' = [nonces EXCEPT ![t] = "used"]
    <3>1. accepted[t] = 0 /\ RunOf[t] \in over
      BY <2>1, <2>4 DEF CommandInv, Dead
    <3>2. /\ accepted'[t] = 1 /\ nonces'[t] # "fresh"
          /\ \A u \in Tokens \ {t} : accepted'[u] = accepted[u] /\ nonces'[u] = nonces[u]
      BY <2>1, <2>4, <3>1 DEF TypeOK
    <3>3. \A u \in Tokens : Dead(u) => Dead(u)'
      BY <2>1, <2>4, MoveFacts DEF Dead
    <3>. QED
      BY <2>1, <2>4, <3>1, <3>2, <3>3, MoveFacts DEF CommandInv
  <2>. QED
    BY <1>9, <2>2, <2>3, <2>4 DEF Consume
<1>10. ASSUME NEW c \in Clicks, Remove(c) PROVE CommandInv'
  <2>1. UNCHANGED <<accepted, nonces, running, presenting, over>> /\ click[c].at = "remove"
    BY <1>10 DEF Remove, runsVars, history, At
  <2>2. /\ click'[c].at = "persist" /\ click'[c].token = click[c].token
        /\ \A d \in Clicks \ {c} : click'[d] = click[d]
    BY <1>10 DEF Remove, TypeOK
  <2>. QED
    BY <2>1, <2>2 DEF CommandInv, Dead
<1>11. ASSUME NEW c \in Clicks, Persist(c) PROVE CommandInv'
  <2>1. /\ UNCHANGED <<nonces, running, presenting, over>> /\ click[c].at = "persist" /\ click[c].token \in Pending
        /\ Ends(c) \/ Goes(c, "deliver")
    BY <1>11 DEF Persist, runsVars, At, FormInv
  <2>2. \A u \in Commands : accepted'[u] = accepted[u]
    BY <1>11, <2>1 DEF Persist, TypeOK
  <2>3. \A u \in Tokens : Dead(u) => Dead(u)'
    BY <2>1, MoveFacts DEF Dead
  <2>. QED
    BY <2>1, <2>2, <2>3, MoveFacts DEF CommandInv
<1>12. ASSUME NEW c \in Clicks, Deliver(c) PROVE CommandInv'
  <2>1. UNCHANGED <<accepted, nonces, running, presenting, over>> /\ Ends(c)
    BY <1>12 DEF Deliver, stores, runsVars
  <2>2. \A u \in Tokens : Dead(u) => Dead(u)'
    BY <2>1, MoveFacts DEF Dead
  <2>. QED
    BY <2>1, <2>2, MoveFacts DEF CommandInv
<1>13. CASE UNCHANGED vars
  BY <1>13 DEF vars, stores, runsVars, history, CommandInv, Dead
<1>. QED
  BY <1>1, <1>2, <1>3, <1>4, <1>5, <1>6, <1>7, <1>8, <1>9, <1>10, <1>11, <1>12, <1>13 DEF Next
-----------------------------------------------------------------------------
LEMMA CardSafe == Spec => []CardInv
<1>1. CardInv /\ [Next]_vars => CardInv'
  BY TypeStep, FormStep, RunStep, CommandStep DEF CardInv
<1>. QED
  BY CardInit, <1>1, PTL DEF Spec

\* Each signed token lets at most one click through, for any number of tokens,
\* clicks and runs, whatever writes fail and however often the process restarts.
THEOREM CardsOnce == Spec => []AtMostOnce
<1>1. CardInv => AtMostOnce
  <2>. SUFFICES ASSUME CardInv, NEW t \in Tokens PROVE accepted[t] <= 1
    BY DEF AtMostOnce
  <2>. QED
    BY DEF CardInv, FormInv, CommandInv
<1>. QED
  BY CardSafe, <1>1, PTL

\* The stores, files, clicks and runs stay well formed.
THEOREM CardTypes == Spec => []TypeOK
<1>1. CardInv => TypeOK
  BY DEF CardInv
<1>. QED
  BY CardSafe, <1>1, PTL
-----------------------------------------------------------------------------
\* A form that is sent or on its way is recorded in memory and on disk until it is spent or late,
\* a cancelled one nowhere, and a click that takes an entry away has consumed its nonce.
KeepInv ==
  /\ \A t \in Pending : card[t] \in {"sending", "sent"} /\ t \notin expired \cup spent => t \in entries \cap entriesFile
  /\ \A t \in Pending : card[t] = "cancelled" => t \notin entries \cup entriesFile
  /\ \A c \in Clicks : click[c].at \in {"remove", "persist"} => click[c].token \in spent

LEMMA KeepInit == Init => KeepInv
  BY DEF Init, KeepInv, Idle

\* A step of a form's sender: an entry is added, pruned when late, or cancelled.
LEMMA KeepSender ==
  ASSUME TypeOK, KeepInv, NEW t \in Tokens, SignPending(t) \/ SendCard(t) \/ CancelPending(t) PROVE KeepInv'
<1>1. CASE SignPending(t)
  <2>1. /\ UNCHANGED <<expired, spent, click>> /\ t \in Pending /\ entriesFile' \in {entries', entriesFile}
        /\ \A u \in Tokens \ {t} : card'[u] = card[u]
    BY <1>1 DEF SignPending, Write, WriteFails, history, TypeOK
  <2>2. CASE entries' = (entries \ expired) \cup {t} /\ card'[t] = "sending" /\ entriesFile' = entries'
    BY <2>1, <2>2 DEF KeepInv
  <2>3. CASE entries' = entries \ expired /\ card'[t] = "refused" /\ entriesFile' = entriesFile
    BY <2>1, <2>3 DEF KeepInv
  <2>. QED
    BY <1>1, <2>2, <2>3 DEF SignPending, Write, WriteFails, TypeOK
<1>2. CASE SendCard(t)
  <2>1. /\ UNCHANGED <<entries, entriesFile, expired, spent, click>> /\ card[t] = "sending" /\ card'[t] \in {"sent", "cancelling"}
        /\ \A u \in Tokens \ {t} : card'[u] = card[u]
    BY <1>2 DEF SendCard, stores, history, TypeOK
  <2>. QED
    BY <2>1 DEF KeepInv
<1>3. CASE CancelPending(t)
  <2>1. /\ UNCHANGED <<expired, spent, click>> /\ entries' = entries \ {t}
        /\ \A u \in Tokens \ {t} : card'[u] = card[u]
    BY <1>3 DEF CancelPending, history, TypeOK
  <2>2. (entriesFile' = entries' /\ card'[t] = "cancelled") \/ (entriesFile' = entriesFile /\ card'[t] = "unsure")
    BY <1>3 DEF CancelPending, Write, WriteFails, TypeOK
  <2>. QED
    BY <2>1, <2>2 DEF KeepInv
<1>. QED
  BY <1>1, <1>2, <1>3

\* A step of a click: its entry goes only after its nonce is spent, from memory and then from the file.
LEMMA KeepClick ==
  ASSUME TypeOK, KeepInv, NEW c \in Clicks, State(c) \/ Consume(c) \/ Remove(c) \/ Persist(c) \/ Deliver(c) PROVE KeepInv'
<1>1. CASE State(c) \/ Deliver(c)
  <2>1. UNCHANGED <<entries, entriesFile, expired, spent, card>> /\ (Ends(c) \/ Goes(c, "consume"))
    BY <1>1 DEF State, Deliver, stores, history
  <2>. QED
    BY <2>1, MoveFacts DEF KeepInv
<1>2. CASE Consume(c)
  <2>1. UNCHANGED <<entries, entriesFile, expired, card>> /\ spent \subseteq spent'
    BY <1>2 DEF Consume
  <2>2. Ends(c) \/ Goes(c, "deliver") \/ (Goes(c, "remove") /\ click[c].token \in spent')
    BY <1>2 DEF Consume
  <2>. QED
    BY <2>1, <2>2, MoveFacts DEF KeepInv
<1>3. CASE Remove(c)
  <2>1. /\ UNCHANGED <<entriesFile, expired, spent, card>> /\ click[c].token \in spent /\ entries' = entries \ {click[c].token}
    BY <1>3 DEF Remove, history, At, KeepInv
  <2>2. click'[c].token = click[c].token /\ \A d \in Clicks \ {c} : click'[d] = click[d]
    BY <1>3 DEF Remove, TypeOK
  <2>. QED
    BY <2>1, <2>2 DEF KeepInv
<1>4. CASE Persist(c)
  <2>1. /\ UNCHANGED <<entries, expired, spent, card>> /\ (entriesFile' = entries \/ entriesFile' = entriesFile)
        /\ Ends(c) \/ Goes(c, "deliver")
    BY <1>4 DEF Persist, Write, WriteFails
  <2>. QED
    BY <2>1, MoveFacts DEF KeepInv
<1>. QED
  BY <1>1, <1>2, <1>3, <1>4

LEMMA KeepStep == TypeOK /\ KeepInv /\ [Next]_vars => KeepInv'
<1>. SUFFICES ASSUME TypeOK, KeepInv, [Next]_vars PROVE KeepInv'
  OBVIOUS
<1>1. CASE (\E r \in Runs : RunStart(r)) \/ Register \/ RunDone \/ Unregister
  BY <1>1 DEF RunStart, Register, RunDone, Unregister, KeepInv, stores, history
<1>2. CASE Restart
  BY <1>2 DEF Restart, KeepInv, TypeOK, history, Idle
<1>3. ASSUME NEW t \in Tokens, Expire(t) \/ Sign(t) \/ Revoke(t) PROVE KeepInv'
  BY <1>3 DEF Expire, Sign, Revoke, KeepInv, TypeOK, stores, history
<1>4. ASSUME NEW c \in Clicks, NEW t \in Tokens, LookPending(c, t) \/ LookActive(c, t) PROVE KeepInv'
  BY <1>4 DEF LookPending, LookActive, KeepInv, TypeOK, stores, history
<1>5. CASE UNCHANGED vars
  BY <1>5 DEF vars, stores, history, KeepInv
<1>. QED
  BY <1>1, <1>2, <1>3, <1>4, <1>5, KeepSender, KeepClick DEF Next

\* A form that was sent is there until it is submitted or late, in memory and for the next process,
\* and one whose cancellation was recorded does not come back: whatever writes fail, entries are
\* pruned, and however often the process restarts (SignPending, CancelPending, VerifyPending).
THEOREM CardsKeepForms == Spec => []FormsKept
<1>1. KeepInv => FormsKept
  BY DEF KeepInv, FormsKept, UnsubmittedSurvives, CancelledStaysOut
<1>. QED
  BY KeepInit, KeepStep, <1>1, CardTypes, PTL DEF Spec
-----------------------------------------------------------------------------
\* Nothing failed and nothing was left untold.
Untroubled == counts.faults = 0 /\ "untold" \notin slips
Agrees == Untroubled /\ counts.starts > 0 /\ target # <<>> => target[1].policy = saved.preset

\* What must come just before an end, and before an import is written down.
Follows(a, b) ==
  /\ b.do = "end" => a.do = "persist" /\ a.arg.preset = b.arg
  /\ b.do = "persist" /\ b.arg.status = "imported" => a.do = "ready"
\* Only the bot is written down as a choice.
Sits(s) == s.do = "persist" => /\ s.arg.preset \in {Bot, User} /\ s.arg.manual \in BOOLEAN
                               /\ s.arg.manual => s.arg.preset = Bot
Lists(t) == \E S : t \in Seq(S)
Chain(t) ==
  /\ Lists(t) /\ t # <<>> /\ t[Len(t)].do \in {"end", "detect"}
  /\ \A i \in 1..Len(t) : Sits(t[i])
  /\ \A i \in 2..Len(t) : Follows(t[i - 1], t[i])
\* A step that may come first.
Opens(s) == s.do # "end" /\ ~(s.do = "persist" /\ s.arg.status = "imported")
Fallback(t) == Chain(t) /\ Opens(t[1]) /\ \A i \in 1..Len(t) : t[i].instead = <<>> /\ t[i].do # "ready"
Stands(s) == Sits(s) /\ (s.do = "ready" => s.instead # <<>>) /\ (s.instead # <<>> => Fallback(s.instead))
Plan(t) == Chain(t) /\ \A i \in 1..Len(t) : Stands(t[i])
MayBegin(t) == Plan(t) /\ Opens(t[1])
-----------------------------------------------------------------------------
LEMMA ChainShape == ASSUME NEW t, Chain(t) PROVE Len(t) \in Nat /\ Len(t) >= 1 /\ DOMAIN t = 1..Len(t) /\ Head(t) = t[1]
  <1>1. PICK S : t \in Seq(S)
    BY DEF Chain, Lists
  <1> QED BY <1>1 DEF Chain

\* A step that is not the last is followed by a plan, which it prepares.
LEMMA PlanGoesOn ==
  ASSUME NEW t, Plan(t), t[1].do \notin {"end", "detect"}
  PROVE  Plan(Tail(t)) /\ Follows(t[1], Tail(t)[1]) /\ Stands(Tail(t)[1])
  <1>1. Chain(t) /\ \A i \in 1..Len(t) : Stands(t[i])
    BY DEF Plan
  <1>2. PICK S : t \in Seq(S)
    BY <1>1 DEF Chain, Lists
  <1>3. PICK len \in Nat : len = Len(t) /\ len >= 1
    BY <1>1, ChainShape
  <1>4. len > 1
    BY <1>1, <1>3 DEF Chain
  <1>5. PICK u : u = Tail(t)
    OBVIOUS
  <1>6. u \in Seq(S) /\ Len(u) = len - 1 /\ \A i \in 1..len - 1 : u[i] = t[i + 1]
    BY <1>2, <1>3, <1>4, <1>5
  <1>7. u # <<>> /\ u[Len(u)] = t[Len(t)]
    BY <1>3, <1>4, <1>6
  <1>8. \A i \in 1..Len(u) : Stands(u[i])
    BY <1>1, <1>3, <1>4, <1>6
  <1>9. \A i \in 2..Len(u) : Follows(u[i - 1], u[i])
    <2>1. SUFFICES ASSUME NEW i \in 2..Len(u) PROVE Follows(u[i - 1], u[i])
      OBVIOUS
    <2>2. u[i - 1] = t[i] /\ u[i] = t[i + 1] /\ i + 1 \in 2..Len(t) /\ (i + 1) - 1 = i
      BY <1>3, <1>4, <1>6, <2>1
    <2> QED BY <1>1, <2>2 DEF Chain
  <1>10. Plan(u)
    BY <1>1, <1>6, <1>7, <1>8, <1>9 DEF Plan, Chain, Lists, Stands
  <1>11. Follows(t[1], u[1])
    <2>1. u[1] = t[2] /\ 2 \in 2..Len(t) /\ 2 - 1 = 1
      BY <1>3, <1>4, <1>6
    <2> QED BY <1>1, <2>1 DEF Chain
  <1>12. Stands(u[1])
    BY <1>4, <1>6, <1>8
  <1> QED BY <1>5, <1>10, <1>11, <1>12

\* A step before a plan that it prepares makes a plan.
LEMMA PlanAfter ==
  ASSUME NEW s, NEW t, Plan(t), Stands(s), Follows(s, t[1])
  PROVE  Plan(<<s>> \o t) /\ (<<s>> \o t)[1] = s
  <1>1. Chain(t) /\ \A i \in 1..Len(t) : Stands(t[i])
    BY DEF Plan
  <1>2. PICK S : t \in Seq(S)
    BY <1>1 DEF Chain, Lists
  <1>3. PICK len \in Nat : len = Len(t) /\ len >= 1
    BY <1>1, ChainShape
  <1>4. PICK u : u = <<s>> \o t
    OBVIOUS
  <1>5. PICK R : R = S \cup {s}
    OBVIOUS
  <1>6. <<s>> \in Seq(R) /\ t \in Seq(R) /\ Len(<<s>>) = 1 /\ <<s>>[1] = s
    BY <1>2, <1>5
  <1>7. u \in Seq(R) /\ Len(u) = len + 1
    BY <1>3, <1>4, <1>6
  <1>8. u[1] = s /\ \A i \in 1..len : u[i + 1] = t[i]
    BY <1>3, <1>4, <1>6
  <1>9. u # <<>> /\ u[Len(u)] = t[Len(t)]
    BY <1>3, <1>7, <1>8
  <1>10. ASSUME NEW i \in 2..Len(u) PROVE i - 1 \in 1..len /\ u[i] = t[i - 1]
    <2>1. i - 1 \in 1..len /\ (i - 1) + 1 = i
      BY <1>3, <1>7
    <2> QED BY <1>8, <2>1
  <1>11. ASSUME NEW i \in 1..Len(u) PROVE Stands(u[i])
    <2>1. CASE i = 1
      BY <1>8, <2>1
    <2>2. CASE i # 1
      <3>1. i \in 2..Len(u)
        BY <1>7, <2>2
      <3> QED BY <1>1, <1>3, <1>10, <3>1
    <2> QED BY <2>1, <2>2
  <1>12. ASSUME NEW i \in 2..Len(u) PROVE Follows(u[i - 1], u[i])
    <2>1. CASE i = 2
      BY <1>8, <1>10, <2>1
    <2>2. CASE i # 2
      <3>1. PICK j : j = i - 1
        OBVIOUS
      <3>2. j \in 2..Len(u) /\ j \in 2..Len(t)
        BY <1>3, <1>7, <2>2, <3>1
      <3>3. u[i] = t[j] /\ u[j] = t[j - 1]
        BY <1>10, <3>1, <3>2
      <3> QED BY <1>1, <3>1, <3>2, <3>3 DEF Chain
    <2> QED BY <2>1, <2>2
  <1>13. Plan(u)
    BY <1>1, <1>7, <1>9, <1>11, <1>12 DEF Plan, Chain, Lists, Stands
  <1> QED BY <1>4, <1>8, <1>13

\* So does one before a plan that begins.
LEMMA BeginsAfter ==
  ASSUME NEW s, NEW t, MayBegin(t), Stands(s), Opens(s) PROVE MayBegin(<<s>> \o t)
  <1>1. Follows(s, t[1])
    BY DEF MayBegin, Opens, Follows
  <1> QED BY <1>1, PlanAfter DEF MayBegin

LEMMA LastPlan == ASSUME NEW s, Stands(s), s.do \in {"end", "detect"} PROVE Plan(<<s>>) /\ <<s>>[1] = s
  <1>1. <<s>> \in Seq({s}) /\ Len(<<s>>) = 1 /\ <<s>>[1] = s /\ <<s>> # <<>>
    OBVIOUS
  <1>2. Lists(<<s>>)
    BY <1>1 DEF Lists
  <1> QED BY <1>1, <1>2 DEF Plan, Chain, Stands

\* What is done instead is itself a plan.
LEMMA FallbackBegins == ASSUME NEW t, Fallback(t) PROVE MayBegin(t)
  BY DEF Fallback, MayBegin, Plan, Chain, Stands

LEMMA StepFields == ASSUME NEW do, NEW arg, NEW instead
  PROVE  Step(do, arg, instead).do = do /\ Step(do, arg, instead).arg = arg /\ Step(do, arg, instead).instead = instead
  BY DEF Step

\* Any step but one that is written down, with nothing or a fallback in its place.
LEMMA StandsOf ==
  ASSUME NEW do, NEW arg, NEW instead, do # "persist", do # "ready" \/ instead # <<>>, instead = <<>> \/ Fallback(instead)
  PROVE  Stands(Step(do, arg, instead)) /\ (do # "end" => Opens(Step(do, arg, instead)))
  BY StepFields DEF Stands, Sits, Opens

LEMMA WrittenStands ==
  ASSUME NEW identity \in {Bot, User}, NEW status
  PROVE  /\ Stands(persistLarkCliConfig(identity, status))
         /\ status # "imported" => Opens(persistLarkCliConfig(identity, status))
         /\ Follows(persistLarkCliConfig(identity, status), End(identity))
  <1>1. PICK arg : arg = [preset |-> identity, status |-> status, manual |-> FALSE]
    OBVIOUS
  <1>2. arg.preset = identity /\ arg.status = status /\ arg.manual \in BOOLEAN /\ ~arg.manual
    BY <1>1
  <1>3. PICK s : s = persistLarkCliConfig(identity, status)
    OBVIOUS
  <1>4. s.do = "persist" /\ s.arg = arg /\ s.instead = <<>>
    BY <1>1, <1>3, StepFields DEF persistLarkCliConfig
  <1>5. Stands(s)
    BY <1>2, <1>4 DEF Stands, Sits
  <1>6. status # "imported" => Opens(s)
    BY <1>2, <1>4 DEF Opens
  <1>7. Follows(s, End(identity))
    <2>1. PICK e : e = End(identity)
      OBVIOUS
    <2>2. e.do = "end" /\ e.arg = identity
      BY <2>1, StepFields DEF End
    <2> QED BY <1>2, <1>4, <2>1, <2>2 DEF Follows
  <1> QED BY <1>3, <1>5, <1>6, <1>7

LEMMA KeepStands == Stands(KeepManual) /\ Opens(KeepManual) /\ Follows(KeepManual, End(Bot))
  <1>1. PICK arg : arg = [preset |-> Bot, status |-> "not-needed", manual |-> TRUE]
    OBVIOUS
  <1>2. arg.preset = Bot /\ arg.status = "not-needed" /\ arg.manual \in BOOLEAN
    BY <1>1
  <1>3. PICK s : s = KeepManual
    OBVIOUS
  <1>4. s.do = "persist" /\ s.arg = arg /\ s.instead = <<>>
    BY <1>1, <1>3, StepFields DEF KeepManual
  <1>5. Stands(s) /\ Opens(s)
    BY <1>2, <1>4 DEF Stands, Sits, Opens
  <1>6. Follows(s, End(Bot))
    <2>1. PICK e : e = End(Bot)
      OBVIOUS
    <2>2. e.do = "end" /\ e.arg = Bot
      BY <2>1, StepFields DEF End
    <2> QED BY <1>2, <1>4, <2>1, <2>2 DEF Follows
  <1> QED BY <1>3, <1>5, <1>6

LEMMA EndPlan == ASSUME NEW identity PROVE Plan(<<End(identity)>>) /\ <<End(identity)>>[1] = End(identity)
  <1>1. PICK e : e = End(identity)
    OBVIOUS
  <1>2. Stands(e) /\ e.do = "end"
    BY <1>1, StandsOf, StepFields DEF End
  <1> QED BY <1>1, <1>2, LastPlan

\* Two steps one after the other.
LEMMA TwoSteps == ASSUME NEW a, NEW b PROVE <<a, b>> = <<a>> \o <<b>>
  <1>1. PICK S : S = {a, b}
    OBVIOUS
  <1>2. PICK x, y : x = <<a, b>> /\ y = <<a>> \o <<b>>
    OBVIOUS
  <1>3. <<a>> \in Seq(S) /\ <<b>> \in Seq(S) /\ Len(<<a>>) = 1 /\ Len(<<b>>) = 1
    BY <1>1
  <1>4. y \in Seq(S) /\ Len(y) = 2 /\ y[1] = a /\ y[2] = b
    BY <1>2, <1>3, ConcatProperties
  <1>5. x \in Seq(S) /\ Len(x) = 2 /\ x[1] = a /\ x[2] = b
    BY <1>1, <1>2
  <1>6. x = y
    BY <1>4, <1>5, SeqEqual
  <1> QED BY <1>2, <1>6
LEMMA ThreeSteps == ASSUME NEW a, NEW b, NEW c PROVE <<a, b, c>> = <<a>> \o <<b, c>>
  <1>1. PICK S : S = {a, b, c}
    OBVIOUS
  <1>2. PICK x, y : x = <<a, b, c>> /\ y = <<a>> \o <<b, c>>
    OBVIOUS
  <1>3. <<a>> \in Seq(S) /\ <<b, c>> \in Seq(S) /\ Len(<<a>>) = 1 /\ Len(<<b, c>>) = 2
    BY <1>1
  <1>4. y \in Seq(S) /\ Len(y) = 3 /\ y[1] = a /\ y[2] = b /\ y[3] = c
    BY <1>2, <1>3, ConcatProperties
  <1>5. x \in Seq(S) /\ Len(x) = 3 /\ x[1] = a /\ x[2] = b /\ x[3] = c
    BY <1>1, <1>2
  <1>6. x = y
    BY <1>4, <1>5, SeqEqual
  <1> QED BY <1>2, <1>6
LEMMA FourSteps == ASSUME NEW a, NEW b, NEW c, NEW d PROVE <<a, b, c, d>> = <<a>> \o <<b, c, d>>
  <1>1. PICK S : S = {a, b, c, d}
    OBVIOUS
  <1>2. PICK x, y : x = <<a, b, c, d>> /\ y = <<a>> \o <<b, c, d>>
    OBVIOUS
  <1>3. <<a>> \in Seq(S) /\ <<b, c, d>> \in Seq(S) /\ Len(<<a>>) = 1 /\ Len(<<b, c, d>>) = 3
    BY <1>1
  <1>4. y \in Seq(S) /\ Len(y) = 4 /\ y[1] = a /\ y[2] = b /\ y[3] = c /\ y[4] = d
    BY <1>2, <1>3, ConcatProperties
  <1>5. x \in Seq(S) /\ Len(x) = 4 /\ x[1] = a /\ x[2] = b /\ x[3] = c /\ x[4] = d
    BY <1>1, <1>2
  <1>6. x = y
    BY <1>4, <1>5, SeqEqual
  <1> QED BY <1>2, <1>6
LEMMA FiveSteps == ASSUME NEW a, NEW b, NEW c, NEW d, NEW e PROVE <<a, b, c, d, e>> = <<a>> \o <<b, c, d, e>>
  <1>1. PICK S : S = {a, b, c, d, e}
    OBVIOUS
  <1>2. PICK x, y : x = <<a, b, c, d, e>> /\ y = <<a>> \o <<b, c, d, e>>
    OBVIOUS
  <1>3. <<a>> \in Seq(S) /\ <<b, c, d, e>> \in Seq(S) /\ Len(<<a>>) = 1 /\ Len(<<b, c, d, e>>) = 4
    BY <1>1
  <1>4. y \in Seq(S) /\ Len(y) = 5 /\ y[1] = a /\ y[2] = b /\ y[3] = c /\ y[4] = d /\ y[5] = e
    BY <1>2, <1>3, ConcatProperties
  <1>5. x \in Seq(S) /\ Len(x) = 5 /\ x[1] = a /\ x[2] = b /\ x[3] = c /\ x[4] = d /\ x[5] = e
    BY <1>1, <1>2
  <1>6. x = y
    BY <1>4, <1>5, SeqEqual
  <1> QED BY <1>2, <1>6

LEMMA WrittenPlan ==
  ASSUME NEW identity \in {Bot, User}, NEW status
  PROVE  /\ Plan(<<persistLarkCliConfig(identity, status), End(identity)>>)
         /\ <<persistLarkCliConfig(identity, status), End(identity)>>[1] = persistLarkCliConfig(identity, status)
         /\ status # "imported" => MayBegin(<<persistLarkCliConfig(identity, status), End(identity)>>)
  <1>1. PICK s, e : s = persistLarkCliConfig(identity, status) /\ e = End(identity)
    OBVIOUS
  <1>2. Stands(s) /\ (status # "imported" => Opens(s)) /\ Follows(s, e)
    BY <1>1, WrittenStands
  <1>3. Plan(<<e>>) /\ <<e>>[1] = e
    BY <1>1, EndPlan
  <1>4. Plan(<<s>> \o <<e>>) /\ <<s, e>>[1] = s
    BY <1>2, <1>3, PlanAfter
  <1> QED BY <1>1, <1>2, <1>4, TwoSteps DEF MayBegin

\* The way back to the bot begins, and is what is done instead.
LEMMA BackPlan ==
  ASSUME NEW status, status # "imported" PROVE MayBegin(BackToBot(status)) /\ Fallback(BackToBot(status)) /\ BackToBot(status) # <<>>
  <1>1. PICK a, p, e : a = applyIdentity(Bot, <<>>) /\ p = persistLarkCliConfig(Bot, status) /\ e = End(Bot)
    OBVIOUS
  <1>2. MayBegin(<<p, e>>)
    BY <1>1, WrittenPlan
  <1>3. Stands(a) /\ Opens(a) /\ a.do = "apply" /\ a.instead = <<>>
    BY <1>1, StandsOf, StepFields DEF applyIdentity
  <1>4. MayBegin(<<a, p, e>>)
    <2>1. PICK t : t = <<p, e>>
      OBVIOUS
    <2>2. MayBegin(<<a>> \o t)
      BY <1>2, <1>3, <2>1, BeginsAfter
    <2>3. <<a>> \o t = <<a, p, e>>
      BY <2>1, ThreeSteps
    <2> QED BY <2>2, <2>3
  <1>5. p.do = "persist" /\ p.instead = <<>> /\ e.do = "end" /\ e.instead = <<>>
    BY <1>1, StepFields DEF persistLarkCliConfig, End
  <1>6. Len(<<a, p, e>>) = 3 /\ \A i \in 1..3 : <<a, p, e>>[i] \in {a, p, e}
    OBVIOUS
  <1>7. Fallback(<<a, p, e>>)
    BY <1>3, <1>4, <1>5, <1>6 DEF Fallback, MayBegin, Plan
  <1> QED BY <1>1, <1>4, <1>7 DEF BackToBot

LEMMA InsteadPlan ==
  ASSUME NEW status, status # "imported"
  PROVE  Fallback(<<persistLarkCliConfig(Bot, status), End(Bot)>>)
  <1>1. PICK p, e : p = persistLarkCliConfig(Bot, status) /\ e = End(Bot)
    OBVIOUS
  <1>2. MayBegin(<<p, e>>)
    BY <1>1, WrittenPlan
  <1>3. p.do = "persist" /\ p.instead = <<>> /\ e.do = "end" /\ e.instead = <<>>
    BY <1>1, StepFields DEF persistLarkCliConfig, End
  <1>4. Len(<<p, e>>) = 2 /\ \A i \in 1..2 : <<p, e>>[i] \in {p, e}
    OBVIOUS
  <1> QED BY <1>1, <1>2, <1>3, <1>4 DEF Fallback, MayBegin, Plan

LEMMA ImportsBegin == MayBegin(Imports)
  <1>1. PICK c, a, r, p, e :
          /\ c = Step("copy", Unset, <<>>) /\ a = applyIdentity(User, BackToBot("failed"))
          /\ r = Step("ready", Unset, BackToBot("failed"))
          /\ p = persistLarkCliConfig(User, "imported") /\ e = End(User)
    OBVIOUS
  <1>2. PICK back : back = BackToBot("failed")
    OBVIOUS
  <1>3. Fallback(back) /\ back # <<>>
    BY <1>2, BackPlan
  <1>4. Plan(<<p, e>>) /\ <<p, e>>[1] = p
    BY <1>1, WrittenPlan
  <1>5. Stands(c) /\ Opens(c) /\ Stands(a) /\ Opens(a) /\ Stands(r) /\ Opens(r) /\ r.do = "ready"
    BY <1>1, <1>2, <1>3, StandsOf, StepFields DEF applyIdentity
  <1>6. Follows(r, p)
    <2>1. p.do = "persist"
      BY <1>1, StepFields DEF persistLarkCliConfig
    <2> QED BY <1>5, <2>1 DEF Follows
  <1>7. MayBegin(<<r>> \o <<p, e>>)
    BY <1>4, <1>5, <1>6, PlanAfter DEF MayBegin
  <1>8. MayBegin(<<a>> \o (<<r>> \o <<p, e>>))
    BY <1>5, <1>7, BeginsAfter
  <1>9. MayBegin(<<c>> \o (<<a>> \o (<<r>> \o <<p, e>>)))
    BY <1>5, <1>8, BeginsAfter
  <1>10. <<c, a, r, p, e>> = <<c>> \o (<<a>> \o (<<r>> \o <<p, e>>))
    <2>1. <<c, a, r, p, e>> = <<c>> \o <<a, r, p, e>>
      BY FiveSteps, Zenon
    <2>2. <<a, r, p, e>> = <<a>> \o <<r, p, e>>
      BY FourSteps, Zenon
    <2>3. <<r, p, e>> = <<r>> \o <<p, e>>
      BY ThreeSteps, Zenon
    <2> QED BY <2>1, <2>2, <2>3, Zenon
  <1> QED BY <1>1, <1>9, <1>10 DEF Imports

LEMMA RebindsBegin == ASSUME NEW status PROVE MayBegin(Rebinds(status))
  <1>1. PICK b : b = Step("bind", Unset, <<persistLarkCliConfig(Bot, importFailureStatus(status)), End(Bot)>>)
    OBVIOUS
  <1>2. importFailureStatus(status) # "imported"
    BY DEF importFailureStatus
  <1>3. PICK undo : undo = <<persistLarkCliConfig(Bot, importFailureStatus(status)), End(Bot)>>
    OBVIOUS
  <1>4. Fallback(undo)
    BY <1>2, <1>3, InsteadPlan
  <1>5. Stands(b) /\ Opens(b)
    BY <1>1, <1>3, <1>4, StandsOf
  <1>6. PICK t : t = IF status = "imported" THEN Imports ELSE BackToBot(status)
    OBVIOUS
  <1>7. MayBegin(t)
    BY <1>6, ImportsBegin, BackPlan
  <1>8. MayBegin(<<b>> \o t)
    BY <1>5, <1>7, BeginsAfter
  <1> QED BY <1>1, <1>6, <1>8 DEF Rebinds

LEMMA DetectBegins == ASSUME NEW purpose PROVE MayBegin(<<Step("detect", purpose, <<>>)>>)
  <1>1. PICK s : s = Step("detect", purpose, <<>>)
    OBVIOUS
  <1>2. Stands(s) /\ Opens(s) /\ s.do = "detect"
    BY <1>1, StandsOf, StepFields
  <1> QED BY <1>1, <1>2, LastPlan DEF MayBegin

LEMMA BindBegins == MayBegin(bindNext)
  <1>1. CASE shouldSkipLocalUserImport
    BY <1>1, RebindsBegin DEF bindNext
  <1>2. CASE ~shouldSkipLocalUserImport
    BY <1>2, DetectBegins DEF bindNext
  <1> QED BY <1>1, <1>2

LEMMA ProbeBegins == ASSUME NEW identity PROVE MayBegin(Probe(identity))
  <1>1. PICK s : s = Step("probe", identity, <<>>)
    OBVIOUS
  <1>2. Stands(s) /\ Opens(s)
    BY <1>1, StandsOf
  <1> QED BY <1>1, <1>2, BindBegins, BeginsAfter DEF Probe

\* What a start has to do begins.
LEMMA ExistingBegins == MayBegin(handleExistingPrivateTarget)
  <1>1. PICK bot, asUser : bot = applyIdentity(Bot, <<>>) /\ asUser = applyIdentity(User, BackToBot("failed"))
    OBVIOUS
  <1>2. Stands(bot) /\ Opens(bot)
    BY <1>1, StandsOf DEF applyIdentity
  <1>3. Stands(asUser) /\ Opens(asUser)
    <2>1. PICK back : back = BackToBot("failed")
      OBVIOUS
    <2>2. Fallback(back)
      BY <2>1, BackPlan
    <2> QED BY <1>1, <2>1, <2>2, StandsOf DEF applyIdentity
  <1>4. CASE shouldSkipLocalUserImport
    <2>1. PICK k, e : k = KeepManual /\ e = End(Bot)
      OBVIOUS
    <2>2. Stands(k) /\ Opens(k) /\ Follows(k, e)
      BY <2>1, KeepStands
    <2>3. Plan(<<e>>) /\ <<e>>[1] = e
      BY <2>1, EndPlan
    <2>4. MayBegin(<<k, e>>)
      <3>1. PICK t : t = <<e>>
        OBVIOUS
      <3>2. PICK whole : whole = <<k>> \o t
        OBVIOUS
      <3>3. Plan(whole) /\ whole[1] = k
        BY <2>2, <2>3, <3>1, <3>2, PlanAfter
      <3>4. whole = <<k, e>>
        BY <3>1, <3>2, TwoSteps
      <3>5. MayBegin(whole)
        BY <2>2, <3>3 DEF MayBegin
      <3> QED BY <3>4, <3>5
    <2>5. <<>> \o <<k, e>> = <<k, e>>
      OBVIOUS
    <2>6. MayBegin(<<bot>> \o <<k, e>>)
      BY <1>2, <2>4, BeginsAfter
    <2>7. handleExistingPrivateTarget = (IF identityPresetForTarget # Bot THEN <<bot>> ELSE <<>>) \o <<k, e>>
      BY <1>1, <1>4, <2>1 DEF handleExistingPrivateTarget
    <2> QED BY <2>4, <2>5, <2>6, <2>7
  <1>5. CASE ~shouldSkipLocalUserImport /\ HasStructuredLarkCliUserAuth(target[1].users)
    <2>1. PICK p, t : p = persistLarkCliConfig(User, "skipped-existing-private-user") /\ t = Probe(identityPresetForTarget)
      OBVIOUS
    <2>2. Stands(p) /\ Opens(p)
      BY <2>1, WrittenStands
    <2>3. MayBegin(t)
      BY <2>1, ProbeBegins
    <2>4. MayBegin(<<p>> \o t)
      BY <2>2, <2>3, BeginsAfter
    <2>5. MayBegin(<<asUser>> \o (<<p>> \o t))
      BY <1>3, <2>4, BeginsAfter
    <2>6. PICK S : t \in Seq(S)
      BY <2>3 DEF MayBegin, Plan, Chain, Lists
    <2>7. PICK R : R = S \cup {asUser, p}
      OBVIOUS
    <2>8. <<asUser>> \in Seq(R) /\ <<p>> \in Seq(R) /\ t \in Seq(R)
      BY <2>6, <2>7
    <2>9. (<<asUser>> \o <<p>>) \o t = <<asUser>> \o (<<p>> \o t)
      BY <2>8, ConcatAssociative
    <2>10. <<>> \o <<p>> = <<p>>
      OBVIOUS
    <2>11. handleExistingPrivateTarget = (IF identityPresetForTarget # User THEN <<asUser>> ELSE <<>>) \o <<p>> \o t
      BY <1>1, <1>5, <2>1 DEF handleExistingPrivateTarget
    <2> QED BY <2>4, <2>5, <2>9, <2>10, <2>11
  <1>6. CASE ~shouldSkipLocalUserImport /\ ~HasStructuredLarkCliUserAuth(target[1].users)
    <2>1. handleExistingPrivateTarget = <<Step("detect", "import", <<>>)>>
      BY <1>6 DEF handleExistingPrivateTarget
    <2> QED BY <2>1, DetectBegins
  <1> QED BY <1>4, <1>5, <1>6

LEMMA PreflightBegins == MayBegin(RunPreflight)
  BY ExistingBegins, ProbeBegins, BindBegins DEF RunPreflight

LEMMA PresetOfTarget == identityPresetForTarget \in {Bot, User}
  BY DEF identityPresetForTarget

\* What follows a detection begins.
LEMMA DetectedBegins == ASSUME NEW purpose, NEW status PROVE MayBegin(Detected(purpose, status))
  <1>1. CASE purpose = "bind"
    BY <1>1, RebindsBegin DEF Detected
  <1>2. CASE purpose # "bind" /\ status = "imported"
    BY <1>2, ImportsBegin DEF Detected
  <1>3. CASE purpose # "bind" /\ status # "imported"
    <2>1. PICK p, t : p = persistLarkCliConfig(identityPresetForTarget, status) /\ t = Probe(identityPresetForTarget)
      OBVIOUS
    <2>2. Stands(p) /\ Opens(p)
      BY <1>3, <2>1, WrittenStands, PresetOfTarget
    <2>3. MayBegin(t)
      BY <2>1, ProbeBegins
    <2> QED BY <1>3, <2>1, <2>2, <2>3, BeginsAfter DEF Detected
  <1> QED BY <1>1, <1>2, <1>3
-----------------------------------------------------------------------------
\* The users of a target of this app are never such that are only shown, and stay.
Private(x) == x = [own |-> x.own, users |-> x.users, policy |-> x.policy] /\ x.own \in BOOLEAN /\ x.users \in Logins
TargetOK == target = <<>> \/ (target = <<target[1]>> /\ Private(target[1]))
Structured == Own /\ target[1].users = "structured"
Unshown == Own => target[1].users # "shown"

Confirms(identity) == [preset |-> identity, status |-> "not-needed", manual |-> TRUE]
Writes(identity, undo) == Step("persist", Confirms(identity), undo)
Refusal == <<End("refused")>>
Undo(identity) == <<applyIdentity(identity, <<>>)>> \o Refusal
\* What is left to do of a form.
Applies(identity) == \E old : cli.todo = <<applyIdentity(identity, Refusal), Writes(identity, Undo(old)), End(identity)>>
Wrote(identity) ==
  /\ \E undo : cli.todo = <<Writes(identity, undo), End(identity)>> /\ (undo = Refusal \/ \E old : undo = Undo(old))
  /\ Untroubled /\ counts.starts > 0 /\ target # <<>> => target[1].policy = identity
FormOK ==
  \/ \E identity \in {Bot, User} :
       \/ Agrees /\ Applies(identity)
       \/ Wrote(identity)
       \/ Agrees /\ cli.todo = <<End(identity)>> /\ saved.preset = identity /\ saved.manual
  \/ counts.faults > 0 /\ \E identity : cli.todo = Undo(identity)
  \/ Agrees /\ cli.todo = Refusal
Safe(s) ==
  /\ s.do = "end" /\ Untroubled => s.arg = saved.preset
  /\ s.do = "persist" /\ s.arg.status = "imported" => Structured

IdentityTypes ==
  /\ TargetOK /\ saved.preset \in {Bot, User} /\ saved.manual \in BOOLEAN
  /\ DOMAIN cli = {"at", "todo"} /\ cli.at \in {"rests", "preflight", "connects", "form"}
  /\ counts = [starts |-> counts.starts, forms |-> counts.forms, faults |-> counts.faults]
  /\ counts.starts \in Nat /\ counts.faults \in Nat
ShownOK == counts.starts > 0 => Unshown
ImportOK == saved.status = "imported" => Structured
ChoiceOK == "forgotten" \notin slips /\ chosen = Bot => saved.preset = Bot /\ saved.manual
CliOK ==
  /\ cli.at = "rests" => Agrees
  /\ cli.at = "preflight" => counts.starts > 0 /\ Plan(cli.todo) /\ Safe(cli.todo[1])
  /\ cli.at = "connects" =>
       /\ counts.starts > 0
       /\ \/ cli.todo = <<>> /\ Agrees
          \/ \E identity : cli.todo = <<applyIdentity(identity, <<>>)>> /\ (Untroubled => identity = saved.preset)
  /\ cli.at = "form" => chosen = "none" /\ FormOK
IdentityInv == IdentityTypes /\ ShownOK /\ ImportOK /\ ChoiceOK /\ CliOK

\* What a step that succeeds does.
Stays == TargetOK' /\ (Structured => Structured') /\ (Unshown => Unshown')

LEMMA PrivateChanges ==
  ASSUME NEW x, Private(x), NEW y, \/ \E policy : y = [x EXCEPT !.policy = policy]
                                   \/ \E users \in Logins : y = [x EXCEPT !.users = users]
  PROVE  Private(y) /\ y.own = x.own
  BY DEF Private

LEMMA SucceedsTarget ==
  ASSUME IdentityTypes, NEW s, Succeeds(s)
  PROVE  /\ Stays
         /\ s.do \notin {"apply", "bind", "copy"} => target' = target
         /\ s.do = "apply" => target # <<>> /\ target'[1].policy = s.arg
         /\ s.do = "ready" => Own /\ target[1].users # "none"
         /\ s.do = "probe" => target # <<>>
  <1>1. TargetOK
    BY DEF IdentityTypes
  <1>2. CASE s.do = "apply"
    <2>1. target # <<>> /\ target' = <<[target[1] EXCEPT !.policy = s.arg]>>
      BY <1>2 DEF Succeeds
    <2>2. PICK x : x = target[1] /\ Private(x)
      BY <1>1, <2>1 DEF TargetOK
    <2>3. PICK y : y = [x EXCEPT !.policy = s.arg]
      OBVIOUS
    <2>4. Private(y) /\ y.own = x.own
      BY <2>2, <2>3, PrivateChanges
    <2>5. y.policy = s.arg /\ y.users = x.users
      BY <2>2, <2>3 DEF Private
    <2>6. target' = <<y>> /\ target'[1] = y /\ target' # <<>>
      BY <2>1, <2>2, <2>3
    <2> QED BY <1>2, <2>1, <2>2, <2>4, <2>5, <2>6 DEF Stays, TargetOK, Structured, Unshown, Own
  <1>3. CASE s.do = "bind"
    <2>1. PICK users : users = IF Own THEN target[1].users ELSE "none"
      OBVIOUS
    <2>2. target' = <<[own |-> TRUE, users |-> users, policy |-> Bot]>>
      BY <1>3, <2>1 DEF Succeeds
    <2>3. users \in Logins
      BY <1>1, <2>1 DEF TargetOK, Private, Own, Logins
    <2>4. PICK y : y = [own |-> TRUE, users |-> users, policy |-> Bot]
      OBVIOUS
    <2>5. Private(y) /\ y.own /\ y.users = users
      BY <2>3, <2>4 DEF Private
    <2>6. target' = <<y>> /\ target'[1] = y /\ target' # <<>>
      BY <2>2, <2>4
    <2> QED BY <1>3, <2>1, <2>5, <2>6 DEF Stays, TargetOK, Structured, Unshown, Own
  <1>4. CASE s.do = "copy"
    <2>1. CASE Own /\ ~HasStructuredLarkCliUserAuth(target[1].users)
      <3>1. target' = <<[target[1] EXCEPT !.users = "structured"]>>
        BY <1>4, <2>1 DEF Succeeds
      <3>2. PICK x : x = target[1] /\ Private(x)
        BY <1>1, <2>1 DEF TargetOK, Own
      <3>3. PICK y : y = [x EXCEPT !.users = "structured"]
        OBVIOUS
      <3>4. Private(y) /\ y.own = x.own
        BY <3>2, <3>3, PrivateChanges DEF Logins
      <3>5. y.users = "structured"
        BY <3>2, <3>3 DEF Private
      <3>6. target' = <<y>> /\ target'[1] = y /\ target' # <<>>
        BY <3>1, <3>2, <3>3
      <3> QED BY <1>4, <2>1, <3>2, <3>4, <3>5, <3>6 DEF Stays, TargetOK, Structured, Unshown, Own
    <2>2. CASE ~(Own /\ ~HasStructuredLarkCliUserAuth(target[1].users))
      <3>1. target' = target
        BY <1>4, <2>2 DEF Succeeds
      <3> QED BY <1>1, <1>4, <3>1 DEF Stays, TargetOK, Structured, Unshown, Own
    <2> QED BY <2>1, <2>2
  <1>5. CASE s.do \notin {"apply", "bind", "copy"}
    <2>1. target' = target
      BY <1>5 DEF Succeeds
    <2>2. s.do = "ready" => Own /\ target[1].users # "none"
      BY DEF Succeeds, HasLarkCliUserAuth
    <2>3. s.do = "probe" => target # <<>>
      BY DEF Succeeds
    <2> QED BY <1>1, <1>5, <2>1, <2>2, <2>3 DEF Stays, TargetOK, Structured, Unshown, Own
  <1> QED BY <1>2, <1>3, <1>4, <1>5

LEMMA SucceedsSaves ==
  ASSUME NEW s, Succeeds(s)
  PROVE  /\ s.do = "persist" => saved' = s.arg
         /\ s.do # "persist" => saved' = saved
         /\ slips \subseteq slips'
         /\ s.do = "probe" /\ s.arg # saved.preset => "untold" \in slips'
         /\ s.do = "persist" /\ saved.manual /\ ~s.arg.manual => "forgotten" \in slips'
         /\ counts' = counts
  BY DEF Succeeds

\* A step that fails may leave the policy half set.
LEMMA FailsTarget == ASSUME IdentityTypes, NEW s, FailsOf(s) PROVE Stays /\ UNCHANGED <<saved, chosen, slips>> /\ s.do # "end"
  <1>1. TargetOK /\ UNCHANGED <<saved, chosen, slips>> /\ s.do # "end"
    BY DEF IdentityTypes, FailsOf
  <1>2. CASE target' = target
    BY <1>1, <1>2 DEF Stays, TargetOK, Structured, Unshown, Own
  <1>3. CASE target' # target
    <2>1. target # <<>> /\ target' = <<[target[1] EXCEPT !.policy = "mixed"]>>
      BY <1>3 DEF FailsOf
    <2>2. PICK x : x = target[1] /\ Private(x)
      BY <1>1, <2>1 DEF TargetOK
    <2>3. PICK y : y = [x EXCEPT !.policy = "mixed"]
      OBVIOUS
    <2>4. Private(y) /\ y.own = x.own
      BY <2>2, <2>3, PrivateChanges
    <2>5. y.users = x.users
      BY <2>2, <2>3 DEF Private
    <2>6. target' = <<y>> /\ target'[1] = y /\ target' # <<>>
      BY <2>1, <2>2, <2>3
    <2> QED BY <1>1, <2>1, <2>2, <2>4, <2>5, <2>6 DEF Stays, TargetOK, Structured, Unshown, Own
  <1> QED BY <1>2, <1>3

\* A first step that opens is safe in every state.
LEMMA OpensSafe == ASSUME NEW s, Opens(s) PROVE Safe(s) /\ Safe(s)'
  BY DEF Opens, Safe

\* What is started from rest.
LEMMA StartStep == ASSUME IdentityInv, PreflightStarts PROVE IdentityInv'
  <1>1. PICK t : t = RunPreflight
    OBVIOUS
  <1>2. cli' = [at |-> "preflight", todo |-> t] /\ UNCHANGED <<local, saved, chosen>> /\ counts' = [counts EXCEPT !.starts = @ + 1]
        /\ slips' = slips \ {"untold"}
    BY <1>1 DEF PreflightStarts, Does
  <1>3. MayBegin(t)
    BY <1>1, PreflightBegins
  <1>4. TargetOK' /\ (Structured => Structured') /\ Unshown'
    <2>1. TargetOK
      BY DEF IdentityInv, IdentityTypes
    <2>2. CASE Own /\ target[1].users = "shown"
      <3>1. target' = <<[target[1] EXCEPT !.users = "none"]>>
        BY <2>2 DEF PreflightStarts
      <3>2. PICK x : x = target[1] /\ Private(x)
        BY <2>1, <2>2 DEF TargetOK, Own
      <3>3. PICK y : y = [x EXCEPT !.users = "none"]
        OBVIOUS
      <3>4. Private(y) /\ y.own = x.own
        BY <3>2, <3>3, PrivateChanges DEF Logins
      <3>5. y.users = "none"
        BY <3>2, <3>3 DEF Private
      <3>6. target' = <<y>> /\ target'[1] = y /\ target' # <<>>
        BY <3>1, <3>2, <3>3
      <3> QED BY <2>2, <3>4, <3>5, <3>6 DEF TargetOK, Structured, Unshown, Own
    <2>3. CASE ~(Own /\ target[1].users = "shown")
      <3>1. target' = target
        BY <2>3 DEF PreflightStarts
      <3> QED BY <2>1, <2>3, <3>1 DEF TargetOK, Structured, Unshown, Own
    <2> QED BY <2>2, <2>3
  <1>5. counts'.starts > 0 /\ IdentityTypes'
    BY <1>2, <1>4 DEF IdentityInv, IdentityTypes
  <1>6. CliOK'
    <2>1. Plan(t) /\ Safe(t[1])'
      BY <1>3, OpensSafe DEF MayBegin
    <2>2. cli'.at = "preflight" /\ cli'.todo = t
      BY <1>2
    <2> QED BY <1>5, <2>1, <2>2 DEF CliOK
  <1>7. ImportOK' /\ ShownOK'
    BY <1>2, <1>4 DEF IdentityInv, ImportOK, ShownOK
  <1>8. ChoiceOK'
    BY <1>2 DEF IdentityInv, ChoiceOK
  <1> QED BY <1>5, <1>6, <1>7, <1>8 DEF IdentityInv

LEMMA ConfigStep == ASSUME IdentityInv, submitConfig PROVE IdentityInv'
  <1>1. /\ cli.at = "rests" /\ counts' = [counts EXCEPT !.forms = @ + 1] /\ chosen' = "none"
        /\ UNCHANGED <<target, local, saved, slips>>
    BY DEF submitConfig
  <1>2. Agrees /\ IdentityTypes
    BY <1>1 DEF IdentityInv, CliOK
  <1>3. counts'.starts = counts.starts /\ counts'.faults = counts.faults /\ counts'.starts \in Nat
    BY <1>1, <1>2 DEF IdentityTypes
  <1>4. Agrees'
    BY <1>1, <1>2, <1>3 DEF Agrees, Untroubled
  <1>5. PICK identity \in {Bot, User} :
          cli' = [at |-> "form",
                  todo |-> (IF identity # saved.preset THEN <<applyIdentity(identity, <<End("refused")>>)>> ELSE <<>>)
                    \o <<Step("persist", [preset |-> identity, status |-> "not-needed", manual |-> TRUE],
                              (IF identity # saved.preset THEN <<applyIdentity(saved.preset, <<>>)>> ELSE <<>>) \o <<End("refused")>>),
                         End(identity)>>]
    BY DEF submitConfig, Does
  <1>6. PICK r : r = Refusal
    OBVIOUS
  <1>7. cli'.at = "form" /\ DOMAIN cli' = {"at", "todo"}
    BY <1>5
  <1>8. FormOK'
    <2>1. CASE identity # saved.preset
      <3>1. PICK a, p, e : /\ a = applyIdentity(identity, Refusal) /\ p = Writes(identity, Undo(saved.preset))
                           /\ e = End(identity)
        OBVIOUS
      <3>2. cli'.todo = <<a>> \o <<p, e>>
        BY <1>5, <2>1, <3>1 DEF Refusal, Writes, Undo, Confirms
      <3>3. cli'.todo = <<a, p, e>>
        BY <3>2, ThreeSteps
      <3>4. Applies(identity)'
        BY <1>1, <3>1, <3>3 DEF Applies
      <3> QED BY <1>4, <3>4 DEF FormOK
    <2>2. CASE identity = saved.preset
      <3>1. PICK p, e : /\ p = Writes(identity, Refusal) /\ e = End(identity)
        OBVIOUS
      <3>2. <<>> \o r = r /\ <<>> \o <<p, e>> = <<p, e>>
        BY <1>6 DEF Refusal
      <3>3. cli'.todo = <<p, e>>
        BY <1>5, <1>6, <2>2, <3>1, <3>2 DEF Refusal, Writes, Confirms
      <3>4. Untroubled' /\ counts'.starts > 0 /\ target' # <<>> => target'[1].policy = identity
        BY <1>1, <1>4, <2>2 DEF Agrees
      <3>5. Wrote(identity)'
        BY <3>1, <3>3, <3>4 DEF Wrote
      <3> QED BY <3>5 DEF FormOK
    <2> QED BY <2>1, <2>2
  <1>9. IdentityTypes'
    BY <1>1, <1>2, <1>7 DEF IdentityTypes, TargetOK
  <1>10. CliOK' /\ ChoiceOK'
    BY <1>1, <1>7, <1>8 DEF CliOK, ChoiceOK, Bot
  <1>11. ShownOK' /\ ImportOK'
    BY <1>1, <1>3 DEF IdentityInv, ShownOK, ImportOK, Unshown, Structured, Own
  <1> QED BY <1>9, <1>10, <1>11 DEF IdentityInv

\* A step of a start that succeeds.
LEMMA PreflightTakes == ASSUME IdentityInv, cli.at = "preflight", Takes PROVE IdentityInv'
  <1>1. PICK t : t = cli.todo
    OBVIOUS
  <1>2. Plan(t) /\ Safe(t[1]) /\ counts.starts > 0 /\ IdentityTypes /\ Unshown
    BY <1>1 DEF IdentityInv, CliOK, ShownOK
  <1>3. PICK s : s = t[1]
    OBVIOUS
  <1>4. Succeeds(s)
    BY <1>1, <1>2, <1>3, ChainShape DEF Takes, Plan
  <1>5. Stands(s)
    <2>1. 1 \in 1..Len(t)
      BY <1>2, ChainShape DEF Plan
    <2> QED BY <1>2, <1>3, <2>1 DEF Plan
  <1>6. /\ Stays /\ (s.do \notin {"apply", "bind", "copy"} => target' = target)
        /\ s.do = "ready" => Own /\ target[1].users # "none"
    BY <1>2, <1>4, SucceedsTarget
  <1>7. /\ s.do = "persist" => saved' = s.arg
        /\ s.do # "persist" => saved' = saved
        /\ slips \subseteq slips'
        /\ s.do = "probe" /\ s.arg # saved.preset => "untold" \in slips'
        /\ s.do = "persist" /\ saved.manual /\ ~s.arg.manual => "forgotten" \in slips'
        /\ counts' = counts
    BY <1>4, SucceedsSaves
  <1>8. chosen' = chosen
    BY <1>4 DEF Succeeds
  <1>9. Untroubled' => Untroubled
    BY <1>7 DEF Untroubled
  <1>10. CASE s.do = "end"
    <2>1. PICK todo : todo = <<applyIdentity(s.arg, <<>>)>>
      OBVIOUS
    <2>2. cli' = [at |-> "connects", todo |-> todo]
      BY <1>4, <1>10, <2>1 DEF Succeeds
    <2>3. cli'.at = "connects" /\ cli'.todo = todo /\ DOMAIN cli' = {"at", "todo"}
      BY <2>2
    <2>4. Untroubled' => s.arg = saved'.preset
      BY <1>2, <1>3, <1>7, <1>9, <1>10 DEF Safe
    <2>5. CliOK'
      BY <1>2, <1>7, <2>1, <2>3, <2>4 DEF CliOK
    <2>6. IdentityTypes'
      BY <1>2, <1>6, <1>7, <1>10, <2>3 DEF IdentityTypes, Stays
    <2>7. ShownOK' /\ ImportOK' /\ ChoiceOK'
      BY <1>2, <1>6, <1>7, <1>8, <1>10 DEF IdentityInv, ShownOK, ImportOK, ChoiceOK, Stays
    <2> QED BY <2>5, <2>6, <2>7 DEF IdentityInv
  <1>11. CASE s.do # "end"
    <2>1. PICK u : u = IF s.do = "probe" THEN <<End(s.arg)>>
                       ELSE IF s.do = "detect" THEN Detected(s.arg, detectLocalSameAppUser) ELSE Tail(t)
      OBVIOUS
    <2>2. cli' = [cli EXCEPT !.todo = u]
      BY <1>1, <1>4, <1>11, <2>1 DEF Succeeds
    <2>3. cli'.at = "preflight" /\ cli'.todo = u /\ DOMAIN cli' = {"at", "todo"}
      BY <1>2, <2>2 DEF IdentityTypes
    <2>4. Plan(u) /\ Safe(u[1])'
      <3>1. CASE s.do = "probe"
        <4>1. PICK e : e = End(s.arg)
          OBVIOUS
        <4>2. u = <<e>> /\ u[1] = e /\ Plan(u)
          BY <2>1, <3>1, <4>1, EndPlan
        <4>3. e.do = "end" /\ e.arg = s.arg
          BY <4>1, StepFields DEF End
        <4>4. Untroubled' => s.arg = saved'.preset
          BY <1>7, <3>1 DEF Untroubled
        <4>5. Safe(e)'
          BY <4>3, <4>4 DEF Safe
        <4> QED BY <4>2, <4>5
      <3>2. CASE s.do = "detect"
        <4>1. MayBegin(u)
          BY <2>1, <3>2, DetectedBegins
        <4> QED BY <4>1, OpensSafe DEF MayBegin
      <3>3. CASE s.do \notin {"probe", "detect"}
        <4>1. u = Tail(t)
          BY <2>1, <3>3
        <4>2. Plan(u) /\ Follows(s, u[1])
          BY <1>2, <1>3, <1>11, <3>3, <4>1, PlanGoesOn
        <4>3. PICK n : n = u[1]
          OBVIOUS
        <4>4. n.do = "end" => n.arg = saved'.preset
          BY <1>7, <4>2, <4>3 DEF Follows
        <4>5. n.do = "persist" /\ n.arg.status = "imported" => Structured'
          <5>1. SUFFICES ASSUME n.do = "persist", n.arg.status = "imported" PROVE Structured'
            OBVIOUS
          <5>2. s.do = "ready"
            BY <4>2, <4>3, <5>1 DEF Follows
          <5>3. Own /\ target[1].users # "none" /\ target' = target
            BY <1>6, <5>2
          <5>4. target[1].users \in Logins
            BY <1>2, <5>3 DEF IdentityTypes, TargetOK, Private, Own
          <5> QED BY <1>2, <5>3, <5>4 DEF Unshown, Logins, Structured, Own
        <4>6. Safe(n)'
          BY <4>4, <4>5 DEF Safe
        <4> QED BY <4>2, <4>3, <4>6
      <3> QED BY <3>1, <3>2, <3>3
    <2>5. CliOK'
      BY <1>2, <1>7, <2>3, <2>4 DEF CliOK
    <2>6. CASE s.do = "persist"
      <3>1. saved' = s.arg /\ s.arg.preset \in {Bot, User} /\ s.arg.manual \in BOOLEAN /\ (s.arg.manual => s.arg.preset = Bot)
        BY <1>5, <1>7, <2>6 DEF Stands, Sits
      <3>2. IdentityTypes'
        BY <1>2, <1>6, <1>7, <2>3, <3>1 DEF IdentityTypes, Stays
      <3>3. ShownOK'
        BY <1>2, <1>6, <1>7 DEF ShownOK, Stays
      <3>4. ImportOK'
        BY <1>2, <1>3, <1>6, <2>6, <3>1 DEF ImportOK, Safe, Stays
      <3>5. ChoiceOK'
        BY <1>2, <1>7, <1>8, <2>6, <3>1 DEF IdentityInv, IdentityTypes, ChoiceOK
      <3> QED BY <2>5, <3>2, <3>3, <3>4, <3>5 DEF IdentityInv
    <2>7. CASE s.do # "persist"
      <3>1. saved' = saved
        BY <1>7, <2>7
      <3>2. IdentityTypes'
        BY <1>2, <1>6, <1>7, <2>3, <3>1 DEF IdentityTypes, Stays
      <3>3. ShownOK' /\ ImportOK' /\ ChoiceOK'
        BY <1>2, <1>6, <1>7, <1>8, <3>1 DEF IdentityInv, ShownOK, ImportOK, ChoiceOK, Stays
      <3> QED BY <2>5, <3>2, <3>3 DEF IdentityInv
    <2> QED BY <2>6, <2>7
  <1> QED BY <1>10, <1>11

\* What takes the place of a step that fails.
LEMMA Replaced ==
  ASSUME NEW t, Plan(t), t[1].do \notin {"end", "detect"}, NEW u, u = IF t[1].instead = <<>> THEN Tail(t) ELSE t[1].instead
  PROVE  Plan(u) /\ ~(u[1].do = "persist" /\ u[1].arg.status = "imported") /\ (u[1].do = "end" => t[1].do = "persist")
  <1>1. Stands(t[1])
    <2>1. 1 \in 1..Len(t)
      BY ChainShape DEF Plan
    <2> QED BY <2>1 DEF Plan
  <1>2. CASE t[1].instead = <<>>
    <2>1. Plan(u) /\ Follows(t[1], u[1]) /\ t[1].do # "ready"
      BY <1>1, <1>2, PlanGoesOn DEF Stands
    <2> QED BY <2>1 DEF Follows
  <1>3. CASE t[1].instead # <<>>
    <2>1. MayBegin(u)
      BY <1>1, <1>3, FallbackBegins DEF Stands
    <2> QED BY <2>1 DEF MayBegin, Opens
  <1> QED BY <1>2, <1>3

LEMMA PreflightFails == ASSUME IdentityInv, cli.at = "preflight", FailsToTake PROVE IdentityInv'
  <1>1. PICK t : t = cli.todo
    OBVIOUS
  <1>2. Plan(t) /\ counts.starts > 0 /\ IdentityTypes /\ Unshown
    BY <1>1 DEF IdentityInv, CliOK, ShownOK
  <1>3. PICK s : s = t[1]
    OBVIOUS
  <1>4. FailsOf(s) /\ counts' = [counts EXCEPT !.faults = @ + 1]
    BY <1>1, <1>2, <1>3, ChainShape DEF FailsToTake, Plan
  <1>5. Stays /\ UNCHANGED <<saved, chosen, slips>> /\ s.do # "end"
    BY <1>2, <1>4, FailsTarget
  <1>6. /\ counts' = [starts |-> counts'.starts, forms |-> counts'.forms, faults |-> counts'.faults]
        /\ counts'.starts = counts.starts /\ counts'.faults \in Nat /\ counts'.faults > 0
    BY <1>2, <1>4 DEF IdentityTypes
  <1>7. PICK u : u = IF s.do = "detect" THEN Detected(s.arg, "failed") ELSE IF s.instead = <<>> THEN Tail(t) ELSE s.instead
    OBVIOUS
  <1>8. cli' = [cli EXCEPT !.todo = u]
    BY <1>1, <1>4, <1>7 DEF FailsOf
  <1>9. cli'.at = "preflight" /\ cli'.todo = u /\ DOMAIN cli' = {"at", "todo"}
    BY <1>2, <1>8 DEF IdentityTypes
  <1>10. Plan(u) /\ ~(u[1].do = "persist" /\ u[1].arg.status = "imported")
    <2>1. CASE s.do = "detect"
      BY <1>7, <2>1, DetectedBegins DEF MayBegin, Opens
    <2>2. CASE s.do # "detect"
      BY <1>2, <1>3, <1>5, <1>7, <2>2, Replaced
    <2> QED BY <2>1, <2>2
  <1>11. Safe(u[1])'
    BY <1>6, <1>10 DEF Safe, Untroubled
  <1>12. CliOK'
    BY <1>2, <1>6, <1>9, <1>10, <1>11 DEF CliOK
  <1>13. IdentityTypes'
    BY <1>2, <1>5, <1>6, <1>9 DEF IdentityTypes, Stays
  <1>14. ShownOK' /\ ImportOK' /\ ChoiceOK'
    BY <1>2, <1>5, <1>6 DEF IdentityInv, ShownOK, ImportOK, ChoiceOK, Stays
  <1> QED BY <1>12, <1>13, <1>14 DEF IdentityInv

\* What changes nothing but what is left to do.
LEMMA OnlyTodo ==
  ASSUME IdentityInv, UNCHANGED <<target, local, saved, chosen, slips, counts>>, NEW u, cli' = [cli EXCEPT !.todo = u]
  PROVE  /\ IdentityTypes' /\ ShownOK' /\ ImportOK' /\ ChoiceOK' /\ cli'.at = cli.at /\ cli'.todo = u
         /\ (Agrees <=> Agrees')
  <1>1. cli'.at = cli.at /\ cli'.todo = u /\ DOMAIN cli' = {"at", "todo"}
    BY DEF IdentityInv, IdentityTypes
  <1>2. IdentityTypes'
    BY <1>1 DEF IdentityInv, IdentityTypes, TargetOK
  <1>3. ShownOK' /\ ImportOK' /\ ChoiceOK'
    BY DEF IdentityInv, ShownOK, ImportOK, ChoiceOK, Unshown, Structured, Own
  <1>4. Agrees <=> Agrees'
    BY DEF Agrees, Untroubled
  <1> QED BY <1>1, <1>2, <1>3, <1>4

LEMMA PreflightCannot == ASSUME IdentityInv, cli.at = "preflight", CannotTake PROVE IdentityInv'
  <1>1. PICK t : t = cli.todo
    OBVIOUS
  <1>2. Plan(t) /\ counts.starts > 0
    BY <1>1 DEF IdentityInv, CliOK
  <1>3. PICK s : s = t[1]
    OBVIOUS
  <1>4. PICK u : u = IF s.instead = <<>> THEN Tail(t) ELSE s.instead
    OBVIOUS
  <1>5. Head(t) = s
    BY <1>2, <1>3, ChainShape DEF Plan
  <1>6. s.do \in {"apply", "probe", "ready"} /\ cli' = [cli EXCEPT !.todo = u] /\ UNCHANGED <<target, local, saved, chosen, slips, counts>>
    BY <1>1, <1>4, <1>5 DEF CannotTake
  <1>7. Plan(u) /\ ~(u[1].do = "persist" /\ u[1].arg.status = "imported") /\ u[1].do # "end"
    BY <1>2, <1>3, <1>4, <1>6, Replaced
  <1>8. Safe(u[1])'
    BY <1>7 DEF Safe
  <1>9. IdentityTypes' /\ ShownOK' /\ ImportOK' /\ ChoiceOK' /\ cli'.at = "preflight" /\ cli'.todo = u
    BY <1>6, OnlyTodo
  <1>10. CliOK'
    BY <1>2, <1>6, <1>7, <1>8, <1>9 DEF CliOK
  <1> QED BY <1>9, <1>10 DEF IdentityInv

\* The policy of a connection is the one that is written down.
LEMMA ConnectStep ==
  ASSUME IdentityInv, cli.at = "connects", Takes \/ FailsToTake \/ CannotTake \/ Connected PROVE IdentityInv'
  <1>1. counts.starts > 0 /\ IdentityTypes /\ counts.starts \in Nat
    BY DEF IdentityInv, CliOK, IdentityTypes
  <1>2. CASE cli.todo = <<>> /\ Agrees
    <2>1. Connected
      BY <1>2 DEF Takes, FailsToTake, CannotTake
    <2>2. cli' = [at |-> "rests", todo |-> <<>>] /\ UNCHANGED <<target, local, saved, chosen, slips, counts>>
      BY <2>1 DEF Connected, Rests
    <2>3. cli'.at = "rests" /\ DOMAIN cli' = {"at", "todo"}
      BY <2>2
    <2>4. IdentityTypes'
      BY <1>1, <2>2, <2>3 DEF IdentityTypes, TargetOK
    <2>5. ShownOK' /\ ImportOK' /\ ChoiceOK' /\ Agrees'
      BY <1>2, <2>2 DEF IdentityInv, ShownOK, ImportOK, ChoiceOK, Unshown, Structured, Own, Agrees, Untroubled
    <2> QED BY <2>3, <2>4, <2>5 DEF IdentityInv, CliOK
  <1>3. CASE \E identity : cli.todo = <<applyIdentity(identity, <<>>)>> /\ (Untroubled => identity = saved.preset)
    <2>1. PICK identity, s : /\ cli.todo = <<s>> /\ s = applyIdentity(identity, <<>>)
                             /\ (Untroubled => identity = saved.preset)
      BY <1>3
    <2>2. s.do = "apply" /\ s.arg = identity /\ s.instead = <<>>
      BY <2>1, StepFields DEF applyIdentity
    <2>3. cli.todo # <<>> /\ Head(cli.todo) = s /\ Tail(cli.todo) = <<>>
      BY <2>1
    <2>4. CASE Takes
      <3>1. Succeeds(s)
        BY <2>3, <2>4 DEF Takes
      <3>2. Stays /\ target' # <<>> /\ target'[1].policy = identity
        <4>1. target' = <<[target[1] EXCEPT !.policy = s.arg]>>
          BY <2>2, <3>1 DEF Succeeds
        <4> QED BY <1>1, <2>2, <3>1, <4>1, SucceedsTarget
      <3>3. saved' = saved /\ slips \subseteq slips' /\ counts' = counts
        BY <2>2, <3>1, SucceedsSaves
      <3>4. cli' = [cli EXCEPT !.todo = <<>>] /\ chosen' = chosen
        BY <2>2, <2>3, <3>1 DEF Succeeds
      <3>5. cli'.at = "connects" /\ cli'.todo = <<>> /\ DOMAIN cli' = {"at", "todo"}
        BY <1>1, <3>4 DEF IdentityTypes
      <3>6. Agrees'
        BY <2>1, <3>2, <3>3 DEF Agrees, Untroubled
      <3>7. IdentityTypes'
        BY <1>1, <3>2, <3>3, <3>5 DEF IdentityTypes, Stays
      <3>8. ShownOK' /\ ImportOK' /\ ChoiceOK'
        BY <3>2, <3>3, <3>4 DEF IdentityInv, ShownOK, ImportOK, ChoiceOK, Stays
      <3> QED BY <1>1, <3>3, <3>5, <3>6, <3>7, <3>8 DEF IdentityInv, CliOK
    <2>5. CASE FailsToTake
      <3>1. FailsOf(s) /\ counts' = [counts EXCEPT !.faults = @ + 1]
        BY <2>3, <2>5 DEF FailsToTake
      <3>2. Stays /\ UNCHANGED <<saved, chosen, slips>>
        BY <1>1, <3>1, FailsTarget
      <3>3. /\ counts' = [starts |-> counts'.starts, forms |-> counts'.forms, faults |-> counts'.faults]
            /\ counts'.starts = counts.starts /\ counts'.faults \in Nat /\ counts'.faults > 0
        BY <1>1, <3>1 DEF IdentityTypes
      <3>4. cli' = [cli EXCEPT !.todo = <<>>]
        BY <2>2, <2>3, <3>1 DEF FailsOf
      <3>5. cli'.at = "connects" /\ cli'.todo = <<>> /\ DOMAIN cli' = {"at", "todo"}
        BY <1>1, <3>4 DEF IdentityTypes
      <3>6. Agrees'
        BY <3>3 DEF Agrees, Untroubled
      <3>7. IdentityTypes'
        BY <1>1, <3>2, <3>3, <3>5 DEF IdentityTypes, Stays
      <3>8. ShownOK' /\ ImportOK' /\ ChoiceOK'
        BY <3>2, <3>3 DEF IdentityInv, ShownOK, ImportOK, ChoiceOK, Stays
      <3> QED BY <1>1, <3>3, <3>5, <3>6, <3>7, <3>8 DEF IdentityInv, CliOK
    <2>6. CASE CannotTake
      <3>1. /\ cli' = [cli EXCEPT !.todo = <<>>] /\ UNCHANGED <<target, local, saved, chosen, slips, counts>>
            /\ target = <<>>
        BY <2>2, <2>3, <2>6 DEF CannotTake
      <3>2. IdentityTypes' /\ ShownOK' /\ ImportOK' /\ ChoiceOK' /\ cli'.at = "connects" /\ cli'.todo = <<>>
        BY <3>1, OnlyTodo
      <3>3. Agrees'
        BY <3>1 DEF Agrees
      <3> QED BY <1>1, <3>1, <3>2, <3>3 DEF IdentityInv, CliOK
    <2> QED BY <2>3, <2>4, <2>5, <2>6 DEF Connected
  <1> QED BY <1>2, <1>3 DEF IdentityInv, CliOK

\* The steps of a form.
LEMMA FormShapes ==
  ASSUME FormOK
  PROVE  \E s, rest :
           /\ cli.todo = <<s>> \o rest /\ cli.todo # <<>> /\ Head(cli.todo) = s /\ Tail(cli.todo) = rest
           /\ \/ \E identity \in {Bot, User} :
                   \/ Agrees /\ s = applyIdentity(identity, Refusal) /\ \E old : rest = <<Writes(identity, Undo(old)), End(identity)>>
                   \/ /\ \E undo : s = Writes(identity, undo) /\ (undo = Refusal \/ \E old : undo = Undo(old))
                      /\ rest = <<End(identity)>>
                      /\ Untroubled /\ counts.starts > 0 /\ target # <<>> => target[1].policy = identity
                   \/ Agrees /\ s = End(identity) /\ rest = <<>> /\ saved.preset = identity /\ saved.manual
              \/ counts.faults > 0 /\ \E identity : s = applyIdentity(identity, <<>>) /\ rest = Refusal
              \/ Agrees /\ s = End("refused") /\ rest = <<>>
  <1>1. ASSUME NEW identity \in {Bot, User}, Agrees, Applies(identity)
        PROVE  \E s, rest :
                 /\ cli.todo = <<s>> \o rest /\ cli.todo # <<>> /\ Head(cli.todo) = s /\ Tail(cli.todo) = rest
                 /\ s = applyIdentity(identity, Refusal) /\ \E old : rest = <<Writes(identity, Undo(old)), End(identity)>>
    <2>1. PICK old : cli.todo = <<applyIdentity(identity, Refusal), Writes(identity, Undo(old)), End(identity)>>
      BY <1>1 DEF Applies
    <2>2. PICK a, p, e : a = applyIdentity(identity, Refusal) /\ p = Writes(identity, Undo(old)) /\ e = End(identity)
      OBVIOUS
    <2>3. cli.todo = <<a, p, e>>
      BY <2>1, <2>2
    <2>4. cli.todo = <<a>> \o <<p, e>> /\ cli.todo # <<>> /\ Head(cli.todo) = a /\ Tail(cli.todo) = <<p, e>>
      BY <2>3, ThreeSteps
    <2> QED BY <2>2, <2>4
  <1>2. ASSUME NEW identity \in {Bot, User}, Wrote(identity)
        PROVE  \E s, rest :
                 /\ cli.todo = <<s>> \o rest /\ cli.todo # <<>> /\ Head(cli.todo) = s /\ Tail(cli.todo) = rest
                 /\ \E undo : s = Writes(identity, undo) /\ (undo = Refusal \/ \E old : undo = Undo(old))
                 /\ rest = <<End(identity)>>
    <2>1. PICK undo : cli.todo = <<Writes(identity, undo), End(identity)>> /\ (undo = Refusal \/ \E old : undo = Undo(old))
      BY <1>2 DEF Wrote
    <2>2. PICK p, e : p = Writes(identity, undo) /\ e = End(identity)
      OBVIOUS
    <2>3. cli.todo = <<p, e>>
      BY <2>1, <2>2
    <2>4. cli.todo = <<p>> \o <<e>> /\ cli.todo # <<>> /\ Head(cli.todo) = p /\ Tail(cli.todo) = <<e>>
      BY <2>3, TwoSteps
    <2> QED BY <2>1, <2>2, <2>4
  <1>3. ASSUME NEW e, cli.todo = <<e>>
        PROVE  cli.todo = <<e>> \o <<>> /\ cli.todo # <<>> /\ Head(cli.todo) = e /\ Tail(cli.todo) = <<>>
    BY <1>3
  <1>4. ASSUME NEW identity, cli.todo = Undo(identity)
        PROVE  \E s, rest :
                 /\ cli.todo = <<s>> \o rest /\ cli.todo # <<>> /\ Head(cli.todo) = s /\ Tail(cli.todo) = rest
                 /\ s = applyIdentity(identity, <<>>) /\ rest = Refusal
    <2>1. PICK a, e : a = applyIdentity(identity, <<>>) /\ e = End("refused")
      OBVIOUS
    <2>2. cli.todo = <<a>> \o <<e>> /\ Refusal = <<e>>
      BY <1>4, <2>1 DEF Undo, Refusal
    <2>3. cli.todo = <<a, e>>
      BY <2>2, TwoSteps
    <2>4. cli.todo # <<>> /\ Head(cli.todo) = a /\ Tail(cli.todo) = <<e>>
      BY <2>3
    <2> QED BY <2>1, <2>2, <2>4
  <1>5. CASE \E identity \in {Bot, User} : Agrees /\ Applies(identity)
    BY <1>1, <1>5
  <1>6. CASE \E identity \in {Bot, User} : Wrote(identity)
    BY <1>2, <1>6 DEF Wrote
  <1>7. CASE \E identity \in {Bot, User} : Agrees /\ cli.todo = <<End(identity)>> /\ saved.preset = identity /\ saved.manual
    <2>1. PICK identity \in {Bot, User} : Agrees /\ cli.todo = <<End(identity)>> /\ saved.preset = identity /\ saved.manual
      BY <1>7
    <2>2. PICK e : e = End(identity)
      OBVIOUS
    <2>3. cli.todo = <<e>> \o <<>> /\ cli.todo # <<>> /\ Head(cli.todo) = e /\ Tail(cli.todo) = <<>>
      BY <1>3, <2>1, <2>2
    <2> QED BY <2>1, <2>2, <2>3
  <1>8. CASE counts.faults > 0 /\ \E identity : cli.todo = Undo(identity)
    BY <1>4, <1>8
  <1>9. CASE Agrees /\ cli.todo = Refusal
    BY <1>3, <1>9 DEF Refusal
  <1> QED BY <1>5, <1>6, <1>7, <1>8, <1>9 DEF FormOK

\* A form that is refused, or fails, ends as it began.
LEMMA FormFails == ASSUME IdentityInv, cli.at = "form", FailsToTake PROVE IdentityInv'
  <1>1. FormOK /\ chosen = "none" /\ IdentityTypes
    BY DEF IdentityInv, CliOK
  <1>2. PICK s, rest :
          /\ Head(cli.todo) = s /\ Tail(cli.todo) = rest
          /\ \/ \E identity : s = applyIdentity(identity, Refusal)
             \/ \E identity, undo : s = Writes(identity, undo) /\ (undo = Refusal \/ \E old : undo = Undo(old))
             \/ \E identity : s = End(identity)
             \/ counts.faults > 0 /\ \E identity : s = applyIdentity(identity, <<>>) /\ rest = Refusal
    BY <1>1, FormShapes
  <1>3. FailsOf(s) /\ counts' = [counts EXCEPT !.faults = @ + 1]
    BY <1>2 DEF FailsToTake
  <1>4. Stays /\ UNCHANGED <<saved, chosen, slips>> /\ s.do # "end"
    BY <1>1, <1>3, FailsTarget
  <1>5. /\ counts' = [starts |-> counts'.starts, forms |-> counts'.forms, faults |-> counts'.faults]
        /\ counts'.starts = counts.starts /\ counts'.faults \in Nat /\ counts'.faults > 0
    BY <1>1, <1>3 DEF IdentityTypes
  <1>6. PICK u : u = IF s.instead = <<>> THEN rest ELSE s.instead
    OBVIOUS
  <1>7. Refusal # <<>> /\ \A old : Undo(old) # <<>>
    <2>1. Refusal # <<>>
      BY DEF Refusal
    <2>2. ASSUME NEW old PROVE Undo(old) # <<>>
      <3>1. PICK a, e : a = applyIdentity(old, <<>>) /\ e = End("refused")
        OBVIOUS
      <3>2. Undo(old) = <<a, e>>
        BY <3>1, TwoSteps DEF Undo, Refusal
      <3> QED BY <3>2
    <2> QED BY <2>1, <2>2
  <1>8. u = Refusal \/ \E old : u = Undo(old)
    BY <1>2, <1>4, <1>6, <1>7, StepFields DEF applyIdentity, Writes, End
  <1>9. s.do # "detect"
    BY <1>2, StepFields DEF applyIdentity, Writes, End
  <1>10. cli' = [cli EXCEPT !.todo = u]
    BY <1>2, <1>3, <1>6, <1>9 DEF FailsOf
  <1>11. cli'.at = "form" /\ cli'.todo = u /\ DOMAIN cli' = {"at", "todo"}
    BY <1>1, <1>10 DEF IdentityTypes
  <1>12. Agrees'
    BY <1>5 DEF Agrees, Untroubled
  <1>13. FormOK'
    BY <1>5, <1>8, <1>11, <1>12 DEF FormOK
  <1>14. CliOK' /\ IdentityTypes'
    BY <1>1, <1>4, <1>5, <1>11, <1>13 DEF CliOK, IdentityTypes, Stays
  <1>15. ShownOK' /\ ImportOK' /\ ChoiceOK'
    BY <1>4, <1>5 DEF IdentityInv, ShownOK, ImportOK, ChoiceOK, Stays
  <1> QED BY <1>14, <1>15 DEF IdentityInv

LEMMA FormCannot == ASSUME IdentityInv, cli.at = "form", CannotTake PROVE IdentityInv'
  <1>1. FormOK /\ chosen = "none" /\ IdentityTypes
    BY DEF IdentityInv, CliOK
  <1>2. PICK s, rest :
          /\ Head(cli.todo) = s /\ Tail(cli.todo) = rest
          /\ \/ \E identity : s = applyIdentity(identity, Refusal)
             \/ \E identity, undo : s = Writes(identity, undo)
             \/ \E identity : s = End(identity)
             \/ \E identity : s = applyIdentity(identity, <<>>) /\ rest = Refusal
    BY <1>1, FormShapes
  <1>3. PICK u : u = IF s.instead = <<>> THEN rest ELSE s.instead
    OBVIOUS
  <1>4. /\ s.do \in {"apply", "probe", "ready"} /\ (s.do = "ready" \/ target = <<>>)
        /\ cli' = [cli EXCEPT !.todo = u] /\ UNCHANGED <<target, local, saved, chosen, slips, counts>>
    BY <1>2, <1>3 DEF CannotTake
  <1>5. u = Refusal /\ target = <<>>
    <2>1. Refusal # <<>>
      BY DEF Refusal
    <2> QED BY <1>2, <1>3, <1>4, <2>1, StepFields DEF applyIdentity, Writes, End
  <1>6. IdentityTypes' /\ ShownOK' /\ ImportOK' /\ ChoiceOK' /\ cli'.at = "form" /\ cli'.todo = u
    BY <1>4, OnlyTodo
  <1>7. Agrees'
    BY <1>4, <1>5 DEF Agrees
  <1>8. FormOK'
    BY <1>5, <1>6, <1>7 DEF FormOK
  <1>9. CliOK'
    BY <1>1, <1>4, <1>6, <1>8 DEF CliOK
  <1> QED BY <1>6, <1>9 DEF IdentityInv

LEMMA FormTakes == ASSUME IdentityInv, cli.at = "form", Takes PROVE IdentityInv'
  <1>1. FormOK /\ chosen = "none" /\ IdentityTypes
    BY DEF IdentityInv, CliOK
  <1>2. PICK s, rest :
           /\ Head(cli.todo) = s /\ Tail(cli.todo) = rest
           /\ \/ \E identity \in {Bot, User} :
                   \/ Agrees /\ s = applyIdentity(identity, Refusal) /\ \E old : rest = <<Writes(identity, Undo(old)), End(identity)>>
                   \/ /\ \E undo : s = Writes(identity, undo)
                      /\ rest = <<End(identity)>>
                      /\ Untroubled /\ counts.starts > 0 /\ target # <<>> => target[1].policy = identity
                   \/ Agrees /\ s = End(identity) /\ saved.preset = identity /\ saved.manual
              \/ counts.faults > 0 /\ \E identity : s = applyIdentity(identity, <<>>) /\ rest = Refusal
              \/ Agrees /\ s = End("refused")
    BY <1>1, FormShapes
  <1>3. Succeeds(s)
    BY <1>2 DEF Takes
  <1>4. /\ Stays /\ (s.do \notin {"apply", "bind", "copy"} => target' = target)
        /\ s.do = "apply" => target'[1].policy = s.arg
    BY <1>1, <1>3, SucceedsTarget
  <1>5. /\ s.do = "persist" => saved' = s.arg
        /\ s.do # "persist" => saved' = saved
        /\ slips \subseteq slips'
        /\ counts' = counts
    BY <1>3, SucceedsSaves
  <1>6. Untroubled' => Untroubled
    BY <1>5 DEF Untroubled
  <1>7. ShownOK'
    BY <1>4, <1>5 DEF IdentityInv, ShownOK, Stays
  <1>8. ASSUME s.do = "end" PROVE cli'.at = "rests" /\ DOMAIN cli' = {"at", "todo"}
    <2>1. cli' = [at |-> "rests", todo |-> <<>>]
      BY <1>3, <1>8 DEF Succeeds, Rests
    <2> QED BY <2>1
  <1>9. ASSUME s.do \in {"apply", "persist"} PROVE cli'.at = "form" /\ cli'.todo = rest /\ DOMAIN cli' = {"at", "todo"} /\ chosen' = "none"
    <2>1. cli' = [cli EXCEPT !.todo = rest] /\ chosen' = chosen
      BY <1>2, <1>3, <1>9 DEF Succeeds
    <2> QED BY <1>1, <2>1 DEF IdentityTypes
  <1>10. ASSUME s.do # "persist", cli'.at \in {"rests", "form"}, DOMAIN cli' = {"at", "todo"}
         PROVE  IdentityTypes' /\ ImportOK'
    BY <1>1, <1>4, <1>5, <1>10 DEF IdentityInv, IdentityTypes, ImportOK, Stays
  <1>11. ASSUME NEW identity \in {Bot, User}, s = applyIdentity(identity, Refusal), \E old : rest = <<Writes(identity, Undo(old)), End(identity)>>
         PROVE  IdentityInv'
    <2>1. s.do = "apply" /\ s.arg = identity
      BY <1>11, StepFields DEF applyIdentity
    <2>2. Wrote(identity)'
      BY <1>4, <1>9, <1>11, <2>1 DEF Wrote
    <2>3. CliOK' /\ ChoiceOK'
      BY <1>9, <2>1, <2>2 DEF CliOK, FormOK, ChoiceOK, Bot
    <2> QED BY <1>7, <1>9, <1>10, <2>1, <2>3 DEF IdentityInv
  <1>12. ASSUME NEW identity \in {Bot, User}, NEW undo, s = Writes(identity, undo), rest = <<End(identity)>>,
                Untroubled /\ counts.starts > 0 /\ target # <<>> => target[1].policy = identity
         PROVE  IdentityInv'
    <2>1. PICK arg : arg = Confirms(identity)
      OBVIOUS
    <2>2. arg.preset = identity /\ arg.manual /\ arg.manual \in BOOLEAN /\ arg.status = "not-needed"
      BY <2>1 DEF Confirms
    <2>3. s.do = "persist" /\ s.arg = arg
      BY <1>12, <2>1, StepFields DEF Writes
    <2>4. saved' = arg /\ target' = target
      BY <1>4, <1>5, <2>3
    <2>5. Agrees'
      BY <1>5, <1>6, <1>12, <2>2, <2>4 DEF Agrees
    <2>6. FormOK'
      BY <1>9, <1>12, <2>2, <2>3, <2>4, <2>5 DEF FormOK
    <2>7. CliOK' /\ ChoiceOK' /\ ImportOK'
      BY <1>9, <2>2, <2>3, <2>4, <2>6 DEF CliOK, ChoiceOK, ImportOK, Bot
    <2>8. IdentityTypes'
      BY <1>1, <1>4, <1>5, <1>9, <2>2, <2>3, <2>4 DEF IdentityTypes, Stays
    <2> QED BY <1>7, <2>7, <2>8 DEF IdentityInv
  <1>13. ASSUME NEW identity, s = End(identity), Agrees, identity \in {Bot, User} => saved.preset = identity /\ saved.manual,
                identity \in {Bot, User} \/ identity = "refused"
         PROVE  IdentityInv'
    <2>1. s.do = "end" /\ s.arg = identity
      BY <1>13, StepFields DEF End
    <2>2. saved' = saved /\ target' = target
      BY <1>4, <1>5, <2>1
    <2>3. Agrees'
      BY <1>5, <1>6, <1>13, <2>2 DEF Agrees
    <2>4. chosen' = IF identity # "refused" THEN identity ELSE "none"
      BY <1>1, <1>3, <2>1 DEF Succeeds
    <2>5. CliOK' /\ ChoiceOK'
      BY <1>8, <1>13, <2>1, <2>2, <2>3, <2>4 DEF CliOK, ChoiceOK, Bot, User
    <2> QED BY <1>7, <1>8, <1>10, <2>1, <2>5 DEF IdentityInv
  <1>14. ASSUME NEW identity, s = applyIdentity(identity, <<>>), rest = Refusal, counts.faults > 0 PROVE IdentityInv'
    <2>1. s.do = "apply"
      BY <1>14, StepFields DEF applyIdentity
    <2>2. Agrees'
      BY <1>5, <1>14 DEF Agrees, Untroubled, IdentityTypes, IdentityInv
    <2>3. CliOK' /\ ChoiceOK'
      BY <1>9, <1>14, <2>1, <2>2 DEF CliOK, FormOK, ChoiceOK, Bot
    <2> QED BY <1>7, <1>9, <1>10, <2>1, <2>3 DEF IdentityInv
  <1>15. CASE \E identity \in {Bot, User} :
                Agrees /\ s = applyIdentity(identity, Refusal) /\ \E old : rest = <<Writes(identity, Undo(old)), End(identity)>>
    BY <1>11, <1>15
  <1>16. CASE \E identity \in {Bot, User} :
                /\ \E undo : s = Writes(identity, undo)
                /\ rest = <<End(identity)>>
                /\ Untroubled /\ counts.starts > 0 /\ target # <<>> => target[1].policy = identity
    BY <1>12, <1>16
  <1>17. CASE \E identity \in {Bot, User} : Agrees /\ s = End(identity) /\ saved.preset = identity /\ saved.manual
    BY <1>13, <1>17
  <1>18. CASE Agrees /\ s = End("refused")
    BY <1>13, <1>18 DEF Bot, User
  <1> QED BY <1>2, <1>14, <1>15, <1>16, <1>17, <1>18

\* Every step.
LEMMA IdentityStep == IdentityInv /\ [IdentityNext]_identityVars => IdentityInv'
  <1> SUFFICES ASSUME IdentityInv, [IdentityNext]_identityVars PROVE IdentityInv'
    OBVIOUS
  <1>1. CASE UNCHANGED identityVars
    BY <1>1 DEF identityVars, IdentityInv, IdentityTypes, TargetOK, ShownOK, ImportOK, ChoiceOK, CliOK, Agrees, Untroubled,
                Unshown, Structured, Own, Safe, FormOK, Applies, Wrote
  <1>2. cli.at \in {"rests", "preflight", "connects", "form"}
    BY DEF IdentityInv, IdentityTypes
  <1>3. Connected => cli.at = "connects"
    <2>1. SUFFICES ASSUME Connected, cli.at # "connects" PROVE FALSE
      OBVIOUS
    <2>2. cli.todo = <<>> /\ cli.at \in {"preflight", "form"}
      BY <1>2, <2>1 DEF Connected
    <2>3. CASE cli.at = "preflight"
      BY <2>2, <2>3 DEF IdentityInv, CliOK, Plan, Chain
    <2>4. CASE cli.at = "form"
      BY <2>2, <2>4, FormShapes DEF IdentityInv, CliOK
    <2> QED BY <2>2, <2>3, <2>4
  <1>4. Takes \/ FailsToTake \/ CannotTake => cli.at # "rests"
    BY DEF Takes, FailsToTake, CannotTake
  <1> QED BY <1>1, <1>2, <1>3, <1>4, StartStep, ConfigStep, PreflightTakes, PreflightFails, PreflightCannot, ConnectStep,
             FormTakes, FormFails, FormCannot DEF IdentityNext

LEMMA IdentityBegins == IdentityInit => IdentityInv
  <1> SUFFICES ASSUME IdentityInit PROVE IdentityInv
    OBVIOUS
  <1>1. /\ saved = [preset |-> Bot, status |-> Unset, manual |-> FALSE] /\ chosen = "none" /\ slips = {}
        /\ cli = [at |-> "rests", todo |-> <<>>] /\ counts = [starts |-> 0, forms |-> 0, faults |-> 0]
    BY DEF IdentityInit, Rests
  <1>2. TargetOK
    <2>1. PICK held : held = target
      OBVIOUS
    <2>2. held = <<>> \/ \E x \in [own : BOOLEAN, users : Logins, policy : Policies] : held = <<x>>
      BY <2>1, TargetsAssumption DEF IdentityInit
    <2> QED BY <2>1, <2>2 DEF TargetOK, Private
  <1>3. saved.preset = Bot /\ saved.manual \in BOOLEAN /\ saved.status = Unset
    BY <1>1
  <1>4. cli.at = "rests" /\ DOMAIN cli = {"at", "todo"}
    BY <1>1
  <1>5. counts.starts = 0 /\ counts.faults = 0 /\ counts = [starts |-> counts.starts, forms |-> counts.forms, faults |-> counts.faults]
    BY <1>1
  <1>6. IdentityTypes
    BY <1>2, <1>3, <1>4, <1>5 DEF IdentityTypes
  <1>7. Unset # "imported"
    BY DEF Unset
  <1>8. ShownOK /\ ImportOK /\ ChoiceOK /\ CliOK
    BY <1>1, <1>3, <1>4, <1>5, <1>7 DEF ShownOK, ImportOK, ChoiceOK, CliOK, Agrees, Bot
  <1> QED BY <1>6, <1>8 DEF IdentityInv

\* As long as no command of lark-cli failed, once a start or a form is over lark-cli acts as the
\* profile says, but for a switch that is recorded as one the preflight does not tell; as an imported
\* user only if a login is there, and not as the user after the user chose the bot, but after a new
\* binding has overwritten that choice (larkclipreflight: Run; commands: submitConfig).
THEOREM IdentityIsTold == IdentitySpec => []IdentityHeld
  <1>1. IdentityInv => IdentityHeld
    BY DEF IdentityInv, CliOK, ImportOK, ChoiceOK, IdentityHeld, AtRest, Agrees, Untroubled, Structured, OptOutKept,
           HasLarkCliUserAuth
  <1> QED BY <1>1, IdentityBegins, IdentityStep, PTL DEF IdentitySpec
=============================================================================
