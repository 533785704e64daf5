------------------------------- MODULE MCSetup -------------------------------
(***************************************************************************)
(* What surrounds the runs of a bridge, each part on its own: every        *)
(* behaviour is one of the part it begins with, and the other parts stay   *)
(* as they begin.  The coordinators are three processes, two of them of    *)
(* one profile, and two apps, where the calls of the first overlap; the    *)
(* files are those of a home with two profiles, of one in the layout of    *)
(* the first version, and of one whose config.json was deleted; the cards  *)
(* are those of one scope, a form f1 and a stop button s1 of run r1 and a  *)
(* stop button s2 of r2; the keys are those of two profiles, used by two   *)
(* processes; the identity is that of one profile over two starts, and the *)
(* provider is a command that is asked for one secret.                     *)
(***************************************************************************)
EXTENDS CardAuth, RuntimeCoord, Keystore, LarkCliIdentity, TLC

CONSTANTS f1, f2, s1, s2, r1, r2, Parts,
          MaxCalls, MaxFileFaults  \* bounds of the commands on the files, and of their failures and crashes

VARIABLES part,
  home, lock, proc, promised, raced, purged, calls, fileFaults, crashes

OwnRun == [t \in Tokens |-> IF t = s2 THEN r2 ELSE r1]
ClickSymmetry == Permutations(Clicks)

CoordProfile == [c \in Coords |-> IF c = "c2" THEN "p2" ELSE "p1"]
CoordOfThread == [t \in Threads |-> IF t = "t3" THEN "c2" ELSE IF t = "t4" THEN "c3" ELSE "c1"]

Stored(secret) == [secret |-> secret, users |-> {}, identity |-> "bot"]
FileNames == {<<"config">>, <<"active-profile">>, <<"backup">>, <<"marker">>, <<"state">>}
             \cup {<<d, n>> : d \in {"profiles", "trash"}, n \in {"n1", "n2"}}
OnDisk(given) == [f \in FileNames |-> IF f \in DOMAIN given THEN <<given[f]>> ELSE <<>>]
TwoNamed == <<"config">> :> [kind |-> "root", active |-> "n1", profiles |-> "n1" :> Stored("ref") @@ "n2" :> Stored("env")]
            @@ <<"active-profile">> :> "n1" @@ <<"profiles", "n1">> :> {"sessions", "secrets"} @@ <<"profiles", "n2">> :> {}
Legacy == <<"config">> :> [kind |-> "legacy", profile |-> Stored("ref")] @@ <<"state">> :> {"sessions", "secrets"}
Deleted == <<"state">> :> {"sessions"}
Files == INSTANCE ConfigFiles WITH
  Procs <- Clicks, Names <- {"n1", "n2"}, Default <- "n1", Users <- {"u"}, faults <- fileFaults,
  Homes <- {OnDisk(TwoNamed), OnDisk(Legacy), OnDisk(Deleted)}, MaxFaults <- MaxFileFaults, MaxCrashes <- MaxFileFaults
filesVars == <<home, lock, proc, promised, raced, purged, calls, fileFaults, crashes>>

\* Two keystores, of which one may be of another version.
TwoProfiles == <<"n1", "n2">>
TwoStores == {"n1" :> <<>> @@ "n2" :> <<>>,
              "n1" :> <<[version |-> 2, entries |-> "i1" :> [key |-> 1, value |-> "v"]]>> @@ "n2" :> <<>>}
RootsFound == {<<>>, <<[active |-> "n2", profiles |-> TwoProfiles]>>, <<[active |-> "n2", profiles |-> <<"n1">>]>>}
OneVariable == "V" :> "x"

\* Providers: the bridge's own command, another command, and one that may read the variable V.
Bridge == [command |-> "bridge", allowlist |-> {}, value |-> ""]
Configured == [defaults |-> "exec" :> "b",
               named |-> "b" :> Bridge @@ "default" :> [Bridge EXCEPT !.command = "other"]
                         @@ "e" :> [command |-> "", allowlist |-> {"V"}, value |-> "x"]]
Reference(source, provider, id) == [kind |-> "ref", source |-> source, provider |-> provider, id |-> id]
Secrets == {Reference("exec", "", "i2"), Reference("exec", "e", "i2"), Reference("exec", "default", "i2"),
            Reference("env", "e", "V"), Reference("env", "e", "W"), Reference("inline", "e", "i2"), Reference("file", "x", "y"),
            [kind |-> "none"], [kind |-> "plain", value |-> "v"], [kind |-> "template", name |-> "V"]}
SecretInputs == {[secret |-> s, app |-> "i1", providers |-> Configured] : s \in Secrets}

\* The commands that are asked for the secret i, and what they may print.
Ask(name, pass, env, max) == [name |-> name, id |-> "i", pass |-> pass, env |-> env, max |-> max]
Asked == {Ask("", {"A", "E", "Z"}, <<>>, 0), Ask("vault", {"A"}, "S" :> "1" @@ "B" :> "2", 1), Ask("vault", {}, <<>>, 0)}
BridgeEnv == <<<<"A", "1">>, <<"B", "x">>, <<"A", "2">>, <<"E", "">>>>
Piece(size, whole, values, errors) == [size |-> size, whole |-> whole, values |-> values, errors |-> errors]
Printed == {Piece(1, TRUE, "i" :> "v", <<>>), Piece(2, TRUE, "j" :> "w", "i" :> "why"), Piece(1, TRUE, <<>>, "i" :> ""),
            Piece(1, FALSE, <<>>, <<>>)}

AnyTarget == {<<>>} \cup {<<private>> : private \in [own : BOOLEAN, users : Logins, policy : Policies]}
AnyLocal == [own : BOOLEAN, users : Logins, file : BOOLEAN]
-----------------------------------------------------------------------------
setupVars == <<part, vars, coordVars, filesVars, keyVars, identityVars, providerVars>>
SetupInit ==
  /\ part \in Parts /\ Init /\ CoordInit /\ Files!FilesInit /\ KeyInit /\ IdentityInit /\ ProviderInit
  /\ part # "files" => home = OnDisk(Legacy)
  /\ part # "keys" => store["n1"] = <<>>
  /\ part # "identity" => target = <<>> /\ local = [own |-> FALSE, users |-> "none", file |-> FALSE]
SetupNext ==
  /\ UNCHANGED part
  /\ \/ part = "cards" /\ Next /\ UNCHANGED <<coordVars, filesVars, keyVars, identityVars, providerVars>>
     \/ part = "coord" /\ CoordNext /\ UNCHANGED <<vars, filesVars, keyVars, identityVars, providerVars>>
     \/ part = "files" /\ Files!FilesNext /\ UNCHANGED <<vars, coordVars, keyVars, identityVars, providerVars>>
     \/ part = "keys" /\ KeyNext /\ UNCHANGED <<vars, coordVars, filesVars, identityVars, providerVars>>
     \/ part = "identity" /\ IdentityNext /\ UNCHANGED <<vars, coordVars, filesVars, keyVars, providerVars>>
     \/ part = "provider" /\ ProviderNext /\ UNCHANGED <<vars, coordVars, filesVars, keyVars, identityVars>>
SetupSpec == SetupInit /\ [][SetupNext]_setupVars
-----------------------------------------------------------------------------
\* What was promised of the files is on the disk, the home agrees with its root, and the state is in
\* one place; the answers of the commands hold (ConfigFiles).
HomeKept == Files!PromisesKept /\ Files!HomeAgrees /\ Files!StateInOnePlace
AnswersHold == Files!AnswersHold
=============================================================================
