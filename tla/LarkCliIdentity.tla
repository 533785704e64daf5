---------------------------- MODULE LarkCliIdentity ----------------------------
(***************************************************************************)
(* Who lark-cli acts as for a profile: the preflight of a start,           *)
(* internal/app/larkclipreflight, the policy that is applied when the      *)
(* bridge connects, and the identity field of /config.  Each is a sequence *)
(* of commands of lark-cli, which change its private configuration (the    *)
(* target), and of writes of the profile; any of them may fail, and a      *)
(* failure either ends the sequence, puts another in its place or is       *)
(* ignored.                                                                *)
(***************************************************************************)
EXTENDS Naturals, Sequences

CONSTANTS Targets,   \* the target at first: <<>>, or <<what it holds>>
          Locals,    \* the user's own lark-cli: is it of this app, whom it shows, is its file readable
          MaxStarts, MaxForms, MaxCliFaults   \* bounds of starts, of submitted forms and of failing commands

VARIABLES target,    \* <<>> or <<[own, users, policy]>>: of this app or not; its users "none", "structured", or
                     \* "shown", a text made for display; Bot, User, or "mixed", one command of two set
          local,     \* [own, users, file]
          saved,     \* the profile's [preset, status, manual]
          cli,       \* what is going on, and what it has still to do
          chosen,    \* the identity the user chose last, or "none"
          slips,     \* what the preflight did unnoticed: "untold", "forgotten"
          counts     \* [starts, forms, faults]
identityVars == <<target, local, saved, cli, chosen, slips, counts>>

\* A login may be one that is only shown; a policy may be half set.
Logins == {"none", "shown", "structured"}
Policies == {"bot-only", "user-default", "mixed"}
ASSUME TargetsAssumption ==
  Targets \subseteq {<<>>} \cup {<<private>> : private \in [own : BOOLEAN, users : Logins, policy : Policies]}

Bot == "bot-only"
User == "user-default"
HasStructuredLarkCliUserAuth(users) == users = "structured"
HasLarkCliUserAuth(users) == users # "none"
Own == target # <<>> /\ target[1].own
identityPresetForTarget == IF target[1].policy = User THEN User ELSE Bot

Unset == ""   \* what is not said

\* A step of a sequence, with what takes the place of the rest when it fails, if anything does.
Step(do, arg, instead) == [do |-> do, arg |-> arg, instead |-> instead]
applyIdentity(identity, instead) == Step("apply", identity, instead)
persistLarkCliConfig(identity, status) == Step("persist", [preset |-> identity, status |-> status, manual |-> FALSE], <<>>)
KeepManual == Step("persist", [preset |-> Bot, status |-> "not-needed", manual |-> TRUE], <<>>)
End(identity) == Step("end", identity, <<>>)

BackToBot(status) == <<applyIdentity(Bot, <<>>), persistLarkCliConfig(Bot, status), End(Bot)>>

\* Mutant of Imports: that the user is there is not looked at after the switch.
ImportsUnseen ==
  <<Step("copy", Unset, <<>>), applyIdentity(User, BackToBot("failed")), persistLarkCliConfig(User, "imported"), End(User)>>

\* The users of the local lark-cli become those of the target, which is then looked at again.
Imports ==
  <<Step("copy", Unset, <<>>), applyIdentity(User, BackToBot("failed")), Step("ready", Unset, BackToBot("failed")),
    persistLarkCliConfig(User, "imported"), End(User)>>

shouldSkipLocalUserImport == saved.preset = Bot /\ saved.manual
\* What to do knowing the local user: a target of another app is bound first.
importFailureStatus(status) == IF status = "imported" THEN "failed" ELSE status
Rebinds(status) ==
  <<Step("bind", Unset, <<persistLarkCliConfig(Bot, importFailureStatus(status)), End(Bot)>>)>>
  \o (IF status = "imported" THEN Imports ELSE BackToBot(status))
bindNext == IF shouldSkipLocalUserImport THEN Rebinds("not-needed") ELSE <<Step("detect", "bind", <<>>)>>
Probe(identity) == <<Step("probe", identity, <<>>)>> \o bindNext

handleExistingPrivateTarget ==
  IF shouldSkipLocalUserImport
  THEN (IF identityPresetForTarget # Bot THEN <<applyIdentity(Bot, <<>>)>> ELSE <<>>) \o <<KeepManual, End(Bot)>>
  ELSE IF HasStructuredLarkCliUserAuth(target[1].users)
  THEN (IF identityPresetForTarget # User THEN <<applyIdentity(User, BackToBot("failed"))>> ELSE <<>>)
       \o <<persistLarkCliConfig(User, "skipped-existing-private-user")>> \o Probe(identityPresetForTarget)
  ELSE <<Step("detect", "import", <<>>)>>

RunPreflight ==
  IF Own THEN handleExistingPrivateTarget
  ELSE IF shouldSkipLocalUserImport THEN Probe(saved.preset) ELSE bindNext

detectLocalSameAppUser ==
  IF local.own /\ HasLarkCliUserAuth(local.users) /\ (local.file \/ HasStructuredLarkCliUserAuth(local.users))
  THEN "imported" ELSE "skipped-no-local-user"
\* What follows the detection.
Detected(purpose, status) ==
  IF purpose = "bind" THEN Rebinds(status)
  ELSE IF status = "imported" THEN Imports
  ELSE <<persistLarkCliConfig(identityPresetForTarget, status)>> \o Probe(identityPresetForTarget)

Rests == [at |-> "rests", todo |-> <<>>]
Does(at, todo) == cli' = [at |-> at, todo |-> todo]
-----------------------------------------------------------------------------
\* A list of users that is a text is dropped as the target is read.
PreflightStarts ==
  /\ cli.at = "rests" /\ counts.starts < MaxStarts /\ counts' = [counts EXCEPT !.starts = @ + 1]
  /\ target' = IF Own /\ target[1].users = "shown" THEN <<[target[1] EXCEPT !.users = "none"]>> ELSE target
  /\ Does("preflight", RunPreflight)
  /\ slips' = slips \ {"untold"}
  /\ UNCHANGED <<local, saved, chosen>>

submitConfig ==
  /\ cli.at = "rests" /\ counts.forms < MaxForms /\ counts' = [counts EXCEPT !.forms = @ + 1]
  /\ \E identity \in {Bot, User} :
       Does("form", (IF identity # saved.preset THEN <<applyIdentity(identity, <<End("refused")>>)>> ELSE <<>>)
                    \o <<Step("persist", [preset |-> identity, status |-> "not-needed", manual |-> TRUE],
                              (IF identity # saved.preset THEN <<applyIdentity(saved.preset, <<>>)>> ELSE <<>>) \o <<End("refused")>>),
                         End(identity)>>)
  /\ chosen' = "none"
  /\ UNCHANGED <<target, local, saved, slips>>

Succeeds(s) ==
  /\ s.do = "apply" => target # <<>> /\ target' = <<[target[1] EXCEPT !.policy = s.arg]>>
  /\ s.do = "bind" => target' = <<[own |-> TRUE, users |-> IF Own THEN target[1].users ELSE "none", policy |-> Bot]>>
  /\ s.do = "copy" => target' = IF Own /\ ~HasStructuredLarkCliUserAuth(target[1].users)
                                THEN <<[target[1] EXCEPT !.users = "structured"]>> ELSE target
  /\ s.do = "ready" => Own /\ HasLarkCliUserAuth(target[1].users)
  /\ s.do = "probe" => target # <<>>
  /\ s.do \notin {"apply", "bind", "copy"} => UNCHANGED target
  /\ saved' = IF s.do = "persist" THEN s.arg ELSE saved
  /\ slips' = slips \cup {slip \in {"untold"} : s.do = "probe" /\ s.arg # saved.preset}
                   \cup {slip \in {"forgotten"} : s.do = "persist" /\ saved.manual /\ ~s.arg.manual}
  /\ cli' = IF s.do = "end" THEN (IF cli.at = "preflight" THEN [at |-> "connects", todo |-> <<applyIdentity(s.arg, <<>>)>>] ELSE Rests)
            ELSE [cli EXCEPT !.todo = IF s.do = "probe" THEN <<End(s.arg)>>
                                      ELSE IF s.do = "detect" THEN Detected(s.arg, detectLocalSameAppUser) ELSE Tail(@)]
  /\ chosen' = IF s.do = "end" /\ cli.at = "form" /\ s.arg # "refused" THEN s.arg ELSE chosen
  /\ UNCHANGED <<local, counts>>
Takes ==
  /\ cli.at # "rests" /\ cli.todo # <<>>
  /\ Succeeds(Head(cli.todo))
Connected ==
  /\ cli.at # "rests" /\ cli.todo = <<>>
  /\ cli' = Rests
  /\ UNCHANGED <<target, local, saved, chosen, slips, counts>>

\* A command or a write that fails; the policy may be left half set.
FailsOf(s) ==
  /\ s.do # "end"
  /\ target' \in IF s.do = "apply" /\ target # <<>> THEN {target, <<[target[1] EXCEPT !.policy = "mixed"]>>} ELSE {target}
  /\ cli' = [cli EXCEPT !.todo = IF s.do = "detect" THEN Detected(s.arg, "failed") ELSE IF s.instead = <<>> THEN Tail(@) ELSE s.instead]
  /\ UNCHANGED <<local, saved, chosen, slips>>
FailsToTake ==
  /\ cli.at # "rests" /\ cli.todo # <<>> /\ counts.faults < MaxCliFaults /\ counts' = [counts EXCEPT !.faults = @ + 1]
  /\ FailsOf(Head(cli.todo))
\* What cannot succeed as things are.
CannotTake ==
  /\ cli.at # "rests" /\ cli.todo # <<>>
  /\ LET s == Head(cli.todo)
     IN /\ \/ s.do \in {"apply", "probe"} /\ target = <<>>
           \/ s.do = "ready" /\ (~Own \/ ~HasLarkCliUserAuth(target[1].users))
        /\ cli' = [cli EXCEPT !.todo = IF s.instead = <<>> THEN Tail(@) ELSE s.instead]
  /\ UNCHANGED <<target, local, saved, chosen, slips, counts>>

IdentityInit ==
  /\ target \in Targets /\ local \in Locals
  /\ saved = [preset |-> Bot, status |-> Unset, manual |-> FALSE]
  /\ cli = Rests /\ chosen = "none" /\ slips = {} /\ counts = [starts |-> 0, forms |-> 0, faults |-> 0]
IdentityNext == PreflightStarts \/ submitConfig \/ Takes \/ Connected \/ FailsToTake \/ CannotTake
IdentitySpec == IdentityInit /\ [][IdentityNext]_identityVars
-----------------------------------------------------------------------------
\* Once the user has chosen the bot, the profile says so until the user chooses again.
OptOutKept == chosen = Bot => saved.preset = Bot

AtRest == cli.at = "rests" /\ counts.faults = 0 /\ target # <<>>

(* As long as no command failed, lark-cli acts as the profile says once a   *)
(* start or a form is over (but for a switch that the preflight does not    *)
(* tell its caller), as an imported user only if one is there, and never as *)
(* the user after the user chose the bot (but when a new binding has        *)
(* overwritten that this was a choice).                                     *)
IdentityHeld ==
  /\ AtRest /\ "untold" \notin slips /\ counts.starts > 0 => target[1].policy = saved.preset
  /\ saved.status = "imported" => Own /\ HasLarkCliUserAuth(target[1].users)
  /\ OptOutKept \/ "forgotten" \in slips
=============================================================================
