------------------------------ MODULE ConfigStore ------------------------------
(***************************************************************************)
(* The reading and writing of config.json, internal/app/configstore, and   *)
(* the evaluation of runs against what was read.  The same record stands   *)
(* for a profile as written by hand and for the one it normalises to, in   *)
(* which no field is left open: an optional field is an empty sequence or  *)
(* that of its value.  Numbers are whole.  What a run may do is that of    *)
(* domain/permissions, capability and runpolicy: a permission is a pair of *)
(* access modes with an override for Claude, and a run gets the smallest   *)
(* of what its profile asks for, what the profile may have and what the    *)
(* agent can do.  A field that a configuration leaves out is Unset.        *)
(***************************************************************************)
EXTENDS AccessPolicy, Integers, Sequences

CONSTANTS Files,     \* configurations as found on disk
          Options,   \* profile and active profile asked for, and the agent of a migration
          Requests,  \* what runs are evaluated on
          DefaultMax \* attachments a run may have where the profile does not say

ProfileFields == {"version", "agent", "app", "secrets", "reply", "mention", "users", "chats", "admins", "requireMention",
                  "workspace", "sandbox", "permissions", "codex", "attachments", "larkCli"}
RootFields == {"kind", "active", "secrets", "migrated", "extra", "profiles"}
IsProfile(p) == p = [field \in ProfileFields |-> p[field]] /\ p.attachments \in Int
IsRoot(r) == r = [field \in RootFields |-> r[field]] /\ r.kind = "root"
             /\ r.profiles = [name \in DOMAIN r.profiles |-> r.profiles[name]]

\* A file has these fields, and a run may have attachments.
ASSUME FilesAssumption ==
  \A config \in Files :
    IF config.kind = "root" THEN IsRoot(config) /\ (\A name \in DOMAIN config.profiles : IsProfile(config.profiles[name]))
    ELSE config.kind = "legacy" /\ IsProfile(config.profile)
ASSUME RequestsAssumption == \A request \in Requests : {"permitted", "sender"} \subseteq DOMAIN request
ASSUME MaxAssumption == DefaultMax \in Int /\ DefaultMax > 0

VARIABLES file,     \* config.json
          options,  \* how it is loaded
          loaded,   \* the last configuration loaded, or the reason it was refused
          earlier,  \* what was loaded before it was saved
          allowed   \* what the last evaluation said
configVars == <<file, options, loaded, earlier, allowed>>

Unset == "unset"
NoText == ""
Invalid == "invalid"

Rank == [readonly |-> 0, workspace |-> 1, full |-> 2]
IsAccessMode(mode) == mode \in DOMAIN Rank
Within(mode, limit) == Rank[mode] <= Rank[limit]
Lower(a, b) == IF Within(a, b) THEN a ELSE b

claudePermissionAccess ==
  [plan |-> "readonly", default |-> "workspace", acceptEdits |-> "workspace", bypassPermissions |-> "full"]

SandboxOf == [readonly |-> "read-only", workspace |-> "workspace-write", full |-> "danger-full-access"]
Sandboxes == {SandboxOf[m] : m \in DOMAIN Rank}
CodexSandboxToAccess(sandbox) == CHOOSE m \in DOMAIN Rank : SandboxOf[m] = sandbox

\* The first of two spellings of a field that is there.
OneOf(first, second, otherwise) ==
  IF first # Unset THEN first ELSE IF second # Unset THEN second ELSE otherwise

Pair(default, max, claude) ==
  IF IsAccessMode(default) /\ IsAccessMode(max) /\ Within(default, max)
  THEN [default |-> default, max |-> max, claude |-> claude]
  ELSE [default |-> Invalid, max |-> Invalid, claude |-> Invalid]
Refused == Pair(Invalid, Invalid, Unset)

normalizeLegacySandbox(sandbox) ==
  LET max == OneOf(sandbox.max, sandbox.maxMode, "danger-full-access")
      default == OneOf(sandbox.default, sandbox.defaultMode, max)
  IN IF {max, default} \subseteq Sandboxes
     THEN Pair(CodexSandboxToAccess(default), CodexSandboxToAccess(max), Unset) ELSE Refused

\* Mutant of normalizeCanonical: the Claude override is not held against the maximum.
normalizeCanonicalLoose(given, base) ==
  LET max == OneOf(given.max, Unset, base.max)
  IN IF IsAccessMode(max) THEN Pair(IF given.default # Unset THEN given.default ELSE Lower(base.default, max), max, given.claude)
     ELSE Refused

normalizeCanonical(given, base) ==
  LET max == OneOf(given.max, Unset, base.max)
      default == IF given.default # Unset \/ ~IsAccessMode(max) THEN given.default ELSE Lower(base.default, max)
      override == given.claude
  IN IF /\ IsAccessMode(max)
        /\ override = Unset \/ (override \in DOMAIN claudePermissionAccess /\ Within(claudePermissionAccess[override], max))
     THEN Pair(default, max, override) ELSE Refused

\* A profile that says nothing has full access.  An old sandbox is the base that the
\* permissions of the profile are read against; with none of their fields given it stays.
NoSandbox == [max |-> Unset, maxMode |-> Unset, default |-> Unset, defaultMode |-> Unset]
NormalizePermissions(given, sandbox) ==
  LET base == IF sandbox = NoSandbox THEN Pair("full", "full", Unset) ELSE normalizeLegacySandbox(sandbox)
  IN IF base = Refused THEN base ELSE normalizeCanonical(given, base)

\* Mutant of ClampAccess: what the agent can do is left out.
ClampToProfile(default, profileMax, capabilityMax) == Lower(default, profileMax)

ClampAccess(default, profileMax, capabilityMax) == Lower(default, Lower(capabilityMax, profileMax))

\* Mutant of AccessToClaudePermissionMode: the override of the profile wins.
OverrideWins(access, override) ==
  IF override \in DOMAIN claudePermissionAccess THEN override
  ELSE [readonly |-> "plan", workspace |-> "acceptEdits", full |-> "bypassPermissions"][access]

AccessToClaudePermissionMode(access, override) ==
  IF override \in DOMAIN claudePermissionAccess /\ Within(claudePermissionAccess[override], access) THEN override
  ELSE [readonly |-> "plan", workspace |-> "acceptEdits", full |-> "bypassPermissions"][access]

Capability(agent, maxAccess) ==
  [agent |-> agent, max |-> IF maxAccess = Unset THEN "full" ELSE maxAccess, nativeHistory |-> agent = "claude",
   prompt |-> IF agent = "claude" THEN "append-system-prompt" ELSE "stdin-prefix"]

\* 0 stands for a preference that is no number.
MaxConcurrentRuns(preference) == IF preference < 1 THEN 10 ELSE IF preference > 50 THEN 50 ELSE preference

\* A digest stands for what it is taken of: two are equal when those are.
AccessPolicyDigest(profile) == <<profile.admins, profile.chats, profile.users, profile.requireMention>>
ResourceScopeDigest(scope) == <<scope.source, scope.chat, scope.thread, scope.comment, {b.id : b \in scope.bindings}>>
PolicyFingerprint(request, profile, sandbox) ==
  [cwd |-> request.cwd, sandbox |-> sandbox, resource |-> ResourceScopeDigest(request.scope),
   access |-> IF request.scope.source = "comment" /\ request.reason = "comment-mention" THEN <<"comment-mention">>
              ELSE AccessPolicyDigest(profile),
   attachments |-> profile.attachments, codexHome |-> OneOf(request.codexHome, profile.codexHome, Unset),
   inherit |-> request.inherit \/ profile.inherit]

\* Evaluate: what the request is refused for, in this order, or what it may do.
Rejection(request) ==
  IF ~request.permitted THEN "access-denied"
  ELSE IF \E b \in request.scope.bindings : b.kind = "folder" /\ ~b.verified THEN "folder-allowlist-unverified"
  ELSE IF \E a \in request.attachments : a.required /\ a.decision # "accepted" THEN "required-attachment-rejected"
  ELSE "none"

Allow(request, profile, capability) ==
  LET access == ClampAccess(profile.default, profile.max, capability.max)
  IN [access |-> access, sandbox |-> SandboxOf[access], mode |-> AccessToClaudePermissionMode(access, profile.claude),
      fingerprint |-> PolicyFingerprint(request, profile, SandboxOf[access]),
      expires |-> request.now + (IF request.ttl <= 0 THEN 5 ELSE request.ttl)]
-----------------------------------------------------------------------------
Or(optional, default) == IF optional = <<>> THEN default ELSE optional[1]
FirstGiven(first, second) == IF first # <<>> THEN first ELSE second
NoPermissions == [default |-> Unset, max |-> Unset, claude |-> Unset]

ImportStatuses == {"not-needed", "imported", "skipped-existing-private-user", "skipped-no-local-user", "failed"}
normalizeLarkCli(given) ==
  LET cli == Or(given, [preset |-> Unset, import |-> Unset])
  IN <<[preset |-> IF cli.preset = "user-default" THEN "user-default" ELSE "bot-only",
        import |-> IF cli.import \in ImportStatuses THEN cli.import ELSE Unset]>>

\* Mutant of normalizeCodex: a codex home that says nothing is not inherited, but it is once it was saved.
normalizeCodexOpen(given) == IF given = <<>> THEN <<>> ELSE <<[given[1] EXCEPT !.home = NoText, !.inherit = <<given[1].home = NoText>>]>>

normalizeCodex(given) ==
  IF given = <<>> THEN <<>>
  ELSE <<[home |-> given[1].home, inherit |-> <<Or(given[1].inherit, TRUE)>>, ignoreRules |-> <<Or(given[1].ignoreRules, TRUE)>>]>>

normalizeProfile(p) ==
  LET permissions == NormalizePermissions(p.permissions, p.sandbox)
  IN IF \/ p.version # 2 \/ p.agent \notin {"claude", "codex"} \/ p.app = NoText
        \/ (p.agent = "codex" /\ p.codex = <<>>) \/ permissions = Refused
     THEN <<>>
     ELSE <<[p EXCEPT !.permissions = permissions, !.sandbox = NoSandbox,
               !.reply = IF @ \in {"card", "markdown", "text"} THEN @ ELSE NoText,
               !.mention = <<>>, !.requireMention = <<Or(FirstGiven(@, p.mention), TRUE)>>,
               !.codex = normalizeCodex(@), !.attachments = IF @ <= 0 THEN DefaultMax ELSE @,
               !.larkCli = normalizeLarkCli(@)]>>

\* One profile that is refused refuses the whole file.
NormalizeRoot(root) ==
  LET profiles == [name \in DOMAIN root.profiles |-> normalizeProfile(root.profiles[name])]
  IN IF \E name \in DOMAIN profiles : profiles[name] = <<>> THEN <<>>
     ELSE <<[root EXCEPT !.profiles = [name \in DOMAIN profiles |-> profiles[name][1]]]>>

\* A file of the first version is one profile, of the name and the agent asked for.
normalizeLegacy(legacy, opts) ==
  LET name == OneOf(opts.profile, opts.active, "claude")
      agent == IF opts.agent = Unset THEN "claude" ELSE opts.agent
      profile == normalizeProfile([legacy.profile EXCEPT !.version = 2, !.agent = agent, !.codex = opts.codex,
                   !.requireMention = legacy.profile.mention, !.permissions = NoPermissions, !.sandbox = NoSandbox,
                   !.attachments = 0, !.larkCli = <<>>])
  IN IF profile = <<>> THEN <<>>
     ELSE <<[kind |-> "root", active |-> name, secrets |-> legacy.secrets, migrated |-> {name}, extra |-> {},
             profiles |-> [n \in {name} |-> profile[1]]]>>

NormalizeRootOrLegacy(config, opts) ==
  IF config.kind = "root" THEN NormalizeRoot(config) ELSE normalizeLegacy(config, opts)

selectProfile(root, opts) == OneOf(opts.profile, opts.active, root.active)

\* The secrets of a profile hide those of the root; they are not merged.
runtimeConfig(root, name) == [profile |-> root.profiles[name], secrets |-> FirstGiven(root.profiles[name].secrets, root.secrets)]

\* Load reads the file active-profile only where no profile is asked for.
LoadOptions(opts) == IF opts.profile = Unset /\ opts.active = Unset THEN [opts EXCEPT !.active = opts.activeFile] ELSE opts
Normalize(config, opts) ==
  LET root == NormalizeRootOrLegacy(config, opts)
  IN IF root = <<>> \/ selectProfile(root[1], opts) \notin DOMAIN root[1].profiles THEN <<>>
     ELSE <<[root |-> root[1], name |-> selectProfile(root[1], opts), runtime |-> runtimeConfig(root[1], selectProfile(root[1], opts))]>>

\* What is written: neither the sandbox nor where the permissions came from, nor a field it does not know.
serializeRootConfig(root) ==
  [root EXCEPT !.extra = {}, !.profiles = [name \in DOMAIN @ |-> [@[name] EXCEPT !.sandbox = NoSandbox]]]

Load ==
  /\ loaded = <<>>
  /\ loaded' = Normalize(file, LoadOptions(options))
  /\ loaded' # <<>>
  /\ UNCHANGED <<file, options, earlier, allowed>>
SaveRoot ==
  /\ loaded # <<>> /\ earlier = <<>>
  /\ file' = serializeRootConfig(loaded[1].root)
  /\ earlier' = loaded /\ loaded' = <<>>
  /\ UNCHANGED <<options, allowed>>

\* A run of the profile that was loaded, by an agent that can do no more than limit.
Policy(profile) ==
  [default |-> profile.permissions.default, max |-> profile.permissions.max, claude |-> profile.permissions.claude,
   users |-> profile.users, chats |-> profile.chats, admins |-> profile.admins,
   requireMention |-> profile.requireMention[1], attachments |-> profile.attachments,
   codexHome |-> IF profile.codex = <<>> THEN Unset ELSE profile.codex[1].home,
   inherit |-> profile.codex # <<>> /\ profile.codex[1].inherit[1]]
Evaluate(given, limit) ==
  /\ loaded # <<>>
  /\ LET profile == loaded[1].runtime.profile
         request == [given EXCEPT !.permitted = Permits(CanUseDM(profile, [owner |-> NoOne, state |-> "unknown"], given.sender))]
     IN allowed' = IF Rejection(request) # "none" THEN <<>>
                   ELSE <<[given |-> Allow(request, Policy(profile), Capability(profile.agent, limit)),
                           limit |-> Capability(profile.agent, limit).max, profile |-> profile, sender |-> request.sender]>>
  /\ UNCHANGED <<file, options, loaded, earlier>>

ConfigInit == file \in Files /\ options \in Options /\ loaded = <<>> /\ earlier = <<>> /\ allowed = <<>>
ConfigNext ==
  \/ Load \/ SaveRoot
  \/ \E given \in Requests, limit \in {Unset, "readonly", "workspace"} : Evaluate(given, limit)
-----------------------------------------------------------------------------
(* A configuration that was loaded and saved reads as it did before: saving *)
(* what a migration or a command made of it changes nothing for a later     *)
(* start, whatever defaults and old spellings it was written with, but for  *)
(* the fields of the root it does not know, which are gone.                 *)
ConfigSettles == loaded # <<>> /\ earlier # <<>> => loaded[1] = [earlier[1] EXCEPT !.root.extra = {}]

(* No run has more than its profile may have and its agent can do, in any   *)
(* of the three ways it is told: the access, the sandbox of codex and the   *)
(* mode of claude.  A file that asks for more is not loaded at all.         *)
RunsWithinPermissions ==
  allowed # <<>> =>
    LET run == allowed[1].given
        profile == allowed[1].profile
    IN /\ Within(run.access, profile.permissions.max) /\ Within(run.access, allowed[1].limit)
       /\ CodexSandboxToAccess(run.sandbox) = run.access
       /\ Within(claudePermissionAccess[run.mode], run.access)
       /\ allowed[1].sender \in profile.users \cup profile.admins

ConfigSpec == ConfigInit /\ [][ConfigNext]_configVars
ConfigHolds == ConfigSettles /\ RunsWithinPermissions
=============================================================================
