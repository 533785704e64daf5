----------------------------- MODULE AccessPolicy -----------------------------
(***************************************************************************)
(* Who may use the bot, internal/domain/access/access.go.  A decision is   *)
(* its reason; access is a record of the sets users, chats and admins, and *)
(* controls has the owner of the app and the state of its last refresh.    *)
(***************************************************************************)

NoOne == "no one"

IsCreator(controls, sender) ==
  controls.state # "unknown" /\ controls.owner # NoOne /\ controls.owner = sender

CanUseDM(access, controls, sender) ==
  IF IsCreator(controls, sender) THEN "owner"
  ELSE IF sender \in access.users THEN "allowed-user"
  ELSE IF sender \in access.admins THEN "allowed-admin"
  ELSE "denied-user"

CanUseGroup(access, controls, chat, sender) ==
  IF IsCreator(controls, sender) THEN "owner"
  ELSE IF sender \in access.admins THEN "allowed-admin"
  ELSE IF chat \in access.chats THEN "allowed-chat"
  ELSE "denied-chat"

CanRunAdminCommand(access, controls, sender) ==
  IF IsCreator(controls, sender) THEN "owner"
  ELSE IF sender \in access.admins THEN "allowed-admin"
  ELSE "denied-admin"

Permits(decision) == decision \notin {"denied-user", "denied-chat", "denied-admin"}
=============================================================================
