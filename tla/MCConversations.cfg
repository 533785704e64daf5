CONSTANTS
  MaxSent = 3
  Callers = {"h1", "h2"}
  Interactive = {"h1"}
  MaxPids = 3
  MaxCommands = 2
  MaxServiceFaults = 1
  FormsSent <- SettingsFormsSent
  Valid <- SettingsValid
  HasScope = FALSE
  MaxForms = 2
  MaxFormFaults = 2
  Written <- SettingsWritten
  Typed <- SettingsTyped
  MaxSubmits = 2
  Threads = {"h1", "h2"}
  Requests <- CmdRequests
  Accesses <- CmdAccesses
  Owner = "o"
  Global <- CmdGlobal
  KnownChats = {"g", "h"}
  NewChat = "new"
  Bots <- CmdBots
  HasPath = TRUE
  MaxRequests = 3
  MaxCommandFaults = 1
SPECIFICATION ConversationSpec
CHECK_DEADLOCK FALSE
INVARIANTS
  
  
  MessagesHeld
  
