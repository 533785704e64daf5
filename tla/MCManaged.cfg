SPECIFICATION ManagedFairSpec
INVARIANTS
  ConnectionFollows
  HandledWhileOpen
  IntakeHolds
  RepliesHold
  PublishedInOrder
  
  TypingGoesAway
PROPERTY
  RetriedShutdownStops
CONSTANTS
  Hosts = {"h1", "h2"}
  Commands = {"k"}
  Restarts = {"r"}
  Msgs = {"m"}
  MaxDeliveries = 2
  MaxStarts = 2
  MaxChannels = 3
  MaxFaults = 1
  Messages <- SentMessages
  Profiles <- AccessProfiles
  Owners = {"x"}
  Forms = {"f1", "f2"}
  MaxClicks = 2
  MaxProfiles = 1
  Runs <- CotRuns
  UpdateLimit = 2
  Callbacks = {"t1", "t2"}
  MaxCotFailures = 3
  Callers = {"c1", "c2"}
  MaxUpdates = 3
  Files <- FilesFound
  Options <- AskedFor
  Requests <- RunsAsked
  DefaultMax = 20
