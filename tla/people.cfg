SPECIFICATION SpecMC
CONSTANTS
  Off = Off
  Servers = {s1, s2}
  Second = s2
  Requests = {r1, r2, r3}
  LinkLimit = 1
  MaxTokens = 3
  MaxLinks = 2
  MaxCuts = 1
  PerHour = 2
  Questions = 1
  Tries = 2
  Clients = {"r1", "r2"}
  Providers <- ThreeProviders
  Limit = 1
  Offered <- ThreeModels
  FreeRouter = "free"
  MaxAttempts = 3
  PerMinute = 2
  MaxCalls = 4
  DraftSteps = 2
  Sources = {"site", "shop"}
  OtherSite = "shop"
  Pages = {"home", "more"}
  Home = "home"
  MaxMsgs = 2
  MaxReplies = 1
  MaxDay = 1
  MaxAsks = 3
  MaxOutages = 3
  MaxEdits = 1
  MaxFaults = 1
INVARIANTS
  OldSessionsEnd OneHeir OncePerTurn AllowanceKept ProfileIsCurrent
PROPERTIES
  NeverTalkedOver AskedInTurn
CHECK_DEADLOCK FALSE
