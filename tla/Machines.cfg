SPECIFICATION MCSpec
CONSTANTS
  CycleDays = 7
  MaxDay = 40
  Foci = {"devices", "desktop", "media", "videos", "audit", "crawl", "push", "tools", "usage",
          "report", "access", "chat", "calendar", "schema", "analytics", "routes"}
  Nil = none
  Call = {c1, c2}
  Session = {s1, s2}
  NoSession = none
  MaxRows = 2
  Client = {c1, c2}
  MaxTokens = 3
  File = {s1, s2}
  Remover = {"user"}
  Sweep = {"tick"}
  Conn = {c1, c2}
  Room = 3
  MaxDepth = 1
  Uploader = {"user"}
  Copier = {"tick"}
  Ext = {s1, s2}
  Site = {s1, s2}
  MaxRuns = 3
  Url <- SomeUrls
  Home = "home"
  Loaded <- LoadedAt
  Links <- LinksOf
  Allowed = {"home", "a", "b", "c"}
  Listed <- InSitemap
  Limits = {2, 3, 7}
  Handler = {c1, c2}
  MaxTries = 2
  PushUser = {c1, c2}
  Browser = {s1, s2}
  MaxPushDay = 2
  McpProcess = {c1, c2}
  Missing <- SomeMissing
  ToolRequests <- Switches
  UsageUpload = {"ide", "again", "relay"}
  Turn = {"one", "two"}
  UsageSession = {"session"}
  ReportUrl = {"home", "about"}
  Looks <- SomeLooks
  Probes <- SomeProbes
  Labs <- SomeLabs
  Account = {"root", "ana"}
  Seed = "root"
  Mail = {"mail"}
  AccessProject = {"p", "q"}
  Org = {"o", "other"}
  OrgOf <- Organization
  Bodies <- SomeBodies
  Admin = {c1, c2}
  MaxAccessCalls = 2
  ChatTask = {"task"}
  Writer = {c1, c2}
  MaxChatCalls = 3
  FigureTask = {"task"}
  Starts = {411}
  Pauses = {15}
  Ranges <- CustomRanges
  MaxWrites = 4
  MaxCrossing = 1
  MaxPauses = 1
INVARIANTS DevicesHold  CodeSpentOnce RowLeadsToObject
INVARIANTS SchemaHolds AuditsHold PushHolds UsageCountedOnce OneHandlerEach
INVARIANTS RightsHold ConversationKept
PROPERTIES RevocationHolds EndIsFinal SpaceIsForeseen SwitchesSurvive
SYMMETRY Symmetry
CHECK_DEADLOCK FALSE
