------------------------------- MODULE Routes -------------------------------
(* Which method of which controller answers a request: the verb and the path *)
(* that the decorators of every @Controller class give its methods. Nest     *)
(* hands them to Express in the order of the modules' imports and, within a  *)
(* class, of the source; Express takes the first that matches. What a method *)
(* does is the service's, and is modelled with the service.                  *)
EXTENDS Integers, Sequences

\* A parameter of a path, such as :taskId: it stands for any one segment.
Any == ":"

GET(path)    == <<"GET", path>>
POST(path)   == <<"POST", path>>
PUT(path)    == <<"PUT", path>>
PATCH(path)  == <<"PATCH", path>>
DELETE(path) == <<"DELETE", path>>

\* The methods of a class, below the path of its decorator.
Under(prefix, methods) ==
  [m \in DOMAIN methods |-> <<methods[m][1], prefix \o methods[m][2]>>]

Project     == <<"organizations", Any, "projects", Any>>
ProjectTask == Project \o <<"tasks", Any>>
-----------------------------------------------------------------------------
(* The controllers                                                         *)

AnalyticsController == Under(<<"analytics">>, [
  getSummary |-> GET(<<"summary">>), listBugFlags |-> GET(<<"bug-flags">>),
  getLatestBugFlag |-> GET(<<"bug-flags", "task", Any>>),
  createBugFlag |-> POST(<<"bug-flags">>)])

AuthController == Under(<<"auth">>, [
  login |-> POST(<<"login">>), loginWithGoogle |-> POST(<<"sso", "google">>),
  me |-> GET(<<"me">>), authorizeDesktop |-> POST(<<"desktop", "authorize">>),
  exchangeDesktopCode |-> POST(<<"desktop", "token">>),
  refreshDesktop |-> POST(<<"desktop", "refresh">>),
  revokeDesktop |-> DELETE(<<"desktop", "session">>)])

BoardCyclesController == Under(Project \o <<"board">>, [
  getCurrentCycle |-> GET(<<"cycle", "current">>),
  advanceCycle |-> POST(<<"cycle", "advance">>),
  getHistory |-> GET(<<"cycles", "history">>)])

ChatbotSettingsController == Under(<<"chatbot-settings">>, [
  getSettings |-> GET(<<>>), updateSettings |-> PUT(<<>>),
  getRuntimeSettings |-> GET(<<"runtime">>)])

CloudServers == Under(<<"cloud">>, [
  listServers |-> GET(<<"servers">>), createServer |-> POST(<<"servers">>),
  listContainers |-> GET(<<"servers", Any, "containers">>),
  refreshServer |-> POST(<<"servers", Any, "refresh">>),
  installProxy |-> POST(<<"servers", Any, "proxy">>),
  proxyStatus |-> GET(<<"servers", Any, "proxy">>),
  rollbackProxy |-> POST(<<"servers", Any, "proxy", "rollback">>),
  removePanel |-> DELETE(<<"servers", Any, "panel">>),
  removeServer |-> DELETE(<<"servers", Any>>)])

CloudApps == Under(<<"cloud">>, [
  listApps |-> GET(<<"apps">>), createApp |-> POST(<<"apps">>),
  getApp |-> GET(<<"apps", Any>>), updateApp |-> PATCH(<<"apps", Any>>),
  deleteApp |-> DELETE(<<"apps", Any>>),
  setEnv |-> PUT(<<"apps", Any, "env">>),
  getEnv |-> GET(<<"apps", Any, "env">>),
  deploy |-> POST(<<"apps", Any, "deploy">>),
  rollback |-> POST(<<"apps", Any, "rollback">>),
  restart |-> POST(<<"apps", Any, "restart">>),
  stop |-> POST(<<"apps", Any, "stop">>),
  start |-> POST(<<"apps", Any, "start">>),
  listDeployments |-> GET(<<"apps", Any, "deployments">>),
  appLogs |-> GET(<<"apps", Any, "logs">>),
  appStats |-> GET(<<"apps", Any, "stats">>)])

CloudBuilds == Under(<<"cloud">>, [
  setAppSource |-> PUT(<<"apps", Any, "source">>),
  setBuildPolicy |-> PUT(<<"apps", Any, "build-policy">>),
  setRegistry |-> PUT(<<"apps", Any, "registry">>),
  buildDeploy |-> POST(<<"apps", Any, "build-deploy">>),
  createDeployKey |-> POST(<<"apps", Any, "deploy-key">>),
  setBuildSettings |-> PUT(<<"servers", Any, "build-settings">>),
  setBuildCheckout |-> PUT(<<"servers", Any, "checkouts", Any>>)])

CloudPanels == Under(<<"cloud">>, [
  githubAppStatus |-> GET(<<"github-app">>), listPanels |-> GET(<<"panels">>),
  updatePanel |-> PUT(<<"panels", Any>>),
  listCoolifyApps |-> GET(<<"coolify", "apps">>),
  importCoolifyApp |-> POST(<<"coolify", "apps", Any, "import">>),
  listEasypanelApps |-> GET(<<"easypanel", "apps">>),
  importEasypanelApp |-> POST(<<"easypanel", "apps", Any, Any, "import">>),
  confirmImport |-> POST(<<"apps", Any, "confirm-import">>),
  updateGithubApp |-> PUT(<<"github-app">>),
  getDeployment |-> GET(<<"deployments", Any>>),
  deploymentStream |-> GET(<<"deployments", Any, "stream">>)])

ControlInternalController == Under(<<"internal", "control">>, [
  authenticate |-> POST(<<"machines", "authenticate">>),
  openSession |-> POST(<<"sessions", "open">>),
  touchSession |-> POST(<<"sessions", "touch">>),
  closeSession |-> POST(<<"sessions", "close">>),
  recordToolCall |-> POST(<<"tool-calls">>),
  recordUsage |-> POST(<<"usage">>)])

ControlController == Under(<<>>, [
  listMachines |-> GET(<<"machines">>),
  updateMachine |-> PATCH(<<"machines", Any>>),
  revokeMachine |-> POST(<<"machines", Any, "revoke">>),
  listSessions |-> GET(<<"machines", Any, "sessions">>),
  listToolCalls |-> GET(<<"machines", Any, "tool-calls">>),
  listUsage |-> GET(<<"machines", Any, "usage">>),
  reportUsage |-> POST(<<"usage">>)])

MachineConnectController == Under(<<"auth", "machine">>, [
  authorize |-> POST(<<"authorize">>), token |-> POST(<<"token">>)])

ConversationsController == Under(<<"conversations">>, [
  findAll |-> GET(<<>>), create |-> POST(<<>>), findOne |-> GET(<<Any>>),
  update |-> PATCH(<<Any>>), remove |-> DELETE(<<Any>>),
  addMessage |-> POST(<<Any, "messages">>)])

DeviceControlController == Under(<<"device-control">>, [
  listDevices |-> GET(<<"devices">>),
  audit |-> GET(<<"devices", Any, "audit">>),
  enqueue |-> POST(<<"devices", Any, "commands">>),
  revoke |-> POST(<<"devices", Any, "revoke">>)])

DevicesInternalController == Under(<<"internal", "devices">>, [
  register |-> POST(<<"register">>), heartbeat |-> POST(<<"heartbeat">>),
  openSession |-> POST(<<"sessions", "open">>),
  touchSession |-> POST(<<"sessions", "touch">>),
  closeSession |-> POST(<<"sessions", "close">>),
  appendAudit |-> POST(<<"audit">>), revoke |-> POST(<<"revoke">>)])

DevicesController == Under(<<"devices">>, [
  listDevices |-> GET(<<>>), getDevice |-> GET(<<Any>>),
  updateDevice |-> PATCH(<<Any>>), revokeDevice |-> POST(<<Any, "revoke">>),
  listSessions |-> GET(<<Any, "sessions">>),
  listAudit |-> GET(<<Any, "audit">>)])

DiagramsController == Under(Project \o <<"diagrams">>, [
  findAll |-> GET(<<>>), create |-> POST(<<>>), findOne |-> GET(<<Any>>),
  update |-> PATCH(<<Any>>), remove |-> DELETE(<<Any>>)])

HealthController == Under(<<"health">>, [
  check |-> GET(<<>>)])

\* Mutant: the settings of one tool can be read, by a method that comes first.
McpToolsWithDetail == Under(<<"mcp-tools">>, [
  findAllGrouped |-> GET(<<>>), findOne |-> GET(<<Any>>), findEnabled |-> GET(<<"enabled">>),
  updateMany |-> PATCH(<<>>), updateOne |-> PATCH(<<Any>>)])

McpToolsController == Under(<<"mcp-tools">>, [
  findAllGrouped |-> GET(<<>>), findEnabled |-> GET(<<"enabled">>),
  updateMany |-> PATCH(<<>>), updateOne |-> PATCH(<<Any>>)])

MetricsController == Under(<<"metrics">>, [
  listServers |-> GET(<<"servers">>),
  getServerResources |-> GET(<<"servers", Any, "resources">>),
  getServerSeries |-> GET(<<"servers", Any, "series">>),
  getResourceSeries |-> GET(<<"resources", Any, "series">>),
  listAgentTokens |-> GET(<<"agent-tokens">>),
  createAgentToken |-> POST(<<"agent-tokens">>),
  revokeAgentToken |-> DELETE(<<"agent-tokens", Any>>),
  listAppTokens |-> GET(<<"app-tokens">>),
  createAppToken |-> POST(<<"app-tokens">>),
  revokeAppToken |-> DELETE(<<"app-tokens", Any>>),
  listAppMetrics |-> GET(<<"app-metrics">>),
  getAppSeries |-> GET(<<"app-series">>)])

NameSessionsNames == Under(<<"name-sessions">>, [
  findAll |-> GET(<<>>), create |-> POST(<<>>), findOne |-> GET(<<Any>>),
  update |-> PATCH(<<Any>>), remove |-> DELETE(<<Any>>),
  check |-> POST(<<Any, "check">>),
  checkBatch |-> POST(<<Any, "check-batch">>),
  checkHandles |-> POST(<<Any, "check-handles">>),
  checkHistory |-> POST(<<Any, "check-history">>),
  addCandidates |-> POST(<<Any, "candidates">>),
  upsertCandidateRating |-> PUT(<<Any, "candidates", Any, "rating">>),
  setCandidateReaction |-> PUT(<<Any, "candidates", Any, "reaction">>),
  setCandidateFavorite |-> PUT(<<Any, "candidates", Any, "favorite">>)])

NameSessionsRounds == Under(<<"name-sessions">>, [
  startBatch |-> POST(<<Any, "batches">>),
  crownBatchWinner |-> POST(<<Any, "batches", Any, "winner">>),
  setBatchFinalists |-> POST(<<Any, "batches", Any, "finalists">>),
  recommend |-> POST(<<Any, "recommend">>),
  startFeedbackRound |-> POST(<<Any, "feedback-rounds">>),
  upsertFeedback |-> PUT(<<Any, "feedback-rounds", Any, "responses">>),
  closeFeedbackRound |-> POST(<<Any, "feedback-rounds", Any, "close">>)])

ObserverController == Under(<<"observer">>, [
  listServers |-> GET(<<"servers">>),
  listApps |-> GET(<<"servers", Any, "apps">>),
  listSdkApps |-> GET(<<"apps">>), search |-> GET(<<"logs">>),
  tail |-> GET(<<"tail">>), explain |-> POST(<<"explain">>),
  listAgentTokens |-> GET(<<"agent-tokens">>),
  createAgentToken |-> POST(<<"agent-tokens">>),
  revokeAgentToken |-> DELETE(<<"agent-tokens", Any>>),
  listAppTokens |-> GET(<<"app-tokens">>),
  createAppToken |-> POST(<<"app-tokens">>),
  revokeAppToken |-> DELETE(<<"app-tokens", Any>>)])

OrganizationsController == Under(<<"organizations">>, [
  findAll |-> GET(<<>>), create |-> POST(<<>>), findOne |-> GET(<<Any>>),
  update |-> PATCH(<<Any>>), remove |-> DELETE(<<Any>>),
  listActivity |-> GET(<<Any, "activity">>)])

ProjectsController == Under(<<"organizations", Any, "projects">>, [
  findAll |-> GET(<<>>), create |-> POST(<<>>),
  listAssignableUsers |-> GET(<<Any, "assignable-users">>),
  findOne |-> GET(<<Any>>), update |-> PATCH(<<Any>>),
  remove |-> DELETE(<<Any>>)])

PushController == Under(<<"push">>, [
  getVapidPublicKey |-> GET(<<"vapid-public-key">>),
  createSubscription |-> POST(<<"subscriptions">>),
  deleteSubscription |-> DELETE(<<"subscriptions">>),
  getPreferences |-> GET(<<"preferences">>),
  updatePreferences |-> PATCH(<<"preferences">>)])

QaInfoController == Under(Project \o <<"qa-info">>, [
  get |-> GET(<<>>), upsert |-> PUT(<<>>)])

QaQueueController == Under(<<"qa-queue">>, [
  list |-> GET(<<>>), stream |-> GET(<<"stream">>), add |-> POST(<<"items">>),
  remove |-> DELETE(<<"items", Any>>), reorder |-> PATCH(<<>>),
  clear |-> DELETE(<<>>)])

ScopeResolverController == Under(<<"scope">>, [
  resolve |-> GET(<<"resolve">>)])

SeoGscCallbackController == Under(<<"seo">>, [
  callback |-> GET(<<"search-console", "callback">>)])

SeoSettingsController == Under(<<"seo-settings">>, [
  getSettings |-> GET(<<>>), updateSettings |-> PUT(<<>>)])

SeoSites == Under(Project \o <<"seo-sites">>, [
  findAll |-> GET(<<>>), create |-> POST(<<>>), findOne |-> GET(<<Any>>),
  update |-> PATCH(<<Any>>), remove |-> DELETE(<<Any>>),
  enqueueAudit |-> POST(<<Any, "audit">>),
  getLatestAudit |-> GET(<<Any, "audits">>)])

SeoAudits == Under(Project \o <<"seo-sites">>, [
  getAudit |-> GET(<<Any, "audits", Any>>),
  connectSearchConsole |-> POST(<<Any, "search-console", "connect">>),
  fetchKeywords |-> POST(<<Any, "keywords">>),
  getOfferings |-> GET(<<Any, "offerings">>),
  putOfferings |-> PUT(<<Any, "offerings">>)])

StorageController == Under(<<"storage">>, [
  getEvidenceUsage |-> GET(<<"evidence-usage">>)])

TaskEvidenceController == Under(ProjectTask \o <<"evidence">>, [
  list |-> GET(<<>>), upload |-> POST(<<>>),
  download |-> GET(<<Any, "download">>), remove |-> DELETE(<<Any>>)])

TaskLogController == Under(ProjectTask \o <<"logs">>, [
  list |-> GET(<<>>), upload |-> POST(<<>>),
  download |-> GET(<<Any, "download">>), remove |-> DELETE(<<Any>>)])

TasksGlobalController == Under(<<"tasks">>, [
  findAll |-> GET(<<>>), resolve |-> GET(<<"resolve">>)])

ProjectTasksController == Under(Project \o <<"tasks">>, [
  findAll |-> GET(<<>>), create |-> POST(<<>>), findOne |-> GET(<<Any>>),
  update |-> PATCH(<<Any>>), remove |-> DELETE(<<Any>>)])

TaskComments == Under(Project \o <<"tasks">>, [
  findComments |-> GET(<<Any, "comments">>),
  createComment |-> POST(<<Any, "comments">>),
  updateComment |-> PATCH(<<Any, "comments", Any>>),
  deleteComment |-> DELETE(<<Any, "comments", Any>>),
  findHistory |-> GET(<<Any, "history">>)])

UsersController == Under(<<"users">>, [
  findAll |-> GET(<<>>), create |-> POST(<<>>), update |-> PATCH(<<Any>>),
  remove |-> DELETE(<<Any>>)])

VideosController == Under(Project \o <<"videos">>, [
  findAll |-> GET(<<>>), create |-> POST(<<>>), findOne |-> GET(<<Any>>),
  update |-> PATCH(<<Any>>), remove |-> DELETE(<<Any>>),
  uploadFile |-> POST(<<Any, "files", Any>>),
  downloadFile |-> GET(<<Any, "files", Any>>)])

WireframesController == Under(Project \o <<"wireframes">>, [
  findAll |-> GET(<<>>), create |-> POST(<<>>), findOne |-> GET(<<Any>>),
  update |-> PATCH(<<Any>>), remove |-> DELETE(<<Any>>)])
-----------------------------------------------------------------------------
(* Who answers                                                             *)

controllers ==
  << AnalyticsController, AuthController, BoardCyclesController,
     ChatbotSettingsController, CloudServers, CloudApps, CloudBuilds,
     CloudPanels, ControlInternalController, ControlController,
     MachineConnectController, ConversationsController,
     DeviceControlController, DevicesInternalController,
     DevicesController, DiagramsController, HealthController,
     McpToolsController, MetricsController, NameSessionsNames,
     NameSessionsRounds, ObserverController, OrganizationsController,
     ProjectsController, PushController, QaInfoController,
     QaQueueController, ScopeResolverController,
     SeoGscCallbackController, SeoSettingsController, SeoSites,
     SeoAudits, StorageController, TaskEvidenceController,
     TaskLogController, TasksGlobalController, ProjectTasksController,
     TaskComments, UsersController, VideosController,
     WireframesController >>

\* A handler is a method of a class.
Handlers == UNION {{c} \X DOMAIN controllers[c] : c \in DOMAIN controllers}

Verb(h) == controllers[h[1]][h[2]][1]
Path(h) == controllers[h[1]][h[2]][2]

\* Some path matches both.
Meet(p, q) ==
  Len(p) = Len(q) /\ \A i \in DOMAIN p : p[i] = q[i] \/ Any \in {p[i], q[i]}

\* A request has one handler, so that none is hidden behind another, whichever
\* order the modules are imported in: a literal segment such as /enabled is
\* never a value of a parameter beside it.
OneHandler ==
  \A g, h \in Handlers : g # h /\ Verb(g) = Verb(h) => ~ Meet(Path(g), Path(h))
=============================================================================
