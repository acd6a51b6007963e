------------------------------- MODULE Machines -------------------------------
(***************************************************************************)
(* Machines that share nothing, in one specification: focus says which of  *)
(* them moves, the variables of the others are 0.  Devices are among them. *)
(*                                                                         *)
(* A variable or a constant that several machines declare under one name   *)
(* has the name of its machine in front of it here.                        *)
(***************************************************************************)
EXTENDS DeviceSessions, CycleWindows, Sequences

CONSTANTS
  Foci,   \* the machines that may move
  Nil,   \* no session, no upload, no file, no user
  Client, MaxTokens,                                     \* desktop sign-in
  File, Remover, Sweep, Conn, Room, MaxDepth,            \* media
  Uploader, Copier, Ext,                                 \* videos
  Site, MaxRuns,                                         \* audits
  Url, Home, Loaded, Links, Allowed, Listed, Limits, Handler, MaxTries, \* the crawl
  PushUser, Browser, MaxPushDay,                         \* push reminders
  McpProcess, Missing, ToolRequests,                     \* MCP tools
  UsageUpload, Turn, UsageSession,                       \* usage
  ReportUrl, Looks, Probes, Labs,                        \* the report of an audit
  Account, Seed, Mail, AccessProject, Org, OrgOf, Bodies, Admin, MaxAccessCalls, \* rights
  ChatTask, Writer, MaxChatCalls,                        \* a conversation
  FigureTask, Starts, Pauses, Ranges, MaxWrites, MaxCrossing, MaxPauses \* figures

ASSUME DesktopAssumption == MaxTokens \in Nat
ASSUME MediaAssumption == File \cap (Remover \cup Sweep) = {} /\ Remover \cap Sweep = {}
ASSUME CrawlAssumption ==
  /\ Home \in Url /\ Loaded \in [Url -> Url] /\ Links \in [Url -> SUBSET Url] /\ Listed \in Seq(Url)
  /\ Limits \subseteq Nat /\ IsFiniteSet(Handler) /\ Handler # {}
\* What seo-site-probe.ts and the Lighthouse result give.
ASSUME ReportAssumption ==
  /\ Probes \subseteq [llms : {"unknown", "missing", "found"},
                       variants : {"unknown", "ok", "http bad", "https bad"}]
  /\ Labs \subseteq [speed : {"unknown", "slow", "fast"}, a11y : {"unknown", "low", "medium", "high"}]
ASSUME PushAssumption == Nil \notin PushUser
\* A body gives a value or leaves it out.
ASSUME AccessAssumption ==
  /\ Seed \in Account
  /\ Bodies \subseteq [admin : {<< >>, <<TRUE>>, <<FALSE>>},
                       mail : {<< >>} \cup { <<m>> : m \in Mail \cup {Nil} },
                       projects : {<< >>} \cup { <<P>> : P \in SUBSET AccessProject }]

VARIABLES
  focus,
  desktopRow, issued, stale, desktopPc, token, desktopEnt, desktopDirty, spent,
  mediaKind, mediaRow, mediaObjects, old, doomed, mediaPc, used, mediaGot, copying, lock, waits,
  videoThere, files, videoObjects, videoPc, videoUp, videoEnt, dropped, total, apart,
  sites, busy, auditAsked, siteOf, status, auditPc, auditPages, lighthouse, cut, removed, died,
  maxPages, queue, crawlAsked, tries, handled, crawlPc, req, url, crawlPages, seen,
    adrift, spoilt, barred,
  owner, prefs, pushAt, who, pushEnt, pushTorn, today, lastDayKey, sentToday, tick, dayKey,
    pushLeft, started, told,
  toolRows, toolPc, toolAt, found, before, toolCall,
  sessions, usage, usagePc, dto, inserted,
  look, crawled, listed, blocked, advertised, probe, lab, advised,
  adminSso, accessUp, accessThere, admin, mail, orgs, projects, member, accessCall, accessCalls,
    ever, wanted, accessTorn, clash,
  chatThere, title, messages, refs, chatCall, chatCalls, kept, given, chatAsked, gone,
    chatCrossed,
  clock, task, log, unlogged, flags, filed, figuresEnt, restored, figuresAsked, figuresLeft,
    figuresGot, figuresCrossed, writes, pauses

-----------------------------------------------------------------------------
(* The machines                                                            *)

Desktop == INSTANCE DesktopAuth WITH
  row <- desktopRow, pc <- desktopPc, ent <- desktopEnt, dirty <- desktopDirty
Store == INSTANCE Media WITH
  User <- Remover, Tick <- Sweep, Nothing <- Nil,
  kind <- mediaKind, row <- mediaRow, objects <- mediaObjects, pc <- mediaPc, got <- mediaGot
Clips == INSTANCE Videos WITH
  Request <- Uploader, None <- Nil,
  there <- videoThere, objects <- videoObjects, pc <- videoPc, up <- videoUp, ent <- videoEnt
ASSUME VideoAssumption == Nil \notin (Clips!Kind \X Ext) \cup (Ext \X Clips!Bucket)
Audit == INSTANCE SeoAudit WITH
  asked <- auditAsked, pc <- auditPc, pages <- auditPages
Crawler == INSTANCE SeoCrawl WITH
  asked <- crawlAsked, pc <- crawlPc, pages <- crawlPages
Reminders == INSTANCE Push WITH
  User <- PushUser, Nobody <- Nil, MaxDay <- MaxPushDay,
  at <- pushAt, ent <- pushEnt, torn <- pushTorn, left <- pushLeft
Tools == INSTANCE McpTools WITH
  Process <- McpProcess, Requests <- ToolRequests,
  rows <- toolRows, pc <- toolPc, at <- toolAt, call <- toolCall
Meter == INSTANCE Usage WITH
  Upload <- UsageUpload, Session <- UsageSession, None <- Nil, pc <- usagePc
Report == INSTANCE SeoRules WITH
  Url <- ReportUrl
Rights == INSTANCE Access WITH
  User <- Account, NoMail <- Nil, Project <- AccessProject, Requests <- Bodies, Call <- Admin,
  MaxCalls <- MaxAccessCalls,
  up <- accessUp, there <- accessThere, call <- accessCall, calls <- accessCalls,
  torn <- accessTorn
Chat == INSTANCE Conversations WITH
  Task <- ChatTask, Call <- Writer, MaxCalls <- MaxChatCalls,
  there <- chatThere, call <- chatCall, calls <- chatCalls, asked <- chatAsked,
  crossed <- chatCrossed
Figures == INSTANCE Analytics WITH
  Task <- FigureTask,
  now <- clock, ent <- figuresEnt, asked <- figuresAsked, left <- figuresLeft, got <- figuresGot,
  crossed <- figuresCrossed
\* Times are those of the code, long after 1970; a period does not end before it begins.
ASSUME FiguresAssumption ==
  /\ Starts \subseteq Nat /\ Pauses \subseteq Nat /\ Ranges \subseteq Int \X Int
  /\ \A s \in Starts :
       /\ s >= 90 * Figures!Day
       /\ \A r \in Ranges : r[1] <= r[2] /\ Figures!utcDayStart(s) + r[1] * Figures!Day >= 0

NoDesktop ==
  /\ desktopRow = 0 /\ issued = 0 /\ stale = 0 /\ desktopPc = 0 /\ token = 0
  /\ desktopEnt = 0 /\ desktopDirty = 0 /\ spent = 0
NoStore ==
  /\ mediaKind = 0 /\ mediaRow = 0 /\ mediaObjects = 0 /\ old = 0 /\ doomed = 0
  /\ mediaPc = 0 /\ used = 0 /\ mediaGot = 0 /\ copying = 0 /\ lock = 0 /\ waits = 0
NoClips ==
  /\ videoThere = 0 /\ files = 0 /\ videoObjects = 0 /\ videoPc = 0 /\ videoUp = 0
  /\ videoEnt = 0 /\ dropped = 0 /\ total = 0 /\ apart = 0
NoAudit ==
  /\ sites = 0 /\ busy = 0 /\ auditAsked = 0 /\ siteOf = 0 /\ status = 0 /\ auditPc = 0
  /\ auditPages = 0 /\ lighthouse = 0 /\ cut = 0 /\ removed = 0 /\ died = 0
NoCrawler ==
  /\ maxPages = 0 /\ queue = 0 /\ crawlAsked = 0 /\ tries = 0 /\ handled = 0 /\ crawlPc = 0
  /\ req = 0 /\ url = 0 /\ crawlPages = 0 /\ seen = 0 /\ adrift = 0 /\ spoilt = 0 /\ barred = 0
NoReminders ==
  /\ owner = 0 /\ prefs = 0 /\ pushAt = 0 /\ who = 0 /\ pushEnt = 0 /\ pushTorn = 0 /\ today = 0
  /\ lastDayKey = 0 /\ sentToday = 0 /\ tick = 0 /\ dayKey = 0 /\ pushLeft = 0 /\ started = 0
  /\ told = 0
NoTools ==
  /\ toolRows = 0 /\ toolPc = 0 /\ toolAt = 0 /\ found = 0 /\ before = 0 /\ toolCall = 0
NoMeter == sessions = 0 /\ usage = 0 /\ usagePc = 0 /\ dto = 0 /\ inserted = 0
NoReport ==
  /\ look = 0 /\ crawled = 0 /\ listed = 0 /\ blocked = 0 /\ advertised = 0 /\ probe = 0
  /\ lab = 0 /\ advised = 0
NoRights ==
  /\ adminSso = 0 /\ accessUp = 0 /\ accessThere = 0 /\ admin = 0 /\ mail = 0 /\ orgs = 0
  /\ projects = 0 /\ member = 0 /\ accessCall = 0 /\ accessCalls = 0 /\ ever = 0 /\ wanted = 0
  /\ accessTorn = 0 /\ clash = 0
NoChat ==
  /\ chatThere = 0 /\ title = 0 /\ messages = 0 /\ refs = 0 /\ chatCall = 0 /\ chatCalls = 0
  /\ kept = 0 /\ given = 0 /\ chatAsked = 0 /\ gone = 0 /\ chatCrossed = 0
NoCalendar == created = 0
NoFigures ==
  /\ clock = 0 /\ task = 0 /\ log = 0 /\ unlogged = 0 /\ flags = 0 /\ filed = 0
  /\ figuresEnt = 0 /\ restored = 0 /\ figuresAsked = 0 /\ figuresLeft = 0 /\ figuresGot = 0 /\ figuresCrossed = 0
  /\ writes = 0 /\ pauses = 0

desktopVars == <<desktopRow, issued, stale, desktopPc, token, desktopEnt, desktopDirty, spent>>
mediaVars == <<mediaKind, mediaRow, mediaObjects, old, doomed, mediaPc, used, mediaGot, copying,
  lock, waits>>
videoVars == <<videoThere, files, videoObjects, videoPc, videoUp, videoEnt, dropped, total,
  apart>>
auditVars == <<sites, busy, auditAsked, siteOf, status, auditPc, auditPages, lighthouse, cut,
  removed, died>>
crawlVars == <<maxPages, queue, crawlAsked, tries, handled, crawlPc, req, url, crawlPages,
  seen, adrift, spoilt, barred>>
pushVars == <<owner, prefs, pushAt, who, pushEnt, pushTorn, today, lastDayKey, sentToday, tick,
  dayKey, pushLeft, started, told>>
toolVars == <<toolRows, toolPc, toolAt, found, before, toolCall>>
usageVars == <<sessions, usage, usagePc, dto, inserted>>
reportVars == <<look, crawled, listed, blocked, advertised, probe, lab, advised>>
accessVars == <<adminSso, accessUp, accessThere, admin, mail, orgs, projects, member,
  accessCall, accessCalls, ever, wanted, accessTorn, clash>>
chatVars == <<chatThere, title, messages, refs, chatCall, chatCalls, kept, given, chatAsked,
  gone, chatCrossed>>
calendarVars == <<created, now>>
figuresVars == <<clock, task, log, unlogged, flags, filed, figuresEnt, restored, figuresAsked,
  figuresLeft, figuresGot, figuresCrossed, writes, pauses>>
machineVars ==
  <<focus, vars, desktopVars, mediaVars, videoVars, auditVars, crawlVars, pushVars, toolVars,
    usageVars, reportVars, accessVars, chatVars, calendarVars, figuresVars>>

-----------------------------------------------------------------------------
(* One of them moves                                                       *)

MachinesInit ==
  /\ focus \in Foci
  /\ Init /\ (focus # "devices" => kind = "ide" /\ ~sourced)
  /\ IF focus = "desktop" THEN Desktop!Init ELSE NoDesktop
  /\ IF focus = "media" THEN Store!Init ELSE NoStore
  /\ IF focus = "videos" THEN Clips!Init ELSE NoClips
  /\ IF focus = "audit" THEN Audit!Init ELSE NoAudit
  /\ IF focus = "crawl" THEN Crawler!Init ELSE NoCrawler
  /\ IF focus = "push" THEN Reminders!Init ELSE NoReminders
  /\ IF focus = "tools" THEN Tools!Init ELSE NoTools
  /\ IF focus = "usage" THEN Meter!Init ELSE NoMeter
  /\ IF focus = "report" THEN Report!Init ELSE NoReport
  /\ IF focus = "access" THEN Rights!Init ELSE NoRights
  /\ IF focus = "chat" THEN Chat!Init ELSE NoChat
  /\ Created /\ (focus # "calendar" => NoCalendar)
  /\ IF focus = "analytics" THEN Figures!Init ELSE NoFigures

\* The video stops when calls have overlapped.
MachinesNext ==
  /\ UNCHANGED focus
  /\ IF focus = "devices" THEN Next ELSE UNCHANGED vars
  /\ IF focus = "desktop" THEN Desktop!Next ELSE UNCHANGED desktopVars
  /\ IF focus = "media" THEN Store!Next ELSE UNCHANGED mediaVars
  /\ IF focus = "videos" THEN apart /\ Clips!Next ELSE UNCHANGED videoVars
  /\ IF focus = "audit" THEN Audit!Next ELSE UNCHANGED auditVars
  /\ IF focus = "crawl" THEN Crawler!Next ELSE UNCHANGED crawlVars
  /\ IF focus = "push" THEN Reminders!Next ELSE UNCHANGED pushVars
  /\ IF focus = "tools" THEN Tools!Next ELSE UNCHANGED toolVars
  /\ IF focus = "usage" THEN Meter!Next ELSE UNCHANGED usageVars
  /\ IF focus = "report" THEN Report!Next ELSE UNCHANGED reportVars
  /\ IF focus = "access" THEN Rights!Next ELSE UNCHANGED accessVars
  /\ IF focus = "chat" THEN Chat!Next ELSE UNCHANGED chatVars
  /\ IF focus = "calendar" THEN Pass ELSE UNCHANGED calendarVars
  /\ IF focus = "analytics" THEN Figures!Next ELSE UNCHANGED figuresVars

MachinesSpec == MachinesInit /\ [][MachinesNext]_machineVars

-----------------------------------------------------------------------------
(* Properties of the machines                                              *)

\* auth.service.ts:195-215: a code and a refresh token are good for one exchange.
CodeSpentOnce == focus = "desktop" => Desktop!SpentOnce

\* auth.service.ts:217-231: a session that was ended stays so.
EndIsFinal == [][focus = "desktop" => Desktop!StaysEnded]_machineVars

\* task-evidence.service.ts, evidence-retention-scheduler.service.ts,
\* videos.service.ts:172-268: a row of evidence or of a log, and an entry of a
\* video, lead to an object.
RowLeadsToObject ==
  /\ focus = "media" => Store!ObjectBehindRow
  /\ focus = "videos" => Clips!EntryHasObject

\* videos.service.ts:310-327: the space that an upload frees is foreseen.
SpaceIsForeseen == [][focus = "videos" => Clips!Foresees]_machineVars

\* seo-audit.service.ts:48-161, seo-crawl.service.ts:260-333, seo-rules.ts: one
\* audit at a time, and what its run says; a page has one record, and pages that
\* links lead to have one, unless they were refused as not public or failed after
\* they were noted; a page more hides no problem of another, and the advice on the
\* sitemap is not taken back.
AuditsHold ==
  /\ focus = "audit" => Audit!OneAudit
  /\ focus = "crawl" => Crawler!OneRecordEach /\ Crawler!AllowedAreReached
  /\ focus = "report" => Report!NothingHidden /\ Report!AdviceIsFinal

\* users.service.ts, project-access.service.ts: an administrator remains, users
\* have the projects they were given last, and the checks agree with the lists.
RightsHold ==
  focus = "access" => Rights!AdminRemains /\ Rights!AssignedAsWanted /\ Rights!AccessAgrees

\* conversations.service.ts: no message is lost, and a title that the user gave,
\* references and removals stay.
ConversationKept == focus = "chat" => Chat!MessagesKept /\ Chat!OneCallAtATime

\* push.service.ts, push-due-today.scheduler.ts: who has a subscription has
\* opted in, and is told of a day's tasks once.
PushHolds == focus = "push" => Reminders!SubscribedIsOptedIn /\ Reminders!ToldOnceADay

\* mcp-tools.service.ts: switches survive restarts, and no tool is missed.
SwitchesSurvive == [][focus = "tools" => Tools!ToolsKept]_machineVars

\* control.service.ts:314-355: a turn is counted once.
UsageCountedOnce == focus = "usage" => Meter!TurnCountedOnce

\* board-cycle.util.ts, src/analytics: the windows of a project cover its days,
\* each once; and the figures of a summary agree with each other, but for tasks
\* that the save of an old entity had brought back from an archive.
FiguresHold ==
  /\ focus = "calendar" => WindowsTile
  /\ focus = "analytics" =>
       /\ Figures!TrendAddsUp /\ Figures!CompletedOnce /\ Figures!ArchivedStayEnds
=============================================================================
