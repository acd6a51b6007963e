# Verification of the ARC Todo API

TLA+ models of the parts of this API in which something can go wrong between
two steps: transactions, rows that are loaded and saved later, schedulers,
retries, restarts, objects in two stores; and of some of its rules, where what
matters is that they agree with one another. TLC checks the models on small
instances; TLAPS proves the central invariants for every instance. The source
lies under `src/src`; PROJECT.json maps each definition to the lines it models.

## The system

A NestJS application over PostgreSQL (TypeORM) with two object stores (MinIO and
Cloudflare R2). One process serves all requests on one event loop, so code
between two awaits is atomic and nothing else is. Five things interact:

- requests, each with its own connection, outside or inside a transaction at
  READ COMMITTED;
- in-process timers, hourly: board cycles, the due-today push, and the retention
  of evidence with the copy to R2;
- in-memory state that a restart forgets: the event-stream subjects of the QA
  queue, the SEO audit slot, who has been told today;
- starting processes, which run the migrations, seed the administrator, the MCP
  tools and the chatbot settings, and of which two may overlap in a deployment;
- other services: the Hub for devices, Google, push endpoints, object stores.

Four facts about the libraries decide most races and are modelled as external
definitions, or in the actions that stand for the call:

- `repository.save(entity)` reads the row again and updates the columns in which
  the entity differs from it. An entity loaded earlier puts back what another
  call has changed in between. A row that no longer exists is inserted again.
- Saving an entity with loaded relations also takes the related rows that were
  not loaded for removed, and sets their foreign key to NULL.
- A `SELECT ... FOR UPDATE` picks its rows by its snapshot, waits for their
  locks, and then evaluates its condition again on the new versions: a row that
  no longer satisfies it disappears from the result.
- A unique index makes an insert wait for an uncommitted rival and then refuse.

### Components

| Component | State | Operations | What is hard | What makes it correct |
| --- | --- | --- | --- | --- |
| Board cycles | cycles, history entries, `tasks.archived_in_cycle_id` | sync on read, advance, hourly tick, bootstrap, purge | concurrent closers, several windows in one transaction, archival in two statements, purge after commit | one timeline without gaps; archived = snapshotted; archival sticks; overdue cycles get closed |
| QA queues | rows with positions, event streams | add, remove, reorder, clear, drop on leaving QA Test | whole-list rewrites from stale reads, unique positions, rows that a deleted task takes along, events after commit | a list per user, of one project; no temporary position visible; left cards gone; streams current |
| Devices, control | machines, sessions, connect codes, usage, audit | register, heartbeat, toggles, revoke, open, touch, close, exchange, upload | stale saves, two openers, a crash between revocation and closing, uploads repeated | one open session; one device per code; what a revocation holds; a turn counted once |
| Tasks | tasks, numbers, history, evidence, logs | create, update (status, parent, project, bug, checklist, assignee), remove, upload | cascades to subtasks, stale saves, moves, numbering | two levels; unique numbers; a parent and its subtasks in one project |
| Name sessions | one JSON row per session (names, batches, rounds, mode, recommended name), ballot rows | add and check names, react, edit the list, start and crown a batch, start and close a round, vote, view | read-modify-write of the row, lists sent back from old views, ballots and views outside the lock | no reaction or batch lost; batch numbers true; one batch and round open; tallies only for those who voted |
| Desktop sign-in | code, refresh tokens, revocation | authorize, exchange, refresh, revoke | rotation under retry, revocation against rotation | a code and a token are used once; an end is final |
| Media storage, videos, evidence | objects in two stores, rows that point to them | upload, remove, retention, copy to R2 | store and database without a common transaction, a lock held by a pooled connection, stale JSON | no row without object; quota respected |
| SEO | sites, runs, pages, reports | enqueue, process, crawl, evaluate | in-memory slot, restart, a site that goes, failures and redirects in a crawl, fifteen rules over pages | one audit at a time; a record per page; the report hides nothing |
| Push | subscriptions, preferences, in-memory set | subscribe, unsubscribe, prefer, due-today tick | restart, midnight, partial failure | nobody told twice; who is subscribed has opted in |
| Conversations | conversation, messages, task references | create, message, update, remove | references replaced without a transaction, stale relations | no message lost; title and references are those of the last update |
| Organizations, projects, users, access | one row each, memberships | create, update, remove, assign, seed | delete-then-insert, rights taken while rights are taken | an administrator remains; assignments as last given; checks agree with lists |
| MCP tools | a catalogue in the source, a row per tool | seed on start, switch, group | two processes seeding, a new release's tools | a switch survives restarts; no tool missed |
| Database | entities, fifty migrations | deploy, revert, interruption | migrations that presuppose others, columns and constraints that the code counts on | the schema serves the entities, however it was reached |
| Routes | the decorators of the controllers | match | methods with overlapping paths | one handler for a request |
| QA profiles, diagrams, wireframes, chatbot settings, user activity | one row each, or a log | read, update | first write twice | one row |
| Analytics | none of its own | summary | queries that see different moments, days and weeks in two reckonings, activities that come late or not at all, stale saves that undo an archival | figures agree with each other; a completed task counts once for each time it was archived; a stay ends with the archival |
| Scope resolver | none | read | matching | equal to a reference |
| Cloud, metrics, observer, device control | none | proxy | failure of the other side | - |

## Modules

| Module | What it is |
| --- | --- |
| `CycleCalendar` | the date arithmetic of `board-cycle.util.ts` |
| `CycleWindows` | a project on the days of that calendar, against reference definitions |
| `BoardCycles` | the cycles of one project under concurrent requests |
| `CycleTimeline` | what they promise, without requests or transactions |
| `QaQueue` | the queue table under concurrent calls |
| `PersonalQueue` | what it promises: a list per user |
| `DeviceSessions` | one device, its sessions and its connect code |
| `Tasks` | the tasks of some projects under concurrent create, update, remove |
| `TaskNumbers` | what the numbers of tasks promise |
| `NameSessions` | one name session, its ballots and its views |
| `DesktopAuth` | a desktop sign-in: its code, its refresh tokens, its end |
| `Media` | evidence and logs: rows, objects in two stores, the quota and its lock, retention |
| `Videos` | one video, whose files are one JSON column, and the copier that rewrites it |
| `Usage` | uploads of token usage, repeated and concurrent |
| `SeoAudit` | the audit slot of a process and the runs of sites |
| `SeoCrawl` | the queue and the records of one crawl |
| `SeoRules` | the rules of the report, over the pages found |
| `Push` | subscriptions, preferences and the due-today tick |
| `Conversations` | one conversation under overlapping calls |
| `Access` | users, rights, assignments, and the seeding of the administrator |
| `McpTools` | the catalogue of MCP tools, the seeding and the switches |
| `Entities`, `Migrations`, `Schema` | the tables that the code uses, what each migration does, and deployments and reverts of them |
| `Analytics` | the summary of a project while its tasks are written |
| `Routes` | verb and path of every method of every controller |
| `Machines` | the modules that share nothing, in one specification |
| `BoardCyclesProofs`, `TasksProofs`, `NameSessionsProofs`, `QaQueueProofs`, `DeviceSessionsProofs` | inductive invariants of these modules and their proofs |
| `MachinesProofs`, `ServicesProofs`, `StoresProofs` | those of the machines: sign-in, usage, conversations, calendar, analytics; push, access, tools; media, videos, audits, crawl, report |
| `MC*` | instances for TLC; `MCMachines` adds the schema and the routes to `Machines`, `MCQaRuns` has two instances of `QaQueue` |

`BoardCycles` uses `CycleCalendar` and implements `CycleTimeline`; `QaQueue`
implements `PersonalQueue`; `Tasks` implements `TaskNumbers`; `Schema` runs
`Migrations` and compares the outcome with `Entities`. The components meet where
the code lets them: task edits in `BoardCycles` and `QaQueue`, evidence and the
removal of a task in `Media`, token usage and the sessions that go in `Usage`.

### BoardCycles

A request is a process: `find` (the locking SELECT), `blocked` (waiting for the
row), `bootstrap`, `locked` (has the active row), `archive` (has read the tasks),
`commit`, `purge`. What it has written is private until `Commit`: `held` is the
committed active row it locked, `cur` the window it has made active, `ents` and
`arch` its history entries and archived tasks. `closeAndAdvanceInTransaction` is
split where another connection can interfere: between the read of the tasks
(`ReadTasks`) and the archival UPDATE (`CloseAndAdvance`). `TasksService.update`
is an editor with load, diff and write. `Fail` stops a request anywhere and rolls
it back. Windows are numbered from the project's creation, and the table is the
number of rows per window and status: rows of one window and status are
interchangeable.

### QaQueue

A call (worker) reads, then writes statement by statement into an overlay
(`wrote`, `mine`); the cells in an overlay are locked. A statement that would
touch a locked row, or collide in a unique index with an uncommitted one, waits;
when it no longer has to, it runs as a whole (PostgreSQL would continue it row by
row, which differs only in what a later part of the same statement sees). Calls
that wait in a circle lose one member to `DeadlockVictim`. `Reply` commits and
`Emit` sends the event, later. The QA Test exit of a task is a call of its own
that reads the affected users first, outside its transaction, as the code does.
It is `update` that drops cards: a status that follows that of the parent, or of a
subtask, drops none (`tasks.service.ts:829-859`), and a card may be queued in any
status (BR-QA-05, `qa-queue.util.ts:31`), so that a queued card need not be in QA
Test. `left` has the rows whose task some `update` has moved out of it.
`RemoveTask` deletes a task: the foreign key takes its rows along
(`qa-queue-item.entity.ts:46`), which leaves gaps between the positions, and nobody
is told (`tasks.service.ts:758`). A save that would put back a row of a deleted task
is refused by the key (`Refused`). `Shows` is what a stream can be held to: the cards
of the queue in their order, among cards of tasks that are gone.
`Alone` says that the instance has one worker: `Serial...` properties are promised
only then, `CommitsWhole` always.

### DeviceSessions

One device of any of the three kinds, any number of calls. A call that saves is
load, `SaveDiff` (TypeORM's SELECT) and `SaveWrite` (its UPDATE). Reasons for
closing a session, names, audit rows and last-seen times are abstracted: no
decision depends on them. Idle time is a set of sessions past their window.

### Tasks

A task is a row (project, parent, number, status, bug flag) or absent; a request
is a record of what it has in memory. `create` checks the parent before its
transaction (`CreateBegin`), locks the project and reads the counter
(`CreateLock`), and commits the counter and the row together or rolls both back.
`update` loads its entity, applies the whole body to it in memory (`Edited`) and
then goes through those stages of `Stages` that touch the database: check the
parent, move the subtasks, send them to todo, save itself, complete them. Each
save is the SELECT that computes the differing columns (`EditRead`) and the
statement that writes them (`EditWrite`). A stage that refuses or fails ends the
request and undoes nothing, as in the code, where these are separate statements.
`remove` deletes the subtasks it has found, then the task, and both cascade.
Statuses between todo and done, assignees, descriptions, history rows and the QA
checklist are left out: no stage depends on them. What `update` does to archival
marks and to the QA queues is in `BoardCycles` and `QaQueue`.

### NameSessions

`row` is the committed session row. A handler under `withSessionLock` is two
steps: `Work` takes the lock, loads the entity and changes it (`ent`), `Save`
writes all of it, commits and answers with a view. The lock is `Free`: no other
call is between those steps. Checks and additions of names answer with the names
alone (`add`). A ballot takes no lock: it reads the session (`Vote`), then finds
and saves one row after the other (`FindBallot`, `PutBallot`); an INSERT refers
to the session row and so waits for its lock. A view reads the session
(`GetView`), then the ballots (`EndView`).

`seen` is the list of names a member was last shown; what `update` is sent is
made from it, however old it is, and merged as `mergeIncomingCandidates` does: a
list of known ids overlays the stored one, any other list replaces it. `shown`
remembers the rounds whose tallies a member has seen. A name has the id it was
given once and a spelling. The probes of `check` come before its lock and decide
nothing here; handles, checks, lanes, shortlist, notes and ratings from 1 to 10
are left out, and a Love counts as a Like.

### DesktopAuth

A call is a process. An exchange and a refresh look at the row first
(`FindCode`, `FindToken`), then again on the locked row (`ExchangeCode`,
`RotateToken`, one step each, since nobody can write the row meanwhile).
`revokeDesktop`, and the sight of a token that was already replaced, save a
loaded entity without a lock: `SaveDiff` and `SaveWrite`. The revocation that
the second look saves is rolled back by the error it throws, so nothing of it is
left. `spent` counts, for the property, how often a token was exchanged.

### Media and Videos

`Media` has one file per upload, of size one. An upload takes the quota lock
(`AskLock`, `GetLock`), sums the bytes, puts the object, inserts the row, and
unlocks; logs go to MinIO without it. `lock` is what PostgreSQL knows: a
connection and how often it has it. The query that asks and the one that
releases each take any idle connection, as the pool gives them. Removal, the
clean-up of a task, the retention of expired files and the copy of old evidence
to R2 are processes of their own, each with what it has loaded in `got`. Any
call to a store may fail. `doomed` are files whose objects a clean-up has set
out to delete before their rows: these may be rows without an object for a while,
or for good when the process ends in between.

`Videos` has one row whose files are one column: an upload, a change of the title
and the copier save all of it. Quota and lock are in `Media`; here an upload
computes what it will free before it puts. `apart` says that no two calls have
overlapped and none has died after it began to change something: `RowLeadsToObject`
and `SpaceIsForeseen` are promised only then, because with overlapping calls an
old column comes back (a hazard in PROJECT.json that the code does not guard
against). The `videos` machine of `machines` therefore moves while `apart` holds.

### Usage

An upload looks for its turn and then inserts, and what the database refuses is
an answer only when it is the unique index of the turn. Devices go meanwhile and
take their sessions along. `TurnCountedOnce` is about what was answered.

### SeoAudit, SeoCrawl, SeoRules

`SeoAudit`: the slot `busy` in memory, the rows of the runs, the removal of a site
with its runs while an audit of it is under way, the restart. What is saved for a
site that has gone ends the process (`died`), because nobody waits for the promise.

`SeoCrawl`: addresses that redirect, handlers that take requests from the
queue, records and seen addresses, retries, the limit on requests and the
limit on pages; what is asked after the crawler library is an external
definition. An address may be refused before it is loaded (it leads to no public
host, which leaves no record, or cannot be loaded), a handler may throw after it has
noted its page (`Throw`), or take longer than its 30 seconds (`TimeOut`): then its
request is tried again while the handler goes on (`adrift`). The next try finds the
page noted and leaves it at that, so a page may stay without a record and its links
unasked: `spoilt` has those pages, `barred` the requests that ended as refused.

`SeoRules`: the fifteen rules as functions from the pages found to issues. A title
is a value that two pages may share, or missing, or of a bad length; a text has
enough words, or few, or was not read by an older audit. The crawl finds one page
after another, and the owner of the site does what the report advises. The
thresholds of the numbers, the order of the report and its wording are left out.

### Push

Requests come one at a time and may die half way; the tick runs between their
statements. `Midnight` and `Restart` may come at any time. `told` counts what a
user was told on a day by ticks that began on it; days on which the process was
started are left out of the promise.

### Conversations

A call is find, then statement by statement what its operation does. `update`
keeps the messages and references it loaded, and `SaveConversation` does what
TypeORM does with rows that were not among them: the column is NOT NULL and the
whole save is refused. So a message that arrives meanwhile is safe; an update
that sends references refuses itself after they are stored.

### Access

A call of an administrator has a body (rights, address, projects, each may be
left out) and goes through the statements of `users.service.ts`. Assignments are
deleted and then inserted, in two steps. Removals of projects and organizations
take what is below them along. `Restart` seeds the administrator again, and `up`
is false when that fails. `wanted`, `torn` and `clash` are for the properties.

### McpTools

The catalogue is there as it is in the source, with its groups and defaults. Two
processes may start at once, with a database that knows the tools of an earlier
release; each reads the rows and inserts what is missing. Administrators send
lists of switches, applied one after the other.

### Entities, Migrations, Schema

A table is its columns (must be given, has a default, may be NULL), its foreign
keys with what a deletion does, its unique keys, and the enumerations of its
columns. `Migrations` has what each migration does, up and down, as statements;
`Schema` executes them as PostgreSQL would, in deployments that bring any number
of migrations in one transaction, in reverts, with processes that die.
`UniqueGuards` are the indexes that the other modules count on.

### Analytics

The tasks of a project are created, moved, edited, flagged, removed and, by a closed
cycle, archived; a change of status that a call asks for is recorded in the activity
log, later or never, and one that follows from a bug flag or from the parent is not.
`getSummary` sends its queries at once, so each sees the rows of a moment of its own
(`Read`, in any order; the last ones at once, since the order does not matter when
no write can come between them). The conditions on the period are applied when the figures
are made, which lets one summary stand for that of every period. Moments are half
days from 1 January 1970, with the weeks of the code (`utcWeekStart`) and those of
PostgreSQL (`date_trunc`, external). `crossed` is what was written between the reads:
without snapshot isolation the total and the trend of created tasks may differ by a
task created in between, and a task that a cycle archives in between may be counted
twice or not at all; the properties allow just these. A call on a task saves either
the row as it is or the entity that it loaded a while ago (`Load`, `ent`): such a
save may take back an archival (finding 2), or insert a removed task again. `restored`
has those tasks. When one is archived once more, it has an entry in two cycles, and
the query of archived tasks, which joins them by the task alone, counts it for each
(`analytics.service.ts:536-549`): `CompletedOnce` allows that for tasks in `restored`,
and `ArchivedStayEnds` is about each of the archivals. Figures per person, of the last
day and week, growth, checklists and the dossiers of bug flags are left out.

### Routes

The methods of the controllers with verb and path, a parameter standing for any
segment. `OneHandler` says that no two of them meet, so that the order of
registration, which follows that of the imports, decides nothing.

## Runs

| Run | Instance | Shows |
| --- | --- | --- |
| `board_cycles` | the tick and one user, one task, one editor, windows of one day, days 0-2, one manual advance, one failure | timeline, exclusion, all-or-nothing archival, refinement of `CycleTimeline`, overdue cycles get closed |
| `board_archive` | two tasks, no failure | finding 1 |
| `board_sticks` | as `board_cycles`, no failure | finding 2 |
| `qa_queues` | `serial`: one worker, two users, three cards of one project and one of another, up to three rows, one exit from QA Test, one deleted task; `race`: two workers, one user, two cards, one exit, one deleted task, one failure | in `serial` no collision, streams, cards that belong, refinement of `PersonalQueue`; in both, what is committed is never half a rewrite (`CommitsWhole`) |
| `qa_leave` | two workers, one user, two cards, one deleted task | finding 3 |
| `tasks` | two tasks, two projects, two creators, an editor, a remover, every field of a body and the pairs that interact | numbers grow and do not return, no cycle of parents, creates end |
| `tasks_levels` | three tasks, one creator, one editor | finding 4 |
| `tasks_counter` | two tasks, two projects, one creator, one editor | finding 5 |
| `names` | a manager and a member, two calls at a time and five begun (four with ballots), two spellings and three ids, batches of one or two names, a round of two, one failure | order of batches and rounds, batch numbers, spellings, reactions, sealed tallies, late ballots |
| `machines` | sixteen machines, see below | one property each, some with several parts |
| `media_quota` | two uploads, two connections, a quota of two files | finding 6 |
| `schema_enums` | all migrations, from any that were run before | finding 7 |

### machines

Modules that share nothing are checked in one run: the initial state chooses the
one that moves (`focus`), so the states add up and do not multiply. `Machines`
declares the variables of all of them, has an INSTANCE of each module and names the
assumptions on their constants; the variables of those that do not move are 0. A
variable or constant that two machines declare under one name has the name of its
machine in front (`desktopPc`, `usagePc`; `McpProcess`, `ChatTask`). Schema and routes
are lists of this program without constants, and are added by `MCMachines`. What is
proved of `MachinesSpec` holds for any sets and bounds; what TLC checks is the instance
below.

| Machine | Instance | Property |
| --- | --- | --- |
| devices | two calls, two sessions, any number of failures | `DevicesHold`: one open session, one device for each code; `RevocationHolds`: a call that begins after a revocation neither lifts it, unless an IDE host pairs again, nor opens a session |
| calendar | windows of 7 days, 40 days, creation on any day of two weeks and more, clocks that step back | `FiguresHold`: the window of a day contains it, bootstrap tiles the past |
| desktop | two calls, three refresh tokens | `CodeSpentOnce`, `EndIsFinal` |
| media | two uploads of either kind, a user, a tick, two connections, room for three | `RowLeadsToObject` |
| videos | a user and a tick, two extensions, the kinds of files of a video | `RowLeadsToObject`, `SpaceIsForeseen` |
| schema | from each of the 50 migrations, or a database of an older program | `SchemaHolds`: no statement refused, entities served, and the same tables whatever the path |
| audit | two sites, three runs | `AuditsHold`: one audit at a time, and a run says what happened |
| crawl | five addresses, of which two redirect to one page and one is disallowed, two handlers that may fail or run out of time anywhere, two tries, limits of 2, 3 and 7 pages | `AuditsHold`: one record per page, and one for each page that links lead to, but for refused addresses and pages whose handler failed |
| report | two addresses, six things a server may give, any sitemap and robots.txt | `AuditsHold`: a further page hides nothing, and the advice on the sitemap is not taken back |
| push | two users, two browsers, two days | `PushHolds`: who is subscribed has opted in, nobody is told twice a day |
| tools | two processes, two tools of a new release | `SwitchesSurvive` |
| usage | three uploads of two turns, one session | `UsageCountedOnce` |
| analytics | one task, four writes from a Saturday on, of which any may be a save of an old entity, a pause of a week, one write between the reads, the presets, all time, four days and eight weeks | `FiguresHold`: trends add up and rows are in the right day or week, a completed task counts once (a restored one for each archival), a stay ends with each archival of its task |
| routes | all controllers (one state) | `OneHandlerEach` |
| access | the seeded administrator and a user, one address, two projects of two organizations, five bodies, two calls | `RightsHold`: an administrator remains, assignments are those given last, checks and lists agree |
| chat | one task, two calls at once, three in all | `ConversationKept` |

Why the bounds are enough: every race in the code is between two calls over one
row set, and each instance has two. Windows of one day with three days give
bootstrap with zero, one and two past windows, a sync that closes two, and an
advance into a window that has not begun. Two cards are what a collision of
positions needs, a third what a change of project needs. Two sessions are what a
late touch needs to meet a newer one. One failure reaches every point of every
call; a second adds none, because a failed call leaves only what was committed.
One deleted task leaves a gap before, between or after the cards of a queue of three,
which a removal or a reorder then rewrites, or before the other card of a queue of two,
to which a third is added. Two of the three cards of one project are interchangeable
(`Symmetry`). Four writes are a
task done, archived, saved from an entity that was loaded before, and archived again.

Two tasks in two projects are what a number needs to be taken, freed by a move or
a removal, and asked for again by a creator that has read an old counter; they
also are what a cycle of parents needs. With two editors at once `Acyclic` does
not hold (each may check the other's task while it is still a root), so the run
has one.

In `names` a behaviour uses one part of the API: mode, rounds, ballots and views;
or names, reactions, edits of the list and recommendations; or names, edits,
batches and winners. The parts that vote or batch begin with two names that all
have seen. Two batches of one name each are what a champion needs to enter a
second batch and what a stamp needs to be taken from the wrong one; an id for a
spelling that is added again is what an old list needs to bring back the first.

Three refresh tokens are what a replaced token needs to be presented while its
successor is replaced. Three runs on two sites are a run that ended, one under
way, and one that is asked for meanwhile. Of the three limits of a crawl one is
met by the start requests, one by a handler while the other is at its page, and
one never. Two pages are what a repeated title needs. Two days are what a tick
needs to run over midnight. In `access` a user may be removed and created by
calls that overlap, but only two in one behaviour: `clash` needs two.

`MaxDay`, `MaxWeek`, `MaxAdvances`, `MaxFails`, `MaxRow`, `MaxLeave`, `MaxGone`,
`MaxFail`, `MaxWrites`, `MaxCrossing`, `MaxPauses`,
`MaxRows`, `Session`, `MaxBatches`, `MaxRounds`, `MaxCalls`, `MaxTokens`,
`MaxDepth`, `MaxRuns` and `MaxTries` (a constant of the crawler) are bounds or
limits; each guards the action that consumes it. In the crawl a handler that was
given up still holds its place in `Handler`, so that at most two run.
In `Tasks` the set `Task` is one: identifiers are not used twice, and `create`
begins only while one is left for it. Deadlock is checked in the runs of
the board cycles and of the QA queues. The tasks stop when every identifier has been used
and removed, a name session when it is removed or its calls are used up; in
`machines` a crawl ends, sessions are closed for good, uploads have been made.

Fairness (`FairSpec` of BoardCycles): statements return, so each request's next
step is weakly fair, and the hourly interval fires again and again, so the
scheduler's `BeginSync` is. Nobody has to call the API, and failures are neither
fair nor unbounded. `OverdueCloses` therefore rests on the tick alone. It needs
no more than weak fairness because the tick is enabled as long as a cycle is
overdue and no other request takes that away except by closing it.

In `Tasks`, a creator in its transaction is weakly fair and one that waits for
the project row strongly fair, because PostgreSQL serves the waiters of a row
lock in turn. Editors and removers never hold that lock and need no fairness.

No other module states fairness: what it promises is safety. An audit need not
end (a restart leaves its run unfinished for ever), a reminder need not come.

## Findings

1. `board_archive`: the archival UPDATE selects done tasks again instead of the
   ones it has snapshotted (`board-cycles.service.ts:350`). A task completed in
   between is hidden from the board and missing from the history.
2. `board_sticks`: an edit that loaded a task before a cycle was closed saves the
   old NULL over `archived_in_cycle_id` (`tasks.service.ts:606`).
3. `qa_leave`: a reorder or removal in flight while a card leaves QA Test writes
   the deleted row again (`qa-queue.service.ts:230`).
4. `tasks_levels`: a task that has subtasks can be made a subtask: the new parent
   is checked, the task's own subtasks are not (`tasks.service.ts:517`).
5. `tasks_counter`: a task moved to another project keeps its number and that
   project's counter stays (`tasks.service.ts:537`). Once the counter reaches the
   number, creating a task there fails, and keeps failing.
6. `media_quota`: the advisory lock of the quota belongs to whichever pooled
   connection served the query (`minio-storage.service.ts:149`). Two uploads that
   get the same one both have it, and go past the quota together.
7. `schema_enums`: no migration adds `assignee` to the enumeration of history
   fields, which the code writes (`task-history-field.enum.ts:7`).

Seen while modelling, and kept in the models as they are, without a run of
their own because no document says otherwise:

- A site that is removed while it is audited ends the process: the audit's last
  save breaks a foreign key in a promise that nobody awaits. A run that a restart
  interrupts stays unfinished for ever.
- An update of a conversation that sends references fails after they are stored,
  and its title is not saved. A removed conversation comes back through a save
  that was under way.
- Two administrators who demote each other at once leave none until the next
  start. The start itself fails when the seeded user has no address and another
  user holds the configured one. Assignments whose insert fails are gone.
- The group `activity` of the MCP tools is missing from the groups of the
  settings page, which therefore neither shows nor counts its tool. A process
  that seeds tools while another does may set back a switch made in between.
- The reverts of two migrations (dropping the project of name sessions, the
  source of a device) can fail on rows that were written since.
- The reminder tick tells users twice when it runs over midnight or the process
  restarts. Usage that names a session without a row is refused each time.
- The report's advice on thin pages, to ask not to be indexed, does not clear
  the finding, because the rule does not look at it.
- A bug flag sends a task, and its subtasks, back to todo without an activity of
  that kind, so the analytics go on counting the time as a stay in the column the
  task was in. Editing a task in Done moves its completion to the present.
  A task that a closing cycle archives while a summary is read may be counted
  twice or not at all, and one that a stale save brought back (finding 2) is counted
  once for each time it was archived.
- Deleting a task sends no queue event: its card stays on open streams until the
  next one. A card whose status changes with that of its parent stays in the queue.
- A page whose handler fails or runs out of time after it was noted gets no record
  and its links are not asked for, since the next try finds it noted
  (`seo-crawl.service.ts:274`, `:319`).
- Removing a user or project takes rows of evidence and videos along by cascade,
  and leaves their objects in the stores.

## Proofs

`BoardCyclesProofs` proves, for any sets of tasks, requests and editors and any
bounds, under `BoardAssumption` and `CycleDaysAssumption`:

- `TypeCorrect`: `Spec => []TypeOK`;
- `TimelineCorrect`: `Spec => []Timeline`;
- `WritersExclude`: `Spec => [](OneWriter /\ ViewHolds)`.

None is inductive alone. `Timeline` is preserved by a commit only because the row
that the transaction locked is still the only active one, or because there still
is none (`ViewHolds`); that view is stable only because no second transaction
can be past the lock (`OneWriter`); and exclusion needs `Timeline`, since two
active rows would have two locks. The proof establishes the conjunction: one
lemma for types, with a step per action; one lemma that a local step of a request
changes nothing another relies on; then a case per action. TLC checks the
conjuncts first, in `board_cycles`.

`TasksProofs` proves, for any sets of tasks, projects and requests and any set of
edits, under `NamesAssumption`:

- `TypeCorrect`: `Spec => []TypeOK`. It needs that a locked creator has read a
  counter and that a save writes columns only of tasks it has an entity for
  (`Consistent`), which the types alone do not say.
- `NumbersImplemented`: `Spec /\ [][CountersGrow]_next => ImplementsNumbers`, with
  any number of managers that save settings. `CountersGrow` says that a step lets no
  counter fall; of the code only a save of project settings can make one fall
  (`projects.service.ts:118` writes back the counter it loaded), and then a number may
  be given again. The invariant says that every number given is behind the counter of
  its project (`Ahead`) and that a creator past the lock holds the project and has its
  current counter (`Held`).

`NameSessionsProofs` proves, for any members, ids, calls and batch and round
sizes, under `SessionAssumption`:

- `TypeCorrect`, `OneOpenCorrect`, `StampsCorrect`: `Spec` implies `[]TypeOK`,
  `[]OneOpen` and `[]StampsTrue`;
- `RecordGrows`: `Spec => BatchesGrow`.

A handler saves its whole entity, so none of these is inductive: the invariant
must speak of what is about to be saved. `Ahead` says that the entity of a call
past the lock follows from the row as it is (it is sound by itself and loses
nothing of the row); this stays true until the save only because no other call
is past the lock (`OneInTx`). `StampsTrue` also needs that the lists members have
been shown, and those of views on their way, have true numbers (`ShownTrue`),
because they come back in a later edit; they stay true because batches only
grow. The proof has a lemma for each thing that may be written (names, batches,
rounds, the pick), one for each handler that its entity follows from the row, and
one for each kind of step. TLC has checked the invariant on the instance of
`names`.

`QaQueueProofs` proves, for any users, any finite set of cards, any projects,
listeners and calls and any bounds, under `QueueAssumption`:

- `TypeCorrect`, `CommitsWholeCorrect`: `Spec` implies `[]TypeOK` and
  `[]CommitsWhole`, with any number of calls at once;
- `SerialNeverCollidesCorrect`, `SerialCardsBelongCorrect`,
  `SerialStreamsAgreeCorrect`, `ImplementsQueuesCorrect`: the properties of one
  call at a time, the refinement of `PersonalQueue` among them.

`CommitsWhole` speaks of the committed table, which only `Reply` and `Clear`
write, so the invariant speaks of what each transaction would commit now,
`See(w)`: it has no two cards of a project in one place (`Orders`), a temporary
position in it belongs to a rewrite whose second save is going to write it
(`Temporary`), and what two transactions have written is disjoint and takes
different places (`Locks`). `Locks` is why a commit of one keeps the view of the
others in order. It rests on a statement running only when it meets no locked cell
and no uncommitted place; without the first conjunct of `Locks` it is not
inductive.

With one call at a time, no task is deleted while a call runs: `Standing` says that
neither the table, as committed or as the call sees it, nor a list to be added has a
card of a deleted task. `Serial` adds what the call has in memory: where it is
(`Course`), that its list fits what it sees (`Fits`), that every queue has one
project and every row one cell, that a row of a card that left is there only while
its removal is under way (`Leavers`), and that a stream is behind only while a
call has an event to send (`Streams`). `Intent` adds what a call has still to do,
compared with the committed table: `Adding` (the new cards come after all others,
or instead of them), `Removing` (one card is gone, from one queue or from all),
`Keeping` (the others are in the order they had) and `Reordering` (the same
cards). The queue is chosen among the sequences that are in the order of the
positions; `OrderOf` shows that there is exactly one (each card at the number of
cards not behind it), so that `WithoutIs` and `OrderIs` can compare the queues of
two tables by their cards and the order of positions alone, and `ReplyImplements`
maps a commit to one operation on lists.

The theorems say `Alone => ...` as the properties do. With two calls at once the
serial properties are false; finding 3 is one way.

`BoardCyclesProofs` proves besides, from `FiledInv`:

- `FiledCorrect`, `PurgesCorrect`, `ClosesCorrect`: `Spec` implies
  `[]FiledUnderClosed`, `PurgesOnlySnapshotted` and `ClosesProperly`;
- `TimelineImplemented`: `Spec => ImplementsTimeline`.

`FiledInv` is the invariant above with what a transaction carries to its commit:
its entries are of windows that it closes (`CarriedBy`), it has moved as far as
the calendar or one advance allows (`PacedBy`), and the entities that edits have
loaded name closed windows (`EntitiesFiled`), since an edit may write them back.

`AcyclicCorrect` of `TasksProofs` is `Spec /\ []Alone => []Acyclic`, for any number of
editors. `Displaces` holds of an edit that has in memory another parent for a task
than the row of the task has, because its body gives one or because it loaded an
older one; `Alone` says that such an edit is the only one under way, while all others
overlap as they may, with creates and removals. The invariant says that every set of
tasks has one whose parent is not in it (`Forest`), that no parent is missing
(`Rooted`), that what an edit is about to save closes no cycle (`Harmless`), whatever
has been created or removed since it loaded, and that edits under way hold each task
with one parent (`Agreed`), because the first save may insert a removed row again that
the second then updates. Without `Alone` it is false: each of two editors may check
the other's task while it is a root. In the run there is one editor.

`NameSessionsProofs` proves besides:

- `UniqueNamesCorrect`, `ReactionsCorrect` from `ListsInv`: the lists that
  members were shown and the entities under way have no spelling twice, and the
  entity of a call differs from the row in the reactions of its caller only;
- `SealedCorrect`, `LateBallotsCorrect` from `BallotsInv`: what a view or a ballot
  loaded is a past of the row, in which its round was open, and batches and
  rounds only grow.

`DeviceSessionsProofs`: `TypeCorrect`; `DevicesCorrect` (`[]DevicesHold`), from
which kinds of device a call may come and that only one call is inside the
exchange of a code (`Origins`); `RevocationCorrect` (`RevocationHolds`), from what
a call that saw the revocation may still have in memory (`Memories`).

The theorems of the machines are about `MachinesSpec`, so that they name the
properties that the run checks. `OneMoves` says that a step of `Machines` is one of the
machine in focus or leaves its variables alone; each machine then has an invariant
(`DesktopIInv`, `UsageIInv`, ...) with a lemma that it holds at first, one that every
step keeps it, and `...Moves`, which says that it holds while the machine is in focus.
They hold for any values of the constants under the assumptions that `Machines` names.

`MachinesProofs`:

- `CodeSpentOnceCorrect`, `EndIsFinalCorrect`. An unlocked save may put a replaced
  token back; the invariant says why this is harmless: such a save ends the session
  too (`DesktopEnds`), and while the session lives its token is the last one made and
  unspent (`DesktopUnspent`).
- `UsageCountedOnceCorrect`, from one row for each turn (the unique index) and
  answers that are true of the rows.
- `ConversationKeptCorrect`. Messages are kept by `ChatStored`, which holds with calls
  that overlap; title and references by `ChatAlone`, which is about what the one call
  has loaded, and holds until two overlap.
- `FiguresHoldCorrect`, in two parts. `PastIsTiled` and `CurrentIs` are about the
  calendar, for every creation day, day and length of a window: the recursive function
  by which bootstrap walks is the sequence of windows (`WalkIs`), these follow each
  other without a gap, and the last one before today's ends the day before it. The
  figures rest on `FigureIInv`: an entity in the hands of a call was a row once
  (`FigureHeld`), an activity has a moment of its own (`FigureOwnMoment`), a task stays
  archived and has one entry unless a save has restored it (`FigureFiledOnce`), and
  reads at different moments differ only by what was crossed (`FigureReadsAgree`).
  That the columns of a trend add up is arithmetic from there: a bucket is a stretch
  of its length (`FigureBucketIs`), the buckets are in step (`FigureBucketsInOrder`), and
  the week of the code (`utcWeekStart`) is that of the database (`date_trunc`,
  `FigureWeekIs`).

`ServicesProofs`:

- `PushHoldsCorrect`: a request that has set the opt-in and is not through is what
  may owe a subscription (`PushOptingIn`); whoever was told today is noted, and the
  note is of today (`PushNoted`).
- `RightsHoldCorrect`: calls that may take rights are about one user, or another
  administrator is there (`AccessAnotherRemains`); and a user without projects is
  one whom a single call is about to give theirs (`AccessAssigned`).
- `SwitchesSurviveCorrect`: rows are only added, and a process has a row for every
  tool up to the place it has come to (`ToolCame`), although others seed with it.

`StoresProofs`:

- `RowLeadsToObjectCorrect`: of evidence, that a file is loaded by a removal or a sweep
  only when its upload is over (`MediaRemovals`), and that a copy is on R2 before the
  row says so and the old object goes after it (`MediaCopies`); of videos, that the
  one call under way has in hand what the row says (`VideoInHand`).
- `SpaceIsForeseenCorrect`, from the same: what was summed before the upload
  (`VideoForecast`) is what the entries make after it, by an account of the kinds of
  files that are renewed.
- `AuditsHoldCorrect`. Audits: the flag is up while one is under way, whose row says
  how far it is (`AuditAlone`, `AuditEntered`). Crawl: a page is noted before it has its
  record, so that two handlers do not both make one (`CrawlOnce`), each handler that
  pushes came while one was missing (`CrawlBounded`), and what was asked for waits, is
  tried, was refused or has led to a noted page (`CrawlFollowed`), and so were the links
  of a page with a record (`CrawlLinksAsked`). A noted page without a record or a
  handler at it is spoilt (`CrawlNoted`), and a handler that was given up is at such a
  page (`CrawlAdrift`). Report: an address that was listed
  on advice is one to be listed (`ReportFollowed`), and each rule, one by one, finds no
  less in more pages.

TLC has checked the invariants on small instances before they were proved, and
again where the proof changed them. One attempt failed for a reason:
`AssignedAsWanted` of `Access` was false with three calls at once, which the run
with two does not have. The deletion by a third call could clear the mark of two
that had overlapped while one of them was still to insert; `torn` now stays as
long as a call is between its two statements. `closedStatusDwells` of `Analytics`
(no tuple pattern in a bound) and `Look` of `McpTools` are put in a form that the
prover reads.

Induction over the naturals is done on sets: `LeastIs` (a set of naturals with a
member has a least one) follows from the library's `NatLessThanWellFounded` and `WFMin`,
and `SetInduction` from it. The library's induction rules, whose parameter is an
operator, are out of the prover's reach.

Only model-checked:

- `SchemaHolds` and `OneHandlerEach`: about one list each (the migrations, the routes)
  without a constant, which TLC goes through as a whole; `Schema` folds over its
  statements.
- Liveness under fairness: `OverdueCloses`, `CreateEnds`.

Every other property of a passing run is a theorem.

## Plan

Modules, the most central first:

1. Pure algorithms against reference definitions: checklists and descriptions of
   tasks, scope matching, acronyms, name scores, analytics per person.
2. The tick of the board cycles over several projects, one of which fails.
3. QA profiles and chatbot settings: two first writes.

Proofs: no safety property of the runs is left without a theorem but the two about
fixed lists. What would be worth proving next are promises that no run states yet: an
abstract specification of the crawl (a set of addresses that only grows) and of a video
(a kind has a file or none), with refinements.

## Not modelled

- Proxies (cloud, metrics, observer, the Hub behind device control): they pass
  calls on and keep nothing; their routes are in `Routes`.
- Analytics per person and of the last day and week: sums over the same rows.
- The scope resolver, acronyms, the helpers that score and spell names,
  checklists and descriptions: pure functions of text (see the plan).
- Comments, dossiers, user activity, audit rows: appended and not read back into
  a decision.
- QA profiles, diagrams, wireframes, chatbot settings: one row each; their tables
  and unique keys are in `Schema`, their routes in `Routes`.
- I/O without state: presigned URLs, downloads, the browser behind the crawler,
  Lighthouse, Search Console, the probe, Google, push endpoints (each fails or
  answers as the models need), and what the chatbot does with a prompt.
- Validation and wording of errors, response shapes, seed values, wiring.
- Check constraints and indexes that are not unique.
