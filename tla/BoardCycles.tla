----------------------------- MODULE BoardCycles -----------------------------
(***************************************************************************)
(* The weekly board cycles of one project                                  *)
(* (src/board-cycles/board-cycles.service.ts, its hourly scheduler and the *)
(* part of TasksService.update that races with it).                        *)
(*                                                                         *)
(* Requests run concurrently; the database is PostgreSQL at READ COMMITTED.*)
(* A request's transaction is a sequence of statements.  What it has       *)
(* written is private (held, cur, ents, arch) until Commit.  Days count    *)
(* from the project's creation, so the window numbered w is the w-th one   *)
(* of CycleCalendar; rows of one window and status are interchangeable, so *)
(* the cycle table is the number of rows of each.                          *)
(***************************************************************************)
EXTENDS Integers, FiniteSets

CONSTANTS
  Task,          \* tasks of the project
  NoTask,        \* not one of them
  Request,       \* concurrent callers of BoardCyclesService
  Scheduler,     \* the one that is the hourly tick
  Editor,        \* concurrent calls of TasksService.update
  CycleDays,     \* length of a window, 7 in the source
  MaxDay,        \* bound: the last day of the behaviour
  MaxWeek,       \* bound: the last window number
  MaxAdvances,   \* bound: manual advances asked for
  MaxFails       \* bound: requests that die half way

NoCycle == -1

ASSUME BoardAssumption ==
  /\ CycleDays \in Nat \ {0}
  /\ MaxDay \in Nat
  /\ MaxWeek \in Nat
  /\ MaxAdvances \in Nat
  /\ MaxFails \in Nat
  /\ Scheduler \in Request
  /\ NoTask \notin Task

Calendar == INSTANCE CycleCalendar

Week == 0 .. MaxWeek

VARIABLES
  today,      \* the UTC day
  active,     \* committed board_cycles rows with status active, per window
  closed,     \* committed board_cycles rows with status closed, per window
  history,    \* board_cycle_history_entries, as <<window, task>>
  status,     \* tasks.status
  archivedIn, \* tasks.archived_in_cycle_id
  evidence,   \* tasks that have QA evidence or logs stored
  pc, op,     \* a request: where it is and what it was asked to do
  held,       \* the committed active row its transaction has locked
  cur,        \* the active cycle as its transaction sees it
  cand,       \* the archival candidates it last read
  ents,       \* history entries it has inserted
  arch,       \* tasks it has archived
  epc, eTask, eStatus, eArch, eDirty,  \* an update call and its entity
  advances, fails

boardVars == <<active, closed, history>>
taskVars  == <<status, archivedIn>>
txVars    == <<op, held, cur, cand, ents, arch>>
editVars  == <<epc, eTask, eStatus, eArch, eDirty>>
bounds    == <<advances, fails>>
vars      == <<today, boardVars, taskVars, evidence, pc, txVars, editVars, bounds>>

Status == {"open", "done"}   \* done, or any of the four other statuses
Keep   == "keep"             \* the field is absent from the DTO

InTx == {"locked", "archive", "commit"}
PC   == {"idle", "find", "blocked", "bootstrap", "purge"} \cup InTx

NoArchive == [t \in Task |-> NoCycle]

-----------------------------------------------------------------------------
(* Calendar: the window w of the project, whose creation day is day 0.     *)

EndDate(w)  == Calendar!Window(0, w).endDate
CurrentWeek == Calendar!CycleIndex(0, today)
Ended(w)    == Calendar!isCyclePeriodEnded(EndDate(w), today)

(* The database as a transaction sees it.                                  *)

ActiveWeeks == { w \in Week : active[w] > 0 }

\* Mutant: the SELECT without its lock.
NeverLocked(w) == FALSE

RowLocked(w) == \E q \in Request : pc[q] \in InTx /\ held[q] = w

\* p has inserted an active row that it has not committed.
Inserted(p) == pc[p] \in InTx /\ cur[p] # held[p]

\* Mutant: a plain index instead of the unique one.
NoOtherActive(p) == {}

\* UQ_board_cycles_active_project: the active rows other than the one that
\* p's transaction has locked and is about to close.
OtherActive(p) ==
  { w \in Week : active[w] > (IF w = held[p] THEN 1 ELSE 0) }

selectTasksForArchival(p) ==
  { t \in Task : status[t] = "done" /\ archivedIn[t] = NoCycle /\ arch[p][t] = NoCycle }

-----------------------------------------------------------------------------
Init ==
  /\ today = 0
  /\ active = [w \in Week |-> 0]
  /\ closed = [w \in Week |-> 0]
  /\ history = {}
  /\ status = [t \in Task |-> "open"]
  /\ archivedIn = NoArchive
  /\ evidence = {}
  /\ pc = [p \in Request |-> "idle"]
  /\ op = [p \in Request |-> "sync"]
  /\ held = [p \in Request |-> NoCycle]
  /\ cur = [p \in Request |-> NoCycle]
  /\ cand = [p \in Request |-> {}]
  /\ ents = [p \in Request |-> {}]
  /\ arch = [p \in Request |-> NoArchive]
  /\ epc = [e \in Editor |-> "idle"]
  /\ eTask = [e \in Editor |-> NoTask]
  /\ eStatus = [e \in Editor |-> "open"]
  /\ eArch = [e \in Editor |-> NoCycle]
  /\ eDirty = [e \in Editor |-> {}]
  /\ advances = 0
  /\ fails = 0

Goto(p, to) == pc' = [pc EXCEPT ![p] = to]

\* A request forgets its transaction: its row locks go with it.
EndTx(p, to) ==
  /\ Goto(p, to)
  /\ held' = [held EXCEPT ![p] = NoCycle]
  /\ cur' = [cur EXCEPT ![p] = NoCycle]
  /\ cand' = [cand EXCEPT ![p] = {}]
  /\ arch' = [arch EXCEPT ![p] = NoArchive]

\* Mutant: the ids to purge survive the rollback, as with a finally block.
RollbackThenPurge(p) ==
  /\ EndTx(p, "purge")
  /\ UNCHANGED <<today, boardVars, taskVars, evidence, op, ents, editVars, advances>>

Rollback(p) ==
  /\ EndTx(p, "idle")
  /\ ents' = [ents EXCEPT ![p] = {}]
  /\ op' = [op EXCEPT ![p] = "sync"]
  /\ UNCHANGED <<today, boardVars, taskVars, evidence, editVars, advances>>

-----------------------------------------------------------------------------
(* Requests                                                                *)

\* getCurrentCycle and getHistory sync; so does the tick, but only when its
\* query finds an active cycle that ended.
BeginSync(p) ==
  /\ pc[p] = "idle"
  /\ p = Scheduler => \E w \in ActiveWeeks : Ended(w)
  /\ Goto(p, "find")
  /\ op' = [op EXCEPT ![p] = "sync"]
  /\ UNCHANGED <<today, boardVars, taskVars, evidence, held, cur, cand, ents, arch, editVars, bounds>>

BeginAdvance(p) ==
  /\ pc[p] = "idle"
  /\ p # Scheduler
  /\ advances < MaxAdvances
  /\ advances' = advances + 1
  /\ Goto(p, "find")
  /\ op' = [op EXCEPT ![p] = "advance"]
  /\ UNCHANGED <<today, boardVars, taskVars, evidence, held, cur, cand, ents, arch, editVars, fails>>

\* SELECT ... WHERE status = 'active' FOR UPDATE: the snapshot chooses the
\* row, then the statement waits for whoever has it locked.
FindActive(p) ==
  /\ pc[p] = "find"
  /\ \/ /\ ActiveWeeks = {}
        /\ Goto(p, "bootstrap")
        /\ UNCHANGED <<held, cur>>
     \/ \E w \in ActiveWeeks :
          /\ Goto(p, IF RowLocked(w) THEN "blocked" ELSE "locked")
          /\ held' = [held EXCEPT ![p] = w]
          /\ cur' = [cur EXCEPT ![p] = w]
  /\ UNCHANGED <<today, boardVars, taskVars, evidence, op, cand, ents, arch, editVars, bounds>>

\* The holder is gone: the row is read again and, when it is no longer
\* active, the statement returns nothing at all.
LockGranted(p) ==
  /\ pc[p] = "blocked"
  /\ ~RowLocked(held[p])
  /\ \/ /\ active[held[p]] > 0
        /\ Goto(p, "locked")
        /\ UNCHANGED <<held, cur>>
     \/ /\ active[held[p]] = 0
        /\ Goto(p, "bootstrap")
        /\ held' = [held EXCEPT ![p] = NoCycle]
        /\ cur' = [cur EXCEPT ![p] = NoCycle]
  /\ UNCHANGED <<today, boardVars, taskVars, evidence, op, cand, ents, arch, editVars, bounds>>

\* bootstrapProjectCycles: closed windows up to the current one, which is
\* inserted active.  The insert waits for a transaction that has inserted
\* another active row; see BootstrapRefused for the outcome it fears.
Bootstrap(p) ==
  /\ pc[p] = "bootstrap"
  /\ CurrentWeek \in Week
  /\ \A q \in Request : ~Inserted(q)
  /\ OtherActive(p) = {}
  /\ cur' = [cur EXCEPT ![p] = CurrentWeek]
  /\ Goto(p, IF op[p] = "advance" THEN "locked" ELSE "commit")
  /\ UNCHANGED <<today, boardVars, taskVars, evidence, op, held, cand, ents, arch, editVars, bounds>>

\* The unique index refuses the second active row: the transaction rolls back
\* and the request answers with an error.
BootstrapRefused(p) ==
  /\ pc[p] = "bootstrap"
  /\ OtherActive(p) # {}
  /\ Rollback(p)
  /\ UNCHANGED fails

\* Mutants: a cycle ends on its last day; only a user closes a cycle.
MustCloseOnLastDay(p) == op[p] = "advance" \/ today >= EndDate(cur[p])
MustCloseOnRequest(p) == op[p] = "advance"

MustClose(p) == op[p] = "advance" \/ Ended(cur[p])

\* closeAndAdvanceInTransaction, first half: read the tasks, snapshot the
\* candidates.  Entries of one cycle are inserted by whoever has its row.
ReadTasks(p) ==
  /\ pc[p] = "locked"
  /\ MustClose(p)
  /\ cur[p] < MaxWeek
  /\ cand' = [cand EXCEPT ![p] = selectTasksForArchival(p)]
  /\ ents' = [ents EXCEPT ![p] = @ \cup ({cur[p]} \X selectTasksForArchival(p))]
  /\ Goto(p, "archive")
  /\ UNCHANGED <<today, boardVars, taskVars, evidence, op, held, cur, arch, editVars, bounds>>

\* The UPDATE is a statement of its own, with a snapshot of its own: it takes
\* every done task there is now, provided that some candidate was read.
ArchiveSet(p) == IF cand[p] = {} THEN {} ELSE selectTasksForArchival(p)

\* Mutant: the archival goes through the service's own repository and not
\* through the transaction's.
CloseAndAdvanceOutside(p) ==
  /\ pc[p] = "archive"
  /\ archivedIn' = [t \in Task |-> IF t \in ArchiveSet(p) THEN cur[p] ELSE archivedIn[t]]
  /\ cur' = [cur EXCEPT ![p] = @ + 1]
  /\ cand' = [cand EXCEPT ![p] = {}]
  /\ Goto(p, IF op[p] = "advance" THEN "commit" ELSE "locked")
  /\ UNCHANGED <<today, boardVars, status, evidence, op, held, ents, arch, editVars, bounds>>

\* Second half: archive, close the cycle, insert the next one, and look again.
CloseAndAdvance(p) ==
  /\ pc[p] = "archive"
  /\ \A t \in ArchiveSet(p) : \A q \in Request \ {p} : arch[q][t] = NoCycle
  /\ arch' = [arch EXCEPT ![p] =
                [t \in Task |-> IF t \in ArchiveSet(p) THEN cur[p] ELSE arch[p][t]]]
  /\ cur' = [cur EXCEPT ![p] = @ + 1]
  /\ cand' = [cand EXCEPT ![p] = {}]
  /\ Goto(p, IF op[p] = "advance" THEN "commit" ELSE "locked")
  /\ UNCHANGED <<today, boardVars, taskVars, evidence, op, held, ents, editVars, bounds>>

\* The while loop of syncProjectCycles ends.
SyncDone(p) ==
  /\ pc[p] = "locked"
  /\ ~MustClose(p)
  /\ Goto(p, "commit")
  /\ UNCHANGED <<today, boardVars, taskVars, evidence, txVars, editVars, bounds>>

\* The windows p closes, and the one it leaves active.
FirstClosed(p) == IF held[p] = NoCycle THEN 0 ELSE held[p]

Commit(p) ==
  /\ pc[p] = "commit"
  /\ closed' = [w \in Week |-> closed[w] + (IF FirstClosed(p) <= w /\ w < cur[p] THEN 1 ELSE 0)]
  /\ active' = [w \in Week |-> active[w] + (IF w = cur[p] THEN 1 ELSE 0)
                                         - (IF w = held[p] THEN 1 ELSE 0)]
  /\ history' = history \cup ents[p]
  /\ archivedIn' = [t \in Task |-> IF arch[p][t] = NoCycle THEN archivedIn[t] ELSE arch[p][t]]
  /\ EndTx(p, "purge")
  /\ UNCHANGED <<today, status, evidence, op, ents, editVars, bounds>>

\* purgeArchivedTaskEvidence: one task after the other, errors logged.
PurgeTask(p) ==
  /\ pc[p] = "purge"
  /\ \E e \in ents[p] :
       /\ ents' = [ents EXCEPT ![p] = { f \in @ : f[2] # e[2] }]
       /\ evidence' \in {evidence, evidence \ {e[2]}}
  /\ UNCHANGED <<today, boardVars, taskVars, pc, op, held, cur, cand, arch, editVars, bounds>>

Respond(p) ==
  /\ pc[p] = "purge"
  /\ ents[p] = {}
  /\ Goto(p, "idle")
  /\ op' = [op EXCEPT ![p] = "sync"]
  /\ UNCHANGED <<today, boardVars, taskVars, evidence, held, cur, cand, ents, arch, editVars, bounds>>

\* A statement fails, or the process stops: the transaction is rolled back,
\* and what was to be purged is forgotten.
Fail(p) ==
  /\ pc[p] # "idle"
  /\ fails < MaxFails
  /\ fails' = fails + 1
  /\ Rollback(p)

-----------------------------------------------------------------------------
(* TasksService.update: the entity is loaded, changed in memory, and saved *)
(* by TypeORM, which reads the row again and updates the columns in which  *)
(* the entity differs from it.                                             *)

LoadTask(e) ==
  /\ epc[e] = "idle"
  /\ \E t \in Task, want \in Status \cup {Keep} :
       /\ eTask' = [eTask EXCEPT ![e] = t]
       /\ eStatus' = [eStatus EXCEPT ![e] = IF want = Keep THEN status[t] ELSE want]
       /\ eArch' = [eArch EXCEPT ![e] = archivedIn[t]]
  /\ epc' = [epc EXCEPT ![e] = "loaded"]
  /\ UNCHANGED <<today, boardVars, taskVars, evidence, pc, txVars, eDirty, bounds>>

SaveDiff(e) ==
  /\ epc[e] = "loaded"
  /\ eDirty' = [eDirty EXCEPT ![e] =
       { c \in {"status", "archivedIn"} :
           IF c = "status" THEN eStatus[e] # status[eTask[e]]
                           ELSE eArch[e] # archivedIn[eTask[e]] }]
  /\ epc' = [epc EXCEPT ![e] = "saving"]
  /\ UNCHANGED <<today, boardVars, taskVars, evidence, pc, txVars, eTask, eStatus, eArch, bounds>>

\* The UPDATE waits for a transaction that has archived the row.
SaveWrite(e) ==
  /\ epc[e] = "saving"
  /\ \A q \in Request : arch[q][eTask[e]] = NoCycle
  /\ status' = [status EXCEPT ![eTask[e]] = IF "status" \in eDirty[e] THEN eStatus[e] ELSE @]
  /\ archivedIn' = [archivedIn EXCEPT ![eTask[e]] = IF "archivedIn" \in eDirty[e] THEN eArch[e] ELSE @]
  /\ epc' = [epc EXCEPT ![e] = "idle"]
  /\ eTask' = [eTask EXCEPT ![e] = NoTask]
  /\ eStatus' = [eStatus EXCEPT ![e] = "open"]
  /\ eArch' = [eArch EXCEPT ![e] = NoCycle]
  /\ eDirty' = [eDirty EXCEPT ![e] = {}]
  /\ UNCHANGED <<today, boardVars, evidence, pc, txVars, bounds>>

UploadEvidence(t) ==
  /\ evidence' = evidence \cup {t}
  /\ UNCHANGED <<today, boardVars, taskVars, pc, txVars, editVars, bounds>>

NextDay ==
  /\ today < MaxDay
  /\ today' = today + 1
  /\ UNCHANGED <<boardVars, taskVars, evidence, pc, txVars, editVars, bounds>>

-----------------------------------------------------------------------------
\* The steps of a request once it has begun.
Step(p) ==
  \/ FindActive(p) \/ LockGranted(p) \/ Bootstrap(p) \/ BootstrapRefused(p)
  \/ ReadTasks(p) \/ CloseAndAdvance(p) \/ SyncDone(p) \/ Commit(p)
  \/ PurgeTask(p) \/ Respond(p)

Edit(e) == LoadTask(e) \/ SaveDiff(e) \/ SaveWrite(e)

Next ==
  \/ \E p \in Request : BeginSync(p) \/ BeginAdvance(p) \/ Step(p) \/ Fail(p)
  \/ \E e \in Editor : Edit(e)
  \/ \E t \in Task : UploadEvidence(t)
  \/ NextDay

Spec == Init /\ [][Next]_vars

\* Statements return, and the hourly interval keeps firing.  Nobody is obliged
\* to call the API, to edit a task, or to fail.
FairSpec ==
  /\ Spec
  /\ \A p \in Request : WF_vars(Step(p))
  /\ WF_vars(BeginSync(Scheduler))
-----------------------------------------------------------------------------
(* Properties                                                              *)

TypeOK ==
  /\ today \in 0 .. MaxDay
  /\ active \in [Week -> Nat] /\ closed \in [Week -> Nat]
  /\ history \subseteq Week \X Task
  /\ status \in [Task -> Status]
  /\ archivedIn \in [Task -> Week \cup {NoCycle}]
  /\ evidence \subseteq Task
  /\ pc \in [Request -> PC]
  /\ op \in [Request -> {"sync", "advance"}]
  /\ held \in [Request -> Week \cup {NoCycle}]
  /\ cur \in [Request -> Week \cup {NoCycle}]
  /\ cand \in [Request -> SUBSET Task]
  /\ ents \in [Request -> SUBSET (Week \X Task)]
  /\ arch \in [Request -> [Task -> Week \cup {NoCycle}]]
  /\ epc \in [Editor -> {"idle", "loaded", "saving"}]
  /\ eTask \in [Editor -> Task \cup {NoTask}]
  /\ eStatus \in [Editor -> Status]
  /\ eArch \in [Editor -> Week \cup {NoCycle}]
  /\ eDirty \in [Editor -> SUBSET {"status", "archivedIn"}]
  /\ advances \in 0 .. MaxAdvances
  /\ fails \in 0 .. MaxFails

\* The cycles of a project are the windows 0, 1, ..., n with no gap and no
\* duplicate, all closed but the last, which is active: whatever the requests
\* that sync and advance it at the same time, and wherever they fail.
Timeline ==
  \/ \A w \in Week : active[w] = 0 /\ closed[w] = 0
  \/ \E n \in Week : \A w \in Week :
       /\ active[w] = (IF w = n THEN 1 ELSE 0)
       /\ closed[w] = (IF w < n THEN 1 ELSE 0)

\* Past the row lock, or the insert that the unique index makes wait, a
\* request has the project to itself until its transaction ends.
OneWriter ==
  \A p, q \in Request : pc[p] \in InTx /\ pc[q] \in InTx => p = q

\* What a transaction has read of the cycles stays true until it ends: the row
\* it locked is still the active one, and if it found none there is still none.
ViewHolds ==
  \A p \in Request :
    /\ pc[p] \in {"idle", "find", "bootstrap", "purge"} =>
         held[p] = NoCycle /\ cur[p] = NoCycle
    /\ pc[p] = "blocked" => held[p] # NoCycle /\ cur[p] = held[p]
    /\ pc[p] \in InTx =>
         /\ cur[p] \in Week /\ held[p] <= cur[p]
         /\ held[p] # NoCycle => active[held[p]] = 1
         /\ held[p] = NoCycle => \A w \in Week : active[w] = 0
    /\ pc[p] = "archive" => cur[p] < MaxWeek

IndInv == TypeOK /\ Timeline /\ OneWriter /\ ViewHolds

\* A snapshot or an archived task is only ever filed under a closed cycle:
\* a transaction that fails after the archival leaves no trace of it.
FiledUnderClosed ==
  /\ \A h \in history : closed[h[1]] > 0
  /\ \A t \in Task : archivedIn[t] # NoCycle => closed[archivedIn[t]] > 0

\* No step reopens a closed cycle or withdraws a snapshot, and an active cycle
\* is closed early only by a call of advance, which closes no other with it.
ClosingStep ==
  /\ history \subseteq history'
  /\ \A w \in Week : closed'[w] >= closed[w]
  /\ \A w \in ActiveWeeks : active'[w] = 0 =>
       \/ \A v \in Week : closed'[v] > closed[v] => Ended(v)
       \/ /\ \E p \in Request : pc[p] = "commit" /\ op[p] = "advance"
          /\ \A v \in Week \ {w} : closed'[v] = closed[v]

ClosesProperly == [][ClosingStep]_vars

\* Evidence and logs are deleted only for a task that a committed cycle has
\* in its snapshot: a rollback must not cost a task its evidence.
PurgingStep == \A t \in evidence \ evidence' : \E w \in Week : <<w, t>> \in history

PurgesOnlySnapshotted == [][PurgingStep]_vars

Overdue == \E w \in ActiveWeeks : Ended(w)

\* The hourly tick sees to it that an active cycle past its end is closed,
\* whatever the users do, including nothing, and whatever fails.
OverdueCloses == Overdue ~> ~Overdue

\* What all of this promises: see CycleTimeline.
LastWindow == IF ActiveWeeks = {} THEN NoCycle ELSE CHOOSE w \in ActiveWeeks : TRUE

Promise == INSTANCE CycleTimeline WITH day <- today, last <- LastWindow

ImplementsTimeline == Promise!Spec

\* docs/board-sprint-cycles.md:14-15: the archived tasks are those that were
\* snapshotted.
ArchivedIsSnapshotted ==
  \A t \in Task : archivedIn[t] # NoCycle => <<archivedIn[t], t>> \in history

\* docs/board-sprint-cycles.md:15: an archived task has disappeared from the
\* active board.  No code clears the mark on purpose.
ArchivalSticks ==
  [][\A t \in Task : archivedIn[t] # NoCycle => archivedIn'[t] # NoCycle]_vars
=============================================================================
