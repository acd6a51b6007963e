------------------------------ MODULE Analytics ------------------------------
(***************************************************************************)
(* The summary of a project (src/analytics): how many tasks were created   *)
(* and completed, moved and reported as bugs in a period, as totals and as *)
(* a trend of days or weeks, and how long tasks stay in a column.          *)
(*                                                                         *)
(* getSummary sends its queries at once and each sees the rows of its own  *)
(* moment, while tasks are written and a cycle closes. A read is kept      *)
(* whole: its condition on the period is applied to the rows when figures  *)
(* are made, so that one summary stands for that of every period. The      *)
(* unit of time is half a day, no two writes share a moment, and that of   *)
(* a write is that of its commit.                                          *)
(*                                                                         *)
(* A call on a task saves the entity that it loaded, which may be a while  *)
(* ago: the row is then as it was, also not archived when a cycle has      *)
(* archived it meanwhile, and there again when it was removed.             *)
(***************************************************************************)
EXTENDS Integers, FiniteSets, FiniteSetsExt

CONSTANTS
  Task,
  Starts,    \* when the first task may be created; later than any period is long
  Pauses,    \* how long nothing may happen
  MaxWrites, \* bound: writes
  MaxCrossing, \* bound: when a summary has seen writes of so many kinds, none follows
  MaxPauses, \* bound: pauses
  Ranges     \* custom periods: the first and the last day, from the day of the summary

VARIABLES
  now,
  task,      \* tasks: status, is_bug, created_at, updated_at, archived
  log,       \* user_activity: the task.status_changed rows
  unlogged,  \* ... and those whose insert was not awaited, and is under way or has failed
  flags,     \* task_history_entries of isBug
  filed,     \* board_cycle_history_entries
  ent,       \* of each task, the entity in the hands of a call, Nobody if there is none
  restored,  \* history: tasks whose archival, or removal, a save has changed
  asked,     \* the summary: when it was asked for, null when none is under way,
  left,      \* ... reads to come,
  got,       \* ... what was read,
  crossed,   \* for the properties: what happened between its reads
  writes, pauses

stored  == <<task, log, unlogged, flags, filed, ent, restored>>
summary == <<asked, left, got>>
vars    == <<now, stored, summary, crossed, writes, pauses>>

Null   == -1
Status == {"todo", "qa_test", "done"}
Names  == {"created", "series", "archived", "active", "moves", "bugs"}
\* No figure depends on both moves and bugs: they are read as one.
Reads  == {{"created"}, {"series"}, {"archived"}, {"active"}, {"moves", "bugs"}}
Nobody == [status |-> "none", bug |-> FALSE, created |-> Null, updated |-> Null,
           archived |-> FALSE]
There  == { t \in Task : task[t].status \in Status }
Reading  == left # {}
Complete == asked # Null /\ left = {}
Unread   == [n \in Names |-> {}]

Init ==
  /\ now \in Starts
  /\ task = [t \in Task |-> Nobody]
  /\ log = {} /\ unlogged = {} /\ flags = {} /\ filed = {}
  /\ ent = [t \in Task |-> Nobody] /\ restored = {}
  /\ asked = Null /\ left = {} /\ got = Unread /\ crossed = {}
  /\ writes = 0 /\ pauses = 0

-----------------------------------------------------------------------------
(* What goes on in the project                                             *)

\* Nothing that follows the last read changes an answer.
Write(what) ==
  /\ writes < MaxWrites /\ ~Complete
  /\ Reading => Cardinality(crossed) < MaxCrossing
  /\ writes' = writes + 1
  /\ now' = now + 1
  /\ crossed' = crossed \cup (IF Reading THEN {what} ELSE {})
  /\ UNCHANGED <<summary, pauses>>

Pause ==
  /\ pauses < MaxPauses /\ asked = Null
  /\ \E d \in Pauses : now' = now + d
  /\ pauses' = pauses + 1
  /\ UNCHANGED <<stored, summary, crossed, writes>>

Create(t, s) ==
  /\ task[t] = Nobody
  /\ task' = [task EXCEPT ![t] =
       [status |-> s, bug |-> FALSE, created |-> now, updated |-> now, archived |-> FALSE]]
  /\ Write("create")
  /\ UNCHANGED <<log, unlogged, flags, filed, ent, restored>>

\* A call on a task begins, which another write is going to overtake.
Load(t) ==
  /\ t \in There /\ ent[t] = Nobody
  /\ writes + 1 < MaxWrites /\ ~Complete
  /\ ent' = [ent EXCEPT ![t] = task[t]]
  /\ UNCHANGED <<now, task, log, unlogged, flags, filed, restored, summary, crossed, writes, pauses>>

\* A save of the entity e: of the row as it is, or as it was when it was loaded. All
\* columns are as in the entity; updated_at is set anew, unless the row is inserted.
Save(t, e, s, on) ==
  /\ \/ t \in There /\ e = task[t] /\ UNCHANGED ent
     \/ e # Nobody /\ e = ent[t] /\ ent' = [ent EXCEPT ![t] = Nobody]
  /\ task' = [task EXCEPT ![t] =
       [e EXCEPT !.status = s, !.bug = on, !.updated = IF t \in There THEN now ELSE @]]
  /\ \/ /\ t \in There /\ e.archived = task[t].archived
        /\ Write("update") /\ UNCHANGED restored
     \/ /\ t \in There /\ e.archived # task[t].archived
        /\ Write("restore") /\ restored' = restored \cup {t}
     \/ t \notin There /\ Write("insert") /\ restored' = restored \cup {t}

\* A call that gives another status; its activity is recorded without waiting.
Move(t, e, s) ==
  /\ e.status # s
  /\ Save(t, e, s, e.bug)
  /\ unlogged' = unlogged \cup { [task |-> t, status |-> s] }
  /\ UNCHANGED <<log, flags, filed>>

\* When it fails the row never comes.
Record(e) ==
  /\ unlogged' = unlogged \ {e}
  /\ log' = log \cup { [task |-> e.task, at |-> now, status |-> e.status] }
  /\ Write("record")
  /\ UNCHANGED <<task, flags, filed, ent, restored>>

\* A call that leaves the status alone.
Edit(t, e) ==
  /\ Save(t, e, e.status, e.bug)
  /\ UNCHANGED <<log, unlogged, flags, filed>>

\* A status that follows that of the parent is not an activity of the task.
Follow(t, e, s) ==
  /\ e.status # s
  /\ Save(t, e, s, e.bug)
  /\ UNCHANGED <<log, unlogged, flags, filed>>

\* Nor is the one that a bug flag sets.
Flag(t, e, on) ==
  /\ e.bug # on
  /\ Save(t, e, IF on THEN "todo" ELSE e.status, on)
  /\ flags' = flags \cup { [task |-> t, at |-> now, on |-> on] }
  /\ UNCHANGED <<log, unlogged, filed>>

\* One transaction, whose races are the subject of BoardCycles. completed_at of the
\* entry is taken from updated_at, which the update sets anew. An entry is unique
\* in its cycle only.
Close ==
  LET leaving == { t \in There : task[t].status = "done" /\ ~task[t].archived }
  IN  /\ leaving # {}
      /\ task' = [t \in Task |->
           IF t \in leaving THEN [task[t] EXCEPT !.archived = TRUE, !.updated = now]
           ELSE task[t]]
      /\ filed' = filed \cup
           { [task |-> t, completed |-> task[t].updated, archived |-> now] : t \in leaving }
      /\ Write("close")
      /\ UNCHANGED <<log, unlogged, flags, ent, restored>>

\* The entries of the task stay.
Remove(t) ==
  /\ t \in There
  /\ task' = [task EXCEPT ![t].status = "gone"]
  /\ flags' = { f \in flags : f.task # t }
  /\ Write("remove")
  /\ UNCHANGED <<log, unlogged, filed, ent, restored>>

-----------------------------------------------------------------------------
(* The queries of getSummary                                               *)

Ask ==
  /\ asked = Null
  /\ asked' = now
  /\ left' = Reads
  /\ UNCHANGED <<now, stored, got, crossed, writes, pauses>>

\* Mutant: the tasks in Done are counted although they have an entry.
AllInDone == { t \in There : task[t].status = "done" }

OpenInDone == { t \in There : task[t].status = "done" /\ ~task[t].archived }

Rows ==
  [created  |-> { [task |-> t, at |-> task[t].created] : t \in There },
   series   |-> { [task |-> t, at |-> task[t].created] : t \in There },
   archived |-> { f \in filed : f.task \in There /\ task[f.task].archived },
   active   |-> { [task |-> t, completed |-> task[t].updated, archived |-> Null] :
                    t \in OpenInDone },
   moves    |-> log,
   bugs     |-> flags]

\* Queries that see one moment: any one of them, or all that are left. The order of
\* the last ones does not matter when no write can come between them.
Read(some) ==
  /\ left' = left \ some
  /\ got' = [n \in Names |-> IF n \in UNION some THEN Rows[n] ELSE got[n]]
  /\ UNCHANGED <<now, stored, asked, crossed, writes, pauses>>

Answer ==
  /\ asked # Null /\ left = {}
  /\ asked' = Null /\ got' = Unread /\ crossed' = {}
  /\ UNCHANGED <<now, stored, left, writes, pauses>>

Next ==
  \/ Pause \/ Close \/ Ask \/ Answer
  \/ \E t \in Task :
       \/ Load(t) \/ Remove(t)
       \/ \E s \in Status : Create(t, s)
       \/ \E e \in {task[t], ent[t]} :
            \/ Edit(t, e)
            \/ \E s \in Status : Move(t, e, s)
            \/ \E s \in {"todo", "done"} : Follow(t, e, s)
            \/ \E on \in BOOLEAN : Flag(t, e, on)
  \/ \E e \in unlogged : Record(e)
  \/ \E r \in left : writes < MaxWrites /\ Read({r})
  \/ Reading /\ Read(left)

Spec == Init /\ [][Next]_vars

-----------------------------------------------------------------------------
(* Time                                                                    *)

Day  == 2
Week == 7 * Day

utcDayStart(at) == at - (at % Day)

\* Mutant: the week of a Sunday is the one that begins the day after.
SundayOpensWeek(at) ==
  utcDayStart(at) + (1 - ((at \div Day + 4) % 7)) * Day

\* Of 0, 1 January 1970, getUTCDay is 4, a Thursday; 0 is a Sunday.
utcWeekStart(at) ==
  LET weekday == (at \div Day + 4) % 7
  IN  utcDayStart(at) + (IF weekday = 0 THEN -6 ELSE 1 - weekday) * Day

bucketStartMs(at, by) == IF by = "day" THEN utcDayStart(at) ELSE utcWeekStart(at)

\* Postgres' date_trunc: a week begins on a Monday, as 5 January 1970 was.
date_trunc(by, at) ==
  IF by = "day" THEN (at \div Day) * Day
  ELSE CHOOSE d \in (at - Week + 1) .. at : d % Week = 4 * Day

inRange(at, w) ==
  /\ w.start # Null => at >= w.start
  /\ w.end # Null => at < w.end

\* The periods that may be asked for at a moment: presets end at that moment,
\* custom ones at the end of a day, and all time has no ends.
Periods(at) ==
  { [key |-> "7d", start |-> at - 7 * Day, end |-> at],
    [key |-> "30d", start |-> at - 30 * Day, end |-> at],
    [key |-> "90d", start |-> at - 90 * Day, end |-> at],
    [key |-> "all", start |-> Null, end |-> Null] } \cup
  { [key |-> "custom", start |-> utcDayStart(at) + r[1] * Day,
     end |-> utcDayStart(at) + (r[2] + 1) * Day] : r \in Ranges }

granularity(w) ==
  CASE w.key \in {"7d", "30d"} -> "day"
    [] w.key \in {"90d", "all"} -> "week"
    [] OTHER -> IF w.end - w.start <= 45 * Day THEN "day" ELSE "week"

\* The first moments of the buckets; extra are days on which something was.
emptyTrendBuckets(w, by, extra) ==
  LET step  == IF by = "day" THEN Day ELSE Week
      end   == IF w.end # Null THEN w.end ELSE now
      start == CASE w.start # Null -> w.start
                 [] w.start = Null /\ extra # {} -> Min(extra)
                 [] OTHER -> end - 12 * Week
      first == bucketStartMs(start, by)
      last  == bucketStartMs(Max({end - 1, start}), by)
  IN  { b \in first .. last : (b - first) % step = 0 }

-----------------------------------------------------------------------------
(* Figures, once everything is read                                        *)

\* Rows of completed tasks, and the moments of what the trend counts.
doneDurations   == got["archived"] \cup got["active"]
Within(rows, w) == { r \in rows : inRange(r.at, w) }
Completed == { [task |-> r.task, at |-> r.completed] : r \in doneDurations }
Reported  == { f \in got["bugs"] : f.on }

extraDates(w, by) ==
  { date_trunc(by, r.at) : r \in Within(got["series"], w) } \cup
  { utcDayStart(r.at) : r \in Within(got["moves"] \cup Completed \cup Reported, w) }

\* What the buckets count of some rows: by the code's reckoning and the database's.
Counted(rows, by, buckets) == { r \in rows : bucketStartMs(r.at, by) \in buckets }
CountedBySql(rows, by, buckets) == { r \in rows : date_trunc(by, r.at) \in buckets }

\* Mutant: the archival of a task ends its last stay only.
ArchivalOnly(events, rows) ==
  events \cup { [task |-> r.task, at |-> r.archived, status |-> "done"] : r \in rows }

\* The changes of status, ended by the archivals of the task: done since it was
\* completed, if no activity says so. Of equal events one is kept, and thereby no
\* stay without length.
appendArchiveClosures(events, rows) ==
  LET last(r) == { e \in events : e.task = r.task /\
                     \A o \in events : o.task = r.task => o.at <= e.at }
      Done(r, at) == [task |-> r.task, at |-> at, status |-> "done"]
      enters(r) == /\ \A e \in last(r) : e.status # "done" /\ r.completed > e.at
                   /\ r.completed <= r.archived
      ends(r) == \A e \in last(r) : r.archived > e.at
  IN  events \cup { Done(r, r.completed) : r \in { x \in rows : enters(x) } }
             \cup { Done(r, r.archived) : r \in { x \in rows : ends(x) } }

closedStatusDwells(events) ==
  LET Follows(f, e) ==
        /\ f.task = e.task /\ e.at < f.at
        /\ \A o \in events : o.task = e.task => o.at <= e.at \/ o.at >= f.at
  IN  { [task |-> p[1].task, status |-> p[1].status, start |-> p[1].at, end |-> p[2].at] :
          p \in { q \in events \X events : Follows(q[2], q[1]) } }

Dwells == closedStatusDwells(appendArchiveClosures(got["moves"], got["archived"]))

-----------------------------------------------------------------------------
(* Properties                                                              *)

\* analytics.service.ts:255-274: for every period the columns of a trend add up to
\* the totals above it, and each row is counted in the day or week in which it was;
\* created tasks, whose total and trend two queries count, unless one was created,
\* removed or inserted again in between.
TrendAddsUp ==
  Complete => \A w \in Periods(asked) :
    LET by      == granularity(w)
        step    == IF by = "day" THEN Day ELSE Week
        buckets == emptyTrendBuckets(w, by, extraDates(w, by))
        events  == got["moves"] \cup Completed \cup Reported
    IN  /\ Counted(Within(events, w), by, buckets) = Within(events, w)
        /\ \A e \in events : e.at - bucketStartMs(e.at, by) \in 0 .. (step - 1)
        /\ {"create", "remove", "insert"} \cap crossed = {} =>
             CountedBySql(Within(got["series"], w), by, buckets) = Within(got["created"], w)

\* analytics.service.ts:533-574: unless a cycle is closed, or a save of an old
\* entity takes back an archival or a removal, between the reads of archived and of
\* active tasks, no task is counted among both, and a completed one is counted once;
\* but for one that such a save had brought back and that was archived again (finding
\* BoardArchive): it is counted once for each of its entries.
CompletedOnce ==
  Complete /\ {"close", "restore", "insert"} \cap crossed = {} =>
    \A r, s \in doneDurations : r.task = s.task =>
      r = s \/ (r.task \in restored /\ {r, s} \subseteq got["archived"])

\* analytics-summary.util.ts:161-200: a stay of an archived task ends with each of
\* its archivals, no stay is after the last of them, and the one that ends is in Done
\* unless an activity that was recorded after the completion says otherwise.
ArchivedStayEnds ==
  Complete => \A r \in got["archived"] :
    LET later(at) == { e \in got["moves"] : e.task = r.task /\ e.at > at }
        last      == \A o \in got["archived"] : o.task = r.task => o.archived <= r.archived
    IN  later(r.archived) = {} =>
          \E d \in Dwells :
            /\ d.task = r.task /\ d.end = r.archived
            /\ last => \A o \in Dwells : o.task = r.task => o = d \/ o.end <= d.start
            /\ later(r.completed) = {} => d.status = "done"
=============================================================================
