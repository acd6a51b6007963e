-------------------------------- MODULE Tasks --------------------------------
(***************************************************************************)
(* Tasks and subtasks (src/tasks/tasks.service.ts): a table of rows that   *)
(* concurrent requests create, edit and remove, and the number counter of  *)
(* each project.                                                           *)
(*                                                                         *)
(* Only the end of create is a transaction.  An edit loads a row, changes  *)
(* the loaded entity and saves it; on the way it writes the subtasks by    *)
(* statements of their own.  A save first reads the rows again, then       *)
(* writes the columns in which the entity differs, or the whole row where  *)
(* there is none any more.                                                 *)
(***************************************************************************)
EXTENDS Integers, Sequences, FiniteSets

CONSTANTS
  Task, Project,
  Creator,   \* requests of TasksService.create
  Editor,    \* requests of TasksService.update
  Remover,   \* requests of TasksService.remove
  Manager,   \* requests of ProjectsService.update
  Edit,      \* the bodies of an update
  NONE,      \* no parent, nobody
  KEEP       \* a field that the body leaves out

\* The statuses between the two are not told apart from todo.
Status == {"todo", "done"}
Row    == [project : Project, parent : Task \cup {NONE}, number : Nat \ {0},
           status : Status, bug : BOOLEAN]
Column == {"project", "parent", "number", "status", "bug"}

\* A "bare" flag comes without a reason: the stored one has to do.
Body == [project : Project \cup {KEEP}, parent : Task \cup {NONE, KEEP},
         status : Status \cup {KEEP}, bug : {"flag", "bare", "clear", KEEP}]

ASSUME NamesAssumption ==
  /\ NONE \notin Task \cup Creator
  /\ Edit \subseteq Body

VARIABLES
  task,      \* the rows of tasks, NONE where there is none
  next,      \* projects.next_task_number
  lock,      \* the creator that holds the row of a project, or NONE
  creating, editing, removing, managing,   \* what each request has in memory
  given      \* for the properties: the numbers given by create

requests == <<creating, editing, removing, managing>>
vars     == <<task, next, lock, requests, given>>

Idle  == [at |-> "idle"]
Stage == {"validate", "move", "flag", "own", "done", "refuse"}

Creating == [at : {"ready", "locked"}, project : Project,
             parent : Task \cup {NONE}, count : Nat]
Editing  == [at : {"stage", "read", "write"}, self : Task, from : Project,
             entity : Row, todo : Seq(Stage) \ {<<>>},
             batch : [Task -> Row \cup {NONE}],
             diff : [Task -> SUBSET (Column \cup {"insert"})]]
Removing == [at : {"subtasks", "last"}, self : Task, subtasks : SUBSET Task]
Managing == [at : {"save"}, project : Project, count : Nat \ {0}]

-----------------------------------------------------------------------------
(* The table                                                               *)

NoRows  == [t \in Task |-> NONE]
NoWrite == [t \in Task |-> {}]

Present(table)     == {t \in Task : table[t] # NONE}
Children(table, t) == {s \in Present(table) : table[s].parent = t}

\* The foreign key of parent_task_id, the check that it is not the task's own
\* id, and UQ_tasks_project_task_number.
Accepted(table) ==
  /\ \A t \in Present(table) : table[t].parent \in (Present(table) \ {t}) \cup {NONE}
  /\ \A t, s \in Present(table) :
       table[t].project = table[s].project /\ table[t].number = table[s].number
         => t = s

\* ON DELETE CASCADE: the rows go and everything under them.
Cascade(ts) ==
  {t \in Present(task) :
     \A S \in SUBSET Present(task) :
       /\ ts \cap Present(task) \subseteq S
       /\ \A s \in S : Children(task, s) \subseteq S
       => t \in S}

Delete(ts) == task' = [t \in Task |-> IF t \in Cascade(ts) THEN NONE ELSE task[t]]

-----------------------------------------------------------------------------
(* Repository.save of a set of entities                                    *)

DiffOf(entities) ==
  [t \in Task |-> CASE entities[t] = NONE -> {}
                    [] entities[t] # NONE /\ task[t] = NONE -> {"insert"}
                    [] OTHER -> {c \in Column : entities[t][c] # task[t][c]}]

Merged(old, new, columns) ==
  [project |-> IF "project" \in columns THEN new.project ELSE old.project,
   parent  |-> IF "parent"  \in columns THEN new.parent  ELSE old.parent,
   number  |-> IF "number"  \in columns THEN new.number  ELSE old.number,
   status  |-> IF "status"  \in columns THEN new.status  ELSE old.status,
   bug     |-> IF "bug"     \in columns THEN new.bug     ELSE old.bug]

Written(q, t) ==
  CASE "insert" \in q.diff[t] -> q.batch[t]
    [] "insert" \notin q.diff[t] /\ task[t] = NONE -> NONE  \* an UPDATE of no row
    [] OTHER -> Merged(task[t], q.batch[t], q.diff[t])

Saved(q) == [t \in Task |-> Written(q, t)]

\* A row that somebody else has inserted again collides on the primary key.
SaveAccepted(q) ==
  /\ Accepted(Saved(q))
  /\ \A t \in Task : "insert" \in q.diff[t] => task[t] = NONE

-----------------------------------------------------------------------------
(* create                                                                  *)

\* As if validateParentTask did not look at the parent's own parent.
AnyParent(parent, project) ==
  /\ task[parent] # NONE
  /\ task[parent].project = project

\* validateParentTask: a root task of the project.
MayBeParent(parent, project) ==
  /\ task[parent] # NONE
  /\ task[parent].project = project
  /\ task[parent].parent = NONE

Fresh == Task \ {g.task : g \in given}     \* identifiers are never used twice

\* What precedes the transaction: the parent is checked, and never again.
\* Task bounds the tasks ever created: a call begins while one is left for it.
CreateBegin(c) ==
  \E p \in Project, parent \in Task \cup {NONE} :
    /\ creating[c].at = "idle"
    /\ Cardinality({b \in Creator : creating[b].at # "idle"}) < Cardinality(Fresh)
    /\ parent # NONE => MayBeParent(parent, p)
    /\ creating' = [creating EXCEPT ![c] =
         [at |-> "ready", project |-> p, parent |-> parent, count |-> 0]]
    /\ UNCHANGED <<task, next, lock, editing, removing, managing, given>>

\* As if the project were found without a lock.
NoLock(p) == TRUE

\* The project is found with a pessimistic_write lock.
MayLock(p) == lock[p] = NONE

CreateLock(c) ==
  /\ creating[c].at = "ready"
  /\ MayLock(creating[c].project)
  /\ lock' = [lock EXCEPT ![creating[c].project] = c]
  /\ creating' = [creating EXCEPT ![c] =
       [@ EXCEPT !.at = "locked", !.count = next[creating[c].project]]]
  /\ UNCHANGED <<task, next, editing, removing, managing, given>>

\* As if the number given were the last one and not the next one.
WithLast(t, q) ==
  [task EXCEPT ![t] = [project |-> q.project, parent |-> q.parent,
                       number |-> q.count - 1, status |-> "todo", bug |-> FALSE]]

With(t, q) ==
  [task EXCEPT ![t] = [project |-> q.project, parent |-> q.parent,
                       number |-> q.count, status |-> "todo", bug |-> FALSE]]

\* The counter and the row are committed together ...
CreateCommit(c) ==
  \E t \in Fresh :
    /\ creating[c].at = "locked"
    /\ Accepted(With(t, creating[c]))
    /\ task' = With(t, creating[c])
    /\ next' = [next EXCEPT ![creating[c].project] = creating[c].count + 1]
    /\ given' = given \cup {[task |-> t, project |-> creating[c].project,
                             number |-> creating[c].count]}
    /\ lock' = [lock EXCEPT ![creating[c].project] = NONE]
    /\ creating' = [creating EXCEPT ![c] = Idle]
    /\ UNCHANGED <<editing, removing, managing>>

\* ... or rolled back together: the number is taken or the parent gone.
StillLocked(p) == lock     \* As if an error left the transaction open.

Unlocked(p) == [lock EXCEPT ![p] = NONE]

CreateRollBack(c) ==
  \E t \in Fresh :
    /\ creating[c].at = "locked"
    /\ ~Accepted(With(t, creating[c]))
    /\ lock' = Unlocked(creating[c].project)
    /\ creating' = [creating EXCEPT ![c] = Idle]
    /\ UNCHANGED <<task, next, editing, removing, managing, given>>

-----------------------------------------------------------------------------
(* update                                                                  *)

Moves(r, d)   == d.project \notin {KEEP, r.project}
Flags(r, d)   == d.bug = "flag" \/ (d.bug = "bare" /\ r.bug)
Refused(r, d) == d.bug = "bare" /\ ~r.bug     \* TASK_BUG_REASON_REQUIRED

\* The loaded entity once the body has been applied to it.
Edited(r, d) ==
  [project |-> IF d.project = KEEP THEN r.project ELSE d.project,
   parent  |-> IF d.parent = KEEP THEN r.parent ELSE d.parent,
   number  |-> r.number,
   status  |-> CASE Flags(r, d) -> "todo"
                 [] ~Flags(r, d) /\ d.status # KEEP -> d.status
                 [] OTHER -> r.status,
   bug     |-> Flags(r, d) \/ (r.bug /\ d.bug # "clear")]

\* The stages of an edit that touch the database, in order.  Where it is
\* refused it ends, and what it has written before stays.
Stages(r, d) ==
  LET root == Edited(r, d).parent = NONE
      When(guard, stage) == IF guard THEN <<stage>> ELSE <<>>
  IN When(d.parent \in Task, "validate")
     \o When(Moves(r, d), IF root THEN "move" ELSE "refuse")
     \o When(Refused(r, d), "refuse")
     \o When(Flags(r, d) /\ root, "flag")
     \o <<"own">>
     \o When(d.status = "done" /\ root, "done")

Advance(e) ==
  LET q == editing[e] IN
  IF Len(q.todo) = 1 \/ q.todo[2] = "refuse" THEN Idle
  ELSE [q EXCEPT !.at = "stage", !.todo = Tail(@), !.batch = NoRows, !.diff = NoWrite]

EditLoad(e) ==
  \E t \in Present(task), d \in Edit :
    /\ editing[e].at = "idle"
    /\ d.parent # t                                        \* TASK_SELF_PARENT
    /\ Head(Stages(task[t], d)) # "refuse"
    /\ editing' = [editing EXCEPT ![e] =
         [at |-> "stage", self |-> t, from |-> task[t].project,
          entity |-> Edited(task[t], d), todo |-> Stages(task[t], d),
          batch |-> NoRows, diff |-> NoWrite]]
    /\ UNCHANGED <<task, next, lock, creating, removing, managing, given>>

InStage(e, stages) == editing[e].at = "stage" /\ Head(editing[e].todo) \in stages

EditValidate(e) ==
  /\ InStage(e, {"validate"})
  /\ editing' = [editing EXCEPT ![e] =
       IF MayBeParent(@.entity.parent, @.from) THEN Advance(e) ELSE Idle]
  /\ UNCHANGED <<task, next, lock, creating, removing, managing, given>>

\* moveSubtasksWithParent: one UPDATE, committed before the task is saved.
SubtasksMoved(q) ==
  [t \in Task |-> IF t \in Children(task, q.self)
                  THEN [task[t] EXCEPT !.project = q.entity.project] ELSE task[t]]

EditMove(e) ==
  /\ InStage(e, {"move"})
  /\ task' = IF Accepted(SubtasksMoved(editing[e]))
             THEN SubtasksMoved(editing[e]) ELSE task
  /\ editing' = [editing EXCEPT ![e] =
       IF Accepted(SubtasksMoved(@)) THEN Advance(e) ELSE Idle]
  /\ UNCHANGED <<next, lock, creating, removing, managing, given>>

\* moveSubtasksToTodoWithParent, and completeAllSubtasks, which leaves out
\* the subtasks that are done.
Found(q) ==
  LET target == IF Head(q.todo) = "flag" THEN "todo" ELSE "done" IN
  [s \in Task |->
     IF s \in Children(task, q.self) /\ (target = "todo" \/ task[s].status # "done")
     THEN [task[s] EXCEPT !.status = target] ELSE NONE]

EditFind(e) ==
  /\ InStage(e, {"flag", "done"})
  /\ editing' = [editing EXCEPT ![e] =
       IF Found(@) = NoRows THEN Advance(e)
       ELSE [@ EXCEPT !.at = "read", !.batch = Found(editing[e])]]
  /\ UNCHANGED <<task, next, lock, creating, removing, managing, given>>

\* The read that a save begins with, of the subtasks or of the task itself.
Entities(q) ==
  IF q.at = "read" THEN q.batch ELSE [NoRows EXCEPT ![q.self] = q.entity]

EditRead(e) ==
  /\ editing[e].at = "read" \/ InStage(e, {"own"})
  /\ editing' = [editing EXCEPT ![e] =
       [@ EXCEPT !.at = "write", !.batch = Entities(editing[e]),
                 !.diff = DiffOf(Entities(editing[e]))]]
  /\ UNCHANGED <<task, next, lock, creating, removing, managing, given>>

EditWrite(e) ==
  /\ editing[e].at = "write"
  /\ task' = IF SaveAccepted(editing[e]) THEN Saved(editing[e]) ELSE task
  /\ editing' = [editing EXCEPT ![e] =
       IF SaveAccepted(@) THEN Advance(e) ELSE Idle]
  /\ UNCHANGED <<next, lock, creating, removing, managing, given>>

-----------------------------------------------------------------------------
(* remove                                                                  *)

\* The subtasks found now go first; the task goes last, alone.
RemoveFind(r) ==
  \E t \in Present(task) :
    /\ removing[r].at = "idle"
    /\ removing' = [removing EXCEPT ![r] =
         [at |-> IF Children(task, t) = {} THEN "last" ELSE "subtasks",
          self |-> t, subtasks |-> Children(task, t)]]
    /\ UNCHANGED <<task, next, lock, creating, editing, managing, given>>

RemoveSubtasks(r) ==
  /\ removing[r].at = "subtasks"
  /\ Delete(removing[r].subtasks)
  /\ removing' = [removing EXCEPT ![r] = [@ EXCEPT !.at = "last", !.subtasks = {}]]
  /\ UNCHANGED <<next, lock, creating, editing, managing, given>>

RemoveTask(r) ==
  /\ removing[r].at = "last"
  /\ Delete({removing[r].self})
  /\ removing' = [removing EXCEPT ![r] = Idle]
  /\ UNCHANGED <<next, lock, creating, editing, managing, given>>

-----------------------------------------------------------------------------
(* ProjectsService.update                                                  *)

\* The project is loaded to change its name, say, ...
ManageLoad(m) ==
  \E p \in Project :
    /\ managing[m].at = "idle"
    /\ managing' = [managing EXCEPT ![m] =
         [at |-> "save", project |-> p, count |-> next[p]]]
    /\ UNCHANGED <<task, next, lock, creating, editing, removing, given>>

\* ... and saved, with the counter it had if that is another one by now.
ManageSave(m) ==
  /\ managing[m].at = "save"
  /\ lock[managing[m].project] = NONE
  /\ next' = [next EXCEPT ![managing[m].project] = managing[m].count]
  /\ managing' = [managing EXCEPT ![m] = Idle]
  /\ UNCHANGED <<task, lock, creating, editing, removing, given>>

-----------------------------------------------------------------------------
Init ==
  /\ task = [t \in Task |-> NONE]
  /\ next = [p \in Project |-> 1]
  /\ lock = [p \in Project |-> NONE]
  /\ creating = [c \in Creator |-> Idle]
  /\ editing = [e \in Editor |-> Idle]
  /\ removing = [r \in Remover |-> Idle]
  /\ managing = [m \in Manager |-> Idle]
  /\ given = {}

Create(c) == CreateBegin(c) \/ CreateLock(c) \/ CreateCommit(c) \/ CreateRollBack(c)
Update(e) == EditLoad(e) \/ EditValidate(e) \/ EditMove(e) \/ EditFind(e)
             \/ EditRead(e) \/ EditWrite(e)
Remove(r) == RemoveFind(r) \/ RemoveSubtasks(r) \/ RemoveTask(r)
Manage(m) == ManageLoad(m) \/ ManageSave(m)

Next ==
  \/ \E c \in Creator : Create(c)
  \/ \E e \in Editor : Update(e)
  \/ \E r \in Remover : Remove(r)
  \/ \E m \in Manager : Manage(m)

Spec == Init /\ [][Next]_vars

\* A request that has begun its transaction goes on, and the database gives
\* the lock to those that wait for it in turn.
Fairness ==
  \A c \in Creator : /\ SF_vars(CreateLock(c))
                     /\ WF_vars(CreateCommit(c) \/ CreateRollBack(c))

FairSpec == Spec /\ Fairness

-----------------------------------------------------------------------------
(* Properties                                                              *)

\* The rows, the locks and what the requests hold have their types.
TypeOK ==
  /\ task \in [Task -> Row \cup {NONE}]
  /\ next \in [Project -> Nat \ {0}]
  /\ lock \in [Project -> Creator \cup {NONE}]
  /\ creating \in [Creator -> Creating \cup {Idle}]
  /\ editing \in [Editor -> Editing \cup {Idle}]
  /\ removing \in [Remover -> Removing \cup {Idle}]
  /\ managing \in [Manager -> Managing \cup {Idle}]
  /\ given \in SUBSET [task : Task, project : Project, number : Nat \ {0}]

\* Nobody is among their own ancestors: while edits come one at a time,
\* the check that a parent is a root keeps the subtasks a forest, with tasks
\* created, moved, removed and saved again in between.
Acyclic ==
  \A S \in (SUBSET Present(task)) \ {{}} : \E t \in S : task[t].parent \notin S

\* "Subtasks cannot have their own subtasks" (src/errors/app-errors.ts:217).
TwoLevels ==
  \A t \in Present(task) : task[t].parent # NONE => task[task[t].parent].parent = NONE

\* The counter of a project is past every number in it, as the migration
\* 1751200000000 leaves it (MAX(task_number) + 1).
CounterAhead ==
  \A t \in Present(task) : task[t].number < next[task[t].project]

Numbers == INSTANCE TaskNumbers

\* Whatever happens to a task afterwards (moved, removed, saved again), the
\* number it was created with is not given to another task of that project,
\* and later tasks of the project have higher ones.
ImplementsNumbers == Numbers!Spec

\* A create that got to its transaction ends, whether it is committed or
\* rolled back, and so does every other one that waits for the same project.
CreateEnds ==
  \A c \in Creator : creating[c].at # "idle" ~> creating[c].at = "idle"
=============================================================================
