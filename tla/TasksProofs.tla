----------------------------- MODULE TasksProofs -----------------------------
(***************************************************************************)
(* Theorems about Tasks, for every set of tasks, projects and requests and *)
(* every set of edits.                                                     *)
(***************************************************************************)
EXTENDS Tasks, SequenceTheorems, TLAPS

-----------------------------------------------------------------------------
(* The helpers preserve the types                                          *)

LEMMA EditedType ==
  ASSUME NEW r \in Row, NEW d \in Body
  PROVE  Edited(r, d) \in Row
<1>1. Flags(r, d) \/ (r.bug /\ d.bug # "clear") \in BOOLEAN
  OBVIOUS
<1>2. QED
  BY <1>1 DEF Edited, Row, Body, Status, Flags

LEMMA OneStage == \A s \in Stage : <<s>> \in Seq(Stage)
OBVIOUS

LEMMA NoStage == <<>> \in Seq(Stage)
OBVIOUS

LEMMA Concat ==
  ASSUME NEW s \in Seq(Stage), NEW u \in Seq(Stage)
  PROVE  s \o u \in Seq(Stage) /\ Len(s \o u) = Len(s) + Len(u) /\ Len(s) \in Nat
OBVIOUS

LEMMA RestOfStages ==
  ASSUME NEW s \in Seq(Stage), s # <<>>, Len(s) # 1
  PROVE  Tail(s) \in Seq(Stage) /\ Tail(s) # <<>>
<1>1. Tail(s) \in Seq(Stage) /\ Len(Tail(s)) = Len(s) - 1
  BY HeadTailProperties
<1>2. Len(s) \in Nat
  OBVIOUS
<1>3. Len(Tail(s)) # 0
  BY <1>1, <1>2
<1>4. Len(<<>>) = 0
  OBVIOUS
<1>5. QED
  BY <1>1, <1>3, <1>4, Zenon

LEMMA StagesType ==
  ASSUME NEW r, NEW d
  PROVE  Stages(r, d) \in Seq(Stage) \ {<<>>}
<1> DEFINE root == Edited(r, d).parent = NONE
           s1 == IF d.parent \in Task THEN <<"validate">> ELSE <<>>
           s2 == IF Moves(r, d) THEN <<IF root THEN "move" ELSE "refuse">> ELSE <<>>
           s3 == IF Refused(r, d) THEN <<"refuse">> ELSE <<>>
           s4 == IF Flags(r, d) /\ root THEN <<"flag">> ELSE <<>>
           s5 == <<"own">>
           s6 == IF d.status = "done" /\ root THEN <<"done">> ELSE <<>>
           before == s1 \o s2 \o s3 \o s4
<1>1. Stages(r, d) = before \o s5 \o s6
  BY DEF Stages
<1>2. \A s \in Stage : <<s>> \in Seq(Stage)
  BY OneStage
<1>3. s1 \in Seq(Stage) /\ s3 \in Seq(Stage) /\ s4 \in Seq(Stage) /\ s6 \in Seq(Stage)
  <2>1. "validate" \in Stage /\ "refuse" \in Stage /\ "flag" \in Stage /\ "done" \in Stage
    BY DEF Stage
  <2>2. QED
    BY <1>2, <2>1, NoStage, Zenon
<1>4. s2 \in Seq(Stage)
  <2>1. (IF root THEN "move" ELSE "refuse") \in Stage
    BY DEF Stage
  <2>2. QED
    BY <1>2, <2>1, NoStage, Zenon
<1>5. s5 \in Seq(Stage) /\ Len(s5) = 1
  BY <1>2 DEF Stage
<1> HIDE DEF s1, s2, s3, s4, s5, s6
<1>6. before \in Seq(Stage)
  BY <1>3, <1>4, Concat
<1> HIDE DEF before
<1>7. before \o s5 \in Seq(Stage) /\ Len(before \o s5) >= 1
  BY <1>5, <1>6, Concat
<1>8. before \o s5 \o s6 \in Seq(Stage) /\ Len(before \o s5 \o s6) >= 1
  BY <1>3, <1>7, Concat
<1>9. QED
  BY <1>1, <1>8

LEMMA MergedType ==
  ASSUME NEW old \in Row, NEW new \in Row, NEW columns
  PROVE  Merged(old, new, columns) \in Row
BY DEF Merged, Row

-----------------------------------------------------------------------------
(* Types                                                                   *)

\* What TypeOK does not say and its proof needs: a number is read before it
\* is given, and a save writes only what it has an entity for.
Consistent ==
  /\ \A c \in Creator : creating[c].at = "locked" => creating[c].count # 0
  /\ \A e \in Editor : editing[e].at = "write" =>
       \A t \in Task : editing[e].batch[t] = NONE => editing[e].diff[t] = {}

Typed == TypeOK /\ Consistent

LEMMA IdleIsIdle ==
  /\ Idle.at = "idle"
  /\ \A q \in Creating \cup Editing \cup Removing \cup Managing : q.at # "idle"
BY DEF Idle, Creating, Editing, Removing, Managing

LEMMA AdvanceType ==
  ASSUME TypeOK, NEW e \in Editor, editing[e].at # "idle"
  PROVE  /\ Advance(e) \in Editing \cup {Idle}
         /\ Advance(e).at # "write"
<1>1. editing[e] \in Editing
  BY DEF TypeOK, Idle
<1> DEFINE q == editing[e]
<1>2. q.todo \in Seq(Stage) /\ q.todo # <<>>
  BY <1>1 DEF Editing
<1>3. CASE Len(q.todo) = 1 \/ q.todo[2] = "refuse"
  BY <1>3 DEF Advance, Idle
<1>4. CASE ~(Len(q.todo) = 1 \/ q.todo[2] = "refuse")
  <2>1. Tail(q.todo) \in Seq(Stage) /\ Tail(q.todo) # <<>>
    BY <1>2, <1>4, RestOfStages
  <2>2. NoRows \in [Task -> Row \cup {NONE}]
        /\ NoWrite \in [Task -> SUBSET (Column \cup {"insert"})]
    BY DEF NoRows, NoWrite
  <2>3. Advance(e) = [q EXCEPT !.at = "stage", !.todo = Tail(q.todo),
                               !.batch = NoRows, !.diff = NoWrite]
    BY <1>4 DEF Advance
  <2>4. QED
    BY <1>1, <2>1, <2>2, <2>3 DEF Editing
<1>5. QED
  BY <1>3, <1>4

LEMMA InitTyped == Init => Typed
BY DEF Init, Typed, TypeOK, Consistent, Idle, Row

LEMMA DeleteType ==
  ASSUME TypeOK, NEW ts, Delete(ts)
  PROVE  task' \in [Task -> Row \cup {NONE}]
BY DEF TypeOK, Delete

LEMMA CreateTyped ==
  ASSUME Typed, NEW c \in Creator, Create(c)
  PROVE  Typed'
<1>1. CASE CreateBegin(c)
  <2>1. PICK p \in Project, parent \in Task \cup {NONE} :
          creating' = [creating EXCEPT ![c] =
            [at |-> "ready", project |-> p, parent |-> parent, count |-> 0]]
    BY <1>1 DEF CreateBegin
  <2>2. creating' \in [Creator -> Creating \cup {Idle}]
    BY <2>1 DEF Typed, TypeOK, Creating
  <2>3. Consistent'
    BY <1>1, <2>1 DEF Typed, TypeOK, Consistent, CreateBegin
  <2>4. QED
    BY <1>1, <2>2, <2>3 DEF Typed, TypeOK, CreateBegin
<1>2. CASE CreateLock(c)
  <2>1. creating[c] \in Creating
    BY <1>2 DEF Typed, TypeOK, CreateLock, Idle
  <2>2. next[creating[c].project] \in Nat \ {0}
    BY <2>1 DEF Typed, TypeOK, Creating
  <2>3. creating' = [creating EXCEPT ![c] =
          [creating[c] EXCEPT !.at = "locked", !.count = next[creating[c].project]]]
    BY <1>2 DEF CreateLock
  <2>4. creating' \in [Creator -> Creating \cup {Idle}]
    BY <2>1, <2>2, <2>3 DEF Typed, TypeOK, Creating
  <2>5. lock' \in [Project -> Creator \cup {NONE}]
    BY <1>2 DEF Typed, TypeOK, CreateLock
  <2>6. Consistent'
    BY <1>2, <2>1, <2>2, <2>3 DEF Typed, TypeOK, Consistent, CreateLock, Creating
  <2>7. QED
    BY <1>2, <2>4, <2>5, <2>6 DEF Typed, TypeOK, CreateLock
<1>3. CASE CreateCommit(c)
  <2>1. creating[c] \in Creating /\ creating[c].count \in Nat \ {0}
    BY <1>3 DEF Typed, TypeOK, Consistent, CreateCommit, Idle, Creating
  <2>2. PICK t \in Task :
          /\ task' = With(t, creating[c])
          /\ given' = given \cup {[task |-> t, project |-> creating[c].project,
                                   number |-> creating[c].count]}
    BY <1>3 DEF CreateCommit, Fresh
  <2>3. task' \in [Task -> Row \cup {NONE}]
    BY <2>1, <2>2 DEF Typed, TypeOK, With, Row, Creating, Status
  <2>4. next' \in [Project -> Nat \ {0}]
    <3>1. creating[c].count + 1 \in Nat \ {0}
      BY <2>1
    <3>2. next' = [next EXCEPT ![creating[c].project] = creating[c].count + 1]
      BY <1>3 DEF CreateCommit
    <3>3. QED
      BY <3>1, <3>2 DEF Typed, TypeOK
  <2>5. given' \in SUBSET [task : Task, project : Project, number : Nat \ {0}]
    BY <2>1, <2>2 DEF Typed, TypeOK, Creating
  <2>6. /\ lock' \in [Project -> Creator \cup {NONE}]
        /\ creating' \in [Creator -> Creating \cup {Idle}]
    BY <1>3 DEF Typed, TypeOK, CreateCommit
  <2>7. Consistent'
    BY <1>3 DEF Typed, TypeOK, Consistent, CreateCommit, Idle
  <2>8. QED
    BY <1>3, <2>3, <2>4, <2>5, <2>6, <2>7 DEF Typed, TypeOK, CreateCommit
<1>4. CASE CreateRollBack(c)
  <2>1. /\ lock' \in [Project -> Creator \cup {NONE}]
        /\ creating' \in [Creator -> Creating \cup {Idle}]
    BY <1>4 DEF Typed, TypeOK, CreateRollBack, Unlocked
  <2>2. Consistent'
    BY <1>4 DEF Typed, TypeOK, Consistent, CreateRollBack, Idle
  <2>3. QED
    BY <1>4, <2>1, <2>2 DEF Typed, TypeOK, CreateRollBack
<1>5. QED
  BY <1>1, <1>2, <1>3, <1>4 DEF Create
LEMMA FindType ==
  ASSUME TypeOK, NEW q \in Editing
  PROVE  Found(q) \in [Task -> Row \cup {NONE}]
<1> DEFINE target == IF Head(q.todo) = "flag" THEN "todo" ELSE "done"
<1>1. target \in Status
  BY DEF Status
<1>2. \A s \in Children(task, q.self) : task[s] \in Row
  BY DEF Children, Present, TypeOK
<1>3. \A s \in Children(task, q.self) : [task[s] EXCEPT !.status = target] \in Row
  BY <1>1, <1>2 DEF Row
<1>4. QED
  BY <1>3 DEF Found

LEMMA SavedType ==
  ASSUME TypeOK, NEW q \in Editing,
         \A t \in Task : q.batch[t] = NONE => q.diff[t] = {}
  PROVE  Saved(q) \in [Task -> Row \cup {NONE}]
<1> SUFFICES ASSUME NEW t \in Task PROVE Written(q, t) \in Row \cup {NONE}
  BY DEF Saved
<1>1. q.batch[t] \in Row \cup {NONE} /\ task[t] \in Row \cup {NONE}
  BY DEF Editing, TypeOK
<1>2. CASE "insert" \in q.diff[t]
  BY <1>1, <1>2 DEF Written
<1>3. CASE "insert" \notin q.diff[t] /\ task[t] = NONE
  BY <1>3 DEF Written
<1>4. CASE "insert" \notin q.diff[t] /\ task[t] # NONE /\ q.batch[t] # NONE
  BY <1>1, <1>4, MergedType DEF Written
<1>5. CASE "insert" \notin q.diff[t] /\ task[t] # NONE /\ q.batch[t] = NONE
  <2>1. q.diff[t] = {} /\ task[t] \in Row
    BY <1>1, <1>5
  <2>2. Written(q, t) = Merged(task[t], q.batch[t], {})
    BY <1>5, <2>1 DEF Written
  <2>3. Merged(task[t], q.batch[t], {}) \in Row
    BY <2>1 DEF Merged, Row
  <2>4. QED
    BY <2>2, <2>3
<1>6. QED
  BY <1>2, <1>3, <1>4, <1>5

LEMMA UpdateTyped ==
  ASSUME Typed, NEW e \in Editor, Update(e)
  PROVE  Typed'
<1> USE DEF Typed
<1>1. CASE EditLoad(e)
  <2>1. PICK t \in Present(task), d \in Edit :
          editing' = [editing EXCEPT ![e] =
            [at |-> "stage", self |-> t, from |-> task[t].project,
             entity |-> Edited(task[t], d), todo |-> Stages(task[t], d),
             batch |-> NoRows, diff |-> NoWrite]]
    BY <1>1 DEF EditLoad
  <2>2. t \in Task /\ task[t] \in Row /\ d \in Body
    BY NamesAssumption DEF Present, TypeOK
  <2>3. Edited(task[t], d) \in Row /\ Stages(task[t], d) \in Seq(Stage) \ {<<>>}
    BY <2>2, EditedType, StagesType
  <2>4. /\ NoRows \in [Task -> Row \cup {NONE}]
        /\ NoWrite \in [Task -> SUBSET (Column \cup {"insert"})]
        /\ task[t].project \in Project
    BY <2>2 DEF NoRows, NoWrite, Row
  <2> DEFINE q == [at |-> "stage", self |-> t, from |-> task[t].project,
                   entity |-> Edited(task[t], d), todo |-> Stages(task[t], d),
                   batch |-> NoRows, diff |-> NoWrite]
  <2>5. q \in Editing /\ q.at = "stage"
    BY <2>2, <2>3, <2>4 DEF Editing
  <2> HIDE DEF q
  <2>6. editing' = [editing EXCEPT ![e] = q]
    BY <2>1 DEF q
  <2>7. QED
    BY <1>1, <2>5, <2>6 DEF TypeOK, Consistent, EditLoad
<1>2. CASE EditValidate(e) \/ EditMove(e) \/ EditFind(e) \/ EditRead(e) \/ EditWrite(e)
  <2>1. editing[e] \in Editing /\ editing[e].at # "idle"
    BY <1>2 DEF TypeOK, Idle, EditValidate, EditMove, EditFind, EditRead, EditWrite, InStage
  <2>2. Advance(e) \in Editing \cup {Idle} /\ Advance(e).at # "write" /\ Idle.at # "write"
    BY <2>1, AdvanceType DEF Idle
  <2>3. \/ \E q \in Editing \cup {Idle} : /\ q.at # "write"
                                       /\ editing' = [editing EXCEPT ![e] = q]
        \/ EditRead(e)
    <3>1. CASE EditFind(e)
      <4>1. CASE Found(editing[e]) = NoRows
        BY <2>2, <3>1, <4>1 DEF EditFind
      <4>2. CASE Found(editing[e]) # NoRows
        <5>1. editing' = [editing EXCEPT ![e] =
                [editing[e] EXCEPT !.at = "read", !.batch = Found(editing[e])]]
          BY <3>1, <4>2 DEF EditFind
        <5>2. [editing[e] EXCEPT !.at = "read", !.batch = Found(editing[e])] \in Editing
          BY <2>1, FindType DEF Editing
        <5>3. [editing[e] EXCEPT !.at = "read", !.batch = Found(editing[e])].at # "write"
          BY <2>1 DEF Editing
        <5>4. QED
          BY <5>1, <5>2, <5>3
      <4>3. QED
        BY <4>1, <4>2
    <3>2. CASE EditValidate(e)
      BY <2>2, <3>2 DEF EditValidate
    <3>3. CASE EditMove(e)
      BY <2>2, <3>3 DEF EditMove
    <3>4. CASE EditWrite(e)
      BY <2>2, <3>4 DEF EditWrite
    <3>5. QED
      BY <1>2, <3>1, <3>2, <3>3, <3>4
  <2>4. /\ editing' \in [Editor -> Editing \cup {Idle}]
        /\ \A f \in Editor : editing[f]'.at = "write" =>
             \A t \in Task : editing[f]'.batch[t] = NONE => editing[f]'.diff[t] = {}
    <3>1. CASE \E q \in Editing \cup {Idle} : /\ q.at # "write"
                                            /\ editing' = [editing EXCEPT ![e] = q]
      BY <3>1 DEF TypeOK, Consistent
    <3>2. CASE EditRead(e)
      <4> DEFINE ent == Entities(editing[e])
                 q == [editing[e] EXCEPT !.at = "write", !.batch = ent,
                                         !.diff = DiffOf(ent)]
      <4>1. ent \in [Task -> Row \cup {NONE}]
        BY <2>1 DEF Entities, Editing, NoRows
      <4>2. /\ DiffOf(ent) \in [Task -> SUBSET (Column \cup {"insert"})]
            /\ \A t \in Task : ent[t] = NONE => DiffOf(ent)[t] = {}
        BY <4>1 DEF DiffOf
      <4>3. q \in Editing /\ q.batch = ent /\ q.diff = DiffOf(ent)
        BY <2>1, <4>1, <4>2 DEF Editing
      <4>4. editing' = [editing EXCEPT ![e] = q]
        BY <3>2 DEF EditRead
      <4> HIDE DEF q, ent
      <4>5. QED
        BY <4>2, <4>3, <4>4 DEF TypeOK, Consistent
    <3>3. QED
      BY <2>3, <3>1, <3>2
  <2>5. task' \in [Task -> Row \cup {NONE}]
    <3>1. CASE EditMove(e)
      <4>1. \A t \in Children(task, editing[e].self) :
              [task[t] EXCEPT !.project = editing[e].entity.project] \in Row
        BY <2>1 DEF Children, Present, TypeOK, Editing, Row
      <4>2. SubtasksMoved(editing[e]) \in [Task -> Row \cup {NONE}]
        BY <4>1 DEF SubtasksMoved, TypeOK
      <4>3. QED
        BY <3>1, <4>2 DEF EditMove, TypeOK
    <3>2. CASE EditWrite(e)
      <4>1. \A t \in Task : editing[e].batch[t] = NONE => editing[e].diff[t] = {}
        BY <3>2 DEF EditWrite, Consistent
      <4>2. Saved(editing[e]) \in [Task -> Row \cup {NONE}]
        BY <2>1, <4>1, SavedType
      <4>3. QED
        BY <3>2, <4>2 DEF EditWrite, TypeOK
    <3>3. QED
      BY <1>2, <3>1, <3>2 DEF EditValidate, EditFind, EditRead, TypeOK
  <2>6. UNCHANGED <<next, lock, creating, removing, managing, given>>
    BY <1>2 DEF EditValidate, EditMove, EditFind, EditRead, EditWrite
  <2>7. QED
    BY <2>4, <2>5, <2>6 DEF TypeOK, Consistent
<1>3. QED
  BY <1>1, <1>2 DEF Update

LEMMA RemoveTyped ==
  ASSUME Typed, NEW r \in Remover, Remove(r)
  PROVE  Typed'
<1> USE DEF Typed
<1>1. CASE RemoveFind(r)
  <2>1. PICK t \in Present(task) :
          removing' = [removing EXCEPT ![r] =
            [at |-> IF Children(task, t) = {} THEN "last" ELSE "subtasks",
             self |-> t, subtasks |-> Children(task, t)]]
    BY <1>1 DEF RemoveFind
  <2>2. [at |-> IF Children(task, t) = {} THEN "last" ELSE "subtasks",
         self |-> t, subtasks |-> Children(task, t)] \in Removing
    BY DEF Removing, Present, Children
  <2>3. QED
    BY <1>1, <2>1, <2>2 DEF TypeOK, Consistent, RemoveFind
<1>2. CASE RemoveSubtasks(r)
  <2>1. removing[r] \in Removing
    BY <1>2 DEF RemoveSubtasks, TypeOK, Idle
  <2>2. [removing[r] EXCEPT !.at = "last", !.subtasks = {}] \in Removing
    BY <2>1 DEF Removing
  <2>3. task' \in [Task -> Row \cup {NONE}]
    BY <1>2, DeleteType DEF RemoveSubtasks
  <2>4. QED
    BY <1>2, <2>2, <2>3 DEF TypeOK, Consistent, RemoveSubtasks
<1>3. CASE RemoveTask(r)
  <2>1. task' \in [Task -> Row \cup {NONE}]
    BY <1>3, DeleteType DEF RemoveTask
  <2>2. QED
    BY <1>3, <2>1 DEF TypeOK, Consistent, RemoveTask
<1>4. QED
  BY <1>1, <1>2, <1>3 DEF Remove

LEMMA ManageTyped ==
  ASSUME Typed, NEW m \in Manager, Manage(m)
  PROVE  Typed'
<1> USE DEF Typed
<1>1. CASE ManageLoad(m)
  <2>1. PICK p \in Project :
          managing' = [managing EXCEPT ![m] =
            [at |-> "save", project |-> p, count |-> next[p]]]
    BY <1>1 DEF ManageLoad
  <2>2. [at |-> "save", project |-> p, count |-> next[p]] \in Managing
    BY DEF Managing, TypeOK
  <2>3. QED
    BY <1>1, <2>1, <2>2 DEF TypeOK, Consistent, ManageLoad
<1>2. CASE ManageSave(m)
  <2>1. managing[m] \in Managing
    BY <1>2 DEF ManageSave, TypeOK, Idle
  <2>2. managing[m].count \in Nat \ {0}
    BY <2>1 DEF Managing
  <2>3. QED
    BY <1>2, <2>2 DEF TypeOK, Consistent, ManageSave
<1>3. QED
  BY <1>1, <1>2 DEF Manage

LEMMA StepTyped == Typed /\ [Next]_vars => Typed'
<1>1. ASSUME Typed, UNCHANGED vars PROVE Typed'
  BY <1>1 DEF Typed, TypeOK, Consistent, vars, requests
<1>2. QED
  BY <1>1, CreateTyped, UpdateTyped, RemoveTyped, ManageTyped DEF Next

\* The rows, the counters, the locks and what each request has in memory keep
\* their types in every reachable state: a save that finds its row gone, or
\* that merges a stale entity into a newer row, still leaves whole rows.
THEOREM TypeCorrect == Spec => []TypeOK
<1>1. Typed => TypeOK
  BY DEF Typed
<1>2. QED
  BY InitTyped, StepTyped, <1>1, PTL DEF Spec
-----------------------------------------------------------------------------
(* Numbers                                                                 *)

\* Every number given is behind the counter, and a creator in its transaction
\* holds the project and has read the counter as it is.
Ahead == \A g \in given : g.number < next[g.project]

Holds(c) == /\ lock[creating[c].project] = c
            /\ creating[c].count = next[creating[c].project]

Held == \A c \in Creator : creating[c].at = "locked" => Holds(c)

NumbersInv == Typed /\ Ahead /\ Held

LEMMA InitNumbers == Init => NumbersInv
BY InitTyped DEF Init, NumbersInv, Ahead, Held, Idle

LEMMA LockKeepsNumbers ==
  ASSUME NumbersInv, NEW c \in Creator, CreateLock(c)
  PROVE  (Ahead /\ Held)'
<1>1. creating[c] \in Creating
  BY DEF NumbersInv, Typed, TypeOK, CreateLock, Idle
<1> DEFINE p == creating[c].project
<1>2. p \in Project /\ lock[p] = NONE /\ next' = next /\ given' = given
  BY <1>1 DEF Creating, CreateLock, MayLock
<1>3. /\ creating'[c].project = p
      /\ creating'[c].count = next[p]
      /\ lock'[p] = c
  BY <1>1, <1>2 DEF NumbersInv, Typed, TypeOK, CreateLock, Creating
<1>4. ASSUME NEW b \in Creator, creating'[b].at = "locked", b # c
      PROVE  Holds(b)'
  <2>1. creating'[b] = creating[b]
    BY <1>4 DEF NumbersInv, Typed, TypeOK, CreateLock
  <2>2. creating[b] \in Creating /\ lock[creating[b].project] = b
    BY <1>4, <2>1 DEF NumbersInv, Held, Holds, Typed, TypeOK, Idle
  <2>3. creating[b].project # p
    BY <1>2, <2>2, NamesAssumption
  <2>4. lock'[creating[b].project] = b
    BY <1>2, <2>2, <2>3 DEF NumbersInv, Typed, TypeOK, CreateLock, Creating
  <2>5. QED
    BY <1>2, <1>4, <2>1, <2>4 DEF NumbersInv, Held, Holds
<1>5. QED
  BY <1>2, <1>3, <1>4 DEF NumbersInv, Ahead, Held, Holds

LEMMA CommitKeepsNumbers ==
  ASSUME NumbersInv, NEW c \in Creator, CreateCommit(c)
  PROVE  (Ahead /\ Held)' /\ Numbers!Next
<1>1. creating[c] \in Creating /\ Holds(c)
  BY DEF NumbersInv, Typed, TypeOK, CreateCommit, Idle, Held
<1> DEFINE p == creating[c].project
           n == creating[c].count
<1>2. p \in Project /\ n \in Nat \ {0} /\ n = next[p] /\ lock[p] = c
  BY <1>1 DEF Creating, Holds, NumbersInv, Typed, TypeOK
<1>3. PICK t \in Fresh : given' = given \cup {[task |-> t, project |-> p, number |-> n]}
  BY DEF CreateCommit
<1>4. next' = [next EXCEPT ![p] = n + 1]
      /\ lock' = [lock EXCEPT ![p] = NONE]
      /\ creating' = [creating EXCEPT ![c] = Idle]
  BY DEF CreateCommit
<1> DEFINE new == [task |-> t, project |-> p, number |-> n]
<1>5. Ahead'
  <2>1. ASSUME NEW g \in given PROVE g.number < next'[g.project]
    <3>1. g.project \in Project /\ g.number \in Nat /\ g.number < next[g.project]
      BY DEF NumbersInv, Ahead, Typed, TypeOK
    <3>2. next[g.project] \in Nat
      BY <3>1 DEF NumbersInv, Typed, TypeOK
    <3>3. QED
      BY <1>2, <1>4, <3>1, <3>2 DEF NumbersInv, Typed, TypeOK
  <2>2. new.number < next'[new.project]
    BY <1>2, <1>4 DEF NumbersInv, Typed, TypeOK
  <2>3. QED
    BY <1>3, <2>1, <2>2 DEF Ahead
<1>6. Held'
  <2> SUFFICES ASSUME NEW b \in Creator, creating'[b].at = "locked"
               PROVE  Holds(b)'
    BY DEF Held
  <2>1. b # c
    BY <1>4 DEF NumbersInv, Typed, TypeOK, Idle
  <2>2. creating'[b] = creating[b] /\ creating[b].at = "locked"
    BY <1>4, <2>1 DEF NumbersInv, Typed, TypeOK
  <2>3. Holds(b) /\ creating[b] \in Creating
    BY <2>2 DEF NumbersInv, Held, Typed, TypeOK, Idle
  <2>4. creating[b].project # p /\ creating[b].project \in Project
    BY <1>2, <2>1, <2>3 DEF Holds, Creating
  <2>5. QED
    BY <1>4, <2>2, <2>3, <2>4 DEF Holds, NumbersInv, Typed, TypeOK
<1>7. Numbers!Next
  <2>1. \A h \in given : h.task # new.task /\ (h.project = new.project => h.number < new.number)
    BY <1>2, <1>3 DEF NumbersInv, Ahead, Fresh
  <2>2. Numbers!Give(new)
    BY <1>3, <2>1 DEF Numbers!Give
  <2>3. new \in given'
    BY <1>3
  <2>4. QED
    BY <2>2, <2>3 DEF Numbers!Next
<1>8. QED
  BY <1>5, <1>6, <1>7

\* The other steps of a creator leave the counters alone and let go of no
\* project but their own.
LEMMA OthersKeepNumbers ==
  ASSUME NumbersInv, NEW c \in Creator, CreateBegin(c) \/ CreateRollBack(c)
  PROVE  (Ahead /\ Held)' /\ given' = given
<1>1. next' = next /\ given' = given
  BY DEF CreateBegin, CreateRollBack
<1>2. creating'[c].at # "locked" /\ \A b \in Creator \ {c} : creating'[b] = creating[b]
  <2>1. \E q : creating' = [creating EXCEPT ![c] = q] /\ q.at # "locked"
    <3>1. CASE CreateBegin(c)
      <4>1. PICK p \in Project, parent \in Task \cup {NONE} :
              creating' = [creating EXCEPT ![c] =
                [at |-> "ready", project |-> p, parent |-> parent, count |-> 0]]
        BY <3>1 DEF CreateBegin
      <4> DEFINE q == [at |-> "ready", project |-> p, parent |-> parent, count |-> 0]
      <4>2. q.at # "locked"
        OBVIOUS
      <4> HIDE DEF q
      <4>3. creating' = [creating EXCEPT ![c] = q]
        BY <4>1 DEF q
      <4>4. QED
        BY <4>2, <4>3
    <3>2. CASE CreateRollBack(c)
      <4>1. creating' = [creating EXCEPT ![c] = Idle]
        BY <3>2 DEF CreateRollBack
      <4>2. Idle.at # "locked"
        BY DEF Idle
      <4>3. QED
        BY <4>1, <4>2
    <3>3. QED
      BY <3>1, <3>2
  <2>2. QED
    BY <2>1 DEF NumbersInv, Typed, TypeOK
<1>3. ASSUME NEW b \in Creator \ {c}, creating[b].at = "locked"
      PROVE  lock'[creating[b].project] = b
  <2>1. Holds(b) /\ creating[b] \in Creating
    BY <1>3 DEF NumbersInv, Held, Typed, TypeOK, Idle
  <2>2. CASE CreateBegin(c)
    BY <2>1, <2>2 DEF CreateBegin, Holds
  <2>3. CASE CreateRollBack(c)
    <3>1. Holds(c) /\ creating[c] \in Creating
      BY <2>3 DEF CreateRollBack, NumbersInv, Held, Typed, TypeOK, Idle
    <3>2. creating[b].project # creating[c].project
      BY <1>3, <2>1, <3>1 DEF Holds
    <3>3. QED
      BY <2>1, <2>3, <3>2 DEF CreateRollBack, Unlocked, Holds, NumbersInv, Typed, TypeOK,
         Creating
  <2>4. QED
    BY <2>2, <2>3
<1>4. QED
  BY <1>1, <1>2, <1>3 DEF NumbersInv, Ahead, Held, Holds

\* No counter falls.  Only ManageSave can make one fall: it writes the one that it
\* loaded, however many tasks were created since.
CountersGrow == \A p \in Project : next'[p] >= next[p]

\* A save of the settings waits for the creator that holds the project, and gives
\* it a counter that is not behind.
LEMMA ManageKeepsNumbers ==
  ASSUME NumbersInv, NEW m \in Manager, Manage(m), [CountersGrow]_next
  PROVE  (Ahead /\ Held)' /\ given' = given
<1>1. given' = given /\ creating' = creating /\ lock' = lock
  BY DEF Manage, ManageLoad, ManageSave
<1>2. \A p \in Project : next[p] \in Nat /\ next'[p] \in Nat /\ next'[p] >= next[p]
  <2>1. Typed'
    BY ManageTyped DEF NumbersInv
  <2> QED
    BY <2>1 DEF NumbersInv, Typed, TypeOK, CountersGrow
<1>3. Ahead'
  <2>1. ASSUME NEW g \in given PROVE g.number < next'[g.project]
    <3>1. g.project \in Project /\ g.number \in Nat /\ g.number < next[g.project]
      BY DEF NumbersInv, Ahead, Typed, TypeOK
    <3> QED
      BY <1>2, <3>1
  <2> QED
    BY <1>1, <2>1 DEF Ahead
<1>4. Held'
  <2> SUFFICES ASSUME NEW c \in Creator, creating[c].at = "locked"
               PROVE  /\ lock[creating[c].project] = c
                      /\ creating[c].count = next'[creating[c].project]
    BY <1>1 DEF Held, Holds
  <2>1. creating[c] \in Creating /\ Holds(c)
    BY DEF NumbersInv, Held, Typed, TypeOK, Idle
  <2>2. CASE ManageLoad(m)
    BY <2>1, <2>2 DEF ManageLoad, Holds
  <2>3. CASE ManageSave(m)
    <3>1. creating[c].project # managing[m].project
      BY <2>1, <2>3, NamesAssumption DEF Holds, ManageSave
    <3>2. next' = [next EXCEPT ![managing[m].project] = managing[m].count]
      BY <2>3 DEF ManageSave
    <3> QED
      BY <2>1, <3>1, <3>2 DEF Holds, Creating, NumbersInv, Typed, TypeOK
  <2> QED
    BY <2>2, <2>3 DEF Manage
<1> QED
  BY <1>1, <1>3, <1>4

LEMMA StepNumbers ==
  ASSUME NumbersInv, [Next]_vars, [CountersGrow]_next
  PROVE  NumbersInv' /\ [Numbers!Next]_given
<1>1. Typed'
  BY StepTyped DEF NumbersInv
<1>2. ASSUME NEW c \in Creator, Create(c)
      PROVE  (Ahead /\ Held)' /\ [Numbers!Next]_given
  BY <1>2, LockKeepsNumbers, CommitKeepsNumbers, OthersKeepNumbers DEF Create, CreateLock
<1>3. ASSUME UNCHANGED <<next, lock, creating, given>>
      PROVE  (Ahead /\ Held)' /\ [Numbers!Next]_given
  BY <1>3 DEF NumbersInv, Ahead, Held, Holds
<1>4. ASSUME NEW e \in Editor, Update(e)
      PROVE  UNCHANGED <<next, lock, creating, given>>
  BY <1>4 DEF Update, EditLoad, EditValidate, EditMove, EditFind, EditRead, EditWrite
<1>5. ASSUME NEW r \in Remover, Remove(r)
      PROVE  UNCHANGED <<next, lock, creating, given>>
  BY <1>5 DEF Remove, RemoveFind, RemoveSubtasks, RemoveTask
<1>6. ASSUME UNCHANGED vars
      PROVE  UNCHANGED <<next, lock, creating, given>>
  BY <1>6 DEF vars, requests
<1>7. \/ \E c \in Creator : Create(c)
      \/ \E e \in Editor : Update(e)
      \/ \E r \in Remover : Remove(r)
      \/ \E m \in Manager : Manage(m)
      \/ UNCHANGED vars
  BY DEF Next
<1>8. ASSUME NEW m \in Manager, Manage(m)
      PROVE  (Ahead /\ Held)' /\ [Numbers!Next]_given
  BY <1>8, ManageKeepsNumbers
<1>9. (Ahead /\ Held)' /\ [Numbers!Next]_given
  BY <1>2, <1>3, <1>4, <1>5, <1>6, <1>7, <1>8, Zenon
<1>10. QED
  BY <1>1, <1>9 DEF NumbersInv

\* However many creators, editors, removers and managers run at once, and whatever
\* is moved, removed or saved again: the numbers that create gives to the tasks of a
\* project only grow, so that no display id is given twice, as long as no counter
\* falls.  A save of the settings of a project (projects.service.ts:118) may make one
\* fall; the theorem says that nothing else brings a number back.
THEOREM NumbersImplemented ==
  Spec /\ [][CountersGrow]_next => ImplementsNumbers
<1>1. Init => Numbers!Init
  BY DEF Init, Numbers!Init
<1>2. NumbersInv /\ [Next]_vars /\ [CountersGrow]_next => NumbersInv' /\ [Numbers!Next]_given
  BY StepNumbers
<1>3. QED
  BY InitNumbers, <1>1, <1>2, PTL DEF Spec, ImplementsNumbers, Numbers!Spec

-----------------------------------------------------------------------------
(* The forest.  A save may give a row an old parent, or give a row that is    *)
(* gone back its place: what the editor holds has to be part of the invariant.*)

GivenTasks == {g.task : g \in given}

Forest(table) ==
  \A S \in (SUBSET Present(table)) \ {{}} : \E t \in S : table[t].parent \notin S

\* The foreign key.
Rooted(table) ==
  \A t \in Present(table) : table[t].parent \in (Present(table) \ {t}) \cup {NONE}

\* The stages of an edit that makes its task a subtask.
Narrow == {"validate", "own", "refuse"}

\* Where an edit is going to put its task: nowhere, where it is, or under a root.
Placed(table, known, q) ==
  q.entity.parent # NONE =>
    /\ q.entity.parent \in known
    /\ table[q.self] # NONE /\ table[q.entity.parent] # NONE =>
         \/ table[q.self].parent = q.entity.parent
         \/ table[q.entity.parent].parent = NONE

\* The save writes the task itself, or some of its subtasks.
SavesSelf(q) ==
  /\ q.at = "write" /\ Head(q.todo) # "validate"
  /\ q.batch = [NoRows EXCEPT ![q.self] = q.entity]

SavesSubtasks(table, known, q) ==
  /\ q.entity.parent = NONE
  /\ \A s \in Task : q.batch[s] # NONE =>
       /\ s # q.self /\ s \in known
       /\ q.batch[s].parent = q.self
       /\ table[s] # NONE => table[s].parent = q.self

\* What q would write makes no cycle.
Harmless(table, known, q) ==
  /\ q.self \in known
  /\ q.entity.parent # q.self
  /\ q.entity.parent # NONE => q.todo \in Seq(Narrow)
  /\ Head(q.todo) # "validate" => Placed(table, known, q)
  /\ q.at \in {"read", "write"} => SavesSelf(q) \/ SavesSubtasks(table, known, q)

ForestParts ==
  /\ Present(task) \subseteq GivenTasks
  /\ Rooted(task)
  /\ Forest(task)
  /\ \A e \in Editor : editing[e].at # "idle" => Harmless(task, GivenTasks, editing[e])

ForestInv == Typed /\ ForestParts

Table == [Task -> Row \cup {NONE}]

LEMMA RowIsSome == NONE \notin Task /\ NONE \notin Creator
BY NamesAssumption

\* Rows that are new, and that no other new row is above, close no cycle.
LEMMA ForestGrows ==
  ASSUME NEW old \in Table, NEW new \in Table, NEW N \in SUBSET Task,
         Forest(old), Rooted(old),
         N \cap Present(old) = {},
         Present(new) \subseteq Present(old) \cup N,
         \A t \in Present(new) \ N : new[t].parent = old[t].parent,
         \A t \in Present(new) \cap N : new[t].parent \notin N
  PROVE  Forest(new)
<1> SUFFICES ASSUME NEW S \in SUBSET Present(new), S # {}
             PROVE  \E t \in S : new[t].parent \notin S
  BY DEF Forest
<1>1. CASE S \subseteq N
  BY <1>1
<1>2. CASE ~(S \subseteq N)
  <2>1. S \ N \in (SUBSET Present(old)) \ {{}}
    BY <1>2
  <2>2. PICK t \in S \ N : old[t].parent \notin S \ N
    BY <2>1 DEF Forest
  <2>3. old[t].parent \in Present(old) \cup {NONE}
    BY <2>1, <2>2 DEF Rooted
  <2>4. old[t].parent \notin N
    BY <2>3, RowIsSome
  <2> QED
    BY <2>2, <2>4
<1> QED
  BY <1>1, <1>2

\* One row that is put under a root closes no cycle.
LEMMA ForestMoves ==
  ASSUME NEW old \in Table, NEW new \in Table, NEW x \in Task,
         Forest(old), Present(new) \subseteq Present(old),
         \A t \in Present(new) \ {x} : new[t].parent = old[t].parent,
         x \in Present(new) =>
           \/ new[x].parent \in {NONE, old[x].parent}
           \/ new[x].parent # x /\ old[new[x].parent].parent = NONE
  PROVE  Forest(new)
<1> SUFFICES ASSUME NEW S \in SUBSET Present(new), S # {}
             PROVE  \E t \in S : new[t].parent \notin S
  BY DEF Forest
<1>1. PICK t \in S : old[t].parent \notin S
  BY DEF Forest
<1>2. NONE \notin S
  BY RowIsSome DEF Present
<1>3. CASE x \notin S \/ new[x].parent = old[x].parent
  BY <1>1, <1>3
<1>4. CASE x \in S /\ new[x].parent \notin S
  BY <1>4
<1>5. CASE new[x].parent \in S /\ new[x].parent # x /\ old[new[x].parent].parent = NONE
  BY <1>2, <1>5
<1> QED
  BY <1>2, <1>3, <1>4, <1>5

\* A delete takes everything below along, so the foreign key holds after it.
LEMMA DeleteForest ==
  ASSUME ForestInv, NEW ts, Delete(ts)
  PROVE  /\ \A t \in Task : task'[t] \in {task[t], NONE}
         /\ Rooted(task') /\ Forest(task')
<1>1. \A t \in Task : task'[t] = (IF t \in Cascade(ts) THEN NONE ELSE task[t])
  BY DEF Delete
<1>2. task \in Table /\ task' \in Table
  BY DeleteType DEF ForestInv, Typed, TypeOK, Table
<1>3. Present(task') = Present(task) \ Cascade(ts)
  BY <1>1 DEF Present
<1>4. ASSUME NEW t \in Present(task), task[t].parent \in Cascade(ts)
      PROVE  t \in Cascade(ts)
  <2> SUFFICES ASSUME NEW S \in SUBSET Present(task),
                      ts \cap Present(task) \subseteq S,
                      \A s \in S : Children(task, s) \subseteq S
               PROVE  t \in S
    BY DEF Cascade
  <2>1. task[t].parent \in S
    BY <1>4 DEF Cascade
  <2> QED
    BY <2>1 DEF Children
<1>5. Rooted(task')
  <2> SUFFICES ASSUME NEW t \in Present(task')
               PROVE  task'[t].parent \in (Present(task') \ {t}) \cup {NONE}
    BY DEF Rooted
  <2>1. t \in Present(task) /\ t \notin Cascade(ts) /\ task'[t] = task[t]
    BY <1>1, <1>3 DEF Present
  <2>2. task[t].parent \in (Present(task) \ {t}) \cup {NONE}
    BY <2>1 DEF ForestInv, ForestParts, Rooted
  <2> QED
    BY <1>3, <1>4, <2>1, <2>2
<1>6. \A t \in Present(task') : task'[t].parent = task[t].parent
  BY <1>1 DEF Present
<1>7. Forest(task')
  <2>1. Forest(task) /\ Rooted(task)
    BY DEF ForestInv, ForestParts
  <2> DEFINE N == {}
  <2>2. /\ N \in SUBSET Task /\ N \cap Present(task) = {}
        /\ Present(task') \subseteq Present(task) \cup N
        /\ \A t \in Present(task') \ N : task'[t].parent = task[t].parent
        /\ \A t \in Present(task') \cap N : task'[t].parent \notin N
    BY <1>3, <1>6
  <2> HIDE DEF N
  <2> QED
    BY <1>2, <2>1, <2>2, ForestGrows
<1> QED
  BY <1>1, <1>5, <1>7

\* What others do to the table leaves an edit harmless: tasks go, are new, or
\* stay where they are.
LEMMA HarmlessStays ==
  ASSUME NEW old, NEW new, NEW known \in SUBSET Task, NEW known2, NEW q \in Editing,
         Harmless(old, known, q), known \subseteq known2,
         \A t \in known : new[t] # NONE => old[t] # NONE /\ new[t].parent = old[t].parent
  PROVE  Harmless(new, known2, q)
<1>1. Placed(old, known, q) => Placed(new, known2, q)
  BY DEF Placed, Harmless
<1> QED
  BY <1>1 DEF Harmless, SavesSelf, SavesSubtasks

LEMMA NarrowStages ==
  ASSUME NEW r, NEW d, Edited(r, d).parent # NONE
  PROVE  Stages(r, d) \in Seq(Narrow)
<1> DEFINE s1 == IF d.parent \in Task THEN <<"validate">> ELSE <<>>
           s2 == IF Moves(r, d) THEN <<"refuse">> ELSE <<>>
           s3 == IF Refused(r, d) THEN <<"refuse">> ELSE <<>>
<1>1. Stages(r, d) = s1 \o s2 \o s3 \o <<>> \o <<"own">> \o <<>>
  BY DEF Stages
<1>2. \A s \in Narrow : <<s>> \in Seq(Narrow)
  OBVIOUS
<1>3. <<>> \in Seq(Narrow) /\ <<"validate">> \in Seq(Narrow) /\ <<"refuse">> \in Seq(Narrow)
      /\ <<"own">> \in Seq(Narrow)
  BY <1>2 DEF Narrow
<1>4. \A s, u \in Seq(Narrow) : s \o u \in Seq(Narrow)
  OBVIOUS
<1>5. s1 \in Seq(Narrow) /\ s2 \in Seq(Narrow) /\ s3 \in Seq(Narrow)
  BY <1>3, Zenon
<1> HIDE DEF s1, s2, s3
<1>6. s1 \o s2 \in Seq(Narrow)
  BY <1>4, <1>5
<1>7. s1 \o s2 \o s3 \in Seq(Narrow)
  BY <1>4, <1>5, <1>6
<1>8. s1 \o s2 \o s3 \o <<>> \in Seq(Narrow)
  BY <1>3, <1>4, <1>7
<1>9. s1 \o s2 \o s3 \o <<>> \o <<"own">> \in Seq(Narrow)
  BY <1>3, <1>4, <1>8
<1> QED
  BY <1>1, <1>3, <1>4, <1>9

\* A new parent is looked at before anything else.
LEMMA ValidateFirst ==
  ASSUME NEW r, NEW d, d.parent \in Task
  PROVE  Head(Stages(r, d)) = "validate"
<1> DEFINE root == Edited(r, d).parent = NONE
           s2 == IF Moves(r, d) THEN <<IF root THEN "move" ELSE "refuse">> ELSE <<>>
           s3 == IF Refused(r, d) THEN <<"refuse">> ELSE <<>>
           s4 == IF Flags(r, d) /\ root THEN <<"flag">> ELSE <<>>
           s6 == IF d.status = "done" /\ root THEN <<"done">> ELSE <<>>
<1>1. Stages(r, d) = <<"validate">> \o s2 \o s3 \o s4 \o <<"own">> \o s6
  BY DEF Stages
<1>2. \A s \in Stage : <<s>> \in Seq(Stage)
  BY OneStage
<1>3. s2 \in Seq(Stage) /\ s3 \in Seq(Stage) /\ s4 \in Seq(Stage) /\ s6 \in Seq(Stage)
      /\ <<"own">> \in Seq(Stage) /\ <<"validate">> \in Seq(Stage)
  <2>1. {"validate", "refuse", "flag", "done", "own"} \subseteq Stage
        /\ (IF root THEN "move" ELSE "refuse") \in Stage
    BY DEF Stage
  <2> QED
    BY <1>2, <2>1, NoStage, Zenon
<1> HIDE DEF s2, s3, s4, s6
<1>4. \A s, u \in Seq(Stage) : Len(s) >= 1 /\ s[1] = "validate" =>
        s \o u \in Seq(Stage) /\ Len(s \o u) >= 1 /\ (s \o u)[1] = "validate"
  OBVIOUS
<1> DEFINE OK(s) == s \in Seq(Stage) /\ Len(s) >= 1 /\ s[1] = "validate"
<1>5. \A s, u \in Seq(Stage) : OK(s) => OK(s \o u)
  BY <1>4
<1>6. OK(<<"validate">>)
  BY <1>3
<1> HIDE DEF OK
<1>8. OK(<<"validate">> \o s2)
  BY <1>3, <1>5, <1>6
<1>9. OK(<<"validate">> \o s2 \o s3)
  BY <1>3, <1>5, <1>8 DEF OK
<1>10. OK(<<"validate">> \o s2 \o s3 \o s4)
  BY <1>3, <1>5, <1>9 DEF OK
<1>11. OK(<<"validate">> \o s2 \o s3 \o s4 \o <<"own">>)
  BY <1>3, <1>5, <1>10 DEF OK
<1>12. OK(<<"validate">> \o s2 \o s3 \o s4 \o <<"own">> \o s6)
  BY <1>3, <1>5, <1>11 DEF OK
<1> QED
  BY <1>1, <1>12 DEF OK

LEMMA GivenType == Typed => GivenTasks \in SUBSET Task
BY DEF Typed, TypeOK, GivenTasks

LEMMA InitForest == Init => ForestParts
BY DEF Init, ForestParts, Rooted, Forest, Present, Idle

\* A step of somebody else than the editor.
LEMMA OthersForest ==
  ASSUME ForestInv, UNCHANGED editing, given \subseteq given',
         Present(task') \subseteq GivenTasks', Rooted(task'), Forest(task'),
         \A t \in GivenTasks : task'[t] # NONE =>
           task[t] # NONE /\ task'[t].parent = task[t].parent
  PROVE  ForestParts'
<1>1. GivenTasks \subseteq GivenTasks' /\ GivenTasks \in SUBSET Task
  BY GivenType DEF GivenTasks, ForestInv
<1>2. ASSUME NEW e \in Editor, editing[e].at # "idle"
      PROVE  Harmless(task', GivenTasks', editing[e])
  <2>1. editing[e] \in Editing
    BY <1>2 DEF ForestInv, Typed, TypeOK, Idle
  <2>2. Harmless(task, GivenTasks, editing[e])
    BY <1>2 DEF ForestInv, ForestParts
  <2> QED
    BY <1>1, <2>1, <2>2, HarmlessStays
<1> QED
  BY <1>2 DEF ForestParts

LEMMA CreateForest ==
  ASSUME ForestInv, NEW c \in Creator, Create(c)
  PROVE  ForestParts'
<1>0. Typed /\ Rooted(task) /\ Forest(task) /\ Present(task) \subseteq GivenTasks
      /\ task \in Table
  BY DEF ForestInv, ForestParts, Typed, TypeOK, Table
<1>1. CASE UNCHANGED <<task, editing, given>>
  BY <1>0, <1>1, OthersForest DEF GivenTasks
<1>2. CASE CreateCommit(c)
  <2>1. PICK t \in Fresh :
          /\ creating[c].at = "locked"
          /\ Accepted(With(t, creating[c]))
          /\ task' = With(t, creating[c])
          /\ given' = given \cup {[task |-> t, project |-> creating[c].project,
                                   number |-> creating[c].count]}
          /\ UNCHANGED editing
    BY <1>2 DEF CreateCommit
  <2>2. t \in Task /\ t \notin GivenTasks /\ t \notin Present(task)
    BY <1>0, <2>1 DEF Fresh, GivenTasks
  <2>3. /\ task'[t].parent = creating[c].parent
        /\ \A s \in Task \ {t} : task'[s] = task[s]
    BY <1>0, <2>1, <2>2 DEF With, Table
  <2>4. Rooted(task')
    BY <2>1 DEF Accepted, Rooted
  <2>5. Present(task') \subseteq Present(task) \cup {t}
    BY <2>3 DEF Present
  <2>6. task' \in Table
    <3>1. Typed'
      BY CreateTyped DEF ForestInv
    <3> QED
      BY <3>1 DEF Typed, TypeOK, Table
  <2>7. \A s \in Present(task') \cap {t} : task'[s].parent \notin {t}
    BY <2>2, <2>4, RowIsSome DEF Rooted
  <2>8. \A s \in Present(task') \ {t} : task'[s].parent = task[s].parent
    BY <2>3 DEF Present
  <2>9. Forest(task')
    <3> DEFINE N == {t}
    <3>1. /\ N \in SUBSET Task /\ N \cap Present(task) = {}
          /\ Present(task') \subseteq Present(task) \cup N
          /\ \A s \in Present(task') \ N : task'[s].parent = task[s].parent
          /\ \A s \in Present(task') \cap N : task'[s].parent \notin N
      BY <2>2, <2>5, <2>7, <2>8
    <3> HIDE DEF N
    <3> QED
      BY <1>0, <2>6, <3>1, ForestGrows
  <2>10. GivenTasks' = GivenTasks \cup {t} /\ given \subseteq given'
    <3> DEFINE g == [task |-> t, project |-> creating[c].project, number |-> creating[c].count]
    <3>1. g.task = t
      OBVIOUS
    <3> HIDE DEF g
    <3>2. given' = given \cup {g}
      BY <2>1 DEF g
    <3> QED
      BY <3>1, <3>2 DEF GivenTasks
  <2>11. \A s \in GivenTasks : task'[s] = task[s]
    BY <1>0, <2>2, <2>3, GivenType
  <2>12. Present(task') \subseteq GivenTasks'
    BY <1>0, <2>5, <2>10
  <2> QED
    BY <2>1, <2>4, <2>9, <2>10, <2>11, <2>12, OthersForest
<1> QED
  BY <1>1, <1>2 DEF Create, CreateBegin, CreateLock, CreateRollBack

LEMMA RemoveForest ==
  ASSUME ForestInv, NEW r \in Remover, Remove(r)
  PROVE  ForestParts'
<1>0. Rooted(task) /\ Forest(task) /\ Present(task) \subseteq GivenTasks
  BY DEF ForestInv, ForestParts
<1>1. CASE UNCHANGED <<task, editing, given>>
  BY <1>0, <1>1, OthersForest DEF GivenTasks
<1>2. ASSUME NEW ts, Delete(ts), UNCHANGED <<editing, given>> PROVE ForestParts'
  <2>1. \A t \in Task : task'[t] \in {task[t], NONE}
    BY <1>2, DeleteForest
  <2>2. Rooted(task') /\ Forest(task')
    BY <1>2, DeleteForest
  <2>3. Present(task') \subseteq Present(task)
    BY <2>1 DEF Present
  <2>4. GivenTasks' = GivenTasks /\ GivenTasks \in SUBSET Task
    BY <1>2, GivenType DEF GivenTasks, ForestInv
  <2> QED
    BY <1>0, <1>2, <2>1, <2>2, <2>3, <2>4, OthersForest
<1>3. CASE RemoveFind(r)
  BY <1>1, <1>3 DEF RemoveFind
<1>4. CASE RemoveSubtasks(r)
  BY <1>2, <1>4 DEF RemoveSubtasks
<1>5. CASE RemoveTask(r)
  BY <1>2, <1>5 DEF RemoveTask
<1> QED
  BY <1>3, <1>4, <1>5 DEF Remove

\* The stage after this one: what has been looked at stays looked at.
LEMMA AdvanceHarmless ==
  ASSUME ForestInv, NEW e \in Editor, editing[e].at # "idle",
         NEW table, Placed(table, GivenTasks, editing[e]),
         Advance(e).at # "idle"
  PROVE  Harmless(table, GivenTasks, Advance(e))
<1> DEFINE q == editing[e]
<1>1. q \in Editing /\ Harmless(task, GivenTasks, q)
  BY DEF ForestInv, ForestParts, Typed, TypeOK, Idle
<1>2. /\ Advance(e) = [q EXCEPT !.at = "stage", !.todo = Tail(q.todo),
                                !.batch = NoRows, !.diff = NoWrite]
      /\ Len(q.todo) # 1 /\ q.todo # <<>>
  BY <1>1 DEF Advance, Idle, Editing
<1>3. q.entity.parent # NONE => Tail(q.todo) \in Seq(Narrow)
  <2>1. \A u \in Seq(Narrow) : u # <<>> => Tail(u) \in Seq(Narrow)
    BY HeadTailProperties
  <2> QED
    BY <1>1, <1>2, <2>1 DEF Harmless
<1> HIDE DEF q
<1>4. /\ Advance(e).self = q.self /\ Advance(e).entity = q.entity
      /\ Advance(e).todo = Tail(q.todo) /\ Advance(e).at = "stage"
  BY <1>1, <1>2 DEF Editing
<1>5. Placed(table, GivenTasks, Advance(e))
  BY <1>4 DEF Placed, q
<1> QED
  BY <1>1, <1>3, <1>4, <1>5 DEF Harmless

UnderWay == {e \in Editor : editing[e].at # "idle"}

\* The parents with which an edit holds a task: as loaded and changed by its body, or
\* as found among the subtasks that it is going to save.
Parents(q, t) ==
  (IF t = q.self THEN {q.entity.parent} ELSE {})
  \cup (IF q.batch[t] # NONE THEN {q.batch[t].parent} ELSE {})

\* The edit holds a task with another parent than the row of the task has: it gives
\* it a new one, or would put an old one back.
Displaces(q) == \E t \in Present(task) : ~(Parents(q, t) \subseteq {task[t].parent})

\* An edit that gives a task another parent is under way alone.
Alone == \A e, f \in UnderWay : e = f \/ ~Displaces(editing[e])

\* Edits that are under way together hold a task with the same parent, also when
\* its row is gone and one of them is going to insert it again.
Agreed ==
  \A e, f \in UnderWay : e # f =>
    \A t \in Task : \A a \in Parents(editing[e], t), b \in Parents(editing[f], t) : a = b

\* A step of an editor, whatever it writes.
LEMMA EditorForest ==
  ASSUME ForestInv, NEW e \in Editor, NEW q,
         editing' = [editing EXCEPT ![e] = q], UNCHANGED given,
         Present(task') \subseteq GivenTasks, Rooted(task'), Forest(task'),
         q.at # "idle" => Harmless(task', GivenTasks, q),
         \A f \in UnderWay \ {e} : Harmless(task', GivenTasks, editing[f])
  PROVE  ForestParts'
<1>1. GivenTasks' = GivenTasks
  BY DEF GivenTasks
<1>2. editing'[e] = q /\ \A f \in Editor \ {e} : editing'[f] = editing[f]
  BY DEF ForestInv, Typed, TypeOK
<1>3. ASSUME NEW f \in Editor, editing'[f].at # "idle"
      PROVE  Harmless(task', GivenTasks', editing'[f])
  BY <1>1, <1>2, <1>3 DEF UnderWay
<1> QED
  BY <1>1, <1>3 DEF ForestParts

\* A step that leaves every task under its parent leaves other edits harmless.
LEMMA OtherEdits ==
  ASSUME ForestInv, NEW f \in UnderWay,
         \A t \in Task : task'[t] # NONE =>
           task[t] # NONE /\ task'[t].parent = task[t].parent
  PROVE  Harmless(task', GivenTasks, editing[f])
<1>1. editing[f] \in Editing /\ Harmless(task, GivenTasks, editing[f]) /\ GivenTasks \in SUBSET Task
  BY GivenType DEF UnderWay, ForestInv, ForestParts, Typed, TypeOK, Idle
<1> QED
  BY <1>1, HarmlessStays

\* So does one after which an edit holds its tasks as their rows are.
LEMMA SettledEdit ==
  ASSUME NEW old, NEW new, NEW known \in SUBSET Task, NEW q \in Editing, Harmless(old, known, q),
         \A t \in Task : new[t] # NONE => Parents(q, t) \subseteq {new[t].parent}
  PROVE  Harmless(new, known, q)
<1>1. Placed(old, known, q) => Placed(new, known, q)
  <2>1. q.self \in Task /\ (new[q.self] # NONE => new[q.self].parent = q.entity.parent)
    BY DEF Parents, Harmless
  <2> QED
    BY <2>1 DEF Placed
<1>2. \A s \in Task : q.batch[s] # NONE /\ new[s] # NONE => new[s].parent = q.batch[s].parent
  BY DEF Parents
<1>3. SavesSubtasks(old, known, q) => SavesSubtasks(new, known, q)
  BY <1>2 DEF SavesSubtasks
<1> QED
  BY <1>1, <1>3 DEF Harmless

LEMMA LoadForest ==
  ASSUME ForestInv, NEW e \in Editor, EditLoad(e)
  PROVE  ForestParts'
<1>11. \A f \in UnderWay \ {e} : Harmless(task', GivenTasks, editing[f])
  BY OtherEdits DEF EditLoad
<1>0. Rooted(task) /\ Forest(task) /\ Present(task) \subseteq GivenTasks /\ Typed
  BY DEF ForestInv, ForestParts
<1>1. PICK t \in Present(task), d \in Edit :
        /\ d.parent # t
        /\ editing' = [editing EXCEPT ![e] =
            [at |-> "stage", self |-> t, from |-> task[t].project,
             entity |-> Edited(task[t], d), todo |-> Stages(task[t], d),
             batch |-> NoRows, diff |-> NoWrite]]
        /\ UNCHANGED <<task, given>>
  BY DEF EditLoad
<1> DEFINE q == [at |-> "stage", self |-> t, from |-> task[t].project,
                 entity |-> Edited(task[t], d), todo |-> Stages(task[t], d),
                 batch |-> NoRows, diff |-> NoWrite]
<1>2. /\ q.self = t /\ q.entity = Edited(task[t], d) /\ q.todo = Stages(task[t], d)
      /\ q.at = "stage"
  OBVIOUS
<1> HIDE DEF q
<1>3. t \in Task /\ d \in Body /\ task[t] # NONE
  BY NamesAssumption DEF Present
<1>4. /\ q.entity.parent = (IF d.parent = KEEP THEN task[t].parent ELSE d.parent)
      /\ d.parent \in Task \cup {NONE, KEEP}
  BY <1>2, <1>3 DEF Edited, Body
<1>5. task[t].parent \in (Present(task) \ {t}) \cup {NONE} /\ t \notin {NONE}
  BY <1>0, <1>3, RowIsSome DEF Rooted
<1>6. q.entity.parent # NONE => q.todo \in Seq(Narrow)
  BY <1>2, NarrowStages
<1>7. Head(q.todo) # "validate" => d.parent \notin Task
  BY <1>2, ValidateFirst
<1>8. Head(q.todo) # "validate" => Placed(task, GivenTasks, q)
  BY <1>0, <1>2, <1>4, <1>5, <1>7 DEF Placed
<1>9. Harmless(task, GivenTasks, q)
  BY <1>0, <1>1, <1>2, <1>4, <1>5, <1>6, <1>8 DEF Harmless
<1>10. editing' = [editing EXCEPT ![e] = q]
  BY <1>1 DEF q
<1> QED
  BY <1>0, <1>1, <1>9, <1>10, <1>11, EditorForest

\* What a save leaves of the row of each task.
LEMMA SavedRows ==
  ASSUME Typed, NEW e \in Editor, editing[e].at = "write", SaveAccepted(editing[e]),
         NEW s \in Task
  PROVE  /\ editing[e].batch[s] = NONE => Saved(editing[e])[s] = task[s]
         /\ editing[e].batch[s] # NONE /\ task[s] = NONE =>
              Saved(editing[e])[s] \in {NONE, editing[e].batch[s]}
         /\ editing[e].batch[s] # NONE /\ task[s] # NONE =>
              Saved(editing[e])[s].parent \in {task[s].parent, editing[e].batch[s].parent}
<1> DEFINE q == editing[e]
<1>1. q \in Editing /\ task[s] \in Row \cup {NONE} /\ q.batch[s] \in Row \cup {NONE}
  BY DEF Typed, TypeOK, Editing, Idle
<1>2. Saved(q)[s] = Written(q, s)
  BY DEF Saved
<1>3. CASE q.batch[s] = NONE
  <2>1. q.diff[s] = {}
    BY <1>3 DEF Typed, Consistent
  <2>2. CASE task[s] = NONE
    BY <1>2, <1>3, <2>1, <2>2 DEF Written
  <2>3. CASE task[s] # NONE
    <3>1. Written(q, s) = Merged(task[s], q.batch[s], {})
      BY <2>1, <2>3 DEF Written
    <3>2. Merged(task[s], q.batch[s], {}) = task[s]
      BY <1>1, <2>3 DEF Merged, Row
    <3> QED
      BY <1>2, <1>3, <3>1, <3>2
  <2> QED
    BY <2>2, <2>3
<1>4. CASE q.batch[s] # NONE /\ task[s] = NONE
  BY <1>2, <1>4 DEF Written
<1>5. CASE q.batch[s] # NONE /\ task[s] # NONE
  <2>1. "insert" \notin q.diff[s]
    BY <1>5 DEF SaveAccepted
  <2>2. Written(q, s) = Merged(task[s], q.batch[s], q.diff[s])
    BY <1>5, <2>1 DEF Written
  <2>3. Merged(task[s], q.batch[s], q.diff[s]).parent \in {task[s].parent, q.batch[s].parent}
    BY DEF Merged
  <2> QED
    BY <1>2, <1>5, <2>2, <2>3
<1> QED
  BY <1>3, <1>4, <1>5

LEMMA WriteForest ==
  ASSUME ForestInv, Agreed, Alone, Typed', NEW e \in Editor, EditWrite(e)
  PROVE  ForestParts'
<1> DEFINE q == editing[e]
<1>0. Rooted(task) /\ Forest(task) /\ Present(task) \subseteq GivenTasks /\ Typed
      /\ task \in Table /\ task' \in Table /\ GivenTasks \in SUBSET Task
  BY GivenType DEF ForestInv, ForestParts, Typed, TypeOK, Table
<1>1. /\ q.at = "write" /\ q \in Editing /\ Harmless(task, GivenTasks, q)
      /\ q.self \in GivenTasks
  BY DEF EditWrite, ForestInv, ForestParts, Typed, TypeOK, Idle, Harmless
<1>2. CASE ~SaveAccepted(q)
  <2>1. task' = task /\ given' = given /\ editing' = [editing EXCEPT ![e] = Idle]
    BY <1>2 DEF EditWrite
  <2>2. Idle.at = "idle"
    BY DEF Idle
  <2>3. \A f \in UnderWay \ {e} : Harmless(task', GivenTasks, editing[f])
    BY <2>1, OtherEdits
  <2> QED
    BY <1>0, <2>1, <2>2, <2>3, EditorForest
<1>3. CASE SaveAccepted(q)
  <2>1. task' = Saved(q) /\ given' = given /\ editing' = [editing EXCEPT ![e] = Advance(e)]
    BY <1>3 DEF EditWrite
  <2>2. Rooted(task')
    BY <1>3, <2>1 DEF SaveAccepted, Accepted, Rooted
  <2>3. \A s \in Task :
          /\ q.batch[s] = NONE => task'[s] = task[s]
          /\ q.batch[s] # NONE /\ task[s] = NONE => task'[s] \in {NONE, q.batch[s]}
          /\ q.batch[s] # NONE /\ task[s] # NONE =>
               task'[s].parent \in {task[s].parent, q.batch[s].parent}
    BY <1>0, <1>1, <1>3, <2>1, SavedRows
  <2>4. Forest(task') /\ Present(task') \subseteq GivenTasks /\ Placed(task', GivenTasks, q)
    <3>1. CASE SavesSelf(q)
      <4> DEFINE x == q.self
                 P == q.entity.parent
      <4>1. /\ x \in Task /\ P # x
            /\ q.batch[x] = q.entity /\ \A s \in Task \ {x} : q.batch[s] = NONE
        BY <1>0, <1>1, <3>1 DEF SavesSelf, NoRows, Harmless
      <4>2. Placed(task, GivenTasks, q)
        BY <1>1, <3>1 DEF Harmless, SavesSelf
      <4>3. \A s \in Task \ {x} : task'[s] = task[s]
        BY <2>3, <4>1
      <4>4. Present(task') \subseteq Present(task) \cup {x}
        BY <4>3 DEF Present
      <4>5. CASE task[x] = NONE /\ task'[x] # NONE
        <5>1. task'[x] = q.entity
          BY <2>3, <4>1, <4>5
        <5>2. Forest(task')
          <6> DEFINE N == {x}
          <6>1. /\ N \in SUBSET Task /\ N \cap Present(task) = {}
                /\ Present(task') \subseteq Present(task) \cup N
                /\ \A s \in Present(task') \ N : task'[s].parent = task[s].parent
                /\ \A s \in Present(task') \cap N : task'[s].parent \notin N
            BY <4>1, <4>3, <4>4, <4>5, <5>1 DEF Present
          <6> HIDE DEF N, x
          <6> QED
            BY <1>0, <6>1, ForestGrows
        <5>3. Placed(task', GivenTasks, q)
          BY <4>2, <5>1 DEF Placed
        <5> QED
          BY <1>0, <1>1, <4>4, <5>2, <5>3
      <4>6. CASE task[x] # NONE \/ task'[x] = NONE
        <5>1. Present(task') \subseteq Present(task)
          BY <4>4, <4>6 DEF Present
        <5>2. x \in Present(task') => task'[x].parent \in {task[x].parent, P} /\ task[x] # NONE
          BY <2>3, <4>1, <4>6 DEF Present
        <5>3. x \in Present(task') =>
                \/ task'[x].parent \in {NONE, task[x].parent}
                \/ task'[x].parent # x /\ task[task'[x].parent].parent = NONE
          <6> SUFFICES ASSUME x \in Present(task'), task'[x].parent = P, P # NONE,
                              P # task[x].parent
                       PROVE  task[P].parent = NONE
            BY <4>1, <5>2
          <6>1. P \in Present(task)
            BY <2>2, <5>1 DEF Rooted
          <6>2. task[P] # NONE /\ task[x] # NONE
            BY <5>2, <6>1 DEF Present
          <6> QED
            BY <4>2, <6>2 DEF Placed
        <5>4. \A t \in Present(task') \ {x} : task'[t].parent = task[t].parent
          BY <4>3 DEF Present
        <5>5. Forest(task')
          <6> HIDE DEF x
          <6> QED
            BY <1>0, <4>1, <5>1, <5>3, <5>4, ForestMoves
        <5>6. Placed(task', GivenTasks, q)
          <6> SUFFICES ASSUME P # NONE, task'[x] # NONE, task'[P] # NONE
                       PROVE  /\ P \in GivenTasks
                              /\ task'[x].parent = P \/ task'[P].parent = NONE
            BY <4>2 DEF Placed
          <6>1. P \in GivenTasks /\ task'[P] = task[P]
            BY <1>0, <4>1, <4>2, <4>3 DEF Placed
          <6>2. x \in Present(task')
            BY <4>1 DEF Present
          <6> QED
            BY <4>2, <5>2, <6>1, <6>2 DEF Placed
        <5> QED
          BY <1>0, <5>1, <5>5, <5>6
      <4> QED
        BY <4>5, <4>6
    <3>2. CASE SavesSubtasks(task, GivenTasks, q)
      <4> DEFINE N == {s \in Task : q.batch[s] # NONE /\ task[s] = NONE}
      <4>1. \A s \in Task : q.batch[s] # NONE =>
              /\ s # q.self /\ s \in GivenTasks /\ q.batch[s].parent = q.self
              /\ task[s] # NONE => task[s].parent = q.self
        BY <3>2 DEF SavesSubtasks
      <4>2. \A s \in Task \ N : task[s] = NONE => task'[s] = NONE
        BY <2>3
      <4>3. Present(task') \subseteq Present(task) \cup N
        BY <4>2 DEF Present
      <4>4. \A s \in Present(task') \ N : task'[s].parent = task[s].parent
        BY <2>3, <4>1, <4>2 DEF Present
      <4>5. \A s \in Present(task') \cap N : task'[s].parent \notin N
        <5>1. q.self \notin N
          BY <4>1
        <5>2. \A s \in Present(task') \cap N : task'[s].parent = q.self
          BY <2>3, <4>1 DEF Present
        <5> QED
          BY <5>1, <5>2
      <4>6. N \in SUBSET Task /\ N \cap Present(task) = {} /\ N \subseteq GivenTasks
        BY <4>1 DEF Present
      <4> HIDE DEF N
      <4>7. Forest(task')
        BY <1>0, <4>3, <4>4, <4>5, <4>6, ForestGrows
      <4>8. Placed(task', GivenTasks, q)
        BY <3>2 DEF SavesSubtasks, Placed
      <4> QED
        BY <1>0, <4>3, <4>6, <4>7, <4>8
    <3> QED
      BY <1>1, <3>1, <3>2 DEF Harmless
  <2>5. Advance(e).at # "idle" => Harmless(task', GivenTasks, Advance(e))
    BY <1>1, <2>4, AdvanceHarmless
  <2>6. ASSUME NEW f \in UnderWay \ {e}
        PROVE  Harmless(task', GivenTasks, editing[f])
    <3>1. /\ editing[f] \in Editing /\ Harmless(task, GivenTasks, editing[f])
          /\ e \in UnderWay /\ e # f
      BY <1>1, <2>6 DEF UnderWay, ForestInv, ForestParts, Typed, TypeOK, Idle
    <3>2. ASSUME NEW t \in Task, task'[t] # NONE
          PROVE  Parents(editing[f], t) \subseteq {task'[t].parent}
      <4>1. CASE task[t] # NONE
        <5>1. /\ Parents(q, t) \subseteq {task[t].parent}
              /\ Parents(editing[f], t) \subseteq {task[t].parent}
          BY <2>6, <3>1, <4>1 DEF Alone, Displaces, Present
        <5>2. task'[t].parent = task[t].parent
          BY <2>3, <4>1, <5>1 DEF Parents
        <5> QED
          BY <5>1, <5>2
      <4>2. CASE task[t] = NONE
        <5>1. q.batch[t] # NONE /\ task'[t] = q.batch[t]
          BY <2>3, <3>2, <4>2
        <5>2. q.batch[t].parent \in Parents(q, t)
          BY <5>1 DEF Parents
        <5> QED
          BY <2>6, <3>1, <5>1, <5>2 DEF Agreed
      <4> QED
        BY <4>1, <4>2
    <3> QED
      BY <1>0, <3>1, <3>2, SettledEdit
  <2> QED
    BY <2>1, <2>2, <2>4, <2>5, <2>6, EditorForest
<1> QED
  BY <1>2, <1>3

\* Stages that write subtasks belong to the edit of a root.
LEMMA RootStages ==
  ASSUME ForestInv, NEW e \in Editor, editing[e].at # "idle",
         Head(editing[e].todo) \in {"move", "flag", "done"}
  PROVE  editing[e].entity.parent = NONE
<1>1. editing[e] \in Editing /\ Harmless(task, GivenTasks, editing[e])
  BY DEF ForestInv, ForestParts, Typed, TypeOK, Idle
<1>2. \A s \in Seq(Narrow) : s # <<>> => Head(s) \in Narrow
  BY HeadTailProperties
<1>3. Head(editing[e].todo) \notin Narrow /\ editing[e].todo # <<>>
  BY <1>1 DEF Narrow, Editing
<1> QED
  BY <1>1, <1>2, <1>3 DEF Harmless

LEMMA ValidateForest ==
  ASSUME ForestInv, NEW e \in Editor, EditValidate(e)
  PROVE  ForestParts'
<1>9. \A f \in UnderWay \ {e} : Harmless(task', GivenTasks, editing[f])
  BY OtherEdits DEF EditValidate
<1> DEFINE q == editing[e]
<1>1. Rooted(task) /\ Forest(task) /\ Present(task) \subseteq GivenTasks
  BY DEF ForestInv, ForestParts
<1>2. q.at # "idle" /\ q \in Editing
  BY DEF EditValidate, InStage, ForestInv, Typed, TypeOK, Idle
<1>3. /\ UNCHANGED <<task, given>>
      /\ editing' = [editing EXCEPT ![e] =
           IF MayBeParent(q.entity.parent, q.from) THEN Advance(e) ELSE Idle]
  BY DEF EditValidate
<1>4. CASE MayBeParent(q.entity.parent, q.from)
  <2>1. q.entity.parent # NONE => q.entity.parent \in Present(task)
    BY <1>2, <1>4 DEF MayBeParent, Present, Editing, Row
  <2>2. Placed(task, GivenTasks, q)
    BY <1>1, <1>4, <2>1 DEF Placed, MayBeParent
  <2>3. Advance(e).at # "idle" => Harmless(task, GivenTasks, Advance(e))
    BY <1>2, <2>2, AdvanceHarmless
  <2> QED
    BY <1>1, <1>3, <1>4, <2>3, <1>9, EditorForest
<1>5. CASE ~MayBeParent(q.entity.parent, q.from)
  BY <1>1, <1>3, <1>5, <1>9, EditorForest DEF Idle
<1> QED
  BY <1>4, <1>5

\* The subtasks go to another project and stay under their parent.
LEMMA MoveForest ==
  ASSUME ForestInv, Typed', NEW e \in Editor, EditMove(e)
  PROVE  ForestParts'
<1> DEFINE q == editing[e]
<1>1. Rooted(task) /\ Forest(task) /\ Present(task) \subseteq GivenTasks
      /\ task \in Table /\ task' \in Table
  BY DEF ForestInv, ForestParts, Typed, TypeOK, Table
<1>2. q.at # "idle" /\ q \in Editing /\ q.entity.parent = NONE
  BY RootStages DEF EditMove, InStage, ForestInv, Typed, TypeOK, Idle
<1>3. UNCHANGED given /\ editing' = [editing EXCEPT ![e] =
        IF Accepted(SubtasksMoved(q)) THEN Advance(e) ELSE Idle]
  BY DEF EditMove
<1>4. CASE ~Accepted(SubtasksMoved(q))
  <2>1. task' = task
    BY <1>4 DEF EditMove
  <2>2. \A f \in UnderWay \ {e} : Harmless(task', GivenTasks, editing[f])
    BY <2>1, OtherEdits
  <2> QED
    BY <1>1, <1>3, <1>4, <2>1, <2>2, EditorForest DEF Idle
<1>5. CASE Accepted(SubtasksMoved(q))
  <2>1. task' = SubtasksMoved(q)
    BY <1>5 DEF EditMove
  <2>2. Rooted(task')
    BY <1>5, <2>1 DEF Accepted, Rooted
  <2>3. \A t \in Task : IF t \in Children(task, q.self)
                        THEN task'[t].parent = task[t].parent ELSE task'[t] = task[t]
    BY <1>1, <2>1 DEF SubtasksMoved, Children, Present, Table, Row
  <2>4. Present(task') \subseteq Present(task)
    BY <2>3 DEF Present, Children
  <2>5. \A t \in Present(task') : task'[t].parent = task[t].parent
    BY <2>3 DEF Present
  <2>6. Forest(task')
    <3> DEFINE N == {}
    <3>1. /\ N \in SUBSET Task /\ N \cap Present(task) = {}
          /\ Present(task') \subseteq Present(task) \cup N
          /\ \A t \in Present(task') \ N : task'[t].parent = task[t].parent
          /\ \A t \in Present(task') \cap N : task'[t].parent \notin N
      BY <2>4, <2>5
    <3> HIDE DEF N
    <3> QED
      BY <1>1, <3>1, ForestGrows
  <2>7. Placed(task', GivenTasks, q)
    BY <1>2 DEF Placed
  <2>8. Advance(e).at # "idle" => Harmless(task', GivenTasks, Advance(e))
    BY <1>2, <2>7, AdvanceHarmless
  <2>9. \A f \in UnderWay \ {e} : Harmless(task', GivenTasks, editing[f])
    BY <2>3, OtherEdits DEF Children, Present
  <2> QED
    BY <1>1, <1>3, <1>5, <2>2, <2>4, <2>6, <2>8, <2>9, EditorForest
<1> QED
  BY <1>4, <1>5

LEMMA FindForest ==
  ASSUME ForestInv, NEW e \in Editor, EditFind(e)
  PROVE  ForestParts'
<1>9. \A f \in UnderWay \ {e} : Harmless(task', GivenTasks, editing[f])
  BY OtherEdits DEF EditFind
<1> DEFINE q == editing[e]
           r == [q EXCEPT !.at = "read", !.batch = Found(q)]
<1>1. Rooted(task) /\ Forest(task) /\ Present(task) \subseteq GivenTasks
      /\ task \in Table
  BY DEF ForestInv, ForestParts, Typed, TypeOK, Table
<1>2. /\ q.at # "idle" /\ q \in Editing /\ q.entity.parent = NONE
      /\ Harmless(task, GivenTasks, q)
  BY RootStages DEF EditFind, InStage, ForestInv, ForestParts, Typed, TypeOK, Idle
<1>3. UNCHANGED <<task, given>> /\ editing' = [editing EXCEPT ![e] =
        IF Found(q) = NoRows THEN Advance(e) ELSE r]
  BY DEF EditFind
<1>4. CASE Found(q) = NoRows
  <2>1. Placed(task, GivenTasks, q)
    BY <1>2 DEF Placed
  <2>2. Advance(e).at # "idle" => Harmless(task, GivenTasks, Advance(e))
    BY <1>2, <2>1, AdvanceHarmless
  <2> QED
    BY <1>1, <1>3, <1>4, <2>2, <1>9, EditorForest
<1>5. CASE Found(q) # NoRows
  <2>1. \A s \in Task : Found(q)[s] # NONE =>
          /\ s \in Present(task) /\ task[s].parent = q.self
          /\ Found(q)[s].parent = task[s].parent
    <3> SUFFICES ASSUME NEW s \in Task, Found(q)[s] # NONE
                 PROVE  /\ s \in Children(task, q.self)
                        /\ Found(q)[s].parent = task[s].parent
      BY DEF Children
    <3>1. /\ s \in Children(task, q.self)
          /\ \E target : Found(q)[s] = [task[s] EXCEPT !.status = target]
      BY DEF Found
    <3>2. task[s] \in Row
      BY <1>1, <3>1 DEF Table, Children, Present
    <3> QED
      BY <3>1, <3>2 DEF Row
  <2>2. /\ r.self = q.self /\ r.entity = q.entity /\ r.todo = q.todo
        /\ r.at = "read" /\ r.batch = Found(q)
    BY <1>2 DEF Editing
  <2> HIDE DEF r, q
  <2>3. \A s \in Task : r.batch[s] # NONE =>
          /\ s # r.self /\ s \in GivenTasks /\ r.batch[s].parent = r.self
          /\ task[s].parent = r.self
    BY <1>1, <2>1, <2>2, RowIsSome DEF Rooted
  <2>4. SavesSubtasks(task, GivenTasks, r)
    BY <1>2, <2>2, <2>3 DEF SavesSubtasks
  <2>5. Harmless(task, GivenTasks, r)
    BY <1>2, <2>2, <2>4 DEF Harmless, Placed
  <2> QED
    BY <1>1, <1>3, <1>5, <2>5, <1>9, EditorForest
<1> QED
  BY <1>4, <1>5

LEMMA ReadForest ==
  ASSUME ForestInv, NEW e \in Editor, EditRead(e)
  PROVE  ForestParts'
<1>9. \A f \in UnderWay \ {e} : Harmless(task', GivenTasks, editing[f])
  BY OtherEdits DEF EditRead
<1> DEFINE q == editing[e]
           r == [q EXCEPT !.at = "write", !.batch = Entities(q), !.diff = DiffOf(Entities(q))]
<1>1. Rooted(task) /\ Forest(task) /\ Present(task) \subseteq GivenTasks
  BY DEF ForestInv, ForestParts
<1>2. q.at # "idle" /\ q \in Editing /\ Harmless(task, GivenTasks, q)
  BY DEF EditRead, InStage, ForestInv, ForestParts, Typed, TypeOK, Idle
<1>3. UNCHANGED <<task, given>> /\ editing' = [editing EXCEPT ![e] = r]
  BY DEF EditRead
<1>4. /\ r.self = q.self /\ r.entity = q.entity /\ r.todo = q.todo
      /\ r.at = "write" /\ r.batch = Entities(q)
  BY <1>2 DEF Editing
<1>5. q.at = "read" \/ (q.at = "stage" /\ Head(q.todo) = "own")
  BY DEF EditRead, InStage
<1> HIDE DEF r, q
<1>6. SavesSelf(r) \/ SavesSubtasks(task, GivenTasks, r)
  <2>1. CASE q.at = "read"
    <3>1. SavesSubtasks(task, GivenTasks, q)
      BY <1>2, <2>1 DEF Harmless, SavesSelf
    <3>2. r.batch = q.batch
      BY <1>4, <2>1 DEF Entities
    <3> QED
      BY <1>4, <3>1, <3>2 DEF SavesSubtasks
  <2>2. CASE q.at = "stage" /\ Head(q.todo) = "own"
    BY <1>4, <2>2 DEF Entities, SavesSelf
  <2> QED
    BY <1>5, <2>1, <2>2
<1>7. Harmless(task, GivenTasks, r)
  BY <1>2, <1>4, <1>6 DEF Harmless, Placed
<1> QED
  BY <1>1, <1>3, <1>7, <1>9, EditorForest

LEMMA StepForest ==
  ASSUME ForestInv, Agreed, Alone, [Next]_vars
  PROVE  ForestInv'
<1>1. Typed'
  BY StepTyped DEF ForestInv
<1>2. ASSUME NEW e \in Editor, Update(e) PROVE ForestParts'
  BY <1>1, <1>2, LoadForest, ValidateForest, MoveForest, FindForest, ReadForest,
     WriteForest DEF Update
<1>3. ASSUME UNCHANGED <<task, editing, given>> PROVE ForestParts'
  <2>1. Rooted(task) /\ Forest(task) /\ Present(task) \subseteq GivenTasks
    BY DEF ForestInv, ForestParts
  <2> QED
    BY <1>3, <2>1, OthersForest DEF GivenTasks
<1>4. ASSUME NEW m \in Manager, Manage(m) PROVE UNCHANGED <<task, editing, given>>
  BY <1>4 DEF Manage, ManageLoad, ManageSave
<1>5. UNCHANGED vars => UNCHANGED <<task, editing, given>>
  BY DEF vars, requests
<1>6. ForestParts'
  BY <1>2, <1>3, <1>4, <1>5, CreateForest, RemoveForest DEF Next
<1> QED
  BY <1>1, <1>6 DEF ForestInv

-----------------------------------------------------------------------------
(* Edits that are under way together agree                                 *)

\* What an edit holds after a step it held before, or has just read.
LEMMA EditorAgrees ==
  ASSUME Typed, Agreed, Alone', NEW e \in Editor, NEW q,
         editing' = [editing EXCEPT ![e] = q],
         q.at # "idle" => \A t \in Task : \A a \in Parents(q, t) :
           (editing[e].at # "idle" /\ a \in Parents(editing[e], t)) \/ task'[t] # NONE
  PROVE  Agreed'
<1>1. editing'[e] = q /\ \A f \in Editor \ {e} : editing'[f] = editing[f]
  BY DEF Typed, TypeOK
<1>2. ASSUME NEW f \in UnderWay', f # e, e \in UnderWay', NEW t \in Task,
             NEW a \in Parents(q, t), NEW b \in Parents(editing[f], t)
      PROVE  a = b
  <2>1. f \in UnderWay /\ q.at # "idle" /\ editing'[f] = editing[f] /\ f \in Editor
    BY <1>1, <1>2 DEF UnderWay
  <2>2. CASE editing[e].at # "idle" /\ a \in Parents(editing[e], t)
    BY <1>2, <2>1, <2>2 DEF Agreed, UnderWay
  <2>3. CASE task'[t] # NONE
    <3>1. t \in Present(task)'
      BY <2>3 DEF Present
    <3>2. ~Displaces(editing[e])' /\ ~Displaces(editing[f])'
      BY <1>2 DEF Alone
    <3>3. Parents(editing'[e], t) \subseteq {task'[t].parent}
          /\ Parents(editing'[f], t) \subseteq {task'[t].parent}
      BY <3>1, <3>2 DEF Displaces, Parents
    <3> QED
      BY <1>1, <1>2, <2>1, <3>3
  <2> QED
    BY <1>2, <2>1, <2>2, <2>3
<1>3. ASSUME NEW f \in UnderWay', NEW g \in UnderWay', f # g, NEW t \in Task,
             NEW a \in Parents(editing'[f], t), NEW b \in Parents(editing'[g], t)
      PROVE  a = b
  <2>1. f \in Editor /\ g \in Editor
    BY DEF UnderWay
  <2>2. CASE f = e
    BY <1>1, <1>2, <1>3, <2>1, <2>2
  <2>3. CASE g = e
    BY <1>1, <1>2, <1>3, <2>1, <2>3
  <2>4. CASE f # e /\ g # e
    BY <1>1, <1>3, <2>1, <2>4 DEF Agreed, UnderWay
  <2> QED
    BY <2>2, <2>3, <2>4
<1> QED
  BY <1>3 DEF Agreed, Parents

LEMMA AdvanceHolds ==
  ASSUME Typed, NEW e \in Editor, editing[e].at # "idle", Advance(e).at # "idle",
         NEW t \in Task, NEW a \in Parents(Advance(e), t)
  PROVE  a \in Parents(editing[e], t)
<1>1. editing[e] \in Editing
  BY DEF Typed, TypeOK, Idle
<1>2. Advance(e).self = editing[e].self /\ Advance(e).entity = editing[e].entity
      /\ Advance(e).batch = NoRows
  BY <1>1 DEF Advance, Idle, Editing
<1> QED
  BY <1>2 DEF Parents, NoRows

LEMMA StepAgreed ==
  ASSUME Typed, Agreed, Alone', [Next]_vars
  PROVE  Agreed'
<1>1. ASSUME NEW e \in Editor, Update(e) PROVE Agreed'
  <2> DEFINE q == editing[e]
  <2>1. CASE EditLoad(e)
    <3>1. PICK t \in Present(task), d \in Edit :
            /\ editing' = [editing EXCEPT ![e] =
                [at |-> "stage", self |-> t, from |-> task[t].project,
                 entity |-> Edited(task[t], d), todo |-> Stages(task[t], d),
                 batch |-> NoRows, diff |-> NoWrite]]
            /\ UNCHANGED task
      BY <2>1 DEF EditLoad
    <3> DEFINE new == [at |-> "stage", self |-> t, from |-> task[t].project,
                       entity |-> Edited(task[t], d), todo |-> Stages(task[t], d),
                       batch |-> NoRows, diff |-> NoWrite]
    <3>2. new.self = t /\ new.batch = NoRows /\ task'[t] # NONE
      BY <3>1 DEF Present
    <3>3. editing' = [editing EXCEPT ![e] = new]
      BY <3>1
    <3> HIDE DEF new
    <3>4. \A s \in Task : \A a \in Parents(new, s) : task'[s] # NONE
      BY <3>2 DEF Parents, NoRows
    <3> QED
      BY <3>3, <3>4, EditorAgrees
  <2>2. CASE EditValidate(e) \/ EditMove(e) \/ EditWrite(e) \/ (EditFind(e) /\ Found(q) = NoRows)
    <3>1. q.at # "idle"
      BY <2>2 DEF EditValidate, EditMove, EditWrite, EditFind, InStage
    <3>2. \/ editing' = [editing EXCEPT ![e] = Advance(e)]
          \/ editing' = [editing EXCEPT ![e] = Idle]
      BY <2>2 DEF EditValidate, EditMove, EditWrite, EditFind
    <3>3. Idle.at = "idle"
      BY DEF Idle
    <3>4. CASE editing' = [editing EXCEPT ![e] = Idle]
      BY <3>3, <3>4, EditorAgrees
    <3>5. CASE editing' = [editing EXCEPT ![e] = Advance(e)]
      <4>1. Advance(e).at # "idle" => \A t \in Task : \A a \in Parents(Advance(e), t) :
              editing[e].at # "idle" /\ a \in Parents(editing[e], t)
        BY <3>1, AdvanceHolds
      <4> QED
        BY <3>5, <4>1, EditorAgrees
    <3> QED
      BY <3>2, <3>4, <3>5
  <2>3. CASE EditFind(e) /\ Found(q) # NoRows
    <3> DEFINE new == [q EXCEPT !.at = "read", !.batch = Found(q)]
    <3>1. q \in Editing /\ editing' = [editing EXCEPT ![e] = new] /\ task' = task /\ q.at # "idle"
      BY <2>3 DEF EditFind, InStage, Typed, TypeOK, Idle
    <3>2. new.self = q.self /\ new.entity = q.entity /\ new.batch = Found(q)
      BY <3>1 DEF Editing
    <3>3. \A s \in Task : Found(q)[s] # NONE => task'[s] # NONE
      BY <3>1 DEF Found, Children, Present
    <3> HIDE DEF new
    <3>4. \A s \in Task : \A a \in Parents(new, s) :
            (editing[e].at # "idle" /\ a \in Parents(editing[e], s)) \/ task'[s] # NONE
      BY <3>1, <3>2, <3>3 DEF Parents
    <3> QED
      BY <3>1, <3>4, EditorAgrees
  <2>4. CASE EditRead(e)
    <3> DEFINE new == [q EXCEPT !.at = "write", !.batch = Entities(q), !.diff = DiffOf(Entities(q))]
    <3>1. q \in Editing /\ editing' = [editing EXCEPT ![e] = new] /\ q.at # "idle"
      BY <2>4 DEF EditRead, InStage, Typed, TypeOK, Idle
    <3>2. new.self = q.self /\ new.entity = q.entity /\ new.batch = Entities(q)
      BY <3>1 DEF Editing
    <3>3. \A s \in Task : Entities(q)[s] # NONE =>
            Entities(q)[s] = q.batch[s] \/ (s = q.self /\ Entities(q)[s] = q.entity)
      BY <3>1 DEF Entities, NoRows, Editing
    <3> HIDE DEF new
    <3>4. \A s \in Task : \A a \in Parents(new, s) : a \in Parents(q, s)
      BY <3>2, <3>3 DEF Parents
    <3> QED
      BY <3>1, <3>4, EditorAgrees
  <2> QED
    BY <1>1, <2>1, <2>2, <2>3, <2>4 DEF Update
<1>2. ASSUME UNCHANGED editing PROVE Agreed'
  <2>1. UnderWay' = UnderWay /\ editing' = editing
    BY <1>2 DEF UnderWay
  <2>2. ASSUME NEW f \in UnderWay', NEW g \in UnderWay', f # g, NEW t \in Task,
               NEW a \in Parents(editing'[f], t), NEW b \in Parents(editing'[g], t)
        PROVE  a = b
    BY <2>1, <2>2 DEF Agreed
  <2> QED
    BY <2>2 DEF Agreed, Parents
<1>3. ASSUME NEW c \in Creator, Create(c) PROVE UNCHANGED editing
  BY <1>3 DEF Create, CreateBegin, CreateLock, CreateCommit, CreateRollBack
<1>4. ASSUME NEW m \in Manager, Manage(m) PROVE UNCHANGED editing
  BY <1>4 DEF Manage, ManageLoad, ManageSave
<1>5. ASSUME NEW r \in Remover, Remove(r) PROVE UNCHANGED editing
  BY <1>5 DEF Remove, RemoveFind, RemoveSubtasks, RemoveTask
<1>6. UNCHANGED vars => UNCHANGED editing
  BY DEF vars, requests
<1> QED
  BY <1>1, <1>2, <1>3, <1>4, <1>5, <1>6 DEF Next

\* However many editors there are: no task gets among its own ancestors as long as
\* an edit that holds a task with another parent than its row has is under way
\* alone.  Creates, removals, and edits that leave the parents be run beside one
\* another as they may, a save writes parents that were read long before, and one of
\* subtasks may bring back rows that were removed under it.  Two edits at once, of
\* which one gives a parent (tasks.service.ts:510-519, 606), are what it takes to
\* close a cycle.
THEOREM AcyclicCorrect == Spec /\ []Alone => []Acyclic
<1>1. Init => ForestInv /\ Agreed
  BY InitTyped, InitForest DEF ForestInv, Init, Agreed, UnderWay, Idle
<1>2. ForestInv /\ Agreed /\ Alone /\ Alone' /\ [Next]_vars => ForestInv' /\ Agreed'
  BY StepForest, StepAgreed DEF ForestInv
<1>3. ForestInv => Acyclic
  BY DEF ForestInv, ForestParts, Forest, Acyclic
<1> QED
  BY <1>1, <1>2, <1>3, PTL DEF Spec
=============================================================================
