------------------------------- MODULE QaQueue -------------------------------
(***************************************************************************)
(* The personal QA queues (src/qa-queue): one table of rows with a         *)
(* position, changed by concurrent calls in READ COMMITTED transactions.   *)
(*                                                                         *)
(* A cell is a (user, task) pair: UQ_qa_queue_items_user_task leaves room  *)
(* for one row in it.  What a transaction has written is in its overlay    *)
(* (wrote, mine) until it commits, and the cells it wrote are locked.  A   *)
(* statement that has to wait runs, whole, when it no longer has to.       *)
(***************************************************************************)
EXTENDS Integers, Sequences, FiniteSets, SequencesExt

CONSTANTS
  User,      \* owners of a queue
  Task,      \* parent tasks: subtasks are refused before anything is read
  Project,   \* the project of each task
  Listener,  \* users with an open event stream
  Worker,    \* concurrent calls of QaQueueService
  MaxRow,    \* bound: rows ever created by add
  MaxLeave,  \* bound: tasks that leave QA Test
  MaxGone,   \* bound: tasks that are deleted
  MaxFail    \* bound: calls that die half way

ASSUME QueueAssumption ==
  /\ IsFiniteSet(Task)
  /\ User # {}
  /\ Listener \subseteq User
  /\ MaxRow \in Nat /\ MaxLeave \in Nat /\ MaxGone \in Nat /\ MaxFail \in Nat

Cell  == User \X Task
Row   == [id : Nat, pos : Int]
NoRow == [id |-> 0, pos |-> 0]     \* the identifiers start at 1

VARIABLES
  row,      \* qa_queue_items, committed
  shown,    \* the queue that the last event on a user's stream carried
  pc, op,   \* a call: where it is and which one it is
  who,      \* the user whose queue it is working on
  list,     \* the rows it has in memory, in order, as tasks
  seen,     \* ... and their identifiers
  base,     \* add: the first position to use
  users,    \* removeTaskFromAllQueues: the affected users
  todo,     \* ... and those still to be served
  wrote, mine,  \* its transaction: the cells written and what they hold
  nextId, leaves, fails,
  left,     \* for the properties: rows whose task left QA Test
  deleted   \* tasks that have been deleted

calls == <<pc, op, who, list, seen, base, users, todo, wrote, mine>>
vars  == <<row, shown, calls, nextId, leaves, fails, left, deleted>>

PC == {"idle", "wipe", "insert", "delete", "reread", "save1", "save2",
       "reply", "affected", "drop", "tell", "emit"}
Op == {"add", "remove", "reorder", "clear", "leave"}

Unseen == [t \in Task |-> 0]
Clean  == [c \in Cell |-> NoRow]

-----------------------------------------------------------------------------
(* The table                                                               *)

See(w) == [c \in Cell |-> IF c \in wrote[w] THEN mine[w][c] ELSE row[c]]

CardsIn(table, u) == { t \in Task : table[<<u, t>>] # NoRow }

\* SELECT ... WHERE user_id = u ORDER BY position ASC
Selections(table, u) ==
  { s \in SetToSeqs(CardsIn(table, u)) :
      \A i, j \in DOMAIN s : i < j => table[<<u, s[i]>>].pos <= table[<<u, s[j]>>].pos }

IdsIn(table, u) == [t \in Task |-> table[<<u, t>>].id]

SameIndex(c, d) == c # d /\ c[1] = d[1] /\ Project[c[2]] = Project[d[2]]

\* Who has written these cells, or a row that a unique index would have to be
\* checked against.  new is a function from cells to rows.
Holders(w, new) ==
  { v \in Worker \ {w} :
      \/ wrote[v] \cap DOMAIN new # {}
      \/ \E c \in wrote[v], d \in DOMAIN new :
           /\ SameIndex(c, d) /\ new[d] # NoRow
           /\ \/ row[c] # NoRow /\ row[c].pos = new[d].pos
              \/ mine[v][c] # NoRow /\ mine[v][c].pos = new[d].pos }

\* Mutant: the index on positions is not unique.
CollidesOnTask(w, cells, new) ==
  \E i \in DOMAIN cells :
    See(w)[cells[i]] # NoRow /\ See(w)[cells[i]].id # new[cells[i]].id

\* Written one after the other in the order of cells, the rows collide with
\* one that is already there: on (user, task), or on (user, project, position).
Collides(w, cells, new) ==
  \E i \in DOMAIN cells :
    LET c == cells[i] IN
    \/ See(w)[c] # NoRow /\ See(w)[c].id # new[c].id
    \/ \E d \in Cell \ { cells[k] : k \in 1 .. i - 1 } :
         SameIndex(c, d) /\ See(w)[d] # NoRow /\ See(w)[d].pos = new[c].pos

Put(w, new) ==
  /\ wrote' = [wrote EXCEPT ![w] = @ \cup DOMAIN new]
  /\ mine' = [mine EXCEPT ![w] = [c \in Cell |-> IF c \in DOMAIN new THEN new[c] ELSE @[c]]]

Goto(w, to) == pc' = [pc EXCEPT ![w] = to]

\* The call is over and forgets what it had in memory.
Return(w) ==
  /\ Goto(w, "idle")
  /\ op' = [op EXCEPT ![w] = "clear"]
  /\ who' = [who EXCEPT ![w] = CHOOSE u \in User : TRUE]
  /\ list' = [list EXCEPT ![w] = <<>>]
  /\ seen' = [seen EXCEPT ![w] = Unseen]
  /\ base' = [base EXCEPT ![w] = 0]
  /\ users' = [users EXCEPT ![w] = {}]
  /\ todo' = [todo EXCEPT ![w] = {}]
  /\ wrote' = [wrote EXCEPT ![w] = {}]
  /\ mine' = [mine EXCEPT ![w] = Clean]

Rollback(w) == Return(w) /\ UNCHANGED <<row, shown, nextId, leaves, left, deleted>>

-----------------------------------------------------------------------------
Init ==
  /\ row = Clean
  /\ shown = [u \in User |-> <<>>]
  /\ pc = [w \in Worker |-> "idle"]
  /\ op = [w \in Worker |-> "clear"]
  /\ who = [w \in Worker |-> CHOOSE u \in User : TRUE]
  /\ list = [w \in Worker |-> <<>>]
  /\ seen = [w \in Worker |-> Unseen]
  /\ base = [w \in Worker |-> 0]
  /\ users = [w \in Worker |-> {}]
  /\ todo = [w \in Worker |-> {}]
  /\ wrote = [w \in Worker |-> {}]
  /\ mine = [w \in Worker |-> Clean]
  /\ nextId = 1
  /\ leaves = 0
  /\ fails = 0
  /\ left = {}
  /\ deleted = {}

(* add                                                                     *)

\* Mutants: the queue is never replaced; new cards go before the others; the
\* positions are taken to be those of a queue without gaps.
NeverReplaces(u, existing, cards) == FALSE

FrontPosition(u, existing, cards) ==
  IF existing = <<>> THEN 0 ELSE row[<<u, existing[1]>>].pos - 1

CountedPosition(u, existing, cards) ==
  IF existing = <<>> \/ Project[existing[1]] # Project[cards[1]]
  THEN 0
  ELSE Len(existing)

\* The project of the first row decides; other cards replace the queue when
\* the caller has agreed to, and are refused when not.
Replaces(u, existing, cards) ==
  existing # <<>> /\ Project[existing[1]] # Project[cards[1]]

nextPosition(u, existing, cards) ==
  IF existing = <<>> \/ Replaces(u, existing, cards)
  THEN 0
  ELSE row[<<u, existing[Len(existing)]>>].pos + 1

AddRead(w, u, cards) ==
  /\ pc[w] = "idle"
  /\ nextId + Len(cards) <= MaxRow + 1
  /\ \A i \in DOMAIN cards : Project[cards[i]] = Project[cards[1]]
  /\ ToSet(cards) \cap deleted = {}
  /\ \E existing \in Selections(row, u) :
       /\ Replaces(u, existing, cards) \/ CardsIn(row, u) \cap ToSet(cards) = {}
       /\ Goto(w, IF Replaces(u, existing, cards) THEN "wipe" ELSE "insert")
       /\ base' = [base EXCEPT ![w] = nextPosition(u, existing, cards)]
  /\ op' = [op EXCEPT ![w] = "add"]
  /\ who' = [who EXCEPT ![w] = u]
  /\ list' = [list EXCEPT ![w] = cards]
  /\ seen' = [seen EXCEPT ![w] = [t \in Task |->
       IF t \in ToSet(cards)
       THEN nextId + (CHOOSE i \in DOMAIN cards : cards[i] = t) - 1
       ELSE 0]]
  /\ nextId' = nextId + Len(cards)
  /\ UNCHANGED <<row, shown, users, todo, wrote, mine, leaves, fails, left, deleted>>

\* DELETE of all the rows of a user.
EmptyQueue(u, table) == [c \in {u} \X CardsIn(table, u) |-> NoRow]

Wipe(w) ==
  /\ pc[w] = "wipe"
  /\ Holders(w, EmptyQueue(who[w], See(w))) = {}
  /\ Put(w, EmptyQueue(who[w], See(w)))
  /\ Goto(w, "insert")
  /\ UNCHANGED <<row, shown, op, who, list, seen, base, users, todo, nextId, leaves, fails, left, deleted>>

\* The rows in memory, with the positions from some first one on.
Placed(w, first, step) ==
  [c \in {who[w]} \X ToSet(list[w]) |->
     [id  |-> seen[w][c[2]],
      pos |-> first + step * (CHOOSE i \in DOMAIN list[w] : list[w][i] = c[2])]]

Cells(w) == [i \in DOMAIN list[w] |-> <<who[w], list[w][i]>>]

\* A row of a task that is gone has nothing to refer to.
Orphans(w) == ToSet(list[w]) \cap deleted

Refused(w, new) == Collides(w, Cells(w), new) \/ Orphans(w) # {}

\* save: the rows that are not there are inserted, whoever deleted them, and
\* the others updated.  A unique index or the foreign key may refuse one.
Save(w, new, to) ==
  /\ Holders(w, new) = {}
  /\ \/ /\ Refused(w, new)
        /\ Rollback(w)
        /\ UNCHANGED fails
     \/ /\ ~Refused(w, new)
        /\ Put(w, new)
        /\ Goto(w, to)
        /\ UNCHANGED <<row, shown, op, who, list, seen, base, users, todo, nextId, leaves, fails, left, deleted>>

Created(w) == Placed(w, base[w] - 1, 1)

Insert(w) == pc[w] = "insert" /\ Save(w, Created(w), "reply")

-----------------------------------------------------------------------------
(* remove, reorder and clear                                               *)

RemoveRead(w, u, t) ==
  /\ pc[w] = "idle"
  /\ row[<<u, t>>] # NoRow
  /\ Goto(w, "delete")
  /\ op' = [op EXCEPT ![w] = "remove"]
  /\ who' = [who EXCEPT ![w] = u]
  /\ list' = [list EXCEPT ![w] = <<t>>]
  /\ seen' = [seen EXCEPT ![w] = [Unseen EXCEPT ![t] = row[<<u, t>>].id]]
  /\ UNCHANGED <<row, shown, base, users, todo, wrote, mine, nextId, leaves, fails, left, deleted>>

\* DELETE by identifier: the row may be gone, and another in its place.
Target(w) ==
  [c \in { d \in {who[w]} \X ToSet(list[w]) : row[d].id = seen[w][d[2]] } |-> NoRow]

Delete(w) ==
  /\ pc[w] = "delete"
  /\ Holders(w, Target(w)) = {}
  /\ Put(w, Target(w))
  /\ Goto(w, "reread")
  /\ UNCHANGED <<row, shown, op, who, list, seen, base, users, todo, nextId, leaves, fails, left, deleted>>

\* The rows that remain, of the user or of the next affected user.
ReReadUsers(w) == IF op[w] = "leave" THEN todo[w] ELSE {who[w]}

ReRead(w) ==
  /\ pc[w] = "reread"
  /\ \E u \in ReReadUsers(w) :
       /\ who' = [who EXCEPT ![w] = u]
       /\ todo' = [todo EXCEPT ![w] = @ \ {u}]
       /\ seen' = [seen EXCEPT ![w] = IdsIn(See(w), u)]
       /\ \E s \in Selections(See(w), u) : list' = [list EXCEPT ![w] = s]
  /\ Goto(w, "save1")
  /\ UNCHANGED <<row, shown, op, base, users, wrote, mine, nextId, leaves, fails, left, deleted>>

ReorderRead(w, u) ==
  /\ pc[w] = "idle"
  /\ \E s \in SetToSeqs(CardsIn(row, u)) : list' = [list EXCEPT ![w] = s]
  /\ seen' = [seen EXCEPT ![w] = IdsIn(row, u)]
  /\ Goto(w, "save1")
  /\ op' = [op EXCEPT ![w] = "reorder"]
  /\ who' = [who EXCEPT ![w] = u]
  /\ UNCHANGED <<row, shown, base, users, todo, wrote, mine, nextId, leaves, fails, left, deleted>>

\* Mutant: the final positions at once.
FinalPositions(w) == Placed(w, -1, 1)

\* rewritePositions: -1, -2, ... and then 0, 1, ...
TemporaryPositions(w) == Placed(w, 0, -1)

PositionsInOrder(w) == Placed(w, -1, 1)

\* Mutant: the final positions are left to another transaction.
SaveTemporaryOnly(w) == pc[w] = "save1" /\ Save(w, TemporaryPositions(w), "reply")

SaveTemporary(w) == pc[w] = "save1" /\ Save(w, TemporaryPositions(w), "save2")

SaveFinal(w) ==
  /\ pc[w] = "save2"
  /\ Save(w, PositionsInOrder(w), IF todo[w] # {} THEN "reread" ELSE "reply")

\* The answer is read, the transaction commits.
Reply(w) ==
  /\ pc[w] = "reply"
  /\ row' = See(w)
  /\ \E s \in Selections(See(w), who[w]) : list' = [list EXCEPT ![w] = s]
  /\ wrote' = [wrote EXCEPT ![w] = {}]
  /\ mine' = [mine EXCEPT ![w] = Clean]
  /\ todo' = [todo EXCEPT ![w] = users[w]]
  /\ seen' = [seen EXCEPT ![w] = Unseen]
  /\ base' = [base EXCEPT ![w] = 0]
  /\ Goto(w, IF op[w] = "leave" THEN "tell" ELSE "emit")
  /\ UNCHANGED <<shown, op, who, users, nextId, leaves, fails, left, deleted>>

\* Mutant: no event for an emptied queue.
ClearSilently(w, u) ==
  /\ pc[w] = "idle"
  /\ Holders(w, EmptyQueue(u, row)) = {}
  /\ row' = [c \in Cell |-> IF c[1] = u THEN NoRow ELSE row[c]]
  /\ UNCHANGED <<shown, calls, nextId, leaves, fails, left, deleted>>

\* One DELETE, committed at once.
Clear(w, u) ==
  /\ pc[w] = "idle"
  /\ Holders(w, EmptyQueue(u, row)) = {}
  /\ row' = [c \in Cell |-> IF c[1] = u THEN NoRow ELSE row[c]]
  /\ who' = [who EXCEPT ![w] = u]
  /\ Goto(w, "emit")
  /\ UNCHANGED <<shown, op, list, seen, base, users, todo, wrote, mine, nextId, leaves, fails, left, deleted>>

\* emitQueue: the event carries the answer, not the queue of the moment.
Emit(w) ==
  /\ pc[w] = "emit"
  /\ shown' = [u \in User |-> IF u = who[w] /\ u \in Listener THEN list[w] ELSE shown[u]]
  /\ \/ /\ todo[w] = {}
        /\ Return(w)
     \/ /\ todo[w] # {}
        /\ Goto(w, "tell")
        /\ UNCHANGED <<op, who, list, seen, base, users, todo, wrote, mine>>
  /\ UNCHANGED <<row, nextId, leaves, fails, left, deleted>>

-----------------------------------------------------------------------------
(* TasksService.update has saved a status other than qa_test for a task    *)
(* that was in qa_test: removeTaskFromAllQueues.                           *)

Leave(w, t) ==
  /\ pc[w] = "idle"
  /\ leaves < MaxLeave
  /\ t \notin deleted
  /\ leaves' = leaves + 1
  /\ left' = left \cup { row[<<u, t>>].id : u \in { v \in User : row[<<v, t>>] # NoRow } }
  /\ Goto(w, "affected")
  /\ op' = [op EXCEPT ![w] = "leave"]
  /\ list' = [list EXCEPT ![w] = <<t>>]
  /\ UNCHANGED <<row, shown, who, seen, base, users, todo, wrote, mine, nextId, fails, deleted>>

Having(t) == { u \in User : row[<<u, t>>] # NoRow }

\* The affected users are read before the transaction.
Affected(w) ==
  /\ pc[w] = "affected"
  /\ \/ /\ Having(list[w][1]) = {}
        /\ Return(w)
        /\ UNCHANGED <<row, shown, nextId, leaves, left, deleted>>
     \/ /\ Having(list[w][1]) # {}
        /\ users' = [users EXCEPT ![w] = Having(list[w][1])]
        /\ todo' = [todo EXCEPT ![w] = Having(list[w][1])]
        /\ Goto(w, "drop")
        /\ UNCHANGED <<row, shown, op, who, list, seen, base, wrote, mine, nextId, leaves, left, deleted>>
  /\ UNCHANGED fails

\* Mutant: DELETE for one of the users.
DroppedForOne(w) == [c \in {CHOOSE u \in users[w] : TRUE} \X {list[w][1]} |-> NoRow]

Dropped(w) == [c \in Having(list[w][1]) \X {list[w][1]} |-> NoRow]

Drop(w) ==
  /\ pc[w] = "drop"
  /\ Holders(w, Dropped(w)) = {}
  /\ Put(w, Dropped(w))
  /\ Goto(w, "reread")
  /\ UNCHANGED <<row, shown, op, who, list, seen, base, users, todo, nextId, leaves, fails, left, deleted>>

\* listForUser, once per affected user.
Tell(w) ==
  /\ pc[w] = "tell"
  /\ \E u \in todo[w] :
       /\ who' = [who EXCEPT ![w] = u]
       /\ todo' = [todo EXCEPT ![w] = @ \ {u}]
       /\ \E s \in Selections(row, u) : list' = [list EXCEPT ![w] = s]
  /\ Goto(w, "emit")
  /\ UNCHANGED <<row, shown, op, seen, base, users, wrote, mine, nextId, leaves, fails, left, deleted>>

-----------------------------------------------------------------------------
(* TasksService.remove: the foreign key takes the cards of a task away with *)
(* it, and leaves gaps.  No queue is told.                                 *)

NoRows(cells) == [c \in cells |-> NoRow]

\* One DELETE, which waits for those who have written such a row: the rows of
\* the queue, and the key of the task that they refer to, are locked.
RemoveTask(w, t) ==
  /\ pc[w] = "idle"
  /\ t \notin deleted /\ Cardinality(deleted) < MaxGone
  /\ Holders(w, NoRows(User \X {t})) = {}
  /\ row' = [c \in Cell |-> IF c[2] = t THEN NoRow ELSE row[c]]
  /\ deleted' = deleted \cup {t}
  /\ UNCHANGED <<shown, calls, nextId, leaves, fails, left>>

-----------------------------------------------------------------------------
\* What a call writes next.
Pending(w) ==
  CASE pc[w] = "wipe"   -> EmptyQueue(who[w], See(w))
    [] pc[w] = "insert" -> Created(w)
    [] pc[w] = "delete" -> Target(w)
    [] pc[w] = "save1"  -> TemporaryPositions(w)
    [] pc[w] = "save2"  -> PositionsInOrder(w)
    [] pc[w] = "drop"   -> Dropped(w)
    [] OTHER            -> <<>>

\* PostgreSQL finds transactions that wait for each other in a circle, and
\* rolls one of them back.
DeadlockVictim(w) ==
  /\ \E S \in SUBSET Worker :
       w \in S /\ \A v \in S : Holders(v, Pending(v)) \cap S # {}
  /\ Rollback(w)
  /\ UNCHANGED fails

\* A statement fails, or the process stops.
Fail(w) ==
  /\ pc[w] # "idle"
  /\ fails < MaxFail
  /\ fails' = fails + 1
  /\ Rollback(w)

Begin(w) ==
  /\ pc[w] = "idle"
  /\ \/ \E u \in User :
          \/ \E cards \in SetToAllKPermutations(Task) \ {<<>>} : AddRead(w, u, cards)
          \/ \E t \in Task : RemoveRead(w, u, t)
          \/ ReorderRead(w, u)
          \/ Clear(w, u)
     \/ \E t \in Task : Leave(w, t) \/ RemoveTask(w, t)

Step(w) ==
  \/ Wipe(w) \/ Insert(w) \/ Delete(w) \/ ReRead(w) \/ SaveTemporary(w)
  \/ SaveFinal(w) \/ Reply(w) \/ Emit(w) \/ Affected(w) \/ Drop(w) \/ Tell(w)

Next == \E w \in Worker : Begin(w) \/ Step(w) \/ DeadlockVictim(w) \/ Fail(w)

Spec == Init /\ [][Next]_vars
-----------------------------------------------------------------------------
(* Properties                                                              *)

TypeOK ==
  /\ row \in [Cell -> Row]
  /\ shown \in [User -> Seq(Task)]
  /\ pc \in [Worker -> PC] /\ op \in [Worker -> Op]
  /\ who \in [Worker -> User]
  /\ list \in [Worker -> Seq(Task)]
  /\ seen \in [Worker -> [Task -> Nat]]
  /\ base \in [Worker -> Nat]
  /\ users \in [Worker -> SUBSET User] /\ todo \in [Worker -> SUBSET User]
  /\ wrote \in [Worker -> SUBSET Cell] /\ mine \in [Worker -> [Cell -> Row]]
  /\ nextId \in 1 .. MaxRow + 1
  /\ leaves \in 0 .. MaxLeave /\ fails \in 0 .. MaxFail
  /\ left \subseteq 1 .. MaxRow
  /\ deleted \subseteq Task

\* The temporary positions of rewritePositions never become visible: whatever
\* fails, the queue is all in its old order or all in its new one.
NoHalfRewrite == \A c \in DOMAIN row : row[c].pos >= 0

\* Two cards of one project are never in the same place of a queue, so that
\* the order of a queue is never a matter of chance, whoever wrote the rows.
DistinctPositions ==
  \A c, d \in DOMAIN row :
    SameIndex(c, d) /\ row[c] # NoRow /\ row[d] # NoRow => row[c].pos # row[d].pos

\* What is committed is a whole order of every queue, however many calls rewrite
\* it at once and wherever one of them dies (qa-queue.service.ts:230-246).
CommitsWhole == NoHalfRewrite /\ DistinctPositions

(* One call at a time: these say nothing of an instance with more workers. *)

Alone == \A v, w \in DOMAIN pc : v = w

Quiet == \A w \in Worker : pc[w] = "idle"

NeverCollides ==
  \A w \in Worker :
    pc[w] \in {"insert", "save1", "save2"} =>
      ~Refused(w, Pending(w))

\* Neither a unique index nor the foreign key refuses what a call writes when
\* nothing else runs: the gaps that deleted tasks leave between the positions do
\* not matter, nor does the order of the updates.
SerialNeverCollides == Alone => NeverCollides

Queue(u) == CHOOSE s \in Selections(row, u) : TRUE

\* The cards are those of the queue, in its order, among cards of tasks that
\* have been deleted.
Shows(cards, u) ==
  /\ ToSet(cards) \ deleted = CardsIn(row, u)
  /\ \A i, j \in DOMAIN cards :
       i < j /\ {cards[i], cards[j]} \cap deleted = {} =>
         row[<<u, cards[i]>>].pos < row[<<u, cards[j]>>].pos

StreamsAgree == Quiet => \A u \in Listener : Shows(shown[u], u)

\* When no call is under way, what every listener has been sent last is the
\* queue, also when another user's call has changed it: the deletion of a task is
\* the one change that is not sent (tasks.service.ts:758), so that cards of
\* deleted tasks stay on the screen.  (A call that dies after its commit tells
\* nobody either.)
SerialStreamsAgree == Alone /\ fails = 0 => StreamsAgree

\* A queue has cards of one project only (qa-queue.util.ts:100).
OneProject ==
  \A u \in User : \A s, t \in CardsIn(row, u) : Project[s] = Project[t]

Promise == INSTANCE PersonalQueue WITH queue <- [u \in User |-> Queue(u)]

\* One call at a time, rows and positions behave as the lists of PersonalQueue:
\* adding puts cards at the end or replaces the queue, removing keeps the others
\* in order, and what a call writes until it commits is not seen.
SerialImplementsQueues ==
  /\ Alone => Promise!Init
  /\ [][Alone /\ (\E u \in User : Queue(u)' # Queue(u)) => Promise!Next]_vars

\* qa-queue.util.ts:36: leaving QA Test drops the card from every queue.
LeavingDrops == Quiet => \A c \in Cell : row[c].id \notin left

\* The cards of a queue are all of one project, and none is of a task that some
\* `update` has moved out of QA Test since the card was queued, unless the call
\* that was to drop it died.  (Cards may be queued in any status, and what else
\* changes a status drops no card: qa-queue.util.ts:31, tasks.service.ts:856.)
SerialCardsBelong == Alone => OneProject /\ (fails = 0 => LeavingDrops)
=============================================================================
