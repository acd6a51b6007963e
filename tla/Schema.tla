------------------------------- MODULE Schema -------------------------------
(***************************************************************************)
(* The schema of the database through deployments and reverts              *)
(* (src/database/database.config.ts, package.json): a deployment runs all  *)
(* migrations it brings that have not been run, in one transaction; a      *)
(* revert undoes the last one.  A process that dies, or a statement that   *)
(* fails, leaves what was committed.                                       *)
(***************************************************************************)
EXTENDS Naturals, Sequences, FiniteSets, TLC

CONSTANT Release \* migrations that were committed when the story begins; 0: none

LOCAL INSTANCE Migrations
E == INSTANCE Entities
Seqs == INSTANCE SequencesExt

VARIABLES
  db,      \* the schema that is committed: tables and enumerations
  applied, \* migrations that are committed
  work,    \* the schema inside a transaction
  at,      \* migrations that it has run
  mode,    \* idle, up or down
  refused  \* a statement could not be executed, whatever the rows are

vars == <<db, applied, work, at, mode, refused>>

Last == Len(migrations)

Empty == [table |-> <<>>, type |-> <<>>]

\* What an earlier version of the program, with todos, left behind.
Todos == [ table |-> "users"
             :> Table({"username", "password_hash"}, Stamped, {}, {Always({"username"})}, {}, None)
           @@ "todos"
             :> Table({"title", "user_id"}, Stamped \cup {"status", "priority"},
                  {"description", "due_date"}, {}, {Cascade("user_id", "users")},
                  [status |-> "todos_status_enum", priority |-> "todos_priority_enum"]),
           type |-> "todos_status_enum" :> {"todo", "in_progress", "done"}
                 @@ "todos_priority_enum" :> {"low", "medium", "high"} ]

-----------------------------------------------------------------------------
(* Statements, as PostgreSQL executes them                                 *)

Without(f, S) == [x \in DOMAIN f \ S |-> f[x]]

HasTable(d, t)   == t \in DOMAIN d.table
HasColumns(d, t, C) == HasTable(d, t) /\ C \subseteq DOMAIN d.table[t].column

Exists(d, s) ==
  CASE s.do \in {"create", "drop"} -> HasTable(d, s.table)
    [] s.do \in {"add", "remove"}  -> \A c \in s.columns : HasColumns(d, s.table, {c})

Works(d, s) ==
  CASE s.do = "create" ->
         /\ s.lenient \/ ~Exists(d, s)
         /\ \A r \in s.is.refs : HasTable(d, r[2]) \/ r[2] = s.table
         /\ \A c \in DOMAIN s.is.typed : s.is.typed[c] \in DOMAIN d.type
    [] s.do = "drop" ->
         /\ s.lenient \/ Exists(d, s)
         /\ \A t \in DOMAIN d.table \ {s.table} : \A r \in d.table[t].refs : r[2] # s.table
    [] s.do = "add" ->
         /\ HasTable(d, s.table)
         /\ s.lenient \/ \A c \in s.columns : ~HasColumns(d, s.table, {c})
    [] s.do = "remove" -> HasTable(d, s.table) /\ (s.lenient \/ Exists(d, s))
    [] s.do = "add typed" ->
         HasTable(d, s.table) /\ s.type \in DOMAIN d.type /\ ~HasColumns(d, s.table, {s.column})
    [] s.do = "create type" -> TRUE
    [] s.do = "extend" -> s.type \in DOMAIN d.type
    [] s.do = "drop type" ->
         \A t \in DOMAIN d.table : \A c \in DOMAIN d.table[t].typed : d.table[t].typed[c] # s.type
    [] s.do = "refer"  -> HasColumns(d, s.table, {s.ref[1]}) /\ HasTable(d, s.ref[2])
    [] s.do \in {"unique", "touch"} -> HasColumns(d, s.table, s.columns)
    [] s.do = "repeat" -> TRUE
    [] s.do = "unrefer" -> HasTable(d, s.table)
    [] s.do \in {"require", "allow"} -> HasColumns(d, s.table, {s.column})

SetColumns(d, t, C, kind) ==
  [d EXCEPT !.table[t].column = [c \in DOMAIN @ \cup C |-> IF c \in C THEN kind ELSE @[c]]]

WithoutColumns(table, C) ==
  [ column |-> Without(table.column, C),
    unique |-> { u \in table.unique : u[1] \cap C = {} },
    refs   |-> { r \in table.refs : r[1] \notin C },
    typed  |-> Without(table.typed, C) ]

After(d, s) ==
  CASE s.do = "create" -> IF Exists(d, s) THEN d ELSE [d EXCEPT !.table = (s.table :> s.is) @@ @]
    [] s.do = "drop"   -> [d EXCEPT !.table = Without(@, {s.table})]
    [] s.do = "add"    -> SetColumns(d, s.table, s.columns \ DOMAIN d.table[s.table].column, s.kind)
    [] s.do = "remove" -> [d EXCEPT !.table[s.table] = WithoutColumns(@, s.columns)]
    [] s.do = "add typed" ->
         [SetColumns(d, s.table, {s.column}, "default")
            EXCEPT !.table[s.table].typed = (s.column :> s.type) @@ @]
    [] s.do = "create type" ->
         IF s.type \in DOMAIN d.type THEN d ELSE [d EXCEPT !.type = (s.type :> s.values) @@ @]
    [] s.do = "extend"    -> [d EXCEPT !.type[s.type] = @ \cup s.values]
    [] s.do = "drop type" -> [d EXCEPT !.type = Without(@, {s.type})]
    [] s.do = "refer"     -> [d EXCEPT !.table[s.table].refs = @ \cup {s.ref}]
    [] s.do = "unrefer"   -> [d EXCEPT !.table[s.table].refs = { r \in @ : r[1] # s.column }]
    [] s.do = "unique"    -> [d EXCEPT !.table[s.table].unique = @ \cup {<<s.columns, s.when>>}]
    [] s.do = "repeat"    ->
         IF HasTable(d, s.table)
         THEN [d EXCEPT !.table[s.table].unique = { u \in @ : u[1] # s.columns }]
         ELSE d
    [] s.do = "require"   -> SetColumns(d, s.table, {s.column}, "must")
    [] s.do = "allow"     -> SetColumns(d, s.table, {s.column}, "null")
    [] s.do = "touch"     -> d

\* The statements of a migration: the schema they lead to, and whether each works.
Run(d, statements) ==
  Seqs!FoldLeft(LAMBDA r, s : IF r.ok /\ Works(r.db, s) THEN [r EXCEPT !.db = After(@, s)]
                                                        ELSE [r EXCEPT !.ok = FALSE],
                [db |-> d, ok |-> TRUE], statements)
\* The schema after the first n migrations on an empty database: one, in a set.
Reached[n \in 0 .. Last] ==
  IF n = 0 THEN {Empty} ELSE { Run(d, migrations[n].up).db : d \in Reached[n - 1] }
-----------------------------------------------------------------------------
\* A new database, one with todos, or one that earlier releases brought up.
Init ==
  /\ applied \in Release
  /\ db \in Reached[applied] \cup (IF applied = 0 THEN {Todos} ELSE {})
  /\ work = Empty
  /\ at = 0
  /\ mode = "idle"
  /\ refused = FALSE

\* migrationsRun on start, or migration:run before it; migration:revert
Begin(to) ==
  /\ mode = "idle"
  /\ IF to = "up" THEN applied < Last ELSE applied > 0
  /\ mode' = to
  /\ work' = db
  /\ at' = applied
  /\ UNCHANGED <<db, applied, refused>>

End ==
  /\ mode' = "idle"
  /\ work' = Empty
  /\ at' = 0

Execute(statements, to) ==
  LET r == Run(work, statements) IN
    IF r.ok
    THEN work' = r.db /\ at' = to /\ UNCHANGED <<mode, refused>>
    ELSE End /\ refused' = TRUE

Up ==
  /\ mode = "up"
  /\ at < Last
  /\ Execute(migrations[at + 1].up, at + 1)
  /\ UNCHANGED <<db, applied>>

Down ==
  /\ mode = "down"
  /\ at = applied
  /\ Execute(migrations[at].down, at - 1)
  /\ UNCHANGED <<db, applied>>

\* A release brings migrations up to some point.
Commit ==
  /\ mode # "idle"
  /\ at # applied
  /\ db' = work
  /\ applied' = at
  /\ End
  /\ UNCHANGED refused

\* The process dies, or a row is in the way of SET NOT NULL.
Rollback ==
  /\ mode # "idle"
  /\ End
  /\ UNCHANGED <<db, applied, refused>>

Next == Begin("up") \/ Begin("down") \/ Up \/ Down \/ Commit \/ Rollback

Spec == Init /\ [][Next]_vars
-----------------------------------------------------------------------------
(* Properties                                                              *)

\* An entity can be saved and loaded: its columns are there, and a row that is
\* inserted with what the entity gives violates nothing.
ColumnsServe(entity, table) ==
  /\ DOMAIN entity.column \subseteq DOMAIN table.column
  /\ \A c \in DOMAIN entity.column :
       entity.column[c] # "must" => table.column[c] = entity.column[c]
  /\ \A c \in DOMAIN table.column \ DOMAIN entity.column : table.column[c] # "must"

\* What the code leaves to the database: that values do not repeat, and what
\* follows from a deletion.
ConstraintsServe(entity, table) ==
  /\ { Always(C) : C \in entity.unique } \subseteq table.unique
  /\ entity.refs \subseteq table.refs

\* The guards that other parts of the program count on, declared in no entity.
UniqueGuards ==
  { <<"board_cycles", {"project_id"}, "status = active">>,
    <<"control_sessions", {"machine_id"}, "closed_at is null">>,
    <<"tasks", {"project_id", "task_number"}, "always">>,
    <<"token_usage", {"turn_id"}, "always">>,
    <<"machines", {"kind", "source_id"}, "source_id">>,
    <<"users", {"sso_assign"}, "sso_assign">>,
    <<"push_subscriptions", {"endpoint"}, "always">>,
    <<"conversation_task_contexts", {"conversation_id", "task_id"}, "always">> }

\* Once all migrations are committed, the database serves every entity, however
\* it got there.  (What is committed does not change within a transaction.)
SchemaServes ==
  mode = "idle" /\ applied = Last =>
    /\ \A t \in DOMAIN E!entities :
         /\ t \in DOMAIN db.table
         /\ ColumnsServe(E!entities[t], db.table[t])
         /\ ConstraintsServe(E!entities[t], db.table[t])
    /\ \A g \in UniqueGuards : <<g[2], g[3]>> \in db.table[g[1]].unique

\* No statement of a migration or of its revert is refused because of the schema.
MigrationsWork == ~refused

\* The number of migrations says what the tables are, whatever was deployed,
\* reverted or interrupted before; only values of enumerations stay.
PathIndependent ==
  mode = "idle" /\ applied >= 2 =>
    \A d \in Reached[applied] :
      /\ db.table = d.table
      /\ \A y \in DOMAIN d.type : d.type[y] \subseteq db.type[y]

\* task-history-field.enum.ts and the other enumerations of the code: a value
\* that the code writes is one that the column takes.
EnumsServe ==
  applied = Last =>
    \A t \in DOMAIN E!entities : \A c \in DOMAIN E!entities[t].typed :
      E!entities[t].typed[c] \subseteq db.type[db.table[t].typed[c]]
=============================================================================
