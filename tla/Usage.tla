-------------------------------- MODULE Usage --------------------------------
(* Token usage of the turns of an agent: the IDE and the relay upload it,    *)
(* each again when it got no answer, and a turn is to be counted once.       *)
EXTENDS Integers, FiniteSets

CONSTANTS
  Upload,     \* requests, the repeated ones included
  Turn,       \* turns of an agent
  Session,    \* control sessions
  None        \* no session

VARIABLES
  sessions,   \* the sessions that have a row
  usage,      \* the rows: [turn, session, by], by being the request that made it
  pc,         \* where a request is: "idle", "look", "insert", "answered" or "failed"
  dto,        \* what it uploads: [turn, session]
  inserted    \* what it was answered

vars == <<sessions, usage, pc, dto, inserted>>

Init ==
  /\ sessions = Session
  /\ usage = {}
  /\ pc = [u \in Upload |-> "idle"]
  /\ dto = [u \in Upload |-> [turn |-> CHOOSE t \in Turn : TRUE, session |-> None]]
  /\ inserted = [u \in Upload |-> FALSE]

Rows(turn) == {r \in usage : r.turn = turn}

Answer(u, yes) ==
  /\ pc' = [pc EXCEPT ![u] = "answered"]
  /\ inserted' = [inserted EXCEPT ![u] = yes]

\* reportUsage and recordUsageInternal. (The look for the machine of the
\* session fills a column and decides nothing.)
Begin(u, turn, session) ==
  /\ pc[u] = "idle"
  /\ dto' = [dto EXCEPT ![u] = [turn |-> turn, session |-> session]]
  /\ pc' = [pc EXCEPT ![u] = "look"]
  /\ UNCHANGED <<sessions, usage, inserted>>

\* A turn that has a row is answered at once.
LookForTurn(u) ==
  /\ pc[u] = "look"
  /\ IF Rows(dto[u].turn) # {}
     THEN Answer(u, FALSE)
     ELSE pc' = [pc EXCEPT ![u] = "insert"] /\ UNCHANGED inserted
  /\ UNCHANGED <<sessions, usage, dto>>

\* What PostgreSQL refuses: the turn of another row, a session without a row.
TurnTaken(d)   == Rows(d.turn) # {}
SessionGone(d) == d.session \notin sessions \cup {None}

\* Mutant: any refusal is taken for a turn that is there already.
AnyViolation(d) == TurnTaken(d) \/ SessionGone(d)

\* Of the two refusals only that of the turn is an answer.
isUniqueViolation(d) == TurnTaken(d)

Refuse(u) ==
  /\ pc[u] = "insert"
  /\ TurnTaken(dto[u]) \/ SessionGone(dto[u])
  /\ IF isUniqueViolation(dto[u])
     THEN Answer(u, FALSE)
     ELSE pc' = [pc EXCEPT ![u] = "failed"] /\ UNCHANGED inserted
  /\ UNCHANGED <<sessions, usage, dto>>

Insert(u) ==
  /\ pc[u] = "insert"
  /\ ~ TurnTaken(dto[u]) /\ ~ SessionGone(dto[u])
  /\ usage' = usage \cup {[turn |-> dto[u].turn, session |-> dto[u].session, by |-> u]}
  /\ Answer(u, TRUE)
  /\ UNCHANGED <<sessions, dto>>

\* A device goes with its owner and takes its sessions along; the usage stays.
RemoveSession(s) ==
  /\ s \in sessions
  /\ sessions' = sessions \ {s}
  /\ usage' = {IF r.session = s THEN [r EXCEPT !.session = None] ELSE r : r \in usage}
  /\ UNCHANGED <<pc, dto, inserted>>

Next ==
  \/ \E u \in Upload :
       \/ \E turn \in Turn, session \in Session \cup {None} : Begin(u, turn, session)
       \/ LookForTurn(u) \/ Refuse(u) \/ Insert(u)
  \/ \E s \in Session : RemoveSession(s)

Spec == Init /\ [][Next]_vars
-----------------------------------------------------------------------------
\* control.service.ts:314: "Same row must never be recorded twice": when an
\* upload is answered its turn has one row, and one upload was told that it
\* inserted it, however many were under way or repeated.
TurnCountedOnce ==
  \A u \in Upload : pc[u] = "answered" =>
    /\ Cardinality(Rows(dto[u].turn)) = 1
    /\ Cardinality({w \in Upload : inserted[w] /\ dto[w].turn = dto[u].turn}) = 1
=============================================================================
