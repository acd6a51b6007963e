----------------------------- MODULE NameSessions -----------------------------
(***************************************************************************)
(* One name session: its list of names, batches, feedback rounds and the   *)
(* ballots of its members (src/name-sessions/name-sessions.service.ts).    *)
(*                                                                         *)
(* A handler that changes the session does it under a lock of the row: it  *)
(* loads the entity, changes it and saves all of it.  Views and ballots    *)
(* take no lock.  Members send back what a view has shown them, however    *)
(* old.  Of a name the model keeps its spelling, status, batch number and  *)
(* who likes it, a Love being a Like; the columns that only their own call *)
(* reads, such as checks, notes and the shortlist, are left out.           *)
(***************************************************************************)
EXTENDS Naturals, Sequences, FiniteSets

CONSTANTS
  Member,    \* users of the application
  Manager,   \* the creator and the administrators
  Id,        \* candidate ids, each used once
  Spelling,  \* normalized names
  SpellingOf, \* the name an id will be given to
  Call,      \* concurrent calls
  None,      \* no id and no member
  MinFresh, MaxFresh, \* size of a batch: 10 and 20 in the source
  MinRound, MaxRound, \* size of a round: 2 and 5
  MaxBatches, MaxRounds, \* bounds: batches and rounds ever opened
  MaxFails   \* bound: calls that die half way

ASSUME SessionAssumption ==
  /\ Manager \subseteq Member
  /\ SpellingOf \in [Id -> Spelling]
  /\ None \notin Id \cup Member
  /\ {MinFresh, MaxFresh, MinRound, MaxRound, MaxBatches, MaxRounds, MaxFails} \subseteq Nat

VARIABLES
  present,  \* the project_name_sessions row exists
  row,      \* and what is in it
  used,     \* ids that randomUUID has returned
  votes,    \* name_candidate_feedback: <<round, id, member>> -> ballot row
  seen,     \* the list of names each member was last shown
  shown,    \* rounds whose tallies a member was ever shown
  at, who, ent, \* a call: where it is, whose it is, the entity it loaded
  round, todo,  \* the round a ballot is for, its entries still to be saved
  entry,    \* the row it is about to save
  fails

calls == <<at, who, ent, round, todo, entry>>
vars  == <<present, row, used, votes, seen, shown, calls, fails>>

Status == {"active", "rejected", "recommended"}
Stamp  == 0 .. MaxBatches   \* batchNumber, 0 when it is absent
Shape  == [status : Status, stamp : Stamp]
Name   == [status : Status, stamp : Stamp, likes : SUBSET Member]
Batch  == [ids : SUBSET Id, winner : Id \cup {None}, finalists : SUBSET Id]
Round  == [ids : SUBSET Id, open : BOOLEAN]
Ballot == [reaction : {"none", "passed", "liked"}, told : BOOLEAN]

\* f is a function from some ids to T.
Listed(f, T) == DOMAIN f \subseteq Id /\ f \in [DOMAIN f -> T]

\* The columns of the row; pick is recommendedCandidateId.
Session(r) ==
  /\ r = [mode |-> r.mode, names |-> r.names, pick |-> r.pick,
          batches |-> r.batches, rounds |-> r.rounds]
  /\ r.mode \in {"solo", "team"}
  /\ Listed(r.names, Name)
  /\ r.pick \in Id \cup {None}
  /\ r.batches \in Seq(Batch)
  /\ r.rounds \in Seq(Round) /\ Len(r.rounds) <= MaxRounds

\* What an answer to one name may carry: Pass, Like, Like with the spelling and
\* purpose that a complete ballot asks for, or those two emptied.
Answer == {"pass", "like", "tell", "blank"}

\* save and add are in a transaction that holds the row.
InTx == {"save", "add"}
At   == InTx \cup {"idle", "vote", "put", "view"}

NoEntry == [id |-> None, found |-> FALSE, ballot |-> [reaction |-> "none", told |-> FALSE]]

NewSession(mode) ==
  [mode |-> mode, names |-> <<>>, pick |-> None, batches |-> <<>>, rounds |-> <<>>]

Blank == NewSession("solo")   \* no entity

\* No call is under way and nobody has voted.
Quiet ==
  /\ present = TRUE
  /\ votes = <<>>
  /\ shown = [m \in Member |-> {}]
  /\ at = [c \in Call |-> "idle"]
  /\ who = [c \in Call |-> None]
  /\ ent = [c \in Call |-> Blank]
  /\ round = [c \in Call |-> 0]
  /\ todo = [c \in Call |-> <<>>]
  /\ entry = [c \in Call |-> NoEntry]
  /\ fails = 0

\* create
Init ==
  /\ row \in { NewSession(mode) : mode \in {"solo", "team"} }
  /\ used = {}
  /\ seen = [m \in Member |-> <<>>]
  /\ Quiet

-----------------------------------------------------------------------------
(* Names and numbers                                                       *)

Names(r)     == DOMAIN r.names
OpenRounds(r)  == { k \in DOMAIN r.rounds : r.rounds[k].open }
OpenBatches(r) == { b \in DOMAIN r.batches : r.batches[b].winner = None }

Only(f, S) == [i \in DOMAIN f \cap S |-> f[i]]
Over(f, g) == [i \in DOMAIN f \cup DOMAIN g |-> IF i \in DOMAIN f THEN f[i] ELSE g[i]]

\* ballotGaps finds none: each name passed, or liked and told about.
hasSubmittedBallot(k, ids, m) ==
  \A i \in ids :
    /\ <<k, i, m>> \in DOMAIN votes
    /\ LET b == votes[<<k, i, m>>]
       IN  b.reaction = "passed" \/ (b.reaction = "liked" /\ b.told)

\* Mutant: the rows of every voter count as one's own.
hasAnyBallot(k, ids, m) == \E n \in Member : hasSubmittedBallot(k, ids, n)

submitted(k, ids, m) == hasSubmittedBallot(k, ids, m)

\* decisionPhase of shapeSessionDecision
InBallot(r, m) == \E k \in OpenRounds(r) : ~submitted(k, r.rounds[k].ids, m)

\* The rounds whose tallies a view of r shows: none, or all of them.
Tallies(r, m) == IF InBallot(r, m) THEN {} ELSE DOMAIN r.rounds

\* redactCandidate, for the names of a round that m has yet to vote on.
Redacted(r, m) ==
  IF m \in Manager THEN {}
  ELSE UNION { r.rounds[k].ids : k \in { j \in OpenRounds(r) :
                                           ~submitted(j, r.rounds[j].ids, m) } }

\* toView: the list of names as m is shown it.
View(r, m) ==
  [i \in Names(r) |->
     IF i \in Redacted(r, m) THEN [status |-> "active", stamp |-> 0]
     ELSE [status |-> r.names[i].status, stamp |-> r.names[i].stamp]]

-----------------------------------------------------------------------------
(* The life of a call                                                      *)

Return(c) ==
  /\ at' = [at EXCEPT ![c] = "idle"]
  /\ who' = [who EXCEPT ![c] = None]
  /\ ent' = [ent EXCEPT ![c] = Blank]
  /\ round' = [round EXCEPT ![c] = 0]
  /\ todo' = [todo EXCEPT ![c] = <<>>]
  /\ entry' = [entry EXCEPT ![c] = NoEntry]

Begin(c, m, to, r) ==
  /\ at[c] = "idle"
  /\ present
  /\ at' = [at EXCEPT ![c] = to]
  /\ who' = [who EXCEPT ![c] = m]
  /\ ent' = [ent EXCEPT ![c] = r]

\* Mutant: a plain findOne, without the lock.
Unlocked == TRUE

\* SELECT ... FOR UPDATE waits until no other transaction has the row.
Free == \A d \in Call : at[d] \notin InTx

\* withSessionLock up to the save: the handler turns the row into r.
Lock(c, m, to, r) ==
  /\ Free
  /\ Begin(c, m, to, r)
  /\ UNCHANGED <<present, row, votes, seen, shown, round, todo, entry, fails>>

Work(c, m, r) == Lock(c, m, "save", r)

\* The answer of a call of m, made from the session r.
Show(m, r) ==
  /\ seen' = [seen EXCEPT ![m] = View(r, m)]
  /\ shown' = [shown EXCEPT ![m] = @ \cup Tallies(r, m)]

\* The save and the commit, with a view for an answer or only a name.
Save(c) ==
  /\ at[c] \in InTx
  /\ row' = ent[c]
  /\ \/ at[c] = "save" /\ Show(who[c], ent[c])
     \/ at[c] = "add" /\ UNCHANGED <<seen, shown>>
  /\ Return(c)
  /\ UNCHANGED <<present, used, votes, fails>>

-----------------------------------------------------------------------------
(* Names                                                                   *)

\* A name that was not there before, under an id of its own.
NewName == [status |-> "active", stamp |-> 0, likes |-> {}]

Fresh(i) == i \notin used /\ used' = used \cup {i}

\* Mutant: the lookup leaves out the names that were rejected.
KnownIfKept(i) ==
  \E j \in Names(row) : SpellingOf[j] = SpellingOf[i] /\ row.names[j].status # "rejected"

Known(i) == \E j \in Names(row) : SpellingOf[j] = SpellingOf[i]

\* upsertCandidate, for check, checkBatch and addCandidates: the spelling
\* decides whether the name is there.
Upsert(c, m) ==
  \E i \in Id :
    \/ /\ Known(i)
       /\ Lock(c, m, "add", row)
       /\ UNCHANGED used
    \/ /\ ~Known(i)
       /\ Fresh(i)
       /\ Lock(c, m, "add", [row EXCEPT !.names = Over(@, [j \in {i} |-> NewName])])

\* patchUserRating: Like, Pass, or neither, which also takes a rejected name
\* out of its batch.
React(c, m) ==
  \E i \in Names(row) :
    LET n == row.names[i]
    IN  /\ \/ Work(c, m, [row EXCEPT !.names[i].likes = @ \cup {m}])
           \/ Work(c, m, [row EXCEPT !.names[i].likes = @ \ {m}])
           \/ /\ n.status = "rejected"
              /\ Work(c, m, [row EXCEPT !.names[i] =
                   [status |-> "active", stamp |-> 0, likes |-> n.likes \ {m}]])
        /\ UNCHANGED used

LikesOf(stored, i) == IF i \in DOMAIN stored THEN stored[i].likes ELSE {}

\* mergeIncomingCandidates: a list of known ids overlays the stored one, any
\* other list replaces it.  undone is the id with a reaction of null.
mergeIncomingCandidates(stored, body, m, undone) ==
  LET mapped == [i \in DOMAIN body |->
                   [status |-> body[i].status, stamp |-> body[i].stamp,
                    likes |-> LikesOf(stored, i) \ (IF i = undone THEN {m} ELSE {})]]
  IN  IF DOMAIN body # {} /\ DOMAIN body \subseteq DOMAIN stored
      THEN Over(mapped, stored)
      ELSE mapped

\* update with candidates: one name again, with another status or its
\* reaction undone; the whole list; or the list and a name more.
PatchNames(c, m) ==
  LET Put(body, undone) ==
        Work(c, m, [row EXCEPT !.names = mergeIncomingCandidates(@, body, m, undone)])
  IN  \/ /\ \E i \in DOMAIN seen[m] :
              \/ \E to \in {"active", "rejected"} :
                   Put([j \in {i} |-> [seen[m][i] EXCEPT !.status = to]], None)
              \/ Put([j \in {i} |-> [status |-> "active", stamp |-> 0]], i)
         /\ UNCHANGED used
      \/ DOMAIN seen[m] # {} /\ Put(seen[m], None) /\ UNCHANGED used
      \/ \E i \in Id :
           /\ \A j \in DOMAIN seen[m] : SpellingOf[j] # SpellingOf[i]
           /\ Fresh(i)
           /\ Put(Over(seen[m], [j \in {i} |-> [status |-> "active", stamp |-> 0]]), None)

-----------------------------------------------------------------------------
(* Batches and the recommended name                                        *)

\* winnerReactionPoints: ballots count, or ratings if nobody has voted.
Points(i) ==
  IF \E v \in DOMAIN votes : votes[v].reaction # "none"
  THEN Cardinality({ v \in DOMAIN votes : v[2] = i /\ votes[v].reaction = "liked" })
  ELSE IF i \in Names(row) THEN Cardinality(row.names[i].likes) ELSE 0

isBelowTopPick(i, ids) == \E j \in ids : Points(j) > Points(i)

\* winnerScopeIds without a batch: the first batch that has the name.
winnerScopeIds(i) ==
  LET with == { b \in DOMAIN row.batches : i \in row.batches[b].ids }
  IN  IF with = {} THEN Names(row)
      ELSE row.batches[CHOOSE b \in with : \A d \in with : b <= d].ids

\* applyRecommend
applyRecommend(r, i) ==
  [r EXCEPT !.pick = i,
            !.names = [j \in DOMAIN @ |->
               IF j = i THEN [@[j] EXCEPT !.status = "recommended"]
               ELSE IF @[j].status = "recommended" THEN [@[j] EXCEPT !.status = "active"]
               ELSE @[j]]]

\* recommend; a decision note is a reason to pick a name below the top.
Recommend(c, m) ==
  /\ m \in Manager
  /\ \E i \in Names(row), note \in BOOLEAN :
       /\ isBelowTopPick(i, winnerScopeIds(i)) => note
       /\ Work(c, m, applyRecommend(row, i))
  /\ UNCHANGED used

\* Mutant: the number of the last batch again.
SameBatchNumber == Len(row.batches)

\* Mutant: the number is taken after the batch was added.
NumberAfterNext == Len(row.batches) + 2

nextBatchNumber == Len(row.batches) + 1

\* startBatch: names not yet in a batch, and the champion with them.
StartBatch(c, m) ==
  /\ m \in Manager
  /\ OpenBatches(row) = {}
  /\ Len(row.batches) < MaxBatches
  /\ \E fresh \in SUBSET (Names(row) \ {row.pick}) :
       LET ids == fresh \cup ({row.pick} \cap Names(row))
       IN  /\ Cardinality(fresh) \in MinFresh .. MaxFresh
           /\ \A i \in fresh : row.names[i].stamp = 0
           /\ Work(c, m, [row EXCEPT
                !.names = [i \in DOMAIN @ |->
                   IF i \in ids THEN [@[i] EXCEPT !.stamp = nextBatchNumber] ELSE @[i]],
                !.batches = Append(@, [ids |-> ids, winner |-> None, finalists |-> {}])])
  /\ UNCHANGED used

canCrown(b) == OpenBatches(row) = {b}

\* crownBatchWinner
Crown(c, m) ==
  /\ m \in Manager
  /\ \E b \in DOMAIN row.batches :
       /\ canCrown(b)
       /\ \E i \in row.batches[b].ids \cap Names(row), note \in BOOLEAN :
            /\ isBelowTopPick(i, row.batches[b].ids) => note
            /\ Work(c, m, applyRecommend([row EXCEPT !.batches[b].winner = i], i))
  /\ UNCHANGED used

\* setBatchFinalists, of any batch while no round is open
SetFinalists(c, m) ==
  /\ m \in Manager
  /\ OpenRounds(row) = {}
  /\ \E b \in DOMAIN row.batches :
       \E two \in SUBSET row.batches[b].ids :
         /\ Cardinality(two) = 2
         /\ Work(c, m, [row EXCEPT !.batches[b].finalists = two])
  /\ UNCHANGED used

-----------------------------------------------------------------------------
(* Rounds and ballots                                                      *)

\* Mutant: the mode may always be switched.
AnySwitch(mode) == TRUE

MaySwitch(mode) == mode # row.mode => OpenRounds(row) = {}

\* update with participationMode
SetMode(c, m) ==
  /\ m \in Manager
  /\ \E mode \in {"solo", "team"} :
       /\ MaySwitch(mode)
       /\ Work(c, m, [row EXCEPT !.mode = mode])
  /\ UNCHANGED used

StartRound(c, m) ==
  /\ m \in Manager
  /\ row.mode = "team"
  /\ OpenRounds(row) = {}
  /\ Len(row.rounds) < MaxRounds
  /\ \E ids \in SUBSET Names(row) :
       /\ Cardinality(ids) \in MinRound .. MaxRound
       /\ Work(c, m, [row EXCEPT !.rounds = Append(@, [ids |-> ids, open |-> TRUE])])
  /\ UNCHANGED used

\* closeFeedbackRound, which does not mind that the round is closed.
CloseRound(c, m) ==
  /\ m \in Manager
  /\ \E k \in DOMAIN row.rounds : Work(c, m, [row EXCEPT !.rounds[k].open = FALSE])
  /\ UNCHANGED used

\* Mutant: the round may be closed when the ballot arrives.
AnyRound(k) == TRUE

Votable(k) == row.rounds[k].open

\* upsertFeedback up to its loop: a complete ballot, or an answer for one name.
Vote(c, m) ==
  /\ \E k \in DOMAIN row.rounds :
       LET ids == row.rounds[k].ids
       IN  /\ Votable(k)
           /\ Begin(c, m, "vote", row)
           /\ round' = [round EXCEPT ![c] = k]
           /\ \/ \E all \in [ids -> {"pass", "tell"}] : todo' = [todo EXCEPT ![c] = all]
              \/ \E i \in ids, a \in Answer : todo' = [todo EXCEPT ![c] = [j \in {i} |-> a]]
  /\ UNCHANGED <<present, row, used, votes, seen, shown, entry, fails>>

patchFeedbackRow(b, a) ==
  [reaction |-> IF a = "pass" THEN "passed" ELSE IF a = "blank" THEN b.reaction ELSE "liked",
   told |-> IF a = "tell" THEN TRUE ELSE IF a = "blank" THEN FALSE ELSE b.told]

\* The row of the next entry is looked for, or made, and changed in memory.
FindBallot(c) ==
  /\ at[c] = "vote"
  /\ \E i \in DOMAIN todo[c] :
       LET v == <<round[c], i, who[c]>>
           b == IF v \in DOMAIN votes THEN votes[v] ELSE NoEntry.ballot
       IN  /\ entry' = [entry EXCEPT ![c] =
                 [id |-> i, found |-> v \in DOMAIN votes,
                  ballot |-> patchFeedbackRow(b, todo[c][i])]]
           /\ todo' = [todo EXCEPT ![c] = Only(@, Id \ {i})]
  /\ at' = [at EXCEPT ![c] = "put"]
  /\ UNCHANGED <<present, row, used, votes, seen, shown, who, ent, round, fails>>

\* It is saved.  An INSERT refers to the session, so it waits for the session's
\* lock and fails without it; UQ_name_feedback_round_candidate_user refuses a
\* second row.  A row that was found and is gone would be inserted again.
PutBallot(c) ==
  LET v == <<round[c], entry[c].id, who[c]>>
  IN  /\ at[c] = "put"
      /\ entry[c].found \/ Free
      /\ \/ /\ present /\ (entry[c].found <=> v \in DOMAIN votes)
            /\ votes' = Over([w \in {v} |-> entry[c].ballot], votes)
            /\ at' = [at EXCEPT ![c] = IF todo[c] = <<>> THEN "view" ELSE "vote"]
            /\ entry' = [entry EXCEPT ![c] = NoEntry]
            /\ UNCHANGED <<who, ent, round, todo>>
         \/ /\ ~(present /\ (entry[c].found <=> v \in DOMAIN votes))
            /\ Return(c)
            /\ UNCHANGED votes
      /\ UNCHANGED <<present, row, used, seen, shown, fails>>

\* getView reads the session, then the ballots; so does the end of a ballot.
GetView(c, m) ==
  /\ Begin(c, m, "view", row)
  /\ UNCHANGED <<present, row, used, votes, seen, shown, round, todo, entry, fails>>

EndView(c) ==
  /\ at[c] = "view"
  /\ Show(who[c], ent[c])
  /\ Return(c)
  /\ UNCHANGED <<present, row, used, votes, fails>>

-----------------------------------------------------------------------------
\* remove: the ballots go with the session.
Remove ==
  /\ present /\ Free
  /\ present' = FALSE
  /\ votes' = <<>>
  /\ UNCHANGED <<row, used, seen, shown, calls, fails>>

Fail(c) ==
  /\ at[c] # "idle"
  /\ fails < MaxFails
  /\ fails' = fails + 1
  /\ Return(c)
  /\ UNCHANGED <<present, row, used, votes, seen, shown>>

Handle(c, m) ==
  \/ Upsert(c, m) \/ React(c, m) \/ PatchNames(c, m)
  \/ Recommend(c, m) \/ StartBatch(c, m) \/ Crown(c, m) \/ SetFinalists(c, m)
  \/ SetMode(c, m) \/ StartRound(c, m) \/ CloseRound(c, m)
  \/ Vote(c, m) \/ GetView(c, m)

Advance(c) == Save(c) \/ FindBallot(c) \/ PutBallot(c) \/ EndView(c) \/ Fail(c)

Next == Remove \/ \E c \in Call : Advance(c) \/ \E m \in Member : Handle(c, m)

Spec == Init /\ [][Next]_vars
-----------------------------------------------------------------------------
(* Properties                                                              *)

TypeOK ==
  /\ present \in BOOLEAN
  /\ Session(row)
  /\ used \subseteq Id
  /\ votes \in [DOMAIN votes -> Ballot]
  /\ DOMAIN votes \subseteq (1 .. MaxRounds) \X Id \X Member
  /\ DOMAIN seen = Member /\ \A m \in Member : Listed(seen[m], Shape)
  /\ shown \in [Member -> SUBSET (1 .. MaxRounds)]
  /\ at \in [Call -> At]
  /\ who \in [Call -> Member \cup {None}]
  /\ DOMAIN ent = Call /\ \A c \in Call : Session(ent[c])
  /\ round \in [Call -> 0 .. MaxRounds]
  /\ DOMAIN todo = Call /\ \A c \in Call : Listed(todo[c], Answer)
  /\ entry \in [Call -> [id : Id \cup {None}, found : BOOLEAN, ballot : Ballot]]
  /\ fails \in 0 .. MaxFails

\* At most one batch and one round are open, and a round only while the session
\* is a team's (NAME_BATCH_OPEN, NAME_ROUND_OPEN, NAME_PARTICIPATION_ROUND_OPEN),
\* although several managers start and switch at once.
OneOpen ==
  /\ \A b, d \in OpenBatches(row) : b = d
  /\ \A k, l \in OpenRounds(row) : k = l
  /\ OpenRounds(row) # {} => row.mode = "team"

\* A name's batch number is that of a batch with the name in it, whatever old
\* lists members send back, and a batch is won by a name of its own.
StampsTrue ==
  /\ \A i \in Names(row) :
       LET b == row.names[i].stamp
       IN  b # 0 => b \in DOMAIN row.batches /\ i \in row.batches[b].ids
  /\ \A b \in DOMAIN row.batches :
       row.batches[b].finalists \cup ({row.batches[b].winner} \ {None}) \subseteq row.batches[b].ids

\* No spelling is in the list twice: two checks of a new name at once add it
\* once, and an old list that is sent back does not bring a second one.
UniqueNames ==
  \A i, j \in Names(row) : SpellingOf[i] = SpellingOf[j] => i = j

\* What others think of a name is kept as long as the name is: every save
\* writes the reactions of all members, and changes the caller's only.
ReactionsKept ==
  [][\A i \in Names(row) \cap DOMAIN row'.names, m \in Member :
       (m \in row.names[i].likes) # (m \in row'.names[i].likes) =>
         \E c \in Call : at[c] \in InTx /\ who[c] = m]_vars

\* Nobody is shown the tallies of a round that is open before having voted on
\* every name of it: a view reads the session first and the ballots later.
Sealed ==
  [][\A m \in Member : \A k \in shown'[m] \ shown[m] :
       k \in OpenRounds(row') => hasSubmittedBallot(k, row.rounds[k].ids, m)']_vars

\* Batches and rounds are a record: none is lost, their names are not changed,
\* a winner is final and a closed round stays closed.
BatchesGrow ==
  [][/\ \A b \in DOMAIN row.batches :
          /\ b \in DOMAIN row'.batches
          /\ row'.batches[b].ids = row.batches[b].ids
          /\ row.batches[b].winner \in {None, row'.batches[b].winner}
     /\ \A k \in DOMAIN row.rounds :
          /\ k \in DOMAIN row'.rounds
          /\ row'.rounds[k].ids = row.rounds[k].ids
          /\ row'.rounds[k].open => row.rounds[k].open]_vars

\* The ballots of a round change only by a call that began while it was open
\* (NAME_ROUND_CLOSED): they are saved without the session's lock.
LateBallots ==
  [][present' => \A v \in DOMAIN votes' :
       (v \in DOMAIN votes => votes[v] # votes'[v]) =>
         \E c \in Call : at[c] = "put" /\ round[c] = v[1] /\ v[1] \in OpenRounds(ent[c])]_vars
=============================================================================
