-------------------------- MODULE NameSessionsProofs --------------------------
(***************************************************************************)
(* Proofs about NameSessions.  A handler writes the whole row, so what     *)
(* matters is that the row it writes follows from the one it replaces:     *)
(* the invariant carries that from the load to the save, where the lock    *)
(* keeps every other handler out in between.                               *)
(***************************************************************************)
EXTENDS NameSessions, TLAPS

\* What OneOpen says, of any row or entity.
OpenIn(r) ==
  /\ \A b, d \in OpenBatches(r) : b = d
  /\ \A k, l \in OpenRounds(r) : k = l
  /\ OpenRounds(r) # {} => r.mode = "team"

\* The batch numbers of f are numbers of batches with the name in them.
StampsIn(f, batches) ==
  \A i \in DOMAIN f : f[i].stamp # 0 =>
    f[i].stamp \in DOMAIN batches /\ i \in batches[f[i].stamp].ids

\* A batch is won by a name of its own, and so are its finalists its own.
WonIn(batches) ==
  \A b \in DOMAIN batches :
    batches[b].finalists \cup ({batches[b].winner} \ {None}) \subseteq batches[b].ids

\* Nothing is lost from r to s.
Grown(r, s) ==
  /\ \A b \in DOMAIN r.batches :
       /\ b \in DOMAIN s.batches
       /\ s.batches[b].ids = r.batches[b].ids
       /\ r.batches[b].winner \in {None, s.batches[b].winner}
  /\ \A k \in DOMAIN r.rounds :
       /\ k \in DOMAIN s.rounds
       /\ s.rounds[k].ids = r.rounds[k].ids
       /\ s.rounds[k].open => r.rounds[k].open

\* r may be committed.
Sound(r) == Session(r) /\ OpenIn(r) /\ StampsIn(r.names, r.batches) /\ WonIn(r.batches)

\* s may replace r.
Follows(r, s) == Sound(s) /\ Grown(r, s)

\* What the types leave open of a call: it has an owner, and a ballot its round
\* and its entry.
Consistent ==
  \A c \in Call :
    /\ at[c] # "idle" => who[c] \in Member
    /\ at[c] \in {"vote", "put"} => round[c] # 0
    /\ at[c] = "put" => entry[c].id \in Id

OneInTx == \A c, d \in Call : at[c] \in InTx /\ at[d] \in InTx => c = d

\* What a transaction will commit follows from what is committed.
Ahead == \A c \in Call : at[c] \in InTx => Follows(row, ent[c])

\* What has been shown, or is about to be, has true numbers.
ShownTrue ==
  /\ \A m \in Member : StampsIn(seen[m], row.batches)
  /\ \A c \in Call : at[c] \in {"vote", "put", "view"} => StampsIn(ent[c].names, row.batches)

IInv == TypeOK /\ Consistent /\ Sound(row) /\ OneInTx /\ Ahead /\ ShownTrue

-----------------------------------------------------------------------------
(* What may be written                                                     *)

\* A row with another list of names follows it if the numbers are true.
LEMMA NamesFollow ==
  ASSUME NEW r, Sound(r), NEW f, Listed(f, Name), StampsIn(f, r.batches)
  PROVE  Follows(r, [r EXCEPT !.names = f])
<1> DEFINE s == [r EXCEPT !.names = f]
<1>1. r = [mode |-> r.mode, names |-> r.names, pick |-> r.pick,
           batches |-> r.batches, rounds |-> r.rounds]
  BY DEF Sound, Session
<1>2. /\ s = [mode |-> r.mode, names |-> f, pick |-> r.pick,
              batches |-> r.batches, rounds |-> r.rounds]
      /\ s.mode = r.mode /\ s.names = f /\ s.pick = r.pick
      /\ s.batches = r.batches /\ s.rounds = r.rounds
  BY <1>1
<1> HIDE DEF s
<1>3. Session(s)
  BY <1>2 DEF Sound, Session
<1>4. OpenIn(s)
  BY <1>2 DEF Sound, OpenIn, OpenBatches, OpenRounds
<1>5. StampsIn(s.names, s.batches) /\ WonIn(s.batches)
  BY <1>2 DEF Sound
<1>6. Grown(r, s)
  BY <1>2 DEF Grown
<1>7. QED
  BY <1>3, <1>4, <1>5, <1>6 DEF Follows, Sound, s

\* A name keeps its batch number whatever else of it changes.
LEMMA SameStamps ==
  ASSUME NEW f, NEW g, NEW batches, StampsIn(f, batches),
         \A i \in DOMAIN g : g[i].stamp = 0 \/ (i \in DOMAIN f /\ g[i].stamp = f[i].stamp)
  PROVE  StampsIn(g, batches)
BY DEF StampsIn

\* Numbers stay true when the batches grow.
LEMMA StampsGrow ==
  ASSUME NEW r, NEW s, Grown(r, s), NEW f, StampsIn(f, r.batches)
  PROVE  StampsIn(f, s.batches)
BY DEF StampsIn, Grown

\* The list that update makes of a body has the numbers of the body or its own.
LEMMA MergeTrue ==
  ASSUME NEW r, Sound(r), NEW body, Listed(body, Shape), StampsIn(body, r.batches),
         NEW m \in Member, NEW undone
  PROVE  LET g == mergeIncomingCandidates(r.names, body, m, undone)
         IN  Listed(g, Name) /\ StampsIn(g, r.batches)
<1> DEFINE mapped == [i \in DOMAIN body |->
                       [status |-> body[i].status, stamp |-> body[i].stamp,
                        likes |-> LikesOf(r.names, i) \ (IF i = undone THEN {m} ELSE {})]]
<1>1. Listed(r.names, Name) /\ StampsIn(r.names, r.batches)
  BY DEF Sound, Session
<1>2. \A i : LikesOf(r.names, i) \subseteq Member
  BY <1>1 DEF LikesOf, Listed, Name
<1>3. Listed(mapped, Name)
  BY <1>2 DEF Listed, Shape, Name
<1>4. StampsIn(mapped, r.batches)
  BY DEF StampsIn
<1> HIDE DEF mapped
<1>5. Listed(Over(mapped, r.names), Name) /\ StampsIn(Over(mapped, r.names), r.batches)
  BY <1>1, <1>3, <1>4 DEF Over, Listed, StampsIn
<1>6. mergeIncomingCandidates(r.names, body, m, undone) \in {mapped, Over(mapped, r.names)}
  BY DEF mergeIncomingCandidates, mapped
<1>7. QED
  BY <1>3, <1>4, <1>5, <1>6

\* A row is the record of its columns.
LEMMA Columns ==
  ASSUME NEW r, Session(r), NEW x
  PROVE  /\ [r EXCEPT !.mode = x] = [mode |-> x, names |-> r.names, pick |-> r.pick,
                                     batches |-> r.batches, rounds |-> r.rounds]
         /\ [r EXCEPT !.pick = x] = [mode |-> r.mode, names |-> r.names, pick |-> x,
                                     batches |-> r.batches, rounds |-> r.rounds]
         /\ [r EXCEPT !.batches = x] = [mode |-> r.mode, names |-> r.names, pick |-> r.pick,
                                        batches |-> x, rounds |-> r.rounds]
         /\ [r EXCEPT !.rounds = x] = [mode |-> r.mode, names |-> r.names, pick |-> r.pick,
                                       batches |-> r.batches, rounds |-> x]
<1>1. r = [mode |-> r.mode, names |-> r.names, pick |-> r.pick,
           batches |-> r.batches, rounds |-> r.rounds]
  BY DEF Session
<1> DEFINE a == r.mode  n == r.names  p == r.pick  bs == r.batches  rs == r.rounds
<1> HIDE DEF a, n, p, bs, rs
<1>2. r = [mode |-> a, names |-> n, pick |-> p, batches |-> bs, rounds |-> rs]
  BY <1>1 DEF a, n, p, bs, rs
<1>3. QED
  BY <1>2

LEMMA FollowsTransitive ==
  ASSUME NEW r, NEW s, NEW t, Follows(r, s), Follows(s, t)
  PROVE  Follows(r, t)
<1>1. Grown(r, t)
  BY DEF Follows, Grown
<1>2. QED
  BY <1>1 DEF Follows

\* A row with other batches follows it if these are the old ones and more.
LEMMA BatchesFollow ==
  ASSUME NEW r, Sound(r), NEW bs \in Seq(Batch), WonIn(bs),
         \A b \in DOMAIN r.batches :
           /\ b \in DOMAIN bs
           /\ bs[b].ids = r.batches[b].ids
           /\ r.batches[b].winner \in {None, bs[b].winner},
         \A b, d \in DOMAIN bs : bs[b].winner = None /\ bs[d].winner = None => b = d
  PROVE  Follows(r, [r EXCEPT !.batches = bs])
<1> DEFINE s == [r EXCEPT !.batches = bs]
<1>1. s = [mode |-> r.mode, names |-> r.names, pick |-> r.pick, batches |-> bs,
           rounds |-> r.rounds]
  BY Columns DEF Sound
<1>2. /\ s.mode = r.mode /\ s.names = r.names /\ s.pick = r.pick
      /\ s.batches = bs /\ s.rounds = r.rounds
  BY <1>1
<1> HIDE DEF s
<1>3. Session(s)
  BY <1>1, <1>2 DEF Sound, Session
<1>4. OpenIn(s)
  BY <1>2 DEF Sound, OpenIn, OpenBatches, OpenRounds
<1>5. Grown(r, s)
  BY <1>2 DEF Grown
<1>6. StampsIn(s.names, s.batches) /\ WonIn(s.batches)
  BY <1>2, <1>5, StampsGrow DEF Sound
<1>7. QED
  BY <1>3, <1>4, <1>5, <1>6 DEF Follows, Sound, s

\* Likewise with rounds, of which one at most may be open, in a team's session.
LEMMA RoundsFollow ==
  ASSUME NEW r, Sound(r), NEW rs \in Seq(Round), Len(rs) <= MaxRounds,
         \A k \in DOMAIN r.rounds :
           /\ k \in DOMAIN rs
           /\ rs[k].ids = r.rounds[k].ids
           /\ rs[k].open => r.rounds[k].open,
         \A k, l \in DOMAIN rs : rs[k].open /\ rs[l].open => k = l,
         \A k \in DOMAIN rs : rs[k].open => r.mode = "team"
  PROVE  Follows(r, [r EXCEPT !.rounds = rs])
<1> DEFINE s == [r EXCEPT !.rounds = rs]
<1>1. s = [mode |-> r.mode, names |-> r.names, pick |-> r.pick,
           batches |-> r.batches, rounds |-> rs]
  BY Columns DEF Sound
<1>2. /\ s.mode = r.mode /\ s.names = r.names /\ s.pick = r.pick
      /\ s.batches = r.batches /\ s.rounds = rs
  BY <1>1
<1> HIDE DEF s
<1>3. Session(s)
  BY <1>1, <1>2 DEF Sound, Session
<1>4. OpenIn(s)
  BY <1>2 DEF Sound, OpenIn, OpenBatches, OpenRounds
<1>5. Grown(r, s)
  BY <1>2 DEF Grown
<1>6. QED
  BY <1>2, <1>3, <1>4, <1>5 DEF Follows, Sound, s

LEMMA PickFollows ==
  ASSUME NEW r, Sound(r), NEW i \in Id
  PROVE  Follows(r, [r EXCEPT !.pick = i])
<1> DEFINE s == [r EXCEPT !.pick = i]
<1>1. s = [mode |-> r.mode, names |-> r.names, pick |-> i,
           batches |-> r.batches, rounds |-> r.rounds]
  BY Columns DEF Sound
<1>2. /\ s.mode = r.mode /\ s.names = r.names /\ s.pick = i
      /\ s.batches = r.batches /\ s.rounds = r.rounds
  BY <1>1
<1> HIDE DEF s
<1>3. Session(s)
  BY <1>1, <1>2 DEF Sound, Session
<1>4. OpenIn(s) /\ Grown(r, s)
  BY <1>2 DEF Sound, OpenIn, OpenBatches, OpenRounds, Grown
<1>5. QED
  BY <1>2, <1>3, <1>4 DEF Follows, Sound, s

\* Recommending a name changes the pick and statuses.
LEMMA RecommendFollows ==
  ASSUME NEW r, Sound(r), NEW i \in DOMAIN r.names
  PROVE  Follows(r, applyRecommend(r, i))
<1> DEFINE f == [j \in DOMAIN r.names |->
                  IF j = i THEN [r.names[j] EXCEPT !.status = "recommended"]
                  ELSE IF r.names[j].status = "recommended"
                       THEN [r.names[j] EXCEPT !.status = "active"]
                       ELSE r.names[j]]
           s == [r EXCEPT !.pick = i]
<1>1. Listed(r.names, Name) /\ StampsIn(r.names, r.batches) /\ i \in Id
  BY DEF Sound, Session, Listed
<1>2. Follows(r, s)
  BY <1>1, PickFollows
<1>3. s = [mode |-> r.mode, names |-> r.names, pick |-> i,
           batches |-> r.batches, rounds |-> r.rounds]
  BY Columns DEF Sound
<1>4. \A j \in DOMAIN r.names : f[j] \in Name /\ f[j].stamp = r.names[j].stamp
  BY <1>1 DEF Listed, Name, Status
<1>5. DOMAIN f = DOMAIN r.names
  OBVIOUS
<1>6. f = [j \in DOMAIN r.names |-> f[j]]
  OBVIOUS
<1>7. applyRecommend(r, i) = [s EXCEPT !.names = f]
  <2>1. r = [mode |-> r.mode, names |-> r.names, pick |-> r.pick,
             batches |-> r.batches, rounds |-> r.rounds]
    BY DEF Sound, Session
  <2>2. applyRecommend(r, i) = [r EXCEPT !.pick = i, !.names = f]
    BY DEF applyRecommend
  <2> DEFINE a == r.mode  n == r.names  p == r.pick  bs == r.batches  rs == r.rounds
  <2> HIDE DEF f, s, a, n, p, bs, rs
  <2>3. /\ r = [mode |-> a, names |-> n, pick |-> p, batches |-> bs, rounds |-> rs]
        /\ s = [mode |-> a, names |-> n, pick |-> i, batches |-> bs, rounds |-> rs]
    BY <2>1, <1>3 DEF a, n, p, bs, rs
  <2>4. applyRecommend(r, i) =
          [mode |-> a, names |-> f, pick |-> i, batches |-> bs, rounds |-> rs]
    BY <2>2, <2>3
  <2>5. QED
    BY <2>3, <2>4
<1> HIDE DEF f, s
<1>8. Listed(f, Name)
  BY <1>1, <1>4, <1>5, <1>6 DEF Listed
<1>9. StampsIn(f, r.batches)
  BY <1>1, <1>4, <1>5, SameStamps
<1>10. s.batches = r.batches
  BY <1>3
<1>11. Follows(s, [s EXCEPT !.names = f])
  BY <1>2, <1>8, <1>9, <1>10, NamesFollow DEF Follows
<1>12. QED
  BY <1>2, <1>7, <1>11, FollowsTransitive

-----------------------------------------------------------------------------
(* What the handlers write                                                 *)

\* A handler that is at its save, with an entity that may be committed.
Writes(c, m) ==
  \E to, r : to \in InTx /\ Lock(c, m, to, r) /\ Follows(row, r) /\ used' \subseteq Id

\* What the invariant says of the row.
LEMMA RowTyped ==
  ASSUME IInv
  PROVE  /\ Sound(row) /\ Session(row)
         /\ Listed(row.names, Name)
         /\ StampsIn(row.names, row.batches)
         /\ row.batches \in Seq(Batch)
         /\ row.rounds \in Seq(Round)
         /\ used \subseteq Id
BY DEF IInv, TypeOK, Sound, Session

\* A checked or added name has no number.
LEMMA UpsertWrites ==
  ASSUME IInv, NEW c \in Call, NEW m \in Member, Upsert(c, m)
  PROVE  Writes(c, m)
<1>1. PICK i \in Id :
        \/ Lock(c, m, "add", row) /\ UNCHANGED used
        \/ /\ Fresh(i)
           /\ Lock(c, m, "add", [row EXCEPT !.names = Over(@, [j \in {i} |-> NewName])])
  BY DEF Upsert
<1> DEFINE f == Over(row.names, [j \in {i} |-> NewName])
<1>2. Follows(row, row)
  BY RowTyped DEF Follows, Grown, Round
<1>3. Listed(f, Name) /\ StampsIn(f, row.batches)
  BY RowTyped, SessionAssumption
  DEF Over, Listed, StampsIn, NewName, Name, Stamp, Status
<1>4. Follows(row, [row EXCEPT !.names = f])
  BY <1>3, RowTyped, NamesFollow
<1>5. "add" \in InTx
  BY DEF InTx
<1>6. used' \subseteq Id
  BY <1>1, RowTyped DEF Fresh
<1>7. QED
  BY <1>1, <1>2, <1>4, <1>5, <1>6 DEF Writes

\* A reaction leaves the numbers.
LEMMA ReactWrites ==
  ASSUME IInv, NEW c \in Call, NEW m \in Member, React(c, m)
  PROVE  Writes(c, m)
<1> DEFINE Like(i)   == [row.names EXCEPT ![i].likes = @ \cup {m}]
           Unlike(i) == [row.names EXCEPT ![i].likes = @ \ {m}]
           Undo(i)   == [row.names EXCEPT ![i] = [status |-> "active", stamp |-> 0,
                                                  likes |-> row.names[i].likes \ {m}]]
<1>0. PICK i \in Names(row) : \E f \in {Like(i), Unlike(i), Undo(i)} :
        Work(c, m, [row EXCEPT !.names = f]) /\ UNCHANGED used
  BY DEF React
<1>1. PICK f \in {Like(i), Unlike(i), Undo(i)} :
        Work(c, m, [row EXCEPT !.names = f]) /\ UNCHANGED used
  BY <1>0
<1>2. i \in DOMAIN row.names /\ DOMAIN f = DOMAIN row.names
  BY DEF Names
<1>3. Listed(f, Name)
  <2>1. row.names[i] \in Name /\ 0 \in Stamp
    BY <1>2, RowTyped, SessionAssumption DEF Listed, Stamp
  <2>2. \E n \in Name : f = [row.names EXCEPT ![i] = n]
    <3>1. CASE f = Like(i)
      BY <3>1, <2>1 DEF Name
    <3>2. CASE f = Unlike(i)
      BY <3>2, <2>1 DEF Name
    <3>3. CASE f = Undo(i)
      BY <3>3, <2>1 DEF Name, Status
    <3>4. QED
      BY <3>1, <3>2, <3>3
  <2>3. QED
    BY <2>2, <1>2, RowTyped DEF Listed
<1>4. StampsIn(f, row.batches)
  <2>1. \A j \in DOMAIN f : f[j].stamp = 0 \/ f[j].stamp = row.names[j].stamp
    BY <1>2, RowTyped DEF Listed, Name
  <2>2. QED
    BY <2>1, <1>2, RowTyped, SameStamps
<1>5. Follows(row, [row EXCEPT !.names = f])
  BY <1>3, <1>4, RowTyped, NamesFollow
<1>6. QED
  BY <1>1, <1>5, RowTyped DEF Writes, Work, InTx

\* A list that is sent back has numbers that were true when shown, so still are.
LEMMA PatchNamesWrites ==
  ASSUME IInv, NEW c \in Call, NEW m \in Member, PatchNames(c, m)
  PROVE  Writes(c, m)
<1> DEFINE Next1(body, undone) == mergeIncomingCandidates(row.names, body, m, undone)
<1>1. Listed(seen[m], Shape) /\ StampsIn(seen[m], row.batches)
  BY DEF IInv, TypeOK, ShownTrue
<1>2. 0 \in Stamp /\ {"active", "rejected"} \subseteq Status
  BY SessionAssumption DEF Stamp, Status
<1>3. PICK body, undone :
        /\ Listed(body, Shape) /\ StampsIn(body, row.batches)
        /\ Work(c, m, [row EXCEPT !.names = Next1(body, undone)])
        /\ used' \subseteq Id
  <2>1. CASE \E i \in DOMAIN seen[m], to \in {"active", "rejected"} :
               /\ Work(c, m, [row EXCEPT !.names =
                    Next1([j \in {i} |-> [seen[m][i] EXCEPT !.status = to]], None)])
               /\ UNCHANGED used
    <3>1. PICK i \in DOMAIN seen[m], to \in {"active", "rejected"} :
               /\ Work(c, m, [row EXCEPT !.names =
                    Next1([j \in {i} |-> [seen[m][i] EXCEPT !.status = to]], None)])
               /\ UNCHANGED used
      BY <2>1
    <3> DEFINE body == [j \in {i} |-> [seen[m][i] EXCEPT !.status = to]]
    <3>2. seen[m][i] \in Shape
      BY <1>1 DEF Listed
    <3>3. /\ [seen[m][i] EXCEPT !.status = to] \in Shape
          /\ [seen[m][i] EXCEPT !.status = to].stamp = seen[m][i].stamp
      BY <3>2, <1>2 DEF Shape
    <3>4. Listed(body, Shape)
      BY <3>3, <1>1 DEF Listed
    <3>5. StampsIn(body, row.batches)
      BY <3>3, <1>1 DEF StampsIn
    <3> HIDE DEF body
    <3>6. used' \subseteq Id
      BY <3>1, RowTyped
    <3>7. QED
      BY <3>1, <3>4, <3>5, <3>6 DEF body
  <2>2. CASE \E i \in DOMAIN seen[m] :
               /\ Work(c, m, [row EXCEPT !.names =
                    Next1([j \in {i} |-> [status |-> "active", stamp |-> 0]], i)])
               /\ UNCHANGED used
    <3>1. PICK i \in DOMAIN seen[m] :
               /\ Work(c, m, [row EXCEPT !.names =
                    Next1([j \in {i} |-> [status |-> "active", stamp |-> 0]], i)])
               /\ UNCHANGED used
      BY <2>2
    <3> DEFINE body == [j \in {i} |-> [status |-> "active", stamp |-> 0]]
    <3>2. Listed(body, Shape) /\ StampsIn(body, row.batches)
      BY <1>1, <1>2 DEF Listed, Shape, StampsIn
    <3> HIDE DEF body
    <3>3. QED
      BY <3>1, <3>2, RowTyped DEF body
  <2>3. CASE /\ Work(c, m, [row EXCEPT !.names = Next1(seen[m], None)])
             /\ UNCHANGED used
    BY <2>3, <1>1, RowTyped
  <2>4. CASE \E i \in Id :
               /\ Fresh(i)
               /\ Work(c, m, [row EXCEPT !.names =
                    Next1(Over(seen[m], [j \in {i} |-> [status |-> "active", stamp |-> 0]]), None)])
    <3>1. PICK i \in Id :
               /\ Fresh(i)
               /\ Work(c, m, [row EXCEPT !.names =
                    Next1(Over(seen[m], [j \in {i} |-> [status |-> "active", stamp |-> 0]]), None)])
      BY <2>4
    <3> DEFINE body == Over(seen[m], [j \in {i} |-> [status |-> "active", stamp |-> 0]])
    <3>2. Listed(body, Shape)
      BY <1>1, <1>2 DEF Over, Listed, Shape
    <3>3. StampsIn(body, row.batches)
      BY <1>1 DEF Over, StampsIn
    <3>4. used' \subseteq Id
      BY <3>1, RowTyped DEF Fresh
    <3> HIDE DEF body
    <3>5. QED
      BY <3>1, <3>2, <3>3, <3>4 DEF body
  <2>5. QED
    BY <2>1, <2>2, <2>3, <2>4 DEF PatchNames
<1>4. Listed(Next1(body, undone), Name) /\ StampsIn(Next1(body, undone), row.batches)
  BY <1>3, RowTyped, MergeTrue
<1>5. Follows(row, [row EXCEPT !.names = Next1(body, undone)])
  BY <1>4, RowTyped, NamesFollow
<1>6. QED
  BY <1>3, <1>5 DEF Writes, Work, InTx

\* A recommendation leaves numbers, batches and rounds.
LEMMA RecommendWrites ==
  ASSUME IInv, NEW c \in Call, NEW m \in Member, Recommend(c, m)
  PROVE  Writes(c, m)
<1>1. PICK i \in Names(row) : Work(c, m, applyRecommend(row, i)) /\ UNCHANGED used
  BY DEF Recommend
<1>2. Follows(row, applyRecommend(row, i))
  BY RowTyped, RecommendFollows DEF Names
<1>3. QED
  BY <1>1, <1>2, RowTyped DEF Writes, Work, InTx

\* A batch is started when none is open, and numbers its names.
LEMMA StartBatchWrites ==
  ASSUME IInv, NEW c \in Call, NEW m \in Member, StartBatch(c, m)
  PROVE  Writes(c, m)
<1> DEFINE batch(ids) == [ids |-> ids, winner |-> None, finalists |-> {}]
           bs(ids) == Append(row.batches, batch(ids))
           f(ids) == [i \in DOMAIN row.names |->
                       IF i \in ids THEN [row.names[i] EXCEPT !.stamp = nextBatchNumber]
                       ELSE row.names[i]]
<1>1. PICK fresh \in SUBSET (Names(row) \ {row.pick}) :
        Work(c, m, [row EXCEPT
          !.names = f(fresh \cup ({row.pick} \cap Names(row))),
          !.batches = bs(fresh \cup ({row.pick} \cap Names(row)))])
  BY DEF StartBatch
<1> DEFINE ids == fresh \cup ({row.pick} \cap Names(row))
           N == Len(row.batches)
           s == [row EXCEPT !.batches = bs(ids)]
<1>2. OpenBatches(row) = {} /\ N < MaxBatches /\ UNCHANGED used
  BY DEF StartBatch
<1>3. ids \subseteq DOMAIN row.names /\ ids \subseteq Id
  BY RowTyped DEF Names, Listed
<1>4. row.batches \in Seq(Batch) /\ N \in Nat /\ DOMAIN row.batches = 1 .. N
  BY RowTyped
<1>5. batch(ids) \in Batch
  BY <1>3 DEF Batch
<1>6. /\ bs(ids) \in Seq(Batch)
      /\ DOMAIN bs(ids) = 1 .. N + 1
      /\ \A b \in 1 .. N : bs(ids)[b] = row.batches[b]
      /\ bs(ids)[N + 1] = batch(ids)
  BY <1>4, <1>5
<1>7. \A b \in DOMAIN bs(ids) : bs(ids)[b].winner = None => b = N + 1
  BY <1>2, <1>4, <1>6 DEF OpenBatches
<1>8. WonIn(bs(ids))
  <2>1. WonIn(row.batches)
    BY RowTyped DEF Sound
  <2>2. ASSUME NEW b \in DOMAIN bs(ids)
        PROVE  bs(ids)[b].finalists \cup ({bs(ids)[b].winner} \ {None}) \subseteq bs(ids)[b].ids
    <3>1. CASE b = N + 1
      BY <3>1, <1>6
    <3>2. CASE b \in 1 .. N
      BY <3>2, <1>4, <1>6, <2>1 DEF WonIn
    <3>3. QED
      BY <3>1, <3>2, <1>4, <1>6
  <2>3. QED
    BY <2>2 DEF WonIn
<1>9. Follows(row, s)
  <2>1. \A b \in DOMAIN row.batches :
           /\ b \in DOMAIN bs(ids)
           /\ bs(ids)[b].ids = row.batches[b].ids
           /\ row.batches[b].winner \in {None, bs(ids)[b].winner}
    BY <1>4, <1>6
  <2>2. \A b, d \in DOMAIN bs(ids) :
          bs(ids)[b].winner = None /\ bs(ids)[d].winner = None => b = d
    BY <1>7
  <2> HIDE DEF bs, ids
  <2>3. QED
    BY <2>1, <2>2, <1>6, <1>8, RowTyped, BatchesFollow
<1>10. /\ s.batches = bs(ids) /\ s.names = row.names
       /\ s = [mode |-> row.mode, names |-> row.names, pick |-> row.pick,
               batches |-> bs(ids), rounds |-> row.rounds]
  <2> HIDE DEF bs, ids
  <2>1. s = [mode |-> row.mode, names |-> row.names, pick |-> row.pick,
             batches |-> bs(ids), rounds |-> row.rounds]
    BY Columns, RowTyped
  <2> HIDE DEF s
  <2>2. QED
    BY <2>1
<1>11. Listed(f(ids), Name)
  <2>1. nextBatchNumber \in Stamp
    BY <1>2, <1>4, SessionAssumption DEF Stamp, nextBatchNumber
  <2>2. \A i \in DOMAIN row.names :
          row.names[i] \in Name /\ [row.names[i] EXCEPT !.stamp = nextBatchNumber] \in Name
    BY <2>1, RowTyped DEF Listed, Name
  <2> HIDE DEF ids
  <2>3. QED
    BY <2>2, RowTyped DEF Listed
<1>12. StampsIn(f(ids), bs(ids))
  <2>1. ASSUME NEW i \in DOMAIN f(ids), f(ids)[i].stamp # 0
        PROVE  f(ids)[i].stamp \in DOMAIN bs(ids) /\ i \in bs(ids)[f(ids)[i].stamp].ids
    <3>1. row.names[i] \in Name
      BY RowTyped DEF Listed
    <3>2. CASE i \in ids
      <4>1. f(ids)[i].stamp = N + 1
        BY <3>1, <3>2 DEF nextBatchNumber, Name
      <4>2. QED
        BY <4>1, <3>2, <1>4, <1>6
    <3>3. CASE i \notin ids
      <4>1. f(ids)[i] = row.names[i]
        BY <3>3
      <4> HIDE DEF f, bs, ids
      <4>2. row.names[i].stamp \in 1 .. N /\ i \in row.batches[row.names[i].stamp].ids
        BY <4>1, <2>1, <1>4, RowTyped DEF StampsIn, f
      <4>3. QED
        BY <4>1, <4>2, <1>4, <1>6
    <3>4. QED
      BY <3>2, <3>3
  <2>2. QED
    BY <2>1 DEF StampsIn
<1>13. [row EXCEPT !.names = f(ids), !.batches = bs(ids)] = [s EXCEPT !.names = f(ids)]
  <2>1. row = [mode |-> row.mode, names |-> row.names, pick |-> row.pick,
               batches |-> row.batches, rounds |-> row.rounds]
    BY RowTyped DEF Session
  <2> DEFINE a == row.mode  n == row.names  p == row.pick  os == row.batches  rs == row.rounds
             g == f(ids)  ns == bs(ids)
  <2> HIDE DEF f, bs, ids, s, a, n, p, os, rs, g, ns
  <2>2. /\ row = [mode |-> a, names |-> n, pick |-> p, batches |-> os, rounds |-> rs]
        /\ s = [mode |-> a, names |-> n, pick |-> p, batches |-> ns, rounds |-> rs]
    BY <2>1, <1>10 DEF a, n, p, os, rs, ns
  <2> DEFINE t == [row EXCEPT !.names = g]
             goal == [mode |-> a, names |-> g, pick |-> p, batches |-> ns, rounds |-> rs]
  <2>3. t = [mode |-> a, names |-> g, pick |-> p, batches |-> os, rounds |-> rs]
    BY <2>2
  <2>4. [s EXCEPT !.names = g] = goal
    BY <2>2
  <2>5. [t EXCEPT !.batches = ns] = goal
    <3> HIDE DEF t
    <3>1. QED
      BY <2>3
  <2> HIDE DEF goal
  <2>6. [row EXCEPT !.names = g, !.batches = ns] = goal
    BY <2>5
  <2>7. QED
    BY <2>4, <2>6 DEF g, ns
<1> HIDE DEF f, bs, s, ids
<1>14. Follows(s, [s EXCEPT !.names = f(ids)])
  BY <1>9, <1>10, <1>11, <1>12, NamesFollow DEF Follows
<1>15. Follows(row, [row EXCEPT !.names = f(ids), !.batches = bs(ids)])
  BY <1>9, <1>13, <1>14, FollowsTransitive
<1>16. Work(c, m, [row EXCEPT !.names = f(ids), !.batches = bs(ids)])
  BY <1>1 DEF ids, f, bs
<1>17. QED
  BY <1>2, <1>15, <1>16, RowTyped DEF Writes, Work, InTx

\* The open batch is closed with a winner of its own.
LEMMA CrownWrites ==
  ASSUME IInv, NEW c \in Call, NEW m \in Member, Crown(c, m)
  PROVE  Writes(c, m)
<1> DEFINE bs(b, i) == [row.batches EXCEPT ![b].winner = i]
<1>1. PICK b \in DOMAIN row.batches : \E i \in row.batches[b].ids \cap Names(row) :
        /\ canCrown(b)
        /\ Work(c, m, applyRecommend([row EXCEPT !.batches = bs(b, i)], i))
  BY DEF Crown
<1>2. PICK i \in row.batches[b].ids \cap Names(row) :
        Work(c, m, applyRecommend([row EXCEPT !.batches = bs(b, i)], i))
  BY <1>1
<1>3. OpenBatches(row) = {b} /\ UNCHANGED used
  BY <1>1 DEF Crown, canCrown
<1>4. /\ row.batches \in Seq(Batch) /\ row.batches[b] \in Batch
      /\ i \in Id /\ i # None
      /\ WonIn(row.batches)
  BY RowTyped, SessionAssumption DEF Names, Listed, Sound
<1> DEFINE new == [row.batches[b] EXCEPT !.winner = i]
<1>5. /\ new \in Batch
      /\ new.ids = row.batches[b].ids
      /\ new.finalists = row.batches[b].finalists
      /\ new.winner = i
  BY <1>4 DEF Batch
<1>6. /\ bs(b, i) \in Seq(Batch)
      /\ DOMAIN bs(b, i) = DOMAIN row.batches
      /\ bs(b, i)[b] = new
      /\ \A d \in DOMAIN row.batches \ {b} : bs(b, i)[d] = row.batches[d]
  BY <1>4, <1>5
<1> HIDE DEF bs, new
<1>7. WonIn(bs(b, i))
  BY <1>2, <1>4, <1>5, <1>6 DEF WonIn
<1>8. \A d \in DOMAIN bs(b, i) : bs(b, i)[d].winner # None
  BY <1>3, <1>4, <1>5, <1>6 DEF OpenBatches
<1>9. row.batches[b].winner = None
  BY <1>3 DEF OpenBatches
<1> DEFINE s == [row EXCEPT !.batches = bs(b, i)]
<1>10. Follows(row, s)
  <2>1. \A d \in DOMAIN row.batches :
           /\ d \in DOMAIN bs(b, i)
           /\ bs(b, i)[d].ids = row.batches[d].ids
           /\ row.batches[d].winner \in {None, bs(b, i)[d].winner}
    BY <1>5, <1>6, <1>9
  <2>2. QED
    BY <2>1, <1>6, <1>7, <1>8, RowTyped, BatchesFollow
<1>11. s.names = row.names
  BY Columns, RowTyped
<1> HIDE DEF s
<1>12. Follows(s, applyRecommend(s, i))
  BY <1>10, <1>11, RecommendFollows DEF Follows, Names
<1>13. Follows(row, applyRecommend(s, i))
  BY <1>10, <1>12, FollowsTransitive
<1>14. Work(c, m, applyRecommend(s, i))
  BY <1>2 DEF s
<1>15. QED
  BY <1>3, <1>13, <1>14, RowTyped DEF Writes, Work, InTx

\* Finalists are taken from their batch.
LEMMA SetFinalistsWrites ==
  ASSUME IInv, NEW c \in Call, NEW m \in Member, SetFinalists(c, m)
  PROVE  Writes(c, m)
<1> DEFINE bs(b, two) == [row.batches EXCEPT ![b].finalists = two]
<1>1. PICK b \in DOMAIN row.batches : \E two \in SUBSET row.batches[b].ids :
        Work(c, m, [row EXCEPT !.batches = bs(b, two)])
  BY DEF SetFinalists
<1>2. PICK two \in SUBSET row.batches[b].ids :
        Work(c, m, [row EXCEPT !.batches = bs(b, two)])
  BY <1>1
<1>3. /\ row.batches \in Seq(Batch) /\ row.batches[b] \in Batch
      /\ WonIn(row.batches) /\ OpenIn(row)
  BY RowTyped DEF Sound
<1> DEFINE new == [row.batches[b] EXCEPT !.finalists = two]
<1>4. /\ new \in Batch
      /\ new.ids = row.batches[b].ids
      /\ new.finalists = two
      /\ new.winner = row.batches[b].winner
  BY <1>3 DEF Batch
<1>5. /\ bs(b, two) \in Seq(Batch)
      /\ DOMAIN bs(b, two) = DOMAIN row.batches
      /\ bs(b, two)[b] = new
      /\ \A d \in DOMAIN row.batches \ {b} : bs(b, two)[d] = row.batches[d]
  BY <1>3, <1>4
<1> HIDE DEF bs, new
<1>6. WonIn(bs(b, two))
  BY <1>2, <1>3, <1>4, <1>5 DEF WonIn
<1>7. \A d \in DOMAIN row.batches :
         /\ d \in DOMAIN bs(b, two)
         /\ bs(b, two)[d].ids = row.batches[d].ids
         /\ bs(b, two)[d].winner = row.batches[d].winner
  BY <1>4, <1>5
<1>8. \A d, e \in DOMAIN bs(b, two) :
         bs(b, two)[d].winner = None /\ bs(b, two)[e].winner = None => d = e
  BY <1>3, <1>5, <1>7 DEF OpenIn, OpenBatches
<1>9. Follows(row, [row EXCEPT !.batches = bs(b, two)])
  BY <1>5, <1>6, <1>7, <1>8, RowTyped, BatchesFollow
<1>10. UNCHANGED used
  BY DEF SetFinalists
<1>11. QED
  BY <1>2, <1>9, <1>10, RowTyped DEF Writes, Work, InTx

\* The mode is not switched while a round is open.
LEMMA SetModeWrites ==
  ASSUME IInv, NEW c \in Call, NEW m \in Member, SetMode(c, m)
  PROVE  Writes(c, m)
<1>1. PICK mode \in {"solo", "team"} :
        MaySwitch(mode) /\ Work(c, m, [row EXCEPT !.mode = mode])
  BY DEF SetMode
<1> DEFINE s == [row EXCEPT !.mode = mode]
<1>2. s = [mode |-> mode, names |-> row.names, pick |-> row.pick,
           batches |-> row.batches, rounds |-> row.rounds]
  BY Columns, RowTyped
<1>3. /\ s.mode = mode /\ s.names = row.names /\ s.pick = row.pick
      /\ s.batches = row.batches /\ s.rounds = row.rounds
  BY <1>2
<1> HIDE DEF s
<1>4. Session(s)
  BY <1>2, <1>3, RowTyped DEF Session
<1>5. OpenIn(row)
  BY RowTyped DEF Sound
<1>6. OpenIn(s)
  BY <1>1, <1>3, <1>5 DEF OpenIn, OpenBatches, OpenRounds, MaySwitch
<1>7. Grown(row, s)
  BY <1>3 DEF Grown
<1>8. Follows(row, s)
  BY <1>3, <1>4, <1>6, <1>7, RowTyped DEF Follows, Sound
<1>9. Work(c, m, s) /\ UNCHANGED used
  BY <1>1 DEF SetMode, s
<1>10. QED
  BY <1>8, <1>9, RowTyped DEF Writes, Work, InTx

\* A round is started in a team's session when none is open.
LEMMA StartRoundWrites ==
  ASSUME IInv, NEW c \in Call, NEW m \in Member, StartRound(c, m)
  PROVE  Writes(c, m)
<1> DEFINE opened(ids) == [ids |-> ids, open |-> TRUE]
           rs(ids) == Append(row.rounds, opened(ids))
           N == Len(row.rounds)
<1>1. PICK ids \in SUBSET Names(row) : Work(c, m, [row EXCEPT !.rounds = rs(ids)])
  BY DEF StartRound
<1>2. row.mode = "team" /\ OpenRounds(row) = {} /\ N < MaxRounds /\ UNCHANGED used
  BY DEF StartRound
<1>3. ids \subseteq Id
  BY RowTyped DEF Names, Listed
<1>4. row.rounds \in Seq(Round) /\ N \in Nat /\ DOMAIN row.rounds = 1 .. N
  BY RowTyped
<1>5. opened(ids) \in Round
  BY <1>3 DEF Round
<1>6. /\ rs(ids) \in Seq(Round)
      /\ Len(rs(ids)) = N + 1
      /\ DOMAIN rs(ids) = 1 .. N + 1
      /\ \A k \in 1 .. N : rs(ids)[k] = row.rounds[k]
      /\ rs(ids)[N + 1] = opened(ids)
  BY <1>4, <1>5
<1>7. \A k \in DOMAIN rs(ids) : rs(ids)[k].open => k = N + 1
  BY <1>2, <1>4, <1>6 DEF OpenRounds
<1>8. Len(rs(ids)) <= MaxRounds
  BY <1>2, <1>4, <1>6, SessionAssumption
<1>9. \A k \in DOMAIN row.rounds :
           /\ k \in DOMAIN rs(ids)
           /\ rs(ids)[k].ids = row.rounds[k].ids
           /\ rs(ids)[k].open => row.rounds[k].open
  BY <1>4, <1>6
<1> HIDE DEF rs
<1>10. Follows(row, [row EXCEPT !.rounds = rs(ids)])
  BY <1>2, <1>6, <1>7, <1>8, <1>9, RowTyped, RoundsFollow
<1>11. QED
  BY <1>1, <1>2, <1>10, RowTyped DEF Writes, Work, InTx

\* A round is closed and keeps its names.
LEMMA CloseRoundWrites ==
  ASSUME IInv, NEW c \in Call, NEW m \in Member, CloseRound(c, m)
  PROVE  Writes(c, m)
<1> DEFINE rs(k) == [row.rounds EXCEPT ![k].open = FALSE]
<1>1. PICK k \in DOMAIN row.rounds : Work(c, m, [row EXCEPT !.rounds = rs(k)])
  BY DEF CloseRound
<1>2. row.rounds \in Seq(Round) /\ row.rounds[k] \in Round /\ OpenIn(row)
  BY RowTyped DEF Sound
<1> DEFINE new == [row.rounds[k] EXCEPT !.open = FALSE]
<1>3. new \in Round /\ new.ids = row.rounds[k].ids /\ new.open = FALSE
  BY <1>2 DEF Round
<1>4. /\ rs(k) \in Seq(Round)
      /\ Len(rs(k)) = Len(row.rounds)
      /\ DOMAIN rs(k) = DOMAIN row.rounds
      /\ rs(k)[k] = new
      /\ \A l \in DOMAIN row.rounds \ {k} : rs(k)[l] = row.rounds[l]
  BY <1>2, <1>3
<1> HIDE DEF rs, new
<1>5. \A l \in DOMAIN row.rounds :
         /\ l \in DOMAIN rs(k)
         /\ rs(k)[l].ids = row.rounds[l].ids
         /\ rs(k)[l].open => row.rounds[l].open
  BY <1>3, <1>4
<1>6. /\ \A l, j \in DOMAIN rs(k) : rs(k)[l].open /\ rs(k)[j].open => l = j
      /\ \A l \in DOMAIN rs(k) : rs(k)[l].open => row.mode = "team"
  BY <1>2, <1>4, <1>5 DEF OpenIn, OpenRounds
<1>7. Len(rs(k)) <= MaxRounds
  BY <1>4, RowTyped DEF Session
<1>8. Follows(row, [row EXCEPT !.rounds = rs(k)])
  BY <1>4, <1>5, <1>6, <1>7, RowTyped, RoundsFollow
<1>9. UNCHANGED used
  BY DEF CloseRound
<1>10. QED
  BY <1>1, <1>8, <1>9, RowTyped DEF Writes, Work, InTx

-----------------------------------------------------------------------------
(* The invariant                                                           *)

\* A session begins in the invariant.
LEMMA InitIInv ==
  ASSUME Init
  PROVE  IInv
<1>1. PICK mode \in {"solo", "team"} : row = NewSession(mode)
  BY DEF Init
<1>2. \A md \in {"solo", "team"} : Session(NewSession(md))
  BY SessionAssumption DEF Session, NewSession, Listed
<1>3. Sound(row)
  <2>1. row.batches = <<>> /\ row.rounds = <<>> /\ row.names = <<>>
    BY <1>1 DEF NewSession
  <2>2. DOMAIN row.batches = {} /\ DOMAIN row.rounds = {} /\ DOMAIN row.names = {}
    BY <2>1
  <2>3. OpenIn(row) /\ StampsIn(row.names, row.batches) /\ WonIn(row.batches)
    BY <2>2 DEF OpenIn, OpenBatches, OpenRounds, StampsIn, WonIn
  <2>4. QED
    BY <1>1, <1>2, <2>3 DEF Sound
<1>4. TypeOK
  <2>1. NoEntry \in [id : Id \cup {None}, found : BOOLEAN, ballot : Ballot]
    BY DEF NoEntry, Ballot
  <2>2. \A T : Listed(<<>>, T)
    BY DEF Listed
  <2>3. DOMAIN votes = {} /\ votes \in [DOMAIN votes -> Ballot]
    BY DEF Init, Quiet
  <2>4. QED
    BY <1>2, <1>3, <2>1, <2>2, <2>3, SessionAssumption
    DEF TypeOK, Init, Quiet, Sound, At, InTx, Blank
<1>5. Consistent /\ OneInTx /\ Ahead
  BY DEF Init, Quiet, Consistent, OneInTx, Ahead, InTx
<1>6. ShownTrue
  BY DEF Init, Quiet, ShownTrue, StampsIn
<1>7. QED
  BY <1>3, <1>4, <1>5, <1>6 DEF IInv

\* What Return leaves of a call is typed.
LEMMA ReturnTyped ==
  ASSUME TypeOK, NEW c \in Call, Return(c)
  PROVE  /\ at' \in [Call -> At]
         /\ who' \in [Call -> Member \cup {None}]
         /\ DOMAIN ent' = Call /\ \A d \in Call : Session(ent'[d])
         /\ round' \in [Call -> 0 .. MaxRounds]
         /\ DOMAIN todo' = Call /\ \A d \in Call : Listed(todo'[d], Answer)
         /\ entry' \in [Call -> [id : Id \cup {None}, found : BOOLEAN, ballot : Ballot]]
         /\ at'[c] = "idle"
         /\ \A d \in Call \ {c} :
              /\ at'[d] = at[d] /\ who'[d] = who[d] /\ ent'[d] = ent[d]
              /\ round'[d] = round[d] /\ entry'[d] = entry[d]
<1>1. Session(Blank)
  BY SessionAssumption DEF Session, NewSession, Listed, Blank
<1>2. NoEntry \in [id : Id \cup {None}, found : BOOLEAN, ballot : Ballot]
  BY DEF NoEntry, Ballot
<1>3. Listed(<<>>, Answer)
  BY DEF Listed
<1>4. /\ at' \in [Call -> At] /\ at'[c] = "idle"
      /\ \A d \in Call \ {c} : at'[d] = at[d]
  BY DEF TypeOK, Return, At
<1>5. /\ who' \in [Call -> Member \cup {None}]
      /\ \A d \in Call \ {c} : who'[d] = who[d]
  BY DEF TypeOK, Return
<1>6. /\ DOMAIN ent' = Call /\ \A d \in Call : Session(ent'[d])
      /\ \A d \in Call \ {c} : ent'[d] = ent[d]
  BY <1>1 DEF TypeOK, Return
<1>7. /\ round' \in [Call -> 0 .. MaxRounds]
      /\ \A d \in Call \ {c} : round'[d] = round[d]
  BY SessionAssumption DEF TypeOK, Return
<1>8. DOMAIN todo' = Call /\ \A d \in Call : Listed(todo'[d], Answer)
  BY <1>3 DEF TypeOK, Return
<1>9. /\ entry' \in [Call -> [id : Id \cup {None}, found : BOOLEAN, ballot : Ballot]]
      /\ \A d \in Call \ {c} : entry'[d] = entry[d]
  BY <1>2 DEF TypeOK, Return
<1>10. QED
  BY <1>4, <1>5, <1>6, <1>7, <1>8, <1>9

\* A view of a session is a typed list; its numbers are the session's or absent.
LEMMA ViewTrue ==
  ASSUME NEW r, Session(r), NEW m, NEW batches, StampsIn(r.names, batches)
  PROVE  /\ Listed(View(r, m), Shape)
         /\ StampsIn(View(r, m), batches)
         /\ Tallies(r, m) \subseteq 1 .. MaxRounds
<1>1. Listed(r.names, Name)
  BY DEF Session
<1>2. Listed(View(r, m), Shape)
  BY <1>1, SessionAssumption DEF View, Names, Listed, Name, Shape, Status, Stamp
<1>3. StampsIn(View(r, m), batches)
  BY DEF View, Names, StampsIn
<1>4. DOMAIN r.rounds = 1 .. Len(r.rounds) /\ Len(r.rounds) \in Nat /\ Len(r.rounds) <= MaxRounds
  BY DEF Session
<1>5. Tallies(r, m) \subseteq 1 .. MaxRounds
  BY <1>4, SessionAssumption DEF Tallies
<1>6. QED
  BY <1>2, <1>3, <1>5

\* So the answer to a call leaves what members have been shown typed and true.
LEMMA ShowTrue ==
  ASSUME TypeOK, Consistent, NEW c \in Call, at[c] # "idle", Session(ent[c]),
         Show(who[c], ent[c]), NEW batches, StampsIn(ent[c].names, batches),
         \A m \in Member : StampsIn(seen[m], batches)
  PROVE  /\ DOMAIN seen' = Member /\ \A m \in Member : Listed(seen'[m], Shape)
         /\ shown' \in [Member -> SUBSET (1 .. MaxRounds)]
         /\ \A m \in Member : StampsIn(seen'[m], batches)
<1>1. who[c] \in Member
  BY DEF Consistent
<1>2. /\ Listed(View(ent[c], who[c]), Shape)
      /\ StampsIn(View(ent[c], who[c]), batches)
      /\ Tallies(ent[c], who[c]) \subseteq 1 .. MaxRounds
  BY ViewTrue
<1>3. QED
  BY <1>1, <1>2 DEF Show, TypeOK

-----------------------------------------------------------------------------
(* Every step preserves it                                                 *)

\* A handler that takes the lock is the only one past it.
LEMMA WritesPreserves ==
  ASSUME IInv, NEW c \in Call, NEW m \in Member, Writes(c, m)
  PROVE  IInv'
<1>1. PICK to, r : to \in InTx /\ Lock(c, m, to, r) /\ Follows(row, r) /\ used' \subseteq Id
  BY DEF Writes
<1>2. /\ at' = [at EXCEPT ![c] = to]
      /\ who' = [who EXCEPT ![c] = m]
      /\ ent' = [ent EXCEPT ![c] = r]
      /\ UNCHANGED <<present, row, votes, seen, shown, round, todo, entry, fails>>
      /\ \A d \in Call : at[d] \notin InTx
  BY <1>1 DEF Lock, Begin, Free
<1>3. TypeOK /\ Consistent /\ Ahead /\ ShownTrue
  BY DEF IInv
<1>4. to \in At /\ to \in {"save", "add"}
  BY <1>1 DEF At, InTx
<1>5. /\ at' \in [Call -> At] /\ at'[c] = to
      /\ who'[c] = m /\ ent'[c] = r
      /\ \A d \in Call \ {c} : at'[d] = at[d] /\ who'[d] = who[d] /\ ent'[d] = ent[d]
  BY <1>2, <1>3, <1>4 DEF TypeOK
<1>6. TypeOK'
  <2>1. Session(r)
    BY <1>1 DEF Follows, Sound
  <2>2. DOMAIN ent' = Call /\ \A d \in Call : Session(ent'[d])
    BY <1>2, <1>3, <2>1 DEF TypeOK
  <2>3. who' \in [Call -> Member \cup {None}]
    BY <1>2, <1>3 DEF TypeOK
  <2>4. Session(row)' /\ DOMAIN votes' \subseteq (1 .. MaxRounds) \X Id \X Member
    BY <1>2, <1>3 DEF TypeOK
  <2>5. QED
    BY <1>1, <1>2, <1>3, <1>5, <2>2, <2>3, <2>4 DEF TypeOK
<1>7. Consistent'
  BY <1>2, <1>3, <1>4, <1>5 DEF Consistent
<1>8. Sound(row)'
  BY <1>2 DEF IInv
<1>9. OneInTx'
  BY <1>2, <1>5 DEF OneInTx
<1>10. Ahead'
  BY <1>1, <1>2, <1>5 DEF Ahead
<1>11. ShownTrue'
  BY <1>2, <1>3, <1>4, <1>5 DEF ShownTrue
<1>12. QED
  BY <1>6, <1>7, <1>8, <1>9, <1>10, <1>11 DEF IInv

\* The save commits what follows from the row; nobody else was going to write.
LEMMA SavePreserves ==
  ASSUME IInv, NEW c \in Call, Save(c)
  PROVE  IInv' /\ Grown(row, row')
<1>1. /\ at[c] \in InTx /\ row' = ent[c] /\ Return(c)
      /\ (Show(who[c], ent[c]) \/ UNCHANGED <<seen, shown>>)
      /\ UNCHANGED <<present, used, votes, fails>>
  BY DEF Save
<1>2. TypeOK /\ Consistent /\ OneInTx /\ ShownTrue
  BY DEF IInv
<1>3. Sound(ent[c]) /\ Grown(row, ent[c]) /\ Session(ent[c])
      /\ StampsIn(ent[c].names, ent[c].batches)
  BY <1>1 DEF IInv, Ahead, Follows, Sound
<1>4. \A m \in Member : StampsIn(seen[m], ent[c].batches)
  BY <1>2, <1>3, StampsGrow DEF ShownTrue
<1>5. at[c] # "idle"
  BY <1>1 DEF InTx
<1>6. /\ DOMAIN seen' = Member /\ \A m \in Member : Listed(seen'[m], Shape)
      /\ shown' \in [Member -> SUBSET (1 .. MaxRounds)]
      /\ \A m \in Member : StampsIn(seen'[m], ent[c].batches)
  <2>1. CASE Show(who[c], ent[c])
    BY <2>1, <1>2, <1>3, <1>4, <1>5, ShowTrue
  <2>2. CASE UNCHANGED <<seen, shown>>
    BY <2>2, <1>2, <1>4 DEF TypeOK
  <2>3. QED
    BY <2>1, <2>2, <1>1
<1>7. TypeOK'
  BY <1>1, <1>2, <1>3, <1>6, ReturnTyped DEF TypeOK
<1>8. /\ at'[c] = "idle"
      /\ \A d \in Call \ {c} :
           /\ at'[d] = at[d] /\ who'[d] = who[d] /\ ent'[d] = ent[d]
           /\ round'[d] = round[d] /\ entry'[d] = entry[d]
  BY <1>1, <1>2, ReturnTyped
<1>9. Consistent'
  BY <1>2, <1>8 DEF Consistent
<1>10. \A d \in Call : at'[d] \notin InTx
  BY <1>1, <1>2, <1>8 DEF OneInTx, InTx
<1>11. Sound(row)' /\ OneInTx' /\ Ahead'
  BY <1>1, <1>3, <1>10 DEF OneInTx, Ahead
<1>12. ShownTrue'
  <2>1. \A m \in Member : StampsIn(seen'[m], row'.batches)
    BY <1>1, <1>6
  <2>2. ASSUME NEW d \in Call, at'[d] \in {"vote", "put", "view"}
        PROVE  StampsIn(ent'[d].names, row'.batches)
    BY <2>2, <1>1, <1>2, <1>3, <1>8, StampsGrow DEF ShownTrue
  <2>3. QED
    BY <2>1, <2>2 DEF ShownTrue
<1>13. QED
  BY <1>1, <1>3, <1>7, <1>9, <1>11, <1>12 DEF IInv

\* A step that leaves the row, the lock and what has been shown alone, and the
\* entity of a call as it was, preserves all but the types and Consistent.
LEMMA LocalPreserves ==
  ASSUME IInv, TypeOK', Consistent', UNCHANGED <<row, seen>>,
         NEW c \in Call,
         at'[c] \notin InTx,
         at'[c] = "idle" \/ ent'[c] = row
           \/ (at[c] \in {"vote", "put", "view"} /\ ent'[c] = ent[c]),
         \A d \in Call \ {c} : at'[d] = at[d] /\ ent'[d] = ent[d]
  PROVE  IInv'
<1>1. Sound(row)'
  BY DEF IInv
<1>2. OneInTx'
  BY DEF IInv, OneInTx
<1>3. Ahead'
  BY DEF IInv, Ahead
<1>4. StampsIn(row.names, row.batches)
  BY RowTyped
<1>5. ShownTrue'
  BY <1>4 DEF IInv, ShownTrue
<1>6. QED
  BY <1>1, <1>2, <1>3, <1>5 DEF IInv

\* A ballot has an open round and entries for names of it.
LEMMA VotePreserves ==
  ASSUME IInv, NEW c \in Call, NEW m \in Member, Vote(c, m)
  PROVE  IInv'
<1>1. TypeOK /\ Consistent
  BY DEF IInv
<1>2. PICK k \in DOMAIN row.rounds :
        /\ Begin(c, m, "vote", row)
        /\ round' = [round EXCEPT ![c] = k]
        /\ \/ \E all \in [row.rounds[k].ids -> {"pass", "tell"}] : todo' = [todo EXCEPT ![c] = all]
           \/ \E i \in row.rounds[k].ids, a \in Answer :
                todo' = [todo EXCEPT ![c] = [j \in {i} |-> a]]
  BY DEF Vote
<1>3. UNCHANGED <<present, row, used, votes, seen, shown, entry, fails>>
  BY DEF Vote
<1>4. k \in 1 .. MaxRounds /\ row.rounds[k].ids \subseteq Id
  <2>1. row.rounds \in Seq(Round) /\ Len(row.rounds) <= MaxRounds
    BY RowTyped DEF Session
  <2>2. row.rounds[k] \in Round /\ k \in 1 .. Len(row.rounds)
    BY <2>1
  <2>3. QED
    BY <2>1, <2>2, SessionAssumption DEF Round
<1>5. PICK f : Listed(f, Answer) /\ todo' = [todo EXCEPT ![c] = f]
  <2>1. CASE \E all \in [row.rounds[k].ids -> {"pass", "tell"}] : todo' = [todo EXCEPT ![c] = all]
    BY <2>1, <1>4 DEF Listed, Answer
  <2>2. CASE \E i \in row.rounds[k].ids, a \in Answer :
               todo' = [todo EXCEPT ![c] = [j \in {i} |-> a]]
    BY <2>2, <1>4 DEF Listed
  <2>3. QED
    BY <2>1, <2>2, <1>2
<1>6. /\ at' \in [Call -> At] /\ at'[c] = "vote"
      /\ who' \in [Call -> Member \cup {None}] /\ who'[c] = m
      /\ DOMAIN ent' = Call /\ ent'[c] = row
      /\ round' \in [Call -> 0 .. MaxRounds] /\ round'[c] = k
      /\ DOMAIN todo' = Call /\ \A d \in Call : Listed(todo'[d], Answer)
      /\ \A d \in Call \ {c} :
           at'[d] = at[d] /\ who'[d] = who[d] /\ ent'[d] = ent[d] /\ round'[d] = round[d]
  BY <1>1, <1>2, <1>4, <1>5 DEF TypeOK, Begin, At
<1>7. \A d \in Call : Session(ent'[d])
  BY <1>1, <1>6, RowTyped DEF TypeOK
<1>8. TypeOK'
  BY <1>1, <1>3, <1>6, <1>7 DEF TypeOK
<1>9. Consistent'
  BY <1>1, <1>3, <1>4, <1>6 DEF Consistent
<1>10. QED
  BY <1>3, <1>6, <1>8, <1>9, LocalPreserves DEF InTx

\* The row of an entry is typed, found or made.
LEMMA FindBallotPreserves ==
  ASSUME IInv, NEW c \in Call, FindBallot(c)
  PROVE  IInv'
<1>1. TypeOK /\ Consistent
  BY DEF IInv
<1>2. /\ at[c] = "vote"
      /\ at' = [at EXCEPT ![c] = "put"]
      /\ UNCHANGED <<present, row, used, votes, seen, shown, who, ent, round, fails>>
  BY DEF FindBallot
<1> DEFINE v(i) == <<round[c], i, who[c]>>
           b(i) == IF v(i) \in DOMAIN votes THEN votes[v(i)] ELSE NoEntry.ballot
           e(i) == [id |-> i, found |-> v(i) \in DOMAIN votes,
                    ballot |-> patchFeedbackRow(b(i), todo[c][i])]
<1>3. PICK i \in DOMAIN todo[c] :
        entry' = [entry EXCEPT ![c] = e(i)] /\ todo' = [todo EXCEPT ![c] = Only(@, Id \ {i})]
  BY DEF FindBallot
<1>4. i \in Id /\ todo[c][i] \in Answer /\ Listed(todo[c], Answer)
  BY <1>1 DEF TypeOK, Listed
<1>5. b(i) \in Ballot
  <2>1. NoEntry.ballot \in Ballot
    BY DEF NoEntry, Ballot
  <2>2. v(i) \in DOMAIN votes => votes[v(i)] \in Ballot
    BY <1>1 DEF TypeOK
  <2>3. QED
    BY <2>1, <2>2
<1>6. \A w \in Ballot : patchFeedbackRow(w, todo[c][i]) \in Ballot
  BY <1>4 DEF patchFeedbackRow, Ballot, Answer
<1>7. e(i) \in [id : Id \cup {None}, found : BOOLEAN, ballot : Ballot] /\ e(i).id \in Id
  <2> HIDE DEF b, v
  <2>1. QED
    BY <1>4, <1>5, <1>6
<1> HIDE DEF e
<1>8. /\ entry' \in [Call -> [id : Id \cup {None}, found : BOOLEAN, ballot : Ballot]]
      /\ entry'[c] = e(i)
      /\ \A d \in Call \ {c} : entry'[d] = entry[d]
  BY <1>1, <1>3, <1>7 DEF TypeOK
<1>9. Listed(Only(todo[c], Id \ {i}), Answer)
  BY <1>4 DEF Listed, Only
<1>10. DOMAIN todo' = Call /\ \A d \in Call : Listed(todo'[d], Answer)
  BY <1>1, <1>3, <1>9 DEF TypeOK
<1>11. /\ at' \in [Call -> At] /\ at'[c] = "put"
       /\ \A d \in Call \ {c} : at'[d] = at[d]
  BY <1>1, <1>2 DEF TypeOK, At
<1>12. TypeOK'
  BY <1>1, <1>2, <1>8, <1>10, <1>11 DEF TypeOK
<1>13. Consistent'
  BY <1>1, <1>2, <1>7, <1>8, <1>11 DEF Consistent
<1>14. QED
  BY <1>2, <1>11, <1>12, <1>13, LocalPreserves DEF InTx

\* Saving a ballot row touches nothing of the session.
LEMMA PutBallotPreserves ==
  ASSUME IInv, NEW c \in Call, PutBallot(c)
  PROVE  IInv'
<1>1. TypeOK /\ Consistent
  BY DEF IInv
<1> DEFINE v == <<round[c], entry[c].id, who[c]>>
<1>2. at[c] = "put" /\ UNCHANGED <<present, row, used, seen, shown, fails>>
  BY DEF PutBallot
<1>3. CASE /\ votes' = Over([w \in {v} |-> entry[c].ballot], votes)
           /\ at' = [at EXCEPT ![c] = IF todo[c] = <<>> THEN "view" ELSE "vote"]
           /\ entry' = [entry EXCEPT ![c] = NoEntry]
           /\ UNCHANGED <<who, ent, round, todo>>
  <2>1. v \in (1 .. MaxRounds) \X Id \X Member /\ entry[c].ballot \in Ballot
    BY <1>1, <1>2 DEF TypeOK, Consistent
  <2> HIDE DEF v
  <2>2. /\ votes' \in [DOMAIN votes' -> Ballot]
        /\ DOMAIN votes' \subseteq (1 .. MaxRounds) \X Id \X Member
    BY <2>1, <1>1, <1>3 DEF TypeOK, Over
  <2>3. /\ at' \in [Call -> At] /\ at'[c] \in {"view", "vote"}
        /\ \A d \in Call \ {c} : at'[d] = at[d]
    BY <1>1, <1>3 DEF TypeOK, At
  <2>4. NoEntry \in [id : Id \cup {None}, found : BOOLEAN, ballot : Ballot]
    BY DEF NoEntry, Ballot
  <2>5. /\ entry' \in [Call -> [id : Id \cup {None}, found : BOOLEAN, ballot : Ballot]]
        /\ \A d \in Call \ {c} : entry'[d] = entry[d]
    BY <2>4, <1>1, <1>3 DEF TypeOK
  <2>6. TypeOK'
    BY <1>1, <1>2, <1>3, <2>2, <2>3, <2>5 DEF TypeOK
  <2>7. Consistent'
    BY <1>1, <1>2, <1>3, <2>3, <2>5 DEF Consistent
  <2>8. QED
    BY <1>2, <1>3, <2>3, <2>6, <2>7, LocalPreserves DEF InTx
<1>4. CASE Return(c) /\ UNCHANGED votes
  <2>1. TypeOK'
    BY <1>1, <1>2, <1>4, ReturnTyped DEF TypeOK
  <2>2. /\ at'[c] = "idle"
        /\ \A d \in Call \ {c} :
             /\ at'[d] = at[d] /\ who'[d] = who[d] /\ ent'[d] = ent[d]
             /\ round'[d] = round[d] /\ entry'[d] = entry[d]
    BY <1>1, <1>4, ReturnTyped
  <2>3. Consistent'
    BY <1>1, <2>2 DEF Consistent
  <2>4. QED
    BY <1>2, <2>1, <2>2, <2>3, LocalPreserves DEF InTx
<1>5. QED
  BY <1>3, <1>4 DEF PutBallot

\* A view begins with the committed row.
LEMMA GetViewPreserves ==
  ASSUME IInv, NEW c \in Call, NEW m \in Member, GetView(c, m)
  PROVE  IInv'
<1>1. TypeOK /\ Consistent
  BY DEF IInv
<1>2. /\ Begin(c, m, "view", row)
      /\ UNCHANGED <<present, row, used, votes, seen, shown, round, todo, entry, fails>>
  BY DEF GetView
<1>3. /\ at' \in [Call -> At] /\ at'[c] = "view"
      /\ who' \in [Call -> Member \cup {None}] /\ who'[c] = m
      /\ DOMAIN ent' = Call /\ ent'[c] = row
      /\ \A d \in Call \ {c} : at'[d] = at[d] /\ who'[d] = who[d] /\ ent'[d] = ent[d]
  BY <1>1, <1>2 DEF TypeOK, Begin, At
<1>4. \A d \in Call : Session(ent'[d])
  BY <1>1, <1>3, RowTyped DEF TypeOK
<1>5. TypeOK'
  BY <1>1, <1>2, <1>3, <1>4 DEF TypeOK
<1>6. Consistent'
  BY <1>1, <1>2, <1>3 DEF Consistent
<1>7. QED
  BY <1>2, <1>3, <1>5, <1>6, LocalPreserves DEF InTx

\* A view shows numbers that the row has not outgrown.
LEMMA EndViewPreserves ==
  ASSUME IInv, NEW c \in Call, EndView(c)
  PROVE  IInv'
<1>1. TypeOK /\ Consistent /\ ShownTrue
  BY DEF IInv
<1>2. /\ at[c] = "view" /\ Show(who[c], ent[c]) /\ Return(c)
      /\ UNCHANGED <<present, row, used, votes, fails>>
  BY DEF EndView
<1>3. Session(ent[c]) /\ StampsIn(ent[c].names, row.batches)
  BY <1>1, <1>2 DEF TypeOK, ShownTrue
<1>4. /\ DOMAIN seen' = Member /\ \A m \in Member : Listed(seen'[m], Shape)
      /\ shown' \in [Member -> SUBSET (1 .. MaxRounds)]
      /\ \A m \in Member : StampsIn(seen'[m], row.batches)
  BY <1>1, <1>2, <1>3, ShowTrue DEF ShownTrue
<1>5. TypeOK'
  BY <1>1, <1>2, <1>4, ReturnTyped DEF TypeOK
<1>6. /\ at'[c] = "idle"
      /\ \A d \in Call \ {c} :
           /\ at'[d] = at[d] /\ who'[d] = who[d] /\ ent'[d] = ent[d]
           /\ round'[d] = round[d] /\ entry'[d] = entry[d]
  BY <1>1, <1>2, ReturnTyped
<1>7. Consistent'
  BY <1>1, <1>6 DEF Consistent
<1>8. Sound(row)' /\ OneInTx' /\ Ahead'
  BY <1>2, <1>6 DEF IInv, OneInTx, Ahead, InTx
<1>9. ShownTrue'
  BY <1>1, <1>2, <1>4, <1>6 DEF ShownTrue
<1>10. QED
  BY <1>5, <1>7, <1>8, <1>9 DEF IInv

\* A call that dies commits nothing.
LEMMA FailPreserves ==
  ASSUME IInv, NEW c \in Call, Fail(c)
  PROVE  IInv'
<1>1. TypeOK /\ Consistent
  BY DEF IInv
<1>2. /\ fails < MaxFails /\ fails' = fails + 1 /\ Return(c)
      /\ UNCHANGED <<present, row, used, votes, seen, shown>>
  BY DEF Fail
<1>3. fails' \in 0 .. MaxFails
  BY <1>1, <1>2, SessionAssumption DEF TypeOK
<1>4. TypeOK'
  BY <1>1, <1>2, <1>3, ReturnTyped DEF TypeOK
<1>5. /\ at'[c] = "idle"
      /\ \A d \in Call \ {c} :
           /\ at'[d] = at[d] /\ who'[d] = who[d] /\ ent'[d] = ent[d]
           /\ round'[d] = round[d] /\ entry'[d] = entry[d]
  BY <1>1, <1>2, ReturnTyped
<1>6. Consistent'
  BY <1>1, <1>5 DEF Consistent
<1>7. QED
  BY <1>2, <1>4, <1>5, <1>6, LocalPreserves DEF InTx

\* Removal leaves no ballot.
LEMMA RemovePreserves ==
  ASSUME IInv, Remove
  PROVE  IInv'
<1>1. /\ present' = FALSE /\ votes' = <<>>
      /\ UNCHANGED <<row, used, seen, shown, at, who, ent, round, todo, entry, fails>>
  BY DEF Remove, calls
<1>2. DOMAIN votes' = {} /\ votes' \in [DOMAIN votes' -> Ballot]
  BY <1>1
<1>3. TypeOK'
  BY <1>1, <1>2 DEF IInv, TypeOK
<1>4. (Consistent /\ OneInTx /\ Ahead /\ ShownTrue /\ Sound(row))'
  BY <1>1 DEF IInv, Consistent, OneInTx, Ahead, ShownTrue
<1>5. QED
  BY <1>3, <1>4 DEF IInv

\* The invariant is inductive.
LEMMA NextIInv ==
  ASSUME IInv, [Next]_vars
  PROVE  IInv'
<1>1. CASE Remove
  BY <1>1, RemovePreserves
<1>2. ASSUME NEW c \in Call, Advance(c)
      PROVE  IInv'
  BY <1>2, SavePreserves, FindBallotPreserves, PutBallotPreserves,
     EndViewPreserves, FailPreserves
  DEF Advance
<1>3. ASSUME NEW c \in Call, NEW m \in Member, Handle(c, m)
      PROVE  IInv'
  <2>1. CASE Vote(c, m)
    BY <2>1, VotePreserves
  <2>2. CASE GetView(c, m)
    BY <2>2, GetViewPreserves
  <2>3. CASE Upsert(c, m) \/ React(c, m) \/ PatchNames(c, m)
    BY <2>3, UpsertWrites, ReactWrites, PatchNamesWrites, WritesPreserves
  <2>4. CASE Recommend(c, m) \/ StartBatch(c, m) \/ Crown(c, m) \/ SetFinalists(c, m)
    BY <2>4, RecommendWrites, StartBatchWrites, CrownWrites, SetFinalistsWrites,
       WritesPreserves
  <2>5. CASE SetMode(c, m) \/ StartRound(c, m) \/ CloseRound(c, m)
    BY <2>5, SetModeWrites, StartRoundWrites, CloseRoundWrites, WritesPreserves
  <2>6. QED
    BY <1>3, <2>1, <2>2, <2>3, <2>4, <2>5 DEF Handle
<1>4. CASE UNCHANGED vars
  <2>1. /\ UNCHANGED <<present, row, used, votes, seen, shown, fails>>
        /\ UNCHANGED <<at, who, ent, round, todo, entry>>
    BY <1>4 DEF vars, calls
  <2>2. TypeOK'
    BY <2>1 DEF IInv, TypeOK
  <2>3. (Consistent /\ OneInTx /\ Ahead /\ ShownTrue /\ Sound(row))'
    BY <2>1 DEF IInv, Consistent, OneInTx, Ahead, ShownTrue
  <2>4. QED
    BY <2>2, <2>3 DEF IInv
<1>5. QED
  BY <1>1, <1>2, <1>3, <1>4 DEF Next

\* It holds of every session, however its calls interleave, die or come late.
THEOREM Invariant == Spec => []IInv
<1>1. Init => IInv
  BY InitIInv
<1>2. IInv /\ [Next]_vars => IInv'
  BY NextIInv
<1>3. QED
  BY <1>1, <1>2, PTL DEF Spec

-----------------------------------------------------------------------------
(* What it shows                                                           *)

\* Every variable has its type: nothing that is loaded, sent back, shown or
\* saved in part leaves the shapes the columns have.
THEOREM TypeCorrect == Spec => []TypeOK
<1>1. IInv => TypeOK
  BY DEF IInv
<1>2. QED
  BY <1>1, Invariant, PTL

\* However many managers start and switch at once, one batch and one round at
\* most are open, and a round only in a team's session.
THEOREM OneOpenCorrect == Spec => []OneOpen
<1>1. IInv => OneOpen
  BY DEF IInv, Sound, OpenIn, OneOpen
<1>2. QED
  BY <1>1, Invariant, PTL

\* However old the lists that members send back, every name has the number of a
\* batch that it is in, and batches are won by names of their own.
THEOREM StampsCorrect == Spec => []StampsTrue
<1>1. IInv => StampsTrue
  BY DEF IInv, Sound, StampsIn, WonIn, StampsTrue, Names
<1>2. QED
  BY <1>1, Invariant, PTL

\* No save loses or rewrites a batch or a round, and a winner and the end of a
\* round are final.
THEOREM RecordGrows == Spec => BatchesGrow
<1>1. ASSUME IInv, [Next]_vars
      PROVE  [Grown(row, row')]_vars
  <2>1. CASE \E c \in Call : Save(c)
    BY <2>1, <1>1, SavePreserves
  <2>2. CASE row' = row
    BY <2>2, RowTyped, <1>1 DEF Grown
  <2>3. ASSUME NEW c \in Call, NEW m \in Member, Handle(c, m)
        PROVE  row' = row
    <3>1. CASE Vote(c, m) \/ GetView(c, m)
      BY <3>1 DEF Vote, GetView
    <3>2. CASE Upsert(c, m) \/ React(c, m) \/ PatchNames(c, m)
      BY <3>2 DEF Upsert, React, PatchNames, Work, Lock
    <3>3. CASE Recommend(c, m) \/ StartBatch(c, m) \/ Crown(c, m) \/ SetFinalists(c, m)
      BY <3>3 DEF Recommend, StartBatch, Crown, SetFinalists, Work, Lock
    <3>4. CASE SetMode(c, m) \/ StartRound(c, m) \/ CloseRound(c, m)
      BY <3>4 DEF SetMode, StartRound, CloseRound, Work, Lock
    <3>5. QED
      BY <2>3, <3>1, <3>2, <3>3, <3>4 DEF Handle
  <2>4. ASSUME NEW c \in Call, Advance(c)
        PROVE  row' = row \/ Save(c)
    BY <2>4 DEF Advance, FindBallot, PutBallot, EndView, Fail
  <2>5. Remove => row' = row
    BY DEF Remove
  <2>6. row' = row \/ \E c \in Call : Save(c)
    BY <1>1, <2>3, <2>4, <2>5 DEF Next, vars
  <2>7. QED
    BY <2>1, <2>2, <2>6
<1>2. Grown(row, row') =>
        /\ \A b \in DOMAIN row.batches :
             /\ b \in DOMAIN row'.batches
             /\ row'.batches[b].ids = row.batches[b].ids
             /\ row.batches[b].winner \in {None, row'.batches[b].winner}
        /\ \A k \in DOMAIN row.rounds :
             /\ k \in DOMAIN row'.rounds
             /\ row'.rounds[k].ids = row.rounds[k].ids
             /\ row'.rounds[k].open => row.rounds[k].open
  BY DEF Grown
<1>3. QED
  BY <1>1, <1>2, Invariant, PTL DEF Spec, BatchesGrow

-----------------------------------------------------------------------------
(* Names and reactions.  An old list is sent back, and a save writes the      *)
(* reactions of everybody: what was shown and what is going to be saved has to *)
(* be part of the invariant.                                                   *)

UniqueIn(f) == \A i, j \in DOMAIN f : SpellingOf[i] = SpellingOf[j] => i = j

\* From r to s only the reactions of m may change.
Own(r, s, m) ==
  \A i \in DOMAIN r.names \cap DOMAIN s.names, n \in Member :
    n # m => (n \in r.names[i].likes <=> n \in s.names[i].likes)

Keeps(r, s, m) == UniqueIn(s.names) /\ Own(r, s, m)

Lists ==
  /\ UniqueIn(row.names)
  /\ \A m \in Member : UniqueIn(seen[m])
  /\ \A c \in Call : at[c] # "idle" => UniqueIn(ent[c].names)
  /\ \A c \in Call : at[c] \in InTx => Own(row, ent[c], who[c])

ListsInv == IInv /\ Lists

\* The names of a row of which another column, or the list itself, is replaced.
LEMMA NamesOf ==
  ASSUME NEW r, Session(r), NEW x
  PROVE  /\ [r EXCEPT !.mode = x].names = r.names
         /\ [r EXCEPT !.pick = x].names = r.names
         /\ [r EXCEPT !.batches = x].names = r.names
         /\ [r EXCEPT !.rounds = x].names = r.names
         /\ [r EXCEPT !.names = x].names = x
<1>1. r = [mode |-> r.mode, names |-> r.names, pick |-> r.pick,
           batches |-> r.batches, rounds |-> r.rounds]
  BY DEF Session
<1> DEFINE a == r.mode  n == r.names  p == r.pick  bs == r.batches  rs == r.rounds
<1> HIDE DEF a, n, p, bs, rs
<1>2. r = [mode |-> a, names |-> n, pick |-> p, batches |-> bs, rounds |-> rs]
  BY <1>1 DEF a, n, p, bs, rs
<1>3. [r EXCEPT !.names = x] =
        [mode |-> a, names |-> x, pick |-> p, batches |-> bs, rounds |-> rs]
  BY <1>2
<1> QED
  BY <1>3, Columns

\* Names that are the same but for their status and number.
LEMMA SameLikes ==
  ASSUME NEW r, UniqueIn(r.names), NEW s, DOMAIN s.names = DOMAIN r.names,
         \A i \in DOMAIN r.names : s.names[i].likes = r.names[i].likes,
         NEW m
  PROVE  Keeps(r, s, m)
BY DEF Keeps, Own, UniqueIn

\* Recommending a name leaves the reactions.
LEMMA RecommendKeeps ==
  ASSUME NEW r, Session(r), NEW i \in Id
  PROVE  /\ DOMAIN applyRecommend(r, i).names = DOMAIN r.names
         /\ \A j \in DOMAIN r.names : applyRecommend(r, i).names[j].likes = r.names[j].likes
<1> DEFINE f == [j \in DOMAIN r.names |->
                  IF j = i THEN [r.names[j] EXCEPT !.status = "recommended"]
                  ELSE IF r.names[j].status = "recommended"
                       THEN [r.names[j] EXCEPT !.status = "active"]
                       ELSE r.names[j]]
<1>1. applyRecommend(r, i).names = f
  <2>1. r = [mode |-> r.mode, names |-> r.names, pick |-> r.pick,
             batches |-> r.batches, rounds |-> r.rounds]
    BY DEF Session
  <2>2. applyRecommend(r, i) = [r EXCEPT !.pick = i, !.names = f]
    BY DEF applyRecommend
  <2> DEFINE a == r.mode  n == r.names  p == r.pick  bs == r.batches  rs == r.rounds
  <2> HIDE DEF f, a, n, p, bs, rs
  <2>3. r = [mode |-> a, names |-> n, pick |-> p, batches |-> bs, rounds |-> rs]
    BY <2>1 DEF a, n, p, bs, rs
  <2>4. applyRecommend(r, i) =
          [mode |-> a, names |-> f, pick |-> i, batches |-> bs, rounds |-> rs]
    BY <2>2, <2>3
  <2> QED
    BY <2>4
<1>2. \A j \in DOMAIN r.names : r.names[j] \in Name
  BY DEF Session, Listed
<1>3. \A j \in DOMAIN r.names : f[j].likes = r.names[j].likes
  BY <1>2 DEF Name
<1> QED
  BY <1>1, <1>3

\* A handler that is at its save, with lists that may be committed.
KeepsNames(c, m) == \E to, r : to \in InTx /\ Lock(c, m, to, r) /\ Keeps(row, r, m)

\* The spelling is looked for before a name is added.
LEMMA UpsertKeeps ==
  ASSUME ListsInv, NEW c \in Call, NEW m \in Member, Upsert(c, m)
  PROVE  KeepsNames(c, m)
<1>1. Session(row) /\ UniqueIn(row.names)
  BY RowTyped DEF ListsInv, Lists
<1>2. PICK i \in Id :
        \/ Lock(c, m, "add", row)
        \/ /\ ~Known(i)
           /\ Lock(c, m, "add", [row EXCEPT !.names = Over(@, [j \in {i} |-> NewName])])
  BY DEF Upsert
<1>3. CASE Lock(c, m, "add", row)
  BY <1>1, <1>3, SameLikes DEF KeepsNames, InTx
<1>4. CASE ~Known(i) /\ Lock(c, m, "add", [row EXCEPT !.names = Over(@, [j \in {i} |-> NewName])])
  <2> DEFINE f == Over(row.names, [j \in {i} |-> NewName])
             s == [row EXCEPT !.names = f]
  <2>1. s.names = f
    BY <1>1, NamesOf
  <2>2. DOMAIN f = DOMAIN row.names \cup {i} /\ \A j \in DOMAIN row.names : f[j] = row.names[j]
    BY DEF Over
  <2> HIDE DEF f
  <2>3. UniqueIn(f)
    BY <1>1, <1>4, <2>2 DEF Known, Names, UniqueIn
  <2>4. Own(row, s, m)
    BY <2>1, <2>2 DEF Own
  <2>5. Lock(c, m, "add", s)
    BY <1>4 DEF f
  <2> QED
    BY <2>1, <2>3, <2>4, <2>5 DEF KeepsNames, Keeps, InTx
<1> QED
  BY <1>2, <1>3, <1>4

\* A reaction is the caller's.
LEMMA ReactKeeps ==
  ASSUME ListsInv, NEW c \in Call, NEW m \in Member, React(c, m)
  PROVE  KeepsNames(c, m)
<1> DEFINE Like(i)   == [row.names EXCEPT ![i].likes = @ \cup {m}]
           Unlike(i) == [row.names EXCEPT ![i].likes = @ \ {m}]
           Undo(i)   == [row.names EXCEPT ![i] = [status |-> "active", stamp |-> 0,
                                                  likes |-> row.names[i].likes \ {m}]]
<1>0. Session(row) /\ UniqueIn(row.names) /\ Listed(row.names, Name)
  BY RowTyped DEF ListsInv, Lists
<1>1. PICK i \in DOMAIN row.names : \E f \in {Like(i), Unlike(i), Undo(i)} :
        Work(c, m, [row EXCEPT !.names = f])
  BY DEF React, Names
<1>2. PICK f \in {Like(i), Unlike(i), Undo(i)} : Work(c, m, [row EXCEPT !.names = f])
  BY <1>1
<1>3. row.names[i] \in Name
  BY <1>0 DEF Listed
<1>4. DOMAIN f = DOMAIN row.names /\ \A j \in DOMAIN row.names \ {i} : f[j] = row.names[j]
  OBVIOUS
<1>5. f[i].likes \in {row.names[i].likes \cup {m}, row.names[i].likes \ {m}}
  <2>1. CASE f = Like(i)
    BY <1>3, <2>1 DEF Name
  <2>2. CASE f = Unlike(i)
    BY <1>3, <2>2 DEF Name
  <2>3. CASE f = Undo(i)
    BY <2>3
  <2> QED
    BY <2>1, <2>2, <2>3
<1> DEFINE s == [row EXCEPT !.names = f]
<1>6. s.names = f
  BY <1>0, NamesOf
<1> HIDE DEF s
<1>7. Keeps(row, s, m)
  BY <1>0, <1>4, <1>5, <1>6 DEF Keeps, Own, UniqueIn
<1> QED
  BY <1>2, <1>7 DEF KeepsNames, Work, InTx, s

\* The list that update makes of a body has the names of the body or its own, and
\* the reactions that are stored.
LEMMA MergeKeeps ==
  ASSUME NEW stored, UniqueIn(stored), NEW body, UniqueIn(body), NEW m, NEW undone
  PROVE  LET g == mergeIncomingCandidates(stored, body, m, undone)
         IN  /\ UniqueIn(g)
             /\ \A i \in DOMAIN g \cap DOMAIN stored, n \in Member :
                  n # m => (n \in stored[i].likes <=> n \in g[i].likes)
<1> DEFINE mapped == [i \in DOMAIN body |->
                       [status |-> body[i].status, stamp |-> body[i].stamp,
                        likes |-> LikesOf(stored, i) \ (IF i = undone THEN {m} ELSE {})]]
           g == mergeIncomingCandidates(stored, body, m, undone)
<1>1. DOMAIN mapped = DOMAIN body /\
      \A i \in DOMAIN body \cap DOMAIN stored :
        mapped[i].likes = stored[i].likes \ (IF i = undone THEN {m} ELSE {})
  BY DEF LikesOf
<1>2. g = mapped \/ (DOMAIN body \subseteq DOMAIN stored /\ g = Over(mapped, stored))
  BY DEF mergeIncomingCandidates
<1> HIDE DEF mapped, g
<1>3. CASE g = mapped
  BY <1>1, <1>3 DEF UniqueIn, g
<1>4. CASE DOMAIN body \subseteq DOMAIN stored /\ g = Over(mapped, stored)
  <2>1. DOMAIN g = DOMAIN stored
        /\ \A i \in DOMAIN stored : g[i] = IF i \in DOMAIN body THEN mapped[i] ELSE stored[i]
    BY <1>1, <1>4 DEF Over
  <2> QED
    BY <1>1, <2>1 DEF UniqueIn, g
<1> QED
  BY <1>2, <1>3, <1>4

\* A list that is sent back was shown, or has one more name of a new spelling.
LEMMA PatchNamesKeeps ==
  ASSUME ListsInv, NEW c \in Call, NEW m \in Member, PatchNames(c, m)
  PROVE  KeepsNames(c, m)
<1> DEFINE merged(body, undone) == mergeIncomingCandidates(row.names, body, m, undone)
<1>1. UniqueIn(seen[m]) /\ UniqueIn(row.names) /\ Session(row)
  BY RowTyped DEF ListsInv, Lists
<1>2. PICK body, undone :
        UniqueIn(body) /\ Work(c, m, [row EXCEPT !.names = merged(body, undone)])
  <2>1. CASE \E i \in DOMAIN seen[m], to \in {"active", "rejected"} :
               Work(c, m, [row EXCEPT !.names =
                 merged([j \in {i} |-> [seen[m][i] EXCEPT !.status = to]], None)])
    <3>1. PICK i \in DOMAIN seen[m], to \in {"active", "rejected"} :
               Work(c, m, [row EXCEPT !.names =
                 merged([j \in {i} |-> [seen[m][i] EXCEPT !.status = to]], None)])
      BY <2>1
    <3> DEFINE body == [j \in {i} |-> [seen[m][i] EXCEPT !.status = to]]
    <3>2. UniqueIn(body)
      BY DEF UniqueIn
    <3> HIDE DEF body
    <3> QED
      BY <3>1, <3>2 DEF body
  <2>2. CASE \E i \in DOMAIN seen[m] :
               Work(c, m, [row EXCEPT !.names =
                 merged([j \in {i} |-> [status |-> "active", stamp |-> 0]], i)])
    <3>1. PICK i \in DOMAIN seen[m] :
               Work(c, m, [row EXCEPT !.names =
                 merged([j \in {i} |-> [status |-> "active", stamp |-> 0]], i)])
      BY <2>2
    <3> DEFINE body == [j \in {i} |-> [status |-> "active", stamp |-> 0]]
    <3>2. UniqueIn(body)
      BY DEF UniqueIn
    <3> HIDE DEF body
    <3> QED
      BY <3>1, <3>2 DEF body
  <2>3. CASE Work(c, m, [row EXCEPT !.names = merged(seen[m], None)])
    BY <1>1, <2>3
  <2>4. CASE \E i \in Id :
               /\ \A j \in DOMAIN seen[m] : SpellingOf[j] # SpellingOf[i]
               /\ Work(c, m, [row EXCEPT !.names =
                    merged(Over(seen[m], [j \in {i} |-> [status |-> "active", stamp |-> 0]]), None)])
    <3>1. PICK i \in Id :
               /\ \A j \in DOMAIN seen[m] : SpellingOf[j] # SpellingOf[i]
               /\ Work(c, m, [row EXCEPT !.names =
                    merged(Over(seen[m], [j \in {i} |-> [status |-> "active", stamp |-> 0]]), None)])
      BY <2>4
    <3> DEFINE body == Over(seen[m], [j \in {i} |-> [status |-> "active", stamp |-> 0]])
    <3>2. DOMAIN body = DOMAIN seen[m] \cup {i}
      BY DEF Over
    <3> HIDE DEF body
    <3>3. UniqueIn(body)
      BY <1>1, <3>1, <3>2 DEF UniqueIn
    <3> QED
      BY <3>1, <3>3 DEF body
  <2> QED
    BY <2>1, <2>2, <2>3, <2>4 DEF PatchNames
<1> DEFINE g == merged(body, undone)
           s == [row EXCEPT !.names = g]
<1>3. /\ UniqueIn(g)
      /\ \A i \in DOMAIN g \cap DOMAIN row.names, n \in Member :
           n # m => (n \in row.names[i].likes <=> n \in g[i].likes)
  BY <1>1, <1>2, MergeKeeps
<1> HIDE DEF g
<1>4. s.names = g
  BY <1>1, NamesOf
<1> HIDE DEF s
<1>5. Keeps(row, s, m)
  BY <1>3, <1>4 DEF Keeps, Own
<1> QED
  BY <1>2, <1>5 DEF KeepsNames, Work, InTx, s, g

\* The handlers of batches and rounds leave the names and the reactions.
LEMMA ManagersKeep ==
  ASSUME ListsInv, NEW c \in Call, NEW m \in Member,
         \/ Recommend(c, m) \/ StartBatch(c, m) \/ Crown(c, m) \/ SetFinalists(c, m)
         \/ SetMode(c, m) \/ StartRound(c, m) \/ CloseRound(c, m)
  PROVE  KeepsNames(c, m)
<1>0. Session(row) /\ UniqueIn(row.names) /\ Listed(row.names, Name)
  BY RowTyped DEF ListsInv, Lists
<1>1. PICK s : /\ Work(c, m, s) /\ DOMAIN s.names = DOMAIN row.names
               /\ \A i \in DOMAIN row.names : s.names[i].likes = row.names[i].likes
  <2>1. CASE Recommend(c, m)
    <3>1. PICK i \in DOMAIN row.names : Work(c, m, applyRecommend(row, i))
      BY <2>1 DEF Recommend, Names
    <3>2. i \in Id
      BY <1>0 DEF Listed
    <3> QED
      BY <1>0, <3>1, <3>2, RecommendKeeps
  <2>2. CASE StartBatch(c, m)
    <3> DEFINE f(ids) == [i \in DOMAIN row.names |->
                           IF i \in ids THEN [row.names[i] EXCEPT !.stamp = nextBatchNumber]
                           ELSE row.names[i]]
               t(ids, bs) == [row EXCEPT !.names = f(ids), !.batches = bs]
    <3>1. PICK ids, bs : Work(c, m, t(ids, bs))
      BY <2>2 DEF StartBatch
    <3>2. t(ids, bs).names = f(ids)
      <4>1. row = [mode |-> row.mode, names |-> row.names, pick |-> row.pick,
                   batches |-> row.batches, rounds |-> row.rounds]
        BY <1>0 DEF Session
      <4> DEFINE a == row.mode  n == row.names  p == row.pick  b == row.batches  r == row.rounds
                 g == f(ids)
      <4>2. t(ids, bs) = [row EXCEPT !.names = g, !.batches = bs]
        OBVIOUS
      <4> HIDE DEF a, n, p, b, r, f, g, t
      <4>3. row = [mode |-> a, names |-> n, pick |-> p, batches |-> b, rounds |-> r]
        BY <4>1 DEF a, n, p, b, r
      <4>4. t(ids, bs) = [mode |-> a, names |-> g, pick |-> p, batches |-> bs, rounds |-> r]
        BY <4>2, <4>3
      <4> QED
        BY <4>4 DEF g
    <3>3. \A i \in DOMAIN row.names : row.names[i] \in Name
      BY <1>0 DEF Listed
    <3>4. DOMAIN f(ids) = DOMAIN row.names
          /\ \A i \in DOMAIN row.names : f(ids)[i].likes = row.names[i].likes
      BY <3>3 DEF Name
    <3> HIDE DEF f, t
    <3> QED
      BY <3>1, <3>2, <3>4
  <2>3. CASE Crown(c, m)
    <3>1. PICK b \in DOMAIN row.batches : \E i \in row.batches[b].ids \cap Names(row) :
            Work(c, m, applyRecommend([row EXCEPT !.batches = [row.batches EXCEPT ![b].winner = i]], i))
      BY <2>3 DEF Crown
    <3>2. PICK i \in row.batches[b].ids \cap Names(row) :
            Work(c, m, applyRecommend([row EXCEPT !.batches = [row.batches EXCEPT ![b].winner = i]], i))
      BY <3>1
    <3> DEFINE t == [row EXCEPT !.batches = [row.batches EXCEPT ![b].winner = i]]
    <3>3. t.names = row.names /\ Session(t) /\ i \in Id
      <4>1. i \in Id /\ i \in DOMAIN row.names
        BY <1>0, <3>2 DEF Names, Listed
      <4> DEFINE bs == [row.batches EXCEPT ![b].winner = i]
      <4>2. row.batches \in Seq(Batch) /\ row.batches[b] \in Batch
        BY <1>0 DEF Session
      <4>3. [row.batches[b] EXCEPT !.winner = i] \in Batch
        BY <4>1, <4>2 DEF Batch
      <4>4. bs \in Seq(Batch)
        BY <4>2, <4>3
      <4> HIDE DEF bs
      <4>5. t = [mode |-> row.mode, names |-> row.names, pick |-> row.pick,
                 batches |-> bs, rounds |-> row.rounds]
        BY <1>0, Columns DEF bs
      <4>6. /\ t.mode = row.mode /\ t.names = row.names /\ t.pick = row.pick
            /\ t.batches = bs /\ t.rounds = row.rounds
        BY <4>5
      <4> HIDE DEF t
      <4> QED
        BY <1>0, <4>1, <4>4, <4>5, <4>6 DEF Session
    <3>4. Work(c, m, applyRecommend(t, i))
      BY <3>2
    <3> HIDE DEF t
    <3>5. /\ DOMAIN applyRecommend(t, i).names = DOMAIN row.names
          /\ \A j \in DOMAIN row.names :
               applyRecommend(t, i).names[j].likes = row.names[j].likes
      BY <3>3, RecommendKeeps
    <3> QED
      BY <3>4, <3>5
  <2>4. CASE SetFinalists(c, m)
    <3>1. PICK bs : Work(c, m, [row EXCEPT !.batches = bs])
      BY <2>4 DEF SetFinalists
    <3> DEFINE t == [row EXCEPT !.batches = bs]
    <3>2. t.names = row.names
      BY <1>0, NamesOf
    <3> HIDE DEF t
    <3>3. Work(c, m, t)
      BY <3>1 DEF t
    <3> QED
      BY <3>2, <3>3
  <2>5. CASE SetMode(c, m)
    <3>1. PICK mode : Work(c, m, [row EXCEPT !.mode = mode])
      BY <2>5 DEF SetMode
    <3> DEFINE t == [row EXCEPT !.mode = mode]
    <3>2. t.names = row.names
      BY <1>0, NamesOf
    <3> HIDE DEF t
    <3>3. Work(c, m, t)
      BY <3>1 DEF t
    <3> QED
      BY <3>2, <3>3
  <2>6. CASE StartRound(c, m) \/ CloseRound(c, m)
    <3>1. PICK rs : Work(c, m, [row EXCEPT !.rounds = rs])
      BY <2>6 DEF StartRound, CloseRound
    <3> DEFINE t == [row EXCEPT !.rounds = rs]
    <3>2. t.names = row.names
      BY <1>0, NamesOf
    <3> HIDE DEF t
    <3>3. Work(c, m, t)
      BY <3>1 DEF t
    <3> QED
      BY <3>2, <3>3
  <2> QED
    BY <2>1, <2>2, <2>3, <2>4, <2>5, <2>6
<1>2. Keeps(row, s, m)
  BY <1>0, <1>1, SameLikes
<1> QED
  BY <1>1, <1>2 DEF KeepsNames, Work, InTx

\* A handler that takes the lock.
LEMMA LockLists ==
  ASSUME ListsInv, NEW c \in Call, NEW m \in Member, KeepsNames(c, m)
  PROVE  Lists' /\ row' = row
<1>1. PICK to, r : to \in InTx /\ Lock(c, m, to, r) /\ Keeps(row, r, m)
  BY DEF KeepsNames
<1>2. /\ at' = [at EXCEPT ![c] = to] /\ who' = [who EXCEPT ![c] = m]
      /\ ent' = [ent EXCEPT ![c] = r] /\ UNCHANGED <<row, seen>>
  BY <1>1 DEF Lock, Begin
<1>3. /\ at'[c] = to /\ who'[c] = m /\ ent'[c] = r
      /\ \A d \in Call \ {c} : at'[d] = at[d] /\ who'[d] = who[d] /\ ent'[d] = ent[d]
  BY <1>2 DEF ListsInv, IInv, TypeOK
<1> QED
  BY <1>1, <1>2, <1>3 DEF ListsInv, Lists, Keeps

\* A step that leaves the row, and the calls as they are but for one, which is
\* over, or has loaded the row or an entity of the row before.
LEMMA LocalLists ==
  ASSUME ListsInv, row' = row, NEW c \in Call,
         \A m \in Member : seen'[m] = seen[m] \/ UniqueIn(seen'[m]),
         at'[c] \notin InTx,
         at'[c] # "idle" => ent'[c] = row \/ (at[c] # "idle" /\ ent'[c] = ent[c]),
         \A d \in Call \ {c} : at'[d] = at[d] /\ who'[d] = who[d] /\ ent'[d] = ent[d]
  PROVE  Lists'
BY DEF ListsInv, Lists, UniqueIn

\* What a member is shown has the names of the session.
LEMMA ShowLists ==
  ASSUME ListsInv, NEW c \in Call, at[c] # "idle", Show(who[c], ent[c])
  PROVE  \A m \in Member : seen'[m] = seen[m] \/ UniqueIn(seen'[m])
<1>1. DOMAIN View(ent[c], who[c]) = DOMAIN ent[c].names
  BY DEF View, Names
<1>2. UniqueIn(View(ent[c], who[c]))
  BY <1>1 DEF ListsInv, Lists, UniqueIn
<1>3. \A m \in Member : seen'[m] \in {seen[m], View(ent[c], who[c])}
  BY DEF Show, ListsInv, IInv, TypeOK
<1> QED
  BY <1>2, <1>3

\* The save commits lists of the names and reactions of others.
LEMMA SaveLists ==
  ASSUME ListsInv, NEW c \in Call, Save(c)
  PROVE  Lists' /\ at[c] \in InTx /\ Own(row, row', who[c])
<1>1. at[c] \in InTx /\ row' = ent[c] /\ Return(c)
      /\ (Show(who[c], ent[c]) \/ UNCHANGED seen)
  BY DEF Save
<1>2. at[c] # "idle"
  BY <1>1 DEF InTx
<1>3. UniqueIn(ent[c].names) /\ Own(row, ent[c], who[c])
  BY <1>1, <1>2 DEF ListsInv, Lists
<1>4. \A m \in Member : seen'[m] = seen[m] \/ UniqueIn(seen'[m])
  BY <1>1, <1>2, ShowLists
<1>5. at'[c] = "idle" /\ \A d \in Call \ {c} : at'[d] = at[d] /\ ent'[d] = ent[d]
  BY <1>1, ReturnTyped DEF ListsInv, IInv
<1>6. \A d \in Call : at'[d] \notin InTx
  BY <1>1, <1>5 DEF ListsInv, IInv, OneInTx, InTx
<1> QED
  BY <1>1, <1>3, <1>4, <1>5, <1>6 DEF ListsInv, Lists, UniqueIn

\* The row is written by a save only.
LEMMA StepLists ==
  ASSUME ListsInv, [Next]_vars
  PROVE  Lists' /\ (row' = row \/ \E c \in Call : at[c] \in InTx /\ Own(row, row', who[c]))
<1>0. IInv /\ TypeOK
  BY DEF ListsInv, IInv
<1>1. ASSUME NEW c \in Call, NEW m \in Member, Handle(c, m)
      PROVE  Lists' /\ row' = row
  <2>1. CASE Vote(c, m) \/ GetView(c, m)
    <3>1. /\ \E to \in {"vote", "view"} : Begin(c, m, to, row)
          /\ UNCHANGED <<row, seen>>
      BY <2>1 DEF Vote, GetView
    <3>2. /\ at'[c] \in {"vote", "view"} /\ ent'[c] = row
          /\ \A d \in Call \ {c} : at'[d] = at[d] /\ who'[d] = who[d] /\ ent'[d] = ent[d]
      BY <1>0, <3>1 DEF Begin, TypeOK
    <3> QED
      BY <3>1, <3>2, LocalLists DEF InTx
  <2>2. CASE Upsert(c, m) \/ React(c, m) \/ PatchNames(c, m)
    BY <2>2, UpsertKeeps, ReactKeeps, PatchNamesKeeps, LockLists
  <2>3. CASE \/ Recommend(c, m) \/ StartBatch(c, m) \/ Crown(c, m) \/ SetFinalists(c, m)
             \/ SetMode(c, m) \/ StartRound(c, m) \/ CloseRound(c, m)
    BY <2>3, ManagersKeep, LockLists
  <2> QED
    BY <1>1, <2>1, <2>2, <2>3 DEF Handle
<1>2. ASSUME NEW c \in Call, FindBallot(c)
      PROVE  Lists' /\ row' = row
  <2>1. /\ at[c] = "vote" /\ at' = [at EXCEPT ![c] = "put"]
        /\ UNCHANGED <<row, seen, who, ent>>
    BY <1>2 DEF FindBallot
  <2>2. at'[c] = "put" /\ \A d \in Call \ {c} : at'[d] = at[d]
    BY <1>0, <2>1 DEF TypeOK
  <2> QED
    BY <2>1, <2>2, LocalLists DEF InTx
<1>3. ASSUME NEW c \in Call, PutBallot(c)
      PROVE  Lists' /\ row' = row
  <2>1. at[c] = "put" /\ UNCHANGED <<row, seen>>
    BY <1>3 DEF PutBallot
  <2>2. CASE Return(c)
    BY <1>0, <2>1, <2>2, ReturnTyped, LocalLists DEF InTx
  <2>3. CASE ~Return(c)
    <3>1. /\ at' = [at EXCEPT ![c] = IF todo[c] = <<>> THEN "view" ELSE "vote"]
          /\ UNCHANGED <<who, ent>>
      BY <1>3, <2>3 DEF PutBallot
    <3>2. at'[c] \in {"view", "vote"} /\ \A d \in Call \ {c} : at'[d] = at[d]
      BY <1>0, <3>1 DEF TypeOK
    <3> QED
      BY <2>1, <3>1, <3>2, LocalLists DEF InTx
  <2> QED
    BY <2>2, <2>3
<1>4. ASSUME NEW c \in Call, EndView(c)
      PROVE  Lists' /\ row' = row
  <2>1. at[c] = "view" /\ Show(who[c], ent[c]) /\ Return(c) /\ UNCHANGED row
    BY <1>4 DEF EndView
  <2>2. \A m \in Member : seen'[m] = seen[m] \/ UniqueIn(seen'[m])
    BY <2>1, ShowLists
  <2> QED
    BY <1>0, <2>1, <2>2, ReturnTyped, LocalLists DEF InTx
<1>5. ASSUME NEW c \in Call, Fail(c)
      PROVE  Lists' /\ row' = row
  <2>1. Return(c) /\ UNCHANGED <<row, seen>>
    BY <1>5 DEF Fail
  <2> QED
    BY <1>0, <2>1, ReturnTyped, LocalLists DEF InTx
<1>6. CASE Remove \/ UNCHANGED vars
  <2>1. UNCHANGED <<row, seen, at, who, ent>>
    BY <1>6 DEF Remove, vars, calls
  <2> QED
    BY <2>1 DEF ListsInv, Lists
<1> QED
  BY <1>1, <1>2, <1>3, <1>4, <1>5, <1>6, SaveLists DEF Next, Advance

\* The lists stay in order, in every session.
THEOREM ListsInvariant == Spec => []ListsInv
<1>1. Init => ListsInv
  <2> SUFFICES ASSUME Init PROVE Lists
    BY InitIInv DEF ListsInv
  <2>1. DOMAIN row.names = {}
    BY DEF Init, NewSession
  <2>2. \A m \in Member : DOMAIN seen[m] = {}
    BY DEF Init
  <2> QED
    BY <2>1, <2>2 DEF Init, Quiet, Lists, UniqueIn, InTx
<1>2. ListsInv /\ [Next]_vars => ListsInv'
  BY NextIInv, StepLists DEF ListsInv
<1> QED
  BY <1>1, <1>2, PTL DEF Spec

\* However many members add a name or send back an old list at once, no
\* spelling is in the list twice.
THEOREM UniqueNamesCorrect == Spec => []UniqueNames
<1>1. ListsInv => UniqueNames
  BY DEF ListsInv, Lists, UniqueIn, UniqueNames, Names
<1> QED
  BY <1>1, ListsInvariant, PTL

\* A save writes the reactions of all members, and changes those of its caller
\* only.
THEOREM ReactionsCorrect == Spec => ReactionsKept
<1>1. ASSUME ListsInv, [Next]_vars
      PROVE  [\A i \in Names(row) \cap DOMAIN row'.names, m \in Member :
                (m \in row.names[i].likes) # (m \in row'.names[i].likes) =>
                  \E c \in Call : at[c] \in InTx /\ who[c] = m]_vars
  BY <1>1, StepLists DEF Own, Names
<1> QED
  BY <1>1, ListsInvariant, PTL DEF Spec, ReactionsKept

-----------------------------------------------------------------------------
(* Ballots and tallies.  They are read and written without the lock, from an  *)
(* entity that was loaded before: it is a past of the row.                    *)

Past ==
  \A c \in Call :
    /\ at[c] \in {"vote", "put", "view"} => Grown(ent[c], row)
    /\ at[c] \in {"vote", "put"} => round[c] \in OpenRounds(ent[c])

BallotsInv == IInv /\ Past

LEMMA GrownTransitive ==
  ASSUME NEW r, NEW s, NEW t, Grown(r, s), Grown(s, t)
  PROVE  Grown(r, t)
BY DEF Grown

\* A row is its own past.
LEMMA GrownSame ==
  ASSUME NEW r, Session(r)
  PROVE  Grown(r, r)
BY DEF Grown

\* A step of the call c that keeps the others: what c has loaded is the row, or
\* what it had before, and its round was open in it.
LEMMA StepPast ==
  ASSUME BallotsInv, Grown(row, row'), NEW c \in Call,
         \A d \in Call \ {c} : at'[d] = at[d] /\ ent'[d] = ent[d] /\ round'[d] = round[d],
         at'[c] \in {"vote", "put", "view"} => Grown(ent'[c], row'),
         at'[c] \in {"vote", "put"} => round'[c] \in OpenRounds(ent'[c])
  PROVE  Past'
<1>1. ASSUME NEW d \in Call \ {c}, at[d] \in {"vote", "put", "view"}
      PROVE  Grown(ent[d], row')
  BY <1>1, GrownTransitive DEF BallotsInv, Past
<1> QED
  BY <1>1 DEF BallotsInv, Past

\* A call that takes the lock, or is over, has no past.
LEMMA OutPast ==
  ASSUME BallotsInv, Grown(row, row'), NEW c \in Call,
         \A d \in Call \ {c} : at'[d] = at[d] /\ ent'[d] = ent[d] /\ round'[d] = round[d],
         at'[c] \notin {"vote", "put", "view"}
  PROVE  Past'
BY StepPast

\* The handlers take the lock; a ballot and a view load the row.
LEMMA HandlePast ==
  ASSUME BallotsInv, NEW c \in Call, NEW m \in Member, Handle(c, m)
  PROVE  Past' /\ UNCHANGED <<row, votes, shown>>
<1>0. TypeOK /\ Session(row) /\ Grown(row, row)
  BY RowTyped, GrownSame DEF BallotsInv, IInv
<1>1. CASE Vote(c, m)
  <2>1. PICK k \in DOMAIN row.rounds :
          /\ row.rounds[k].open
          /\ at' = [at EXCEPT ![c] = "vote"] /\ ent' = [ent EXCEPT ![c] = row]
          /\ round' = [round EXCEPT ![c] = k]
          /\ UNCHANGED <<row, votes, shown>>
    BY <1>1 DEF Vote, Votable, Begin
  <2>2. /\ at'[c] = "vote" /\ ent'[c] = row /\ round'[c] = k
        /\ \A d \in Call \ {c} : at'[d] = at[d] /\ ent'[d] = ent[d] /\ round'[d] = round[d]
    BY <1>0, <2>1 DEF TypeOK
  <2>3. round'[c] \in OpenRounds(ent'[c])
    BY <2>1, <2>2 DEF OpenRounds
  <2> QED
    BY <1>0, <2>1, <2>2, <2>3, StepPast
<1>2. CASE GetView(c, m)
  <2>1. /\ at' = [at EXCEPT ![c] = "view"] /\ ent' = [ent EXCEPT ![c] = row]
        /\ UNCHANGED <<row, votes, shown, round>>
    BY <1>2 DEF GetView, Begin
  <2>2. /\ at'[c] = "view" /\ ent'[c] = row
        /\ \A d \in Call \ {c} : at'[d] = at[d] /\ ent'[d] = ent[d]
    BY <1>0, <2>1 DEF TypeOK
  <2> QED
    BY <1>0, <2>1, <2>2, StepPast
<1>3. CASE \E to \in InTx : \E r : Lock(c, m, to, r)
  <2>0. PICK to \in InTx : \E r : Lock(c, m, to, r)
    BY <1>3
  <2>1. PICK r : Lock(c, m, to, r)
    BY <2>0
  <2>2. /\ at' = [at EXCEPT ![c] = to] /\ ent' = [ent EXCEPT ![c] = r]
        /\ UNCHANGED <<row, votes, shown, round>>
    BY <2>1 DEF Lock, Begin
  <2>3. /\ at'[c] \notin {"vote", "put", "view"}
        /\ \A d \in Call \ {c} : at'[d] = at[d] /\ ent'[d] = ent[d]
    BY <1>0, <2>2 DEF TypeOK, InTx
  <2> QED
    BY <1>0, <2>2, <2>3, OutPast
<1>4. CASE \/ Upsert(c, m) \/ React(c, m) \/ PatchNames(c, m)
           \/ Recommend(c, m) \/ StartBatch(c, m) \/ Crown(c, m) \/ SetFinalists(c, m)
           \/ SetMode(c, m) \/ StartRound(c, m) \/ CloseRound(c, m)
  <2>1. IInv
    BY DEF BallotsInv
  <2>2. Writes(c, m)
    BY <1>4, <2>1, UpsertWrites, ReactWrites, PatchNamesWrites, RecommendWrites,
       StartBatchWrites, CrownWrites, SetFinalistsWrites, SetModeWrites,
       StartRoundWrites, CloseRoundWrites
  <2> QED
    BY <2>2, <1>3 DEF Writes
<1> QED
  BY <1>1, <1>2, <1>4 DEF Handle

\* What an answer adds to what its caller has been shown.
LEMMA ShowAdds ==
  ASSUME TypeOK, NEW n \in Member, NEW r, Show(n, r),
         NEW m \in Member, NEW k \in shown'[m] \ shown[m]
  PROVE  /\ m = n /\ k \in DOMAIN r.rounds
         /\ \A l \in OpenRounds(r) : hasSubmittedBallot(l, r.rounds[l].ids, m)
<1>1. m = n /\ k \in Tallies(r, n)
  BY DEF Show, TypeOK
<1> QED
  BY <1>1 DEF Tallies, InBallot, submitted

\* Who is shown the tallies of a round that is open has voted in it.
SealedStep ==
  \A m \in Member : \A k \in shown'[m] \ shown[m] :
    k \in OpenRounds(row') => hasSubmittedBallot(k, row.rounds[k].ids, m)'

\* The ballots that change are those of a call that found the round open.
LateStep ==
  present' => \A v \in DOMAIN votes' :
    (v \in DOMAIN votes => votes[v] # votes'[v]) =>
      \E c \in Call : at[c] = "put" /\ round[c] = v[1] /\ v[1] \in OpenRounds(ent[c])

LEMMA SaveBallots ==
  ASSUME BallotsInv, NEW c \in Call, Save(c)
  PROVE  Past' /\ SealedStep /\ UNCHANGED votes
<1>1. /\ at[c] \in InTx /\ row' = ent[c] /\ Return(c) /\ votes' = votes
      /\ (Show(who[c], ent[c]) \/ UNCHANGED shown)
  BY DEF Save
<1>2. IInv /\ TypeOK /\ Consistent
  BY DEF BallotsInv, IInv
<1>3. Past'
  BY <1>1, <1>2, SavePreserves, ReturnTyped, OutPast
<1>4. who[c] \in Member
  BY <1>1, <1>2 DEF Consistent, InTx
<1>5. SealedStep
  <2> SUFFICES ASSUME NEW m \in Member, NEW k \in shown'[m] \ shown[m], k \in OpenRounds(row')
               PROVE  hasSubmittedBallot(k, row.rounds[k].ids, m)'
    BY DEF SealedStep
  <2>1. \A l \in OpenRounds(row') : hasSubmittedBallot(l, row'.rounds[l].ids, m)
    BY <1>1, <1>2, <1>4, ShowAdds
  <2> QED
    BY <1>1, <2>1 DEF hasSubmittedBallot
<1> QED
  BY <1>1, <1>3, <1>5

LEMMA EndViewBallots ==
  ASSUME BallotsInv, NEW c \in Call, EndView(c)
  PROVE  Past' /\ SealedStep /\ UNCHANGED votes
<1>1. /\ at[c] = "view" /\ Show(who[c], ent[c]) /\ Return(c)
      /\ UNCHANGED <<row, votes>>
  BY DEF EndView
<1>2. IInv /\ TypeOK /\ Consistent
  BY DEF BallotsInv, IInv
<1>3. Grown(ent[c], row) /\ Grown(row, row')
  BY <1>1, <1>2, RowTyped, GrownSame DEF BallotsInv, Past
<1>4. Past'
  BY <1>1, <1>2, <1>3, ReturnTyped, OutPast
<1>5. who[c] \in Member
  BY <1>1, <1>2 DEF Consistent
<1>6. SealedStep
  <2> SUFFICES ASSUME NEW m \in Member, NEW k \in shown'[m] \ shown[m], k \in OpenRounds(row')
               PROVE  hasSubmittedBallot(k, row.rounds[k].ids, m)'
    BY DEF SealedStep
  <2>1. /\ k \in DOMAIN ent[c].rounds
        /\ \A l \in OpenRounds(ent[c]) : hasSubmittedBallot(l, ent[c].rounds[l].ids, m)
    BY <1>1, <1>2, <1>5, ShowAdds
  <2>2. k \in OpenRounds(ent[c]) /\ ent[c].rounds[k].ids = row'.rounds[k].ids
    BY <1>1, <1>3, <2>1 DEF Grown, OpenRounds
  <2>3. hasSubmittedBallot(k, row'.rounds[k].ids, m)
    BY <2>1, <2>2
  <2> QED
    BY <1>1, <2>3 DEF hasSubmittedBallot
<1> QED
  BY <1>1, <1>4, <1>6

LEMMA PutBallots ==
  ASSUME BallotsInv, NEW c \in Call, PutBallot(c)
  PROVE  Past' /\ LateStep /\ UNCHANGED shown
<1>0. TypeOK /\ IInv
  BY DEF BallotsInv, IInv
<1>1. at[c] = "put" /\ UNCHANGED <<row, shown>>
  BY DEF PutBallot
<1>2. Grown(row, row')
  BY <1>0, <1>1, RowTyped, GrownSame
<1>3. round[c] \in OpenRounds(ent[c]) /\ Grown(ent[c], row)
  BY <1>1 DEF BallotsInv, Past
<1>4. CASE Return(c)
  <2>1. Past'
    BY <1>0, <1>2, <1>4, ReturnTyped, OutPast
  <2>2. UNCHANGED votes \/ at'[c] \in {"view", "vote"}
    BY <1>0 DEF PutBallot, TypeOK
  <2>3. at'[c] = "idle"
    BY <1>0, <1>4, ReturnTyped
  <2> QED
    BY <1>1, <2>1, <2>2, <2>3 DEF LateStep
<1>5. CASE ~Return(c)
  <2> DEFINE v == <<round[c], entry[c].id, who[c]>>
  <2>1. /\ votes' = Over([w \in {v} |-> entry[c].ballot], votes)
        /\ at' = [at EXCEPT ![c] = IF todo[c] = <<>> THEN "view" ELSE "vote"]
        /\ UNCHANGED <<ent, round>>
    BY <1>5 DEF PutBallot
  <2>2. /\ at'[c] \in {"view", "vote"} /\ ent'[c] = ent[c] /\ round'[c] = round[c]
        /\ \A d \in Call \ {c} : at'[d] = at[d] /\ ent'[d] = ent[d] /\ round'[d] = round[d]
    BY <1>0, <2>1 DEF TypeOK
  <2>3. Past'
    BY <1>1, <1>2, <1>3, <2>2, StepPast
  <2>4. \A w \in DOMAIN votes' : w # v => w \in DOMAIN votes /\ votes'[w] = votes[w]
    BY <2>1 DEF Over
  <2>5. v[1] = round[c]
    OBVIOUS
  <2> HIDE DEF v
  <2>6. LateStep
    BY <1>1, <1>3, <2>4, <2>5 DEF LateStep
  <2> QED
    BY <1>1, <2>3, <2>6
<1> QED
  BY <1>4, <1>5

LEMMA StepBallots ==
  ASSUME BallotsInv, [Next]_vars
  PROVE  Past' /\ SealedStep /\ LateStep
<1>0. TypeOK /\ IInv /\ Grown(row, row)
  BY RowTyped, GrownSame DEF BallotsInv, IInv
<1>1. ASSUME NEW c \in Call, NEW m \in Member, Handle(c, m)
      PROVE  Past' /\ SealedStep /\ LateStep
  BY <1>1, HandlePast DEF SealedStep, LateStep
<1>2. ASSUME NEW c \in Call, FindBallot(c)
      PROVE  Past' /\ SealedStep /\ LateStep
  <2>1. /\ at[c] = "vote" /\ at' = [at EXCEPT ![c] = "put"]
        /\ UNCHANGED <<row, votes, shown, ent, round>>
    BY <1>2 DEF FindBallot
  <2>2. at'[c] = "put" /\ \A d \in Call \ {c} : at'[d] = at[d]
    BY <1>0, <2>1 DEF TypeOK
  <2>3. round[c] \in OpenRounds(ent[c]) /\ Grown(ent[c], row)
    BY <2>1 DEF BallotsInv, Past
  <2>4. Past'
    BY <1>0, <2>1, <2>2, <2>3, StepPast
  <2> QED
    BY <2>1, <2>4 DEF SealedStep, LateStep
<1>3. ASSUME NEW c \in Call, Save(c) \/ EndView(c)
      PROVE  Past' /\ SealedStep /\ LateStep
  BY <1>3, SaveBallots, EndViewBallots DEF LateStep
<1>4. ASSUME NEW c \in Call, PutBallot(c)
      PROVE  Past' /\ SealedStep /\ LateStep
  BY <1>4, PutBallots DEF SealedStep
<1>5. ASSUME NEW c \in Call, Fail(c)
      PROVE  Past' /\ SealedStep /\ LateStep
  <2>1. Return(c) /\ UNCHANGED <<row, votes, shown>>
    BY <1>5 DEF Fail
  <2>2. Past'
    BY <1>0, <2>1, ReturnTyped, OutPast
  <2> QED
    BY <2>1, <2>2 DEF SealedStep, LateStep
<1>6. CASE Remove \/ UNCHANGED vars
  <2>1. /\ UNCHANGED <<row, shown, at, ent, round>>
        /\ present' => UNCHANGED votes
    BY <1>6 DEF Remove, vars, calls
  <2> QED
    BY <2>1 DEF BallotsInv, Past, SealedStep, LateStep
<1> QED
  BY <1>1, <1>2, <1>3, <1>4, <1>5, <1>6 DEF Next, Advance

\* A call never works on anything but a past of the row.
THEOREM BallotsInvariant == Spec => []BallotsInv
<1>1. Init => BallotsInv
  BY InitIInv DEF BallotsInv, Past, Init, Quiet
<1>2. BallotsInv /\ [Next]_vars => BallotsInv'
  BY NextIInv, StepBallots DEF BallotsInv
<1> QED
  BY <1>1, <1>2, PTL DEF Spec

\* Nobody is shown the tallies of an open round before having voted on every
\* name of it, although a view reads the session first and the ballots later.
THEOREM SealedCorrect == Spec => Sealed
<1>1. ASSUME BallotsInv, [Next]_vars
      PROVE  [\A m \in Member : \A k \in shown'[m] \ shown[m] :
                k \in OpenRounds(row') => hasSubmittedBallot(k, row.rounds[k].ids, m)']_vars
  BY <1>1, StepBallots DEF SealedStep
<1> QED
  BY <1>1, BallotsInvariant, PTL DEF Spec, Sealed

\* The ballots of a round change only by a call that began while it was open.
THEOREM LateBallotsCorrect == Spec => LateBallots
<1>1. ASSUME BallotsInv, [Next]_vars
      PROVE  [present' => \A v \in DOMAIN votes' :
                (v \in DOMAIN votes => votes[v] # votes'[v]) =>
                  \E c \in Call : at[c] = "put" /\ round[c] = v[1]
                                  /\ v[1] \in OpenRounds(ent[c])]_vars
  BY <1>1, StepBallots DEF LateStep
<1> QED
  BY <1>1, BallotsInvariant, PTL DEF Spec, LateBallots
=============================================================================
