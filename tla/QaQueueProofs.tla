----------------------------- MODULE QaQueueProofs -----------------------------
(***************************************************************************)
(* Proofs about QaQueue.  Whatever calls run at once, wait, fail and are   *)
(* rolled back, the committed table holds whole orders of the queues; and  *)
(* one call at a time never collides with a unique index, leaves no card   *)
(* in a queue that does not belong there, shows every stream its queue,    *)
(* and does to the queues what PersonalQueue says.                         *)
(*                                                                         *)
(* The first argument is about what each transaction would see if it       *)
(* committed now, See(w).  It has no two cards of a project in one place   *)
(* of a queue, and no transaction has taken a place in what another one    *)
(* has written: so a commit puts in the table what is in order, and takes  *)
(* the places of nobody else.                                              *)
(*                                                                         *)
(* The second, Serial, is about what the call has in memory: it fits the   *)
(* table that the call sees.                                               *)
(*                                                                         *)
(* The third, Intent, is about what the call has still to do: which cards  *)
(* it is going to add or take away, and that the others are in the order   *)
(* they had, whatever positions its statements have given them so far.     *)
(* The queue is a function of the order of the positions (OrderIs,         *)
(* WithoutIs), so a commit is one operation on a list.                     *)
(***************************************************************************)
EXTENDS QaQueue, TLAPS, FiniteSetTheorems, SequenceTheorems

\* A row that exists has an identifier that was given out.
Filed(r) == r = NoRow \/ r.id \in 1 .. nextId - 1

\* The calls that are about to store the rows they have in memory.
Storing == {"wipe", "insert", "save1", "save2"}

\* What the types leave open.
Known ==
  /\ \A c \in Cell : Filed(row[c])
  /\ \A w \in Worker :
       /\ \A c \in wrote[w] : Filed(mine[w][c])
       /\ pc[w] \in Storing => \A i \in DOMAIN list[w] : seen[w][list[w][i]] \in 1 .. nextId - 1
       /\ pc[w] \in {"affected", "drop"} => list[w] # <<>>

\* A transaction has temporary positions between the two saves of a rewrite only,
\* and only in the rows that the second one is going to write.
Temporary ==
  /\ \A c \in Cell : row[c].pos >= 0
  /\ \A w \in Worker : \A c \in wrote[w] :
       mine[w][c].pos < 0 => pc[w] = "save2" /\ c \in {who[w]} \X ToSet(list[w])

\* r and s do not take the same place.
Apart(r, s) == r # NoRow /\ s # NoRow => r.pos # s.pos

\* No two cards of a project are in one place of a queue.
InOrder(table) == \A c, d \in Cell : SameIndex(c, d) => Apart(table[c], table[d])

\* Transactions have written different cells, and other places.
Locks ==
  \A v, w \in Worker : v # w =>
    /\ wrote[v] \cap wrote[w] = {}
    /\ \A c \in wrote[v], d \in wrote[w] : SameIndex(c, d) => Apart(mine[v][c], mine[w][d])

Orders == InOrder(row) /\ \A w \in Worker : InOrder(See(w))

IInv == TypeOK /\ Known /\ Temporary /\ Locks /\ Orders

-----------------------------------------------------------------------------
(* Sequences of cards                                                      *)

\* A selection of some cards is a sequence of them.
LEMMA SelectionTyped ==
  ASSUME NEW table, NEW u, NEW s \in SetToSeqs(CardsIn(table, u))
  PROVE  s \in Seq(CardsIn(table, u)) /\ s \in Seq(Task)
<1>1. CardsIn(table, u) \subseteq Task
  BY DEF CardsIn
<1>2. IsFiniteSet(CardsIn(table, u))
  BY <1>1, FS_Subset, QueueAssumption
<1> DEFINE n == Cardinality(CardsIn(table, u))
<1>3. n \in Nat
  BY <1>2, FS_CardinalityType
<1>4. s \in [1 .. n -> CardsIn(table, u)]
  BY DEF SetToSeqs
<1> HIDE DEF n
<1> QED
  BY <1>1, <1>3, <1>4

LEMMA ListTyped ==
  ASSUME NEW table, NEW u, NEW s \in Selections(table, u)
  PROVE  s \in Seq(CardsIn(table, u)) /\ s \in Seq(Task)
BY SelectionTyped DEF Selections

\* The cards that add is given.
LEMMA CardsTyped ==
  ASSUME NEW s \in SetToAllKPermutations(Task) \ {<<>>}
  PROVE  s \in Seq(Task) /\ Len(s) >= 1
<1>1. PICK S \in SUBSET Task : s \in SetToSeqs(S)
  BY DEF SetToAllKPermutations
<1>2. IsFiniteSet(S)
  BY FS_Subset, QueueAssumption
<1> DEFINE n == Cardinality(S)
<1>3. n \in Nat
  BY <1>2, FS_CardinalityType
<1>4. s \in [1 .. n -> S]
  BY <1>1 DEF SetToSeqs
<1> HIDE DEF n
<1>5. s \in Seq(Task) /\ Len(s) = n
  BY <1>3, <1>4
<1> QED
  BY <1>5

\* The place of a card in a list.
Place(s, t) == CHOOSE i \in DOMAIN s : s[i] = t

LEMMA PlaceTyped ==
  ASSUME NEW s \in Seq(Task), NEW t \in ToSet(s)
  PROVE  Place(s, t) \in 1 .. Len(s) /\ s[Place(s, t)] = t /\ t \in Task
<1>1. \E i \in DOMAIN s : s[i] = t
  BY DEF ToSet
<1>2. Place(s, t) \in DOMAIN s /\ s[Place(s, t)] = t
  BY <1>1 DEF Place
<1> QED
  BY <1>2

-----------------------------------------------------------------------------
(* What a transaction sees and writes                                      *)

LEMMA SeeTyped ==
  ASSUME TypeOK, NEW w \in Worker
  PROVE  /\ See(w) \in [Cell -> Row]
         /\ \A c \in Cell : See(w)[c] = IF c \in wrote[w] THEN mine[w][c] ELSE row[c]
BY DEF TypeOK, See

LEMMA CellParts ==
  ASSUME NEW c \in Cell
  PROVE  c[1] \in User /\ c[2] \in Task /\ c = <<c[1], c[2]>>
BY DEF Cell

\* The rows that a rewrite or an add is about to store: rows with the identifiers
\* in memory, in places of their own.
LEMMA PlacedTyped ==
  ASSUME TypeOK, NEW w \in Worker, NEW first \in Int, NEW step \in {1, -1}
  PROVE  LET new == Placed(w, first, step)
         IN  /\ DOMAIN new = {who[w]} \X ToSet(list[w])
             /\ DOMAIN new \subseteq Cell
             /\ \A c \in DOMAIN new :
                  /\ Place(list[w], c[2]) \in 1 .. Len(list[w])
                  /\ new[c] = [id |-> seen[w][c[2]],
                               pos |-> first + step * Place(list[w], c[2])]
                  /\ new[c] \in Row
             /\ \A c, d \in DOMAIN new : c # d => new[c].pos # new[d].pos
<1> DEFINE new == Placed(w, first, step)
           D == {who[w]} \X ToSet(list[w])
<1>1. who[w] \in User /\ list[w] \in Seq(Task) /\ seen[w] \in [Task -> Nat]
  BY DEF TypeOK
<1>2. new = [c \in D |-> [id |-> seen[w][c[2]],
                          pos |-> first + step * Place(list[w], c[2])]]
  BY DEF Placed, Place
<1>3. \A c \in D : /\ c = <<who[w], c[2]>> /\ c[2] \in ToSet(list[w])
                   /\ Place(list[w], c[2]) \in 1 .. Len(list[w])
                   /\ list[w][Place(list[w], c[2])] = c[2]
                   /\ c[2] \in Task
  BY <1>1, PlaceTyped
<1>4. D \subseteq Cell
  BY <1>1, <1>3 DEF Cell
<1> HIDE DEF D, new
<1>5. DOMAIN new = D
  BY <1>2
<1>6. \A c \in D : new[c] = [id |-> seen[w][c[2]],
                              pos |-> first + step * Place(list[w], c[2])]
  BY <1>2
<1>7. ASSUME NEW c \in D
      PROVE  new[c] \in Row /\ new[c].pos = first + step * Place(list[w], c[2])
  <2>1. seen[w][c[2]] \in Nat /\ Place(list[w], c[2]) \in Int
    BY <1>1, <1>3
  <2> DEFINE p == first + step * Place(list[w], c[2])
  <2>2. p \in Int
    BY <2>1
  <2>3. new[c] = [id |-> seen[w][c[2]], pos |-> p]
    BY <1>6
  <2> HIDE DEF p
  <2>4. new[c] \in Row /\ new[c].pos = p
    BY <2>1, <2>2, <2>3 DEF Row
  <2> QED
    BY <2>4 DEF p
<1>8. ASSUME NEW c \in D, NEW d \in D, new[c].pos = new[d].pos
      PROVE  c = d
  <2>1. Place(list[w], c[2]) = Place(list[w], d[2])
    <3>1. Place(list[w], c[2]) \in Int /\ Place(list[w], d[2]) \in Int
      BY <1>3
    <3>2. first + step * Place(list[w], c[2]) = first + step * Place(list[w], d[2])
      BY <1>7, <1>8
    <3> DEFINE i == Place(list[w], c[2])
               j == Place(list[w], d[2])
    <3> HIDE DEF i, j
    <3>3. CASE step = 1
      <4>1. first + 1 * i = first + 1 * j
        BY <3>2, <3>3 DEF i, j
      <4>2. i \in Int /\ j \in Int
        BY <3>1 DEF i, j
      <4>3. i = j
        BY <4>1, <4>2
      <4> QED
        BY <4>3 DEF i, j
    <3>4. CASE step = -1
      <4>1. first + (-1) * i = first + (-1) * j
        BY <3>2, <3>4 DEF i, j
      <4>2. i \in Int /\ j \in Int
        BY <3>1 DEF i, j
      <4>3. i = j
        BY <4>1, <4>2
      <4> QED
        BY <4>3 DEF i, j
    <3> QED
      BY <3>3, <3>4
  <2> QED
    BY <1>3, <2>1
<1> QED
  BY <1>3, <1>4, <1>5, <1>6, <1>7, <1>8 DEF D, new

LEMMA PutTyped ==
  ASSUME TypeOK, NEW w \in Worker, NEW new, DOMAIN new \subseteq Cell,
         \A c \in DOMAIN new : new[c] \in Row, Put(w, new)
  PROVE  /\ wrote' \in [Worker -> SUBSET Cell] /\ mine' \in [Worker -> [Cell -> Row]]
         /\ wrote'[w] = wrote[w] \cup DOMAIN new
         /\ \A c \in Cell : mine'[w][c] = IF c \in DOMAIN new THEN new[c] ELSE mine[w][c]
         /\ \A v \in Worker \ {w} : wrote'[v] = wrote[v] /\ mine'[v] = mine[v]
<1> DEFINE over == [c \in Cell |-> IF c \in DOMAIN new THEN new[c] ELSE mine[w][c]]
<1>1. wrote \in [Worker -> SUBSET Cell] /\ mine \in [Worker -> [Cell -> Row]]
  BY DEF TypeOK
<1>2. over \in [Cell -> Row]
  BY <1>1
<1>3. wrote' = [wrote EXCEPT ![w] = wrote[w] \cup DOMAIN new] /\ mine' = [mine EXCEPT ![w] = over]
  BY DEF Put
<1>4. \A c \in Cell : over[c] = IF c \in DOMAIN new THEN new[c] ELSE mine[w][c]
  OBVIOUS
<1> HIDE DEF over
<1> QED
  BY <1>1, <1>2, <1>3, <1>4

\* A transaction that waits for nobody takes cells and places of its own.
LEMMA PutLocks ==
  ASSUME TypeOK, Locks, NEW w \in Worker, NEW new, DOMAIN new \subseteq Cell,
         \A c \in DOMAIN new : new[c] \in Row, Put(w, new), Holders(w, new) = {}
  PROVE  Locks'
<1>1. /\ wrote'[w] = wrote[w] \cup DOMAIN new
      /\ \A c \in Cell : mine'[w][c] = IF c \in DOMAIN new THEN new[c] ELSE mine[w][c]
      /\ \A v \in Worker \ {w} : wrote'[v] = wrote[v] /\ mine'[v] = mine[v]
  BY PutTyped
<1>2. \A v \in Worker : wrote[v] \subseteq Cell
  BY DEF TypeOK
<1>3. ASSUME NEW v \in Worker \ {w}
      PROVE  /\ wrote[v] \cap DOMAIN new = {}
             /\ \A c \in wrote[v], d \in DOMAIN new : SameIndex(c, d) => Apart(mine[v][c], new[d])
  BY DEF Holders, Apart
<1>4. ASSUME NEW v \in Worker \ {w}
      PROVE  /\ wrote'[v] \cap wrote'[w] = {}
             /\ \A c \in wrote'[v], d \in wrote'[w] : SameIndex(c, d) => Apart(mine'[v][c], mine'[w][d])
  <2>1. wrote'[v] = wrote[v] /\ mine'[v] = mine[v] /\ wrote[v] \cap wrote[w] = {}
    BY <1>1 DEF Locks
  <2>2. ASSUME NEW c \in wrote[v], NEW d \in wrote'[w], SameIndex(c, d)
        PROVE  Apart(mine[v][c], mine'[w][d])
    <3>1. CASE d \in DOMAIN new
      BY <1>1, <1>3, <2>2, <3>1
    <3>2. CASE d \notin DOMAIN new
      BY <1>1, <1>2, <2>2, <3>2 DEF Locks
    <3> QED
      BY <3>1, <3>2
  <2> QED
    BY <1>1, <1>3, <2>1, <2>2
<1>5. \A c, d : SameIndex(c, d) => SameIndex(d, c)
  BY DEF SameIndex
<1>6. \A r, s : Apart(r, s) => Apart(s, r)
  BY DEF Apart
<1>7. ASSUME NEW v \in Worker, NEW x \in Worker, v # x
      PROVE  /\ wrote'[v] \cap wrote'[x] = {}
             /\ \A c \in wrote'[v], d \in wrote'[x] : SameIndex(c, d) => Apart(mine'[v][c], mine'[x][d])
  <2>1. CASE x = w
    BY <1>4, <1>7, <2>1
  <2>2. CASE v = w
    BY <1>4, <1>5, <1>6, <1>7, <2>2
  <2>3. CASE v # w /\ x # w
    BY <1>1, <1>7, <2>3 DEF Locks
  <2> QED
    BY <2>1, <2>2, <2>3
<1> QED
  BY <1>7 DEF Locks, SameIndex

\* Writing in order keeps the order of what everybody sees.
LEMMA PutOrders ==
  ASSUME TypeOK, Orders, NEW w \in Worker, NEW new, DOMAIN new \subseteq Cell,
         \A c \in DOMAIN new : new[c] \in Row, Put(w, new), row' = row,
         \A c, d \in DOMAIN new : SameIndex(c, d) => Apart(new[c], new[d]),
         \A c \in DOMAIN new : \A d \in Cell \ DOMAIN new :
           SameIndex(c, d) => Apart(new[c], See(w)[d])
  PROVE  Orders'
<1>1. /\ wrote'[w] = wrote[w] \cup DOMAIN new
      /\ \A c \in Cell : mine'[w][c] = IF c \in DOMAIN new THEN new[c] ELSE mine[w][c]
      /\ \A v \in Worker \ {w} : wrote'[v] = wrote[v] /\ mine'[v] = mine[v]
  BY PutTyped
<1>2. \A c \in Cell : See(w)[c] = IF c \in wrote[w] THEN mine[w][c] ELSE row[c]
  BY SeeTyped
<1>3. See(w)' = [c \in Cell |-> IF c \in wrote'[w] THEN mine'[w][c] ELSE row'[c]]
  BY DEF See
<1>4. \A c \in Cell : See(w)'[c] = IF c \in DOMAIN new THEN new[c] ELSE See(w)[c]
  BY <1>1, <1>2, <1>3
<1>5. \A c, d : SameIndex(c, d) => SameIndex(d, c)
  BY DEF SameIndex
<1>6. \A r, s : Apart(r, s) => Apart(s, r)
  BY DEF Apart
<1>7. ASSUME NEW c \in Cell, NEW d \in Cell, SameIndex(c, d)
      PROVE  Apart(See(w)'[c], See(w)'[d])
  <2>1. CASE c \in DOMAIN new /\ d \in DOMAIN new
    BY <1>4, <1>7, <2>1
  <2>2. CASE c \in DOMAIN new /\ d \notin DOMAIN new
    BY <1>4, <1>7, <2>2
  <2>3. CASE c \notin DOMAIN new /\ d \in DOMAIN new
    BY <1>4, <1>5, <1>6, <1>7, <2>3
  <2>4. CASE c \notin DOMAIN new /\ d \notin DOMAIN new
    BY <1>4, <1>7, <2>4 DEF Orders, InOrder
  <2> QED
    BY <2>1, <2>2, <2>3, <2>4
<1>8. ASSUME NEW v \in Worker \ {w}
      PROVE  See(v)' = See(v)
  BY <1>1 DEF See
<1>9. \A c, d : SameIndex(c, d)' <=> SameIndex(c, d)
  BY DEF SameIndex
<1> QED
  BY <1>7, <1>8, <1>9 DEF Orders, InOrder

-----------------------------------------------------------------------------
(* Calls that write nothing                                                *)

\* What the invariant says of the table and of the transactions.
LEMMA Basics ==
  ASSUME IInv
  PROVE  /\ TypeOK /\ Known /\ Temporary /\ Locks /\ Orders
         /\ nextId \in Nat /\ nextId >= 1
         /\ row \in [Cell -> Row]
         /\ \A c \in Cell : row[c].pos \in Int /\ row[c].id \in Nat
BY QueueAssumption DEF IInv, TypeOK, Row

\* Numbers that were given out stay so.
LEMMA FiledGrows ==
  ASSUME nextId \in Nat, nextId' \in Nat, nextId' >= nextId, NEW r, Filed(r)
  PROVE  r = NoRow \/ r.id \in 1 .. nextId' - 1
BY DEF Filed

\* A call that reads and decides: it may not be between the two saves.
LEMMA LocalPreserves ==
  ASSUME IInv, TypeOK', NEW w \in Worker, UNCHANGED <<row, wrote, mine>>,
         nextId' >= nextId, pc[w] # "save2",
         \A v \in Worker \ {w} :
           pc'[v] = pc[v] /\ who'[v] = who[v] /\ list'[v] = list[v] /\ seen'[v] = seen[v],
         pc'[w] \in Storing =>
           \A i \in DOMAIN list'[w] : seen'[w][list'[w][i]] \in 1 .. nextId' - 1,
         pc'[w] \in {"affected", "drop"} => list'[w] # <<>>
  PROVE  IInv'
<1>1. nextId \in Nat /\ nextId' \in Nat
  BY Basics, QueueAssumption DEF TypeOK
<1>2. Known'
  <2>1. \A c \in Cell : Filed(row[c])'
    BY <1>1, FiledGrows DEF IInv, Known, Filed
  <2>2. \A v \in Worker : \A c \in wrote'[v] : Filed(mine[v][c])'
    BY <1>1, FiledGrows DEF IInv, Known, Filed
  <2>3. ASSUME NEW v \in Worker
        PROVE  /\ pc'[v] \in Storing =>
                    \A i \in DOMAIN list'[v] : seen'[v][list'[v][i]] \in 1 .. nextId' - 1
               /\ pc'[v] \in {"affected", "drop"} => list'[v] # <<>>
    <3>1. CASE v = w
      BY <3>1
    <3>2. CASE v # w
      <4>1. pc[v] \in Storing => \A i \in DOMAIN list[v] : seen[v][list[v][i]] \in 1 .. nextId - 1
        BY DEF IInv, Known
      <4>2. 1 .. nextId - 1 \subseteq 1 .. nextId' - 1
        BY <1>1
      <4> QED
        BY <3>2, <4>1, <4>2 DEF IInv, Known
    <3> QED
      BY <3>1, <3>2
  <2> QED
    BY <2>1, <2>2, <2>3 DEF Known
<1>3. Temporary'
  BY DEF IInv, Temporary
<1>4. Locks'
  BY DEF IInv, Locks, SameIndex
<1>5. Orders'
  BY DEF IInv, Orders, InOrder, SameIndex, See
<1> QED
  BY <1>2, <1>3, <1>4, <1>5 DEF IInv

LEMMA AddReadPreserves ==
  ASSUME IInv, NEW w \in Worker, NEW u \in User,
         NEW cards \in SetToAllKPermutations(Task) \ {<<>>}, AddRead(w, u, cards)
  PROVE  IInv'
<1>0. TypeOK
  BY DEF IInv
<1>1. cards \in Seq(Task) /\ Len(cards) >= 1 /\ Len(cards) \in Nat
  BY CardsTyped
<1>2. PICK existing \in Selections(row, u) :
        /\ Goto(w, IF Replaces(u, existing, cards) THEN "wipe" ELSE "insert")
        /\ base' = [base EXCEPT ![w] = nextPosition(u, existing, cards)]
  BY DEF AddRead
<1> DEFINE new == [t \in Task |-> IF t \in ToSet(cards) THEN nextId + Place(cards, t) - 1 ELSE 0]
<1>3. /\ pc[w] = "idle" /\ nextId + Len(cards) <= MaxRow + 1
      /\ op' = [op EXCEPT ![w] = "add"]
      /\ who' = [who EXCEPT ![w] = u]
      /\ list' = [list EXCEPT ![w] = cards]
      /\ seen' = [seen EXCEPT ![w] = new]
      /\ nextId' = nextId + Len(cards)
      /\ UNCHANGED <<row, shown, users, todo, wrote, mine, leaves, fails, left, deleted>>
  BY DEF AddRead, Place
<1>4. nextId \in Nat /\ nextId >= 1 /\ MaxRow \in Nat
  BY Basics, QueueAssumption
<1>5. \A t \in ToSet(cards) : new[t] \in 1 .. nextId' - 1
  <2> SUFFICES ASSUME NEW t \in ToSet(cards) PROVE new[t] \in 1 .. nextId' - 1
    OBVIOUS
  <2>1. t \in Task /\ Place(cards, t) \in 1 .. Len(cards)
    BY <1>1, PlaceTyped
  <2> QED
    BY <1>1, <1>3, <1>4, <2>1
<1>6. \A t \in Task : t \notin ToSet(cards) => new[t] = 0
  OBVIOUS
<1>7. new = [t \in Task |-> new[t]]
  OBVIOUS
<1> HIDE DEF new
<1>8. new \in [Task -> Nat]
  <2>1. \A t \in Task : new[t] \in Nat
    BY <1>5, <1>6
  <2> QED
    BY <1>7, <2>1
<1>9. nextPosition(u, existing, cards) \in Nat
  <2>1. CASE existing = <<>> \/ Replaces(u, existing, cards)
    BY <2>1 DEF nextPosition
  <2>2. CASE existing # <<>> /\ ~Replaces(u, existing, cards)
    <3>1. existing \in Seq(Task)
      BY <1>2, ListTyped
    <3>2. existing[Len(existing)] \in Task
      BY <2>2, <3>1
    <3>3. <<u, existing[Len(existing)]>> \in Cell
      BY <3>2 DEF Cell
    <3> DEFINE p == row[<<u, existing[Len(existing)]>>].pos
    <3>4. p \in Int /\ p >= 0
      BY <3>3, Basics DEF Temporary
    <3>5. nextPosition(u, existing, cards) = p + 1
      BY <2>2 DEF nextPosition
    <3> HIDE DEF p
    <3> QED
      BY <3>4, <3>5
  <2> QED
    BY <2>1, <2>2
<1>10. TypeOK'
  <2>1. pc' \in [Worker -> PC]
    BY <1>0, <1>2 DEF TypeOK, Goto, PC
  <2>2. op' \in [Worker -> Op] /\ who' \in [Worker -> User] /\ list' \in [Worker -> Seq(Task)]
        /\ seen' \in [Worker -> [Task -> Nat]]
    BY <1>0, <1>1, <1>3, <1>8 DEF TypeOK, Op
  <2>3. base' \in [Worker -> Nat]
    BY <1>0, <1>2, <1>9 DEF TypeOK
  <2>4. nextId' \in 1 .. MaxRow + 1
    BY <1>1, <1>3, <1>4
  <2> QED
    BY <1>0, <1>3, <2>1, <2>2, <2>3, <2>4 DEF TypeOK
<1>11. /\ list'[w] = cards /\ seen'[w] = new /\ pc'[w] \notin {"affected", "drop"}
      /\ \A v \in Worker \ {w} :
           pc'[v] = pc[v] /\ who'[v] = who[v] /\ list'[v] = list[v] /\ seen'[v] = seen[v]
  BY <1>0, <1>2, <1>3 DEF TypeOK, Goto
<1>12. \A i \in DOMAIN cards : seen'[w][cards[i]] \in 1 .. nextId' - 1
  BY <1>5, <1>11 DEF ToSet
<1> QED
  BY <1>1, <1>3, <1>4, <1>10, <1>11, <1>12, LocalPreserves

LEMMA RemoveReadPreserves ==
  ASSUME IInv, NEW w \in Worker, NEW u \in User, NEW t \in Task, RemoveRead(w, u, t)
  PROVE  IInv'
<1>0. TypeOK /\ nextId \in Nat
  BY Basics
<1>1. /\ pc[w] = "idle" /\ pc' = [pc EXCEPT ![w] = "delete"]
      /\ op' = [op EXCEPT ![w] = "remove"]
      /\ who' = [who EXCEPT ![w] = u]
      /\ list' = [list EXCEPT ![w] = <<t>>]
      /\ seen' = [seen EXCEPT ![w] = [Unseen EXCEPT ![t] = row[<<u, t>>].id]]
      /\ UNCHANGED <<row, shown, base, users, todo, wrote, mine, nextId, leaves, fails, left, deleted>>
  BY DEF RemoveRead, Goto
<1>2. [Unseen EXCEPT ![t] = row[<<u, t>>].id] \in [Task -> Nat]
  <2>1. <<u, t>> \in Cell
    BY DEF Cell
  <2>2. row[<<u, t>>].id \in Nat
    BY <2>1, Basics
  <2> QED
    BY <2>2 DEF Unseen
<1>3. TypeOK'
  BY <1>0, <1>1, <1>2 DEF TypeOK, PC, Op
<1>4. /\ pc'[w] = "delete"
      /\ \A v \in Worker \ {w} :
           pc'[v] = pc[v] /\ who'[v] = who[v] /\ list'[v] = list[v] /\ seen'[v] = seen[v]
  BY <1>0, <1>1 DEF TypeOK
<1> QED
  BY <1>0, <1>1, <1>3, <1>4, LocalPreserves DEF Storing

\* Rows that are read have identifiers that were given out.
LEMMA IdsTyped ==
  ASSUME NEW table \in [Cell -> Row], NEW u \in User, nextId \in Nat,
         \A c \in Cell : Filed(table[c]), NEW s \in Seq(CardsIn(table, u))
  PROVE  /\ IdsIn(table, u) \in [Task -> Nat]
         /\ \A i \in DOMAIN s : IdsIn(table, u)[s[i]] \in 1 .. nextId - 1
<1>1. \A t \in Task : <<u, t>> \in Cell
  BY DEF Cell
<1>2. \A t \in Task : table[<<u, t>>].id \in Nat
  BY <1>1 DEF Row
<1>3. \A i \in DOMAIN s : s[i] \in Task /\ table[<<u, s[i]>>] # NoRow
  BY DEF CardsIn
<1> QED
  BY <1>1, <1>2, <1>3 DEF IdsIn, Filed

LEMMA ReorderReadPreserves ==
  ASSUME IInv, NEW w \in Worker, NEW u \in User, ReorderRead(w, u)
  PROVE  IInv'
<1>0. TypeOK /\ nextId \in Nat
  BY Basics
<1>1. PICK s \in SetToSeqs(CardsIn(row, u)) : list' = [list EXCEPT ![w] = s]
  BY DEF ReorderRead
<1>2. /\ pc[w] = "idle" /\ pc' = [pc EXCEPT ![w] = "save1"]
      /\ op' = [op EXCEPT ![w] = "reorder"]
      /\ who' = [who EXCEPT ![w] = u]
      /\ seen' = [seen EXCEPT ![w] = IdsIn(row, u)]
      /\ UNCHANGED <<row, shown, base, users, todo, wrote, mine, nextId, leaves, fails, left, deleted>>
  BY DEF ReorderRead, Goto
<1>3. s \in Seq(CardsIn(row, u)) /\ s \in Seq(Task)
  BY SelectionTyped
<1>4. /\ IdsIn(row, u) \in [Task -> Nat]
      /\ \A i \in DOMAIN s : IdsIn(row, u)[s[i]] \in 1 .. nextId - 1
  BY <1>0, <1>3, IdsTyped DEF IInv, TypeOK, Known
<1>5. TypeOK'
  BY <1>0, <1>1, <1>2, <1>3, <1>4 DEF TypeOK, PC, Op
<1>6. /\ pc'[w] = "save1" /\ list'[w] = s /\ seen'[w] = IdsIn(row, u)
      /\ \A v \in Worker \ {w} :
           pc'[v] = pc[v] /\ who'[v] = who[v] /\ list'[v] = list[v] /\ seen'[v] = seen[v]
  BY <1>0, <1>1, <1>2 DEF TypeOK
<1> QED
  BY <1>0, <1>2, <1>4, <1>5, <1>6, LocalPreserves

LEMMA ReReadPreserves ==
  ASSUME IInv, NEW w \in Worker, ReRead(w)
  PROVE  IInv'
<1>0. TypeOK /\ nextId \in Nat /\ Known
  BY Basics
<1>1. PICK u \in ReReadUsers(w) :
        /\ who' = [who EXCEPT ![w] = u]
        /\ todo' = [todo EXCEPT ![w] = @ \ {u}]
        /\ seen' = [seen EXCEPT ![w] = IdsIn(See(w), u)]
        /\ \E s \in Selections(See(w), u) : list' = [list EXCEPT ![w] = s]
  BY DEF ReRead
<1>2. PICK s \in Selections(See(w), u) : list' = [list EXCEPT ![w] = s]
  BY <1>1
<1>3. /\ pc[w] = "reread" /\ pc' = [pc EXCEPT ![w] = "save1"]
      /\ UNCHANGED <<row, shown, op, base, users, wrote, mine, nextId, leaves, fails, left, deleted>>
  BY DEF ReRead, Goto
<1>4. u \in User
  BY <1>0 DEF ReReadUsers, TypeOK
<1>5. See(w) \in [Cell -> Row] /\ \A c \in Cell : Filed(See(w)[c])
  BY <1>0, SeeTyped DEF Known
<1>6. s \in Seq(CardsIn(See(w), u)) /\ s \in Seq(Task)
  BY ListTyped
<1>7. /\ IdsIn(See(w), u) \in [Task -> Nat]
      /\ \A i \in DOMAIN s : IdsIn(See(w), u)[s[i]] \in 1 .. nextId - 1
  BY <1>0, <1>4, <1>5, <1>6, IdsTyped
<1>8. TypeOK'
  BY <1>0, <1>1, <1>2, <1>3, <1>4, <1>6, <1>7 DEF TypeOK, PC
<1>9. /\ pc'[w] = "save1" /\ list'[w] = s /\ seen'[w] = IdsIn(See(w), u)
      /\ \A v \in Worker \ {w} :
           pc'[v] = pc[v] /\ who'[v] = who[v] /\ list'[v] = list[v] /\ seen'[v] = seen[v]
  BY <1>0, <1>1, <1>2, <1>3 DEF TypeOK
<1> QED
  BY <1>0, <1>3, <1>7, <1>8, <1>9, LocalPreserves

\* removeTaskFromAllQueues begins.
LEMMA LeavePreserves ==
  ASSUME IInv, NEW w \in Worker, NEW t \in Task, Leave(w, t)
  PROVE  IInv'
<1>0. TypeOK /\ nextId \in Nat /\ Known
  BY Basics
<1>1. /\ pc[w] = "idle" /\ pc' = [pc EXCEPT ![w] = "affected"]
      /\ op' = [op EXCEPT ![w] = "leave"]
      /\ list' = [list EXCEPT ![w] = <<t>>]
      /\ leaves < MaxLeave /\ leaves' = leaves + 1
      /\ left' = left \cup { row[<<u, t>>].id : u \in { v \in User : row[<<v, t>>] # NoRow } }
      /\ UNCHANGED <<row, shown, who, seen, base, users, todo, wrote, mine, nextId, fails, deleted>>
  BY DEF Leave, Goto
<1>2. ASSUME NEW u \in User, row[<<u, t>>] # NoRow
      PROVE  row[<<u, t>>].id \in 1 .. MaxRow
  <2>1. <<u, t>> \in Cell
    BY DEF Cell
  <2>2. row[<<u, t>>].id \in 1 .. nextId - 1
    BY <1>0, <1>2, <2>1 DEF Known, Filed
  <2> QED
    BY <1>0, <2>2, QueueAssumption DEF TypeOK
<1>3. left' \subseteq 1 .. MaxRow
  BY <1>0, <1>1, <1>2 DEF TypeOK
<1>4. leaves' \in 0 .. MaxLeave
  BY <1>0, <1>1, QueueAssumption DEF TypeOK
<1>5. TypeOK'
  <2>1. pc' \in [Worker -> PC] /\ op' \in [Worker -> Op] /\ list' \in [Worker -> Seq(Task)]
    BY <1>0, <1>1 DEF TypeOK, PC, Op
  <2>2. UNCHANGED <<row, shown, who, seen, base, users, todo, wrote, mine, nextId, fails, deleted>>
    BY <1>1
  <2> QED
    BY <1>0, <1>3, <1>4, <2>1, <2>2 DEF TypeOK
<1>6. /\ pc'[w] = "affected" /\ list'[w] = <<t>>
      /\ \A v \in Worker \ {w} :
           pc'[v] = pc[v] /\ who'[v] = who[v] /\ list'[v] = list[v] /\ seen'[v] = seen[v]
  BY <1>0, <1>1 DEF TypeOK
<1>7. list'[w] # <<>>
  BY <1>6
<1> QED
  BY <1>0, <1>1, <1>5, <1>6, <1>7, LocalPreserves DEF Storing

LEMMA TellPreserves ==
  ASSUME IInv, NEW w \in Worker, Tell(w)
  PROVE  IInv'
<1>0. TypeOK /\ nextId \in Nat
  BY Basics
<1>1. PICK u \in todo[w] :
        /\ who' = [who EXCEPT ![w] = u]
        /\ todo' = [todo EXCEPT ![w] = @ \ {u}]
        /\ \E s \in Selections(row, u) : list' = [list EXCEPT ![w] = s]
  BY DEF Tell
<1>2. PICK s \in Selections(row, u) : list' = [list EXCEPT ![w] = s]
  BY <1>1
<1>3. /\ pc[w] = "tell" /\ pc' = [pc EXCEPT ![w] = "emit"]
      /\ UNCHANGED <<row, shown, op, seen, base, users, wrote, mine, nextId, leaves, fails, left, deleted>>
  BY DEF Tell, Goto
<1>4. s \in Seq(Task)
  BY ListTyped
<1>5. TypeOK'
  BY <1>0, <1>1, <1>2, <1>3, <1>4 DEF TypeOK, PC
<1>6. /\ pc'[w] = "emit"
      /\ \A v \in Worker \ {w} :
           pc'[v] = pc[v] /\ who'[v] = who[v] /\ list'[v] = list[v] /\ seen'[v] = seen[v]
  BY <1>0, <1>1, <1>2, <1>3 DEF TypeOK
<1> QED
  BY <1>0, <1>3, <1>5, <1>6, LocalPreserves DEF Storing

-----------------------------------------------------------------------------
(* Calls that end                                                          *)

LEMMA ReturnTyped ==
  ASSUME TypeOK, NEW w \in Worker, Return(w)
  PROVE  /\ pc' \in [Worker -> PC] /\ op' \in [Worker -> Op]
         /\ who' \in [Worker -> User]
         /\ list' \in [Worker -> Seq(Task)]
         /\ seen' \in [Worker -> [Task -> Nat]]
         /\ base' \in [Worker -> Nat]
         /\ users' \in [Worker -> SUBSET User] /\ todo' \in [Worker -> SUBSET User]
         /\ wrote' \in [Worker -> SUBSET Cell] /\ mine' \in [Worker -> [Cell -> Row]]
         /\ pc'[w] = "idle" /\ wrote'[w] = {}
         /\ \A v \in Worker \ {w} :
              /\ pc'[v] = pc[v] /\ who'[v] = who[v] /\ list'[v] = list[v] /\ seen'[v] = seen[v]
              /\ wrote'[v] = wrote[v] /\ mine'[v] = mine[v]
<1>1. (CHOOSE u \in User : TRUE) \in User
  BY QueueAssumption
<1>2. Unseen \in [Task -> Nat]
  BY DEF Unseen
<1>3. NoRow \in Row
  BY DEF NoRow, Row
<1>4. Clean \in [Cell -> Row]
  BY <1>3 DEF Clean
<1>5. <<>> \in Seq(Task)
  OBVIOUS
<1>6. /\ pc' \in [Worker -> PC] /\ op' \in [Worker -> Op]
      /\ pc'[w] = "idle" /\ \A v \in Worker \ {w} : pc'[v] = pc[v]
  BY DEF Return, Goto, TypeOK, PC, Op
<1>7. /\ who' \in [Worker -> User] /\ \A v \in Worker \ {w} : who'[v] = who[v]
  BY <1>1 DEF Return, TypeOK
<1>8. /\ list' \in [Worker -> Seq(Task)] /\ \A v \in Worker \ {w} : list'[v] = list[v]
  BY <1>5 DEF Return, TypeOK
<1>9. /\ seen' \in [Worker -> [Task -> Nat]] /\ \A v \in Worker \ {w} : seen'[v] = seen[v]
  BY <1>2 DEF Return, TypeOK
<1>10. /\ base' \in [Worker -> Nat]
       /\ users' \in [Worker -> SUBSET User] /\ todo' \in [Worker -> SUBSET User]
  BY DEF Return, TypeOK
<1>11. /\ wrote' \in [Worker -> SUBSET Cell]
       /\ wrote'[w] = {} /\ \A v \in Worker \ {w} : wrote'[v] = wrote[v]
  BY DEF Return, TypeOK
<1>12. mine' \in [Worker -> [Cell -> Row]] /\ \A v \in Worker \ {w} : mine'[v] = mine[v]
  BY <1>4 DEF Return, TypeOK
<1> QED
  BY <1>6, <1>7, <1>8, <1>9, <1>10, <1>11, <1>12

\* A transaction that is over leaves what is committed.
LEMMA ReturnPreserves ==
  ASSUME IInv, NEW w \in Worker, Return(w), UNCHANGED <<row, nextId, leaves, left, deleted>>,
         shown' \in [User -> Seq(Task)], fails' \in 0 .. MaxFail
  PROVE  IInv'
<1>0. TypeOK /\ Known /\ Temporary /\ Locks /\ Orders
  BY Basics
<1>1. /\ pc'[w] = "idle" /\ wrote'[w] = {}
      /\ \A v \in Worker \ {w} :
              /\ pc'[v] = pc[v] /\ who'[v] = who[v] /\ list'[v] = list[v] /\ seen'[v] = seen[v]
              /\ wrote'[v] = wrote[v] /\ mine'[v] = mine[v]
  BY <1>0, ReturnTyped
<1>2. TypeOK'
  BY <1>0, ReturnTyped DEF TypeOK
<1>3. Known'
  BY <1>0, <1>1 DEF Known, Filed, Storing
<1>4. Temporary'
  BY <1>0, <1>1 DEF Temporary
<1>5. Locks'
  BY <1>0, <1>1 DEF Locks, SameIndex
<1>6. Orders'
  <2>1. See(w)' = [c \in Cell |-> row[c]]
    BY <1>1 DEF See
  <2>2. \A v \in Worker \ {w} : See(v)' = See(v)
    BY <1>1 DEF See
  <2> QED
    BY <1>0, <2>1, <2>2 DEF Orders, InOrder, SameIndex
<1> QED
  BY <1>2, <1>3, <1>4, <1>5, <1>6 DEF IInv

LEMMA EmitPreserves ==
  ASSUME IInv, NEW w \in Worker, Emit(w)
  PROVE  IInv'
<1>0. TypeOK /\ nextId \in Nat
  BY Basics
<1>1. /\ pc[w] = "emit" /\ UNCHANGED <<row, nextId, leaves, fails, left, deleted>>
      /\ shown' = [u \in User |-> IF u = who[w] /\ u \in Listener THEN list[w] ELSE shown[u]]
  BY DEF Emit
<1>2. shown' \in [User -> Seq(Task)]
  BY <1>0, <1>1 DEF TypeOK
<1>3. CASE Return(w)
  BY <1>0, <1>1, <1>2, <1>3, ReturnPreserves DEF TypeOK
<1>4. CASE ~Return(w)
  <2>1. /\ pc' = [pc EXCEPT ![w] = "tell"]
        /\ UNCHANGED <<op, who, list, seen, base, users, todo, wrote, mine>>
    BY <1>4 DEF Emit, Goto
  <2>2. TypeOK'
    BY <1>0, <1>1, <1>2, <2>1 DEF TypeOK, PC
  <2>3. pc'[w] = "tell" /\ \A v \in Worker \ {w} : pc'[v] = pc[v]
    BY <1>0, <2>1 DEF TypeOK
  <2> QED
    BY <1>0, <1>1, <2>1, <2>2, <2>3, LocalPreserves DEF Storing
<1> QED
  BY <1>3, <1>4

LEMMA AffectedPreserves ==
  ASSUME IInv, NEW w \in Worker, Affected(w)
  PROVE  IInv'
<1>0. TypeOK /\ nextId \in Nat /\ Known
  BY Basics
<1>1. pc[w] = "affected" /\ UNCHANGED <<row, shown, nextId, leaves, left, fails, deleted>>
  BY DEF Affected
<1>2. CASE Return(w)
  BY <1>0, <1>1, <1>2, ReturnPreserves DEF TypeOK
<1>3. CASE ~Return(w)
  <2>1. /\ users' = [users EXCEPT ![w] = Having(list[w][1])]
        /\ todo' = [todo EXCEPT ![w] = Having(list[w][1])]
        /\ pc' = [pc EXCEPT ![w] = "drop"]
        /\ UNCHANGED <<op, who, list, seen, base, wrote, mine>>
    BY <1>3 DEF Affected, Goto
  <2>2. Having(list[w][1]) \subseteq User
    BY DEF Having
  <2>3. TypeOK'
    BY <1>0, <1>1, <2>1, <2>2 DEF TypeOK, PC
  <2>4. pc'[w] = "drop" /\ \A v \in Worker \ {w} : pc'[v] = pc[v]
    BY <1>0, <2>1 DEF TypeOK
  <2>5. list'[w] # <<>>
    BY <1>0, <1>1, <2>1 DEF Known
  <2> QED
    BY <1>0, <1>1, <2>1, <2>3, <2>4, <2>5, LocalPreserves DEF Storing
<1> QED
  BY <1>2, <1>3

\* A failure, and the end of a deadlock, roll back.
LEMMA EndsPreserve ==
  ASSUME IInv, NEW w \in Worker, DeadlockVictim(w) \/ Fail(w)
  PROVE  IInv'
<1>0. TypeOK
  BY Basics
<1>1. Return(w) /\ UNCHANGED <<row, shown, nextId, leaves, left, deleted>>
  BY DEF DeadlockVictim, Fail, Rollback
<1>2. fails' = fails \/ (fails < MaxFail /\ fails' = fails + 1)
  BY DEF DeadlockVictim, Fail
<1>3. fails' \in 0 .. MaxFail /\ shown' \in [User -> Seq(Task)]
  BY <1>0, <1>1, <1>2, QueueAssumption DEF TypeOK
<1> QED
  BY <1>1, <1>3, ReturnPreserves

-----------------------------------------------------------------------------
(* Calls that write                                                        *)

\* The temporary positions go where the final ones will be; all other writes are
\* of positions that may be seen, and the final ones replace the temporary ones.
Positions(w, new, to) ==
  \/ pc[w] # "save2" /\ to = "save2" /\ DOMAIN new = {who[w]} \X ToSet(list[w])
  \/ /\ \A c \in DOMAIN new : new[c].pos >= 0
     /\ pc[w] = "save2" => DOMAIN new = {who[w]} \X ToSet(list[w])

\* A statement of a transaction, of rows that were given their identifiers, keeps
\* the invariant if it does not collide and waits for the others.
LEMMA PutPreserves ==
  ASSUME IInv, NEW w \in Worker, NEW new, DOMAIN new \subseteq Cell,
         \A c \in DOMAIN new : new[c] \in Row /\ Filed(new[c]),
         Holders(w, new) = {}, Put(w, new), NEW to \in PC, Goto(w, to),
         UNCHANGED <<row, shown, op, who, list, seen, base, users, todo, nextId, leaves, fails, left, deleted>>,
         to \in Storing => pc[w] \in Storing, to \notin {"affected", "drop"},
         Positions(w, new, to),
         \A c, d \in DOMAIN new : SameIndex(c, d) => Apart(new[c], new[d]),
         \A c \in DOMAIN new : \A d \in Cell \ DOMAIN new :
           SameIndex(c, d) => Apart(new[c], See(w)[d])
  PROVE  IInv'
<1>0. TypeOK /\ Known /\ Temporary /\ Locks /\ Orders
  BY Basics
<1>1. /\ wrote' \in [Worker -> SUBSET Cell] /\ mine' \in [Worker -> [Cell -> Row]]
      /\ wrote'[w] = wrote[w] \cup DOMAIN new
      /\ \A c \in Cell : mine'[w][c] = IF c \in DOMAIN new THEN new[c] ELSE mine[w][c]
      /\ \A v \in Worker \ {w} : wrote'[v] = wrote[v] /\ mine'[v] = mine[v]
  BY <1>0, PutTyped
<1>2. pc' \in [Worker -> PC] /\ pc'[w] = to /\ \A v \in Worker \ {w} : pc'[v] = pc[v]
  BY <1>0 DEF Goto, TypeOK
<1>3. TypeOK'
  BY <1>0, <1>1, <1>2 DEF TypeOK
<1>4. \A v \in Worker : wrote[v] \subseteq Cell
  BY <1>0 DEF TypeOK
<1>5. Known'
  <2>1. \A c \in wrote'[w] : Filed(mine'[w][c])
    BY <1>0, <1>1, <1>4 DEF Known
  <2>2. \A v \in Worker : \A c \in wrote'[v] : Filed(mine'[v][c])
    BY <1>0, <1>1, <2>1 DEF Known
  <2> QED
    BY <1>0, <1>2, <2>2 DEF Known, Filed
<1>6. Temporary'
  <2>1. ASSUME NEW c \in wrote'[w], mine'[w][c].pos < 0
        PROVE  to = "save2" /\ c \in {who[w]} \X ToSet(list[w])
    <3>1. CASE c \in DOMAIN new
      <4>1. mine'[w][c] = new[c] /\ new[c].pos \in Int
        BY <1>1, <3>1 DEF Row
      <4> QED
        BY <2>1, <3>1, <4>1 DEF Positions
    <3>2. CASE c \notin DOMAIN new
      <4>1. c \in wrote[w] /\ mine'[w][c] = mine[w][c]
        BY <1>1, <1>4, <3>2
      <4>2. pc[w] = "save2" /\ c \in {who[w]} \X ToSet(list[w])
        BY <1>0, <2>1, <4>1 DEF Temporary
      <4> QED
        BY <3>2, <4>2 DEF Positions
    <3> QED
      BY <3>1, <3>2
  <2> QED
    BY <1>0, <1>1, <1>2, <2>1 DEF Temporary
<1>7. Locks'
  BY <1>0, PutLocks
<1>8. Orders'
  BY <1>0, PutOrders
<1> QED
  BY <1>3, <1>5, <1>6, <1>7, <1>8 DEF IInv

\* Deleting takes no place.
LEMMA ErasePreserves ==
  ASSUME IInv, NEW w \in Worker, NEW new, DOMAIN new \subseteq Cell,
         \A c \in DOMAIN new : new[c] = NoRow, pc[w] # "save2",
         Holders(w, new) = {}, Put(w, new), NEW to \in {"insert", "reread"}, Goto(w, to),
         UNCHANGED <<row, shown, op, who, list, seen, base, users, todo, nextId, leaves, fails, left, deleted>>,
         to \in Storing => pc[w] \in Storing
  PROVE  IInv'
<1>1. NoRow \in Row /\ NoRow.pos = 0
  BY DEF NoRow, Row
<1>2. \A c \in DOMAIN new : new[c] \in Row /\ Filed(new[c]) /\ new[c].pos >= 0
  BY <1>1 DEF Filed
<1>3. \A c \in DOMAIN new : \A s : Apart(new[c], s)
  BY DEF Apart
<1>4. Positions(w, new, to)
  BY <1>2 DEF Positions
<1>5. to \in PC /\ to \notin {"affected", "drop"}
  BY DEF PC
<1> QED
  BY <1>2, <1>3, <1>4, <1>5, PutPreserves

LEMMA ErasersPreserve ==
  ASSUME IInv, NEW w \in Worker, Wipe(w) \/ Delete(w) \/ Drop(w)
  PROVE  IInv'
<1>0. TypeOK /\ Known
  BY Basics
<1>1. CASE Wipe(w)
  <2> DEFINE new == EmptyQueue(who[w], See(w))
  <2>1. DOMAIN new \subseteq Cell /\ \A c \in DOMAIN new : new[c] = NoRow
    BY <1>0 DEF EmptyQueue, CardsIn, Cell, TypeOK
  <2>2. /\ pc[w] = "wipe" /\ Holders(w, new) = {} /\ Put(w, new) /\ Goto(w, "insert")
        /\ UNCHANGED <<row, shown, op, who, list, seen, base, users, todo, nextId, leaves, fails, left, deleted>>
    BY <1>1 DEF Wipe
  <2> HIDE DEF new
  <2> QED
    BY <2>1, <2>2, ErasePreserves DEF Storing
<1>2. CASE Delete(w)
  <2> DEFINE new == Target(w)
  <2>1. DOMAIN new \subseteq Cell /\ \A c \in DOMAIN new : new[c] = NoRow
    <3>1. ToSet(list[w]) \subseteq Task /\ who[w] \in User
      BY <1>0 DEF TypeOK, ToSet
    <3> QED
      BY <3>1 DEF Target, Cell
  <2>2. /\ pc[w] = "delete" /\ Holders(w, new) = {} /\ Put(w, new) /\ Goto(w, "reread")
        /\ UNCHANGED <<row, shown, op, who, list, seen, base, users, todo, nextId, leaves, fails, left, deleted>>
    BY <1>2 DEF Delete
  <2> HIDE DEF new
  <2> QED
    BY <2>1, <2>2, ErasePreserves DEF Storing
<1>3. CASE Drop(w)
  <2> DEFINE new == Dropped(w)
  <2>1. DOMAIN new \subseteq Cell /\ \A c \in DOMAIN new : new[c] = NoRow
    <3>1. list[w] \in Seq(Task) /\ list[w] # <<>>
      BY <1>0, <1>3 DEF TypeOK, Known, Drop
    <3>2. list[w][1] \in Task
      BY <3>1
    <3> QED
      BY <3>2 DEF Dropped, Having, Cell
  <2>2. /\ pc[w] = "drop" /\ Holders(w, new) = {} /\ Put(w, new) /\ Goto(w, "reread")
        /\ UNCHANGED <<row, shown, op, who, list, seen, base, users, todo, nextId, leaves, fails, left, deleted>>
    BY <1>3 DEF Drop
  <2> HIDE DEF new
  <2> QED
    BY <2>1, <2>2, ErasePreserves DEF Storing
<1> QED
  BY <1>1, <1>2, <1>3

\* Storing the rows in memory: where the unique indexes let it.
LEMMA SavePreserves ==
  ASSUME IInv, NEW w \in Worker, pc[w] \in Storing,
         NEW first \in Int, NEW step \in {1, -1},
         NEW to \in {"save2", "reread", "reply"}, Save(w, Placed(w, first, step), to),
         \/ pc[w] # "save2" /\ to = "save2"
         \/ step = 1 /\ first >= -1
  PROVE  IInv'
<1>0. TypeOK /\ Known
  BY Basics
<1> DEFINE new == Placed(w, first, step)
<1>1. /\ DOMAIN new = {who[w]} \X ToSet(list[w])
      /\ DOMAIN new \subseteq Cell
      /\ \A c \in DOMAIN new :
           /\ Place(list[w], c[2]) \in 1 .. Len(list[w])
           /\ new[c] = [id |-> seen[w][c[2]],
                        pos |-> first + step * Place(list[w], c[2])]
           /\ new[c] \in Row
      /\ \A c, d \in DOMAIN new : c # d => new[c].pos # new[d].pos
  BY <1>0, PlacedTyped
<1>2. Save(w, new, to)
  OBVIOUS
<1> HIDE DEF new
<1>3. CASE Rollback(w)
  BY <1>0, <1>2, <1>3, ReturnPreserves DEF Save, Rollback, Return, Put, Goto, TypeOK
<1>4. CASE ~Rollback(w)
  <2>1. /\ Holders(w, new) = {} /\ ~Refused(w, new)
        /\ Put(w, new) /\ Goto(w, to)
        /\ UNCHANGED <<row, shown, op, who, list, seen, base, users, todo, nextId, leaves, fails, left, deleted>>
    BY <1>2, <1>4 DEF Save
  <2>2. \A c \in DOMAIN new : new[c] \in Row /\ Filed(new[c])
    <3> SUFFICES ASSUME NEW c \in DOMAIN new PROVE new[c] \in Row /\ Filed(new[c])
      OBVIOUS
    <3>1. c[2] \in ToSet(list[w]) /\ new[c].id = seen[w][c[2]]
      <4> DEFINE p == first + step * Place(list[w], c[2])
      <4>1. c \in {who[w]} \X ToSet(list[w])
        BY <1>1
      <4>2. new[c] = [id |-> seen[w][c[2]], pos |-> p]
        BY <1>1
      <4> HIDE DEF p
      <4> QED
        BY <4>1, <4>2
    <3>2. seen[w][c[2]] \in 1 .. nextId - 1
      BY <1>0, <3>1 DEF Known, ToSet
    <3> QED
      BY <1>1, <3>1, <3>2 DEF Filed
  <2>3. \A c, d \in DOMAIN new : SameIndex(c, d) => Apart(new[c], new[d])
    BY <1>1 DEF SameIndex, Apart
  <2>4. ASSUME NEW c \in DOMAIN new, NEW d \in Cell \ DOMAIN new, SameIndex(c, d)
        PROVE  Apart(new[c], See(w)[d])
    <3>1. PICK i \in DOMAIN list[w] : c = <<who[w], list[w][i]>>
      BY <1>1 DEF ToSet
    <3>2. DOMAIN Cells(w) = DOMAIN list[w] /\ Cells(w)[i] = c
      BY <3>1 DEF Cells
    <3>3. \A k \in DOMAIN list[w] : Cells(w)[k] \in DOMAIN new
      BY <1>1 DEF Cells, ToSet
    <3>4. list[w] \in Seq(Task)
      BY <1>0 DEF TypeOK
    <3>5. 1 .. i - 1 \subseteq DOMAIN list[w]
      BY <3>1, <3>4
    <3>6. d \in Cell \ { Cells(w)[k] : k \in 1 .. i - 1 }
      BY <3>3, <3>5
    <3>7. ~(See(w)[d] # NoRow /\ See(w)[d].pos = new[c].pos)
      BY <2>1, <2>4, <3>2, <3>6 DEF Refused, Collides
    <3> QED
      BY <3>7 DEF Apart
  <2>5. Positions(w, new, to)
    <3>1. CASE pc[w] # "save2" /\ to = "save2"
      BY <1>1, <3>1 DEF Positions
    <3>2. CASE step = 1 /\ first >= -1
      <4>1. ASSUME NEW c \in DOMAIN new
            PROVE  new[c].pos >= 0
        <5> DEFINE i == Place(list[w], c[2])
        <5>1. i \in 1 .. Len(list[w]) /\ Len(list[w]) \in Nat
          BY <1>0, <1>1 DEF TypeOK
        <5> DEFINE p == first + step * i
        <5>2. new[c] = [id |-> seen[w][c[2]], pos |-> p]
          BY <1>1
        <5> HIDE DEF p
        <5>3. new[c].pos = p
          BY <5>2
        <5> HIDE DEF i
        <5>4. p = first + 1 * i
          BY <3>2 DEF p
        <5> QED
          BY <3>2, <5>1, <5>3, <5>4
      <4> QED
        BY <1>1, <4>1 DEF Positions
    <3> QED
      BY <3>1, <3>2
  <2>6. to \in PC /\ to \notin {"affected", "drop"}
    BY DEF PC
  <2> QED
    BY <1>1, <2>1, <2>2, <2>3, <2>4, <2>5, <2>6, PutPreserves
<1> QED
  BY <1>3, <1>4

LEMMA WritersPreserve ==
  ASSUME IInv, NEW w \in Worker, Insert(w) \/ SaveTemporary(w) \/ SaveFinal(w)
  PROVE  IInv'
<1>0. TypeOK
  BY Basics
<1>1. CASE Insert(w)
  <2>1. base[w] - 1 \in Int /\ base[w] - 1 >= -1
    BY <1>0 DEF TypeOK
  <2>2. pc[w] = "insert" /\ Save(w, Placed(w, base[w] - 1, 1), "reply")
    BY <1>1 DEF Insert, Created
  <2> QED
    BY <2>1, <2>2, SavePreserves DEF Storing
<1>2. CASE SaveTemporary(w)
  BY <1>2, SavePreserves DEF SaveTemporary, TemporaryPositions, Storing
<1>3. CASE SaveFinal(w)
  BY <1>3, SavePreserves DEF SaveFinal, PositionsInOrder, Storing
<1> QED
  BY <1>1, <1>2, <1>3

\* The commit.  What others have written is not in its cells, and not in its
\* places.
LEMMA ReplyPreserves ==
  ASSUME IInv, NEW w \in Worker, Reply(w)
  PROVE  IInv'
<1>0. TypeOK /\ Known /\ Temporary /\ Locks /\ Orders
  BY Basics
<1>1. PICK s \in Selections(See(w), who[w]) : list' = [list EXCEPT ![w] = s]
  BY DEF Reply
<1>2. /\ pc[w] = "reply" /\ row' = See(w)
      /\ wrote' = [wrote EXCEPT ![w] = {}]
      /\ mine' = [mine EXCEPT ![w] = Clean]
      /\ todo' = [todo EXCEPT ![w] = users[w]]
      /\ seen' = [seen EXCEPT ![w] = Unseen]
      /\ base' = [base EXCEPT ![w] = 0]
      /\ pc' = [pc EXCEPT ![w] = IF op[w] = "leave" THEN "tell" ELSE "emit"]
      /\ UNCHANGED <<shown, op, who, users, nextId, leaves, fails, left, deleted>>
  BY DEF Reply, Goto
<1>3. /\ See(w) \in [Cell -> Row]
      /\ \A v \in Worker, c \in Cell : See(v)[c] = IF c \in wrote[v] THEN mine[v][c] ELSE row[c]
  BY <1>0, SeeTyped
<1>4. Clean \in [Cell -> Row] /\ Unseen \in [Task -> Nat]
  BY DEF Clean, NoRow, Row, Unseen
<1>5. s \in Seq(Task)
  BY ListTyped
<1>6. TypeOK'
  <2>1. pc' \in [Worker -> PC] /\ list' \in [Worker -> Seq(Task)]
    BY <1>0, <1>1, <1>2, <1>5 DEF TypeOK, PC
  <2>2. /\ wrote' \in [Worker -> SUBSET Cell] /\ mine' \in [Worker -> [Cell -> Row]]
        /\ todo' \in [Worker -> SUBSET User] /\ seen' \in [Worker -> [Task -> Nat]]
        /\ base' \in [Worker -> Nat]
    BY <1>0, <1>2, <1>4 DEF TypeOK
  <2> QED
    BY <1>0, <1>2, <1>3, <2>1, <2>2 DEF TypeOK
<1>7. /\ wrote'[w] = {} /\ pc'[w] \in {"tell", "emit"}
      /\ \A v \in Worker \ {w} :
           /\ wrote'[v] = wrote[v] /\ mine'[v] = mine[v] /\ pc'[v] = pc[v]
           /\ list'[v] = list[v] /\ seen'[v] = seen[v]
  BY <1>0, <1>1, <1>2 DEF TypeOK
<1>8. Known'
  BY <1>0, <1>2, <1>3, <1>7 DEF Known, Filed, Storing
<1>9. Temporary'
  <2>1. \A c \in Cell : See(w)[c].pos \in Int
    BY <1>3 DEF Row
  <2>2. \A c \in wrote[w] : ~(mine[w][c].pos < 0)
    BY <1>0, <1>2 DEF Temporary
  <2>3. \A c \in Cell : See(w)[c].pos >= 0
    BY <1>0, <1>3, <2>1, <2>2 DEF Temporary
  <2> QED
    BY <1>0, <1>2, <1>7, <2>3 DEF Temporary
<1>10. Locks'
  BY <1>0, <1>7 DEF Locks, SameIndex
<1>11. \A v \in Worker \ {w} : \A c \in Cell :
         See(v)'[c] = IF c \in wrote[v] THEN mine[v][c] ELSE See(w)[c]
  BY <1>2, <1>7 DEF See
<1>12. ASSUME NEW v \in Worker \ {w}
       PROVE  InOrder(See(v)')
  <2>1. ASSUME NEW c \in wrote[v], NEW d \in Cell \ wrote[v], SameIndex(c, d), c \in Cell
        PROVE  Apart(mine[v][c], See(w)[d])
    <3>1. CASE d \in wrote[w]
      BY <1>0, <1>3, <2>1, <3>1 DEF Locks
    <3>2. CASE d \notin wrote[w]
      <4>1. See(w)[d] = See(v)[d] /\ See(v)[c] = mine[v][c]
        BY <1>3, <2>1, <3>2
      <4> QED
        BY <1>0, <2>1, <4>1 DEF Orders, InOrder
    <3> QED
      BY <3>1, <3>2
  <2>2. \A c, d : SameIndex(c, d) => SameIndex(d, c)
    BY DEF SameIndex
  <2>3. \A r, t : Apart(r, t) => Apart(t, r)
    BY DEF Apart
  <2>4. ASSUME NEW c \in Cell, NEW d \in Cell, SameIndex(c, d)
        PROVE  Apart(See(v)'[c], See(v)'[d])
    <3>1. CASE c \in wrote[v] /\ d \in wrote[v]
      <4>1. Apart(See(v)[c], See(v)[d])
        BY <1>0, <2>4 DEF Orders, InOrder
      <4> QED
        BY <1>3, <1>11, <3>1, <4>1
    <3>2. CASE c \in wrote[v] /\ d \notin wrote[v]
      BY <1>11, <2>1, <2>4, <3>2
    <3>3. CASE c \notin wrote[v] /\ d \in wrote[v]
      BY <1>11, <2>1, <2>2, <2>3, <2>4, <3>3
    <3>4. CASE c \notin wrote[v] /\ d \notin wrote[v]
      <4>1. Apart(See(w)[c], See(w)[d])
        BY <1>0, <2>4 DEF Orders, InOrder
      <4> QED
        BY <1>11, <3>4, <4>1
    <3> QED
      BY <3>1, <3>2, <3>3, <3>4
  <2> QED
    BY <2>4 DEF InOrder
<1>13. See(w)' = row'
  <2>1. See(w)' = [c \in Cell |-> row'[c]]
    BY <1>7 DEF See
  <2> QED
    BY <1>2, <1>3, <2>1
<1>14. InOrder(row')
  BY <1>0, <1>2 DEF Orders
<1>15. Orders'
  BY <1>12, <1>13, <1>14 DEF Orders, InOrder, SameIndex
<1> QED
  BY <1>6, <1>8, <1>9, <1>10, <1>15 DEF IInv

LEMMA ClearPreserves ==
  ASSUME IInv, NEW w \in Worker, NEW u \in User, Clear(w, u)
  PROVE  IInv'
<1>0. TypeOK /\ Known /\ Temporary /\ Locks /\ Orders
  BY Basics
<1>1. /\ pc[w] = "idle" /\ row' = [c \in Cell |-> IF c[1] = u THEN NoRow ELSE row[c]]
      /\ who' = [who EXCEPT ![w] = u] /\ pc' = [pc EXCEPT ![w] = "emit"]
      /\ UNCHANGED <<shown, op, list, seen, base, users, todo, wrote, mine, nextId, leaves, fails, left, deleted>>
  BY DEF Clear, Goto
<1>2. NoRow \in Row /\ NoRow.pos >= 0
  BY DEF NoRow, Row
<1>3. row' \in [Cell -> Row] /\ \A c \in Cell : row'[c] \in {row[c], NoRow}
  BY <1>0, <1>1, <1>2 DEF TypeOK
<1>4. TypeOK'
  BY <1>0, <1>1, <1>3 DEF TypeOK, PC
<1>5. /\ pc'[w] = "emit"
      /\ \A v \in Worker \ {w} : pc'[v] = pc[v] /\ who'[v] = who[v]
  BY <1>0, <1>1 DEF TypeOK
<1>6. Known'
  BY <1>0, <1>1, <1>3, <1>5 DEF Known, Filed, Storing
<1>7. Temporary'
  BY <1>0, <1>1, <1>2, <1>3, <1>5 DEF Temporary
<1>8. Locks'
  BY <1>0, <1>1 DEF Locks, SameIndex
<1>9. \A v \in Worker, c \in Cell : See(v)'[c] \in {See(v)[c], NoRow}
  BY <1>1, <1>3 DEF See
<1>10. Orders'
  BY <1>0, <1>3, <1>9 DEF Orders, InOrder, Apart, SameIndex
<1> QED
  BY <1>4, <1>6, <1>7, <1>8, <1>10 DEF IInv

\* The rows that go were nobody's: they are out of every order.
LEMMA RemoveTaskPreserves ==
  ASSUME IInv, NEW w \in Worker, NEW t \in Task, RemoveTask(w, t)
  PROVE  IInv'
<1>0. TypeOK /\ Known /\ Temporary /\ Locks /\ Orders
  BY Basics
<1>1. /\ row' = [c \in Cell |-> IF c[2] = t THEN NoRow ELSE row[c]]
      /\ deleted' = deleted \cup {t}
      /\ UNCHANGED <<shown, pc, op, who, list, seen, base, users, todo, wrote, mine, nextId,
                    leaves, fails, left>>
  BY DEF RemoveTask, calls
<1>2. NoRow \in Row /\ NoRow.pos >= 0
  BY DEF NoRow, Row
<1>3. row' \in [Cell -> Row] /\ \A c \in Cell : row'[c] \in {row[c], NoRow}
  BY <1>0, <1>1, <1>2 DEF TypeOK
<1>4. TypeOK'
  BY <1>0, <1>1, <1>3 DEF TypeOK
<1>5. Known'
  BY <1>0, <1>1, <1>3 DEF Known, Filed
<1>6. Temporary'
  BY <1>0, <1>1, <1>2, <1>3 DEF Temporary
<1>7. Locks'
  BY <1>0, <1>1 DEF Locks, SameIndex
<1>8. \A v \in Worker, c \in Cell : See(v)'[c] \in {See(v)[c], NoRow}
  BY <1>1, <1>3 DEF See
<1>9. Orders'
  BY <1>0, <1>3, <1>8 DEF Orders, InOrder, Apart, SameIndex
<1> QED
  BY <1>4, <1>5, <1>6, <1>7, <1>9 DEF IInv

-----------------------------------------------------------------------------
(* The results                                                             *)

LEMMA InitIInv ==
  ASSUME Init
  PROVE  IInv
<1>1. NoRow \in Row /\ NoRow.pos = 0 /\ Clean \in [Cell -> Row]
  BY DEF NoRow, Row, Clean
<1>2. (CHOOSE u \in User : TRUE) \in User /\ Unseen \in [Task -> Nat]
  BY QueueAssumption DEF Unseen
<1>3. TypeOK
  <2>1. row \in [Cell -> Row] /\ mine \in [Worker -> [Cell -> Row]]
        /\ wrote \in [Worker -> SUBSET Cell]
    BY <1>1 DEF Init
  <2>2. shown \in [User -> Seq(Task)] /\ list \in [Worker -> Seq(Task)]
    BY DEF Init
  <2>3. pc \in [Worker -> PC] /\ op \in [Worker -> Op] /\ who \in [Worker -> User]
        /\ seen \in [Worker -> [Task -> Nat]] /\ base \in [Worker -> Nat]
        /\ users \in [Worker -> SUBSET User] /\ todo \in [Worker -> SUBSET User]
    BY <1>2 DEF Init, PC, Op
  <2>4. nextId \in 1 .. MaxRow + 1 /\ leaves \in 0 .. MaxLeave /\ fails \in 0 .. MaxFail
        /\ left \subseteq 1 .. MaxRow /\ deleted \subseteq Task
    BY QueueAssumption DEF Init
  <2> QED
    BY <2>1, <2>2, <2>3, <2>4 DEF TypeOK
<1>4. \A w \in Worker : wrote[w] = {} /\ pc[w] = "idle"
  BY DEF Init
<1>5. \A c \in Cell : row[c] = NoRow
  BY DEF Init, Clean
<1>6. Known /\ Temporary /\ Locks
  BY <1>1, <1>4, <1>5 DEF Known, Filed, Storing, Temporary, Locks
<1>7. \A w \in Worker, c \in Cell : See(w)[c] = NoRow
  BY <1>4, <1>5 DEF See
<1>8. Orders
  BY <1>5, <1>7 DEF Orders, InOrder, Apart
<1> QED
  BY <1>3, <1>6, <1>8 DEF IInv

LEMMA NextIInv ==
  ASSUME IInv, [Next]_vars
  PROVE  IInv'
<1>1. ASSUME NEW w \in Worker, Begin(w)
      PROVE  IInv'
  BY <1>1, AddReadPreserves, RemoveReadPreserves, ReorderReadPreserves, ClearPreserves,
     LeavePreserves, RemoveTaskPreserves
  DEF Begin
<1>2. ASSUME NEW w \in Worker, Step(w)
      PROVE  IInv'
  BY <1>2, ErasersPreserve, WritersPreserve, ReReadPreserves, ReplyPreserves, EmitPreserves,
     AffectedPreserves, TellPreserves
  DEF Step
<1>3. ASSUME NEW w \in Worker, DeadlockVictim(w) \/ Fail(w)
      PROVE  IInv'
  BY <1>3, EndsPreserve
<1>4. CASE UNCHANGED vars
  <2>1. UNCHANGED <<row, shown, pc, op, who, list, seen, base, users, todo, wrote, mine,
                    nextId, leaves, fails, left, deleted>>
    BY <1>4 DEF vars, calls
  <2>2. TypeOK'
    BY <2>1 DEF IInv, TypeOK
  <2>3. Known' /\ Temporary' /\ Locks'
    BY <2>1 DEF IInv, Known, Filed, Temporary, Locks, SameIndex
  <2>4. Orders'
    BY <2>1 DEF IInv, Orders, InOrder, SameIndex, See
  <2> QED
    BY <2>2, <2>3, <2>4 DEF IInv
<1> QED
  BY <1>1, <1>2, <1>3, <1>4 DEF Next

\* The invariant holds of any number of users, cards and calls.
THEOREM Invariant == Spec => []IInv
<1>1. Init => IInv
  BY InitIInv
<1>2. IInv /\ [Next]_vars => IInv'
  BY NextIInv
<1> QED
  BY <1>1, <1>2, PTL DEF Spec

\* The table, the events and what the calls have in memory keep their types.
THEOREM TypeCorrect == Spec => []TypeOK
<1>1. IInv => TypeOK
  BY DEF IInv
<1> QED
  BY <1>1, Invariant, PTL

\* However many calls rewrite the queues at once, wait for each other, collide
\* and die, what is committed has no temporary position and no two cards of a
\* project in one place of a queue.
THEOREM CommitsWholeCorrect == Spec => []CommitsWhole
<1>1. ASSUME IInv
      PROVE  CommitsWhole
  <2>1. DOMAIN row = Cell
    BY <1>1 DEF IInv, TypeOK
  <2> QED
    BY <1>1, <2>1 DEF IInv, Temporary, Orders, InOrder, Apart, CommitsWhole, NoHalfRewrite,
                      DistinctPositions
<1> QED
  BY <1>1, Invariant, PTL

-----------------------------------------------------------------------------
(* One call at a time                                                      *)

\* Whose queues a call may change.
Changed(w) == IF op[w] = "leave" THEN users[w] ELSE {who[w]}

\* Where the statements of which call are, and that a transaction is open between
\* its first write and its commit only.
Course(w) ==
  /\ pc[w] = "idle" => op[w] = "clear" /\ list[w] = <<>>
  /\ pc[w] \in {"wipe", "insert"} => op[w] = "add"
  /\ pc[w] = "delete" => op[w] = "remove"
  /\ pc[w] \in {"affected", "drop", "tell"} => op[w] = "leave"
  /\ op[w] # "leave" => users[w] = {}
  /\ todo[w] \subseteq users[w]
  /\ pc[w] = "drop" => users[w] = Having(list[w][1])
  /\ pc[w] \in {"save1", "save2"} => who[w] \in Changed(w)
  /\ pc[w] \in {"idle", "wipe", "delete", "affected", "drop", "tell", "emit"} => wrote[w] = {}
  /\ \A c \in wrote[w] : c[1] \in Changed(w)

\* What a call has in memory fits what it sees of the table: new cards go behind
\* the others, the rows to be rewritten are those of the queue.
Fits(w) ==
  /\ pc[w] = "insert" => \A t \in Task : See(w)[<<who[w], t>>] # NoRow =>
       /\ t \notin ToSet(list[w]) /\ See(w)[<<who[w], t>>].pos < base[w]
       /\ Project[t] = Project[list[w][1]]
  /\ pc[w] \in {"wipe", "insert"} => \A t \in ToSet(list[w]) :
       /\ Project[t] = Project[list[w][1]]
       /\ \A s \in ToSet(list[w]) : seen[w][s] = seen[w][t] => s = t
       /\ \A c \in Cell : See(w)[c].id # seen[w][t]
  /\ pc[w] \in {"save1", "save2"} => \A t \in Task :
       /\ See(w)[<<who[w], t>>] # NoRow <=> t \in ToSet(list[w])
       /\ t \in ToSet(list[w]) => See(w)[<<who[w], t>>].id = seen[w][t]
       /\ pc[w] = "save2" /\ t \in ToSet(list[w]) => See(w)[<<who[w], t>>].pos < 0

\* The cards of a queue are of one project.
OneProjectIn(table) ==
  \A u \in User : \A s, t \in CardsIn(table, u) : Project[s] = Project[t]

\* A row is in one cell.
UniqueIn(table) ==
  \A c, d \in Cell : table[c] # NoRow /\ table[d].id = table[c].id => c = d

\* A card that left QA Test is in a queue until the call that removes it commits.
Leavers ==
  /\ left \subseteq 1 .. nextId - 1
  /\ \A c \in Cell : row[c].id \in left => \E w \in Worker :
       pc[w] \in {"affected", "drop", "reread", "save1", "save2", "reply"} /\ op[w] = "leave"
  /\ \A w \in Worker, c \in Cell : See(w)[c].id \in left =>
       pc[w] \in {"affected", "drop"} /\ c[2] = list[w][1]
  /\ \A w \in Worker : pc[w] \in {"wipe", "insert"} =>
       \A t \in ToSet(list[w]) : seen[w][t] \notin left

\* What Shows says of row and deleted.
ShowsIn(table, gone, cards, u) ==
  /\ ToSet(cards) \ gone = CardsIn(table, u)
  /\ \A i, j \in DOMAIN cards :
       i < j /\ {cards[i], cards[j]} \cap gone = {} =>
         table[<<u, cards[i]>>].pos < table[<<u, cards[j]>>].pos

\* The cards there are, and those that are going to be added, are of tasks that
\* there are.
Standing ==
  /\ \A c \in Cell : row[c] # NoRow => c[2] \notin deleted
  /\ \A w \in Worker :
       /\ \A c \in Cell : See(w)[c] # NoRow => c[2] \notin deleted
       /\ pc[w] \in {"wipe", "insert"} => Orphans(w) = {}

\* A stream shows the queue, or a call has the queue in memory or on its list.
Streams ==
  /\ \A u \in Listener :
       \/ ShowsIn(row, deleted, shown[u], u)
       \/ \E w \in Worker : pc[w] = "emit" /\ who[w] = u
       \/ \E w \in Worker : pc[w] \in {"tell", "emit"} /\ u \in todo[w]
  /\ \A w \in Worker : pc[w] = "emit" => list[w] \in Selections(row, who[w])

Serial ==
  /\ \A w \in Worker :
       Course(w) /\ Fits(w) /\ OneProjectIn(See(w)) /\ UniqueIn(See(w))
  /\ OneProjectIn(row) /\ UniqueIn(row)
  /\ fails = 0 => Leavers /\ Streams

-----------------------------------------------------------------------------
(* The order of a queue                                                    *)

\* The cards in one queue of a table are finitely many.
LEMMA CardsFinite ==
  ASSUME NEW table, NEW u
  PROVE  IsFiniteSet(CardsIn(table, u)) /\ CardsIn(table, u) \subseteq Task
<1>1. CardsIn(table, u) \subseteq Task
  BY DEF CardsIn
<1> QED
  BY <1>1, FS_Subset, QueueAssumption

\* SetToSeqs(S) are the sequences with every element of S once.
LEMMA SequencesOf ==
  ASSUME NEW S, IsFiniteSet(S), NEW s \in SetToSeqs(S)
  PROVE  /\ s \in Seq(S) /\ Len(s) = Cardinality(S) /\ ToSet(s) = S
         /\ \A i, j \in 1 .. Len(s) : s[i] = s[j] => i = j
<1> DEFINE n == Cardinality(S)
<1>1. n \in Nat
  BY FS_CardinalityType
<1>2. s \in [1 .. n -> S] /\ \A i, j \in 1 .. n : i # j => s[i] # s[j]
  BY DEF SetToSeqs
<1>3. IsFiniteSet(1 .. n) /\ Cardinality(1 .. n) = n
  <2> HIDE DEF n
  <2> QED
    BY <1>1, FS_Interval
<1>4. s \in Injection(1 .. n, S)
  BY <1>2 DEF Injection, IsInjective
<1>5. s \in Surjection(1 .. n, S)
  BY <1>3, <1>4, FS_Injection
<1> HIDE DEF n
<1>6. s \in Seq(S) /\ Len(s) = n
  BY <1>1, <1>2
<1>7. ToSet(s) = S
  BY <1>2, <1>5 DEF ToSet, Surjection
<1> QED
  BY <1>2, <1>6, <1>7 DEF n

LEMMA SequencesAre ==
  ASSUME NEW S, NEW s \in Seq(S), \A t \in S : \E i \in 1 .. Len(s) : s[i] = t,
         \A i, j \in 1 .. Len(s) : s[i] = s[j] => i = j
  PROVE  s \in SetToSeqs(S)
<1> DEFINE n == Len(s)
<1>1. n \in Nat /\ s \in [1 .. n -> S]
  OBVIOUS
<1> HIDE DEF n
<1>2. s \in Bijection(1 .. n, S)
  BY <1>1 DEF n, Bijection, Injection, Surjection, IsInjective
<1>3. Cardinality(S) = n
  BY <1>1, <1>2, FS_CountingElements DEF ExistsBijection
<1> QED
  BY <1>1, <1>3 DEF SetToSeqs, n

LEMMA EmptyOrder == <<>> \in SetToSeqs({})
<1>1. Cardinality({}) = 0
  BY FS_EmptySet
<1>2. 1 .. 0 = {} /\ <<>> \in [{} -> {}]
  OBVIOUS
<1>3. <<>> \in [1 .. Cardinality({}) -> {}]
  BY <1>1, <1>2
<1> QED
  BY <1>1, <1>3 DEF SetToSeqs

\* Where positions differ, there is one order of a queue.
LEMMA OneOrder ==
  ASSUME NEW table, NEW u, NEW s \in Selections(table, u), NEW t \in Selections(table, u),
         \A x \in Task : table[<<u, x>>].pos \in Int,
         \A x, y \in CardsIn(table, u) :
           x # y => table[<<u, x>>].pos # table[<<u, y>>].pos
  PROVE  s = t
<1> DEFINE S == CardsIn(table, u)
           n == Cardinality(S)
           pos(x) == table[<<u, x>>].pos
           Below(x) == { y \in S : pos(y) < pos(x) }
<1>1. IsFiniteSet(S) /\ n \in Nat /\ \A x \in S : pos(x) \in Int
  BY CardsFinite, FS_CardinalityType
<1>2. \A x, y \in S : x # y => pos(x) # pos(y)
  OBVIOUS
<1>3. ASSUME NEW q \in Selections(table, u)
      PROVE  /\ q \in Seq(S) /\ Len(q) = n /\ ToSet(q) = S
             /\ \A i, j \in 1 .. n : q[i] = q[j] => i = j
             /\ \A i, j \in 1 .. n : i < j => pos(q[i]) <= pos(q[j])
  <2>1. /\ q \in SetToSeqs(S)
        /\ \A i, j \in DOMAIN q : i < j => pos(q[i]) <= pos(q[j])
    BY DEF Selections
  <2> HIDE DEF S, pos
  <2>2. /\ q \in Seq(S) /\ Len(q) = n /\ ToSet(q) = S
        /\ \A i, j \in 1 .. n : q[i] = q[j] => i = j
    BY <1>1, <2>1, SequencesOf
  <2>3. DOMAIN q = 1 .. n
    BY <2>2
  <2> QED
    BY <2>1, <2>2, <2>3
<1> HIDE DEF S, n, pos
<1>4. ASSUME NEW q \in Selections(table, u), NEW i \in 1 .. n
      PROVE  Cardinality(Below(q[i])) = i - 1
  <2>1. /\ q \in Seq(S) /\ Len(q) = n /\ ToSet(q) = S
        /\ \A k, j \in 1 .. n : q[k] = q[j] => k = j
        /\ \A k, j \in 1 .. n : k < j => pos(q[k]) <= pos(q[j])
    BY <1>3
  <2>2. \A k \in 1 .. n : q[k] \in S
    BY <2>1
  <2>3. \A k, j \in 1 .. n : k < j => pos(q[k]) < pos(q[j])
    <3> SUFFICES ASSUME NEW k \in 1 .. n, NEW j \in 1 .. n, k < j
                 PROVE  pos(q[k]) < pos(q[j])
      OBVIOUS
    <3>1. q[k] # q[j] /\ q[k] \in S /\ q[j] \in S
      BY <2>1, <2>2
    <3>2. pos(q[k]) # pos(q[j]) /\ pos(q[k]) \in Int /\ pos(q[j]) \in Int
      BY <1>1, <1>2, <3>1
    <3> QED
      BY <2>1, <3>2
  <2> DEFINE f == [k \in 1 .. i - 1 |-> q[k]]
  <2>4. \A k \in 1 .. i - 1 : k \in 1 .. n /\ k < i
    BY <1>1
  <2>5. f \in [1 .. i - 1 -> Below(q[i])]
    BY <2>2, <2>3, <2>4
  <2>6. \A k, j \in 1 .. i - 1 : f[k] = f[j] => k = j
    BY <2>1, <2>4
  <2>7. ASSUME NEW y \in Below(q[i])
        PROVE  \E k \in 1 .. i - 1 : f[k] = y
    <3>1. PICK k \in 1 .. n : q[k] = y
      BY <2>1, <2>7 DEF ToSet
    <3>2. pos(q[k]) < pos(q[i]) /\ pos(q[k]) \in Int /\ pos(q[i]) \in Int
      BY <1>1, <2>2, <2>7, <3>1
    <3>3. k < i
      BY <1>1, <2>3, <3>2
    <3>4. k \in 1 .. i - 1
      BY <1>1, <3>3
    <3> QED
      BY <3>1, <3>4
  <2> HIDE DEF f
  <2>8. f \in Bijection(1 .. i - 1, Below(q[i]))
    BY <2>5, <2>6, <2>7 DEF Bijection, Injection, Surjection, IsInjective
  <2>9. i - 1 \in Nat
    BY <1>1
  <2> QED
    BY <2>8, <2>9, FS_CountingElements DEF ExistsBijection
<1> HIDE DEF Below
<1>5. ASSUME NEW i \in 1 .. n
      PROVE  s[i] = t[i]
  <2>1. s \in Seq(S) /\ t \in Seq(S) /\ Len(s) = n /\ Len(t) = n /\ ToSet(t) = S
    BY <1>3
  <2>2. PICK j \in 1 .. n : t[j] = s[i]
    BY <2>1 DEF ToSet
  <2>3. i - 1 = j - 1
    BY <1>4, <2>2
  <2>4. i = j
    BY <1>1, <2>3
  <2> QED
    BY <2>2, <2>4
<1>6. s \in Seq(S) /\ t \in Seq(S) /\ Len(s) = n /\ Len(t) = n
  BY <1>3
<1> QED
  BY <1>5, <1>6

-----------------------------------------------------------------------------
(* One call at a time: calls that read                                     *)

\* A selection of the queue shows it.
LEMMA SelectionShows ==
  ASSUME NEW table \in [Cell -> Row], NEW u \in User, NEW s \in Selections(table, u), NEW gone,
         OneProjectIn(table), InOrder(table),
         \A c \in Cell : table[c] # NoRow => c[2] \notin gone
  PROVE  ShowsIn(table, gone, s, u)
<1> DEFINE S == CardsIn(table, u)
<1>1. /\ s \in Seq(S) /\ ToSet(s) = S
      /\ \A i, j \in 1 .. Len(s) : s[i] = s[j] => i = j
      /\ \A i, j \in DOMAIN s : i < j => table[<<u, s[i]>>].pos <= table[<<u, s[j]>>].pos
  BY CardsFinite, SequencesOf DEF Selections
<1>2. ASSUME NEW t \in S
      PROVE  t \in Task /\ <<u, t>> \in Cell /\ table[<<u, t>>] # NoRow
             /\ table[<<u, t>>].pos \in Int /\ t \notin gone
  <2>1. t \in Task /\ <<u, t>> \in Cell /\ table[<<u, t>>] # NoRow
    BY DEF CardsIn, Cell
  <2>2. table[<<u, t>>] \in Row
    BY <2>1
  <2> QED
    BY <2>1, <2>2 DEF Row
<1>3. ASSUME NEW x \in S, NEW y \in S, x # y
      PROVE  table[<<u, x>>].pos # table[<<u, y>>].pos
  <2>1. SameIndex(<<u, x>>, <<u, y>>)
    BY <1>3 DEF SameIndex, OneProjectIn
  <2> QED
    BY <1>2, <2>1 DEF InOrder, Apart
<1>4. ToSet(s) \ gone = S
  BY <1>1, <1>2
<1>5. ASSUME NEW i \in DOMAIN s, NEW j \in DOMAIN s, i < j
      PROVE  table[<<u, s[i]>>].pos < table[<<u, s[j]>>].pos
  <2>1. i \in 1 .. Len(s) /\ j \in 1 .. Len(s) /\ s[i] \in S /\ s[j] \in S
    BY <1>1
  <2>2. s[i] # s[j]
    BY <1>1, <1>5, <2>1
  <2>3. table[<<u, s[i]>>].pos # table[<<u, s[j]>>].pos
    BY <1>3, <2>1, <2>2
  <2>4. table[<<u, s[i]>>].pos \in Int /\ table[<<u, s[j]>>].pos \in Int
    BY <1>2, <2>1
  <2> QED
    BY <1>1, <1>5, <2>3, <2>4
<1> QED
  BY <1>4, <1>5 DEF ShowsIn

\* It depends on the rows of the queue, and on who is gone.
LEMMA ShowsSame ==
  ASSUME NEW table, NEW other, NEW u, NEW gone, NEW s, s \in Seq(Task), ShowsIn(table, gone, s, u),
         \A t \in Task : table[<<u, t>>] = other[<<u, t>>]
  PROVE  ShowsIn(other, gone, s, u)
<1>1. CardsIn(table, u) = CardsIn(other, u)
  BY DEF CardsIn
<1>2. \A i \in DOMAIN s : s[i] \in Task
  OBVIOUS
<1> QED
  BY <1>1, <1>2 DEF ShowsIn

SerialInv == IInv /\ Standing /\ Serial

\* The only call there is.
Only(w) == w \in Worker /\ \A v \in Worker : v = w

LEMMA AloneIs ==
  ASSUME IInv, Alone, NEW w \in Worker
  PROVE  Only(w)
BY DEF IInv, TypeOK, Alone, Only

LEMMA SerialFacts ==
  ASSUME SerialInv, NEW w \in Worker
  PROVE  /\ TypeOK /\ Known /\ Temporary /\ Orders /\ Course(w) /\ Fits(w)
         /\ OneProjectIn(See(w)) /\ UniqueIn(See(w)) /\ OneProjectIn(row) /\ UniqueIn(row)
         /\ row \in [Cell -> Row] /\ See(w) \in [Cell -> Row]
         /\ \A c \in Cell : See(w)[c] = IF c \in wrote[w] THEN mine[w][c] ELSE row[c]
         /\ \A c \in Cell : Filed(row[c]) /\ Filed(See(w)[c])
         /\ nextId \in Nat /\ nextId >= 1
<1>1. TypeOK /\ Known /\ Temporary /\ Orders /\ nextId \in Nat /\ nextId >= 1
  BY Basics DEF SerialInv
<1>2. /\ See(w) \in [Cell -> Row]
      /\ \A c \in Cell : See(w)[c] = IF c \in wrote[w] THEN mine[w][c] ELSE row[c]
  BY <1>1, SeeTyped
<1>3. \A c \in Cell : Filed(row[c]) /\ Filed(See(w)[c])
  BY <1>1, <1>2 DEF Known
<1> QED
  BY <1>1, <1>2, <1>3 DEF SerialInv, Serial, TypeOK

\* What the table and the streams are like when a call begins.
LEMMA BeforeCall ==
  ASSUME SerialInv, NEW w, Only(w), pc[w] = "idle"
  PROVE  /\ wrote[w] = {} /\ users[w] = {} /\ todo[w] = {} /\ list[w] = <<>> /\ op[w] = "clear"
         /\ See(w) = row
         /\ fails = 0 => \A c \in Cell : row[c].id \notin left
         /\ fails = 0 => \A u \in Listener : ShowsIn(row, deleted, shown[u], u)
<1>0. w \in Worker
  BY DEF Only
<1>1. TypeOK /\ Course(w)
  BY <1>0, SerialFacts
<1>2. /\ wrote[w] = {} /\ users[w] = {} /\ todo[w] = {} /\ list[w] = <<>> /\ op[w] = "clear"
  BY <1>1 DEF Course
<1>3. See(w) = row
  <2>1. row = [c \in Cell |-> row[c]]
    BY <1>1 DEF TypeOK
  <2> QED
    BY <1>2, <2>1 DEF See
<1>4. ASSUME fails = 0
      PROVE  /\ \A c \in Cell : row[c].id \notin left
             /\ \A u \in Listener : ShowsIn(row, deleted, shown[u], u)
  BY <1>4 DEF SerialInv, Serial, Leavers, Streams, Only
<1> QED
  BY <1>2, <1>3, <1>4

\* A call that neither writes nor commits changes what it has in memory only.
LEMMA ReadSerial ==
  ASSUME SerialInv, NEW w, Only(w), IInv', UNCHANGED <<row, wrote, mine>>,
         Course(w)', Fits(w)', fails' = 0 => Leavers' /\ Streams'
  PROVE  Serial'
<1>0. w \in Worker
  BY DEF Only
<1>1. See(w)' = See(w)
  BY DEF See
<1>2. /\ OneProjectIn(See(w)) /\ UniqueIn(See(w)) /\ OneProjectIn(row) /\ UniqueIn(row)
  BY <1>0, SerialFacts
<1>3. OneProjectIn(See(w))' /\ OneProjectIn(row)'
  BY <1>1, <1>2 DEF OneProjectIn, CardsIn
<1>4. UniqueIn(See(w))' /\ UniqueIn(row)'
  BY <1>1, <1>2 DEF UniqueIn
<1> QED
  BY <1>3, <1>4 DEF Serial, Only

\* A call begins that is about to write.
LEMMA BeginSerial ==
  ASSUME SerialInv, NEW w, Only(w), IInv', pc[w] = "idle",
         UNCHANGED <<row, shown, users, todo, wrote, mine, fails, left, deleted>>, nextId' >= nextId,
         \/ pc'[w] \in {"wipe", "insert"} /\ op'[w] = "add"
         \/ pc'[w] = "delete" /\ op'[w] = "remove"
         \/ pc'[w] = "save1" /\ op'[w] = "reorder",
         Fits(w)',
         fails = 0 /\ pc'[w] \in {"wipe", "insert"} =>
           \A t \in ToSet(list'[w]) : seen'[w][t] \notin left
  PROVE  Serial'
<1>0. w \in Worker
  BY DEF Only
<1>1. /\ wrote[w] = {} /\ users[w] = {} /\ todo[w] = {} /\ See(w) = row
      /\ fails = 0 => \A c \in Cell : row[c].id \notin left
      /\ fails = 0 => \A u \in Listener : ShowsIn(row, deleted, shown[u], u)
  BY BeforeCall
<1>2. Course(w)'
  BY <1>1 DEF Course, Changed
<1>3. See(w)' = row
  BY <1>1 DEF See
<1>4. ASSUME fails = 0
      PROVE  Leavers'
  <2>1. left \subseteq 1 .. nextId - 1 /\ nextId \in Nat /\ nextId' \in Nat
    <3>1. left \subseteq 1 .. nextId - 1
      BY <1>4 DEF SerialInv, Serial, Leavers
    <3> QED
      BY <3>1, <1>0, SerialFacts, QueueAssumption DEF IInv, TypeOK
  <2>2. ASSUME NEW i \in left
        PROVE  i \in 1 .. nextId' - 1
    <3>1. i \in 1 .. nextId - 1
      BY <2>1
    <3> QED
      BY <2>1, <3>1
  <2> QED
    BY <1>1, <1>3, <1>4, <2>2 DEF Leavers, Only
<1>5. ASSUME fails = 0
      PROVE  Streams'
  BY <1>1, <1>5 DEF Streams, Only, ShowsIn, Selections, CardsIn
<1> QED
  BY <1>2, <1>4, <1>5, ReadSerial

LEMMA AddReadSerial ==
  ASSUME SerialInv, NEW w, Only(w), IInv', NEW u \in User,
         NEW cards \in SetToAllKPermutations(Task) \ {<<>>}, AddRead(w, u, cards)
  PROVE  Serial'
<1>0. w \in Worker /\ TypeOK
  BY SerialFacts DEF Only
<1>1. cards \in Seq(Task) /\ Len(cards) >= 1 /\ Len(cards) \in Nat
  BY CardsTyped
<1>2. PICK existing \in Selections(row, u) :
        /\ Replaces(u, existing, cards) \/ CardsIn(row, u) \cap ToSet(cards) = {}
        /\ Goto(w, IF Replaces(u, existing, cards) THEN "wipe" ELSE "insert")
        /\ base' = [base EXCEPT ![w] = nextPosition(u, existing, cards)]
  BY DEF AddRead
<1> DEFINE new == [t \in Task |-> IF t \in ToSet(cards) THEN nextId + Place(cards, t) - 1 ELSE 0]
<1>3. /\ pc[w] = "idle" /\ \A i \in DOMAIN cards : Project[cards[i]] = Project[cards[1]]
      /\ op' = [op EXCEPT ![w] = "add"] /\ who' = [who EXCEPT ![w] = u]
      /\ list' = [list EXCEPT ![w] = cards] /\ seen' = [seen EXCEPT ![w] = new]
      /\ nextId' = nextId + Len(cards)
      /\ UNCHANGED <<row, shown, users, todo, wrote, mine, leaves, fails, left, deleted>>
  BY DEF AddRead, Place
<1>4. /\ wrote[w] = {} /\ See(w) = row /\ OneProjectIn(row)
      /\ row \in [Cell -> Row] /\ nextId \in Nat /\ nextId >= 1
      /\ \A c \in Cell : Filed(row[c])
  BY <1>0, <1>3, BeforeCall, SerialFacts
<1>5. ASSUME NEW t \in ToSet(cards)
      PROVE  /\ t \in Task /\ new[t] = nextId + Place(cards, t) - 1
             /\ Place(cards, t) \in 1 .. Len(cards) /\ cards[Place(cards, t)] = t
  BY <1>1, PlaceTyped
<1> HIDE DEF new
<1>6. /\ op'[w] = "add" /\ who'[w] = u /\ list'[w] = cards /\ seen'[w] = new
      /\ base'[w] = nextPosition(u, existing, cards)
      /\ pc'[w] = IF Replaces(u, existing, cards) THEN "wipe" ELSE "insert"
  BY <1>0, <1>2, <1>3 DEF TypeOK, Goto
<1>7. See(w)' = row
  BY <1>3, <1>4 DEF See
<1>8. ASSUME ~Replaces(u, existing, cards), NEW t \in Task, row[<<u, t>>] # NoRow
      PROVE  /\ t \notin ToSet(cards) /\ row[<<u, t>>].pos < base'[w]
             /\ Project[t] = Project[cards[1]]
  <2>1. t \in CardsIn(row, u)
    BY <1>8 DEF CardsIn
  <2>2. /\ existing \in Seq(CardsIn(row, u)) /\ ToSet(existing) = CardsIn(row, u)
        /\ \A i, j \in DOMAIN existing : i < j =>
             row[<<u, existing[i]>>].pos <= row[<<u, existing[j]>>].pos
    BY CardsFinite, SequencesOf DEF Selections
  <2>3. PICK i \in DOMAIN existing : existing[i] = t
    BY <2>1, <2>2 DEF ToSet
  <2>4. existing # <<>> /\ i \in 1 .. Len(existing) /\ Len(existing) \in DOMAIN existing
        /\ Len(existing) \in Nat
    BY <2>2, <2>3
  <2>5. \A x \in CardsIn(row, u) : row[<<u, x>>].pos \in Int
    BY <1>4 DEF CardsIn, Cell, Row
  <2> DEFINE p == row[<<u, existing[Len(existing)]>>].pos
  <2>6. p \in Int /\ row[<<u, t>>].pos \in Int /\ row[<<u, t>>].pos <= p
    <3>1. CASE i = Len(existing)
      BY <2>1, <2>3, <2>5, <3>1
    <3>2. CASE i # Len(existing)
      BY <2>1, <2>2, <2>3, <2>4, <2>5, <3>2
    <3> QED
      BY <3>1, <3>2
  <2>7. base'[w] = p + 1
    BY <1>6, <1>8, <2>4 DEF nextPosition
  <2>8. t \notin ToSet(cards)
    BY <1>2, <1>8, <2>1
  <2>9. Project[existing[1]] = Project[cards[1]]
    BY <1>8, <2>4 DEF Replaces
  <2>10. existing[1] \in CardsIn(row, u)
    BY <2>2, <2>4
  <2>11. Project[t] = Project[existing[1]]
    BY <1>4, <2>1, <2>10 DEF OneProjectIn
  <2> HIDE DEF p
  <2> QED
    BY <2>6, <2>7, <2>8, <2>9, <2>11
<1>9. ASSUME NEW t \in ToSet(cards)
      PROVE  /\ Project[t] = Project[cards[1]]
             /\ \A s \in ToSet(cards) : new[s] = new[t] => s = t
             /\ \A c \in Cell : row[c].id # new[t]
  <2>1. Project[t] = Project[cards[1]]
    BY <1>3 DEF ToSet
  <2>2. ASSUME NEW s \in ToSet(cards), new[s] = new[t]
        PROVE  s = t
    <3>1. Place(cards, s) = Place(cards, t)
      BY <1>1, <1>4, <1>5, <2>2
    <3> QED
      BY <1>5, <3>1
  <2>3. new[t] >= nextId /\ new[t] \in Nat
    BY <1>1, <1>4, <1>5
  <2>4. \A c \in Cell : row[c].id \in 0 .. nextId - 1
    BY <1>4 DEF Filed, NoRow
  <2>5. \A c \in Cell : row[c].id # new[t]
    BY <1>4, <2>3, <2>4
  <2> QED
    BY <2>1, <2>2, <2>5
<1>10. Fits(w)'
  BY <1>6, <1>7, <1>8, <1>9 DEF Fits
<1>11. ASSUME fails = 0, NEW t \in ToSet(cards)
       PROVE  new[t] \notin left
  <2>1. left \subseteq 1 .. nextId - 1
    BY <1>11 DEF SerialInv, Serial, Leavers
  <2> QED
    BY <1>1, <1>4, <1>5, <2>1
<1>12. nextId' >= nextId
  BY <1>1, <1>3, <1>4
<1> QED
  BY <1>0, <1>3, <1>6, <1>10, <1>11, <1>12, BeginSerial

LEMMA RemoveReadSerial ==
  ASSUME SerialInv, NEW w, Only(w), IInv', NEW u \in User, NEW t \in Task, RemoveRead(w, u, t)
  PROVE  Serial'
<1>0. w \in Worker /\ TypeOK /\ nextId \in Nat
  BY SerialFacts DEF Only
<1>1. /\ pc[w] = "idle" /\ pc' = [pc EXCEPT ![w] = "delete"]
      /\ op' = [op EXCEPT ![w] = "remove"]
      /\ UNCHANGED <<row, shown, base, users, todo, wrote, mine, nextId, leaves, fails, left, deleted>>
  BY DEF RemoveRead, Goto
<1>2. pc'[w] = "delete" /\ op'[w] = "remove"
  BY <1>0, <1>1 DEF TypeOK
<1>3. Fits(w)'
  BY <1>2 DEF Fits
<1> QED
  BY <1>0, <1>1, <1>2, <1>3, BeginSerial

\* All rows of a queue in memory.
LEMMA RewriteFits ==
  ASSUME NEW w \in Worker, NEW table, NEW u \in User, pc'[w] = "save1", who'[w] = u,
         See(w)' = table,
         list'[w] \in SetToSeqs(CardsIn(table, u)), seen'[w] = IdsIn(table, u)
  PROVE  Fits(w)'
<1>1. ToSet(list'[w]) = CardsIn(table, u)
  BY CardsFinite, SequencesOf
<1>2. \A t \in Task : table[<<u, t>>] # NoRow <=> t \in ToSet(list'[w])
  BY <1>1 DEF CardsIn
<1>3. \A t \in Task : table[<<u, t>>].id = seen'[w][t]
  BY DEF IdsIn
<1> QED
  BY <1>2, <1>3 DEF Fits

LEMMA ReorderReadSerial ==
  ASSUME SerialInv, NEW w, Only(w), IInv', NEW u \in User, ReorderRead(w, u)
  PROVE  Serial'
<1>0. w \in Worker /\ TypeOK /\ nextId \in Nat
  BY SerialFacts DEF Only
<1>1. PICK s \in SetToSeqs(CardsIn(row, u)) : list' = [list EXCEPT ![w] = s]
  BY DEF ReorderRead
<1>2. /\ pc[w] = "idle" /\ pc' = [pc EXCEPT ![w] = "save1"]
      /\ op' = [op EXCEPT ![w] = "reorder"]
      /\ who' = [who EXCEPT ![w] = u]
      /\ seen' = [seen EXCEPT ![w] = IdsIn(row, u)]
      /\ UNCHANGED <<row, shown, base, users, todo, wrote, mine, nextId, leaves, fails, left, deleted>>
  BY DEF ReorderRead, Goto
<1>3. /\ pc'[w] = "save1" /\ op'[w] = "reorder" /\ who'[w] = u /\ list'[w] = s
      /\ seen'[w] = IdsIn(row, u)
  BY <1>0, <1>1, <1>2 DEF TypeOK
<1>4. See(w)' = row
  <2>1. See(w)' = See(w)
    BY <1>2 DEF See
  <2> QED
    BY <1>2, <2>1, BeforeCall
<1>5. Fits(w)'
  BY <1>0, <1>3, <1>4, RewriteFits
<1> QED
  BY <1>0, <1>2, <1>3, <1>5, BeginSerial

\* Until its first write a call that waits for nobody, and reads, leaves the
\* streams and the cards as they are.
LEMMA LeaveSerial ==
  ASSUME SerialInv, NEW w, Only(w), IInv', NEW t \in Task, Leave(w, t)
  PROVE  Serial'
<1>0. w \in Worker /\ TypeOK /\ nextId \in Nat /\ UniqueIn(row) /\ \A c \in Cell : Filed(row[c])
  BY SerialFacts DEF Only
<1>1. /\ pc[w] = "idle" /\ pc' = [pc EXCEPT ![w] = "affected"]
      /\ op' = [op EXCEPT ![w] = "leave"]
      /\ list' = [list EXCEPT ![w] = <<t>>]
      /\ left' = left \cup { row[<<u, t>>].id : u \in { v \in User : row[<<v, t>>] # NoRow } }
      /\ UNCHANGED <<row, shown, who, seen, base, users, todo, wrote, mine, nextId, fails, deleted>>
  BY DEF Leave, Goto
<1>2. pc'[w] = "affected" /\ op'[w] = "leave" /\ list'[w] = <<t>>
  BY <1>0, <1>1 DEF TypeOK
<1>3. /\ wrote[w] = {} /\ users[w] = {} /\ todo[w] = {} /\ See(w) = row
      /\ fails = 0 => \A c \in Cell : row[c].id \notin left
      /\ fails = 0 => \A u \in Listener : ShowsIn(row, deleted, shown[u], u)
  BY <1>1, BeforeCall
<1>4. Course(w)' /\ Fits(w)'
  BY <1>1, <1>2, <1>3 DEF Course, Fits, Changed
<1>5. See(w)' = row
  BY <1>1, <1>3 DEF See
<1>6. ASSUME fails = 0
      PROVE  Leavers'
  <2>1. left \subseteq 1 .. nextId - 1
    BY <1>6 DEF SerialInv, Serial, Leavers
  <2>2. ASSUME NEW u \in User, row[<<u, t>>] # NoRow
        PROVE  row[<<u, t>>].id \in 1 .. nextId - 1 /\ <<u, t>> \in Cell
    BY <1>0, <2>2 DEF Filed, Cell
  <2>3. left' \subseteq 1 .. nextId' - 1
    BY <1>1, <2>1, <2>2
  <2>4. ASSUME NEW c \in Cell, row[c].id \in left'
        PROVE  c[2] = t
    <3>1. PICK u \in User : row[<<u, t>>] # NoRow /\ row[c].id = row[<<u, t>>].id
      BY <1>1, <1>3, <1>6, <2>4
    <3>2. <<u, t>> = c
      BY <1>0, <2>2, <3>1 DEF UniqueIn
    <3> QED
      BY <3>2
  <2>5. list'[w][1] = t
    BY <1>2
  <2> QED
    BY <1>0, <1>1, <1>2, <1>5, <2>3, <2>4, <2>5 DEF Leavers, Only
<1>7. ASSUME fails = 0
      PROVE  Streams'
  BY <1>1, <1>2, <1>3, <1>7 DEF Streams, Only, ShowsIn, Selections, CardsIn
<1> QED
  BY <1>1, <1>4, <1>6, <1>7, ReadSerial

\* A call that is over leaves the table as it was.
LEMMA ReturnSerial ==
  ASSUME SerialInv, NEW w, Only(w), IInv', Return(w), UNCHANGED <<row, nextId, left, deleted>>,
         fails' = 0 => /\ fails = 0 /\ \A c \in Cell : row[c].id \notin left
                       /\ \A u \in Listener : ShowsIn(row, deleted, shown'[u], u)
  PROVE  Serial'
<1>0. w \in Worker /\ TypeOK /\ OneProjectIn(row) /\ UniqueIn(row)
  BY SerialFacts DEF Only
<1>1. /\ pc'[w] = "idle" /\ op'[w] = "clear" /\ list'[w] = <<>> /\ users'[w] = {}
      /\ todo'[w] = {} /\ wrote'[w] = {}
  BY <1>0 DEF Return, Goto, TypeOK
<1>2. See(w)' = row
  <2>1. row = [c \in Cell |-> row[c]]
    BY <1>0 DEF TypeOK
  <2> QED
    BY <1>1, <2>1 DEF See
<1>3. Course(w)' /\ Fits(w)'
  BY <1>1 DEF Course, Fits, Changed
<1>4. OneProjectIn(See(w))' /\ OneProjectIn(row)'
  BY <1>0, <1>2 DEF OneProjectIn, CardsIn
<1>5. UniqueIn(See(w))' /\ UniqueIn(row)'
  BY <1>0, <1>2 DEF UniqueIn
<1>6. ASSUME fails' = 0
      PROVE  Leavers'
  <2>1. left \subseteq 1 .. nextId - 1
    BY <1>6 DEF SerialInv, Serial, Leavers
  <2> QED
    BY <1>1, <1>2, <1>6, <2>1 DEF Leavers, Only
<1>7. ASSUME fails' = 0
      PROVE  Streams'
  BY <1>1, <1>7 DEF Streams, Only, ShowsIn, Selections, CardsIn
<1> QED
  BY <1>3, <1>4, <1>5, <1>6, <1>7 DEF Serial, Only

LEMMA AffectedSerial ==
  ASSUME SerialInv, NEW w, Only(w), IInv', Affected(w)
  PROVE  Serial'
<1>0. w \in Worker /\ TypeOK /\ Course(w) /\ nextId \in Nat /\ row \in [Cell -> Row]
  BY SerialFacts DEF Only
<1>1. pc[w] = "affected" /\ UNCHANGED <<row, shown, nextId, leaves, left, fails, deleted>>
  BY DEF Affected
<1>2. wrote[w] = {} /\ op[w] = "leave"
  BY <1>0, <1>1 DEF Course
<1>3. See(w) = row
  <2>1. row = [c \in Cell |-> row[c]]
    BY <1>0
  <2> QED
    BY <1>2, <2>1 DEF See
<1>4. ASSUME fails = 0
      PROVE  /\ left \subseteq 1 .. nextId - 1
             /\ \A c \in Cell : row[c].id \in left => c[2] = list[w][1]
             /\ \A u \in Listener : ShowsIn(row, deleted, shown[u], u)
  BY <1>0, <1>1, <1>3, <1>4 DEF SerialInv, Serial, Leavers, Streams, Only
<1>5. CASE Having(list[w][1]) = {} /\ Return(w)
  <2>1. ASSUME fails = 0, NEW c \in Cell
        PROVE  row[c].id \notin left
    <3>1. SUFFICES ASSUME row[c].id \in left PROVE FALSE
      OBVIOUS
    <3>2. c[2] = list[w][1] /\ c[1] \in User /\ c = <<c[1], c[2]>>
      BY <1>4, <2>1, <3>1, CellParts
    <3>3. row[c] = NoRow
      BY <1>5, <3>2 DEF Having
    <3> QED
      BY <1>0, <1>4, <2>1, <3>1, <3>3 DEF NoRow
  <2> QED
    BY <1>1, <1>4, <1>5, <2>1, ReturnSerial
<1>6. CASE ~(Having(list[w][1]) = {} /\ Return(w))
  <2>1. /\ users' = [users EXCEPT ![w] = Having(list[w][1])]
        /\ todo' = [todo EXCEPT ![w] = Having(list[w][1])]
        /\ pc' = [pc EXCEPT ![w] = "drop"]
        /\ UNCHANGED <<op, who, list, seen, base, wrote, mine>>
    BY <1>6 DEF Affected, Goto
  <2>2. /\ users'[w] = Having(list[w][1]) /\ todo'[w] = users'[w] /\ pc'[w] = "drop"
    BY <1>0, <2>1 DEF TypeOK
  <2>3. Having(list[w][1])' = Having(list[w][1])
    BY <1>1, <2>1 DEF Having
  <2>4. Course(w)' /\ Fits(w)'
    BY <1>2, <2>1, <2>2, <2>3 DEF Course, Fits, Changed
  <2>5. See(w)' = row
    BY <1>1, <1>3, <2>1 DEF See
  <2>6. ASSUME fails = 0
        PROVE  Leavers'
    BY <1>0, <1>1, <1>2, <1>4, <2>1, <2>2, <2>5, <2>6 DEF Leavers, Only
  <2>7. ASSUME fails = 0
        PROVE  Streams'
    BY <1>1, <1>4, <2>1, <2>2, <2>7 DEF Streams, Only, ShowsIn, Selections, CardsIn
  <2> QED
    BY <1>1, <2>1, <2>4, <2>6, <2>7, ReadSerial
<1> QED
  BY <1>5, <1>6

LEMMA TellSerial ==
  ASSUME SerialInv, NEW w, Only(w), IInv', Tell(w)
  PROVE  Serial'
<1>0. w \in Worker /\ TypeOK /\ Course(w) /\ row \in [Cell -> Row]
  BY SerialFacts DEF Only
<1>1. PICK u \in todo[w] :
        /\ who' = [who EXCEPT ![w] = u]
        /\ todo' = [todo EXCEPT ![w] = @ \ {u}]
        /\ \E s \in Selections(row, u) : list' = [list EXCEPT ![w] = s]
  BY DEF Tell
<1>2. PICK s \in Selections(row, u) : list' = [list EXCEPT ![w] = s]
  BY <1>1
<1>3. /\ pc[w] = "tell" /\ pc' = [pc EXCEPT ![w] = "emit"]
      /\ UNCHANGED <<row, shown, op, seen, base, users, wrote, mine, nextId, leaves, fails, left, deleted>>
  BY DEF Tell, Goto
<1>4. pc'[w] = "emit" /\ who'[w] = u /\ todo'[w] = todo[w] \ {u} /\ list'[w] = s
  BY <1>0, <1>1, <1>2, <1>3 DEF TypeOK
<1>5. wrote[w] = {} /\ op[w] = "leave" /\ todo[w] \subseteq users[w]
  BY <1>0, <1>3 DEF Course
<1>6. Course(w)' /\ Fits(w)'
  BY <1>3, <1>4, <1>5 DEF Course, Fits, Changed
<1>7. See(w)' = See(w) /\ See(w) = row
  <2>1. row = [c \in Cell |-> row[c]]
    BY <1>0
  <2> QED
    BY <1>3, <1>5, <2>1 DEF See
<1>8. ASSUME fails = 0
      PROVE  Leavers'
  <2>1. Leavers
    BY <1>8 DEF SerialInv, Serial
  <2>2. \A c \in Cell : row[c].id \notin left
    BY <1>0, <1>3, <2>1 DEF Leavers, Only
  <2> QED
    BY <1>3, <1>4, <1>7, <2>1, <2>2 DEF Leavers, Only
<1>9. ASSUME fails = 0
      PROVE  Streams'
  <2>1. \A x \in Listener : ShowsIn(row, deleted, shown[x], x) \/ x \in todo[w]
    BY <1>3, <1>9 DEF SerialInv, Serial, Streams, Only
  <2>2. \A x \in Listener : ShowsIn(row', deleted', shown'[x], x) \/ who'[w] = x \/ x \in todo'[w]
    BY <1>3, <1>4, <2>1
  <2>3. list'[w] \in Selections(row', who'[w])
    BY <1>3, <1>4
  <2> QED
    BY <1>0, <1>4, <2>2, <2>3 DEF Streams, Only, ShowsIn, Selections, CardsIn
<1> QED
  BY <1>3, <1>6, <1>8, <1>9, ReadSerial

LEMMA EmitSerial ==
  ASSUME SerialInv, NEW w, Only(w), IInv', Emit(w)
  PROVE  Serial'
<1>0. w \in Worker /\ TypeOK /\ Course(w) /\ row \in [Cell -> Row]
  BY SerialFacts DEF Only
<1>1. /\ pc[w] = "emit" /\ UNCHANGED <<row, nextId, leaves, fails, left, deleted>>
      /\ shown' = [u \in User |-> IF u = who[w] /\ u \in Listener THEN list[w] ELSE shown[u]]
  BY DEF Emit
<1>2. wrote[w] = {} /\ todo[w] \subseteq users[w] /\ (op[w] # "leave" => users[w] = {})
  BY <1>0, <1>1 DEF Course
<1>3. See(w) = row
  <2>1. row = [c \in Cell |-> row[c]]
    BY <1>0
  <2> QED
    BY <1>2, <2>1 DEF See
<1>4. ASSUME fails = 0
      PROVE  /\ \A c \in Cell : row[c].id \notin left
             /\ \A u \in Listener : ShowsIn(row, deleted, shown'[u], u) \/ u \in todo[w]
  <2>1. Leavers /\ Streams
    BY <1>4 DEF SerialInv, Serial
  <2>2. \A c \in Cell : row[c].id \notin left
    BY <1>0, <1>1, <2>1 DEF Leavers, Only
  <2>3. /\ \A u \in Listener : ShowsIn(row, deleted, shown[u], u) \/ who[w] = u \/ u \in todo[w]
        /\ list[w] \in Selections(row, who[w])
    BY <1>0, <1>1, <2>1 DEF Streams, Only
  <2>4. \A u \in Listener : shown'[u] = IF u = who[w] THEN list[w] ELSE shown[u]
    BY <1>1, QueueAssumption
  <2>5. ShowsIn(row, deleted, list[w], who[w])
    <3>1. OneProjectIn(row) /\ InOrder(row) /\ who[w] \in User
      BY <1>0, SerialFacts DEF Orders, TypeOK
    <3>2. \A c \in Cell : row[c] # NoRow => c[2] \notin deleted
      BY DEF SerialInv, Standing
    <3> QED
      BY <1>0, <2>3, <3>1, <3>2, SelectionShows
  <2> QED
    BY <2>2, <2>3, <2>4, <2>5
<1>5. CASE todo[w] = {} /\ Return(w)
  BY <1>1, <1>4, <1>5, ReturnSerial
<1>6. CASE ~(todo[w] = {} /\ Return(w))
  <2>1. /\ todo[w] # {} /\ pc' = [pc EXCEPT ![w] = "tell"]
        /\ UNCHANGED <<op, who, list, seen, base, users, todo, wrote, mine>>
    BY <1>6 DEF Emit, Goto
  <2>2. pc'[w] = "tell" /\ op[w] = "leave"
    BY <1>0, <1>2, <2>1 DEF TypeOK
  <2>3. Course(w)' /\ Fits(w)'
    BY <1>2, <2>1, <2>2 DEF Course, Fits, Changed
  <2>4. See(w)' = row
    BY <1>1, <1>3, <2>1 DEF See
  <2>5. ASSUME fails = 0
        PROVE  Leavers'
    <3>1. left \subseteq 1 .. nextId - 1
      BY <2>5 DEF SerialInv, Serial, Leavers
    <3> QED
      BY <1>1, <1>4, <2>2, <2>4, <2>5, <3>1 DEF Leavers, Only
  <2>6. ASSUME fails = 0
        PROVE  Streams'
    <3>1. \A x \in Listener : ShowsIn(row', deleted', shown'[x], x) \/ x \in todo'[w]
      BY <1>1, <1>4, <2>1, <2>6
    <3> QED
      BY <1>0, <2>2, <3>1 DEF Streams, Only, ShowsIn, Selections, CardsIn
  <2> QED
    BY <1>1, <2>1, <2>3, <2>5, <2>6, ReadSerial
<1> QED
  BY <1>5, <1>6

LEMMA ReReadSerial ==
  ASSUME SerialInv, NEW w, Only(w), IInv', ReRead(w)
  PROVE  Serial'
<1>0. w \in Worker /\ TypeOK /\ Course(w)
  BY SerialFacts DEF Only
<1>1. PICK u \in ReReadUsers(w) :
        /\ who' = [who EXCEPT ![w] = u]
        /\ todo' = [todo EXCEPT ![w] = @ \ {u}]
        /\ seen' = [seen EXCEPT ![w] = IdsIn(See(w), u)]
        /\ \E s \in Selections(See(w), u) : list' = [list EXCEPT ![w] = s]
  BY DEF ReRead
<1>2. PICK s \in Selections(See(w), u) : list' = [list EXCEPT ![w] = s]
  BY <1>1
<1>3. /\ pc[w] = "reread" /\ pc' = [pc EXCEPT ![w] = "save1"]
      /\ UNCHANGED <<row, shown, op, base, users, wrote, mine, nextId, leaves, fails, left, deleted>>
  BY DEF ReRead, Goto
<1>4. /\ pc'[w] = "save1" /\ list'[w] = s /\ seen'[w] = IdsIn(See(w), u) /\ who'[w] = u
      /\ todo'[w] = todo[w] \ {u}
  BY <1>0, <1>1, <1>2, <1>3 DEF TypeOK
<1>5. u \in User /\ u \in Changed(w)
  BY <1>0 DEF ReReadUsers, TypeOK, Course, Changed
<1>6. Changed(w)' = Changed(w)
  BY <1>3, <1>4, <1>1 DEF Changed, ReReadUsers
<1>7. Course(w)'
  BY <1>0, <1>3, <1>4, <1>5, <1>6 DEF Course
<1>8. See(w)' = See(w)
  BY <1>3 DEF See
<1>9. s \in SetToSeqs(CardsIn(See(w), u))
  BY DEF Selections
<1>10. Fits(w)'
  BY <1>0, <1>4, <1>5, <1>8, <1>9, RewriteFits
<1>11. ASSUME fails = 0
       PROVE  Leavers' /\ Streams'
  <2>1. Leavers /\ Streams
    BY <1>11 DEF SerialInv, Serial
  <2>2. Leavers'
    BY <1>0, <1>3, <1>4, <1>8, <2>1 DEF Leavers, Only
  <2>3. \A x \in Listener : ShowsIn(row, deleted, shown[x], x)
    BY <1>3, <2>1 DEF Streams, Only
  <2>4. Streams'
    BY <1>3, <1>4, <2>3 DEF Streams, Only, ShowsIn, Selections, CardsIn
  <2> QED
    BY <2>2, <2>4
<1> QED
  BY <1>3, <1>7, <1>10, <1>11, ReadSerial

\* A call that is alone waits for nobody, and dies without a trace.
LEMMA EndsSerial ==
  ASSUME SerialInv, NEW w, Only(w), IInv', DeadlockVictim(w) \/ Fail(w)
  PROVE  Serial'
<1>0. w \in Worker /\ TypeOK
  BY SerialFacts DEF Only
<1>1. CASE DeadlockVictim(w)
  <2>1. PICK S \in SUBSET Worker : w \in S /\ \A v \in S : Holders(v, Pending(v)) \cap S # {}
    BY <1>1 DEF DeadlockVictim
  <2>2. PICK x \in Holders(w, Pending(w)) \cap S : TRUE
    BY <2>1
  <2>3. x \in Worker \ {w}
    BY <2>2 DEF Holders
  <2> QED
    BY <2>3 DEF Only
<1>2. CASE Fail(w)
  <2>1. /\ Return(w) /\ UNCHANGED <<row, shown, nextId, leaves, left, deleted>> /\ fails' = fails + 1
    BY <1>2 DEF Fail, Rollback
  <2>2. fails' # 0
    BY <1>0, <2>1, QueueAssumption DEF TypeOK
  <2> QED
    BY <2>1, <2>2, ReturnSerial
<1> QED
  BY <1>1, <1>2

-----------------------------------------------------------------------------
(* One call at a time: calls that write                                    *)

LEMMA PutSee ==
  ASSUME TypeOK, NEW w \in Worker, NEW new, DOMAIN new \subseteq Cell,
         \A c \in DOMAIN new : new[c] \in Row, Put(w, new), row' = row
  PROVE  /\ wrote'[w] = wrote[w] \cup DOMAIN new
         /\ \A c \in Cell : See(w)'[c] = IF c \in DOMAIN new THEN new[c] ELSE See(w)[c]
<1>1. /\ wrote'[w] = wrote[w] \cup DOMAIN new
      /\ \A c \in Cell : mine'[w][c] = IF c \in DOMAIN new THEN new[c] ELSE mine[w][c]
  BY PutTyped
<1>2. \A c \in Cell : See(w)[c] = IF c \in wrote[w] THEN mine[w][c] ELSE row[c]
  BY SeeTyped
<1>3. See(w)' = [c \in Cell |-> IF c \in wrote'[w] THEN mine'[w][c] ELSE row'[c]]
  BY DEF See
<1> QED
  BY <1>1, <1>2, <1>3

\* The statements that write.
Writing == {"wipe", "insert", "delete", "save1", "save2", "drop"}

\* A write of a call in its own queues that fits the others in the table.
LEMMA WriteSerial ==
  ASSUME SerialInv, NEW w, Only(w), IInv', pc[w] \in Writing, NEW new, DOMAIN new \subseteq Cell,
         \A c \in DOMAIN new : new[c] \in Row /\ c[1] \in Changed(w), Put(w, new),
         NEW to \in {"insert", "reread", "save2", "reply"}, Goto(w, to),
         UNCHANGED <<row, shown, op, who, list, seen, base, users, todo, nextId, leaves, fails, left, deleted>>,
         to = "insert" => op[w] = "add", to = "save2" => who[w] \in Changed(w),
         Fits(w)', OneProjectIn(See(w)'), UniqueIn(See(w)'),
         fails = 0 =>
           /\ \A c \in Cell : See(w)'[c].id \notin left
           /\ to = "insert" => \A t \in ToSet(list[w]) : seen[w][t] \notin left
  PROVE  Serial'
<1>0. w \in Worker /\ TypeOK /\ Course(w) /\ OneProjectIn(row) /\ UniqueIn(row)
  BY SerialFacts DEF Only
<1>1. pc'[w] = to
  BY <1>0 DEF Goto, TypeOK
<1>2. wrote'[w] = wrote[w] \cup DOMAIN new
  BY <1>0, PutSee
<1>3. Changed(w)' = Changed(w)
  BY DEF Changed
<1>4. Course(w)'
  BY <1>0, <1>1, <1>2, <1>3 DEF Course
<1>5. ASSUME fails = 0
      PROVE  Leavers' /\ Streams'
  <2>1. Leavers /\ Streams
    BY <1>5 DEF SerialInv, Serial
  <2>2. \A c \in Cell : row[c].id \in left => op[w] = "leave"
    BY <2>1 DEF Leavers, Only
  <2>3. Leavers'
    BY <1>0, <1>1, <1>5, <2>1, <2>2 DEF Leavers, Only
  <2>4. \A x \in Listener : ShowsIn(row', deleted', shown'[x], x)
    BY <2>1 DEF Streams, Only, Writing
  <2>5. Streams'
    BY <1>1, <2>4 DEF Streams, Only
  <2> QED
    BY <2>3, <2>5
<1>6. OneProjectIn(row)' /\ UniqueIn(row)'
  BY <1>0 DEF OneProjectIn, UniqueIn, CardsIn
<1>7. OneProjectIn(See(w))' /\ UniqueIn(See(w))'
  BY DEF OneProjectIn, UniqueIn, CardsIn
<1> QED
  BY <1>4, <1>5, <1>6, <1>7 DEF Serial, Only

\* Deleting rows of the queues that a call may change.
LEMMA EraseSerial ==
  ASSUME SerialInv, NEW w, Only(w), IInv', pc[w] \in Writing, NEW new, DOMAIN new \subseteq Cell,
         \A c \in DOMAIN new : new[c] = NoRow /\ c[1] \in Changed(w), Put(w, new),
         NEW to \in {"insert", "reread"}, Goto(w, to),
         UNCHANGED <<row, shown, op, who, list, seen, base, users, todo, nextId, leaves, fails, left, deleted>>,
         to = "insert" => op[w] = "add", Fits(w)',
         fails = 0 =>
           /\ \A c \in Cell \ DOMAIN new : See(w)[c].id \notin left
           /\ to = "insert" => \A t \in ToSet(list[w]) : seen[w][t] \notin left
  PROVE  Serial'
<1>0. w \in Worker /\ TypeOK /\ OneProjectIn(See(w)) /\ UniqueIn(See(w))
  BY SerialFacts DEF Only
<1>1. NoRow \in Row /\ NoRow.id = 0
  BY DEF NoRow, Row
<1>2. \A c \in Cell : See(w)'[c] = IF c \in DOMAIN new THEN NoRow ELSE See(w)[c]
  BY <1>0, <1>1, PutSee
<1>3. OneProjectIn(See(w)')
  <2>1. \A u \in User : CardsIn(See(w)', u) \subseteq CardsIn(See(w), u)
    BY <1>2 DEF CardsIn, Cell
  <2> QED
    BY <1>0, <2>1 DEF OneProjectIn
<1>4. UniqueIn(See(w)')
  <2>1. \A c \in Cell : Filed(See(w)[c]) /\ Filed(See(w)[c])
    BY <1>0, SerialFacts
  <2>2. \A c \in Cell : See(w)[c] # NoRow => See(w)[c].id # 0
    BY <1>0, <2>1, SerialFacts DEF Filed
  <2> QED
    BY <1>0, <1>1, <1>2, <2>2 DEF UniqueIn
<1>5. ASSUME fails = 0
      PROVE  \A c \in Cell : See(w)'[c].id \notin left
  <2>1. left \subseteq 1 .. nextId - 1
    BY <1>5 DEF SerialInv, Serial, Leavers
  <2>2. 0 \notin left
    BY <1>0, <2>1, SerialFacts
  <2> QED
    BY <1>1, <1>2, <1>5, <2>2
<1> QED
  BY <1>1, <1>3, <1>4, <1>5, WriteSerial

LEMMA WipeSerial ==
  ASSUME SerialInv, NEW w, Only(w), IInv', Wipe(w)
  PROVE  Serial'
<1>0. /\ w \in Worker /\ TypeOK /\ Known /\ Course(w) /\ Fits(w) /\ nextId \in Nat
      /\ See(w) \in [Cell -> Row]
  BY SerialFacts DEF Only
<1> DEFINE new == EmptyQueue(who[w], See(w))
<1>1. /\ pc[w] = "wipe" /\ Put(w, new) /\ Goto(w, "insert")
      /\ UNCHANGED <<row, shown, op, who, list, seen, base, users, todo, nextId, leaves, fails, left, deleted>>
  BY DEF Wipe
<1>2. op[w] = "add" /\ Changed(w) = {who[w]}
  BY <1>0, <1>1 DEF Course, Changed
<1>3. /\ DOMAIN new = {who[w]} \X CardsIn(See(w), who[w]) /\ DOMAIN new \subseteq Cell
      /\ \A c \in DOMAIN new : new[c] = NoRow /\ c[1] \in Changed(w)
  BY <1>0, <1>2 DEF EmptyQueue, CardsIn, Cell, TypeOK
<1> HIDE DEF new
<1>4. NoRow \in Row /\ NoRow.id = 0
  BY DEF NoRow, Row
<1>5. \A c \in Cell : See(w)'[c] = IF c \in DOMAIN new THEN NoRow ELSE See(w)[c]
  BY <1>0, <1>1, <1>3, <1>4, PutSee
<1>6. \A t \in Task : See(w)'[<<who[w], t>>] = NoRow
  BY <1>0, <1>3, <1>5 DEF CardsIn, Cell, TypeOK
<1>7. \A t \in ToSet(list[w]) : seen[w][t] \in 1 .. nextId - 1
  BY <1>0, <1>1 DEF Known, Storing, ToSet
<1>8. ASSUME NEW t \in ToSet(list[w]), NEW c \in Cell
      PROVE  See(w)'[c].id # seen[w][t]
  <2>1. See(w)[c].id # seen[w][t]
    BY <1>0, <1>1 DEF Fits
  <2>2. seen[w][t] # 0
    BY <1>0, <1>7
  <2> QED
    BY <1>4, <1>5, <2>1, <2>2
<1>9. pc'[w] = "insert"
  BY <1>0, <1>1 DEF Goto, TypeOK
<1>10. Fits(w)'
  BY <1>0, <1>1, <1>6, <1>8, <1>9 DEF Fits
<1>11. ASSUME fails = 0
       PROVE  /\ \A c \in Cell \ DOMAIN new : See(w)[c].id \notin left
              /\ \A t \in ToSet(list[w]) : seen[w][t] \notin left
  BY <1>0, <1>1, <1>11 DEF SerialInv, Serial, Leavers
<1> QED
  BY <1>1, <1>2, <1>3, <1>10, <1>11, EraseSerial DEF Writing

LEMMA DeleteSerial ==
  ASSUME SerialInv, NEW w, Only(w), IInv', Delete(w)
  PROVE  Serial'
<1>0. w \in Worker /\ TypeOK /\ Course(w)
  BY SerialFacts DEF Only
<1> DEFINE new == Target(w)
<1>1. /\ pc[w] = "delete" /\ Put(w, new) /\ Goto(w, "reread")
      /\ UNCHANGED <<row, shown, op, who, list, seen, base, users, todo, nextId, leaves, fails, left, deleted>>
  BY DEF Delete
<1>2. Changed(w) = {who[w]}
  BY <1>0, <1>1 DEF Course, Changed
<1>3. DOMAIN new \subseteq Cell /\ \A c \in DOMAIN new : new[c] = NoRow /\ c[1] \in Changed(w)
  <2>1. ToSet(list[w]) \subseteq Task /\ who[w] \in User
    BY <1>0 DEF TypeOK, ToSet
  <2> QED
    BY <1>2, <2>1 DEF Target, Cell
<1> HIDE DEF new
<1>4. Fits(w)'
  BY <1>0, <1>1 DEF Fits, Goto, TypeOK
<1>5. fails = 0 => \A c \in Cell \ DOMAIN new : See(w)[c].id \notin left
  BY <1>0, <1>1 DEF SerialInv, Serial, Leavers
<1> QED
  BY <1>1, <1>3, <1>4, <1>5, EraseSerial DEF Writing

LEMMA DropSerial ==
  ASSUME SerialInv, NEW w, Only(w), IInv', Drop(w)
  PROVE  Serial'
<1>0. w \in Worker /\ TypeOK /\ Known /\ Course(w) /\ nextId \in Nat
  BY SerialFacts DEF Only
<1> DEFINE new == Dropped(w)
<1>1. /\ pc[w] = "drop" /\ Put(w, new) /\ Goto(w, "reread")
      /\ UNCHANGED <<row, shown, op, who, list, seen, base, users, todo, nextId, leaves, fails, left, deleted>>
  BY DEF Drop
<1>2. Changed(w) = Having(list[w][1]) /\ wrote[w] = {}
  BY <1>0, <1>1 DEF Course, Changed
<1>3. /\ DOMAIN new = Having(list[w][1]) \X {list[w][1]} /\ DOMAIN new \subseteq Cell
      /\ \A c \in DOMAIN new : new[c] = NoRow /\ c[1] \in Changed(w)
  <2>1. list[w] \in Seq(Task) /\ list[w] # <<>>
    BY <1>0, <1>1 DEF TypeOK, Known
  <2>2. list[w][1] \in Task
    BY <2>1
  <2> QED
    BY <1>2, <2>2 DEF Dropped, Having, Cell
<1> HIDE DEF new
<1>4. Fits(w)'
  BY <1>0, <1>1 DEF Fits, Goto, TypeOK
<1>5. ASSUME fails = 0, NEW c \in Cell \ DOMAIN new
      PROVE  See(w)[c].id \notin left
  <2>1. SUFFICES ASSUME See(w)[c].id \in left PROVE FALSE
    OBVIOUS
  <2>2. left \subseteq 1 .. nextId - 1 /\ c[2] = list[w][1]
    BY <1>0, <1>5, <2>1 DEF SerialInv, Serial, Leavers
  <2>3. c[1] \in User /\ c = <<c[1], list[w][1]>>
    BY <2>2, CellParts
  <2>4. row[c] = NoRow
    BY <1>3, <1>5, <2>3 DEF Having
  <2>5. See(w)[c] = NoRow
    BY <1>0, <1>2, <2>4, SerialFacts
  <2> QED
    BY <1>0, <2>1, <2>2, <2>5 DEF NoRow
<1> QED
  BY <1>1, <1>3, <1>4, <1>5, EraseSerial DEF Writing

\* The rows that a call stores, by card.
LEMMA CreatedIs ==
  ASSUME TypeOK, NEW w \in Worker
  PROVE  LET new == Created(w)
         IN  /\ DOMAIN new = {who[w]} \X ToSet(list[w]) /\ DOMAIN new \subseteq Cell
             /\ \A c \in DOMAIN new : new[c] \in Row /\ new[c].id = seen[w][c[2]]
                                      /\ new[c].pos >= base[w]
<1> DEFINE new == Placed(w, base[w] - 1, 1)
<1>1. base[w] \in Nat /\ base[w] - 1 \in Int
  BY DEF TypeOK
<1>2. /\ DOMAIN new = {who[w]} \X ToSet(list[w]) /\ DOMAIN new \subseteq Cell
      /\ \A c \in DOMAIN new :
           /\ Place(list[w], c[2]) \in 1 .. Len(list[w])
           /\ new[c] = [id |-> seen[w][c[2]], pos |-> (base[w] - 1) + 1 * Place(list[w], c[2])]
           /\ new[c] \in Row
  BY <1>1, PlacedTyped
<1> HIDE DEF new
<1>3. ASSUME NEW c \in DOMAIN new
      PROVE  new[c].id = seen[w][c[2]] /\ new[c].pos >= base[w]
  <2> DEFINE i == Place(list[w], c[2])
             p == (base[w] - 1) + 1 * i
  <2>1. i \in 1 .. Len(list[w]) /\ Len(list[w]) \in Nat
    BY <1>2 DEF TypeOK
  <2>2. new[c] = [id |-> seen[w][c[2]], pos |-> p]
    BY <1>2
  <2> HIDE DEF i
  <2>3. p >= base[w]
    BY <1>1, <2>1
  <2> HIDE DEF p
  <2> QED
    BY <2>2, <2>3
<1> QED
  BY <1>2, <1>3 DEF Created, new

LEMMA TemporaryIs ==
  ASSUME TypeOK, NEW w \in Worker
  PROVE  LET new == TemporaryPositions(w)
         IN  /\ DOMAIN new = {who[w]} \X ToSet(list[w]) /\ DOMAIN new \subseteq Cell
             /\ \A c \in DOMAIN new : new[c] \in Row /\ new[c].id = seen[w][c[2]]
                                      /\ new[c].pos < 0
<1> DEFINE new == Placed(w, 0, -1)
<1>1. /\ DOMAIN new = {who[w]} \X ToSet(list[w]) /\ DOMAIN new \subseteq Cell
      /\ \A c \in DOMAIN new :
           /\ Place(list[w], c[2]) \in 1 .. Len(list[w])
           /\ new[c] = [id |-> seen[w][c[2]], pos |-> 0 + (-1) * Place(list[w], c[2])]
           /\ new[c] \in Row
  <2>1. 0 \in Int /\ -1 \in Int /\ 1 \in {1, -1} /\ -1 \in {1, -1}
    OBVIOUS
  <2> QED
    BY <2>1, PlacedTyped
<1> HIDE DEF new
<1>2. ASSUME NEW c \in DOMAIN new
      PROVE  new[c].id = seen[w][c[2]] /\ new[c].pos < 0
  <2> DEFINE i == Place(list[w], c[2])
             p == 0 + (-1) * i
  <2>1. i \in 1 .. Len(list[w]) /\ Len(list[w]) \in Nat
    BY <1>1 DEF TypeOK
  <2>2. new[c] = [id |-> seen[w][c[2]], pos |-> p]
    BY <1>1
  <2> HIDE DEF i
  <2>3. p < 0
    BY <2>1
  <2> HIDE DEF p
  <2> QED
    BY <2>2, <2>3
<1> QED
  BY <1>1, <1>2 DEF TemporaryPositions, new

LEMMA InOrderIs ==
  ASSUME TypeOK, NEW w \in Worker
  PROVE  LET new == PositionsInOrder(w)
         IN  /\ DOMAIN new = {who[w]} \X ToSet(list[w]) /\ DOMAIN new \subseteq Cell
             /\ \A c \in DOMAIN new : new[c] \in Row /\ new[c].id = seen[w][c[2]]
                                      /\ new[c].pos = Place(list[w], c[2]) - 1
                                      /\ new[c].pos >= 0
<1> DEFINE new == Placed(w, -1, 1)
<1>1. /\ DOMAIN new = {who[w]} \X ToSet(list[w]) /\ DOMAIN new \subseteq Cell
      /\ \A c \in DOMAIN new :
           /\ Place(list[w], c[2]) \in 1 .. Len(list[w])
           /\ new[c] = [id |-> seen[w][c[2]], pos |-> (-1) + 1 * Place(list[w], c[2])]
           /\ new[c] \in Row
  <2>1. 0 \in Int /\ -1 \in Int /\ 1 \in {1, -1} /\ -1 \in {1, -1}
    OBVIOUS
  <2> QED
    BY <2>1, PlacedTyped
<1> HIDE DEF new
<1>2. ASSUME NEW c \in DOMAIN new
      PROVE  new[c].id = seen[w][c[2]] /\ new[c].pos = Place(list[w], c[2]) - 1 /\ new[c].pos >= 0
  <2> DEFINE i == Place(list[w], c[2])
             p == (-1) + 1 * i
  <2>1. i \in 1 .. Len(list[w]) /\ Len(list[w]) \in Nat
    BY <1>1 DEF TypeOK
  <2>2. new[c] = [id |-> seen[w][c[2]], pos |-> p]
    BY <1>1
  <2> HIDE DEF i
  <2>3. p >= 0 /\ p = i - 1
    BY <2>1
  <2> HIDE DEF p
  <2>4. new[c].id = seen[w][c[2]] /\ new[c].pos = p
    BY <2>2
  <2> QED
    BY <2>3, <2>4 DEF i
<1> QED
  BY <1>1, <1>2 DEF PositionsInOrder, new

LEMMA CellsAre ==
  ASSUME TypeOK, NEW w \in Worker, NEW i \in DOMAIN Cells(w)
  PROVE  /\ Cells(w)[i] = <<who[w], list[w][i]>> /\ list[w][i] \in ToSet(list[w])
         /\ list[w][i] \in Task
         /\ Cells(w)[i] \in {who[w]} \X ToSet(list[w]) /\ Cells(w)[i] \in Cell
<1>1. list[w] \in Seq(Task) /\ who[w] \in User
  BY DEF TypeOK
<1>2. i \in DOMAIN list[w] /\ Cells(w)[i] = <<who[w], list[w][i]>>
  BY DEF Cells
<1>3. list[w][i] \in ToSet(list[w]) /\ list[w][i] \in Task
  BY <1>1, <1>2 DEF ToSet
<1> QED
  BY <1>1, <1>2, <1>3 DEF Cell

\* With what is in memory fitting, no unique index refuses a write, nor does the
\* foreign key.
LEMMA NoCollision ==
  ASSUME SerialInv, NEW w \in Worker, pc[w] \in {"insert", "save1", "save2"}
  PROVE  ~Refused(w, Pending(w))
<1>0. /\ TypeOK /\ Fits(w) /\ Temporary /\ row \in [Cell -> Row] /\ See(w) \in [Cell -> Row]
      /\ \A c \in Cell : See(w)[c] = IF c \in wrote[w] THEN mine[w][c] ELSE row[c]
  BY SerialFacts
<1> DEFINE new == Pending(w)
<1>1. /\ DOMAIN new = {who[w]} \X ToSet(list[w])
      /\ \A c \in DOMAIN new : new[c] \in Row /\ new[c].id = seen[w][c[2]]
      /\ pc[w] = "insert" => \A c \in DOMAIN new : new[c].pos >= base[w]
      /\ pc[w] = "save1" => \A c \in DOMAIN new : new[c].pos < 0
      /\ pc[w] = "save2" => \A c \in DOMAIN new : new[c].pos >= 0
  <2>1. CASE pc[w] = "insert"
    <3>1. new = Created(w)
      BY <2>1 DEF Pending
    <3>2. /\ DOMAIN new = {who[w]} \X ToSet(list[w])
          /\ \A c \in DOMAIN new : new[c] \in Row /\ new[c].id = seen[w][c[2]] /\ new[c].pos >= base[w]
      BY <1>0, <3>1, CreatedIs
    <3> HIDE DEF new
    <3> QED
      BY <2>1, <3>2
  <2>2. CASE pc[w] = "save1"
    <3>1. new = TemporaryPositions(w)
      BY <2>2 DEF Pending
    <3>2. /\ DOMAIN new = {who[w]} \X ToSet(list[w])
          /\ \A c \in DOMAIN new : new[c] \in Row /\ new[c].id = seen[w][c[2]] /\ new[c].pos < 0
      BY <1>0, <3>1, TemporaryIs
    <3> HIDE DEF new
    <3> QED
      BY <2>2, <3>2
  <2>3. CASE pc[w] = "save2"
    <3>1. new = PositionsInOrder(w)
      BY <2>3 DEF Pending
    <3>2. /\ DOMAIN new = {who[w]} \X ToSet(list[w])
          /\ \A c \in DOMAIN new : new[c] \in Row /\ new[c].id = seen[w][c[2]] /\ new[c].pos >= 0
      BY <1>0, <3>1, InOrderIs
    <3> HIDE DEF new
    <3> QED
      BY <2>3, <3>2
  <2> QED
    BY <2>1, <2>2, <2>3
<1> HIDE DEF new
<1>2. ASSUME NEW i \in DOMAIN Cells(w)
      PROVE  /\ See(w)[Cells(w)[i]] # NoRow => See(w)[Cells(w)[i]].id = new[Cells(w)[i]].id
             /\ \A d \in Cell : SameIndex(Cells(w)[i], d) /\ See(w)[d] # NoRow =>
                                 See(w)[d].pos # new[Cells(w)[i]].pos
  <2> DEFINE t == list[w][i]
             c == <<who[w], t>>
  <2>1. Cells(w)[i] = c /\ t \in ToSet(list[w]) /\ t \in Task /\ c \in DOMAIN new /\ c[2] = t
    BY <1>0, <1>1, CellsAre
  <2>2. See(w)[c] # NoRow => See(w)[c].id = new[c].id
    BY <1>0, <1>1, <2>1 DEF Fits
  <2>3. ASSUME NEW d \in Cell, SameIndex(c, d), See(w)[d] # NoRow
        PROVE  See(w)[d].pos # new[c].pos
    <3>1. d = <<who[w], d[2]>> /\ d[2] \in Task
      BY <2>3, CellParts DEF SameIndex
    <3>2. See(w)[d].pos \in Int /\ new[c].pos \in Int /\ base[w] \in Int
      <4>1. See(w)[d] \in Row /\ new[c] \in Row
        BY <1>0, <1>1, <2>1
      <4>2. base[w] \in Int
        BY <1>0 DEF TypeOK
      <4> QED
        BY <4>1, <4>2 DEF Row
    <3>3. CASE pc[w] = "insert"
      <4>1. See(w)[d].pos < base[w]
        BY <1>0, <2>3, <3>1, <3>3 DEF Fits
      <4> QED
        BY <1>1, <2>1, <3>2, <3>3, <4>1
    <3>4. CASE pc[w] = "save1"
      <4>1. See(w)[d].pos >= 0
        BY <1>0, <3>2, <3>4 DEF Temporary
      <4> QED
        BY <1>1, <2>1, <3>2, <3>4, <4>1
    <3>5. CASE pc[w] = "save2"
      <4>1. See(w)[d].pos < 0
        BY <1>0, <2>3, <3>1, <3>5 DEF Fits
      <4> QED
        BY <1>1, <2>1, <3>2, <3>5, <4>1
    <3> QED
      BY <3>3, <3>4, <3>5
  <2> QED
    BY <2>1, <2>2, <2>3
<1>3. ~Collides(w, Cells(w), Pending(w))
  BY <1>2 DEF Collides, new
<1>4. Orphans(w) = {}
  <2>1. CASE pc[w] = "insert"
    BY <2>1 DEF SerialInv, Standing
  <2>2. CASE pc[w] \in {"save1", "save2"}
    <3>1. ASSUME NEW t \in ToSet(list[w])
          PROVE  t \notin deleted
      <4>1. t \in Task /\ <<who[w], t>> \in Cell
        BY <1>0 DEF TypeOK, ToSet, Cell
      <4>2. See(w)[<<who[w], t>>] # NoRow
        BY <1>0, <2>2, <4>1 DEF Fits
      <4> QED
        BY <4>1, <4>2 DEF SerialInv, Standing
    <3> QED
      BY <3>1 DEF Orphans
  <2> QED
    BY <2>1, <2>2
<1> QED
  BY <1>3, <1>4 DEF Refused

\* ... so it is done.
LEMMA SaveDone ==
  ASSUME SerialInv, NEW w \in Worker, pc[w] \in {"insert", "save1", "save2"}, NEW to,
         Save(w, Pending(w), to)
  PROVE  /\ Put(w, Pending(w)) /\ Goto(w, to)
         /\ UNCHANGED <<row, shown, op, who, list, seen, base, users, todo, nextId, leaves, fails, left, deleted>>
BY NoCollision DEF Save

LEMMA InsertSerial ==
  ASSUME SerialInv, NEW w, Only(w), IInv', Insert(w)
  PROVE  Serial'
<1>0. /\ w \in Worker /\ TypeOK /\ Known /\ Course(w) /\ Fits(w)
      /\ See(w) \in [Cell -> Row] /\ OneProjectIn(See(w)) /\ UniqueIn(See(w)) /\ nextId \in Nat
  BY SerialFacts DEF Only
<1> DEFINE new == Created(w)
<1>1. pc[w] = "insert" /\ Pending(w) = new
  BY DEF Insert, Pending
<1>2. /\ Put(w, new) /\ Goto(w, "reply")
      /\ UNCHANGED <<row, shown, op, who, list, seen, base, users, todo, nextId, leaves, fails, left, deleted>>
  <2>1. Save(w, Pending(w), "reply")
    BY <1>1 DEF Insert
  <2> HIDE DEF new
  <2>2. /\ Put(w, Pending(w)) /\ Goto(w, "reply")
        /\ UNCHANGED <<row, shown, op, who, list, seen, base, users, todo, nextId, leaves, fails, left, deleted>>
    BY <1>0, <1>1, <2>1, SaveDone
  <2> QED
    BY <1>1, <2>2
<1>3. /\ DOMAIN new = {who[w]} \X ToSet(list[w]) /\ DOMAIN new \subseteq Cell
      /\ \A c \in DOMAIN new : new[c] \in Row /\ new[c].id = seen[w][c[2]]
  BY <1>0, CreatedIs
<1> HIDE DEF new
<1>4. op[w] = "add" /\ Changed(w) = {who[w]}
  BY <1>0, <1>1 DEF Course, Changed
<1>5. \A c \in Cell : See(w)'[c] = IF c \in DOMAIN new THEN new[c] ELSE See(w)[c]
  BY <1>0, <1>2, <1>3, PutSee
<1>6. Fits(w)'
  BY <1>0, <1>2 DEF Fits, Goto, TypeOK
<1>7. OneProjectIn(See(w)')
  <2>1. ASSUME NEW t \in CardsIn(See(w)', who[w])
        PROVE  Project[t] = Project[list[w][1]]
    <3>1. t \in Task /\ See(w)'[<<who[w], t>>] # NoRow /\ <<who[w], t>> \in Cell
      BY <1>0, <2>1 DEF CardsIn, Cell, TypeOK
    <3>2. CASE t \in ToSet(list[w])
      BY <1>0, <1>1, <3>2 DEF Fits
    <3>3. CASE t \notin ToSet(list[w])
      <4>1. See(w)[<<who[w], t>>] # NoRow
        BY <1>3, <1>5, <3>1, <3>3
      <4> QED
        BY <1>0, <1>1, <3>1, <4>1 DEF Fits
    <3> QED
      BY <3>2, <3>3
  <2>2. ASSUME NEW u \in User \ {who[w]}
        PROVE  CardsIn(See(w)', u) = CardsIn(See(w), u)
    BY <1>3, <1>5 DEF CardsIn, Cell
  <2> QED
    BY <1>0, <2>1, <2>2 DEF OneProjectIn
<1>8. UniqueIn(See(w)')
  <2>1. ASSUME NEW c \in DOMAIN new, NEW d \in Cell
        PROVE  /\ d \in DOMAIN new /\ new[d].id = new[c].id => c = d
               /\ d \notin DOMAIN new => See(w)[d].id # new[c].id
    <3>1. c[2] \in ToSet(list[w]) /\ c = <<who[w], c[2]>>
      BY <1>3
    <3>2. d \in DOMAIN new => d[2] \in ToSet(list[w]) /\ d = <<who[w], d[2]>>
      BY <1>3
    <3> QED
      BY <1>0, <1>1, <1>3, <3>1, <3>2 DEF Fits
  <2> QED
    BY <1>0, <1>3, <1>5, <2>1 DEF UniqueIn
<1>9. ASSUME fails = 0, NEW c \in Cell
      PROVE  See(w)'[c].id \notin left
  <2>1. See(w)[c].id \notin left
    BY <1>0, <1>1, <1>9 DEF SerialInv, Serial, Leavers
  <2>2. c \in DOMAIN new => new[c].id \notin left
    BY <1>0, <1>1, <1>3, <1>9 DEF SerialInv, Serial, Leavers
  <2> QED
    BY <1>5, <2>1, <2>2
<1>10. \A c \in DOMAIN new : c[1] \in Changed(w)
  BY <1>3, <1>4
<1> QED
  BY <1>1, <1>2, <1>3, <1>6, <1>7, <1>8, <1>9, <1>10, WriteSerial DEF Writing

\* Storing other positions leaves rows in their cells.
LEMMA RewriteSerial ==
  ASSUME SerialInv, NEW w, Only(w), IInv', pc[w] \in {"save1", "save2"}, NEW new,
         DOMAIN new = {who[w]} \X ToSet(list[w]), DOMAIN new \subseteq Cell,
         \A c \in DOMAIN new : new[c] \in Row /\ new[c].id = seen[w][c[2]],
         Put(w, new), NEW to \in {"reread", "save2", "reply"}, Goto(w, to),
         UNCHANGED <<row, shown, op, who, list, seen, base, users, todo, nextId, leaves, fails, left, deleted>>,
         to = "save2" => \A c \in DOMAIN new : new[c].pos < 0
  PROVE  Serial'
<1>0. /\ w \in Worker /\ TypeOK /\ Known /\ Course(w) /\ Fits(w)
      /\ See(w) \in [Cell -> Row] /\ OneProjectIn(See(w)) /\ UniqueIn(See(w))
      /\ \A c \in Cell : Filed(See(w)[c])
  BY SerialFacts DEF Only
<1>1. \A c \in Cell : See(w)'[c] = IF c \in DOMAIN new THEN new[c] ELSE See(w)[c]
  BY <1>0, PutSee
<1>2. ASSUME NEW c \in DOMAIN new
      PROVE  new[c].id = See(w)[c].id /\ See(w)[c] # NoRow /\ new[c] # NoRow
  <2>1. c = <<who[w], c[2]>> /\ c[2] \in ToSet(list[w]) /\ c \in Cell /\ c[2] \in Task
    BY CellParts
  <2>2. See(w)[c] # NoRow /\ See(w)[c].id = seen[w][c[2]]
    BY <1>0, <2>1 DEF Fits
  <2>3. new[c].id = See(w)[c].id
    BY <2>2
  <2>4. See(w)[c].id # 0
    BY <1>0, <2>1, <2>2, SerialFacts DEF Filed
  <2> QED
    BY <2>2, <2>3, <2>4 DEF NoRow
<1>3. \A c \in Cell : /\ See(w)'[c].id = See(w)[c].id
                      /\ See(w)'[c] = NoRow <=> See(w)[c] = NoRow
  BY <1>1, <1>2
<1>4. OneProjectIn(See(w)')
  <2>1. \A u \in User : CardsIn(See(w)', u) = CardsIn(See(w), u)
    BY <1>3 DEF CardsIn, Cell
  <2> QED
    BY <1>0, <2>1 DEF OneProjectIn
<1>5. UniqueIn(See(w)')
  BY <1>0, <1>3 DEF UniqueIn
<1>6. Fits(w)'
  <2>1. pc'[w] = to
    BY <1>0 DEF Goto, TypeOK
  <2>2. ASSUME to = "save2", NEW t \in Task
        PROVE  /\ See(w)'[<<who[w], t>>] # NoRow <=> t \in ToSet(list[w])
               /\ t \in ToSet(list[w]) => See(w)'[<<who[w], t>>].id = seen[w][t]
               /\ t \in ToSet(list[w]) => See(w)'[<<who[w], t>>].pos < 0
    <3>1. <<who[w], t>> \in Cell
      BY <1>0 DEF Cell, TypeOK
    <3>2. /\ See(w)[<<who[w], t>>] # NoRow <=> t \in ToSet(list[w])
          /\ t \in ToSet(list[w]) => See(w)[<<who[w], t>>].id = seen[w][t]
      BY <1>0 DEF Fits
    <3>3. t \in ToSet(list[w]) => <<who[w], t>> \in DOMAIN new
      OBVIOUS
    <3> QED
      BY <1>1, <1>3, <2>2, <3>1, <3>2, <3>3
  <2> QED
    BY <2>1, <2>2 DEF Fits
<1>7. fails = 0 => \A c \in Cell : See(w)'[c].id \notin left
  BY <1>0, <1>3 DEF SerialInv, Serial, Leavers
<1>8. who[w] \in Changed(w) /\ \A c \in DOMAIN new : c[1] \in Changed(w)
  BY <1>0 DEF Course
<1> QED
  BY <1>4, <1>5, <1>6, <1>7, <1>8, WriteSerial DEF Writing

LEMMA SavesSerial ==
  ASSUME SerialInv, NEW w, Only(w), IInv', SaveTemporary(w) \/ SaveFinal(w)
  PROVE  Serial'
<1>0. w \in Worker /\ TypeOK
  BY SerialFacts DEF Only
<1>1. CASE SaveTemporary(w)
  <2> DEFINE new == TemporaryPositions(w)
  <2>1. pc[w] = "save1" /\ Pending(w) = new /\ Save(w, Pending(w), "save2")
    BY <1>1 DEF SaveTemporary, Pending
  <2>2. /\ DOMAIN new = {who[w]} \X ToSet(list[w]) /\ DOMAIN new \subseteq Cell
        /\ \A c \in DOMAIN new : new[c] \in Row /\ new[c].id = seen[w][c[2]] /\ new[c].pos < 0
    BY <1>0, TemporaryIs
  <2> HIDE DEF new
  <2>3. /\ Put(w, Pending(w)) /\ Goto(w, "save2")
        /\ UNCHANGED <<row, shown, op, who, list, seen, base, users, todo, nextId, leaves, fails, left, deleted>>
    BY <1>0, <2>1, SaveDone
  <2>4. Put(w, new)
    BY <2>1, <2>3
  <2> QED
    BY <2>1, <2>2, <2>3, <2>4, RewriteSerial
<1>2. CASE SaveFinal(w)
  <2> DEFINE new == PositionsInOrder(w)
             to  == IF todo[w] # {} THEN "reread" ELSE "reply"
  <2>1. pc[w] = "save2" /\ Pending(w) = new /\ Save(w, Pending(w), to)
    BY <1>2 DEF SaveFinal, Pending
  <2>2. /\ DOMAIN new = {who[w]} \X ToSet(list[w]) /\ DOMAIN new \subseteq Cell
        /\ \A c \in DOMAIN new : new[c] \in Row /\ new[c].id = seen[w][c[2]]
    BY <1>0, InOrderIs
  <2>3. to \in {"reread", "reply"}
    OBVIOUS
  <2> HIDE DEF new, to
  <2>4. /\ Put(w, Pending(w)) /\ Goto(w, to)
        /\ UNCHANGED <<row, shown, op, who, list, seen, base, users, todo, nextId, leaves, fails, left, deleted>>
    BY <1>0, <2>1, SaveDone
  <2>5. Put(w, new)
    BY <2>1, <2>4
  <2> QED
    BY <2>1, <2>2, <2>3, <2>4, <2>5, RewriteSerial
<1> QED
  BY <1>1, <1>2

\* The order of a queue depends on its rows only.
LEMMA SelectionsSame ==
  ASSUME NEW table, NEW other, NEW u, \A t \in Task : table[<<u, t>>] = other[<<u, t>>]
  PROVE  Selections(table, u) = Selections(other, u)
<1>1. CardsIn(table, u) = CardsIn(other, u)
  BY DEF CardsIn
<1>2. CardsIn(table, u) \subseteq Task
  BY DEF CardsIn
<1>3. \A s \in SetToSeqs(CardsIn(table, u)) : \A i \in DOMAIN s : s[i] \in Task
  BY SelectionTyped
<1> QED
  BY <1>1, <1>3 DEF Selections

\* A commit shows what the call saw; who must hear of it is on its list.
LEMMA ReplySerial ==
  ASSUME SerialInv, NEW w, Only(w), IInv', Reply(w)
  PROVE  Serial'
<1>0. /\ w \in Worker /\ TypeOK /\ Course(w) /\ OneProjectIn(See(w)) /\ UniqueIn(See(w))
      /\ \A c \in Cell : See(w)[c] = IF c \in wrote[w] THEN mine[w][c] ELSE row[c]
      /\ See(w) \in [Cell -> Row]
  BY SerialFacts DEF Only
<1>1. PICK s \in Selections(See(w), who[w]) : list' = [list EXCEPT ![w] = s]
  BY DEF Reply
<1>2. /\ pc[w] = "reply" /\ row' = See(w)
      /\ wrote' = [wrote EXCEPT ![w] = {}] /\ todo' = [todo EXCEPT ![w] = users[w]]
      /\ pc' = [pc EXCEPT ![w] = IF op[w] = "leave" THEN "tell" ELSE "emit"]
      /\ UNCHANGED <<shown, op, who, users, nextId, leaves, fails, left, deleted>>
  BY DEF Reply, Goto
<1>3. /\ list'[w] = s /\ wrote'[w] = {} /\ todo'[w] = users[w]
      /\ pc'[w] = IF op[w] = "leave" THEN "tell" ELSE "emit"
  BY <1>0, <1>1, <1>2 DEF TypeOK
<1>4. See(w)' = row'
  <2>1. row' = [c \in Cell |-> row'[c]]
    BY <1>0, <1>2
  <2> QED
    BY <1>3, <2>1 DEF See
<1>5. Course(w)' /\ Fits(w)'
  BY <1>0, <1>2, <1>3 DEF Course, Fits, Changed
<1>6. OneProjectIn(See(w))' /\ OneProjectIn(row)'
  BY <1>0, <1>2, <1>4 DEF OneProjectIn, CardsIn
<1>7. UniqueIn(See(w))' /\ UniqueIn(row)'
  BY <1>0, <1>2, <1>4 DEF UniqueIn
<1>8. ASSUME fails = 0
      PROVE  Leavers'
  <2>1. left \subseteq 1 .. nextId - 1 /\ \A c \in Cell : See(w)[c].id \notin left
    BY <1>0, <1>2, <1>8 DEF SerialInv, Serial, Leavers
  <2> QED
    BY <1>2, <1>3, <1>4, <2>1 DEF Leavers, Only
<1>9. ASSUME fails = 0
      PROVE  Streams'
  <2>1. \A u \in Listener : ShowsIn(row, deleted, shown[u], u)
    BY <1>2, <1>9 DEF SerialInv, Serial, Streams, Only
  <2>2. ASSUME NEW u \in Listener, u \notin Changed(w)
        PROVE  ShowsIn(row', deleted', shown'[u], u)
    <3>1. \A t \in Task : row[<<u, t>>] = row'[<<u, t>>]
      <4> SUFFICES ASSUME NEW t \in Task
                   PROVE  row[<<u, t>>] = row'[<<u, t>>]
        OBVIOUS
      <4>1. <<u, t>> \in Cell
        BY QueueAssumption DEF Cell
      <4>2. <<u, t>> \notin wrote[w]
        BY <1>0, <2>2 DEF Course
      <4> QED
        BY <1>0, <1>2, <4>1, <4>2
    <3>2. shown[u] \in Seq(Task)
      BY <1>0, QueueAssumption DEF TypeOK
    <3> QED
      BY <1>2, <2>1, <3>1, <3>2, ShowsSame
  <2>3. ASSUME NEW u \in Listener
        PROVE  \/ ShowsIn(row', deleted', shown'[u], u)
               \/ pc'[w] = "emit" /\ who'[w] = u
               \/ pc'[w] \in {"tell", "emit"} /\ u \in todo'[w]
    BY <1>2, <1>3, <2>2 DEF Changed
  <2>4. pc'[w] = "emit" => list'[w] \in Selections(row', who'[w])
    BY <1>1, <1>2, <1>3
  <2> QED
    BY <1>0, <2>3, <2>4 DEF Streams, Only, ShowsIn, Selections, CardsIn
<1> QED
  BY <1>2, <1>5, <1>6, <1>7, <1>8, <1>9 DEF Serial, Only

LEMMA ClearSerial ==
  ASSUME SerialInv, NEW w, Only(w), IInv', NEW u \in User, Clear(w, u)
  PROVE  Serial'
<1>0. /\ w \in Worker /\ TypeOK /\ Course(w) /\ OneProjectIn(row) /\ UniqueIn(row)
      /\ nextId \in Nat /\ \A c \in Cell : Filed(row[c])
      /\ row \in [Cell -> Row]
  BY SerialFacts DEF Only
<1>1. /\ pc[w] = "idle" /\ row' = [c \in Cell |-> IF c[1] = u THEN NoRow ELSE row[c]]
      /\ who' = [who EXCEPT ![w] = u] /\ pc' = [pc EXCEPT ![w] = "emit"]
      /\ UNCHANGED <<shown, op, list, seen, base, users, todo, wrote, mine, nextId, leaves, fails, left, deleted>>
  BY DEF Clear, Goto
<1>2. /\ wrote[w] = {} /\ users[w] = {} /\ todo[w] = {} /\ list[w] = <<>> /\ op[w] = "clear"
      /\ fails = 0 => \A c \in Cell : row[c].id \notin left
      /\ fails = 0 => \A x \in Listener : ShowsIn(row, deleted, shown[x], x)
  BY <1>1, BeforeCall
<1>3. /\ pc'[w] = "emit" /\ who'[w] = u
      /\ \A c \in Cell : row'[c] = IF c[1] = u THEN NoRow ELSE row[c]
  BY <1>0, <1>1 DEF TypeOK
<1>4. See(w)' = row'
  BY <1>1, <1>2 DEF See
<1>5. Course(w)' /\ Fits(w)'
  BY <1>1, <1>2, <1>3 DEF Course, Fits, Changed
<1>6. OneProjectIn(row')
  <2>1. \A x \in User : CardsIn(row', x) \subseteq CardsIn(row, x)
    BY <1>3 DEF CardsIn, Cell
  <2> QED
    BY <1>0, <2>1 DEF OneProjectIn
<1>7. NoRow.id = 0 /\ \A c \in Cell : row[c] # NoRow => row[c].id # 0
  BY <1>0 DEF Filed, NoRow
<1>8. UniqueIn(row')
  BY <1>0, <1>3, <1>7 DEF UniqueIn
<1>9. OneProjectIn(See(w))' /\ OneProjectIn(row)'
  BY <1>4, <1>6 DEF OneProjectIn, CardsIn
<1>10. UniqueIn(See(w))' /\ UniqueIn(row)'
  BY <1>4, <1>8 DEF UniqueIn
<1>11. ASSUME fails = 0
       PROVE  Leavers'
  <2>1. left \subseteq 1 .. nextId - 1
    BY <1>11 DEF SerialInv, Serial, Leavers
  <2>2. 0 \notin left
    BY <1>0, <2>1
  <2>3. \A c \in Cell : row'[c].id \notin left
    BY <1>2, <1>3, <1>7, <1>11, <2>2
  <2> QED
    BY <1>1, <1>3, <1>4, <2>1, <2>3 DEF Leavers, Only
<1>12. ASSUME fails = 0
       PROVE  Streams'
  <2>1. ASSUME NEW x \in Listener, x # u
        PROVE  ShowsIn(row', deleted', shown'[x], x)
    <3>1. \A t \in Task : row[<<x, t>>] = row'[<<x, t>>]
      BY <1>3, <2>1, QueueAssumption DEF Cell
    <3>2. shown[x] \in Seq(Task)
      BY <1>0, QueueAssumption DEF TypeOK
    <3> QED
      BY <1>1, <1>2, <1>12, <3>1, <3>2, ShowsSame
  <2>2. CardsIn(row', u) = {}
    BY <1>3 DEF CardsIn, Cell
  <2>3. <<>> \in SetToSeqs({})
    BY EmptyOrder
  <2>4. list'[w] \in Selections(row', u)
    <3>1. list'[w] = <<>>
      BY <1>1, <1>2
    <3>2. \A i, j \in DOMAIN <<>> : FALSE
      OBVIOUS
    <3> QED
      BY <2>2, <2>3, <3>1, <3>2 DEF Selections
  <2>5. \A x \in Listener : x # u => ShowsIn(row', deleted', shown'[x], x)
    BY <2>1 DEF Selections, CardsIn
  <2>6. list'[w] \in Selections(row, who[w])'
    BY <1>3, <2>4 DEF Selections, CardsIn
  <2> QED
    BY <1>0, <1>3, <2>5, <2>6 DEF Streams, Only, ShowsIn, CardsIn
<1> QED
  BY <1>1, <1>5, <1>9, <1>10, <1>11, <1>12 DEF Serial, Only

\* A task is deleted between two calls: the streams keep its cards.
LEMMA RemoveTaskSerial ==
  ASSUME SerialInv, NEW w, Only(w), IInv', NEW t \in Task, RemoveTask(w, t)
  PROVE  Serial'
<1>0. /\ w \in Worker /\ TypeOK /\ Course(w) /\ OneProjectIn(row) /\ UniqueIn(row)
      /\ nextId \in Nat /\ \A c \in Cell : Filed(row[c])
      /\ row \in [Cell -> Row]
  BY SerialFacts DEF Only
<1>1. /\ pc[w] = "idle" /\ row' = [c \in Cell |-> IF c[2] = t THEN NoRow ELSE row[c]]
      /\ deleted' = deleted \cup {t}
      /\ UNCHANGED <<shown, pc, op, who, list, seen, base, users, todo, wrote, mine, nextId,
                    leaves, fails, left>>
  BY DEF RemoveTask, calls
<1>2. /\ wrote[w] = {} /\ users[w] = {} /\ todo[w] = {} /\ list[w] = <<>> /\ op[w] = "clear"
      /\ fails = 0 => \A c \in Cell : row[c].id \notin left
      /\ fails = 0 => \A x \in Listener : ShowsIn(row, deleted, shown[x], x)
  BY <1>1, BeforeCall
<1>3. \A c \in Cell : row'[c] = IF c[2] = t THEN NoRow ELSE row[c]
  BY <1>0, <1>1 DEF TypeOK
<1>4. See(w)' = row'
  BY <1>1, <1>2 DEF See
<1>5. Course(w)' /\ Fits(w)'
  BY <1>1, <1>2 DEF Course, Fits, Changed
<1>6. \A x \in User : CardsIn(row', x) = CardsIn(row, x) \ {t}
  BY <1>3 DEF CardsIn, Cell
<1>7. NoRow.id = 0 /\ \A c \in Cell : row[c] # NoRow => row[c].id # 0
  BY <1>0 DEF Filed, NoRow
<1>8. OneProjectIn(row') /\ UniqueIn(row')
  BY <1>0, <1>3, <1>6, <1>7 DEF OneProjectIn, UniqueIn
<1>9. OneProjectIn(See(w))' /\ OneProjectIn(row)'
  BY <1>4, <1>8 DEF OneProjectIn, CardsIn
<1>10. UniqueIn(See(w))' /\ UniqueIn(row)'
  BY <1>4, <1>8 DEF UniqueIn
<1>11. ASSUME fails = 0
       PROVE  Leavers'
  <2>1. left \subseteq 1 .. nextId - 1
    BY <1>11 DEF SerialInv, Serial, Leavers
  <2>2. 0 \notin left
    BY <1>0, <2>1
  <2>3. \A c \in Cell : row'[c].id \notin left
    BY <1>2, <1>3, <1>7, <1>11, <2>2
  <2> QED
    BY <1>1, <1>4, <2>1, <2>3 DEF Leavers, Only
<1>12. ASSUME fails = 0
       PROVE  Streams'
  <2>1. ASSUME NEW x \in Listener
        PROVE  ShowsIn(row', deleted', shown'[x], x)
    <3> DEFINE s == shown[x]
    <3>1. x \in User /\ s \in Seq(Task)
      BY <1>0, QueueAssumption DEF TypeOK
    <3>2. /\ ToSet(s) \ deleted = CardsIn(row, x)
          /\ \A i, j \in DOMAIN s :
               i < j /\ {s[i], s[j]} \cap deleted = {} => row[<<x, s[i]>>].pos < row[<<x, s[j]>>].pos
      BY <1>2, <1>12 DEF ShowsIn
    <3>3. ToSet(s) \ deleted' = CardsIn(row', x)
      BY <1>1, <1>6, <3>1, <3>2
    <3>4. ASSUME NEW i \in DOMAIN s, NEW j \in DOMAIN s, i < j, {s[i], s[j]} \cap deleted' = {}
          PROVE  row'[<<x, s[i]>>].pos < row'[<<x, s[j]>>].pos
      <4>1. s[i] \in Task /\ s[j] \in Task /\ s[i] # t /\ s[j] # t
            /\ {s[i], s[j]} \cap deleted = {}
        BY <1>1, <3>1, <3>4
      <4>2. /\ <<x, s[i]>> \in Cell /\ <<x, s[j]>> \in Cell
            /\ <<x, s[i]>>[2] = s[i] /\ <<x, s[j]>>[2] = s[j]
        BY <3>1, <4>1 DEF Cell
      <4>3. row'[<<x, s[i]>>] = row[<<x, s[i]>>] /\ row'[<<x, s[j]>>] = row[<<x, s[j]>>]
        BY <1>3, <4>1, <4>2
      <4> QED
        BY <3>2, <3>4, <4>1, <4>3
    <3>5. shown'[x] = s
      BY <1>1
    <3> HIDE DEF s
    <3> QED
      BY <3>3, <3>4, <3>5 DEF ShowsIn
  <2> QED
    BY <1>1, <2>1 DEF Streams, Only, ShowsIn, Selections, CardsIn
<1> QED
  BY <1>1, <1>5, <1>9, <1>10, <1>11, <1>12 DEF Serial, Only

-----------------------------------------------------------------------------
(* One call at a time: cards of tasks that there are                       *)

\* A write that adds no card of a task that is gone.
LEMMA PutStanding ==
  ASSUME SerialInv, NEW w, Only(w), NEW new, DOMAIN new \subseteq Cell,
         \A c \in DOMAIN new : new[c] \in Row, Put(w, new),
         \A c \in DOMAIN new : new[c] # NoRow => c[2] \notin deleted,
         UNCHANGED <<row, deleted, list>>,
         pc'[w] \in {"wipe", "insert"} => pc[w] \in {"wipe", "insert"}
  PROVE  Standing'
<1>0. w \in Worker /\ TypeOK
  BY SerialFacts DEF Only
<1>1. \A c \in Cell : See(w)'[c] = IF c \in DOMAIN new THEN new[c] ELSE See(w)[c]
  BY <1>0, PutSee
<1>2. \A c \in Cell : See(w)'[c] # NoRow => c[2] \notin deleted
  BY <1>0, <1>1 DEF SerialInv, Standing
<1> QED
  BY <1>0, <1>2 DEF SerialInv, Standing, Orphans, Only

\* Nothing is written, or no more than is forgotten.
LEMMA ReadStanding ==
  ASSUME SerialInv, NEW w, Only(w), UNCHANGED <<row, deleted>>,
         wrote'[w] = {} \/ UNCHANGED <<wrote, mine>>,
         pc'[w] \in {"wipe", "insert"} => ToSet(list'[w]) \cap deleted = {}
  PROVE  Standing'
<1>0. w \in Worker /\ TypeOK
  BY SerialFacts DEF Only
<1>1. \A c \in Cell : See(w)'[c] \in {row[c], See(w)[c]}
  <2>1. CASE wrote'[w] = {}
    BY <2>1 DEF See
  <2>2. CASE UNCHANGED <<wrote, mine>>
    BY <2>2 DEF See
  <2> QED
    BY <2>1, <2>2
<1> QED
  BY <1>0, <1>1 DEF SerialInv, Standing, Orphans, Only

LEMMA BeginStanding ==
  ASSUME SerialInv, NEW w, Only(w), Begin(w)
  PROVE  Standing'
<1>0. w \in Worker /\ TypeOK
  BY SerialFacts DEF Only
<1>1. ASSUME NEW u \in User, NEW cards \in SetToAllKPermutations(Task) \ {<<>>},
             AddRead(w, u, cards)
      PROVE  Standing'
  <2>1. /\ UNCHANGED <<row, deleted, wrote, mine>>
        /\ list' = [list EXCEPT ![w] = cards] /\ ToSet(cards) \cap deleted = {}
    BY <1>1 DEF AddRead
  <2>2. list'[w] = cards
    BY <1>0, <2>1 DEF TypeOK
  <2> QED
    BY <2>1, <2>2, ReadStanding
<1>2. ASSUME NEW u \in User, NEW t \in Task, RemoveRead(w, u, t)
      PROVE  Standing'
  BY <1>0, <1>2, ReadStanding DEF RemoveRead, Goto, TypeOK
<1>3. ASSUME NEW u \in User, ReorderRead(w, u)
      PROVE  Standing'
  BY <1>0, <1>3, ReadStanding DEF ReorderRead, Goto, TypeOK
<1>4. ASSUME NEW t \in Task, Leave(w, t)
      PROVE  Standing'
  BY <1>0, <1>4, ReadStanding DEF Leave, Goto, TypeOK
<1>5. ASSUME NEW u \in User, Clear(w, u)
      PROVE  Standing'
  <2>1. /\ row' = [c \in Cell |-> IF c[1] = u THEN NoRow ELSE row[c]]
        /\ pc' = [pc EXCEPT ![w] = "emit"] /\ UNCHANGED <<deleted, wrote, mine>>
    BY <1>5 DEF Clear, Goto
  <2>2. /\ \A c \in Cell : row'[c] \in {row[c], NoRow} /\ See(w)'[c] \in {See(w)[c], NoRow}
        /\ pc'[w] = "emit"
    BY <1>0, <2>1 DEF See, TypeOK
  <2> QED
    BY <1>0, <2>1, <2>2 DEF SerialInv, Standing, Only
<1>6. ASSUME NEW t \in Task, RemoveTask(w, t)
      PROVE  Standing'
  <2>1. /\ pc[w] = "idle" /\ row' = [c \in Cell |-> IF c[2] = t THEN NoRow ELSE row[c]]
        /\ deleted' = deleted \cup {t} /\ UNCHANGED <<pc, wrote, mine>>
    BY <1>6 DEF RemoveTask, calls
  <2>2. wrote[w] = {}
    BY <2>1, BeforeCall
  <2>3. \A c \in Cell : /\ row'[c] = IF c[2] = t THEN NoRow ELSE row[c]
                        /\ See(w)'[c] = row'[c]
    BY <1>0, <2>1, <2>2 DEF See, TypeOK
  <2> QED
    BY <1>0, <2>1, <2>3 DEF SerialInv, Standing, Only
<1> QED
  BY <1>1, <1>2, <1>3, <1>4, <1>5, <1>6 DEF Begin

LEMMA StepStanding ==
  ASSUME SerialInv, NEW w, Only(w), Step(w)
  PROVE  Standing'
<1>0. /\ w \in Worker /\ TypeOK /\ Known /\ Fits(w) /\ Course(w)
      /\ See(w) \in [Cell -> Row] /\ NoRow \in Row
  BY SerialFacts DEF Only, NoRow, Row
<1>1. CASE Wipe(w)
  <2> DEFINE new == EmptyQueue(who[w], See(w))
  <2>1. /\ pc[w] = "wipe" /\ Put(w, new) /\ UNCHANGED <<row, deleted, list>>
    BY <1>1 DEF Wipe
  <2>2. DOMAIN new \subseteq Cell /\ \A c \in DOMAIN new : new[c] = NoRow
    BY <1>0 DEF EmptyQueue, CardsIn, Cell, TypeOK
  <2> HIDE DEF new
  <2> QED
    BY <1>0, <2>1, <2>2, PutStanding
<1>2. CASE Delete(w)
  <2> DEFINE new == Target(w)
  <2>1. /\ pc'[w] = "reread" /\ Put(w, new) /\ UNCHANGED <<row, deleted, list>>
    BY <1>0, <1>2 DEF Delete, Goto, TypeOK
  <2>2. ToSet(list[w]) \subseteq Task /\ who[w] \in User
    BY <1>0 DEF TypeOK, ToSet
  <2>3. DOMAIN new \subseteq Cell /\ \A c \in DOMAIN new : new[c] = NoRow
    BY <2>2 DEF Target, Cell
  <2> HIDE DEF new
  <2> QED
    BY <1>0, <2>1, <2>3, PutStanding
<1>3. CASE Drop(w)
  <2> DEFINE new == Dropped(w)
  <2>1. /\ pc[w] = "drop" /\ pc'[w] = "reread" /\ Put(w, new) /\ UNCHANGED <<row, deleted, list>>
    BY <1>0, <1>3 DEF Drop, Goto, TypeOK
  <2>2. list[w] \in Seq(Task) /\ list[w] # <<>>
    BY <1>0, <2>1 DEF TypeOK, Known
  <2>3. list[w][1] \in Task
    BY <2>2
  <2>4. DOMAIN new \subseteq Cell /\ \A c \in DOMAIN new : new[c] = NoRow
    BY <2>3 DEF Dropped, Having, Cell
  <2> HIDE DEF new
  <2> QED
    BY <1>0, <2>1, <2>4, PutStanding
<1>4. CASE Insert(w) \/ SaveTemporary(w) \/ SaveFinal(w)
  <2>1. pc[w] \in {"insert", "save1", "save2"} /\ \E to \in {"reply", "save2", "reread"} :
          Save(w, Pending(w), to)
    BY <1>4 DEF Insert, SaveTemporary, SaveFinal, Pending
  <2>2. PICK to \in {"reply", "save2", "reread"} : Save(w, Pending(w), to)
    BY <2>1
  <2>3. Put(w, Pending(w)) /\ Goto(w, to) /\ UNCHANGED <<row, deleted, list>>
    BY <1>0, <2>1, <2>2, SaveDone
  <2>4. pc'[w] = to
    BY <1>0, <2>3 DEF Goto, TypeOK
  <2>5. /\ DOMAIN Pending(w) = {who[w]} \X ToSet(list[w]) /\ DOMAIN Pending(w) \subseteq Cell
        /\ \A c \in DOMAIN Pending(w) : Pending(w)[c] \in Row
    BY <1>0, <2>1, CreatedIs, TemporaryIs, InOrderIs DEF Pending
  <2>6. Orphans(w) = {}
    BY <1>0, <2>1, NoCollision DEF Refused
  <2>7. \A c \in DOMAIN Pending(w) : c[2] \notin deleted
    BY <2>5, <2>6 DEF Orphans
  <2> QED
    BY <2>3, <2>4, <2>5, <2>7, PutStanding
<1>5. CASE Reply(w)
  <2>1. /\ row' = See(w) /\ UNCHANGED deleted /\ wrote' = [wrote EXCEPT ![w] = {}]
        /\ pc' = [pc EXCEPT ![w] = IF op[w] = "leave" THEN "tell" ELSE "emit"]
    BY <1>5 DEF Reply, Goto
  <2>2. wrote'[w] = {} /\ pc'[w] \in {"tell", "emit"}
    BY <1>0, <2>1 DEF TypeOK
  <2>3. \A c \in Cell : See(w)'[c] = See(w)[c]
    BY <2>1, <2>2 DEF See
  <2> QED
    BY <1>0, <2>1, <2>2, <2>3 DEF SerialInv, Standing, Only
<1>6. CASE ReRead(w) \/ Tell(w)
  BY <1>0, <1>6, ReadStanding DEF ReRead, Tell, Goto, TypeOK
<1>7. CASE Emit(w) \/ Affected(w)
  <2>1. UNCHANGED <<row, deleted>>
    BY <1>7 DEF Emit, Affected
  <2>2. \/ Return(w)
        \/ UNCHANGED <<wrote, mine>> /\ Goto(w, "tell")
        \/ UNCHANGED <<wrote, mine>> /\ Goto(w, "drop")
    BY <1>7 DEF Emit, Affected
  <2>3. /\ wrote'[w] = {} \/ UNCHANGED <<wrote, mine>>
        /\ pc'[w] \in {"idle", "tell", "drop"}
    BY <1>0, <2>2 DEF Return, Goto, TypeOK
  <2> QED
    BY <2>1, <2>3, ReadStanding
<1> QED
  BY <1>1, <1>2, <1>3, <1>4, <1>5, <1>6, <1>7 DEF Step

LEMMA NextStanding ==
  ASSUME SerialInv, Alone, [Next]_vars
  PROVE  Standing'
<1>1. ASSUME NEW w \in Worker
      PROVE  Only(w)
  BY AloneIs DEF SerialInv
<1>2. ASSUME NEW w \in Worker, DeadlockVictim(w) \/ Fail(w)
      PROVE  Standing'
  <2>1. Return(w) /\ UNCHANGED <<row, deleted>>
    BY <1>2 DEF DeadlockVictim, Fail, Rollback
  <2>2. wrote'[w] = {} /\ pc'[w] = "idle"
    BY <2>1, SerialFacts DEF Return, Goto, TypeOK
  <2> QED
    BY <1>1, <2>1, <2>2, ReadStanding
<1>3. CASE UNCHANGED vars
  <2>1. UNCHANGED <<row, pc, list, wrote, mine, deleted>>
    BY <1>3 DEF vars, calls
  <2>2. \A w \in Worker : See(w)' = See(w)
    BY <2>1 DEF See
  <2> QED
    BY <2>1, <2>2 DEF SerialInv, Standing, Orphans
<1> QED
  BY <1>1, <1>2, <1>3, BeginStanding, StepStanding DEF Next

-----------------------------------------------------------------------------
(* One call at a time: the results                                         *)

LEMMA InitSerial ==
  ASSUME Init
  PROVE  Standing /\ Serial
<1>1. NoRow.id = 0 /\ \A c \in Cell : row[c] = NoRow
  BY DEF Init, Clean, NoRow
<1>2. /\ nextId = 1 /\ left = {} /\ \A u \in User : shown[u] = <<>>
      /\ \A w \in Worker : /\ pc[w] = "idle" /\ op[w] = "clear" /\ list[w] = <<>>
                           /\ users[w] = {} /\ todo[w] = {} /\ wrote[w] = {}
  BY DEF Init
<1>3. \A w \in Worker, c \in Cell : See(w)[c] = NoRow
  BY <1>1, <1>2 DEF See
<1>4. /\ \A u \in User : CardsIn(row, u) = {}
      /\ \A w \in Worker, u \in User : CardsIn(See(w), u) = {}
  BY <1>1, <1>3 DEF CardsIn, Cell
<1>5. \A w \in Worker : Course(w) /\ Fits(w)
  BY <1>2 DEF Course, Fits
<1>6. \A w \in Worker : OneProjectIn(See(w)) /\ UniqueIn(See(w))
  BY <1>3, <1>4 DEF OneProjectIn, UniqueIn
<1>7. OneProjectIn(row) /\ UniqueIn(row)
  BY <1>1, <1>4 DEF OneProjectIn, UniqueIn
<1>8. Leavers
  BY <1>2 DEF Leavers
<1>9. Streams
  <2>1. ToSet(<<>>) = {} /\ DOMAIN <<>> = {}
    BY DEF ToSet
  <2>2. \A u \in User : ShowsIn(row, deleted, <<>>, u)
    BY <1>4, <2>1 DEF ShowsIn
  <2> QED
    BY <1>2, <2>2, QueueAssumption DEF Streams
<1>10. Standing
  BY <1>1, <1>2, <1>3 DEF Standing
<1> QED
  BY <1>5, <1>6, <1>7, <1>8, <1>9, <1>10 DEF Serial

LEMMA NextSerial ==
  ASSUME SerialInv, Alone, [Next]_vars
  PROVE  Standing' /\ Serial'
<1>0. IInv /\ IInv'
  BY NextIInv DEF SerialInv
<1>1. ASSUME NEW w \in Worker
      PROVE  Only(w)
  BY <1>0, AloneIs
<1>2. ASSUME NEW w \in Worker, Begin(w)
      PROVE  Serial'
  <2>1. Only(w)
    BY <1>1
  <2> QED
    BY <1>0, <1>2, <2>1, AddReadSerial, RemoveReadSerial, ReorderReadSerial, ClearSerial,
       LeaveSerial, RemoveTaskSerial
    DEF Begin
<1>3. ASSUME NEW w \in Worker, Step(w)
      PROVE  Serial'
  <2>1. Only(w)
    BY <1>1
  <2> QED
    BY <1>0, <1>3, <2>1, WipeSerial, InsertSerial, DeleteSerial, ReReadSerial, SavesSerial,
       ReplySerial, EmitSerial, AffectedSerial, DropSerial, TellSerial
    DEF Step
<1>4. ASSUME NEW w \in Worker, DeadlockVictim(w) \/ Fail(w)
      PROVE  Serial'
  BY <1>0, <1>1, <1>4, EndsSerial
<1>5. CASE UNCHANGED vars
  <2>1. UNCHANGED <<row, shown, pc, op, who, list, seen, base, users, todo, wrote, mine,
                    nextId, leaves, fails, left, deleted>>
    BY <1>5 DEF vars, calls
  <2>2. \A w \in Worker : See(w)' = See(w)
    BY <2>1 DEF See
  <2>3. \A w \in Worker : Course(w)' /\ Fits(w)'
    <3>1. ASSUME NEW w \in Worker
          PROVE  Course(w) /\ Fits(w) /\ Changed(w)' = Changed(w)
      BY <2>1 DEF SerialInv, Serial, Changed
    <3>2. \A t \in Task : Having(t)' = Having(t)
      BY <2>1 DEF Having
    <3>3. \A w \in Worker : Course(w)'
      BY <2>1, <3>1 DEF Course, Having
    <3>4. \A w \in Worker : Fits(w)'
      BY <2>1, <2>2, <3>1 DEF Fits
    <3> QED
      BY <3>3, <3>4
  <2>4. /\ \A w \in Worker : OneProjectIn(See(w))' /\ UniqueIn(See(w))'
        /\ OneProjectIn(row)' /\ UniqueIn(row)'
    BY <2>1, <2>2 DEF SerialInv, Serial, OneProjectIn, UniqueIn, CardsIn
  <2>5. fails = 0 => Leavers' /\ Streams'
    <3>1. ASSUME fails = 0
          PROVE  Leavers'
      BY <2>1, <2>2, <3>1 DEF SerialInv, Serial, Leavers
    <3>2. ASSUME fails = 0
          PROVE  Streams'
      BY <2>1, <3>2 DEF SerialInv, Serial, Streams, ShowsIn, Selections, CardsIn
    <3> QED
      BY <2>1, <3>1, <3>2
  <2> QED
    <3>1. Serial'
      BY <2>1, <2>3, <2>4, <2>5 DEF Serial
    <3> QED
      BY <3>1, NextStanding
<1>6. Standing'
  BY NextStanding
<1> QED
  BY <1>0, <1>2, <1>3, <1>4, <1>5, <1>6 DEF Next

\* When no two calls run at once.
THEOREM SerialInvariant == Spec => [](Alone => Standing /\ Serial)
<1> DEFINE SInv == IInv /\ (Alone => Standing /\ Serial)
<1>1. Init => SInv
  BY InitIInv, InitSerial
<1>2. SInv /\ [Next]_vars => SInv'
  <2> SUFFICES ASSUME SInv, [Next]_vars
               PROVE  SInv'
    OBVIOUS
  <2>1. IInv'
    BY NextIInv
  <2>2. Alone' => Alone
    BY <2>1 DEF Alone, IInv, TypeOK
  <2>3. Alone' => Standing' /\ Serial'
    BY <2>2, NextSerial DEF SerialInv
  <2> QED
    BY <2>1, <2>3
<1>3. SInv => (Alone => Standing /\ Serial)
  OBVIOUS
<1> QED
  BY <1>1, <1>2, <1>3, PTL DEF Spec

\* No unique index ever refuses what a call writes when nothing else runs,
\* whatever gaps deleted tasks have left: new positions are behind those in use,
\* temporary ones before them all, final ones in cells whose old places are all
\* temporary.  Nor does the foreign key.
THEOREM SerialNeverCollidesCorrect == Spec => []SerialNeverCollides
<1>1. IInv /\ (Alone => Standing /\ Serial) => SerialNeverCollides
  BY NoCollision DEF SerialNeverCollides, NeverCollides, SerialInv
<1> QED
  BY <1>1, Invariant, SerialInvariant, PTL

\* When nothing else runs a queue has cards of one project only, and a call that
\* does not die leaves no card in it whose task `update` moved out of QA Test.
THEOREM SerialCardsBelongCorrect == Spec => []SerialCardsBelong
<1>1. IInv /\ (Alone => Standing /\ Serial) => SerialCardsBelong
  <2> SUFFICES ASSUME IInv, Serial
               PROVE  OneProject /\ (fails = 0 => LeavingDrops)
    BY DEF SerialCardsBelong
  <2>1. OneProject
    BY DEF Serial, OneProjectIn, OneProject
  <2>2. fails = 0 => LeavingDrops
    BY DEF Serial, Leavers, LeavingDrops, Quiet
  <2> QED
    BY <2>1, <2>2
<1> QED
  BY <1>1, Invariant, SerialInvariant, PTL

\* When nothing else runs and no call dies, every listener has been sent its
\* queue in its order, among cards of tasks that have been deleted.
THEOREM SerialStreamsAgreeCorrect == Spec => []SerialStreamsAgree
<1>1. IInv /\ (Alone => Standing /\ Serial) => SerialStreamsAgree
  BY DEF SerialStreamsAgree, StreamsAgree, Serial, Streams, Quiet, Shows, ShowsIn
<1> QED
  BY <1>1, Invariant, SerialInvariant, PTL

-----------------------------------------------------------------------------
(* One call at a time: what a call is about to do                          *)

\* The cards of a queue are in one order in two tables.
SameOrder(table, other, u) ==
  \A s, t \in CardsIn(table, u) :
    table[<<u, s>>].pos < table[<<u, t>>].pos <=> other[<<u, s>>].pos < other[<<u, t>>].pos

\* The cards of a queue are of one project, which is not that of the new ones.
OtherProject(w) == \E t \in CardsIn(row, who[w]) : Project[t] # Project[list[w][1]]

\* New cards are going to be behind the others, or instead of them.
Adding(w) ==
  LET u == who[w]
      Behind == \A t \in CardsIn(row, u) :
                  /\ t \notin ToSet(list[w]) /\ Project[t] = Project[list[w][1]]
                  /\ See(w)[<<u, t>>] = row[<<u, t>>] /\ row[<<u, t>>].pos < base[w]
  IN  op[w] = "add" =>
        /\ pc[w] \in {"wipe", "insert", "reply"} =>
             list[w] # <<>> /\ \A i, j \in DOMAIN list[w] : list[w][i] = list[w][j] => i = j
        /\ pc[w] = "wipe" => OtherProject(w)
        /\ pc[w] = "insert" =>
             \/ Behind /\ CardsIn(See(w), u) = CardsIn(row, u)
             \/ OtherProject(w) /\ CardsIn(See(w), u) = {}
        /\ pc[w] = "reply" =>
             /\ \A i \in DOMAIN list[w] : See(w)[<<u, list[w][i]>>].pos = base[w] - 1 + i
             /\ \/ Behind /\ CardsIn(See(w), u) = CardsIn(row, u) \cup ToSet(list[w])
                \/ OtherProject(w) /\ CardsIn(See(w), u) = ToSet(list[w])

\* One card is going to be gone from a queue, or from all of them.
Removing(w) ==
  /\ pc[w] = "delete" => /\ list[w] # <<>> /\ row[<<who[w], list[w][1]>>] # NoRow
                         /\ ToSet(list[w]) = {list[w][1]}
                         /\ row[<<who[w], list[w][1]>>].id = seen[w][list[w][1]]
  /\ op[w] = "remove" /\ pc[w] \in {"reread", "save1", "save2", "reply"} =>
       \E t \in CardsIn(row, who[w]) : CardsIn(See(w), who[w]) = CardsIn(row, who[w]) \ {t}
  /\ op[w] = "leave" /\ pc[w] \in {"reread", "save1", "save2", "reply"} =>
       \E t \in Task : \A u \in User : CardsIn(See(w), u) = CardsIn(row, u) \ {t}

\* The other cards stay in order, whatever positions they have.
Keeping(w) ==
  op[w] \in {"remove", "leave"} =>
    /\ pc[w] \in {"reread", "reply"} => \A u \in User : SameOrder(See(w), row, u)
    /\ pc[w] \in {"save1", "save2"} =>
         /\ \A u \in User \ {who[w]} : SameOrder(See(w), row, u)
         /\ \A i, j \in DOMAIN list[w] :
              i < j <=> row[<<who[w], list[w][i]>>].pos < row[<<who[w], list[w][j]>>].pos

\* The same cards are going to be in another order.
Reordering(w) ==
  op[w] = "reorder" /\ pc[w] \in {"save1", "save2", "reply"} =>
    CardsIn(See(w), who[w]) = CardsIn(row, who[w])

Intent(w) ==
  /\ pc[w] \notin {"idle", "tell", "emit"} => op[w] # "clear"
  /\ pc[w] = "reread" => op[w] \in {"remove", "leave"}
  /\ pc[w] \in {"save1", "save2"} => op[w] \in {"remove", "reorder", "leave"}
  /\ Adding(w) /\ Removing(w) /\ Keeping(w) /\ Reordering(w)

-----------------------------------------------------------------------------
(* The order of a queue is one function of the table                       *)

\* Where positions differ, there is an order: by the number of cards before each.
LEMMA SomeOrder ==
  ASSUME NEW table, NEW u, \A x \in Task : table[<<u, x>>].pos \in Int,
         \A x, y \in CardsIn(table, u) :
           x # y => table[<<u, x>>].pos # table[<<u, y>>].pos
  PROVE  \E s \in Selections(table, u) : TRUE
<1> DEFINE S == CardsIn(table, u)
           n == Cardinality(S)
           pos(x) == table[<<u, x>>].pos
           Below(x) == { y \in S : pos(y) < pos(x) }
           rank == [x \in S |-> Cardinality(Below(x)) + 1]
           s == [i \in 1 .. n |-> CHOOSE x \in S : rank[x] = i]
<1>1. IsFiniteSet(S) /\ n \in Nat /\ \A x \in S : pos(x) \in Int
  BY CardsFinite, FS_CardinalityType
<1>2. \A x, y \in S : x # y => pos(x) # pos(y)
  OBVIOUS
<1>a. /\ s \in SetToSeqs(S)
      /\ \A i, j \in DOMAIN s : i < j => pos(s[i]) <= pos(s[j])
  <2> HIDE DEF S, pos, s
  <2>1. ASSUME NEW x \in S
        PROVE  IsFiniteSet(Below(x)) /\ Cardinality(Below(x)) \in Nat
    BY <1>1, FS_Subset, FS_CardinalityType
  <2>2. ASSUME NEW x \in S, NEW y \in S, pos(x) < pos(y)
        PROVE  rank[x] < rank[y]
    <3>1. Below(x) \subseteq Below(y) /\ x \in Below(y) /\ x \notin Below(x)
      BY <1>1, <2>2
    <3>2. Cardinality(Below(x)) <= Cardinality(Below(y)) /\ Cardinality(Below(x)) # Cardinality(Below(y))
      BY <2>1, <3>1, FS_Subset
    <3> HIDE DEF Below
    <3> QED
      BY <2>1, <3>2
  <2>3. ASSUME NEW x \in S
        PROVE  rank[x] \in 1 .. n
    <3>1. Below(x) \subseteq S /\ x \notin Below(x)
      BY <1>1
    <3>2. Cardinality(Below(x)) <= n /\ Cardinality(Below(x)) # n
      BY <1>1, <3>1, FS_Subset
    <3> HIDE DEF Below
    <3> QED
      BY <1>1, <2>1, <3>2
  <2>4. \A x, y \in S : rank[x] = rank[y] => x = y
    <3> SUFFICES ASSUME NEW x \in S, NEW y \in S, rank[x] = rank[y], x # y
                 PROVE  FALSE
      OBVIOUS
    <3>1. pos(x) < pos(y) \/ pos(y) < pos(x)
      BY <1>1, <1>2
    <3>2. rank[x] < rank[y] \/ rank[y] < rank[x]
      BY <2>2, <3>1
    <3>3. rank[x] \in Nat /\ rank[y] \in Nat
      BY <1>1, <2>3
    <3> HIDE DEF rank
    <3> QED
      BY <3>2, <3>3
  <2>5. rank \in [S -> 1 .. n]
    BY <2>3
  <2> HIDE DEF rank
  <2>6. rank \in Injection(S, 1 .. n)
    BY <2>4, <2>5 DEF Injection, IsInjective
  <2>7. IsFiniteSet(1 .. n) /\ Cardinality(1 .. n) = n
    <3> HIDE DEF n
    <3> QED
      BY <1>1, FS_Interval
  <2>8. rank \in Surjection(S, 1 .. n)
    BY <1>1, <2>6, <2>7, FS_Injection
  <2>9. \A i \in 1 .. n : \E x \in S : rank[x] = i
    BY <2>8 DEF Surjection
  <2> HIDE DEF n
  <2>10. ASSUME NEW i \in 1 .. n
         PROVE  s[i] \in S /\ rank[s[i]] = i
    BY <2>9 DEF s
  <2>11. s \in [1 .. n -> S]
    BY <2>10 DEF s
  <2>12. \A i, j \in 1 .. n : i # j => s[i] # s[j]
    BY <2>10
  <2>13. s \in SetToSeqs(S)
    BY <2>11, <2>12 DEF SetToSeqs, n
  <2>14. ASSUME NEW i \in 1 .. n, NEW j \in 1 .. n, i < j
         PROVE  pos(s[i]) <= pos(s[j])
    <3>1. s[i] \in S /\ s[j] \in S /\ pos(s[i]) \in Int /\ pos(s[j]) \in Int
      BY <1>1, <2>10
    <3>2. SUFFICES ASSUME pos(s[j]) < pos(s[i]) PROVE FALSE
      BY <3>1
    <3>3. rank[s[j]] < rank[s[i]]
      BY <2>2, <3>1, <3>2
    <3> QED
      BY <2>10, <2>14, <3>3
  <2>15. DOMAIN s = 1 .. n
    BY <2>11
  <2> QED
    BY <2>13, <2>14, <2>15
<1> HIDE DEF s
<1> QED
  BY <1>a DEF Selections

\* A table with one project in a queue and no two cards in one place.
Sound(table) == table \in [Cell -> Row] /\ OneProjectIn(table) /\ InOrder(table)

OrderIn(table, u) == CHOOSE s \in Selections(table, u) : TRUE

LEMMA OrderOf ==
  ASSUME NEW table, Sound(table), NEW u \in User
  PROVE  /\ OrderIn(table, u) \in Selections(table, u)
         /\ \A s \in Selections(table, u) : s = OrderIn(table, u)
         /\ \A x \in Task : table[<<u, x>>].pos \in Int
         /\ \A x, y \in CardsIn(table, u) : x # y => table[<<u, x>>].pos # table[<<u, y>>].pos
<1>1. \A x \in Task : table[<<u, x>>].pos \in Int
  BY DEF Sound, Cell, Row
<1>2. ASSUME NEW x \in CardsIn(table, u), NEW y \in CardsIn(table, u), x # y
      PROVE  table[<<u, x>>].pos # table[<<u, y>>].pos
  <2>1. Project[x] = Project[y]
    BY DEF Sound, OneProjectIn
  <2>2. <<u, x>> \in Cell /\ <<u, y>> \in Cell /\ SameIndex(<<u, x>>, <<u, y>>)
    BY <1>2, <2>1 DEF SameIndex, Cell, CardsIn
  <2> QED
    BY <2>2 DEF Sound, InOrder, Apart, CardsIn
<1>3. \E s \in Selections(table, u) : TRUE
  BY <1>1, <1>2, SomeOrder
<1>4. OrderIn(table, u) \in Selections(table, u)
  BY <1>3 DEF OrderIn
<1>5. \A s \in Selections(table, u) : s = OrderIn(table, u)
  BY <1>1, <1>2, <1>4, OneOrder
<1> QED
  BY <1>1, <1>2, <1>4, <1>5

\* What is in a selection.
LEMMA SelectionIs ==
  ASSUME NEW table, Sound(table), NEW u \in User, NEW s \in Selections(table, u)
  PROVE  /\ s \in Seq(Task) /\ Len(s) \in Nat /\ DOMAIN s = 1 .. Len(s)
         /\ ToSet(s) = CardsIn(table, u)
         /\ \A i \in 1 .. Len(s) : s[i] \in CardsIn(table, u)
         /\ \A i, j \in 1 .. Len(s) : s[i] = s[j] => i = j
         /\ \A i, j \in 1 .. Len(s) : i < j <=> table[<<u, s[i]>>].pos < table[<<u, s[j]>>].pos
<1>1. /\ s \in SetToSeqs(CardsIn(table, u))
      /\ \A i, j \in DOMAIN s : i < j => table[<<u, s[i]>>].pos <= table[<<u, s[j]>>].pos
  BY DEF Selections
<1>2. s \in Seq(Task) /\ Len(s) \in Nat /\ DOMAIN s = 1 .. Len(s)
  BY <1>1, SelectionTyped
<1>3. ToSet(s) = CardsIn(table, u) /\ \A i, j \in 1 .. Len(s) : s[i] = s[j] => i = j
  BY <1>1, CardsFinite, SequencesOf
<1>4. \A i \in 1 .. Len(s) : s[i] \in CardsIn(table, u) /\ s[i] \in Task
  BY <1>2, <1>3 DEF ToSet
<1>5. ASSUME NEW i \in 1 .. Len(s), NEW j \in 1 .. Len(s)
      PROVE  i < j <=> table[<<u, s[i]>>].pos < table[<<u, s[j]>>].pos
  <2> DEFINE p == table[<<u, s[i]>>].pos
             q == table[<<u, s[j]>>].pos
  <2>1. p \in Int /\ q \in Int
    BY <1>4, OrderOf
  <2>2. i # j => p # q
    BY <1>3, <1>4, OrderOf
  <2>3. (i < j => p <= q) /\ (j < i => q <= p) /\ (i = j => p = q)
    BY <1>1, <1>2
  <2> HIDE DEF p, q
  <2>4. i \in Int /\ j \in Int
    BY <1>2
  <2>5. i < j <=> p < q
    BY <2>1, <2>2, <2>3, <2>4
  <2> QED
    BY <2>5 DEF p, q
<1> QED
  BY <1>2, <1>3, <1>4, <1>5

\* A sequence with one element removed.
LEMMA RemoveAtIs ==
  ASSUME NEW S, NEW s \in Seq(S), NEW k \in 1 .. Len(s)
  PROVE  /\ RemoveAt(s, k) \in Seq(S) /\ Len(RemoveAt(s, k)) = Len(s) - 1
         /\ \A i \in 1 .. Len(s) - 1 : RemoveAt(s, k)[i] = s[IF i < k THEN i ELSE i + 1]
<1> DEFINE a == SubSeq(s, 1, k - 1)
           b == SubSeq(s, k + 1, Len(s))
<1>1. a \in Seq(S) /\ Len(a) = k - 1 /\ \A i \in 1 .. k - 1 : a[i] = s[i]
  OBVIOUS
<1>2. b \in Seq(S) /\ Len(b) = Len(s) - k /\ \A i \in 1 .. Len(s) - k : b[i] = s[k + i]
  OBVIOUS
<1>3. RemoveAt(s, k) = a \o b
  BY DEF RemoveAt
<1> HIDE DEF a, b
<1>4. /\ a \o b \in Seq(S) /\ Len(a \o b) = Len(s) - 1
      /\ \A i \in 1 .. Len(s) - 1 : (a \o b)[i] = IF i <= k - 1 THEN a[i] ELSE b[i - (k - 1)]
  <2>1. /\ a \o b \in Seq(S) /\ Len(a \o b) = Len(a) + Len(b)
        /\ \A i \in 1 .. Len(a) + Len(b) :
             (a \o b)[i] = IF i <= Len(a) THEN a[i] ELSE b[i - Len(a)]
    BY <1>1, <1>2, ConcatProperties, Zenon
  <2>2. Len(a) + Len(b) = Len(s) - 1 /\ Len(a) = k - 1
    BY <1>1, <1>2
  <2> QED
    BY <2>1, <2>2
<1>5. ASSUME NEW i \in 1 .. Len(s) - 1
      PROVE  (a \o b)[i] = s[IF i < k THEN i ELSE i + 1]
  <2>1. CASE i < k
    BY <1>1, <1>4, <2>1
  <2>2. CASE ~(i < k)
    <3>1. i - (k - 1) \in 1 .. Len(s) - k /\ k + (i - (k - 1)) = i + 1
      BY <2>2
    <3>2. (a \o b)[i] = b[i - (k - 1)]
      BY <1>4, <2>2
    <3> QED
      BY <1>2, <2>2, <3>1, <3>2
  <2> QED
    BY <2>1, <2>2
<1> QED
  BY <1>3, <1>4, <1>5

\* What PersonalQueue says, in the operators of this module.
LEMMA PromiseIs ==
  ASSUME NEW s, NEW t
  PROVE  /\ Promise!Without(s, t) =
              IF t \in ToSet(s) THEN RemoveAt(s, CHOOSE i \in DOMAIN s : s[i] = t) ELSE s
         /\ Promise!ToSet(s) = ToSet(s) /\ Promise!SetToSeqs(s) = SetToSeqs(s)
<1>1. Promise!ToSet(s) = ToSet(s)
  BY DEF Promise!ToSet, ToSet
<1>2. \A k : Promise!RemoveAt(s, k) = RemoveAt(s, k)
  BY DEF Promise!RemoveAt, RemoveAt
<1>3. Promise!SetToSeqs(s) = SetToSeqs(s)
  <2>1. Promise!Cardinality(s) = Cardinality(s)
    BY DEF Promise!Cardinality, Cardinality
  <2> QED
    BY <2>1 DEF Promise!SetToSeqs, SetToSeqs
<1> QED
  BY <1>1, <1>2, <1>3 DEF Promise!Without

\* Where one card is gone and the others are in the order they had, the queue is
\* what it was without the card.
LEMMA WithoutIs ==
  ASSUME NEW table, Sound(table), NEW other, Sound(other), NEW u \in User, NEW t,
         CardsIn(other, u) = CardsIn(table, u) \ {t}, SameOrder(other, table, u)
  PROVE  OrderIn(other, u) = Promise!Without(OrderIn(table, u), t)
<1> DEFINE s == OrderIn(table, u)
           r == Promise!Without(s, t)
           n == Len(s)
<1>1. s \in Selections(table, u)
  BY OrderOf
<1>2. /\ s \in Seq(Task) /\ n \in Nat /\ DOMAIN s = 1 .. n /\ ToSet(s) = CardsIn(table, u)
      /\ \A i \in 1 .. n : s[i] \in CardsIn(table, u)
      /\ \A i, j \in 1 .. n : s[i] = s[j] => i = j
      /\ \A i, j \in 1 .. n : i < j => table[<<u, s[i]>>].pos < table[<<u, s[j]>>].pos
  BY <1>1, SelectionIs
<1> HIDE DEF s
<1>3. /\ r \in Seq(Task)
      /\ \A i \in 1 .. Len(r) : \E k \in 1 .. n : r[i] = s[k] /\ s[k] # t
      /\ \A x \in ToSet(s) \ {t} : \E i \in 1 .. Len(r) : r[i] = x
      /\ \A i, j \in 1 .. Len(r) : i < j => \E k, l \in 1 .. n : k < l /\ r[i] = s[k] /\ r[j] = s[l]
  <2>1. CASE t \notin ToSet(s)
    <3>1. r = s
      BY <2>1, PromiseIs
    <3>2. \A x \in ToSet(s) : \E i \in 1 .. n : s[i] = x
      BY <1>2 DEF ToSet
    <3>3. \A i \in 1 .. n : s[i] # t
      BY <1>2, <2>1 DEF ToSet
    <3> QED
      BY <1>2, <3>1, <3>2, <3>3
  <2>2. CASE t \in ToSet(s)
    <3> DEFINE k == CHOOSE i \in DOMAIN s : s[i] = t
    <3>1. k \in 1 .. n /\ s[k] = t
      BY <1>2, <2>2 DEF ToSet
    <3>2. r = RemoveAt(s, k)
      BY <2>2, PromiseIs
    <3> HIDE DEF k, r
    <3>3. /\ r \in Seq(Task) /\ Len(r) = n - 1
          /\ \A i \in 1 .. n - 1 : r[i] = s[IF i < k THEN i ELSE i + 1]
      <4> HIDE DEF n
      <4>1. k \in 1 .. Len(s)
        BY <3>1 DEF n
      <4>2. /\ RemoveAt(s, k) \in Seq(Task) /\ Len(RemoveAt(s, k)) = Len(s) - 1
            /\ \A i \in 1 .. Len(s) - 1 : RemoveAt(s, k)[i] = s[IF i < k THEN i ELSE i + 1]
        BY <1>2, <4>1, RemoveAtIs
      <4> QED
        BY <3>2, <4>2 DEF n
    <3> HIDE DEF n
    <3>4. ASSUME NEW i \in 1 .. n - 1
          PROVE  \E j \in 1 .. n : r[i] = s[j] /\ s[j] # t
      <4>1. (IF i < k THEN i ELSE i + 1) \in 1 .. n /\ (IF i < k THEN i ELSE i + 1) # k
        BY <1>2, <3>1
      <4> QED
        BY <1>2, <3>1, <3>3, <4>1
    <3>5. ASSUME NEW x \in ToSet(s) \ {t}
          PROVE  \E i \in 1 .. n - 1 : r[i] = x
      <4>1. PICK j \in 1 .. n : s[j] = x
        BY <1>2 DEF ToSet
      <4>2. j # k
        BY <3>1, <4>1
      <4>3. CASE j < k
        <5>1. j \in 1 .. n - 1
          BY <1>2, <3>1, <4>3
        <5> QED
          BY <3>3, <4>1, <4>3, <5>1
      <4>4. CASE k < j
        <5>1. j - 1 \in 1 .. n - 1 /\ ~(j - 1 < k) /\ (j - 1) + 1 = j
          BY <1>2, <3>1, <4>4
        <5>2. r[j - 1] = s[j]
          BY <3>3, <5>1
        <5> QED
          BY <4>1, <5>1, <5>2
      <4> QED
        BY <1>2, <3>1, <4>2, <4>3, <4>4
    <3>6. ASSUME NEW i \in 1 .. n - 1, NEW j \in 1 .. n - 1, i < j
          PROVE  \E l, m \in 1 .. n : l < m /\ r[i] = s[l] /\ r[j] = s[m]
      <4> DEFINE l == IF i < k THEN i ELSE i + 1
                 m == IF j < k THEN j ELSE j + 1
      <4>1. l \in 1 .. n /\ m \in 1 .. n /\ l < m
        BY <1>2, <3>1, <3>6
      <4>2. r[i] = s[l] /\ r[j] = s[m]
        BY <3>3
      <4> QED
        BY <4>1, <4>2
    <3> QED
      BY <3>3, <3>4, <3>5, <3>6
  <2> QED
    BY <2>1, <2>2
<1> HIDE DEF r, n
<1>4. \A i \in 1 .. Len(r) : r[i] \in CardsIn(other, u)
  BY <1>2, <1>3
<1>5. \A x \in CardsIn(other, u) : \E i \in 1 .. Len(r) : r[i] = x
  BY <1>2, <1>3
<1>6. \A i, j \in 1 .. Len(r) : i < j => table[<<u, r[i]>>].pos < table[<<u, r[j]>>].pos
  BY <1>2, <1>3
<1>7. \A i, j \in 1 .. Len(r) : i < j => other[<<u, r[i]>>].pos < other[<<u, r[j]>>].pos
  BY <1>4, <1>6 DEF SameOrder
<1>8. \A x \in Task : other[<<u, x>>].pos \in Int
  BY OrderOf
<1>9. \A i \in 1 .. Len(r) : other[<<u, r[i]>>].pos \in Int
  BY <1>4, <1>8 DEF CardsIn
<1>10. Len(r) \in Nat /\ DOMAIN r = 1 .. Len(r)
  BY <1>3
<1>11. \A i, j \in 1 .. Len(r) : r[i] = r[j] => i = j
  <2> SUFFICES ASSUME NEW i \in 1 .. Len(r), NEW j \in 1 .. Len(r), r[i] = r[j], i # j
               PROVE  FALSE
    OBVIOUS
  <2>1. i < j \/ j < i
    BY <1>10
  <2>2. other[<<u, r[i]>>].pos < other[<<u, r[j]>>].pos \/ other[<<u, r[j]>>].pos < other[<<u, r[i]>>].pos
    BY <1>7, <2>1
  <2> QED
    BY <1>9, <2>2
<1>12. r \in Seq(CardsIn(other, u))
  BY <1>3, <1>4, <1>10
<1>13. r \in SetToSeqs(CardsIn(other, u))
  BY <1>5, <1>11, <1>12, SequencesAre
<1>14. \A i, j \in DOMAIN r : i < j => other[<<u, r[i]>>].pos <= other[<<u, r[j]>>].pos
  BY <1>7, <1>9, <1>10
<1>15. r \in Selections(other, u)
  BY <1>13, <1>14 DEF Selections
<1> QED
  BY <1>15, OrderOf DEF r, s

\* A sequence of the cards of a queue in the order of their positions is the queue.
LEMMA OrderIs ==
  ASSUME NEW table, Sound(table), NEW u \in User, NEW r \in Seq(Task),
         \A i \in 1 .. Len(r) : r[i] \in CardsIn(table, u),
         \A x \in CardsIn(table, u) : \E i \in 1 .. Len(r) : r[i] = x,
         \A i, j \in 1 .. Len(r) : i < j => table[<<u, r[i]>>].pos < table[<<u, r[j]>>].pos
  PROVE  OrderIn(table, u) = r
<1>1. Len(r) \in Nat /\ DOMAIN r = 1 .. Len(r)
  OBVIOUS
<1>2. \A i \in 1 .. Len(r) : table[<<u, r[i]>>].pos \in Int
  BY OrderOf DEF CardsIn
<1>3. \A i, j \in 1 .. Len(r) : r[i] = r[j] => i = j
  <2> SUFFICES ASSUME NEW i \in 1 .. Len(r), NEW j \in 1 .. Len(r), r[i] = r[j], i # j
               PROVE  FALSE
    OBVIOUS
  <2>1. i < j \/ j < i
    BY <1>1
  <2>2. table[<<u, r[i]>>].pos < table[<<u, r[j]>>].pos \/ table[<<u, r[j]>>].pos < table[<<u, r[i]>>].pos
    BY <2>1
  <2> QED
    BY <1>2, <2>2
<1>4. r \in Seq(CardsIn(table, u))
  BY <1>1
<1>5. r \in SetToSeqs(CardsIn(table, u))
  BY <1>3, <1>4, SequencesAre
<1>6. \A i, j \in DOMAIN r : i < j => table[<<u, r[i]>>].pos <= table[<<u, r[j]>>].pos
  BY <1>1, <1>2
<1> QED
  BY <1>5, <1>6, OrderOf DEF Selections

-----------------------------------------------------------------------------
(* Calls do what they set out to do                                        *)

\* A call that has not written yet, or has committed, owes nothing.
LEMMA NothingIntended ==
  ASSUME NEW w \in Worker,
         \/ pc'[w] \in {"idle", "tell", "emit"}
         \/ pc'[w] \in {"affected", "drop"} /\ op'[w] = "leave"
  PROVE  Intent(w)'
BY DEF Intent, Adding, Removing, Keeping, Reordering

\* Adding reads the cards of one project: those in the queue stay, or are to be wiped.
LEMMA AddReadIntent ==
  ASSUME SerialInv, NEW w, Only(w), IInv', Serial', NEW u \in User,
         NEW cards \in SetToAllKPermutations(Task) \ {<<>>}, AddRead(w, u, cards)
  PROVE  Intent(w)'
<1>0. w \in Worker /\ TypeOK
  BY SerialFacts DEF Only
<1>1. PICK existing \in Selections(row, u) :
        Goto(w, IF Replaces(u, existing, cards) THEN "wipe" ELSE "insert")
  BY DEF AddRead
<1>2. /\ pc[w] = "idle" /\ op' = [op EXCEPT ![w] = "add"] /\ who' = [who EXCEPT ![w] = u]
      /\ list' = [list EXCEPT ![w] = cards] /\ UNCHANGED <<row, wrote, mine>>
  BY DEF AddRead
<1>3. /\ op'[w] = "add" /\ who'[w] = u /\ list'[w] = cards
      /\ pc'[w] = IF Replaces(u, existing, cards) THEN "wipe" ELSE "insert"
  BY <1>0, <1>1, <1>2 DEF TypeOK, Goto
<1>4. See(w)' = row
  <2>1. See(w)' = See(w)
    BY <1>2 DEF See
  <2> QED
    BY <1>2, <2>1, BeforeCall
<1>5. cards \in Seq(Task) /\ cards # <<>> /\ \A i, j \in DOMAIN cards : cards[i] = cards[j] => i = j
  <2>1. PICK S \in SUBSET Task : cards \in SetToSeqs(S)
    BY DEF SetToAllKPermutations
  <2>2. IsFiniteSet(S)
    BY FS_Subset, QueueAssumption
  <2>3. \A i, j \in 1 .. Len(cards) : cards[i] = cards[j] => i = j
    BY <2>1, <2>2, SequencesOf
  <2> QED
    BY <2>3, CardsTyped
<1>6. ASSUME Replaces(u, existing, cards)
      PROVE  OtherProject(w)'
  <2>1. existing # <<>> /\ Project[existing[1]] # Project[cards[1]]
    BY <1>6 DEF Replaces
  <2>2. existing \in Seq(CardsIn(row, u))
    BY ListTyped
  <2>3. existing[1] \in CardsIn(row, u)
    BY <2>1, <2>2
  <2> QED
    BY <1>2, <1>3, <2>1, <2>3 DEF OtherProject, CardsIn
<1>7. ASSUME ~Replaces(u, existing, cards)
      PROVE  \A t \in CardsIn(row, u) :
               /\ t \notin ToSet(cards) /\ Project[t] = Project[cards[1]]
               /\ row[<<u, t>>].pos < base'[w]
  <2>1. Fits(w)'
    BY <1>0 DEF Serial
  <2>2. pc'[w] = "insert"
    BY <1>3, <1>7
  <2>3. \A t \in Task : row[<<u, t>>] # NoRow =>
          /\ t \notin ToSet(cards) /\ row[<<u, t>>].pos < base'[w]
          /\ Project[t] = Project[cards[1]]
    BY <1>3, <1>4, <2>1, <2>2 DEF Fits
  <2> QED
    BY <2>3 DEF CardsIn
<1>8. Adding(w)'
  BY <1>2, <1>3, <1>4, <1>5, <1>6, <1>7 DEF Adding, CardsIn
<1>9. Removing(w)' /\ Keeping(w)' /\ Reordering(w)'
  BY <1>3 DEF Removing, Keeping, Reordering
<1> QED
  BY <1>3, <1>8, <1>9 DEF Intent

\* The row found for the card is the one to delete.
LEMMA RemoveReadIntent ==
  ASSUME SerialInv, NEW w, Only(w), NEW u \in User, NEW t \in Task, RemoveRead(w, u, t)
  PROVE  Intent(w)'
<1>0. w \in Worker /\ TypeOK
  BY SerialFacts DEF Only
<1>1. /\ row[<<u, t>>] # NoRow /\ pc' = [pc EXCEPT ![w] = "delete"]
      /\ op' = [op EXCEPT ![w] = "remove"] /\ who' = [who EXCEPT ![w] = u]
      /\ list' = [list EXCEPT ![w] = <<t>>]
      /\ seen' = [seen EXCEPT ![w] = [Unseen EXCEPT ![t] = row[<<u, t>>].id]]
      /\ UNCHANGED row
  BY DEF RemoveRead, Goto
<1>2. /\ pc'[w] = "delete" /\ op'[w] = "remove" /\ who'[w] = u /\ list'[w] = <<t>>
      /\ seen'[w] = [Unseen EXCEPT ![t] = row[<<u, t>>].id]
  BY <1>0, <1>1 DEF TypeOK
<1>3. seen'[w][t] = row[<<u, t>>].id
  BY <1>2 DEF Unseen
<1>4. ToSet(list'[w]) = {t}
  BY <1>2 DEF ToSet
<1>5. Removing(w)'
  BY <1>1, <1>2, <1>3, <1>4 DEF Removing
<1>6. Adding(w)' /\ Keeping(w)' /\ Reordering(w)'
  BY <1>2 DEF Adding, Keeping, Reordering
<1> QED
  BY <1>2, <1>5, <1>6 DEF Intent

\* A full list of the cards, or a card swapped with its neighbour, has the same cards.
LEMMA ReorderReadIntent ==
  ASSUME SerialInv, NEW w, Only(w), NEW u \in User, ReorderRead(w, u)
  PROVE  Intent(w)'
<1>0. w \in Worker /\ TypeOK
  BY SerialFacts DEF Only
<1>1. /\ pc[w] = "idle" /\ pc' = [pc EXCEPT ![w] = "save1"]
      /\ op' = [op EXCEPT ![w] = "reorder"] /\ UNCHANGED <<row, wrote, mine>>
  BY DEF ReorderRead, Goto
<1>2. pc'[w] = "save1" /\ op'[w] = "reorder"
  BY <1>0, <1>1 DEF TypeOK
<1>3. See(w)' = row'
  <2>1. See(w)' = See(w)
    BY <1>1 DEF See
  <2> QED
    BY <1>1, <2>1, BeforeCall
<1>4. Reordering(w)'
  BY <1>3 DEF Reordering, CardsIn
<1>5. Adding(w)' /\ Removing(w)' /\ Keeping(w)'
  BY <1>2 DEF Adding, Removing, Keeping
<1> QED
  BY <1>2, <1>4, <1>5 DEF Intent

\* The cards of another project go, all of them.
LEMMA WipeIntent ==
  ASSUME SerialInv, NEW w, Only(w), IInv', Serial', Intent(w), Wipe(w)
  PROVE  Intent(w)'
<1>0. w \in Worker /\ TypeOK /\ Course(w) /\ See(w) \in [Cell -> Row]
  BY SerialFacts DEF Only
<1> DEFINE new == EmptyQueue(who[w], See(w))
<1>1. /\ pc[w] = "wipe" /\ Put(w, new) /\ Goto(w, "insert")
      /\ UNCHANGED <<row, shown, op, who, list, seen, base, users, todo, nextId, leaves, fails, left, deleted>>
  BY DEF Wipe
<1>2. pc'[w] = "insert" /\ op'[w] = "add"
  BY <1>0, <1>1 DEF Goto, TypeOK, Course
<1>3. /\ DOMAIN new = {who[w]} \X CardsIn(See(w), who[w]) /\ DOMAIN new \subseteq Cell
      /\ \A c \in DOMAIN new : new[c] = NoRow
  BY <1>0 DEF EmptyQueue, CardsIn, Cell, TypeOK
<1> HIDE DEF new
<1>4. NoRow \in Row
  BY DEF NoRow, Row
<1>5. \A c \in Cell : See(w)'[c] = IF c \in DOMAIN new THEN NoRow ELSE See(w)[c]
  BY <1>0, <1>1, <1>3, <1>4, PutSee
<1>6. \A t \in Task : See(w)'[<<who[w], t>>] = NoRow
  BY <1>0, <1>3, <1>5 DEF CardsIn, Cell, TypeOK
<1>7. CardsIn(See(w)', who[w]) = {}
  BY <1>6 DEF CardsIn
<1>8. /\ list[w] # <<>> /\ \A i, j \in DOMAIN list[w] : list[w][i] = list[w][j] => i = j
      /\ OtherProject(w)
  BY <1>1, <1>2 DEF Intent, Adding
<1>9. OtherProject(w)'
  BY <1>1, <1>8 DEF OtherProject, CardsIn
<1>10. CardsIn(See(w), who[w])' = {}
  BY <1>1, <1>7 DEF CardsIn
<1>11. Adding(w)'
  BY <1>1, <1>2, <1>8, <1>9, <1>10 DEF Adding
<1>12. Removing(w)' /\ Keeping(w)' /\ Reordering(w)'
  BY <1>2 DEF Removing, Keeping, Reordering
<1> QED
  BY <1>2, <1>11, <1>12 DEF Intent

\* The new rows are behind the others, in the order of the request.
LEMMA InsertIntent ==
  ASSUME SerialInv, NEW w, Only(w), IInv', Serial', Intent(w), Insert(w)
  PROVE  Intent(w)'
<1>0. w \in Worker /\ TypeOK /\ Known /\ Course(w) /\ See(w) \in [Cell -> Row] /\ nextId \in Nat
      /\ list[w] \in Seq(Task) /\ base[w] \in Nat /\ who[w] \in User
  BY SerialFacts DEF Only, TypeOK
<1> DEFINE new == Created(w)
<1>1. pc[w] = "insert" /\ Pending(w) = new /\ Save(w, Pending(w), "reply")
  BY DEF Insert, Pending
<1>2. /\ Put(w, new) /\ Goto(w, "reply")
      /\ UNCHANGED <<row, shown, op, who, list, seen, base, users, todo, nextId, leaves, fails, left, deleted>>
  <2> HIDE DEF new
  <2> QED
    BY <1>0, <1>1, SaveDone
<1>3. op[w] = "add"
  BY <1>0, <1>1 DEF Course
<1>4. pc'[w] = "reply" /\ op'[w] = "add"
  BY <1>0, <1>2, <1>3 DEF Goto, TypeOK
<1>5. base[w] - 1 \in Int /\ 1 \in {1, -1}
  BY <1>0
<1>6. /\ DOMAIN new = {who[w]} \X ToSet(list[w]) /\ DOMAIN new \subseteq Cell
      /\ \A c \in DOMAIN new :
           /\ new[c] = [id |-> seen[w][c[2]], pos |-> (base[w] - 1) + 1 * Place(list[w], c[2])]
           /\ new[c] \in Row
  BY <1>0, <1>5, PlacedTyped DEF Created
<1> HIDE DEF new
<1>7. \A c \in Cell : See(w)'[c] = IF c \in DOMAIN new THEN new[c] ELSE See(w)[c]
  BY <1>0, <1>2, <1>6, PutSee
<1>8. /\ list[w] # <<>> /\ \A i, j \in DOMAIN list[w] : list[w][i] = list[w][j] => i = j
  BY <1>1, <1>3 DEF Intent, Adding
<1>9. ASSUME NEW i \in DOMAIN list[w]
      PROVE  /\ list[w][i] \in ToSet(list[w]) /\ Place(list[w], list[w][i]) = i
             /\ seen[w][list[w][i]] # 0
  <2>1. list[w][i] \in ToSet(list[w])
    BY DEF ToSet
  <2>2. Place(list[w], list[w][i]) = i
    BY <1>8 DEF Place
  <2>3. seen[w][list[w][i]] \in 1 .. nextId - 1
    BY <1>0, <1>1 DEF Known, Storing
  <2> QED
    BY <1>0, <2>1, <2>2, <2>3
<1>10. ASSUME NEW i \in DOMAIN list[w]
       PROVE  /\ See(w)'[<<who[w], list[w][i]>>].pos = base[w] - 1 + i
              /\ See(w)'[<<who[w], list[w][i]>>] # NoRow
  <2> DEFINE c == <<who[w], list[w][i]>>
  <2>1. c \in DOMAIN new /\ c \in Cell /\ c[2] = list[w][i]
    BY <1>6, <1>9
  <2>2. See(w)'[c] = [id |-> seen[w][list[w][i]], pos |-> (base[w] - 1) + 1 * i]
    BY <1>6, <1>7, <1>9, <2>1
  <2>3. i \in Int
    BY <1>0
  <2> QED
    BY <1>0, <1>9, <2>2, <2>3 DEF NoRow
<1>11. \A t \in Task : t \notin ToSet(list[w]) => See(w)'[<<who[w], t>>] = See(w)[<<who[w], t>>]
  BY <1>0, <1>6, <1>7 DEF Cell
<1>12. CardsIn(See(w)', who[w]) = CardsIn(See(w), who[w]) \cup ToSet(list[w])
  <2>1. ASSUME NEW t \in ToSet(list[w])
        PROVE  t \in Task /\ See(w)'[<<who[w], t>>] # NoRow
    <3>1. PICK i \in DOMAIN list[w] : list[w][i] = t
      BY DEF ToSet
    <3>2. t \in Task
      BY <1>0, <3>1
    <3> QED
      BY <1>10, <3>1, <3>2
  <2> QED
    BY <1>11, <2>1 DEF CardsIn
<1>13. CardsIn(See(w), who[w])' = CardsIn(See(w)', who[w]) /\ CardsIn(row, who[w])' = CardsIn(row, who[w])
  BY <1>2 DEF CardsIn
<1>14. OtherProject(w)' = OtherProject(w)
  BY <1>2 DEF OtherProject, CardsIn
<1>15. CASE /\ CardsIn(See(w), who[w]) = CardsIn(row, who[w])
            /\ \A t \in CardsIn(row, who[w]) :
                 /\ t \notin ToSet(list[w]) /\ Project[t] = Project[list[w][1]]
                 /\ See(w)[<<who[w], t>>] = row[<<who[w], t>>] /\ row[<<who[w], t>>].pos < base[w]
  <2>1. \A t \in CardsIn(row, who[w]) : See(w)'[<<who[w], t>>] = row[<<who[w], t>>]
    BY <1>11, <1>15 DEF CardsIn
  <2> QED
    <3>1. Adding(w)'
      BY <1>2, <1>4, <1>8, <1>10, <1>12, <1>13, <1>15, <2>1 DEF Adding
    <3>2. Removing(w)' /\ Keeping(w)' /\ Reordering(w)'
      BY <1>4 DEF Removing, Keeping, Reordering
    <3> QED
      BY <1>4, <3>1, <3>2 DEF Intent
<1>16. CASE OtherProject(w) /\ CardsIn(See(w), who[w]) = {}
  <2>1. Adding(w)'
    BY <1>2, <1>4, <1>8, <1>10, <1>12, <1>13, <1>14, <1>16 DEF Adding
  <2>2. Removing(w)' /\ Keeping(w)' /\ Reordering(w)'
    BY <1>4 DEF Removing, Keeping, Reordering
  <2> QED
    BY <1>4, <2>1, <2>2 DEF Intent
<1> QED
  BY <1>1, <1>3, <1>15, <1>16 DEF Intent, Adding

\* Deleting the row takes one card out of one queue.
LEMMA DeleteIntent ==
  ASSUME SerialInv, NEW w, Only(w), IInv', Serial', Intent(w), Delete(w)
  PROVE  Intent(w)'
<1>0. /\ w \in Worker /\ TypeOK /\ Course(w) /\ See(w) \in [Cell -> Row] /\ row \in [Cell -> Row]
      /\ \A c \in Cell : See(w)[c] = IF c \in wrote[w] THEN mine[w][c] ELSE row[c]
      /\ list[w] \in Seq(Task) /\ who[w] \in User
  BY SerialFacts DEF Only, TypeOK
<1> DEFINE new == Target(w)
           t == list[w][1]
<1>1. /\ pc[w] = "delete" /\ Put(w, new) /\ Goto(w, "reread")
      /\ UNCHANGED <<row, shown, op, who, list, seen, base, users, todo, nextId, leaves, fails, left, deleted>>
  BY DEF Delete
<1>2. /\ op[w] = "remove" /\ wrote[w] = {} /\ pc'[w] = "reread"
      /\ list[w] # <<>> /\ row[<<who[w], t>>] # NoRow /\ ToSet(list[w]) = {t}
      /\ row[<<who[w], t>>].id = seen[w][t]
  BY <1>0, <1>1 DEF Goto, TypeOK, Course, Intent, Removing
<1>3. t \in Task
  BY <1>0, <1>2
<1> HIDE DEF t
<1>4. DOMAIN new = {<<who[w], t>>} /\ DOMAIN new \subseteq Cell /\ \A c \in DOMAIN new : new[c] = NoRow
  <2>1. \A c : c \in {who[w]} \X {t} <=> c = <<who[w], t>>
    OBVIOUS
  <2>2. { d \in {who[w]} \X {t} : row[d].id = seen[w][d[2]] } = {<<who[w], t>>}
    BY <1>2, <2>1
  <2>3. new = [c \in {<<who[w], t>>} |-> NoRow]
    BY <1>2, <2>2 DEF Target
  <2>4. <<who[w], t>> \in Cell
    BY <1>0, <1>3 DEF Cell
  <2> HIDE DEF new
  <2> QED
    BY <2>3, <2>4
<1> HIDE DEF new
<1>5. NoRow \in Row
  BY DEF NoRow, Row
<1>6. \A c \in Cell : See(w)'[c] = IF c = <<who[w], t>> THEN NoRow ELSE row[c]
  <2>1. /\ DOMAIN new \subseteq Cell /\ \A c \in DOMAIN new : new[c] \in Row
        /\ row' = row
    BY <1>1, <1>4, <1>5
  <2>2. \A c \in Cell : See(w)'[c] = IF c \in DOMAIN new THEN new[c] ELSE See(w)[c]
    BY <1>0, <1>1, <2>1, PutSee
  <2> QED
    BY <1>0, <1>2, <1>4, <2>2
<1>7. /\ t \in CardsIn(row, who[w])
      /\ CardsIn(See(w)', who[w]) = CardsIn(row, who[w]) \ {t}
  BY <1>0, <1>2, <1>3, <1>6 DEF CardsIn, Cell
<1>8. ASSUME NEW u \in User, NEW x \in CardsIn(See(w)', u)
      PROVE  See(w)'[<<u, x>>] = row[<<u, x>>]
  BY <1>6 DEF CardsIn, Cell
<1>9. \A u \in User : SameOrder(See(w)', row, u)
  BY <1>8 DEF SameOrder
<1>10. /\ CardsIn(See(w), who[w])' = CardsIn(See(w)', who[w])
       /\ CardsIn(row, who[w])' = CardsIn(row, who[w])
  BY <1>1 DEF CardsIn
<1>11. Removing(w)'
  BY <1>1, <1>2, <1>7, <1>10 DEF Removing
<1>12. Keeping(w)'
  <2>1. \A u \in User : SameOrder(See(w), row, u)'
    BY <1>1, <1>9 DEF SameOrder, CardsIn
  <2> QED
    BY <1>2, <2>1 DEF Keeping
<1>13. Adding(w)' /\ Reordering(w)'
  BY <1>1, <1>2 DEF Adding, Reordering
<1> QED
  BY <1>1, <1>2, <1>11, <1>12, <1>13 DEF Intent

\* A card that leaves is taken out of every queue at once.
LEMMA DropIntent ==
  ASSUME SerialInv, NEW w, Only(w), IInv', Serial', Intent(w), Drop(w)
  PROVE  Intent(w)'
<1>0. /\ w \in Worker /\ TypeOK /\ Known /\ Course(w) /\ See(w) \in [Cell -> Row]
      /\ row \in [Cell -> Row]
      /\ \A c \in Cell : See(w)[c] = IF c \in wrote[w] THEN mine[w][c] ELSE row[c]
      /\ list[w] \in Seq(Task)
  BY SerialFacts DEF Only, TypeOK
<1> DEFINE new == Dropped(w)
           t == list[w][1]
<1>1. /\ pc[w] = "drop" /\ Put(w, new) /\ Goto(w, "reread")
      /\ UNCHANGED <<row, shown, op, who, list, seen, base, users, todo, nextId, leaves, fails, left, deleted>>
  BY DEF Drop
<1>2. op[w] = "leave" /\ wrote[w] = {} /\ pc'[w] = "reread" /\ list[w] # <<>>
  BY <1>0, <1>1 DEF Goto, TypeOK, Course, Known
<1>3. t \in Task
  BY <1>0, <1>2
<1> HIDE DEF t
<1>4. /\ DOMAIN new = Having(t) \X {t} /\ DOMAIN new \subseteq Cell
      /\ \A c \in DOMAIN new : new[c] = NoRow
  BY <1>3 DEF Dropped, Having, Cell, t
<1> HIDE DEF new
<1>5. NoRow \in Row
  BY DEF NoRow, Row
<1>6. \A c \in Cell : See(w)'[c] = IF c[2] = t THEN NoRow ELSE row[c]
  <2>1. \A c \in Cell : See(w)'[c] = IF c \in DOMAIN new THEN new[c] ELSE See(w)[c]
    BY <1>0, <1>1, <1>4, <1>5, PutSee
  <2>2. ASSUME NEW c \in Cell
        PROVE  See(w)'[c] = IF c[2] = t THEN NoRow ELSE row[c]
    <3>1. See(w)[c] = row[c] /\ c[1] \in User /\ c = <<c[1], c[2]>>
      BY <1>0, <1>2, CellParts
    <3>2. CASE c[2] = t /\ c[1] \in Having(t)
      BY <1>4, <2>1, <3>1, <3>2
    <3>3. CASE c[2] = t /\ c[1] \notin Having(t)
      <4>1. row[c] = NoRow
        BY <3>1, <3>3 DEF Having
      <4>2. c \notin DOMAIN new
        BY <1>4, <3>3
      <4> QED
        BY <2>1, <3>1, <3>3, <4>1, <4>2
    <3>4. CASE c[2] # t
      <4>1. c \notin DOMAIN new
        BY <1>4, <3>4
      <4> QED
        BY <2>1, <3>1, <3>4, <4>1
    <3> QED
      BY <3>2, <3>3, <3>4
  <2> QED
    BY <2>2
<1>7. \A u \in User : CardsIn(See(w)', u) = CardsIn(row, u) \ {t}
  BY <1>0, <1>6 DEF CardsIn, Cell
<1>8. ASSUME NEW u \in User, NEW x \in CardsIn(See(w)', u)
      PROVE  See(w)'[<<u, x>>] = row[<<u, x>>]
  BY <1>6 DEF CardsIn, Cell
<1>9. \A u \in User : SameOrder(See(w)', row, u)
  BY <1>8 DEF SameOrder
<1>10. \A u \in User : /\ CardsIn(See(w), u)' = CardsIn(See(w)', u)
                       /\ CardsIn(row, u)' = CardsIn(row, u)
  BY <1>1 DEF CardsIn
<1>11. Removing(w)'
  BY <1>1, <1>2, <1>3, <1>7, <1>10 DEF Removing
<1>12. Keeping(w)'
  <2>1. \A u \in User : SameOrder(See(w), row, u)'
    BY <1>1, <1>9 DEF SameOrder, CardsIn
  <2> QED
    BY <1>2, <2>1 DEF Keeping
<1>13. Adding(w)' /\ Reordering(w)'
  BY <1>1, <1>2 DEF Adding, Reordering
<1> QED
  BY <1>1, <1>2, <1>11, <1>12, <1>13 DEF Intent

\* What is read again is in the order it had.
LEMMA ReReadIntent ==
  ASSUME SerialInv, NEW w, Only(w), IInv', Serial', Intent(w), ReRead(w)
  PROVE  Intent(w)'
<1>0. /\ w \in Worker /\ TypeOK /\ Course(w) /\ See(w) \in [Cell -> Row] /\ OneProjectIn(See(w))
      /\ Orders /\ row \in [Cell -> Row] /\ OneProjectIn(row)
  BY SerialFacts DEF Only
<1>1. PICK u \in ReReadUsers(w) :
        /\ who' = [who EXCEPT ![w] = u]
        /\ \E s \in Selections(See(w), u) : list' = [list EXCEPT ![w] = s]
  BY DEF ReRead
<1>2. PICK s \in Selections(See(w), u) : list' = [list EXCEPT ![w] = s]
  BY <1>1
<1>3. /\ pc[w] = "reread" /\ pc' = [pc EXCEPT ![w] = "save1"]
      /\ UNCHANGED <<row, op, wrote, mine>>
  BY DEF ReRead, Goto
<1>4. /\ pc'[w] = "save1" /\ who'[w] = u /\ list'[w] = s /\ op'[w] = op[w]
      /\ op[w] \in {"remove", "leave"}
      /\ op[w] = "remove" => u = who[w]
  BY <1>0, <1>1, <1>2, <1>3 DEF TypeOK, Intent, ReReadUsers
<1>5. u \in User
  BY <1>0, <1>1 DEF ReReadUsers, TypeOK
<1>6. See(w)' = See(w)
  BY <1>3 DEF See
<1>7. \A x \in User : CardsIn(See(w), x)' = CardsIn(See(w), x) /\ CardsIn(row, x)' = CardsIn(row, x)
  BY <1>3, <1>6 DEF CardsIn
<1>8. \A x \in User : SameOrder(See(w), row, x)
  BY <1>3, <1>4 DEF Intent, Keeping
<1>9. Sound(See(w))
  BY <1>0 DEF Sound, Orders
<1>10. ASSUME NEW i \in DOMAIN s, NEW j \in DOMAIN s
       PROVE  i < j <=> row[<<u, s[i]>>].pos < row[<<u, s[j]>>].pos
  <2>1. /\ DOMAIN s = 1 .. Len(s) /\ s[i] \in CardsIn(See(w), u) /\ s[j] \in CardsIn(See(w), u)
        /\ i < j <=> See(w)[<<u, s[i]>>].pos < See(w)[<<u, s[j]>>].pos
    BY <1>5, <1>9, SelectionIs
  <2> QED
    BY <1>5, <1>8, <2>1 DEF SameOrder
<1>11. Keeping(w)'
  <2>1. \A x \in User : SameOrder(See(w), row, x)'
    BY <1>3, <1>6, <1>8 DEF SameOrder, CardsIn
  <2> QED
    BY <1>3, <1>4, <1>10, <2>1 DEF Keeping
<1>12. Removing(w)'
  BY <1>3, <1>4, <1>5, <1>7 DEF Removing, Intent
<1>13. Adding(w)' /\ Reordering(w)'
  BY <1>4 DEF Adding, Reordering
<1> QED
  BY <1>4, <1>11, <1>12, <1>13 DEF Intent

\* Storing positions leaves the cards of every queue, and the other queues.
LEMMA SaveKeepsCards ==
  ASSUME SerialInv, NEW w, Only(w), IInv', pc[w] \in {"save1", "save2"}, NEW new,
         DOMAIN new = {who[w]} \X ToSet(list[w]), DOMAIN new \subseteq Cell,
         \A c \in DOMAIN new : new[c] \in Row /\ new[c].id = seen[w][c[2]],
         Put(w, new), UNCHANGED row
  PROVE  /\ \A c \in Cell : See(w)'[c] = IF c \in DOMAIN new THEN new[c] ELSE See(w)[c]
         /\ \A u \in User : CardsIn(See(w), u)' = CardsIn(See(w), u) /\ CardsIn(row, u)' = CardsIn(row, u)
         /\ \A u \in User, t \in Task : u # who[w] => See(w)'[<<u, t>>] = See(w)[<<u, t>>]
         /\ CardsIn(See(w), who[w]) = ToSet(list[w])
<1>0. /\ w \in Worker /\ TypeOK /\ Known /\ Fits(w) /\ nextId \in Nat /\ who[w] \in User
  BY SerialFacts DEF Only, TypeOK
<1>1. \A c \in Cell : See(w)'[c] = IF c \in DOMAIN new THEN new[c] ELSE See(w)[c]
  BY <1>0, PutSee
<1>2. \A t \in Task : See(w)[<<who[w], t>>] # NoRow <=> t \in ToSet(list[w])
  BY <1>0 DEF Fits
<1>3. ASSUME NEW c \in DOMAIN new
      PROVE  new[c] # NoRow
  <2>1. seen[w][c[2]] \in 1 .. nextId - 1
    BY <1>0 DEF Known, Storing, ToSet
  <2> QED
    BY <1>0, <2>1 DEF NoRow
<1>4. \A u \in User, t \in Task : u # who[w] => See(w)'[<<u, t>>] = See(w)[<<u, t>>]
  BY <1>1 DEF Cell
<1>5. ASSUME NEW t \in Task
      PROVE  See(w)'[<<who[w], t>>] # NoRow <=> See(w)[<<who[w], t>>] # NoRow
  BY <1>0, <1>1, <1>2, <1>3 DEF Cell
<1>6. \A u \in User : CardsIn(See(w)', u) = CardsIn(See(w), u)
  BY <1>4, <1>5 DEF CardsIn
<1>7. \A u \in User : CardsIn(See(w), u)' = CardsIn(See(w), u) /\ CardsIn(row, u)' = CardsIn(row, u)
  BY <1>6 DEF CardsIn
<1>8. CardsIn(See(w), who[w]) = ToSet(list[w])
  <2>1. list[w] \in Seq(Task)
    BY <1>0 DEF TypeOK
  <2>2. ToSet(list[w]) \subseteq Task
    BY <2>1 DEF ToSet
  <2> QED
    BY <1>2, <2>2 DEF CardsIn
<1> QED
  BY <1>1, <1>4, <1>7, <1>8

\* ... and the order of the other queues.
LEMMA SaveIntent ==
  ASSUME SerialInv, NEW w, Only(w), IInv', Intent(w), pc[w] \in {"save1", "save2"}, NEW new,
         DOMAIN new = {who[w]} \X ToSet(list[w]), DOMAIN new \subseteq Cell,
         \A c \in DOMAIN new : new[c] \in Row /\ new[c].id = seen[w][c[2]],
         Put(w, new), NEW to \in {"save2", "reread", "reply"}, Goto(w, to),
         UNCHANGED <<row, shown, op, who, list, seen, base, users, todo, nextId, leaves, fails, left, deleted>>,
         to = "reread" => op[w] = "leave",
         op[w] \in {"remove", "leave"} /\ to # "save2" => SameOrder(See(w)', row, who[w])
  PROVE  Intent(w)'
<1>0. w \in Worker /\ TypeOK /\ who[w] \in User
  BY SerialFacts DEF Only, TypeOK
<1>1. pc'[w] = to /\ op'[w] = op[w] /\ op[w] \in {"remove", "reorder", "leave"}
  BY <1>0 DEF Goto, TypeOK, Intent
<1>2. /\ \A u \in User : CardsIn(See(w), u)' = CardsIn(See(w), u) /\ CardsIn(row, u)' = CardsIn(row, u)
      /\ \A u \in User, t \in Task : u # who[w] => See(w)'[<<u, t>>] = See(w)[<<u, t>>]
  BY SaveKeepsCards
<1>3. Removing(w)'
  <2>1. Removing(w)
    BY DEF Intent
  <2>2. CASE op[w] = "remove"
    <3>1. \E t \in CardsIn(row, who[w]) : CardsIn(See(w), who[w]) = CardsIn(row, who[w]) \ {t}
      BY <2>1, <2>2 DEF Removing
    <3>2. \E t \in CardsIn(row, who[w])' : CardsIn(See(w), who[w])' = CardsIn(row, who[w])' \ {t}
      BY <1>0, <1>2, <3>1
    <3> QED
      BY <1>1, <2>2, <3>2 DEF Removing
  <2>3. CASE op[w] = "leave"
    <3>1. \E t \in Task : \A u \in User : CardsIn(See(w), u) = CardsIn(row, u) \ {t}
      BY <2>1, <2>3 DEF Removing
    <3>2. \E t \in Task : \A u \in User : CardsIn(See(w), u)' = CardsIn(row, u)' \ {t}
      BY <1>2, <3>1
    <3> QED
      BY <1>1, <2>3, <3>2 DEF Removing
  <2>4. CASE op[w] = "reorder"
    BY <1>1, <2>4 DEF Removing
  <2> QED
    BY <1>1, <2>2, <2>3, <2>4
<1>4. Keeping(w)'
  <2>1. CASE op[w] = "reorder"
    BY <1>1, <2>1 DEF Keeping
  <2>2. CASE op[w] \in {"remove", "leave"}
    <3>1. /\ \A u \in User \ {who[w]} : SameOrder(See(w), row, u)
          /\ \A i, j \in DOMAIN list[w] :
               i < j <=> row[<<who[w], list[w][i]>>].pos < row[<<who[w], list[w][j]>>].pos
      BY <2>2 DEF Intent, Keeping
    <3>2. ASSUME NEW u \in User, u # who[w]
          PROVE  SameOrder(See(w), row, u)'
      <4>1. \A s \in CardsIn(See(w), u) : s \in Task
        BY DEF CardsIn
      <4> QED
        BY <1>2, <3>1, <3>2, <4>1 DEF SameOrder
    <3>3. CASE to = "save2"
      BY <1>1, <3>1, <3>2, <3>3 DEF Keeping
    <3>4. CASE to # "save2"
      <4>1. SameOrder(See(w), row, who[w])'
        BY <2>2, <3>4 DEF SameOrder, CardsIn
      <4>2. \A u \in User : SameOrder(See(w), row, u)'
        BY <3>2, <4>1
      <4> QED
        BY <1>1, <3>4, <4>2 DEF Keeping
    <3> QED
      BY <3>3, <3>4
  <2> QED
    BY <1>1, <2>1, <2>2
<1>5. Reordering(w)'
  BY <1>0, <1>1, <1>2 DEF Intent, Reordering
<1>6. Adding(w)'
  BY <1>1 DEF Adding
<1> QED
  BY <1>1, <1>3, <1>4, <1>5, <1>6 DEF Intent

\* The temporary positions are below zero, and nothing else is different.
LEMMA SaveTemporaryIntent ==
  ASSUME SerialInv, NEW w, Only(w), IInv', Intent(w), SaveTemporary(w)
  PROVE  Intent(w)'
<1>0. w \in Worker /\ TypeOK
  BY SerialFacts DEF Only
<1> DEFINE new == TemporaryPositions(w)
<1>1. pc[w] = "save1" /\ Pending(w) = new /\ Save(w, Pending(w), "save2")
  BY DEF SaveTemporary, Pending
<1>2. /\ DOMAIN new = {who[w]} \X ToSet(list[w]) /\ DOMAIN new \subseteq Cell
      /\ \A c \in DOMAIN new : new[c] \in Row /\ new[c].id = seen[w][c[2]] /\ new[c].pos < 0
  BY <1>0, TemporaryIs
<1> HIDE DEF new
<1>3. /\ Put(w, new) /\ Goto(w, "save2")
      /\ UNCHANGED <<row, shown, op, who, list, seen, base, users, todo, nextId, leaves, fails, left, deleted>>
  BY <1>0, <1>1, SaveDone
<1> QED
  BY <1>0, <1>1, <1>2, <1>3, SaveIntent

\* The final positions follow the list that was read, so the order is the one intended.
LEMMA SaveFinalIntent ==
  ASSUME SerialInv, NEW w, Only(w), IInv', Intent(w), SaveFinal(w)
  PROVE  Intent(w)'
<1>0. w \in Worker /\ TypeOK /\ Course(w) /\ list[w] \in Seq(Task) /\ who[w] \in User
  BY SerialFacts DEF Only, TypeOK
<1> DEFINE new == PositionsInOrder(w)
           to == IF todo[w] # {} THEN "reread" ELSE "reply"
<1>1. pc[w] = "save2" /\ Pending(w) = new /\ Save(w, Pending(w), to)
  BY DEF SaveFinal, Pending
<1>2. /\ DOMAIN new = {who[w]} \X ToSet(list[w]) /\ DOMAIN new \subseteq Cell
      /\ \A c \in DOMAIN new : new[c] \in Row /\ new[c].id = seen[w][c[2]]
                               /\ new[c].pos = Place(list[w], c[2]) - 1
  BY <1>0, InOrderIs
<1>3. to \in {"save2", "reread", "reply"} /\ to # "save2" /\ (to = "reread" => op[w] = "leave")
  BY <1>0 DEF Course
<1> HIDE DEF new, to
<1>4. /\ Put(w, new) /\ Goto(w, to)
      /\ UNCHANGED <<row, shown, op, who, list, seen, base, users, todo, nextId, leaves, fails, left, deleted>>
  BY <1>0, <1>1, SaveDone
<1>5. /\ \A c \in Cell : See(w)'[c] = IF c \in DOMAIN new THEN new[c] ELSE See(w)[c]
      /\ CardsIn(See(w), who[w])' = ToSet(list[w])
  BY <1>0, <1>1, <1>2, <1>4, SaveKeepsCards
<1>6. CardsIn(See(w)', who[w]) = ToSet(list[w])
  BY <1>5, <1>4 DEF CardsIn
<1>7. ASSUME op[w] \in {"remove", "leave"}
      PROVE  SameOrder(See(w)', row, who[w])
  <2>1. \A i, j \in DOMAIN list[w] :
          i < j <=> row[<<who[w], list[w][i]>>].pos < row[<<who[w], list[w][j]>>].pos
    BY <1>1, <1>7 DEF Intent, Keeping
  <2>2. SUFFICES ASSUME NEW s \in ToSet(list[w]), NEW t \in ToSet(list[w])
                 PROVE  See(w)'[<<who[w], s>>].pos < See(w)'[<<who[w], t>>].pos <=>
                        row[<<who[w], s>>].pos < row[<<who[w], t>>].pos
    BY <1>6 DEF SameOrder
  <2>3. ASSUME NEW x \in ToSet(list[w])
        PROVE  /\ See(w)'[<<who[w], x>>].pos = Place(list[w], x) - 1
               /\ Place(list[w], x) \in DOMAIN list[w] /\ Place(list[w], x) \in Int
               /\ list[w][Place(list[w], x)] = x
    <3>1. Place(list[w], x) \in 1 .. Len(list[w]) /\ list[w][Place(list[w], x)] = x /\ x \in Task
      BY <1>0, PlaceTyped
    <3>2. <<who[w], x>> \in DOMAIN new /\ <<who[w], x>> \in Cell /\ <<who[w], x>>[2] = x
      BY <1>0, <1>2, <3>1 DEF Cell
    <3>3. See(w)'[<<who[w], x>>].pos = Place(list[w], x) - 1
      BY <1>2, <1>5, <3>2
    <3>4. DOMAIN list[w] = 1 .. Len(list[w])
      BY <1>0
    <3> QED
      BY <3>1, <3>3, <3>4
  <2>4. Place(list[w], s) < Place(list[w], t) <=> row[<<who[w], s>>].pos < row[<<who[w], t>>].pos
    BY <2>1, <2>3
  <2> QED
    BY <2>3, <2>4
<1> QED
  BY <1>0, <1>1, <1>2, <1>3, <1>4, <1>7, SaveIntent

\* Every step keeps what the call intends.
LEMMA NextIntent ==
  ASSUME SerialInv, Alone, \A w \in Worker : Intent(w), [Next]_vars
  PROVE  \A w \in Worker : Intent(w)'
<1>0. IInv' /\ Serial'
  BY NextIInv, NextSerial DEF SerialInv
<1>1. ASSUME NEW v \in Worker, NEW w \in Worker, Begin(w)
      PROVE  Intent(v)'
  <2>1. Only(w) /\ v = w /\ Intent(w)
    BY AloneIs DEF SerialInv, Only
  <2>2. CASE \E u \in User : \E cards \in SetToAllKPermutations(Task) \ {<<>>} : AddRead(w, u, cards)
    BY <1>0, <2>1, <2>2, AddReadIntent
  <2>3. CASE \E u \in User, t \in Task : RemoveRead(w, u, t)
    BY <2>1, <2>3, RemoveReadIntent
  <2>4. CASE \E u \in User : ReorderRead(w, u)
    BY <2>1, <2>4, ReorderReadIntent
  <2>5. ASSUME NEW u \in User, Clear(w, u)
        PROVE  Intent(w)'
    <3>1. pc' = [pc EXCEPT ![w] = "emit"]
      BY <2>5 DEF Clear, Goto
    <3>2. pc'[w] = "emit"
      BY <1>1, <3>1 DEF SerialInv, IInv, TypeOK
    <3> QED
      BY <3>2, NothingIntended
  <2>6. ASSUME NEW t \in Task, Leave(w, t)
        PROVE  Intent(w)'
    <3>1. pc' = [pc EXCEPT ![w] = "affected"] /\ op' = [op EXCEPT ![w] = "leave"]
      BY <2>6 DEF Leave, Goto
    <3>2. pc'[w] = "affected" /\ op'[w] = "leave"
      BY <1>1, <3>1 DEF SerialInv, IInv, TypeOK
    <3> QED
      BY <3>2, NothingIntended
  <2>7. ASSUME NEW t \in Task, RemoveTask(w, t)
        PROVE  Intent(w)'
    <3>1. pc'[w] = "idle"
      BY <2>7 DEF RemoveTask, calls
    <3> QED
      BY <3>1, NothingIntended
  <2> QED
    BY <1>1, <2>1, <2>2, <2>3, <2>4, <2>5, <2>6, <2>7 DEF Begin
<1>2. ASSUME NEW v \in Worker, NEW w \in Worker, Step(w)
      PROVE  Intent(v)'
  <2>0. TypeOK /\ Course(w)
    BY SerialFacts
  <2>1. Only(w) /\ v = w /\ Intent(w)
    BY AloneIs DEF SerialInv, Only
  <2>2. CASE Wipe(w) \/ Insert(w) \/ Delete(w) \/ ReRead(w) \/ SaveTemporary(w) \/ SaveFinal(w) \/ Drop(w)
    BY <1>0, <2>1, <2>2, WipeIntent, InsertIntent, DeleteIntent, ReReadIntent,
       SaveTemporaryIntent, SaveFinalIntent, DropIntent
  <2>3. CASE Reply(w)
    <3>1. pc' = [pc EXCEPT ![w] = IF op[w] = "leave" THEN "tell" ELSE "emit"]
      BY <2>3 DEF Reply, Goto
    <3>2. pc'[w] \in {"tell", "emit"}
      BY <2>0, <3>1 DEF TypeOK
    <3> QED
      BY <2>1, <3>2, NothingIntended
  <2>4. CASE Emit(w)
    <3>1. pc' = [pc EXCEPT ![w] = "idle"] \/ pc' = [pc EXCEPT ![w] = "tell"]
      BY <2>4 DEF Emit, Return, Goto
    <3>2. pc'[w] \in {"idle", "tell"}
      BY <2>0, <3>1 DEF TypeOK
    <3> QED
      BY <2>1, <3>2, NothingIntended
  <2>5. CASE Tell(w)
    <3>1. pc' = [pc EXCEPT ![w] = "emit"]
      BY <2>5 DEF Tell, Goto
    <3>2. pc'[w] = "emit"
      BY <2>0, <3>1 DEF TypeOK
    <3> QED
      BY <2>1, <3>2, NothingIntended
  <2>6. CASE Affected(w)
    <3>1. op[w] = "leave"
      BY <2>0, <2>6 DEF Course, Affected
    <3>2. CASE pc' = [pc EXCEPT ![w] = "idle"]
      <4>1. pc'[w] = "idle"
        BY <2>0, <3>2 DEF TypeOK
      <4> QED
        BY <2>1, <4>1, NothingIntended
    <3>3. CASE pc' = [pc EXCEPT ![w] = "drop"] /\ op' = op
      <4>1. pc'[w] = "drop" /\ op'[w] = "leave"
        BY <2>0, <3>1, <3>3 DEF TypeOK
      <4> QED
        BY <2>1, <4>1, NothingIntended
    <3> QED
      BY <2>6, <3>2, <3>3 DEF Affected, Return, Goto
  <2> QED
    BY <1>2, <2>2, <2>3, <2>4, <2>5, <2>6 DEF Step
<1>3. ASSUME NEW v \in Worker, NEW w \in Worker, DeadlockVictim(w) \/ Fail(w)
      PROVE  Intent(v)'
  <2>1. v = w
    BY AloneIs DEF SerialInv, Only
  <2>2. pc' = [pc EXCEPT ![w] = "idle"]
    BY <1>3 DEF DeadlockVictim, Fail, Rollback, Return, Goto
  <2>3. pc'[w] = "idle"
    BY <2>2 DEF SerialInv, IInv, TypeOK
  <2> QED
    BY <2>1, <2>3, NothingIntended
<1>4. ASSUME UNCHANGED vars, NEW w \in Worker
      PROVE  Intent(w)'
  <2>1. UNCHANGED <<row, pc, op, who, list, seen, base, wrote, mine>>
    BY <1>4 DEF vars, calls
  <2>2. See(w)' = See(w)
    BY <2>1 DEF See
  <2>3. Intent(w)
    OBVIOUS
  <2>4. \A u : CardsIn(See(w), u)' = CardsIn(See(w), u) /\ CardsIn(row, u)' = CardsIn(row, u)
    BY <2>1, <2>2 DEF CardsIn
  <2>5. OtherProject(w)' = OtherProject(w)
    BY <2>1, <2>4 DEF OtherProject
  <2>6. \A u \in User : SameOrder(See(w), row, u)' = SameOrder(See(w), row, u)
    BY <2>1, <2>2, <2>4 DEF SameOrder
  <2>7. Adding(w)'
    BY <2>1, <2>2, <2>3, <2>4, <2>5 DEF Intent, Adding
  <2>8. Removing(w)'
    BY <2>1, <2>3, <2>4 DEF Intent, Removing
  <2>9. Keeping(w)'
    BY <2>1, <2>3, <2>6 DEF Intent, Keeping
  <2>10. Reordering(w)'
    BY <2>1, <2>3, <2>4 DEF Intent, Reordering
  <2> QED
    BY <2>1, <2>3, <2>7, <2>8, <2>9, <2>10 DEF Intent
<1> QED
  BY <1>1, <1>2, <1>3, <1>4 DEF Next

-----------------------------------------------------------------------------
(* The queues are those of PersonalQueue                                   *)

\* The new cards are behind the others, or instead of them.
LEMMA AddedOrder ==
  ASSUME SerialInv, NEW w \in Worker, Intent(w), pc[w] = "reply", op[w] = "add"
  PROVE  LET u == who[w]
             old == OrderIn(row, u)
             cards == list[w]
         IN  /\ cards \in Seq(Task) /\ cards # <<>> /\ cards \in SetToSeqs(ToSet(cards))
             /\ \/ /\ \A c \in ToSet(old) : Project[c] = Project[cards[1]]
                   /\ ToSet(old) \cap ToSet(cards) = {}
                   /\ OrderIn(See(w), u) = old \o cards
                \/ /\ \E c \in ToSet(old) : Project[c] # Project[cards[1]]
                   /\ OrderIn(See(w), u) = cards
<1> DEFINE u == who[w]
           old == OrderIn(row, u)
           cards == list[w]
           n == Len(old)
<1>1. /\ u \in User /\ cards \in Seq(Task) /\ base[w] \in Nat
      /\ Sound(row) /\ Sound(See(w))
  BY SerialFacts DEF TypeOK, Sound, Orders
<1>2. /\ old \in Seq(Task) /\ n \in Nat /\ DOMAIN old = 1 .. n
      /\ ToSet(old) = CardsIn(row, u)
      /\ \A i \in 1 .. n : old[i] \in CardsIn(row, u)
      /\ \A i, j \in 1 .. n : i < j => row[<<u, old[i]>>].pos < row[<<u, old[j]>>].pos
  BY <1>1, OrderOf, SelectionIs
<1>3. /\ cards # <<>> /\ \A i, j \in DOMAIN cards : cards[i] = cards[j] => i = j
      /\ \A i \in DOMAIN cards : See(w)[<<u, cards[i]>>].pos = base[w] - 1 + i
  BY DEF Intent, Adding
<1>4. DOMAIN cards = 1 .. Len(cards) /\ Len(cards) \in Nat
  BY <1>1
<1>5. \A x \in ToSet(cards) : \E i \in 1 .. Len(cards) : cards[i] = x
  BY <1>4 DEF ToSet
<1>6. \A i \in 1 .. Len(cards) : cards[i] \in ToSet(cards)
  BY <1>4 DEF ToSet
<1>7. cards \in SetToSeqs(ToSet(cards))
  <2> HIDE DEF cards
  <2>1. cards \in Seq(ToSet(cards))
    BY <1>1, <1>6
  <2> QED
    BY <1>3, <1>4, <1>5, <2>1, SequencesAre
<1> HIDE DEF old, n
<1>8. CASE /\ CardsIn(See(w), u) = CardsIn(row, u) \cup ToSet(cards)
           /\ \A t \in CardsIn(row, u) :
                  /\ t \notin ToSet(cards) /\ Project[t] = Project[cards[1]]
                  /\ See(w)[<<u, t>>] = row[<<u, t>>] /\ row[<<u, t>>].pos < base[w]
  <2> DEFINE r == old \o cards
             m == Len(cards)
  <2>1. /\ r \in Seq(Task) /\ Len(r) = n + m
        /\ \A i \in 1 .. n + m : r[i] = IF i <= n THEN old[i] ELSE cards[i - n]
    BY <1>1, <1>2, ConcatProperties, Zenon DEF n
  <2> HIDE DEF r
  <2>2. ASSUME NEW i \in 1 .. n + m
        PROVE  \/ i \in 1 .. n /\ r[i] = old[i]
               \/ i - n \in 1 .. m /\ r[i] = cards[i - n] /\ i > n
    BY <1>2, <1>4, <2>1
  <2>3. \A i \in 1 .. n + m : r[i] \in CardsIn(See(w), u)
    BY <1>2, <1>6, <1>8, <2>2
  <2>4. ASSUME NEW x \in CardsIn(See(w), u)
        PROVE  \E i \in 1 .. n + m : r[i] = x
    <3>1. CASE x \in CardsIn(row, u)
      <4>1. PICK i \in 1 .. n : old[i] = x
        BY <1>2, <3>1 DEF ToSet
      <4>2. i \in 1 .. n + m /\ i <= n
        BY <1>2, <1>4
      <4> QED
        BY <2>1, <4>1, <4>2
    <3>2. CASE x \in ToSet(cards)
      <4>1. PICK i \in 1 .. m : cards[i] = x
        BY <1>5, <3>2
      <4>2. n + i \in 1 .. n + m /\ ~(n + i <= n) /\ (n + i) - n = i
        BY <1>2, <1>4
      <4>3. r[n + i] = cards[i]
        BY <2>1, <4>2
      <4> QED
        BY <4>1, <4>2, <4>3
    <3> QED
      BY <1>8, <3>1, <3>2
  <2>5. ASSUME NEW i \in 1 .. n + m, NEW j \in 1 .. n + m, i < j
        PROVE  See(w)[<<u, r[i]>>].pos < See(w)[<<u, r[j]>>].pos
    <3>1. CASE j \in 1 .. n /\ i \in 1 .. n /\ r[i] = old[i] /\ r[j] = old[j]
      BY <1>2, <1>8, <2>5, <3>1
    <3>2. CASE i \in 1 .. n /\ r[i] = old[i] /\ j - n \in 1 .. m /\ r[j] = cards[j - n]
      <4>1. See(w)[<<u, r[i]>>].pos < base[w]
        BY <1>2, <1>8, <3>2
      <4>2. See(w)[<<u, r[j]>>].pos = base[w] - 1 + (j - n)
        BY <1>3, <1>4, <3>2
      <4>3. See(w)[<<u, r[i]>>].pos \in Int
        BY <1>1, <2>3, OrderOf DEF CardsIn
      <4> QED
        BY <1>1, <1>2, <3>2, <4>1, <4>2, <4>3
    <3>3. CASE i - n \in 1 .. m /\ r[i] = cards[i - n] /\ j - n \in 1 .. m /\ r[j] = cards[j - n]
      <4>1. /\ See(w)[<<u, r[i]>>].pos = base[w] - 1 + (i - n)
            /\ See(w)[<<u, r[j]>>].pos = base[w] - 1 + (j - n)
        BY <1>3, <1>4, <3>3
      <4> QED
        BY <1>1, <1>2, <2>5, <4>1
    <3> QED
      BY <1>2, <2>2, <2>5, <3>1, <3>2, <3>3
  <2>6. OrderIn(See(w), u) = r
    BY <1>1, <2>1, <2>3, <2>4, <2>5, OrderIs
  <2>7. /\ \A c \in ToSet(old) : Project[c] = Project[cards[1]]
        /\ ToSet(old) \cap ToSet(cards) = {}
    BY <1>2, <1>8
  <2> QED
    BY <1>1, <1>3, <1>7, <2>6, <2>7 DEF r, old
<1>9. CASE OtherProject(w) /\ CardsIn(See(w), u) = ToSet(cards)
  <2>1. \A i, j \in 1 .. Len(cards) : i < j =>
          See(w)[<<u, cards[i]>>].pos < See(w)[<<u, cards[j]>>].pos
    BY <1>1, <1>3, <1>4
  <2>2. OrderIn(See(w), u) = cards
    <3> HIDE DEF cards, u
    <3> QED
      BY <1>1, <1>5, <1>6, <1>9, <2>1, OrderIs
  <2>3. \E c \in ToSet(old) : Project[c] # Project[cards[1]]
    BY <1>2, <1>9 DEF OtherProject
  <2> QED
    BY <1>1, <1>3, <1>7, <2>2, <2>3 DEF old
<1> QED
  BY <1>8, <1>9 DEF Intent, Adding

\* What a commit does to the queues is a step of PersonalQueue.
LEMMA ReplyImplements ==
  ASSUME SerialInv, NEW w, Only(w), Intent(w), Reply(w)
  PROVE  Promise!Next
<1>0. /\ w \in Worker /\ TypeOK /\ Course(w) /\ Sound(row) /\ Sound(See(w)) /\ who[w] \in User
      /\ \A c \in Cell : See(w)[c] = IF c \in wrote[w] THEN mine[w][c] ELSE row[c]
  BY SerialFacts DEF Only, TypeOK, Sound, Orders
<1>1. pc[w] = "reply" /\ row' = See(w)
  BY DEF Reply
<1> DEFINE u == who[w]
           Before == [x \in User |-> OrderIn(row, x)]
           After == [x \in User |-> OrderIn(See(w), x)]
<1>2. /\ [x \in User |-> Queue(x)] = Before
      /\ [x \in User |-> Queue(x)]' = After
  <2>1. \A x \in User : Queue(x) = OrderIn(row, x)
    BY DEF Queue, OrderIn
  <2>2. \A x \in User : Queue(x)' = OrderIn(row', x)
    BY DEF Queue, OrderIn, Selections, CardsIn
  <2> QED
    BY <1>1, <2>1, <2>2
<1>3. ASSUME NEW x \in User, x \notin Changed(w)
      PROVE  OrderIn(See(w), x) = OrderIn(row, x)
  <2>1. \A t \in Task : See(w)[<<x, t>>] = row[<<x, t>>]
    BY <1>0, <1>3 DEF Course, Cell
  <2>2. Selections(See(w), x) = Selections(row, x)
    BY <2>1, SelectionsSame
  <2> QED
    BY <2>2 DEF OrderIn
<1>4. ASSUME op[w] # "leave"
      PROVE  After = [Before EXCEPT ![u] = OrderIn(See(w), u)]
  BY <1>0, <1>3, <1>4 DEF Changed
<1>5. \A x \in User : ToSet(OrderIn(row, x)) = CardsIn(row, x)
  BY <1>0, OrderOf, SelectionIs
<1> HIDE DEF Before, After
<1>6. CASE op[w] = "add"
  <2> DEFINE cards == list[w]
             old == OrderIn(row, u)
  <2>1. /\ cards \in Seq(Task) /\ cards # <<>> /\ cards \in SetToSeqs(ToSet(cards))
        /\ \/ /\ \A c \in ToSet(old) : Project[c] = Project[cards[1]]
              /\ ToSet(old) \cap ToSet(cards) = {}
              /\ OrderIn(See(w), u) = old \o cards
           \/ /\ \E c \in ToSet(old) : Project[c] # Project[cards[1]]
              /\ OrderIn(See(w), u) = cards
    BY <1>0, <1>1, <1>6, AddedOrder
  <2> HIDE DEF cards
  <2>2. Before[u] = old
    BY <1>0 DEF Before
  <2>3. After = [Before EXCEPT ![u] = OrderIn(See(w), u)]
    BY <1>4, <1>6
  <2>4. Promise!Add(u, cards)
    <3>1. Promise!Cards(u) = ToSet(old) /\ Promise!ToSet(cards) = ToSet(cards)
      BY <1>2, <2>2, PromiseIs DEF Promise!Cards
    <3> QED
      BY <1>2, <2>1, <2>2, <2>3, <3>1 DEF Promise!Add
  <2>5. ToSet(cards) \in SUBSET Task
    BY <2>1 DEF ToSet
  <2>6. \E S \in SUBSET Task : \E q \in Promise!SetToSeqs(S) : Promise!Add(u, q)
    BY <2>1, <2>4, <2>5, PromiseIs
  <2> QED
    BY <1>0, <2>6 DEF Promise!Next
<1>7. CASE op[w] = "remove"
  <2>1. PICK t \in CardsIn(row, u) : CardsIn(See(w), u) = CardsIn(row, u) \ {t}
    BY <1>1, <1>7 DEF Intent, Removing
  <2>2. SameOrder(See(w), row, u)
    BY <1>0, <1>1, <1>7 DEF Intent, Keeping
  <2>3. OrderIn(See(w), u) = Promise!Without(OrderIn(row, u), t)
    BY <1>0, <2>1, <2>2, WithoutIs
  <2>4. t \in Task
    BY DEF CardsIn
  <2>5. Promise!RemoveCard(u, t)
    <3>1. Before[u] = OrderIn(row, u)
      BY <1>0 DEF Before
    <3>2. Promise!Cards(u) = CardsIn(row, u)
      BY <1>0, <1>2, <1>5, <3>1, PromiseIs DEF Promise!Cards
    <3>3. After = [Before EXCEPT ![u] = Promise!Without(Before[u], t)]
      BY <1>4, <1>7, <2>3, <3>1
    <3> QED
      BY <1>2, <3>2, <3>3 DEF Promise!RemoveCard
  <2> QED
    BY <1>0, <2>4, <2>5 DEF Promise!Next
<1>8. CASE op[w] = "reorder"
  <2>1. CardsIn(See(w), u) = CardsIn(row, u)
    BY <1>1, <1>8 DEF Intent, Reordering
  <2>2. OrderIn(See(w), u) \in SetToSeqs(CardsIn(row, u))
    BY <1>0, <2>1, OrderOf DEF Selections
  <2>3. Promise!Reorder(u)
    <3>1. Before[u] = OrderIn(row, u)
      BY <1>0 DEF Before
    <3>2. Promise!SetToSeqs(Promise!Cards(u)) = SetToSeqs(CardsIn(row, u))
      <4>1. Promise!Cards(u) = CardsIn(row, u)
        BY <1>0, <1>2, <1>5, <3>1, PromiseIs DEF Promise!Cards
      <4> QED
        BY <4>1, PromiseIs
    <3>3. After = [Before EXCEPT ![u] = OrderIn(See(w), u)]
      BY <1>4, <1>8
    <3> QED
      BY <1>2, <2>2, <3>2, <3>3 DEF Promise!Reorder
  <2> QED
    BY <1>0, <2>3 DEF Promise!Next
<1>9. CASE op[w] = "leave"
  <2>1. PICK t \in Task : \A x \in User : CardsIn(See(w), x) = CardsIn(row, x) \ {t}
    BY <1>1, <1>9 DEF Intent, Removing
  <2>2. \A x \in User : SameOrder(See(w), row, x)
    BY <1>1, <1>9 DEF Intent, Keeping
  <2>3. \A x \in User : OrderIn(See(w), x) = Promise!Without(OrderIn(row, x), t)
    BY <1>0, <2>1, <2>2, WithoutIs
  <2>4. After = [x \in User |-> Promise!Without(Before[x], t)]
    BY <2>3 DEF Before, After
  <2>5. Promise!Drop(t)
    BY <1>2, <2>4 DEF Promise!Drop
  <2> QED
    BY <2>5 DEF Promise!Next
<1> QED
  BY <1>0, <1>1, <1>6, <1>7, <1>8, <1>9 DEF Intent, TypeOK, Op

\* Clearing is one statement, and empties the queue of one user.
LEMMA ClearImplements ==
  ASSUME SerialInv, NEW w, Only(w), IInv', Serial', NEW u \in User, Clear(w, u)
  PROVE  Promise!Next
<1>0. w \in Worker /\ TypeOK /\ Sound(row)
  BY SerialFacts DEF Only, Sound, Orders
<1>1. row' = [c \in Cell |-> IF c[1] = u THEN NoRow ELSE row[c]]
  BY DEF Clear
<1>2. \A c \in Cell : row'[c] = IF c[1] = u THEN NoRow ELSE row[c]
  BY <1>1
<1>3. \A x \in User : Queue(x) = OrderIn(row, x) /\ Queue(x)' = OrderIn(row', x)
  BY DEF Queue, OrderIn, Selections, CardsIn
<1>4. ASSUME NEW x \in User, x # u
      PROVE  OrderIn(row', x) = OrderIn(row, x)
  <2>1. \A t \in Task : row'[<<x, t>>] = row[<<x, t>>]
    BY <1>2, <1>4 DEF Cell
  <2>2. Selections(row', x) = Selections(row, x)
    BY <2>1, SelectionsSame
  <2> QED
    BY <2>2 DEF OrderIn
<1>5. Sound(row')
  <2>1. OneProjectIn(row)' /\ row' \in [Cell -> Row]
    BY DEF Serial, IInv, TypeOK
  <2>2. InOrder(row)'
    BY DEF IInv, Orders
  <2> QED
    BY <2>1, <2>2 DEF Sound, OneProjectIn, InOrder, CardsIn, SameIndex
<1>6. OrderIn(row', u) = <<>>
  <2>1. CardsIn(row', u) = {}
    BY <1>2 DEF CardsIn, Cell
  <2>2. <<>> \in Selections(row', u)
    <3>1. \A i, j \in DOMAIN <<>> : FALSE
      OBVIOUS
    <3> QED
      BY <2>1, <3>1, EmptyOrder DEF Selections
  <2> QED
    BY <1>5, <2>2, OrderOf
<1>7. [x \in User |-> Queue(x)]' = [[x \in User |-> Queue(x)] EXCEPT ![u] = <<>>]
  BY <1>3, <1>4, <1>6
<1>8. Promise!Clear(u)
  BY <1>7 DEF Promise!Clear
<1> QED
  BY <1>8 DEF Promise!Next

\* A task that is deleted is gone from every queue, and the others stay in order.
LEMMA RemoveTaskImplements ==
  ASSUME SerialInv, NEW w, Only(w), IInv', Serial', NEW t \in Task, RemoveTask(w, t)
  PROVE  Promise!Next
<1>0. w \in Worker /\ TypeOK /\ Sound(row)
  BY SerialFacts DEF Only, Sound, Orders
<1>1. \A c \in Cell : row'[c] = IF c[2] = t THEN NoRow ELSE row[c]
  BY DEF RemoveTask
<1>2. \A x \in User : Queue(x) = OrderIn(row, x) /\ Queue(x)' = OrderIn(row', x)
  BY DEF Queue, OrderIn, Selections, CardsIn
<1>3. Sound(row')
  <2>1. OneProjectIn(row)' /\ row' \in [Cell -> Row]
    BY DEF Serial, IInv, TypeOK
  <2>2. InOrder(row)'
    BY DEF IInv, Orders
  <2> QED
    BY <2>1, <2>2 DEF Sound, OneProjectIn, InOrder, CardsIn, SameIndex
<1>4. ASSUME NEW x \in User
      PROVE  OrderIn(row', x) = Promise!Without(OrderIn(row, x), t)
  <2>1. ASSUME NEW y \in Task
        PROVE  row'[<<x, y>>] = IF y = t THEN NoRow ELSE row[<<x, y>>]
    BY <1>1 DEF Cell
  <2>2. CardsIn(row', x) = CardsIn(row, x) \ {t}
    BY <2>1 DEF CardsIn
  <2>3. SameOrder(row', row, x)
    BY <2>1, <2>2 DEF SameOrder, CardsIn
  <2> QED
    BY <1>0, <1>3, <2>2, <2>3, WithoutIs
<1>5. [x \in User |-> Queue(x)]' = [x \in User |-> Promise!Without([y \in User |-> Queue(y)][x], t)]
  BY <1>2, <1>4
<1>6. Promise!Drop(t)
  BY <1>5 DEF Promise!Drop
<1> QED
  BY <1>6 DEF Promise!Next

\* A step that commits is a step of PersonalQueue, and any other leaves the queues.
LEMMA NextImplements ==
  ASSUME SerialInv, Alone, \A w \in Worker : Intent(w), [Next]_vars
  PROVE  (\E u \in User : Queue(u)' # Queue(u)) => Promise!Next
<1>0. IInv' /\ Serial'
  BY NextIInv, NextSerial DEF SerialInv
<1>1. ASSUME row' = row
      PROVE  \A u \in User : Queue(u)' = Queue(u)
  BY <1>1 DEF Queue, Selections, CardsIn
<1>2. ASSUME NEW w \in Worker, Begin(w)
      PROVE  row' = row \/ Promise!Next
  <2>1. Only(w)
    BY AloneIs DEF SerialInv
  <2> QED
    BY <1>0, <1>2, <2>1, ClearImplements, RemoveTaskImplements
    DEF Begin, AddRead, RemoveRead, ReorderRead, Leave
<1>3. ASSUME NEW w \in Worker, Step(w)
      PROVE  row' = row \/ Promise!Next
  <2>1. Only(w) /\ Intent(w)
    BY AloneIs DEF SerialInv
  <2>2. CASE Reply(w)
    BY <2>1, <2>2, ReplyImplements
  <2>3. CASE Wipe(w) \/ Delete(w) \/ Drop(w)
    BY <2>3 DEF Wipe, Delete, Drop
  <2>4. CASE Insert(w) \/ SaveTemporary(w) \/ SaveFinal(w)
    BY <2>4 DEF Insert, SaveTemporary, SaveFinal, Save, Rollback
  <2>5. CASE ReRead(w) \/ Emit(w) \/ Affected(w) \/ Tell(w)
    BY <2>5 DEF ReRead, Emit, Affected, Tell
  <2> QED
    BY <1>3, <2>2, <2>3, <2>4, <2>5 DEF Step
<1>4. ASSUME NEW w \in Worker, DeadlockVictim(w) \/ Fail(w)
      PROVE  row' = row
  BY <1>4 DEF DeadlockVictim, Fail, Rollback
<1>5. CASE UNCHANGED vars
  BY <1>1, <1>5 DEF vars
<1> QED
  BY <1>1, <1>2, <1>3, <1>4, <1>5 DEF Next

\* One call at a time the queues are the lists of PersonalQueue: what a commit
\* makes of the positions, however the statements of the call got there, is one
\* operation on lists, and no other step is seen.
THEOREM ImplementsQueuesCorrect == Spec => SerialImplementsQueues
<1> DEFINE Intended == \A w \in Worker : Intent(w)
           SInv == IInv /\ (Alone => Standing /\ Serial /\ Intended)
           Step0 == Alone /\ (\E u \in User : Queue(u)' # Queue(u)) => Promise!Next
<1>1. Init => SInv
  <2> SUFFICES ASSUME Init
               PROVE  Standing /\ Serial /\ Intended
    BY InitIInv
  <2>1. \A w \in Worker : pc[w] = "idle"
    BY DEF Init
  <2>2. Intended
    BY <2>1 DEF Intent, Adding, Removing, Keeping, Reordering
  <2> QED
    BY <2>2, InitSerial
<1>2. SInv /\ [Next]_vars => SInv'
  <2> SUFFICES ASSUME SInv, [Next]_vars
               PROVE  SInv'
    OBVIOUS
  <2>1. IInv'
    BY NextIInv
  <2>2. Alone' => Alone
    BY <2>1 DEF Alone, IInv, TypeOK
  <2>3. Alone => Standing' /\ Serial' /\ Intended'
    BY NextSerial, NextIntent DEF SerialInv
  <2> QED
    BY <2>1, <2>2, <2>3
<1>3. SInv /\ [Next]_vars => [Step0]_vars
  BY NextImplements DEF SerialInv
<1>4. Init => (Alone => Promise!Init)
  <2> SUFFICES ASSUME Init
               PROVE  Promise!Init
    OBVIOUS
  <2>1. ASSUME NEW u \in User
        PROVE  Queue(u) = <<>>
    <3>1. CardsIn(row, u) = {}
      BY DEF Init, Clean, CardsIn, Cell
    <3>2. \A s \in Selections(row, u) : s = <<>>
      <4>1. SetToSeqs({}) = {<<>>}
        <5>1. \A s \in SetToSeqs({}) : s \in Seq({}) /\ Len(s) = Cardinality({})
          BY FS_EmptySet, SequencesOf
        <5>2. Cardinality({}) = 0
          BY FS_EmptySet
        <5>3. \A s \in SetToSeqs({}) : s = <<>>
          BY <5>1, <5>2
        <5> QED
          BY <5>3, EmptyOrder
      <4> QED
        BY <3>1, <4>1 DEF Selections
    <3>3. <<>> \in Selections(row, u)
      BY <3>1, EmptyOrder DEF Selections
    <3> QED
      BY <3>2, <3>3 DEF Queue
  <2> QED
    BY <2>1 DEF Promise!Init
<1>5. Spec => []SInv
  BY <1>1, <1>2, PTL DEF Spec
<1> HIDE DEF SInv
<1> QED
  BY <1>3, <1>4, <1>5, PTL DEF Spec, SerialImplementsQueues
=============================================================================
