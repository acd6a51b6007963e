---------------------------- MODULE PersonalQueue ----------------------------
(***************************************************************************)
(* What the QA queues promise to somebody who uses them one call at a      *)
(* time: every user has a list of cards of one project, in the order they  *)
(* chose.  QaQueue, which stores rows with positions, implements it.       *)
(***************************************************************************)
EXTENDS Integers, Sequences, FiniteSets, SequencesExt

CONSTANTS User, Task, Project

VARIABLE queue    \* user -> sequence of tasks

Cards(u) == ToSet(queue[u])

Without(s, t) ==
  IF t \in ToSet(s) THEN RemoveAt(s, CHOOSE i \in DOMAIN s : s[i] = t) ELSE s

Init == queue = [u \in User |-> <<>>]

\* Cards of another project are refused, or replace the queue.
Add(u, cards) ==
  /\ cards # <<>>
  /\ \/ /\ \A c \in Cards(u) : Project[c] = Project[cards[1]]
        /\ Cards(u) \cap ToSet(cards) = {}
        /\ queue' = [queue EXCEPT ![u] = @ \o cards]
     \/ /\ \E c \in Cards(u) : Project[c] # Project[cards[1]]
        /\ queue' = [queue EXCEPT ![u] = cards]

RemoveCard(u, t) ==
  /\ t \in Cards(u)
  /\ queue' = [queue EXCEPT ![u] = Without(@, t)]

Reorder(u) == \E s \in SetToSeqs(Cards(u)) : queue' = [queue EXCEPT ![u] = s]

Clear(u) == queue' = [queue EXCEPT ![u] = <<>>]

\* The card left QA Test, or its task was deleted.
Drop(t) == queue' = [u \in User |-> Without(queue[u], t)]

Next ==
  \/ \E t \in Task : Drop(t)
  \/ \E u \in User :
       \/ Clear(u)
       \/ \E t \in Task : RemoveCard(u, t)
       \/ Reorder(u)
       \/ \E S \in SUBSET Task : \E cards \in SetToSeqs(S) : Add(u, cards)

Spec == Init /\ [][Next]_queue
=============================================================================
