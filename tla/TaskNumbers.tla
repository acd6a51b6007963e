----------------------------- MODULE TaskNumbers -----------------------------
(***************************************************************************)
(* What the display ids of a project's tasks (ARC-1, ARC-2, ...) promise:  *)
(* a created task is given one number, and the numbers given in a project  *)
(* only grow, so no id ever names two tasks.  Tasks implements it.         *)
(***************************************************************************)
EXTENDS Integers

VARIABLE given   \* the numbers given so far, and to which task

Init == given = {}

\* g is the task, its project and its number.
Give(g) ==
  /\ \A h \in given : h.task # g.task /\ (h.project = g.project => h.number < g.number)
  /\ given' = given \cup {g}

Next == \E g \in given' : Give(g)

Spec == Init /\ [][Next]_given
=============================================================================
