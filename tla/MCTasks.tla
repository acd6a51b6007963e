------------------------------- MODULE MCTasks -------------------------------
(* Small instances of Tasks for TLC.                                       *)
EXTENDS Tasks, TLC

Blank == [project |-> KEEP, parent |-> KEEP, status |-> KEEP, bug |-> KEEP]

\* Every field alone, and the pairs whose stages interact.
Nest   == {[Blank EXCEPT !.parent = t] : t \in Task \cup {NONE}}
Move   == {[Blank EXCEPT !.project = p] : p \in Project}
Finish == {[Blank EXCEPT !.status = "done"], [Blank EXCEPT !.bug = "flag"]}
Mixed  == {[Blank EXCEPT !.project = p, !.bug = "bare"] : p \in Project}
          \cup {[Blank EXCEPT !.project = p, !.parent = NONE] : p \in Project}
          \cup {[Blank EXCEPT !.status = "done", !.bug = "flag"]}

AnyBody == Nest \cup Move \cup Finish \cup Mixed

\* For the runs without a liveness property.
Symmetry == Permutations(Task) \cup Permutations(Project)
=============================================================================
