------------------------------ MODULE MCQaQueue ------------------------------
(* Small instances of QaQueue for TLC: cardA, cardB and cardC are of one     *)
(* project, cardD of another.                                               *)
EXTENDS QaQueue, TLC

CONSTANTS cardA, cardB, cardC, cardD

ProjectOf == cardA :> "p" @@ cardB :> "p" @@ cardC :> "p" @@ cardD :> "q"
=============================================================================
