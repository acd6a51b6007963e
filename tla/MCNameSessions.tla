---------------------------- MODULE MCNameSessions ----------------------------
(* Small instances of NameSessions for TLC.  A behaviour uses one part of   *)
(* the API: its states would be too many with all of it.                    *)
EXTENDS NameSessions, TLC

CONSTANTS
  acme, acme2, bolt, \* candidate ids: acme2 is the name of acme, added again
  MaxCalls           \* bound: calls begun, one less in the part with ballots

VARIABLES
  part,      \* the handlers that are called
  begun

MCSpellingOf == acme :> "A" @@ acme2 :> "A" @@ bolt :> "B"

\* Two names have been added and every member has looked at them.
Filled ==
  /\ \E mode \in {"solo", "team"} :
       row = [NewSession(mode) EXCEPT !.names = [i \in {acme, bolt} |-> NewName]]
  /\ used = {acme, bolt}
  /\ seen = [m \in Member |-> [i \in {acme, bolt} |-> [status |-> "active", stamp |-> 0]]]

MCInit ==
  /\ part \in {"ballots", "lists", "batches"} /\ begun = 0
  /\ (Init /\ part = "lists") \/ (Filled /\ Quiet)

Limit == IF part = "ballots" THEN MaxCalls - 1 ELSE MaxCalls

Part(c, m) ==
  \/ part = "ballots" /\ \/ SetMode(c, m) \/ StartRound(c, m) \/ CloseRound(c, m)
                         \/ Vote(c, m) \/ GetView(c, m)
  \/ part = "batches" /\ (StartBatch(c, m) \/ Crown(c, m) \/ SetFinalists(c, m))
  \/ part = "lists"   /\ (React(c, m) \/ Recommend(c, m))
  \/ part # "ballots" /\ (Upsert(c, m) \/ PatchNames(c, m))

MCNext ==
  /\ \/ Remove /\ UNCHANGED begun
     \/ \E c \in Call :
          \/ Advance(c) /\ UNCHANGED begun
          \/ \E m \in Member : Part(c, m) /\ begun < Limit /\ begun' = begun + 1
  /\ UNCHANGED part

MCSpec == MCInit /\ [][MCNext]_<<vars, part, begun>>

Symmetry == Permutations(Call)
=============================================================================
