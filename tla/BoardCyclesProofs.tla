-------------------------- MODULE BoardCyclesProofs --------------------------
(***************************************************************************)
(* Proofs about BoardCycles, for any number of tasks, requests and update  *)
(* calls, any length of a cycle and any bounds.                            *)
(***************************************************************************)
EXTENDS BoardCycles, TLAPS

LEMMA InitTypes == Init => TypeOK
BY BoardAssumption DEF Init, TypeOK, Week, PC, InTx, NoArchive, NoCycle, Status

\* A step keeps the types, provided that what transactions have read of the
\* cycles is still true: Commit subtracts one from the rows it counts.
LEMMA StepTypes == TypeOK /\ ViewHolds /\ [Next]_vars => TypeOK'
<1> SUFFICES ASSUME TypeOK, ViewHolds, [Next]_vars PROVE TypeOK'
  OBVIOUS
<1> USE BoardAssumption
<1>1. ASSUME NEW p \in Request, BeginSync(p) PROVE TypeOK'
  BY <1>1 DEF TypeOK, BeginSync, Goto, PC, InTx, NoArchive, NoCycle, Week, Status, Keep,
     boardVars, taskVars, txVars, editVars, bounds
<1>2. ASSUME NEW p \in Request, BeginAdvance(p) PROVE TypeOK'
  BY <1>2 DEF TypeOK, BeginAdvance, Goto, PC, InTx, NoArchive, NoCycle, Week, Status, Keep,
     boardVars, taskVars, txVars, editVars, bounds
<1>3. ASSUME NEW p \in Request, FindActive(p) PROVE TypeOK'
  <2>1. pc' \in [Request -> PC]
    <3>1. pc' \in { [pc EXCEPT ![p] = s] : s \in {"bootstrap", "blocked", "locked"} }
      BY <1>3, Zenon DEF FindActive, Goto
    <3> QED
      BY <3>1 DEF TypeOK, PC, InTx
  <2>2. held' \in [Request -> Week \cup {NoCycle}] /\ cur' \in [Request -> Week \cup {NoCycle}]
    <3>1. \/ UNCHANGED <<held, cur>>
          \/ \E w \in Week : held' = [held EXCEPT ![p] = w] /\ cur' = [cur EXCEPT ![p] = w]
      BY <1>3, Zenon DEF FindActive, ActiveWeeks
    <3>2. ASSUME NEW w \in Week, held' = [held EXCEPT ![p] = w], cur' = [cur EXCEPT ![p] = w]
          PROVE  held' \in [Request -> Week \cup {NoCycle}] /\ cur' \in [Request -> Week \cup {NoCycle}]
      BY <3>2 DEF TypeOK
    <3> QED
      BY <3>1, <3>2 DEF TypeOK
  <2> QED
    BY <1>3, <2>1, <2>2 DEF TypeOK, FindActive, boardVars, taskVars, editVars, bounds
<1>4. ASSUME NEW p \in Request, LockGranted(p) PROVE TypeOK'
  <2>1. pc' \in [Request -> PC]
    <3>1. pc' \in { [pc EXCEPT ![p] = s] : s \in {"bootstrap", "locked"} }
      BY <1>4, Zenon DEF LockGranted, Goto
    <3> QED
      BY <3>1 DEF TypeOK, PC, InTx
  <2>2. held' \in [Request -> Week \cup {NoCycle}] /\ cur' \in [Request -> Week \cup {NoCycle}]
    <3>1. \/ UNCHANGED <<held, cur>>
          \/ held' = [held EXCEPT ![p] = NoCycle] /\ cur' = [cur EXCEPT ![p] = NoCycle]
      BY <1>4, Zenon DEF LockGranted
    <3> QED
      BY <3>1 DEF TypeOK
  <2> QED
    BY <1>4, <2>1, <2>2 DEF TypeOK, LockGranted, boardVars, taskVars, editVars, bounds
<1>5. ASSUME NEW p \in Request, Bootstrap(p) PROVE TypeOK'
  BY <1>5 DEF TypeOK, Bootstrap, CurrentWeek, Goto, PC, InTx, NoArchive, NoCycle, Week, Status, Keep,
     boardVars, taskVars, txVars, editVars, bounds
<1>6. ASSUME NEW p \in Request, BootstrapRefused(p) PROVE TypeOK'
  BY <1>6 DEF TypeOK, BootstrapRefused, Rollback, EndTx, Goto, PC, InTx, NoArchive, NoCycle, Week, Status, Keep,
     boardVars, taskVars, txVars, editVars, bounds
<1>7. ASSUME NEW p \in Request, ReadTasks(p) PROVE TypeOK'
  <2>1. pc' \in [Request -> PC]
    BY <1>7 DEF TypeOK, ViewHolds, ReadTasks, selectTasksForArchival, Goto, PC, InTx, Week, NoCycle, NoArchive, Status, Keep
  <2>2. cand' \in [Request -> SUBSET Task]
    BY <1>7 DEF TypeOK, ViewHolds, ReadTasks, selectTasksForArchival, Goto, PC, InTx, Week, NoCycle, NoArchive, Status, Keep
  <2>3. ents' \in [Request -> SUBSET (Week \X Task)]
    BY <1>7 DEF TypeOK, ViewHolds, ReadTasks, selectTasksForArchival, Goto, PC, InTx, Week, NoCycle, NoArchive, Status, Keep
  <2> QED
    BY <1>7, <2>1, <2>2, <2>3 DEF TypeOK, ReadTasks, boardVars, taskVars, txVars, editVars, bounds
<1>8. ASSUME NEW p \in Request, CloseAndAdvance(p) PROVE TypeOK'
  <2>1. pc' \in [Request -> PC]
    BY <1>8 DEF TypeOK, ViewHolds, CloseAndAdvance, ArchiveSet, selectTasksForArchival, Goto, PC, InTx, Week, NoCycle, NoArchive, Status, Keep
  <2>2. cand' \in [Request -> SUBSET Task]
    BY <1>8 DEF TypeOK, ViewHolds, CloseAndAdvance, ArchiveSet, selectTasksForArchival, Goto, PC, InTx, Week, NoCycle, NoArchive, Status, Keep
  <2>3. cur' \in [Request -> Week \cup {NoCycle}]
    BY <1>8 DEF TypeOK, ViewHolds, CloseAndAdvance, ArchiveSet, selectTasksForArchival, Goto, PC, InTx, Week, NoCycle, NoArchive, Status, Keep
  <2>4. arch' \in [Request -> [Task -> Week \cup {NoCycle}]]
    BY <1>8 DEF TypeOK, ViewHolds, CloseAndAdvance, ArchiveSet, selectTasksForArchival, Goto, PC, InTx, Week, NoCycle, NoArchive, Status, Keep
  <2> QED
    BY <1>8, <2>1, <2>2, <2>3, <2>4 DEF TypeOK, CloseAndAdvance, boardVars, taskVars, txVars, editVars, bounds
<1>9. ASSUME NEW p \in Request, SyncDone(p) PROVE TypeOK'
  BY <1>9 DEF TypeOK, SyncDone, Goto, PC, InTx, NoArchive, NoCycle, Week, Status, Keep,
     boardVars, taskVars, txVars, editVars, bounds
<1>10. ASSUME NEW p \in Request, Commit(p) PROVE TypeOK'
  <2>1. active' \in [Week -> Nat]
    <3> SUFFICES ASSUME NEW w \in Week
                 PROVE  active[w] + (IF w = cur[p] THEN 1 ELSE 0)
                                  - (IF w = held[p] THEN 1 ELSE 0) \in Nat
      BY <1>10 DEF Commit
    <3>1. w = held[p] => active[w] = 1
      BY <1>10, NoCycle \notin Week DEF ViewHolds, Commit, InTx, Week, NoCycle
    <3> QED
      BY <3>1 DEF TypeOK
  <2>2. closed' \in [Week -> Nat]
    <3> SUFFICES ASSUME NEW w \in Week
                 PROVE  closed[w] + (IF FirstClosed(p) <= w /\ w < cur[p] THEN 1 ELSE 0) \in Nat
      BY <1>10 DEF Commit
    <3> QED
      BY DEF TypeOK
  <2>3. history' \subseteq Week \X Task
    BY <1>10 DEF TypeOK, ViewHolds, Commit, EndTx, Goto, PC, InTx, Week, NoCycle, NoArchive, Status, Keep
  <2>4. archivedIn' \in [Task -> Week \cup {NoCycle}]
    BY <1>10 DEF TypeOK, ViewHolds, Commit, EndTx, Goto, PC, InTx, Week, NoCycle, NoArchive, Status, Keep
  <2>5. pc' \in [Request -> PC]
    BY <1>10 DEF TypeOK, ViewHolds, Commit, EndTx, Goto, PC, InTx, Week, NoCycle, NoArchive, Status, Keep
  <2>6. arch' \in [Request -> [Task -> Week \cup {NoCycle}]]
    BY <1>10 DEF TypeOK, ViewHolds, Commit, EndTx, Goto, PC, InTx, Week, NoCycle, NoArchive, Status, Keep
  <2> QED
    BY <1>10, <2>1, <2>2, <2>3, <2>4, <2>5, <2>6 DEF TypeOK, Commit, EndTx, boardVars, taskVars, txVars, editVars, bounds
<1>11. ASSUME NEW p \in Request, PurgeTask(p) PROVE TypeOK'
  <2>1. ents' \in [Request -> SUBSET (Week \X Task)]
    BY <1>11 DEF TypeOK, PurgeTask, Goto, PC, InTx, Week, NoCycle, NoArchive, Status, Keep
  <2>2. evidence' \subseteq Task
    BY <1>11 DEF TypeOK, PurgeTask, Goto, PC, InTx, Week, NoCycle, NoArchive, Status, Keep
  <2> QED
    BY <1>11, <2>1, <2>2 DEF TypeOK, PurgeTask, boardVars, taskVars, txVars, editVars, bounds
<1>12. ASSUME NEW p \in Request, Respond(p) PROVE TypeOK'
  BY <1>12 DEF TypeOK, Respond, Goto, PC, InTx, NoArchive, NoCycle, Week, Status, Keep,
     boardVars, taskVars, txVars, editVars, bounds
<1>13. ASSUME NEW p \in Request, Fail(p) PROVE TypeOK'
  BY <1>13 DEF TypeOK, Fail, Rollback, EndTx, Goto, PC, InTx, NoArchive, NoCycle, Week, Status, Keep,
     boardVars, taskVars, txVars, editVars, bounds
<1>14. ASSUME NEW e \in Editor, LoadTask(e) PROVE TypeOK'
  <2>1. eTask' \in [Editor -> Task \cup {NoTask}]
    BY <1>14 DEF TypeOK, LoadTask, Goto, PC, InTx, Week, NoCycle, NoArchive, Status, Keep
  <2>2. eStatus' \in [Editor -> Status]
    BY <1>14 DEF TypeOK, LoadTask, Goto, PC, InTx, Week, NoCycle, NoArchive, Status, Keep
  <2>3. eArch' \in [Editor -> Week \cup {NoCycle}]
    BY <1>14 DEF TypeOK, LoadTask, Goto, PC, InTx, Week, NoCycle, NoArchive, Status, Keep
  <2>4. epc' \in [Editor -> {"idle", "loaded", "saving"}]
    BY <1>14 DEF TypeOK, LoadTask, Goto, PC, InTx, Week, NoCycle, NoArchive, Status, Keep
  <2> QED
    BY <1>14, <2>1, <2>2, <2>3, <2>4 DEF TypeOK, LoadTask, boardVars, taskVars, txVars, editVars, bounds
<1>15. ASSUME NEW e \in Editor, SaveDiff(e) PROVE TypeOK'
  BY <1>15 DEF TypeOK, SaveDiff, Goto, PC, InTx, NoArchive, NoCycle, Week, Status, Keep,
     boardVars, taskVars, txVars, editVars, bounds
<1>16. ASSUME NEW e \in Editor, SaveWrite(e) PROVE TypeOK'
  BY <1>16 DEF TypeOK, SaveWrite, Goto, PC, InTx, NoArchive, NoCycle, Week, Status, Keep,
     boardVars, taskVars, txVars, editVars, bounds
<1>17. ASSUME NEW t \in Task, UploadEvidence(t) PROVE TypeOK'
  BY <1>17 DEF TypeOK, UploadEvidence, Goto, PC, InTx, NoArchive, NoCycle, Week, Status, Keep,
     boardVars, taskVars, txVars, editVars, bounds
<1>18. CASE NextDay
  BY <1>18 DEF TypeOK, NextDay, boardVars, taskVars, txVars, editVars, bounds
<1>19. CASE UNCHANGED vars
  BY <1>19 DEF TypeOK, vars, boardVars, taskVars, txVars, editVars, bounds
<1> QED
  BY <1>1, <1>2, <1>3, <1>4, <1>5, <1>6, <1>7, <1>8, <1>9, <1>10, <1>11, <1>12, <1>13, <1>14, <1>15, <1>16, <1>17, <1>18, <1>19 DEF Next, Step, Edit

-----------------------------------------------------------------------------
(* The timeline.  What a step may do to the cycles and to the requests.      *)

boardView == <<active, closed, pc, held, cur>>

LEMMA InitBoard == Init => Timeline /\ OneWriter /\ ViewHolds
BY DEF Init, Timeline, OneWriter, ViewHolds, InTx

\* A request that has not locked anything yet and finds the row of window w
\* free is alone once it has it.
LEMMA FreeRowNobodyInTx ==
  ASSUME IndInv, NEW w \in Week, active[w] > 0, ~RowLocked(w)
  PROVE  active[w] = 1 /\ \A q \in Request : pc[q] \notin InTx
<1>1. active[w] = 1 /\ \A v \in Week : active[v] > 0 => v = w
  BY DEF IndInv, TypeOK, Timeline
<1> SUFFICES ASSUME NEW q \in Request, pc[q] \in InTx PROVE FALSE
  BY <1>1
<1>2. held[q] # NoCycle
  BY <1>1 DEF IndInv, ViewHolds
<1>3. held[q] \in Week /\ active[held[q]] = 1
  BY <1>2 DEF IndInv, TypeOK, ViewHolds
<1> QED
  BY <1>1, <1>3 DEF RowLocked

\* A step that only moves the request p, to a place where what it has read is
\* true.
LEMMA LocalStep ==
  ASSUME IndInv,
         NEW p \in Request,
         NEW s \in PC, NEW h \in Week \cup {NoCycle}, NEW c \in Week \cup {NoCycle},
         pc' = [pc EXCEPT ![p] = s],
         held' = [held EXCEPT ![p] = h],
         cur' = [cur EXCEPT ![p] = c],
         UNCHANGED <<active, closed>>,
         s \in InTx => \A q \in Request \ {p} : pc[q] \notin InTx,
         s \in {"idle", "find", "bootstrap", "purge"} => h = NoCycle /\ c = NoCycle,
         s = "blocked" => h # NoCycle /\ c = h,
         s \in InTx =>
           /\ c \in Week /\ h <= c
           /\ h # NoCycle => active[h] = 1
           /\ h = NoCycle => \A w \in Week : active[w] = 0,
         s = "archive" => c < MaxWeek
  PROVE  (Timeline /\ OneWriter /\ ViewHolds)'
<1>1. Timeline'
  BY DEF IndInv, Timeline
<1>2. /\ pc'[p] = s /\ held'[p] = h /\ cur'[p] = c
      /\ \A q \in Request \ {p} : pc'[q] = pc[q] /\ held'[q] = held[q] /\ cur'[q] = cur[q]
  BY DEF IndInv, TypeOK
<1>3. OneWriter'
  BY <1>2 DEF IndInv, OneWriter
<1>4. ViewHolds'
  BY <1>2 DEF IndInv, ViewHolds
<1> QED
  BY <1>1, <1>3, <1>4

\* When p is inside its transaction the others are not, and commit, rollback
\* and failure leave it with nothing.
LEMMA EndTxStep ==
  ASSUME IndInv, NEW p \in Request, NEW s \in {"idle", "purge"},
         EndTx(p, s), UNCHANGED <<active, closed>>
  PROVE  (Timeline /\ OneWriter /\ ViewHolds)'
<1>1. NoCycle \in Week \cup {NoCycle} /\ s \in PC /\ s \notin InTx
  BY DEF PC, InTx
<1> QED
  BY <1>1, LocalStep DEF EndTx, Goto, InTx

\* What a commit finds, and what it leaves: the window that the transaction had
\* locked is the active one, if there is any, and the one it got to will be.
LEMMA CommitEffect ==
  ASSUME IndInv, NEW p \in Request, Commit(p)
  PROVE  \A w \in Week :
           /\ active[w] = (IF w = held[p] THEN 1 ELSE 0)
           /\ closed[w] = (IF w < held[p] THEN 1 ELSE 0)
           /\ active'[w] = (IF w = cur[p] THEN 1 ELSE 0)
           /\ closed'[w] = (IF w < cur[p] THEN 1 ELSE 0)
<1>0. /\ NoCycle \notin Week /\ \A w \in Week : w \in Nat /\ NoCycle < w
      /\ NoCycle \in Int
  BY BoardAssumption DEF NoCycle, Week
<1>1. /\ pc[p] = "commit" /\ cur[p] \in Week /\ held[p] \in Week \cup {NoCycle}
      /\ held[p] <= cur[p]
  BY DEF Commit, IndInv, TypeOK, ViewHolds, InTx
<1>2. \A w \in Week :
        /\ closed'[w] = closed[w] + (IF FirstClosed(p) <= w /\ w < cur[p] THEN 1 ELSE 0)
        /\ active'[w] = active[w] + (IF w = cur[p] THEN 1 ELSE 0)
                                  - (IF w = held[p] THEN 1 ELSE 0)
  BY DEF Commit
<1>3. \A w \in Week : /\ active[w] = (IF w = held[p] THEN 1 ELSE 0)
                      /\ closed[w] = (IF w < held[p] THEN 1 ELSE 0)
  <2>1. CASE held[p] = NoCycle
    <3>1. \A w \in Week : active[w] = 0
      BY <1>1, <2>1 DEF IndInv, ViewHolds, InTx
    <3>2. \A w \in Week : closed[w] = 0
      BY <3>1 DEF IndInv, Timeline
    <3> QED
      BY <1>0, <2>1, <3>1, <3>2
  <2>2. CASE held[p] # NoCycle
    <3>1. held[p] \in Week /\ active[held[p]] = 1
      BY <1>1, <2>2 DEF IndInv, ViewHolds, InTx
    <3> QED
      BY <3>1 DEF IndInv, Timeline
  <2> QED
    BY <2>1, <2>2
<1>4. CASE held[p] = NoCycle
  <2>1. FirstClosed(p) = 0 /\ \A w \in Week : w # held[p] /\ 0 <= w
    BY <1>0, <1>4 DEF FirstClosed
  <2> QED
    BY <1>0, <1>1, <1>2, <1>3, <1>4, <2>1
<1>5. CASE held[p] # NoCycle
  BY <1>0, <1>1, <1>2, <1>3, <1>5 DEF FirstClosed
<1> QED
  BY <1>4, <1>5

LEMMA StepBoard == IndInv /\ [Next]_vars => (Timeline /\ OneWriter /\ ViewHolds)'
<1> SUFFICES ASSUME IndInv, [Next]_vars PROVE (Timeline /\ OneWriter /\ ViewHolds)'
  OBVIOUS
<1>0. /\ NoCycle \notin Week /\ Week \subseteq Int /\ NoCycle \in Int
      /\ \A w \in Week : NoCycle <= w /\ (w < MaxWeek => w + 1 \in Week)
  BY BoardAssumption DEF NoCycle, Week
<1>a. /\ held \in [Request -> Week \cup {NoCycle}] /\ cur \in [Request -> Week \cup {NoCycle}]
      /\ pc \in [Request -> PC]
      /\ \A q \in Request : held = [held EXCEPT ![q] = held[q]] /\ cur = [cur EXCEPT ![q] = cur[q]]
  BY DEF IndInv, TypeOK
<1>1. CASE UNCHANGED boardView
  BY <1>1 DEF boardView, IndInv, Timeline, OneWriter, ViewHolds
<1>2. ASSUME NEW p \in Request, BeginSync(p) \/ BeginAdvance(p)
      PROVE  (Timeline /\ OneWriter /\ ViewHolds)'
  <2>1. pc[p] = "idle" /\ pc' = [pc EXCEPT ![p] = "find"] /\ UNCHANGED <<active, closed, held, cur>>
    BY <1>2 DEF BeginSync, BeginAdvance, Goto, boardVars
  <2>2. held[p] = NoCycle /\ cur[p] = NoCycle
    BY <2>1 DEF IndInv, ViewHolds
  <2> QED
    BY <1>a, <2>1, <2>2, LocalStep DEF PC, InTx
<1>3. ASSUME NEW p \in Request, FindActive(p)
      PROVE  (Timeline /\ OneWriter /\ ViewHolds)'
  <2>0. pc[p] = "find" /\ held[p] = NoCycle /\ cur[p] = NoCycle /\ UNCHANGED <<active, closed>>
    BY <1>3 DEF IndInv, ViewHolds, FindActive, boardVars
  <2>1. CASE pc' = [pc EXCEPT ![p] = "bootstrap"] /\ UNCHANGED <<held, cur>>
    BY <1>a, <2>0, <2>1, LocalStep DEF PC, InTx
  <2>2. ASSUME NEW w \in ActiveWeeks,
               pc' = [pc EXCEPT ![p] = IF RowLocked(w) THEN "blocked" ELSE "locked"],
               held' = [held EXCEPT ![p] = w], cur' = [cur EXCEPT ![p] = w]
        PROVE  (Timeline /\ OneWriter /\ ViewHolds)'
    <3>0. w \in Week /\ active[w] > 0 /\ w <= w
      BY <1>0 DEF ActiveWeeks
    <3>1. CASE RowLocked(w)
      <4>1. pc' = [pc EXCEPT ![p] = "blocked"]
        BY <2>2, <3>1
      <4> QED
        BY <1>0, <2>0, <2>2, <3>0, <4>1, LocalStep DEF PC, InTx
    <3>2. CASE ~RowLocked(w)
      <4>1. pc' = [pc EXCEPT ![p] = "locked"]
        BY <2>2, <3>2
      <4>2. active[w] = 1 /\ \A q \in Request : pc[q] \notin InTx
        BY <3>0, <3>2, FreeRowNobodyInTx
      <4> QED
        BY <1>0, <2>0, <2>2, <3>0, <4>1, <4>2, LocalStep DEF PC, InTx
    <3> QED
      BY <3>1, <3>2
  <2> QED
    BY <1>3, <2>1, <2>2 DEF FindActive, Goto
<1>4. ASSUME NEW p \in Request, LockGranted(p)
      PROVE  (Timeline /\ OneWriter /\ ViewHolds)'
  <2>0. pc[p] = "blocked" /\ held[p] \in Week /\ UNCHANGED <<active, closed>>
    BY <1>4, <1>a DEF IndInv, ViewHolds, LockGranted, boardVars
  <2>1. CASE active[held[p]] > 0 /\ pc' = [pc EXCEPT ![p] = "locked"] /\ UNCHANGED <<held, cur>>
    <3>1. active[held[p]] = 1 /\ \A q \in Request : pc[q] \notin InTx
      BY <1>4, <2>0, <2>1, FreeRowNobodyInTx DEF LockGranted
    <3>2. cur[p] = held[p]
      BY <2>0 DEF IndInv, ViewHolds
    <3>3. held' = [held EXCEPT ![p] = held[p]] /\ cur' = [cur EXCEPT ![p] = cur[p]]
      BY <1>a, <2>1
    <3>4. cur[p] \in Week /\ held[p] <= cur[p] /\ held[p] # NoCycle /\ "locked" \in PC
      <4>1. held[p] \in Int /\ held[p] # NoCycle
        BY <1>0, <2>0
      <4> QED
        BY <2>0, <3>2, <4>1 DEF PC, InTx
    <3>5. pc' = [pc EXCEPT ![p] = "locked"] /\ UNCHANGED <<active, closed>>
      BY <2>0, <2>1
    <3> QED
      BY <3>1, <3>2, <3>3, <3>4, <3>5, LocalStep
  <2>2. CASE /\ pc' = [pc EXCEPT ![p] = "bootstrap"]
             /\ held' = [held EXCEPT ![p] = NoCycle]
             /\ cur' = [cur EXCEPT ![p] = NoCycle]
    BY <2>0, <2>2, LocalStep DEF PC, InTx
  <2> QED
    BY <1>4, <2>1, <2>2 DEF LockGranted, Goto
<1>5. ASSUME NEW p \in Request, Bootstrap(p)
      PROVE  (Timeline /\ OneWriter /\ ViewHolds)'
  <2>0. /\ pc[p] = "bootstrap" /\ held[p] = NoCycle /\ UNCHANGED <<active, closed, held>>
        /\ CurrentWeek \in Week /\ cur' = [cur EXCEPT ![p] = CurrentWeek]
    BY <1>5 DEF IndInv, ViewHolds, Bootstrap, boardVars
  <2>1. \A w \in Week : active[w] = 0
    BY <1>0, <1>5, <2>0 DEF IndInv, TypeOK, Bootstrap, OtherActive
  <2>2. \A q \in Request : pc[q] \notin InTx
    <3> SUFFICES ASSUME NEW q \in Request, pc[q] \in InTx PROVE FALSE
      OBVIOUS
    <3>1. cur[q] = held[q] /\ cur[q] \in Week
      BY <1>5 DEF IndInv, ViewHolds, Bootstrap, Inserted
    <3>2. active[held[q]] = 1
      BY <1>0, <3>1 DEF IndInv, ViewHolds
    <3> QED
      BY <2>1, <3>1, <3>2
  <2>3. CASE pc' = [pc EXCEPT ![p] = "locked"]
    BY <1>0, <1>a, <2>0, <2>1, <2>2, <2>3, LocalStep DEF PC, InTx
  <2>4. CASE pc' = [pc EXCEPT ![p] = "commit"]
    BY <1>0, <1>a, <2>0, <2>1, <2>2, <2>4, LocalStep DEF PC, InTx
  <2> QED
    BY <1>5, <2>3, <2>4 DEF Bootstrap, Goto
<1>6. ASSUME NEW p \in Request, BootstrapRefused(p) \/ Fail(p)
      PROVE  (Timeline /\ OneWriter /\ ViewHolds)'
  BY <1>6, EndTxStep DEF BootstrapRefused, Fail, Rollback, boardVars
<1>7. ASSUME NEW p \in Request, ReadTasks(p) \/ SyncDone(p)
      PROVE  (Timeline /\ OneWriter /\ ViewHolds)'
  <2>a. pc[p] = "locked" /\ UNCHANGED <<active, closed, held, cur>>
    BY <1>7 DEF ReadTasks, SyncDone, boardVars, txVars
  <2>b. \A q \in Request \ {p} : pc[q] \notin InTx
    BY <2>a DEF IndInv, OneWriter, InTx
  <2>c. /\ cur[p] \in Week /\ held[p] <= cur[p]
        /\ held[p] # NoCycle => active[held[p]] = 1
        /\ held[p] = NoCycle => \A w \in Week : active[w] = 0
    BY <2>a DEF IndInv, ViewHolds, InTx
  <2>1. CASE ReadTasks(p)
    <3>1. pc' = [pc EXCEPT ![p] = "archive"] /\ cur[p] < MaxWeek
      BY <2>1 DEF ReadTasks, Goto
    <3>2. /\ held' = [held EXCEPT ![p] = held[p]] /\ cur' = [cur EXCEPT ![p] = cur[p]]
          /\ held[p] \in Week \cup {NoCycle} /\ "archive" \in PC
          /\ UNCHANGED <<active, closed>>
      BY <1>a, <2>a DEF PC, InTx
    <3> QED
      BY <2>b, <2>c, <3>1, <3>2, LocalStep
  <2>2. CASE SyncDone(p)
    <3>1. pc' = [pc EXCEPT ![p] = "commit"]
      BY <2>2 DEF SyncDone, Goto
    <3>2. /\ held' = [held EXCEPT ![p] = held[p]] /\ cur' = [cur EXCEPT ![p] = cur[p]]
          /\ held[p] \in Week \cup {NoCycle} /\ "commit" \in PC
          /\ UNCHANGED <<active, closed>>
      BY <1>a, <2>a DEF PC, InTx
    <3> QED
      BY <2>b, <2>c, <3>1, <3>2, LocalStep
  <2> QED
    BY <1>7, <2>1, <2>2
<1>8. ASSUME NEW p \in Request, CloseAndAdvance(p)
      PROVE  (Timeline /\ OneWriter /\ ViewHolds)'
  <2>a. /\ pc[p] = "archive" /\ UNCHANGED <<active, closed, held>>
        /\ cur' = [cur EXCEPT ![p] = cur[p] + 1]
    BY <1>8 DEF CloseAndAdvance, boardVars
  <2>b. \A q \in Request \ {p} : pc[q] \notin InTx
    BY <2>a DEF IndInv, OneWriter, InTx
  <2>c. /\ cur[p] \in Week /\ held[p] <= cur[p] /\ cur[p] < MaxWeek
        /\ held[p] # NoCycle => active[held[p]] = 1
        /\ held[p] = NoCycle => \A w \in Week : active[w] = 0
    BY <2>a DEF IndInv, ViewHolds, InTx
  <2>1. cur[p] + 1 \in Week /\ held[p] <= cur[p] + 1
    BY <1>a, <2>c, BoardAssumption DEF Week, NoCycle
  <2>d. /\ held' = [held EXCEPT ![p] = held[p]]
        /\ held[p] \in Week \cup {NoCycle} /\ {"commit", "locked"} \subseteq PC
    BY <1>a, <2>a DEF PC, InTx
  <2>2. CASE pc' = [pc EXCEPT ![p] = "commit"]
    BY <2>a, <2>b, <2>c, <2>d, <2>1, <2>2, LocalStep
  <2>3. CASE pc' = [pc EXCEPT ![p] = "locked"]
    BY <2>a, <2>b, <2>c, <2>d, <2>1, <2>3, LocalStep
  <2> QED
    BY <1>8, <2>2, <2>3 DEF CloseAndAdvance, Goto
<1>9. ASSUME NEW p \in Request, Commit(p)
      PROVE  (Timeline /\ OneWriter /\ ViewHolds)'
  <2>0. /\ pc[p] = "commit" /\ cur[p] \in Week /\ held[p] <= cur[p]
        /\ \A q \in Request \ {p} : pc[q] \notin InTx
    BY <1>9 DEF Commit, IndInv, ViewHolds, OneWriter, InTx
  <2>1. \A w \in Week : /\ active'[w] = (IF w = cur[p] THEN 1 ELSE 0)
                        /\ closed'[w] = (IF w < cur[p] THEN 1 ELSE 0)
    BY <1>9, CommitEffect
  <2>2. Timeline'
    BY <2>0, <2>1 DEF Timeline
  <2>3. /\ pc'[p] = "purge" /\ held'[p] = NoCycle /\ cur'[p] = NoCycle
        /\ \A q \in Request \ {p} : pc'[q] = pc[q] /\ held'[q] = held[q] /\ cur'[q] = cur[q]
    BY <1>9, <1>a DEF Commit, EndTx, Goto
  <2>4. OneWriter'
    BY <2>0, <2>3 DEF OneWriter, InTx
  <2>5. ViewHolds'
    BY <2>0, <2>3 DEF IndInv, ViewHolds, InTx
  <2> QED
    BY <2>2, <2>4, <2>5
<1>10. ASSUME NEW p \in Request, PurgeTask(p)
       PROVE  (Timeline /\ OneWriter /\ ViewHolds)'
  BY <1>1, <1>10 DEF PurgeTask, boardView, boardVars
<1>11. ASSUME NEW p \in Request, Respond(p)
       PROVE  (Timeline /\ OneWriter /\ ViewHolds)'
  <2>1. pc[p] = "purge" /\ pc' = [pc EXCEPT ![p] = "idle"] /\ UNCHANGED <<active, closed, held, cur>>
    BY <1>11 DEF Respond, Goto, boardVars
  <2>2. held[p] = NoCycle /\ cur[p] = NoCycle
    BY <2>1 DEF IndInv, ViewHolds
  <2> QED
    BY <1>a, <2>1, <2>2, LocalStep DEF PC, InTx
<1>12. ASSUME NEW e \in Editor, Edit(e) PROVE (Timeline /\ OneWriter /\ ViewHolds)'
  BY <1>1, <1>12 DEF Edit, LoadTask, SaveDiff, SaveWrite, boardView, boardVars, txVars
<1>13. CASE NextDay \/ (\E t \in Task : UploadEvidence(t)) \/ UNCHANGED vars
  BY <1>1, <1>13 DEF NextDay, UploadEvidence, vars, boardView, boardVars, txVars
<1> QED
  BY <1>2, <1>3, <1>4, <1>5, <1>6, <1>7, <1>8, <1>9, <1>10, <1>11, <1>12, <1>13 DEF Next, Step

\* The conjunction of the four invariants is inductive and so holds always.
THEOREM Inductive == Spec => []IndInv
<1>1. Init => IndInv
  BY InitTypes, InitBoard DEF IndInv
<1>2. IndInv /\ [Next]_vars => IndInv'
  BY StepTypes, StepBoard DEF IndInv
<1> QED
  BY <1>1, <1>2, PTL DEF Spec

\* Every variable of the board cycles keeps its type.
THEOREM TypeCorrect == Spec => []TypeOK
<1>1. IndInv => TypeOK
  BY DEF IndInv
<1> QED
  BY <1>1, Inductive, PTL

\* The project's windows are entered one after the other, each once, and the
\* last is active, however many requests sync and advance at the same time.
THEOREM TimelineCorrect == Spec => []Timeline
<1>1. IndInv => Timeline
  BY DEF IndInv
<1> QED
  BY <1>1, Inductive, PTL

\* No two requests are past the row lock or the index at once, and what a
\* transaction has read of the cycles stays true until it ends.
THEOREM WritersExclude == Spec => [](OneWriter /\ ViewHolds)
<1>1. IndInv => OneWriter /\ ViewHolds
  BY DEF IndInv
<1> QED
  BY <1>1, Inductive, PTL

-----------------------------------------------------------------------------
(* What is filed and purged.  A transaction names only windows that it will  *)
(* have closed, and how far it goes depends on who asked for it.             *)

\* What p has written and not committed, or committed and not yet purged.
CarriedBy(p) ==
  /\ pc[p] \notin InTx => arch[p] = NoArchive
  /\ pc[p] \notin InTx \cup {"purge"} => ents[p] = {}
  /\ pc[p] = "purge" => ents[p] \subseteq history
  /\ pc[p] \in InTx =>
       /\ \A t \in Task : arch[p][t] < cur[p]
       /\ \A h \in ents[p] : h[1] < cur[p] \/ (pc[p] = "archive" /\ h[1] = cur[p])

\* How far p has got: a sync goes no further than the calendar, a manual
\* advance one window further than where it began.
PacedBy(p) ==
  pc[p] \in InTx =>
    /\ op[p] = "sync" =>
         /\ cur[p] = held[p] \/ cur[p] <= CurrentWeek
         /\ pc[p] = "archive" => cur[p] < CurrentWeek
    /\ op[p] = "advance" =>
         \/ pc[p] # "commit" /\ cur[p] = held[p]
         \/ pc[p] # "commit" /\ held[p] = NoCycle /\ cur[p] <= CurrentWeek
         \/ pc[p] = "commit" /\ held[p] # NoCycle /\ cur[p] = held[p] + 1
         \/ pc[p] = "commit" /\ held[p] = NoCycle /\ cur[p] <= CurrentWeek + 1

\* The entities that update calls hold name closed windows, too.
EntitiesFiled == \A e \in Editor : eArch[e] # NoCycle => closed[eArch[e]] > 0

FiledInv ==
  /\ IndInv
  /\ FiledUnderClosed
  /\ EntitiesFiled
  /\ \A p \in Request : CarriedBy(p) /\ PacedBy(p)

\* The invariant without the part that is proved already.
FiledParts ==
  /\ FiledUnderClosed
  /\ EntitiesFiled
  /\ \A p \in Request : CarriedBy(p) /\ PacedBy(p)

LEMMA TimesMonotonic ==
  ASSUME NEW a \in Nat, NEW b \in Nat, NEW d \in Nat, a <= b
  PROVE  a * d <= b * d
<1>1. PICK c \in Nat : b = a + c
  <2>1. b - a \in Nat /\ b = a + (b - a)
    OBVIOUS
  <2> QED
    BY <2>1
<1>2. b * d = a * d + c * d
  BY <1>1
<1>3. c * d \in Nat /\ a * d \in Nat
  OBVIOUS
<1> QED
  BY <1>2, <1>3

LEMMA Quotient ==
  ASSUME NEW d \in Nat \ {0}, NEW n \in Nat
  PROVE  n \div d \in Nat /\ (n \div d) * d <= n /\ n < (n \div d) * d + d
OBVIOUS

LEMMA BelowQuotient ==
  ASSUME NEW d \in Nat \ {0}, NEW n \in Nat, NEW k \in Nat
  PROVE  k <= n \div d <=> k * d <= n
<1> DEFINE q == n \div d
<1>1. q \in Nat /\ q * d <= n /\ n < q * d + d
  BY Quotient
<1> HIDE DEF q
<1>2. k <= q => k * d <= q * d
  BY <1>1, TimesMonotonic
<1>3. q + 1 <= k => (q + 1) * d <= k * d
  BY <1>1, TimesMonotonic
<1>4. (q + 1) * d = q * d + d
  BY <1>1
<1>5. k * d \in Nat /\ q * d \in Nat
  BY <1>1
<1>6. k <= q <=> k * d <= n
  BY <1>1, <1>2, <1>3, <1>4, <1>5
<1> QED
  BY <1>6 DEF q

\* The windows that have ended are those before the current one.
LEMMA EndedIsPast ==
  ASSUME TypeOK
  PROVE  CurrentWeek \in Nat /\ \A w \in Week : Ended(w) <=> w < CurrentWeek
<1>1. today \in Nat /\ CycleDays \in Nat \ {0}
  BY BoardAssumption DEF TypeOK
<1>2. CurrentWeek = today \div CycleDays
  BY <1>1 DEF CurrentWeek, Calendar!CycleIndex
<1>3. CurrentWeek \in Nat
  BY <1>1, <1>2, Quotient
<1>4. ASSUME NEW w \in Week PROVE Ended(w) <=> w < CurrentWeek
  <2>1. w \in Nat /\ w + 1 \in Nat
    BY BoardAssumption DEF Week
  <2>2. w + 1 <= CurrentWeek <=> (w + 1) * CycleDays <= today
    BY <1>1, <1>2, <2>1, BelowQuotient
  <2>3. (w + 1) * CycleDays = w * CycleDays + CycleDays /\ w * CycleDays \in Nat
    BY <1>1, <2>1
  <2>4. Ended(w) <=> today > 0 + w * CycleDays + (CycleDays - 1)
    BY DEF Ended, EndDate, Calendar!Window, Calendar!isCyclePeriodEnded
  <2> QED
    BY <1>1, <1>3, <2>1, <2>2, <2>3, <2>4
<1> QED
  BY <1>3, <1>4

LEMMA WeekPasses == TypeOK /\ TypeOK' /\ today <= today' => CurrentWeek <= CurrentWeek'
<1> SUFFICES ASSUME TypeOK, TypeOK', today <= today' PROVE CurrentWeek <= CurrentWeek'
  OBVIOUS
<1>1. today \in Nat /\ today' \in Nat /\ CycleDays \in Nat \ {0}
  BY BoardAssumption DEF TypeOK
<1>2. CurrentWeek = today \div CycleDays /\ CurrentWeek' = today' \div CycleDays
  BY <1>1 DEF CurrentWeek, Calendar!CycleIndex
<1> DEFINE q == today \div CycleDays
<1>3. q \in Nat /\ q * CycleDays <= today /\ q * CycleDays \in Nat
  BY <1>1, Quotient
<1> HIDE DEF q
<1>4. q * CycleDays <= today'
  BY <1>1, <1>3
<1>5. q <= today' \div CycleDays
  BY <1>1, <1>3, <1>4, BelowQuotient
<1> QED
  BY <1>2, <1>5 DEF q

LEMMA InitFiled == Init => FiledParts
BY DEF Init, FiledParts, FiledUnderClosed, EntitiesFiled, CarriedBy, PacedBy, NoArchive, NoCycle,
   InTx

\* What p does is no concern of the others.
LEMMA OthersFiled ==
  ASSUME FiledInv, NEW p \in Request,
         \A q \in Request \ {p} :
           /\ pc'[q] = pc[q] /\ op'[q] = op[q] /\ held'[q] = held[q] /\ cur'[q] = cur[q]
           /\ ents'[q] = ents[q] /\ arch'[q] = arch[q],
         today' = today, history \subseteq history',
         CarriedBy(p)' /\ PacedBy(p)'
  PROVE  \A q \in Request : (CarriedBy(q) /\ PacedBy(q))'
<1> SUFFICES ASSUME NEW q \in Request \ {p} PROVE (CarriedBy(q) /\ PacedBy(q))'
  OBVIOUS
<1>1. CarriedBy(q) /\ PacedBy(q)
  BY DEF FiledInv
<1>2. CarriedBy(q)'
  BY <1>1 DEF CarriedBy
<1>3. CurrentWeek' = CurrentWeek
  BY DEF CurrentWeek
<1>4. PacedBy(q)'
  BY <1>1, <1>3 DEF PacedBy
<1> QED
  BY <1>2, <1>4

\* A step that moves p and leaves the cycles, what is filed and the editors
\* alone.
LEMMA MoveFiled ==
  ASSUME FiledInv, NEW p \in Request,
         \A q \in Request \ {p} :
           /\ pc'[q] = pc[q] /\ op'[q] = op[q] /\ held'[q] = held[q] /\ cur'[q] = cur[q]
           /\ ents'[q] = ents[q] /\ arch'[q] = arch[q],
         UNCHANGED <<today, closed, history, archivedIn, eArch>>,
         CarriedBy(p)' /\ PacedBy(p)'
  PROVE  FiledParts'
<1>1. \A q \in Request : (CarriedBy(q) /\ PacedBy(q))'
  BY OthersFiled
<1>2. FiledUnderClosed' /\ EntitiesFiled'
  BY DEF FiledInv, FiledUnderClosed, EntitiesFiled
<1> QED
  BY <1>1, <1>2 DEF FiledParts

\* A rollback, or a failure, leaves nothing behind.
LEMMA RollbackFiled ==
  ASSUME FiledInv, NEW p \in Request, Rollback(p)
  PROVE  FiledParts'
<1>1. /\ pc' = [pc EXCEPT ![p] = "idle"] /\ held' = [held EXCEPT ![p] = NoCycle]
      /\ cur' = [cur EXCEPT ![p] = NoCycle] /\ arch' = [arch EXCEPT ![p] = NoArchive]
      /\ ents' = [ents EXCEPT ![p] = {}] /\ op' = [op EXCEPT ![p] = "sync"]
      /\ UNCHANGED <<today, closed, history, archivedIn, eArch>>
  BY DEF Rollback, EndTx, Goto, boardVars, taskVars, editVars
<1>2. \A q \in Request \ {p} :
           /\ pc'[q] = pc[q] /\ op'[q] = op[q] /\ held'[q] = held[q] /\ cur'[q] = cur[q]
           /\ ents'[q] = ents[q] /\ arch'[q] = arch[q]
  BY <1>1 DEF FiledInv, IndInv, TypeOK
<1>3. pc'[p] = "idle" /\ arch'[p] = NoArchive /\ ents'[p] = {}
  BY <1>1 DEF FiledInv, IndInv, TypeOK
<1>4. CarriedBy(p)' /\ PacedBy(p)'
  BY <1>3 DEF CarriedBy, PacedBy, InTx
<1> QED
  BY <1>1, <1>2, <1>4, MoveFiled

LEMMA RequestFiled ==
  ASSUME FiledInv, NEW p \in Request,
         \/ BeginSync(p) \/ BeginAdvance(p) \/ FindActive(p) \/ LockGranted(p) \/ Bootstrap(p)
         \/ ReadTasks(p) \/ CloseAndAdvance(p) \/ SyncDone(p) \/ PurgeTask(p) \/ Respond(p)
  PROVE  FiledParts'
<1>0. TypeOK /\ ViewHolds /\ CarriedBy(p) /\ PacedBy(p)
  BY DEF FiledInv, IndInv
<1>a. /\ \A w \in Week : NoCycle < w /\ w \in Int
      /\ NoCycle \in Int /\ CurrentWeek \in Nat
      /\ \A w \in Week : Ended(w) <=> w < CurrentWeek
  BY <1>0, BoardAssumption, EndedIsPast DEF Week, NoCycle
<1>b. UNCHANGED <<today, closed, history, archivedIn, eArch>>
  BY DEF BeginSync, BeginAdvance, FindActive, LockGranted, Bootstrap, ReadTasks, CloseAndAdvance,
     SyncDone, PurgeTask, Respond, boardVars, taskVars, editVars
<1>c. CurrentWeek' = CurrentWeek
  BY <1>b DEF CurrentWeek
<1>d. \A q \in Request \ {p} :
           /\ pc'[q] = pc[q] /\ op'[q] = op[q] /\ held'[q] = held[q] /\ cur'[q] = cur[q]
           /\ ents'[q] = ents[q] /\ arch'[q] = arch[q]
  BY <1>0 DEF TypeOK, BeginSync, BeginAdvance, FindActive, LockGranted, Bootstrap, ReadTasks,
     CloseAndAdvance, SyncDone, PurgeTask, Respond, txVars, Goto
<1> SUFFICES CarriedBy(p)' /\ PacedBy(p)'
  BY <1>b, <1>d, MoveFiled
<1>1. CASE BeginSync(p) \/ BeginAdvance(p)
  <2>1. pc[p] = "idle" /\ pc'[p] = "find" /\ UNCHANGED <<ents, arch>>
    BY <1>0, <1>1 DEF BeginSync, BeginAdvance, Goto, TypeOK
  <2> QED
    BY <1>0, <2>1 DEF CarriedBy, PacedBy, InTx
<1>2. CASE FindActive(p)
  <2>1. pc[p] = "find" /\ UNCHANGED <<op, ents, arch>>
    BY <1>2 DEF FindActive
  <2>2. \/ pc'[p] \in {"bootstrap", "blocked"}
        \/ pc'[p] = "locked" /\ held'[p] = cur'[p] /\ cur'[p] \in Week
    BY <1>0, <1>2 DEF FindActive, Goto, TypeOK, ActiveWeeks
  <2>3. ents[p] = {} /\ arch[p] = NoArchive
    BY <1>0, <2>1 DEF CarriedBy, InTx
  <2>4. CarriedBy(p)'
    BY <1>a, <2>1, <2>2, <2>3 DEF CarriedBy, InTx, NoArchive
  <2>5. op[p] \in {"sync", "advance"}
    BY <1>0 DEF TypeOK
  <2>6. PacedBy(p)'
    BY <1>a, <2>1, <2>2, <2>5 DEF PacedBy, InTx
  <2> QED
    BY <2>4, <2>6
<1>3. CASE LockGranted(p)
  <2>1. pc[p] = "blocked" /\ UNCHANGED <<op, ents, arch>>
    BY <1>3 DEF LockGranted
  <2>2. cur[p] = held[p] /\ cur[p] \in Week
    BY <1>0, <2>1 DEF ViewHolds, TypeOK
  <2>3. \/ pc'[p] = "bootstrap"
        \/ pc'[p] = "locked" /\ held'[p] = cur'[p] /\ cur'[p] \in Week
    BY <1>0, <1>3, <2>2 DEF LockGranted, Goto, TypeOK
  <2>4. ents[p] = {} /\ arch[p] = NoArchive
    BY <1>0, <2>1 DEF CarriedBy, InTx
  <2>5. CarriedBy(p)'
    BY <1>a, <2>1, <2>3, <2>4 DEF CarriedBy, InTx, NoArchive
  <2>6. PacedBy(p)'
    BY <1>a, <2>1, <2>3 DEF PacedBy, InTx
  <2> QED
    BY <2>5, <2>6
<1>4. CASE Bootstrap(p)
  <2>1. pc[p] = "bootstrap" /\ CurrentWeek \in Week /\ UNCHANGED <<op, held, ents, arch>>
    BY <1>4 DEF Bootstrap
  <2>2. held[p] = NoCycle
    BY <1>0, <2>1 DEF ViewHolds
  <2>3. cur'[p] = CurrentWeek /\ pc'[p] = (IF op[p] = "advance" THEN "locked" ELSE "commit")
    BY <1>0, <1>4 DEF Bootstrap, Goto, TypeOK
  <2>4. ents[p] = {} /\ arch[p] = NoArchive
    BY <1>0, <2>1 DEF CarriedBy, InTx
  <2>5. CarriedBy(p)'
    BY <1>a, <2>1, <2>3, <2>4 DEF CarriedBy, InTx, NoArchive
  <2>6. PacedBy(p)'
    BY <1>a, <1>c, <2>1, <2>2, <2>3 DEF PacedBy, InTx
  <2> QED
    BY <2>5, <2>6
<1>5. CASE ReadTasks(p)
  <2>1. /\ pc[p] = "locked" /\ pc'[p] = "archive" /\ MustClose(p)
        /\ UNCHANGED <<op, held, cur, arch>>
        /\ ents'[p] = ents[p] \cup ({cur[p]} \X selectTasksForArchival(p))
    BY <1>0, <1>5 DEF ReadTasks, Goto, TypeOK
  <2>2. cur[p] \in Week
    BY <1>0, <2>1 DEF ViewHolds, InTx
  <2>3. CarriedBy(p)'
    BY <1>0, <2>1 DEF CarriedBy, InTx
  <2>4. op[p] = "sync" => cur[p] < CurrentWeek
    BY <1>a, <2>1, <2>2 DEF MustClose
  <2>5. PacedBy(p)'
    BY <1>0, <1>a, <1>c, <2>1, <2>2, <2>4 DEF PacedBy, InTx
  <2> QED
    BY <2>3, <2>5
<1>6. CASE CloseAndAdvance(p)
  <2>1. /\ pc[p] = "archive" /\ pc'[p] = (IF op[p] = "advance" THEN "commit" ELSE "locked")
        /\ cur'[p] = cur[p] + 1
        /\ UNCHANGED <<op, held, ents>>
        /\ arch'[p] = [t \in Task |-> IF t \in ArchiveSet(p) THEN cur[p] ELSE arch[p][t]]
    BY <1>0, <1>6 DEF CloseAndAdvance, Goto, TypeOK
  <2>2. cur[p] \in Week /\ held[p] \in Week \cup {NoCycle} /\ ents[p] \subseteq Week \X Task
        /\ \A t \in Task : arch[p][t] \in Week \cup {NoCycle}
    BY <1>0, <2>1 DEF ViewHolds, InTx, TypeOK
  <2>3. CarriedBy(p)'
    <3>1. \A t \in Task : arch'[p][t] < cur'[p]
      BY <1>0, <1>a, <2>1, <2>2 DEF CarriedBy, InTx
    <3>2. \A h \in ents[p] : h[1] \in Int /\ h[1] <= cur[p]
      BY <1>0, <1>a, <2>1, <2>2 DEF CarriedBy, InTx
    <3>3. \A h \in ents'[p] : h[1] < cur'[p]
      BY <1>a, <2>1, <2>2, <3>2
    <3> QED
      BY <2>1, <3>1, <3>3 DEF CarriedBy, InTx
  <2>4. PacedBy(p)'
    <3>1. CASE op[p] = "sync"
      BY <1>0, <1>a, <1>c, <2>1, <2>2, <3>1 DEF PacedBy, InTx
    <3>2. CASE op[p] = "advance"
      BY <1>0, <1>a, <1>c, <2>1, <2>2, <3>2 DEF PacedBy, InTx
    <3> QED
      BY <1>0, <3>1, <3>2 DEF TypeOK
  <2> QED
    BY <2>3, <2>4
<1>7. CASE SyncDone(p)
  <2>1. /\ pc[p] = "locked" /\ pc'[p] = "commit" /\ op[p] # "advance"
        /\ UNCHANGED <<op, held, cur, ents, arch>>
    BY <1>0, <1>7 DEF SyncDone, MustClose, Goto, TypeOK, txVars
  <2>2. CarriedBy(p)'
    BY <1>0, <2>1 DEF CarriedBy, InTx
  <2>3. PacedBy(p)'
    BY <1>0, <1>c, <2>1 DEF PacedBy, InTx
  <2> QED
    BY <2>2, <2>3
<1>8. CASE PurgeTask(p)
  <2>1. pc[p] = "purge" /\ UNCHANGED <<pc, history, arch>> /\ ents'[p] \subseteq ents[p]
    BY <1>0, <1>8 DEF PurgeTask, TypeOK, boardVars
  <2> QED
    BY <1>0, <2>1 DEF CarriedBy, PacedBy, InTx
<1>9. CASE Respond(p)
  <2>1. pc[p] = "purge" /\ pc'[p] = "idle" /\ ents[p] = {} /\ UNCHANGED <<ents, arch>>
    BY <1>0, <1>9 DEF Respond, Goto, TypeOK
  <2> QED
    BY <1>0, <2>1 DEF CarriedBy, PacedBy, InTx
<1> QED
  BY <1>1, <1>2, <1>3, <1>4, <1>5, <1>6, <1>7, <1>8, <1>9

\* A commit closes the windows it files under.
LEMMA CommitFiled ==
  ASSUME FiledInv, NEW p \in Request, Commit(p)
  PROVE  FiledParts'
<1>0. TypeOK /\ CarriedBy(p) /\ pc[p] = "commit"
  BY DEF FiledInv, IndInv, Commit
<1>1. \A w \in Week : /\ closed[w] = (IF w < held[p] THEN 1 ELSE 0)
                      /\ closed'[w] = (IF w < cur[p] THEN 1 ELSE 0)
  BY CommitEffect DEF FiledInv
<1>2. held[p] <= cur[p] /\ cur[p] \in Week /\ held[p] \in Week \cup {NoCycle}
  BY <1>0 DEF FiledInv, IndInv, ViewHolds, TypeOK, InTx
<1>3. \A w \in Week : w \in Nat /\ NoCycle < w
  BY BoardAssumption DEF NoCycle, Week
<1>4. \A w \in Week : closed[w] > 0 => closed'[w] > 0
  BY <1>1, <1>2, <1>3 DEF NoCycle
<1>5. /\ history' = history \cup ents[p]
      /\ archivedIn' = [t \in Task |-> IF arch[p][t] = NoCycle THEN archivedIn[t] ELSE arch[p][t]]
      /\ pc'[p] = "purge" /\ arch'[p] = NoArchive
      /\ UNCHANGED <<today, op, ents, eArch>>
      /\ \A q \in Request \ {p} :
           /\ pc'[q] = pc[q] /\ op'[q] = op[q] /\ held'[q] = held[q] /\ cur'[q] = cur[q]
           /\ ents'[q] = ents[q] /\ arch'[q] = arch[q]
  BY <1>0 DEF Commit, EndTx, Goto, TypeOK, editVars
<1>6. FiledUnderClosed'
  <2>1. ASSUME NEW h \in history' PROVE closed'[h[1]] > 0
    <3>1. CASE h \in history
      <4>1. h[1] \in Week /\ closed[h[1]] > 0
        BY <1>0, <3>1 DEF TypeOK, FiledInv, FiledUnderClosed
      <4> QED
        BY <1>4, <4>1
    <3>2. CASE h \in ents[p]
      <4>1. h[1] \in Week /\ h[1] < cur[p]
        BY <1>0, <3>2 DEF TypeOK, CarriedBy, InTx
      <4> QED
        BY <1>1, <4>1
    <3> QED
      BY <1>5, <2>1, <3>1, <3>2
  <2>2. ASSUME NEW t \in Task, archivedIn'[t] # NoCycle PROVE closed'[archivedIn'[t]] > 0
    <3>1. CASE arch[p][t] = NoCycle
      <4>1. archivedIn'[t] = archivedIn[t] /\ archivedIn[t] \in Week
        BY <1>0, <1>5, <2>2, <3>1 DEF TypeOK
      <4>2. closed[archivedIn[t]] > 0
        BY <2>2, <4>1 DEF FiledInv, FiledUnderClosed
      <4> QED
        BY <1>4, <4>1, <4>2
    <3>2. CASE arch[p][t] # NoCycle
      <4>1. archivedIn'[t] = arch[p][t] /\ arch[p][t] \in Week /\ arch[p][t] < cur[p]
        BY <1>0, <1>5, <3>2 DEF TypeOK, CarriedBy, InTx
      <4> QED
        BY <1>1, <4>1
    <3> QED
      BY <3>1, <3>2
  <2> QED
    BY <2>1, <2>2 DEF FiledUnderClosed
<1>7. EntitiesFiled'
  <2> SUFFICES ASSUME NEW e \in Editor, eArch[e] # NoCycle PROVE closed'[eArch[e]] > 0
    BY <1>5 DEF EntitiesFiled
  <2>1. eArch[e] \in Week /\ closed[eArch[e]] > 0
    BY <1>0 DEF TypeOK, FiledInv, EntitiesFiled
  <2> QED
    BY <1>4, <2>1
<1>8. CarriedBy(p)' /\ PacedBy(p)'
  BY <1>5 DEF CarriedBy, PacedBy, InTx
<1>9. \A q \in Request : (CarriedBy(q) /\ PacedBy(q))'
  BY <1>5, <1>8, OthersFiled
<1> QED
  BY <1>6, <1>7, <1>9 DEF FiledParts

\* What an update call saves, it has loaded from a row.
LEMMA EditFiled ==
  ASSUME FiledInv, NEW e \in Editor, Edit(e)
  PROVE  FiledParts'
<1>0. TypeOK /\ FiledUnderClosed /\ EntitiesFiled
  BY DEF FiledInv, IndInv
<1>1. UNCHANGED <<today, closed, history, pc, op, held, cur, ents, arch>>
  BY DEF Edit, LoadTask, SaveDiff, SaveWrite, boardVars, txVars
<1>2. \A q \in Request : (CarriedBy(q) /\ PacedBy(q))'
  BY <1>1 DEF FiledInv, CarriedBy, PacedBy, CurrentWeek
<1>3. CASE LoadTask(e)
  <2>1. PICK t \in Task : eArch' = [eArch EXCEPT ![e] = archivedIn[t]]
    BY <1>3 DEF LoadTask
  <2>2. EntitiesFiled'
    BY <1>0, <1>1, <2>1 DEF EntitiesFiled, FiledUnderClosed, TypeOK
  <2>3. FiledUnderClosed'
    BY <1>0, <1>1, <1>3 DEF LoadTask, FiledUnderClosed, taskVars
  <2> QED
    BY <1>2, <2>2, <2>3 DEF FiledParts
<1>4. CASE SaveDiff(e)
  BY <1>0, <1>1, <1>2, <1>4 DEF SaveDiff, FiledParts, FiledUnderClosed, EntitiesFiled, taskVars
<1>5. CASE SaveWrite(e)
  <2>1. /\ eArch' = [eArch EXCEPT ![e] = NoCycle]
        /\ archivedIn' = [archivedIn EXCEPT ![eTask[e]] =
                            IF "archivedIn" \in eDirty[e] THEN eArch[e] ELSE archivedIn[eTask[e]]]
    BY <1>5 DEF SaveWrite
  <2>2. EntitiesFiled'
    BY <1>0, <1>1, <2>1 DEF EntitiesFiled, TypeOK
  <2>3. \A t \in Task : archivedIn'[t] \in {archivedIn[t], eArch[e]}
    BY <1>0, <2>1 DEF TypeOK
  <2>4. FiledUnderClosed'
    BY <1>0, <1>1, <2>3 DEF FiledUnderClosed, EntitiesFiled
  <2> QED
    BY <1>2, <2>2, <2>4 DEF FiledParts
<1> QED
  BY <1>3, <1>4, <1>5 DEF Edit

LEMMA StepFiled == FiledInv /\ [Next]_vars => FiledInv'
<1> SUFFICES ASSUME FiledInv, [Next]_vars PROVE FiledInv'
  OBVIOUS
<1>0. IndInv'
  BY StepTypes, StepBoard DEF FiledInv, IndInv
<1> SUFFICES FiledParts'
  BY <1>0 DEF FiledInv, FiledParts
<1>1. ASSUME NEW p \in Request, BootstrapRefused(p) \/ Fail(p) PROVE FiledParts'
  BY <1>1, RollbackFiled DEF BootstrapRefused, Fail
<1>2. ASSUME NEW t \in Task, UploadEvidence(t) PROVE FiledParts'
  BY <1>2 DEF UploadEvidence, FiledInv, FiledParts, FiledUnderClosed, EntitiesFiled, CarriedBy,
     PacedBy, CurrentWeek, boardVars, taskVars, txVars, editVars
<1>3. CASE NextDay
  <2>1. /\ UNCHANGED <<closed, history, archivedIn, eArch, pc, op, held, cur, ents, arch>>
        /\ today' = today + 1
    BY <1>3 DEF NextDay, boardVars, taskVars, txVars, editVars
  <2>2. CurrentWeek \in Nat /\ CurrentWeek' \in Nat /\ CurrentWeek <= CurrentWeek'
    <3>1. TypeOK /\ TypeOK' /\ today <= today'
      BY <1>0, <2>1, BoardAssumption DEF FiledInv, IndInv, TypeOK
    <3>2. (CurrentWeek \in Nat)'
      BY <3>1, EndedIsPast, PTL
    <3> QED
      BY <3>1, <3>2, EndedIsPast, WeekPasses
  <2>3. ASSUME NEW q \in Request PROVE (CarriedBy(q) /\ PacedBy(q))'
    <3>1. CarriedBy(q) /\ PacedBy(q) /\ (pc[q] \in InTx => cur[q] \in Nat)
      BY BoardAssumption DEF FiledInv, IndInv, ViewHolds, Week
    <3>2. CarriedBy(q)'
      BY <2>1, <3>1 DEF CarriedBy
    <3>3. PacedBy(q)'
      BY <2>1, <2>2, <3>1 DEF PacedBy
    <3> QED
      BY <3>2, <3>3
  <2> QED
    BY <2>1, <2>3 DEF FiledInv, FiledParts, FiledUnderClosed, EntitiesFiled
<1>4. CASE UNCHANGED vars
  BY <1>4 DEF vars, FiledInv, FiledParts, FiledUnderClosed, EntitiesFiled, CarriedBy,
     PacedBy, CurrentWeek, boardVars, taskVars, txVars, editVars
<1> QED
  BY <1>1, <1>2, <1>3, <1>4, RequestFiled, CommitFiled, EditFiled DEF Next, Step

LEMMA FiledInductive == Spec => []FiledInv
<1>1. Init => FiledInv
  BY InitTypes, InitBoard, InitFiled DEF FiledInv, IndInv, FiledParts
<1>2. FiledInv /\ [Next]_vars => FiledInv'
  BY StepFiled
<1> QED
  BY <1>1, <1>2, PTL DEF Spec

\* Snapshots and archived tasks are filed under closed cycles only, however many
\* requests roll back after the archival and however old what an edit saves.
THEOREM FiledCorrect == Spec => []FiledUnderClosed
<1>1. FiledInv => FiledUnderClosed
  BY DEF FiledInv
<1> QED
  BY <1>1, FiledInductive, PTL

\* The evidence that a request deletes is of tasks in a committed snapshot: what
\* a rolled-back transaction has archived is not deleted.
THEOREM PurgesCorrect == Spec => PurgesOnlySnapshotted
<1>1. FiledInv /\ [Next]_vars => [PurgingStep]_vars
  <2> SUFFICES ASSUME FiledInv, [Next]_vars, NEW t \in evidence \ evidence'
               PROVE  \E w \in Week : <<w, t>> \in history
    BY DEF PurgingStep
  <2>1. PICK p \in Request : PurgeTask(p)
    <3>1. UNCHANGED evidence \/ (\E p \in Request : PurgeTask(p))
                             \/ (\E u \in Task : UploadEvidence(u))
      BY DEF Next, vars, BeginSync, BeginAdvance, Step, FindActive, LockGranted, Bootstrap,
         BootstrapRefused, ReadTasks, CloseAndAdvance, SyncDone, Commit, Respond, Fail, Rollback,
         Edit, LoadTask, SaveDiff, SaveWrite, NextDay
    <3> QED
      BY <3>1 DEF UploadEvidence
  <2>2. PICK h \in ents[p] : evidence' \in {evidence, evidence \ {h[2]}}
    BY <2>1 DEF PurgeTask
  <2>3. h \in history /\ h \in Week \X Task
    BY <2>1, <2>2 DEF PurgeTask, FiledInv, IndInv, TypeOK, CarriedBy
  <2>4. t = h[2] /\ h = <<h[1], h[2]>>
    BY <2>2, <2>3
  <2> QED
    BY <2>3, <2>4
<1> QED
  BY <1>1, FiledInductive, PTL DEF Spec, PurgesOnlySnapshotted

\* What the steps other than a commit do to the cycles: nothing.
LEMMA OnlyCommitFiles ==
  [Next]_vars => \/ UNCHANGED <<active, closed, history>>
                 \/ \E p \in Request : Commit(p)
BY DEF Next, vars, BeginSync, BeginAdvance, Step, FindActive, LockGranted, Bootstrap,
   BootstrapRefused, ReadTasks, CloseAndAdvance, SyncDone, Respond, Fail, Rollback,
   PurgeTask, Edit, LoadTask, SaveDiff, SaveWrite, NextDay, UploadEvidence, boardVars

\* A step never reopens a cycle or withdraws a snapshot, and a cycle that has not
\* ended is closed only by a manual advance, alone.
THEOREM ClosesCorrect == Spec => ClosesProperly
<1>1. FiledInv /\ [Next]_vars => [ClosingStep]_vars
  <2> SUFFICES ASSUME FiledInv, [Next]_vars PROVE ClosingStep
    OBVIOUS
  <2>0. TypeOK /\ \A w \in Week : w \in Nat /\ NoCycle < w /\ w # NoCycle
    BY BoardAssumption DEF FiledInv, IndInv, NoCycle, Week
  <2>1. CASE UNCHANGED <<active, closed, history>>
    BY <2>0, <2>1 DEF ClosingStep, ActiveWeeks, TypeOK
  <2>2. ASSUME NEW p \in Request, Commit(p) PROVE ClosingStep
    <3>1. \A w \in Week :
            /\ active[w] = (IF w = held[p] THEN 1 ELSE 0)
            /\ closed[w] = (IF w < held[p] THEN 1 ELSE 0)
            /\ active'[w] = (IF w = cur[p] THEN 1 ELSE 0)
            /\ closed'[w] = (IF w < cur[p] THEN 1 ELSE 0)
      BY <2>2, CommitEffect DEF FiledInv
    <3>2. /\ pc[p] = "commit" /\ op[p] \in {"sync", "advance"} /\ history \subseteq history'
          /\ cur[p] \in Week /\ held[p] \in Week \cup {NoCycle} /\ held[p] <= cur[p]
      BY <2>2 DEF Commit, FiledInv, IndInv, TypeOK, ViewHolds, InTx
    <3>3. \A w \in Week : closed'[w] >= closed[w]
      BY <2>0, <3>1, <3>2 DEF NoCycle
    <3>4. PacedBy(p) /\ CurrentWeek \in Nat /\ \A w \in Week : Ended(w) <=> w < CurrentWeek
      BY <2>0, EndedIsPast DEF FiledInv
    <3>5. ASSUME NEW w \in ActiveWeeks
          PROVE  \/ \A v \in Week : closed'[v] > closed[v] => Ended(v)
                 \/ /\ \E q \in Request : pc[q] = "commit" /\ op[q] = "advance"
                    /\ \A v \in Week \ {w} : closed'[v] = closed[v]
      <4>1. w \in Week /\ w = held[p]
        BY <3>1 DEF ActiveWeeks
      <4>2. CASE op[p] = "sync"
        <5>1. cur[p] = held[p] \/ cur[p] <= CurrentWeek
          BY <3>2, <3>4, <4>2 DEF PacedBy, InTx
        <5> SUFFICES ASSUME NEW v \in Week, closed'[v] > closed[v] PROVE v < CurrentWeek
          BY <3>4
        <5>2. ~(v < held[p]) /\ v < cur[p]
          BY <2>0, <3>1, <3>2
        <5> QED
          BY <2>0, <3>2, <3>4, <4>1, <5>1, <5>2
      <4>3. CASE op[p] = "advance"
        <5>1. cur[p] = w + 1
          BY <2>0, <3>2, <3>4, <4>1, <4>3 DEF PacedBy, InTx
        <5>2. \A v \in Week \ {w} : closed'[v] = closed[v]
          BY <2>0, <3>1, <3>2, <4>1, <5>1
        <5> QED
          BY <3>2, <4>3, <5>2
      <4> QED
        BY <3>2, <4>2, <4>3
    <3> QED
      BY <3>2, <3>3, <3>5 DEF ClosingStep
  <2> QED
    BY <2>1, <2>2, OnlyCommitFiles
<1> QED
  BY <1>1, FiledInductive, PTL DEF Spec, ClosesProperly

-----------------------------------------------------------------------------
(* The refinement of CycleTimeline: requests, locks and rows become one      *)
(* window that moves on.                                                     *)

LEMMA LastIsActive ==
  ASSUME NEW n \in Week \cup {NoCycle}, TypeOK,
         \A w \in Week : active[w] = (IF w = n THEN 1 ELSE 0)
  PROVE  LastWindow = n
<1>1. CASE n \in Week
  <2>1. ActiveWeeks = {n}
    BY <1>1 DEF ActiveWeeks
  <2> QED
    BY <2>1 DEF LastWindow
<1>2. CASE n = NoCycle
  <2>1. ActiveWeeks = {}
    BY <1>2, BoardAssumption DEF ActiveWeeks, Week, NoCycle
  <2> QED
    BY <1>2, <2>1 DEF LastWindow
<1> QED
  BY <1>1, <1>2

LEMMA CommitPromise ==
  ASSUME FiledInv, TypeOK', NEW p \in Request, Commit(p)
  PROVE  [Promise!Next]_<<today, LastWindow>>
<1>0. TypeOK /\ \A w \in Week : w \in Nat /\ NoCycle < w /\ w # NoCycle
  BY BoardAssumption DEF FiledInv, IndInv, NoCycle, Week
<1>1. \A w \in Week : /\ active[w] = (IF w = held[p] THEN 1 ELSE 0)
                      /\ active'[w] = (IF w = cur[p] THEN 1 ELSE 0)
  BY CommitEffect DEF FiledInv
<1>2. /\ pc[p] = "commit" /\ op[p] \in {"sync", "advance"} /\ today' = today
      /\ cur[p] \in Week /\ held[p] \in Week \cup {NoCycle} /\ held[p] <= cur[p]
  BY DEF Commit, FiledInv, IndInv, TypeOK, ViewHolds, InTx
<1>3. LastWindow = held[p] /\ LastWindow' = cur[p]
  <2>1. LastWindow = held[p]
    BY <1>0, <1>1, <1>2, LastIsActive
  <2>2. ActiveWeeks' = {cur[p]}
    BY <1>1, <1>2 DEF ActiveWeeks
  <2>3. LastWindow' = cur[p]
    BY <2>2 DEF LastWindow
  <2> QED
    BY <2>1, <2>3
<1>4. CurrentWeek \in Nat /\ Promise!Current = CurrentWeek
  <2>1. today \in Nat
    BY <1>0, BoardAssumption DEF TypeOK
  <2> QED
    BY <1>0, <2>1, EndedIsPast DEF Promise!Current, CurrentWeek, Calendar!CycleIndex
<1>5. PacedBy(p)
  BY DEF FiledInv
<1>6. CASE held[p] = NoCycle
  <2>1. cur[p] <= CurrentWeek + 1
    BY <1>0, <1>2, <1>4, <1>5, <1>6 DEF PacedBy, InTx
  <2>2. LastWindow = -1 /\ LastWindow' \in 0 .. CurrentWeek + 1 /\ UNCHANGED today
    BY <1>0, <1>2, <1>3, <1>4, <1>6, <2>1 DEF NoCycle
  <2> QED
    BY <1>4, <2>2 DEF Promise!Next, Promise!Start
<1>7. CASE held[p] # NoCycle /\ cur[p] = held[p]
  BY <1>2, <1>3, <1>7
<1>8. CASE held[p] # NoCycle /\ cur[p] # held[p]
  <2>1. LastWindow # -1 /\ UNCHANGED today /\ held[p] \in Nat
    BY <1>0, <1>2, <1>3, <1>8 DEF NoCycle
  <2>2. CASE op[p] = "sync"
    <3>1. cur[p] \in held[p] + 1 .. CurrentWeek
      BY <1>0, <1>2, <1>4, <1>5, <1>8, <2>1, <2>2 DEF PacedBy, InTx
    <3> QED
      BY <1>3, <1>4, <2>1, <3>1 DEF Promise!Next, Promise!CatchUp
  <2>3. CASE op[p] = "advance"
    <3>1. cur[p] = held[p] + 1
      BY <1>0, <1>2, <1>5, <1>8, <2>3 DEF PacedBy, InTx
    <3> QED
      BY <1>3, <2>1, <3>1 DEF Promise!Next, Promise!CloseEarly
  <2> QED
    BY <1>2, <2>2, <2>3
<1> QED
  BY <1>6, <1>7, <1>8

LEMMA StepPromise == FiledInv /\ TypeOK' /\ [Next]_vars => [Promise!Next]_<<today, LastWindow>>
<1> SUFFICES ASSUME FiledInv, TypeOK', [Next]_vars
             PROVE  [Promise!Next]_<<today, LastWindow>>
  OBVIOUS
<1>1. CASE UNCHANGED <<today, active>>
  BY <1>1 DEF LastWindow, ActiveWeeks
<1>2. CASE NextDay
  <2>1. today' = today + 1 /\ LastWindow' = LastWindow
    BY <1>2 DEF NextDay, boardVars, LastWindow, ActiveWeeks
  <2> QED
    BY <2>1 DEF Promise!Next, Promise!NextDay
<1>3. UNCHANGED <<today, active>> \/ NextDay \/ \E p \in Request : Commit(p)
  BY DEF Next, vars, BeginSync, BeginAdvance, Step, FindActive, LockGranted, Bootstrap,
     BootstrapRefused, ReadTasks, CloseAndAdvance, SyncDone, Respond, Fail, Rollback,
     PurgeTask, Edit, LoadTask, SaveDiff, SaveWrite, UploadEvidence, boardVars
<1> QED
  BY <1>1, <1>2, <1>3, CommitPromise

\* The cycles of a project implement the timeline: a first window no later than
\* the one after the current one, then windows that ended, one after the other,
\* or one window early for each manual advance.
THEOREM TimelineImplemented == Spec => ImplementsTimeline
<1>1. Init => Promise!Init
  <2> SUFFICES ASSUME Init PROVE today = 0 /\ LastWindow = -1
    BY DEF Promise!Init
  <2>1. TypeOK /\ \A w \in Week : active[w] = (IF w = NoCycle THEN 1 ELSE 0)
    BY InitTypes, BoardAssumption DEF Init, Week, NoCycle
  <2> QED
    BY <2>1, LastIsActive DEF Init, NoCycle
<1>2. FiledInv /\ FiledInv' /\ [Next]_vars => [Promise!Next]_<<today, LastWindow>>
  BY StepPromise DEF FiledInv, IndInv
<1> QED
  BY <1>1, <1>2, FiledInductive, PTL DEF Spec, ImplementsTimeline, Promise!Spec
=============================================================================
