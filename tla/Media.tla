-------------------------------- MODULE Media --------------------------------
(***************************************************************************)
(* Evidence and session logs of one task: rows in the database, objects in *)
(* MinIO and in Cloudflare R2, and the quota on R2                         *)
(* (src/tasks/task-evidence.service.ts, task-log.service.ts,               *)
(* evidence-retention-scheduler.service.ts, src/storage).                  *)
(*                                                                         *)
(* The advisory lock of the quota belongs to a database connection.  The   *)
(* query that takes it and the query that releases it each borrow whatever *)
(* connection of the pool is idle: asking again on the connection that has *)
(* the lock succeeds, releasing it on another one does nothing.            *)
(*                                                                         *)
(* Files are of size one.  A file is named by the upload that brings it.   *)
(***************************************************************************)
EXTENDS Naturals, FiniteSets

CONSTANTS
  File,     \* uploads
  User,     \* requests that remove a file or purge the task
  Tick,     \* runs of the scheduler that are under way
  Conn,     \* connections of the pool
  Room,     \* MEDIA_QUOTA_CHECK_BYTES
  MaxDepth, \* bound: how often one connection has the lock
  Nothing   \* not a file, not a connection

VARIABLES
  kind,    \* evidence or log
  row,     \* bucket of the row of a file, or none
  objects, \* what the stores hold
  old,     \* files past the retention period
  doomed,  \* files whose objects a clean-up has set out to delete
  pc,      \* where an upload, a request or a tick is
  used,    \* bytes on R2, as it has read them
  got,     \* rows it has loaded: file and bucket
  copying, \* the file a tick is copying
  lock,    \* the connection that has the lock, and how often
  waits    \* the connection on which a process waits for it

local == <<pc, used, got, copying>>
vars  == <<kind, row, objects, old, doomed, local, lock, waits>>

Process == File \cup User \cup Tick

Init ==
  /\ kind \in [File -> {"evidence", "log"}]
  \* Evidence from the time before R2 lies in MinIO.
  /\ row \in [File -> {"none", "minio"}]
  /\ objects = { <<f, "minio">> : f \in { g \in File : row[g] = "minio" } }
  /\ old = {}
  /\ doomed = {}
  /\ pc = [p \in Process |-> IF p \in File /\ row[p] # "none" THEN "done" ELSE "start"]
  /\ used = [p \in Process |-> 0]
  /\ got = [p \in Process |-> {}]
  /\ copying = [t \in Tick |-> Nothing]
  /\ lock = [conn |-> Nothing, depth |-> 0]
  /\ waits = [p \in Process |-> Nothing]

Goto(p, to) == pc' = [pc EXCEPT ![p] = to]

\* The files of this kind that have a row, as entities.
Rows(K) == { <<f, row[f]>> : f \in { g \in File : kind[g] \in K /\ row[g] # "none" } }

-----------------------------------------------------------------------------
(* withMediaQuotaLock                                                      *)

Idle(c) == \A p \in Process : waits[p] # c

AskLock(p) ==
  /\ pc[p] = "ask"
  /\ lock.depth < MaxDepth
  /\ \E c \in Conn :
       /\ Idle(c)
       /\ IF lock.depth = 0 \/ lock.conn = c
          THEN /\ lock' = [conn |-> c, depth |-> lock.depth + 1]
               /\ Goto(p, "sum")
               /\ UNCHANGED waits
          ELSE /\ waits' = [waits EXCEPT ![p] = c]
               /\ Goto(p, "wait")
               /\ UNCHANGED lock
  /\ UNCHANGED <<kind, row, objects, old, doomed, used, got, copying>>

GetLock(p) ==
  /\ pc[p] = "wait"
  /\ lock.depth = 0
  /\ lock' = [conn |-> waits[p], depth |-> 1]
  /\ waits' = [waits EXCEPT ![p] = Nothing]
  /\ Goto(p, "sum")
  /\ UNCHANGED <<kind, row, objects, old, doomed, used, got, copying>>

Unlock(p) ==
  /\ pc[p] = "unlock"
  /\ \E c \in Conn :
       /\ Idle(c)
       /\ lock' = CASE lock.conn # c  -> lock
                    [] lock.depth = 1 -> [conn |-> Nothing, depth |-> 0]
                    [] OTHER          -> [lock EXCEPT !.depth = @ - 1]
  /\ Goto(p, IF p \in Tick THEN "start" ELSE "done")
  /\ used' = [used EXCEPT ![p] = 0]
  /\ got' = [got EXCEPT ![p] = {}]
  /\ UNCHANGED <<kind, row, objects, old, doomed, copying, waits>>

\* sumCloudflareBytes
OnR2 == { f \in File : row[f] = "r2" }

mediaFits(bytes) == bytes + 1 < Room

SumBytes(p) ==
  /\ pc[p] = "sum"
  /\ used' = [used EXCEPT ![p] = Cardinality(OnR2)]
  /\ Goto(p, IF p \in Tick THEN "next" ELSE IF mediaFits(Cardinality(OnR2)) THEN "put" ELSE "unlock")
  /\ UNCHANGED <<kind, row, objects, old, doomed, got, copying, lock, waits>>

-----------------------------------------------------------------------------
(* upload: a log goes to MinIO without a lock                              *)

Target(f) == IF kind[f] = "log" THEN "minio" ELSE "r2"

AfterUpload(f) == IF kind[f] = "log" THEN "done" ELSE "unlock"

Upload(f) ==
  /\ pc[f] = "start"
  /\ Goto(f, IF kind[f] = "log" THEN "put" ELSE "ask")
  /\ UNCHANGED <<kind, row, objects, old, doomed, used, got, copying, lock, waits>>

PutObject(f) ==
  /\ pc[f] = "put"
  /\ \/ objects' = objects \cup {<<f, Target(f)>>} /\ Goto(f, "insert")
     \/ UNCHANGED objects /\ Goto(f, AfterUpload(f))
  /\ UNCHANGED <<kind, row, old, doomed, used, got, copying, lock, waits>>

\* The insert may fail: the task can have been deleted meanwhile.
InsertRow(f) ==
  /\ pc[f] = "insert"
  /\ \/ row' = [row EXCEPT ![f] = Target(f)] /\ Goto(f, AfterUpload(f))
     \/ UNCHANGED row /\ Goto(f, "undo")
  /\ UNCHANGED <<kind, objects, old, doomed, used, got, copying, lock, waits>>

UndoPut(f) ==
  /\ pc[f] = "undo"
  /\ \/ objects' = objects \ {<<f, Target(f)>>}
     \/ UNCHANGED objects
  /\ Goto(f, AfterUpload(f))
  /\ UNCHANGED <<kind, row, old, doomed, used, got, copying, lock, waits>>

-----------------------------------------------------------------------------
(* remove deletes the row, then the object; cleanupForTask, and the clean- *)
(* up of what is expired, try the objects first and then delete the rows.  *)

FindRow(u) ==
  /\ pc[u] = "start"
  /\ \E r \in Rows({"evidence", "log"}) : got' = [got EXCEPT ![u] = {r}]
  /\ Goto(u, "row")
  /\ UNCHANGED <<kind, row, objects, old, doomed, used, copying, lock, waits>>

Without(R) == [f \in File |-> IF \E r \in R : r[1] = f THEN "none" ELSE row[f]]

RemoveRow(u) ==
  /\ pc[u] = "row"
  /\ row' = Without(got[u])
  /\ Goto(u, "object")
  /\ UNCHANGED <<kind, objects, old, doomed, used, got, copying, lock, waits>>

RemoveObject(u) ==
  /\ pc[u] = "object"
  /\ \/ objects' = objects \ got[u]
     \/ UNCHANGED objects
  /\ Goto(u, "done")
  /\ got' = [got EXCEPT ![u] = {}]
  /\ UNCHANGED <<kind, row, old, doomed, used, copying, lock, waits>>

\* cleanupForTask for a request, cleanupExpiredEvidence and cleanupExpiredLogs
\* for a tick.  A file is of one kind, and each service cleans up its own.
CleanUp(p) ==
  /\ p \notin File
  /\ pc[p] = "start"
  /\ \E K \in {{"evidence"}, {"log"}} :
       LET found == { r \in Rows(K) : p \in Tick => r[1] \in old }
       IN  /\ found # {}
           /\ got' = [got EXCEPT ![p] = found]
           /\ doomed' = doomed \cup { r[1] : r \in found }
  /\ Goto(p, "objects")
  /\ UNCHANGED <<kind, row, objects, old, used, copying, lock, waits>>

deleteObjects(p) ==
  /\ pc[p] = "objects"
  /\ \E failed \in SUBSET got[p] : objects' = objects \ (got[p] \ failed)
  /\ Goto(p, "rows")
  /\ UNCHANGED <<kind, row, old, doomed, used, got, copying, lock, waits>>

RemoveRows(p) ==
  /\ pc[p] = "rows"
  /\ row' = Without(got[p])
  /\ got' = [got EXCEPT ![p] = {}]
  /\ Goto(p, IF p \in Tick THEN "start" ELSE "done")
  /\ UNCHANGED <<kind, objects, old, doomed, used, copying, lock, waits>>

Expire(f) ==
  /\ row[f] # "none"
  /\ f \notin old
  /\ old' = old \cup {f}
  /\ UNCHANGED <<kind, row, objects, doomed, local, lock, waits>>

-----------------------------------------------------------------------------
(* promoteFittingMinioMedia                                                *)

ListCandidates(t) ==
  /\ pc[t] = "start"
  /\ got' = [got EXCEPT ![t] = { r \in Rows({"evidence"}) : r[2] # "r2" }]
  /\ got'[t] # {}
  /\ Goto(t, "ask")
  /\ UNCHANGED <<kind, row, objects, old, doomed, used, copying, lock, waits>>

\* nextCopy, and copyObjectToR2, which fails when the object is gone.
NextCopy(t) ==
  /\ pc[t] = "next"
  /\ IF got[t] = {} \/ ~mediaFits(used[t])
     THEN Goto(t, "unlock") /\ UNCHANGED <<objects, got, copying>>
     ELSE \E r \in got[t] :
       /\ got' = [got EXCEPT ![t] = @ \ {r}]
       /\ \/ /\ <<r[1], "minio">> \in objects
             /\ objects' = objects \cup {<<r[1], "r2">>}
             /\ copying' = [copying EXCEPT ![t] = r[1]]
             /\ Goto(t, "mark")
          \/ UNCHANGED <<pc, objects, copying>>
  /\ UNCHANGED <<kind, row, old, doomed, used, lock, waits>>

\* Mutant: the object is deleted where it was before its row says otherwise.
MarkNothing(t) == row

\* An UPDATE of the row, if it is still there.
Marked(t) == [row EXCEPT ![copying[t]] = IF @ = "none" THEN @ ELSE "r2"]

MarkCopied(t) ==
  /\ pc[t] = "mark"
  /\ row' = Marked(t)
  /\ Goto(t, "drop")
  /\ UNCHANGED <<kind, objects, old, doomed, used, got, copying, lock, waits>>

DropCopied(t) ==
  /\ pc[t] = "drop"
  /\ \/ /\ objects' = objects \ {<<copying[t], "minio">>}
        /\ used' = [used EXCEPT ![t] = @ + 1]
     \/ UNCHANGED <<objects, used>>
  /\ copying' = [copying EXCEPT ![t] = Nothing]
  /\ Goto(t, "next")
  /\ UNCHANGED <<kind, row, old, doomed, got, lock, waits>>

-----------------------------------------------------------------------------
\* The process is replaced: its connections are closed.
Restart ==
  /\ \E p \in Process : pc[p] \notin {"start", "done"}
  /\ pc' = [p \in Process |-> IF pc[p] = "start" \/ p \in Tick THEN "start" ELSE "done"]
  /\ used' = [p \in Process |-> 0]
  /\ got' = [p \in Process |-> {}]
  /\ copying' = [t \in Tick |-> Nothing]
  /\ lock' = [conn |-> Nothing, depth |-> 0]
  /\ waits' = [p \in Process |-> Nothing]
  /\ UNCHANGED <<kind, row, objects, old, doomed>>

Next ==
  \/ \E p \in Process :
       AskLock(p) \/ GetLock(p) \/ Unlock(p) \/ SumBytes(p)
         \/ CleanUp(p) \/ deleteObjects(p) \/ RemoveRows(p)
  \/ \E f \in File : Upload(f) \/ PutObject(f) \/ InsertRow(f) \/ UndoPut(f) \/ Expire(f)
  \/ \E u \in User : FindRow(u) \/ RemoveRow(u) \/ RemoveObject(u)
  \/ \E t \in Tick : ListCandidates(t) \/ NextCopy(t) \/ MarkCopied(t) \/ DropCopied(t)
  \/ Restart

Spec == Init /\ [][Next]_vars
-----------------------------------------------------------------------------
(* Properties                                                              *)

\* A row leads to an object in the store it names, wherever uploads, removals,
\* the copying to R2 and restarts are, unless a clean-up wants the file gone.
ObjectBehindRow == \A f \in File : row[f] = "none" \/ f \in doomed \/ <<f, row[f]>> \in objects

\* media-quota.util.ts:1 "Bytes counted in the database before an image or
\* video may go to R2": what is there stays below the limit.
QuotaHolds == Cardinality(OnR2) < Room
=============================================================================
