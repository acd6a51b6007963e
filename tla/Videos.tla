------------------------------- MODULE Videos -------------------------------
(***************************************************************************)
(* The files of one video (src/videos/videos.service.ts) and their copying *)
(* to R2 (src/tasks/evidence-retention-scheduler.service.ts).              *)
(*                                                                         *)
(* The entries of all files are one column.  Every call loads it, works on *)
(* its copy and saves it as a whole: it also puts back the entries it did  *)
(* not change.  A video that was removed meanwhile is inserted again.  The *)
(* lock of the quota is in Media; here calls overlap as they like.         *)
(***************************************************************************)
EXTENDS Naturals, FiniteSets

CONSTANTS
  Request, \* requests
  Copier,  \* runs of the scheduler
  Ext,     \* file extensions of a kind
  None     \* no entry, no upload

Kind   == {"recording", "cursor", "export", "background"}
OnR2   == Kind \ {"cursor"}
Bucket == {"minio", "r2"}

VARIABLES
  there,   \* the row exists
  files,   \* entry of each kind: extension and bucket
  objects, \* what the stores hold: kind, extension, bucket
  pc,      \* where a call is,
  up,      \* the kind and extension it uploads, or the object it copies,
  ent,     \* its copy of files,
  dropped, \* the objects it no longer needs,
  total,   \* and the number of files on R2 that it has foreseen
  apart    \* no two calls have overlapped and none has died half way

vars == <<there, files, objects, pc, up, ent, dropped, total, apart>>

Caller == Request \cup Copier
Entries == [Kind -> (Ext \X Bucket) \cup {None}]
Empty == [k \in Kind |-> None]

Object(k, entry) == <<k, entry[1], entry[2]>>
ObjectsOf(f)     == { Object(k, f[k]) : k \in { j \in Kind : f[j] # None } }
R2Entries(f)     == { k \in Kind : f[k] # None /\ f[k][2] = "r2" }

\* A new video, or a recording from the time before R2.
Init ==
  /\ there = TRUE
  /\ files \in {Empty} \cup { [Empty EXCEPT !["recording"] = <<e, "minio">>] : e \in Ext }
  /\ objects = ObjectsOf(files)
  /\ pc = [c \in Caller |-> "idle"]
  /\ up = [c \in Caller |-> None]
  /\ ent = [c \in Caller |-> Empty]
  /\ dropped = [c \in Caller |-> {}]
  /\ total = [c \in Caller |-> 0]
  /\ apart = TRUE

Goto(c, to) == pc' = [pc EXCEPT ![c] = to]

Load(c, to) ==
  /\ pc[c] = "idle"
  /\ there
  /\ Goto(c, to)
  /\ ent' = [ent EXCEPT ![c] = files]
  /\ apart' = (apart /\ \A d \in Caller : pc[d] = "idle")

Return(c) ==
  /\ Goto(c, "idle")
  /\ up' = [up EXCEPT ![c] = None]
  /\ ent' = [ent EXCEPT ![c] = Empty]
  /\ dropped' = [dropped EXCEPT ![c] = {}]
  /\ total' = [total EXCEPT ![c] = 0]

-----------------------------------------------------------------------------
(* uploadFile                                                              *)

Target(k) == IF k \in OnR2 THEN "r2" ELSE "minio"

\* What a recording leaves behind of the one before it.
Outdated(k) == IF k = "recording" THEN {"cursor", "export"} ELSE {}

\* Mutant: the export that a new recording removes is forgotten.
ReplacedOnly(f, k) == Cardinality({ j \in R2Entries(f) : j = k })

\* r2BytesFreedByUpload
r2FreedByUpload(f, k) ==
  Cardinality({ j \in R2Entries(f) : j = k \/ (k = "recording" /\ j = "export") })

\* sumCloudflareBytes, and what the upload will make of it; the quota may
\* refuse.
BeginUpload(c) ==
  /\ c \in Request
  /\ \E k \in Kind, e \in Ext :
       /\ up' = [up EXCEPT ![c] = <<k, e>>]
       /\ total' = [total EXCEPT ![c] =
            Cardinality(R2Entries(files)) - r2FreedByUpload(files, k) + (IF k \in OnR2 THEN 1 ELSE 0)]
  /\ Load(c, "put")
  /\ UNCHANGED <<there, files, objects, dropped>>

\* Mutant: the entries of the cursor and of the export stay.
KeepsOutdated(f, k, new) == [f EXCEPT ![k] = new]

\* The entries after the upload ...
Renewed(f, k, new) ==
  [j \in Kind |-> CASE j = k -> new [] j \in Outdated(k) -> None [] OTHER -> f[j]]

\* ... and the objects that are no longer needed.
StaleRefs(f, k, new) ==
  { Object(j, f[j]) : j \in { i \in Outdated(k) : f[i] # None } }
    \cup { o \in ObjectsOf(f) : o[1] = k /\ o # Object(k, new) }

PutObject(c) ==
  /\ pc[c] = "put"
  /\ \/ LET k   == up[c][1]
            new == <<up[c][2], Target(k)>>
        IN  /\ objects' = objects \cup {Object(k, new)}
            /\ ent' = [ent EXCEPT ![c] = Renewed(@, k, new)]
            /\ dropped' = [dropped EXCEPT ![c] = StaleRefs(ent[c], k, new)]
            /\ Goto(c, "delete")
            /\ UNCHANGED <<up, total>>
     \/ Return(c) /\ UNCHANGED objects
  /\ UNCHANGED <<there, files, apart>>

\* deleteObjects: one that cannot be deleted is left.
DeleteObjects(c) ==
  /\ pc[c] = "delete"
  /\ \E failed \in SUBSET dropped[c] : objects' = objects \ (dropped[c] \ failed)
  /\ Goto(c, IF up[c] = None THEN "remove" ELSE "save")
  /\ UNCHANGED <<there, files, up, ent, dropped, total, apart>>

Save(c) ==
  /\ pc[c] = "save"
  /\ files' = ent[c]
  /\ there' = TRUE
  /\ Return(c)
  /\ UNCHANGED <<objects, apart>>

-----------------------------------------------------------------------------
\* update: the title or the edit state, and with it the files as they were.
Update(c) ==
  /\ c \in Request
  /\ Load(c, "save")
  /\ UNCHANGED <<there, files, objects, up, dropped, total>>

\* remove
Remove(c) ==
  /\ c \in Request
  /\ Load(c, "delete")
  /\ dropped' = [dropped EXCEPT ![c] = ObjectsOf(files)]
  /\ UNCHANGED <<there, files, objects, up, total>>

RemoveRow(c) ==
  /\ pc[c] = "remove"
  /\ there' = FALSE
  /\ files' = Empty
  /\ Return(c)
  /\ UNCHANGED <<objects, apart>>

-----------------------------------------------------------------------------
(* promoteFittingMinioMedia, for one file                                  *)

ListCandidate(t) ==
  /\ t \in Copier
  /\ \E k \in OnR2 :
       /\ files[k] # None /\ files[k][2] = "minio"
       /\ up' = [up EXCEPT ![t] = <<k, files[k][1]>>]
  /\ Load(t, "copy")
  /\ UNCHANGED <<there, files, objects, dropped, total>>

InMinio(t) == <<up[t][1], up[t][2], "minio">>
InR2(t)    == <<up[t][1], up[t][2], "r2">>

CopyToR2(t) ==
  /\ pc[t] = "copy"
  /\ \/ /\ InMinio(t) \in objects
        /\ objects' = objects \cup {InR2(t)}
        /\ Goto(t, "mark")
        /\ UNCHANGED <<up, ent, dropped, total>>
     \/ Return(t) /\ UNCHANGED objects
  /\ UNCHANGED <<there, files, apart>>

\* markCopied loads the row again; when the video or the entry is gone there
\* is nothing to mark, and the object is deleted all the same.
FindMarked(t) ==
  /\ pc[t] = "mark"
  /\ LET k == up[t][1] IN
       IF ~there \/ files[k] = None
       THEN Goto(t, "drop") /\ UNCHANGED ent
       ELSE /\ ent' = [ent EXCEPT ![t] = [files EXCEPT ![k] = <<@[1], "r2">>]]
            /\ Goto(t, "marked")
  /\ UNCHANGED <<there, files, objects, up, dropped, total, apart>>

SaveMarked(t) ==
  /\ pc[t] = "marked"
  /\ files' = ent[t]
  /\ there' = TRUE
  /\ Goto(t, "drop")
  /\ UNCHANGED <<objects, up, ent, dropped, total, apart>>

DropCopied(t) ==
  /\ pc[t] = "drop"
  /\ objects' \in {objects, objects \ {InMinio(t)}}
  /\ Return(t)
  /\ UNCHANGED <<there, files, apart>>

-----------------------------------------------------------------------------
\* A call dies: the quota refuses, the store does not answer, the process ends.
Die(c) ==
  /\ pc[c] # "idle"
  /\ apart' = (apart /\ pc[c] = "put")
  /\ Return(c)
  /\ UNCHANGED <<there, files, objects>>

Next ==
  \/ \E c \in Caller :
       \/ BeginUpload(c) \/ PutObject(c) \/ DeleteObjects(c) \/ Save(c)
       \/ Update(c) \/ Remove(c) \/ RemoveRow(c) \/ Die(c)
  \/ \E t \in Copier :
       ListCandidate(t) \/ CopyToR2(t) \/ FindMarked(t) \/ SaveMarked(t) \/ DropCopied(t)

Spec == Init /\ [][Next]_vars
-----------------------------------------------------------------------------
(* Properties                                                              *)

\* As long as calls have come one after another, and none has died after it
\* began to change something, every entry of the row has its object: whatever
\* a recording leaves behind is gone from the row as well, and what the
\* scheduler has copied is found where the row says.
EntryHasObject ==
  apart /\ (\A c \in Caller : pc[c] = "idle") => ObjectsOf(files) \subseteq objects

\* The quota is checked against what the upload makes of the files on R2,
\* the space it frees included.
Foresees ==
  \A c \in Request :
    apart /\ pc[c] = "save" /\ up[c] # None /\ files' = ent[c] /\ pc'[c] = "idle" /\ apart'
      => Cardinality(R2Entries(files')) = total[c]
QuotaForesees == [][Foresees]_vars
=============================================================================
