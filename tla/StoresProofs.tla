----------------------------- MODULE StoresProofs -----------------------------
(***************************************************************************)
(* Proofs about Machines: the files of evidence and of videos, and audits, *)
(* each from an invariant of its own, which has the name of its machine in *)
(* front.                                                                  *)
(***************************************************************************)
EXTENDS MachinesProofs


-----------------------------------------------------------------------------
(***************************************************************************)
(* Evidence and logs.  Only a file whose upload is over is loaded; and     *)
(* what is copied is there before the row says so, which it does before    *)
(* the object is deleted where it was.                                     *)
(***************************************************************************)

\* Where each of them can be.
MediaPlaces(p) ==
  CASE p \in File -> {"start", "ask", "wait", "sum", "put", "insert", "undo", "unlock", "done"}
    [] p \in Remover -> {"start", "row", "object", "objects", "rows", "done"}
    [] OTHER      -> {"start", "ask", "wait", "sum", "next", "mark", "drop", "unlock",
                      "objects", "rows"}

MediaTypeOK ==
  /\ mediaKind \in [File -> {"evidence", "log"}]
  /\ mediaRow \in [File -> {"none", "minio", "r2"}]
  /\ DOMAIN mediaPc = Store!Process /\ \A p \in Store!Process : mediaPc[p] \in MediaPlaces(p)
  /\ mediaGot \in [Store!Process -> SUBSET (File \X {"minio", "r2"})]
  /\ DOMAIN copying = Sweep

\* An upload that is over, one way or the other.
MediaArrived(f) == mediaPc[f] \in {"unlock", "done"}

\* A file has no row before its upload has put an object there.
MediaUploads ==
  \A f \in File :
    /\ ~MediaArrived(f) => mediaRow[f] = "none"
    /\ mediaPc[f] = "insert" => <<f, Store!Target(f)>> \in mediaObjects

\* Only files that have arrived are loaded. Whose object is deleted has no row any
\* more, or is doomed.
MediaRemovals ==
  \A p \in Store!Process : \A r \in mediaGot[p] :
    /\ MediaArrived(r[1])
    /\ mediaPc[p] = "object" => mediaRow[r[1]] = "none"
    /\ mediaPc[p] \in {"objects", "rows"} => r[1] \in doomed

\* What is copied is there before the row says so, and the row says so before the
\* object is deleted where it was.
MediaCopies ==
  \A t \in Sweep :
    mediaPc[t] \in {"mark", "drop"} =>
      /\ copying[t] \in File /\ MediaArrived(copying[t])
      /\ mediaPc[t] = "mark" => \/ mediaRow[copying[t]] = "none"
                                \/ copying[t] \in doomed
                                \/ <<copying[t], "r2">> \in mediaObjects
      /\ mediaPc[t] = "drop" => mediaRow[copying[t]] # "minio"

MediaIInv == MediaTypeOK /\ MediaUploads /\ MediaRemovals /\ MediaCopies /\ Store!ObjectBehindRow

-----------------------------------------------------------------------------
(* Places                                                                  *)

LEMMA MediaPlacesAre ==
  /\ \A f \in File : f \in Store!Process /\ f \notin Remover /\ f \notin Sweep /\ MediaPlaces(f) =
       {"start", "ask", "wait", "sum", "put", "insert", "undo", "unlock", "done"}
  /\ \A u \in Remover : u \in Store!Process /\ u \notin File /\ u \notin Sweep /\ MediaPlaces(u) =
       {"start", "row", "object", "objects", "rows", "done"}
  /\ \A t \in Sweep : t \in Store!Process /\ t \notin File /\ t \notin Remover /\ MediaPlaces(t) =
       {"start", "ask", "wait", "sum", "next", "mark", "drop", "unlock", "objects", "rows"}
BY MediaAssumption DEF MediaPlaces, Store!Process

LEMMA MediaGotoIs ==
  ASSUME MediaTypeOK, NEW p \in Store!Process, NEW to \in MediaPlaces(p), Store!Goto(p, to)
  PROVE  /\ DOMAIN mediaPc' = Store!Process /\ mediaPc'[p] = to /\ \A q \in Store!Process \ {p} : mediaPc'[q] = mediaPc[q]
         /\ \A q \in Store!Process : mediaPc'[q] \in MediaPlaces(q)
BY DEF MediaTypeOK, Store!Goto

-----------------------------------------------------------------------------
(* Steps that leave rows and objects alone                                 *)

\* Who moves keeps what it has loaded or a part of it, and does not set out to
\* insert, to delete or to copy.
LEMMA MediaMovePreserves ==
  ASSUME MediaIInv, NEW p \in Store!Process, NEW to \in MediaPlaces(p), Store!Goto(p, to),
         to \notin {"insert", "object", "objects", "rows", "mark", "drop"},
         p \in File => (MediaArrived(p) => to \in {"unlock", "done"})
                       /\ (to \notin {"unlock", "done"} => mediaRow[p] = "none"),
         mediaGot' \in [Store!Process -> SUBSET (File \X {"minio", "r2"})],
         \A q \in Store!Process : mediaGot'[q] \subseteq mediaGot[q] \/ (q = p /\ \A r \in mediaGot'[q] : MediaArrived(r[1])),
         DOMAIN copying' = Sweep, \A t \in Sweep : t # p => copying'[t] = copying[t],
         UNCHANGED <<mediaKind, mediaRow, mediaObjects, doomed>>
  PROVE  MediaIInv'
<1>1. MediaTypeOK /\ MediaUploads /\ MediaRemovals /\ MediaCopies /\ Store!ObjectBehindRow
  BY DEF MediaIInv
<1>2. /\ DOMAIN mediaPc' = Store!Process /\ mediaPc'[p] = to /\ \A q \in Store!Process \ {p} : mediaPc'[q] = mediaPc[q]
      /\ \A q \in Store!Process : mediaPc'[q] \in MediaPlaces(q)
  BY <1>1, MediaGotoIs
<1>3. MediaTypeOK'
  BY <1>1, <1>2 DEF MediaTypeOK
<1>4. \A f \in File : f \in Store!Process /\ (MediaArrived(f) => MediaArrived(f)')
  BY <1>2, MediaPlacesAre DEF MediaArrived
<1>5. MediaUploads'
  BY <1>1, <1>2, <1>4 DEF MediaUploads, MediaArrived, Store!Target
<1>6. MediaRemovals'
  <2> SUFFICES ASSUME NEW q \in Store!Process, NEW r \in mediaGot'[q]
               PROVE  /\ MediaArrived(r[1])'
                      /\ mediaPc'[q] = "object" => mediaRow'[r[1]] = "none"
                      /\ mediaPc'[q] \in {"objects", "rows"} => r[1] \in doomed'
    BY DEF MediaRemovals
  <2>1. r[1] \in File
    OBVIOUS
  <2>2. CASE r \in mediaGot[q]
    BY <1>1, <1>2, <1>4, <2>1, <2>2 DEF MediaRemovals
  <2>3. CASE q = p /\ MediaArrived(r[1])
    BY <1>2, <1>4, <2>1, <2>3
  <2> QED
    BY <2>2, <2>3
<1>7. MediaCopies'
  BY <1>1, <1>2, <1>4, MediaPlacesAre DEF MediaCopies
<1>8. Store!ObjectBehindRow'
  BY <1>1 DEF Store!ObjectBehindRow
<1> QED
  BY <1>3, <1>5, <1>6, <1>7, <1>8 DEF MediaIInv

LEMMA MediaLockPreserves ==
  ASSUME MediaIInv, NEW p \in Store!Process, Store!AskLock(p) \/ Store!GetLock(p) \/ Store!Unlock(p) \/ Store!SumBytes(p)
  PROVE  MediaIInv'
<1>1. MediaTypeOK /\ MediaUploads /\ mediaPc[p] \in MediaPlaces(p)
  BY DEF MediaIInv, MediaTypeOK
<1>2. mediaPc[p] \in {"ask", "wait", "sum", "unlock"}
  BY DEF Store!AskLock, Store!GetLock, Store!Unlock, Store!SumBytes
<1>3. p \in File \/ p \in Sweep
  BY <1>1, <1>2, MediaPlacesAre DEF Store!Process
<1>4. UNCHANGED <<mediaKind, mediaRow, mediaObjects, doomed, copying>>
  BY DEF Store!AskLock, Store!GetLock, Store!Unlock, Store!SumBytes
<1>5. CASE Store!AskLock(p) \/ Store!GetLock(p)
  <2>1. Store!Goto(p, "sum") \/ Store!Goto(p, "wait")
    BY <1>5 DEF Store!AskLock, Store!GetLock
  <2>2. mediaGot' = mediaGot /\ mediaPc[p] \in {"ask", "wait"}
    BY <1>5 DEF Store!AskLock, Store!GetLock
  <2>3. "sum" \in MediaPlaces(p) /\ "wait" \in MediaPlaces(p)
    BY <1>3, MediaPlacesAre
  <2>4. p \in File => ~MediaArrived(p) /\ mediaRow[p] = "none"
    BY <1>1, <2>2 DEF MediaUploads, MediaArrived
  <2>5. mediaGot' \in [Store!Process -> SUBSET (File \X {"minio", "r2"})] /\ DOMAIN copying' = Sweep
    BY <1>1, <1>4, <2>2 DEF MediaTypeOK
  <2> QED
    BY <1>4, <2>1, <2>2, <2>3, <2>4, <2>5, MediaMovePreserves
<1>6. CASE Store!Unlock(p)
  <2> DEFINE to == IF p \in Sweep THEN "start" ELSE "done"
  <2>1. Store!Goto(p, to) /\ mediaGot' = [mediaGot EXCEPT ![p] = {}]
    BY <1>6 DEF Store!Unlock
  <2>2. to \in MediaPlaces(p) /\ (p \in File => to = "done") /\ to \in {"start", "done"}
    BY <1>3, MediaPlacesAre
  <2> HIDE DEF to
  <2>3. mediaGot' \in [Store!Process -> SUBSET (File \X {"minio", "r2"})] /\ DOMAIN copying' = Sweep
        /\ \A q \in Store!Process : mediaGot'[q] \subseteq mediaGot[q]
    BY <1>1, <1>4, <2>1 DEF MediaTypeOK
  <2> QED
    BY <1>4, <2>1, <2>2, <2>3, MediaMovePreserves
<1>7. CASE Store!SumBytes(p)
  <2> DEFINE to == IF p \in Sweep THEN "next" ELSE IF Store!mediaFits(Store!Cardinality(Store!OnR2)) THEN "put" ELSE "unlock"
  <2>1. Store!Goto(p, to) /\ mediaGot' = mediaGot /\ mediaPc[p] = "sum"
    BY <1>7 DEF Store!SumBytes
  <2>2. to \in MediaPlaces(p) /\ to \in {"next", "put", "unlock"}
    BY <1>3, MediaPlacesAre
  <2> HIDE DEF to
  <2>3. p \in File => ~MediaArrived(p) /\ mediaRow[p] = "none"
    BY <1>1, <2>1 DEF MediaUploads, MediaArrived
  <2>4. mediaGot' \in [Store!Process -> SUBSET (File \X {"minio", "r2"})] /\ DOMAIN copying' = Sweep
    BY <1>1, <1>4, <2>1 DEF MediaTypeOK
  <2> QED
    BY <1>4, <2>1, <2>2, <2>3, <2>4, MediaMovePreserves
<1> QED
  BY <1>5, <1>6, <1>7

LEMMA MediaUploadPreserves ==
  ASSUME MediaIInv, NEW f \in File, Store!Upload(f)
  PROVE  MediaIInv'
<1>1. MediaTypeOK /\ MediaUploads
  BY DEF MediaIInv
<1>2. mediaPc[f] = "start" /\ UNCHANGED <<mediaKind, mediaRow, mediaObjects, doomed, mediaGot, copying>>
  BY DEF Store!Upload
<1>3. Store!Goto(f, "put") \/ Store!Goto(f, "ask")
  BY DEF Store!Upload
<1>4. f \in Store!Process /\ "put" \in MediaPlaces(f) /\ "ask" \in MediaPlaces(f)
  BY MediaPlacesAre
<1>5. ~MediaArrived(f) /\ mediaRow[f] = "none"
  BY <1>1, <1>2 DEF MediaUploads, MediaArrived
<1>6. mediaGot' \in [Store!Process -> SUBSET (File \X {"minio", "r2"})] /\ DOMAIN copying' = Sweep
  BY <1>1, <1>2 DEF MediaTypeOK
<1> QED
  BY <1>2, <1>3, <1>4, <1>5, <1>6, MediaMovePreserves

\* What is listed has a row, whose upload has arrived.
LEMMA MediaRowsArrived ==
  ASSUME MediaTypeOK, MediaUploads, NEW K
  PROVE  Store!Rows(K) \in SUBSET (File \X {"minio", "r2"}) /\ \A r \in Store!Rows(K) : MediaArrived(r[1])
<1> SUFFICES ASSUME NEW f \in File, mediaRow[f] # "none"
             PROVE  <<f, mediaRow[f]>> \in File \X {"minio", "r2"} /\ MediaArrived(f)
  BY DEF Store!Rows
<1> QED
  BY DEF MediaTypeOK, MediaUploads

LEMMA MediaListPreserves ==
  ASSUME MediaIInv, NEW t \in Sweep, Store!ListCandidates(t)
  PROVE  MediaIInv'
<1>1. MediaTypeOK /\ MediaUploads
  BY DEF MediaIInv
<1> DEFINE R == { r \in Store!Rows({"evidence"}) : r[2] # "r2" }
<1>2. mediaPc[t] = "start" /\ Store!Goto(t, "ask") /\ mediaGot' = [mediaGot EXCEPT ![t] = R]
      /\ UNCHANGED <<mediaKind, mediaRow, mediaObjects, doomed, copying>>
  BY DEF Store!ListCandidates
<1>3. R \in SUBSET (File \X {"minio", "r2"}) /\ \A r \in R : MediaArrived(r[1])
  BY <1>1, MediaRowsArrived
<1> HIDE DEF R
<1>4. t \in Store!Process /\ t \notin File /\ "ask" \in MediaPlaces(t)
  BY MediaPlacesAre
<1>5. mediaGot' \in [Store!Process -> SUBSET (File \X {"minio", "r2"})] /\ DOMAIN copying' = Sweep
      /\ \A q \in Store!Process : mediaGot'[q] \subseteq mediaGot[q] \/ (q = t /\ \A r \in mediaGot'[q] : MediaArrived(r[1]))
  BY <1>1, <1>2, <1>3, <1>4 DEF MediaTypeOK
<1> QED
  BY <1>2, <1>4, <1>5, MediaMovePreserves

LEMMA MediaFindPreserves ==
  ASSUME MediaIInv, NEW u \in Remover, Store!FindRow(u)
  PROVE  MediaIInv'
<1>1. MediaTypeOK /\ MediaUploads
  BY DEF MediaIInv
<1>2. Store!Goto(u, "row") /\ UNCHANGED <<mediaKind, mediaRow, mediaObjects, doomed, copying>>
  BY DEF Store!FindRow
<1>3. PICK r \in Store!Rows({"evidence", "log"}) : mediaGot' = [mediaGot EXCEPT ![u] = {r}]
  BY DEF Store!FindRow
<1>4. r \in File \X {"minio", "r2"} /\ MediaArrived(r[1])
  BY <1>1, MediaRowsArrived
<1>5. u \in Store!Process /\ u \notin File /\ "row" \in MediaPlaces(u)
  BY MediaPlacesAre
<1>6. mediaGot' \in [Store!Process -> SUBSET (File \X {"minio", "r2"})] /\ DOMAIN copying' = Sweep
      /\ \A q \in Store!Process : mediaGot'[q] \subseteq mediaGot[q] \/ (q = u /\ \A s \in mediaGot'[q] : MediaArrived(s[1]))
  BY <1>1, <1>2, <1>3, <1>4, <1>5 DEF MediaTypeOK
<1> QED
  BY <1>2, <1>5, <1>6, MediaMovePreserves

-----------------------------------------------------------------------------
(* Uploads                                                                 *)

\* The steps of an upload, on its own row and object only.
LEMMA MediaUploadStepPreserves ==
  ASSUME MediaIInv, NEW f \in File, NEW to \in MediaPlaces(f), Store!Goto(f, to), ~MediaArrived(f),
         UNCHANGED <<mediaKind, doomed, mediaGot, copying>>,
         mediaRow' = mediaRow \/ (mediaRow' = [mediaRow EXCEPT ![f] = Store!Target(f)] /\ to \in {"unlock", "done"}),
         \A g \in File : \A b : g # f => (<<g, b>> \in mediaObjects => <<g, b>> \in mediaObjects'),
         to = "insert" => <<f, Store!Target(f)>> \in mediaObjects',
         mediaRow'[f] = "none" \/ <<f, mediaRow'[f]>> \in mediaObjects'
  PROVE  MediaIInv'
<1>1. MediaTypeOK /\ MediaUploads /\ MediaRemovals /\ MediaCopies /\ Store!ObjectBehindRow
  BY DEF MediaIInv
<1>2. f \in Store!Process /\ f \notin Remover /\ f \notin Sweep
  BY MediaPlacesAre
<1>3. /\ DOMAIN mediaPc' = Store!Process /\ mediaPc'[f] = to /\ \A q \in Store!Process \ {f} : mediaPc'[q] = mediaPc[q]
      /\ \A q \in Store!Process : mediaPc'[q] \in MediaPlaces(q)
  BY <1>1, <1>2, MediaGotoIs
<1>4. to \in {"start", "ask", "wait", "sum", "put", "insert", "undo", "unlock", "done"}
  BY MediaPlacesAre
<1>5. mediaRow[f] = "none" /\ Store!Target(f) \in {"minio", "r2"}
  BY <1>1 DEF MediaUploads, Store!Target
<1>6. mediaRow' \in [File -> {"none", "minio", "r2"}] /\ \A g \in File \ {f} : mediaRow'[g] = mediaRow[g]
  BY <1>1, <1>5 DEF MediaTypeOK
<1>7. MediaTypeOK'
  BY <1>1, <1>3, <1>6 DEF MediaTypeOK
<1>8. \A g \in File : g \in Store!Process /\ (g # f => (MediaArrived(g)' <=> MediaArrived(g)))
  BY <1>3, MediaPlacesAre DEF MediaArrived
<1>9. MediaUploads'
  <2> SUFFICES ASSUME NEW g \in File
               PROVE  /\ ~MediaArrived(g)' => mediaRow'[g] = "none"
                      /\ mediaPc'[g] = "insert" => <<g, Store!Target(g)'>> \in mediaObjects'
    BY DEF MediaUploads
  <2>1. Store!Target(g)' = Store!Target(g)
    BY DEF Store!Target
  <2>2. CASE g = f
    BY <1>3, <1>5, <2>1, <2>2 DEF MediaArrived
  <2>3. CASE g # f
    BY <1>1, <1>3, <1>6, <1>8, <2>1, <2>3 DEF MediaUploads
  <2> QED
    BY <2>2, <2>3
<1>10. \A q \in Store!Process : \A r \in mediaGot[q] : r[1] \in File /\ r[1] # f
  BY <1>1 DEF MediaTypeOK, MediaRemovals
<1>11. MediaRemovals'
  BY <1>1, <1>3, <1>4, <1>6, <1>8, <1>10 DEF MediaRemovals
<1>12. MediaCopies'
  <2> SUFFICES ASSUME NEW t \in Sweep, mediaPc'[t] \in {"mark", "drop"}
               PROVE  /\ copying'[t] \in File /\ mediaPc'[copying'[t]] \in {"unlock", "done"}
                      /\ mediaPc'[t] = "mark" => \/ mediaRow'[copying'[t]] = "none"
                                                 \/ copying'[t] \in doomed'
                                                 \/ <<copying'[t], "r2">> \in mediaObjects'
                      /\ mediaPc'[t] = "drop" => mediaRow'[copying'[t]] # "minio"
    BY DEF MediaCopies, MediaArrived
  <2>1. mediaPc'[t] = mediaPc[t] /\ copying'[t] = copying[t]
    BY <1>2, <1>3, MediaPlacesAre
  <2>2. copying[t] \in File /\ MediaArrived(copying[t])
    BY <1>1, <2>1 DEF MediaCopies
  <2>3. copying[t] # f
    BY <2>2
  <2> QED
    BY <1>1, <1>3, <1>6, <1>8, <2>1, <2>2, <2>3 DEF MediaCopies, MediaArrived
<1>13. Store!ObjectBehindRow'
  BY <1>1, <1>6 DEF Store!ObjectBehindRow
<1> QED
  BY <1>7, <1>9, <1>11, <1>12, <1>13 DEF MediaIInv

LEMMA MediaAfterUploadIs == \A f \in File : Store!AfterUpload(f) \in {"unlock", "done"} /\ Store!AfterUpload(f) \in MediaPlaces(f)
BY MediaPlacesAre DEF Store!AfterUpload

LEMMA MediaPutPreserves ==
  ASSUME MediaIInv, NEW f \in File, Store!PutObject(f)
  PROVE  MediaIInv'
<1>1. mediaPc[f] = "put" /\ UNCHANGED <<mediaKind, mediaRow, doomed, mediaGot, copying>>
  BY DEF Store!PutObject
<1>2. ~MediaArrived(f) /\ mediaRow[f] = "none"
  BY <1>1 DEF MediaIInv, MediaUploads, MediaArrived
<1>3. CASE mediaObjects' = mediaObjects \cup {<<f, Store!Target(f)>>} /\ Store!Goto(f, "insert")
  <2>1. "insert" \in MediaPlaces(f)
    BY MediaPlacesAre
  <2> QED
    BY <1>1, <1>2, <1>3, <2>1, MediaUploadStepPreserves
<1>4. CASE mediaObjects' = mediaObjects /\ Store!Goto(f, Store!AfterUpload(f))
  <2>1. Store!AfterUpload(f) \in {"unlock", "done"} /\ Store!AfterUpload(f) \in MediaPlaces(f)
    BY MediaAfterUploadIs
  <2> QED
    BY <1>1, <1>2, <1>4, <2>1, MediaUploadStepPreserves
<1> QED
  BY <1>3, <1>4 DEF Store!PutObject

LEMMA MediaInsertPreserves ==
  ASSUME MediaIInv, NEW f \in File, Store!InsertRow(f)
  PROVE  MediaIInv'
<1>1. mediaPc[f] = "insert" /\ UNCHANGED <<mediaKind, mediaObjects, doomed, mediaGot, copying>>
  BY DEF Store!InsertRow
<1>2. ~MediaArrived(f) /\ mediaRow[f] = "none" /\ <<f, Store!Target(f)>> \in mediaObjects /\ f \in DOMAIN mediaRow
  BY <1>1 DEF MediaIInv, MediaUploads, MediaArrived, MediaTypeOK
<1>3. CASE mediaRow' = [mediaRow EXCEPT ![f] = Store!Target(f)] /\ Store!Goto(f, Store!AfterUpload(f))
  <2>1. Store!AfterUpload(f) \in {"unlock", "done"} /\ Store!AfterUpload(f) \in MediaPlaces(f)
    BY MediaAfterUploadIs
  <2>2. mediaRow'[f] = Store!Target(f)
    BY <1>2, <1>3
  <2> QED
    BY <1>1, <1>2, <1>3, <2>1, <2>2, MediaUploadStepPreserves
<1>4. CASE mediaRow' = mediaRow /\ Store!Goto(f, "undo")
  <2>1. "undo" \in MediaPlaces(f)
    BY MediaPlacesAre
  <2> QED
    BY <1>1, <1>2, <1>4, <2>1, MediaUploadStepPreserves
<1> QED
  BY <1>3, <1>4 DEF Store!InsertRow

LEMMA MediaUndoPreserves ==
  ASSUME MediaIInv, NEW f \in File, Store!UndoPut(f)
  PROVE  MediaIInv'
<1>1. mediaPc[f] = "undo" /\ Store!Goto(f, Store!AfterUpload(f)) /\ UNCHANGED <<mediaKind, mediaRow, doomed, mediaGot, copying>>
      /\ mediaObjects' \in {mediaObjects, mediaObjects \ {<<f, Store!Target(f)>>}}
  BY DEF Store!UndoPut
<1>2. ~MediaArrived(f) /\ mediaRow[f] = "none"
  BY <1>1 DEF MediaIInv, MediaUploads, MediaArrived
<1>3. Store!AfterUpload(f) \in {"unlock", "done"} /\ Store!AfterUpload(f) \in MediaPlaces(f)
  BY MediaAfterUploadIs
<1>4. \A g \in File : \A b : g # f => (<<g, b>> \in mediaObjects => <<g, b>> \in mediaObjects')
  BY <1>1
<1> QED
  BY <1>1, <1>2, <1>3, <1>4, MediaUploadStepPreserves

-----------------------------------------------------------------------------
(* Removals                                                                *)

\* A process that is no upload goes on with the files it has loaded: rows and
\* objects of files go that have arrived.
LEMMA MediaRemovalPreserves ==
  ASSUME MediaIInv, NEW p \in Store!Process \ File, NEW to \in MediaPlaces(p), Store!Goto(p, to),
         to \notin {"mark", "drop"},
         UNCHANGED <<mediaKind, copying>>, doomed \subseteq doomed',
         mediaRow' \in [File -> {"none", "minio", "r2"}],
         \A f \in File : mediaRow'[f] = mediaRow[f] \/ mediaRow'[f] = "none",
         mediaGot' \in [Store!Process -> SUBSET (File \X {"minio", "r2"})],
         \A q \in Store!Process \ {p} : mediaGot'[q] = mediaGot[q],
         \A r \in mediaGot'[p] : /\ MediaArrived(r[1])
                                 /\ to = "object" => mediaRow'[r[1]] = "none"
                                 /\ to \in {"objects", "rows"} => r[1] \in doomed',
         \A f \in File, b \in {"minio", "r2"} :
           <<f, b>> \in mediaObjects /\ <<f, b>> \notin mediaObjects' =>
             MediaArrived(f) /\ (mediaRow[f] = "none" \/ f \in doomed)
  PROVE  MediaIInv'
<1>1. MediaTypeOK /\ MediaUploads /\ MediaRemovals /\ MediaCopies /\ Store!ObjectBehindRow
  BY DEF MediaIInv
<1>2. /\ DOMAIN mediaPc' = Store!Process /\ mediaPc'[p] = to /\ \A q \in Store!Process \ {p} : mediaPc'[q] = mediaPc[q]
      /\ \A q \in Store!Process : mediaPc'[q] \in MediaPlaces(q)
  BY <1>1, MediaGotoIs
<1>3. MediaTypeOK'
  BY <1>1, <1>2 DEF MediaTypeOK
<1>4. \A f \in File : f \in Store!Process /\ f # p /\ mediaPc'[f] = mediaPc[f] /\ (MediaArrived(f)' <=> MediaArrived(f))
  BY <1>2, MediaPlacesAre DEF MediaArrived
<1>5. MediaUploads'
  <2> SUFFICES ASSUME NEW f \in File
               PROVE  /\ ~MediaArrived(f)' => mediaRow'[f] = "none"
                      /\ mediaPc'[f] = "insert" => <<f, Store!Target(f)'>> \in mediaObjects'
    BY DEF MediaUploads
  <2>1. Store!Target(f)' = Store!Target(f) /\ Store!Target(f) \in {"minio", "r2"}
    BY DEF Store!Target
  <2>2. mediaPc'[f] = "insert" => ~MediaArrived(f)
    BY <1>4 DEF MediaArrived
  <2> QED
    BY <1>1, <1>4, <2>1, <2>2 DEF MediaUploads
<1>6. MediaRemovals'
  <2> SUFFICES ASSUME NEW q \in Store!Process, NEW r \in mediaGot'[q]
               PROVE  /\ MediaArrived(r[1])'
                      /\ mediaPc'[q] = "object" => mediaRow'[r[1]] = "none"
                      /\ mediaPc'[q] \in {"objects", "rows"} => r[1] \in doomed'
    BY DEF MediaRemovals
  <2>1. r[1] \in File
    OBVIOUS
  <2>2. CASE q = p
    BY <1>2, <1>4, <2>1, <2>2
  <2>3. CASE q # p
    BY <1>1, <1>2, <1>4, <2>1, <2>3 DEF MediaRemovals
  <2> QED
    BY <2>2, <2>3
<1>7. MediaCopies'
  <2> SUFFICES ASSUME NEW t \in Sweep, mediaPc'[t] \in {"mark", "drop"}
               PROVE  /\ copying'[t] \in File /\ mediaPc'[copying'[t]] \in {"unlock", "done"}
                      /\ mediaPc'[t] = "mark" => \/ mediaRow'[copying'[t]] = "none"
                                                 \/ copying'[t] \in doomed'
                                                 \/ <<copying'[t], "r2">> \in mediaObjects'
                      /\ mediaPc'[t] = "drop" => mediaRow'[copying'[t]] # "minio"
    BY DEF MediaCopies, MediaArrived
  <2>1. mediaPc'[t] = mediaPc[t] /\ copying'[t] = copying[t]
    BY <1>2, MediaPlacesAre
  <2> QED
    <3>1. /\ copying[t] \in File /\ MediaArrived(copying[t])
          /\ mediaPc[t] = "mark" => \/ mediaRow[copying[t]] = "none" \/ copying[t] \in doomed
                                    \/ <<copying[t], "r2">> \in mediaObjects
          /\ mediaPc[t] = "drop" => mediaRow[copying[t]] # "minio"
      BY <1>1, <2>1 DEF MediaCopies
    <3>2. mediaPc'[copying[t]] = mediaPc[copying[t]] /\ (mediaRow'[copying[t]] = mediaRow[copying[t]] \/ mediaRow'[copying[t]] = "none")
      BY <1>4, <3>1
    <3>3. <<copying[t], "r2">> \in mediaObjects => \/ <<copying[t], "r2">> \in mediaObjects'
                                                   \/ mediaRow[copying[t]] = "none" \/ copying[t] \in doomed
      BY <3>1
    <3> QED
      BY <2>1, <3>1, <3>2, <3>3 DEF MediaArrived
<1>8. Store!ObjectBehindRow'
  BY <1>1 DEF Store!ObjectBehindRow, MediaTypeOK
<1> QED
  BY <1>3, <1>5, <1>6, <1>7, <1>8 DEF MediaIInv

LEMMA MediaCleanUpPreserves ==
  ASSUME MediaIInv, NEW p \in Store!Process, Store!CleanUp(p)
  PROVE  MediaIInv'
<1>1. MediaTypeOK /\ MediaUploads
  BY DEF MediaIInv
<1>2. p \notin File /\ Store!Goto(p, "objects") /\ UNCHANGED <<mediaKind, mediaRow, mediaObjects, copying>>
  BY DEF Store!CleanUp
<1>3. PICK K \in {{"evidence"}, {"log"}} :
        LET rowsOf == { r \in Store!Rows(K) : p \in Sweep => r[1] \in old }
        IN  mediaGot' = [mediaGot EXCEPT ![p] = rowsOf] /\ doomed' = doomed \cup { r[1] : r \in rowsOf }
  BY DEF Store!CleanUp
<1> DEFINE rowsOf == { r \in Store!Rows(K) : p \in Sweep => r[1] \in old }
<1>4. rowsOf \in SUBSET (File \X {"minio", "r2"}) /\ \A r \in rowsOf : MediaArrived(r[1]) /\ r[1] \in doomed'
  BY <1>1, <1>3, MediaRowsArrived
<1> HIDE DEF rowsOf
<1>5. mediaGot' = [mediaGot EXCEPT ![p] = rowsOf] /\ doomed \subseteq doomed'
  BY <1>3 DEF rowsOf
<1>6. "objects" \in MediaPlaces(p)
  BY <1>2, MediaPlacesAre DEF Store!Process
<1>7. mediaGot' \in [Store!Process -> SUBSET (File \X {"minio", "r2"})] /\ mediaGot'[p] = rowsOf
      /\ \A q \in Store!Process \ {p} : mediaGot'[q] = mediaGot[q]
  BY <1>1, <1>4, <1>5 DEF MediaTypeOK
<1>8. mediaRow' \in [File -> {"none", "minio", "r2"}]
  BY <1>1, <1>2 DEF MediaTypeOK
<1> QED
  BY <1>2, <1>4, <1>5, <1>6, <1>7, <1>8, MediaRemovalPreserves

LEMMA MediaWithoutIs ==
  ASSUME MediaTypeOK, NEW R
  PROVE  /\ Store!Without(R) \in [File -> {"none", "minio", "r2"}]
         /\ \A f \in File : Store!Without(R)[f] = mediaRow[f] \/ Store!Without(R)[f] = "none"
         /\ \A r \in R : r[1] \in File => Store!Without(R)[r[1]] = "none"
BY DEF Store!Without, MediaTypeOK

LEMMA MediaRemoveRowPreserves ==
  ASSUME MediaIInv, NEW u \in Remover, Store!RemoveRow(u)
  PROVE  MediaIInv'
<1>1. MediaTypeOK /\ MediaRemovals
  BY DEF MediaIInv
<1>2. mediaPc[u] = "row" /\ mediaRow' = Store!Without(mediaGot[u]) /\ Store!Goto(u, "object")
      /\ UNCHANGED <<mediaKind, mediaObjects, doomed, mediaGot, copying>>
  BY DEF Store!RemoveRow
<1>3. u \in Store!Process \ File /\ "object" \in MediaPlaces(u)
  BY MediaPlacesAre
<1>4. mediaGot' \in [Store!Process -> SUBSET (File \X {"minio", "r2"})] /\ \A r \in mediaGot'[u] : r[1] \in File
  BY <1>1, <1>2, <1>3 DEF MediaTypeOK
<1>5. \A r \in mediaGot'[u] : MediaArrived(r[1]) /\ mediaRow'[r[1]] = "none"
  BY <1>1, <1>2, <1>3, <1>4, MediaWithoutIs DEF MediaRemovals
<1>6. mediaRow' \in [File -> {"none", "minio", "r2"}] /\ \A f \in File : mediaRow'[f] = mediaRow[f] \/ mediaRow'[f] = "none"
  BY <1>1, <1>2, MediaWithoutIs
<1> QED
  BY <1>2, <1>3, <1>4, <1>5, <1>6, MediaRemovalPreserves

LEMMA MediaRemoveObjectPreserves ==
  ASSUME MediaIInv, NEW u \in Remover, Store!RemoveObject(u)
  PROVE  MediaIInv'
<1>1. MediaTypeOK /\ MediaRemovals
  BY DEF MediaIInv
<1>2. mediaPc[u] = "object" /\ mediaObjects' \in {mediaObjects, mediaObjects \ mediaGot[u]} /\ Store!Goto(u, "done")
      /\ mediaGot' = [mediaGot EXCEPT ![u] = {}] /\ UNCHANGED <<mediaKind, mediaRow, doomed, copying>>
  BY DEF Store!RemoveObject
<1>3. u \in Store!Process \ File /\ "done" \in MediaPlaces(u)
  BY MediaPlacesAre
<1>4. mediaGot' \in [Store!Process -> SUBSET (File \X {"minio", "r2"})] /\ mediaGot'[u] = {}
      /\ \A q \in Store!Process \ {u} : mediaGot'[q] = mediaGot[q]
  BY <1>1, <1>2, <1>3 DEF MediaTypeOK
<1>5. \A r \in mediaGot[u] : MediaArrived(r[1]) /\ mediaRow[r[1]] = "none"
  BY <1>1, <1>2, <1>3 DEF MediaRemovals
<1>6. \A f \in File, b \in {"minio", "r2"} :
        <<f, b>> \in mediaObjects /\ <<f, b>> \notin mediaObjects' => MediaArrived(f) /\ mediaRow[f] = "none"
  <2> SUFFICES ASSUME NEW f \in File, NEW b \in {"minio", "r2"}, <<f, b>> \in mediaGot[u]
               PROVE  MediaArrived(f) /\ mediaRow[f] = "none"
    BY <1>2
  <2> QED
    BY <1>5
<1>7. mediaRow' \in [File -> {"none", "minio", "r2"}]
  BY <1>1, <1>2 DEF MediaTypeOK
<1> QED
  BY <1>2, <1>3, <1>4, <1>6, <1>7, MediaRemovalPreserves

LEMMA MediaDeletePreserves ==
  ASSUME MediaIInv, NEW p \in Store!Process, Store!deleteObjects(p)
  PROVE  MediaIInv'
<1>1. MediaTypeOK /\ MediaRemovals
  BY DEF MediaIInv
<1>2. mediaPc[p] = "objects" /\ mediaObjects \ mediaGot[p] \subseteq mediaObjects' /\ Store!Goto(p, "rows")
      /\ UNCHANGED <<mediaKind, mediaRow, doomed, mediaGot, copying>>
  BY DEF Store!deleteObjects
<1>3. mediaPc[p] \in MediaPlaces(p) /\ p \notin File
  BY <1>1, <1>2, MediaPlacesAre DEF MediaTypeOK
<1>4. "rows" \in MediaPlaces(p)
  BY <1>3, MediaPlacesAre DEF Store!Process
<1>5. \A r \in mediaGot[p] : MediaArrived(r[1]) /\ r[1] \in doomed
  BY <1>1, <1>2 DEF MediaRemovals
<1>6. \A f \in File, b \in {"minio", "r2"} :
        <<f, b>> \in mediaObjects /\ <<f, b>> \notin mediaObjects' => MediaArrived(f) /\ f \in doomed
  <2> SUFFICES ASSUME NEW f \in File, NEW b \in {"minio", "r2"}, <<f, b>> \in mediaGot[p]
               PROVE  MediaArrived(f) /\ f \in doomed
    BY <1>2
  <2> QED
    BY <1>5
<1>7. mediaRow' \in [File -> {"none", "minio", "r2"}] /\ mediaGot' \in [Store!Process -> SUBSET (File \X {"minio", "r2"})]
  BY <1>1, <1>2 DEF MediaTypeOK
<1> QED
  BY <1>2, <1>3, <1>4, <1>5, <1>6, <1>7, MediaRemovalPreserves

LEMMA MediaRemoveRowsPreserves ==
  ASSUME MediaIInv, NEW p \in Store!Process, Store!RemoveRows(p)
  PROVE  MediaIInv'
<1> DEFINE to == IF p \in Sweep THEN "start" ELSE "done"
<1>1. MediaTypeOK
  BY DEF MediaIInv
<1>2. mediaPc[p] = "rows" /\ mediaRow' = Store!Without(mediaGot[p]) /\ mediaGot' = [mediaGot EXCEPT ![p] = {}] /\ Store!Goto(p, to)
      /\ UNCHANGED <<mediaKind, mediaObjects, doomed, copying>>
  BY DEF Store!RemoveRows
<1>3. mediaPc[p] \in MediaPlaces(p) /\ p \notin File
  BY <1>1, <1>2, MediaPlacesAre DEF MediaTypeOK
<1>4. to \in MediaPlaces(p) /\ to \in {"start", "done"}
  BY <1>3, MediaPlacesAre DEF Store!Process
<1> HIDE DEF to
<1>5. mediaGot' \in [Store!Process -> SUBSET (File \X {"minio", "r2"})] /\ mediaGot'[p] = {}
      /\ \A q \in Store!Process \ {p} : mediaGot'[q] = mediaGot[q]
  BY <1>1, <1>2 DEF MediaTypeOK
<1>6. mediaRow' \in [File -> {"none", "minio", "r2"}] /\ \A f \in File : mediaRow'[f] = mediaRow[f] \/ mediaRow'[f] = "none"
  BY <1>1, <1>2, MediaWithoutIs
<1> QED
  BY <1>2, <1>3, <1>4, <1>5, <1>6, MediaRemovalPreserves

-----------------------------------------------------------------------------
(* Copies to R2                                                            *)

\* A run of the scheduler moves on; no object of a row goes.
LEMMA MediaCopyPreserves ==
  ASSUME MediaIInv, NEW t \in Sweep, NEW to \in MediaPlaces(t),
         Store!Goto(t, to) \/ (mediaPc' = mediaPc /\ mediaPc[t] = to),
         to \notin {"objects", "rows"},
         UNCHANGED <<mediaKind, doomed>>,
         mediaGot' \in [Store!Process -> SUBSET (File \X {"minio", "r2"})],
         \A q \in Store!Process : mediaGot'[q] \subseteq mediaGot[q],
         DOMAIN copying' = Sweep, \A s \in Sweep \ {t} : copying'[s] = copying[s],
         mediaRow' \in [File -> {"none", "minio", "r2"}],
         \A f \in File : mediaRow'[f] = mediaRow[f] \/ (mediaRow'[f] = "r2" /\ mediaRow[f] # "none" /\
           (f \in doomed \/ <<f, "r2">> \in mediaObjects')),
         \A f \in File, b \in {"minio", "r2"} :
           <<f, b>> \in mediaObjects /\ <<f, b>> \notin mediaObjects' =>
             MediaArrived(f) /\ b = "minio" /\ mediaRow[f] # "minio" /\ mediaRow'[f] = mediaRow[f],
         to \in {"mark", "drop"} =>
           /\ copying'[t] \in File /\ MediaArrived(copying'[t])
           /\ to = "mark" => <<copying'[t], "r2">> \in mediaObjects'
           /\ to = "drop" => mediaRow'[copying'[t]] # "minio"
  PROVE  MediaIInv'
<1>1. MediaTypeOK /\ MediaUploads /\ MediaRemovals /\ MediaCopies /\ Store!ObjectBehindRow
  BY DEF MediaIInv
<1>2. t \in Store!Process /\ t \notin File /\ to \notin {"insert", "object", "objects", "rows"}
  BY MediaPlacesAre
<1>3. /\ DOMAIN mediaPc' = Store!Process /\ mediaPc'[t] = to /\ \A q \in Store!Process \ {t} : mediaPc'[q] = mediaPc[q]
      /\ \A q \in Store!Process : mediaPc'[q] \in MediaPlaces(q)
  <2>1. CASE Store!Goto(t, to)
    BY <1>1, <1>2, <2>1, MediaGotoIs
  <2>2. CASE mediaPc' = mediaPc /\ mediaPc[t] = to
    BY <1>1, <2>2 DEF MediaTypeOK
  <2> QED
    BY <2>1, <2>2
<1>4. MediaTypeOK'
  BY <1>1, <1>3 DEF MediaTypeOK
<1>5. \A f \in File : f \in Store!Process /\ mediaPc'[f] = mediaPc[f] /\ (MediaArrived(f)' <=> MediaArrived(f))
  BY <1>2, <1>3, MediaPlacesAre DEF MediaArrived
<1>6. MediaUploads'
  <2> SUFFICES ASSUME NEW f \in File
               PROVE  /\ ~MediaArrived(f)' => mediaRow'[f] = "none"
                      /\ mediaPc'[f] = "insert" => <<f, Store!Target(f)'>> \in mediaObjects'
    BY DEF MediaUploads
  <2>1. Store!Target(f)' = Store!Target(f) /\ Store!Target(f) \in {"minio", "r2"}
    BY DEF Store!Target
  <2>2. mediaPc'[f] = "insert" => ~MediaArrived(f)
    BY <1>5 DEF MediaArrived
  <2> QED
    BY <1>1, <1>5, <2>1, <2>2 DEF MediaUploads
<1>7. MediaRemovals'
  <2> SUFFICES ASSUME NEW q \in Store!Process, NEW r \in mediaGot'[q]
               PROVE  /\ MediaArrived(r[1])'
                      /\ mediaPc'[q] = "object" => mediaRow'[r[1]] = "none"
                      /\ mediaPc'[q] \in {"objects", "rows"} => r[1] \in doomed'
    BY DEF MediaRemovals
  <2>1. r[1] \in File /\ r \in mediaGot[q]
    OBVIOUS
  <2>2. CASE q = t
    BY <1>1, <1>2, <1>3, <1>5, <2>1, <2>2 DEF MediaRemovals
  <2>3. CASE q # t
    <3>1. /\ mediaPc'[q] = mediaPc[q] /\ MediaArrived(r[1])
          /\ mediaPc[q] = "object" => mediaRow[r[1]] = "none"
          /\ mediaPc[q] \in {"objects", "rows"} => r[1] \in doomed
      BY <1>1, <1>3, <2>1, <2>3 DEF MediaRemovals
    <3>2. mediaRow[r[1]] = "none" => mediaRow'[r[1]] = "none"
      BY <2>1
    <3> QED
      BY <1>5, <2>1, <3>1, <3>2
  <2> QED
    BY <2>2, <2>3
<1>8. MediaCopies'
  <2> SUFFICES ASSUME NEW s \in Sweep, mediaPc'[s] \in {"mark", "drop"}
               PROVE  /\ copying'[s] \in File /\ mediaPc'[copying'[s]] \in {"unlock", "done"}
                      /\ mediaPc'[s] = "mark" => \/ mediaRow'[copying'[s]] = "none"
                                                 \/ copying'[s] \in doomed'
                                                 \/ <<copying'[s], "r2">> \in mediaObjects'
                      /\ mediaPc'[s] = "drop" => mediaRow'[copying'[s]] # "minio"
    BY DEF MediaCopies, MediaArrived
  <2>1. CASE s = t
    BY <1>3, <1>5, <2>1 DEF MediaArrived
  <2>2. CASE s # t
    <3>1. mediaPc'[s] = mediaPc[s] /\ copying'[s] = copying[s]
      BY <1>3, <2>2, MediaPlacesAre
    <3>2. /\ copying[s] \in File /\ MediaArrived(copying[s])
          /\ mediaPc[s] = "mark" => \/ mediaRow[copying[s]] = "none" \/ copying[s] \in doomed
                                    \/ <<copying[s], "r2">> \in mediaObjects
          /\ mediaPc[s] = "drop" => mediaRow[copying[s]] # "minio"
      BY <1>1, <3>1 DEF MediaCopies
    <3> QED
      BY <1>5, <3>1, <3>2 DEF MediaArrived
  <2> QED
    BY <2>1, <2>2
<1>9. Store!ObjectBehindRow'
  <2> SUFFICES ASSUME NEW f \in File
               PROVE  mediaRow'[f] = "none" \/ f \in doomed \/ <<f, mediaRow'[f]>> \in mediaObjects'
    BY DEF Store!ObjectBehindRow
  <2>1. mediaRow[f] = "none" \/ f \in doomed \/ <<f, mediaRow[f]>> \in mediaObjects
    BY <1>1 DEF Store!ObjectBehindRow
  <2> QED
    BY <1>1, <2>1 DEF MediaTypeOK
<1> QED
  BY <1>4, <1>6, <1>7, <1>8, <1>9 DEF MediaIInv

LEMMA MediaNextCopyPreserves ==
  ASSUME MediaIInv, NEW t \in Sweep, Store!NextCopy(t)
  PROVE  MediaIInv'
<1>1. MediaTypeOK /\ MediaRemovals
  BY DEF MediaIInv
<1>2. mediaPc[t] = "next" /\ UNCHANGED <<mediaKind, mediaRow, doomed>> /\ t \in Store!Process
  BY MediaPlacesAre DEF Store!NextCopy
<1>3. "unlock" \in MediaPlaces(t) /\ "next" \in MediaPlaces(t) /\ "mark" \in MediaPlaces(t)
  BY MediaPlacesAre
<1>4. mediaRow' \in [File -> {"none", "minio", "r2"}]
  BY <1>1, <1>2 DEF MediaTypeOK
<1>5. CASE Store!Goto(t, "unlock") /\ UNCHANGED <<mediaObjects, mediaGot, copying>>
  BY <1>1, <1>2, <1>3, <1>4, <1>5, MediaCopyPreserves DEF MediaTypeOK
<1>6. ASSUME NEW r \in mediaGot[t], mediaGot' = [mediaGot EXCEPT ![t] = @ \ {r}]
      PROVE  /\ mediaGot' \in [Store!Process -> SUBSET (File \X {"minio", "r2"})]
             /\ \A q \in Store!Process : mediaGot'[q] \subseteq mediaGot[q]
             /\ r[1] \in File /\ MediaArrived(r[1])
  <2>1. mediaGot' \in [Store!Process -> SUBSET (File \X {"minio", "r2"})] /\ \A q \in Store!Process : mediaGot'[q] \subseteq mediaGot[q]
    BY <1>1, <1>2, <1>6 DEF MediaTypeOK
  <2>2. r[1] \in File
    BY <1>1, <1>2 DEF MediaTypeOK
  <2>3. MediaArrived(r[1])
    BY <1>1, <1>2 DEF MediaRemovals
  <2> QED
    BY <2>1, <2>2, <2>3
<1>7. ASSUME NEW r \in mediaGot[t], mediaGot' = [mediaGot EXCEPT ![t] = @ \ {r}],
             mediaObjects' = mediaObjects \cup {<<r[1], "r2">>},
             copying' = [copying EXCEPT ![t] = r[1]], Store!Goto(t, "mark")
      PROVE  MediaIInv'
  <2>1. copying'[t] = r[1] /\ DOMAIN copying' = Sweep /\ \A s \in Sweep \ {t} : copying'[s] = copying[s]
    BY <1>1, <1>7 DEF MediaTypeOK
  <2>2. <<r[1], "r2">> \in mediaObjects' /\ mediaObjects \subseteq mediaObjects'
    BY <1>7
  <2> QED
    BY <1>2, <1>3, <1>4, <1>6, <1>7, <2>1, <2>2, MediaCopyPreserves
<1>8. ASSUME NEW r \in mediaGot[t], mediaGot' = [mediaGot EXCEPT ![t] = @ \ {r}], UNCHANGED <<mediaPc, mediaObjects, copying>>
      PROVE  MediaIInv'
  <2>1. mediaPc' = mediaPc /\ mediaPc[t] = "next"
    BY <1>2, <1>8
  <2>2. DOMAIN copying' = Sweep
    BY <1>1, <1>8 DEF MediaTypeOK
  <2> QED
    BY <1>2, <1>3, <1>4, <1>6, <1>8, <2>1, <2>2, MediaCopyPreserves
<1> QED
  BY <1>5, <1>7, <1>8 DEF Store!NextCopy

LEMMA MediaMarkPreserves ==
  ASSUME MediaIInv, NEW t \in Sweep, Store!MarkCopied(t)
  PROVE  MediaIInv'
<1> DEFINE f == copying[t]
<1>1. MediaTypeOK /\ MediaCopies
  BY DEF MediaIInv
<1>2. mediaPc[t] = "mark" /\ mediaRow' = Store!Marked(t) /\ Store!Goto(t, "drop")
      /\ UNCHANGED <<mediaKind, mediaObjects, doomed, mediaGot, copying>>
  BY DEF Store!MarkCopied
<1>3. f \in File /\ MediaArrived(f) /\ (mediaRow[f] = "none" \/ f \in doomed \/ <<f, "r2">> \in mediaObjects)
  BY <1>1, <1>2 DEF MediaCopies
<1>4. /\ mediaRow' \in [File -> {"none", "minio", "r2"}]
      /\ \A g \in File : g # f => mediaRow'[g] = mediaRow[g]
      /\ mediaRow'[f] = IF mediaRow[f] = "none" THEN "none" ELSE "r2"
  BY <1>1, <1>2, <1>3 DEF MediaTypeOK, Store!Marked
<1>5. \A g \in File : mediaRow'[g] = mediaRow[g] \/ (mediaRow'[g] = "r2" /\ mediaRow[g] # "none" /\
        (g \in doomed \/ <<g, "r2">> \in mediaObjects'))
  BY <1>2, <1>3, <1>4
<1>6. mediaRow'[f] # "minio" /\ "drop" \in MediaPlaces(t)
  BY <1>4, MediaPlacesAre
<1>7. mediaGot' \in [Store!Process -> SUBSET (File \X {"minio", "r2"})] /\ DOMAIN copying' = Sweep
  BY <1>1, <1>2 DEF MediaTypeOK
<1> QED
  BY <1>2, <1>3, <1>4, <1>5, <1>6, <1>7, MediaCopyPreserves

LEMMA MediaDropPreserves ==
  ASSUME MediaIInv, NEW t \in Sweep, Store!DropCopied(t)
  PROVE  MediaIInv'
<1> DEFINE f == copying[t]
<1>1. MediaTypeOK /\ MediaCopies
  BY DEF MediaIInv
<1>2. /\ mediaPc[t] = "drop" /\ mediaObjects' \in {mediaObjects, mediaObjects \ {<<f, "minio">>}}
      /\ copying' = [copying EXCEPT ![t] = Nil] /\ Store!Goto(t, "next")
      /\ UNCHANGED <<mediaKind, mediaRow, doomed, mediaGot>>
  BY DEF Store!DropCopied
<1>3. f \in File /\ MediaArrived(f) /\ mediaRow[f] # "minio"
  BY <1>1, <1>2 DEF MediaCopies
<1>4. \A g \in File, b \in {"minio", "r2"} :
        <<g, b>> \in mediaObjects /\ <<g, b>> \notin mediaObjects' =>
          MediaArrived(g) /\ b = "minio" /\ mediaRow[g] # "minio" /\ mediaRow'[g] = mediaRow[g]
  <2> SUFFICES ASSUME NEW g \in File, NEW b \in {"minio", "r2"}, <<g, b>> = <<f, "minio">>
               PROVE  MediaArrived(g) /\ b = "minio" /\ mediaRow[g] # "minio" /\ mediaRow'[g] = mediaRow[g]
    BY <1>2
  <2>1. g = f /\ b = "minio"
    OBVIOUS
  <2> QED
    BY <1>2, <1>3, <2>1
<1>5. /\ mediaRow' \in [File -> {"none", "minio", "r2"}]
      /\ mediaGot' \in [Store!Process -> SUBSET (File \X {"minio", "r2"})]
      /\ DOMAIN copying' = Sweep /\ \A s \in Sweep \ {t} : copying'[s] = copying[s]
  BY <1>1, <1>2 DEF MediaTypeOK
<1>6. "next" \in MediaPlaces(t)
  BY MediaPlacesAre
<1> QED
  BY <1>2, <1>4, <1>5, <1>6, MediaCopyPreserves

-----------------------------------------------------------------------------
(* The invariant                                                           *)

LEMMA MediaRestartPreserves ==
  ASSUME MediaIInv, Store!Restart
  PROVE  MediaIInv'
<1>1. MediaTypeOK /\ MediaUploads /\ MediaRemovals /\ MediaCopies /\ Store!ObjectBehindRow
  BY DEF MediaIInv
<1>2. /\ mediaPc' = [p \in Store!Process |-> IF mediaPc[p] = "start" \/ p \in Sweep THEN "start" ELSE "done"]
      /\ mediaGot' = [p \in Store!Process |-> {}]
      /\ copying' = [t \in Sweep |-> Nil]
      /\ UNCHANGED <<mediaKind, mediaRow, mediaObjects, doomed>>
  BY DEF Store!Restart
<1>3. \A p \in Store!Process : mediaPc'[p] \in {"start", "done"} /\ mediaPc'[p] \in MediaPlaces(p)
  BY <1>2, MediaPlacesAre DEF Store!Process
<1>4. \A f \in File : f \in Store!Process /\ (mediaPc'[f] = "start" => mediaPc[f] = "start")
  BY <1>2, MediaPlacesAre
<1>5. MediaTypeOK'
  BY <1>1, <1>2, <1>3 DEF MediaTypeOK
<1>6. MediaUploads'
  BY <1>1, <1>2, <1>3, <1>4 DEF MediaUploads, MediaArrived
<1>7. MediaRemovals'
  BY <1>2 DEF MediaRemovals
<1>8. MediaCopies'
  BY <1>3, MediaPlacesAre DEF MediaCopies
<1>9. Store!ObjectBehindRow'
  BY <1>1, <1>2 DEF Store!ObjectBehindRow
<1> QED
  BY <1>5, <1>6, <1>7, <1>8, <1>9 DEF MediaIInv

LEMMA MediaInitIInv ==
  ASSUME Store!Init
  PROVE  MediaIInv
<1>1. /\ mediaKind \in [File -> {"evidence", "log"}]
      /\ mediaRow \in [File -> {"none", "minio"}]
      /\ mediaObjects = { <<f, "minio">> : f \in { g \in File : mediaRow[g] = "minio" } }
      /\ mediaPc = [p \in Store!Process |-> IF p \in File /\ mediaRow[p] # "none" THEN "done" ELSE "start"]
      /\ mediaGot = [p \in Store!Process |-> {}] /\ copying = [t \in Sweep |-> Nil]
  BY DEF Store!Init
<1>2. \A p \in Store!Process : mediaPc[p] \in MediaPlaces(p) /\ mediaPc[p] \in {"start", "done"}
  BY <1>1, MediaPlacesAre DEF Store!Process
<1>3. MediaTypeOK
  BY <1>1, <1>2 DEF MediaTypeOK
<1>4. MediaUploads
  BY <1>1, <1>2, MediaPlacesAre DEF MediaUploads, MediaArrived
<1>5. MediaRemovals
  BY <1>1 DEF MediaRemovals
<1>6. MediaCopies
  BY <1>2, MediaPlacesAre DEF MediaCopies
<1>7. Store!ObjectBehindRow
  BY <1>1 DEF Store!ObjectBehindRow
<1> QED
  BY <1>3, <1>4, <1>5, <1>6, <1>7 DEF MediaIInv

LEMMA MediaNextIInv ==
  ASSUME MediaIInv, [Store!Next]_mediaVars
  PROVE  MediaIInv'
<1>1. ASSUME NEW p \in Store!Process,
             Store!AskLock(p) \/ Store!GetLock(p) \/ Store!Unlock(p) \/ Store!SumBytes(p)
               \/ Store!CleanUp(p) \/ Store!deleteObjects(p) \/ Store!RemoveRows(p)
      PROVE  MediaIInv'
  BY <1>1, MediaLockPreserves, MediaCleanUpPreserves, MediaDeletePreserves,
     MediaRemoveRowsPreserves
<1>2. ASSUME NEW f \in File, Store!Upload(f) \/ Store!PutObject(f) \/ Store!InsertRow(f) \/ Store!UndoPut(f)
      PROVE  MediaIInv'
  BY <1>2, MediaUploadPreserves, MediaPutPreserves, MediaInsertPreserves, MediaUndoPreserves
<1>3. ASSUME UNCHANGED <<mediaKind, mediaRow, mediaObjects, doomed, Store!local>>
      PROVE  MediaIInv'
  BY <1>3
  DEF Store!local, MediaIInv, MediaTypeOK, MediaUploads, MediaArrived, Store!Target,
     MediaRemovals, MediaCopies, Store!ObjectBehindRow
<1>4. ASSUME NEW f \in File, Store!Expire(f)
      PROVE  MediaIInv'
  BY <1>3, <1>4 DEF Store!Expire
<1>5. ASSUME NEW u \in Remover, Store!FindRow(u) \/ Store!RemoveRow(u) \/ Store!RemoveObject(u)
      PROVE  MediaIInv'
  BY <1>5, MediaFindPreserves, MediaRemoveRowPreserves, MediaRemoveObjectPreserves
<1>6. ASSUME NEW t \in Sweep, Store!ListCandidates(t) \/ Store!NextCopy(t) \/ Store!MarkCopied(t) \/ Store!DropCopied(t)
      PROVE  MediaIInv'
  BY <1>6, MediaListPreserves, MediaNextCopyPreserves, MediaMarkPreserves, MediaDropPreserves
<1>7. CASE UNCHANGED mediaVars
  BY <1>3, <1>7 DEF mediaVars, Store!local
<1> QED
  BY <1>1, <1>2, <1>4, <1>5, <1>6, <1>7, MediaRestartPreserves DEF Store!Next

MediaInFocus == focus = "media" => MediaIInv

\* The invariant holds while files are uploaded, removed and copied.
LEMMA MediaMoves == MachinesSpec => []MediaInFocus
<1>1. MachinesInit => MediaInFocus
  BY MediaInitIInv, MediaAssumption DEF MachinesInit, MediaInFocus
<1>2. MediaInFocus /\ [MachinesNext]_machineVars => MediaInFocus'
  BY MediaNextIInv, OneMoves, MediaAssumption DEF MediaInFocus
<1> QED
  BY <1>1, <1>2, PTL DEF MachinesSpec


-----------------------------------------------------------------------------
(***************************************************************************)
(* Videos.  While no two calls overlap, the one under way has in hand what *)
(* the row says.                                                           *)
(***************************************************************************)

\* The cursor of a recording is never on R2.
VideoWhole(f) == f \in Clips!Entries /\ "cursor" \notin Clips!R2Entries(f)

\* What is foreseen of an upload of this kind.
VideoForecast(f, k) == Clips!Cardinality(Clips!R2Entries(f)) - Clips!r2FreedByUpload(f, k) + (IF k \in Clips!OnR2 THEN 1 ELSE 0)

\* What the one call that is under way works on.
VideoUploadAt(c) ==
  LET k   == videoUp[c][1]
      new == <<videoUp[c][2], Clips!Target(k)>>
  IN  /\ videoUp[c] \in Clips!Kind \X Ext
      /\ videoPc[c] = "put" => videoEnt[c] = files /\ total[c] = VideoForecast(files, k)
      /\ videoPc[c] = "delete" =>
           /\ videoEnt[c] = Clips!Renewed(files, k, new) /\ dropped[c] = Clips!StaleRefs(files, k, new)
           /\ Clips!Object(k, new) \in videoObjects
           /\ total[c] = Clips!Cardinality(Clips!R2Entries(videoEnt[c]))
      /\ videoPc[c] = "save" => total[c] = Clips!Cardinality(Clips!R2Entries(videoEnt[c]))

VideoCopyAt(t) ==
  /\ videoUp[t] \in Clips!OnR2 \X Ext
  /\ videoPc[t] \in {"copy", "mark"} => videoThere /\ files[videoUp[t][1]] = <<videoUp[t][2], "minio">>
  /\ videoPc[t] \in {"mark", "marked"} => Clips!InR2(t) \in videoObjects
  /\ videoPc[t] = "marked" => videoEnt[t] = [files EXCEPT ![videoUp[t][1]] = <<videoUp[t][2], "r2">>]
  /\ videoPc[t] = "drop" => files[videoUp[t][1]] = <<videoUp[t][2], "r2">>

VideoInHand(c) ==
  /\ videoPc[c] = "idle" => videoUp[c] = Nil
  /\ videoPc[c] = "put" \/ (videoPc[c] \in {"delete", "save"} /\ videoUp[c] # Nil) => VideoUploadAt(c)
  /\ videoPc[c] = "save" => VideoWhole(videoEnt[c]) /\ Clips!ObjectsOf(videoEnt[c]) \subseteq videoObjects
  /\ videoPc[c] \in {"copy", "mark", "marked", "drop"} => VideoCopyAt(c)

\* Objects go before the row says so, in a call that ends with a save or a removal.
VideoAllThere == (\A c \in Clips!Caller : videoPc[c] \notin {"save", "remove"}) => Clips!ObjectsOf(files) \subseteq videoObjects

VideoShapes ==
  /\ DOMAIN videoPc = Clips!Caller /\ DOMAIN videoUp = Clips!Caller /\ DOMAIN videoEnt = Clips!Caller
  /\ DOMAIN dropped = Clips!Caller /\ DOMAIN total = Clips!Caller

VideoIInv ==
  /\ VideoShapes
  /\ apart =>
       /\ \A c, d \in Clips!Caller : videoPc[c] # "idle" /\ videoPc[d] # "idle" => c = d
       /\ VideoWhole(files)
       /\ VideoAllThere
       /\ \A c \in Clips!Caller : VideoInHand(c)

-----------------------------------------------------------------------------
(* One call at a time                                                      *)

\* The step of a call changes what is its own.
VideoOwn(c) ==
  \A d \in Clips!Caller \ {c} : videoPc'[d] = videoPc[d] /\ videoUp'[d] = videoUp[d] /\ videoEnt'[d] = videoEnt[d]
                          /\ dropped'[d] = dropped[d] /\ total'[d] = total[d]

LEMMA VideoIdleStays ==
  ASSUME VideoIInv, apart, NEW c \in Clips!Caller, VideoOwn(c), \A d \in Clips!Caller \ {c} : videoPc[d] = "idle"
  PROVE  \A d \in Clips!Caller \ {c} : videoPc'[d] = "idle" /\ VideoInHand(d)'
BY DEF VideoIInv, VideoInHand, VideoOwn

LEMMA VideoStepPreserves ==
  ASSUME VideoIInv, apart, NEW c \in Clips!Caller, VideoShapes', VideoOwn(c),
         apart' => \A d \in Clips!Caller \ {c} : videoPc[d] = "idle",
         apart' /\ VideoWhole(files) => VideoWhole(files'),
         apart' => (videoPc'[c] \in {"save", "remove"} \/ Clips!ObjectsOf(files') \subseteq videoObjects'),
         apart' => VideoInHand(c)'
  PROVE  VideoIInv'
<1> SUFFICES ASSUME apart'
             PROVE  /\ \A d, e \in Clips!Caller : videoPc'[d] # "idle" /\ videoPc'[e] # "idle" => d = e
                    /\ VideoWhole(files)' /\ VideoAllThere' /\ \A d \in Clips!Caller : VideoInHand(d)'
  BY DEF VideoIInv
<1>1. \A d \in Clips!Caller \ {c} : videoPc'[d] = "idle" /\ VideoInHand(d)'
  BY VideoIdleStays
<1>2. \A d \in Clips!Caller : VideoInHand(d)'
  BY <1>1
<1>3. VideoWhole(files)'
  BY DEF VideoIInv, VideoWhole, Clips!Entries, Clips!R2Entries
<1>4. VideoAllThere'
  BY DEF VideoAllThere
<1> QED
  BY <1>1, <1>2, <1>3, <1>4

LEMMA VideoGotoIs ==
  ASSUME VideoShapes, NEW c \in Clips!Caller, NEW to, Clips!Goto(c, to)
  PROVE  DOMAIN videoPc' = Clips!Caller /\ videoPc'[c] = to /\ \A d \in Clips!Caller \ {c} : videoPc'[d] = videoPc[d]
BY DEF VideoShapes, Clips!Goto

LEMMA VideoReturnIs ==
  ASSUME VideoShapes, NEW c \in Clips!Caller, Clips!Return(c)
  PROVE  VideoShapes' /\ VideoOwn(c) /\ videoPc'[c] = "idle" /\ videoUp'[c] = Nil
BY DEF VideoShapes, Clips!Return, Clips!Goto, VideoOwn

LEMMA VideoLoadIs ==
  ASSUME VideoShapes, NEW c \in Clips!Caller, NEW to, Clips!Load(c, to)
  PROVE  /\ videoPc[c] = "idle" /\ videoThere
         /\ DOMAIN videoPc' = Clips!Caller /\ videoPc'[c] = to /\ \A d \in Clips!Caller \ {c} : videoPc'[d] = videoPc[d]
         /\ DOMAIN videoEnt' = Clips!Caller /\ videoEnt'[c] = files /\ \A d \in Clips!Caller \ {c} : videoEnt'[d] = videoEnt[d]
         /\ apart' => apart /\ \A d \in Clips!Caller : videoPc[d] = "idle"
BY VideoGotoIs DEF VideoShapes, Clips!Load

\* The rows and objects stay, and what the call had in hand.
LEMMA VideoOnlyCall ==
  ASSUME VideoIInv, apart, NEW c \in Clips!Caller, videoPc[c] # "idle"
  PROVE  VideoWhole(files) /\ VideoInHand(c) /\ \A d \in Clips!Caller \ {c} : videoPc[d] = "idle"
BY DEF VideoIInv

LEMMA VideoAllIdle ==
  ASSUME VideoIInv, apart, \A d \in Clips!Caller : videoPc[d] = "idle"
  PROVE  Clips!ObjectsOf(files) \subseteq videoObjects /\ VideoWhole(files) /\ \A c \in Clips!Caller : videoUp[c] = Nil
BY DEF VideoIInv, VideoAllThere, VideoInHand

LEMMA VideoStillThere ==
  ASSUME VideoIInv, apart, NEW c \in Clips!Caller, videoPc[c] \notin {"idle", "save", "remove"}
  PROVE  Clips!ObjectsOf(files) \subseteq videoObjects
<1>1. \A d \in Clips!Caller : videoPc[d] \notin {"save", "remove"}
  BY VideoOnlyCall
<1> QED
  BY <1>1 DEF VideoIInv, VideoAllThere

-----------------------------------------------------------------------------
(* The entries after an upload                                             *)

LEMMA VideoEntriesFinite ==
  ASSUME NEW f
  PROVE  IsFiniteSet(Clips!R2Entries(f)) /\ \A T \in SUBSET Clips!R2Entries(f) : IsFiniteSet(T)
<1>1. IsFiniteSet(Clips!Kind)
  <2>1. IsFiniteSet({})
    BY FS_EmptySet
  <2>2. IsFiniteSet({} \cup {"recording"})
    BY <2>1, FS_AddElement
  <2>3. IsFiniteSet({} \cup {"recording"} \cup {"cursor"})
    BY <2>2, FS_AddElement
  <2>4. IsFiniteSet({} \cup {"recording"} \cup {"cursor"} \cup {"export"})
    BY <2>3, FS_AddElement
  <2>5. IsFiniteSet({} \cup {"recording"} \cup {"cursor"} \cup {"export"} \cup {"background"})
    BY <2>4, FS_AddElement
  <2>6. Clips!Kind = {} \cup {"recording"} \cup {"cursor"} \cup {"export"} \cup {"background"}
    BY DEF Clips!Kind
  <2> QED
    BY <2>5, <2>6
<1>2. Clips!R2Entries(f) \in SUBSET Clips!Kind
  BY DEF Clips!R2Entries
<1>3. IsFiniteSet(Clips!R2Entries(f))
  BY <1>1, <1>2, FS_Subset
<1> QED
  BY <1>3, FS_Subset

LEMMA VideoCountIs == \A S : Clips!Cardinality(S) = Cardinality(S)
BY DEF Clips!Cardinality, Cardinality

LEMMA VideoNewIs ==
  ASSUME NEW k \in Clips!Kind, NEW e \in Ext
  PROVE  <<e, Clips!Target(k)>> \in Ext \X Clips!Bucket /\ <<e, Clips!Target(k)>> # Nil
         /\ (<<e, Clips!Target(k)>>[2] = "r2" <=> k \in Clips!OnR2)
<1>1. Clips!Target(k) \in Clips!Bucket /\ (Clips!Target(k) = "r2" <=> k \in Clips!OnR2)
  BY DEF Clips!Target, Clips!Bucket
<1> QED
  BY <1>1, VideoAssumption

\* The upload makes of the files on R2 what was foreseen.
LEMMA VideoRenewedIs ==
  ASSUME NEW f, VideoWhole(f), NEW k \in Clips!Kind, NEW e \in Ext
  PROVE  LET r == Clips!Renewed(f, k, <<e, Clips!Target(k)>>)
         IN  VideoWhole(r) /\ Clips!Cardinality(Clips!R2Entries(r)) = VideoForecast(f, k)
<1> DEFINE new == <<e, Clips!Target(k)>>
           r == Clips!Renewed(f, k, new)
           S == Clips!R2Entries(f)
           F == { j \in S : j = k \/ (k = "recording" /\ j = "export") }
           T == S \ F
<1>1. new \in Ext \X Clips!Bucket /\ new # Nil /\ (new[2] = "r2" <=> k \in Clips!OnR2)
  BY VideoNewIs
<1> HIDE DEF new
<1>2. f \in Clips!Entries /\ "cursor" \notin S
  BY DEF VideoWhole
<1>3. r \in Clips!Entries
  BY <1>1, <1>2 DEF Clips!Renewed, Clips!Entries
<1>4. k \notin Clips!Outdated(k)
      /\ \A j \in Clips!Kind : r[j] = CASE j = k -> new [] j \in Clips!Outdated(k) -> Nil [] OTHER -> f[j]
  BY DEF Clips!Renewed, Clips!Outdated
<1>5. Clips!R2Entries(r) = T \cup (IF k \in Clips!OnR2 THEN {k} ELSE {})
  <2>1. ASSUME NEW j \in Clips!Kind
        PROVE  j \in Clips!R2Entries(r) <=> j \in T \/ (k \in Clips!OnR2 /\ j = k)
    <3>1. CASE j = k
      <4>1. r[j] = new
        BY <1>4, <3>1
      <4>2. j \in Clips!R2Entries(r) <=> k \in Clips!OnR2
        BY <1>1, <3>1, <4>1 DEF Clips!R2Entries
      <4>3. j \notin T
        BY <3>1
      <4> QED
        BY <3>1, <4>2, <4>3
    <3>2. CASE j # k /\ j \in Clips!Outdated(k)
      <4>1. r[j] = Nil
        BY <1>4, <3>2
      <4>2. k = "recording" /\ j \in {"cursor", "export"}
        BY <3>2 DEF Clips!Outdated
      <4>3. j \notin T
        BY <1>2, <4>2
      <4> QED
        BY <3>2, <4>1, <4>3 DEF Clips!R2Entries
    <3>3. CASE j # k /\ j \notin Clips!Outdated(k)
      <4>1. r[j] = f[j]
        BY <1>4, <3>3
      <4>2. ~(k = "recording" /\ j = "export")
        BY <3>3 DEF Clips!Outdated
      <4> QED
        BY <3>3, <4>1, <4>2 DEF Clips!R2Entries
    <3> QED
      BY <3>1, <3>2, <3>3
  <2>2. Clips!R2Entries(r) \subseteq Clips!Kind /\ T \subseteq Clips!Kind
    BY DEF Clips!R2Entries
  <2> QED
    BY <2>1, <2>2
<1>6. IsFiniteSet(S) /\ IsFiniteSet(T) /\ k \notin T
  <2>1. T \in SUBSET S /\ k \notin T
    OBVIOUS
  <2> QED
    BY <2>1, VideoEntriesFinite
<1>7. Cardinality(T) = Cardinality(S) - Cardinality(S \cap F) /\ S \cap F = F
  BY <1>6, FS_Difference
<1>8. Clips!r2FreedByUpload(f, k) = Clips!Cardinality(F)
  BY DEF Clips!r2FreedByUpload
<1> HIDE DEF S, F, T, r
<1>9. CASE k \in Clips!OnR2
  <2>1. Clips!R2Entries(r) = T \cup {k}
    BY <1>5, <1>9
  <2>2. Cardinality(T \cup {k}) = Cardinality(T) + 1
    BY <1>6, FS_AddElement
  <2>3. Clips!Cardinality(Clips!R2Entries(r)) = Clips!Cardinality(S) - Clips!Cardinality(F) + 1
    BY <1>7, <2>1, <2>2, VideoCountIs
  <2>4. "cursor" \notin Clips!R2Entries(r)
    BY <1>2, <1>9, <2>1 DEF T, Clips!OnR2
  <2> QED
    BY <1>3, <1>8, <1>9, <2>3, <2>4 DEF VideoForecast, VideoWhole, S, r, new
<1>10. CASE k \notin Clips!OnR2
  <2>1. Clips!R2Entries(r) = T
    BY <1>5, <1>10
  <2>2. Cardinality(S) \in Nat /\ Cardinality(F) \in Nat
    <3>1. IsFiniteSet(F)
      BY VideoEntriesFinite DEF S, F
    <3> QED
      BY <1>6, <3>1, FS_CardinalityType
  <2>3. Clips!Cardinality(Clips!R2Entries(r)) = Clips!Cardinality(S) - Clips!Cardinality(F) + 0
    <3>1. Cardinality(T) = Cardinality(S) - Cardinality(F)
      BY <1>7
    <3>2. Cardinality(S) - Cardinality(F) = Cardinality(S) - Cardinality(F) + 0
      BY <2>2
    <3> QED
      BY <2>1, <3>1, <3>2, VideoCountIs
  <2>4. "cursor" \notin Clips!R2Entries(r)
    BY <1>2, <2>1 DEF T
  <2> QED
    BY <1>3, <1>8, <1>10, <2>3, <2>4 DEF VideoForecast, VideoWhole, S, r, new
<1> QED
  BY <1>9, <1>10

\* What the upload deletes is not among the objects of the new entries.
LEMMA VideoRenewedThere ==
  ASSUME NEW f \in Clips!Entries, NEW k \in Clips!Kind, NEW e \in Ext, NEW O,
         Clips!ObjectsOf(f) \subseteq O, Clips!Object(k, <<e, Clips!Target(k)>>) \in O
  PROVE  LET new == <<e, Clips!Target(k)>>
         IN  Clips!ObjectsOf(Clips!Renewed(f, k, new)) \subseteq O \ Clips!StaleRefs(f, k, new)
<1> DEFINE new == <<e, Clips!Target(k)>>
           r == Clips!Renewed(f, k, new)
<1> SUFFICES ASSUME NEW j \in Clips!Kind, r[j] # Nil
             PROVE  Clips!Object(j, r[j]) \in O /\ Clips!Object(j, r[j]) \notin Clips!StaleRefs(f, k, new)
  BY DEF Clips!ObjectsOf
<1>1. r[j] = CASE j = k -> new [] j \in Clips!Outdated(k) -> Nil [] OTHER -> f[j]
  BY DEF Clips!Renewed
<1>2. \A i \in Clips!Kind : \A x : Clips!Object(i, x)[1] = i
  BY DEF Clips!Object
<1>3. k \notin Clips!Outdated(k)
  BY DEF Clips!Outdated
<1> HIDE DEF r, new
<1>4. CASE j = k
  <2>1. r[j] = new
    BY <1>1, <1>4
  <2>2. Clips!Object(k, new) \notin Clips!StaleRefs(f, k, new)
    <3>1. \A i \in Clips!Outdated(k) : Clips!Object(i, f[i]) # Clips!Object(k, new)
      BY <1>3 DEF Clips!Object
    <3> QED
      BY <3>1 DEF Clips!StaleRefs
  <2> QED
    BY <1>4, <2>1, <2>2 DEF new
<1>5. CASE j # k
  <2>1. r[j] = f[j] /\ j \notin Clips!Outdated(k)
    BY <1>1, <1>5
  <2>2. Clips!Object(j, f[j]) \in Clips!ObjectsOf(f)
    BY <2>1 DEF Clips!ObjectsOf
  <2>3. \A i \in Clips!Outdated(k) : Clips!Object(i, f[i]) # Clips!Object(j, f[j])
    BY <2>1 DEF Clips!Object
  <2>4. Clips!Object(j, f[j]) \notin Clips!StaleRefs(f, k, new)
    BY <1>2, <1>5, <2>3 DEF Clips!StaleRefs
  <2> QED
    BY <2>1, <2>2, <2>4
<1> QED
  BY <1>4, <1>5

-----------------------------------------------------------------------------
(* Uploads                                                                 *)

LEMMA VideoBeginPreserves ==
  ASSUME VideoIInv, apart, NEW c \in Clips!Caller, Clips!BeginUpload(c)
  PROVE  VideoIInv'
<1>1. VideoShapes
  BY DEF VideoIInv
<1>2. PICK k \in Clips!Kind, e \in Ext :
        /\ videoUp' = [videoUp EXCEPT ![c] = <<k, e>>]
        /\ total' = [total EXCEPT ![c] =
             Clips!Cardinality(Clips!R2Entries(files)) - Clips!r2FreedByUpload(files, k) + (IF k \in Clips!OnR2 THEN 1 ELSE 0)]
  BY DEF Clips!BeginUpload
<1>3. Clips!Load(c, "put") /\ UNCHANGED <<videoThere, files, videoObjects, dropped>>
  BY DEF Clips!BeginUpload
<1>4. /\ DOMAIN videoPc' = Clips!Caller /\ videoPc'[c] = "put" /\ \A d \in Clips!Caller \ {c} : videoPc'[d] = videoPc[d]
      /\ DOMAIN videoEnt' = Clips!Caller /\ videoEnt'[c] = files /\ \A d \in Clips!Caller \ {c} : videoEnt'[d] = videoEnt[d]
      /\ apart' => apart /\ \A d \in Clips!Caller : videoPc[d] = "idle"
  BY <1>1, <1>3, VideoLoadIs
<1>5. DOMAIN videoUp' = Clips!Caller /\ videoUp'[c] = <<k, e>> /\ \A d \in Clips!Caller \ {c} : videoUp'[d] = videoUp[d]
  BY <1>1, <1>2 DEF VideoShapes
<1>6. DOMAIN total' = Clips!Caller /\ total'[c] = VideoForecast(files, k) /\ \A d \in Clips!Caller \ {c} : total'[d] = total[d]
  BY <1>1, <1>2 DEF VideoShapes, VideoForecast
<1>7. VideoShapes' /\ VideoOwn(c)
  BY <1>1, <1>3, <1>4, <1>5, <1>6 DEF VideoShapes, VideoOwn
<1>8. VideoUploadAt(c)'
  <2>1. videoUp'[c] \in Clips!Kind \X Ext /\ videoUp'[c][1] = k /\ files' = files
    BY <1>3, <1>5
  <2>2. VideoForecast(files, k)' = VideoForecast(files, k)
    BY <1>3 DEF VideoForecast, Clips!r2FreedByUpload, Clips!R2Entries
  <2> QED
    BY <1>3, <1>4, <1>6, <2>1, <2>2
    DEF VideoUploadAt, VideoForecast, Clips!r2FreedByUpload, Clips!R2Entries
<1>9. VideoInHand(c)'
  BY <1>4, <1>8 DEF VideoInHand
<1> QED
  BY <1>3, <1>4, <1>7, <1>9, VideoAllIdle, VideoStepPreserves

LEMMA VideoPutPreserves ==
  ASSUME VideoIInv, apart, NEW c \in Clips!Caller, Clips!PutObject(c)
  PROVE  VideoIInv'
<1>1. VideoShapes /\ videoPc[c] = "put" /\ UNCHANGED <<videoThere, files, apart>>
  BY DEF VideoIInv, Clips!PutObject
<1>2. VideoWhole(files) /\ VideoInHand(c) /\ (\A d \in Clips!Caller \ {c} : videoPc[d] = "idle")
      /\ Clips!ObjectsOf(files) \subseteq videoObjects
  BY <1>1, VideoOnlyCall, VideoStillThere
<1> DEFINE k == videoUp[c][1]
           e == videoUp[c][2]
           new == <<e, Clips!Target(k)>>
<1>3. k \in Clips!Kind /\ e \in Ext /\ videoUp[c] \in Clips!Kind \X Ext /\ videoEnt[c] = files /\ total[c] = VideoForecast(files, k)
  BY <1>1, <1>2 DEF VideoInHand, VideoUploadAt
<1>4. CASE Clips!Return(c) /\ UNCHANGED videoObjects
  <2>1. VideoShapes' /\ VideoOwn(c) /\ videoPc'[c] = "idle" /\ videoUp'[c] = Nil
    BY <1>1, <1>4, VideoReturnIs
  <2> QED
    BY <1>1, <1>2, <1>4, <2>1, VideoStepPreserves DEF VideoInHand
<1>5. CASE /\ videoObjects' = videoObjects \cup {Clips!Object(k, new)}
           /\ videoEnt' = [videoEnt EXCEPT ![c] = Clips!Renewed(@, k, new)]
           /\ dropped' = [dropped EXCEPT ![c] = Clips!StaleRefs(videoEnt[c], k, new)]
           /\ Clips!Goto(c, "delete")
           /\ UNCHANGED <<videoUp, total>>
  <2>1. DOMAIN videoPc' = Clips!Caller /\ videoPc'[c] = "delete" /\ \A d \in Clips!Caller \ {c} : videoPc'[d] = videoPc[d]
    BY <1>1, <1>5, VideoGotoIs
  <2>2. /\ DOMAIN videoEnt' = Clips!Caller /\ videoEnt'[c] = Clips!Renewed(files, k, new)
        /\ \A d \in Clips!Caller \ {c} : videoEnt'[d] = videoEnt[d]
        /\ DOMAIN dropped' = Clips!Caller /\ dropped'[c] = Clips!StaleRefs(files, k, new)
        /\ \A d \in Clips!Caller \ {c} : dropped'[d] = dropped[d]
    BY <1>1, <1>3, <1>5 DEF VideoShapes
  <2>3. VideoShapes' /\ VideoOwn(c)
    BY <1>1, <1>5, <2>1, <2>2 DEF VideoShapes, VideoOwn
  <2>4. videoUp'[c] = videoUp[c] /\ total'[c] = total[c] /\ videoUp[c] # Nil
    BY <1>3, <1>5, VideoAssumption
  <2>5. total'[c] = Clips!Cardinality(Clips!R2Entries(videoEnt'[c]))
    BY <1>2, <1>3, <2>2, <2>4, VideoRenewedIs
  <2>6. Clips!Object(k, new) \in videoObjects' /\ videoObjects \subseteq videoObjects'
    BY <1>5
  <2>7. VideoUploadAt(c)'
    <3> HIDE DEF k, e, new
    <3>1. videoUp'[c][1] = k /\ videoUp'[c][2] = e /\ videoUp'[c] \in Clips!Kind \X Ext
      BY <1>3, <2>4 DEF k, e
    <3> QED
      BY <1>1, <2>1, <2>2, <2>5, <2>6, <3>1
      DEF VideoUploadAt, Clips!Target, new, Clips!Object, Clips!Renewed, Clips!StaleRefs,
         Clips!ObjectsOf, Clips!Outdated
  <2>8. VideoInHand(c)'
    BY <2>1, <2>7 DEF VideoInHand
  <2>9. Clips!ObjectsOf(files') \subseteq videoObjects'
    BY <1>1, <1>2, <2>6
  <2> QED
    BY <1>1, <1>2, <2>3, <2>8, <2>9, VideoStepPreserves
<1> QED
  BY <1>4, <1>5 DEF Clips!PutObject

LEMMA VideoDeletePreserves ==
  ASSUME VideoIInv, apart, NEW c \in Clips!Caller, Clips!DeleteObjects(c)
  PROVE  VideoIInv'
<1>1. VideoShapes /\ videoPc[c] = "delete" /\ UNCHANGED <<videoThere, files, videoUp, videoEnt, dropped, total, apart>>
  BY DEF VideoIInv, Clips!DeleteObjects
<1>2. videoObjects \ dropped[c] \subseteq videoObjects' /\ Clips!Goto(c, IF videoUp[c] = Nil THEN "remove" ELSE "save")
  BY DEF Clips!DeleteObjects
<1>3. VideoWhole(files) /\ VideoInHand(c) /\ (\A d \in Clips!Caller \ {c} : videoPc[d] = "idle")
      /\ Clips!ObjectsOf(files) \subseteq videoObjects
  BY <1>1, VideoOnlyCall, VideoStillThere
<1>4. CASE videoUp[c] = Nil
  <2>1. DOMAIN videoPc' = Clips!Caller /\ videoPc'[c] = "remove" /\ \A d \in Clips!Caller \ {c} : videoPc'[d] = videoPc[d]
    BY <1>1, <1>2, <1>4, VideoGotoIs
  <2>2. VideoShapes' /\ VideoOwn(c)
    BY <1>1, <2>1 DEF VideoShapes, VideoOwn
  <2> QED
    BY <1>1, <1>3, <2>1, <2>2, VideoStepPreserves DEF VideoInHand
<1>5. CASE videoUp[c] # Nil
  <2> DEFINE k == videoUp[c][1]
             e == videoUp[c][2]
             new == <<e, Clips!Target(k)>>
  <2>1. DOMAIN videoPc' = Clips!Caller /\ videoPc'[c] = "save" /\ \A d \in Clips!Caller \ {c} : videoPc'[d] = videoPc[d]
    BY <1>1, <1>2, <1>5, VideoGotoIs
  <2>2. VideoShapes' /\ VideoOwn(c)
    BY <1>1, <2>1 DEF VideoShapes, VideoOwn
  <2>3. VideoUploadAt(c)
    BY <1>1, <1>3, <1>5 DEF VideoInHand
  <2>4. /\ k \in Clips!Kind /\ e \in Ext /\ videoUp[c] \in Clips!Kind \X Ext
        /\ videoEnt[c] = Clips!Renewed(files, k, new) /\ dropped[c] = Clips!StaleRefs(files, k, new)
        /\ Clips!Object(k, new) \in videoObjects
        /\ total[c] = Clips!Cardinality(Clips!R2Entries(videoEnt[c]))
    BY <1>1, <2>3 DEF VideoUploadAt
  <2>5. VideoWhole(videoEnt[c])
    BY <1>3, <2>4, VideoRenewedIs
  <2>6. Clips!ObjectsOf(videoEnt[c]) \subseteq videoObjects \ dropped[c]
    BY <1>3, <2>4, VideoRenewedThere DEF VideoWhole
  <2>7. VideoWhole(videoEnt[c])' /\ Clips!ObjectsOf(videoEnt[c])' \subseteq videoObjects'
    BY <1>1, <1>2, <2>5, <2>6 DEF VideoWhole, Clips!R2Entries, Clips!ObjectsOf, Clips!Object
  <2>8. VideoUploadAt(c)'
    BY <1>1, <2>1, <2>4 DEF VideoUploadAt, Clips!R2Entries
  <2>9. VideoInHand(c)'
    BY <2>1, <2>7, <2>8 DEF VideoInHand
  <2> QED
    BY <1>1, <1>3, <2>1, <2>2, <2>9, VideoStepPreserves
<1> QED
  BY <1>4, <1>5

LEMMA VideoSavePreserves ==
  ASSUME VideoIInv, apart, NEW c \in Clips!Caller, Clips!Save(c)
  PROVE  VideoIInv'
<1>1. VideoShapes /\ videoPc[c] = "save" /\ files' = videoEnt[c] /\ Clips!Return(c) /\ UNCHANGED <<videoObjects, apart>>
  BY DEF VideoIInv, Clips!Save
<1>2. VideoInHand(c) /\ \A d \in Clips!Caller \ {c} : videoPc[d] = "idle"
  BY <1>1, VideoOnlyCall
<1>3. VideoWhole(files') /\ Clips!ObjectsOf(files') \subseteq videoObjects'
  BY <1>1, <1>2 DEF VideoInHand
<1>4. VideoShapes' /\ VideoOwn(c) /\ videoPc'[c] = "idle" /\ videoUp'[c] = Nil
  BY <1>1, VideoReturnIs
<1> QED
  BY <1>1, <1>2, <1>3, <1>4, VideoStepPreserves DEF VideoInHand

\* An update saves what it has loaded; a removal deletes what the row names.
LEMMA VideoUpdatePreserves ==
  ASSUME VideoIInv, apart, NEW c \in Clips!Caller, Clips!Update(c)
  PROVE  VideoIInv'
<1>1. VideoShapes /\ Clips!Load(c, "save") /\ UNCHANGED <<videoThere, files, videoObjects, videoUp, dropped, total>>
  BY DEF VideoIInv, Clips!Update
<1>2. /\ DOMAIN videoPc' = Clips!Caller /\ videoPc'[c] = "save" /\ \A d \in Clips!Caller \ {c} : videoPc'[d] = videoPc[d]
      /\ DOMAIN videoEnt' = Clips!Caller /\ videoEnt'[c] = files /\ \A d \in Clips!Caller \ {c} : videoEnt'[d] = videoEnt[d]
      /\ apart' => apart /\ \A d \in Clips!Caller : videoPc[d] = "idle"
  BY <1>1, VideoLoadIs
<1>3. VideoShapes' /\ VideoOwn(c)
  BY <1>1, <1>2 DEF VideoShapes, VideoOwn
<1>4. apart' => VideoInHand(c)'
  <2> SUFFICES ASSUME apart'
               PROVE  VideoInHand(c)'
    OBVIOUS
  <2>1. Clips!ObjectsOf(files) \subseteq videoObjects /\ VideoWhole(files) /\ videoUp[c] = Nil
    BY <1>2, VideoAllIdle
  <2>2. videoUp'[c] = Nil /\ VideoWhole(videoEnt'[c]) /\ Clips!ObjectsOf(videoEnt'[c]) \subseteq videoObjects'
    BY <1>1, <1>2, <2>1
  <2> QED
    BY <1>2, <2>2 DEF VideoInHand
<1> QED
  BY <1>1, <1>2, <1>3, <1>4, VideoStepPreserves

LEMMA VideoRemovePreserves ==
  ASSUME VideoIInv, apart, NEW c \in Clips!Caller, Clips!Remove(c)
  PROVE  VideoIInv'
<1>1. VideoShapes /\ Clips!Load(c, "delete") /\ dropped' = [dropped EXCEPT ![c] = Clips!ObjectsOf(files)]
      /\ UNCHANGED <<videoThere, files, videoObjects, videoUp, total>>
  BY DEF VideoIInv, Clips!Remove
<1>2. /\ DOMAIN videoPc' = Clips!Caller /\ videoPc'[c] = "delete" /\ \A d \in Clips!Caller \ {c} : videoPc'[d] = videoPc[d]
      /\ DOMAIN videoEnt' = Clips!Caller /\ videoEnt'[c] = files /\ \A d \in Clips!Caller \ {c} : videoEnt'[d] = videoEnt[d]
      /\ apart' => apart /\ \A d \in Clips!Caller : videoPc[d] = "idle"
  BY <1>1, VideoLoadIs
<1>3. VideoShapes' /\ VideoOwn(c)
  BY <1>1, <1>2 DEF VideoShapes, VideoOwn
<1>4. apart' => VideoInHand(c)' /\ Clips!ObjectsOf(files') \subseteq videoObjects'
  <2> SUFFICES ASSUME apart'
               PROVE  VideoInHand(c)' /\ Clips!ObjectsOf(files') \subseteq videoObjects'
    OBVIOUS
  <2>1. Clips!ObjectsOf(files) \subseteq videoObjects /\ videoUp[c] = Nil
    BY <1>2, VideoAllIdle
  <2> QED
    BY <1>1, <1>2, <2>1 DEF VideoInHand
<1> QED
  BY <1>1, <1>2, <1>3, <1>4, VideoStepPreserves

LEMMA VideoRemoveRowPreserves ==
  ASSUME VideoIInv, apart, NEW c \in Clips!Caller, Clips!RemoveRow(c)
  PROVE  VideoIInv'
<1>1. VideoShapes /\ videoPc[c] = "remove" /\ files' = Clips!Empty /\ Clips!Return(c) /\ UNCHANGED <<videoObjects, apart>>
  BY DEF VideoIInv, Clips!RemoveRow
<1>2. \A d \in Clips!Caller \ {c} : videoPc[d] = "idle"
  BY <1>1, VideoOnlyCall
<1>3. VideoWhole(files') /\ Clips!ObjectsOf(files') \subseteq videoObjects'
  BY <1>1 DEF VideoWhole, Clips!Entries, Clips!Empty, Clips!ObjectsOf, Clips!R2Entries
<1>4. VideoShapes' /\ VideoOwn(c) /\ videoPc'[c] = "idle" /\ videoUp'[c] = Nil
  BY <1>1, VideoReturnIs
<1> QED
  BY <1>1, <1>2, <1>3, <1>4, VideoStepPreserves DEF VideoInHand

LEMMA VideoDiePreserves ==
  ASSUME VideoIInv, apart, NEW c \in Clips!Caller, Clips!Die(c)
  PROVE  VideoIInv'
<1>1. VideoShapes /\ videoPc[c] # "idle" /\ apart' = (apart /\ videoPc[c] = "put") /\ Clips!Return(c)
      /\ UNCHANGED <<videoThere, files, videoObjects>>
  BY DEF VideoIInv, Clips!Die
<1>2. \A d \in Clips!Caller \ {c} : videoPc[d] = "idle"
  BY <1>1, VideoOnlyCall
<1>3. apart' => Clips!ObjectsOf(files') \subseteq videoObjects'
  BY <1>1, VideoStillThere
<1>4. VideoShapes' /\ VideoOwn(c) /\ videoPc'[c] = "idle" /\ videoUp'[c] = Nil
  BY <1>1, VideoReturnIs
<1> QED
  BY <1>1, <1>2, <1>3, <1>4, VideoStepPreserves DEF VideoInHand

-----------------------------------------------------------------------------
(* Copies to R2                                                            *)

LEMMA VideoListPreserves ==
  ASSUME VideoIInv, apart, NEW t \in Clips!Caller, Clips!ListCandidate(t)
  PROVE  VideoIInv'
<1>1. VideoShapes /\ Clips!Load(t, "copy") /\ UNCHANGED <<videoThere, files, videoObjects, dropped, total>>
  BY DEF VideoIInv, Clips!ListCandidate
<1>2. PICK k \in Clips!OnR2 :
        /\ files[k] # Nil /\ files[k][2] = "minio"
        /\ videoUp' = [videoUp EXCEPT ![t] = <<k, files[k][1]>>]
  BY DEF Clips!ListCandidate
<1>3. /\ DOMAIN videoPc' = Clips!Caller /\ videoPc'[t] = "copy" /\ \A d \in Clips!Caller \ {t} : videoPc'[d] = videoPc[d]
      /\ DOMAIN videoEnt' = Clips!Caller /\ \A d \in Clips!Caller \ {t} : videoEnt'[d] = videoEnt[d]
      /\ videoThere
      /\ apart' => apart /\ \A d \in Clips!Caller : videoPc[d] = "idle"
  BY <1>1, VideoLoadIs
<1>4. VideoShapes' /\ VideoOwn(t) /\ videoUp'[t] = <<k, files[k][1]>>
  BY <1>1, <1>2, <1>3 DEF VideoShapes, VideoOwn
<1>5. apart' => VideoInHand(t)' /\ Clips!ObjectsOf(files') \subseteq videoObjects'
  <2> SUFFICES ASSUME apart'
               PROVE  VideoInHand(t)' /\ Clips!ObjectsOf(files') \subseteq videoObjects'
    OBVIOUS
  <2>1. Clips!ObjectsOf(files) \subseteq videoObjects /\ VideoWhole(files)
    BY <1>3, VideoAllIdle
  <2>2. files[k] \in Ext \X Clips!Bucket
    BY <1>2, <2>1 DEF VideoWhole, Clips!Entries, Clips!OnR2
  <2>3. VideoCopyAt(t)'
    BY <1>1, <1>2, <1>3, <1>4, <2>2 DEF VideoCopyAt
  <2> QED
    BY <1>1, <1>3, <2>1, <2>3 DEF VideoInHand
<1> QED
  BY <1>1, <1>3, <1>4, <1>5, VideoStepPreserves

LEMMA VideoCopyPreserves ==
  ASSUME VideoIInv, apart, NEW t \in Clips!Caller, Clips!CopyToR2(t)
  PROVE  VideoIInv'
<1>1. VideoShapes /\ videoPc[t] = "copy" /\ UNCHANGED <<videoThere, files, apart>>
  BY DEF VideoIInv, Clips!CopyToR2
<1>2. VideoWhole(files) /\ VideoInHand(t) /\ (\A d \in Clips!Caller \ {t} : videoPc[d] = "idle")
      /\ Clips!ObjectsOf(files) \subseteq videoObjects
  BY <1>1, VideoOnlyCall, VideoStillThere
<1>3. CASE Clips!Return(t) /\ UNCHANGED videoObjects
  <2>1. VideoShapes' /\ VideoOwn(t) /\ videoPc'[t] = "idle" /\ videoUp'[t] = Nil
    BY <1>1, <1>3, VideoReturnIs
  <2> QED
    BY <1>1, <1>2, <1>3, <2>1, VideoStepPreserves DEF VideoInHand
<1>4. CASE videoObjects' = videoObjects \cup {Clips!InR2(t)} /\ Clips!Goto(t, "mark") /\ UNCHANGED <<videoUp, videoEnt, dropped, total>>
  <2>1. DOMAIN videoPc' = Clips!Caller /\ videoPc'[t] = "mark" /\ \A d \in Clips!Caller \ {t} : videoPc'[d] = videoPc[d]
    BY <1>1, <1>4, VideoGotoIs
  <2>2. VideoShapes' /\ VideoOwn(t)
    BY <1>1, <1>4, <2>1 DEF VideoShapes, VideoOwn
  <2>3. VideoCopyAt(t)
    BY <1>1, <1>2 DEF VideoInHand
  <2>4. VideoCopyAt(t)'
    BY <1>1, <1>4, <2>1, <2>3 DEF VideoCopyAt, Clips!InR2
  <2> QED
    BY <1>1, <1>2, <1>4, <2>1, <2>2, <2>4, VideoStepPreserves DEF VideoInHand
<1> QED
  BY <1>3, <1>4 DEF Clips!CopyToR2

LEMMA VideoFindPreserves ==
  ASSUME VideoIInv, apart, NEW t \in Clips!Caller, Clips!FindMarked(t)
  PROVE  VideoIInv'
<1> DEFINE k == videoUp[t][1]
<1>1. VideoShapes /\ videoPc[t] = "mark" /\ UNCHANGED <<videoThere, files, videoObjects, videoUp, dropped, total, apart>>
  BY DEF VideoIInv, Clips!FindMarked
<1>2. VideoWhole(files) /\ VideoInHand(t) /\ (\A d \in Clips!Caller \ {t} : videoPc[d] = "idle")
      /\ Clips!ObjectsOf(files) \subseteq videoObjects
  BY <1>1, VideoOnlyCall, VideoStillThere
<1>3. VideoCopyAt(t)
  BY <1>1, <1>2 DEF VideoInHand
<1>4. /\ k \in Clips!OnR2 /\ videoUp[t][2] \in Ext /\ videoThere /\ files[k] = <<videoUp[t][2], "minio">>
      /\ Clips!InR2(t) \in videoObjects
  BY <1>1, <1>3 DEF VideoCopyAt
<1>5. files[k] # Nil
  BY <1>4, VideoAssumption DEF Clips!Bucket
<1>6. videoEnt' = [videoEnt EXCEPT ![t] = [files EXCEPT ![k] = <<@[1], "r2">>]] /\ Clips!Goto(t, "marked")
  BY <1>4, <1>5 DEF Clips!FindMarked
<1>7. DOMAIN videoPc' = Clips!Caller /\ videoPc'[t] = "marked" /\ \A d \in Clips!Caller \ {t} : videoPc'[d] = videoPc[d]
  BY <1>1, <1>6, VideoGotoIs
<1>8. videoEnt'[t] = [files EXCEPT ![k] = <<videoUp[t][2], "r2">>]
  BY <1>1, <1>4, <1>6 DEF VideoShapes
<1>9. VideoShapes' /\ VideoOwn(t)
  BY <1>1, <1>6, <1>7 DEF VideoShapes, VideoOwn
<1>10. VideoCopyAt(t)'
  BY <1>1, <1>3, <1>4, <1>7, <1>8 DEF VideoCopyAt, Clips!InR2
<1> QED
  BY <1>1, <1>2, <1>7, <1>9, <1>10, VideoStepPreserves DEF VideoInHand

LEMMA VideoSaveMarkedPreserves ==
  ASSUME VideoIInv, apart, NEW t \in Clips!Caller, Clips!SaveMarked(t)
  PROVE  VideoIInv'
<1> DEFINE k == videoUp[t][1]
           e == videoUp[t][2]
<1>1. VideoShapes /\ videoPc[t] = "marked" /\ files' = videoEnt[t] /\ Clips!Goto(t, "drop")
      /\ UNCHANGED <<videoObjects, videoUp, videoEnt, dropped, total, apart>>
  BY DEF VideoIInv, Clips!SaveMarked
<1>2. VideoWhole(files) /\ VideoInHand(t) /\ (\A d \in Clips!Caller \ {t} : videoPc[d] = "idle")
      /\ Clips!ObjectsOf(files) \subseteq videoObjects
  BY <1>1, VideoOnlyCall, VideoStillThere
<1>3. VideoCopyAt(t)
  BY <1>1, <1>2 DEF VideoInHand
<1>4. k \in Clips!OnR2 /\ e \in Ext /\ videoUp[t] \in Clips!OnR2 \X Ext /\ Clips!InR2(t) \in videoObjects
      /\ files' = [files EXCEPT ![k] = <<e, "r2">>]
  BY <1>1, <1>3 DEF VideoCopyAt
<1>5. DOMAIN videoPc' = Clips!Caller /\ videoPc'[t] = "drop" /\ \A d \in Clips!Caller \ {t} : videoPc'[d] = videoPc[d]
  BY <1>1, VideoGotoIs
<1>6. VideoShapes' /\ VideoOwn(t)
  BY <1>1, <1>5 DEF VideoShapes, VideoOwn
<1>7. /\ files' \in Clips!Entries /\ files'[k] = <<e, "r2">> /\ k \in Clips!Kind /\ k # "cursor"
      /\ \A j \in Clips!Kind \ {k} : files'[j] = files[j]
  BY <1>2, <1>4 DEF VideoWhole, Clips!Entries, Clips!OnR2, Clips!Bucket, Clips!Kind
<1>8. VideoWhole(files')
  BY <1>2, <1>7 DEF VideoWhole, Clips!R2Entries
<1>9. Clips!ObjectsOf(files') \subseteq videoObjects'
  <2> SUFFICES ASSUME NEW j \in Clips!Kind, files'[j] # Nil
               PROVE  Clips!Object(j, files'[j]) \in videoObjects
    BY <1>1 DEF Clips!ObjectsOf
  <2>1. CASE j = k
    BY <1>4, <1>7, <2>1 DEF Clips!Object, Clips!InR2
  <2>2. CASE j # k
    BY <1>2, <1>7, <2>2 DEF Clips!ObjectsOf
  <2> QED
    BY <2>1, <2>2
<1>10. VideoCopyAt(t)'
  BY <1>1, <1>4, <1>5, <1>7 DEF VideoCopyAt
<1> QED
  BY <1>1, <1>2, <1>5, <1>6, <1>8, <1>9, <1>10, VideoStepPreserves DEF VideoInHand

LEMMA VideoDropPreserves ==
  ASSUME VideoIInv, apart, NEW t \in Clips!Caller, Clips!DropCopied(t)
  PROVE  VideoIInv'
<1> DEFINE k == videoUp[t][1]
           e == videoUp[t][2]
<1>1. VideoShapes /\ videoPc[t] = "drop" /\ videoObjects \ {Clips!InMinio(t)} \subseteq videoObjects' /\ Clips!Return(t)
      /\ UNCHANGED <<videoThere, files, apart>>
  BY DEF VideoIInv, Clips!DropCopied
<1>2. VideoWhole(files) /\ VideoInHand(t) /\ (\A d \in Clips!Caller \ {t} : videoPc[d] = "idle")
      /\ Clips!ObjectsOf(files) \subseteq videoObjects
  BY <1>1, VideoOnlyCall, VideoStillThere
<1>3. k \in Clips!OnR2 /\ files[k] = <<e, "r2">>
  BY <1>1, <1>2 DEF VideoInHand, VideoCopyAt
<1>4. VideoShapes' /\ VideoOwn(t) /\ videoPc'[t] = "idle" /\ videoUp'[t] = Nil
  BY <1>1, VideoReturnIs
<1>5. Clips!InMinio(t) \notin Clips!ObjectsOf(files)
  <2> SUFFICES ASSUME NEW j \in Clips!Kind
               PROVE  Clips!Object(j, files[j]) # Clips!InMinio(t)
    BY DEF Clips!ObjectsOf
  <2>1. CASE j = k
    BY <1>3, <2>1 DEF Clips!Object, Clips!InMinio
  <2>2. CASE j # k
    BY <2>2 DEF Clips!Object, Clips!InMinio
  <2> QED
    BY <2>1, <2>2
<1>6. Clips!ObjectsOf(files') \subseteq videoObjects'
  BY <1>1, <1>2, <1>5
<1> QED
  BY <1>1, <1>2, <1>4, <1>6, VideoStepPreserves DEF VideoInHand

-----------------------------------------------------------------------------
(* The invariant and the properties                                        *)

LEMMA VideoInitIInv ==
  ASSUME Clips!Init
  PROVE  VideoIInv
<1>1. /\ files \in {Clips!Empty} \cup { [Clips!Empty EXCEPT !["recording"] = <<e, "minio">>] : e \in Ext }
      /\ videoObjects = Clips!ObjectsOf(files)
      /\ videoPc = [c \in Clips!Caller |-> "idle"] /\ videoUp = [c \in Clips!Caller |-> Nil]
      /\ videoEnt = [c \in Clips!Caller |-> Clips!Empty] /\ dropped = [c \in Clips!Caller |-> {}]
      /\ total = [c \in Clips!Caller |-> 0]
  BY DEF Clips!Init
<1>2. VideoShapes
  BY <1>1 DEF VideoShapes
<1>3. Clips!Empty \in Clips!Entries /\ \A j \in Clips!Kind : Clips!Empty[j] = Nil
  BY DEF Clips!Empty, Clips!Entries
<1>4. VideoWhole(files)
  <2>1. CASE files = Clips!Empty
    BY <1>3, <2>1 DEF VideoWhole, Clips!R2Entries
  <2>2. ASSUME NEW e \in Ext, files = [Clips!Empty EXCEPT !["recording"] = <<e, "minio">>]
        PROVE  VideoWhole(files)
    <3>1. <<e, "minio">> \in Ext \X Clips!Bucket /\ "cursor" \in Clips!Kind /\ "recording" \in Clips!Kind
      BY DEF Clips!Bucket, Clips!Kind
    <3>2. files \in Clips!Entries
      BY <1>3, <2>2, <3>1 DEF Clips!Entries
    <3>3. files["cursor"] = Nil
      BY <1>3, <2>2, <3>1 DEF Clips!Entries
    <3> QED
      BY <3>2, <3>3 DEF VideoWhole, Clips!R2Entries
  <2> QED
    BY <1>1, <2>1, <2>2
<1>5. VideoAllThere /\ \A c \in Clips!Caller : videoPc[c] = "idle" /\ VideoInHand(c)
  BY <1>1 DEF VideoAllThere, VideoInHand
<1> QED
  BY <1>2, <1>4, <1>5 DEF VideoIInv

LEMMA VideoNextIInv ==
  ASSUME VideoIInv, [apart /\ Clips!Next]_videoVars
  PROVE  VideoIInv'
<1>1. ASSUME apart, NEW c \in Clips!Caller,
             \/ Clips!BeginUpload(c) \/ Clips!PutObject(c) \/ Clips!DeleteObjects(c) \/ Clips!Save(c)
             \/ Clips!Update(c) \/ Clips!Remove(c) \/ Clips!RemoveRow(c) \/ Clips!Die(c)
      PROVE  VideoIInv'
  BY <1>1, VideoBeginPreserves, VideoPutPreserves, VideoDeletePreserves, VideoSavePreserves,
     VideoUpdatePreserves,
     VideoRemovePreserves, VideoRemoveRowPreserves, VideoDiePreserves
<1>2. ASSUME apart, NEW t \in Copier,
             Clips!ListCandidate(t) \/ Clips!CopyToR2(t) \/ Clips!FindMarked(t) \/ Clips!SaveMarked(t) \/ Clips!DropCopied(t)
      PROVE  VideoIInv'
  <2>1. t \in Clips!Caller
    BY DEF Clips!Caller
  <2> QED
    BY <1>2, <2>1, VideoListPreserves, VideoCopyPreserves, VideoFindPreserves,
       VideoSaveMarkedPreserves, VideoDropPreserves
<1>3. CASE UNCHANGED videoVars
  <2>1. VideoShapes'
    BY <1>3 DEF videoVars, VideoIInv, VideoShapes
  <2>2. ASSUME apart'
        PROVE  /\ \A c, d \in Clips!Caller : videoPc'[c] # "idle" /\ videoPc'[d] # "idle" => c = d
               /\ VideoWhole(files)' /\ VideoAllThere'
    BY <1>3, <2>2
    DEF videoVars, VideoIInv, VideoAllThere, Clips!ObjectsOf, Clips!Object, VideoWhole,
       Clips!Entries, Clips!R2Entries
  <2>3. ASSUME apart', NEW c \in Clips!Caller
        PROVE  VideoInHand(c)'
    <3>1. VideoInHand(c)
      BY <1>3, <2>3 DEF videoVars, VideoIInv
    <3> QED
      BY <1>3, <3>1
      DEF videoVars, VideoInHand, VideoUploadAt, VideoForecast, Clips!r2FreedByUpload,
         Clips!R2Entries, Clips!Renewed, Clips!StaleRefs,
                        Clips!Target, Clips!Outdated, VideoCopyAt, Clips!InR2, VideoWhole, Clips!Entries, Clips!ObjectsOf, Clips!Object
  <2> QED
    BY <2>1, <2>2, <2>3 DEF VideoIInv
<1> QED
  BY <1>1, <1>2, <1>3 DEF Clips!Next

LEMMA VideoEntriesLead == VideoIInv => Clips!EntryHasObject
BY DEF VideoIInv, VideoAllThere, Clips!EntryHasObject

LEMMA VideoIsForeseen == VideoIInv => Clips!Foresees
<1> SUFFICES ASSUME VideoIInv, NEW c \in Uploader, apart, videoPc[c] = "save", videoUp[c] # Nil, files' = videoEnt[c]
             PROVE  Clips!Cardinality(Clips!R2Entries(files')) = total[c]
  BY DEF Clips!Foresees
<1>1. VideoUploadAt(c)
  BY DEF VideoIInv, VideoInHand, Clips!Caller
<1> QED
  BY <1>1 DEF VideoUploadAt

VideoInFocus == focus = "videos" => VideoIInv

\* The invariant holds while one call on the video comes after another.
LEMMA VideoMoves == MachinesSpec => []VideoInFocus
<1>1. MachinesInit => VideoInFocus
  BY VideoInitIInv, VideoAssumption DEF MachinesInit, VideoInFocus
<1>2. VideoInFocus /\ [MachinesNext]_machineVars => VideoInFocus'
  BY VideoNextIInv, OneMoves, VideoAssumption DEF VideoInFocus
<1> QED
  BY <1>1, <1>2, PTL DEF MachinesSpec

\* The row of a file leads to an object in the store that it names, and so do the
\* entries of a video as long as calls come one after another.
THEOREM RowLeadsToObjectCorrect == MachinesSpec => []RowLeadsToObject
<1>1. MediaInFocus /\ VideoInFocus => RowLeadsToObject
  BY VideoEntriesLead, VideoAssumption DEF MediaInFocus, MediaIInv, VideoInFocus, RowLeadsToObject
<1> QED
  BY <1>1, MediaMoves, VideoMoves, PTL

\* What the quota is checked against is what the upload makes of the files on R2,
\* as long as calls come one after another.
THEOREM SpaceIsForeseenCorrect == MachinesSpec => SpaceIsForeseen
<1>1. VideoInFocus /\ [MachinesNext]_machineVars
      => [focus = "videos" => Clips!Foresees]_machineVars
  BY VideoIsForeseen, VideoAssumption DEF VideoInFocus
<1> QED
  BY <1>1, VideoMoves, PTL DEF MachinesSpec, SpaceIsForeseen

-----------------------------------------------------------------------------
(***************************************************************************)
(* Audits. The one audit under way has a row, unless its site was removed  *)
(* under it, and a row says how far its audit is.                          *)
(***************************************************************************)

AuditPlaces == {"idle", "start", "find", "mark", "crawl", "pages", "lighthouse", "complete", "catch"}
AuditStatuses == {"none", "queued", "running", "complete", "failed"}

AuditTypeOK ==
  /\ status \in [Audit!Run -> AuditStatuses]
  /\ auditPc \in [Audit!Run -> AuditPlaces]
  /\ auditAsked \in Nat
  /\ busy \in BOOLEAN

\* The audit under way, while the flag is up.
AuditAlone ==
  /\ busy <=> Audit!UnderWay # {}
  /\ \A r, q \in Audit!UnderWay : r = q

\* An audit has a row from its second step on, unless its site was removed under it.
AuditInOrder ==
  \A r \in Audit!Run :
    /\ r > auditAsked => auditPc[r] = "idle" /\ status[r] = "none"
    /\ auditPc[r] = "start" => status[r] = "none"
    /\ auditPc[r] \notin {"idle", "start"} /\ ~Audit!There(r) => r \in removed

\* What a row says of its audit.
AuditEntered ==
  \A r \in Audit!Run :
    /\ status[r] \in Audit!Unfinished => r \in Audit!UnderWay \cup cut
    /\ status[r] = "complete" => r \in auditPages \cap lighthouse
    /\ auditPc[r] \in {"lighthouse", "complete"} /\ Audit!There(r) => r \in auditPages
    /\ auditPc[r] = "complete" /\ Audit!There(r) => r \in lighthouse

AuditIInv == AuditTypeOK /\ AuditAlone /\ AuditInOrder /\ AuditEntered /\ (died => removed # {})

-----------------------------------------------------------------------------
(* The one audit under way                                                 *)

LEMMA AuditGotoIs ==
  ASSUME AuditTypeOK, NEW r \in Audit!Run, NEW to \in AuditPlaces, Audit!Goto(r, to)
  PROVE  auditPc' \in [Audit!Run -> AuditPlaces] /\ auditPc'[r] = to /\ \A q \in Audit!Run \ {r} : auditPc'[q] = auditPc[q]
BY DEF AuditTypeOK, Audit!Goto

\* The audit under way takes a step, or it ends, and touches no row of another.
LEMMA AuditStepPreserves ==
  ASSUME AuditIInv, NEW r \in Audit!Run, auditPc[r] # "idle", NEW to \in AuditPlaces, Audit!Goto(r, to),
         busy' = (to # "idle"), UNCHANGED <<auditAsked, removed, cut, died>>,
         status' \in [Audit!Run -> AuditStatuses], \A q \in Audit!Run \ {r} : status'[q] = status[q],
         \A q \in Audit!Run \ {r} : /\ q \in auditPages => q \in auditPages'
                                    /\ q \in lighthouse => q \in lighthouse',
         to \notin {"idle", "start"} /\ status'[r] = "none" => r \in removed,
         to = "start" => status'[r] = "none",
         status'[r] \in Audit!Unfinished => to # "idle" \/ r \in cut,
         status'[r] = "complete" => r \in auditPages' \cap lighthouse',
         to \in {"lighthouse", "complete"} /\ status'[r] # "none" => r \in auditPages',
         to = "complete" /\ status'[r] # "none" => r \in lighthouse'
  PROVE  AuditIInv'
<1>1. AuditTypeOK /\ AuditAlone /\ AuditInOrder /\ AuditEntered /\ (died => removed # {})
  BY DEF AuditIInv
<1>2. auditPc' \in [Audit!Run -> AuditPlaces] /\ auditPc'[r] = to /\ \A q \in Audit!Run \ {r} : auditPc'[q] = auditPc[q]
  BY <1>1, AuditGotoIs
<1>3. AuditTypeOK'
  BY <1>1, <1>2 DEF AuditTypeOK
<1>4. r \in Audit!UnderWay /\ \A q \in Audit!Run \ {r} : auditPc[q] = "idle" /\ auditPc'[q] = "idle"
  BY <1>1, <1>2 DEF AuditAlone, Audit!UnderWay
<1>5. Audit!UnderWay' = IF to = "idle" THEN {} ELSE {r}
  BY <1>2, <1>4 DEF Audit!UnderWay
<1>6. AuditAlone'
  BY <1>5 DEF AuditAlone
<1>7. AuditInOrder'
  BY <1>1, <1>2, <1>4 DEF AuditInOrder, Audit!There
<1>8. AuditEntered'
  BY <1>1, <1>2, <1>4, <1>5 DEF AuditEntered, Audit!There, Audit!UnderWay
<1> QED
  BY <1>1, <1>3, <1>6, <1>7, <1>8 DEF AuditIInv

\* Whatever is under way ends; nothing is entered.
LEMMA AuditStopPreserves ==
  ASSUME AuditIInv, cut' = cut \cup Audit!UnderWay, auditPc' = [r \in Audit!Run |-> "idle"], busy' = FALSE,
         UNCHANGED <<auditAsked, status, auditPages, lighthouse, removed>>,
         died' => removed # {}
  PROVE  AuditIInv'
<1>1. AuditTypeOK /\ AuditAlone /\ AuditInOrder /\ AuditEntered
  BY DEF AuditIInv
<1>2. Audit!UnderWay' = {}
  BY DEF Audit!UnderWay
<1>3. AuditTypeOK' /\ AuditAlone'
  BY <1>1, <1>2 DEF AuditTypeOK, AuditAlone, AuditPlaces
<1>4. AuditInOrder' /\ AuditEntered'
  BY <1>1, <1>2 DEF AuditInOrder, AuditEntered, Audit!There
<1> QED
  BY <1>3, <1>4 DEF AuditIInv

LEMMA AuditEnqueuePreserves ==
  ASSUME AuditIInv, NEW r \in Audit!Run, Audit!enqueue(r)
  PROVE  AuditIInv'
<1>1. AuditTypeOK /\ AuditAlone /\ AuditInOrder /\ AuditEntered /\ (died => removed # {})
  BY DEF AuditIInv
<1>2. /\ r = auditAsked + 1 /\ ~busy /\ busy' = TRUE /\ auditAsked' = r /\ Audit!Goto(r, "start")
      /\ UNCHANGED <<status, auditPages, lighthouse, cut, removed, died>>
  BY DEF Audit!enqueue
<1>3. auditPc' \in [Audit!Run -> AuditPlaces] /\ auditPc'[r] = "start" /\ \A q \in Audit!Run \ {r} : auditPc'[q] = auditPc[q]
  BY <1>1, <1>2, AuditGotoIs DEF AuditPlaces
<1>4. AuditTypeOK'
  BY <1>1, <1>2, <1>3 DEF AuditTypeOK, Audit!Run
<1>5. Audit!UnderWay = {} /\ Audit!UnderWay' = {r}
  BY <1>1, <1>2, <1>3 DEF AuditAlone, Audit!UnderWay
<1>6. AuditAlone'
  BY <1>2, <1>5 DEF AuditAlone
<1>7. r > auditAsked /\ \A q \in Audit!Run : q > auditAsked' => q > auditAsked
  BY <1>1, <1>2 DEF AuditTypeOK, Audit!Run
<1>8. AuditInOrder'
  BY <1>1, <1>2, <1>3, <1>7 DEF AuditInOrder, Audit!There
<1>9. AuditEntered'
  BY <1>1, <1>2, <1>3, <1>5 DEF AuditEntered, Audit!There
<1> QED
  BY <1>1, <1>2, <1>4, <1>6, <1>8, <1>9 DEF AuditIInv

LEMMA AuditStartPreserves ==
  ASSUME AuditIInv, NEW r \in Audit!Run, Audit!startRun(r)
  PROVE  AuditIInv'
<1>1. /\ auditPc[r] = "start" /\ status[r] = "none" /\ status \in [Audit!Run -> AuditStatuses]
      /\ (busy <=> Audit!UnderWay # {}) /\ r \in Audit!UnderWay
      /\ UNCHANGED <<auditAsked, auditPages, lighthouse, cut, removed, died>>
  BY DEF AuditIInv, Audit!startRun, AuditInOrder, AuditTypeOK, AuditAlone, Audit!UnderWay
<1>2. busy
  BY <1>1
<1>3. CASE status' = [status EXCEPT ![r] = "queued"] /\ Audit!Goto(r, "find") /\ UNCHANGED busy
  BY <1>1, <1>2, <1>3, AuditStepPreserves DEF AuditPlaces, AuditStatuses, Audit!Unfinished
<1>4. CASE Audit!Finally(r) /\ UNCHANGED status
  BY <1>1, <1>4, AuditStepPreserves
  DEF Audit!Finally, AuditPlaces, AuditStatuses, Audit!Unfinished
<1> QED
  BY <1>3, <1>4 DEF Audit!startRun

\* An audit that is past its second step.
LEMMA AuditUnderWayIs ==
  ASSUME AuditIInv, NEW r \in Audit!Run, auditPc[r] # "idle"
  PROVE  /\ busy = TRUE /\ status \in [Audit!Run -> AuditStatuses]
         /\ auditPc[r] # "start" /\ ~Audit!There(r) => r \in removed
         /\ auditPc[r] \in {"lighthouse", "complete"} /\ Audit!There(r) => r \in auditPages
         /\ auditPc[r] = "complete" /\ Audit!There(r) => r \in lighthouse
         /\ status[r] = "complete" => r \in auditPages \cap lighthouse
BY DEF AuditIInv, AuditTypeOK, AuditAlone, AuditInOrder, AuditEntered, Audit!UnderWay

\* The audit goes on, and leaves the rows of the run as they are.
LEMMA AuditGoesOn ==
  ASSUME AuditIInv, NEW r \in Audit!Run, auditPc[r] \notin {"idle", "start"},
         NEW to \in AuditPlaces, to \notin {"idle", "start"}, Audit!Goto(r, to),
         UNCHANGED <<busy, auditAsked, removed, cut, died, status>>,
         auditPages' \in {auditPages, auditPages \cup {r}}, lighthouse' \in {lighthouse, lighthouse \cup {r}},
         to \in {"lighthouse", "complete"} /\ Audit!There(r) => r \in auditPages',
         to = "complete" /\ Audit!There(r) => r \in lighthouse'
  PROVE  AuditIInv'
<1>1. /\ busy = TRUE /\ status \in [Audit!Run -> AuditStatuses] /\ (~Audit!There(r) => r \in removed)
      /\ status[r] = "complete" => r \in auditPages \cap lighthouse
  BY AuditUnderWayIs
<1>2. auditPages \subseteq auditPages' /\ lighthouse \subseteq lighthouse'
  OBVIOUS
<1> QED
  BY <1>1, <1>2, AuditStepPreserves DEF Audit!There

LEMMA AuditEndPreserves ==
  ASSUME AuditIInv, NEW r \in Audit!Run, auditPc[r] # "idle", Audit!Finally(r),
         UNCHANGED <<auditAsked, auditPages, lighthouse, cut, removed, died>>,
         status' \in [Audit!Run -> AuditStatuses], \A q \in Audit!Run \ {r} : status'[q] = status[q],
         status'[r] \notin Audit!Unfinished,
         status'[r] = "complete" => r \in auditPages \cap lighthouse
  PROVE  AuditIInv'
BY AuditStepPreserves DEF Audit!Finally, AuditPlaces

LEMMA AuditUnhandledPreserves ==
  ASSUME AuditIInv, NEW r \in Audit!Run, auditPc[r] \notin {"idle", "start"}, ~Audit!There(r), Audit!Unhandled,
         UNCHANGED <<auditAsked, auditPages, lighthouse, removed>>
  PROVE  AuditIInv'
<1>1. r \in removed
  BY AuditUnderWayIs
<1> QED
  BY <1>1, AuditStopPreserves DEF Audit!Unhandled

LEMMA AuditProcessPreserves ==
  ASSUME AuditIInv, NEW r \in Audit!Run, Audit!processRun(r)
  PROVE  AuditIInv'
<1>1. status \in [Audit!Run -> AuditStatuses] /\ busy = TRUE /\ auditPc[r] \notin {"idle", "start"}
      /\ UNCHANGED <<auditAsked, removed>>
  <2>1. auditPc[r] \notin {"idle", "start"} /\ UNCHANGED <<auditAsked, removed>>
    BY DEF Audit!processRun, Audit!FindRun, Audit!MarkRunning, Audit!Crawl, Audit!SavePages,
       Audit!SaveLighthouse, Audit!Complete, Audit!Catch
  <2> QED
    BY <2>1, AuditUnderWayIs
<1>2. CASE Audit!FindRun(r)
  <2>1. CASE Audit!There(r)
    BY <1>1, <1>2, <2>1, AuditGoesOn DEF Audit!FindRun, AuditPlaces
  <2>2. CASE ~Audit!There(r)
    BY <1>1, <1>2, <2>2, AuditEndPreserves DEF Audit!FindRun, Audit!There, Audit!Unfinished
  <2> QED
    BY <2>1, <2>2
<1>3. CASE Audit!MarkRunning(r)
  <2>1. CASE Audit!There(r)
    <3>1. status' = [status EXCEPT ![r] = "running"] /\ Audit!Goto(r, "crawl")
          /\ UNCHANGED <<busy, cut, died, auditAsked, auditPages, lighthouse, removed>>
      BY <1>3, <2>1 DEF Audit!MarkRunning
    <3> QED
      BY <1>1, <3>1, AuditStepPreserves DEF AuditPlaces, AuditStatuses, Audit!Unfinished
  <2>2. CASE ~Audit!There(r)
    BY <1>1, <1>3, <2>2, AuditUnhandledPreserves DEF Audit!MarkRunning
  <2> QED
    BY <2>1, <2>2
<1>4. CASE Audit!Crawl(r)
  BY <1>1, <1>4, AuditGoesOn DEF Audit!Crawl, AuditPlaces
<1>5. CASE Audit!SavePages(r)
  BY <1>1, <1>5, AuditGoesOn DEF Audit!SavePages, AuditPlaces
<1>6. CASE Audit!SaveLighthouse(r)
  <2>1. Audit!There(r) => r \in auditPages
    BY <1>6, AuditUnderWayIs DEF Audit!SaveLighthouse
  <2> QED
    BY <1>1, <1>6, <2>1, AuditGoesOn DEF Audit!SaveLighthouse, AuditPlaces
<1>7. CASE Audit!Complete(r)
  <2>1. CASE Audit!There(r)
    <3>1. status' = [status EXCEPT ![r] = "complete"] /\ Audit!Finally(r)
          /\ UNCHANGED <<auditAsked, auditPages, lighthouse, cut, removed, died>>
      BY <1>7, <2>1 DEF Audit!Complete
    <3>2. r \in auditPages \cap lighthouse
      BY <1>7, <2>1, AuditUnderWayIs DEF Audit!Complete
    <3> QED
      BY <1>1, <3>1, <3>2, AuditEndPreserves DEF AuditStatuses, Audit!Unfinished
  <2>2. CASE ~Audit!There(r)
    BY <1>1, <1>7, <2>2, AuditGoesOn DEF Audit!Complete, AuditPlaces
  <2> QED
    BY <2>1, <2>2
<1>8. CASE Audit!Catch(r)
  <2>1. CASE Audit!There(r)
    <3>1. status' = [status EXCEPT ![r] = "failed"] /\ Audit!Finally(r)
          /\ UNCHANGED <<auditAsked, auditPages, lighthouse, cut, removed, died>>
      BY <1>8, <2>1 DEF Audit!Catch
    <3> QED
      BY <1>1, <3>1, AuditEndPreserves DEF AuditStatuses, Audit!Unfinished
  <2>2. CASE ~Audit!There(r)
    BY <1>1, <1>8, <2>2, AuditUnhandledPreserves DEF Audit!Catch
  <2> QED
    BY <2>1, <2>2
<1> QED
  BY <1>2, <1>3, <1>4, <1>5, <1>6, <1>7, <1>8 DEF Audit!processRun

-----------------------------------------------------------------------------
(* The rest                                                                *)

LEMMA AuditRemovePreserves ==
  ASSUME AuditIInv, NEW s \in Site, Audit!RemoveSite(s)
  PROVE  AuditIInv'
<1> DEFINE cleared == { r \in Audit!Run : siteOf[r] = s }
<1>1. AuditTypeOK /\ AuditAlone /\ AuditInOrder /\ AuditEntered /\ (died => removed # {})
  BY DEF AuditIInv
<1>2. /\ status' = [r \in Audit!Run |-> IF r \in cleared THEN "none" ELSE status[r]]
      /\ auditPages' = auditPages \ cleared /\ lighthouse' = lighthouse \ cleared
      /\ removed' = removed \cup (cleared \cap Audit!UnderWay)
      /\ UNCHANGED <<busy, auditAsked, siteOf, auditPc, cut, died>>
  BY DEF Audit!RemoveSite
<1> HIDE DEF cleared
<1>3. AuditTypeOK' /\ AuditAlone'
  BY <1>1, <1>2 DEF AuditTypeOK, AuditAlone, Audit!UnderWay, AuditStatuses
<1>4. AuditInOrder'
  BY <1>1, <1>2 DEF AuditInOrder, Audit!There, Audit!UnderWay
<1>5. AuditEntered'
  BY <1>1, <1>2 DEF AuditEntered, Audit!There, Audit!UnderWay, Audit!Unfinished
<1> QED
  BY <1>1, <1>2, <1>3, <1>4, <1>5 DEF AuditIInv

LEMMA AuditInitIInv == Audit!Init => AuditIInv
<1> SUFFICES ASSUME Audit!Init
             PROVE  AuditIInv
  OBVIOUS
<1>1. Audit!UnderWay = {}
  BY DEF Audit!Init, Audit!UnderWay
<1>2. AuditTypeOK
  BY DEF Audit!Init, AuditTypeOK, AuditPlaces, AuditStatuses
<1>3. AuditAlone
  BY <1>1 DEF Audit!Init, AuditAlone
<1>4. AuditInOrder /\ AuditEntered /\ ~died
  BY DEF Audit!Init, AuditInOrder, AuditEntered, Audit!Unfinished
<1> QED
  BY <1>2, <1>3, <1>4 DEF AuditIInv

LEMMA AuditNextIInv ==
  ASSUME AuditIInv, [Audit!Next]_auditVars
  PROVE  AuditIInv'
<1>1. ASSUME NEW r \in Audit!Run, Audit!enqueue(r) \/ Audit!startRun(r) \/ Audit!processRun(r)
      PROVE  AuditIInv'
  BY <1>1, AuditEnqueuePreserves, AuditStartPreserves, AuditProcessPreserves
<1>2. ASSUME NEW s \in Site, Audit!RemoveSite(s)
      PROVE  AuditIInv'
  BY <1>2, AuditRemovePreserves
<1>3. CASE Audit!Restart
  BY <1>3, AuditStopPreserves DEF Audit!Restart, AuditIInv
<1>4. CASE UNCHANGED auditVars
  BY <1>4
  DEF auditVars, AuditIInv, AuditTypeOK, AuditAlone, AuditInOrder, AuditEntered, Audit!There,
     Audit!UnderWay
<1> QED
  BY <1>1, <1>2, <1>3, <1>4 DEF Audit!Next

LEMMA AuditCountIs == \A S : Audit!Cardinality(S) = Cardinality(S)
BY DEF Cardinality, Audit!Cardinality

LEMMA AuditIsOne == AuditIInv => Audit!OneAudit
<1> SUFFICES ASSUME AuditIInv
             PROVE  Audit!OneAudit
  OBVIOUS
<1>1. Cardinality(Audit!UnderWay) <= 1
  <2>1. CASE Audit!UnderWay = {}
    BY <2>1, FS_EmptySet
  <2>2. ASSUME NEW r \in Audit!UnderWay
        PROVE  Cardinality(Audit!UnderWay) <= 1
    <3>1. Audit!UnderWay = {r}
      BY DEF AuditIInv, AuditAlone
    <3> QED
      BY <3>1, FS_Singleton
  <2> QED
    BY <2>1, <2>2
<1>2. Audit!Cardinality(Audit!UnderWay) <= 1
  BY <1>1, AuditCountIs
<1> QED
  BY <1>2 DEF Audit!OneAudit, AuditIInv, AuditAlone, AuditEntered

AuditInFocus == focus = "audit" => AuditIInv

\* The invariant holds while sites are audited.
LEMMA AuditMoves == MachinesSpec => []AuditInFocus
<1>1. MachinesInit => AuditInFocus
  BY AuditInitIInv DEF MachinesInit, AuditInFocus
<1>2. AuditInFocus /\ [MachinesNext]_machineVars => AuditInFocus'
  BY AuditNextIInv, OneMoves DEF AuditInFocus
<1> QED
  BY <1>1, <1>2, PTL DEF MachinesSpec


-----------------------------------------------------------------------------
(***************************************************************************)
(* The crawl. Pages are noted before they have their records; what was     *)
(* asked for waits, is tried or has led to a page that is noted.           *)
(***************************************************************************)

CrawlRecord  == Url \X {"ok", "broken"}
CrawlPushing == { h \in Handler : crawlPc[h] = "push" }

CrawlTypeOK ==
  /\ maxPages \in Nat
  /\ queue \subseteq Url /\ crawlAsked \subseteq Url
  /\ crawlPc \in [Handler -> {"idle", "load", "push", "links"}]
  /\ req \in [Handler -> Url] /\ url \in [Handler -> Url]
  /\ crawlPages \in Seq(CrawlRecord)

\* The pages that have their records, and those that get them now, are noted.
CrawlOnce ==
  /\ \A i, j \in 1 .. Len(crawlPages) : crawlPages[i][1] = crawlPages[j][1] => i = j
  /\ \A i \in 1 .. Len(crawlPages) : crawlPages[i][1] \in seen
  /\ \A h \in CrawlPushing : url[h] \in seen /\ Crawler!Records(url[h]) = {}
  /\ \A g, h \in CrawlPushing : url[g] = url[h] => g = h

\* What is noted has its record, gets it now, or its handler failed.
CrawlNoted == \A u \in seen : Crawler!Records(u) # {} \/ u \in spoilt \/ \E h \in CrawlPushing : url[h] = u

\* Each handler that is to push a record came here while one was missing.
CrawlBounded ==
  Len(crawlPages) + Crawler!Cardinality(CrawlPushing)
    <= maxPages + Crawler!Cardinality(Handler) - (IF spoilt = {} THEN 1 ELSE 0)

\* A handler that was given up is at a page that is known as such.
CrawlAdrift ==
  \A h \in Handler : h \in adrift => crawlPc[h] \in {"push", "links"} /\ url[h] \in spoilt

\* What was asked for waits, is tried, was refused or has led to a page that is
\* noted.
CrawlFollowed ==
  Crawler!Full \/ \A r \in crawlAsked :
                    \/ r \in queue \/ r \in seen \/ Loaded[r] \in seen \/ r \in barred
                    \/ \E h \in Handler : crawlPc[h] = "load" /\ req[h] = r

\* The links of a page are asked for after its record, or its handler failed.
CrawlLinksAsked ==
  Crawler!Full \/ \A i \in 1 .. Len(crawlPages) :
                    crawlPages[i][2] = "ok" /\ crawlPages[i][1] \in Allowed =>
                      \/ Links[crawlPages[i][1]] \cap Allowed \subseteq crawlAsked
                      \/ crawlPages[i][1] \in spoilt
                      \/ \E h \in Handler : crawlPc[h] = "links" /\ url[h] = crawlPages[i][1]

CrawlIInv == CrawlTypeOK /\ CrawlOnce /\ CrawlNoted /\ CrawlBounded /\ CrawlAdrift /\ CrawlFollowed /\ CrawlLinksAsked

-----------------------------------------------------------------------------
(* Counts and records                                                      *)

LEMMA CrawlCountIs == \A S : Crawler!Cardinality(S) = Cardinality(S)
BY DEF Cardinality, Crawler!Cardinality

\* The handlers that push, with one more or one less.
LEMMA CrawlPushingIs ==
  /\ IsFiniteSet(CrawlPushing) /\ Crawler!Cardinality(CrawlPushing) \in Nat /\ Crawler!Cardinality(Handler) \in Nat
  /\ \A h \in Handler \ CrawlPushing :
       /\ Crawler!Cardinality(CrawlPushing \cup {h}) = Crawler!Cardinality(CrawlPushing) + 1
       /\ Crawler!Cardinality(CrawlPushing) <= Crawler!Cardinality(Handler) - 1
  /\ \A h \in CrawlPushing : Crawler!Cardinality(CrawlPushing \ {h}) = Crawler!Cardinality(CrawlPushing) - 1
<1>1. CrawlPushing \subseteq Handler /\ IsFiniteSet(Handler)
  BY CrawlAssumption DEF CrawlPushing
<1>2. IsFiniteSet(CrawlPushing) /\ Cardinality(CrawlPushing) \in Nat /\ Cardinality(Handler) \in Nat
  BY <1>1, FS_Subset, FS_CardinalityType
<1>3. ASSUME NEW h \in Handler \ CrawlPushing
      PROVE  /\ Cardinality(CrawlPushing \cup {h}) = Cardinality(CrawlPushing) + 1
             /\ Cardinality(CrawlPushing) <= Cardinality(Handler) - 1
  <2>1. Cardinality(CrawlPushing \cup {h}) = Cardinality(CrawlPushing) + 1
    BY <1>2, <1>3, FS_AddElement
  <2>2. Cardinality(CrawlPushing \cup {h}) <= Cardinality(Handler)
    <3>1. CrawlPushing \cup {h} \subseteq Handler
      BY <1>1, <1>3
    <3> QED
      BY <1>1, <3>1, FS_Subset
  <2> QED
    BY <1>2, <2>1, <2>2
<1>4. ASSUME NEW h \in CrawlPushing
      PROVE  Cardinality(CrawlPushing \ {h}) = Cardinality(CrawlPushing) - 1
  BY <1>2, <1>4, FS_RemoveElement
<1> QED
  BY <1>2, <1>3, <1>4, CrawlCountIs

LEMMA CrawlAppendIs ==
  ASSUME CrawlTypeOK, NEW e \in CrawlRecord, crawlPages' = Append(crawlPages, e)
  PROVE  /\ crawlPages' \in Seq(CrawlRecord) /\ Len(crawlPages) \in Nat /\ Len(crawlPages') = Len(crawlPages) + 1
         /\ crawlPages'[Len(crawlPages) + 1] = e /\ \A i \in 1 .. Len(crawlPages) : crawlPages'[i] = crawlPages[i]
         /\ \A u : Crawler!Records(u)' = IF u = e[1] THEN Crawler!Records(u) \cup {Len(crawlPages) + 1} ELSE Crawler!Records(u)
<1>1. /\ crawlPages' \in Seq(CrawlRecord) /\ Len(crawlPages) \in Nat /\ Len(crawlPages') = Len(crawlPages) + 1
      /\ crawlPages'[Len(crawlPages) + 1] = e /\ \A i \in 1 .. Len(crawlPages) : crawlPages'[i] = crawlPages[i]
  BY DEF CrawlTypeOK
<1>2. 1 .. Len(crawlPages') = 1 .. Len(crawlPages) \cup {Len(crawlPages) + 1}
  BY <1>1
<1> QED
  BY <1>1, <1>2 DEF Crawler!Records

\* A handler notes no page; it may leave a record, of a page that has none.
LEMMA CrawlWorkPreserves ==
  ASSUME CrawlIInv, CrawlTypeOK', UNCHANGED maxPages, NEW h \in Handler, NEW new \in BOOLEAN, NEW e \in CrawlRecord,
         \A g \in Handler \ {h} : /\ crawlPc'[g] = crawlPc[g] /\ url'[g] = url[g] /\ req'[g] = req[g]
                                  /\ g \in adrift' => g \in adrift,
         crawlPc'[h] = "push" => crawlPc[h] = "push" /\ url'[h] = url[h],
         spoilt \subseteq spoilt', barred \subseteq barred',
         ~new => UNCHANGED <<crawlPages, seen>>,
         new => /\ crawlPages' = Append(crawlPages, e) /\ seen' = seen \cup {e[1]} /\ Crawler!Records(e[1]) = {}
                /\ \A g \in CrawlPushing' : url'[g] # e[1]
                /\ \/ crawlPc[h] = "push" /\ crawlPc'[h] # "push"
                   \/ ~Crawler!Full /\ (crawlPc'[h] # "push" \/ spoilt' # {})
                /\ e[2] = "broken" \/ Crawler!Full' \/ (crawlPc'[h] = "links" /\ url'[h] = e[1]),
         crawlPc[h] = "push" /\ crawlPc'[h] # "push" => url[h] \in spoilt' \/ (new /\ e[1] = url[h]),
         h \in adrift' => crawlPc'[h] \in {"push", "links"} /\ url'[h] \in spoilt',
         crawlAsked \subseteq crawlAsked', crawlAsked' \ crawlAsked \subseteq queue',
         \A r \in queue : r \in queue' \/ (crawlPc'[h] = "load" /\ req'[h] = r),
         crawlPc[h] = "load" => \/ Crawler!Full \/ req[h] \in queue' \/ req[h] \in seen' \/ req[h] \in barred'
                                \/ Loaded[req[h]] \in seen',
         crawlPc[h] = "links" => \/ crawlPc'[h] = "links" /\ url'[h] = url[h]
                                 \/ url[h] \in spoilt' \/ url[h] \notin Allowed
                                 \/ Links[url[h]] \cap Allowed \subseteq crawlAsked'
  PROVE  CrawlIInv'
<1> DEFINE After(u) == { i \in 1 .. Len(crawlPages') : crawlPages'[i][1] = u }
<1>1. CrawlTypeOK /\ CrawlOnce /\ CrawlNoted /\ CrawlBounded /\ CrawlAdrift /\ CrawlFollowed /\ CrawlLinksAsked
  BY DEF CrawlIInv
<1>2. /\ CrawlPushing' \subseteq CrawlPushing /\ \A g \in CrawlPushing' : url'[g] = url[g]
      /\ CrawlPushing \ {h} \subseteq CrawlPushing' /\ \A g \in CrawlPushing \ {h} : url'[g] = url[g]
  BY DEF CrawlPushing
<1>3. new => /\ Len(crawlPages) \in Nat /\ Len(crawlPages') = Len(crawlPages) + 1
             /\ crawlPages'[Len(crawlPages) + 1] = e /\ \A i \in 1 .. Len(crawlPages) : crawlPages'[i] = crawlPages[i]
             /\ \A u : After(u) = IF u = e[1] THEN Crawler!Records(u) \cup {Len(crawlPages) + 1} ELSE Crawler!Records(u)
  BY <1>1, CrawlAppendIs DEF Crawler!Records
<1>4. ~new => \A u : After(u) = Crawler!Records(u)
  BY DEF Crawler!Records
<1>5. (Crawler!Full => Crawler!Full') /\ seen \subseteq seen' /\ \A u : Crawler!Records(u) \subseteq After(u)
  BY <1>1, <1>3, <1>4 DEF Crawler!Full, CrawlTypeOK
<1> HIDE DEF After
<1>6. CrawlOnce'
  <2>1. CASE ~new
    <3>1. /\ \A i, j \in 1 .. Len(crawlPages') : crawlPages'[i][1] = crawlPages'[j][1] => i = j
          /\ \A i \in 1 .. Len(crawlPages') : crawlPages'[i][1] \in seen'
      BY <1>1, <2>1 DEF CrawlOnce
    <3>2. \A g \in CrawlPushing' : url'[g] \in seen' /\ After(url'[g]) = {}
      BY <1>1, <1>2, <1>4, <1>5, <2>1 DEF CrawlOnce
    <3>3. \A f, g \in CrawlPushing' : url'[f] = url'[g] => f = g
      BY <1>1, <1>2 DEF CrawlOnce
    <3> QED
      BY <3>1, <3>2, <3>3 DEF CrawlOnce, Crawler!Records, After
  <2>2. CASE new
    <3>1. \A i \in 1 .. Len(crawlPages') : i \in 1 .. Len(crawlPages) \/ i = Len(crawlPages) + 1
      BY <1>3, <2>2
    <3>2. \A i \in 1 .. Len(crawlPages) : crawlPages[i][1] # e[1]
      BY <2>2 DEF Crawler!Records
    <3>3. \A i, j \in 1 .. Len(crawlPages') : crawlPages'[i][1] = crawlPages'[j][1] => i = j
      BY <1>1, <1>3, <2>2, <3>1, <3>2 DEF CrawlOnce
    <3>4. \A i \in 1 .. Len(crawlPages') : crawlPages'[i][1] \in seen'
      BY <1>1, <1>3, <2>2, <3>1 DEF CrawlOnce
    <3>5. \A g \in CrawlPushing' : url'[g] \in seen' /\ After(url'[g]) = {}
      BY <1>1, <1>2, <1>3, <1>5, <2>2 DEF CrawlOnce
    <3>6. \A f, g \in CrawlPushing' : url'[f] = url'[g] => f = g
      BY <1>1, <1>2 DEF CrawlOnce
    <3> QED
      BY <3>3, <3>4, <3>5, <3>6 DEF CrawlOnce, Crawler!Records, After
  <2> QED
    BY <2>1, <2>2
<1>7. CrawlNoted'
  <2> SUFFICES ASSUME NEW u \in seen'
               PROVE  After(u) # {} \/ u \in spoilt' \/ \E g \in CrawlPushing' : url'[g] = u
    BY DEF CrawlNoted, Crawler!Records, After
  <2>1. CASE new /\ u = e[1]
    BY <1>3, <2>1
  <2>2. CASE u \in seen
    <3>1. Crawler!Records(u) # {} \/ u \in spoilt \/ \E g \in CrawlPushing : url[g] = u
      BY <1>1, <2>2 DEF CrawlNoted
    <3>2. ASSUME NEW g \in CrawlPushing, url[g] = u
          PROVE  After(u) # {} \/ u \in spoilt' \/ \E f \in CrawlPushing' : url'[f] = u
      <4>1. CASE g \in CrawlPushing'
        BY <1>2, <3>2, <4>1
      <4>2. CASE g \notin CrawlPushing'
        <5>1. g = h /\ crawlPc[h] = "push" /\ crawlPc'[h] # "push"
          BY <1>2, <4>2 DEF CrawlPushing
        <5>2. u \in spoilt' \/ (new /\ e[1] = u)
          BY <3>2, <5>1
        <5> QED
          BY <2>1, <5>2, <1>3
      <4> QED
        BY <4>1, <4>2
    <3> QED
      BY <1>5, <3>1, <3>2
  <2> QED
    BY <2>1, <2>2
<1>8. CrawlBounded'
  <2> DEFINE one     == IF spoilt = {} THEN 1 ELSE 0
             oneNext == IF spoilt' = {} THEN 1 ELSE 0
             H  == Cardinality(Handler)
             P  == Cardinality(CrawlPushing)
             P1 == Cardinality(CrawlPushing')
  <2>1. /\ IsFiniteSet(CrawlPushing) /\ IsFiniteSet(Handler) /\ CrawlPushing' \subseteq Handler
        /\ CrawlPushing \subseteq Handler
    BY CrawlPushingIs, CrawlAssumption DEF CrawlPushing
  <2>2. H \in Nat /\ P \in Nat /\ P1 \in Nat /\ P1 <= P /\ P1 <= H
    <3>1. IsFiniteSet(CrawlPushing')
      BY <1>2, <2>1, FS_Subset
    <3> QED
      BY <1>2, <2>1, <3>1, FS_Subset, FS_CardinalityType
  <2>3. h \in CrawlPushing /\ h \notin CrawlPushing' => P1 <= P - 1
    <3>1. ASSUME h \in CrawlPushing, h \notin CrawlPushing'
          PROVE  P1 <= P - 1
      <4>1. CrawlPushing' = CrawlPushing \ {h}
        BY <1>2, <3>1
      <4>2. Cardinality(CrawlPushing \ {h}) = Cardinality(CrawlPushing) - 1
        BY <2>1, <3>1, FS_RemoveElement
      <4> QED
        BY <2>2, <4>1, <4>2
    <3> QED
      BY <3>1
  <2>4. h \notin CrawlPushing' => P1 <= H - 1
    <3>1. ASSUME h \notin CrawlPushing'
          PROVE  P1 <= H - 1
      <4>1. CrawlPushing' \subseteq Handler \ {h}
        BY <2>1, <3>1
      <4>2. IsFiniteSet(Handler \ {h}) /\ Cardinality(Handler \ {h}) = H - 1
        BY <2>1, FS_RemoveElement
      <4> QED
        BY <4>1, <4>2, FS_Subset
    <3> QED
      BY <3>1
  <2>5. /\ Len(crawlPages) + P <= maxPages + H - one /\ Len(crawlPages) \in Nat /\ maxPages \in Nat
        /\ one \in {0, 1} /\ oneNext \in {0, 1} /\ oneNext <= one
    BY <1>1, CrawlCountIs DEF CrawlBounded, CrawlTypeOK
  <2>6. /\ crawlPc[h] = "push" => h \in CrawlPushing
        /\ crawlPc'[h] # "push" => h \notin CrawlPushing'
        /\ spoilt' # {} => oneNext = 0
    BY DEF CrawlPushing
  <2>7. CASE ~new
    <3>1. Len(crawlPages') = Len(crawlPages)
      BY <2>7
    <3>2. Len(crawlPages') + P1 <= maxPages + H - oneNext
      <4> HIDE DEF one, oneNext, H, P, P1
      <4> QED
        BY <2>2, <2>5, <3>1
    <3> QED
      BY <3>2, CrawlCountIs DEF CrawlBounded
  <2>8. CASE new
    <3>1. Len(crawlPages') = Len(crawlPages) + 1
      BY <1>3, <2>8
    <3>2. CASE crawlPc[h] = "push" /\ crawlPc'[h] # "push"
      <4>1. P1 <= P - 1
        BY <2>3, <2>6, <3>2
      <4>2. Len(crawlPages') + P1 <= maxPages + H - oneNext
        <5> HIDE DEF one, oneNext, H, P, P1
        <5> QED
          BY <2>2, <2>5, <3>1, <4>1
      <4> QED
        BY <4>2, CrawlCountIs DEF CrawlBounded
    <3>3. CASE ~Crawler!Full /\ (crawlPc'[h] # "push" \/ spoilt' # {})
      <4>1. Len(crawlPages) + 1 <= maxPages
        BY <2>5, <3>3 DEF Crawler!Full
      <4>2. P1 <= H - 1 \/ oneNext = 0
        BY <2>4, <2>6, <3>3
      <4>3. Len(crawlPages') + P1 <= maxPages + H - oneNext
        <5> HIDE DEF one, oneNext, H, P, P1
        <5> QED
          BY <2>2, <2>5, <3>1, <4>1, <4>2
      <4> QED
        BY <4>3, CrawlCountIs DEF CrawlBounded
    <3> QED
      BY <2>8, <3>2, <3>3
  <2> QED
    BY <2>7, <2>8
<1>9. CrawlAdrift'
  BY <1>1 DEF CrawlAdrift
<1>10. CrawlFollowed'
  <2> SUFFICES ASSUME ~Crawler!Full', NEW r \in crawlAsked'
               PROVE  \/ r \in queue' \/ r \in seen' \/ Loaded[r] \in seen' \/ r \in barred'
                      \/ \E g \in Handler : crawlPc'[g] = "load" /\ req'[g] = r
    BY DEF CrawlFollowed
  <2>1. CASE r \in crawlAsked
    <3>1. \/ r \in queue \/ r \in seen \/ Loaded[r] \in seen \/ r \in barred
          \/ \E g \in Handler : crawlPc[g] = "load" /\ req[g] = r
      BY <1>1, <1>5, <2>1 DEF CrawlFollowed
    <3>2. ASSUME NEW g \in Handler, crawlPc[g] = "load", req[g] = r
          PROVE  \/ r \in queue' \/ r \in seen' \/ Loaded[r] \in seen' \/ r \in barred'
                 \/ (crawlPc'[g] = "load" /\ req'[g] = r)
      BY <1>5, <3>2
    <3> QED
      BY <1>5, <3>1, <3>2
  <2> QED
    BY <2>1
<1>11. CrawlLinksAsked'
  <2> SUFFICES ASSUME ~Crawler!Full', NEW i \in 1 .. Len(crawlPages'), crawlPages'[i][2] = "ok", crawlPages'[i][1] \in Allowed
               PROVE  \/ Links[crawlPages'[i][1]] \cap Allowed \subseteq crawlAsked'
                      \/ crawlPages'[i][1] \in spoilt'
                      \/ \E g \in Handler : crawlPc'[g] = "links" /\ url'[g] = crawlPages'[i][1]
    BY DEF CrawlLinksAsked
  <2>1. CASE new /\ i = Len(crawlPages) + 1
    BY <1>3, <2>1
  <2>2. CASE i \in 1 .. Len(crawlPages) /\ crawlPages'[i] = crawlPages[i]
    <3>1. \/ Links[crawlPages[i][1]] \cap Allowed \subseteq crawlAsked
          \/ crawlPages[i][1] \in spoilt
          \/ \E g \in Handler : crawlPc[g] = "links" /\ url[g] = crawlPages[i][1]
      BY <1>1, <1>5, <2>2 DEF CrawlLinksAsked
    <3>2. ASSUME NEW g \in Handler, crawlPc[g] = "links", url[g] = crawlPages[i][1]
          PROVE  \/ Links[crawlPages[i][1]] \cap Allowed \subseteq crawlAsked'
                 \/ crawlPages[i][1] \in spoilt' \/ (crawlPc'[g] = "links" /\ url'[g] = crawlPages[i][1])
      BY <2>2, <3>2
    <3> QED
      BY <2>2, <3>1, <3>2
  <2> QED
    BY <1>3, <2>1, <2>2
<1> QED
  BY <1>6, <1>7, <1>8, <1>9, <1>10, <1>11 DEF CrawlIInv

-----------------------------------------------------------------------------
(* Handlers                                                                *)

LEMMA CrawlGotoIs ==
  ASSUME CrawlTypeOK, NEW h \in Handler, NEW to \in {"idle", "load", "push", "links"}, Crawler!Goto(h, to)
  PROVE  /\ crawlPc' \in [Handler -> {"idle", "load", "push", "links"}]
         /\ crawlPc'[h] = to /\ \A g \in Handler \ {h} : crawlPc'[g] = crawlPc[g]
BY DEF CrawlTypeOK, Crawler!Goto

LEMMA CrawlTakePreserves ==
  ASSUME CrawlIInv, NEW h \in Handler, Crawler!Take(h), UNCHANGED maxPages
  PROVE  CrawlIInv'
<1>1. CrawlTypeOK /\ CrawlAdrift
  BY DEF CrawlIInv
<1>2. PICK r \in queue : queue' = queue \ {r} /\ req' = [req EXCEPT ![h] = r]
  BY DEF Crawler!Take
<1>3. crawlPc[h] = "idle" /\ Crawler!Goto(h, "load") /\ UNCHANGED <<crawlAsked, url, crawlPages, seen, adrift, spoilt, barred>>
  BY DEF Crawler!Take
<1>4. req' \in [Handler -> Url] /\ req'[h] = r /\ \A g \in Handler \ {h} : req'[g] = req[g]
  BY <1>1, <1>2 DEF CrawlTypeOK
<1>5. /\ crawlPc' \in [Handler -> {"idle", "load", "push", "links"}]
      /\ crawlPc'[h] = "load" /\ \A g \in Handler \ {h} : crawlPc'[g] = crawlPc[g]
  BY <1>1, <1>3, CrawlGotoIs
<1>6. CrawlTypeOK'
  BY <1>1, <1>2, <1>3, <1>4, <1>5 DEF CrawlTypeOK
<1>7. h \notin adrift
  BY <1>1, <1>3 DEF CrawlAdrift
<1>8. <<Home, "ok">> \in CrawlRecord
  BY CrawlAssumption DEF CrawlRecord
<1> QED
  BY <1>2, <1>3, <1>4, <1>5, <1>6, <1>7, <1>8, CrawlWorkPreserves

LEMMA CrawlRequestPreserves ==
  ASSUME CrawlIInv, NEW h \in Handler, Crawler!requestHandler(h), UNCHANGED maxPages
  PROVE  CrawlIInv'
<1>1. CrawlTypeOK /\ CrawlOnce /\ CrawlNoted /\ CrawlBounded /\ CrawlAdrift /\ CrawlFollowed /\ CrawlLinksAsked
  BY DEF CrawlIInv
<1>2. /\ crawlPc[h] = "load" /\ url' = [url EXCEPT ![h] = Loaded[req[h]]]
      /\ UNCHANGED <<maxPages, queue, crawlAsked, req, crawlPages, spoilt, barred>>
  BY DEF Crawler!requestHandler
<1>3. /\ Loaded[req[h]] \in Url /\ url'[h] = Loaded[req[h]] /\ url' \in [Handler -> Url]
      /\ \A g \in Handler \ {h} : url'[g] = url[g]
  BY <1>1, <1>2, CrawlAssumption DEF CrawlTypeOK
<1>4. h \notin adrift
  BY <1>1, <1>2 DEF CrawlAdrift
<1>5. CASE (Crawler!Full \/ url'[h] \in seen) /\ Crawler!Done(h) /\ UNCHANGED seen
  <2>1. /\ crawlPc' \in [Handler -> {"idle", "load", "push", "links"}]
        /\ crawlPc'[h] = "idle" /\ \A g \in Handler \ {h} : crawlPc'[g] = crawlPc[g]
    BY <1>1, <1>5, CrawlGotoIs DEF Crawler!Done
  <2>2. CrawlTypeOK'
    BY <1>1, <1>2, <1>3, <2>1 DEF CrawlTypeOK
  <2>3. adrift' = adrift \ {h}
    BY <1>5 DEF Crawler!Done
  <2>4. <<Home, "ok">> \in CrawlRecord
    BY CrawlAssumption DEF CrawlRecord
  <2> QED
    BY <1>2, <1>3, <1>4, <1>5, <2>1, <2>2, <2>3, <2>4, CrawlWorkPreserves
<1>6. CASE /\ ~Crawler!Full /\ url'[h] \notin seen /\ seen' = seen \cup {url'[h]} /\ Crawler!Goto(h, "push")
           /\ UNCHANGED adrift
  <2>1. /\ crawlPc' \in [Handler -> {"idle", "load", "push", "links"}]
        /\ crawlPc'[h] = "push" /\ \A g \in Handler \ {h} : crawlPc'[g] = crawlPc[g]
    BY <1>1, <1>6, CrawlGotoIs
  <2>2. CrawlTypeOK'
    BY <1>1, <1>2, <1>3, <2>1 DEF CrawlTypeOK
  <2>3. h \notin CrawlPushing /\ CrawlPushing' = CrawlPushing \cup {h}
    BY <1>2, <2>1 DEF CrawlPushing
  <2>4. \A u : Crawler!Records(u)' = Crawler!Records(u)
    BY <1>2 DEF Crawler!Records
  <2>5. Crawler!Records(url'[h]) = {} /\ \A g \in CrawlPushing : url'[g] = url[g] /\ url[g] # url'[h]
    BY <1>1, <1>3, <1>6, <2>3 DEF CrawlOnce, Crawler!Records, CrawlPushing
  <2>6. CrawlOnce'
    <3>1. /\ \A i, j \in 1 .. Len(crawlPages') : crawlPages'[i][1] = crawlPages'[j][1] => i = j
          /\ \A i \in 1 .. Len(crawlPages') : crawlPages'[i][1] \in seen'
      BY <1>1, <1>2, <1>6 DEF CrawlOnce
    <3>2. \A g \in CrawlPushing' : url'[g] \in seen' /\ Crawler!Records(url'[g]) = {}
      BY <1>1, <1>6, <2>3, <2>5 DEF CrawlOnce
    <3>3. \A f, g \in CrawlPushing' : url'[f] = url'[g] => f = g
      BY <1>1, <2>3, <2>5 DEF CrawlOnce
    <3> QED
      BY <2>4, <3>1, <3>2, <3>3 DEF CrawlOnce
  <2>7. CrawlNoted'
    BY <1>1, <1>2, <1>6, <2>3, <2>4, <2>5 DEF CrawlNoted
  <2>8. CrawlBounded'
    <3>1. Len(crawlPages) + 1 <= maxPages /\ Len(crawlPages) \in Nat /\ maxPages \in Nat
      BY <1>1, <1>6 DEF Crawler!Full, CrawlTypeOK
    <3>2. /\ Crawler!Cardinality(CrawlPushing') = Crawler!Cardinality(CrawlPushing) + 1
          /\ Crawler!Cardinality(CrawlPushing) <= Crawler!Cardinality(Handler) - 1
          /\ Crawler!Cardinality(CrawlPushing) \in Nat /\ Crawler!Cardinality(Handler) \in Nat
      BY <2>3, CrawlPushingIs
    <3>3. Len(crawlPages') + Crawler!Cardinality(CrawlPushing') <= maxPages + Crawler!Cardinality(Handler) - 1
      BY <1>2, <3>1, <3>2
    <3> QED
      BY <1>2, <3>1, <3>2, <3>3 DEF CrawlBounded
  <2>9. CrawlAdrift'
    BY <1>1, <1>2, <1>3, <1>4, <1>6, <2>1 DEF CrawlAdrift
  <2>10. CrawlFollowed'
    BY <1>1, <1>2, <1>3, <1>6, <2>1 DEF CrawlFollowed, Crawler!Full
  <2>11. CrawlLinksAsked'
    <3>1. \A g \in Handler : crawlPc[g] = "links" => crawlPc'[g] = "links" /\ url'[g] = url[g]
      BY <1>2, <1>3, <2>1
    <3> QED
      BY <1>1, <1>2, <3>1 DEF CrawlLinksAsked, Crawler!Full
  <2> QED
    BY <2>2, <2>6, <2>7, <2>8, <2>9, <2>10, <2>11 DEF CrawlIInv
<1> QED
  BY <1>5, <1>6 DEF Crawler!requestHandler

LEMMA CrawlPushPreserves ==
  ASSUME CrawlIInv, NEW h \in Handler, Crawler!PushPage(h), UNCHANGED maxPages
  PROVE  CrawlIInv'
<1> DEFINE e == <<url[h], "ok">>
<1>1. CrawlTypeOK /\ CrawlOnce /\ CrawlAdrift
  BY DEF CrawlIInv
<1>2. /\ crawlPc[h] = "push" /\ crawlPages' = Append(crawlPages, e) /\ seen' = seen \cup {e[1]}
      /\ UNCHANGED <<maxPages, queue, crawlAsked, req, url, spoilt, barred>>
  BY DEF Crawler!PushPage
<1>3. url[h] \in Url /\ e \in CrawlRecord /\ e[1] = url[h] /\ e[2] = "ok"
  BY <1>1 DEF CrawlTypeOK, CrawlRecord
<1>4. h \in CrawlPushing /\ Crawler!Records(e[1]) = {} /\ \A g \in CrawlPushing \ {h} : url[g] # e[1]
  BY <1>1, <1>2, <1>3 DEF CrawlOnce, CrawlPushing
<1>5. crawlPages' \in Seq(CrawlRecord)
  BY <1>1, <1>2, <1>3 DEF CrawlTypeOK
<1> HIDE DEF e
<1>6. CASE Crawler!Full' /\ Crawler!Done(h)
  <2>1. /\ crawlPc' \in [Handler -> {"idle", "load", "push", "links"}]
        /\ crawlPc'[h] = "idle" /\ \A g \in Handler \ {h} : crawlPc'[g] = crawlPc[g]
    BY <1>1, <1>6, CrawlGotoIs DEF Crawler!Done
  <2>2. CrawlTypeOK'
    BY <1>1, <1>2, <1>5, <2>1 DEF CrawlTypeOK
  <2>3. adrift' = adrift \ {h}
    BY <1>6 DEF Crawler!Done
  <2>4. \A g \in CrawlPushing' : url'[g] # e[1]
    BY <1>2, <1>4, <2>1 DEF CrawlPushing
  <2> QED
    BY <1>2, <1>3, <1>4, <1>6, <2>1, <2>2, <2>3, <2>4, CrawlWorkPreserves
<1>7. CASE Crawler!Goto(h, "links") /\ UNCHANGED adrift
  <2>1. /\ crawlPc' \in [Handler -> {"idle", "load", "push", "links"}]
        /\ crawlPc'[h] = "links" /\ \A g \in Handler \ {h} : crawlPc'[g] = crawlPc[g]
    BY <1>1, <1>7, CrawlGotoIs
  <2>2. CrawlTypeOK'
    BY <1>1, <1>2, <1>5, <2>1 DEF CrawlTypeOK
  <2>3. h \in adrift' => url'[h] \in spoilt'
    BY <1>1, <1>2, <1>7 DEF CrawlAdrift
  <2>4. \A g \in CrawlPushing' : url'[g] # e[1]
    BY <1>2, <1>4, <2>1 DEF CrawlPushing
  <2> QED
    BY <1>2, <1>3, <1>4, <1>7, <2>1, <2>2, <2>3, <2>4, CrawlWorkPreserves
<1> QED
  BY <1>6, <1>7 DEF Crawler!PushPage, Crawler!Full

LEMMA CrawlLinksPreserves ==
  ASSUME CrawlIInv, NEW h \in Handler, Crawler!enqueueLinks(h), UNCHANGED maxPages
  PROVE  CrawlIInv'
<1> DEFINE more == IF url[h] \in Allowed THEN (Links[url[h]] \cap Allowed) \ crawlAsked ELSE {}
<1>1. CrawlTypeOK
  BY DEF CrawlIInv
<1>2. /\ crawlPc[h] = "links" /\ queue' = queue \cup more /\ crawlAsked' = crawlAsked \cup more /\ Crawler!Done(h)
      /\ UNCHANGED <<maxPages, req, url, crawlPages, seen, spoilt, barred>>
  BY DEF Crawler!enqueueLinks
<1>3. url[h] \in Url /\ more \in SUBSET Url
  BY <1>1, CrawlAssumption DEF CrawlTypeOK
<1>4. url[h] \notin Allowed \/ Links[url[h]] \cap Allowed \subseteq crawlAsked'
  BY <1>2
<1> HIDE DEF more
<1>5. /\ crawlPc' \in [Handler -> {"idle", "load", "push", "links"}]
      /\ crawlPc'[h] = "idle" /\ \A g \in Handler \ {h} : crawlPc'[g] = crawlPc[g]
  BY <1>1, <1>2, CrawlGotoIs DEF Crawler!Done
<1>6. CrawlTypeOK'
  BY <1>1, <1>2, <1>3, <1>5 DEF CrawlTypeOK
<1>7. adrift' = adrift \ {h}
  BY <1>2 DEF Crawler!Done
<1>8. <<Home, "ok">> \in CrawlRecord
  BY CrawlAssumption DEF CrawlRecord
<1> QED
  BY <1>2, <1>4, <1>5, <1>6, <1>7, <1>8, CrawlWorkPreserves

-----------------------------------------------------------------------------
(* Failures                                                                *)

\* A request that failed waits again, has a record, was refused or is noted.
LEMMA CrawlFailedIs ==
  ASSUME CrawlIInv, NEW h \in Handler, NEW error, Crawler!Failed(req[h], error), UNCHANGED maxPages
  PROVE  /\ <<req[h], "broken">> \in CrawlRecord /\ crawlPages' \in Seq(CrawlRecord)
         /\ UNCHANGED <<crawlAsked, req, url>>
         /\ queue \subseteq queue' /\ queue' \subseteq Url /\ barred \subseteq barred'
         /\ Crawler!Full \/ req[h] \in queue' \/ req[h] \in seen' \/ req[h] \in barred'
         /\ \/ UNCHANGED <<crawlPages, seen>>
            \/ /\ crawlPages' = Append(crawlPages, <<req[h], "broken">>) /\ seen' = seen \cup {req[h]}
               /\ ~Crawler!Full /\ Crawler!Records(req[h]) = {} /\ \A g \in CrawlPushing : url[g] # req[h]
<1>1. CrawlTypeOK /\ CrawlOnce
  BY DEF CrawlIInv
<1>2. req[h] \in Url /\ <<req[h], "broken">> \in CrawlRecord /\ UNCHANGED <<crawlAsked, req, url>>
  BY <1>1 DEF CrawlTypeOK, CrawlRecord, Crawler!Failed
<1>3. CASE Crawler!Retry(req[h])
  BY <1>1, <1>2, <1>3 DEF Crawler!Retry, CrawlTypeOK
<1>4. CASE Crawler!failedRequestHandler(req[h], error)
  <2>1. queue' = queue /\ queue' \subseteq Url
    BY <1>1, <1>4 DEF Crawler!failedRequestHandler, CrawlTypeOK
  <2>2. CASE (Crawler!Full \/ req[h] \in seen) /\ UNCHANGED <<crawlPages, seen, barred>>
    BY <1>1, <1>2, <2>1, <2>2 DEF CrawlTypeOK
  <2>3. CASE barred' = barred \cup {req[h]} /\ UNCHANGED <<crawlPages, seen>>
    BY <1>1, <1>2, <2>1, <2>3 DEF CrawlTypeOK
  <2>4. CASE /\ ~Crawler!Full /\ req[h] \notin seen /\ seen' = seen \cup {req[h]} /\ UNCHANGED barred
             /\ crawlPages' = Append(crawlPages, <<req[h], "broken">>)
    <3>1. Crawler!Records(req[h]) = {} /\ \A g \in CrawlPushing : url[g] # req[h]
      BY <1>1, <2>4 DEF CrawlOnce, Crawler!Records
    <3>2. crawlPages' \in Seq(CrawlRecord)
      BY <1>1, <1>2, <2>4 DEF CrawlTypeOK
    <3> QED
      BY <1>2, <2>1, <2>4, <3>1, <3>2
  <2> QED
    BY <1>4, <2>2, <2>3, <2>4 DEF Crawler!failedRequestHandler
<1> QED
  BY <1>3, <1>4 DEF Crawler!Failed

LEMMA CrawlFailPreserves ==
  ASSUME CrawlIInv, NEW h \in Handler, UNCHANGED maxPages,
         Crawler!FailToLoad(h) \/ Crawler!Throw(h) \/ Crawler!TimeOut(h)
  PROVE  CrawlIInv'
<1> DEFINE e == <<req[h], "broken">>
<1>1. CrawlTypeOK /\ CrawlAdrift
  BY DEF CrawlIInv
<1>2. PICK error : Crawler!Failed(req[h], error)
  BY DEF Crawler!FailToLoad, Crawler!Throw, Crawler!TimeOut
<1>3. /\ e \in CrawlRecord /\ crawlPages' \in Seq(CrawlRecord) /\ UNCHANGED <<crawlAsked, req, url>>
      /\ queue \subseteq queue' /\ queue' \subseteq Url /\ barred \subseteq barred'
      /\ Crawler!Full \/ req[h] \in queue' \/ req[h] \in seen' \/ req[h] \in barred'
      /\ \/ UNCHANGED <<crawlPages, seen>>
         \/ /\ crawlPages' = Append(crawlPages, e) /\ seen' = seen \cup {e[1]}
            /\ ~Crawler!Full /\ Crawler!Records(e[1]) = {} /\ \A g \in CrawlPushing : url[g] # e[1]
  BY <1>2, CrawlFailedIs
<1>4. e[2] = "broken"
  OBVIOUS
<1> HIDE DEF e
<1>5. /\ crawlPc' \in [Handler -> {"idle", "load", "push", "links"}]
      /\ \A g \in Handler \ {h} : crawlPc'[g] = crawlPc[g] /\ (g \in adrift' => g \in adrift)
      /\ spoilt \subseteq spoilt' /\ h \notin adrift
      /\ \/ crawlPc[h] = "load" /\ crawlPc'[h] = "idle" /\ h \notin adrift'
         \/ /\ crawlPc[h] \in {"push", "links"} /\ crawlPc'[h] \in {"idle", crawlPc[h]}
            /\ h \in adrift' => crawlPc'[h] = crawlPc[h]
            /\ url[h] \in spoilt'
  <2>1. CASE Crawler!FailToLoad(h)
    BY <1>1, <2>1, CrawlGotoIs DEF Crawler!FailToLoad, CrawlAdrift
  <2>2. CASE Crawler!Throw(h)
    BY <1>1, <2>2, CrawlGotoIs DEF Crawler!Throw, CrawlAdrift
  <2>3. CASE Crawler!TimeOut(h)
    BY <1>1, <2>3 DEF Crawler!TimeOut, CrawlTypeOK
  <2> QED
    BY <2>1, <2>2, <2>3
<1>6. CrawlTypeOK'
  BY <1>1, <1>3, <1>5 DEF CrawlTypeOK
<1>7. CrawlPushing' \subseteq CrawlPushing
  BY <1>5 DEF CrawlPushing
<1>8. CASE UNCHANGED <<crawlPages, seen>>
  BY <1>3, <1>5, <1>6, <1>7, <1>8, CrawlWorkPreserves
<1>9. CASE /\ crawlPages' = Append(crawlPages, e) /\ seen' = seen \cup {e[1]}
           /\ ~Crawler!Full /\ Crawler!Records(e[1]) = {} /\ \A g \in CrawlPushing : url[g] # e[1]
  <2>1. \A g \in CrawlPushing' : url'[g] # e[1]
    BY <1>3, <1>7, <1>9
  <2>2. ~Crawler!Full /\ (crawlPc'[h] # "push" \/ spoilt' # {})
    BY <1>5, <1>9
  <2>3. crawlPc[h] = "push" /\ crawlPc'[h] # "push" => url[h] \in spoilt'
    BY <1>5
  <2>4. h \in adrift' => crawlPc'[h] \in {"push", "links"} /\ url'[h] \in spoilt'
    BY <1>3, <1>5
  <2>5. crawlPc[h] = "links" => url[h] \in spoilt'
    BY <1>5
  <2>6. crawlPc'[h] = "push" => crawlPc[h] = "push" /\ url'[h] = url[h]
    BY <1>3, <1>5
  <2> QED
    BY <1>3, <1>4, <1>5, <1>6, <1>9, <2>1, <2>2, <2>3, <2>4, <2>5, <2>6, CrawlWorkPreserves
<1> QED
  BY <1>3, <1>8, <1>9

-----------------------------------------------------------------------------
(* The rest                                                                *)

LEMMA CrawlInitIInv == Crawler!Init => CrawlIInv
<1> SUFFICES ASSUME Crawler!Init
             PROVE  CrawlIInv
  OBVIOUS
<1>1. Crawler!StartRequests \subseteq Url /\ maxPages \in Nat
  BY CrawlAssumption DEF Crawler!Init, Crawler!StartRequests
<1>2. CrawlPushing = {} /\ crawlPages = <<>> /\ seen = {} /\ Len(crawlPages) = 0 /\ adrift = {}
  BY DEF Crawler!Init, CrawlPushing
<1>3. CrawlTypeOK
  BY <1>1, CrawlAssumption DEF Crawler!Init, CrawlTypeOK
<1>4. CrawlOnce /\ CrawlNoted /\ CrawlLinksAsked /\ CrawlAdrift
  BY <1>2 DEF CrawlOnce, CrawlNoted, CrawlLinksAsked, CrawlAdrift
<1>5. CrawlBounded
  <2>1. Crawler!Cardinality(CrawlPushing) <= Crawler!Cardinality(Handler) - 1
    <3>1. PICK h \in Handler : TRUE
      BY CrawlAssumption
    <3>2. h \in Handler \ CrawlPushing
      BY <1>2
    <3> QED
      BY <3>2, CrawlPushingIs
  <2> QED
    BY <1>1, <1>2, <2>1, CrawlPushingIs DEF CrawlBounded
<1>6. CrawlFollowed
  BY DEF Crawler!Init, CrawlFollowed
<1> QED
  BY <1>3, <1>4, <1>5, <1>6 DEF CrawlIInv

LEMMA CrawlNextIInv ==
  ASSUME CrawlIInv, [Crawler!Next]_crawlVars
  PROVE  CrawlIInv'
<1>1. ASSUME NEW h \in Handler, UNCHANGED maxPages,
             \/ Crawler!Take(h) \/ Crawler!requestHandler(h) \/ Crawler!PushPage(h) \/ Crawler!enqueueLinks(h)
             \/ Crawler!FailToLoad(h) \/ Crawler!Throw(h) \/ Crawler!TimeOut(h)
      PROVE  CrawlIInv'
  BY <1>1, CrawlTakePreserves, CrawlRequestPreserves, CrawlPushPreserves, CrawlLinksPreserves,
     CrawlFailPreserves
<1>2. CASE UNCHANGED crawlVars
  <2>1. CrawlTypeOK' /\ CrawlBounded' /\ CrawlAdrift' /\ CrawlFollowed' /\ CrawlLinksAsked'
    BY <1>2
    DEF crawlVars, CrawlIInv, CrawlTypeOK, CrawlBounded, CrawlPushing, CrawlAdrift, CrawlFollowed,
       CrawlLinksAsked, Crawler!Full
  <2>2. CrawlOnce' /\ CrawlNoted'
    BY <1>2 DEF crawlVars, CrawlIInv, CrawlOnce, CrawlNoted, CrawlPushing, Crawler!Records
  <2> QED
    BY <2>1, <2>2 DEF CrawlIInv
<1> QED
  BY <1>1, <1>2 DEF Crawler!Next

LEMMA CrawlOneRecord == CrawlIInv => Crawler!OneRecordEach
<1> SUFFICES ASSUME CrawlIInv
             PROVE  Crawler!OneRecordEach
  OBVIOUS
<1>1. ASSUME NEW u \in Url
      PROVE  Crawler!Cardinality(Crawler!Records(u)) <= 1
  <2>1. CASE Crawler!Records(u) = {}
    BY <2>1, FS_EmptySet, CrawlCountIs
  <2>2. ASSUME NEW i \in Crawler!Records(u)
        PROVE  Cardinality(Crawler!Records(u)) <= 1
    <3>1. Crawler!Records(u) = {i}
      BY DEF CrawlIInv, CrawlOnce, Crawler!Records
    <3>2. Cardinality({i}) = 1
      BY FS_Singleton
    <3> QED
      BY <3>1, <3>2
  <2> QED
    BY <2>1, <2>2, CrawlCountIs
<1>2. Len(crawlPages) <= maxPages + Crawler!Cardinality(Handler) - (IF spoilt = {} THEN 1 ELSE 0)
  BY CrawlPushingIs DEF CrawlIInv, CrawlBounded, CrawlTypeOK
<1> QED
  BY <1>1, <1>2 DEF Crawler!OneRecordEach

LEMMA CrawlAreReached == CrawlIInv => Crawler!AllowedAreReached
<1> SUFFICES ASSUME CrawlIInv, Crawler!Over, ~Crawler!CutShort,
                    NEW i \in 1 .. Len(crawlPages), crawlPages[i][2] = "ok", crawlPages[i][1] \in Allowed \ spoilt,
                    NEW u \in (Links[crawlPages[i][1]] \cap Allowed) \ barred
             PROVE  \/ Crawler!Records(u) # {} \/ Crawler!Records(Loaded[u]) # {}
                    \/ u \in spoilt \/ Loaded[u] \in spoilt
  BY DEF Crawler!AllowedAreReached
<1>1. /\ queue = {} /\ ~Crawler!Full
      /\ \A h \in Handler : crawlPc[h] = "idle" \/ (crawlPc[h] # "load" /\ url[h] \in spoilt)
  BY DEF Crawler!Over, Crawler!CutShort, CrawlIInv, CrawlAdrift
<1>2. u \in crawlAsked
  BY <1>1 DEF CrawlIInv, CrawlLinksAsked
<1>3. u \in seen \/ Loaded[u] \in seen
  BY <1>1, <1>2 DEF CrawlIInv, CrawlFollowed
<1>4. \A v \in seen : Crawler!Records(v) # {} \/ v \in spoilt
  BY <1>1 DEF CrawlIInv, CrawlNoted, CrawlPushing
<1> QED
  BY <1>3, <1>4

CrawlInFocus == focus = "crawl" => CrawlIInv

\* The invariant holds while a site is crawled.
LEMMA CrawlMoves == MachinesSpec => []CrawlInFocus
<1>1. MachinesInit => CrawlInFocus
  BY CrawlInitIInv, CrawlAssumption DEF MachinesInit, CrawlInFocus
<1>2. CrawlInFocus /\ [MachinesNext]_machineVars => CrawlInFocus'
  BY CrawlNextIInv, OneMoves, CrawlAssumption DEF CrawlInFocus
<1> QED
  BY <1>1, <1>2, PTL DEF MachinesSpec


-----------------------------------------------------------------------------
(***************************************************************************)
(* The report. What was advised is so until the page changes; and each     *)
(* rule finds no less in more pages.                                       *)
(***************************************************************************)

\* An address that is as it was when it was added is one to be listed still, and one
\* that was taken out is not.
ReportFollowed ==
  \A u \in ReportUrl :
    /\ advised[u] \subseteq {"add", "remove"}
    /\ "add" \in advised[u] => u \notin blocked /\ look[u].noindex # "yes"
    /\ "remove" \in advised[u] => u \in blocked \/ look[u].noindex = "yes"

ReportIInv ==
  /\ probe \in Probes /\ lab \in Labs
  /\ crawled \subseteq ReportUrl /\ listed \subseteq ReportUrl /\ blocked \subseteq ReportUrl
  /\ DOMAIN look = ReportUrl /\ DOMAIN advised = ReportUrl
  /\ ReportFollowed

-----------------------------------------------------------------------------
(* Advice                                                                  *)

LEMMA ReportIssuesAffect == \A I : Report!fromIssues(I).affected \subseteq { i[1] : i \in I }
BY DEF Report!fromIssues, Report!make

LEMMA ReportNotInSitemapIs ==
  ASSUME NEW u \in Report!Report.not_in_sitemap.affected
  PROVE  u \in crawled /\ u \notin listed /\ u \notin blocked /\ look[u].noindex # "yes"
<1>1. Report!Report.not_in_sitemap = Report!notInSitemap(Report!PagesOf(crawled))
  BY DEF Report!Report, Report!evaluateSeoRules
<1>2. u \in Report!Urls({ p \in Report!PagesOf(crawled) : Report!isIndexable(p) /\ ~p.inSitemap })
  BY <1>1 DEF Report!notInSitemap, Report!make
<1>3. PICK v \in crawled : Report!isIndexable(Report!Page(v)) /\ ~Report!Page(v).inSitemap /\ u = Report!Page(v).url
  BY <1>2 DEF Report!Urls, Report!PagesOf
<1>4. u = v
  BY <1>3 DEF Report!Page
<1> QED
  BY <1>3, <1>4 DEF Report!Page, Report!isIndexable

LEMMA ReportConflictIs ==
  ASSUME NEW u \in Report!Report.sitemap_conflicts.affected
  PROVE  u \in listed /\ (u \in blocked \/ look[u].noindex = "yes")
<1> DEFINE noindexed == { p \in Report!PagesOf(crawled) : p.inSitemap /\ p.look.noindex = "yes" }
<1>1. Report!Report.sitemap_conflicts = Report!sitemapConflicts(Report!PagesOf(crawled))
  BY DEF Report!Report, Report!evaluateSeoRules
<1>2. u \in { i[1] : i \in Report!Critical((listed \cap blocked) \cup Report!Urls(noindexed)) }
  BY <1>1, ReportIssuesAffect DEF Report!sitemapConflicts
<1>3. u \in (listed \cap blocked) \cup Report!Urls(noindexed)
  BY <1>2 DEF Report!Critical
<1>4. CASE u \in Report!Urls(noindexed)
  <2>1. PICK v \in crawled : Report!Page(v).inSitemap /\ Report!Page(v).look.noindex = "yes" /\ u = Report!Page(v).url
    BY <1>4 DEF Report!Urls, Report!PagesOf
  <2> QED
    BY <2>1 DEF Report!Page
<1> QED
  BY <1>3, <1>4

LEMMA ReportThinIs ==
  ASSUME NEW u \in Report!Report.thin_content.affected
  PROVE  u \in crawled
<1> DEFINE thin == { p \in Report!PagesOf(crawled) : p.look.words = "few" }
<1>1. Report!Report.thin_content = Report!legacyOr(Report!Legacy(Report!PagesOf(crawled)), Report!thinIssues(Report!PagesOf(crawled)))
  BY DEF Report!Report, Report!evaluateSeoRules
<1>2. u \in Report!fromIssues(Report!thinIssues(Report!PagesOf(crawled))).affected
  BY <1>1 DEF Report!legacyOr, Report!make
<1>3. u \in { i[1] : i \in Report!Warning(Report!Urls(thin)) }
  BY <1>2, ReportIssuesAffect DEF Report!thinIssues
<1>4. u \in Report!Urls(thin)
  BY <1>3 DEF Report!Warning
<1>5. PICK v \in crawled : u = Report!Page(v).url
  BY <1>4 DEF Report!Urls, Report!PagesOf
<1> QED
  BY <1>5 DEF Report!Page

LEMMA ReportInitIInv == Report!Init => ReportIInv
<1> SUFFICES ASSUME Report!Init
             PROVE  ReportIInv
  OBVIOUS
<1>1. DOMAIN look = ReportUrl /\ DOMAIN advised = ReportUrl /\ crawled = {} /\ listed \subseteq ReportUrl /\ blocked \subseteq ReportUrl
  BY DEF Report!Init
<1>2. ReportFollowed
  BY DEF Report!Init, ReportFollowed
<1> QED
  BY <1>1, <1>2 DEF Report!Init, ReportIInv

LEMMA ReportAddPreserves ==
  ASSUME ReportIInv, NEW u \in ReportUrl, Report!AddToSitemap(u)
  PROVE  ReportIInv'
<1>1. u \notin blocked /\ look[u].noindex # "yes"
  BY ReportNotInSitemapIs DEF Report!AddToSitemap
<1>2. /\ listed' = listed \cup {u} /\ advised' = [advised EXCEPT ![u] = @ \cup {"add"}]
      /\ UNCHANGED <<look, crawled, blocked, probe, lab>>
  BY DEF Report!AddToSitemap
<1>3. DOMAIN advised' = ReportUrl /\ \A v \in ReportUrl : advised'[v] = IF v = u THEN advised[v] \cup {"add"} ELSE advised[v]
  BY <1>2 DEF ReportIInv
<1>4. ReportFollowed /\ ("remove" \in advised[u] => u \in blocked \/ look[u].noindex = "yes")
  BY DEF ReportIInv, ReportFollowed
<1>5. ReportFollowed'
  BY <1>1, <1>2, <1>3, <1>4 DEF ReportFollowed
<1> QED
  BY <1>2, <1>3, <1>5 DEF ReportIInv

LEMMA ReportRemovePreserves ==
  ASSUME ReportIInv, NEW u \in ReportUrl, Report!RemoveFromSitemap(u)
  PROVE  ReportIInv'
<1>1. u \in blocked \/ look[u].noindex = "yes"
  BY ReportConflictIs DEF Report!RemoveFromSitemap
<1>2. /\ listed' = listed \ {u} /\ advised' = [advised EXCEPT ![u] = @ \cup {"remove"}]
      /\ UNCHANGED <<look, crawled, blocked, probe, lab>>
  BY DEF Report!RemoveFromSitemap
<1>3. DOMAIN advised' = ReportUrl /\ \A v \in ReportUrl : advised'[v] = IF v = u THEN advised[v] \cup {"remove"} ELSE advised[v]
  BY <1>2 DEF ReportIInv
<1>4. ReportFollowed'
  BY <1>1, <1>2, <1>3 DEF ReportIInv, ReportFollowed
<1> QED
  BY <1>2, <1>3, <1>4 DEF ReportIInv

LEMMA ReportNoindexPreserves ==
  ASSUME ReportIInv, NEW u \in ReportUrl, Report!Noindex(u)
  PROVE  ReportIInv'
<1>1. /\ look' = [look EXCEPT ![u].noindex = "yes"] /\ advised' = [advised EXCEPT ![u] = {}]
      /\ UNCHANGED <<crawled, listed, blocked, probe, lab>>
  BY DEF Report!Noindex
<1>2. DOMAIN look' = ReportUrl /\ \A v \in ReportUrl \ {u} : look'[v] = look[v]
  BY <1>1 DEF ReportIInv
<1>3. DOMAIN advised' = ReportUrl /\ advised'[u] = {} /\ \A v \in ReportUrl \ {u} : advised'[v] = advised[v]
  BY <1>1 DEF ReportIInv
<1>4. ReportFollowed'
  BY <1>1, <1>2, <1>3 DEF ReportIInv, ReportFollowed
<1> QED
  BY <1>1, <1>2, <1>3, <1>4 DEF ReportIInv

LEMMA ReportNextIInv ==
  ASSUME ReportIInv, [Report!Next]_reportVars
  PROVE  ReportIInv'
<1>1. ASSUME NEW u \in ReportUrl, Report!AddToSitemap(u) \/ Report!RemoveFromSitemap(u) \/ Report!Noindex(u)
      PROVE  ReportIInv'
  BY <1>1, ReportAddPreserves, ReportRemovePreserves, ReportNoindexPreserves
<1>2. ASSUME NEW u \in ReportUrl, Report!Crawl(u)
      PROVE  ReportIInv'
  BY <1>2 DEF Report!Crawl, ReportIInv, ReportFollowed
<1>3. CASE Report!Advertise
  BY <1>3 DEF Report!Advertise, ReportIInv, ReportFollowed
<1>4. CASE UNCHANGED reportVars
  BY <1>4 DEF reportVars, ReportIInv, ReportFollowed
<1> QED
  BY <1>1, <1>2, <1>3, <1>4 DEF Report!Next

LEMMA ReportCountIs == \A S : Report!Cardinality(S) = Cardinality(S)
BY DEF Cardinality, Report!Cardinality

LEMMA ReportIsFinal == ReportIInv => Report!AdviceIsFinal
<1> SUFFICES ASSUME ReportIInv, NEW u \in ReportUrl
             PROVE  Report!Cardinality(advised[u]) <= 1
  BY DEF Report!AdviceIsFinal
<1>1. advised[u] \in {{}, {"add"}, {"remove"}}
  BY DEF ReportIInv, ReportFollowed
<1>2. Cardinality({}) = 0 /\ Cardinality({"add"}) = 1 /\ Cardinality({"remove"}) = 1
  BY FS_EmptySet, FS_Singleton
<1> QED
  BY <1>1, <1>2, ReportCountIs

-----------------------------------------------------------------------------
(* One page more                                                           *)

\* A finding that says no less than another.
ReportCovers(more, less) == less.affected \subseteq more.affected /\ Report!Rank(less.bucket) <= Report!Rank(more.bucket)

LEMMA ReportMakeCovers ==
  ASSUME NEW A, NEW B, A \subseteq B,
         NEW b \in {"not-evaluated", "passed", "watch", "fix-now"},
         NEW c \in {"not-evaluated", "passed", "watch", "fix-now"},
         Report!Rank(b) <= Report!Rank(c)
  PROVE  ReportCovers(Report!make(c, B), Report!make(b, A))
BY DEF ReportCovers, Report!make, Report!Rank

LEMMA ReportIssuesCover ==
  ASSUME NEW I, NEW J, I \subseteq J
  PROVE  ReportCovers(Report!fromIssues(J), Report!fromIssues(I))
<1> DEFINE bucket(K) == IF \E i \in K : i[2] = "critical" THEN "fix-now"
                        ELSE IF K # {} THEN "watch" ELSE "passed"
<1>1. \A K : Report!fromIssues(K) = Report!make(bucket(K), { i[1] : i \in K })
  BY DEF Report!fromIssues
<1>2. { i[1] : i \in I } \subseteq { i[1] : i \in J }
  OBVIOUS
<1>3. /\ bucket(I) \in {"not-evaluated", "passed", "watch", "fix-now"}
      /\ bucket(J) \in {"not-evaluated", "passed", "watch", "fix-now"}
      /\ Report!Rank(bucket(I)) <= Report!Rank(bucket(J))
  BY DEF Report!Rank
<1> HIDE DEF bucket
<1> QED
  BY <1>1, <1>2, <1>3, ReportMakeCovers

\* An audit of fewer pages is one of an old kind rather.
LEMMA ReportLegacyCovers ==
  ASSUME NEW ps, NEW qs, ps \subseteq qs, NEW I, NEW J, I \subseteq J
  PROVE  ReportCovers(Report!legacyOr(Report!Legacy(qs), J), Report!legacyOr(Report!Legacy(ps), I))
<1>1. Report!Legacy(qs) => Report!Legacy(ps)
  BY DEF Report!Legacy
<1>2. CASE ~Report!Legacy(ps)
  BY <1>1, <1>2, ReportIssuesCover DEF Report!legacyOr
<1>3. CASE Report!Legacy(ps)
  <2>1. Report!legacyOr(Report!Legacy(ps), I) = [bucket |-> "not-evaluated", affected |-> {}]
    BY <1>3 DEF Report!legacyOr, Report!make
  <2>2. Report!legacyOr(Report!Legacy(qs), J).bucket \in {"not-evaluated", "passed", "watch", "fix-now"}
    BY DEF Report!legacyOr, Report!make, Report!fromIssues
  <2> QED
    BY <2>1, <2>2 DEF ReportCovers, Report!Rank
<1> QED
  BY <1>2, <1>3

LEMMA ReportUrlsGrow == \A ps, qs : ps \subseteq qs => Report!Urls(ps) \subseteq Report!Urls(qs)
BY DEF Report!Urls

LEMMA ReportLevelsGrow ==
  \A us, vs : us \subseteq vs => Report!Critical(us) \subseteq Report!Critical(vs) /\ Report!Warning(us) \subseteq Report!Warning(vs)
BY DEF Report!Critical, Report!Warning

\* Issues of single pages, and of pages that say the same as another.
LEMMA ReportIssuesGrow ==
  ASSUME NEW ps, NEW qs, ps \subseteq qs
  PROVE  /\ Report!titleIssues(ps) \subseteq Report!titleIssues(qs)
         /\ Report!metaIssues(ps) \subseteq Report!metaIssues(qs)
         /\ Report!headingIssues(ps) \subseteq Report!headingIssues(qs)
         /\ Report!canonicalIssues(ps) \subseteq Report!canonicalIssues(qs)
         /\ Report!thinIssues(ps) \subseteq Report!thinIssues(qs)
         /\ \A flag : Report!flagIssues(ps, flag) \subseteq Report!flagIssues(qs, flag)
<1>1. Report!titleIssues(ps) \subseteq Report!titleIssues(qs)
  <2> DEFINE indexable(rs) == { p \in rs : Report!isIndexable(p) }
             twice(rs, p)  == \E q \in indexable(rs) \ {p} : q.look.title = p.look.title
             empty(rs)     == { p \in indexable(rs) : p.look.title = "" }
             weak(rs)      == { p \in indexable(rs) :
                                  p.look.title # "" /\ (p.look.title \in {"short", "long"} \/ twice(rs, p)) }
  <2>1. \A rs : Report!titleIssues(rs) = Report!Critical(Report!Urls(empty(rs))) \cup Report!Warning(Report!Urls(weak(rs)))
    BY DEF Report!titleIssues
  <2>2. empty(ps) \subseteq empty(qs) /\ weak(ps) \subseteq weak(qs)
    OBVIOUS
  <2> HIDE DEF empty, weak
  <2> QED
    BY <2>1, <2>2, ReportUrlsGrow, ReportLevelsGrow
<1>2. Report!metaIssues(ps) \subseteq Report!metaIssues(qs)
  <2> DEFINE indexable(rs) == { p \in rs : Report!isIndexable(p) }
             twice(rs, p)  == \E q \in indexable(rs) \ {p} : q.look.description = p.look.description
             weak(rs)      == { p \in indexable(rs) : p.look.description \in {"", "long"} \/ twice(rs, p) }
  <2>1. \A rs : Report!metaIssues(rs) = Report!Warning(Report!Urls(weak(rs)))
    BY DEF Report!metaIssues
  <2>2. weak(ps) \subseteq weak(qs)
    OBVIOUS
  <2> HIDE DEF weak
  <2> QED
    BY <2>1, <2>2, ReportUrlsGrow, ReportLevelsGrow
<1>3. Report!headingIssues(ps) \subseteq Report!headingIssues(qs)
  <2> DEFINE none(rs)    == { p \in rs : Report!parsed(p) /\ p.look.h1 = "none" }
             several(rs) == { p \in rs : Report!parsed(p) /\ p.look.h1 = "several" }
  <2>1. \A rs : Report!headingIssues(rs) = Report!Critical(Report!Urls(none(rs))) \cup Report!Warning(Report!Urls(several(rs)))
    BY DEF Report!headingIssues
  <2>2. none(ps) \subseteq none(qs) /\ several(ps) \subseteq several(qs)
    OBVIOUS
  <2> HIDE DEF none, several
  <2> QED
    BY <2>1, <2>2, ReportUrlsGrow, ReportLevelsGrow
<1>4. Report!canonicalIssues(ps) \subseteq Report!canonicalIssues(qs)
  <2> DEFINE missing(rs) == { p \in rs : Report!parsed(p) /\ p.look.canonical = "missing" }
             wrong(rs)   == { p \in rs : Report!parsed(p) /\ p.look.canonical \in {"unparseable", "other host"} }
  <2>1. \A rs : Report!canonicalIssues(rs) = Report!Warning(Report!Urls(missing(rs))) \cup Report!Critical(Report!Urls(wrong(rs)))
    BY DEF Report!canonicalIssues
  <2>2. missing(ps) \subseteq missing(qs) /\ wrong(ps) \subseteq wrong(qs)
    OBVIOUS
  <2> HIDE DEF missing, wrong
  <2> QED
    BY <2>1, <2>2, ReportUrlsGrow, ReportLevelsGrow
<1>5. Report!thinIssues(ps) \subseteq Report!thinIssues(qs)
  <2> DEFINE few(rs) == { p \in rs : p.look.words = "few" }
  <2>1. \A rs : Report!thinIssues(rs) = Report!Warning(Report!Urls(few(rs)))
    BY DEF Report!thinIssues
  <2>2. few(ps) \subseteq few(qs)
    OBVIOUS
  <2> HIDE DEF few
  <2> QED
    BY <2>1, <2>2, ReportUrlsGrow, ReportLevelsGrow
<1>6. ASSUME NEW flag
      PROVE  Report!flagIssues(ps, flag) \subseteq Report!flagIssues(qs, flag)
  <2> DEFINE unset(rs) == { p \in rs : Report!parsed(p) /\ Report!Ok(p.look.status) /\ ~p.look[flag] }
  <2>1. \A rs : Report!flagIssues(rs, flag) = Report!Warning(Report!Urls(unset(rs)))
    BY DEF Report!flagIssues
  <2>2. unset(ps) \subseteq unset(qs)
    OBVIOUS
  <2> HIDE DEF unset
  <2>3. Report!Warning(Report!Urls(unset(ps))) \subseteq Report!Warning(Report!Urls(unset(qs)))
    BY <2>2, ReportUrlsGrow, ReportLevelsGrow
  <2> QED
    BY <2>1, <2>3
<1> QED
  BY <1>1, <1>2, <1>3, <1>4, <1>5, <1>6

\* Rules that do not look at the pages.
LEMMA ReportCoversItself ==
  ASSUME NEW f, f.bucket \in {"not-evaluated", "passed", "watch", "fix-now"}
  PROVE  ReportCovers(f, f)
BY DEF ReportCovers, Report!Rank

LEMMA ReportConflictsCover ==
  ASSUME NEW ps, NEW qs, ps \subseteq qs
  PROVE  ReportCovers(Report!sitemapConflicts(qs), Report!sitemapConflicts(ps))
<1> DEFINE noindexed(rs) == { p \in rs : p.inSitemap /\ p.look.noindex = "yes" }
<1>1. \A rs : Report!sitemapConflicts(rs) = Report!fromIssues(Report!Critical((listed \cap blocked) \cup Report!Urls(noindexed(rs))))
  BY DEF Report!sitemapConflicts
<1>2. noindexed(ps) \subseteq noindexed(qs)
  OBVIOUS
<1> HIDE DEF noindexed
<1>3. Report!Critical((listed \cap blocked) \cup Report!Urls(noindexed(ps)))
        \subseteq Report!Critical((listed \cap blocked) \cup Report!Urls(noindexed(qs)))
  BY <1>2, ReportUrlsGrow, ReportLevelsGrow
<1> QED
  BY <1>1, <1>3, ReportIssuesCover

LEMMA ReportBrokenCover ==
  ASSUME NEW ps, NEW qs, ps \subseteq qs
  PROVE  ReportCovers(Report!fromIssues(Report!Critical(Report!Urls({ p \in qs : p.brokenLink }))),
                Report!fromIssues(Report!Critical(Report!Urls({ p \in ps : p.brokenLink }))))
<1>1. { p \in ps : p.brokenLink } \subseteq { p \in qs : p.brokenLink }
  OBVIOUS
<1>2. Report!Critical(Report!Urls({ p \in ps : p.brokenLink })) \subseteq Report!Critical(Report!Urls({ p \in qs : p.brokenLink }))
  BY <1>1, ReportUrlsGrow, ReportLevelsGrow
<1> QED
  BY <1>2, ReportIssuesCover

LEMMA ReportNotListedCover ==
  ASSUME NEW ps, NEW qs, ps \subseteq qs
  PROVE  ReportCovers(Report!notInSitemap(qs), Report!notInSitemap(ps))
<1> DEFINE away(rs) == Report!Urls({ p \in rs : Report!isIndexable(p) /\ ~p.inSitemap })
           bucket(rs) == IF away(rs) = {} THEN "passed" ELSE "watch"
<1>1. \A rs : Report!notInSitemap(rs) = IF listed = {} THEN Report!make("not-evaluated", {}) ELSE Report!make(bucket(rs), away(rs))
  BY DEF Report!notInSitemap
<1>2. away(ps) \subseteq away(qs)
  <2>1. { p \in ps : Report!isIndexable(p) /\ ~p.inSitemap } \subseteq { p \in qs : Report!isIndexable(p) /\ ~p.inSitemap }
    OBVIOUS
  <2> QED
    BY <2>1, ReportUrlsGrow
<1>3. /\ bucket(ps) \in {"not-evaluated", "passed", "watch", "fix-now"}
      /\ bucket(qs) \in {"not-evaluated", "passed", "watch", "fix-now"}
      /\ Report!Rank(bucket(ps)) <= Report!Rank(bucket(qs))
  <2> HIDE DEF away
  <2> QED
    BY <1>2 DEF Report!Rank
<1>4. Report!Rank("not-evaluated") <= Report!Rank("not-evaluated")
  BY DEF Report!Rank
<1> HIDE DEF away, bucket
<1> QED
  BY <1>1, <1>2, <1>3, <1>4, ReportMakeCovers

LEMMA ReportOthersCover ==
  ASSUME ReportIInv
  PROVE  /\ ReportCovers(Report!sitemapFile, Report!sitemapFile) /\ ReportCovers(Report!llmsFinding, Report!llmsFinding)
         /\ ReportCovers(Report!httpsFinding, Report!httpsFinding) /\ ReportCovers(Report!speedFinding, Report!speedFinding)
         /\ ReportCovers(Report!a11yFinding, Report!a11yFinding)
<1>1. /\ probe.llms \in {"unknown", "missing", "found"}
      /\ probe.variants \in {"unknown", "ok", "http bad", "https bad"}
      /\ lab.speed \in {"unknown", "slow", "fast"} /\ lab.a11y \in {"unknown", "low", "medium", "high"}
  BY ReportAssumption DEF ReportIInv
<1>2. Report!sitemapFile.bucket \in {"not-evaluated", "passed", "watch", "fix-now"}
  BY DEF Report!sitemapFile, Report!make
<1>3. Report!llmsFinding.bucket \in {"not-evaluated", "passed", "watch", "fix-now"}
  BY <1>1 DEF Report!llmsFinding, Report!make
<1>4. Report!httpsFinding.bucket \in {"not-evaluated", "passed", "watch", "fix-now"}
  BY <1>1 DEF Report!httpsFinding, Report!make
<1>5. Report!speedFinding.bucket \in {"not-evaluated", "passed", "watch", "fix-now"}
  BY <1>1 DEF Report!speedFinding, Report!make
<1>6. Report!a11yFinding.bucket \in {"not-evaluated", "passed", "watch", "fix-now"}
  BY <1>1 DEF Report!a11yFinding, Report!make
<1> QED
  BY <1>2, <1>3, <1>4, <1>5, <1>6, ReportCoversItself

\* Every rule, one after the other.
LEMMA ReportRulesCover ==
  ASSUME ReportIInv, NEW ps, NEW qs, ps \subseteq qs, NEW rule \in DOMAIN Report!evaluateSeoRules(ps)
  PROVE  ReportCovers(Report!evaluateSeoRules(qs)[rule], Report!evaluateSeoRules(ps)[rule])
<1>1. /\ ReportCovers(Report!fromIssues(Report!titleIssues(qs)), Report!fromIssues(Report!titleIssues(ps)))
      /\ ReportCovers(Report!fromIssues(Report!metaIssues(qs)), Report!fromIssues(Report!metaIssues(ps)))
      /\ \A flag : ReportCovers(Report!fromIssues(Report!flagIssues(qs, flag)), Report!fromIssues(Report!flagIssues(ps, flag)))
  BY ReportIssuesGrow, ReportIssuesCover
<1>2. /\ ReportCovers(Report!legacyOr(Report!Legacy(qs), Report!headingIssues(qs)), Report!legacyOr(Report!Legacy(ps), Report!headingIssues(ps)))
      /\ ReportCovers(Report!legacyOr(Report!Legacy(qs), Report!canonicalIssues(qs)), Report!legacyOr(Report!Legacy(ps), Report!canonicalIssues(ps)))
      /\ ReportCovers(Report!legacyOr(Report!Legacy(qs), Report!thinIssues(qs)), Report!legacyOr(Report!Legacy(ps), Report!thinIssues(ps)))
  BY ReportIssuesGrow, ReportLegacyCovers
<1>3. rule \in {"sitemap_conflicts", "broken_pages", "title_missing_or_weak", "meta_description_weak",
                "headings_weak", "canonical_issues", "thin_content", "structured_data_missing",
                "open_graph_missing", "not_in_sitemap", "sitemap_missing_or_weak",
                "llms_txt_missing", "https_redirects", "page_speed_lab", "accessibility_lab"}
  BY DEF Report!evaluateSeoRules
<1>4. CASE rule \in {"sitemap_conflicts", "broken_pages", "not_in_sitemap"}
  <2>1. CASE rule = "sitemap_conflicts"
    BY <2>1, ReportConflictsCover DEF Report!evaluateSeoRules
  <2>2. CASE rule = "broken_pages"
    <3>1. \A rs : Report!evaluateSeoRules(rs)[rule] = Report!fromIssues(Report!Critical(Report!Urls({ p \in rs : p.brokenLink })))
      BY <2>2 DEF Report!evaluateSeoRules
    <3> QED
      BY <3>1, ReportBrokenCover
  <2>3. CASE rule = "not_in_sitemap"
    BY <2>3, ReportNotListedCover DEF Report!evaluateSeoRules
  <2> QED
    BY <1>4, <2>1, <2>2, <2>3
<1>5. CASE rule \in {"title_missing_or_weak", "meta_description_weak", "structured_data_missing",
                     "open_graph_missing"}
  BY <1>1, <1>5 DEF Report!evaluateSeoRules
<1>6. CASE rule \in {"headings_weak", "canonical_issues", "thin_content"}
  BY <1>2, <1>6 DEF Report!evaluateSeoRules
<1>7. CASE rule \in {"sitemap_missing_or_weak", "llms_txt_missing", "https_redirects",
                     "page_speed_lab", "accessibility_lab"}
  BY <1>7, ReportOthersCover DEF Report!evaluateSeoRules
<1> QED
  BY <1>3, <1>4, <1>5, <1>6, <1>7

LEMMA ReportHidesNothing == ReportIInv => Report!NothingHidden
<1> SUFFICES ASSUME ReportIInv, NEW u \in crawled,
                    NEW rule \in DOMAIN Report!evaluateSeoRules(Report!PagesOf(crawled \ {u}))
             PROVE  ReportCovers(Report!Report[rule], Report!evaluateSeoRules(Report!PagesOf(crawled \ {u}))[rule])
  BY DEF Report!NothingHidden, ReportCovers
<1>1. Report!PagesOf(crawled \ {u}) \subseteq Report!PagesOf(crawled)
  BY DEF Report!PagesOf
<1> QED
  BY <1>1, ReportRulesCover DEF Report!Report

ReportInFocus == focus = "report" => ReportIInv

\* The invariant holds while a report grows and is followed.
LEMMA ReportMoves == MachinesSpec => []ReportInFocus
<1>1. MachinesInit => ReportInFocus
  BY ReportInitIInv, ReportAssumption DEF MachinesInit, ReportInFocus
<1>2. ReportInFocus /\ [MachinesNext]_machineVars => ReportInFocus'
  BY ReportNextIInv, OneMoves, ReportAssumption DEF ReportInFocus
<1> QED
  BY <1>1, <1>2, PTL DEF MachinesSpec

\* One audit is under way at a time, and a run that is shown as unfinished is that one
\* unless a restart cut it; each page has one record, and a crawl that is over and was
\* not cut short has one for each allowed page that links lead to, unless it was refused
\* as not public or a handler failed after the page was noted; and a page more
\* hides nothing in a report, nor is the advice on the sitemap taken back.
THEOREM AuditsHoldCorrect == MachinesSpec => []AuditsHold
<1>1. AuditInFocus /\ CrawlInFocus /\ ReportInFocus => AuditsHold
  BY AuditIsOne, CrawlOneRecord, CrawlAreReached, ReportHidesNothing, ReportIsFinal,
     CrawlAssumption, ReportAssumption
  DEF AuditInFocus, CrawlInFocus, ReportInFocus, AuditsHold
<1> QED
  BY <1>1, AuditMoves, CrawlMoves, ReportMoves, PTL
=============================================================================
