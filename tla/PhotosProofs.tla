---------------------------- MODULE PhotosProofs ----------------------------
(***************************************************************************)
(* Any number of photos, of requests at once and of places in an album:    *)
(* what was answered with success holds in both systems, no file is left   *)
(* behind its row, and the album is in order.                              *)
(***************************************************************************)
EXTENDS Photos, NumberSetTheorems, TLAPS

\* The stages of an upload before its outcome is known, and of a deletion.
Early == {"put", "position", "exists", "insert", "commit"}
Uploading == Early \cup {"cleanup"}
Deleting == {"remove", "delete"}

\* A photo that no other request can have come across yet.
Unborn(k) ==
  upload[k] = "unused" \/ \E s \in Sessions : pc[s] \in Early /\ key[s] = k

\* No two uploads are about one photo.
KeysAreOwned ==
  \A s, t \in Sessions :
    pc[s] \in Uploading /\ pc[t] \in Uploading /\ key[s] = key[t] => s = t

\* A row is seen only after its COMMIT, so nobody can be deleting it before.
UnbornIsNowhere ==
  \A k \in Keys : Unborn(k) =>
    /\ k \notin Listed /\ removal[k] = "none"
    /\ \A t \in Sessions : pc[t] \in Deleting => key[t] # k

\* The file is stored before the transaction starts, and removed before the row.
FilesComeFirst ==
  \A s \in Sessions :
    /\ pc[s] \in Early \ {"put"} => key[s] \in objects
    /\ pc[s] = "delete" => key[s] \notin objects /\ removal[key[s]] # "none"

PositionsFit ==
  \A s \in Sessions : pc[s] \in {"exists", "insert", "commit"} => draft[s].position <= MaxPosition

\* A row that is inserted and not committed is apart from every other row,
\* committed or not.
InsertedIsApart ==
  \A s \in Sessions : pc[s] = "commit" =>
    /\ \A k \in Listed : ~ Collide(draft[s], rows[k])
    /\ \A t \in Sessions : pc[t] = "commit" /\ t # s => ~ Collide(draft[s], draft[t])

\* The inductive invariant.
PhInv ==
  /\ TypeOK
  /\ KeysAreOwned /\ UnbornIsNowhere /\ FilesComeFirst
  /\ PositionsFit /\ InsertedIsApart
  /\ CreatedPhotoIsWhole /\ DeletedPhotoIsGone /\ AlbumIsOrdered

-----------------------------------------------------------------------------
(* Operators. *)

\* The place after the last one is nobody's.
LEMMA NextPositionFree ==
  ASSUME TypeOK
  PROVE  NextPosition \in 0 .. MaxPosition + 1
<1>1. CASE Listed = {}
  BY <1>1, MaxPositionAssumption DEF NextPosition
<1>2. CASE Listed # {}
  <2> DEFINE S == {rows[k].position : k \in Listed}
  <2>1. S # {} /\ S \in SUBSET (0 .. MaxPosition)
    BY <1>2 DEF TypeOK
  <2>2. S \in SUBSET Nat /\ \A x \in S : x <= MaxPosition
    BY <2>1, MaxPositionAssumption
  <2> HIDE DEF S
  <2>3. IsFiniteSet(S) /\ S \in SUBSET Int
    BY <2>2, FS_BoundedSetOfNaturals, MaxPositionAssumption
  <2>4. Max(S) \in 0 .. MaxPosition
    BY <2>1, <2>3, MaxExists
  <2>5. NextPosition = Max(S) + 1
    BY <1>2 DEF NextPosition, S
  <2> QED
    BY <2>4, <2>5, MaxPositionAssumption
<1> QED
  BY <1>1, <1>2

\* A new row stands beside the others.
LEMMA WithRow ==
  ASSUME NEW k, NEW row, rows' = With(k, row)
  PROVE  /\ Listed' = Listed \cup {k}
         /\ rows'[k] = row
         /\ \A j \in Listed : j # k => rows'[j] = rows[j]
BY DEF With, Listed

\* A deleted row leaves the others.
LEMMA WithoutRow ==
  ASSUME NEW k, rows' = Without(k)
  PROVE  /\ Listed' = Listed \ {k}
         /\ \A j \in Listed' : rows'[j] = rows[j]
BY DEF Without, Listed

-----------------------------------------------------------------------------
(* Uploads. *)

\* A fresh key is nobody else's.
LEMMA ReceiveUploadKeeps ==
  ASSUME PhInv, NEW s \in Sessions, ReceiveUpload(s)
  PROVE  PhInv'
<1> USE DEF PhInv, Early, Uploading, Deleting
<1>1. PICK k \in Keys :
        /\ upload[k] = "unused"
        /\ upload' = [upload EXCEPT ![k] = "pending"]
        /\ key' = [key EXCEPT ![s] = k]
  BY DEF ReceiveUpload
<1>2. /\ pc[s] = "idle" /\ pc' = [pc EXCEPT ![s] = "put"]
      /\ UNCHANGED <<rows, objects, removal, draft>>
  BY DEF ReceiveUpload, Goto
<1>3. /\ upload \in [Keys -> {"unused", "pending", "created", "failed"}]
      /\ pc \in [Sessions -> {"idle", "put", "position", "exists", "insert", "commit",
                              "cleanup", "remove", "delete"}]
      /\ key \in [Sessions -> Keys]
  BY DEF TypeOK
<1>4. \A t \in Sessions : pc[t] \in Uploading => key[t] # k
  BY <1>1 DEF TypeOK
<1>5. /\ pc'[s] = "put" /\ key'[s] = k
      /\ \A t \in Sessions : t # s => pc'[t] = pc[t] /\ key'[t] = key[t]
  BY <1>1, <1>2, <1>3
<1>6. TypeOK'
  BY <1>1, <1>2, <1>3, <1>4, <1>5 DEF TypeOK, Listed
<1>7. KeysAreOwned'
  BY <1>4, <1>5 DEF KeysAreOwned
<1>8. UnbornIsNowhere'
  <2>1. Unborn(k)
    BY <1>1 DEF Unborn
  <2>2. ASSUME NEW j \in Keys, Unborn(j)' PROVE Unborn(j)
    BY <1>1, <1>3, <1>5, <2>1, <2>2 DEF Unborn
  <2>3. \A t \in Sessions : pc'[t] \in Deleting => pc[t] \in Deleting /\ key'[t] = key[t]
    BY <1>5
  <2> QED
    BY <1>2, <2>2, <2>3 DEF UnbornIsNowhere, Listed
<1>9. FilesComeFirst' /\ PositionsFit' /\ InsertedIsApart'
  BY <1>2, <1>5 DEF FilesComeFirst, PositionsFit, InsertedIsApart, Collide, Listed
<1>10. CreatedPhotoIsWhole' /\ DeletedPhotoIsGone' /\ AlbumIsOrdered'
  BY <1>1, <1>2, <1>3 DEF CreatedPhotoIsWhole, DeletedPhotoIsGone, AlbumIsOrdered, Listed
<1> QED
  BY <1>6, <1>7, <1>8, <1>9, <1>10

\* What an upload that gives up and removes nobody else's file keeps.
LEMMA FailUploadKeeps ==
  ASSUME PhInv, NEW s \in Sessions, FailUpload(s),
         \/ pc[s] = "put" /\ objects' \in {objects, objects \cup {key[s]}}
         \/ pc[s] = "cleanup" /\ objects' \in {objects, objects \ {key[s]}},
         UNCHANGED <<rows, removal, key, draft>>
  PROVE  PhInv'
<1> USE DEF PhInv, Early, Uploading, Deleting
<1>1. upload' = [upload EXCEPT ![key[s]] = "failed"] /\ pc' = [pc EXCEPT ![s] = "idle"]
  BY DEF FailUpload, Goto
<1>2. /\ upload \in [Keys -> {"unused", "pending", "created", "failed"}]
      /\ pc \in [Sessions -> {"idle", "put", "position", "exists", "insert", "commit",
                              "cleanup", "remove", "delete"}]
      /\ key \in [Sessions -> Keys] /\ key[s] \in Keys /\ upload[key[s]] = "pending"
  BY DEF TypeOK
<1>3. /\ pc'[s] = "idle" /\ upload'[key[s]] = "failed"
      /\ \A t \in Sessions : t # s => pc'[t] = pc[t]
      /\ \A k \in Keys : k # key[s] => upload'[k] = upload[k]
  BY <1>1, <1>2
<1>4. \A t \in Sessions : t # s /\ pc[t] \in Uploading => key[t] # key[s]
  BY DEF KeysAreOwned
<1>5. \A k \in Keys : k # key[s] => (k \in objects' <=> k \in objects)
  OBVIOUS
<1>6. TypeOK'
  BY <1>1, <1>2, <1>3, <1>4 DEF TypeOK, Listed
<1>7. KeysAreOwned'
  BY <1>3 DEF KeysAreOwned
<1>8. UnbornIsNowhere'
  <2>1. ASSUME NEW k \in Keys, Unborn(k)' PROVE Unborn(k)
    BY <1>2, <1>3, <2>1 DEF Unborn
  <2>2. \A t \in Sessions : pc'[t] \in Deleting => pc[t] \in Deleting
    BY <1>3
  <2> QED
    BY <2>1, <2>2 DEF UnbornIsNowhere, Listed
<1>9. FilesComeFirst'
  <2>1. ASSUME NEW t \in Sessions, pc'[t] \in Early \ {"put"} PROVE key[t] \in objects'
    BY <1>3, <1>4, <1>5, <1>2, <2>1 DEF FilesComeFirst
  <2>2. ASSUME NEW t \in Sessions, pc'[t] = "delete" PROVE key[t] \notin objects' /\ removal[key[t]] # "none"
    <3>1. t # s /\ pc[t] = "delete" /\ key[t] \in Keys
      BY <1>2, <1>3, <2>2
    <3>2. CASE key[t] # key[s]
      BY <1>5, <3>1, <3>2 DEF FilesComeFirst
    <3>3. CASE key[t] = key[s]
      <4>1. pc[s] # "put"
        BY <1>2, <3>1, <3>3 DEF UnbornIsNowhere, Unborn
      <4> QED
        BY <3>1, <3>3, <4>1 DEF FilesComeFirst
    <3> QED
      BY <3>2, <3>3
  <2> QED
    BY <2>1, <2>2 DEF FilesComeFirst
<1>10. PositionsFit' /\ InsertedIsApart'
  BY <1>3 DEF PositionsFit, InsertedIsApart, Collide, Listed
<1>11. CreatedPhotoIsWhole'
  BY <1>2, <1>3, <1>5 DEF CreatedPhotoIsWhole, Listed
<1>12. DeletedPhotoIsGone'
  <2>1. SUFFICES ASSUME NEW k \in Keys, removal[k] = "done" PROVE k \notin Listed \cup objects'
    BY DEF DeletedPhotoIsGone, Listed
  <2>2. pc[s] = "put" => k # key[s]
    BY <2>1 DEF UnbornIsNowhere, Unborn
  <2> QED
    BY <1>5, <2>1, <2>2 DEF DeletedPhotoIsGone
<1>13. AlbumIsOrdered'
  BY DEF AlbumIsOrdered, Listed
<1> QED
  BY <1>6, <1>7, <1>8, <1>9, <1>10, <1>11, <1>12, <1>13

\* An upload that goes on keeps its key to itself; its file is in the bucket.
LEMMA ProceedKeeps ==
  ASSUME PhInv, NEW s \in Sessions, pc[s] \in Early,
         NEW step \in (Early \ {"put"}) \cup {"cleanup"}, Goto(s, step),
         objects' \in {objects, objects \cup {key[s]}}, key[s] \in objects',
         NEW d \in Drafts, draft' = [draft EXCEPT ![s] = d],
         step \in {"exists", "insert", "commit"} => d.position <= MaxPosition,
         UNCHANGED <<rows, upload, removal, key>>, InsertedIsApart'
  PROVE  PhInv'
<1> USE DEF PhInv, Early, Uploading, Deleting
<1>1. /\ pc \in [Sessions -> {"idle", "put", "position", "exists", "insert", "commit",
                              "cleanup", "remove", "delete"}]
      /\ key \in [Sessions -> Keys] /\ draft \in [Sessions -> Drafts]
      /\ pc' = [pc EXCEPT ![s] = step]
  BY DEF TypeOK, Goto
<1>2. /\ pc'[s] = step /\ draft'[s] = d
      /\ \A t \in Sessions : t # s => pc'[t] = pc[t] /\ draft'[t] = draft[t]
  BY <1>1
<1>3. TypeOK'
  <2>1. upload[key[s]] = "pending"
    BY DEF TypeOK
  <2>2. \A t \in Sessions : pc'[t] \notin {"idle", "remove", "delete"} => upload[key[t]] = "pending"
    BY <1>2, <2>1 DEF TypeOK
  <2> QED
    BY <1>1, <2>2 DEF TypeOK, Listed
<1>4. KeysAreOwned'
  BY <1>2 DEF KeysAreOwned
<1>5. UnbornIsNowhere'
  <2>1. ASSUME NEW k \in Keys, Unborn(k)' PROVE Unborn(k)
    BY <1>2, <2>1 DEF Unborn
  <2> QED
    BY <1>2, <2>1 DEF UnbornIsNowhere, Listed
<1>6. Unborn(key[s]) /\ key[s] \in Keys
  BY <1>1 DEF Unborn
<1>7. \A k \in Keys : k \in objects' => k \in objects \/ k = key[s]
  OBVIOUS
<1>8. FilesComeFirst'
  <2>1. ASSUME NEW t \in Sessions, pc'[t] \in Early \ {"put"} PROVE key[t] \in objects'
    BY <1>2, <2>1 DEF FilesComeFirst
  <2>2. ASSUME NEW t \in Sessions, pc'[t] = "delete" PROVE key[t] \notin objects' /\ removal[key[t]] # "none"
    BY <1>1, <1>2, <1>6, <1>7, <2>2 DEF FilesComeFirst, UnbornIsNowhere
  <2> QED
    BY <2>1, <2>2 DEF FilesComeFirst
<1>9. PositionsFit'
  BY <1>2 DEF PositionsFit
<1>10. CreatedPhotoIsWhole'
  BY DEF CreatedPhotoIsWhole, Listed
<1>11. DeletedPhotoIsGone'
  BY <1>6, <1>7 DEF DeletedPhotoIsGone, UnbornIsNowhere, Listed
<1>12. AlbumIsOrdered'
  BY DEF AlbumIsOrdered, Listed
<1> QED
  BY <1>3, <1>4, <1>5, <1>8, <1>9, <1>10, <1>11, <1>12

\* A draft that is not inserted yet is compared with nothing.
LEMMA DraftIsApart ==
  ASSUME TypeOK, InsertedIsApart, NEW s \in Sessions,
         NEW step, step # "commit", Goto(s, step), UNCHANGED rows,
         NEW d, draft' = [draft EXCEPT ![s] = d]
  PROVE  InsertedIsApart'
<1>1. \A t \in Sessions : pc'[t] = "commit" => pc[t] = "commit" /\ t # s /\ draft'[t] = draft[t]
  BY DEF Goto, TypeOK
<1> QED
  BY <1>1 DEF InsertedIsApart, Collide, Listed

\* The file goes into the bucket.
LEMMA PutKeeps ==
  ASSUME PhInv, NEW s \in Sessions, Put(s)
  PROVE  PhInv'
<1>1. pc[s] = "put" /\ UNCHANGED <<rows, removal, key, draft>>
  BY DEF Put
<1>2. CASE objects' = objects \cup {key[s]} /\ Goto(s, "position") /\ UNCHANGED upload
  <2>1. PICK d \in Drafts : draft' = [draft EXCEPT ![s] = d]
    BY <1>1 DEF PhInv, TypeOK
  <2>2. InsertedIsApart'
    BY <1>1, <1>2, <2>1, DraftIsApart DEF PhInv
  <2>3. /\ pc[s] \in Early /\ key[s] \in objects'
        /\ objects' \in {objects, objects \cup {key[s]}}
        /\ "position" \in (Early \ {"put"}) \cup {"cleanup"}
        /\ "position" \notin {"exists", "insert", "commit"}
    BY <1>1, <1>2 DEF Early
  <2> QED
    BY <1>1, <1>2, <2>1, <2>2, <2>3, ProceedKeeps
<1>3. CASE objects' \in {objects, objects \cup {key[s]}} /\ FailUpload(s)
  BY <1>1, <1>3, FailUploadKeeps
<1> QED
  BY <1>2, <1>3 DEF Put

\* A failed transaction leaves nothing of itself.
LEMMA AbortCreateKeeps ==
  ASSUME PhInv, NEW s \in Sessions, AbortCreate(s)
  PROVE  PhInv'
<1>1. /\ pc[s] \in {"position", "exists", "insert"} /\ Goto(s, "cleanup")
      /\ UNCHANGED <<rows, objects, upload, removal, key, draft>>
  BY DEF AbortCreate
<1>2. PICK d \in Drafts : draft' = [draft EXCEPT ![s] = d]
  BY <1>1 DEF PhInv, TypeOK
<1>3. InsertedIsApart'
  BY <1>1, <1>2, DraftIsApart DEF PhInv
<1>4. /\ pc[s] \in Early /\ key[s] \in objects'
      /\ "cleanup" \in (Early \ {"put"}) \cup {"cleanup"}
      /\ "cleanup" \notin {"exists", "insert", "commit"}
  BY <1>1 DEF PhInv, FilesComeFirst, Early
<1> QED
  BY <1>1, <1>2, <1>3, <1>4, ProceedKeeps

\* The place found fits the column or ends the upload; neither it nor the look
\* for a first photo is binding before the insertion.
LEMMA SelectsKeep ==
  ASSUME PhInv, NEW s \in Sessions, SelectPosition(s) \/ SelectExists(s)
  PROVE  PhInv'
<1>1. draft \in [Sessions -> Drafts] /\ draft[s] \in Drafts
  BY DEF PhInv, TypeOK
<1>2. key[s] \in objects
  BY DEF PhInv, FilesComeFirst, Early, SelectPosition, SelectExists
<1>3. CASE SelectPosition(s)
  <2> DEFINE d == [draft[s] EXCEPT !.position = NextPosition]
             step == IF PositionFits THEN "exists" ELSE "cleanup"
  <2>1. /\ pc[s] = "position" /\ Goto(s, step)
        /\ UNCHANGED <<rows, objects, upload, removal, key>>
        /\ draft' = [draft EXCEPT ![s].position = NextPosition]
    BY <1>3 DEF SelectPosition
  <2>2. draft' = [draft EXCEPT ![s] = d]
    BY <1>1, <2>1
  <2>3. NextPosition \in 0 .. MaxPosition + 1
    BY NextPositionFree DEF PhInv
  <2>4. d \in Drafts /\ d.position = NextPosition
    BY <1>1, <2>3 DEF Drafts
  <2>5. step \in {"exists", "cleanup"} /\ (step = "exists" => d.position <= MaxPosition)
    BY <2>4 DEF PositionFits
  <2> HIDE DEF d, step
  <2>6. InsertedIsApart'
    BY <2>1, <2>2, <2>5, DraftIsApart DEF PhInv
  <2> QED
    BY <1>2, <2>1, <2>2, <2>4, <2>5, <2>6, ProceedKeeps DEF Early
<1>4. CASE SelectExists(s)
  <2> DEFINE d == [draft[s] EXCEPT !.isMain = (Listed = {})]
  <2>1. /\ pc[s] = "exists" /\ Goto(s, "insert")
        /\ UNCHANGED <<rows, objects, upload, removal, key>>
        /\ draft' = [draft EXCEPT ![s].isMain = (Listed = {})]
    BY <1>4 DEF SelectExists
  <2>2. draft' = [draft EXCEPT ![s] = d]
    BY <1>1, <2>1
  <2>3. draft[s].position \in 0 .. MaxPosition + 1 /\ draft[s].position <= MaxPosition
    BY <1>1, <2>1 DEF PhInv, PositionsFit, Drafts
  <2>4. d \in Drafts /\ d.position = draft[s].position
    BY <1>1 DEF Drafts
  <2> HIDE DEF d
  <2>5. InsertedIsApart'
    BY <2>1, <2>2, DraftIsApart DEF PhInv
  <2> QED
    BY <1>2, <2>1, <2>2, <2>3, <2>4, <2>5, ProceedKeeps DEF Early
<1> QED
  BY <1>3, <1>4

\* An insertion that succeeds collides with nothing committed or inserted.
LEMMA InsertKeeps ==
  ASSUME PhInv, NEW s \in Sessions, Insert(s)
  PROVE  PhInv'
<1>1. /\ pc[s] = "insert"
      /\ \A t \in Sessions : pc[t] = "commit" => ~ Collide(draft[s], draft[t])
      /\ UNCHANGED <<rows, objects, upload, removal, key, draft>>
      /\ \/ Goto(s, "cleanup")
         \/ Goto(s, "commit") /\ \A k \in Listed : ~ Collide(draft[s], rows[k])
  BY DEF Insert
<1>2. draft[s] \in Drafts /\ draft' = [draft EXCEPT ![s] = draft[s]]
  BY <1>1 DEF PhInv, TypeOK
<1>3. key[s] \in objects /\ draft[s].position <= MaxPosition
  BY <1>1 DEF PhInv, FilesComeFirst, PositionsFit, Early
<1>4. CASE Goto(s, "cleanup")
  <2>1. InsertedIsApart'
    BY <1>1, <1>2, <1>4, DraftIsApart DEF PhInv
  <2> QED
    BY <1>1, <1>2, <1>3, <1>4, <2>1, ProceedKeeps DEF Early
<1>5. CASE Goto(s, "commit") /\ \A k \in Listed : ~ Collide(draft[s], rows[k])
  <2>1. pc'[s] = "commit" /\ \A t \in Sessions : t # s => pc'[t] = pc[t]
    BY <1>5 DEF Goto, PhInv, TypeOK
  <2>2. \A a, b : Collide(a, b) => Collide(b, a)
    BY DEF Collide
  <2>3. \A a, b : Collide(a, b)' <=> Collide(a, b)
    BY DEF Collide
  <2>4. ASSUME NEW t \in Sessions, pc'[t] = "commit"
        PROVE  /\ \A k \in Listed : ~ Collide(draft[t], rows[k])
               /\ \A u \in Sessions : pc'[u] = "commit" /\ u # t => ~ Collide(draft[t], draft[u])
    <3>1. CASE t = s
      BY <1>1, <1>5, <2>1, <3>1
    <3>2. CASE t # s
      BY <1>1, <2>1, <2>2, <2>4, <3>2 DEF PhInv, InsertedIsApart
    <3> QED
      BY <3>1, <3>2
  <2>5. InsertedIsApart'
    BY <1>1, <2>4 DEF InsertedIsApart, Collide, Listed
  <2> QED
    BY <1>1, <1>2, <1>3, <1>5, <2>5, ProceedKeeps DEF Early
<1> QED
  BY <1>1, <1>4, <1>5

\* The row appears beside the others, or not; whatever the client is told, its
\* file is there.
LEMMA CommitKeeps ==
  ASSUME PhInv, NEW s \in Sessions, Commit(s)
  PROVE  PhInv'
<1> USE DEF PhInv, Early, Uploading, Deleting
<1> DEFINE k == key[s]
<1>1. /\ pc[s] = "commit" /\ UNCHANGED <<objects, removal, key, draft>>
      /\ \/ /\ rows' = With(k, draft[s])
            /\ upload' = [upload EXCEPT ![k] = "created"] /\ Goto(s, "idle")
         \/ /\ rows' = rows \/ rows' = With(k, draft[s])
            /\ Goto(s, "cleanup") /\ upload' = upload
  BY DEF Commit, Outcome
<1>2. /\ upload \in [Keys -> {"unused", "pending", "created", "failed"}]
      /\ pc \in [Sessions -> {"idle", "put", "position", "exists", "insert", "commit",
                              "cleanup", "remove", "delete"}]
      /\ key \in [Sessions -> Keys] /\ k \in Keys /\ upload[k] = "pending"
      /\ rows \in [Listed -> [position : 0 .. MaxPosition, isMain : BOOLEAN]]
  BY <1>1 DEF TypeOK
<1>3. Unborn(k) /\ k \notin Listed /\ removal[k] = "none" /\ k \in objects
  BY <1>1, <1>2 DEF UnbornIsNowhere, Unborn, FilesComeFirst
<1>4. draft[s] \in [position : 0 .. MaxPosition, isMain : BOOLEAN]
  <2>1. draft[s] \in Drafts /\ draft[s].position <= MaxPosition
    BY <1>1 DEF TypeOK, PositionsFit
  <2> QED
    BY <2>1, MaxPositionAssumption DEF Drafts
<1>5. /\ pc'[s] \in {"idle", "cleanup"}
      /\ \A t \in Sessions : t # s => pc'[t] = pc[t]
      /\ \A j \in Keys : j # k => upload'[j] = upload[j]
      /\ upload'[k] \in {"pending", "created"}
      /\ pc'[s] = "cleanup" => upload'[k] = "pending"
      /\ upload'[k] = "created" => rows' = With(k, draft[s])
      /\ upload' \in [Keys -> {"unused", "pending", "created", "failed"}]
      /\ pc' \in [Sessions -> {"idle", "put", "position", "exists", "insert", "commit",
                               "cleanup", "remove", "delete"}]
  BY <1>1, <1>2 DEF Goto
<1>6. \/ rows' = rows /\ Listed' = Listed
      \/ /\ rows' = With(k, draft[s]) /\ Listed' = Listed \cup {k} /\ rows'[k] = draft[s]
         /\ \A j \in Listed : rows'[j] = rows[j]
  <2>1. CASE rows' = rows
    BY <2>1 DEF Listed
  <2>2. CASE rows' = With(k, draft[s])
    BY <1>3, <2>2, WithRow
  <2> QED
    BY <1>1, <2>1, <2>2
<1>7. TypeOK'
  <2>1. Listed' \subseteq Keys
    BY <1>2, <1>6 DEF TypeOK
  <2>2. rows' \in [Listed' -> [position : 0 .. MaxPosition, isMain : BOOLEAN]]
    <3>1. CASE rows' = rows
      BY <1>2, <3>1 DEF Listed
    <3>2. CASE rows' = With(k, draft[s])
      BY <1>2, <1>4, <3>2 DEF With, Listed
    <3> QED
      BY <1>6, <3>1, <3>2
  <2>3. \A t \in Sessions : pc'[t] \notin {"idle", "remove", "delete"} => upload'[key'[t]] = "pending"
    <3>1. \A t \in Sessions : t # s /\ pc[t] \in Uploading => key[t] # k
      BY <1>1 DEF KeysAreOwned
    <3> QED
      BY <1>1, <1>2, <1>5, <3>1 DEF TypeOK
  <2> QED
    BY <1>1, <1>5, <2>1, <2>2, <2>3 DEF TypeOK
<1>8. KeysAreOwned'
  BY <1>1, <1>5 DEF KeysAreOwned
<1>9. UnbornIsNowhere'
  <2>1. ASSUME NEW j \in Keys, Unborn(j)' PROVE Unborn(j) /\ j # k
    <3>1. \A t \in Sessions : t # s /\ pc[t] \in Early => key[t] # k
      BY <1>1 DEF KeysAreOwned
    <3> QED
      BY <1>1, <1>5, <2>1, <3>1 DEF Unborn
  <2> QED
    BY <1>1, <1>5, <1>6, <2>1 DEF UnbornIsNowhere
<1>10. FilesComeFirst' /\ PositionsFit'
  BY <1>1, <1>5 DEF FilesComeFirst, PositionsFit
<1>11. InsertedIsApart'
  <2>1. \A a, b : Collide(a, b) => Collide(b, a)
    BY DEF Collide
  <2>2. ASSUME NEW t \in Sessions, pc'[t] = "commit"
        PROVE  /\ \A j \in Listed' : ~ Collide(draft[t], rows'[j])
               /\ \A u \in Sessions : pc'[u] = "commit" /\ u # t => ~ Collide(draft[t], draft[u])
    <3>1. t # s /\ pc[t] = "commit"
      BY <1>5, <2>2
    <3>2. ~ Collide(draft[t], draft[s])
      BY <1>1, <3>1 DEF InsertedIsApart
    <3> QED
      BY <1>5, <1>6, <3>1, <3>2 DEF InsertedIsApart
  <2> QED
    BY <1>1, <2>2 DEF InsertedIsApart, Collide
<1>12. CreatedPhotoIsWhole'
  <2>1. Listed \subseteq Listed'
    BY <1>6
  <2>2. upload'[k] = "created" => k \in Listed'
    BY <1>5, <1>3, WithRow
  <2> QED
    BY <1>1, <1>3, <1>5, <2>1, <2>2 DEF CreatedPhotoIsWhole
<1>13. DeletedPhotoIsGone'
  BY <1>1, <1>3, <1>6 DEF DeletedPhotoIsGone
<1>14. AlbumIsOrdered'
  <2>1. \A j \in Listed : ~ Collide(draft[s], rows[j])
    BY <1>1 DEF InsertedIsApart
  <2> QED
    BY <1>3, <1>6, <2>1 DEF AlbumIsOrdered, Collide
<1> QED
  BY <1>7, <1>8, <1>9, <1>10, <1>11, <1>12, <1>13, <1>14

\* The file goes, or stays; the row is not touched.
LEMMA CleanupKeeps ==
  ASSUME PhInv, NEW s \in Sessions, Cleanup(s)
  PROVE  PhInv'
BY FailUploadKeeps DEF Cleanup

-----------------------------------------------------------------------------
(* Deletions. *)

\* What a deletion, which inserts nothing and uploads nothing, leaves alone.
LEMMA DeletionFrame ==
  ASSUME PhInv, NEW s \in Sessions, pc[s] \in {"idle", "remove", "delete"},
         NEW step \in {"idle", "remove", "delete"}, Goto(s, step),
         NEW k \in Keys, key' = [key EXCEPT ![s] = k],
         UNCHANGED <<upload, draft>>, Listed' \subseteq Listed,
         \A j \in Listed' : rows'[j] = rows[j]
  PROVE  /\ KeysAreOwned' /\ PositionsFit' /\ InsertedIsApart' /\ AlbumIsOrdered'
         /\ \A j \in Keys : Unborn(j)' => Unborn(j)
         /\ \A t \in Sessions : pc'[t] \in Uploading =>
              t # s /\ pc'[t] = pc[t] /\ key'[t] = key[t]
         /\ pc'[s] = step /\ key'[s] = k
         /\ \A t \in Sessions : t # s => pc'[t] = pc[t] /\ key'[t] = key[t]
         /\ pc' \in [Sessions -> {"idle", "put", "position", "exists", "insert", "commit",
                                  "cleanup", "remove", "delete"}]
         /\ key' \in [Sessions -> Keys]
<1> USE DEF PhInv, Early, Uploading
<1>1. /\ pc' = [pc EXCEPT ![s] = step]
      /\ pc \in [Sessions -> {"idle", "put", "position", "exists", "insert", "commit",
                              "cleanup", "remove", "delete"}]
      /\ key \in [Sessions -> Keys]
  BY DEF TypeOK, Goto
<1>2. /\ pc'[s] = step /\ key'[s] = k
      /\ \A t \in Sessions : t # s => pc'[t] = pc[t] /\ key'[t] = key[t]
      /\ pc' \in [Sessions -> {"idle", "put", "position", "exists", "insert", "commit",
                               "cleanup", "remove", "delete"}]
      /\ key' \in [Sessions -> Keys]
  BY <1>1
<1>3. \A t \in Sessions : pc'[t] \in Uploading => t # s /\ pc'[t] = pc[t] /\ key'[t] = key[t]
  BY <1>2
<1>4. KeysAreOwned'
  BY <1>3 DEF KeysAreOwned
<1>5. PositionsFit' /\ InsertedIsApart'
  BY <1>3 DEF PositionsFit, InsertedIsApart, Collide
<1>6. AlbumIsOrdered'
  BY DEF AlbumIsOrdered
<1>7. \A j \in Keys : Unborn(j)' => Unborn(j)
  BY <1>3 DEF Unborn
<1> QED
  BY <1>2, <1>3, <1>4, <1>5, <1>6, <1>7

\* A deletion comes across photos that have a row, and only those.
LEMMA GetByIDKeeps ==
  ASSUME PhInv, NEW s \in Sessions, GetByID(s)
  PROVE  PhInv'
<1> USE DEF PhInv, Early, Uploading, Deleting
<1>1. PICK k \in Listed : key' = [key EXCEPT ![s] = k]
  BY DEF GetByID
<1>2. /\ pc[s] = "idle" /\ Goto(s, "remove")
      /\ UNCHANGED <<rows, objects, upload, removal, draft>>
  BY DEF GetByID
<1>3. k \in Keys /\ ~ Unborn(k)
  BY DEF TypeOK, UnbornIsNowhere
<1>4. Listed' = Listed
  BY <1>2 DEF Listed
<1>5. /\ KeysAreOwned' /\ PositionsFit' /\ InsertedIsApart' /\ AlbumIsOrdered'
      /\ \A j \in Keys : Unborn(j)' => Unborn(j)
      /\ \A t \in Sessions : pc'[t] \in Uploading => t # s /\ pc'[t] = pc[t] /\ key'[t] = key[t]
      /\ pc'[s] = "remove" /\ key'[s] = k
      /\ \A t \in Sessions : t # s => pc'[t] = pc[t] /\ key'[t] = key[t]
      /\ pc' \in [Sessions -> {"idle", "put", "position", "exists", "insert", "commit",
                               "cleanup", "remove", "delete"}]
      /\ key' \in [Sessions -> Keys]
  BY <1>1, <1>2, <1>3, <1>4, DeletionFrame
<1>6. TypeOK'
  <2>1. \A t \in Sessions : pc'[t] \notin {"idle", "remove", "delete"} => upload[key'[t]] = "pending"
    BY <1>5 DEF TypeOK
  <2> QED
    BY <1>2, <1>4, <1>5, <2>1 DEF TypeOK
<1>7. UnbornIsNowhere'
  <2>1. ASSUME NEW j \in Keys, Unborn(j)', NEW t \in Sessions, pc'[t] \in Deleting
        PROVE  key'[t] # j
    <3>1. Unborn(j)
      BY <1>5, <2>1
    <3>2. CASE t = s
      BY <1>3, <1>5, <3>1, <3>2
    <3>3. CASE t # s
      BY <1>5, <2>1, <3>1, <3>3 DEF UnbornIsNowhere
    <3> QED
      BY <3>2, <3>3
  <2> QED
    BY <1>2, <1>4, <1>5, <2>1 DEF UnbornIsNowhere
<1>8. FilesComeFirst'
  BY <1>2, <1>5 DEF FilesComeFirst
<1>9. CreatedPhotoIsWhole' /\ DeletedPhotoIsGone'
  BY <1>2, <1>4 DEF CreatedPhotoIsWhole, DeletedPhotoIsGone
<1> QED
  BY <1>5, <1>6, <1>7, <1>8, <1>9

\* The file of a photo that nobody is uploading goes; the row is next only if
\* the file is gone.
LEMMA RemoveObjectKeeps ==
  ASSUME PhInv, NEW s \in Sessions, RemoveObject(s)
  PROVE  PhInv'
<1> USE DEF PhInv, Early, Uploading, Deleting
<1> DEFINE k == key[s]
<1>1. /\ pc[s] = "remove"
      /\ removal' = [removal EXCEPT ![k] = IF @ = "none" THEN "started" ELSE @]
      /\ UNCHANGED <<rows, upload, key, draft>>
      /\ \/ objects' = objects \ {k} /\ Goto(s, "delete")
         \/ objects' \in {objects, objects \ {k}} /\ Goto(s, "idle")
  BY DEF RemoveObject, Removal
<1>2. /\ key \in [Sessions -> Keys] /\ k \in Keys /\ key' = [key EXCEPT ![s] = k]
      /\ removal \in [Keys -> {"none", "started", "done"}]
  BY <1>1 DEF TypeOK
<1>3. ~ Unborn(k)
  BY <1>1, <1>2 DEF UnbornIsNowhere
<1>4. /\ removal'[k] # "none" /\ \A j \in Keys : j # k => removal'[j] = removal[j]
      /\ removal'[k] = "done" => removal[k] = "done"
      /\ removal' \in [Keys -> {"none", "started", "done"}]
  BY <1>1, <1>2
<1>5. Listed' = Listed
  BY <1>1 DEF Listed
<1>6. PICK step \in {"idle", "delete"} : Goto(s, step) /\ (step = "delete" => k \notin objects')
  BY <1>1
<1>7. /\ KeysAreOwned' /\ PositionsFit' /\ InsertedIsApart' /\ AlbumIsOrdered'
      /\ \A j \in Keys : Unborn(j)' => Unborn(j)
      /\ \A t \in Sessions : pc'[t] \in Uploading => t # s /\ pc'[t] = pc[t] /\ key'[t] = key[t]
      /\ pc'[s] = step
      /\ \A t \in Sessions : t # s => pc'[t] = pc[t] /\ key'[t] = key[t]
      /\ pc' \in [Sessions -> {"idle", "put", "position", "exists", "insert", "commit",
                               "cleanup", "remove", "delete"}]
  BY <1>1, <1>2, <1>5, <1>6, DeletionFrame
<1>8. objects' \subseteq objects /\ \A j \in Keys : j # k => (j \in objects' <=> j \in objects)
  BY <1>1
<1>9. TypeOK'
  <2>1. \A t \in Sessions : pc'[t] \notin {"idle", "remove", "delete"} => upload[key[t]] = "pending"
    BY <1>7 DEF TypeOK
  <2> QED
    BY <1>1, <1>4, <1>5, <1>7, <1>8, <2>1 DEF TypeOK
<1>10. UnbornIsNowhere'
  <2>1. ASSUME NEW j \in Keys, Unborn(j)' PROVE Unborn(j) /\ j # k
    BY <1>3, <1>7, <2>1
  <2>2. \A t \in Sessions : pc'[t] \in Deleting => pc[t] \in Deleting
    BY <1>1, <1>7
  <2> QED
    BY <1>1, <1>4, <1>5, <2>1, <2>2 DEF UnbornIsNowhere
<1>11. FilesComeFirst'
  <2>1. ASSUME NEW t \in Sessions, pc'[t] \in Early \ {"put"} PROVE key[t] \in objects'
    <3>1. t # s /\ pc[t] = pc'[t] /\ key[t] \in Keys
      BY <1>2, <1>7, <2>1
    <3>2. key[t] # k
      BY <1>3, <2>1, <3>1 DEF Unborn
    <3> QED
      BY <1>8, <2>1, <3>1, <3>2 DEF FilesComeFirst
  <2>2. ASSUME NEW t \in Sessions, pc'[t] = "delete" PROVE key[t] \notin objects' /\ removal'[key[t]] # "none"
    <3>1. CASE t = s
      BY <1>4, <1>6, <1>7, <2>2, <3>1
    <3>2. CASE t # s
      <4>1. key[t] \in Keys /\ key[t] \notin objects /\ removal[key[t]] # "none"
        BY <1>2, <1>7, <2>2, <3>2 DEF FilesComeFirst
      <4> QED
        BY <1>4, <1>8, <4>1
    <3> QED
      BY <3>1, <3>2
  <2> QED
    BY <1>1, <2>1, <2>2 DEF FilesComeFirst
<1>12. CreatedPhotoIsWhole'
  BY <1>1, <1>4, <1>5, <1>8 DEF CreatedPhotoIsWhole
<1>13. DeletedPhotoIsGone'
  BY <1>4, <1>5, <1>8 DEF DeletedPhotoIsGone
<1> QED
  BY <1>7, <1>9, <1>10, <1>11, <1>12, <1>13

\* The row goes after the file.
LEMMA DeleteRowKeeps ==
  ASSUME PhInv, NEW s \in Sessions, DeleteRow(s)
  PROVE  /\ PhInv'
         /\ \A k \in Keys : k \in Listed /\ k \notin Listed' => k \notin objects
<1> USE DEF PhInv, Early, Uploading, Deleting
<1> DEFINE k == key[s]
<1>1. /\ pc[s] = "delete" /\ Goto(s, "idle")
      /\ UNCHANGED <<objects, upload, key, draft>>
      /\ \/ /\ rows' = Without(k)
            /\ removal' = [removal EXCEPT ![k] = IF k \in Listed THEN "done" ELSE @]
         \/ (rows' = rows \/ rows' = Without(k)) /\ removal' = removal
  BY DEF DeleteRow
<1>2. /\ key \in [Sessions -> Keys] /\ k \in Keys /\ key' = [key EXCEPT ![s] = k]
      /\ removal \in [Keys -> {"none", "started", "done"}]
      /\ rows \in [Listed -> [position : 0 .. MaxPosition, isMain : BOOLEAN]]
  BY <1>1 DEF TypeOK
<1>3. k \notin objects /\ removal[k] # "none" /\ ~ Unborn(k)
  BY <1>1, <1>2 DEF FilesComeFirst, UnbornIsNowhere
<1>4. /\ Listed' = Listed \/ Listed' = Listed \ {k}
      /\ \A j \in Listed' : rows'[j] = rows[j]
      /\ rows' = Without(k) => Listed' = Listed \ {k}
  <2>1. CASE rows' = rows
    <3>1. rows' = Without(k) => Listed' = Listed \ {k}
      BY WithoutRow
    <3> QED
      BY <2>1, <3>1 DEF Listed
  <2>2. CASE rows' = Without(k)
    BY <2>2, WithoutRow
  <2> QED
    BY <1>1, <2>1, <2>2
<1>5. /\ \A j \in Keys : j # k => removal'[j] = removal[j]
      /\ removal' \in [Keys -> {"none", "started", "done"}] /\ removal'[k] # "none"
      /\ removal'[k] = "done" => removal[k] = "done" \/ k \notin Listed'
  BY <1>1, <1>2, <1>3, <1>4
<1>6. /\ KeysAreOwned' /\ PositionsFit' /\ InsertedIsApart' /\ AlbumIsOrdered'
      /\ \A j \in Keys : Unborn(j)' => Unborn(j)
      /\ \A t \in Sessions : pc'[t] \in Uploading => t # s /\ pc'[t] = pc[t] /\ key'[t] = key[t]
      /\ pc'[s] = "idle"
      /\ \A t \in Sessions : t # s => pc'[t] = pc[t] /\ key'[t] = key[t]
      /\ pc' \in [Sessions -> {"idle", "put", "position", "exists", "insert", "commit",
                               "cleanup", "remove", "delete"}]
  BY <1>1, <1>2, <1>4, DeletionFrame
<1>7. TypeOK'
  <2>1. rows' \in [Listed' -> [position : 0 .. MaxPosition, isMain : BOOLEAN]]
    <3>1. CASE rows' = rows
      BY <1>2, <3>1 DEF Listed
    <3>2. CASE rows' = Without(k)
      BY <1>2, <3>2 DEF Without, Listed
    <3> QED
      BY <1>1, <3>1, <3>2
  <2>2. \A t \in Sessions : pc'[t] \notin {"idle", "remove", "delete"} => upload[key[t]] = "pending"
    BY <1>6 DEF TypeOK
  <2>3. Listed' \subseteq Keys
    BY <1>4 DEF TypeOK
  <2> QED
    BY <1>1, <1>5, <1>6, <2>1, <2>2, <2>3 DEF TypeOK
<1>8. UnbornIsNowhere'
  <2>1. ASSUME NEW j \in Keys, Unborn(j)' PROVE Unborn(j) /\ j # k
    BY <1>3, <1>6, <2>1
  <2>2. \A t \in Sessions : pc'[t] \in Deleting => pc[t] \in Deleting
    BY <1>1, <1>6
  <2> QED
    BY <1>1, <1>4, <1>5, <2>1, <2>2 DEF UnbornIsNowhere
<1>9. FilesComeFirst'
  <2>1. ASSUME NEW t \in Sessions, pc'[t] \in Early \ {"put"} PROVE key[t] \in objects
    BY <1>6, <2>1 DEF FilesComeFirst
  <2>2. ASSUME NEW t \in Sessions, pc'[t] = "delete" PROVE key[t] \notin objects /\ removal'[key[t]] # "none"
    <3>1. key[t] \in Keys /\ key[t] \notin objects /\ removal[key[t]] # "none"
      BY <1>2, <1>6, <2>2 DEF FilesComeFirst
    <3> QED
      BY <1>5, <3>1
  <2> QED
    BY <1>1, <2>1, <2>2 DEF FilesComeFirst
<1>10. CreatedPhotoIsWhole'
  BY <1>1, <1>4, <1>5 DEF CreatedPhotoIsWhole
<1>11. DeletedPhotoIsGone'
  BY <1>1, <1>3, <1>4, <1>5 DEF DeletedPhotoIsGone
<1>12. \A j \in Keys : j \in Listed /\ j \notin Listed' => j \notin objects
  BY <1>3, <1>4
<1> QED
  BY <1>6, <1>7, <1>8, <1>9, <1>10, <1>11, <1>12

\* A crash ends every request where it is.
LEMMA CrashKeeps ==
  ASSUME PhInv, Crash
  PROVE  PhInv'
<1> USE DEF PhInv, Early, Uploading, Deleting
<1>1. /\ \A s \in Sessions : pc'[s] = "idle"
      /\ pc' \in [Sessions -> {"idle"}]
      /\ upload' = [k \in Keys |-> IF upload[k] = "pending" THEN "failed" ELSE upload[k]]
      /\ UNCHANGED <<rows, objects, removal, key, draft>>
  BY DEF Crash
<1>2. /\ upload' \in [Keys -> {"unused", "pending", "created", "failed"}]
      /\ \A k \in Keys : upload'[k] = "unused" => upload[k] = "unused"
      /\ \A k \in Keys : upload'[k] = "created" => upload[k] = "created"
  BY <1>1 DEF TypeOK
<1>3. TypeOK'
  BY <1>1, <1>2 DEF TypeOK, Listed
<1>4. KeysAreOwned' /\ FilesComeFirst' /\ PositionsFit' /\ InsertedIsApart'
  BY <1>1 DEF KeysAreOwned, FilesComeFirst, PositionsFit, InsertedIsApart
<1>5. UnbornIsNowhere'
  <2>1. \A k \in Keys : Unborn(k)' => Unborn(k)
    BY <1>1, <1>2 DEF Unborn
  <2> QED
    BY <1>1, <2>1 DEF UnbornIsNowhere, Listed
<1>6. CreatedPhotoIsWhole' /\ DeletedPhotoIsGone' /\ AlbumIsOrdered'
  BY <1>1, <1>2 DEF CreatedPhotoIsWhole, DeletedPhotoIsGone, AlbumIsOrdered, Listed
<1> QED
  BY <1>3, <1>4, <1>5, <1>6

-----------------------------------------------------------------------------

\* An album starts empty.
LEMMA InitPhInv == Init => PhInv
<1> SUFFICES ASSUME Init PROVE PhInv
  OBVIOUS
<1> USE DEF Init
<1>1. Listed = {}
  BY DEF Listed, NoRows
<1>2. \A s \in Sessions : pc[s] = "idle"
  OBVIOUS
<1>3. TypeOK
  <2>1. rows \in [Listed -> [position : 0 .. MaxPosition, isMain : BOOLEAN]]
    BY DEF Listed, NoRows
  <2>2. draft \in [Sessions -> Drafts]
    BY MaxPositionAssumption DEF Drafts
  <2> QED
    BY <1>1, <2>1, <2>2 DEF TypeOK
<1>4. KeysAreOwned /\ UnbornIsNowhere /\ FilesComeFirst /\ PositionsFit /\ InsertedIsApart
  BY <1>1, <1>2 DEF KeysAreOwned, UnbornIsNowhere, FilesComeFirst, PositionsFit,
                    InsertedIsApart, Early, Uploading, Deleting
<1>5. CreatedPhotoIsWhole /\ DeletedPhotoIsGone /\ AlbumIsOrdered
  BY <1>1 DEF CreatedPhotoIsWhole, DeletedPhotoIsGone, AlbumIsOrdered
<1> QED
  BY <1>3, <1>4, <1>5 DEF PhInv

\* Every step keeps the invariant, and loses no row before its file.
LEMMA StepKeeps ==
  ASSUME PhInv, [Next]_vars
  PROVE  /\ PhInv'
         /\ \A k \in Keys : k \in Listed /\ k \notin Listed' => k \notin objects
<1>1. ASSUME NEW s \in Sessions, DeleteRow(s)
      PROVE  PhInv' /\ \A k \in Keys : k \in Listed /\ k \notin Listed' => k \notin objects
  BY <1>1, DeleteRowKeeps
<1>2. ASSUME NEW s \in Sessions, Upload(s) \/ GetByID(s) \/ RemoveObject(s)
      PROVE  PhInv' /\ Listed \subseteq Listed'
  <2>1. CASE Upload(s) /\ ~ Commit(s)
    <3>1. rows' = rows
      BY <2>1 DEF Upload, ReceiveUpload, Put, SelectPosition, SelectExists, Insert,
                  AbortCreate, Cleanup
    <3>2. PhInv'
      BY <2>1, ReceiveUploadKeeps, PutKeeps, SelectsKeep, InsertKeeps, AbortCreateKeeps,
         CleanupKeeps DEF Upload
    <3> QED
      BY <3>1, <3>2 DEF Listed
  <2>2. CASE Commit(s)
    <3>1. rows' = rows \/ rows' = With(key[s], draft[s])
      BY <2>2 DEF Commit, Outcome
    <3> QED
      BY <2>2, <3>1, CommitKeeps, WithRow DEF Listed
  <2>3. CASE GetByID(s) \/ RemoveObject(s)
    BY <2>3, GetByIDKeeps, RemoveObjectKeeps DEF GetByID, RemoveObject, Listed
  <2> QED
    BY <1>2, <2>1, <2>2, <2>3
<1>3. CASE Crash
  BY <1>3, CrashKeeps DEF Crash, Listed
<1>4. CASE UNCHANGED vars
  <2>1. UNCHANGED <<rows, objects, upload, removal, pc, key, draft>>
    BY <1>4 DEF vars
  <2>2. \A k : Unborn(k)' <=> Unborn(k)
    BY <2>1 DEF Unborn
  <2>3. TypeOK'
    BY <2>1 DEF PhInv, TypeOK, Listed
  <2>4. KeysAreOwned' /\ UnbornIsNowhere' /\ FilesComeFirst' /\ PositionsFit' /\ InsertedIsApart'
    BY <2>1, <2>2 DEF PhInv, KeysAreOwned, UnbornIsNowhere, FilesComeFirst, PositionsFit,
                      InsertedIsApart, Collide, Listed
  <2>5. CreatedPhotoIsWhole' /\ DeletedPhotoIsGone' /\ AlbumIsOrdered'
    BY <2>1 DEF PhInv, CreatedPhotoIsWhole, DeletedPhotoIsGone, AlbumIsOrdered, Listed
  <2> QED
    BY <2>1, <2>3, <2>4, <2>5 DEF PhInv, Listed
<1> QED
  BY <1>1, <1>2, <1>3, <1>4 DEF Next, Delete

\* The invariant holds however requests interleave, fail and crash.
THEOREM PhotosInvariant == Spec => []PhInv
<1>1. PhInv /\ [Next]_vars => PhInv'
  BY StepKeeps
<1> QED
  BY InitPhInv, <1>1, PTL DEF Spec

\* Positions and states keep to their ranges, a SMALLINT included.
THEOREM PhotosTypes == Spec => []TypeOK
<1>1. PhInv => TypeOK
  BY DEF PhInv
<1> QED
  BY <1>1, PhotosInvariant, PTL

\* A photo that was answered with 201 has row and file until it is deleted.
THEOREM CreatedPhotosAreWhole == Spec => []CreatedPhotoIsWhole
<1>1. PhInv => CreatedPhotoIsWhole
  BY DEF PhInv
<1> QED
  BY <1>1, PhotosInvariant, PTL

\* A photo whose deletion was answered with 204 never comes back.
THEOREM DeletedPhotosStayGone == Spec => []DeletedPhotoIsGone
<1>1. PhInv => DeletedPhotoIsGone
  BY DEF PhInv
<1> QED
  BY <1>1, PhotosInvariant, PTL

\* No album has two main photos or two photos at one place.
THEOREM AlbumsAreOrdered == Spec => []AlbumIsOrdered
<1>1. PhInv => AlbumIsOrdered
  BY DEF PhInv
<1> QED
  BY <1>1, PhotosInvariant, PTL

\* No step leaves a file behind a row that it takes away.
THEOREM FilesNeverOutliveRows == Spec => FileNeverOutlivesRow
<1>1. PhInv /\ [Next]_vars =>
        [\A k \in Keys : k \in Listed /\ k \notin Listed' => k \notin objects]_vars
  BY StepKeeps
<1> QED
  BY <1>1, PhotosInvariant, PTL DEF Spec, FileNeverOutlivesRow
=============================================================================
