------------------------------- MODULE Photos -------------------------------
(***************************************************************************)
(* One user's photo album: metadata rows in Postgres and files in the      *)
(* object store, two systems that no transaction spans (service/photo.go,  *)
(* repository/photo_repository.go, objectstorage/minio.go).  Several       *)
(* requests of the user run at once, statement by statement at READ        *)
(* COMMITTED; every remote call may fail before or after it has taken      *)
(* effect, and the process may crash.                                      *)
(*                                                                         *)
(* A photo is named by its object key, which randomPhotoKey never repeats. *)
(***************************************************************************)
EXTENDS Integers, FiniteSetsExt

CONSTANTS
  Keys,        \* the photos ever uploaded
  Sessions,    \* requests running at once
  MaxPosition  \* the largest SMALLINT

ASSUME MaxPositionAssumption == MaxPosition \in Nat

VARIABLES
  rows,     \* user_photos: key -> position and is_main, as committed
  objects,  \* the keys in the bucket
  upload,   \* key -> unused, pending, created (201) or failed
  removal,  \* key -> none, started (the object may be gone) or done (204)
  pc,       \* the next step of each request, idle when there is none
  key,      \* the photo each request is about
  draft     \* the row each upload is about to insert, or has inserted

vars == <<rows, objects, upload, removal, pc, key, draft>>

Drafts == [position : 0 .. MaxPosition + 1, isMain : BOOLEAN]

Listed == DOMAIN rows

NoRows == [k \in {} |-> [position |-> 0, isMain |-> FALSE]]

With(k, row) == [j \in Listed \cup {k} |-> IF j = k THEN row ELSE rows[j]]

Without(k) == [j \in Listed \ {k} |-> rows[j]]

-----------------------------------------------------------------------------

Init ==
  /\ rows = NoRows /\ objects = {}
  /\ upload = [k \in Keys |-> "unused"]
  /\ removal = [k \in Keys |-> "none"]
  /\ pc = [s \in Sessions |-> "idle"]
  /\ key \in [Sessions -> Keys]
  /\ draft = [s \in Sessions |-> [position |-> 0, isMain |-> FALSE]]

Goto(s, step) == pc' = [pc EXCEPT ![s] = step]

(* Upload. *)

\* A valid file arrives and gets a fresh key.
ReceiveUpload(s) ==
  /\ pc[s] = "idle"
  /\ \E k \in Keys :
       /\ upload[k] = "unused"
       /\ upload' = [upload EXCEPT ![k] = "pending"]
       /\ key' = [key EXCEPT ![s] = k]
  /\ Goto(s, "put")
  /\ UNCHANGED <<rows, objects, removal, draft>>

FailUpload(s) ==
  /\ upload' = [upload EXCEPT ![key[s]] = "failed"]
  /\ Goto(s, "idle")

\* storage.Put; when it fails, what it may have stored is left there.
Put(s) ==
  /\ pc[s] = "put"
  /\ \/ /\ objects' = objects \cup {key[s]}
        /\ Goto(s, "position") /\ UNCHANGED upload
     \/ /\ objects' \in {objects, objects \cup {key[s]}}
        /\ FailUpload(s)
  /\ UNCHANGED <<rows, removal, key, draft>>

\* repository.Create fails: its transaction is rolled back.
AbortCreate(s) ==
  /\ pc[s] \in {"position", "exists", "insert"}
  /\ Goto(s, "cleanup")
  /\ UNCHANGED <<rows, objects, upload, removal, key, draft>>

\* COALESCE(MAX(position), -1) + 1.
NextPosition ==
  IF Listed = {} THEN 0 ELSE Max({rows[k].position : k \in Listed}) + 1

\* Mutant: the position is read into a wider type than the column has.
AnyPosition == TRUE

\* Scan into an int16.
PositionFits == NextPosition <= MaxPosition

SelectPosition(s) ==
  /\ pc[s] = "position"
  /\ draft' = [draft EXCEPT ![s].position = NextPosition]
  /\ Goto(s, IF PositionFits THEN "exists" ELSE "cleanup")
  /\ UNCHANGED <<rows, objects, upload, removal, key>>

\* The second statement of the transaction has a snapshot of its own.
SelectExists(s) ==
  /\ pc[s] = "exists"
  /\ draft' = [draft EXCEPT ![s].isMain = (Listed = {})]
  /\ Goto(s, "insert")
  /\ UNCHANGED <<rows, objects, upload, removal, key>>

\* Mutant: the index of main photos is not there.
CollideInPosition(a, b) == a.position = b.position

\* user_photos_user_position_unique and user_photos_one_main_uq.
Collide(a, b) == a.position = b.position \/ (a.isMain /\ b.isMain)

\* The insertion waits for an open transaction that has inserted a colliding
\* row, and is an error when such a row is committed.
Insert(s) ==
  /\ pc[s] = "insert"
  /\ \A t \in Sessions : pc[t] = "commit" => ~ Collide(draft[s], draft[t])
  /\ Goto(s, IF \E k \in Listed : Collide(draft[s], rows[k]) THEN "cleanup" ELSE "commit")
  /\ UNCHANGED <<rows, objects, upload, removal, key, draft>>

\* Mutant: the error of Commit is not looked at.
AnswerAnyway(s) ==
  /\ rows' \in {rows, With(key[s], draft[s])}
  /\ upload' = [upload EXCEPT ![key[s]] = "created"] /\ Goto(s, "idle")

\* COMMIT may fail, and may be an error to the client though it took effect.
Outcome(s) ==
  \/ /\ rows' = With(key[s], draft[s])
     /\ upload' = [upload EXCEPT ![key[s]] = "created"] /\ Goto(s, "idle")
  \/ /\ rows' \in {rows, With(key[s], draft[s])}
     /\ Goto(s, "cleanup") /\ UNCHANGED upload

Commit(s) ==
  /\ pc[s] = "commit"
  /\ Outcome(s)
  /\ UNCHANGED <<objects, removal, key, draft>>

\* The object is removed again, with the context of the request: a cancelled
\* request leaves it where it is.
Cleanup(s) ==
  /\ pc[s] = "cleanup"
  /\ objects' \in {objects, objects \ {key[s]}}
  /\ FailUpload(s)
  /\ UNCHANGED <<rows, removal, key, draft>>

-----------------------------------------------------------------------------
(* Delete. *)

\* GetByID: a photo that is not there is answered with 404.
GetByID(s) ==
  /\ pc[s] = "idle"
  /\ \E k \in Listed : key' = [key EXCEPT ![s] = k]
  /\ Goto(s, "remove")
  /\ UNCHANGED <<rows, objects, upload, removal, draft>>

\* Mutant: an error of the object store is only logged.
RemovalLogged(s) == objects' \in {objects, objects \ {key[s]}} /\ Goto(s, "delete")

\* storage.Delete: removing an object that is not there succeeds; an error ends
\* the request.
Removal(s) ==
  \/ objects' = objects \ {key[s]} /\ Goto(s, "delete")
  \/ objects' \in {objects, objects \ {key[s]}} /\ Goto(s, "idle")

RemoveObject(s) ==
  /\ pc[s] = "remove"
  /\ Removal(s)
  /\ removal' = [removal EXCEPT ![key[s]] = IF @ = "none" THEN "started" ELSE @]
  /\ UNCHANGED <<rows, upload, key, draft>>

\* repository.Delete; a row that is not there is answered with 404.
DeleteRow(s) ==
  /\ pc[s] = "delete"
  /\ \/ /\ rows' = Without(key[s])
        /\ removal' = [removal EXCEPT ![key[s]] = IF key[s] \in Listed THEN "done" ELSE @]
     \/ /\ rows' \in {rows, Without(key[s])}
        /\ UNCHANGED removal
  /\ Goto(s, "idle")
  /\ UNCHANGED <<objects, upload, key, draft>>

\* The process dies: every request ends without an answer.
Crash ==
  /\ pc' = [s \in Sessions |-> "idle"]
  /\ upload' = [k \in Keys |-> IF upload[k] = "pending" THEN "failed" ELSE upload[k]]
  /\ UNCHANGED <<rows, objects, removal, key, draft>>

-----------------------------------------------------------------------------

Upload(s) ==
  \/ ReceiveUpload(s) \/ Put(s) \/ SelectPosition(s) \/ SelectExists(s)
  \/ Insert(s) \/ Commit(s) \/ AbortCreate(s) \/ Cleanup(s)

Delete(s) == GetByID(s) \/ RemoveObject(s) \/ DeleteRow(s)

Next == (\E s \in Sessions : Upload(s) \/ Delete(s)) \/ Crash

Spec == Init /\ [][Next]_vars

-----------------------------------------------------------------------------

TypeOK ==
  /\ Listed \subseteq Keys /\ rows \in [Listed -> [position : 0 .. MaxPosition, isMain : BOOLEAN]]
  /\ objects \subseteq Keys
  /\ upload \in [Keys -> {"unused", "pending", "created", "failed"}]
  /\ removal \in [Keys -> {"none", "started", "done"}]
  /\ pc \in [Sessions -> {"idle", "put", "position", "exists", "insert", "commit",
                          "cleanup", "remove", "delete"}]
  /\ key \in [Sessions -> Keys]
  /\ draft \in [Sessions -> Drafts]
  /\ \A s \in Sessions : pc[s] \notin {"idle", "remove", "delete"} => upload[key[s]] = "pending"

\* A photo whose upload was answered with success has its row and its file, in
\* two systems, until a deletion of it has begun: no cleanup, crash or other
\* request takes either away (PhotoService.Upload).
CreatedPhotoIsWhole ==
  \A k \in Keys : upload[k] = "created" /\ removal[k] = "none" => k \in Listed \cap objects

\* A photo whose deletion was answered with success has neither, for good.
DeletedPhotoIsGone == \A k \in Keys : removal[k] = "done" => k \notin Listed \cup objects

\* A row never goes before its file does, so no deletion, whatever fails in it
\* or runs beside it, leaves a file that nothing refers to (PhotoService.Delete).
FileNeverOutlivesRow ==
  [][\A k \in Keys : k \in Listed /\ k \notin Listed' => k \notin objects]_vars

\* However uploads and deletions interleave between the three statements of
\* Create, no album has two main photos or two at one place.
AlbumIsOrdered ==
  \A j, k \in Listed : j # k => rows[j].position # rows[k].position /\ ~ (rows[j].isMain /\ rows[k].isMain)

=============================================================================
