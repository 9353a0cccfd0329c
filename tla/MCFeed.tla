------------------------------- MODULE MCFeed -------------------------------
(***************************************************************************)
(* Feed on a small instance: seven rows, pages of two, batches of six.     *)
(* The walk starts from the worlds that matter to its list.  In the feed   *)
(* every row is beside the viewer, in a corner of the rectangle outside    *)
(* the circle, on the other side of the last longitude or not there yet;   *)
(* in the other lists all rows are there.  Everything else comes about by  *)
(* the changes.                                                            *)
(***************************************************************************)
EXTENDS Feed

CONSTANT Kind  \* the kind of the profiles at the start

\* Beside the viewer, at the edge of the rectangle, behind the last longitude.
MCPlaces == {HalfTurn, HalfTurn - SearchRadius, -HalfTurn}

At(place) == [kind |-> Kind, at |-> place, active |-> TRUE]

Corner(S) == [c \in Rows |-> At(IF c \in S THEN HalfTurn - SearchRadius ELSE HalfTurn)]

\* The page gets its last row from the second batch, or meets a new row.
Eventful == {Corner(2 .. 6), [Corner(1 .. 3) EXCEPT ![4] = NoProfile, ![5] = At(-HalfTurn)]}

\* No corner; a page that ends with its batch; a batch of which nothing is shown.
Calm == {Corner({}), Corner(2 .. 5), Corner(1 .. 6)}

MCInit ==
  /\ list \in {"feed", "likes", "chats"}
  /\ profile \in IF list = "feed" THEN Eventful \cup Calm ELSE {Corner({})}
  /\ changes = IF profile \in Calm /\ list = "feed" THEN MaxChanges - 1 ELSE 0
  /\ viewer = HalfTurn /\ filters = [kinds |-> {Kind}, distance |-> Min(Distances)]
  /\ liked = (IF list = "feed" THEN {} ELSE Rows) /\ likedBy = liked
  /\ chat = [c \in Rows |-> IF c \in liked THEN "open" ELSE "none"]
  /\ bans = {} /\ permanent = {}
  /\ pc = "idle" /\ req = Idle /\ cursor = NoCursor /\ got = <<>>
  /\ owed = {c \in Rows : Belongs(c)} /\ admitted = {}

MCSpec == MCInit /\ [][Next]_vars /\ Fairness

=============================================================================
