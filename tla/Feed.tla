-------------------------------- MODULE Feed --------------------------------
(***************************************************************************)
(* The three lists a user pages through: the feed of candidates, the       *)
(* incoming likes and the chats (GetFeed and GetIncomingLikes of service/  *)
(* ribbon.go, List of service/chat.go, and their queries).  Every query    *)
(* sees its own snapshot of the tables, and profiles, likes, exclusions    *)
(* and preferences are changed by other requests between two queries.      *)
(*                                                                         *)
(* A row is known by its number, which orders it: the id of the profile in *)
(* the feed and in the likes, the id of the chat in the list of chats; one *)
(* number for both loses nothing, since a walk reads one list and a row    *)
(* may appear at any time, after rows with larger numbers.  The earth is a *)
(* parallel: places are whole degrees of longitude, which meet again       *)
(* behind the last one.  Age, city, gender and verification are one        *)
(* attribute, the kind of a profile.                                       *)
(***************************************************************************)
EXTENDS Integers, FiniteSets, SequencesExt, NumberSets

CONSTANTS
  Rows,          \* the numbers of the other users' rows
  Kinds,         \* what the attribute filters can tell apart
  HalfTurn,      \* the largest longitude (180)
  Places,        \* the longitudes where profiles are
  SearchRadius,  \* preliminarySearchRadiusKM
  Distances,     \* max_distance_km of the preferences
  Limit,         \* the page size
  NoProfile, Nowhere, NoFilters, NoCursor,  \* what is not there
  MaxChanges     \* bounds the requests that change what the lists show

ASSUME RowsAssumption == Rows \subseteq Nat \ {0} /\ IsFiniteSet(Rows)
ASSUME PlacesAssumption == HalfTurn \in Nat /\ Places \subseteq -HalfTurn .. HalfTurn
ASSUME LimitAssumption == Limit \in Nat \ {0}
ASSUME CursorAssumption == NoCursor \notin Rows
ASSUME ChangesAssumption == MaxChanges \in Nat
ASSUME RadiusAssumption == SearchRadius \in Nat \ {0} /\ Distances \subseteq Nat \ {0}

VARIABLES
  profile,   \* row -> its profile, NoProfile before the first save
  viewer,    \* where the viewer is, Nowhere without coordinates
  filters,   \* the viewer's preferences, NoFilters before the first save
  liked,     \* whom the viewer has liked
  likedBy,   \* who has liked the viewer
  bans,      \* exclusions between the viewer and others, by author
  permanent, \* those that are blocks (is_permanent_ban)
  chat,      \* row -> none, open or closed
  changes,   \* how many requests have changed any of these
  list,      \* the list that is paged through: feed, likes or chats
  pc,        \* idle, profile, scan or done
  req,       \* what the GetFeed under way has read
  cursor,    \* next_cursor of the last page
  got,       \* the rows on the pages so far
  owed,      \* history: rows that belonged to the list all through the walk
  admitted   \* history: rows the request under way was allowed to show

world == <<profile, viewer, filters, liked, likedBy, bans, permanent, chat>>
walk == <<list, pc, req, cursor, got>>
vars == <<world, changes, walk, owed, admitted>>

Profiles == [kind : Kinds, at : Places \cup {Nowhere}, active : BOOLEAN]
Filters == [kinds : SUBSET Kinds, distance : Distances]
Idle == [filters |-> NoFilters, at |-> Nowhere, scan |-> 0, items |-> <<>>]

-----------------------------------------------------------------------------
(* Geography. *)

Abs(n) == IF n < 0 THEN -n ELSE n

\* DistanceKM: the short way round.
Distance(a, b) == LET d == Abs(a - b) IN Min({d, 2 * HalfTurn + 1 - d})

\* NewBounds: cut off at the last longitude, not continued behind it.
Bounds(at, radius) ==
  Max({-HalfTurn, at - radius}) .. Min({HalfTurn, at + radius})

\* boundsRadiusKM of GetFeed.
BoundsRadius(f) == Max({SearchRadius, f.distance})

-----------------------------------------------------------------------------
(* The queries. *)

HasProfile(c) == profile[c] # NoProfile
IsActive(c) == HasProfile(c) /\ profile[c].active
HasPlace(c) == profile[c].at # Nowhere

\* Mutant: only the viewer's own exclusions are looked up.
NotExcludedByViewer(c) == <<"mine", c>> \notin bans

NotExcluded(c) == \A author \in {"mine", "theirs"} : <<author, c>> \notin bans

\* ListCandidates, apart from the cursor.
Candidates ==
  {c \in Rows : /\ IsActive(c) /\ HasPlace(c)
                /\ profile[c].at \in Bounds(req.at, BoundsRadius(req.filters))
                /\ profile[c].kind \in req.filters.kinds
                /\ NotExcluded(c)
                /\ c \notin liked}

IncomingLikes == {c \in likedBy : IsActive(c) /\ NotExcluded(c)}

\* The partner's profile is joined; it need not be active.
ActiveChats == {c \in Rows : chat[c] = "open" /\ HasProfile(c)}

\* parseCursor: no cursor means the beginning.
ParseCursor == IF cursor = NoCursor THEN 0 ELSE cursor

\* Mutant: the row of the cursor is read again.
AtCursor(S, after) == {c \in S : c >= after}

After(S, after) == {c \in S : c > after}

-----------------------------------------------------------------------------
(* GetFeed. *)

\* The exact check of the rows of a batch.
InCircle(c) == Distance(req.at, profile[c].at) <= req.filters.distance

BatchSize == 3 * Limit

\* Mutant: only a row that is shown moves the scan on.
ScanShown(rows, shown) == IF shown = {} THEN req.scan ELSE Max(shown)

\* The last row looked at, shown or not.
ScanCursor(rows, shown) == Max(rows)

\* Mutant: a page is full only if another row follows it.
FullAndMore(items, rows) == Len(items) = Limit /\ Max(rows) > Last(items)

\* A page that is full has a next one, which may be empty.
HasNext(items, rows) == Len(items) = Limit

Respond(items, next) ==
  /\ got' = got \o items
  /\ cursor' = next
  /\ pc' = IF next = NoCursor THEN "done" ELSE "idle"
  /\ req' = Idle
  /\ UNCHANGED list

\* GetFilters; without preferences the request is refused.
ReadFilters ==
  /\ list = "feed" /\ pc = "idle"
  /\ IF filters = NoFilters
       THEN UNCHANGED <<pc, req>>
       ELSE /\ req' = [Idle EXCEPT !.filters = filters, !.scan = ParseCursor]
            /\ pc' = "profile"
  /\ UNCHANGED <<list, cursor, got>>

\* GetByUserID; without coordinates the request is refused.
ReadProfile ==
  /\ pc = "profile"
  /\ IF viewer = Nowhere
       THEN pc' = "idle" /\ req' = Idle
       ELSE pc' = "scan" /\ req' = [req EXCEPT !.at = viewer]
  /\ UNCHANGED <<list, cursor, got>>

\* One round of the loop: a batch, and the page when it is full or the batch short.
ReadBatch ==
  /\ pc = "scan"
  /\ \E rows \in {Lowest(BatchSize, After(Candidates, req.scan))} :
     \E shown \in {Lowest(Limit - Len(req.items), {c \in rows : InCircle(c)})} :
     \E items \in {req.items \o InOrder(shown)} :
       IF Len(items) = Limit \/ Cardinality(rows) < BatchSize
         THEN Respond(items, IF HasNext(items, rows) THEN Last(items) ELSE NoCursor)
         ELSE /\ req' = [req EXCEPT !.items = items, !.scan = ScanCursor(rows, shown)]
              /\ UNCHANGED <<list, pc, cursor, got>>

-----------------------------------------------------------------------------
(* GetIncomingLikes and List of the chats: one query of limit + 1 rows. *)

\* The last row of the page.
NextCursor(rows) == Max(Lowest(Limit, rows))

ReadPage(name, S) ==
  /\ list = name /\ pc = "idle"
  /\ LET rows == Lowest(Limit + 1, After(S, ParseCursor)) IN
       Respond(InOrder(Lowest(Limit, rows)),
               IF Cardinality(rows) > Limit THEN NextCursor(rows) ELSE NoCursor)

\* An error of the database, or the end of the client: no page, the same cursor.
Fail ==
  /\ pc \in {"profile", "scan"}
  /\ pc' = "idle" /\ req' = Idle
  /\ UNCHANGED <<list, cursor, got>>

\* The client asks for the first page again.
StartWalk ==
  /\ pc = "done"
  /\ pc' = "idle" /\ cursor' = NoCursor /\ got' = <<>>
  /\ UNCHANGED <<list, req>>

Answer ==
  \/ ReadFilters \/ ReadProfile \/ ReadBatch
  \/ ReadPage("likes", IncomingLikes) \/ ReadPage("chats", ActiveChats)

-----------------------------------------------------------------------------
(* Requests that change the lists.  Each is the effect of a committed       *)
(* transaction: how likes and blocks race with each other is Ribbon's       *)
(* matter.                                                                  *)

\* buildProfile and Upsert: both coordinates or none, and active again.
SaveProfile(c, kind, at) ==
  /\ profile' = [profile EXCEPT ![c] = [kind |-> kind, at |-> at, active |-> TRUE]]
  /\ UNCHANGED <<viewer, filters, liked, likedBy, bans, permanent, chat>>

Deactivate(c) ==
  /\ IsActive(c)
  /\ profile' = [profile EXCEPT ![c].active = FALSE]
  /\ UNCHANGED <<viewer, filters, liked, likedBy, bans, permanent, chat>>

\* The viewer's own save.
Move(at) ==
  viewer' = at /\ UNCHANGED <<profile, filters, liked, likedBy, bans, permanent, chat>>

\* buildPreferences and UpsertFilters replace the whole record.
SavePreferences(f) ==
  filters' = f /\ UNCHANGED <<profile, viewer, liked, likedBy, bans, permanent, chat>>

\* CreateLike: a mutual like opens the chat of the pair, once.
Open(c) == IF chat[c] = "none" THEN [chat EXCEPT ![c] = "open"] ELSE chat

Like(c) ==
  /\ IsActive(c) /\ NotExcluded(c)
  /\ liked' = liked \cup {c}
  /\ chat' = IF c \in likedBy THEN Open(c) ELSE chat
  /\ UNCHANGED <<profile, viewer, filters, likedBy, bans, permanent>>

\* The viewer's own profile counts as active, with or without a place.
BeLiked(c) ==
  /\ NotExcluded(c)
  /\ likedBy' = likedBy \cup {c}
  /\ chat' = IF c \in liked THEN Open(c) ELSE chat
  /\ UNCHANGED <<profile, viewer, filters, liked, bans, permanent>>

\* CreateDislike: a block that is there stays one.
Dislike(author, c) ==
  /\ bans' = bans \cup {<<author, c>>}
  /\ UNCHANGED <<profile, viewer, filters, liked, likedBy, permanent, chat>>

\* CreateBlock closes the chat too.
Block(author, c) ==
  /\ bans' = bans \cup {<<author, c>>} /\ permanent' = permanent \cup {<<author, c>>}
  /\ chat' = IF chat[c] = "open" THEN [chat EXCEPT ![c] = "closed"] ELSE chat
  /\ UNCHANGED <<profile, viewer, filters, liked, likedBy>>

\* RemoveBlock leaves a dislike alone.
Unblock(author, c) ==
  /\ bans' = bans \ ({<<author, c>>} \cap permanent)
  /\ permanent' = permanent \ {<<author, c>>}
  /\ UNCHANGED <<profile, viewer, filters, liked, likedBy, chat>>

Change ==
  \/ \E at \in Places \cup {Nowhere} : Move(at)
  \/ \E f \in Filters : SavePreferences(f)
  \/ \E c \in Rows :
       \/ \E kind \in Kinds, at \in Places \cup {Nowhere} : SaveProfile(c, kind, at)
       \/ Deactivate(c) \/ Like(c) \/ BeLiked(c)
       \/ \E author \in {"mine", "theirs"} :
            Dislike(author, c) \/ Block(author, c) \/ Unblock(author, c)

-----------------------------------------------------------------------------
(* What the lists should contain, by the definition of each and not by the  *)
(* way it is queried.                                                       *)

\* A profile that may be recommended to a viewer at this place with these filters.
Recommended(c, at, f) ==
  /\ IsActive(c) /\ HasPlace(c)
  /\ Distance(at, profile[c].at) <= f.distance
  /\ profile[c].kind \in f.kinds
  /\ c \notin liked
  /\ <<"mine", c>> \notin bans /\ <<"theirs", c>> \notin bans

\* The rectangle has no other side of the last longitude: who lives there is missed.
Reachable(c, at, f) == profile[c].at \in Bounds(at, BoundsRadius(f))

Found(c, at, f) ==
  at # Nowhere /\ f # NoFilters /\ Recommended(c, at, f) /\ Reachable(c, at, f)

\* In the feed a row must fit the preferences stored and those being used.
Belongs(c) ==
  CASE list = "feed" -> /\ Found(c, viewer, filters)
                        /\ pc = "profile" => Found(c, viewer, req.filters)
                        /\ pc = "scan" => Found(c, req.at, req.filters)
    [] list = "likes" -> c \in IncomingLikes
    [] list = "chats" -> c \in ActiveChats

Admissible == {c \in Rows : pc = "scan" /\ Recommended(c, req.at, req.filters)}

\* The two history variables, of the state a step leads to.
Track(before) ==
  /\ owed' = {c \in before : Belongs(c)'}
  /\ admitted' = (IF pc = "scan" THEN admitted ELSE {}) \cup Admissible'

-----------------------------------------------------------------------------

\* A chat has two likers.
Init ==
  /\ profile \in [Rows -> Profiles \cup {NoProfile}]
  /\ viewer \in Places \cup {Nowhere}
  /\ filters \in Filters \cup {NoFilters}
  /\ liked \in SUBSET Rows /\ likedBy \in SUBSET Rows
  /\ bans \in SUBSET ({"mine", "theirs"} \X Rows) /\ permanent \in SUBSET bans
  /\ chat \in [Rows -> {"none", "open", "closed"}]
  /\ \A c \in Rows : chat[c] # "none" => c \in liked \cap likedBy
  /\ changes = 0
  /\ list \in {"feed", "likes", "chats"}
  /\ pc = "idle" /\ req = Idle /\ cursor = NoCursor /\ got = <<>>
  /\ owed = {c \in Rows : Belongs(c)} /\ admitted = {}

Next ==
  \/ Answer /\ UNCHANGED <<world, changes>> /\ Track(owed)
  \/ Fail /\ UNCHANGED <<world, changes>> /\ Track(owed)
  \/ StartWalk /\ UNCHANGED <<world, changes>> /\ Track(Rows)
  \/ /\ changes < MaxChanges /\ changes' = changes + 1
     /\ Change /\ UNCHANGED walk /\ Track(owed)

\* A handler runs until it answers.
Fairness == WF_walk(ReadProfile) /\ WF_walk(ReadBatch)

Spec == Init /\ [][Next]_vars /\ Fairness

-----------------------------------------------------------------------------

TypeOK ==
  /\ profile \in [Rows -> Profiles \cup {NoProfile}]
  /\ viewer \in Places \cup {Nowhere} /\ filters \in Filters \cup {NoFilters}
  /\ liked \subseteq Rows /\ likedBy \subseteq Rows
  /\ bans \subseteq {"mine", "theirs"} \X Rows /\ permanent \subseteq bans
  /\ chat \in [Rows -> {"none", "open", "closed"}]
  /\ changes \in 0 .. MaxChanges
  /\ list \in {"feed", "likes", "chats"} /\ pc \in {"idle", "profile", "scan", "done"}
  /\ cursor \in Rows \cup {NoCursor} /\ got \in Seq(Rows) /\ Len(req.items) < Limit
  /\ owed \subseteq Rows /\ admitted \subseteq Rows

\* Following next_cursor returns no row twice and keeps their order, whatever
\* changes between the pages, the preferences and the viewer's place included,
\* and the cursor is the last row of the page before.  It carries the types.
WalkIsOrdered ==
  /\ TypeOK
  /\ \A i, j \in 1 .. Len(got) : i < j => got[i] < got[j]
  /\ cursor # NoCursor => cursor = Last(got)

\* When next_cursor is empty, every row that belonged to the list all through
\* the walk has been returned: neither a batch whose rows all lie outside the
\* circle nor a page filled to the last place ends the walk early.
WalkIsComplete == pc = "done" => owed \subseteq ToSet(got)

\* Action property: GetFeed adds to a page only rows that the request was
\* allowed to show at some moment after it had read preferences and place: nobody
\* excluded in either direction, liked, hidden or too far away all that time.
ShownWereAdmissible ==
  [][list = "feed" => \A i \in Len(got) + 1 .. Len(got') : got'[i] \in admitted]_vars

\* A request for the feed ends, whatever the batches contain (GetFeed's loop).
RequestsEnd == pc \notin {"idle", "done"} ~> pc \in {"idle", "done"}

=============================================================================
