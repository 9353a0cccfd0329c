----------------------------- MODULE FeedProofs -----------------------------
(***************************************************************************)
(* Lists and pages of any length, whatever other requests change between   *)
(* two queries: a walk is in order, misses nobody who belonged to the list *)
(* all the time, and the feed shows nobody whom it may not.                *)
(***************************************************************************)
EXTENDS Feed, NumberSetTheorems, TLAPS

\* The request under way; only the feed takes more than one query.
Requests ==
  /\ req \in [filters : Filters \cup {NoFilters}, at : Places \cup {Nowhere},
              scan : Rows \cup {0}, items : Seq(Rows)]
  /\ pc \in {"idle", "done"} => req = Idle
  /\ pc = "profile" => req.items = <<>>
  /\ pc \in {"profile", "scan"} => list = "feed"
  /\ Ascending(req.items)

\* How far the walk has come, the rows of the page under way included.
Position == IF pc \in {"profile", "scan"} THEN req.scan ELSE ParseCursor

GotBeforeCursor ==
  /\ cursor # NoCursor => got # <<>>
  /\ pc # "done" => \A i \in 1 .. Len(got) : got[i] <= ParseCursor

ItemsBetween ==
  pc # "done" =>
    /\ ParseCursor <= Position
    /\ \A i \in 1 .. Len(req.items) : ParseCursor < req.items[i] /\ req.items[i] <= Position

OwedBelongs == \A c \in owed : Belongs(c)

\* Whoever is owed is on a page, on the page under way, or ahead.
NothingPassedOver ==
  pc # "done" =>
    \A o \in owed : o \in Members(got) \/ o \in Members(req.items) \/ Position < o

\* What may be shown now has been admitted, and so has what will be.
ItemsAdmitted ==
  pc = "scan" =>
    /\ Admissible \subseteq admitted
    /\ \A x \in Members(req.items) : x \in admitted

\* The inductive invariant.
FInv ==
  /\ WalkIsOrdered
  /\ Requests /\ GotBeforeCursor /\ ItemsBetween
  /\ OwedBelongs /\ NothingPassedOver /\ ItemsAdmitted
  /\ WalkIsComplete

-----------------------------------------------------------------------------
(* Operators. *)

\* Rows are finitely many positive numbers.
LEMMA RowNumbers ==
  /\ Rows \in SUBSET Int /\ IsFiniteSet(Rows)
  /\ \A c \in Rows : c \in Nat /\ 0 < c
  BY RowsAssumption

\* The scan cursor is a number.
LEMMA ScanIsNumber == ASSUME NEW n \in Rows \cup {0} PROVE n \in Nat /\ n \in Int
  BY RowsAssumption

\* The cursor of the client is a number, 0 if there is none.
LEMMA CursorIsNumber ==
  ASSUME TypeOK
  PROVE  ParseCursor \in Rows \cup {0} /\ ParseCursor \in Nat
  BY RowNumbers DEF TypeOK, ParseCursor

\* Who belongs to the feed is among the rows of the query and passes the check
\* of the circle.
LEMMA BelongingIsFound ==
  ASSUME NEW c \in Rows, list = "feed", pc = "scan", Belongs(c)
  PROVE  c \in Candidates /\ InCircle(c)
<1>1. Found(c, req.at, req.filters)
  BY DEF Belongs
<1> QED
  BY <1>1 DEF Found, Recommended, Reachable, Candidates, InCircle, NotExcluded

\* Who passes both may be shown.
LEMMA FoundIsAdmissible ==
  ASSUME pc = "scan", NEW c \in Candidates, InCircle(c)
  PROVE  c \in Admissible
  BY DEF Candidates, InCircle, NotExcluded, Admissible, Recommended

\* The history variables after a step.
LEMMA Tracked ==
  ASSUME NEW before \in SUBSET Rows, Track(before), TypeOK
  PROVE  /\ owed' \in SUBSET before /\ owed' \subseteq Rows
         /\ OwedBelongs'
         /\ Admissible' \subseteq admitted'
         /\ pc = "scan" => admitted \subseteq admitted'
         /\ admitted' \subseteq Rows
<1>1. owed' = {c \in before : Belongs(c)'}
  BY DEF Track
<1>2. owed' \in SUBSET before
  BY <1>1
<1>3. OwedBelongs'
  BY <1>1 DEF OwedBelongs
<1>4. Admissible' \subseteq Rows
  BY DEF Admissible
<1>5. admitted' = (IF pc = "scan" THEN admitted ELSE {}) \cup Admissible'
  BY DEF Track
<1>6. admitted \subseteq Rows
  BY DEF TypeOK
<1> QED
  BY <1>2, <1>3, <1>4, <1>5, <1>6

-----------------------------------------------------------------------------

\* TypeOK of what the lists are made from.
WorldOK ==
  /\ profile \in [Rows -> Profiles \cup {NoProfile}]
  /\ viewer \in Places \cup {Nowhere} /\ filters \in Filters \cup {NoFilters}
  /\ liked \subseteq Rows /\ likedBy \subseteq Rows
  /\ bans \subseteq {"mine", "theirs"} \X Rows /\ permanent \subseteq bans
  /\ chat \in [Rows -> {"none", "open", "closed"}]

\* The tables are well typed if nothing changes them.
LEMMA WorldStays == ASSUME WorldOK, UNCHANGED world PROVE WorldOK'
  BY DEF WorldOK, world

\* Every change keeps the tables well typed.
LEMMA WorldIsTyped == ASSUME WorldOK, Change PROVE WorldOK'
<1>1. ASSUME NEW at \in Places \cup {Nowhere}, Move(at) PROVE WorldOK'
  BY <1>1 DEF WorldOK, Move
<1>2. ASSUME NEW f \in Filters, SavePreferences(f) PROVE WorldOK'
  BY <1>2 DEF WorldOK, SavePreferences
<1>3. ASSUME NEW c \in Rows, NEW kind \in Kinds, NEW at \in Places \cup {Nowhere},
             SaveProfile(c, kind, at)
      PROVE  WorldOK'
  <2>1. [kind |-> kind, at |-> at, active |-> TRUE] \in Profiles
    BY DEF Profiles
  <2>2. profile' \in [Rows -> Profiles \cup {NoProfile}]
    BY <1>3, <2>1 DEF WorldOK, SaveProfile
  <2> QED
    BY <1>3, <2>2 DEF WorldOK, SaveProfile
<1>4. ASSUME NEW c \in Rows, Deactivate(c) PROVE WorldOK'
  <2>1. profile[c] \in Profiles
    BY <1>4 DEF WorldOK, Deactivate, IsActive, HasProfile
  <2>2. [profile[c] EXCEPT !.active = FALSE] \in Profiles
    BY <2>1 DEF Profiles
  <2>3. profile' = [profile EXCEPT ![c] = [profile[c] EXCEPT !.active = FALSE]]
    BY <1>4 DEF Deactivate
  <2>4. profile' \in [Rows -> Profiles \cup {NoProfile}]
    BY <2>2, <2>3 DEF WorldOK
  <2> QED
    BY <1>4, <2>4 DEF WorldOK, Deactivate
<1>5. ASSUME NEW c \in Rows, Like(c) \/ BeLiked(c) PROVE WorldOK'
  <2>1. chat' \in [Rows -> {"none", "open", "closed"}]
    BY <1>5 DEF WorldOK, Like, BeLiked, Open
  <2>2. liked' \subseteq Rows /\ likedBy' \subseteq Rows
    BY <1>5 DEF WorldOK, Like, BeLiked
  <2>3. UNCHANGED <<profile, viewer, filters, bans, permanent>>
    BY <1>5 DEF Like, BeLiked
  <2> QED
    BY <2>1, <2>2, <2>3 DEF WorldOK
<1>6. ASSUME NEW c \in Rows, NEW author \in {"mine", "theirs"},
             Dislike(author, c) \/ Block(author, c) \/ Unblock(author, c)
      PROVE  WorldOK'
  <2>1. chat' \in [Rows -> {"none", "open", "closed"}]
    BY <1>6 DEF WorldOK, Dislike, Block, Unblock
  <2>2. bans' \subseteq {"mine", "theirs"} \X Rows
    BY <1>6 DEF WorldOK, Dislike, Block, Unblock
  <2>3. permanent' \subseteq bans'
    BY <1>6 DEF WorldOK, Dislike, Block, Unblock
  <2>4. UNCHANGED <<profile, viewer, filters, liked, likedBy>>
    BY <1>6 DEF Dislike, Block, Unblock
  <2> QED
    BY <2>1, <2>2, <2>3, <2>4 DEF WorldOK
<1> QED
  BY <1>1, <1>2, <1>3, <1>4, <1>5, <1>6 DEF Change

\* The types, from those of the tables and those of the walk.
LEMMA TypesOfParts ==
  ASSUME WorldOK, changes \in 0 .. MaxChanges,
         list \in {"feed", "likes", "chats"}, pc \in {"idle", "profile", "scan", "done"},
         cursor \in Rows \cup {NoCursor}, got \in Seq(Rows), Len(req.items) < Limit,
         owed \subseteq Rows, admitted \subseteq Rows
  PROVE  TypeOK
  BY DEF TypeOK, WorldOK

\* The types of the tables.
LEMMA PartsAreTyped == ASSUME TypeOK PROVE WorldOK
  BY DEF TypeOK, WorldOK

-----------------------------------------------------------------------------
(* The walk. *)

\* Nobody has asked for a page, and everybody on the list is owed.
LEMMA InitFInv == Init => FInv
<1> SUFFICES ASSUME Init PROVE FInv
  OBVIOUS
<1>1. /\ req = Idle /\ Idle.items = <<>> /\ Idle.scan = 0 /\ pc = "idle"
      /\ cursor = NoCursor /\ got = <<>> /\ admitted = {}
      /\ owed = {c \in Rows : Belongs(c)} /\ list \in {"feed", "likes", "chats"}
      /\ changes = 0
  BY DEF Init, Idle
<1>2. TypeOK
  <2>1. WorldOK
    BY DEF Init, WorldOK
  <2> QED
    BY <1>1, <2>1, TypesOfParts, LimitAssumption, ChangesAssumption
<1>3. WalkIsOrdered
  BY <1>1, <1>2 DEF WalkIsOrdered
<1>4. Requests
  BY <1>1 DEF Requests, Idle, Ascending
<1>5. ParseCursor = 0 /\ Position = 0
  BY <1>1 DEF ParseCursor, Position
<1>6. GotBeforeCursor /\ ItemsBetween
  BY <1>1, <1>5 DEF GotBeforeCursor, ItemsBetween
<1>7. OwedBelongs /\ ItemsAdmitted /\ WalkIsComplete
  BY <1>1 DEF OwedBelongs, ItemsAdmitted, WalkIsComplete
<1>8. NothingPassedOver
  BY <1>1, <1>5, RowNumbers DEF NothingPassedOver
<1> QED
  BY <1>3, <1>4, <1>6, <1>7, <1>8 DEF FInv

\* A page whose rows lie behind the cursor, and which misses nothing up to the
\* next one, or nothing at all when it is the last.
LEMMA RespondKeeps ==
  ASSUME FInv, pc # "done", UNCHANGED <<world, changes>>, Track(owed),
         NEW items \in Seq(Rows), NEW next \in Rows \cup {NoCursor}, Respond(items, next),
         Ascending(items), \A i \in 1 .. Len(items) : ParseCursor < items[i],
         next # NoCursor => items # <<>> /\ next = items[Len(items)],
         \A o \in owed : o \in Members(got) \/ o \in Members(items) \/ (next # NoCursor /\ next < o)
  PROVE  FInv' /\ \A i \in Len(got) + 1 .. Len(got') : got'[i] \in Members(items)
<1>1. /\ got' = got \o items /\ cursor' = next /\ req' = Idle /\ list' = list
      /\ pc' = IF next = NoCursor THEN "done" ELSE "idle"
  BY DEF Respond
<1>2. /\ TypeOK /\ got \in Seq(Rows) /\ Ascending(got) /\ owed \in SUBSET Rows
      /\ \A i \in 1 .. Len(got) : got[i] <= ParseCursor
      /\ ParseCursor \in Nat
  BY CursorIsNumber DEF FInv, WalkIsOrdered, Ascending, TypeOK, GotBeforeCursor
<1>3. Rows \in SUBSET Int
  BY RowNumbers
<1>4. \A i \in 1 .. Len(got) : \A j \in 1 .. Len(items) : got[i] < items[j]
  <2> SUFFICES ASSUME NEW i \in 1 .. Len(got), NEW j \in 1 .. Len(items) PROVE got[i] < items[j]
    OBVIOUS
  <2>1. got[i] \in Int /\ items[j] \in Int
    BY <1>2, <1>3, ElementOfSeq
  <2> QED
    BY <1>2, <2>1
<1>5. got' \in Seq(Rows) /\ Ascending(got')
  BY <1>1, <1>2, <1>3, <1>4, Concatenation
<1>6. \A x : x \in Members(got') <=> x \in Members(got) \/ x \in Members(items)
  BY <1>1, <1>2, <1>3, <1>4, Concatenation
<1>7. \A i \in Len(got) + 1 .. Len(got') : got'[i] \in Members(items)
  BY <1>1, <1>2, <1>3, <1>4, Concatenation
<1>8. next # NoCursor => got' # <<>> /\ next = got'[Len(got')]
  <2> SUFFICES ASSUME next # NoCursor PROVE got' # <<>> /\ next = got'[Len(got')]
    OBVIOUS
  <2>1. Len(items) \in Nat /\ Len(items) # 0 /\ Len(got) \in Nat
    BY <1>2, LenProperties, EmptySeq
  <2>2. Len(got') = Len(got) + Len(items)
    BY <1>1, <1>2, ConcatProperties
  <2>3. \A i \in 1 .. Len(items) : got'[Len(got) + i] = items[i]
    BY <1>1, <1>2, <1>3, <1>4, Concatenation
  <2>4. got'[Len(got')] = items[Len(items)]
    BY <2>1, <2>2, <2>3
  <2>5. got' # <<>>
    BY <2>1, <2>2, EmptySeq
  <2> QED
    BY <2>4, <2>5
<1>9. /\ owed' \in SUBSET owed /\ owed' \subseteq Rows /\ OwedBelongs'
      /\ Admissible' \subseteq admitted' /\ admitted' \subseteq Rows
  BY <1>2, Tracked
<1>10. Idle.items = <<>> /\ Idle.scan = 0 /\ pc' \in {"idle", "done"}
  BY <1>1 DEF Idle
<1>11. TypeOK'
  <2>1. WorldOK'
    BY <1>2, PartsAreTyped, WorldStays
  <2>2. changes' \in 0 .. MaxChanges /\ list' \in {"feed", "likes", "chats"}
    BY <1>1, <1>2 DEF TypeOK
  <2>3. Len(req'.items) < Limit
    BY <1>1, <1>10, LimitAssumption
  <2> QED
    BY <1>1, <1>5, <1>9, <1>10, <2>1, <2>2, <2>3 DEF TypeOK, WorldOK
<1>12. WalkIsOrdered'
  BY <1>1, <1>5, <1>8, <1>11 DEF WalkIsOrdered, Ascending, Last
<1>13. Requests'
  BY <1>1, <1>10 DEF Requests, Idle, Ascending
<1>14. next # NoCursor =>
         /\ ParseCursor' = next /\ Position' = next /\ next \in Int
         /\ \A i \in 1 .. Len(got') : got'[i] <= next
  <2> SUFFICES ASSUME next # NoCursor
               PROVE  /\ ParseCursor' = next /\ Position' = next /\ next \in Int
                      /\ \A i \in 1 .. Len(got') : got'[i] <= next
    OBVIOUS
  <2>1. ParseCursor' = next /\ Position' = next /\ next \in Int
    BY <1>1, <1>3, <1>10 DEF ParseCursor, Position
  <2>2. \A i \in 1 .. Len(got') : got'[i] <= got'[Len(got')]
    BY <1>3, <1>5, <1>8, LastIsGreatest
  <2> QED
    BY <1>8, <2>1, <2>2
<1>15. GotBeforeCursor'
  BY <1>1, <1>8, <1>14 DEF GotBeforeCursor
<1>16. ItemsBetween'
  <2> SUFFICES ASSUME pc' # "done" PROVE ParseCursor' <= Position' /\ Len(req'.items) = 0
    BY DEF ItemsBetween
  <2> QED
    BY <1>1, <1>10, <1>14
<1>17. NothingPassedOver'
  <2> SUFFICES ASSUME pc' # "done", NEW o \in owed'
               PROVE  o \in Members(got') \/ Position' < o
    BY DEF NothingPassedOver
  <2> QED
    BY <1>1, <1>6, <1>9, <1>14
<1>18. WalkIsComplete'
  <2> SUFFICES ASSUME pc' = "done", NEW o \in owed' PROVE o \in ToSet(got')
    BY DEF WalkIsComplete
  <2>1. o \in Members(got')
    BY <1>1, <1>6, <1>9
  <2>2. DOMAIN got' = 1 .. Len(got')
    BY <1>5, LenProperties
  <2> QED
    BY <2>1, <2>2 DEF Members, ToSet
<1>19. ItemsAdmitted'
  BY <1>10 DEF ItemsAdmitted
<1> QED
  BY <1>7, <1>9, <1>12, <1>13, <1>15, <1>16, <1>17, <1>18, <1>19 DEF FInv

\* Incoming likes and chats: one query for a page.
LEMMA ReadPageKeeps ==
  ASSUME FInv, UNCHANGED <<world, changes>>, Track(owed),
         NEW name \in {"likes", "chats"}, NEW found \in SUBSET Rows, ReadPage(name, found),
         \A c \in owed : Belongs(c) => c \in found
  PROVE  FInv' /\ list # "feed"
<1> DEFINE S == After(found, ParseCursor)
           rows == Lowest(Limit + 1, S)
           page == Lowest(Limit, rows)
           items == InOrder(page)
           next == IF Cardinality(rows) > Limit THEN NextCursor(rows) ELSE NoCursor
<1>1. list = name /\ pc = "idle" /\ Respond(items, next)
  BY DEF ReadPage
<1>2. /\ ParseCursor \in Nat /\ owed \in SUBSET Rows
      /\ \A o \in owed : Belongs(o)
      /\ \A o \in owed : o \in Members(got) \/ ParseCursor < o
  <2>1. TypeOK
    BY DEF FInv, WalkIsOrdered
  <2>2. Members(req.items) = {}
    BY <1>1 DEF FInv, Requests, Idle, Members
  <2> QED
    BY <1>1, <2>1, <2>2, CursorIsNumber DEF FInv, TypeOK, OwedBelongs, NothingPassedOver, Position
<1>3. S \in SUBSET Rows /\ S \in SUBSET Int /\ IsFiniteSet(S)
  BY RowNumbers, FS_Subset DEF After
<1>4. \A c \in S : ParseCursor < c
  BY <1>2, RowNumbers DEF After
<1>5. \A o \in owed : o \in Members(got) \/ o \in S
  BY <1>2, RowNumbers DEF After
<1> HIDE DEF S
<1>6. rows = Lowest(Limit + 1, S) /\ page = Lowest(Limit, rows)
  OBVIOUS
<1>7. items = InOrder(page)
  OBVIOUS
<1>8. next = IF Cardinality(rows) > Limit THEN Max(page) ELSE NoCursor
  BY DEF NextCursor
<1> HIDE DEF rows, page, items, next
<1>9. page \in SUBSET S /\ IsFiniteSet(page) /\ Cardinality(rows) \in Nat
  BY <1>3, <1>6, LimitAssumption, PageOf
<1>10. Cardinality(rows) > Limit => Max(page) \in page
  BY <1>3, <1>6, LimitAssumption, PageOf
<1>11. Cardinality(rows) > Limit => \A x \in S \ page : Max(page) < x
  BY <1>3, <1>6, LimitAssumption, PageOf
<1>12. Cardinality(rows) <= Limit => page = S
  BY <1>3, <1>6, LimitAssumption, PageOf
<1>13. page \in SUBSET Rows /\ Rows \in SUBSET Int
  BY <1>3, <1>9, RowNumbers
<1>14. IsFiniteSet(page)
  BY <1>9
<1>15. items \in Seq(Rows) /\ Ascending(items)
  BY <1>13, <1>7, <1>14, PageIsInOrder
<1>16. \A x : x \in Members(items) <=> x \in page
  BY <1>13, <1>7, <1>14, PageIsInOrder
<1>17. page # {} => items # <<>> /\ items[Len(items)] = Max(page)
  BY <1>13, <1>7, <1>14, PageIsInOrder
<1>18. \A i \in 1 .. Len(items) : ParseCursor < items[i]
  BY <1>4, <1>9, <1>16 DEF Members
<1>19. next \in Rows \cup {NoCursor}
  BY <1>8, <1>10, <1>13
<1>20. next # NoCursor => Cardinality(rows) > Limit /\ next = Max(page)
  BY <1>8
<1>21. next # NoCursor => items # <<>> /\ next = items[Len(items)]
  BY <1>10, <1>17, <1>20
<1>22. \A o \in owed : o \in Members(got) \/ o \in Members(items) \/ (next # NoCursor /\ next < o)
  <2> SUFFICES ASSUME NEW o \in owed, o \notin Members(got), o \notin page
               PROVE  next # NoCursor /\ next < o
    BY <1>16
  <2>1. o \in S \ page
    BY <1>5
  <2>2. Cardinality(rows) > Limit
    BY <1>9, <1>12, <2>1, LimitAssumption
  <2>3. next = Max(page) /\ Max(page) \in Rows
    BY <1>8, <1>10, <1>13, <2>2
  <2> QED
    BY <1>11, <2>1, <2>2, <2>3, CursorAssumption
<1>23. FInv'
  BY <1>1, <1>15, <1>18, <1>19, <1>21, <1>22, RespondKeeps
<1> QED
  BY <1>1, <1>23

\* A step that returns no page.
LEMMA StillWalking ==
  ASSUME FInv, UNCHANGED <<list, cursor, got>>, Track(owed), WorldOK', changes' \in 0 .. MaxChanges,
         pc' \in {"idle", "profile", "scan", "done"}, pc' = "done" <=> pc = "done",
         Requests', Len(req'.items) < Limit, ItemsBetween',
         pc' # "done" =>
           \A o \in owed : o \in Members(got) \/ o \in Members(req'.items) \/ Position' < o,
         pc' = "scan" => \A x \in Members(req'.items) : x \in admitted'
  PROVE  FInv' /\ got' = got
<1>1. TypeOK /\ owed \in SUBSET Rows
  BY DEF FInv, WalkIsOrdered, TypeOK
<1>2. /\ owed' \in SUBSET owed /\ owed' \subseteq Rows /\ OwedBelongs'
      /\ Admissible' \subseteq admitted' /\ admitted' \subseteq Rows
  BY <1>1, Tracked
<1>3. TypeOK'
  BY <1>1, <1>2 DEF TypeOK, WorldOK
<1>4. WalkIsOrdered'
  BY <1>3 DEF FInv, WalkIsOrdered
<1>5. ParseCursor' = ParseCursor
  BY DEF ParseCursor
<1>6. GotBeforeCursor'
  BY <1>5 DEF FInv, GotBeforeCursor
<1>7. NothingPassedOver'
  BY <1>2 DEF NothingPassedOver, Members
<1>8. ItemsAdmitted'
  BY <1>2 DEF ItemsAdmitted
<1>9. WalkIsComplete'
  BY <1>2 DEF FInv, WalkIsComplete
<1> QED
  BY <1>2, <1>4, <1>6, <1>7, <1>8, <1>9 DEF FInv

\* The request takes up where the last page ended.
LEMMA ReadFiltersKeeps ==
  ASSUME FInv, ReadFilters, UNCHANGED <<world, changes>>, Track(owed)
  PROVE  FInv' /\ got' = got
<1>1. /\ TypeOK /\ WorldOK' /\ changes' \in 0 .. MaxChanges
      /\ list = "feed" /\ pc = "idle" /\ UNCHANGED <<list, cursor, got>>
      /\ req = Idle /\ ParseCursor' = ParseCursor
      /\ ParseCursor \in Rows \cup {0} /\ ParseCursor \in Nat
  <2>1. TypeOK /\ WorldOK'
    BY PartsAreTyped, WorldStays DEF FInv, WalkIsOrdered
  <2> QED
    BY <2>1, CursorIsNumber DEF FInv, TypeOK, ReadFilters, Requests, ParseCursor
<1>2. \A o \in owed : o \in Members(got) \/ ParseCursor < o
  BY <1>1 DEF FInv, NothingPassedOver, Position, Idle, Members
<1>3. CASE filters = NoFilters
  <2>1. UNCHANGED <<pc, req>> /\ Position' = ParseCursor
    BY <1>1, <1>3 DEF ReadFilters, Position
  <2>2. Requests' /\ Idle.items = <<>>
    BY <1>1, <2>1 DEF FInv, Requests, Idle
  <2>3. ItemsBetween' /\ Len(req'.items) < Limit
    BY <1>1, <2>1, <2>2, LimitAssumption DEF ItemsBetween
  <2> QED
    BY <1>1, <1>2, <2>1, <2>2, <2>3, StillWalking
<1>4. CASE filters # NoFilters
  <2>1. /\ req' = [filters |-> filters, at |-> Nowhere, scan |-> ParseCursor, items |-> <<>>]
        /\ pc' = "profile" /\ Position' = ParseCursor /\ req'.items = <<>>
    BY <1>1, <1>4 DEF ReadFilters, Position, Idle
  <2>2. Requests'
    BY <1>1, <2>1 DEF FInv, TypeOK, world, Requests, Ascending
  <2>3. ItemsBetween' /\ Len(req'.items) < Limit
    BY <1>1, <2>1, LimitAssumption DEF ItemsBetween
  <2> QED
    BY <1>1, <1>2, <2>1, <2>2, <2>3, StillWalking
<1> QED
  BY <1>3, <1>4

\* The end of a request without a page leaves the cursor where it was.
LEMMA GivingUpKeeps ==
  ASSUME FInv, pc \in {"profile", "scan"}, UNCHANGED <<world, changes>>, Track(owed),
         pc' = "idle", req' = Idle, UNCHANGED <<list, cursor, got>>
  PROVE  FInv' /\ got' = got
<1>1. TypeOK /\ WorldOK' /\ changes' \in 0 .. MaxChanges /\ ParseCursor \in Nat
  <2>1. TypeOK /\ WorldOK'
    BY PartsAreTyped, WorldStays DEF FInv, WalkIsOrdered
  <2> QED
    BY <2>1, CursorIsNumber DEF TypeOK
<1>2. Position' = ParseCursor /\ ParseCursor' = ParseCursor /\ req'.items = <<>>
  BY DEF Position, ParseCursor, Idle
<1>3. Requests' /\ ItemsBetween' /\ Len(req'.items) < Limit
  BY <1>1, <1>2, LimitAssumption DEF Requests, ItemsBetween, Idle, Ascending
<1>4. \A o \in owed : o \in Members(got) \/ Position' < o
  <2> SUFFICES ASSUME NEW o \in owed, o \notin Members(got) PROVE ParseCursor < o
    BY <1>2
  <2>1. CASE o \in Members(req.items)
    BY <2>1 DEF FInv, ItemsBetween, Members
  <2>2. CASE Position < o
    <3>1. ParseCursor <= Position
      BY DEF FInv, ItemsBetween
    <3>2. Position \in Int
      <4>1. Position = req.scan /\ req.scan \in Rows \cup {0}
        BY DEF FInv, Position, Requests
      <4> QED
        BY <4>1, ScanIsNumber
    <3>3. o \in Rows /\ o \in Int
      BY <1>1, RowNumbers DEF TypeOK
    <3> QED
      BY <1>1, <2>2, <3>1, <3>2, <3>3
  <2> QED
    BY <2>1, <2>2 DEF FInv, NothingPassedOver
<1> QED
  BY <1>1, <1>3, <1>4, StillWalking

\* The place of the viewer is read, and the scan has not moved.
LEMMA ReadProfileKeeps ==
  ASSUME FInv, ReadProfile, UNCHANGED <<world, changes>>, Track(owed)
  PROVE  FInv' /\ got' = got
<1>1. CASE viewer = Nowhere
  BY <1>1, GivingUpKeeps DEF ReadProfile
<1>2. CASE viewer # Nowhere
  <2>1. /\ TypeOK /\ WorldOK' /\ changes' \in 0 .. MaxChanges
        /\ pc = "profile" /\ pc' = "scan" /\ req' = [req EXCEPT !.at = viewer]
        /\ UNCHANGED <<list, cursor, got>>
    <3>1. TypeOK /\ WorldOK'
      BY PartsAreTyped, WorldStays DEF FInv, WalkIsOrdered
    <3> QED
      BY <1>2, <3>1 DEF TypeOK, ReadProfile
  <2>2. /\ req \in [filters : Filters \cup {NoFilters}, at : Places \cup {Nowhere},
                    scan : Rows \cup {0}, items : Seq(Rows)]
        /\ req.items = <<>> /\ list = "feed"
    BY <2>1 DEF FInv, Requests
  <2>3. /\ req' \in [filters : Filters \cup {NoFilters}, at : Places \cup {Nowhere},
                     scan : Rows \cup {0}, items : Seq(Rows)]
        /\ req'.items = <<>> /\ req'.scan = req.scan
    BY <2>1, <2>2 DEF TypeOK
  <2>4. Position' = Position /\ ParseCursor' = ParseCursor
    BY <2>1, <2>3 DEF Position, ParseCursor
  <2>5. Requests' /\ ItemsBetween' /\ Len(req'.items) < Limit
    BY <2>1, <2>2, <2>3, <2>4, LimitAssumption DEF FInv, Requests, ItemsBetween, Ascending
  <2>6. \A o \in owed : o \in Members(got) \/ Position' < o
    BY <2>1, <2>2, <2>4 DEF FInv, NothingPassedOver, Members
  <2>7. Members(req'.items) = {}
    BY <2>3 DEF Members
  <2> QED
    BY <2>1, <2>5, <2>6, <2>7, StillWalking
<1> QED
  BY <1>1, <1>2

\* The first page again: every row is ahead.
LEMMA StartWalkKeeps ==
  ASSUME FInv, StartWalk, UNCHANGED <<world, changes>>, Track(Rows)
  PROVE  FInv' /\ got' = <<>>
<1>1. /\ TypeOK /\ WorldOK' /\ changes' \in 0 .. MaxChanges
      /\ pc' = "idle" /\ cursor' = NoCursor /\ got' = <<>> /\ UNCHANGED <<list, req>>
      /\ req = Idle /\ Idle.items = <<>>
  <2>1. TypeOK /\ WorldOK'
    BY PartsAreTyped, WorldStays DEF FInv, WalkIsOrdered
  <2> QED
    BY <2>1 DEF FInv, TypeOK, StartWalk, Requests, Idle
<1>2. owed' \subseteq Rows /\ OwedBelongs' /\ admitted' \subseteq Rows
  BY <1>1, Tracked
<1>3. TypeOK'
  BY <1>1, <1>2 DEF TypeOK, WorldOK
<1>4. WalkIsOrdered' /\ WalkIsComplete' /\ ItemsAdmitted'
  BY <1>1, <1>3 DEF WalkIsOrdered, WalkIsComplete, ItemsAdmitted
<1>5. ParseCursor' = 0 /\ Position' = 0
  BY <1>1 DEF ParseCursor, Position
<1>6. Requests' /\ GotBeforeCursor' /\ ItemsBetween'
  BY <1>1, <1>5 DEF FInv, Requests, GotBeforeCursor, ItemsBetween
<1>7. NothingPassedOver'
  BY <1>2, <1>5, RowNumbers DEF NothingPassedOver
<1> QED
  BY <1>1, <1>2, <1>4, <1>6, <1>7 DEF FInv

\* Other requests: the walk stays where it is, and whoever stops belonging is
\* owed no longer.
LEMMA ChangeKeeps ==
  ASSUME FInv, changes < MaxChanges, changes' = changes + 1, Change, UNCHANGED walk, Track(owed)
  PROVE  FInv' /\ got' = got
<1>1. /\ TypeOK /\ WorldOK' /\ changes' \in 0 .. MaxChanges
      /\ UNCHANGED <<list, pc, req, cursor, got>>
  <2>1. TypeOK /\ WorldOK'
    BY PartsAreTyped, WorldIsTyped DEF FInv, WalkIsOrdered
  <2> QED
    BY <2>1, ChangesAssumption DEF TypeOK, walk
<1>2. ParseCursor' = ParseCursor /\ Position' = Position
  BY <1>1 DEF ParseCursor, Position
<1>3. Requests' /\ ItemsBetween'
  BY <1>1, <1>2 DEF FInv, Requests, ItemsBetween
<1>4. pc = "scan" => \A x \in Members(req.items) : x \in admitted'
  <2>1. pc = "scan" => admitted \subseteq admitted'
    BY <1>1, Tracked DEF TypeOK
  <2> QED
    BY <2>1 DEF FInv, ItemsAdmitted
<1>5. Len(req.items) < Limit /\ pc \in {"idle", "profile", "scan", "done"}
  BY <1>1 DEF TypeOK
<1>6. pc # "done" => \A o \in owed : o \in Members(got) \/ o \in Members(req.items) \/ Position < o
  BY DEF FInv, NothingPassedOver
<1> QED
  BY <1>1, <1>2, <1>3, <1>4, <1>5, <1>6, StillWalking

-----------------------------------------------------------------------------
(* GetFeed, one round of its loop. *)

\* A batch holds the rows behind the scan up to its last one, and a short one
\* all of them.
LEMMA RowsOfBatch ==
  ASSUME NEW found \in SUBSET Rows, NEW scan \in Nat,
         NEW rows, rows = Lowest(BatchSize, After(found, scan))
  PROVE  /\ rows \in SUBSET found /\ Cardinality(rows) \in Nat
         /\ \A c \in rows : scan < c
         /\ Cardinality(rows) < BatchSize => \A c \in found : scan < c => c \in rows
         /\ Cardinality(rows) >= BatchSize => Max(rows) \in rows /\ \A c \in rows : c <= Max(rows)
         /\ \A c \in found : scan < c => c \in rows \/ \A d \in rows : d < c
<1> DEFINE S == After(found, scan)
<1>1. BatchSize \in Nat \ {0}
  BY LimitAssumption DEF BatchSize
<1>2. S \in SUBSET Rows /\ S \in SUBSET Int /\ IsFiniteSet(S) /\ S \in SUBSET found
  BY RowNumbers, FS_Subset DEF After
<1>3. \A c \in S : scan < c
  BY RowNumbers DEF After
<1>4. \A c \in found : scan < c => c \in S
  BY RowNumbers DEF After
<1> HIDE DEF S
<1>5. rows \in SUBSET S /\ IsFiniteSet(rows)
  BY <1>1, <1>2, LowestPart DEF S
<1>6. \A c \in rows : \A d \in S \ rows : c < d
  BY <1>1, <1>2, LowestPart DEF S
<1>7. Cardinality(rows) = IF Cardinality(S) <= BatchSize THEN Cardinality(S) ELSE BatchSize
  BY <1>1, <1>2, LowestPart DEF S
<1>8. Cardinality(S) <= BatchSize => rows = S
  BY <1>1, <1>2, LowestPart DEF S
<1>9. Cardinality(S) \in Nat /\ Cardinality(rows) \in Nat
  BY <1>2, <1>5, FS_CardinalityType
<1>10. Cardinality(rows) < BatchSize => rows = S
  BY <1>1, <1>7, <1>8, <1>9
<1>11. ASSUME Cardinality(rows) >= BatchSize
       PROVE  Max(rows) \in rows /\ \A c \in rows : c <= Max(rows)
  <2>1. Cardinality(rows) # 0
    BY <1>1, <1>9, <1>11
  <2>2. rows # {} /\ rows \in SUBSET Int
    BY <1>2, <1>5, <2>1, FS_EmptySet
  <2> QED
    BY <1>5, <2>2, MaxExists
<1>12. \A c \in found : scan < c => c \in rows \/ \A d \in rows : d < c
  BY <1>4, <1>6
<1>13. rows \in SUBSET found /\ \A c \in rows : scan < c
  BY <1>2, <1>3, <1>5
<1> QED
  BY <1>4, <1>9, <1>10, <1>11, <1>12, <1>13

\* A page takes the first rows that fit as far as it has room.
LEMMA RowsOfPage ==
  ASSUME NEW fit \in SUBSET Rows, NEW room \in Nat \ {0}, NEW shown, shown = Lowest(room, fit)
  PROVE  /\ shown \in SUBSET fit /\ IsFiniteSet(shown)
         /\ Cardinality(shown) \in Nat /\ Cardinality(shown) <= room
         /\ Cardinality(shown) < room => shown = fit
         /\ \A c \in fit : c \in shown \/ \A d \in shown : d < c
<1>1. fit \in SUBSET Int /\ IsFiniteSet(fit)
  BY RowNumbers, FS_Subset
<1>2. shown \in SUBSET fit /\ IsFiniteSet(shown)
  BY <1>1, LowestPart
<1>3. \A c \in shown : \A d \in fit \ shown : c < d
  BY <1>1, LowestPart
<1>4. Cardinality(shown) = IF Cardinality(fit) <= room THEN Cardinality(fit) ELSE room
  BY <1>1, LowestPart
<1>5. Cardinality(fit) <= room => shown = fit
  BY <1>1, LowestPart
<1>6. Cardinality(fit) \in Nat /\ Cardinality(shown) \in Nat
  BY <1>1, <1>2, FS_CardinalityType
<1>7. Cardinality(shown) <= room /\ (Cardinality(shown) < room => shown = fit)
  BY <1>4, <1>5, <1>6
<1> QED
  BY <1>2, <1>3, <1>6, <1>7

\* A batch answers or moves the scan cursor, and passes over nobody owed.
LEMMA ReadBatchKeeps ==
  ASSUME FInv, ReadBatch, UNCHANGED <<world, changes>>, Track(owed)
  PROVE  FInv' /\ \A i \in Len(got) + 1 .. Len(got') : got'[i] \in admitted
<1> DEFINE near == {c \in Rows : InCircle(c)}
           room == Limit - Len(req.items)
<1>1. /\ TypeOK /\ WorldOK' /\ changes' \in 0 .. MaxChanges
      /\ pc = "scan" /\ list = "feed" /\ ParseCursor \in Nat /\ owed \in SUBSET Rows
  <2>1. TypeOK /\ WorldOK'
    BY PartsAreTyped, WorldStays DEF FInv, WalkIsOrdered
  <2> QED
    BY <2>1, CursorIsNumber DEF FInv, TypeOK, ReadBatch, Requests
<1>2. /\ req \in [filters : Filters \cup {NoFilters}, at : Places \cup {Nowhere},
                  scan : Rows \cup {0}, items : Seq(Rows)]
      /\ Ascending(req.items) /\ req.items \in Seq(Rows) /\ Len(req.items) \in Nat
      /\ req.scan \in Rows \cup {0}
  <2>1. /\ req \in [filters : Filters \cup {NoFilters}, at : Places \cup {Nowhere},
                    scan : Rows \cup {0}, items : Seq(Rows)]
        /\ Ascending(req.items)
    BY DEF FInv, Requests
  <2>2. req.items \in Seq(Rows) /\ req.scan \in Rows \cup {0}
    BY <2>1
  <2> QED
    BY <2>1, <2>2, LenProperties
<1>3. req.scan \in Nat
  BY <1>2, ScanIsNumber
<1>4. Ascending(req.items) /\ req.items \in Seq(Rows) /\ Len(req.items) \in Nat
  BY <1>2
<1>5. /\ ParseCursor <= req.scan
      /\ \A i \in 1 .. Len(req.items) : ParseCursor < req.items[i] /\ req.items[i] <= req.scan
  BY <1>1 DEF FInv, ItemsBetween, Position
<1>6. \A o \in owed : o \in Members(got) \/ o \in Members(req.items) \/ req.scan < o
  BY <1>1 DEF FInv, NothingPassedOver, Position
<1>7. room \in Nat \ {0} /\ Len(req.items) + room = Limit
  BY <1>1, <1>2, LimitAssumption DEF TypeOK
<1>8. room \in Nat \ {0}
  BY <1>7
<1>9. Candidates \in SUBSET Rows /\ near \in SUBSET Rows
  BY DEF Candidates
<1>10. PICK rows, shown, items :
        /\ rows = Lowest(BatchSize, After(Candidates, req.scan))
        /\ shown = Lowest(room, {c \in rows : InCircle(c)})
        /\ items = req.items \o InOrder(shown)
        /\ IF Len(items) = Limit \/ Cardinality(rows) < BatchSize
             THEN Respond(items, IF HasNext(items, rows) THEN Last(items) ELSE NoCursor)
             ELSE /\ req' = [req EXCEPT !.items = items, !.scan = ScanCursor(rows, shown)]
                  /\ UNCHANGED <<list, pc, cursor, got>>
  BY DEF ReadBatch
<1>11. rows \in SUBSET Candidates
  BY <1>10 DEF Lowest, After
<1>12. shown = Lowest(room, rows \cap near)
  <2>1. {c \in rows : InCircle(c)} = rows \cap near
    BY <1>9, <1>11
  <2> QED
    BY <1>10, <2>1
<1>13. rows = Lowest(BatchSize, After(Candidates, req.scan))
  BY <1>10
<1>14. /\ \A c \in rows \cap near : c \in Admissible
       /\ \A c \in owed : c \in Candidates /\ c \in near
  <2>1. \A c \in rows \cap near : c \in Admissible
    BY <1>1, <1>11, FoundIsAdmissible
  <2>2. \A c \in owed : c \in Candidates /\ c \in near
    BY <1>1, BelongingIsFound DEF FInv, OwedBelongs
  <2> QED
    BY <2>1, <2>2
<1> HIDE DEF near, room
<1>15. rows \cap near \in SUBSET Rows
  BY <1>9
<1>16. /\ shown \in SUBSET rows /\ shown \subseteq near /\ IsFiniteSet(shown)
       /\ Cardinality(rows) \in Nat
  <2>1. PICK fit \in SUBSET Rows : fit = rows \cap near
    BY <1>15
  <2>2. shown = Lowest(room, fit)
    BY <1>12, <2>1
  <2>3. shown \in SUBSET fit /\ IsFiniteSet(shown)
    BY <1>8, <2>2, RowsOfPage
  <2>4. shown \in SUBSET (rows \cap near) /\ IsFiniteSet(shown)
    BY <2>1, <2>3
  <2>5. Cardinality(rows) \in Nat
    BY <1>9, <1>11, RowNumbers, FS_Subset, FS_CardinalityType
  <2> QED
    BY <2>4, <2>5
<1>17. \A c \in rows : req.scan < c
  BY <1>9, <1>13, <1>3, RowsOfBatch
<1>18. Cardinality(rows) < BatchSize => \A c \in Candidates : req.scan < c => c \in rows
  BY <1>9, <1>13, <1>3, RowsOfBatch
<1>19. Cardinality(rows) >= BatchSize => Max(rows) \in rows /\ \A c \in rows : c <= Max(rows)
  BY <1>9, <1>13, <1>3, RowsOfBatch
<1>20. \A c \in Candidates : req.scan < c => c \in rows \/ \A d \in rows : d < c
  BY <1>9, <1>13, <1>3, RowsOfBatch
<1>21. Cardinality(shown) \in Nat /\ Cardinality(shown) <= room
  BY <1>12, <1>8, <1>15, RowsOfPage
<1>22. Cardinality(shown) < room => shown = rows \cap near
  BY <1>12, <1>8, <1>15, RowsOfPage
<1>23. \A c \in rows \cap near : c \in shown \/ \A d \in shown : d < c
  <2>1. PICK fit \in SUBSET Rows : fit = rows \cap near
    BY <1>15
  <2>2. shown = Lowest(room, fit)
    BY <1>12, <2>1
  <2>3. \A c \in fit : c \in shown \/ \A d \in shown : d < c
    BY <1>8, <2>2, RowsOfPage
  <2> QED
    BY <2>1, <2>3
\* The items.
<1>24. items = Extended(req.items, shown)
  BY <1>10 DEF Extended
<1>25. shown \in SUBSET Rows /\ Rows \in SUBSET Int
  BY <1>9, <1>11, <1>16, RowNumbers
<1>26. IsFiniteSet(shown)
  BY <1>16
<1>27. EndsBefore(req.items, shown)
  <2> SUFFICES ASSUME NEW i \in 1 .. Len(req.items), NEW x \in shown PROVE req.items[i] < x
    BY DEF EndsBefore
  <2>1. req.items[i] \in Int /\ req.items[i] <= req.scan
    BY <1>4, <1>5, <1>25, ElementOfSeq
  <2>2. x \in Int /\ req.scan < x
    BY <1>16, <1>17, <1>25
  <2> QED
    BY <1>3, <2>1, <2>2
<1>28. items \in Seq(Rows) /\ Ascending(items)
  BY <1>4, <1>26, <1>24, <1>25, <1>27, GoingOn
<1>29. \A x : x \in Members(items) <=> x \in Members(req.items) \/ x \in shown
  BY <1>4, <1>26, <1>24, <1>25, <1>27, GoingOn
<1>30. Len(items) \in Nat /\ Len(items) = Len(req.items) + Cardinality(shown)
  <2>1. InOrder(shown) \in Seq(Rows)
    BY <1>25, <1>26, PageIsInOrder
  <2>2. Len(InOrder(shown)) = Cardinality(shown)
    BY <1>25, <1>26, PageIsInOrder
  <2>3. Len(items) = Len(req.items) + Len(InOrder(shown))
    BY <1>24, <1>4, <2>1, ConcatProperties DEF Extended
  <2> QED
    BY <1>28, <2>2, <2>3, LenProperties
<1>31. \A i \in 1 .. Len(items) : ParseCursor < items[i]
  <2> SUFFICES ASSUME NEW x \in Members(items) PROVE ParseCursor < x
    BY DEF Members
  <2>1. CASE x \in Members(req.items)
    BY <1>5, <2>1 DEF Members
  <2>2. CASE x \in shown
    <3>1. x \in Int /\ req.scan < x
      BY <1>16, <1>17, <1>25, <2>2
    <3> QED
      BY <1>1, <1>3, <1>5, <3>1
  <2> QED
    BY <1>29, <2>1, <2>2
<1>32. \A x \in Members(items) : x \in admitted
  BY <1>1, <1>14, <1>16, <1>29 DEF FInv, ItemsAdmitted
<1>33. Len(items) <= Limit /\ (Len(items) # Limit => shown = rows \cap near)
  BY <1>7, <1>21, <1>22, <1>30
<1>34. ASSUME NEW o \in owed, o \notin Members(got), o \notin Members(items)
       PROVE  /\ req.scan < o /\ \A d \in shown : d < o
              /\ Len(items) = Limit \/ (Cardinality(rows) >= BatchSize /\ Max(rows) < o)
              /\ Cardinality(rows) < BatchSize => Len(items) = Limit
  <2>1. req.scan < o /\ o \in Candidates /\ o \in near /\ o \notin shown
    BY <1>6, <1>14, <1>29, <1>34
  <2>2. CASE o \in rows
    <3>1. o \in rows \cap near
      BY <2>1, <2>2
    <3>2. \A d \in shown : d < o
      BY <1>23, <2>1, <3>1
    <3>3. Len(items) = Limit
      BY <1>33, <2>1, <3>1
    <3>4. req.scan < o
      BY <2>1
    <3> QED
      BY <3>2, <3>3, <3>4
  <2>3. CASE o \notin rows
    <3>1. \A d \in shown : d < o
      BY <1>16, <1>20, <2>1, <2>3
    <3>2. ~ Cardinality(rows) < BatchSize
      BY <1>18, <2>1, <2>3
    <3>3. Cardinality(rows) >= BatchSize
      BY <1>16, <3>2, LimitAssumption DEF BatchSize
    <3>4. Max(rows) < o
      BY <1>19, <1>20, <2>1, <2>3, <3>3
    <3> QED
      BY <2>1, <3>1, <3>2, <3>3, <3>4
  <2> QED
    BY <2>2, <2>3
<1>35. CASE Len(items) = Limit \/ Cardinality(rows) < BatchSize
  <2> DEFINE next == IF HasNext(items, rows) THEN Last(items) ELSE NoCursor
  <2>1. Respond(items, next)
    BY <1>10, <1>35
  <2>2. Len(items) = Limit => items # <<>> /\ next = items[Len(items)]
    BY LimitAssumption, EmptySeq DEF HasNext, Last
  <2>3. Len(items) # Limit => next = NoCursor
    BY DEF HasNext
  <2> HIDE DEF next
  <2>4. Len(items) = Limit => next \in Rows /\ next \in Members(items)
    BY <1>25, <1>28, <2>2, LastIsGreatest
  <2>5. next \in Rows \cup {NoCursor} /\ (next # NoCursor => items # <<>> /\ next = items[Len(items)])
    BY <2>2, <2>3, <2>4
  <2>6. \A o \in owed : o \in Members(got) \/ o \in Members(items) \/ (next # NoCursor /\ next < o)
    <3> SUFFICES ASSUME NEW o \in owed, o \notin Members(got), o \notin Members(items)
                 PROVE  next # NoCursor /\ next < o
      OBVIOUS
    <3>1. /\ req.scan < o /\ \A d \in shown : d < o
          /\ Len(items) = Limit
      BY <1>34, <1>35
    <3>2. next \in Rows /\ next \in Members(items) /\ next # NoCursor
      BY <2>4, <3>1, CursorAssumption
    <3>3. CASE next \in shown
      BY <3>1, <3>2, <3>3
    <3>4. CASE next \in Members(req.items)
      <4>1. next <= req.scan
        BY <1>5, <3>4 DEF Members
      <4>2. next \in Int /\ o \in Int
        BY <1>1, <1>25, <3>2
      <4> QED
        BY <1>3, <3>1, <3>2, <4>1, <4>2
    <3> QED
      BY <1>29, <3>2, <3>3, <3>4
  <2>7. FInv' /\ \A i \in Len(got) + 1 .. Len(got') : got'[i] \in Members(items)
    BY <1>1, <1>28, <1>31, <2>1, <2>5, <2>6, RespondKeeps
  <2> QED
    BY <1>32, <2>7
<1>36. CASE ~ (Len(items) = Limit \/ Cardinality(rows) < BatchSize)
  <2>1. /\ req' = [req EXCEPT !.items = items, !.scan = Max(rows)]
        /\ UNCHANGED <<list, pc, cursor, got>>
    BY <1>10, <1>36 DEF ScanCursor
  <2>2. Len(items) < Limit /\ Cardinality(rows) >= BatchSize
    BY <1>16, <1>30, <1>33, <1>36, LimitAssumption DEF BatchSize
  <2>3. /\ Max(rows) \in rows /\ Max(rows) \in Rows /\ Max(rows) \in Int /\ req.scan < Max(rows)
        /\ \A c \in rows : c <= Max(rows)
    BY <1>9, <1>11, <1>17, <1>19, <1>25, <2>2
  <2>4. /\ req' \in [filters : Filters \cup {NoFilters}, at : Places \cup {Nowhere},
                     scan : Rows \cup {0}, items : Seq(Rows)]
        /\ req'.items = items /\ req'.scan = Max(rows)
    BY <1>2, <1>28, <2>1, <2>3
  <2>5. ParseCursor' = ParseCursor /\ Position' = Max(rows) /\ pc' = "scan"
    BY <1>1, <2>1, <2>4 DEF ParseCursor, Position
  <2>6. Requests'
    BY <1>1, <1>28, <2>1, <2>4, <2>5 DEF Requests
  <2>7. ItemsBetween'
    <3>1. ASSUME NEW x \in Members(items) PROVE x <= Max(rows)
      <4>1. CASE x \in shown
        BY <1>16, <2>3, <4>1
      <4>2. CASE x \in Members(req.items)
        <5>1. PICK i \in 1 .. Len(req.items) : x = req.items[i]
          BY <4>2 DEF Members
        <5>2. x \in Int /\ x <= req.scan
          BY <1>4, <1>5, <1>25, <5>1, ElementOfSeq
        <5> QED
          BY <1>3, <2>3, <5>2
      <4> QED
        BY <1>29, <3>1, <4>1, <4>2
    <3>2. \A i \in 1 .. Len(items) : items[i] <= Max(rows)
      BY <3>1 DEF Members
    <3>3. ParseCursor <= Max(rows)
      BY <1>1, <1>3, <1>5, <2>3
    <3> QED
      BY <1>31, <2>4, <2>5, <3>2, <3>3 DEF ItemsBetween
  <2>8. \A o \in owed : o \in Members(got) \/ o \in Members(req'.items) \/ Position' < o
    BY <1>34, <1>36, <2>4, <2>5
  <2>9. \A x \in Members(req'.items) : x \in admitted'
    <3>1. admitted \subseteq admitted'
      BY <1>1, Tracked
    <3> QED
      BY <1>32, <2>4, <3>1
  <2>10. FInv' /\ got' = got
    BY <1>1, <2>1, <2>2, <2>4, <2>5, <2>6, <2>7, <2>8, <2>9, StillWalking
  <2>11. Len(got) + 1 .. Len(got') = {}
    BY <1>1, <2>10, LenProperties DEF TypeOK
  <2> QED
    BY <2>10, <2>11
<1> QED
  BY <1>35, <1>36

-----------------------------------------------------------------------------

\* What the feed adds to the pages was admitted.
ShowsAdmissible ==
  list = "feed" => \A i \in Len(got) + 1 .. Len(got') : got'[i] \in admitted

\* A step that leaves the pages alone, or forgets them, shows nobody.
LEMMA NothingAdded ==
  ASSUME FInv, got' = got \/ got' = <<>> PROVE ShowsAdmissible
<1>1. got \in Seq(Rows)
  BY DEF FInv, WalkIsOrdered, TypeOK
<1>2. Len(got) \in Nat /\ (Len(got') = Len(got) \/ Len(got') = 0)
  BY <1>1, LenProperties, EmptySeq
<1>3. \A i \in Len(got) + 1 .. Len(got') : FALSE
  BY <1>2
<1> QED
  BY <1>3 DEF ShowsAdmissible

\* Each action of Next keeps the invariant and shows only the admissible.
LEMMA StepKeeps ==
  ASSUME FInv, [Next]_vars PROVE FInv' /\ ShowsAdmissible
<1>1. CASE Answer /\ UNCHANGED <<world, changes>> /\ Track(owed)
  <2>1. CASE ReadFilters
    BY <1>1, <2>1, ReadFiltersKeeps, NothingAdded
  <2>2. CASE ReadProfile
    BY <1>1, <2>2, ReadProfileKeeps, NothingAdded
  <2>3. CASE ReadBatch
    BY <1>1, <2>3, ReadBatchKeeps DEF ShowsAdmissible
  <2>4. CASE ReadPage("likes", IncomingLikes)
    <3>1. IncomingLikes \in SUBSET Rows
      BY DEF FInv, WalkIsOrdered, TypeOK, IncomingLikes
    <3>2. list = "likes"
      BY <2>4 DEF ReadPage
    <3>3. \A c \in owed : Belongs(c) => c \in IncomingLikes
      BY <3>2 DEF Belongs
    <3> QED
      BY <1>1, <2>4, <3>1, <3>3, ReadPageKeeps DEF ShowsAdmissible
  <2>5. CASE ReadPage("chats", ActiveChats)
    <3>1. ActiveChats \in SUBSET Rows
      BY DEF ActiveChats
    <3>2. list = "chats"
      BY <2>5 DEF ReadPage
    <3>3. \A c \in owed : Belongs(c) => c \in ActiveChats
      BY <3>2 DEF Belongs
    <3> QED
      BY <1>1, <2>5, <3>1, <3>3, ReadPageKeeps DEF ShowsAdmissible
  <2> QED
    BY <1>1, <2>1, <2>2, <2>3, <2>4, <2>5 DEF Answer
<1>2. CASE Fail /\ UNCHANGED <<world, changes>> /\ Track(owed)
  BY <1>2, GivingUpKeeps, NothingAdded DEF Fail
<1>3. CASE StartWalk /\ UNCHANGED <<world, changes>> /\ Track(Rows)
  BY <1>3, StartWalkKeeps, NothingAdded
<1>4. CASE /\ changes < MaxChanges /\ changes' = changes + 1
           /\ Change /\ UNCHANGED walk /\ Track(owed)
  BY <1>4, ChangeKeeps, NothingAdded
<1>5. CASE UNCHANGED vars
  <2>1. /\ UNCHANGED world /\ UNCHANGED <<changes, list, pc, req, cursor, got, owed, admitted>>
        /\ UNCHANGED <<profile, viewer, filters, liked, likedBy, bans, permanent, chat>>
    BY <1>5 DEF vars, walk, world
  <2>2. TypeOK'
    BY <2>1 DEF FInv, WalkIsOrdered, TypeOK
  <2>3. WalkIsOrdered' /\ WalkIsComplete' /\ GotBeforeCursor' /\ Requests'
    BY <2>1, <2>2 DEF FInv, WalkIsOrdered, WalkIsComplete, GotBeforeCursor, Requests, ParseCursor
  <2>4. ParseCursor' = ParseCursor /\ Position' = Position
    BY <2>1 DEF ParseCursor, Position
  <2>5. ItemsBetween' /\ NothingPassedOver'
    BY <2>1, <2>4 DEF FInv, ItemsBetween, NothingPassedOver, Members
  <2>6. OwedBelongs'
    BY <2>1 DEF FInv, OwedBelongs, Belongs, Found, Recommended, Reachable, IncomingLikes,
                ActiveChats, IsActive, HasProfile, HasPlace, NotExcluded
  <2>7. ItemsAdmitted'
    BY <2>1 DEF FInv, ItemsAdmitted, Members, Admissible, Recommended, IsActive, HasProfile, HasPlace
  <2>8. ShowsAdmissible
    BY <2>1, NothingAdded
  <2> QED
    BY <2>3, <2>5, <2>6, <2>7, <2>8 DEF FInv
<1> QED
  BY <1>1, <1>2, <1>3, <1>4, <1>5 DEF Next

\* The invariant holds whatever other requests change between two queries.
THEOREM FeedInvariant == Spec => []FInv
<1>1. FInv /\ [Next]_vars => FInv'
  BY StepKeeps
<1> QED
  BY InitFInv, <1>1, PTL DEF Spec

\* The pages of a walk are in order and without repetition, with an item or a
\* place less than a page in the request under way.
THEOREM ListsAreOrdered == Spec => []WalkIsOrdered
<1>1. FInv => WalkIsOrdered
  BY DEF FInv
<1> QED
  BY <1>1, FeedInvariant, PTL

\* A walk that came to its end has returned every row that belonged to its list
\* all the time.
THEOREM ListsAreComplete == Spec => []WalkIsComplete
<1>1. FInv => WalkIsComplete
  BY DEF FInv
<1> QED
  BY <1>1, FeedInvariant, PTL

\* The feed shows only whom the request was allowed to show at some moment.
THEOREM FeedShowsAdmissible == Spec => ShownWereAdmissible
<1>1. FInv /\ [Next]_vars => [ShowsAdmissible]_vars
  BY StepKeeps
<1> QED
  BY <1>1, FeedInvariant, PTL DEF Spec, ShownWereAdmissible, ShowsAdmissible
=============================================================================
