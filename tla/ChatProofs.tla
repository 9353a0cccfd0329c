----------------------------- MODULE ChatProofs -----------------------------
(***************************************************************************)
(* Any number of messages, of users and of items on a page: no message is  *)
(* in a chat that was closed before it was sent, and a walk through the    *)
(* pages is in order and misses nothing that was there when it began.      *)
(***************************************************************************)
EXTENDS Chat, NumberSetTheorems, TLAPS

\* A message on its way, or there, was sent while the chat was open.
SentWhileOpen ==
  \A m \in Messages :
    state[m] \in {"begun", "numbered", "visible"} /\ closedAt # 0 => created[m] < closedAt

\* A number is taken from the sequence once, and kept.
NumbersOfMessages ==
  \A m \in Messages :
    /\ state[m] \in {"new", "begun"} => id[m] = 0
    /\ state[m] \in {"numbered", "visible"} => id[m] # 0

\* Every number of the sequence went to some message, which bounds it.
NumbersAreUsed == \A i \in 1 .. lastID : \E m \in Messages : id[m] = i

VisibleNumbers == {id[m] : m \in Visible}

\* What the walk began with is there still.
OwedIsVisible == owed \subseteq VisibleNumbers

\* Between pages, the pages so far end at the cursor, and what is still owed
\* lies behind it.
CursorDivides ==
  walk = "paging" =>
    /\ \A i \in 1 .. Len(got) : got[i] <= cursor
    /\ \A o \in owed : o \in Members(got) \/ o > cursor

\* The inductive invariant.
ChInv ==
  /\ TypeOK
  /\ SentWhileOpen /\ NumbersOfMessages /\ NumbersAreUsed
  /\ OwedIsVisible /\ CursorDivides
  /\ WalkIsOrdered /\ WalkIsComplete

-----------------------------------------------------------------------------
(* Operators. *)

\* Numbers that are all somebody's are no more than there are bodies.
LEMMA NumbersFit ==
  ASSUME NEW M, IsFiniteSet(M), NEW k \in Nat, NEW f \in [M -> Nat],
         \A i \in 1 .. k : \E m \in M : f[m] = i
  PROVE  k <= Cardinality(M)
<1> DEFINE U == {m \in M : f[m] \in 1 .. k}
           g == [m \in U |-> f[m]]
<1>1. U \in SUBSET M
  OBVIOUS
<1>2. IsFiniteSet(U) /\ Cardinality(U) <= Cardinality(M)
  BY <1>1, FS_Subset
<1>3. g \in [U -> 1 .. k] /\ \A i \in 1 .. k : \E m \in U : g[m] = i
  OBVIOUS
<1>4. g \in Surjection(U, 1 .. k)
  BY <1>3 DEF Surjection
<1> HIDE DEF g, U
<1>5. Cardinality(1 .. k) <= Cardinality(U)
  BY <1>2, <1>4, FS_Surjection
<1>6. Cardinality(1 .. k) = IF 1 > k THEN 0 ELSE k - 1 + 1
  BY FS_Interval
<1>7. Cardinality(1 .. k) = k
  BY <1>6
<1>8. Cardinality(U) \in Nat /\ Cardinality(M) \in Nat
  BY <1>2, MessagesAssumption, FS_CardinalityType
<1> QED
  BY <1>2, <1>5, <1>7, <1>8

\* What came before one moment came before a later one.
LEMMA EarlierIsEarlier ==
  ASSUME NEW t \in Nat, NEW u \in Nat, t <= u
  PROVE  \A x \in 0 .. t - 1 : x \in 0 .. u - 1
  OBVIOUS

\* The walk depends on which messages are visible, and a message that is stays
\* so with its number.
LEMMA WalkStays ==
  ASSUME ChInv, UNCHANGED paging,
         \A m \in Visible : m \in Visible' /\ id'[m] = id[m]
  PROVE  OwedIsVisible' /\ CursorDivides' /\ WalkIsOrdered' /\ WalkIsComplete'
<1>1. walk' = walk /\ cursor' = cursor /\ got' = got /\ owed' = owed
  BY DEF paging
<1>2. OwedIsVisible'
  BY <1>1 DEF ChInv, OwedIsVisible, VisibleNumbers
<1>3. CursorDivides'
  BY <1>1 DEF ChInv, CursorDivides, Members
<1>4. WalkIsOrdered' /\ WalkIsComplete'
  BY <1>1 DEF ChInv, WalkIsOrdered, WalkIsComplete
<1> QED
  BY <1>2, <1>3, <1>4

\* The types of the walk, whatever the sequence has grown to.
LEMMA WalkTypes ==
  ASSUME TypeOK, UNCHANGED paging, lastID' \in Nat, lastID <= lastID'
  PROVE  /\ walk' \in {"idle", "paging", "done"}
         /\ cursor' \in 0 .. lastID' /\ got' \in Seq(1 .. lastID') /\ owed' \subseteq 1 .. lastID'
<1>1. /\ walk' = walk /\ cursor' = cursor /\ got' = got /\ owed' = owed
      /\ lastID \in Nat
      /\ cursor \in 0 .. lastID /\ got \in Seq(1 .. lastID) /\ owed \subseteq 1 .. lastID
      /\ walk \in {"idle", "paging", "done"}
  <2>1. lastID \in Nat
    BY MessagesAssumption, FS_CardinalityType DEF TypeOK
  <2> QED
    BY <2>1 DEF TypeOK, paging
<1>2. got \in [1 .. Len(got) -> 1 .. lastID] /\ Len(got) \in Nat
  BY <1>1
<1>3. got \in [1 .. Len(got) -> 1 .. lastID']
  BY <1>1, <1>2
<1>4. got \in Seq(1 .. lastID')
  BY <1>2, <1>3
<1> QED
  BY <1>1, <1>4

-----------------------------------------------------------------------------
(* Sending. *)

\* A chat without messages, walked by nobody.
LEMMA InitChInv == Init => ChInv
<1> SUFFICES ASSUME Init PROVE ChInv
  OBVIOUS
<1>1. Cardinality(Messages) \in Nat
  BY MessagesAssumption, FS_CardinalityType
<1>2. TypeOK
  BY <1>1 DEF Init, TypeOK, Visible
<1>3. SentWhileOpen /\ NumbersOfMessages /\ NumbersAreUsed
  BY DEF Init, SentWhileOpen, NumbersOfMessages, NumbersAreUsed
<1>4. OwedIsVisible /\ CursorDivides /\ WalkIsOrdered /\ WalkIsComplete
  BY DEF Init, OwedIsVisible, CursorDivides, WalkIsOrdered, WalkIsComplete
<1> QED
  BY <1>2, <1>3, <1>4 DEF ChInv

\* The snapshot of an INSERT is taken while the chat is open.
LEMMA BeginKeeps ==
  ASSUME ChInv, NEW m \in Messages, Begin(m) PROVE ChInv'
<1>1. /\ Cardinality(Messages) \in Nat /\ lastID \in Nat /\ TypeOK
      /\ state[m] = "new" /\ id[m] = 0
      /\ UNCHANGED <<closedAt, id, lastID, read, marking>> /\ UNCHANGED paging
  BY MessagesAssumption, FS_CardinalityType DEF ChInv, TypeOK, NumbersOfMessages, Begin
<1>2. PICK s \in {"begun", "refused"} :
        state' = [state EXCEPT ![m] = s] /\ (s = "begun" => closedAt = 0)
  BY DEF Begin, ChatIsActive
<1>3. Visible' = Visible
  BY <1>1, <1>2 DEF Visible, TypeOK
<1>4. created' = [created EXCEPT ![m] = clock] /\ clock' = clock + 1
  BY DEF Begin
<1>5. TypeOK'
  <2>1. /\ clock' \in Nat \ {0} /\ closedAt' \in 0 .. clock' - 1 /\ marking' \in 0 .. clock' - 1
        /\ created' \in [Messages -> 0 .. clock' - 1]
    BY <1>1, <1>4 DEF TypeOK
  <2>2. state' \in [Messages -> {"new", "begun", "numbered", "visible", "refused", "failed"}]
    BY <1>1, <1>2 DEF TypeOK
  <2>3. /\ walk' \in {"idle", "paging", "done"}
        /\ cursor' \in 0 .. lastID' /\ got' \in Seq(1 .. lastID') /\ owed' \subseteq 1 .. lastID'
    BY <1>1, WalkTypes
  <2> QED
    BY <1>1, <1>3, <2>1, <2>2, <2>3 DEF TypeOK
<1>6. SentWhileOpen'
  <2> SUFFICES ASSUME NEW x \in Messages, state'[x] \in {"begun", "numbered", "visible"}, closedAt # 0
               PROVE  created'[x] < closedAt
    BY <1>1 DEF SentWhileOpen
  <2>1. x # m
    BY <1>1, <1>2 DEF TypeOK
  <2> QED
    BY <1>1, <1>2, <1>4, <2>1 DEF ChInv, SentWhileOpen, TypeOK
<1>7. NumbersOfMessages' /\ NumbersAreUsed'
  BY <1>1, <1>2 DEF ChInv, NumbersOfMessages, NumbersAreUsed, TypeOK
<1>8. OwedIsVisible' /\ CursorDivides' /\ WalkIsOrdered' /\ WalkIsComplete'
  BY <1>1, <1>3, WalkStays
<1> QED
  BY <1>5, <1>6, <1>7, <1>8 DEF ChInv

\* The sequence gives a number that no message has, past every page.
LEMMA NumberKeeps ==
  ASSUME ChInv, NEW m \in Messages, Number(m) PROVE ChInv'
<1>1. /\ Cardinality(Messages) \in Nat /\ lastID \in Nat /\ TypeOK
      /\ state[m] = "begun" /\ id[m] = 0
      /\ UNCHANGED <<clock, closedAt, created, read, marking>> /\ UNCHANGED paging
      /\ id \in [Messages -> 0 .. lastID]
  BY MessagesAssumption, FS_CardinalityType DEF ChInv, TypeOK, NumbersOfMessages, Number
<1>2. /\ lastID' = lastID + 1 /\ id' = [id EXCEPT ![m] = lastID + 1]
      /\ state' = [state EXCEPT ![m] = "numbered"]
  BY DEF Number
<1>3. Visible' = Visible /\ \A x \in Visible : id'[x] = id[x]
  BY <1>1, <1>2 DEF Visible, TypeOK
<1>4. NumbersAreUsed'
  <2> SUFFICES ASSUME NEW i \in 1 .. lastID' PROVE \E x \in Messages : id'[x] = i
    BY DEF NumbersAreUsed
  <2>1. CASE i = lastID + 1
    BY <1>1, <1>2, <2>1
  <2>2. CASE i # lastID + 1
    <3>1. i \in 1 .. lastID
      BY <1>1, <1>2, <2>2
    <3>2. PICK x \in Messages : id[x] = i
      BY <3>1 DEF ChInv, NumbersAreUsed
    <3>3. x # m
      BY <1>1, <3>1, <3>2
    <3> QED
      BY <1>1, <1>2, <3>2, <3>3
  <2> QED
    BY <2>1, <2>2
<1>5. id' \in [Messages -> 0 .. lastID']
  BY <1>1, <1>2
<1>6. lastID' \in 0 .. Cardinality(Messages)
  <2>1. lastID' \in Nat /\ id' \in [Messages -> Nat]
    BY <1>1, <1>2, <1>5
  <2>2. \A i \in 1 .. lastID' : \E x \in Messages : id'[x] = i
    BY <1>4 DEF NumbersAreUsed
  <2>3. lastID' <= Cardinality(Messages)
    BY <2>1, <2>2, MessagesAssumption, NumbersFit
  <2> QED
    BY <1>1, <2>1, <2>3
<1>7. TypeOK'
  <2>1. state' \in [Messages -> {"new", "begun", "numbered", "visible", "refused", "failed"}]
    BY <1>1, <1>2 DEF TypeOK
  <2>2. /\ walk' \in {"idle", "paging", "done"}
        /\ cursor' \in 0 .. lastID' /\ got' \in Seq(1 .. lastID') /\ owed' \subseteq 1 .. lastID'
    BY <1>1, <1>2, WalkTypes
  <2> QED
    BY <1>1, <1>3, <1>5, <1>6, <2>1, <2>2 DEF TypeOK
<1>8. SentWhileOpen'
  BY <1>1, <1>2 DEF ChInv, SentWhileOpen, TypeOK
<1>9. NumbersOfMessages'
  BY <1>1, <1>2 DEF ChInv, NumbersOfMessages, TypeOK
<1>10. OwedIsVisible' /\ CursorDivides' /\ WalkIsOrdered' /\ WalkIsComplete'
  BY <1>1, <1>3, WalkStays
<1> QED
  BY <1>4, <1>7, <1>8, <1>9, <1>10 DEF ChInv

\* A commit makes a message visible; a failure leaves a gap in the numbers.
LEMMA FinishKeeps ==
  ASSUME ChInv, NEW m \in Messages, Finish(m) PROVE ChInv'
<1>1. /\ lastID \in Nat /\ TypeOK
      /\ UNCHANGED <<clock, closedAt, created, id, lastID, read, marking>> /\ UNCHANGED paging
  BY MessagesAssumption, FS_CardinalityType DEF ChInv, TypeOK, Finish
<1>2. PICK s \in {"visible", "failed"} :
        /\ state' = [state EXCEPT ![m] = s]
        /\ state[m] \in {"begun", "numbered"} /\ (s = "visible" => state[m] = "numbered")
  BY DEF Finish
<1>3. \A x \in Visible : x \in Visible'
  BY <1>1, <1>2 DEF Visible, TypeOK
<1>4. TypeOK'
  <2>1. state' \in [Messages -> {"new", "begun", "numbered", "visible", "refused", "failed"}]
    BY <1>1, <1>2 DEF TypeOK
  <2>2. read' \subseteq {x \in Visible' : Sender[x] # Reader}
    BY <1>1, <1>3 DEF TypeOK
  <2>3. /\ walk' \in {"idle", "paging", "done"}
        /\ cursor' \in 0 .. lastID' /\ got' \in Seq(1 .. lastID') /\ owed' \subseteq 1 .. lastID'
    BY <1>1, WalkTypes
  <2> QED
    BY <1>1, <2>1, <2>2, <2>3 DEF TypeOK
<1>5. SentWhileOpen'
  BY <1>1, <1>2 DEF ChInv, SentWhileOpen, TypeOK
<1>6. NumbersOfMessages' /\ NumbersAreUsed'
  BY <1>1, <1>2 DEF ChInv, NumbersOfMessages, NumbersAreUsed, TypeOK
<1>7. OwedIsVisible' /\ CursorDivides' /\ WalkIsOrdered' /\ WalkIsComplete'
  BY <1>1, <1>3, WalkStays
<1> QED
  BY <1>4, <1>5, <1>6, <1>7 DEF ChInv

\* Whatever was sent was sent before the moment of the block.
LEMMA CloseKeeps ==
  ASSUME ChInv, Close PROVE ChInv'
<1>1. /\ lastID \in Nat /\ TypeOK /\ closedAt' = clock /\ clock' = clock + 1
      /\ UNCHANGED post /\ UNCHANGED <<state, created, id, lastID, read, marking>>
      /\ UNCHANGED paging
  BY MessagesAssumption, FS_CardinalityType DEF ChInv, TypeOK, Close, post
<1>2. Visible' = Visible
  BY <1>1 DEF Visible
<1>3. TypeOK'
  <2>1. /\ clock' \in Nat \ {0} /\ closedAt' \in 0 .. clock' - 1 /\ marking' \in 0 .. clock' - 1
        /\ created' \in [Messages -> 0 .. clock' - 1]
    BY <1>1 DEF TypeOK
  <2>2. /\ walk' \in {"idle", "paging", "done"}
        /\ cursor' \in 0 .. lastID' /\ got' \in Seq(1 .. lastID') /\ owed' \subseteq 1 .. lastID'
    BY <1>1, WalkTypes
  <2> QED
    BY <1>1, <1>2, <2>1, <2>2 DEF TypeOK
<1>4. SentWhileOpen'
  BY <1>1 DEF SentWhileOpen, TypeOK
<1>5. NumbersOfMessages' /\ NumbersAreUsed'
  BY <1>1 DEF ChInv, NumbersOfMessages, NumbersAreUsed
<1>6. OwedIsVisible' /\ CursorDivides' /\ WalkIsOrdered' /\ WalkIsComplete'
  BY <1>1, <1>2, WalkStays
<1> QED
  BY <1>3, <1>4, <1>5, <1>6 DEF ChInv

-----------------------------------------------------------------------------
(* Reading. *)

\* Marking read touches flags and times only.
LEMMA MarkReadKeeps ==
  ASSUME ChInv, BeginMarkRead \/ UpdateRead PROVE ChInv'
<1>1. /\ lastID \in Nat /\ TypeOK
      /\ closedAt' = closedAt /\ UNCHANGED <<state, created, id, lastID>> /\ UNCHANGED paging
  BY MessagesAssumption, FS_CardinalityType DEF ChInv, TypeOK, BeginMarkRead, UpdateRead, post
<1>2. Visible' = Visible
  BY <1>1 DEF Visible
<1>3. /\ clock' \in Nat \ {0} /\ clock <= clock' /\ marking' \in 0 .. clock' - 1
      /\ read' \subseteq {x \in Visible : Sender[x] # Reader}
  BY <1>1 DEF TypeOK, BeginMarkRead, UpdateRead, Unread, Visible
<1>4. TypeOK'
  <2>1. closedAt' \in 0 .. clock' - 1 /\ created' \in [Messages -> 0 .. clock' - 1]
    <3>1. clock \in Nat /\ clock' \in Nat /\ closedAt \in 0 .. clock - 1 /\ created \in [Messages -> 0 .. clock - 1]
      BY <1>1, <1>3 DEF TypeOK
    <3>2. clock <= clock'
      BY <1>3
    <3>3. \A x \in 0 .. clock - 1 : x \in 0 .. clock' - 1
      BY <3>1, <3>2, EarlierIsEarlier
    <3> QED
      BY <1>1, <3>1, <3>3
  <2>2. /\ walk' \in {"idle", "paging", "done"}
        /\ cursor' \in 0 .. lastID' /\ got' \in Seq(1 .. lastID') /\ owed' \subseteq 1 .. lastID'
    BY <1>1, WalkTypes
  <2> QED
    BY <1>1, <1>2, <1>3, <2>1, <2>2 DEF TypeOK
<1>5. SentWhileOpen' /\ NumbersOfMessages' /\ NumbersAreUsed'
  BY <1>1 DEF ChInv, SentWhileOpen, NumbersOfMessages, NumbersAreUsed
<1>6. OwedIsVisible' /\ CursorDivides' /\ WalkIsOrdered' /\ WalkIsComplete'
  BY <1>1, <1>2, WalkStays
<1> QED
  BY <1>4, <1>5, <1>6 DEF ChInv

\* What a step of the walk leaves alone.
LEMMA OnlyTheWalk ==
  ASSUME ChInv, UNCHANGED <<clock, closedAt, post, read, marking>>
  PROVE  /\ SentWhileOpen' /\ NumbersOfMessages' /\ NumbersAreUsed'
         /\ Visible' = Visible /\ VisibleNumbers' = VisibleNumbers
         /\ lastID' = lastID /\ lastID \in Nat
         /\ VisibleNumbers \in SUBSET (1 .. lastID)
<1>1. UNCHANGED <<clock, closedAt, state, created, id, lastID, read, marking>>
  BY DEF post
<1>2. SentWhileOpen' /\ NumbersOfMessages' /\ NumbersAreUsed'
  BY <1>1 DEF ChInv, SentWhileOpen, NumbersOfMessages, NumbersAreUsed
<1>3. Visible' = Visible
  BY <1>1 DEF Visible
<1>4. VisibleNumbers' = VisibleNumbers
  BY <1>1, <1>3 DEF VisibleNumbers
<1>5. lastID \in Nat
  BY MessagesAssumption, FS_CardinalityType DEF ChInv, TypeOK
<1>6. \A m \in Visible : id[m] \in 1 .. lastID
  BY <1>5 DEF ChInv, TypeOK, NumbersOfMessages, Visible
<1> QED
  BY <1>1, <1>2, <1>3, <1>4, <1>5, <1>6 DEF VisibleNumbers

\* A walk begins owing every visible message, all behind cursor 0.
LEMMA StartWalkKeeps ==
  ASSUME ChInv, StartWalk PROVE ChInv'
<1>1. /\ walk' = "paging" /\ cursor' = 0 /\ got' = <<>> /\ owed' = VisibleNumbers
      /\ UNCHANGED <<clock, closedAt, post, read, marking>>
  BY DEF StartWalk, VisibleNumbers
<1>2. /\ SentWhileOpen' /\ NumbersOfMessages' /\ NumbersAreUsed'
      /\ Visible' = Visible /\ VisibleNumbers' = VisibleNumbers
      /\ lastID' = lastID /\ lastID \in Nat
      /\ VisibleNumbers \in SUBSET (1 .. lastID)
  BY <1>1, OnlyTheWalk
<1>3. TypeOK'
  BY <1>1, <1>2 DEF ChInv, TypeOK, post
<1>4. OwedIsVisible' /\ WalkIsOrdered' /\ WalkIsComplete'
  BY <1>1, <1>2 DEF OwedIsVisible, WalkIsOrdered, WalkIsComplete
<1>5. CursorDivides'
  BY <1>1, <1>2 DEF CursorDivides
<1> QED
  BY <1>2, <1>3, <1>4, <1>5 DEF ChInv

\* A page takes up where the last one ended.
LEMMA PageKeeps ==
  ASSUME ChInv, Page PROVE ChInv'
<1> DEFINE S == AfterCursor
           rows == Lowest(Limit + 1, S)
           page == Lowest(Limit, rows)
           A == 1 .. lastID
<1>1. /\ walk = "paging" /\ owed' = owed
      /\ UNCHANGED <<clock, closedAt, post, read, marking>>
  BY DEF Page
<1>2. got' = Extended(got, page)
  BY DEF Page, Extended
<1>3. \/ Cardinality(rows) > Limit /\ cursor' = Max(page) /\ walk' = walk
      \/ Cardinality(rows) <= Limit /\ walk' = "done" /\ cursor' = cursor
  BY DEF Page, NextCursor
<1>4. /\ SentWhileOpen' /\ NumbersOfMessages' /\ NumbersAreUsed'
      /\ Visible' = Visible /\ VisibleNumbers' = VisibleNumbers
      /\ lastID' = lastID /\ lastID \in Nat
      /\ VisibleNumbers \in SUBSET A
  BY <1>1, OnlyTheWalk
<1>5. S = {n \in VisibleNumbers : n > cursor}
  BY DEF AfterCursor, VisibleNumbers
<1>6. /\ cursor \in 0 .. lastID /\ got \in Seq(A) /\ A \in SUBSET Int
      /\ owed \in SUBSET VisibleNumbers
      /\ \A i \in 1 .. Len(got) : got[i] <= cursor
      /\ \A o \in owed : o \in Members(got) \/ o > cursor
      /\ Ascending(got)
  BY <1>1, <1>4 DEF ChInv, TypeOK, OwedIsVisible, CursorDivides, WalkIsOrdered, Ascending
<1>7. S \in SUBSET A /\ IsFiniteSet(S)
  <2>1. S \in SUBSET A
    BY <1>4, <1>5
  <2>2. IsFiniteSet(A)
    BY <1>4, FS_Interval
  <2> QED
    BY <2>1, <2>2, FS_Subset
<1> HIDE DEF S
<1>8. rows = Lowest(Limit + 1, S) /\ page = Lowest(Limit, rows)
  OBVIOUS
<1> HIDE DEF rows, page
<1>9. /\ page \in SUBSET S /\ IsFiniteSet(page) /\ Cardinality(rows) \in Nat
      /\ Cardinality(rows) > Limit =>
           /\ Max(page) \in page
           /\ \A x \in page : x <= Max(page)
           /\ \A x \in S \ page : Max(page) < x
      /\ Cardinality(rows) <= Limit => page = S
  <2>1. S \in SUBSET Int
    BY <1>6, <1>7
  <2>2. page \in SUBSET S /\ IsFiniteSet(page) /\ Cardinality(rows) \in Nat
    BY <1>7, <1>8, <2>1, LimitAssumption, PageOf
  <2>3. Cardinality(rows) > Limit => Max(page) \in page
    BY <1>7, <1>8, <2>1, LimitAssumption, PageOf
  <2>4. Cardinality(rows) > Limit => \A x \in page : x <= Max(page)
    BY <1>7, <1>8, <2>1, LimitAssumption, PageOf
  <2>5. Cardinality(rows) > Limit => \A x \in S \ page : Max(page) < x
    BY <1>7, <1>8, <2>1, LimitAssumption, PageOf
  <2>6. Cardinality(rows) <= Limit => page = S
    BY <1>7, <1>8, <2>1, LimitAssumption, PageOf
  <2> QED
    BY <2>2, <2>3, <2>4, <2>5, <2>6
<1>10. page \in SUBSET A /\ EndsBefore(got, page)
  <2>1. page \in SUBSET A
    BY <1>7, <1>9
  <2>2. ASSUME NEW i \in 1 .. Len(got), NEW x \in page PROVE got[i] < x
    <3>1. x \in Int /\ x > cursor /\ got[i] <= cursor /\ got[i] \in Int /\ cursor \in Int
      BY <1>4, <1>5, <1>6, <1>9, <2>1
    <3> QED
      BY <3>1
  <2> QED
    BY <2>1, <2>2 DEF EndsBefore
<1>11. /\ got' \in Seq(A) /\ Ascending(got')
       /\ \A x : x \in Members(got') <=> x \in Members(got) \/ x \in page
  <2> HIDE DEF A
  <2>1. A \in SUBSET Int /\ got \in Seq(A) /\ Ascending(got) /\ IsFiniteSet(page)
    BY <1>6, <1>9
  <2> QED
    BY <1>2, <1>10, <2>1, GoingOn
<1>12. cursor' \in 0 .. lastID
  <2>1. CASE Cardinality(rows) > Limit /\ cursor' = Max(page)
    <3>1. cursor' \in A
      BY <1>9, <1>10, <2>1
    <3> QED
      BY <1>4, <3>1
  <2>2. CASE cursor' = cursor
    BY <1>6, <2>2
  <2> QED
    BY <1>3, <2>1, <2>2
<1>13. TypeOK'
  BY <1>1, <1>3, <1>4, <1>6, <1>11, <1>12 DEF ChInv, TypeOK, post, A
<1>14. OwedIsVisible' /\ WalkIsOrdered'
  BY <1>1, <1>4, <1>6, <1>11 DEF OwedIsVisible, WalkIsOrdered, Ascending
<1>15. \A o \in owed : o \in Members(got) \/ o \in S
  BY <1>5, <1>6 DEF S
<1>16. WalkIsComplete'
  <2> SUFFICES ASSUME walk' = "done" PROVE owed \subseteq Members(got')
    BY <1>1 DEF WalkIsComplete, Members
  <2>1. page = S
    BY <1>1, <1>3, <1>9
  <2> QED
    BY <1>11, <1>15, <2>1
<1>17. CursorDivides'
  <2> SUFFICES ASSUME walk' = "paging"
               PROVE  /\ \A i \in 1 .. Len(got') : got'[i] <= cursor'
                      /\ \A o \in owed : o \in Members(got') \/ o > cursor'
    BY <1>1 DEF CursorDivides
  <2>1. /\ cursor' = Max(page) /\ cursor' \in page
        /\ \A x \in page : x <= cursor'
        /\ \A x \in S \ page : cursor' < x
    BY <1>3, <1>9
  <2>2. ASSUME NEW i \in 1 .. Len(got') PROVE got'[i] <= cursor'
    <3>1. CASE got'[i] \in page
      BY <2>1, <3>1
    <3>2. CASE got'[i] \in Members(got)
      <4>1. PICK j \in 1 .. Len(got) : got'[i] = got[j]
        BY <3>2 DEF Members
      <4>2. got[j] < cursor' /\ got[j] \in Int /\ cursor' \in Int
        <5>1. got[j] < cursor'
          BY <1>10, <2>1 DEF EndsBefore
        <5>2. got[j] \in A
          BY <1>6, ElementOfSeq
        <5> QED
          BY <1>4, <1>12, <5>1, <5>2
      <4> QED
        BY <4>1, <4>2
    <3>3. got'[i] \in Members(got')
      BY DEF Members
    <3> QED
      BY <1>11, <3>1, <3>2, <3>3
  <2>3. ASSUME NEW o \in owed PROVE o \in Members(got') \/ o > cursor'
    <3>1. o \in Members(got) \/ o \in page \/ o \in S \ page
      BY <1>15
    <3>2. o \in Int /\ cursor' \in Int
      BY <1>4, <1>6, <1>12
    <3> QED
      BY <1>11, <2>1, <3>1, <3>2
  <2> QED
    BY <2>2, <2>3
<1> QED
  BY <1>4, <1>13, <1>14, <1>16, <1>17 DEF ChInv

-----------------------------------------------------------------------------

\* Each action of Next keeps the invariant.
LEMMA StepKeeps ==
  ASSUME ChInv, [Next]_vars PROVE ChInv'
<1>1. ASSUME NEW m \in Messages, Send(m) PROVE ChInv'
  BY <1>1, BeginKeeps, NumberKeeps, FinishKeeps DEF Send
<1>2. CASE Close
  BY <1>2, CloseKeeps
<1>3. CASE StartWalk
  BY <1>3, StartWalkKeeps
<1>4. CASE Page
  BY <1>4, PageKeeps
<1>5. CASE BeginMarkRead \/ UpdateRead
  BY <1>5, MarkReadKeeps
<1>6. CASE UNCHANGED vars
  <2>1. UNCHANGED <<clock, closedAt, state, created, id, lastID, read, marking, walk,
                    cursor, got, owed>>
    BY <1>6 DEF vars
  <2>2. Visible' = Visible
    BY <2>1 DEF Visible
  <2>3. TypeOK'
    BY <2>1, <2>2 DEF ChInv, TypeOK
  <2>4. SentWhileOpen' /\ NumbersOfMessages' /\ NumbersAreUsed'
    BY <2>1 DEF ChInv, SentWhileOpen, NumbersOfMessages, NumbersAreUsed
  <2>5. OwedIsVisible' /\ CursorDivides' /\ WalkIsOrdered' /\ WalkIsComplete'
    BY <2>1, <2>2, WalkStays DEF paging
  <2> QED
    BY <2>3, <2>4, <2>5 DEF ChInv
<1> QED
  BY <1>1, <1>2, <1>3, <1>4, <1>5, <1>6 DEF Next

\* The invariant holds however senders, readers and the block interleave.
THEOREM ChatInvariant == Spec => []ChInv
<1>1. ChInv /\ [Next]_vars => ChInv'
  BY StepKeeps
<1> QED
  BY InitChInv, <1>1, PTL DEF Spec

\* Times, numbers and pages keep to their ranges; the sequence is never ahead
\* of the messages.
THEOREM ChatTypes == Spec => []TypeOK
<1>1. ChInv => TypeOK
  BY DEF ChInv
<1> QED
  BY <1>1, ChatInvariant, PTL

\* No message of a closed chat was sent after the block.
THEOREM MessagesAreOlderThanClosing == Spec => []MessagesPredateClosing
<1>1. ChInv => MessagesPredateClosing
  BY DEF ChInv, SentWhileOpen, MessagesPredateClosing, Visible
<1> QED
  BY <1>1, ChatInvariant, PTL

\* The pages of a walk, put together, are in order and without repetition.
THEOREM WalksAreOrdered == Spec => []WalkIsOrdered
<1>1. ChInv => WalkIsOrdered
  BY DEF ChInv
<1> QED
  BY <1>1, ChatInvariant, PTL

\* A walk that came to its end holds everything that was visible at its start.
THEOREM WalksAreComplete == Spec => []WalkIsComplete
<1>1. ChInv => WalkIsComplete
  BY DEF ChInv
<1> QED
  BY <1>1, ChatInvariant, PTL
=============================================================================
