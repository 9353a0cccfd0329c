-------------------------------- MODULE Chat --------------------------------
(***************************************************************************)
(* The messages of one chat: sending, paging through them and marking them *)
(* read, while the chat may be closed by a block (repository/              *)
(* chat_repository.go, service/chat.go).  What matters here is the order   *)
(* of things inside one statement of Postgres: it takes now() when its     *)
(* transaction starts, its snapshot and its sequence number later, and is  *)
(* seen by others later still.                                             *)
(***************************************************************************)
EXTENDS Naturals, FiniteSets, SequencesExt, NumberSets

CONSTANTS
  Messages,  \* the messages the two users try to send
  Users,     \* the participants
  Sender,    \* who sends each message
  Reader,    \* the participant who reads
  Limit,     \* the page size
  MaxClock   \* bounds how often the reader marks the chat read

ASSUME MessagesAssumption == IsFiniteSet(Messages)
ASSUME SenderAssumption == Sender \in [Messages -> Users]
ASSUME ReaderAssumption == Reader \in Users
ASSUME LimitAssumption == Limit \in Nat \ {0}

VARIABLES
  clock,     \* what now() gives to the next transaction
  closedAt,  \* when the block was committed, 0 while the chat is active
  state,     \* message -> new, begun, numbered, visible, refused or failed
  created,   \* message -> created_at
  id,        \* message -> its number, 0 before it has one
  lastID,    \* messages_id_seq
  read,      \* messages with is_read
  marking,   \* now() of the MarkRead under way, 0 for none
  walk,      \* the reader's walk through the pages: idle, paging or done
  cursor,    \* next_cursor of the last page
  got,       \* the numbers on the pages so far
  owed       \* the numbers visible when the walk began

vars == <<clock, closedAt, state, created, id, lastID, read, marking, walk,
          cursor, got, owed>>

post == <<state, created, id, lastID>>
paging == <<walk, cursor, got, owed>>

Visible == {m \in Messages : state[m] = "visible"}

-----------------------------------------------------------------------------

Init ==
  /\ clock = 1 /\ closedAt = 0
  /\ state = [m \in Messages |-> "new"]
  /\ created = [m \in Messages |-> 0]
  /\ id = [m \in Messages |-> 0] /\ lastID = 0
  /\ read = {} /\ marking = 0
  /\ walk = "idle" /\ cursor = 0 /\ got = <<>> /\ owed = {}

(* CreateMessage, one INSERT ... SELECT ... WHERE EXISTS. *)

\* Mutant: only participation is checked, as it is for reading.
AnyChat == TRUE

\* is_active in the snapshot of the statement.
ChatIsActive == closedAt = 0

Begin(m) ==
  /\ state[m] = "new"
  /\ created' = [created EXCEPT ![m] = clock]
  /\ clock' = clock + 1
  /\ state' = [state EXCEPT ![m] = IF ChatIsActive THEN "begun" ELSE "refused"]
  /\ UNCHANGED <<closedAt, id, lastID, read, marking, paging>>

\* The default of the id column: nextval, which no rollback takes back.
Number(m) ==
  /\ state[m] = "begun"
  /\ lastID' = lastID + 1
  /\ id' = [id EXCEPT ![m] = lastID + 1]
  /\ state' = [state EXCEPT ![m] = "numbered"]
  /\ UNCHANGED <<clock, closedAt, created, read, marking, paging>>

Finish(m) ==
  /\ \/ state[m] = "numbered" /\ state' = [state EXCEPT ![m] = "visible"]
     \/ state[m] \in {"begun", "numbered"} /\ state' = [state EXCEPT ![m] = "failed"]
  /\ UNCHANGED <<clock, closedAt, created, id, lastID, read, marking, paging>>

\* CreateBlock of the ribbon commits and deactivates the chat, for good.
Close ==
  /\ closedAt = 0
  /\ closedAt' = clock /\ clock' = clock + 1
  /\ UNCHANGED <<post, read, marking, paging>>

-----------------------------------------------------------------------------
(* Messages, page by page. *)

\* Mutant: the cursor belongs to the next page.
FromCursor == {id[m] : m \in {n \in Visible : id[n] >= cursor}}

AfterCursor == {id[m] : m \in {n \in Visible : id[n] > cursor}}

\* Mutant: the cursor is the row that shows there is another page.
CursorPastPage(rows) == Max(rows)

\* The last item of the page, when limit + 1 rows were found.
NextCursor(rows) == Max(Lowest(Limit, rows))

StartWalk ==
  /\ walk # "paging"
  /\ walk' = "paging" /\ cursor' = 0 /\ got' = <<>>
  /\ owed' = {id[m] : m \in Visible}
  /\ UNCHANGED <<clock, closedAt, post, read, marking>>

Page ==
  /\ walk = "paging"
  /\ LET rows == Lowest(Limit + 1, AfterCursor) IN
       /\ got' = got \o InOrder(Lowest(Limit, rows))
       /\ \/ /\ Cardinality(rows) > Limit
             /\ cursor' = NextCursor(rows) /\ UNCHANGED walk
          \/ /\ Cardinality(rows) <= Limit
             /\ walk' = "done" /\ UNCHANGED cursor
  /\ UNCHANGED <<clock, closedAt, post, read, marking, owed>>

-----------------------------------------------------------------------------
(* MarkRead: the transaction of its UPDATE takes now() when it starts. *)

BeginMarkRead ==
  /\ marking = 0 /\ clock < MaxClock
  /\ marking' = clock /\ clock' = clock + 1
  /\ UNCHANGED <<closedAt, post, read, paging>>

\* Mutant: the reader's own messages are marked too.
UnreadOfBoth == {m \in Visible : m \notin read}

Unread == {m \in Visible : m \notin read /\ Sender[m] # Reader}

\* messages_updated_time_valid, on the rows the UPDATE writes.
UpdatedTimeValid == \A m \in Unread : marking >= created[m]

\* The rows are those of a snapshot taken after now(); one that violates the
\* constraint fails the whole statement.
UpdateRead ==
  /\ marking # 0
  /\ read' = IF UpdatedTimeValid THEN read \cup Unread ELSE read
  /\ marking' = 0
  /\ UNCHANGED <<clock, closedAt, post, paging>>

-----------------------------------------------------------------------------

Send(m) == Begin(m) \/ Number(m) \/ Finish(m)

Next ==
  \/ \E m \in Messages : Send(m)
  \/ Close \/ StartWalk \/ Page \/ BeginMarkRead \/ UpdateRead

Spec == Init /\ [][Next]_vars

-----------------------------------------------------------------------------

TypeOK ==
  /\ clock \in Nat \ {0} /\ closedAt \in 0 .. clock - 1 /\ marking \in 0 .. clock - 1
  /\ state \in [Messages -> {"new", "begun", "numbered", "visible", "refused", "failed"}]
  /\ created \in [Messages -> 0 .. clock - 1]
  /\ lastID \in 0 .. Cardinality(Messages) /\ id \in [Messages -> 0 .. lastID]
  /\ read \subseteq {m \in Visible : Sender[m] # Reader}
  /\ walk \in {"idle", "paging", "done"}
  /\ cursor \in 0 .. lastID /\ got \in Seq(1 .. lastID) /\ owed \subseteq 1 .. lastID

\* A message that reaches a chat was sent before the chat was closed: no
\* request that begins after the block does (CreateMessage checks is_active in
\* the statement that inserts).
MessagesPredateClosing ==
  \A m \in Visible : closedAt # 0 => created[m] < closedAt

\* Following next_cursor returns no message twice and keeps their order, with
\* messages arriving between the pages (makeChatPage).
WalkIsOrdered == \A i, j \in 1 .. Len(got) : i < j => got[i] < got[j]

\* At the end of the walk the reader has every message that was there when it
\* began; one that becomes visible during the walk, with a number the walk has
\* passed already, may be missing.
WalkIsComplete == walk = "done" => owed \subseteq {got[i] : i \in 1 .. Len(got)}

=============================================================================
