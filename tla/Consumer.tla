------------------------------ MODULE Consumer ------------------------------
(***************************************************************************)
(* The consumer of python-analytics: it reads the Redis stream through a   *)
(* consumer group, stores each entry in ClickHouse and acknowledges it     *)
(* (services/redis_consumer.py, clickhouse_client.py, main.py).  Every     *)
(* remote call may fail before or after it has taken effect, and the       *)
(* process may crash and restart anywhere.                                 *)
(*                                                                         *)
(* Entries are named by their place in the stream.                         *)
(***************************************************************************)
EXTENDS Naturals, FiniteSetsExt

CONSTANTS
  Length,  \* how many entries the stream receives
  Batch    \* COUNT of XREADGROUP

ASSUME LengthAssumption == Length \in Nat
ASSUME BatchAssumption == Batch \in Nat \ {0}

VARIABLES
  added,      \* the entries 1 .. added are in the stream
  delivered,  \* last-delivered-id of the group
  pending,    \* delivered to the group and not acknowledged
  late,       \* insertions given up on that ClickHouse may still execute
  rows,       \* entry -> how many rows ClickHouse holds of it
  pc,         \* read, insert, ack, stopped, dead (the task failed) or down
  todo,       \* entries of the last reply still to be handled
  stop,       \* stop_event
  handled,    \* history: entries that were handed to insert_event
  lost        \* history: entries whose reply, or the rest of it, was lost first

vars == <<added, delivered, pending, late, rows, pc, todo, stop, handled, lost>>

redis == <<added, delivered, pending>>

clickhouse == <<late, rows>>

history == <<handled, lost>>

Entries == 1 .. Length

-----------------------------------------------------------------------------

Init ==
  /\ added = 0 /\ delivered = 0 /\ pending = {}
  /\ late = {} /\ rows = [e \in Entries |-> 0]
  /\ pc = "read" /\ todo = {} /\ stop = FALSE
  /\ handled = {} /\ lost = {}

\* go-core appends an entry.
Add ==
  /\ added < Length
  /\ added' = added + 1
  /\ UNCHANGED <<delivered, pending, clickhouse, pc, todo, stop, history>>

\* Mutant: the loop asks for the group's pending entries too.
NewOrPending == pending \cup (delivered + 1 .. added)

\* What ">" asks for: entries never delivered to the group.
Undelivered == delivered + 1 .. added

\* Mutant: the loop goes on until every entry is acknowledged.
StopsWhenAcknowledged == stop /\ pending = {}

\* The loop looks at stop_event only between two batches.
LoopEnds == stop

\* XREADGROUP as Redis executes it: the next entries become pending.
Deliver(entries) ==
  /\ delivered' = Max({delivered} \cup entries)
  /\ pending' = pending \cup entries

\* The reply may be lost.  On a ConnectionError the loop sleeps and goes round
\* (as it does when two seconds pass with nothing new); any other exception
\* ends the task.
Read ==
  /\ pc = "read" /\ ~ LoopEnds /\ Undelivered # {}
  /\ LET got == {e \in Undelivered : e < Min(Undelivered) + Batch} IN
       /\ Deliver(got)
       /\ \/ pc' = "insert" /\ todo' = got /\ UNCHANGED lost
          \/ pc' \in {"read", "dead"} /\ lost' = lost \cup got /\ UNCHANGED todo
  /\ UNCHANGED <<added, clickhouse, stop, handled>>

\* The call fails before Redis has executed it, other than by a ConnectionError.
ReadError ==
  /\ pc = "read" /\ ~ LoopEnds
  /\ pc' = "dead"
  /\ UNCHANGED <<redis, clickhouse, todo, stop, history>>

Stopped ==
  /\ pc = "read" /\ LoopEnds
  /\ pc' = "stopped"
  /\ UNCHANGED <<redis, clickhouse, todo, stop, history>>

\* Mutant: the end of the batch is tested before the entry is taken off.
AdvanceTestedEarly ==
  /\ todo' = todo \ {Min(todo)}
  /\ pc' = IF todo = {} THEN "read" ELSE "insert"

\* On to the next entry, or back to the loop.
Advance ==
  /\ todo' = todo \ {Min(todo)}
  /\ pc' = IF todo' = {} THEN "read" ELSE "insert"

\* insert_event: ClickHouse has the row.
Store == rows' = [rows EXCEPT ![Min(todo)] = @ + 1] /\ UNCHANGED late

\* The request ends without an answer (a timeout, a broken connection) and is
\* still on its way to ClickHouse.
GiveUp == late' = late \cup {Min(todo)} /\ UNCHANGED rows

\* Mutants: the entry is acknowledged although it failed, or a failure ends the
\* loop over the batch (break where the code has continue).
SkipAcknowledged == pc' = "ack" /\ UNCHANGED <<todo, clickhouse>>
SkipBatch == pc' = "read" /\ todo' = {} /\ (Store \/ GiveUp \/ UNCHANGED clickhouse)

\* An exception is logged and the entry skipped, unacknowledged; its row may be
\* stored all the same, now or later.
Skip ==
  /\ Advance
  /\ Store \/ GiveUp \/ UNCHANGED clickhouse

Insert ==
  /\ pc = "insert"
  /\ \/ Store /\ pc' = "ack" /\ UNCHANGED todo
     \/ Skip
  /\ handled' = handled \cup {Min(todo)}
  /\ UNCHANGED <<redis, stop, lost>>

\* The task ends with a batch in its hands: what it has not come to is lost.
Abandon ==
  /\ todo' = {}
  /\ lost' = lost \cup (todo \ handled')

\* XACK stands outside the try: its failure ends the task, executed or not.
Ack ==
  /\ pc = "ack"
  /\ UNCHANGED <<added, delivered, clickhouse, stop, handled>>
  /\ \/ pending' = pending \ {Min(todo)} /\ Advance /\ UNCHANGED lost
     \/ /\ pending' \in {pending, pending \ {Min(todo)}}
        /\ pc' = "dead" /\ Abandon

\* FastAPI's lifespan ends and sets the event.
Stop ==
  /\ pc # "down" /\ ~ stop
  /\ stop' = TRUE
  /\ UNCHANGED <<redis, clickhouse, pc, todo, history>>

\* A request given up on arrives.
Execute ==
  /\ \E e \in late : late' = late \ {e} /\ rows' = [rows EXCEPT ![e] = @ + 1]
  /\ UNCHANGED <<redis, pc, todo, stop, history>>

\* The process is killed, or exits after its shutdown; Redis and ClickHouse
\* keep what they have.
Crash ==
  /\ pc # "down"
  /\ pc' = "down"
  /\ \/ UNCHANGED <<clickhouse, handled>>
     \/ pc = "insert" /\ (Store \/ GiveUp) /\ handled' = handled \cup {Min(todo)}
  /\ Abandon
  /\ UNCHANGED <<redis, stop>>

\* A new process creates the group unless it exists and starts to read; when
\* Redis does not answer, its task fails before the loop.
Restart ==
  /\ pc = "down"
  /\ pc' \in {"read", "dead"} /\ stop' = FALSE
  /\ UNCHANGED <<redis, clickhouse, todo, history>>

-----------------------------------------------------------------------------

Step == Read \/ Stopped \/ Insert \/ Ack

Next == Add \/ Step \/ ReadError \/ Execute \/ Stop \/ Crash \/ Restart

Spec == Init /\ [][Next]_vars

\* The event loop runs the task whenever it can run: Redis answers in the end,
\* a request to ClickHouse ends within its five seconds.  Nothing makes entries,
\* the shutdown or a restart come.
FairSpec == Spec /\ WF_vars(Step)

-----------------------------------------------------------------------------

TypeOK ==
  /\ added \in 0 .. Length /\ delivered \in 0 .. added
  /\ pending \subseteq 1 .. delivered
  /\ late \subseteq 1 .. delivered /\ rows \in [Entries -> Nat]
  /\ pc \in {"read", "insert", "ack", "stopped", "dead", "down"}
  /\ todo \subseteq pending
  /\ todo # {} <=> pc \in {"insert", "ack"}
  /\ stop \in BOOLEAN
  /\ handled \subseteq 1 .. delivered /\ lost \subseteq 1 .. delivered

\* An entry leaves the group's pending list only once ClickHouse has its row:
\* whatever fails and wherever the process dies, what was not stored can still
\* be claimed from the group (run_consumer acknowledges after insert_event).
AckedArePersisted == \A e \in 1 .. delivered : e \in pending \/ rows[e] > 0

\* No entry of the stream is counted twice: it is inserted at most once in all,
\* even if its first insertion looked like a failure or was cut off by a crash.
\* (An event that go-core's client has appended twice is two entries.)
StoredAtMostOnce == \A e \in Entries : rows[e] + (IF e \in late THEN 1 ELSE 0) <= 1

\* One entry that cannot be stored holds up no other one.  While the task runs,
\* every entry of the stream is handed to insert_event in its turn, unless the
\* reply that carried it was lost; and a batch once begun is worked through to
\* its end, even after the stop request, unless the task itself ends.
EntriesAreHandled ==
  \A e \in Entries :
    /\ added >= e ~> e \in handled \cup lost \/ stop \/ pc \in {"dead", "down"}
    /\ e \in todo ~> e \in handled \cup lost

\* Once the event is set the task ends, so the lifespan's await returns.
StopEndsTheTask == stop ~> pc \in {"stopped", "dead", "down"}

=============================================================================
