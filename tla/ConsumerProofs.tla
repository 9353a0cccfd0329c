--------------------------- MODULE ConsumerProofs ---------------------------
(***************************************************************************)
(* What the stream consumer promises, whatever the length of the stream    *)
(* and the size of a batch.                                                *)
(***************************************************************************)
EXTENDS Consumer, TLAPS

\* The entries still to be handled are the last ones delivered, in order.
TodoIsATail == \E first \in Nat \ {0} : todo = first .. delivered

\* ClickHouse has no row of an entry, nor a request on its way.
Untouched(e) == rows[e] = 0 /\ e \notin late

\* An entry nobody has inserted yet is untouched; the one about to be
\* acknowledged has its row.
Progress ==
  /\ \A e \in Entries : e > delivered => Untouched(e)
  /\ \A e \in todo : e # Min(todo) \/ pc = "insert" => Untouched(e)
  /\ pc = "ack" => rows[Min(todo)] = 1

\* The inductive invariant: neither promise is inductive without Progress.
CInv ==
  /\ TypeOK
  /\ TodoIsATail
  /\ Progress
  /\ AckedArePersisted
  /\ StoredAtMostOnce

-----------------------------------------------------------------------------
(* The least and the greatest entry of a run of entries. *)

\* The least number of an interval is its lower end.
LEMMA MinOfInterval ==
  ASSUME NEW a \in Nat, NEW b \in Nat, a <= b
  PROVE  Min(a .. b) = a
<1>1. a \in a .. b /\ \A y \in a .. b : a =< y
  OBVIOUS
<1>2. \A x \in a .. b : (\A y \in a .. b : x =< y) => x = a
  OBVIOUS
<1>3. Min(a .. b) \in a .. b /\ \A y \in a .. b : Min(a .. b) =< y
  BY <1>1 DEF Min
<1> QED
  BY <1>2, <1>3

\* A number below an interval that starts right after it: the greatest of both
\* is the interval's upper end.
LEMMA MaxOfInterval ==
  ASSUME NEW a \in Nat, NEW b \in Nat, a < b
  PROVE  Max({a} \cup (a + 1 .. b)) = b
<1> DEFINE S == {a} \cup (a + 1 .. b)
<1>1. b \in S /\ \A y \in S : b >= y
  OBVIOUS
<1>2. Max(S) \in S /\ \A y \in S : Max(S) >= y
  BY <1>1 DEF Max
<1> QED
  BY <1>1, <1>2

\* While entries are left to handle, the first of them is the least.
LEMMA TodoMin ==
  ASSUME TypeOK, TodoIsATail, todo # {}
  PROVE  /\ todo = Min(todo) .. delivered
         /\ Min(todo) \in todo
         /\ Min(todo) \in 1 .. delivered
         /\ Min(todo) \in Entries
<1>1. PICK first \in Nat \ {0} : todo = first .. delivered
  BY DEF TodoIsATail
<1>2. delivered \in Nat /\ first <= delivered
  BY <1>1, LengthAssumption DEF TypeOK
<1>3. Min(todo) = first
  BY <1>1, <1>2, MinOfInterval
<1> QED
  BY <1>1, <1>2, <1>3, LengthAssumption DEF TypeOK, Entries

\* A batch is the run of entries after the last one delivered.
LEMMA BatchDelivered ==
  ASSUME TypeOK, Undelivered # {},
         NEW got, got = {e \in Undelivered : e < Min(Undelivered) + Batch}
  PROVE  \E last \in Nat :
           /\ delivered < last /\ last <= added
           /\ got = delivered + 1 .. last
           /\ Max({delivered} \cup got) = last
<1>1. delivered \in Nat /\ added \in Nat /\ delivered + 1 <= added
  BY LengthAssumption DEF TypeOK, Undelivered
<1>2. Min(Undelivered) = delivered + 1
  BY <1>1, MinOfInterval DEF Undelivered
<1> DEFINE last == IF added < delivered + Batch THEN added ELSE delivered + Batch
<1>3. last \in Nat /\ delivered < last /\ last <= added
  BY <1>1, BatchAssumption
<1>4. got = delivered + 1 .. last
  <2>1. got = {e \in delivered + 1 .. added : e < delivered + 1 + Batch}
    BY <1>2 DEF Undelivered
  <2> QED
    BY <2>1, <1>1, BatchAssumption
<1>5. Max({delivered} \cup got) = last
  BY <1>1, <1>3, <1>4, MaxOfInterval
<1> QED
  BY <1>3, <1>4, <1>5

-----------------------------------------------------------------------------
(* The statements that touch ClickHouse and the reply. *)

\* What the invariant says once an insertion has happened or may happen: the
\* entry at hand gains its only row, or its only request.
LEMMA InsertionKeeps ==
  ASSUME CInv, pc = "insert", Store \/ GiveUp \/ UNCHANGED clickhouse
  PROVE  /\ late' \subseteq 1 .. delivered
         /\ rows' \in [Entries -> Nat]
         /\ \A e \in Entries : e # Min(todo) => rows'[e] = rows[e] /\ (e \in late' <=> e \in late)
         /\ \A e \in Entries : rows'[e] >= rows[e]
         /\ \A e \in Entries : rows'[e] + (IF e \in late' THEN 1 ELSE 0) <= 1
         /\ Store => rows'[Min(todo)] = 1
<1>1. Min(todo) \in todo /\ Min(todo) \in 1 .. delivered /\ Min(todo) \in Entries
  BY TodoMin DEF CInv, TypeOK
<1>2. rows[Min(todo)] = 0 /\ Min(todo) \notin late
  BY <1>1 DEF CInv, Progress, Untouched
<1>3. rows \in [Entries -> Nat] /\ late \subseteq 1 .. delivered
      /\ \A e \in Entries : rows[e] + (IF e \in late THEN 1 ELSE 0) <= 1
  BY DEF CInv, TypeOK, StoredAtMostOnce
<1> DEFINE m == Min(todo)
<1> HIDE DEF m
<1>4. m \in 1 .. delivered /\ m \in Entries /\ rows[m] = 0 /\ m \notin late
  BY <1>1, <1>2 DEF m
<1> DEFINE Kept ==
      /\ late' \subseteq 1 .. delivered
      /\ rows' \in [Entries -> Nat]
      /\ \A e \in Entries : e # m => rows'[e] = rows[e] /\ (e \in late' <=> e \in late)
      /\ \A e \in Entries : rows'[e] >= rows[e]
      /\ \A e \in Entries : rows'[e] + (IF e \in late' THEN 1 ELSE 0) <= 1
      /\ Store => rows'[m] = 1
<1>5. ASSUME Store PROVE Kept
  <2>1. rows' = [rows EXCEPT ![m] = @ + 1] /\ late' = late
    BY <1>5 DEF Store, m
  <2>2. rows' \in [Entries -> Nat] /\ rows'[m] = 1
        /\ \A e \in Entries : e # m => rows'[e] = rows[e]
    BY <2>1, <1>3, <1>4
  <2> QED
    BY <2>1, <2>2, <1>3, <1>4
<1>6. ASSUME GiveUp PROVE Kept
  <2>1. late' = late \cup {m} /\ rows' = rows
    BY <1>6 DEF GiveUp, m
  <2>2. ~ Store
    BY <2>1, <1>4 DEF Store
  <2> QED
    BY <2>1, <2>2, <1>3, <1>4
<1>7. ASSUME UNCHANGED clickhouse PROVE Kept
  <2>1. late' = late /\ rows' = rows
    BY <1>7 DEF clickhouse
  <2>2. ~ Store
    <3>1. SUFFICES ASSUME Store PROVE FALSE
      OBVIOUS
    <3>2. rows' = [rows EXCEPT ![m] = @ + 1]
      BY <3>1 DEF Store, m
    <3>3. rows'[m] = 1
      BY <3>2, <1>3, <1>4
    <3> QED
      BY <3>3, <2>1, <1>4
  <2> QED
    BY <2>1, <2>2, <1>3
<1>8. Kept
  BY <1>5, <1>6, <1>7
<1> QED
  BY <1>8 DEF m

\* Going on to the next entry leaves a shorter tail, without the entry handled.
LEMMA AdvanceKeeps ==
  ASSUME TypeOK, TodoIsATail, todo # {}, Advance, UNCHANGED delivered
  PROVE  /\ TodoIsATail'
         /\ todo' \subseteq todo
         /\ Min(todo) \notin todo'
         /\ pc' \in {"read", "insert"}
         /\ todo' # {} <=> pc' = "insert"
<1>1. todo = Min(todo) .. delivered /\ Min(todo) \in 1 .. delivered
  BY TodoMin
<1>2. todo' = todo \ {Min(todo)} /\ pc' = IF todo' = {} THEN "read" ELSE "insert"
  BY DEF Advance
<1> DEFINE m == Min(todo)
<1> HIDE DEF m
<1>3. todo = m .. delivered /\ m \in 1 .. delivered /\ todo' = todo \ {m}
  BY <1>1, <1>2 DEF m
<1>4. todo' = m + 1 .. delivered /\ m + 1 \in Nat \ {0}
  BY <1>3
<1>5. TodoIsATail'
  BY <1>4 DEF TodoIsATail
<1> QED
  BY <1>2, <1>5

-----------------------------------------------------------------------------
(* One lemma per action. *)

\* A new consumer group has nothing to handle.
LEMMA InitCInv == Init => CInv
<1> SUFFICES ASSUME Init PROVE CInv
  OBVIOUS
<1> USE LengthAssumption DEF Init
<1>1. TypeOK
  <2>1. rows \in [Entries -> Nat]
    OBVIOUS
  <2>2. added \in 0 .. Length /\ delivered \in 0 .. added
    OBVIOUS
  <2>3. pending \subseteq 1 .. delivered /\ late \subseteq 1 .. delivered
    OBVIOUS
  <2> QED
    BY <2>1, <2>2, <2>3 DEF TypeOK
<1>2. TodoIsATail
  <2>1. 1 \in Nat \ {0} /\ todo = 1 .. delivered
    OBVIOUS
  <2> QED
    BY <2>1 DEF TodoIsATail
<1>3. Progress
  BY DEF Progress, Untouched, Entries
<1>4. AckedArePersisted
  BY DEF AckedArePersisted
<1>5. StoredAtMostOnce
  BY DEF StoredAtMostOnce, Entries
<1> QED
  BY <1>1, <1>2, <1>3, <1>4, <1>5 DEF CInv

\* What leaves ClickHouse, the reply and the group's position alone keeps the
\* rest of the invariant, as long as nothing stops being pending.
LEMMA FrameKeeps ==
  ASSUME CInv, TypeOK', UNCHANGED <<delivered, pending, late, rows, todo>>,
         pc' = pc \/ todo = {}
  PROVE  CInv'
<1>1. TodoIsATail'
  BY DEF CInv, TodoIsATail
<1>2. Progress'
  BY DEF CInv, Progress, Untouched, TypeOK
<1>3. AckedArePersisted'
  BY DEF CInv, AckedArePersisted
<1>4. StoredAtMostOnce'
  BY DEF CInv, StoredAtMostOnce
<1> QED
  BY <1>1, <1>2, <1>3, <1>4 DEF CInv

\* go-core appends, the loop ends or fails between two batches, the event is
\* set, a new process starts.
LEMMA QuietKeeps ==
  ASSUME CInv, Add \/ ReadError \/ Stopped \/ Stop \/ Restart
  PROVE  CInv'
<1> USE LengthAssumption DEF CInv, redis, clickhouse, history
<1>1. CASE Add
  <2>1. TypeOK'
    BY <1>1 DEF Add, TypeOK
  <2> QED
    BY <1>1, <2>1, FrameKeeps DEF Add
<1>2. CASE ReadError
  <2>1. TypeOK' /\ todo = {}
    BY <1>2 DEF ReadError, TypeOK
  <2> QED
    BY <1>2, <2>1, FrameKeeps DEF ReadError
<1>3. CASE Stopped
  <2>1. TypeOK' /\ todo = {}
    BY <1>3 DEF Stopped, TypeOK
  <2> QED
    BY <1>3, <2>1, FrameKeeps DEF Stopped
<1>4. CASE Stop
  <2>1. TypeOK'
    BY <1>4 DEF Stop, TypeOK
  <2> QED
    BY <1>4, <2>1, FrameKeeps DEF Stop
<1>5. CASE Restart
  <2>1. TypeOK' /\ todo = {}
    BY <1>5 DEF Restart, TypeOK
  <2> QED
    BY <1>5, <2>1, FrameKeeps DEF Restart
<1> QED
  BY <1>1, <1>2, <1>3, <1>4, <1>5

\* A batch becomes pending; nobody has inserted any entry of it.
LEMMA ReadKeeps ==
  ASSUME CInv, Read
  PROVE  CInv'
<1> DEFINE got == {e \in Undelivered : e < Min(Undelivered) + Batch}
<1>1. /\ pc = "read" /\ Undelivered # {}
      /\ Deliver(got)
      /\ \/ pc' = "insert" /\ todo' = got
         \/ pc' \in {"read", "dead"} /\ todo' = todo
      /\ added' = added /\ late' = late /\ rows' = rows /\ stop' = stop
      /\ handled' = handled /\ lost' \in {lost, lost \cup got}
  BY DEF Read, clickhouse
<1> HIDE DEF got
<1>2. PICK last \in Nat :
        /\ delivered < last /\ last <= added
        /\ got = delivered + 1 .. last
        /\ Max({delivered} \cup got) = last
  BY <1>1, BatchDelivered DEF CInv, got
<1>3. delivered' = last /\ pending' = pending \cup got
  BY <1>1, <1>2 DEF Deliver
<1>4. /\ added \in 0 .. Length /\ delivered \in 0 .. added
      /\ pending \subseteq 1 .. delivered /\ late \subseteq 1 .. delivered
      /\ todo = {}
  BY <1>1 DEF CInv, TypeOK
<1>5. TypeOK'
  <2>1. delivered' \in 0 .. added' /\ pending' \subseteq 1 .. delivered'
        /\ late' \subseteq 1 .. delivered'
    BY <1>1, <1>2, <1>3, <1>4, LengthAssumption
  <2>2. got # {}
    BY <1>2, <1>4, LengthAssumption
  <2>3. todo' \subseteq pending'
    BY <1>1, <1>3, <1>4
  <2>4. todo' # {} <=> pc' \in {"insert", "ack"}
    BY <1>1, <1>4, <2>2
  <2>5. handled' \subseteq 1 .. delivered' /\ lost' \subseteq 1 .. delivered'
    <3>1. 1 .. delivered \subseteq 1 .. delivered' /\ got \subseteq 1 .. delivered'
      BY <1>2, <1>3, <1>4, LengthAssumption
    <3>2. handled \subseteq 1 .. delivered /\ lost \subseteq 1 .. delivered
      BY DEF CInv, TypeOK
    <3> QED
      BY <1>1, <3>1, <3>2
  <2> QED
    BY <1>1, <2>1, <2>3, <2>4, <2>5 DEF CInv, TypeOK
<1>6. TodoIsATail'
  <2>1. CASE todo' = got
    <3>1. delivered + 1 \in Nat \ {0} /\ todo' = delivered + 1 .. delivered'
      BY <1>2, <1>3, <1>4, <2>1, LengthAssumption
    <3> QED
      BY <3>1 DEF TodoIsATail
  <2>2. CASE todo' = {}
    <3>1. last + 1 \in Nat \ {0} /\ todo' = last + 1 .. delivered'
      BY <1>2, <1>3, <2>2
    <3> QED
      BY <3>1 DEF TodoIsATail
  <2> QED
    BY <1>1, <1>4, <2>1, <2>2
<1>7. Progress'
  <2>1. \A e \in Entries : e > delivered => Untouched(e)'
    BY <1>1 DEF CInv, Progress, Untouched
  <2>2. \A e \in todo' : e \in Entries /\ e > delivered
    BY <1>1, <1>2, <1>4, LengthAssumption DEF Entries
  <2>3. \A e \in Entries : e > delivered' => e > delivered
    BY <1>2, <1>3, <1>4, LengthAssumption DEF Entries
  <2> QED
    BY <1>1, <2>1, <2>2, <2>3 DEF Progress
<1>8. AckedArePersisted'
  <2>1. SUFFICES ASSUME NEW e \in 1 .. delivered' PROVE e \in pending' \/ rows'[e] > 0
    BY DEF AckedArePersisted
  <2>2. e \in 1 .. delivered \/ e \in got
    BY <1>2, <1>3, <1>4, LengthAssumption
  <2> QED
    BY <1>1, <1>3, <2>2 DEF CInv, AckedArePersisted
<1>9. StoredAtMostOnce'
  BY <1>1 DEF CInv, StoredAtMostOnce
<1> QED
  BY <1>5, <1>6, <1>7, <1>8, <1>9 DEF CInv

\* An insertion that succeeds leaves its entry to be acknowledged; one that
\* seems to fail is left behind with whatever it did.
LEMMA InsertKeeps ==
  ASSUME CInv, Insert
  PROVE  CInv'
<1> DEFINE m == Min(todo)
<1>1. /\ pc = "insert" /\ UNCHANGED <<added, delivered, pending, stop, lost>>
      /\ handled' = handled \cup {m}
      /\ \/ Store /\ pc' = "ack" /\ todo' = todo
         \/ Advance /\ (Store \/ GiveUp \/ UNCHANGED clickhouse)
  BY DEF Insert, Skip, redis
<1>2. todo # {} /\ todo \subseteq 1 .. delivered /\ todo \subseteq Entries
  BY <1>1, LengthAssumption DEF CInv, TypeOK, Entries
<1>3. /\ late' \subseteq 1 .. delivered
      /\ rows' \in [Entries -> Nat]
      /\ \A e \in Entries : e # m => rows'[e] = rows[e] /\ (e \in late' <=> e \in late)
      /\ \A e \in Entries : rows'[e] >= rows[e]
      /\ \A e \in Entries : rows'[e] + (IF e \in late' THEN 1 ELSE 0) <= 1
      /\ Store => rows'[m] = 1
  BY <1>1, InsertionKeeps
<1>4. m \in todo
  BY <1>2, TodoMin DEF CInv
<1>5. StoredAtMostOnce'
  BY <1>3 DEF StoredAtMostOnce
<1>6. AckedArePersisted'
  <2>1. SUFFICES ASSUME NEW e \in 1 .. delivered PROVE e \in pending \/ rows'[e] > 0
    BY <1>1 DEF AckedArePersisted
  <2>2. e \in Entries /\ rows[e] \in Nat /\ rows'[e] \in Nat /\ rows'[e] >= rows[e]
    BY <1>3, LengthAssumption DEF CInv, TypeOK, Entries
  <2> QED
    BY <2>2 DEF CInv, AckedArePersisted
<1>7. \A e \in Entries : e # m /\ Untouched(e) => Untouched(e)'
  BY <1>3 DEF Untouched
<1>8. \A e \in Entries : e > delivered => Untouched(e)'
  <2>1. \A e \in Entries : e > delivered => e # m
    BY <1>2, <1>4, LengthAssumption DEF CInv, TypeOK, Entries
  <2> QED
    BY <1>7, <2>1 DEF CInv, Progress
<1>9. \A e \in todo : e # m => Untouched(e)'
  BY <1>2, <1>7 DEF CInv, Progress
<1>10. CASE Store /\ pc' = "ack" /\ todo' = todo
  <2>1. TypeOK'
    BY <1>1, <1>2, <1>3, <1>4, <1>10 DEF CInv, TypeOK
  <2>2. TodoIsATail'
    BY <1>1, <1>10 DEF CInv, TodoIsATail
  <2>3. Progress'
    BY <1>1, <1>3, <1>8, <1>9, <1>10 DEF Progress
  <2> QED
    BY <1>5, <1>6, <2>1, <2>2, <2>3 DEF CInv
<1>11. CASE Advance /\ (Store \/ GiveUp \/ UNCHANGED clickhouse)
  <2>1. /\ TodoIsATail' /\ todo' \subseteq todo /\ m \notin todo'
        /\ pc' \in {"read", "insert"} /\ (todo' # {} <=> pc' = "insert")
    BY <1>1, <1>2, <1>11, AdvanceKeeps DEF CInv
  <2>2. TypeOK'
    BY <1>1, <1>2, <1>3, <1>4, <2>1 DEF CInv, TypeOK
  <2>3. Progress'
    <3>1. pc' # "ack"
      BY <2>1
    <3>2. \A e \in todo' : Untouched(e)'
      BY <1>9, <2>1
    <3> QED
      BY <1>1, <1>8, <3>1, <3>2 DEF Progress
  <2> QED
    BY <1>5, <1>6, <2>1, <2>2, <2>3 DEF CInv
<1> QED
  BY <1>1, <1>10, <1>11

\* XACK takes off the pending list the one entry whose row has just been stored.
LEMMA AckKeeps ==
  ASSUME CInv, Ack
  PROVE  CInv'
<1> DEFINE m == Min(todo)
<1>1. /\ pc = "ack" /\ UNCHANGED <<added, delivered, late, rows, stop, handled>>
      /\ pending' \in {pending, pending \ {m}}
      /\ \/ pending' = pending \ {m} /\ Advance
         \/ pc' = "dead" /\ todo' = {}
      /\ lost' = lost \/ lost' = lost \cup (todo \ handled')
  BY DEF Ack, Abandon, clickhouse
<1>2. todo # {}
  BY <1>1 DEF CInv, TypeOK
<1>3. m \in todo /\ m \in 1 .. delivered /\ rows[m] = 1
  BY <1>1, <1>2, TodoMin DEF CInv, Progress
<1>4. /\ todo' \subseteq todo \ {m} /\ TodoIsATail'
      /\ pc' \in {"read", "insert", "dead"} /\ (todo' # {} <=> pc' = "insert")
  <2>1. CASE Advance
    BY <1>1, <1>2, <2>1, AdvanceKeeps DEF CInv
  <2>2. CASE pc' = "dead" /\ todo' = {}
    <3>1. delivered + 1 \in Nat \ {0} /\ todo' = delivered + 1 .. delivered'
      BY <1>1, <2>2, LengthAssumption DEF CInv, TypeOK
    <3> QED
      BY <2>2, <3>1 DEF TodoIsATail
  <2> QED
    BY <1>1, <2>1, <2>2
<1> HIDE DEF m
<1>5. TypeOK'
  <2>1. todo' \subseteq pending' /\ pending' \subseteq pending
    BY <1>1, <1>4 DEF CInv, TypeOK
  <2>2. lost' \subseteq 1 .. delivered
    BY <1>1 DEF CInv, TypeOK
  <2> QED
    BY <1>1, <1>4, <2>1, <2>2 DEF CInv, TypeOK
<1>6. Progress'
  <2>1. \A e \in todo : e # m => Untouched(e)'
    BY <1>1 DEF CInv, Progress, Untouched, m
  <2>2. \A e \in todo' : Untouched(e)'
    BY <1>4, <2>1
  <2>3. \A e \in Entries : e > delivered' => Untouched(e)'
    BY <1>1 DEF CInv, Progress, Untouched
  <2>4. pc' # "ack"
    BY <1>4
  <2> QED
    BY <2>2, <2>3, <2>4 DEF Progress
<1>7. AckedArePersisted'
  BY <1>1, <1>3 DEF CInv, AckedArePersisted
<1>8. StoredAtMostOnce'
  BY <1>1 DEF CInv, StoredAtMostOnce
<1> QED
  BY <1>4, <1>5, <1>6, <1>7, <1>8 DEF CInv

\* A request given up on becomes the only row of its entry.
LEMMA ExecuteKeeps ==
  ASSUME CInv, Execute
  PROVE  CInv'
<1>1. PICK l \in late : late' = late \ {l} /\ rows' = [rows EXCEPT ![l] = @ + 1]
  BY DEF Execute
<1>2. UNCHANGED <<added, delivered, pending, pc, todo, stop, handled, lost>>
  BY DEF Execute, redis, history
<1>3. /\ rows \in [Entries -> Nat] /\ late \subseteq 1 .. delivered
      /\ l \in 1 .. delivered /\ l \in Entries /\ delivered \in Nat
  BY <1>1, LengthAssumption DEF CInv, TypeOK, Entries
<1>4. rows[l] = 0
  BY <1>1, <1>3 DEF CInv, StoredAtMostOnce
<1>5. /\ rows' \in [Entries -> Nat] /\ rows'[l] = 1
      /\ \A e \in Entries : e # l => rows'[e] = rows[e] /\ (e \in late' <=> e \in late)
  BY <1>1, <1>3, <1>4
<1>6. TypeOK'
  BY <1>1, <1>2, <1>3, <1>5 DEF CInv, TypeOK
<1>7. TodoIsATail'
  BY <1>2 DEF CInv, TodoIsATail
<1>8. Progress'
  <2>1. \A e \in Entries : Untouched(e) => Untouched(e)'
    BY <1>1, <1>5 DEF Untouched
  <2>2. \A e \in Entries : e > delivered' => Untouched(e)'
    BY <1>2, <2>1 DEF CInv, Progress
  <2>3. todo \subseteq Entries
    BY LengthAssumption DEF CInv, TypeOK, Entries
  <2>4. \A e \in todo' : e # Min(todo') \/ pc' = "insert" => Untouched(e)'
    BY <1>2, <2>1, <2>3 DEF CInv, Progress
  <2>5. pc' = "ack" => rows'[Min(todo')] = 1
    <3>1. SUFFICES ASSUME pc = "ack" PROVE rows'[Min(todo)] = 1
      BY <1>2
    <3>2. Min(todo) \in Entries /\ rows[Min(todo)] = 1
      BY <3>1, TodoMin DEF CInv, Progress, TypeOK
    <3> QED
      BY <1>5, <3>2
  <2> QED
    BY <2>2, <2>4, <2>5 DEF Progress
<1>9. AckedArePersisted'
  <2>1. SUFFICES ASSUME NEW e \in 1 .. delivered PROVE e \in pending \/ rows'[e] > 0
    BY <1>2 DEF AckedArePersisted
  <2>2. e \in Entries
    BY LengthAssumption DEF CInv, TypeOK, Entries
  <2> QED
    BY <1>5, <2>2 DEF CInv, AckedArePersisted
<1>10. StoredAtMostOnce'
  BY <1>1, <1>5 DEF CInv, StoredAtMostOnce
<1> QED
  BY <1>6, <1>7, <1>8, <1>9, <1>10 DEF CInv

\* A process that dies forgets its reply; its last request may still arrive.
LEMMA CrashKeeps ==
  ASSUME CInv, Crash
  PROVE  CInv'
<1>1. /\ pc' = "down" /\ todo' = {}
      /\ UNCHANGED <<added, delivered, pending, stop>>
      /\ UNCHANGED clickhouse \/ (pc = "insert" /\ (Store \/ GiveUp))
      /\ handled' = handled \/ (pc = "insert" /\ handled' = handled \cup {Min(todo)})
      /\ lost' = lost \cup (todo \ handled')
  BY DEF Crash, Abandon, redis
<1>2. /\ late' \subseteq 1 .. delivered
      /\ rows' \in [Entries -> Nat]
      /\ \A e \in Entries : rows'[e] >= rows[e]
      /\ \A e \in Entries : rows'[e] + (IF e \in late' THEN 1 ELSE 0) <= 1
      /\ \A e \in Entries : e > delivered => Untouched(e)'
  <2>1. CASE UNCHANGED clickhouse
    <3>1. late' = late /\ rows' = rows
      BY <2>1 DEF clickhouse
    <3>2. \A e \in Entries : rows'[e] >= rows[e]
      BY <3>1 DEF CInv, TypeOK
    <3> QED
      BY <3>1, <3>2 DEF CInv, TypeOK, StoredAtMostOnce, Progress, Untouched
  <2>2. CASE pc = "insert" /\ (Store \/ GiveUp)
    <3>1. /\ late' \subseteq 1 .. delivered
          /\ rows' \in [Entries -> Nat]
          /\ \A e \in Entries :
               e # Min(todo) => rows'[e] = rows[e] /\ (e \in late' <=> e \in late)
          /\ \A e \in Entries : rows'[e] >= rows[e]
          /\ \A e \in Entries : rows'[e] + (IF e \in late' THEN 1 ELSE 0) <= 1
      BY <2>2, InsertionKeeps
    <3>2. Min(todo) \in 1 .. delivered
      BY <2>2, TodoMin DEF CInv, TypeOK
    <3>3. \A e \in Entries : e > delivered => Untouched(e)'
      BY <3>1, <3>2, LengthAssumption DEF CInv, Progress, Untouched, TypeOK, Entries
    <3> QED
      BY <3>1, <3>3
  <2> QED
    BY <1>1, <2>1, <2>2
<1>3. TypeOK'
  <2>1. handled \subseteq 1 .. delivered /\ lost \subseteq 1 .. delivered /\ todo \subseteq 1 .. delivered
    BY DEF CInv, TypeOK
  <2>2. pc = "insert" => Min(todo) \in 1 .. delivered
    BY TodoMin DEF CInv, TypeOK
  <2>3. handled' \subseteq 1 .. delivered /\ lost' \subseteq 1 .. delivered
    BY <1>1, <2>1, <2>2
  <2> QED
    BY <1>1, <1>2, <2>3 DEF CInv, TypeOK
<1>4. TodoIsATail'
  <2>1. delivered + 1 \in Nat \ {0} /\ todo' = delivered + 1 .. delivered'
    BY <1>1, LengthAssumption DEF CInv, TypeOK
  <2> QED
    BY <2>1 DEF TodoIsATail
<1>5. Progress'
  BY <1>1, <1>2 DEF Progress
<1>6. AckedArePersisted'
  <2>1. SUFFICES ASSUME NEW e \in 1 .. delivered PROVE e \in pending \/ rows'[e] > 0
    BY <1>1 DEF AckedArePersisted
  <2>2. e \in Entries /\ rows[e] \in Nat /\ rows'[e] \in Nat /\ rows'[e] >= rows[e]
    BY <1>2, LengthAssumption DEF CInv, TypeOK, Entries
  <2> QED
    BY <2>2 DEF CInv, AckedArePersisted
<1>7. StoredAtMostOnce'
  BY <1>2 DEF StoredAtMostOnce
<1> QED
  BY <1>3, <1>4, <1>5, <1>6, <1>7 DEF CInv

-----------------------------------------------------------------------------

\* The invariant holds for every length of the stream and every batch size.
THEOREM ConsumerInvariant == Spec => []CInv
<1>1. CInv /\ [Next]_vars => CInv'
  <2> SUFFICES ASSUME CInv, [Next]_vars PROVE CInv'
    OBVIOUS
  <2>1. CASE Add \/ ReadError \/ Stopped \/ Stop \/ Restart
    BY <2>1, QuietKeeps
  <2>2. CASE Read
    BY <2>2, ReadKeeps
  <2>3. CASE Insert
    BY <2>3, InsertKeeps
  <2>4. CASE Ack
    BY <2>4, AckKeeps
  <2>5. CASE Execute
    BY <2>5, ExecuteKeeps
  <2>6. CASE Crash
    BY <2>6, CrashKeeps
  <2>7. CASE UNCHANGED vars
    <3>1. UNCHANGED <<added, delivered, pending, late, rows, pc, todo, stop, handled, lost>>
      BY <2>7 DEF vars
    <3>2. TypeOK'
      BY <3>1 DEF CInv, TypeOK
    <3> QED
      BY <3>1, <3>2, FrameKeeps
  <2> QED
    BY <2>1, <2>2, <2>3, <2>4, <2>5, <2>6, <2>7 DEF Next, Step
<1> QED
  BY InitCInv, <1>1, PTL DEF Spec

\* The consumer's state has the types of the model: what it still has to handle
\* is pending, and what is pending or on its way has been delivered.
THEOREM ConsumerTypes == Spec => []TypeOK
<1>1. CInv => TypeOK
  BY DEF CInv
<1> QED
  BY <1>1, ConsumerInvariant, PTL

\* Whatever fails and wherever the process dies, an entry that is no longer
\* pending has its row.
THEOREM AcknowledgedIsStored == Spec => []AckedArePersisted
<1>1. CInv => AckedArePersisted
  BY DEF CInv
<1> QED
  BY <1>1, ConsumerInvariant, PTL

\* No entry is counted twice, late requests included.
THEOREM NoEntryCountedTwice == Spec => []StoredAtMostOnce
<1>1. CInv => StoredAtMostOnce
  BY DEF CInv
<1> QED
  BY <1>1, ConsumerInvariant, PTL
=============================================================================
