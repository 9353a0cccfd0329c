-------------------------- MODULE PublisherProofs ---------------------------
(***************************************************************************)
(* Any number of requests, events, workers and attempts, and a buffer of   *)
(* any size: no event has two owners, none disappears without a line in    *)
(* the log, and no handler panics in an orderly shutdown.                  *)
(***************************************************************************)
EXTENDS Publisher, TLAPS

\* A worker tries again only within its limit, counts its tries anew for each
\* event, and waits only for a command that it has written.
TriesOK ==
  \A w \in Workers :
    /\ worker[w] = "sending" => try[w] < Attempts
    /\ worker[w] = "select" => try[w] = 0
    /\ worker[w] = "waiting" => try[w] # 0 /\ <<held[w], try[w]>> \in wire \cup stream

\* Only what a request has passed to Publish has been dropped.
DroppedWasPublished == \A e \in dropped : Published(e)

\* The channel is closed by Close alone, which finds no handler running unless
\* Shutdown has given up.
GateOK ==
  /\ open <=> main \in {"serving", "draining"}
  /\ ~ open => late \/ HandlersDone

\* What is known of events, whoever owns them.
Ownership == TriesOK /\ DroppedWasPublished /\ OneOwner /\ EventsAccountedFor

\* The inductive invariant.
PInv == TypeOK /\ Ownership /\ GateOK /\ PanicsOnlyWhenLate

-----------------------------------------------------------------------------
(* Events and the buffer. *)

\* Events are the pairs of a request and a place in its sequence, and none of
\* them is the empty tuple.
LEMMA EventPairs ==
  /\ \A e \in Events : e[1] \in Requests /\ e[2] \in 1 .. Count[e[1]] /\ e = <<e[1], e[2]>>
  /\ \A r \in Requests : \A i \in 1 .. Count[r] : <<r, i>> \in Events
  /\ NoEvent \notin Events
<1>1. \A e \in Events : \E r \in Requests : \E i \in 1 .. Count[r] : e = <<r, i>>
  BY DEF Events
<1>2. \A r \in Requests : \A i \in 1 .. Count[r] : <<r, i>> \in Events
  BY DEF Events
<1>3. NoEvent \notin Events
  BY <1>1 DEF NoEvent
<1> QED
  BY <1>1, <1>2, <1>3

\* The next event of a request that has some left is nowhere yet.
LEMMA NextEventIsNew ==
  ASSUME PInv, NEW r \in Requests, emitted[r] < Count[r],
         NEW event, event = <<r, emitted[r] + 1>>
  PROVE  /\ event \in Events /\ ~ Published(event) /\ event \notin dropped
         /\ ~ Queued(event) /\ ~ Held(event) /\ ~ Attempted(event)
<1>1. emitted[r] \in Nat /\ Count[r] \in Nat
  BY CountAssumption DEF PInv, TypeOK
<1>2. event \in Events
  BY <1>1, EventPairs
<1>3. ~ Published(event)
  BY <1>1 DEF Published
<1> QED
  BY <1>2, <1>3 DEF PInv, Ownership, DroppedWasPublished, OneOwner

\* Publishing it makes it published and nothing else.
LEMMA Emitting ==
  ASSUME PInv, NEW r \in Requests, emitted[r] < Count[r],
         emitted' = [emitted EXCEPT ![r] = @ + 1],
         NEW event, event = <<r, emitted[r] + 1>>
  PROVE  /\ emitted' \in [Requests -> Nat] /\ \A q \in Requests : emitted'[q] <= Count[q]
         /\ \A e \in Events : Published(e)' <=> Published(e) \/ e = event
<1>1. emitted \in [Requests -> Nat] /\ Count \in [Requests -> Nat]
      /\ \A q \in Requests : emitted[q] <= Count[q]
  BY CountAssumption DEF PInv, TypeOK
<1>2. /\ emitted' \in [Requests -> Nat] /\ emitted'[r] = emitted[r] + 1
      /\ \A q \in Requests : q # r => emitted'[q] = emitted[q]
  BY <1>1
<1>3. ASSUME NEW e \in Events
      PROVE  Published(e)' <=> Published(e) \/ e = event
  <2>1. e[1] \in Requests /\ e[2] \in Nat /\ e = <<e[1], e[2]>>
    BY EventPairs, <1>1
  <2>2. CASE e[1] = r
    <3>1. e = event <=> e[2] = emitted[r] + 1
      BY <2>1, <2>2
    <3>2. e[2] <= emitted[r] + 1 <=> e[2] <= emitted[r] \/ e[2] = emitted[r] + 1
      BY <1>1, <2>1
    <3> QED
      BY <1>2, <2>2, <3>1, <3>2 DEF Published
  <2>3. CASE e[1] # r
    BY <1>2, <2>1, <2>3 DEF Published
  <2> QED
    BY <2>2, <2>3
<1> QED
  BY <1>1, <1>2, <1>3

\* Receiving the head of a buffer without repetitions leaves the other events.
LEMMA Receiving ==
  ASSUME PInv, queue # <<>>, queue' = Tail(queue),
         NEW event, event = Head(queue)
  PROVE  /\ event \in Events /\ Queued(event) /\ ~ Queued(event)'
         /\ queue' \in Seq(Events) /\ Len(queue') <= Capacity
         /\ \A e \in Events : Queued(e) <=> Queued(e)' \/ e = event
         /\ \A i, j \in 1 .. Len(queue') : queue'[i] = queue'[j] => i = j
<1>1. queue \in Seq(Events) /\ Len(queue) <= Capacity /\ Capacity \in Nat
      /\ \A i, j \in 1 .. Len(queue) : queue[i] = queue[j] => i = j
  BY CapacityAssumption DEF PInv, Ownership, TypeOK, OneOwner
<1>2. /\ Len(queue) \in Nat \ {0} /\ event = queue[1] /\ 1 \in 1 .. Len(queue)
      /\ queue' \in Seq(Events) /\ Len(queue') = Len(queue) - 1
      /\ \A i \in 1 .. Len(queue') : queue'[i] = queue[i + 1]
  BY <1>1
<1>3. event \in Events /\ Queued(event)
  BY <1>1, <1>2 DEF Queued
<1>4. \A i \in 1 .. Len(queue') : i + 1 \in 1 .. Len(queue) /\ i + 1 # 1
  BY <1>2
<1>5. ~ Queued(event)'
  <2>1. SUFFICES ASSUME NEW i \in 1 .. Len(queue'), queue'[i] = event PROVE FALSE
    BY DEF Queued
  <2> QED
    BY <1>1, <1>2, <1>4, <2>1
<1>6. \A i \in 1 .. Len(queue) : i = 1 \/ (i - 1 \in 1 .. Len(queue') /\ queue[i] = queue'[i - 1])
  BY <1>2
<1>7. \A e \in Events : Queued(e) <=> Queued(e)' \/ e = event
  BY <1>2, <1>3, <1>4, <1>6 DEF Queued
<1>8. \A i, j \in 1 .. Len(queue') : queue'[i] = queue'[j] => i = j
  BY <1>1, <1>2, <1>4
<1> QED
  BY <1>1, <1>2, <1>3, <1>5, <1>7, <1>8

\* Room in the buffer takes one more event, behind the others.
LEMMA Buffering ==
  ASSUME PInv, NEW event \in Events, ~ Queued(event),
         Len(queue) < Capacity, queue' = Append(queue, event)
  PROVE  /\ queue' \in Seq(Events) /\ Len(queue') <= Capacity
         /\ \A e \in Events : Queued(e)' <=> Queued(e) \/ e = event
         /\ \A i, j \in 1 .. Len(queue') : queue'[i] = queue'[j] => i = j
<1>1. queue \in Seq(Events) /\ Len(queue) \in Nat /\ Capacity \in Nat
      /\ \A i, j \in 1 .. Len(queue) : queue[i] = queue[j] => i = j
  BY CapacityAssumption DEF PInv, Ownership, TypeOK, OneOwner
<1>2. /\ queue' \in Seq(Events) /\ Len(queue') = Len(queue) + 1
      /\ \A i \in 1 .. Len(queue) : queue'[i] = queue[i]
      /\ queue'[Len(queue) + 1] = event
  BY <1>1
<1>3. \A i \in 1 .. Len(queue') : i \in 1 .. Len(queue) \/ i = Len(queue) + 1
  BY <1>1, <1>2
<1>4. 1 .. Len(queue) \subseteq 1 .. Len(queue') /\ Len(queue) + 1 \in 1 .. Len(queue')
  BY <1>1, <1>2
<1>5. \A e \in Events : Queued(e)' <=> Queued(e) \/ e = event
  BY <1>2, <1>3, <1>4 DEF Queued
<1>6. \A i \in 1 .. Len(queue) : queue[i] # event
  BY DEF Queued
<1>7. \A i, j \in 1 .. Len(queue') : queue'[i] = queue'[j] => i = j
  BY <1>1, <1>2, <1>3, <1>6
<1> QED
  BY <1>1, <1>2, <1>5, <1>7

-----------------------------------------------------------------------------
(* What a step leaves alone. *)

\* No event changes hands.
LEMMA OwnershipFrame ==
  ASSUME Ownership, UNCHANGED <<emitted, dropped, queue, pool>>
  PROVE  Ownership'
<1>1. UNCHANGED <<emitted, dropped, queue, worker, held, try, wire, stream, failed>>
  BY DEF pool
<1>2. TriesOK'
  BY <1>1 DEF Ownership, TriesOK
<1>3. \A e \in Events : /\ Published(e)' <=> Published(e)
                        /\ Queued(e)' <=> Queued(e)
                        /\ Held(e)' <=> Held(e)
                        /\ Attempted(e)' <=> Attempted(e)
                        /\ Executed(e)' <=> Executed(e)
  BY <1>1 DEF Published, Queued, Held, Attempted, Executed
<1>4. DroppedWasPublished'
  BY <1>1 DEF Ownership, DroppedWasPublished, Published
<1>5. OneOwner'
  BY <1>1, <1>3 DEF Ownership, OneOwner
<1>6. EventsAccountedFor'
  BY <1>1, <1>3 DEF Ownership, EventsAccountedFor
<1> QED
  BY <1>2, <1>4, <1>5, <1>6 DEF Ownership

\* No handler starts, and neither the channel nor main moves.
LEMMA GateFrame ==
  ASSUME GateOK, PanicsOnlyWhenLate, UNCHANGED <<handler, open, main, late>>
  PROVE  GateOK' /\ PanicsOnlyWhenLate'
BY DEF GateOK, PanicsOnlyWhenLate, HandlersDone

-----------------------------------------------------------------------------
(* Handlers. *)

\* A request is accepted only while the channel is open.
LEMMA AcceptKeeps ==
  ASSUME PInv, NEW r \in Requests, Accept(r)
  PROVE  PInv'
<1>1. /\ main = "serving"
      /\ handler' = [handler EXCEPT ![r] = "running"]
      /\ UNCHANGED <<emitted, dropped, queue, worker, held, try, wire, stream, failed,
                     open, stopping, main, late>>
  BY DEF Accept, pool, process
<1>2. TypeOK'
  BY <1>1 DEF PInv, TypeOK
<1>3. Ownership'
  BY <1>1, OwnershipFrame DEF PInv, pool
<1>4. GateOK'
  BY <1>1 DEF PInv, GateOK
<1>5. PanicsOnlyWhenLate'
  BY <1>1 DEF PInv, PanicsOnlyWhenLate, TypeOK
<1> QED
  BY <1>2, <1>3, <1>4, <1>5 DEF PInv

\* An answer changes nothing else.
LEMMA AnswerKeeps ==
  ASSUME PInv, NEW r \in Requests, Answer(r)
  PROVE  PInv'
<1>1. /\ handler' = [handler EXCEPT ![r] = "answered"]
      /\ UNCHANGED <<emitted, dropped, queue, worker, held, try, wire, stream, failed,
                     open, stopping, main, late>>
  BY DEF Answer, pool, process
<1>2. TypeOK'
  BY <1>1 DEF PInv, TypeOK
<1>3. Ownership'
  BY <1>1, OwnershipFrame DEF PInv, pool
<1>4. GateOK'
  BY <1>1 DEF PInv, GateOK, HandlersDone, TypeOK
<1>5. PanicsOnlyWhenLate'
  BY <1>1 DEF PInv, PanicsOnlyWhenLate, TypeOK
<1> QED
  BY <1>2, <1>3, <1>4, <1>5 DEF PInv

\* An event that finds room is in the buffer alone, one that does not is
\* dropped and nowhere; on a closed channel the handler panics, and then
\* Shutdown had given up on it.
LEMMA PublishKeeps ==
  ASSUME PInv, NEW r \in Requests, Publish(r)
  PROVE  PInv'
<1> DEFINE event == <<r, emitted[r] + 1>>
<1>1. /\ handler[r] = "running" /\ emitted[r] < Count[r]
      /\ UNCHANGED <<worker, held, try, wire, stream, failed, open, stopping, main, late>>
  BY DEF Publish, pool, process
<1>2. CASE /\ open /\ emitted' = [emitted EXCEPT ![r] = @ + 1] /\ handler' = handler
           /\ \/ Len(queue) < Capacity /\ queue' = Append(queue, event) /\ dropped' = dropped
              \/ dropped' = dropped \cup {event} /\ queue' = queue
  <2>1. PICK new \in Events :
          /\ new = event
          /\ ~ Published(new) /\ new \notin dropped
          /\ ~ Queued(new) /\ ~ Held(new) /\ ~ Attempted(new)
    BY <1>1, NextEventIsNew
  <2>2. /\ emitted' \in [Requests -> Nat] /\ \A q \in Requests : emitted'[q] <= Count[q]
        /\ \A e \in Events : Published(e)' <=> Published(e) \/ e = new
    BY <1>1, <1>2, <2>1, Emitting
  <2>3. \A e \in Events : /\ Held(e)' <=> Held(e)
                          /\ Attempted(e)' <=> Attempted(e)
                          /\ Executed(e)' <=> Executed(e)
    BY <1>1 DEF Held, Attempted, Executed
  <2>4. /\ queue' \in Seq(Events) /\ Len(queue') <= Capacity /\ dropped' \subseteq Events
        /\ \A i, j \in 1 .. Len(queue') : queue'[i] = queue'[j] => i = j
        /\ \A e \in Events \ {new} : (Queued(e)' <=> Queued(e)) /\ (e \in dropped' <=> e \in dropped)
        /\ Queued(new)' <=> new \notin dropped'
    <3>1. CASE Len(queue) < Capacity /\ queue' = Append(queue, event) /\ dropped' = dropped
      <4>1. /\ queue' \in Seq(Events) /\ Len(queue') <= Capacity
            /\ \A e \in Events : Queued(e)' <=> Queued(e) \/ e = new
            /\ \A i, j \in 1 .. Len(queue') : queue'[i] = queue'[j] => i = j
        BY <2>1, <3>1, Buffering
      <4>2. dropped' \subseteq Events
        BY <3>1 DEF PInv, TypeOK
      <4> QED
        BY <2>1, <3>1, <4>1, <4>2
    <3>2. CASE dropped' = dropped \cup {event} /\ queue' = queue
      <4>1. \A e \in Events : Queued(e)' <=> Queued(e)
        BY <3>2 DEF Queued
      <4>2. dropped' \subseteq Events
        BY <2>1, <3>2 DEF PInv, TypeOK
      <4>3. queue \in Seq(Events) /\ Len(queue) <= Capacity
            /\ \A i, j \in 1 .. Len(queue) : queue[i] = queue[j] => i = j
        BY DEF PInv, Ownership, OneOwner, TypeOK
      <4> QED
        BY <2>1, <3>2, <4>1, <4>2, <4>3
    <3> QED
      BY <1>2, <3>1, <3>2
  <2>5. TypeOK'
    BY <1>1, <1>2, <2>2, <2>4 DEF PInv, TypeOK
  <2>6. TriesOK'
    BY <1>1 DEF PInv, Ownership, TriesOK
  <2>7. DroppedWasPublished'
    <3>1. \A e \in dropped' : e \in Events /\ (e \in dropped \/ e = new)
      BY <2>4
    <3>2. \A e \in dropped' : e \in Events /\ (Published(e) \/ e = new)
      BY <3>1 DEF PInv, Ownership, DroppedWasPublished
    <3> QED
      BY <2>2, <3>2 DEF DroppedWasPublished
  <2>8. OneOwner'
    <3> DEFINE Mine(e) == Queued(e)' \/ Held(e)' \/ Attempted(e)'
    <3>1. ASSUME NEW e \in Events, e # new
          PROVE  /\ Mine(e) => Published(e)' /\ e \notin dropped'
                 /\ Queued(e)' => ~ Held(e)' /\ ~ Attempted(e)'
      BY <2>2, <2>3, <2>4, <3>1 DEF PInv, Ownership, OneOwner
    <3>2. /\ Mine(new) => Published(new)' /\ new \notin dropped'
          /\ Queued(new)' => ~ Held(new)' /\ ~ Attempted(new)'
      BY <2>1, <2>2, <2>3, <2>4
    <3>3. \A v, w \in Workers : held'[v] # NoEvent /\ held'[v] = held'[w] => v = w
      BY <1>1 DEF PInv, Ownership, OneOwner
    <3> QED
      BY <2>4, <3>1, <3>2, <3>3 DEF OneOwner
  <2>9. EventsAccountedFor'
    <3>1. SUFFICES ASSUME NEW e \in Events, Published(e)'
                   PROVE  e \in (dropped \cup failed)' \/ Queued(e)' \/ Held(e)' \/ Executed(e)'
      BY DEF EventsAccountedFor
    <3> QED
      BY <1>1, <2>2, <2>3, <2>4, <3>1 DEF PInv, Ownership, EventsAccountedFor
  <2>10. GateOK' /\ PanicsOnlyWhenLate'
    BY <1>1, <1>2, GateFrame DEF PInv
  <2> QED
    BY <2>5, <2>6, <2>7, <2>8, <2>9, <2>10 DEF PInv, Ownership
<1>3. CASE /\ ~ open /\ handler' = [handler EXCEPT ![r] = "panicked"]
           /\ UNCHANGED <<emitted, dropped, queue>>
  <2>1. late
    BY <1>1, <1>3 DEF PInv, GateOK, HandlersDone
  <2>2. TypeOK'
    BY <1>1, <1>3 DEF PInv, TypeOK
  <2>3. Ownership'
    BY <1>1, <1>3, OwnershipFrame DEF PInv, pool
  <2>4. GateOK'
    BY <1>1, <1>3, <2>1 DEF PInv, GateOK
  <2>5. PanicsOnlyWhenLate'
    BY <1>1, <2>1 DEF PanicsOnlyWhenLate
  <2> QED
    BY <2>2, <2>3, <2>4, <2>5 DEF PInv
<1> QED
  BY <1>2, <1>3 DEF Publish

-----------------------------------------------------------------------------
(* Workers. *)

\* The event goes from the buffer into the hands of one worker.
LEMMA TakeKeeps ==
  ASSUME PInv, NEW w \in Workers, Take(w)
  PROVE  PInv'
<1>1. /\ worker[w] = "select" /\ queue # <<>>
      /\ held' = [held EXCEPT ![w] = Head(queue)]
      /\ worker' = [worker EXCEPT ![w] = "sending"]
      /\ queue' = Tail(queue)
      /\ UNCHANGED <<handler, emitted, dropped, try, wire, stream, failed, open, stopping, main, late>>
  BY DEF Take, Remaining, producers, process
<1>2. PICK event \in Events :
        /\ event = Head(queue) /\ Queued(event) /\ ~ Queued(event)'
        /\ queue' \in Seq(Events) /\ Len(queue') <= Capacity
        /\ \A e \in Events : Queued(e) <=> Queued(e)' \/ e = event
        /\ \A i, j \in 1 .. Len(queue') : queue'[i] = queue'[j] => i = j
  BY <1>1, Receiving
<1>3. /\ held \in [Workers -> Events \cup {NoEvent}] /\ held[w] = NoEvent
      /\ worker \in [Workers -> {"select", "sending", "waiting", "gone"}]
      /\ try \in [Workers -> 0 .. Attempts]
  BY <1>1 DEF PInv, TypeOK
<1>4. /\ held' \in [Workers -> Events \cup {NoEvent}] /\ held'[w] = event
      /\ \A v \in Workers : v # w => held'[v] = held[v]
      /\ worker'[w] = "sending" /\ try[w] = 0
      /\ \A v \in Workers : v # w => worker'[v] = worker[v]
  BY <1>1, <1>2, <1>3 DEF PInv, Ownership, TriesOK
<1>5. event # NoEvent
  BY EventPairs
<1>6. ~ Held(event) /\ ~ Attempted(event) /\ Published(event) /\ event \notin dropped
  BY <1>2 DEF PInv, Ownership, OneOwner
<1>7. \A e \in Events : /\ Held(e)' <=> Held(e) \/ e = event
                        /\ Attempted(e)' <=> Attempted(e)
                        /\ Executed(e)' <=> Executed(e)
                        /\ Published(e)' <=> Published(e)
  <2>1. ASSUME NEW e \in Events PROVE Held(e)' <=> Held(e) \/ e = event
    <3>1. e # NoEvent
      BY EventPairs
    <3> QED
      BY <1>3, <1>4, <3>1 DEF Held
  <2> QED
    BY <1>1, <2>1 DEF Attempted, Executed, Published
<1>8. TypeOK'
  <2>1. worker' \in [Workers -> {"select", "sending", "waiting", "gone"}]
        /\ try' \in [Workers -> 0 .. Attempts]
    BY <1>1, <1>3, AttemptsAssumption
  <2>2. \A v \in Workers : held'[v] # NoEvent <=> worker'[v] \in {"sending", "waiting"}
    BY <1>4, <1>5 DEF PInv, TypeOK
  <2> QED
    BY <1>1, <1>2, <1>4, <2>1, <2>2 DEF PInv, TypeOK
<1>9. TriesOK'
  BY <1>1, <1>4, AttemptsAssumption DEF PInv, Ownership, TriesOK
<1>10. DroppedWasPublished'
  BY <1>1 DEF PInv, Ownership, DroppedWasPublished, Published
<1>11. OneOwner'
  <2>1. \A e \in Events : Queued(e)' \/ Held(e)' \/ Attempted(e)' => Published(e)' /\ e \notin dropped'
    BY <1>1, <1>2, <1>6, <1>7 DEF PInv, Ownership, OneOwner
  <2>2. \A e \in Events : Queued(e)' => ~ Held(e)' /\ ~ Attempted(e)'
    BY <1>2, <1>7 DEF PInv, Ownership, OneOwner
  <2>3. \A v \in Workers : v # w => held'[v] # event
    BY <1>4, <1>6 DEF Held
  <2>4. \A v, u \in Workers : held'[v] # NoEvent /\ held'[v] = held'[u] => v = u
    BY <1>4, <2>3 DEF PInv, Ownership, OneOwner
  <2> QED
    BY <1>2, <2>1, <2>2, <2>4 DEF OneOwner
<1>12. EventsAccountedFor'
  <2>1. SUFFICES ASSUME NEW e \in Events, Published(e)'
                 PROVE  e \in (dropped \cup failed)' \/ Queued(e)' \/ Held(e)' \/ Executed(e)'
    BY DEF EventsAccountedFor
  <2> QED
    BY <1>1, <1>2, <1>7, <2>1 DEF PInv, Ownership, EventsAccountedFor
<1>13. GateOK' /\ PanicsOnlyWhenLate'
  BY <1>1, GateFrame DEF PInv
<1> QED
  BY <1>8, <1>9, <1>10, <1>11, <1>12, <1>13 DEF PInv, Ownership

\* A worker leaves with empty hands.
LEMMA LeaveKeeps ==
  ASSUME PInv, NEW w \in Workers, Leave(w)
  PROVE  PInv'
<1>1. /\ worker[w] = "select" /\ worker' = [worker EXCEPT ![w] = "gone"]
      /\ UNCHANGED <<handler, emitted, dropped, queue, held, try, wire, stream, failed,
                     open, stopping, main, late>>
  BY DEF Leave, producers, process
<1>2. TypeOK'
  BY <1>1 DEF PInv, TypeOK
<1>3. TriesOK'
  BY <1>1 DEF PInv, Ownership, TriesOK, TypeOK
<1>4. DroppedWasPublished' /\ OneOwner' /\ EventsAccountedFor'
  <2>1. \A e \in Events : /\ Published(e)' <=> Published(e)
                          /\ Queued(e)' <=> Queued(e)
                          /\ Held(e)' <=> Held(e)
                          /\ Attempted(e)' <=> Attempted(e)
                          /\ Executed(e)' <=> Executed(e)
    BY <1>1 DEF Published, Queued, Held, Attempted, Executed
  <2>2. DroppedWasPublished'
    BY <1>1 DEF PInv, Ownership, DroppedWasPublished, Published
  <2>3. OneOwner'
    BY <1>1, <2>1 DEF PInv, Ownership, OneOwner
  <2>4. EventsAccountedFor'
    BY <1>1, <2>1 DEF PInv, Ownership, EventsAccountedFor
  <2> QED
    BY <2>2, <2>3, <2>4
<1>5. GateOK' /\ PanicsOnlyWhenLate'
  BY <1>1, GateFrame DEF PInv
<1> QED
  BY <1>2, <1>3, <1>4, <1>5 DEF PInv, Ownership

\* send returns: what the worker held is in the stream, or its loss is logged.
LEMMA ReturnKeeps ==
  ASSUME PInv, NEW w \in Workers, worker[w] \in {"sending", "waiting"},
         Return(w),
         \/ failed' = failed \cup {held[w]}
         \/ failed' = failed /\ Executed(held[w]),
         UNCHANGED <<producers, queue, wire, stream, process>>
  PROVE  PInv'
<1>1. /\ worker' = [worker EXCEPT ![w] = "select"]
      /\ held' = [held EXCEPT ![w] = NoEvent]
      /\ try' = [try EXCEPT ![w] = 0]
      /\ UNCHANGED <<handler, emitted, dropped, queue, wire, stream,
                     open, stopping, main, late>>
  BY DEF Return, producers, process
<1>2. /\ held \in [Workers -> Events \cup {NoEvent}] /\ held[w] \in Events
      /\ worker \in [Workers -> {"select", "sending", "waiting", "gone"}]
      /\ try \in [Workers -> 0 .. Attempts] /\ failed \subseteq Events
  BY DEF PInv, TypeOK
<1>3. /\ held' \in [Workers -> Events \cup {NoEvent}] /\ held'[w] = NoEvent
      /\ \A v \in Workers : v # w => held'[v] = held[v]
      /\ worker' \in [Workers -> {"select", "sending", "waiting", "gone"}]
      /\ worker'[w] = "select" /\ \A v \in Workers : v # w => worker'[v] = worker[v]
      /\ try' \in [Workers -> 0 .. Attempts]
      /\ try'[w] = 0 /\ \A v \in Workers : v # w => try'[v] = try[v]
      /\ failed' \subseteq Events /\ failed \subseteq failed'
      /\ held[w] \in failed' \/ Executed(held[w])
  BY <1>1, <1>2, AttemptsAssumption
<1>4. \A e \in Events : /\ Published(e)' <=> Published(e)
                        /\ Queued(e)' <=> Queued(e)
                        /\ Attempted(e)' <=> Attempted(e)
                        /\ Executed(e)' <=> Executed(e)
                        /\ Held(e)' => Held(e)
                        /\ Held(e) => Held(e)' \/ e = held[w]
  <2>1. ASSUME NEW e \in Events
        PROVE  (Held(e)' => Held(e)) /\ (Held(e) => Held(e)' \/ e = held[w])
    <3>1. e # NoEvent
      BY EventPairs
    <3> QED
      BY <1>3, <3>1 DEF Held
  <2> QED
    BY <1>1, <2>1 DEF Published, Queued, Attempted, Executed
<1>5. TypeOK'
  BY <1>1, <1>3 DEF PInv, TypeOK
<1>6. TriesOK'
  BY <1>1, <1>3 DEF PInv, Ownership, TriesOK
<1>7. DroppedWasPublished'
  BY <1>1 DEF PInv, Ownership, DroppedWasPublished, Published
<1>8. OneOwner'
  <2>1. \A v, u \in Workers : held'[v] # NoEvent /\ held'[v] = held'[u] => v = u
    BY <1>3 DEF PInv, Ownership, OneOwner
  <2> QED
    BY <1>1, <1>4, <2>1 DEF PInv, Ownership, OneOwner
<1>9. EventsAccountedFor'
  <2>1. SUFFICES ASSUME NEW e \in Events, Published(e)'
                 PROVE  e \in (dropped \cup failed)' \/ Queued(e)' \/ Held(e)' \/ Executed(e)'
    BY DEF EventsAccountedFor
  <2>2. e \in dropped \cup failed \/ Queued(e) \/ Held(e) \/ Executed(e)
    BY <1>4, <2>1 DEF PInv, Ownership, EventsAccountedFor
  <2>3. e = held[w] => e \in failed' \/ Executed(e)
    BY <1>3
  <2> QED
    BY <1>1, <1>3, <1>4, <2>2, <2>3
<1>10. GateOK' /\ PanicsOnlyWhenLate'
  BY <1>1, GateFrame DEF PInv
<1> QED
  BY <1>5, <1>6, <1>7, <1>8, <1>9, <1>10 DEF PInv, Ownership

\* Between two tries, or at a try that got no connection, the event stays with
\* its worker.
LEMMA TryAgainKeeps ==
  ASSUME PInv, NEW w \in Workers, worker[w] \in {"sending", "waiting"},
         worker' = [worker EXCEPT ![w] = "sending"],
         try' \in [Workers -> 0 .. Attempts], try'[w] < Attempts,
         \A v \in Workers : v # w => try'[v] = try[v],
         UNCHANGED <<producers, queue, held, wire, stream, failed, process>>
  PROVE  PInv'
<1>1. UNCHANGED <<handler, emitted, dropped, queue, held, wire, stream, failed,
                  open, stopping, main, late>>
  BY DEF producers, process
<1>2. /\ worker' \in [Workers -> {"select", "sending", "waiting", "gone"}]
      /\ worker'[w] = "sending" /\ \A v \in Workers : v # w => worker'[v] = worker[v]
  BY DEF PInv, TypeOK
<1>3. TypeOK'
  BY <1>1, <1>2 DEF PInv, TypeOK
<1>4. TriesOK'
  BY <1>1, <1>2 DEF PInv, Ownership, TriesOK
<1>5. \A e \in Events : /\ Published(e)' <=> Published(e)
                        /\ Queued(e)' <=> Queued(e)
                        /\ Held(e)' <=> Held(e)
                        /\ Attempted(e)' <=> Attempted(e)
                        /\ Executed(e)' <=> Executed(e)
  BY <1>1 DEF Published, Queued, Held, Attempted, Executed
<1>6. DroppedWasPublished'
  BY <1>1 DEF PInv, Ownership, DroppedWasPublished, Published
<1>7. OneOwner'
  BY <1>1, <1>5 DEF PInv, Ownership, OneOwner
<1>8. EventsAccountedFor'
  BY <1>1, <1>5 DEF PInv, Ownership, EventsAccountedFor
<1>9. GateOK' /\ PanicsOnlyWhenLate'
  BY <1>1, GateFrame DEF PInv
<1> QED
  BY <1>3, <1>4, <1>6, <1>7, <1>8, <1>9 DEF PInv, Ownership

\* The command of an event that a worker holds is written.
LEMMA WriteKeeps ==
  ASSUME PInv, NEW w \in Workers, worker[w] = "sending",
         worker' = [worker EXCEPT ![w] = "waiting"],
         try' = [try EXCEPT ![w] = @ + 1],
         wire' = wire \cup {<<held[w], try[w] + 1>>},
         UNCHANGED <<producers, queue, held, stream, failed, process>>
  PROVE  PInv'
<1>1. UNCHANGED <<handler, emitted, dropped, queue, held, stream, failed,
                  open, stopping, main, late>>
  BY DEF producers, process
<1>2. /\ held[w] \in Events /\ try[w] \in 0 .. Attempts /\ try[w] < Attempts
      /\ try \in [Workers -> 0 .. Attempts]
      /\ worker \in [Workers -> {"select", "sending", "waiting", "gone"}]
  BY DEF PInv, TypeOK, Ownership, TriesOK
<1>3. try[w] + 1 \in 1 .. Attempts
  BY <1>2, AttemptsAssumption
<1>4. /\ try' \in [Workers -> 0 .. Attempts] /\ try'[w] = try[w] + 1
      /\ worker' \in [Workers -> {"select", "sending", "waiting", "gone"}]
      /\ worker'[w] = "waiting"
      /\ \A v \in Workers : v # w => try'[v] = try[v] /\ worker'[v] = worker[v]
  BY <1>2, <1>3
<1>5. \A e \in Events : /\ Published(e)' <=> Published(e)
                        /\ Queued(e)' <=> Queued(e)
                        /\ Held(e)' <=> Held(e)
                        /\ Attempted(e)' <=> Attempted(e) \/ e = held[w]
                        /\ Executed(e)' <=> Executed(e)
  <2>1. wire' \cup stream' = (wire \cup stream) \cup {<<held[w], try[w] + 1>>}
    BY <1>1
  <2>2. ASSUME NEW e \in Events PROVE Attempted(e)' <=> Attempted(e) \/ e = held[w]
    <3> DEFINE written == <<held[w], try[w] + 1>>
    <3>1. written[1] = held[w]
      OBVIOUS
    <3> HIDE DEF written
    <3>2. wire' \cup stream' = (wire \cup stream) \cup {written}
      BY <2>1 DEF written
    <3> QED
      BY <3>1, <3>2 DEF Attempted
  <2> QED
    BY <1>1, <2>2 DEF Published, Queued, Held, Executed
<1>6. Held(held[w])
  BY DEF Held
<1>7. TypeOK'
  <2>1. wire' \subseteq Events \X (1 .. Attempts)
    BY <1>2, <1>3 DEF PInv, TypeOK
  <2>2. \A v \in Workers : held'[v] # NoEvent <=> worker'[v] \in {"sending", "waiting"}
    BY <1>1, <1>4 DEF PInv, TypeOK
  <2> QED
    BY <1>1, <1>4, <2>1, <2>2 DEF PInv, TypeOK
<1>8. TriesOK'
  BY <1>1, <1>2, <1>4 DEF PInv, Ownership, TriesOK
<1>9. DroppedWasPublished'
  BY <1>1 DEF PInv, Ownership, DroppedWasPublished, Published
<1>10. OneOwner'
  BY <1>1, <1>2, <1>5, <1>6 DEF PInv, Ownership, OneOwner
<1>11. EventsAccountedFor'
  BY <1>1, <1>5 DEF PInv, Ownership, EventsAccountedFor
<1>12. GateOK' /\ PanicsOnlyWhenLate'
  BY <1>1, GateFrame DEF PInv
<1> QED
  BY <1>7, <1>8, <1>9, <1>10, <1>11, <1>12 DEF PInv, Ownership

\* A try writes the command, gets no connection, or is the last.
LEMMA SendKeeps ==
  ASSUME PInv, NEW w \in Workers, Send(w)
  PROVE  PInv'
<1>1. worker[w] = "sending" /\ UNCHANGED <<producers, queue, stream, process>>
  BY DEF Send
<1>2. CASE /\ worker' = [worker EXCEPT ![w] = "waiting"]
           /\ try' = [try EXCEPT ![w] = @ + 1]
           /\ wire' = wire \cup {<<held[w], try[w] + 1>>}
           /\ UNCHANGED <<held, failed>>
  BY <1>1, <1>2, WriteKeeps
<1>3. CASE /\ try[w] + 1 < Attempts
           /\ try' = [try EXCEPT ![w] = @ + 1]
           /\ UNCHANGED <<worker, held, wire, failed>>
  <2>1. /\ worker \in [Workers -> {"select", "sending", "waiting", "gone"}]
        /\ try \in [Workers -> 0 .. Attempts]
    BY DEF PInv, TypeOK
  <2>2. worker' = [worker EXCEPT ![w] = "sending"]
    BY <1>1, <1>3, <2>1
  <2>3. /\ try' \in [Workers -> 0 .. Attempts] /\ try'[w] < Attempts
        /\ \A v \in Workers : v # w => try'[v] = try[v]
    BY <1>3, <2>1, AttemptsAssumption
  <2> QED
    BY <1>1, <1>3, <2>2, <2>3, TryAgainKeeps
<1>4. CASE GiveUp(w) /\ UNCHANGED wire
  BY <1>1, <1>4, ReturnKeeps DEF GiveUp
<1> QED
  BY <1>2, <1>3, <1>4 DEF Send

\* A reply means that the event is in the stream; any other end of the wait is
\* a further try or a logged failure.
LEMMA ReplyOrFailKeeps ==
  ASSUME PInv, NEW w \in Workers, Reply(w) \/ Fail(w)
  PROVE  PInv'
<1>1. worker[w] = "waiting" /\ UNCHANGED <<producers, queue, wire, stream, process>>
  BY DEF Reply, Fail
<1>2. CASE Reply(w)
  <2> DEFINE command == <<held[w], try[w]>>
  <2>1. command \in stream /\ command[1] = held[w]
    BY <1>2 DEF Reply
  <2>2. Executed(held[w])
    BY <2>1 DEF Executed
  <2>3. Return(w) /\ failed' = failed
    BY <1>2 DEF Reply
  <2> QED
    BY <1>1, <2>2, <2>3, ReturnKeeps
<1>3. CASE /\ try[w] < Attempts
           /\ worker' = [worker EXCEPT ![w] = "sending"]
           /\ UNCHANGED <<held, try, failed>>
  <2>1. try' \in [Workers -> 0 .. Attempts]
    BY <1>3 DEF PInv, TypeOK
  <2> QED
    BY <1>1, <1>3, <2>1, TryAgainKeeps
<1>4. CASE GiveUp(w)
  BY <1>1, <1>4, ReturnKeeps DEF GiveUp
<1> QED
  BY <1>2, <1>3, <1>4 DEF Fail

\* Redis moves a command from the wire into the stream.
LEMMA ExecuteKeeps ==
  ASSUME PInv, Execute
  PROVE  PInv'
<1>1. PICK c \in wire : wire' = wire \ {c} /\ stream' = stream \cup {c}
  BY DEF Execute
<1>2. UNCHANGED <<handler, emitted, dropped, queue, worker, held, try, failed,
                  open, stopping, main, late>>
  BY DEF Execute, producers, process
<1>3. wire' \cup stream' = wire \cup stream
  BY <1>1
<1>4. TypeOK'
  BY <1>1, <1>2 DEF PInv, TypeOK
<1>5. TriesOK'
  BY <1>2, <1>3 DEF PInv, Ownership, TriesOK
<1>6. \A e \in Events : /\ Published(e)' <=> Published(e)
                        /\ Queued(e)' <=> Queued(e)
                        /\ Held(e)' <=> Held(e)
                        /\ Attempted(e)' <=> Attempted(e)
                        /\ Executed(e) => Executed(e)'
  BY <1>1, <1>2, <1>3 DEF Published, Queued, Held, Attempted, Executed
<1>7. DroppedWasPublished'
  BY <1>2 DEF PInv, Ownership, DroppedWasPublished, Published
<1>8. OneOwner'
  BY <1>2, <1>6 DEF PInv, Ownership, OneOwner
<1>9. EventsAccountedFor'
  BY <1>2, <1>6 DEF PInv, Ownership, EventsAccountedFor
<1>10. GateOK' /\ PanicsOnlyWhenLate'
  BY <1>2, GateFrame DEF PInv
<1> QED
  BY <1>4, <1>5, <1>7, <1>8, <1>9, <1>10 DEF PInv, Ownership

-----------------------------------------------------------------------------
(* main. *)

\* The signal and the stages of the shutdown move no event; Close finds no
\* handler running or is late.
LEMMA MainKeeps ==
  ASSUME PInv, Signal \/ Main
  PROVE  PInv'
<1>1. UNCHANGED <<handler, emitted, dropped, queue, worker, held, try, wire, stream, failed>>
  BY DEF Signal, Main, Shutdown, Close, Exit, producers, pool
<1>3. Ownership'
  BY <1>1, OwnershipFrame DEF PInv, pool
<1>4. CASE Signal \/ Shutdown
  <2>1. /\ main = "serving" /\ main' \in {"serving", "draining"} /\ open' = open /\ late' = late
        /\ stopping' \in BOOLEAN
    BY <1>4 DEF Signal, Shutdown, PInv, TypeOK
  <2> QED
    BY <1>1, <1>3, <2>1 DEF PInv, TypeOK, GateOK, PanicsOnlyWhenLate
<1>5. CASE Close
  <2>1. /\ main = "draining" /\ main' = "closing" /\ open' = FALSE /\ stopping' = stopping
        /\ \/ HandlersDone /\ late' = late
           \/ late' = TRUE
    BY <1>5 DEF Close
  <2>2. TypeOK'
    BY <1>1, <2>1 DEF PInv, TypeOK
  <2>3. GateOK'
    BY <1>1, <2>1 DEF GateOK, HandlersDone
  <2>4. PanicsOnlyWhenLate'
    BY <1>1, <2>1 DEF PInv, PanicsOnlyWhenLate
  <2> QED
    BY <1>3, <2>2, <2>3, <2>4 DEF PInv
<1>6. CASE Exit
  <2>1. main = "closing" /\ main' = "exited" /\ UNCHANGED <<open, stopping, late>>
    BY <1>6 DEF Exit
  <2>2. TypeOK'
    BY <1>1, <2>1 DEF PInv, TypeOK
  <2>3. GateOK' /\ PanicsOnlyWhenLate'
    BY <1>1, <2>1 DEF PInv, GateOK, HandlersDone, PanicsOnlyWhenLate
  <2> QED
    BY <1>3, <2>2, <2>3 DEF PInv
<1> QED
  BY <1>4, <1>5, <1>6 DEF Main

-----------------------------------------------------------------------------

\* A server that has just started owes nothing.
LEMMA InitPInv == Init => PInv
<1> SUFFICES ASSUME Init PROVE PInv
  OBVIOUS
<1> USE DEF Init
<1>1. \A e \in Events : ~ Queued(e) /\ ~ Held(e) /\ ~ Attempted(e)
  BY EventPairs DEF Queued, Held, Attempted
<1>2. TypeOK
  <2>1. ASSUME NEW r \in Requests PROVE emitted[r] <= Count[r]
    <3>1. emitted[r] = 0 /\ Count[r] \in Nat
      BY CountAssumption
    <3> QED
      BY <3>1
  <2>2. queue \in Seq(Events) /\ Len(queue) <= Capacity
    BY CapacityAssumption
  <2>3. try \in [Workers -> 0 .. Attempts]
    BY AttemptsAssumption
  <2> QED
    BY <2>1, <2>2, <2>3 DEF TypeOK
<1>3. TriesOK
  BY DEF TriesOK
<1>4. DroppedWasPublished
  BY DEF DroppedWasPublished
<1>5. OneOwner
  BY <1>1 DEF OneOwner
<1>6. EventsAccountedFor
  <2>1. SUFFICES ASSUME NEW e \in Events, Published(e) PROVE FALSE
    BY DEF EventsAccountedFor
  <2>2. e[1] \in Requests /\ e[2] \in Nat /\ e[2] >= 1
    BY EventPairs, CountAssumption
  <2>3. emitted[e[1]] = 0
    BY <2>2
  <2> QED
    BY <2>1, <2>2, <2>3 DEF Published
<1>7. GateOK /\ PanicsOnlyWhenLate
  BY DEF GateOK, PanicsOnlyWhenLate
<1> QED
  BY <1>2, <1>3, <1>4, <1>5, <1>6, <1>7 DEF PInv, Ownership

\* The invariant holds for all requests, workers, limits and interleavings.
THEOREM PublisherInvariant == Spec => []PInv
<1>1. PInv /\ [Next]_vars => PInv'
  <2> SUFFICES ASSUME PInv, [Next]_vars PROVE PInv'
    OBVIOUS
  <2>1. ASSUME NEW r \in Requests, Handle(r) PROVE PInv'
    BY <2>1, AcceptKeeps, PublishKeeps, AnswerKeeps DEF Handle
  <2>2. ASSUME NEW w \in Workers, Work(w) PROVE PInv'
    BY <2>2, TakeKeeps, LeaveKeeps, SendKeeps, ReplyOrFailKeeps DEF Work
  <2>3. CASE Execute
    BY <2>3, ExecuteKeeps
  <2>4. CASE Signal \/ Main
    BY <2>4, MainKeeps
  <2>5. CASE Terminated \/ UNCHANGED vars
    <3>1. UNCHANGED <<handler, emitted, dropped, queue, worker, held, try, wire, stream, failed,
                      open, stopping, main, late>>
      BY <2>5 DEF Terminated, vars
    <3>2. TypeOK'
      BY <3>1 DEF PInv, TypeOK
    <3>3. Ownership' /\ GateOK' /\ PanicsOnlyWhenLate'
      BY <3>1, OwnershipFrame, GateFrame DEF PInv, pool
    <3> QED
      BY <3>2, <3>3 DEF PInv
  <2> QED
    BY <2>1, <2>2, <2>3, <2>4, <2>5 DEF Next
<1> QED
  BY InitPInv, <1>1, PTL DEF Spec

\* The buffer never exceeds its capacity, no worker its limit, and a worker
\* holds an event exactly while it sends one.
THEOREM PublisherTypes == Spec => []TypeOK
<1>1. PInv => TypeOK
  BY DEF PInv
<1> QED
  BY <1>1, PublisherInvariant, PTL

\* No event disappears between the handlers, the workers, Redis and the log.
THEOREM EventsAlwaysAccountedFor == Spec => []EventsAccountedFor
<1>1. PInv => EventsAccountedFor
  BY DEF PInv, Ownership
<1> QED
  BY <1>1, PublisherInvariant, PTL

\* No event is in two hands, whatever workers and handlers do at once.
THEOREM EventsHaveOneOwner == Spec => []OneOwner
<1>1. PInv => OneOwner
  BY DEF PInv, Ownership
<1> QED
  BY <1>1, PublisherInvariant, PTL

\* A handler that panics on the closed channel is one that Shutdown gave up on.
THEOREM OrderlyShutdownNeverPanics == Spec => []PanicsOnlyWhenLate
<1>1. PInv => PanicsOnlyWhenLate
  BY DEF PInv
<1> QED
  BY <1>1, PublisherInvariant, PTL
=============================================================================
