----------------------------- MODULE Publisher ------------------------------
(***************************************************************************)
(* The event publisher of go-core and its part in the shutdown of the      *)
(* server (events/publisher.go, cmd/server/main.go).  Handlers put events  *)
(* into a buffered channel, a pool of workers sends them to the Redis      *)
(* stream, and on SIGTERM main shuts the HTTP server down and closes the   *)
(* publisher while handlers and workers are still running.                 *)
(***************************************************************************)
EXTENDS Naturals, Sequences

CONSTANTS
  Requests,   \* requests that publish events
  Count,      \* how many each publishes: a like that matches, two
  Workers,    \* the worker goroutines
  Capacity,   \* the size of the channel's buffer
  Attempts    \* how often one XADD is tried

ASSUME CountAssumption == Count \in [Requests -> Nat \ {0}]
ASSUME CapacityAssumption == Capacity \in Nat \ {0}
ASSUME AttemptsAssumption == Attempts \in Nat \ {0}

VARIABLES
  handler,   \* new, running, answered or panicked
  emitted,   \* how many of its events each request has passed to Publish
  dropped,   \* events that found the buffer full
  queue,     \* the channel's buffer
  open,      \* FALSE once the channel is closed
  worker,    \* select, sending, waiting (for Redis) or gone
  held,      \* the event each worker has taken, <<>> for none
  try,       \* how often it has tried to send it
  wire,      \* <<event, try>>: commands written that Redis has not executed
  stream,    \* <<event, try>>: commands Redis has executed
  failed,    \* history: events that send has logged as not published
  stopping,  \* the signal context is done
  main,      \* serving, draining (in Shutdown), closing (in Close) or exited
  late       \* Shutdown gave up on requests that were still running

vars == <<handler, emitted, dropped, queue, open, worker, held, try, wire,
          stream, failed, stopping, main, late>>

producers == <<handler, emitted, dropped>>
pool == <<worker, held, try, wire, stream, failed>>
process == <<open, stopping, main, late>>

\* An event is named by the request that publishes it and its place among that
\* request's events.
Events == UNION {{<<r, i>> : i \in 1 .. Count[r]} : r \in Requests}

NoEvent == <<>>

-----------------------------------------------------------------------------

Init ==
  /\ handler = [r \in Requests |-> "new"]
  /\ emitted = [r \in Requests |-> 0]
  /\ dropped = {}
  /\ queue = <<>> /\ open = TRUE
  /\ worker = [w \in Workers |-> "select"]
  /\ held = [w \in Workers |-> NoEvent]
  /\ try = [w \in Workers |-> 0]
  /\ wire = {} /\ stream = {} /\ failed = {}
  /\ stopping = FALSE /\ main = "serving" /\ late = FALSE

(* Handlers. *)

\* The server accepts requests until Shutdown closes its listeners.
Accept(r) ==
  /\ main = "serving" /\ handler[r] = "new"
  /\ handler' = [handler EXCEPT ![r] = "running"]
  /\ UNCHANGED <<emitted, dropped, queue, pool, process>>

\* Publish: a select with a default never blocks; on a closed channel its send
\* panics, which the router's recovery turns into an error answer.
Publish(r) ==
  LET event == <<r, emitted[r] + 1>> IN
  /\ main # "exited" /\ handler[r] = "running" /\ emitted[r] < Count[r]
  /\ \/ /\ open
        /\ emitted' = [emitted EXCEPT ![r] = @ + 1]
        /\ \/ Len(queue) < Capacity /\ queue' = Append(queue, event) /\ UNCHANGED dropped
           \/ Len(queue) >= Capacity /\ dropped' = dropped \cup {event} /\ UNCHANGED queue
        /\ UNCHANGED handler
     \/ /\ ~ open
        /\ handler' = [handler EXCEPT ![r] = "panicked"]
        /\ UNCHANGED <<emitted, dropped, queue>>
  /\ UNCHANGED <<pool, process>>

Answer(r) ==
  /\ main # "exited" /\ handler[r] = "running" /\ emitted[r] = Count[r]
  /\ handler' = [handler EXCEPT ![r] = "answered"]
  /\ UNCHANGED <<emitted, dropped, queue, pool, process>>

-----------------------------------------------------------------------------
(* Workers. *)

\* Mutant: the worker only looks at the head of the buffer.
RemainingAll == queue

\* Receiving takes one event out of the buffer.
Remaining == Tail(queue)

\* With both cases of its select ready a worker takes either: it may still take
\* an event after the context is done.
Take(w) ==
  /\ worker[w] = "select" /\ queue # <<>>
  /\ held' = [held EXCEPT ![w] = Head(queue)]
  /\ worker' = [worker EXCEPT ![w] = "sending"]
  /\ queue' = Remaining
  /\ UNCHANGED <<producers, try, wire, stream, failed, process>>

\* Mutants: the loop ends when it is idle, or never.
LeaveWhenIdle == queue = <<>>
LeaveNever == FALSE

MayLeave == stopping \/ (~ open /\ queue = <<>>)

Leave(w) ==
  /\ worker[w] = "select"
  /\ MayLeave
  /\ worker' = [worker EXCEPT ![w] = "gone"]
  /\ UNCHANGED <<producers, queue, held, try, wire, stream, failed, process>>

\* Mutant: the worker keeps the event it has dealt with.
ReturnHolding(w) ==
  /\ worker' = [worker EXCEPT ![w] = "select"]
  /\ UNCHANGED <<held, try>>

\* send returns: the worker is done with its event, whatever came of it.
Return(w) ==
  /\ worker' = [worker EXCEPT ![w] = "select"]
  /\ held' = [held EXCEPT ![w] = NoEvent]
  /\ try' = [try EXCEPT ![w] = 0]

\* Mutant: errors of a context that the signal has ended are not worth a line.
GiveUpQuietly(w) ==
  /\ Return(w)
  /\ failed' = IF stopping THEN failed ELSE failed \cup {held[w]}

\* XADD gives up with an error: it is logged, and the event is not put back.
GiveUp(w) ==
  /\ Return(w)
  /\ failed' = failed \cup {held[w]}

\* One try of the client: it writes the command; or it gets no connection (a
\* failed dial, no free one in the pool) and tries again within its limit; or
\* the context is done, by the signal or by its three seconds, and it gives up.
Send(w) ==
  /\ worker[w] = "sending"
  /\ \/ /\ ~ stopping
        /\ worker' = [worker EXCEPT ![w] = "waiting"]
        /\ try' = [try EXCEPT ![w] = @ + 1]
        /\ wire' = wire \cup {<<held[w], try[w] + 1>>}
        /\ UNCHANGED <<held, failed>>
     \/ /\ try[w] + 1 < Attempts
        /\ try' = [try EXCEPT ![w] = @ + 1]
        /\ UNCHANGED <<worker, held, wire, failed>>
     \/ GiveUp(w) /\ UNCHANGED wire
  /\ UNCHANGED <<producers, queue, stream, process>>

\* The reply arrives.
Reply(w) ==
  /\ worker[w] = "waiting" /\ <<held[w], try[w]>> \in stream
  /\ Return(w)
  /\ UNCHANGED <<producers, queue, wire, stream, failed, process>>

\* An error in place of the reply, or none at all: Redis refused the command,
\* the connection broke, or the context is done.  The client tries again within
\* its limit; the command it has written may have been executed, and may still
\* be.
Fail(w) ==
  /\ worker[w] = "waiting"
  /\ \/ /\ try[w] < Attempts
        /\ worker' = [worker EXCEPT ![w] = "sending"]
        /\ UNCHANGED <<held, try, failed>>
     \/ GiveUp(w)
  /\ UNCHANGED <<producers, queue, wire, stream, process>>

\* Redis executes a command it has received; one that it refused, or that was
\* lost with its connection, stays on the wire for ever.
Execute ==
  /\ \E c \in wire : wire' = wire \ {c} /\ stream' = stream \cup {c}
  /\ UNCHANGED <<producers, queue, worker, held, try, failed, process>>

-----------------------------------------------------------------------------
(* main. *)

\* SIGTERM: the context that the workers watch is done at once.
Signal ==
  /\ main = "serving" /\ ~ stopping
  /\ stopping' = TRUE
  /\ UNCHANGED <<producers, queue, pool, open, main, late>>

Shutdown ==
  /\ main = "serving" /\ stopping
  /\ main' = "draining"
  /\ UNCHANGED <<producers, queue, pool, open, stopping, late>>

\* Mutant: the publisher is closed without waiting for Shutdown.
NotWaiting == TRUE

HandlersDone == \A r \in Requests : handler[r] # "running"

\* Shutdown returns when no handler runs, or after ten seconds; then the
\* deferred Close closes the channel.
Close ==
  /\ main = "draining"
  /\ \/ HandlersDone /\ UNCHANGED late
     \/ ~ HandlersDone /\ late' = TRUE
  /\ main' = "closing" /\ open' = FALSE
  /\ UNCHANGED <<producers, queue, pool, stopping>>

\* Close returns when the workers are gone, and the process ends.
Exit ==
  /\ main = "closing"
  /\ \A w \in Workers : worker[w] = "gone"
  /\ main' = "exited"
  /\ UNCHANGED <<producers, queue, pool, open, stopping, late>>

Terminated == main = "exited" /\ UNCHANGED vars

-----------------------------------------------------------------------------

Handle(r) == Accept(r) \/ Publish(r) \/ Answer(r)

Work(w) == Take(w) \/ Leave(w) \/ Send(w) \/ Reply(w) \/ Fail(w)

Main == Shutdown \/ Close \/ Exit

Next ==
  \/ \E r \in Requests : Handle(r)
  \/ \E w \in Workers : Work(w)
  \/ Execute \/ Signal \/ Main \/ Terminated

Spec == Init /\ [][Next]_vars

\* The scheduler runs every goroutine that can run; a send ends within its
\* three seconds and Shutdown within ten.  Nothing makes requests or the signal
\* arrive, handlers finish, or Redis execute a command.
FairSpec == Spec /\ WF_vars(Main) /\ \A w \in Workers : WF_vars(Work(w))

-----------------------------------------------------------------------------

Published(e) == e[2] <= emitted[e[1]]

Queued(e) == \E i \in 1 .. Len(queue) : queue[i] = e

Held(e) == \E w \in Workers : held[w] = e

\* An XADD of the event has been written to Redis at least once; Redis has
\* executed one.
Attempted(e) == \E c \in wire \cup stream : c[1] = e
Executed(e) == \E c \in stream : c[1] = e

TypeOK ==
  /\ handler \in [Requests -> {"new", "running", "answered", "panicked"}]
  /\ emitted \in [Requests -> Nat] /\ \A r \in Requests : emitted[r] <= Count[r]
  /\ dropped \subseteq Events /\ failed \subseteq Events
  /\ queue \in Seq(Events) /\ Len(queue) <= Capacity
  /\ worker \in [Workers -> {"select", "sending", "waiting", "gone"}]
  /\ held \in [Workers -> Events \cup {NoEvent}]
  /\ \A w \in Workers : held[w] # NoEvent <=> worker[w] \in {"sending", "waiting"}
  /\ try \in [Workers -> 0 .. Attempts]
  /\ wire \subseteq Events \X (1 .. Attempts) /\ stream \subseteq Events \X (1 .. Attempts)
  /\ open \in BOOLEAN /\ stopping \in BOOLEAN /\ late \in BOOLEAN
  /\ main \in {"serving", "draining", "closing", "exited"}

\* Best effort, but accounted for: as long as the process runs, an event handed
\* to Publish is in the buffer, in a worker's hands or in the stream, or one of
\* the two log lines has named it: the full buffer of Publish, the failed XADD
\* of send.  No interleaving of workers, retries and shutdown loses one between
\* these.
EventsAccountedFor ==
  \A e \in Events :
    Published(e) => e \in dropped \cup failed \/ Queued(e) \/ Held(e) \/ Executed(e)

\* However the workers interleave, an event has one owner: it is nowhere before
\* it is published, at most once in the buffer, and there only untouched; no
\* two workers hold it; a dropped event is never sent.
OneOwner ==
  /\ \A e \in Events : Queued(e) \/ Held(e) \/ Attempted(e) => Published(e) /\ e \notin dropped
  /\ \A e \in Events : Queued(e) => ~ Held(e) /\ ~ Attempted(e)
  /\ \A i, j \in 1 .. Len(queue) : queue[i] = queue[j] => i = j
  /\ \A v, w \in Workers : held[v] # NoEvent /\ held[v] = held[w] => v = w

\* No request meets the closed channel unless Shutdown gave up waiting for it:
\* main closes the publisher only after the server has stopped.
PanicsOnlyWhenLate == \A r \in Requests : handler[r] = "panicked" => late

\* The shutdown ends: closing the channel under busy workers, with handlers
\* still publishing, never leaves Close waiting for a worker.
ShutdownCompletes == stopping ~> main = "exited"

\* While the server runs, the pool takes every event out of the buffer.
BufferDrains == \A e \in Events : Queued(e) ~> ~ Queued(e) \/ stopping

\* What Close says of itself, read with its drain loop: when the process ends,
\* no event waits in the buffer; each was dropped, was sent, or failed to be.
AcceptedEventsAreSent ==
  main = "exited" =>
    \A e \in Events : Published(e) => e \in dropped \cup failed \/ Attempted(e)

=============================================================================
