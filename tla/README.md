# A TLA+ model of tinder-like-back

This directory models the services of this repository: the Go core (`go-core`),
which owns the data and serves the HTTP API, and the analytics service
(`python-analytics`), which consumes the core's event stream. TLC checks the
modules on small instances; TLAPS proves every safety property the passing runs check
for any number of users, connections, processes, events, photos, messages and rows.

```
tlc -workers 2 -config ribbon_pair.cfg MCRibbon.tla     # one run
tlapm RibbonProofs.tla                                   # one set of proofs
```

`PROJECT.json` lists the runs, the lines of source each definition stands for,
the mutants, the hazards and the theorems.

## 1. Inventory

| Part | State it keeps | Operations | Talks to |
| --- | --- | --- | --- |
| Ribbon writes (`service/ribbon.go`, `repository/ribbon.go`) | `swipes`, `user_exclusions`, `chats` | like, dislike, block, unblock | profiles (reads), publisher |
| Profiles (`repository/profile_repository.go`) | `profiles` | save (upsert, reactivates), deactivate | read by ribbon, feed, list of chats |
| Chats (`service/chat.go`, `repository/chat_repository.go`) | `messages`, flags of `chats` | list, page through messages, send, mark read | chats are opened and closed by the ribbon |
| Photos (`service/photo.go`, `photo_repository.go`, `minio.go`) | `user_photos`, objects in the bucket | list, upload, delete | Postgres and MinIO, no common transaction |
| Publisher (`events/publisher.go`, `cmd/server/main.go`) | channel, worker goroutines, pending XADDs | Publish, worker, Close, shutdown | handlers, Redis |
| Consumer (`redis_consumer.py`, `clickhouse_client.py`, `app/main.py`) | position and pending list of the consumer group, rows in ClickHouse | read, insert, acknowledge, stop | Redis, ClickHouse |
| Registration and login (`handlers/auth.go`, `auth_store.go`, `user_repository.go`) | `users` | register (user row, then hash), log in, JWT middleware | the go-auth library |
| Feed, incoming likes, preferences (`service/ribbon.go`, `geo/bounds.go`) | `discovery_preferences` | page of candidates, page of likes, save preferences | reads profiles, swipes, exclusions |
| Reports | `reports` | one INSERT | |
| Migrations (`platform/postgres/migrator.go`) | `schema_migrations`, the schema | apply at start | every instance, under an advisory lock |
| Seed (`seed/seed.go`, `cmd/seed`) | | accounts and profiles, in one transaction | the same tables, after the same migrations |
| Analytics API | | one aggregate query | ClickHouse |
| Configuration, logging, health, routing | | | |

How they interact: a handler calls a service, the service a repository, the
repository Postgres (READ COMMITTED, a pool of connections). After a ribbon write
the service publishes one event, or two when a like matches; worker goroutines
append them to a Redis stream; the Python consumer copies the stream into
ClickHouse. Chats are created and closed by the ribbon and used by the chat
handlers. SIGTERM cancels one context that both `main` and the workers watch.

Where the difficulty lies, and what makes each part correct:

* **Ribbon.** Transactions of several statements that check, then write, without
  locking what they checked. Correct means: chats only between mutual likers, one
  per pair, a mutual like has one, a block closes it, exclusions are lifted only
  by their author, an announced match is committed, nobody waits forever.
* **Photos.** Two stores, four remote calls, every one of which may fail after it
  took effect. Correct means: what was answered is true in both stores, no file is
  left by a deletion, an album has one main photo and distinct positions.
* **Chats.** Ids and timestamps are taken before a row is visible. Correct means:
  paging repeats nothing and misses nothing that was there, closed chats take no
  new messages.
* **Publisher.** Handlers, workers and shutdown share a channel. Correct means:
  no event goes to two workers, none is lost without a line in the log while the
  server runs, nobody publishes on a closed channel, shutdown ends.
* **Consumer.** Delivery, insertion and acknowledgement are three calls to two
  systems. Correct means: acknowledged implies stored, an entry is stored at most once, one
  bad entry does not stop the rest.
* **Registration and login.** A user row and its hash are two statements of a
  library call, and the seed command inserts into the same table. Correct means: an
  answered registration keeps its password and can log in; an account without a
  password is left only by a registration that was not answered with success.
* **Feed, likes, list of chats.** Pages of sets that change between any two queries,
  and in the feed a second filter after the query. Correct means: nothing twice,
  nothing missed that was there all along, nobody shown who was never admissible,
  and the scan ends.
* **Migrations.** Several processes start at once and may die anywhere. Correct
  means: all files of a release or none, and no file twice.

The full list of hazards, each with its line and the properties that cover it, is
in `PROJECT.json`.

## 2. Plan

| Order | Module | Composes | State |
| --- | --- | --- | --- |
| 1 | `Ribbon`, `MCRibbon`, `RibbonProofs` | | done, proved |
| 2 | `Matching` (abstract), `RibbonRaces`, `MCRibbonRaces`, `RibbonProofs` | extends Ribbon with a history; implements Matching | done, proved |
| 3 | `Publisher`, `MCPublisher`, `PublisherProofs` | | done, proved |
| 4 | `Consumer`, `ConsumerProofs` | | done, proved |
| 5 | `Photos`, `MCPhotos`, `PhotosProofs` | | done, proved |
| 6 | `NumberSets`, `NumberSetTheorems`; `Chat`, `MCChat`, `ChatProofs` | Chat extends NumberSets | done, proved |
| 7 | `Migrator` | | done, proved in `AccountsProofs` |
| 8 | `Accounts`, `MCAccounts`, `AccountsProofs` | extends Migrator: servers and the seed command migrate, then serve | done, proved |
| 9 | `Feed`, `MCFeed`, `FeedProofs` | extends NumberSets | done, proved |
| 10 | `EventPipeline` | Publisher and Consumer over one stream; abstract promise: a ClickHouse row stands for an accepted event | planned |
| 11 | `Conversation` | Chat with the block of Ribbon, statement by statement | planned |

Every safety invariant and action property of a passing run is proved. Worth proving
next: that `Chat` and `Feed` implement one abstract specification of a walk through a
set that changes, and, with `EventPipeline`, that a row in ClickHouse stands for an
accepted event. Every module keeps its parameters as constants with named assumptions
and declares no recursive operator.

## 3. The modules

### Ribbon

Tables are sets of ordered pairs of user ids; a flag column is the set of rows that
have it (`bans`, `closed`, `active`). A session is a pooled connection serving one
request: `pc` is its next statement, `row` the caller and the target, `dirty` its
uncommitted writes, `found` the chat it will answer with.

| Action | Code |
| --- | --- |
| `Receive` | handler and `validateTarget`: a valid request starts |
| `EnsureActiveProfile`, `EnsureNotExcluded`, `InsertSwipe`, `CheckMutual`, `InsertChat`, `LookupChat`, `CommitLike` | the statements of `CreateLike` |
| `EnsureUserExists`, `UpsertBan`, `DeactivateChat`, `CommitBlock` | the statements of `CreateBlock` |
| `EnsureTargetExists`, `UpsertDislike` | `CreateDislike` (no transaction: each statement commits) |
| `DeleteBan` | `RemoveBlock` |
| `Publish` | the service publishes and answers |
| `Abort` | any statement fails, or the request is cancelled: deferred rollback |
| `SaveProfile`, `DeactivateProfile` | profile upsert and deactivation, one statement each |

READ COMMITTED is modelled per statement: it sees committed rows and its own, waits
on the uncommitted write of another transaction to the same key (`Locked`), and its
writes appear at `COMMIT`. `chats_unique_pair_uq` is a key on the unordered pair
(`SamePair`). A COMMIT whose reply is lost is a commit followed by the end of the
request; that is one of the interleavings already there.

### Matching and RibbonRaces

`Matching` says what users are promised, each request atomic: who is shown, likes,
hidden people, bans, matched couples and those still talking. The code does not keep
the promise under every interleaving (findings 1 and 2), and `Matching` says how far it
goes: a like or a ban may also be a `StaleLike` or a `StaleBan`, which acts on what it
read before another request changed it, misses the match or the chat of its own couple
at worst, and enters the couple in `raced`.

`RibbonRaces` is `Ribbon` with two history variables that restrict none of its
behaviours. A session becomes `stale` when a commit of another request changes what its
open transaction has read and goes on to rely on (`Overtaken`): the target is hidden or
the couple excluded behind a like's checks, the other like is committed after a like
has decided that there is none, a chat of the couple is committed after a block has
looked for it. `raced` collects the couples of stale transactions that commit. The
refinement mapping `Promise` sends each table to its variable of `Matching` and `raced`
to itself, so a request that nobody overtook must be atomic.

Two things the specification makes explicit that a user may not expect: liking again
after an unblock answers with the closed chat and does not reopen it, and a block
upserts over an earlier dislike, so that lifting the block lifts the dislike too.

### Publisher

`queue` is the buffered channel, `worker`, `held` and `try` the state of each worker
goroutine, `wire` the XADDs written to Redis and not yet executed, `stream` the
executed ones, `main` the phase of `main` after the signal. `Publish` is the select
with a default; on a closed channel it panics, which Gin's recovery answers. `Take`
and `Leave` are the two cases of the worker's select, both possible when both are
ready. `Send`, `Reply` and `Fail` are XADD with the client's retries and its timeout: a try
ends with the command written or, when no connection can be had, without, and the
three seconds may be over at any time (`GiveUp`). `failed` remembers the events whose
loss `send` has logged. `Close` follows `Shutdown`, which returns when no handler runs
or after ten seconds.

### Consumer

Entries are numbered by their place in the stream. `Read` is XREADGROUP with ">",
whose reply may be lost after Redis has moved the group on; `Insert` is
`insert_event`, whose request may fail with or without effect or be executed late
(`late`); an exception skips the entry (`Skip`). `Ack` is outside the try block, so
its failure ends the task (`dead`), as does an exception other than `ConnectionError`
in `Read`. `handled` remembers the entries that were handed to `insert_event`, `lost`
those that never were because the reply that held them was lost or the task died. `Stop` is the lifespan's event; `Crash` and `Restart` are the process.

### Photos

One user's album; albums share nothing. A photo is named by its object key, which is
random and never repeats. `rows` are the committed rows, `draft` the row an open
transaction computes and inserts; `upload` and `removal` record what the client has
been told. `Put`, `SelectPosition`, `SelectExists`, `Insert`, `Commit`, `Cleanup` are
`Upload` step by step, `GetByID`, `RemoveObject`, `DeleteRow` are `Delete`. `Insert`
waits for an open transaction with a colliding row and fails on a committed one
(unique position, one main photo). The fate of a COMMIT or a removal whose reply is
lost is decided at the moment it is lost.

### Chat

One chat. `Begin` is the start of the INSERT's transaction with its snapshot (now(),
`is_active`), `Number` the sequence, `Finish` the commit or a failure that leaves a
gap. `StartWalk` and `Page` follow `next_cursor` from the beginning; `BeginMarkRead`
and `UpdateRead` are the start and the UPDATE of `MarkRead`. The clock is a counter
that gives every transaction its own now(). `Close` is the block of `Ribbon`, here one
step; creating and closing chats statement by statement is `Ribbon`'s subject.

### NumberSets

What the queries of a list do with the numbers of the rows they find. `Rank` counts
the rows before one, `Lowest(n, S)` is LIMIT n, `InOrder(S)` is ORDER BY id. `Chat` and
`Feed` build their pages from these; `SetToSortSeq` of the community modules says the
same but rests on `SortSeq` of TLC, of which the prover knows no definition.

### Migrator

Processes are instances of go-core and of the seed command; `pc` is the next
statement of `ApplyMigrations`, `own` what its open transaction has applied, `schema`
what is committed. File 0 is the table `schema_migrations`, which every start creates
IF NOT EXISTS; the others are the embedded files in their order.

| Action | Code |
| --- | --- |
| `Start`, `Lock`, `CreateTable` | Begin, `pg_advisory_xact_lock`, CREATE TABLE IF NOT EXISTS |
| `Check`, `Apply`, `Record` | the loop: SELECT EXISTS and `continue`, the file, its row |
| `Commit` | Commit; its reply may be lost, and the process then exits |
| `GiveUp` | any error, signal or crash: the deferred Rollback, or Postgres's own |
| `Stop` | a process that has come up ends |

A database may come from any earlier release (`Releases`). READ COMMITTED gives each
statement its own snapshot, so the check that follows the lock sees what the previous
holder committed; what another open transaction creates is waited for (`Waits`).

### Accounts

Extends `Migrator`: a process that is `up` serves requests (`Servers`) or loads the
seed data. The rows of `users` are filed under the address in lower case, which is
what the unique index compares; the row's own `email` is what the look-up compares to
the letter. A hash is known by its password.

| Action | Code |
| --- | --- |
| `Receive` | `Register`, `Login`: ToLower and TrimSpace of the address |
| `Lookup` | `GetUserByEmail`, first call of both |
| `CreateUser` | the INSERT with an empty hash; a unique violation is the answer 409 |
| `StorePasswordHash` | the UPDATE by the id that CreateUser put into the user |
| `Undo` | the library's answer to an error of StorePasswordHash |
| `ComparePassword` | `GetPasswordHash` and bcrypt |
| `Respond`, `Fail` | the token, or an error |
| `EnsureUser`, `Load` | the seed command's INSERT ... ON CONFLICT DO NOTHING, and its commit |
| `Exit` | the process ends: its requests get no answer, its transaction is rolled back |

The go-auth library is not in the repository: its order of calls is taken from the
comments and methods of `auth_store.go`, and whether it deletes the user when the
second statement fails is left open (`Undo` does either). A statement whose reply is
lost is decided at the moment it is lost; one that Postgres executes later, after the
client has gone on, is not modelled.

### Feed

One viewer pages through one list: the feed, the incoming likes or the chats. A row
is known by the number that orders it. `ReadFilters`, `ReadProfile` and `ReadBatch`
are the queries of `GetFeed`; a round of its loop reads `3 * Limit` rows behind the
scan cursor, keeps those inside the circle and answers when the page is full or the
batch short. `ReadPage` is the single query of the other two lists. `Change` is any
request, of anybody, that changes what they show, as the effect of its commit:
profiles saved and deactivated, preferences, likes, dislikes, blocks and unblocks.

`owed` and `admitted` are history: the rows that belonged to the list at every moment
of the walk, and those the request under way was allowed to show at some moment since
it had read the preferences and the place. They are defined from what a
recommendation is (`Recommended`), not from the query. In the feed a row counts as
owed only if it fits the stored preferences and those being used, since a request
goes on with what it has read.

Places are whole degrees on one parallel; behind the last degree comes the first.
`Bounds` is cut off there as `NewBounds` is, so a profile just across longitude 180 is
within the distance and never found: `WalkIsComplete` promises rows inside the
rectangle (`Reachable`). The rounding of kilometres per degree (111.32 in the
rectangle, 111.195 in the distance) is not modelled; it costs a profile at the very
edge of the rectangle in the same way.

## 4. The runs

| Run | Shows | Bounds |
| --- | --- | --- |
| `ribbon_pair` | the safety of all requests however they interleave and fail | 2 users, 3 sessions |
| `ribbon_races` | the two broken promises are broken by overtaken requests only; Matching is implemented | 2 users and an unknown id, 2 sessions |
| `ribbon_progress` | every request ends | 2 users, 2 sessions |
| `ribbon_mutual_like` | finding 1 | 2 users, 2 or more sessions |
| `ribbon_block_race` | finding 2 | the same |
| `publisher` | where an event can be and who owns it, none is lost without a line in the log; the buffer drains; shutdown ends | 2 requests of one event each, 2 workers, buffer of 1, 2 attempts |
| `publisher_close` | finding 3 | 2 requests (3 events), 2 workers, buffer of 2, 2 attempts |
| `consumer` | acknowledged is stored, an entry is stored at most once, every entry is handed to `insert_event` or named lost, the stop ends the task | 4 entries, batches of 2 |
| `photos_album` | answers, rows and files agree; the album is in order | 3 photos, 2 requests, positions 0 and 1 |
| `chat_messages` | pages are ordered and complete, a closed chat stays closed | 3 messages, pages of 1, 3 marks at most |
| `feed` | the three lists are ordered and complete, what is shown was admissible, the scan ends | 7 rows, pages of 2, batches of 6, at most 2 changes |
| `accounts` | the schema is whole, no file twice; answered registrations last and can log in; unusable accounts were errors | a server and the seed command, 2 files, 3 starts, 3 requests, 1 address in 2 spellings, 2 passwords |

Why the bounds are enough to show what they are meant to show. A ribbon request
touches the rows of one pair and the profile of its target, so two users meet every
conflict; three sessions allow two racing likes and a block. A commit that overtakes a
transaction needs two sessions, one after another as often as it takes; the third id of
`ribbon_races` has them busy with different couples too. Two events
against a buffer of one fill it and drop one; with two handlers, two workers and the
signal they meet in every order, and two attempts give one retry. Longer buffers are
left to `publisher_close` and the theorems. Four entries in
batches of two leave entries behind a failed one both within and after its batch.
With three photos one can be deleted while two uploads race to be first, and the
third position overflows. Three messages let a number be overtaken while another
page follows. Counters are bounded by the finite sets of requests, entries, keys and
messages; the explicit bounds in guards are `MaxClock` (how often the reader may mark
the chat read), `MaxChanges` (requests that change what the lists show) and
`MaxStarts` (starts of processes). The other constants that are limits (`Capacity`, `Attempts`,
`Batch`, `Limit`, `MaxPosition`) are limits of the program, made small.

Seven rows and a batch of six make the scan go on to a second batch that completes a
page begun in the first, pass a batch of which nothing is shown, and fill a page with
the last row of its batch; two changes hide a row and bring it back, or move the
viewer and a row. The walks start from the worlds `MCFeed` lists, because all initial
worlds of `Feed` together are too many: in two of them two changes follow, in the
others one. Three requests are two racing registrations and a login; three starts let
a server and the seed command race, and one of them die and start again.

Symmetry is used where users, connections, workers, keys and requests are
interchangeable and no liveness property is checked.

Fairness. `RequestsFinish`: strong fairness of each session, because Postgres grants
row locks in the order of the queue and a waiter is not overtaken for ever; nothing
makes a request arrive or fail. `Publisher`: weak fairness of each worker and of
`main`, because the Go scheduler runs every runnable goroutine, a send ends within
three seconds and `Shutdown` within ten; nothing makes the signal come, handlers
finish, or Redis answer. `Consumer`: weak fairness of the task's own steps (the event
loop, two-second blocks and five-second timeouts); nothing makes entries, stops,
crashes or restarts happen. `Feed`: weak fairness of the steps of a `GetFeed` under
way, since its goroutine runs until it answers; nothing makes the client ask for a
page or another request come. `RequestsEnd` speaks of a table that is not changed for
ever: while rows with new numbers are added faster than batches are read, the loop may
go on. `Accounts` states no fairness: a process may stop anywhere. Its run, whose
starts and requests are bounded, does not check deadlock.

Mutants. Beside each definition that a property depends on stands the form it would
have after a plausible mistake (a rollback forgotten, an ordinary unique key, an
acknowledgement sent anyway, a cursor off by one). `PROJECT.json` pairs each checked
property with one of them, under which TLC finds the property violated.

## 5. What is proved

`RibbonProofs` proves, for every set of users and every number of connections:

* `TypeCorrect`: the type invariant.
* `ChatsAreMutual`, `ChatsAreUnique`, `ChatsAreListed`, `AnnouncementsAreTrue`,
  `PendingWritesStayExclusive`: the safety invariants of `ribbon_pair`.
* `BansAreRespected`: the action property about exclusions.
* `OnlyRacesLoseChats`, `OnlyRacesOpenChatsAcrossBlocks`: the invariants of
  `ribbon_races`, under every interleaving.
* `RibbonRefinesMatching`: `HSpec => Promise!MSpec`, every step is a step of `Matching`
  or leaves it unchanged.

The invariant is `Inv`: the types, `TargetsHaveProfiles` (the target of every like
has a profile), `ChatBackedByBothLikes`, `OneChatPerPair` and `Established`.
The properties alone are not inductive: that a commit keeps chats mutual depends on
what an open like has found out and written and cannot be undone (`Established`):
likes are never withdrawn, profiles never deleted, a pending chat is locked. The proof
has one lemma per statement; `OthersUndisturbed` carries the other sessions.
`PendingWritesAreExclusive` is inductive on top of it: a session takes a key that
nobody holds (`Acquired`), and a commit adds only what its session held
(`CommitsOwnWrites`).

Other things that a transaction has checked may change before it commits. `RaceInv`
says what is left of them: `LikeFresh` and `BlockFresh` are what a like and a block know
while nobody has overtaken them. `WaitingFresh` shows that every step of another session
either keeps that or is one that `Overtaken` names, so the list of `Overtaken` is
complete; `CommitLikeIsLike` and `CommitBlockIsBan` then map a fresh commit to `Like` or
`Ban`, a stale one to `StaleLike` or `StaleBan`. That a stale block has locked no chat
(`LockedChatStays`) is where the exclusive writes are needed.

`AccountsProofs` proves first, for any set of processes, number of files and releases, that
`SchemaIsWhole` and `NoFileTwice` hold (`SchemaStaysWhole`, `NoFileIsAppliedTwice`).
They are not inductive: that a commit leaves a whole release depends on the loop
having seen to every file before the current one (`LoopOK`), and that nobody else has
applied one on exactly one process being between lock and commit (`OneMigrates`).

It then proves, for any number of clients, processes, addresses and
passwords, the other properties of the run `accounts` (`AnsweredRegistrationsLast`,
`AnsweredRegistrationsLogIn`, `UnusableAccountsWereErrors`), and that `Accounts` takes
only steps of `Migrator` on the schema (`AccountsMigrate`), so that the theorems
above hold in it. Its invariant `AInv` adds to the types what a request is at each
stage (`StagesOK`); that the row a registrant has inserted is there under its id, with
its password once stored, and belongs to no other registrant (`OwnRows`), which is why
a late UPDATE or DELETE by id touches nobody else's account; and that a login which
repeats an answered registration compares with that row (`DueOK`). There is one lemma
per statement.

`ConsumerProofs` proves, for any length of the stream and any batch size,
`AckedArePersisted` and `StoredAtMostOnce` (`AcknowledgedIsStored`,
`NoEntryCountedTwice`). Its invariant `CInv` adds that the entries left to handle are
the last ones delivered (`TodoIsATail`), so that the entry at hand is the least of
them, and that nobody has inserted an entry that is undelivered or still ahead in the
reply (`Progress`): an insertion therefore finds neither a row nor a late request, and
an acknowledgement finds the row just stored. There is one lemma per action.

`PublisherProofs` proves, for any number of requests, events, workers and attempts and
a buffer of any size, the invariants of the run `publisher` (`PublisherTypes`,
`EventsAlwaysAccountedFor`, `EventsHaveOneOwner`, `OrderlyShutdownNeverPanics`). Two of
its parts need the others: that taking an event gives it a single owner needs the buffer
to hold it once and nobody else to hold it; that nothing vanishes between two tries
needs `TriesOK` (a worker counts its tries anew for each event, and waits only for a
command that it has written). `GateOK` ties the channel to the phase of `main`: it is closed only after
Shutdown, which either saw every handler done or gave up (`late`).

`PhotosProofs` proves, for any number of photos, simultaneous requests and positions,
all properties of `photos_album` (`PhotosTypes`, `CreatedPhotosAreWhole`,
`DeletedPhotosStayGone`, `AlbumsAreOrdered`, and the action property
`FilesNeverOutliveRows`). Its invariant `PhInv` says who may know of a photo: no two
uploads share a key (`KeysAreOwned`), and a photo whose upload has not committed has no
row and nobody deleting it (`UnbornIsNowhere`), so a cleanup takes nobody's file. The
order of the calls to the two systems is `FilesComeFirst`. What makes the album ordered
is `InsertedIsApart`: an inserted row collides neither with a committed row nor with
that of another open transaction, which the unique indexes ensure at the INSERT and
which must still hold at the COMMIT.

`ChatProofs` proves, for any number of messages, users and items on a page, the
invariants of `chat_messages` (`ChatTypes`, `MessagesAreOlderThanClosing`,
`WalksAreOrdered`, `WalksAreComplete`). Beside the order of times (`SentWhileOpen`) and
of numbers (`NumbersOfMessages`, `NumbersAreUsed`), its invariant `ChInv` says of a walk
under way that the pages so far end at the cursor and that what it owes and has not
shown lies behind the cursor (`CursorDivides`) and is still visible (`OwedIsVisible`).

`FeedProofs` proves, for any number of rows, page size and changes between two queries,
`WalkIsOrdered` and `WalkIsComplete` for the feed, the likes and the list of chats
(`ListsAreOrdered`, `ListsAreComplete`), and that the feed shows only who was admissible
during the request (`FeedShowsAdmissible`). Its invariant `FInv` divides the list as
above, at two places: the cursor of the client, and within a `GetFeed` the scan cursor
(`Position`), with the rows of the page under way between them (`ItemsBetween`).
`NothingPassedOver` says that whoever is owed is on a page, on the page under way, or
ahead of the scan. The step that keeps it is `ReadBatch`: of an owed row the proof shows
that it is in the batch and on the page, or that the page is full before it, or that the
batch is full and ends before it (`ReadBatchKeeps`). `ItemsAdmitted` says the same of
`admitted` as `OwedBelongs` of `owed`: the histories keep up with what is true now. The
run `feed` starts from the worlds of `MCFeed`, the theorems from every initial world of
`Feed`.

`NumberSetTheorems` proves what `ChatProofs` and `FeedProofs` need of pages. `Rank` is
one-to-one and onto `0 .. Cardinality(S) - 1` (`Ranks`), which makes `InOrder(S)` a
listing of S in strictly ascending order (`Listing`) and `Lowest(n, S)` n rows, or all,
that lie before every other row (`LowestPart`); hence what a page holds
(`PageIsInOrder`) and what one page after another does (`GoingOn`). `Ranks` is proved
from the library's facts about finite sets and bijections; no induction is needed.
`PhotosProofs` takes from it that the greatest position of an album exists.

Each of `RaceInv`, `PInv`, `PhInv`, `ChInv` and `FInv` holds on its run's instance under TLC too.

Assumptions: `RegisteredAssumption` (registered users are users) for the ribbon;
for the migrations `FilesAssumption`, `NoOneAssumption` and `StartsAssumption`; for
the accounts also `ServersAssumption`, `LowerAssumption` (folding is idempotent),
`SeedAssumption` (the seed accounts are written in lower case), `EmptyAssumption` (the
empty hash is no password's) and `NoRowAssumption`; for the
consumer `LengthAssumption` and `BatchAssumption`; for the publisher `CountAssumption`,
`CapacityAssumption` and `AttemptsAssumption` (a request emits events, the buffer and
the attempts are at least one); for photos `MaxPositionAssumption`; for chat
`SenderAssumption`, `ReaderAssumption` and `LimitAssumption`; for the feed
`RowsAssumption`, `PlacesAssumption`, `LimitAssumption`, `CursorAssumption` (the absent
cursor is no row's number), `ChangesAssumption` and `RadiusAssumption`. Two say that a
table is finite, which ranks need: `MessagesAssumption` (the messages ever sent to one
chat) and `RowsAssumption`; no other finiteness is used.

Only model-checked: the liveness properties (`RequestsFinish`, `ShutdownCompletes`,
`BufferDrains`, `EntriesAreHandled`, `StopEndsTheTask`, `RequestsEnd`), since fairness
and ENABLED are outside the prover. The three runs that end with a counterexample
have nothing to prove; for two of their properties `RibbonProofs` proves that only
overtaken requests break them.

## 6. Findings

Each is a run that TLC ends with a counterexample.

1. `ribbon_mutual_like`: two users like each other at the same time; neither
   transaction sees the other's uncommitted swipe, both commit, and no chat exists
   until one of them likes again. README: a like creates a chat when it is mutual.
2. `ribbon_block_race`: a block between a like's exclusion check and its commit does
   not see the chat the like is creating; the pair ends blocked with an active chat.
   The comment of `CreateBlock` says the chat is deactivated.
3. `publisher_close`: on SIGTERM the workers stop with events in the buffer, and
   `Close` sends none of them, although its comment says that it waits for in-flight
   sends to finish. Events are best effort; but the losses that `Publish` and `send`
   provide for, a full buffer and a failed XADD, are logged, and this one is silent.

Not findings of a run, but shown by the models:

* `MarkRead` can take its now() before a message is created and its snapshot after,
  and then fails on the constraint `updated_at >= created_at` (`Chat!UpdateRead`).
* An entry whose insertion failed stays in the group's pending list, which nothing
  reads again, not even after a restart (`Consumer!Skip`); the root README says the
  consumer writes every event.
* A photo uploaded while the album's only photo is being deleted is the first of its
  album and not the main one (`Photos!SelectExists`, then `DeleteRow`, then `Insert`);
  the comment of `Create` says the first photo becomes the main one.
* A registration that ends between its two statements leaves an address that can
  neither log in nor be registered again, and nothing repairs it
  (`UnusableOnlyAfterError` says who may be left so).
* A like that passed its checks takes effect although its target has been hidden or has
  blocked the liker since (`Matching!StaleLike`); no document excludes it.
* When the Commit of an upload reports an error although it took effect, the cleanup
  removes the file of a row that stays and is listed (`Photos!Cleanup`).
* The seed command leaves an address that is registered already as it is. The root
  README gives one password for all seed users; it is not the password of such an
  account.
* A profile across longitude 180 is never recommended, however near (`Reachable`).

## 7. What is not modelled

* Reports and the analytics query: single statements; no state of theirs is read by
  another part.
* The other stores of `auth_store.go` (WebAuthn, reset tokens, TOTP) return an error,
  and `UpdateUser` is called by nobody.
* The seed command's profiles, preferences and like, which commit with its accounts.
* JWT validation, configuration, logging, health, routing, JSON and form binding: no
  state of their own. Requests enter the models after validation.
* Geographic arithmetic: trigonometry on floating-point numbers, covered by its unit
  tests; `Feed` has one dimension and whole degrees.
* The list of photos: one read-only statement.
* Publisher and Consumer together: each has the stream as its boundary.
* Creating the photo bucket: a retry loop before the server listens.
* Deletion of users, except that the library may delete the one it has just inserted
  when the hash cannot be stored (`Accounts!Undo`): nothing refers to that row yet, so
  the cascades never run.
