------------------------------- MODULE Ribbon -------------------------------
(***************************************************************************)
(* The write path of the discovery ribbon: like, dislike, block, unblock,  *)
(* and the profile lifecycle they depend on (service/ribbon.go,            *)
(* repository/ribbon.go, repository/profile_repository.go).                *)
(*                                                                         *)
(* Every request runs on one connection of the pool (a session).  Postgres *)
(* executes it at READ COMMITTED, so a transaction is modelled statement   *)
(* by statement: a statement sees what was committed before it began plus  *)
(* the transaction's own writes, it waits when another transaction has an  *)
(* uncommitted write on the row or unique key it needs, and its writes     *)
(* become visible at COMMIT.  A statement sent outside a transaction       *)
(* commits by itself and is one step.                                      *)
(*                                                                         *)
(* Tables are sets of rows.  A row of swipes, user_exclusions and chats is *)
(* identified by its ordered pair of user ids (actor first, user_1 first); *)
(* bans, closed and active hold the rows whose flag column is set.         *)
(***************************************************************************)

CONSTANTS
  Users,       \* the ids a request may name as its target
  Registered,  \* the ids that have a row in users
  Sessions     \* the pool's connections, one request on each

ASSUME RegisteredAssumption == Registered \subseteq Users

VARIABLES
  profiles,    \* users with a row in profiles
  active,      \* profiles with is_active = TRUE
  swipes,      \* rows of swipes: <<actor_user_id, target_user_id>>
  exclusions,  \* rows of user_exclusions: <<action_user_id, target_user_id>>
  bans,        \* exclusions with is_permanent_ban = TRUE
  chats,       \* rows of chats: <<user_1_id, user_2_id>>
  closed,      \* chats with is_active = FALSE
  pc,          \* the statement each session executes next
  row,         \* <<caller, target>> of the request each session serves
  dirty,       \* the uncommitted writes of each session's transaction
  found        \* the chat row CreateLike is about to answer with, if any

tables == <<profiles, active, swipes, exclusions, bans, chats, closed>>
session == <<pc, row, dirty, found>>
vars == <<profiles, active, swipes, exclusions, bans, chats, closed,
          pc, row, dirty, found>>

-----------------------------------------------------------------------------

\* validateTarget lets a request through only when the target is someone else.
Pairs == {p \in Registered \X Users : p[1] # p[2]}

NoRow == <<>>

Flip(p) == <<p[2], p[1]>>

\* Mutant: an ordinary unique key on (user_1_id, user_2_id).
OrderedKey(p) == {p}

\* The key of chats_unique_pair_uq: both orders of a pair are one key.
SamePair(p) == {p, Flip(p)}

LikeSteps == {"like.profile", "like.exclusions", "like.swipe", "like.mutual",
              "like.chat", "like.lookup", "like.commit", "like.publish"}
BlockSteps == {"block.user", "block.exclude", "block.chat", "block.commit",
               "block.publish"}
DislikeSteps == {"dislike.user", "dislike.exclude", "dislike.publish"}
Steps == LikeSteps \cup BlockSteps \cup DislikeSteps
           \cup {"unblock.delete", "idle"}

EntrySteps == {"like.profile", "dislike.user", "block.user", "unblock.delete"}

\* What a transaction may have written and not yet committed: a row of swipes,
\* a row of chats, a permanent exclusion, the deactivation of a chat.
Writes == {"swipe", "chat", "ban", "close"}

Goto(s, step) == pc' = [pc EXCEPT ![s] = step]

\* Mutant: an early return that forgets the rollback.
FinishWithoutRollback(s) ==
  /\ Goto(s, "idle")
  /\ row' = [row EXCEPT ![s] = NoRow]
  /\ found' = [found EXCEPT ![s] = {}]
  /\ UNCHANGED dirty

\* The handler returns: the connection goes back to the pool, and the deferred
\* Rollback discards whatever was not committed.
Finish(s) ==
  /\ Goto(s, "idle")
  /\ row' = [row EXCEPT ![s] = NoRow]
  /\ dirty' = [dirty EXCEPT ![s] = {}]
  /\ found' = [found EXCEPT ![s] = {}]

Write(s, w) == dirty' = [dirty EXCEPT ![s] = @ \cup {w}]

\* The rows session s has written with w: visible to itself, and to the others
\* from its commit on.
Written(s, w) == IF w \in dirty[s] THEN {row[s]} ELSE {}

\* Another session has an uncommitted write w on one of the rows.
Locked(s, w, rows) ==
  \E r \in Sessions \ {s} : w \in dirty[r] /\ row[r] \in rows

-----------------------------------------------------------------------------

Init ==
  /\ profiles = {} /\ active = {}
  /\ swipes = {} /\ exclusions = {} /\ bans = {} /\ chats = {} /\ closed = {}
  /\ pc = [s \in Sessions |-> "idle"]
  /\ row = [s \in Sessions |-> NoRow]
  /\ dirty = [s \in Sessions |-> {}]
  /\ found = [s \in Sessions |-> {}]

\* PUT /profiles/me: an upsert, which also reactivates a hidden profile.
SaveProfile(u) ==
  /\ profiles' = profiles \cup {u}
  /\ active' = active \cup {u}
  /\ UNCHANGED <<swipes, exclusions, bans, chats, closed, session>>

\* DELETE /profiles/me: hides the profile, answers not found when hidden.
DeactivateProfile(u) ==
  /\ u \in active
  /\ active' = active \ {u}
  /\ UNCHANGED <<profiles, swipes, exclusions, bans, chats, closed, session>>

\* A request arrives and validateTarget accepts it.
Receive(s) ==
  /\ pc[s] = "idle"
  /\ \E p \in Pairs, step \in EntrySteps :
       /\ Goto(s, step)
       /\ row' = [row EXCEPT ![s] = p]
  /\ UNCHANGED <<tables, dirty, found>>

-----------------------------------------------------------------------------
(* CreateLike: one transaction.                                            *)

\* Mutant: the check of the target's profile is dropped.
TargetUnchecked(s) == TRUE

TargetShown(s) == row[s][2] \in active

EnsureActiveProfile(s) ==
  /\ pc[s] = "like.profile"
  /\ \/ /\ TargetShown(s)
        /\ Goto(s, "like.exclusions")
        /\ UNCHANGED <<row, dirty, found>>
     \/ /\ ~ TargetShown(s)
        /\ Finish(s)
  /\ UNCHANGED tables

\* Mutant: only the caller's own exclusions are looked up.
OwnExclusions(s) == {row[s]} \cap exclusions

Excluding(s) == SamePair(row[s]) \cap exclusions

EnsureNotExcluded(s) ==
  /\ pc[s] = "like.exclusions"
  /\ \/ /\ Excluding(s) = {}
        /\ Goto(s, "like.swipe")
        /\ UNCHANGED <<row, dirty, found>>
     \/ /\ Excluding(s) # {}
        /\ Finish(s)
  /\ UNCHANGED tables

\* INSERT INTO swipes ... ON CONFLICT DO NOTHING: waits for an uncommitted
\* insertion of the same key, then inserts or finds the committed row.
InsertSwipe(s) ==
  /\ pc[s] = "like.swipe"
  /\ ~ Locked(s, "swipe", {row[s]})
  /\ \/ row[s] \in swipes /\ UNCHANGED dirty
     \/ row[s] \notin swipes /\ Write(s, "swipe")
  /\ Goto(s, "like.mutual")
  /\ UNCHANGED <<tables, row, found>>

\* Mutant: the ids of the query are passed in the wrong order.
OwnLike(s) == row[s] \in swipes

Reciprocated(s) == Flip(row[s]) \in swipes

\* Without a committed like in the other direction CreateLike goes straight
\* to COMMIT and answers no chat.
CheckMutual(s) ==
  /\ pc[s] = "like.mutual"
  /\ \/ Reciprocated(s) /\ Goto(s, "like.chat")
     \/ ~ Reciprocated(s) /\ Goto(s, "like.commit")
  /\ UNCHANGED <<tables, row, dirty, found>>

\* INSERT INTO chats ... ON CONFLICT DO NOTHING: waits for the uncommitted
\* insertion or update of the pair's row.
InsertChat(s) ==
  /\ pc[s] = "like.chat"
  /\ ~ Locked(s, "chat", SamePair(row[s]))
  /\ ~ Locked(s, "close", SamePair(row[s]))
  /\ \/ SamePair(row[s]) \cap chats # {} /\ UNCHANGED dirty
     \/ SamePair(row[s]) \cap chats = {} /\ Write(s, "chat")
  /\ Goto(s, "like.lookup")
  /\ UNCHANGED <<tables, row, found>>

\* SELECT id FROM chats, in either order of the pair, its own insertion
\* included; whether the chat is active is not looked at.
LookupChat(s) ==
  /\ pc[s] = "like.lookup"
  /\ \E c \in SamePair(row[s]) \cap (chats \cup Written(s, "chat")) :
       found' = [found EXCEPT ![s] = {c}]
  /\ Goto(s, "like.commit")
  /\ UNCHANGED <<tables, row, dirty>>

CommitLike(s) ==
  /\ pc[s] = "like.commit"
  /\ swipes' = swipes \cup Written(s, "swipe")
  /\ chats' = chats \cup Written(s, "chat")
  /\ dirty' = [dirty EXCEPT ![s] = {}]
  /\ Goto(s, "like.publish")
  /\ UNCHANGED <<profiles, active, exclusions, bans, closed, row, found>>

-----------------------------------------------------------------------------
(* CreateBlock: one transaction.                                           *)

EnsureUserExists(s) ==
  /\ pc[s] = "block.user"
  /\ \/ /\ row[s][2] \in Registered
        /\ Goto(s, "block.exclude")
        /\ UNCHANGED <<row, dirty, found>>
     \/ /\ row[s][2] \notin Registered
        /\ Finish(s)
  /\ UNCHANGED tables

\* INSERT INTO user_exclusions ... ON CONFLICT DO UPDATE: locks the row.
UpsertBan(s) ==
  /\ pc[s] = "block.exclude"
  /\ ~ Locked(s, "ban", {row[s]})
  /\ Write(s, "ban")
  /\ Goto(s, "block.chat")
  /\ UNCHANGED <<tables, row, found>>

\* Mutant: the update looks for the pair in one order only.
OwnOrderChats(s) == {row[s]} \cap (chats \ closed)

ActiveChats(s) == SamePair(row[s]) \cap (chats \ closed)

\* Mutant: the chat is looked up with a SELECT, which waits for nobody, and
\* updated by its id when the transaction commits.
SelectChat(s) ==
  /\ pc[s] = "block.chat"
  /\ \/ ActiveChats(s) # {} /\ Write(s, "close")
     \/ ActiveChats(s) = {} /\ UNCHANGED dirty
  /\ Goto(s, "block.commit")
  /\ UNCHANGED <<tables, row, found>>

\* UPDATE chats ... WHERE is_active: sees only committed rows, and waits for
\* another transaction that is deactivating the same one.
DeactivateChat(s) ==
  /\ pc[s] = "block.chat"
  /\ ~ Locked(s, "close", SamePair(row[s]))
  /\ \/ ActiveChats(s) # {} /\ Write(s, "close")
     \/ ActiveChats(s) = {} /\ UNCHANGED dirty
  /\ Goto(s, "block.commit")
  /\ UNCHANGED <<tables, row, found>>

CommitBlock(s) ==
  /\ pc[s] = "block.commit"
  /\ exclusions' = exclusions \cup Written(s, "ban")
  /\ bans' = bans \cup Written(s, "ban")
  /\ closed' = closed \cup (IF "close" \in dirty[s] THEN ActiveChats(s) ELSE {})
  /\ dirty' = [dirty EXCEPT ![s] = {}]
  /\ Goto(s, "block.publish")
  /\ UNCHANGED <<profiles, active, swipes, chats, row, found>>

-----------------------------------------------------------------------------
(* CreateDislike and RemoveBlock: statements that commit by themselves.    *)

EnsureTargetExists(s) ==
  /\ pc[s] = "dislike.user"
  /\ \/ /\ row[s][2] \in Registered
        /\ Goto(s, "dislike.exclude")
        /\ UNCHANGED <<row, dirty, found>>
     \/ /\ row[s][2] \notin Registered
        /\ Finish(s)
  /\ UNCHANGED tables

\* The upsert keeps the flag of an existing row, so a ban stays a ban.
UpsertDislike(s) ==
  /\ pc[s] = "dislike.exclude"
  /\ ~ Locked(s, "ban", {row[s]})
  /\ exclusions' = exclusions \cup {row[s]}
  /\ Goto(s, "dislike.publish")
  /\ UNCHANGED <<profiles, active, swipes, bans, chats, closed,
                 row, dirty, found>>

\* Mutant: the delete forgets is_permanent_ban.
AnyExclusion(s) == {row[s]}

LiftableBans(s) == bans \cap {row[s]}

\* DELETE ... WHERE is_permanent_ban: waits only for a row it can see and that
\* satisfies the condition; a plain dislike is left alone.
DeleteBan(s) ==
  /\ pc[s] = "unblock.delete"
  /\ ~ Locked(s, "ban", LiftableBans(s))
  /\ exclusions' = exclusions \ LiftableBans(s)
  /\ bans' = bans \ LiftableBans(s)
  /\ Finish(s)
  /\ UNCHANGED <<profiles, active, swipes, chats, closed>>

-----------------------------------------------------------------------------

\* After the commit the service hands its events to the publisher, which
\* never blocks, and the handler answers.
Publish(s) ==
  /\ pc[s] \in {"like.publish", "block.publish", "dislike.publish"}
  /\ Finish(s)
  /\ UNCHANGED tables

\* The request fails: the client goes away and cancels its context, the
\* connection breaks, or the process stops.  An open transaction rolls back;
\* after the commit only the answer and the events are lost.
Abort(s) ==
  /\ pc[s] # "idle"
  /\ Finish(s)
  /\ UNCHANGED tables

Like(s) ==
  \/ EnsureActiveProfile(s) \/ EnsureNotExcluded(s) \/ InsertSwipe(s)
  \/ CheckMutual(s) \/ InsertChat(s) \/ LookupChat(s) \/ CommitLike(s)

Block(s) ==
  EnsureUserExists(s) \/ UpsertBan(s) \/ DeactivateChat(s) \/ CommitBlock(s)

Serve(s) ==
  \/ Like(s) \/ Block(s)
  \/ EnsureTargetExists(s) \/ UpsertDislike(s) \/ DeleteBan(s)
  \/ Publish(s)

Next ==
  \/ \E u \in Registered : SaveProfile(u) \/ DeactivateProfile(u)
  \/ \E s \in Sessions : Receive(s) \/ Serve(s) \/ Abort(s)

Spec == Init /\ [][Next]_vars

-----------------------------------------------------------------------------
(* What holds however the requests interleave and wherever they fail.      *)

\* Every table holds rows of its type, and every flag column (active, bans,
\* closed) belongs to an existing row; a session that serves no request holds
\* no locks.
TypeOK ==
  /\ profiles \subseteq Registered /\ active \subseteq profiles
  /\ swipes \subseteq Pairs
  /\ exclusions \subseteq Pairs /\ bans \subseteq exclusions
  /\ chats \subseteq Pairs /\ closed \subseteq chats
  /\ pc \in [Sessions -> Steps]
  /\ row \in [Sessions -> Pairs \cup {NoRow}]
  /\ \A s \in Sessions : row[s] = NoRow <=> pc[s] = "idle"
  /\ dirty \in [Sessions -> SUBSET Writes]
  /\ \A s \in Sessions : pc[s] = "idle" => dirty[s] = {}
  /\ found \in [Sessions -> SUBSET Pairs]

\* A chat exists only between two users who have both liked the other: the
\* chat and the second like commit together, and a rolled-back like cannot
\* leave its chat behind (CreateLike).
ChatBackedByBothLikes == \A c \in chats : SamePair(c) \subseteq swipes

\* Two users share at most one chat, whoever liked last and however many of
\* their likes raced (chats_unique_pair_uq and its ON CONFLICT).
OneChatPerPair == \A c \in chats : Flip(c) \notin chats

\* Both participants of a chat have a profile, so the inner JOIN of ListActive
\* hides no chat; nothing in CreateLike checks the caller's own profile, it
\* follows from the like in the other direction.
ChatPartnersHaveProfiles == \A c \in chats : {c[1], c[2]} \subseteq profiles

\* A handler that is about to answer "matched" and publish the match names a
\* chat of its own pair that is committed and backed by both likes.
AnnouncedMatchIsCommitted ==
  \A s \in Sessions : pc[s] = "like.publish" =>
    \A c \in found[s] : c \in chats \cap SamePair(row[s]) /\ SamePair(c) \subseteq swipes

\* An exclusion is lifted only by the unblock request of the user who made it,
\* and only when it is a block: no like, dislike or concurrent block removes or
\* weakens one, and an unblock leaves a plain dislike in place (CreateDislike,
\* RemoveBlock).
BansOnlyLiftedByAuthor ==
  [][\A e \in (exclusions \ exclusions') \cup (bans \ bans') :
       /\ e \in bans
       /\ \E s \in Sessions : pc[s] = "unblock.delete" /\ row[s] = e]_vars

\* The key that a pending write holds: a chat is locked for both orders of the
\* pair, any other row for itself.
KeyOf(s, w) ==
  IF w \in {"chat", "close"} THEN {row[s], Flip(row[s])} ELSE {row[s]}

\* What a transaction has written and not committed belongs to it alone, though
\* it checked more than it locked: nobody else has the same key pending, nobody
\* has committed the swipe or the chat it is about to insert or deactivated the
\* chat it is about to deactivate, and the like that a pending chat rests on is
\* in (the unique keys and row locks behind CreateLike and CreateBlock).
PendingWritesAreExclusive ==
  \A s \in Sessions : \A w \in dirty[s] :
    /\ ~ Locked(s, w, KeyOf(s, w))
    /\ w = "swipe" => row[s] \notin swipes
    /\ w = "chat" => KeyOf(s, w) \cap chats = {} /\ Flip(row[s]) \in swipes
    /\ w = "close" => KeyOf(s, w) \cap (chats \ closed) # {}

-----------------------------------------------------------------------------
(* Progress.  Postgres queues the waiters of a row lock in order, so a     *)
(* request that can take its next statement again and again does take it.  *)
(* Nothing makes requests arrive or fail.                                  *)

FairSpec == Spec /\ \A s \in Sessions : SF_vars(Serve(s))

\* Every request is answered: no two transactions wait for one another, and a
\* transaction that ends early gives up its locks.
RequestsFinish == \A s \in Sessions : pc[s] # "idle" ~> pc[s] = "idle"

-----------------------------------------------------------------------------
(* What the repository says of the handlers.  Neither holds; RibbonRaces   *)
(* says of which couples they do.                                          *)

\* Two users who like each other have a chat (README: a like creates a chat
\* when it is mutual).
MutualLikesHaveChat ==
  \A p \in swipes : Flip(p) \in swipes => SamePair(p) \cap chats # {}

\* A block excludes the other user and deactivates the chat of the pair, so no
\* chat stays active across one (CreateBlock).
BannedPairHasNoActiveChat ==
  \A b \in bans : SamePair(b) \cap chats \subseteq closed

=============================================================================
