---------------------------- MODULE RibbonRaces -----------------------------
(***************************************************************************)
(* The ribbon with a history of its stale reads.  At READ COMMITTED a      *)
(* transaction reads, later writes, and nothing keeps what it has read as  *)
(* it was: a request overtakes another when its commit changes what the    *)
(* other has read.  The history restricts no behaviour of Ribbon.  It      *)
(* tells which couples can see a promise broken, those of which an         *)
(* overtaken request has committed, and the transactions of all the others *)
(* implement the atomic requests of Matching.                              *)
(***************************************************************************)
EXTENDS Ribbon

VARIABLES
  stale,  \* sessions whose open transaction has been overtaken
  raced   \* couples of which a stale transaction has committed

hvars == <<vars, stale, raced>>

Couple(p) == {p[1], p[2]}

Couples(rows) == {Couple(c) : c \in rows}

\* The statements that still follow the check of the target's profile in
\* CreateLike, and those that follow the check of the exclusions.
TargetChecked == LikeSteps \ {"like.profile", "like.publish"}
ExclusionsChecked == TargetChecked \ {"like.exclusions"}

\* This step changes what the open transaction of s has read: the target's
\* profile, the absence of exclusions or of the other like (CreateLike), the
\* absence of an active chat (CreateBlock).
Overtaken(s) ==
  \/ pc[s] \in TargetChecked /\ row[s][2] \in active \ active'
  \/ pc[s] \in ExclusionsChecked /\ SamePair(row[s]) \cap (exclusions' \ exclusions) # {}
  \/ pc[s] = "like.commit" /\ Flip(row[s]) \in swipes' \ swipes
  \/ pc[s] = "block.commit" /\ SamePair(row[s]) \cap (chats' \ chats) # {}

\* A transaction stays stale until it ends.
Track ==
  /\ stale' = {s \in Sessions : /\ s \in stale \/ Overtaken(s)
                                /\ pc'[s] \in TargetChecked \cup {"block.commit"}}
  /\ raced' = raced \cup
       {Couple(row[s]) : s \in {t \in stale : pc'[t] \in {"like.publish", "block.publish"}}}

HInit == Init /\ stale = {} /\ raced = {}

HNext == Next /\ Track

HSpec == HInit /\ [][HNext]_hvars

-----------------------------------------------------------------------------

\* Two users who like each other have a chat, unless a like of theirs was
\* committed after a commit that overtook it: nothing else that CreateLike may
\* meet, no block, failure, retry or repeated like, costs a couple its match.
MissingChatsWereRaced ==
  \A p \in swipes : Flip(p) \in swipes /\ Couple(p) \notin raced => SamePair(p) \cap chats # {}

\* A block leaves no chat of the pair active, and none becomes active while it
\* lasts, unless the like or the block was committed after a commit that
\* overtook it (CreateBlock beside CreateLike).
ChatsAcrossBlocksWereRaced ==
  \A b \in bans : Couple(b) \notin raced => SamePair(b) \cap chats \subseteq closed

Promise == INSTANCE Matching WITH
  People <- Users,
  visible <- active,
  likes <- swipes,
  hidden <- exclusions,
  banned <- bans,
  matched <- Couples(chats),
  talking <- Couples(chats \ closed)

\* Statement by statement, with rollbacks anywhere and any interleaving, each
\* request takes effect at one moment, on what is true at that moment, or it was
\* overtaken, and then it misjudges its own couple only (CreateLike,
\* CreateBlock, CreateDislike, RemoveBlock).
ImplementsMatching == Promise!MSpec

=============================================================================
