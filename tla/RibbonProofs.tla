---------------------------- MODULE RibbonProofs ----------------------------
(***************************************************************************)
(* What holds of Ribbon for every set of users and every number of         *)
(* connections; which promises a commit may break, and only for a couple   *)
(* whose request was overtaken (RibbonRaces); and that its transactions    *)
(* implement the requests of Matching.                                     *)
(***************************************************************************)
EXTENDS RibbonRaces, TLAPS

-----------------------------------------------------------------------------
(* Typing.                                                                 *)

\* Each action of Next keeps the tables and the sessions well typed.
LEMMA TypeStep == TypeOK /\ [Next]_vars => TypeOK'
<1> SUFFICES ASSUME TypeOK, [Next]_vars PROVE TypeOK'
  OBVIOUS
<1> USE DEF Steps, LikeSteps, BlockSteps, DislikeSteps, Writes, NoRow
<1>1. ASSUME NEW u \in Registered, SaveProfile(u) PROVE TypeOK'
  BY <1>1 DEF TypeOK, SaveProfile, session
<1>2. ASSUME NEW u \in Registered, DeactivateProfile(u) PROVE TypeOK'
  BY <1>2 DEF TypeOK, DeactivateProfile, session
<1>3. ASSUME NEW s \in Sessions, Receive(s) PROVE TypeOK'
  BY <1>3 DEF TypeOK, Receive, Goto, EntrySteps, tables, Pairs
<1>4. ASSUME NEW s \in Sessions, Finish(s), UNCHANGED tables PROVE TypeOK'
  BY <1>4 DEF TypeOK, Finish, Goto, tables
<1>5. ASSUME NEW s \in Sessions, EnsureActiveProfile(s) PROVE TypeOK'
  BY <1>4, <1>5 DEF TypeOK, EnsureActiveProfile, Goto, tables
<1>6. ASSUME NEW s \in Sessions, EnsureNotExcluded(s) PROVE TypeOK'
  BY <1>4, <1>6 DEF TypeOK, EnsureNotExcluded, Goto, tables
<1>7. ASSUME NEW s \in Sessions, InsertSwipe(s) PROVE TypeOK'
  BY <1>7 DEF TypeOK, InsertSwipe, Goto, Write, tables
<1>8. ASSUME NEW s \in Sessions, CheckMutual(s) PROVE TypeOK'
  BY <1>8 DEF TypeOK, CheckMutual, Goto, tables
<1>9. ASSUME NEW s \in Sessions, InsertChat(s) PROVE TypeOK'
  BY <1>9 DEF TypeOK, InsertChat, Goto, Write, tables
<1>10. ASSUME NEW s \in Sessions, LookupChat(s) PROVE TypeOK'
  BY <1>10 DEF TypeOK, LookupChat, Goto, tables, Written
<1>11. ASSUME NEW s \in Sessions, CommitLike(s) PROVE TypeOK'
  BY <1>11 DEF TypeOK, CommitLike, Goto, Written
<1>12. ASSUME NEW s \in Sessions, EnsureUserExists(s) PROVE TypeOK'
  BY <1>4, <1>12 DEF TypeOK, EnsureUserExists, Goto, tables
<1>13. ASSUME NEW s \in Sessions, UpsertBan(s) PROVE TypeOK'
  BY <1>13 DEF TypeOK, UpsertBan, Goto, Write, tables
<1>14. ASSUME NEW s \in Sessions, DeactivateChat(s) PROVE TypeOK'
  BY <1>14 DEF TypeOK, DeactivateChat, Goto, Write, tables
<1>15. ASSUME NEW s \in Sessions, CommitBlock(s) PROVE TypeOK'
  BY <1>15 DEF ActiveChats, TypeOK, CommitBlock, Goto, Written
<1>16. ASSUME NEW s \in Sessions, EnsureTargetExists(s) PROVE TypeOK'
  BY <1>4, <1>16 DEF TypeOK, EnsureTargetExists, Goto, tables
<1>17. ASSUME NEW s \in Sessions, UpsertDislike(s) PROVE TypeOK'
  BY <1>17 DEF TypeOK, UpsertDislike, Goto
<1>18. ASSUME NEW s \in Sessions, DeleteBan(s) PROVE TypeOK'
  BY <1>18 DEF TypeOK, DeleteBan, Finish, Goto
<1>19. ASSUME NEW s \in Sessions, Publish(s) \/ Abort(s) PROVE TypeOK'
  BY <1>4, <1>19 DEF Publish, Abort
<1>20. CASE UNCHANGED vars
  BY <1>20 DEF TypeOK, vars
<1> QED
  BY <1>1, <1>2, <1>3, <1>5, <1>6, <1>7, <1>8, <1>9, <1>10, <1>11, <1>12,
     <1>13, <1>14, <1>15, <1>16, <1>17, <1>18, <1>19, <1>20
     DEF Next, Serve, Like, Block

\* The tables and the sessions are well typed in every reachable state, for any
\* users and any number of connections.
THEOREM TypeCorrect == Spec => []TypeOK
<1>1. Init => TypeOK
  BY DEF Init, TypeOK, Steps, NoRow
<1> QED
  BY <1>1, TypeStep, PTL DEF Spec

-----------------------------------------------------------------------------
(* Safety.                                                                 *)

\* The target of every recorded like has a profile: CreateLike checks it, and
\* profiles are hidden but never deleted.
TargetsHaveProfiles == \A p \in swipes : p[2] \in profiles

\* The statements of CreateLike that follow the insertion of the swipe.
LikedSteps == {"like.mutual", "like.chat", "like.lookup", "like.commit"}

\* What a like has established and not committed: its target has a profile, and
\* from the insertion on its row is in swipes or about to be.
LikeHolds(s) ==
  /\ pc[s] \in LikeSteps \ {"like.profile"} => row[s][2] \in profiles
  /\ "swipe" \in dirty[s] => pc[s] \in LikedSteps
  /\ pc[s] \in LikedSteps => row[s] \in swipes \cup Written(s, "swipe")
  /\ pc[s] = "like.publish" => row[s] \in swipes

\* What a match has established and not committed: nobody else has a chat of
\* the pair, committed or pending, the other user's like is committed, and the
\* chat it is about to name exists.
MatchHolds(s) ==
  /\ "chat" \in dirty[s] =>
       /\ pc[s] \in {"like.lookup", "like.commit"}
       /\ SamePair(row[s]) \cap chats = {}
       /\ ~ Locked(s, "chat", SamePair(row[s]))
  /\ pc[s] \in {"like.chat", "like.lookup"} \/ "chat" \in dirty[s] =>
       Flip(row[s]) \in swipes
  /\ \A c \in found[s] :
       /\ pc[s] \in {"like.commit", "like.publish"}
       /\ c \in SamePair(row[s]) \cap (chats \cup Written(s, "chat"))
       /\ Flip(row[s]) \in swipes

Established == \A s \in Sessions : LikeHolds(s) /\ MatchHolds(s)

\* The inductive invariant.  ChatBackedByBothLikes alone is not inductive: the
\* transactions about to commit must be known to hold what they checked.
Inv ==
  /\ TypeOK
  /\ TargetsHaveProfiles
  /\ ChatBackedByBothLikes
  /\ OneChatPerPair
  /\ Established

\* Two requests concern the same couple whichever of them is asked.
LEMMA SamePairSymmetric ==
  ASSUME NEW p \in Pairs, NEW q \in Pairs
  PROVE  p \in SamePair(q) <=> q \in SamePair(p)
<1> PICK a \in Registered, b \in Users : p = <<a, b>>
  BY DEF Pairs
<1> PICK c \in Registered, d \in Users : q = <<c, d>>
  BY DEF Pairs
<1> QED
  BY DEF SamePair, Flip

\* What a step of session s leaves of the others' transactions: their pending
\* checks survive as long as s commits no chat and takes no chat of their pair.
LEMMA OthersUndisturbed ==
  ASSUME Inv, TypeOK',
         NEW s \in Sessions,
         profiles \subseteq profiles', swipes \subseteq swipes', chats' = chats,
         \A t \in Sessions \ {s} : /\ pc'[t] = pc[t] /\ row'[t] = row[t]
                                   /\ dirty'[t] = dirty[t] /\ found'[t] = found[t],
         \/ "chat" \notin dirty'[s]
         \/ "chat" \in dirty[s] /\ row'[s] = row[s]
         \/ row'[s] = row[s] /\ row[s] \in Pairs /\ ~ Locked(s, "chat", SamePair(row[s]))
  PROVE  \A t \in Sessions \ {s} : LikeHolds(t)' /\ MatchHolds(t)'
<1> SUFFICES ASSUME NEW t \in Sessions \ {s} PROVE LikeHolds(t)' /\ MatchHolds(t)'
  OBVIOUS
<1>1. LikeHolds(t)'
  BY DEF Inv, Established, LikeHolds, Written
<1>2. ASSUME "chat" \in dirty'[t], "chat" \in dirty'[s] PROVE row'[s] \notin SamePair(row'[t])
  <2>1. row[t] \in Pairs
    BY <1>2 DEF Inv, TypeOK, Established, MatchHolds
  <2>2. ~ Locked(t, "chat", SamePair(row[t])) /\ "chat" \in dirty[t]
    BY <1>2 DEF Inv, Established, MatchHolds
  <2>3. row[s] \notin SamePair(row[t])
    BY <1>2, <2>1, <2>2, SamePairSymmetric DEF Locked
  <2> QED
    BY <1>2, <2>3
<1>3. SamePair(row[t])' = SamePair(row[t]) /\ Flip(row[t])' = Flip(row[t])
  BY DEF SamePair, Flip
<1>4. ASSUME "chat" \in dirty'[t] PROVE ~ Locked(t, "chat", SamePair(row[t]))'
  <2>1. ~ Locked(t, "chat", SamePair(row[t]))
    BY <1>4 DEF Inv, Established, MatchHolds
  <2> QED
    BY <1>2, <1>3, <1>4, <2>1 DEF Locked
<1>5. MatchHolds(t)'
  BY <1>3, <1>4 DEF Inv, Established, MatchHolds, Written
<1> QED
  BY <1>1, <1>5

\* The tables satisfy Inv whenever they change only by gaining profiles.
LEMMA TablesUndisturbed ==
  ASSUME Inv, profiles \subseteq profiles', swipes' = swipes, chats' = chats
  PROVE  TargetsHaveProfiles' /\ ChatBackedByBothLikes' /\ OneChatPerPair'
BY DEF Inv, TargetsHaveProfiles, ChatBackedByBothLikes, OneChatPerPair

\* A request that ends, or rolls back, takes its pending writes with it.
LEMMA FinishInv ==
  ASSUME Inv, TypeOK', NEW s \in Sessions, Finish(s), UNCHANGED <<profiles, swipes, chats>>
  PROVE  Inv'
<1>1. LikeHolds(s)' /\ MatchHolds(s)'
  BY DEF Finish, Goto, LikeHolds, MatchHolds, LikeSteps, LikedSteps, Inv, TypeOK
<1>2. \A t \in Sessions \ {s} : LikeHolds(t)' /\ MatchHolds(t)'
  <2>1. "chat" \notin dirty'[s]
    BY DEF Finish, Inv, TypeOK
  <2> QED
    BY <2>1, OthersUndisturbed DEF Finish, Goto, Inv, TypeOK
<1> QED
  BY <1>1, <1>2, TablesUndisturbed DEF Inv, Established

\* A statement of session s that commits nothing: s itself has to keep its
\* facts, and to take no chat of a pair that another session has pending.
LEMMA StatementInv ==
  ASSUME Inv, TypeOK',
         NEW s \in Sessions, NEW step \in Steps,
         Goto(s, step),
         UNCHANGED <<profiles, swipes, chats>>,
         \A t \in Sessions \ {s} : /\ row'[t] = row[t] /\ dirty'[t] = dirty[t]
                                   /\ found'[t] = found[t],
         \/ "chat" \notin dirty'[s]
         \/ "chat" \in dirty[s] /\ row'[s] = row[s]
         \/ row'[s] = row[s] /\ row[s] \in Pairs /\ ~ Locked(s, "chat", SamePair(row[s])),
         LikeHolds(s)', MatchHolds(s)'
  PROVE  Inv'
<1>1. \A t \in Sessions \ {s} : LikeHolds(t)' /\ MatchHolds(t)'
  BY OthersUndisturbed DEF Goto, Inv, TypeOK
<1> QED
  BY <1>1, TablesUndisturbed DEF Inv, Established

-----------------------------------------------------------------------------
(* The steps that touch what Inv speaks of, one lemma each.                *)

\* A request that arrives has written and checked nothing yet.
LEMMA ReceiveInv ==
  ASSUME Inv, TypeOK', NEW s \in Sessions, Receive(s) PROVE Inv'
<1>1. PICK step \in EntrySteps : Goto(s, step)
  BY DEF Receive
<1>2. dirty'[s] = {}
  BY DEF Receive, Inv, TypeOK
<1>3. found'[s] = {}
  BY DEF Receive, Inv, TypeOK, Established, MatchHolds
<1>4. LikeHolds(s)' /\ MatchHolds(s)'
  BY <1>1, <1>2, <1>3 DEF Goto, EntrySteps, LikeHolds, MatchHolds, LikeSteps,
     LikedSteps, Inv, TypeOK
<1> QED
  BY <1>1, <1>2, <1>4, StatementInv
     DEF Receive, tables, EntrySteps, Steps, LikeSteps, BlockSteps, DislikeSteps, Inv, TypeOK

\* A like goes on only to a target with an active profile.
LEMMA EnsureActiveProfileInv ==
  ASSUME Inv, TypeOK', NEW s \in Sessions, EnsureActiveProfile(s) PROVE Inv'
<1>1. CASE Finish(s)
  BY <1>1, FinishInv DEF EnsureActiveProfile, tables
<1>2. CASE row[s][2] \in active /\ Goto(s, "like.exclusions") /\ UNCHANGED <<row, dirty, found>>
  <2>1. LikeHolds(s)' /\ MatchHolds(s)'
    BY <1>2 DEF EnsureActiveProfile, tables, Goto, Inv, TypeOK, Established,
       LikeHolds, MatchHolds, LikedSteps
  <2> QED
    BY <1>2, <2>1, StatementInv
       DEF EnsureActiveProfile, tables, Steps, LikeSteps, Inv, Established, MatchHolds
<1> QED
  BY <1>1, <1>2 DEF TargetShown, EnsureActiveProfile

\* A like goes on past its exclusion check and writes nothing.
LEMMA EnsureNotExcludedInv ==
  ASSUME Inv, TypeOK', NEW s \in Sessions, EnsureNotExcluded(s) PROVE Inv'
<1>1. CASE Finish(s)
  BY <1>1, FinishInv DEF EnsureNotExcluded, tables
<1>2. CASE Goto(s, "like.swipe") /\ UNCHANGED <<row, dirty, found>>
  <2>1. LikeHolds(s)' /\ MatchHolds(s)'
    BY <1>2 DEF EnsureNotExcluded, tables, Goto, Inv, TypeOK, Established,
       LikeHolds, MatchHolds, LikedSteps, LikeSteps
  <2> QED
    BY <1>2, <2>1, StatementInv
       DEF EnsureNotExcluded, tables, Steps, LikeSteps, Inv, Established, MatchHolds
<1> QED
  BY <1>1, <1>2 DEF EnsureNotExcluded

\* The swipe is pending, to a target that has a profile.
LEMMA InsertSwipeInv ==
  ASSUME Inv, TypeOK', NEW s \in Sessions, InsertSwipe(s) PROVE Inv'
<1>1. "chat" \notin dirty'[s]
  BY DEF InsertSwipe, Write, Inv, TypeOK, Established, MatchHolds
<1>2. LikeHolds(s)'
  BY DEF InsertSwipe, tables, Goto, Write, Written, Inv, TypeOK, Established,
     LikeHolds, LikeSteps, LikedSteps
<1>3. MatchHolds(s)'
  BY <1>1 DEF InsertSwipe, tables, Goto, Inv, TypeOK, Established, MatchHolds
<1> QED
  BY <1>1, <1>2, <1>3, StatementInv
     DEF InsertSwipe, tables, Write, Steps, LikeSteps, Inv, TypeOK

\* The like goes on to a chat only if the other swipe is committed.
LEMMA CheckMutualInv ==
  ASSUME Inv, TypeOK', NEW s \in Sessions, CheckMutual(s) PROVE Inv'
<1>1. "chat" \notin dirty'[s]
  BY DEF CheckMutual, Inv, TypeOK, Established, MatchHolds
<1>2. PICK step \in {"like.chat", "like.commit"} : Goto(s, step)
  BY DEF CheckMutual
<1>3. LikeHolds(s)'
  BY <1>2 DEF CheckMutual, tables, Goto, Written, Inv, TypeOK, Established,
     LikeHolds, LikeSteps, LikedSteps
<1>4. MatchHolds(s)'
  BY <1>1 DEF Reciprocated, CheckMutual, tables, Goto, Flip, Inv, TypeOK, Established, MatchHolds
<1> QED
  BY <1>1, <1>2, <1>3, <1>4, StatementInv DEF CheckMutual, tables, Steps, LikeSteps

\* A chat is inserted only where the pair has none and nobody else inserts one.
LEMMA InsertChatInv ==
  ASSUME Inv, TypeOK', NEW s \in Sessions, InsertChat(s) PROVE Inv'
<1>1. row[s] \in Pairs
  BY DEF InsertChat, Inv, TypeOK
<1>2. LikeHolds(s)'
  BY DEF InsertChat, tables, Goto, Write, Written, Inv, TypeOK, Established,
     LikeHolds, LikeSteps, LikedSteps
<1>3. SamePair(row[s])' = SamePair(row[s]) /\ Flip(row[s])' = Flip(row[s])
  BY DEF InsertChat, SamePair, Flip
<1>4. (~ Locked(s, "chat", SamePair(row[s])))'
  BY <1>3 DEF InsertChat, Locked, Write, Inv, TypeOK
<1>5. "chat" \in dirty'[s] => SamePair(row[s]) \cap chats = {}
  BY DEF InsertChat, Write, Inv, TypeOK, Established, MatchHolds
<1>6. MatchHolds(s)'
  BY <1>3, <1>4, <1>5 DEF InsertChat, tables, Goto, Inv, TypeOK, Established, MatchHolds
<1> QED
  BY <1>1, <1>2, <1>6, StatementInv
     DEF InsertChat, tables, Write, Steps, LikeSteps, Inv, TypeOK

\* The chat that is there already is the one found.
LEMMA LookupChatInv ==
  ASSUME Inv, TypeOK', NEW s \in Sessions, LookupChat(s) PROVE Inv'
<1>1. LikeHolds(s)'
  BY DEF LookupChat, tables, Goto, Written, Inv, TypeOK, Established,
     LikeHolds, LikeSteps, LikedSteps
<1>2. /\ SamePair(row[s])' = SamePair(row[s]) /\ Flip(row[s])' = Flip(row[s])
      /\ Written(s, "chat")' = Written(s, "chat")
  BY DEF LookupChat, SamePair, Flip, Written
<1>3. Locked(s, "chat", SamePair(row[s]))' = Locked(s, "chat", SamePair(row[s]))
  BY <1>2 DEF LookupChat, Locked
<1>4. MatchHolds(s)'
  BY <1>2, <1>3 DEF LookupChat, tables, Goto, Inv, TypeOK, Established, MatchHolds
<1> QED
  BY <1>1, <1>4, StatementInv DEF LookupChat, tables, Steps, LikeSteps, Inv, TypeOK

\* The commit of a like: its chat is new for the couple and both likes are in.
LEMMA CommitLikeInv ==
  ASSUME Inv, TypeOK', NEW s \in Sessions, CommitLike(s) PROVE Inv'
<1>1. row[s] \in Pairs /\ row[s] \in swipes'
  BY DEF CommitLike, Inv, TypeOK, Established, LikeHolds, LikedSteps
<1>2. TargetsHaveProfiles'
  BY DEF CommitLike, Written, Inv, TargetsHaveProfiles, Established,
     LikeHolds, LikeSteps
<1>3. \A c \in chats' \ chats : /\ c = row[s] /\ "chat" \in dirty[s]
                                /\ Flip(c) \in swipes /\ Flip(c) \notin chats
  BY DEF CommitLike, Written, Inv, Established, MatchHolds, SamePair
<1>4. ChatBackedByBothLikes'
  BY <1>1, <1>3 DEF CommitLike, Inv, ChatBackedByBothLikes, SamePair
<1>5. OneChatPerPair'
  <2> SUFFICES ASSUME NEW c \in chats' PROVE Flip(c) \notin chats'
    BY DEF OneChatPerPair, Flip
  <2>1. chats' \subseteq Pairs
    BY DEF TypeOK
  <2>2. \A p \in Pairs : Flip(Flip(p)) = p /\ Flip(p) # p
    BY DEF Pairs, Flip
  <2> QED
    BY <1>3, <2>1, <2>2 DEF Inv, OneChatPerPair
<1>6. LikeHolds(s)' /\ MatchHolds(s)'
  BY <1>1 DEF CommitLike, Goto, LikeHolds, MatchHolds, LikeSteps, LikedSteps,
     Written, Inv, TypeOK, Established, SamePair, Flip
<1>7. ASSUME NEW t \in Sessions \ {s} PROVE LikeHolds(t)' /\ MatchHolds(t)'
  <2>1. /\ pc'[t] = pc[t] /\ row'[t] = row[t] /\ dirty'[t] = dirty[t]
        /\ found'[t] = found[t] /\ dirty'[s] = {}
    BY DEF CommitLike, Goto, Inv, TypeOK
  <2>2. LikeHolds(t)'
    BY <2>1 DEF CommitLike, Inv, Established, LikeHolds, Written
  <2>3. SamePair(row[t])' = SamePair(row[t]) /\ Flip(row[t])' = Flip(row[t])
    BY <2>1 DEF SamePair, Flip
  <2>4. ASSUME "chat" \in dirty'[t]
        PROVE  SamePair(row[t]) \cap chats' = {} /\ ~ Locked(t, "chat", SamePair(row[t]))'
    <3>1. SamePair(row[t]) \cap chats = {} /\ ~ Locked(t, "chat", SamePair(row[t]))
      BY <2>1, <2>4 DEF Inv, Established, MatchHolds
    <3>2. \A r \in Sessions : dirty'[r] \subseteq dirty[r] /\ row'[r] = row[r]
      BY DEF CommitLike, Inv, TypeOK
    <3> QED
      BY <1>3, <2>3, <3>1, <3>2 DEF Locked
  <2>5. MatchHolds(t)'
    BY <2>1, <2>3, <2>4 DEF CommitLike, Inv, Established, MatchHolds, Written
  <2> QED
    BY <2>2, <2>5
<1> QED
  BY <1>2, <1>4, <1>5, <1>6, <1>7 DEF Inv, Established

\* Blocks and dislikes write neither swipes nor chats, and have no facts of
\* their own to keep.
LEMMA ExclusionInv ==
  ASSUME Inv, TypeOK', NEW s \in Sessions,
         \/ EnsureUserExists(s) \/ UpsertBan(s) \/ DeactivateChat(s) \/ CommitBlock(s)
         \/ EnsureTargetExists(s) \/ UpsertDislike(s)
  PROVE  Inv'
<1>1. CASE Finish(s)
  BY <1>1, FinishInv DEF EnsureUserExists, UpsertBan, DeactivateChat, CommitBlock,
     EnsureTargetExists, UpsertDislike, tables
<1>2. CASE ~ Finish(s)
  <2> DEFINE blocking == (BlockSteps \cup DislikeSteps)
  <2>1. pc[s] \in blocking /\ "chat" \notin dirty[s] /\ "swipe" \notin dirty[s] /\ found[s] = {}
    BY DEF EnsureUserExists, UpsertBan, DeactivateChat, CommitBlock, EnsureTargetExists,
       UpsertDislike, BlockSteps, DislikeSteps, Inv, Established, LikeHolds,
       MatchHolds, LikedSteps
  <2>2. PICK step \in blocking : Goto(s, step)
    BY <1>2 DEF EnsureUserExists, UpsertBan, DeactivateChat, CommitBlock, EnsureTargetExists,
       UpsertDislike, BlockSteps, DislikeSteps
  <2>3. /\ UNCHANGED <<profiles, swipes, chats, row, found>>
        /\ \E d \in SUBSET (dirty[s] \cup {"ban", "close"}) : dirty' = [dirty EXCEPT ![s] = d]
    BY <1>2 DEF EnsureUserExists, UpsertBan, DeactivateChat, CommitBlock, EnsureTargetExists,
       UpsertDislike, Write, tables, Inv, TypeOK
  <2>4. "chat" \notin dirty'[s] /\ "swipe" \notin dirty'[s] /\ found'[s] = {}
    BY <2>1, <2>3 DEF Inv, TypeOK
  <2>5. LikeHolds(s)' /\ MatchHolds(s)'
    BY <2>2, <2>4 DEF Goto, LikeHolds, MatchHolds, LikeSteps, LikedSteps, BlockSteps,
       DislikeSteps, Inv, TypeOK
  <2> QED
    BY <2>2, <2>3, <2>4, <2>5, StatementInv DEF Steps, Inv, TypeOK
<1> QED
  BY <1>1, <1>2

\* Every step keeps the invariant.
LEMMA InvStep == Inv /\ [Next]_vars => Inv'
<1> SUFFICES ASSUME Inv, [Next]_vars PROVE Inv'
  OBVIOUS
<1>1. TypeOK'
  BY TypeStep DEF Inv
<1>2. ASSUME NEW u \in Registered, SaveProfile(u) \/ DeactivateProfile(u) PROVE Inv'
  BY <1>1, <1>2, TablesUndisturbed
     DEF SaveProfile, DeactivateProfile, session, Inv, Established, LikeHolds,
     MatchHolds, Written, Locked
<1>3. ASSUME NEW s \in Sessions, Like(s) PROVE Inv'
  BY <1>1, <1>3, EnsureActiveProfileInv, EnsureNotExcludedInv, InsertSwipeInv,
     CheckMutualInv, InsertChatInv, LookupChatInv, CommitLikeInv DEF Like
<1>4. ASSUME NEW s \in Sessions, DeleteBan(s) \/ Publish(s) \/ Abort(s) PROVE Inv'
  BY <1>1, <1>4, FinishInv DEF DeleteBan, Publish, Abort, tables
<1>5. ASSUME NEW s \in Sessions, Receive(s) \/ Serve(s) \/ Abort(s) PROVE Inv'
  BY <1>1, <1>3, <1>4, <1>5, ReceiveInv, ExclusionInv DEF Serve, Block
<1>6. CASE UNCHANGED vars
  BY <1>1, <1>6, TablesUndisturbed
     DEF vars, Inv, Established, LikeHolds, MatchHolds, Written, Locked
<1> QED
  BY <1>2, <1>5, <1>6 DEF Next

\* The invariant holds in every behaviour.
LEMMA InvAlways == Spec => []Inv
<1>1. Init => Inv
  BY DEF Init, Inv, TypeOK, Steps, NoRow, TargetsHaveProfiles, ChatBackedByBothLikes,
     OneChatPerPair, Established, LikeHolds, MatchHolds, LikeSteps, LikedSteps
<1> QED
  BY <1>1, InvStep, PTL DEF Spec

-----------------------------------------------------------------------------

\* However likes, blocks and failures interleave, a chat is backed by both
\* likes.
THEOREM ChatsAreMutual == Spec => []ChatBackedByBothLikes
BY InvAlways, PTL DEF Inv

\* Racing likes never open two chats for one pair.
THEOREM ChatsAreUnique == Spec => []OneChatPerPair
BY InvAlways, PTL DEF Inv

\* Both participants of every chat have a profile: each was the target of one
\* of the two likes behind it.
THEOREM ChatsAreListed == Spec => []ChatPartnersHaveProfiles
<1>1. Inv => ChatPartnersHaveProfiles
  BY DEF Inv, TypeOK, TargetsHaveProfiles, ChatBackedByBothLikes,
     ChatPartnersHaveProfiles, SamePair, Flip
<1> QED
  BY <1>1, InvAlways, PTL

\* An announced match is committed and mutual.
THEOREM AnnouncementsAreTrue == Spec => []AnnouncedMatchIsCommitted
<1>1. Inv => AnnouncedMatchIsCommitted
  <2> SUFFICES ASSUME Inv, NEW s \in Sessions, pc[s] = "like.publish", NEW c \in found[s]
               PROVE  c \in chats \cap SamePair(row[s]) /\ SamePair(c) \subseteq swipes
    BY DEF AnnouncedMatchIsCommitted
  <2>1. c \in SamePair(row[s]) /\ c \in chats
    BY DEF Inv, Established, MatchHolds, Written
  <2> QED
    BY <2>1 DEF Inv, ChatBackedByBothLikes
<1> QED
  BY <1>1, InvAlways, PTL

\* Exclusions are lifted only as blocks, and only by their author's unblock.
THEOREM BansAreRespected == Spec => BansOnlyLiftedByAuthor
<1> DEFINE Lifted == (exclusions \ exclusions') \cup (bans \ bans')
           ByAuthor == \A e \in Lifted :
                         /\ e \in bans
                         /\ \E s \in Sessions : pc[s] = "unblock.delete" /\ row[s] = e
<1>1. TypeOK /\ [Next]_vars => [ByAuthor]_vars
  <2> SUFFICES ASSUME TypeOK, Next, NEW e \in Lifted
               PROVE  e \in bans /\ \E s \in Sessions : pc[s] = "unblock.delete" /\ row[s] = e
    OBVIOUS
  <2>1. PICK s \in Sessions : DeleteBan(s)
    BY DEF Next, Serve, Like, Block, SaveProfile, DeactivateProfile, Receive,
       EnsureActiveProfile, EnsureNotExcluded, InsertSwipe, CheckMutual, InsertChat,
       LookupChat, CommitLike, EnsureUserExists, UpsertBan, DeactivateChat, CommitBlock,
       EnsureTargetExists, UpsertDislike, Publish, Abort, tables
  <2> QED
    BY <2>1 DEF LiftableBans, DeleteBan, TypeOK
<1> QED
  BY <1>1, TypeCorrect, PTL DEF Spec, BansOnlyLiftedByAuthor

-----------------------------------------------------------------------------
(* Exclusive writes.                                                       *)

\* What a session has pending with w is its own.
Exclusive(s, w) ==
  /\ ~ Locked(s, w, KeyOf(s, w))
  /\ w = "swipe" => row[s] \notin swipes
  /\ w = "chat" => KeyOf(s, w) \cap chats = {} /\ Flip(row[s]) \in swipes
  /\ w = "close" => KeyOf(s, w) \cap (chats \ closed) # {}

\* Different couples share no row.
LEMMA CouplesApart ==
  ASSUME NEW p \in Pairs, NEW q \in Pairs, p \notin SamePair(q)
  PROVE  SamePair(p) \cap SamePair(q) = {}
<1> PICK a \in Registered, b \in Users : p = <<a, b>>
  BY DEF Pairs
<1> PICK c \in Registered, d \in Users : q = <<c, d>>
  BY DEF Pairs
<1> QED
  BY DEF SamePair, Flip

\* A step of session s leaves the sessions of the others alone.
LEMMA OthersWait ==
  ASSUME Inv, NEW s \in Sessions, Serve(s) \/ Abort(s) \/ Receive(s),
         NEW t \in Sessions \ {s}
  PROVE  UNCHANGED <<pc[t], row[t], dirty[t]>>
BY DEF Serve, Like, Block, Abort, Receive, EnsureActiveProfile, EnsureNotExcluded,
   InsertSwipe, CheckMutual, InsertChat, LookupChat, CommitLike, EnsureUserExists,
   UpsertBan, DeactivateChat, CommitBlock, EnsureTargetExists, UpsertDislike, DeleteBan,
   Publish, Finish, Goto, Write, Inv, TypeOK

\* A commit adds to the tables what its session had pending.
LEMMA CommitsOwnWrites ==
  ASSUME Inv, NEW s \in Sessions, Serve(s) \/ Abort(s) \/ Receive(s)
  PROVE  /\ swipes \subseteq swipes' /\ chats \subseteq chats' /\ closed \subseteq closed'
         /\ swipes' \ swipes \subseteq Written(s, "swipe")
         /\ chats' \ chats \subseteq Written(s, "chat")
         /\ closed' # closed => "close" \in dirty[s]
         /\ closed' \ closed \subseteq SamePair(row[s])
<1>1. CASE CommitLike(s)
  BY <1>1 DEF CommitLike
<1>2. CASE CommitBlock(s)
  BY <1>2 DEF ActiveChats, CommitBlock
<1>3. CASE UNCHANGED <<swipes, chats, closed>>
  BY <1>3
<1> QED
  BY <1>1, <1>2, <1>3
     DEF Serve, Like, Block, Abort, Receive, EnsureActiveProfile, EnsureNotExcluded,
     InsertSwipe, CheckMutual, InsertChat, LookupChat, EnsureUserExists, UpsertBan,
     DeactivateChat, EnsureTargetExists, UpsertDislike, DeleteBan, Publish, tables

\* A session takes a write only when nobody holds its key and the row is there
\* to be written, and what it has pending after a step commits nothing.
LEMMA Acquired ==
  ASSUME Inv, NEW s \in Sessions, Serve(s) \/ Abort(s) \/ Receive(s), NEW w \in dirty'[s]
  PROVE  /\ row'[s] = row[s] /\ row[s] \in Pairs
         /\ UNCHANGED <<swipes, chats, closed>>
         /\ w \notin dirty[s] =>
              /\ ~ Locked(s, w, KeyOf(s, w))
              /\ w = "swipe" => row[s] \notin swipes
              /\ w = "close" => KeyOf(s, w) \cap (chats \ closed) # {}
<1> USE DEF Inv, TypeOK
<1>1. CASE InsertSwipe(s)
  BY <1>1 DEF InsertSwipe, Write, tables, KeyOf
<1>2. CASE InsertChat(s)
  BY <1>2 DEF InsertChat, Write, tables, KeyOf, SamePair
<1>3. CASE UpsertBan(s)
  BY <1>3 DEF UpsertBan, Write, tables, KeyOf
<1>4. CASE DeactivateChat(s)
  BY <1>4 DEF DeactivateChat, ActiveChats, Write, tables, KeyOf, SamePair
<1>5. ~ (CommitLike(s) \/ CommitBlock(s) \/ Finish(s) \/ Receive(s))
  BY DEF CommitLike, CommitBlock, Finish, Receive
<1>6. CASE ~ (InsertSwipe(s) \/ InsertChat(s) \/ UpsertBan(s) \/ DeactivateChat(s))
  <2>1. pc[s] # "idle" /\ UNCHANGED <<row, dirty, swipes, chats, closed>>
    BY <1>5, <1>6
       DEF Serve, Like, Block, Abort, EnsureActiveProfile, EnsureNotExcluded, CheckMutual,
       LookupChat, EnsureUserExists, EnsureTargetExists, UpsertDislike, DeleteBan, Publish, tables
  <2> QED
    BY <2>1
<1> QED
  BY <1>1, <1>2, <1>3, <1>4, <1>6

\* Two sessions want the same key whichever of them is asked.
LEMMA KeysSymmetric ==
  ASSUME NEW s \in Sessions, NEW r \in Sessions, row[s] \in Pairs, row[r] \in Pairs, NEW w
  PROVE  row[r] \in KeyOf(s, w) <=> row[s] \in KeyOf(r, w)
<1>1. row[r] \in SamePair(row[s]) <=> row[s] \in SamePair(row[r])
  BY SamePairSymmetric
<1> QED
  BY <1>1 DEF KeyOf, SamePair

\* The stepping session's pending writes are exclusive.
LEMMA OwnExclusive ==
  ASSUME Inv, Inv', PendingWritesAreExclusive,
         NEW s \in Sessions, Serve(s) \/ Abort(s) \/ Receive(s), NEW w \in dirty'[s]
  PROVE  Exclusive(s, w)'
<1>1. /\ row'[s] = row[s] /\ UNCHANGED <<swipes, chats, closed>>
      /\ ~ Locked(s, w, KeyOf(s, w))
      /\ w = "swipe" => row[s] \notin swipes
      /\ w = "close" => KeyOf(s, w) \cap (chats \ closed) # {}
  BY Acquired DEF PendingWritesAreExclusive
<1>2. KeyOf(s, w)' = KeyOf(s, w)
  BY <1>1 DEF KeyOf, Flip
<1>3. ~ Locked(s, w, KeyOf(s, w))'
  BY <1>1, <1>2, OthersWait DEF Locked
<1>4. w = "chat" => (KeyOf(s, w) \cap chats = {} /\ Flip(row[s]) \in swipes)'
  BY DEF Inv, Established, MatchHolds, KeyOf, SamePair
<1> QED
  BY <1>1, <1>2, <1>3, <1>4 DEF Exclusive

\* The pending writes of the other sessions stay exclusive.
LEMMA OthersExclusive ==
  ASSUME Inv, Inv', PendingWritesAreExclusive,
         NEW s \in Sessions, Serve(s) \/ Abort(s) \/ Receive(s),
         NEW t \in Sessions \ {s}, NEW w \in dirty'[t]
  PROVE  Exclusive(t, w)'
<1>1. row'[t] = row[t] /\ w \in dirty[t] /\ row[t] \in Pairs
  BY OthersWait DEF Inv, TypeOK
<1>2. /\ ~ Locked(t, w, KeyOf(t, w))
      /\ w = "swipe" => row[t] \notin swipes
      /\ w = "close" => KeyOf(t, w) \cap (chats \ closed) # {}
  BY <1>1 DEF PendingWritesAreExclusive
<1>3. w \in dirty[s] => row[s] \in Pairs /\ row[s] \notin KeyOf(t, w)
  BY <1>2 DEF Locked, Inv, TypeOK
<1>4. KeyOf(t, w)' = KeyOf(t, w)
  BY <1>1 DEF KeyOf, Flip
<1>5. ~ Locked(t, w, KeyOf(t, w))'
  <2>1. ASSUME w \in dirty'[s], row'[s] \in KeyOf(t, w) PROVE FALSE
    <3>1. row'[s] = row[s] /\ row[s] \in Pairs /\ ~ Locked(s, w, KeyOf(s, w))
      BY <1>3, <2>1, Acquired
    <3>2. row[t] \in KeyOf(s, w)
      BY <1>1, <2>1, <3>1, KeysSymmetric
    <3> QED
      BY <1>1, <3>1, <3>2 DEF Locked
  <2>2. ASSUME NEW r \in Sessions \ {s, t} PROVE row'[r] = row[r] /\ dirty'[r] = dirty[r]
    BY OthersWait
  <2> QED
    BY <1>2, <1>4, <2>1, <2>2 DEF Locked
<1>6. w = "swipe" => row[t] \notin swipes'
  BY <1>2, <1>3, CommitsOwnWrites DEF Written, KeyOf
<1>7. w = "close" => KeyOf(t, w) \cap (chats' \ closed') # {}
  <2> SUFFICES ASSUME w = "close" PROVE KeyOf(t, w) \cap (chats' \ closed') # {}
    OBVIOUS
  <2>1. KeyOf(t, w) = SamePair(row[t])
    BY DEF KeyOf, SamePair
  <2>2. closed' # closed => SamePair(row[s]) \cap SamePair(row[t]) = {}
    BY <1>1, <1>3, <2>1, CommitsOwnWrites, CouplesApart
  <2> QED
    BY <1>2, <2>1, <2>2, CommitsOwnWrites
<1>8. w = "chat" => (KeyOf(t, w) \cap chats = {} /\ Flip(row[t]) \in swipes)'
  BY DEF Inv, Established, MatchHolds, KeyOf, SamePair
<1> QED
  BY <1>1, <1>4, <1>5, <1>6, <1>7, <1>8 DEF Exclusive

\* Every step keeps the pending writes exclusive.
LEMMA ExclusiveStep ==
  Inv /\ Inv' /\ PendingWritesAreExclusive /\ [Next]_vars => PendingWritesAreExclusive'
<1> SUFFICES ASSUME Inv, Inv', PendingWritesAreExclusive, [Next]_vars,
                    NEW t \in Sessions, NEW w \in dirty'[t]
             PROVE  Exclusive(t, w)'
  BY DEF PendingWritesAreExclusive, Exclusive
<1>1. ASSUME UNCHANGED <<swipes, chats, closed, row, dirty>> PROVE Exclusive(t, w)'
  BY <1>1 DEF PendingWritesAreExclusive, Exclusive, KeyOf, Locked, Flip
<1>2. ASSUME NEW s \in Sessions, Serve(s) \/ Abort(s) \/ Receive(s) PROVE Exclusive(t, w)'
  BY <1>2, OwnExclusive, OthersExclusive
<1> QED
  BY <1>1, <1>2 DEF Next, vars, SaveProfile, DeactivateProfile, session

\* A transaction checks more than it locks; still, whatever it has written and
\* not committed belongs to it alone, under any interleaving.
THEOREM PendingWritesStayExclusive == Spec => []PendingWritesAreExclusive
<1>1. Init => PendingWritesAreExclusive
  BY DEF Init, PendingWritesAreExclusive
<1> QED
  BY <1>1, InvAlways, ExclusiveStep, PTL DEF Spec

-----------------------------------------------------------------------------
(* What a transaction that nobody has overtaken knows.                     *)

\* While a like is fresh its target is shown and no exclusion separates the
\* couple, and at its commit the couple has a chat, committed or its own, if
\* the other like is in.
LikeFresh(s) ==
  /\ pc[s] \in TargetChecked => row[s][2] \in active
  /\ pc[s] \in ExclusionsChecked => SamePair(row[s]) \cap exclusions = {}
  /\ pc[s] \in {"like.lookup", "like.commit"} /\ Flip(row[s]) \in swipes =>
       "chat" \in dirty[s] \/ SamePair(row[s]) \cap chats # {}

\* A fresh block leaves no active chat when it commits.
BlockFresh(s) ==
  pc[s] = "block.commit" => "close" \in dirty[s] \/ SamePair(row[s]) \cap chats \subseteq closed

\* A block commits with its exclusion.  A stale block has found no chat.
BlockHolds(s) ==
  /\ pc[s] \in {"block.chat", "block.commit"} => "ban" \in dirty[s]
  /\ s \in stale => /\ pc[s] \in TargetChecked \cup {"block.commit"}
                    /\ pc[s] = "block.commit" => "close" \notin dirty[s]

Fresh(s) == BlockHolds(s) /\ (s \notin stale => LikeFresh(s) /\ BlockFresh(s))

\* The invariant of the history, on top of that of Ribbon.
RaceInv ==
  /\ stale \subseteq Sessions
  /\ \A s \in Sessions : Fresh(s)
  /\ MissingChatsWereRaced
  /\ ChatsAcrossBlocksWereRaced

\* Tables only grow, except for exclusions and the profiles shown.
Growing == swipes \subseteq swipes' /\ chats \subseteq chats' /\ closed \subseteq closed'

\* A transaction whose chat is locked meets no new chat of its couple.
LEMMA LockedChatStays ==
  ASSUME Inv, Inv', PendingWritesAreExclusive, NEW t \in Sessions, "close" \in dirty[t], Growing
  PROVE  SamePair(row[t]) \cap (chats' \ chats) = {}
<1>1. row[t] \in Pairs
  BY DEF Inv, TypeOK
<1>2. PICK c \in SamePair(row[t]) : c \in chats
  BY DEF PendingWritesAreExclusive, KeyOf, SamePair
<1>3. SUFFICES ASSUME NEW d \in SamePair(row[t]), d \in chats', d \notin chats PROVE FALSE
  OBVIOUS
<1>4. d = Flip(c) /\ c \in chats'
  BY <1>1, <1>2, <1>3 DEF SamePair, Flip, Pairs, Growing
<1> QED
  BY <1>3, <1>4 DEF Inv, OneChatPerPair

\* A session that waits while another one steps is overtaken, or still knows
\* what it knew.
LEMMA WaitingFresh ==
  ASSUME Inv, Inv', PendingWritesAreExclusive, RaceInv, Track, Growing,
         NEW t \in Sessions, UNCHANGED <<pc[t], row[t], dirty[t]>>
  PROVE  Fresh(t)'
<1>1. /\ SamePair(row[t])' = SamePair(row[t]) /\ Flip(row[t])' = Flip(row[t])
  BY DEF SamePair, Flip
<1>2. BlockHolds(t)'
  <2>1. ASSUME Overtaken(t), pc[t] = "block.commit" PROVE "close" \notin dirty[t]
    BY <2>1, LockedChatStays DEF Overtaken, TargetChecked, ExclusionsChecked, LikeSteps
  <2> QED
    BY <2>1 DEF RaceInv, Fresh, BlockHolds, Track
<1>3. ASSUME t \notin stale', pc[t] \in TargetChecked \cup {"block.commit"}
      PROVE  t \notin stale /\ ~ Overtaken(t)
  BY <1>3 DEF Track
<1>4. ASSUME t \notin stale' PROVE LikeFresh(t)'
  <2>1. CASE pc[t] \notin TargetChecked
    BY <2>1 DEF LikeFresh, TargetChecked, ExclusionsChecked, LikeSteps
  <2>2. CASE pc[t] \in TargetChecked
    <3>1. LikeFresh(t) /\ ~ Overtaken(t)
      BY <1>3, <1>4, <2>2 DEF RaceInv, Fresh
    <3>2. row[t][2] \in active'
      BY <2>2, <3>1 DEF LikeFresh, Overtaken
    <3>3. pc[t] \in ExclusionsChecked => SamePair(row[t]) \cap exclusions' = {}
      BY <3>1 DEF LikeFresh, Overtaken
    <3>4. pc[t] \in {"like.lookup", "like.commit"} /\ Flip(row[t]) \in swipes' => Flip(row[t]) \in swipes
      BY <3>1 DEF Overtaken, Inv, Established, MatchHolds
    <3> QED
      BY <1>1, <3>1, <3>2, <3>3, <3>4 DEF LikeFresh, Growing
  <2> QED
    BY <2>1, <2>2
<1>5. ASSUME t \notin stale' PROVE BlockFresh(t)'
  <2>1. CASE pc[t] # "block.commit"
    BY <2>1 DEF BlockFresh
  <2>2. CASE pc[t] = "block.commit"
    <3>1. BlockFresh(t) /\ SamePair(row[t]) \cap (chats' \ chats) = {}
      BY <1>3, <1>5, <2>2 DEF RaceInv, Fresh, Overtaken
    <3> QED
      BY <1>1, <3>1 DEF BlockFresh, Growing
  <2> QED
    BY <2>1, <2>2
<1> QED
  BY <1>2, <1>4, <1>5 DEF Fresh

-----------------------------------------------------------------------------
(* The stepping session itself.                                            *)

\* When a request ends or begins, nothing is known yet.
LEMMA RestFresh ==
  ASSUME Track, NEW s \in Sessions, pc'[s] \in EntrySteps \cup
           {"idle", "like.publish", "block.exclude", "block.publish",
            "dislike.exclude", "dislike.publish"}
  PROVE  Fresh(s)'
BY DEF Fresh, BlockHolds, LikeFresh, BlockFresh, EntrySteps, TargetChecked, ExclusionsChecked,
   LikeSteps, Track

\* A step of a like keeps what the like knows, unless the like is stale.
LEMMA LikeStepFresh ==
  ASSUME Inv, RaceInv, Track, NEW s \in Sessions, Like(s)
  PROVE  Fresh(s)'
<1> USE DEF Goto, Finish, Inv, TypeOK
<1>1. CASE pc'[s] \notin TargetChecked
  BY <1>1, RestFresh
     DEF Like, EnsureActiveProfile, EnsureNotExcluded, InsertSwipe, CheckMutual, InsertChat,
     LookupChat, CommitLike, TargetChecked, LikeSteps
<1>2. CASE pc'[s] \in TargetChecked
  <2>1. BlockHolds(s)'
    BY <1>2 DEF BlockHolds, TargetChecked, LikeSteps
  <2>2. BlockFresh(s)'
    BY <1>2 DEF BlockFresh, TargetChecked, LikeSteps
  <2>3. s \notin stale' => s \notin stale /\ LikeFresh(s)
    BY <1>2 DEF Track, RaceInv, Fresh
  <2> USE <2>3 DEF LikeFresh, TargetChecked, ExclusionsChecked, LikeSteps
  <2>4. CASE EnsureActiveProfile(s)
    BY <1>2, <2>1, <2>2, <2>4 DEF EnsureActiveProfile, TargetShown, tables, Fresh
  <2>5. CASE EnsureNotExcluded(s)
    BY <1>2, <2>1, <2>2, <2>5 DEF EnsureNotExcluded, Excluding, tables, Fresh, SamePair, Flip
  <2>6. CASE InsertSwipe(s) \/ CheckMutual(s)
    BY <2>1, <2>2, <2>6
       DEF InsertSwipe, CheckMutual, Reciprocated, Write, tables, Fresh, SamePair, Flip
  <2>7. CASE InsertChat(s)
    BY <2>1, <2>2, <2>7 DEF InsertChat, Write, tables, Fresh, SamePair, Flip
  <2>8. CASE LookupChat(s)
    BY <2>1, <2>2, <2>8 DEF LookupChat, tables, Fresh, SamePair, Flip
  <2>9. CASE CommitLike(s)
    BY <1>2, <2>9 DEF CommitLike
  <2> QED
    BY <2>4, <2>5, <2>6, <2>7, <2>8, <2>9 DEF Like
<1> QED
  BY <1>1, <1>2

\* A step of a block keeps what the block knows.
LEMMA BlockStepFresh ==
  ASSUME Inv, RaceInv, Track, NEW s \in Sessions, Block(s)
  PROVE  Fresh(s)'
<1> USE DEF Goto, Finish, Inv, TypeOK
<1>1. CASE EnsureUserExists(s) \/ CommitBlock(s)
  BY <1>1, RestFresh DEF EnsureUserExists, CommitBlock
<1>2. CASE UpsertBan(s)
  BY <1>2 DEF UpsertBan, Write, tables, Fresh, BlockHolds, LikeFresh, BlockFresh, Track,
     TargetChecked, ExclusionsChecked, LikeSteps
<1>3. CASE DeactivateChat(s)
  <2>1. "ban" \in dirty'[s] /\ pc'[s] = "block.commit"
    BY <1>3 DEF DeactivateChat, Write, RaceInv, Fresh, BlockHolds
  <2>2. "close" \in dirty'[s] \/ SamePair(row[s]) \cap chats \subseteq closed
    BY <1>3 DEF ActiveChats, DeactivateChat, Write
  <2>3. SamePair(row[s])' = SamePair(row[s])
    BY <1>3 DEF DeactivateChat, SamePair, Flip
  <2>4. s \notin stale'
    BY <1>3 DEF DeactivateChat, RaceInv, Fresh, BlockHolds, Track, Overtaken,
       TargetChecked, ExclusionsChecked, LikeSteps
  <2>5. LikeFresh(s)'
    BY <2>1 DEF LikeFresh, TargetChecked, ExclusionsChecked, LikeSteps
  <2>6. BlockFresh(s)'
    BY <1>3, <2>1, <2>2, <2>3 DEF DeactivateChat, tables, BlockFresh
  <2> QED
    BY <2>1, <2>4, <2>5, <2>6 DEF Fresh, BlockHolds
<1> QED
  BY <1>1, <1>2, <1>3 DEF Block

\* A step of one session leaves each session overtaken or knowing what it has
\* to know.
LEMMA SessionFresh ==
  ASSUME Inv, Inv', PendingWritesAreExclusive, RaceInv, Track,
         NEW s \in Sessions, Serve(s) \/ Abort(s) \/ Receive(s), NEW t \in Sessions
  PROVE  Fresh(t)'
<1>1. CASE t # s
  BY <1>1, OthersWait, CommitsOwnWrites, WaitingFresh DEF Growing
<1>2. CASE t = s /\ (Like(s) \/ Block(s))
  BY <1>2, LikeStepFresh, BlockStepFresh
<1>3. CASE t = s /\ ~ (Like(s) \/ Block(s))
  BY <1>3, RestFresh
     DEF Serve, Abort, Receive, EnsureTargetExists, UpsertDislike, DeleteBan, Publish, Finish,
     Goto, Inv, TypeOK
<1> QED
  BY <1>1, <1>2, <1>3

-----------------------------------------------------------------------------
(* The promises.                                                           *)

\* Both orders of a pair are one couple, and only they.
LEMMA CouplesOfPairs ==
  ASSUME NEW p \in Pairs, NEW q \in Pairs
  PROVE  Couple(p) = Couple(q) <=> p \in SamePair(q)
<1> PICK a \in Registered, b \in Users : p = <<a, b>> /\ a # b
  BY DEF Pairs
<1> PICK c \in Registered, d \in Users : q = <<c, d>> /\ c # d
  BY DEF Pairs
<1> QED
  BY DEF SamePair, Flip, Couple

\* Only the commit of a stale transaction makes its couple a raced one.
LEMMA RacedByCommit ==
  ASSUME RaceInv, Track, NEW s \in Sessions, CommitLike(s) \/ CommitBlock(s), Inv
  PROVE  raced' = raced \cup (IF s \in stale THEN {Couple(row[s])} ELSE {})
<1> DEFINE ended == {t \in stale : pc'[t] \in {"like.publish", "block.publish"}}
<1>1. pc'[s] \in {"like.publish", "block.publish"}
  BY DEF CommitLike, CommitBlock, Goto, Inv, TypeOK
<1>2. ASSUME NEW t \in stale \ {s} PROVE t \notin ended
  BY DEF CommitLike, CommitBlock, Goto, Inv, TypeOK, RaceInv, Fresh, BlockHolds,
     TargetChecked, LikeSteps
<1>3. ended = IF s \in stale THEN {s} ELSE {}
  BY <1>1, <1>2
<1> QED
  BY <1>3 DEF Track

\* No other step does.
LEMMA RacedKept ==
  ASSUME RaceInv, Track, Inv,
         \A s \in Sessions : pc'[s] \in {"like.publish", "block.publish"} => pc'[s] = pc[s]
  PROVE  raced' = raced
BY DEF Track, RaceInv, Fresh, BlockHolds, TargetChecked, LikeSteps

\* A commit that completes a mutual like brings the chat with it, or is stale.
LEMMA MutualStep ==
  ASSUME Inv, RaceInv, Track, NEW s \in Sessions, Serve(s) \/ Abort(s) \/ Receive(s)
  PROVE  MissingChatsWereRaced'
<1>1. CASE UNCHANGED <<swipes, chats>>
  BY <1>1 DEF RaceInv, MissingChatsWereRaced, Track, SamePair, Flip, Couple
<1>2. CASE CommitLike(s)
  <2>1. row[s] \in Pairs
    BY <1>2 DEF CommitLike, Inv, TypeOK
  <2>2. SUFFICES ASSUME NEW p \in swipes', Flip(p) \in swipes', Couple(p) \notin raced',
                        ~ (p \in swipes /\ Flip(p) \in swipes)
                 PROVE  SamePair(p) \cap chats' # {}
    BY <1>2 DEF MissingChatsWereRaced, RaceInv, Track, CommitLike, SamePair, Flip, Couple
  <2>3. swipes' \subseteq Pairs /\ (\A q \in Pairs : Flip(Flip(q)) = q /\ Flip(q) # q)
    BY <1>2 DEF CommitLike, Written, Inv, TypeOK, Pairs, Flip
  <2>4. (p = row[s] \/ Flip(p) = row[s]) /\ Flip(row[s]) \in swipes
    BY <1>2, <2>1, <2>2, <2>3 DEF CommitLike, Written
  <2>5. SamePair(p) = SamePair(row[s]) /\ Couple(p) = Couple(row[s])
    BY <2>2, <2>3, <2>4 DEF SamePair, Couple, Flip
  <2>6. s \notin stale
    BY <1>2, <2>2, <2>5, RacedByCommit
  <2>7. SamePair(row[s]) \cap chats' # {}
    BY <1>2, <2>4, <2>6 DEF CommitLike, Written, RaceInv, Fresh, LikeFresh, SamePair
  <2> QED
    BY <2>5, <2>7
<1> QED
  BY <1>1, <1>2
     DEF Serve, Like, Block, Abort, Receive, EnsureActiveProfile, EnsureNotExcluded,
     InsertSwipe, CheckMutual, InsertChat, LookupChat, EnsureUserExists, UpsertBan,
     DeactivateChat, CommitBlock, EnsureTargetExists, UpsertDislike, DeleteBan, Publish, tables

\* A block closes the chat of its pair, and no like opens one across a block,
\* unless the one or the other is stale.
LEMMA BannedStep ==
  ASSUME Inv, RaceInv, Track, NEW s \in Sessions, Serve(s) \/ Abort(s) \/ Receive(s)
  PROVE  ChatsAcrossBlocksWereRaced'
<1>1. CASE bans' \subseteq bans /\ UNCHANGED <<chats, closed>>
  BY <1>1 DEF RaceInv, ChatsAcrossBlocksWereRaced, Track, SamePair, Flip, Couple
<1>2. CASE CommitLike(s)
  <2>1. row[s] \in Pairs /\ bans \subseteq Pairs /\ bans \subseteq exclusions
    BY <1>2 DEF CommitLike, Inv, TypeOK
  <2>2. SUFFICES ASSUME NEW b \in bans, Couple(b) \notin raced', NEW c \in SamePair(b),
                        c \in chats', c \notin closed'
                 PROVE  FALSE
    BY <1>2 DEF CommitLike, ChatsAcrossBlocksWereRaced
  <2>3. Couple(b) \notin raced
    BY <2>2 DEF Track
  <2>4. c = row[s]
    BY <1>2, <2>2, <2>3 DEF CommitLike, Written, RaceInv, ChatsAcrossBlocksWereRaced
  <2>5. Couple(b) = Couple(row[s]) /\ b \in SamePair(row[s])
    BY <2>1, <2>2, <2>4, CouplesOfPairs, SamePairSymmetric
  <2>6. s \notin stale
    BY <1>2, <2>2, <2>5, RacedByCommit
  <2>7. SamePair(row[s]) \cap exclusions = {}
    BY <1>2, <2>6 DEF CommitLike, RaceInv, Fresh, LikeFresh, TargetChecked, ExclusionsChecked,
       LikeSteps
  <2> QED
    BY <2>1, <2>2, <2>5, <2>7
<1>3. CASE CommitBlock(s)
  <2>1. SUFFICES ASSUME NEW b \in bans', Couple(b) \notin raced'
                 PROVE  SamePair(b) \cap chats' \subseteq closed'
    BY DEF ChatsAcrossBlocksWereRaced, SamePair, Flip
  <2>2. closed \subseteq closed' /\ bans' \subseteq bans \cup {row[s]} /\ chats' = chats
    BY <1>3 DEF CommitBlock, Written
  <2>3. CASE b = row[s]
    <3>1. s \notin stale
      BY <1>3, <2>1, <2>3, RacedByCommit
    <3>2. "close" \in dirty[s] \/ SamePair(row[s]) \cap chats \subseteq closed
      BY <1>3, <3>1 DEF CommitBlock, RaceInv, Fresh, BlockFresh
    <3> QED
      BY <1>3, <2>2, <2>3, <3>2 DEF CommitBlock, ActiveChats
  <2>4. CASE b \in bans
    BY <2>1, <2>2, <2>4 DEF RaceInv, ChatsAcrossBlocksWereRaced, Track
  <2> QED
    BY <2>1, <2>2, <2>3, <2>4
<1> QED
  BY <1>1, <1>2, <1>3
     DEF Serve, Like, Block, Abort, Receive, EnsureActiveProfile, EnsureNotExcluded,
     InsertSwipe, CheckMutual, InsertChat, LookupChat, EnsureUserExists, UpsertBan,
     DeactivateChat, EnsureTargetExists, UpsertDislike, DeleteBan, Publish, tables

\* Each step keeps the invariant of the history.
LEMMA RaceStep ==
  Inv /\ Inv' /\ PendingWritesAreExclusive /\ RaceInv /\ [HNext]_hvars => RaceInv'
<1> SUFFICES ASSUME Inv, Inv', PendingWritesAreExclusive, RaceInv, [HNext]_hvars PROVE RaceInv'
  OBVIOUS
<1>1. CASE UNCHANGED hvars
  BY <1>1
     DEF hvars, vars, RaceInv, Fresh, LikeFresh, BlockFresh, BlockHolds, SamePair, Flip,
     MissingChatsWereRaced, ChatsAcrossBlocksWereRaced
<1>2. ASSUME NEW u \in Registered, SaveProfile(u) \/ DeactivateProfile(u), Track
      PROVE  RaceInv'
  <2>1. UNCHANGED <<swipes, bans, chats, closed, pc, row, dirty>>
    BY <1>2 DEF SaveProfile, DeactivateProfile, session
  <2>2. \A t \in Sessions : Fresh(t)'
    BY <1>2, <2>1, WaitingFresh DEF Growing
  <2>3. MissingChatsWereRaced' /\ ChatsAcrossBlocksWereRaced'
    BY <1>2, <2>1
       DEF RaceInv, MissingChatsWereRaced, ChatsAcrossBlocksWereRaced, Track, SamePair, Flip
  <2> QED
    BY <1>2, <2>2, <2>3 DEF RaceInv, Track
<1>3. ASSUME NEW s \in Sessions, Receive(s) \/ Serve(s) \/ Abort(s), Track PROVE RaceInv'
  BY <1>3, SessionFresh, MutualStep, BannedStep DEF RaceInv, Track
<1> QED
  BY <1>1, <1>2, <1>3 DEF HNext, Next

\* The history restricts nothing: its behaviours are those of Ribbon.
LEMMA HistoryIsRibbon == HSpec => Spec
<1>1. HInit => Init
  BY DEF HInit
<1>2. [HNext]_hvars => [Next]_vars
  BY DEF HNext, hvars
<1> QED
  BY <1>1, <1>2, PTL DEF HSpec, Spec

\* The invariants hold in every behaviour with its history.
LEMMA RaceAlways == HSpec => [](Inv /\ PendingWritesAreExclusive /\ RaceInv)
<1>1. HInit => RaceInv
  BY DEF HInit, Init, RaceInv, Fresh, BlockHolds, LikeFresh, BlockFresh, TargetChecked,
     ExclusionsChecked, LikeSteps, MissingChatsWereRaced, ChatsAcrossBlocksWereRaced
<1> QED
  BY <1>1, HistoryIsRibbon, InvAlways, PendingWritesStayExclusive, RaceStep, PTL DEF HSpec

\* Two users who like each other have a chat, unless a like of theirs was
\* committed after it had been overtaken: no other interleaving or failure
\* loses a match.
THEOREM OnlyRacesLoseChats == HSpec => []MissingChatsWereRaced
BY RaceAlways, PTL DEF RaceInv

\* No chat is active across a block, unless a like or a block of the couple was
\* committed after it had been overtaken.
THEOREM OnlyRacesOpenChatsAcrossBlocks == HSpec => []ChatsAcrossBlocksWereRaced
BY RaceAlways, PTL DEF RaceInv

-----------------------------------------------------------------------------
(* Refinement.                                                             *)

\* A couple has a row among some rows iff one of its two orders is there.
LEMMA CouplesOfRows ==
  ASSUME NEW rows \in SUBSET Pairs, NEW p \in Pairs
  PROVE  Couple(p) \in Couples(rows) <=> SamePair(p) \cap rows # {}
<1>1. \A c \in rows : Couple(p) = Couple(c) <=> c \in SamePair(p)
  BY CouplesOfPairs
<1> QED
  BY <1>1 DEF Couples

\* The couples that the commit of a like may match.
LEMMA FreshChatIsNewMatch ==
  ASSUME Inv, NEW s \in Sessions, row[s] \in Pairs
  PROVE  Couples(Written(s, "chat")) \subseteq Promise!NewMatch(row[s])
<1> SUFFICES ASSUME "chat" \in dirty[s] PROVE Couple(row[s]) \in Promise!NewMatch(row[s])
  BY DEF Couples, Written
<1>1. Flip(row[s]) \in swipes /\ SamePair(row[s]) \cap chats = {} /\ chats \subseteq Pairs
  BY DEF Inv, TypeOK, Established, MatchHolds
<1>2. Couple(row[s]) \notin Couples(chats)
  BY <1>1, CouplesOfRows
<1> QED
  BY <1>1, <1>2 DEF Promise!NewMatch, Promise!Back, Promise!Couple, Couple, Flip

\* The commit of a like adds its row, and its couple's match if it has one.
LEMMA CommitLikeAdds ==
  ASSUME Inv, NEW s \in Sessions, CommitLike(s)
  PROVE  /\ row[s] \in Pairs
         /\ Promise!AddLike(row[s], Couples(Written(s, "chat")))
<1> DEFINE fresh == Written(s, "chat")
<1>1. row[s] \in Pairs /\ closed \subseteq chats
  BY DEF CommitLike, Inv, TypeOK
<1>2. swipes' = swipes \cup {row[s]}
  BY DEF CommitLike, Inv, Established, LikeHolds, LikedSteps, Written
<1>3. chats' = chats \cup fresh /\ closed' = closed /\ fresh \cap closed = {}
  BY <1>1 DEF CommitLike, Written, Inv, Established, MatchHolds, SamePair
<1>4. /\ Couples(chats)' = Couples(chats) \cup Couples(fresh)
      /\ Couples(chats \ closed)' = Couples(chats \ closed) \cup Couples(fresh)
  BY <1>3 DEF Couples
<1> QED
  BY <1>1, <1>2, <1>4 DEF CommitLike, Promise!AddLike

\* The commit of a like is the Like of Matching, or its StaleLike.
LEMMA CommitLikeIsLike ==
  ASSUME Inv, RaceInv, Track, NEW s \in Sessions, CommitLike(s)
  PROVE  row[s] \in Pairs /\ (Promise!Like(row[s]) \/ Promise!StaleLike(row[s]))
<1> DEFINE p == row[s]
           new == Couples(Written(s, "chat"))
<1>1. p \in Pairs /\ Promise!AddLike(p, new) /\ new \subseteq Promise!NewMatch(p)
  BY CommitLikeAdds, FreshChatIsNewMatch
<1>2. CASE s \in stale
  <2>1. raced' = raced \cup {Promise!Couple(p)}
    BY <1>2, RacedByCommit DEF Promise!Couple, Couple
  <2> QED
    BY <1>1, <2>1 DEF Promise!StaleLike
<1>3. CASE s \notin stale
  <2>1. LikeFresh(s) /\ pc[s] = "like.commit"
    BY <1>3 DEF CommitLike, RaceInv, Fresh
  <2>2. p[2] \in active /\ {p, Promise!Back(p)} \cap exclusions = {}
    BY <2>1 DEF LikeFresh, TargetChecked, ExclusionsChecked, LikeSteps, SamePair, Flip, Promise!Back
  <2>3. Promise!NewMatch(p) \subseteq new
    <3> SUFFICES ASSUME Flip(p) \in swipes, Couple(p) \notin Couples(chats)
                 PROVE  Couple(p) \in new
      BY DEF Promise!NewMatch, Promise!Back, Promise!Couple, Couple, Flip
    <3>1. SamePair(p) \cap chats = {}
      BY <1>1, CouplesOfRows DEF Inv, TypeOK
    <3>2. "chat" \in dirty[s]
      BY <2>1, <3>1 DEF LikeFresh
    <3> QED
      BY <3>2 DEF Written, Couples
  <2>4. raced' = raced
    BY <1>3, RacedByCommit
  <2>5. Promise!AddLike(p, Promise!NewMatch(p))
    <3>1. new = Promise!NewMatch(p)
      BY <1>1, <2>3
    <3> QED
      BY <1>1, <3>1
  <2> QED
    BY <1>1, <2>2, <2>4, <2>5 DEF Promise!Like
<1> QED
  BY <1>1, <1>2, <1>3

\* The commit of a block is the Ban of Matching, or its StaleBan.
LEMMA CommitBlockIsBan ==
  ASSUME Inv, RaceInv, Track, NEW s \in Sessions, CommitBlock(s)
  PROVE  row[s] \in Pairs /\ (Promise!Ban(row[s]) \/ Promise!StaleBan(row[s]))
<1> DEFINE p == row[s]
<1>1. p \in Pairs /\ chats \subseteq Pairs /\ closed \subseteq chats
  BY DEF CommitBlock, Inv, TypeOK
<1>2. Promise!AddBan(p)
  BY DEF CommitBlock, Written, RaceInv, Fresh, BlockHolds, Promise!AddBan
<1>3. CASE s \in stale
  <2>1. closed' = closed /\ chats' = chats
    BY <1>3 DEF CommitBlock, RaceInv, Fresh, BlockHolds
  <2>2. raced' = raced \cup {Promise!Couple(p)}
    BY <1>3, RacedByCommit DEF Promise!Couple, Couple
  <2> QED
    BY <1>1, <1>2, <2>1, <2>2 DEF Promise!StaleBan
<1>4. CASE s \notin stale
  <2>1. (chats \ closed)' = (chats \ closed) \ SamePair(p)
    BY <1>4 DEF ActiveChats, CommitBlock, RaceInv, Fresh, BlockFresh
  <2>2. \A c \in chats : Couple(c) = Couple(p) <=> c \in SamePair(p)
    BY <1>1, CouplesOfPairs
  <2>3. Couples((chats \ closed) \ SamePair(p)) = Couples(chats \ closed) \ {Couple(p)}
    BY <2>2 DEF Couples
  <2>4. Couples(chats \ closed)' = Couples(chats \ closed) \ {Promise!Couple(p)}
    BY <2>1, <2>3 DEF Couples, Promise!Couple, Couple
  <2>5. raced' = raced
    BY <1>4, RacedByCommit
  <2> QED
    BY <1>1, <1>2, <2>4, <2>5 DEF Promise!Ban
<1> QED
  BY <1>1, <1>3, <1>4

\* Every step is a step of Matching or leaves its variables alone.
LEMMA StepSimulation ==
  Inv /\ RaceInv /\ [HNext]_hvars => [Promise!MNext]_(Promise!mvars)
<1> SUFFICES ASSUME Inv, RaceInv, [HNext]_hvars
             PROVE  Promise!MNext \/ UNCHANGED Promise!mvars
  OBVIOUS
<1>1. Pairs \subseteq {p \in Users \X Users : p[1] # p[2]}
  BY RegisteredAssumption DEF Pairs
<1>2. CASE UNCHANGED tables /\ raced' = raced
  BY <1>2 DEF tables, Promise!mvars, Couples
<1>3. ASSUME NEW u \in Registered, SaveProfile(u) \/ DeactivateProfile(u), raced' = raced
      PROVE  Promise!MNext
  BY <1>3, RegisteredAssumption
     DEF SaveProfile, DeactivateProfile, Couples, Promise!MNext, Promise!Join, Promise!Leave
<1>4. ASSUME NEW s \in Sessions, CommitLike(s), Track PROVE Promise!MNext
  BY <1>1, <1>4, CommitLikeIsLike DEF Promise!MNext, Promise!Request
<1>5. ASSUME NEW s \in Sessions, CommitBlock(s), Track PROVE Promise!MNext
  BY <1>1, <1>5, CommitBlockIsBan DEF Promise!MNext, Promise!Request
<1>6. ASSUME NEW s \in Sessions, UpsertDislike(s), raced' = raced PROVE Promise!MNext
  <2>1. row[s] \in Pairs /\ Promise!Hide(row[s])
    BY <1>6 DEF UpsertDislike, Inv, TypeOK, Couples, Promise!Hide
  <2> QED
    BY <1>1, <2>1 DEF Promise!MNext, Promise!Request
<1>7. ASSUME NEW s \in Sessions, DeleteBan(s), raced' = raced
      PROVE  Promise!MNext \/ UNCHANGED Promise!mvars
  <2>1. CASE row[s] \in bans
    <3>1. row[s] \in Pairs /\ Promise!LiftBan(row[s])
      BY <1>7, <2>1 DEF LiftableBans, DeleteBan, Inv, TypeOK, Couples, Promise!LiftBan
    <3> QED
      BY <1>1, <3>1 DEF Promise!MNext, Promise!Request
  <2>2. CASE row[s] \notin bans
    BY <1>7, <2>2 DEF LiftableBans, DeleteBan, Couples, Promise!mvars
  <2> QED
    BY <2>1, <2>2
<1>8. ASSUME NEW s \in Sessions, Receive(s) \/ Serve(s) \/ Abort(s)
      PROVE  \/ CommitLike(s) \/ CommitBlock(s) \/ UpsertDislike(s) \/ DeleteBan(s)
             \/ UNCHANGED tables
  BY <1>8
     DEF Serve, Like, Block, Abort, Receive, EnsureActiveProfile, EnsureNotExcluded,
     InsertSwipe, CheckMutual, InsertChat, LookupChat, EnsureUserExists, UpsertBan,
     DeactivateChat, EnsureTargetExists, Publish
<1>9. ASSUME Track, Next PROVE raced' = raced \/ \E s \in Sessions : CommitLike(s) \/ CommitBlock(s)
  <2>1. ASSUME NEW u \in Registered, SaveProfile(u) \/ DeactivateProfile(u) PROVE raced' = raced
    BY <1>9, <2>1, RacedKept DEF SaveProfile, DeactivateProfile, session
  <2>2. ASSUME NEW s \in Sessions, Receive(s) \/ Serve(s) \/ Abort(s),
               ~ (CommitLike(s) \/ CommitBlock(s))
        PROVE  raced' = raced
    <3>1. pc'[s] \notin {"like.publish", "block.publish"}
      BY <2>2
         DEF Serve, Like, Block, Abort, Receive, EnsureActiveProfile, EnsureNotExcluded,
         InsertSwipe, CheckMutual, InsertChat, LookupChat, EnsureUserExists, UpsertBan,
         DeactivateChat, EnsureTargetExists, UpsertDislike, DeleteBan, Publish, Finish, Goto,
         EntrySteps, Inv, TypeOK
    <3>2. \A t \in Sessions \ {s} : pc'[t] = pc[t]
      BY <2>2, OthersWait
    <3> QED
      BY <1>9, <3>1, <3>2, RacedKept
  <2> QED
    BY <1>9, <2>1, <2>2 DEF Next
<1> QED
  BY <1>2, <1>3, <1>4, <1>5, <1>6, <1>7, <1>8, <1>9 DEF HNext, Next, hvars, vars, tables

\* Whatever interleaves and whatever is rolled back, each request takes effect
\* at one moment or not at all: on what is true at that moment, or, if another
\* commit overtook it, at the expense of its own couple only.
THEOREM RibbonRefinesMatching == HSpec => ImplementsMatching
<1>1. HInit => Promise!MInit
  BY DEF HInit, Init, Promise!MInit, Couples
<1> QED
  BY <1>1, StepSimulation, RaceAlways, PTL DEF HSpec, ImplementsMatching, Promise!MSpec

=============================================================================
