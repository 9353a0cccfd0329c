------------------------------ MODULE Matching ------------------------------
(***************************************************************************)
(* What the ribbon promises its users, with every request atomic: who has  *)
(* liked, hidden and banned whom, which couples have been matched, and     *)
(* which of them can still talk.  A request may also act on what it read   *)
(* before another one changed it; then the promise is broken, and raced    *)
(* remembers for which couple.  How the tables and transactions of go-core *)
(* realise all this is the business of Ribbon and RibbonRaces.             *)
(***************************************************************************)

CONSTANT People

VARIABLES
  visible,  \* people whose profile is shown
  likes,    \* <<a, b>>: a has liked b
  hidden,   \* <<a, b>>: a does not want to be shown b
  banned,   \* <<a, b>>: a has blocked b
  matched,  \* couples {a, b} that have been given a chat
  talking,  \* couples whose chat is active
  raced     \* couples of which a request has acted on what was no longer so

mvars == <<visible, likes, hidden, banned, matched, talking, raced>>

Back(p) == <<p[2], p[1]>>

Couple(p) == {p[1], p[2]}

MInit ==
  /\ visible = {} /\ likes = {} /\ hidden = {} /\ banned = {}
  /\ matched = {} /\ talking = {} /\ raced = {}

Join(a) ==
  /\ visible' = visible \cup {a}
  /\ UNCHANGED <<likes, hidden, banned, matched, talking, raced>>

Leave(a) ==
  /\ visible' = visible \ {a}
  /\ UNCHANGED <<likes, hidden, banned, matched, talking, raced>>

\* A couple is matched once: a later like does not reopen a chat that a block
\* has closed.
NewMatch(p) == IF Back(p) \in likes THEN {Couple(p)} \ matched ELSE {}

AddLike(p, new) ==
  /\ likes' = likes \cup {p}
  /\ matched' = matched \cup new
  /\ talking' = talking \cup new
  /\ UNCHANGED <<visible, hidden, banned>>

\* A like needs a visible target and no exclusion on either side, and matches
\* the couple when it is the second of the two.
Like(p) ==
  /\ p[2] \in visible
  /\ {p, Back(p)} \cap hidden = {}
  /\ AddLike(p, NewMatch(p))
  /\ UNCHANGED raced

\* A like overtaken by another request of the couple or by its target's
\* leaving: it takes effect all the same, and may miss the match.
StaleLike(p) ==
  /\ \E new \in SUBSET NewMatch(p) : AddLike(p, new)
  /\ raced' = raced \cup {Couple(p)}

Hide(p) ==
  /\ hidden' = hidden \cup {p}
  /\ UNCHANGED <<visible, likes, banned, matched, talking, raced>>

AddBan(p) ==
  /\ hidden' = hidden \cup {p}
  /\ banned' = banned \cup {p}
  /\ UNCHANGED <<visible, likes, matched>>

Ban(p) ==
  /\ AddBan(p)
  /\ talking' = talking \ {Couple(p)}
  /\ UNCHANGED raced

\* A ban overtaken by a match leaves the new chat as it is.
StaleBan(p) ==
  /\ AddBan(p)
  /\ raced' = raced \cup {Couple(p)}
  /\ UNCHANGED talking

\* Lifting a block forgets the exclusion; the chat stays closed.
LiftBan(p) ==
  /\ p \in banned
  /\ hidden' = hidden \ {p}
  /\ banned' = banned \ {p}
  /\ UNCHANGED <<visible, likes, matched, talking, raced>>

Request(p) ==
  Like(p) \/ StaleLike(p) \/ Hide(p) \/ Ban(p) \/ StaleBan(p) \/ LiftBan(p)

MNext ==
  \/ \E a \in People : Join(a) \/ Leave(a)
  \/ \E p \in People \X People : p[1] # p[2] /\ Request(p)

MSpec == MInit /\ [][MNext]_mvars

=============================================================================
