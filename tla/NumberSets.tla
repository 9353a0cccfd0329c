----------------------------- MODULE NumberSets -----------------------------
(***************************************************************************)
(* What the queries of a list do with the numbers of the rows they find:   *)
(* ORDER BY id, and LIMIT (repository/chat_repository.go, repository/      *)
(* ribbon.go).                                                             *)
(***************************************************************************)
EXTENDS Integers, FiniteSets

\* How many come before c.
Rank(c, S) == Cardinality({d \in S : d < c})

\* LIMIT n.
Lowest(n, S) == {c \in S : Rank(c, S) < n}

\* ORDER BY id.
InOrder(S) == [i \in 1 .. Cardinality(S) |-> CHOOSE c \in S : Rank(c, S) = i - 1]

=============================================================================
