----------------------------- MODULE MCAccounts -----------------------------
(***************************************************************************)
(* Accounts on a small instance: an instance of go-core and the seed       *)
(* command on a database of any release, three clients, an address in two  *)
(* spellings that the seed command inserts too.                            *)
(***************************************************************************)
EXTENDS Accounts, TLC

CONSTANT Lowered  \* the lower case of every spelling

MCLower == [e \in Spellings |-> Lowered]
MCSeedAccounts == <<Lowered>>

\* Clients are interchangeable.
Symmetry == Permutations(Clients)

=============================================================================
