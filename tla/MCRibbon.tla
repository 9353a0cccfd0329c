------------------------------ MODULE MCRibbon ------------------------------
(***************************************************************************)
(* Ribbon on small instances.  A request reads and writes the rows of one  *)
(* pair of users and the profile of its target, so two users show every    *)
(* interleaving of the requests about a pair; a third id without an        *)
(* account exercises the existence checks.                                 *)
(***************************************************************************)
EXTENDS Ribbon, TLC

\* Users and connections are interchangeable.
Symmetry == Permutations(Registered) \cup Permutations(Sessions)

=============================================================================
