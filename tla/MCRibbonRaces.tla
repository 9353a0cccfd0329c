--------------------------- MODULE MCRibbonRaces ----------------------------
(***************************************************************************)
(* RibbonRaces on a small instance: two registered users and a third id    *)
(* without an account, so that sessions are busy with different pairs too. *)
(***************************************************************************)
EXTENDS RibbonRaces, TLC

\* Users and connections are interchangeable.
Symmetry == Permutations(Registered) \cup Permutations(Sessions)

=============================================================================
