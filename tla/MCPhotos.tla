------------------------------ MODULE MCPhotos ------------------------------
(***************************************************************************)
(* Photos on a small instance: three photos, two requests at once and two  *)
(* places, so that the album overflows.                                    *)
(***************************************************************************)
EXTENDS Photos, TLC

Symmetry == Permutations(Keys) \cup Permutations(Sessions)

=============================================================================
