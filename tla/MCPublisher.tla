---------------------------- MODULE MCPublisher -----------------------------
(***************************************************************************)
(* Publisher on a small instance: two requests that publish more events    *)
(* than the buffer holds, one each or, for a like that matches, two.       *)
(***************************************************************************)
EXTENDS Publisher

CONSTANT Match  \* the request that publishes a swipe and a match, if any

MCCount == [r \in Requests |-> IF r = Match THEN 2 ELSE 1]

=============================================================================
