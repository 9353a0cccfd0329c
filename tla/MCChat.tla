------------------------------- MODULE MCChat -------------------------------
(***************************************************************************)
(* Chat on a small instance: three messages, one of them the reader's own, *)
(* read one or two to a page.                                              *)
(***************************************************************************)
EXTENDS Chat

CONSTANT Own  \* the message that the reader sends

Partner == CHOOSE u \in Users : u # Reader

MCSender == [m \in Messages |-> IF m = Own THEN Reader ELSE Partner]

=============================================================================
