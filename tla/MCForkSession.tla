---------------------------- MODULE MCForkSession ----------------------------
(* Instances of ForkSession. *)
EXTENDS ForkSession, TLC

CONSTANTS c1, c2

\* A chain with a spare endpoint, and a plain endpoint.
MCEndpoints == (c1 :> 2) @@ (c2 :> 1)

=============================================================================
