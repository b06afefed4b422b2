---------------------------- MODULE MCChainHead ----------------------------
(***************************************************************************)
(* Small instances of ChainHead.                                           *)
(***************************************************************************)
EXTENDS ChainHead, TLC

CONSTANTS s1, s2, s3, o1, o2, o3

Symmetry == Permutations(Subs) \cup Permutations(Ops)
=============================================================================
