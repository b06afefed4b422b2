--------------------------- MODULE MCLocalStorage ---------------------------
(***************************************************************************)
(* A small instance of LocalStorage: two keys, one of which the live chain *)
(* does not have, and a live chain whose value of the other changes at the *)
(* fork point and after it.                                                *)
(***************************************************************************)
EXTENDS LocalStorage

CONSTANTS k1, k2, a, b

MCKeys == {k1, k2}
MCValues == {a, b}
MCPrefixes == {{k1}, {k1, k2}}
MCRemote ==
    [n \in 0..MaxBlock |->
        [k \in MCKeys |-> IF k = k2 THEN NULL ELSE IF n = Fork THEN a ELSE b]]
=============================================================================
