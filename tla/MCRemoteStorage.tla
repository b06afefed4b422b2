-------------------------- MODULE MCRemoteStorage --------------------------
(***************************************************************************)
(* A pallet with a short key, a map of three keys, which takes two pages   *)
(* of two, and an item that is empty on the live chain; and a prefix of    *)
(* two live keys and an empty one.                                         *)
(***************************************************************************)
EXTENDS RemoteStorage

CONSTANTS v, x, y

Map == {2, 3, 4}
Item == {5}
MCKeys == 1..5
MCLive == [k \in MCKeys |-> IF k \in Item THEN NULL ELSE v]
MCPrefixes == {Map, Item, MCKeys}
MCItemPrefix ==
    [k \in MCKeys |-> IF k = 1 THEN NULL ELSE IF k \in Map THEN Map ELSE Item]
MCCovering == [p \in MCPrefixes |-> {p, MCKeys}]

=============================================================================
