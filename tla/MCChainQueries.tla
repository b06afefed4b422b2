--------------------------- MODULE MCChainQueries ---------------------------
(* Instances of ChainQueries. *)
EXTENDS ChainQueries, TLC

CONSTANTS t1, t2

\* One task makes any request.
AskAnything == (t1 :> Method)

\* Two tasks compete for the connection, the permits, the lock of the head and the cache
\* of the genesis hash.
Compete ==
    (t1 :> {"accountNextIndex", "getKeysPaged", "genesisHash"}) @@
    (t2 :> {"accountNextIndex", "queryStorageAt", "genesisHash"})

=============================================================================
