--------------------------- MODULE VersionedState ---------------------------
(***************************************************************************)
(* What the local storage layer of a fork promises to block production: a  *)
(* working state that can be overwritten freely, and a history of sealed   *)
(* blocks that only ever grows.  Sealing a block appends the working state *)
(* to the history and leaves every earlier entry as it was.  The promise   *)
(* is withdrawn, once and for all, for keys that are tampered with by      *)
(* other means than writing them in a block.                               *)
(***************************************************************************)
EXTENDS Integers

CONSTANTS Stored,    \* what a key can hold, absence included
          First,     \* number of the block the fork starts from
          Genesis    \* the state at that block

VARIABLES working,   \* the state the next block is built in
          history    \* block number |-> sealed state, from First on

vsVars == <<working, history>>

VSInit ==
    /\ working = Genesis
    /\ history = [b \in {First} |-> Genesis]

(***************************************************************************)
(* Some keys of the working state take new values; history is untouched.   *)
(***************************************************************************)
Overwrite ==
    /\ working' \in [DOMAIN working -> Stored]
    /\ UNCHANGED history

(***************************************************************************)
(* The working state becomes the next block of the history.                *)
(***************************************************************************)
Seal ==
    \E b \in {c + 1 : c \in DOMAIN history} \ DOMAIN history :
        /\ history' = [c \in DOMAIN history \cup {b} |->
                          IF c = b THEN working ELSE history[c]]
        /\ UNCHANGED working

(***************************************************************************)
(* Some keys leave the promise; the others keep their values.              *)
(***************************************************************************)
Withdraw ==
    \E kept \in SUBSET DOMAIN working :
        /\ working' = [k \in kept |-> working[k]]
        /\ history' = [b \in DOMAIN history |-> [k \in kept |-> history[b][k]]]

VSSpec == VSInit /\ [][Overwrite \/ Seal \/ Withdraw]_vsVars
=============================================================================
