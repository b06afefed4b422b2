---------------------------- MODULE MCBlockchain ----------------------------
(***************************************************************************)
(* Small instances of Blockchain: a plain extrinsic and two runtime        *)
(* upgrades.  An extrinsic may fail to dispatch, so a batch stands for its *)
(* sub-batches too, the empty one included.                                *)
(***************************************************************************)
EXTENDS Blockchain

CONSTANTS b1, b2, c1, w1, t1, u1, u2

MCTxs == {t1, u1, u2}
MCUpgrades == {u1, u2}
UpgradeBatches == {<<u1>>, <<u2>>}
PairBatches == {<<t1, u1>>}
=============================================================================
