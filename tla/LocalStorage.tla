---------------------------- MODULE LocalStorage ----------------------------
(***************************************************************************)
(* The local storage layer of a forked chain (crates/pop-fork/src/local.rs)*)
(* over the local_keys/local_values tables of the SQLite cache             *)
(* (crates/pop-fork/src/cache.rs).                                         *)
(*                                                                         *)
(* The layer keeps an in-memory map of modifications, each stamped with    *)
(* the block it was made in, and writes the modifications of a block to    *)
(* the cache as rows valid over a range of blocks when the block is        *)
(* committed.  A read picks between the map, the rows and the live chain   *)
(* from the block number it is asked for.  The question of this module is  *)
(* whether those three sources together show one consistent history.       *)
(***************************************************************************)
EXTENDS Integers

CONSTANTS Keys,       \* storage keys
          Values,     \* storage values
          NULL,       \* no value: a deleted key, an SQL NULL, an open range
          Prefixes,   \* key prefixes, each the set of the keys under it
          Fork,       \* first_forked_block_number
          MaxBlock,   \* the largest block number (u32::MAX in the code)
          Remote      \* the live chain: Remote[n][k] is key k at block n

Stored == Values \cup {NULL}

ASSUME NullAssumption == NULL \notin Values /\ NULL \notin Int
ASSUME NullRecordAssumption ==
    \A n \in 0..MaxBlock, v \in Stored : [block |-> n, value |-> v] # NULL
ASSUME BlockAssumption ==
    Fork \in Nat /\ MaxBlock \in Nat /\ Fork < MaxBlock
ASSUME PrefixAssumption == Prefixes \subseteq SUBSET Keys
ASSUME RemoteAssumption == Remote \in [0..MaxBlock -> [Keys -> Stored]]

VARIABLES modifications,    \* key |-> LocalSharedValue, or NULL
          deletedPrefixes,  \* deleted_prefixes
          current,          \* current_block_number: the block being built
          localValues,      \* the rows of local_values joined to local_keys
          sealed,           \* history: the state each block was committed with
          initialised       \* history: keys ever written by set_initial

vars == <<modifications, deletedPrefixes, current, localValues, sealed,
          initialised>>

Blocks == 0..MaxBlock
ForkBlocks == (Fork + 1)..MaxBlock

LocalSharedValue == [block : Blocks, value : Stored]
LocalValueRow == [key : Keys, value : Stored, from : Blocks,
                  until : Blocks \cup {NULL}]

TypeOK ==
    /\ modifications \in [Keys -> LocalSharedValue \cup {NULL}]
    /\ deletedPrefixes \in SUBSET Prefixes
    /\ current \in ForkBlocks
    /\ localValues \in SUBSET LocalValueRow
    /\ sealed \in [ForkBlocks -> [Keys -> Stored]]
    /\ initialised \in SUBSET Keys

-----------------------------------------------------------------------------
(* The local_values table. *)

(***************************************************************************)
(* A row holds at bn when valid_from <= bn and it is open or valid_until   *)
(* is beyond bn.                                                           *)
(***************************************************************************)
Holds(r, bn) == r.from <= bn /\ (r.until = NULL \/ r.until > bn)

RowsAt(k, bn) == {r \in localValues : r.key = k /\ Holds(r, bn)}

(***************************************************************************)
(* The query takes the first matching row, in no stated order.             *)
(***************************************************************************)
GetLocalValueAtBlock(k, bn) == (CHOOSE r \in RowsAt(k, bn) : TRUE).value

GetLocalKeysAtBlock(p, bn) ==
    {r.key : r \in {s \in localValues :
                       s.key \in p /\ Holds(s, bn) /\ s.value # NULL}}

GetLocalDeletedKeysAtBlock(p, bn) ==
    {r.key : r \in {s \in localValues :
                       s.key \in p /\ Holds(s, bn) /\ s.value = NULL}}

\* Deliberate fault: the previous row stays open.
LeftOpen(r, bn) == r

\* Deliberate fault: the previous row ends one block too early.
ClosedEarly(r, bn) == [r EXCEPT !.until = bn - 1]

Closed(r, bn) == [r EXCEPT !.until = bn]

(***************************************************************************)
(* One transaction: for every entry the open rows of its key are closed at *)
(* bn and a row open from bn is inserted.                                  *)
(***************************************************************************)
CommitLocalChanges(entries, bn) ==
    {r \in localValues : r.key \notin entries \/ r.until # NULL}
    \cup {Closed(r, bn) :
             r \in {s \in localValues : s.key \in entries /\ s.until = NULL}}
    \cup {[key |-> k, value |-> modifications[k].value, from |-> bn,
           until |-> NULL] : k \in entries}

-----------------------------------------------------------------------------
(* Reads. *)

UnderDeletedPrefix(k) == \E p \in deletedPrefixes : k \in p

(***************************************************************************)
(* get_local_modification answers with the in-memory value when the layer  *)
(* stands at bn or the modification is older than bn, and with "deleted"   *)
(* for a key that has no modification but lies under a deleted prefix.     *)
(***************************************************************************)
\* Deliberate fault: the stamp of the modification is ignored.
AnyModificationAnswers(k, bn) == modifications[k] # NULL

ModificationAnswers(k, bn) ==
    /\ modifications[k] # NULL
    /\ bn = current \/ modifications[k].block < bn

DeletionAnswers(k) == modifications[k] = NULL /\ UnderDeletedPrefix(k)

IsHistorical(bn) == Fork < bn /\ bn < current

(***************************************************************************)
(* get: the modification, else by block number the rows backed by the live *)
(* chain at the fork point, or the live chain at that number.              *)
(***************************************************************************)
Get(bn, k) ==
    IF ModificationAnswers(k, bn) THEN modifications[k].value
    ELSE IF DeletionAnswers(k) THEN NULL
    ELSE IF bn = current THEN Remote[Fork][k]
    ELSE IF ~IsHistorical(bn) THEN Remote[bn][k]
    ELSE IF RowsAt(k, bn) # {} THEN GetLocalValueAtBlock(k, bn)
    ELSE Remote[Fork][k]

(***************************************************************************)
(* get_batch, for one key of the batch.  It differs from get in two ways:  *)
(* at or before the fork point every key is read from the live chain, and  *)
(* for a historical block a "deleted" answer is taken for a missing one    *)
(* and looked up again.                                                    *)
(***************************************************************************)
GetBatch(bn, k) ==
    IF bn # current /\ ~IsHistorical(bn) THEN Remote[bn][k]
    ELSE IF ModificationAnswers(k, bn) THEN modifications[k].value
    ELSE IF bn = current
         THEN IF DeletionAnswers(k) THEN NULL ELSE Remote[Fork][k]
    ELSE IF ~DeletionAnswers(k) /\ RowsAt(k, bn) # {}
         THEN GetLocalValueAtBlock(k, bn)
    ELSE Remote[Fork][k]

RemoteKeys(p) == {k \in p : Remote[Fork][k] # NULL}

MergeKeysWithInMemory(p) ==
    {k \in RemoteKeys(p) :
        /\ ~UnderDeletedPrefix(k)
        /\ modifications[k] = NULL \/ modifications[k].value # NULL}
    \cup {k \in p : modifications[k] # NULL /\ modifications[k].value # NULL}

\* Deliberate fault: keys deleted on the fork stay listed.
MergeKeepsDeleted(p, bn) == RemoteKeys(p) \cup GetLocalKeysAtBlock(p, bn)

MergeKeysWithCache(p, bn) ==
    (RemoteKeys(p) \ GetLocalDeletedKeysAtBlock(p, bn))
        \cup GetLocalKeysAtBlock(p, bn)

KeysByPrefix(p, bn) ==
    IF bn >= current THEN MergeKeysWithInMemory(p)
                     ELSE MergeKeysWithCache(p, bn)

(***************************************************************************)
(* The keys that iterating with next_key visits: the live chain's at the   *)
(* fork point, those under a deleted prefix skipped, the map not looked at.*)
(***************************************************************************)
NextKeys(p) == {k \in RemoteKeys(p) : ~UnderDeletedPrefix(k)}

-----------------------------------------------------------------------------
(* Operations. *)

(***************************************************************************)
(* A new layer works on the block after the fork point, over a cache that  *)
(* holds no local rows.                                                    *)
(***************************************************************************)
Init ==
    /\ modifications = [k \in Keys |-> NULL]
    /\ deletedPrefixes = {}
    /\ current = Fork + 1
    /\ localValues = {}
    /\ sealed = [b \in ForkBlocks |-> Remote[Fork]]
    /\ initialised = {}

(***************************************************************************)
(* The map after the keys ks have been written with the values w, stamped  *)
(* with block b.                                                           *)
(***************************************************************************)
Stamped(ks, w, b) ==
    [k \in Keys |-> IF k \in ks THEN [block |-> b, value |-> w[k]]
                                ELSE modifications[k]]

Set(k, v) ==
    /\ modifications' = [modifications EXCEPT
                            ![k] = [block |-> current, value |-> v]]
    /\ UNCHANGED <<deletedPrefixes, current, localValues, sealed, initialised>>

SetBatch(ks, w) ==
    /\ ks # {}
    /\ modifications' = Stamped(ks, w, current)
    /\ UNCHANGED <<deletedPrefixes, current, localValues, sealed, initialised>>

(***************************************************************************)
(* first_forked_block_number.saturating_sub(1)                             *)
(***************************************************************************)
InitialVisibilityBlock == IF Fork = 0 THEN 0 ELSE Fork - 1

SetInitial(k, v) ==
    /\ modifications' = [modifications EXCEPT
                            ![k] = [block |-> InitialVisibilityBlock,
                                    value |-> v]]
    /\ initialised' = initialised \cup {k}
    /\ UNCHANGED <<deletedPrefixes, current, localValues, sealed>>

SetBatchInitial(ks, w) ==
    /\ ks # {}
    /\ modifications' = Stamped(ks, w, InitialVisibilityBlock)
    /\ initialised' = initialised \cup ks
    /\ UNCHANGED <<deletedPrefixes, current, localValues, sealed>>

DeletePrefix(p) ==
    /\ modifications' = [k \in Keys |-> IF k \in p THEN NULL
                                                   ELSE modifications[k]]
    /\ deletedPrefixes' = deletedPrefixes \cup {p}
    /\ UNCHANGED <<current, localValues, sealed, initialised>>

(***************************************************************************)
(* The modifications made in the current block.                            *)
(***************************************************************************)
EntriesToCommit ==
    {k \in Keys : /\ modifications[k] # NULL
                  /\ modifications[k].block = current}

(***************************************************************************)
(* commit writes the rows of the current block and moves to the next one;  *)
(* checked_add fails, and nothing happens, at the largest block number.    *)
(* The map keeps its entries.                                              *)
(***************************************************************************)
Commit ==
    /\ current < MaxBlock
    /\ localValues' = CommitLocalChanges(EntriesToCommit, current)
    /\ sealed' = [sealed EXCEPT ![current] = [k \in Keys |-> Get(current, k)]]
    /\ current' = current + 1
    /\ UNCHANGED <<modifications, deletedPrefixes, initialised>>

(***************************************************************************)
(* Block production uses only these; the other operations inject state.    *)
(***************************************************************************)
BlockNext ==
    \/ \E k \in Keys, v \in Stored : Set(k, v)
    \/ \E ks \in SUBSET Keys : \E w \in [ks -> Stored] : SetBatch(ks, w)
    \/ Commit

Next ==
    \/ BlockNext
    \/ \E k \in Keys, v \in Stored : SetInitial(k, v)
    \/ \E ks \in SUBSET Keys : \E w \in [ks -> Stored] : SetBatchInitial(ks, w)
    \/ \E p \in Prefixes : DeletePrefix(p)

Spec == Init /\ [][Next]_vars

-----------------------------------------------------------------------------
(* Properties. *)

(***************************************************************************)
(* The validity ranges of one key never overlap, whatever was written,     *)
(* deleted or injected: get_local_value_at_block takes the first match of  *)
(* an unordered query, so two matches would make a read arbitrary.         *)
(***************************************************************************)
RangesDisjoint ==
    \A k \in Keys, bn \in Blocks :
        \A r, s \in RowsAt(k, bn) : r = s

(***************************************************************************)
(* Only block production has ever touched the key.                         *)
(***************************************************************************)
Pristine(k) == k \notin initialised /\ ~UnderDeletedPrefix(k)

(***************************************************************************)
(* The state of a committed block is read back forever as it was at        *)
(* commit, although the answer moves from the modifications map to the     *)
(* rows as later blocks overwrite the key.                                 *)
(***************************************************************************)
CommittedStateStable ==
    \A bn \in (Fork + 1)..(current - 1), k \in Keys :
        Pristine(k) => Get(bn, k) = sealed[bn][k]

(***************************************************************************)
(* Enumerating a prefix and reading its keys one by one agree on which     *)
(* keys exist, at every block of the fork; keys_by_prefix and get choose   *)
(* their sources independently.  next_key, which the runtime iterates      *)
(* with, agrees on the keys that have no local value.                      *)
(***************************************************************************)
KeysMatchReads ==
    \A p \in Prefixes : \A k \in p :
        /\ \A bn \in (Fork + 1)..current :
              Pristine(k) => (k \in KeysByPrefix(p, bn) <=> Get(bn, k) # NULL)
        /\ modifications[k] = NULL =>
              (k \in NextKeys(p) <=> Get(current, k) # NULL)

(***************************************************************************)
(* get_batch and get agree on keys that only block production touched.     *)
(***************************************************************************)
BatchAgreesOnPristine ==
    \A bn \in 0..current, k \in Keys :
        Pristine(k) => GetBatch(bn, k) = Get(bn, k)

(***************************************************************************)
(* Nothing written on the fork, injected values included, shows before the *)
(* fork point.                                                             *)
(***************************************************************************)
PreForkReadsRemote ==
    \A bn \in 0..(Fork - 1), k \in Keys :
        ~UnderDeletedPrefix(k) => Get(bn, k) = Remote[bn][k]

(***************************************************************************)
(* An injected value that has not been overwritten is what the fork head   *)
(* and every later block show: set_initial stamps it one block before the  *)
(* fork point for that purpose.  (There is no such block before block 0:   *)
(* the head of a chain forked there does not show it.)                     *)
(***************************************************************************)
InjectedVisible ==
    \A k \in Keys, bn \in (InitialVisibilityBlock + 1)..current :
        (modifications[k] # NULL /\ modifications[k].block <= Fork)
            => Get(bn, k) = modifications[k].value

(***************************************************************************)
(* All ways to read the layer agree: enumeration and iteration with single *)
(* reads, the batch read with them, reads below the fork with the live     *)
(* chain, and reads from the fork on with what was injected.               *)
(***************************************************************************)
ReadsAgree ==
    /\ KeysMatchReads
    /\ BatchAgreesOnPristine
    /\ PreForkReadsRemote
    /\ InjectedVisible

(***************************************************************************)
(* The layer implements the versioned state, of the keys that only block   *)
(* production has touched.                                                 *)
(***************************************************************************)
PristineState(bn) == [k \in {x \in Keys : Pristine(x)} |-> Get(bn, k)]

Versioned == INSTANCE VersionedState WITH
    First <- Fork,
    Genesis <- Remote[Fork],
    working <- PristineState(current),
    history <- [bn \in Fork..(current - 1) |-> PristineState(bn)]

ImplementsVersionedState == Versioned!VSSpec

-----------------------------------------------------------------------------
(* The inductive invariant behind the first two safety properties. *)

Precedes(r, s) == r.until # NULL /\ r.until <= s.from

(***************************************************************************)
(* Every row starts on the fork and before the block being built, and the  *)
(* rows of one key follow one another.                                     *)
(***************************************************************************)
RowsOrdered ==
    /\ \A r \in localValues :
          /\ Fork < r.from /\ r.from < current
          /\ r.until # NULL => (r.from < r.until /\ r.until < current)
    /\ \A r, s \in localValues :
          (r.key = s.key /\ r # s) => (Precedes(r, s) \/ Precedes(s, r))

(***************************************************************************)
(* How the map and the rows of one key account for its sealed values.      *)
(***************************************************************************)
ModificationStamped(k) ==
    modifications[k] # NULL =>
        Fork < modifications[k].block /\ modifications[k].block <= current

RowsOfModifiedKeyOnly(k) ==
    modifications[k] = NULL => \A r \in localValues : r.key # k

OpenRowHoldsModification(k) ==
    (modifications[k] # NULL /\ modifications[k].block < current) =>
        \E r \in localValues : /\ r.key = k
                               /\ r.until = NULL
                               /\ r.value = modifications[k].value

ModificationSealedSince(k) ==
    modifications[k] # NULL =>
        \A bn \in modifications[k].block..(current - 1) :
            sealed[bn][k] = modifications[k].value

RowsSealed(k) ==
    \A bn \in (Fork + 1)..(current - 1) :
        /\ \A r \in RowsAt(k, bn) : r.value = sealed[bn][k]
        /\ RowsAt(k, bn) = {} => sealed[bn][k] = Remote[Fork][k]

KeyAccounted(k) ==
    /\ ModificationStamped(k)
    /\ RowsOfModifiedKeyOnly(k)
    /\ OpenRowHoldsModification(k)
    /\ ModificationSealedSince(k)
    /\ RowsSealed(k)

(***************************************************************************)
(* A modification is stamped with a block of the fork, or with the one at  *)
(* which injected values become visible.                                   *)
(***************************************************************************)
ModificationsStamped ==
    \A k \in Keys :
        modifications[k] # NULL =>
            \/ modifications[k].block = InitialVisibilityBlock
            \/ Fork < modifications[k].block /\ modifications[k].block <= current

(***************************************************************************)
(* The rows are ordered and account, with the map, for every sealed value  *)
(* of every key that only block production touched.                        *)
(***************************************************************************)
HistoryAccounted ==
    /\ RowsOrdered
    /\ ModificationsStamped
    /\ \A k \in Keys : Pristine(k) => KeyAccounted(k)
=============================================================================
