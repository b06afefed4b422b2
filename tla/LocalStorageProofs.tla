------------------------- MODULE LocalStorageProofs -------------------------
(***************************************************************************)
(* Proofs about LocalStorage: for every set of keys and values, every fork *)
(* point and every history of operations, reads of a committed block never *)
(* change.                                                                 *)
(***************************************************************************)
EXTENDS LocalStorage, TLAPS

(***************************************************************************)
(* A block number lies in the range of blocks of the fork or before it.    *)
(***************************************************************************)
LEMMA VisibilityBlockType == InitialVisibilityBlock \in Blocks
  BY BlockAssumption DEF InitialVisibilityBlock, Blocks

(***************************************************************************)
(* Reading a key of the block being built yields a storable value.         *)
(***************************************************************************)
LEMMA GetCurrentType ==
  ASSUME TypeOK, NEW k \in Keys
  PROVE  Get(current, k) \in Stored
  BY BlockAssumption, RemoteAssumption
  DEF TypeOK, Get, Stored, ModificationAnswers, LocalSharedValue, ForkBlocks,
      Blocks

(***************************************************************************)
(* Committing keeps local_values a set of rows.                            *)
(***************************************************************************)
LEMMA CommitRowsType ==
  ASSUME TypeOK, NEW entries \in SUBSET Keys, NEW bn \in Blocks,
         \A k \in entries : modifications[k] # NULL
  PROVE  CommitLocalChanges(entries, bn) \subseteq LocalValueRow
  <1>1. \A r \in localValues : Closed(r, bn) \in LocalValueRow
    BY DEF TypeOK, Closed, LocalValueRow
  <1>2. \A k \in entries : [key |-> k, value |-> modifications[k].value,
                            from |-> bn, until |-> NULL] \in LocalValueRow
    BY DEF TypeOK, LocalSharedValue, LocalValueRow
  <1> QED
    BY <1>1, <1>2 DEF TypeOK, CommitLocalChanges

(***************************************************************************)
(* Every operation keeps the types.                                        *)
(***************************************************************************)
THEOREM TypeInvariant == Spec => []TypeOK
<1>1. Init => TypeOK
  BY BlockAssumption, RemoteAssumption
  DEF Init, TypeOK, ForkBlocks, Blocks, Stored
<1>2. TypeOK /\ [Next]_vars => TypeOK'
  <2> SUFFICES ASSUME TypeOK, [Next]_vars PROVE TypeOK'
    OBVIOUS
  <2>1. ASSUME NEW k \in Keys, NEW v \in Stored, Set(k, v) PROVE TypeOK'
    BY <2>1, BlockAssumption
    DEF Set, TypeOK, LocalSharedValue, ForkBlocks, Blocks
  <2>2. ASSUME NEW ks \in SUBSET Keys, NEW w \in [ks -> Stored],
               SetBatch(ks, w)
        PROVE TypeOK'
    BY <2>2, BlockAssumption
    DEF SetBatch, Stamped, TypeOK, LocalSharedValue, ForkBlocks, Blocks
  <2>3. CASE Commit
    <3>1. current \in Blocks /\ current + 1 \in ForkBlocks
      BY <2>3, BlockAssumption DEF Commit, TypeOK, ForkBlocks, Blocks
    <3>2. CommitLocalChanges(EntriesToCommit, current) \subseteq LocalValueRow
      BY <3>1, CommitRowsType DEF EntriesToCommit
    <3>3. [k \in Keys |-> Get(current, k)] \in [Keys -> Stored]
      BY GetCurrentType
    <3> QED
      BY <2>3, <3>1, <3>2, <3>3 DEF Commit, TypeOK
  <2>4. ASSUME NEW k \in Keys, NEW v \in Stored, SetInitial(k, v)
        PROVE TypeOK'
    BY <2>4, VisibilityBlockType DEF SetInitial, TypeOK, LocalSharedValue
  <2>5. ASSUME NEW ks \in SUBSET Keys, NEW w \in [ks -> Stored],
               SetBatchInitial(ks, w)
        PROVE TypeOK'
    BY <2>5, VisibilityBlockType
    DEF SetBatchInitial, Stamped, TypeOK, LocalSharedValue
  <2>6. ASSUME NEW p \in Prefixes, DeletePrefix(p) PROVE TypeOK'
    BY <2>6 DEF DeletePrefix, TypeOK
  <2>7. CASE UNCHANGED vars
    BY <2>7 DEF vars, TypeOK
  <2> QED
    BY <2>1, <2>2, <2>3, <2>4, <2>5, <2>6, <2>7 DEF Next, BlockNext
<1> QED
  BY <1>1, <1>2, PTL DEF Spec

-----------------------------------------------------------------------------
(***************************************************************************)
(* A key only block production touched after a step was so before it.      *)
(***************************************************************************)
LEMMA PristineBefore ==
  ASSUME TypeOK, [Next]_vars, NEW k \in Keys, Pristine(k)'
  PROVE  Pristine(k)
  BY DEF Pristine, UnderDeletedPrefix, Next, BlockNext, Set, SetBatch, Commit,
         SetInitial, SetBatchInitial, DeletePrefix, vars

(***************************************************************************)
(* The rows after a commit are exactly: the rows it left alone, the rows   *)
(* it closed, and one open row per entry.                                  *)
(***************************************************************************)
LEMMA CommittedRowCases ==
  ASSUME TypeOK, Commit, NEW r \in localValues'
  PROVE  \/ r \in localValues /\ (r.key \notin EntriesToCommit \/ r.until # NULL)
         \/ \E s \in localValues : /\ s.key \in EntriesToCommit
                                   /\ s.until = NULL
                                   /\ r.key = s.key /\ r.value = s.value
                                   /\ r.from = s.from /\ r.until = current
                                   /\ r = Closed(s, current)
         \/ /\ r.key \in EntriesToCommit
            /\ r.value = modifications[r.key].value
            /\ r.from = current /\ r.until = NULL
            /\ r = [key |-> r.key, value |-> modifications[r.key].value,
                    from |-> current, until |-> NULL]
  <1>1. \A s \in localValues :
           /\ Closed(s, current).key = s.key
           /\ Closed(s, current).value = s.value
           /\ Closed(s, current).from = s.from
           /\ Closed(s, current).until = current
    BY DEF TypeOK, LocalValueRow, Closed
  <1> QED
    BY <1>1 DEF Commit, CommitLocalChanges

(***************************************************************************)
(* A commit keeps the rows of each key in order: it closes the open row of *)
(* a key before it opens the next.                                         *)
(***************************************************************************)
LEMMA CommitKeepsOrder ==
  ASSUME TypeOK, RowsOrdered, Commit
  PROVE  RowsOrdered'
  <1>0. /\ current \in Int /\ Fork \in Int /\ current' = current + 1
        /\ Fork < current
    BY BlockAssumption DEF TypeOK, ForkBlocks, Commit
  <1>a. current # NULL
    BY <1>0, NullAssumption
  <1>1. \A r \in localValues : /\ r.from \in Int
                               /\ r.until # NULL => r.until \in Int
    BY BlockAssumption DEF TypeOK, LocalValueRow, Blocks
  <1>2. ASSUME NEW r \in localValues'
        PROVE  /\ Fork < r.from /\ r.from < current'
               /\ r.until # NULL => (r.from < r.until /\ r.until < current')
    <2>0. \A s \in localValues :
             /\ Fork < s.from /\ s.from < current
             /\ s.until # NULL => (s.from < s.until /\ s.until < current)
      BY DEF RowsOrdered
    <2>1. CASE r \in localValues
      <3>1. Fork < r.from /\ r.from < current'
        BY <1>0, <1>1, <2>0, <2>1
      <3>2. ASSUME r.until # NULL
            PROVE  r.from < r.until /\ r.until < current'
        BY <1>0, <1>1, <2>0, <2>1, <3>2
      <3> QED
        BY <3>1, <3>2
    <2>2. CASE \E s \in localValues : r.from = s.from /\ r.until = current
      BY <1>0, <1>1, <2>0, <2>2
    <2>3. CASE r.from = current /\ r.until = NULL
      BY <1>0, <2>3
    <2> QED
      BY <2>1, <2>2, <2>3, <1>2, CommittedRowCases
  <1>3. ASSUME NEW r \in localValues', NEW s \in localValues',
               r.key = s.key, r # s
        PROVE  Precedes(r, s)' \/ Precedes(s, r)'
    <2> DEFINE Kept(x) == x \in localValues /\ (x.key \notin EntriesToCommit
                                                \/ x.until # NULL)
               Shut(x, y) == /\ y \in localValues
                             /\ y.key \in EntriesToCommit /\ y.until = NULL
                             /\ x.key = y.key /\ x.from = y.from
                             /\ x.until = current /\ x = Closed(y, current)
               Opened(x) == /\ x.key \in EntriesToCommit
                            /\ x.from = current /\ x.until = NULL
                            /\ x = [key |-> x.key,
                                    value |-> modifications[x.key].value,
                                    from |-> current, until |-> NULL]
    <2>1. \A x \in localValues' : Kept(x) \/ (\E y : Shut(x, y)) \/ Opened(x)
      BY CommittedRowCases
    <2>2. CASE Kept(r) /\ Kept(s)
      BY <1>3, <2>2 DEF RowsOrdered, Precedes
    <2>3. ASSUME NEW x, NEW z, NEW y, Kept(x), Shut(z, y), x.key = z.key,
                 x # z
          PROVE  Precedes(x, z)
      BY <1>0, <1>1, <2>3 DEF RowsOrdered, Precedes
    <2>4. ASSUME NEW x, NEW z, Kept(x), Opened(z), x.key = z.key
          PROVE  Precedes(x, z)
      BY <1>0, <1>1, <2>4 DEF RowsOrdered, Precedes
    <2>5. ASSUME NEW x, NEW y, NEW z, Shut(x, y), Opened(z)
          PROVE  Precedes(x, z)
      BY <1>0, <1>a, <2>5 DEF Precedes
    <2>6. ASSUME NEW y1, NEW y2, Shut(r, y1), Shut(s, y2) PROVE FALSE
      <3>1. y1 = y2
        BY <1>3, <2>6 DEF RowsOrdered, Precedes
      <3> QED
        BY <1>3, <2>6, <3>1
    <2>7. ~(Opened(r) /\ Opened(s))
      BY <1>3
    <2>8. CASE (\E y : Shut(r, y)) /\ (\E y : Shut(s, y))
      BY <2>6, <2>8
    <2>9. CASE Kept(r) /\ ~Kept(s)
      BY <1>3, <2>1, <2>3, <2>4, <2>9 DEF Precedes
    <2>10. CASE ~Kept(r) /\ Kept(s)
      BY <1>3, <2>1, <2>3, <2>4, <2>10 DEF Precedes
    <2>11. CASE ~Kept(r) /\ ~Kept(s)
      BY <1>3, <2>1, <2>5, <2>7, <2>8, <2>11 DEF Precedes
    <2> QED
      BY <2>2, <2>9, <2>10, <2>11
  <1> QED
    BY <1>2, <1>3 DEF RowsOrdered

(***************************************************************************)
(* An operation that leaves the map, the rows, the history and the block   *)
(* number of a key alone leaves its account alone.                         *)
(***************************************************************************)
LEMMA UntouchedKeyAccounted ==
  ASSUME NEW k \in Keys, KeyAccounted(k), modifications'[k] = modifications[k],
         UNCHANGED <<current, localValues, sealed>>
  PROVE  KeyAccounted(k)'
  BY DEF KeyAccounted, ModificationStamped, RowsOfModifiedKeyOnly,
         OpenRowHoldsModification, ModificationSealedSince, RowsSealed,
         RowsAt, Holds

(***************************************************************************)
(* Writing a key in the block being built keeps its account: the rows and  *)
(* the sealed values are those of earlier blocks.                          *)
(***************************************************************************)
LEMMA WrittenKeyAccounted ==
  ASSUME TypeOK, NEW k \in Keys, KeyAccounted(k),
         modifications'[k] # NULL, modifications'[k].block = current,
         UNCHANGED <<current, localValues, sealed>>
  PROVE  KeyAccounted(k)'
  <1>1. current \in Int /\ Fork \in Int /\ Fork < current
    BY BlockAssumption DEF TypeOK, ForkBlocks
  <1>2. ModificationStamped(k)' /\ RowsOfModifiedKeyOnly(k)'
    BY <1>1 DEF ModificationStamped, RowsOfModifiedKeyOnly
  <1>3. OpenRowHoldsModification(k)' /\ ModificationSealedSince(k)'
    BY <1>1 DEF OpenRowHoldsModification, ModificationSealedSince
  <1>4. RowsSealed(k)'
    BY DEF KeyAccounted, RowsSealed, RowsAt, Holds
  <1> QED
    BY <1>2, <1>3, <1>4 DEF KeyAccounted

(***************************************************************************)
(* A commit keeps the account of a key: the value it seals is the one the  *)
(* row open after the commit holds, and no earlier block loses its row.    *)
(***************************************************************************)
LEMMA CommitKeyAccounted ==
  ASSUME TypeOK, RowsOrdered, Commit, NEW k \in Keys, Pristine(k),
         KeyAccounted(k)
  PROVE  KeyAccounted(k)'
  <1>0. /\ current \in Int /\ Fork \in Int /\ current' = current + 1
        /\ Fork < current /\ current \in ForkBlocks
        /\ modifications' = modifications
    BY BlockAssumption DEF TypeOK, ForkBlocks, Commit
  <1>a. current # NULL
    BY <1>0, NullAssumption
  <1>b. \A r \in localValues : /\ r.from \in Int
                               /\ r.until # NULL => r.until \in Int
    BY BlockAssumption DEF TypeOK, LocalValueRow, Blocks
  <1>c. modifications[k] # NULL => modifications[k].block \in Int
    BY BlockAssumption DEF TypeOK, LocalSharedValue, Blocks
  <1>d. /\ sealed'[current][k] = Get(current, k)
        /\ \A bn \in (Fork + 1)..(current - 1) : sealed'[bn][k] = sealed[bn][k]
    BY <1>0, BlockAssumption DEF Commit, TypeOK, ForkBlocks
  <1>e. Get(current, k) = IF modifications[k] # NULL
                          THEN modifications[k].value ELSE Remote[Fork][k]
    BY DEF Get, ModificationAnswers, DeletionAnswers, Pristine
  <1>1. ModificationStamped(k)'
    BY <1>0, <1>c DEF KeyAccounted, ModificationStamped
  <1>2. RowsOfModifiedKeyOnly(k)'
    BY <1>0, CommittedRowCases
    DEF KeyAccounted, RowsOfModifiedKeyOnly, EntriesToCommit
  <1>3. OpenRowHoldsModification(k)'
    <2> SUFFICES ASSUME modifications[k] # NULL
                 PROVE  \E r \in localValues' :
                           /\ r.key = k /\ r.until = NULL
                           /\ r.value = modifications[k].value
      BY <1>0 DEF OpenRowHoldsModification
    <2>1. CASE k \in EntriesToCommit
      <3> DEFINE r == [key |-> k, value |-> modifications[k].value,
                       from |-> current, until |-> NULL]
      <3>1. r \in localValues'
        BY <2>1 DEF Commit, CommitLocalChanges
      <3> QED
        BY <3>1
    <2>2. CASE k \notin EntriesToCommit
      <3>1. modifications[k].block < current
        BY <1>0, <1>c, <2>2
        DEF EntriesToCommit, KeyAccounted, ModificationStamped
      <3>2. PICK r \in localValues : /\ r.key = k /\ r.until = NULL
                                     /\ r.value = modifications[k].value
        BY <3>1 DEF KeyAccounted, OpenRowHoldsModification
      <3>3. r \in localValues'
        BY <2>2, <3>2 DEF Commit, CommitLocalChanges
      <3> QED
        BY <3>2, <3>3
    <2> QED
      BY <2>1, <2>2
  <1>4. ModificationSealedSince(k)'
    <2> SUFFICES ASSUME modifications[k] # NULL,
                        NEW bn \in modifications[k].block..current
                 PROVE  sealed'[bn][k] = modifications[k].value
      BY <1>0 DEF ModificationSealedSince
    <2>1. CASE bn = current
      BY <1>d, <1>e, <2>1
    <2>2. CASE bn # current
      <3>1. /\ bn \in modifications[k].block..(current - 1)
            /\ bn \in (Fork + 1)..(current - 1)
        BY <1>0, <1>c, <2>2 DEF KeyAccounted, ModificationStamped
      <3> QED
        BY <1>d, <3>1 DEF KeyAccounted, ModificationSealedSince
    <2> QED
      BY <2>1, <2>2
  <1>5. RowsSealed(k)'
    <2> SUFFICES ASSUME NEW bn \in (Fork + 1)..current
                 PROVE  /\ \A r \in RowsAt(k, bn)' : r.value = sealed'[bn][k]
                        /\ RowsAt(k, bn)' = {} =>
                              sealed'[bn][k] = Remote[Fork][k]
      BY <1>0 DEF RowsSealed
    <2>1. CASE bn = current
      \* Only the open row of the key can hold at the block being sealed.
      <3>1. ASSUME NEW r \in RowsAt(k, bn)'
            PROVE  r.value = sealed'[bn][k]
        <4>1. r \in localValues' /\ r.key = k /\ (r.until = NULL \/ r.until > current)
          BY <2>1, <3>1 DEF RowsAt, Holds
        <4>2. CASE r \in localValues /\ (r.key \notin EntriesToCommit
                                         \/ r.until # NULL)
          <5>1. r.until = NULL /\ k \notin EntriesToCommit
            BY <1>0, <1>b, <4>1, <4>2 DEF RowsOrdered
          <5>2. modifications[k] # NULL
            BY <4>1, <4>2 DEF KeyAccounted, RowsOfModifiedKeyOnly
          <5>3. modifications[k].block < current
            BY <1>0, <1>c, <5>1, <5>2
            DEF EntriesToCommit, KeyAccounted, ModificationStamped
          <5>4. PICK s \in localValues : /\ s.key = k /\ s.until = NULL
                                         /\ s.value = modifications[k].value
            BY <5>2, <5>3 DEF KeyAccounted, OpenRowHoldsModification
          <5>5. r = s
            BY <4>1, <4>2, <5>1, <5>4 DEF RowsOrdered, Precedes
          <5> QED
            BY <1>d, <1>e, <2>1, <5>2, <5>4, <5>5
        <4>3. CASE r.until = current
          BY <1>0, <1>a, <4>1, <4>3
        <4>4. CASE /\ r.key \in EntriesToCommit
                   /\ r.value = modifications[r.key].value
          BY <1>d, <1>e, <2>1, <4>1, <4>4 DEF EntriesToCommit
        <4> QED
          BY <4>1, <4>2, <4>3, <4>4, CommittedRowCases
      <3>2. ASSUME RowsAt(k, bn)' = {}
            PROVE  sealed'[bn][k] = Remote[Fork][k]
        <4>1. modifications[k] = NULL
          <5> SUFFICES ASSUME modifications[k] # NULL PROVE FALSE
            OBVIOUS
          <5>1. PICK r \in localValues' : r.key = k /\ r.until = NULL
            BY <1>0, <1>3, <1>c
            DEF OpenRowHoldsModification, KeyAccounted, ModificationStamped
          <5>2. r.from <= current
            BY <1>0, <1>b, <5>1, CommittedRowCases DEF RowsOrdered
          <5> QED
            BY <2>1, <3>2, <5>1, <5>2 DEF RowsAt, Holds
        <4> QED
          BY <1>d, <1>e, <2>1, <4>1
      <3> QED
        BY <3>1, <3>2
    <2>2. CASE bn # current
      \* Closing a row at the current block does not end it before bn.
      <3>1. bn \in Int /\ bn < current /\ bn \in (Fork + 1)..(current - 1)
        BY <1>0, <2>2
      <3>2. ASSUME NEW r \in RowsAt(k, bn)'
            PROVE  \E s \in RowsAt(k, bn) : s.value = r.value
        <4>1. r \in localValues' /\ r.key = k /\ r.from <= bn
              /\ (r.until = NULL \/ r.until > bn)
          BY <3>2 DEF RowsAt, Holds
        <4>2. CASE r \in localValues
          BY <4>1, <4>2 DEF RowsAt, Holds
        <4>3. ASSUME NEW s \in localValues, s.until = NULL, r.key = s.key,
                     r.value = s.value, r.from = s.from
              PROVE  \E x \in RowsAt(k, bn) : x.value = r.value
          BY <4>1, <4>3 DEF RowsAt, Holds
        <4>4. r.from # current
          BY <1>0, <3>1, <4>1
        <4> QED
          BY <4>1, <4>2, <4>3, <4>4, CommittedRowCases
      <3>3. ASSUME NEW s \in RowsAt(k, bn) PROVE RowsAt(k, bn)' # {}
        <4>1. s \in localValues /\ s.key = k /\ s.from <= bn
              /\ (s.until = NULL \/ s.until > bn)
          BY <3>3 DEF RowsAt, Holds
        <4>2. CASE s.key \notin EntriesToCommit \/ s.until # NULL
          <5>1. s \in localValues'
            BY <4>1, <4>2 DEF Commit, CommitLocalChanges
          <5> QED
            BY <4>1, <5>1 DEF RowsAt, Holds
        <4>3. CASE s.key \in EntriesToCommit /\ s.until = NULL
          <5>1. Closed(s, current) \in localValues'
            BY <4>1, <4>3 DEF Commit, CommitLocalChanges
          <5>2. /\ Closed(s, current).key = k
                /\ Closed(s, current).from = s.from
                /\ Closed(s, current).until = current
            BY <4>1 DEF Closed, TypeOK, LocalValueRow
          <5> QED
            BY <3>1, <4>1, <5>1, <5>2 DEF RowsAt, Holds
        <4> QED
          BY <4>2, <4>3
      <3> QED
        BY <1>d, <3>1, <3>2, <3>3 DEF KeyAccounted, RowsSealed
    <2> QED
      BY <2>1, <2>2
  <1> QED
    BY <1>1, <1>2, <1>3, <1>4, <1>5 DEF KeyAccounted

(***************************************************************************)
(* A stamped value is a modification, not the absence of one.              *)
(***************************************************************************)
LEMMA RecordNotNull ==
  ASSUME NEW b \in Blocks, NEW v \in Stored
  PROVE  [block |-> b, value |-> v] # NULL
  BY NullRecordAssumption DEF Blocks

(***************************************************************************)
(* Every operation stamps what it writes with the current block, or with   *)
(* the visibility block of injected values.                                *)
(***************************************************************************)
LEMMA StampsKept ==
  ASSUME TypeOK, ModificationsStamped, [Next]_vars
  PROVE  ModificationsStamped'
  <1> SUFFICES ASSUME NEW k \in Keys, modifications'[k] # NULL
               PROVE  \/ modifications'[k].block = InitialVisibilityBlock
                      \/ /\ Fork < modifications'[k].block
                         /\ modifications'[k].block <= current'
    BY DEF ModificationsStamped
  <1>0. /\ current \in Int /\ current' \in {current, current + 1}
        /\ Fork \in Int /\ Fork < current
    BY BlockAssumption DEF TypeOK, ForkBlocks, Next, BlockNext, Set, SetBatch, Commit,
       SetInitial, SetBatchInitial, DeletePrefix, vars
  <1>1. \/ modifications'[k] = modifications[k]
        \/ \E v \in Stored : \/ modifications'[k] = [block |-> current, value |-> v]
                             \/ modifications'[k] = [block |-> InitialVisibilityBlock,
                                                    value |-> v]
    BY DEF TypeOK, Next, BlockNext, Set, SetBatch, Commit, SetInitial,
       SetBatchInitial, DeletePrefix, Stamped, vars
  <1>2. CASE modifications'[k] = modifications[k]
    <2>1. modifications[k].block \in Int
      BY <1>2, BlockAssumption DEF TypeOK, LocalSharedValue, Blocks
    <2> QED
      BY <1>0, <1>2, <2>1 DEF ModificationsStamped
  <1>3. ASSUME NEW v \in Stored, modifications'[k] = [block |-> current, value |-> v]
        PROVE  Fork < modifications'[k].block /\ modifications'[k].block <= current'
    <2>1. modifications'[k].block = current
      BY <1>3
    <2> QED
      BY <1>0, <2>1
  <1>4. ASSUME NEW v \in Stored,
               modifications'[k] = [block |-> InitialVisibilityBlock, value |-> v]
        PROVE  modifications'[k].block = InitialVisibilityBlock
    BY <1>4
  <1> QED
    BY <1>1, <1>2, <1>3, <1>4

(***************************************************************************)
(* The rows stay in order, and the map and the rows go on accounting for   *)
(* every sealed value of the keys only block production touched.           *)
(***************************************************************************)
THEOREM HistoryInvariant == Spec => []HistoryAccounted
<1>1. Init => HistoryAccounted
  BY BlockAssumption, NullAssumption
  DEF Init, HistoryAccounted, RowsOrdered, KeyAccounted, ModificationStamped,
      RowsOfModifiedKeyOnly, OpenRowHoldsModification,
      ModificationSealedSince, RowsSealed, RowsAt, ForkBlocks,
      ModificationsStamped
<1>2. TypeOK /\ HistoryAccounted /\ [Next]_vars => HistoryAccounted'
  <2> SUFFICES ASSUME TypeOK, HistoryAccounted, [Next]_vars
               PROVE  HistoryAccounted'
    OBVIOUS
  <2>a. \A k \in Keys : Pristine(k)' => Pristine(k) /\ KeyAccounted(k)
    BY PristineBefore DEF HistoryAccounted
  <2>b. UNCHANGED <<current, localValues>> => RowsOrdered'
    BY DEF HistoryAccounted, RowsOrdered, Precedes
  <2>c. ModificationsStamped'
    BY StampsKept DEF HistoryAccounted
  <2>1. ASSUME NEW k \in Keys, NEW v \in Stored, Set(k, v)
        PROVE  HistoryAccounted'
    <3>1. ASSUME NEW j \in Keys, Pristine(j)' PROVE KeyAccounted(j)'
      <4>1. CASE j = k
        <5>0. current \in Blocks
          BY BlockAssumption DEF TypeOK, ForkBlocks, Blocks
        <5>1. modifications'[j] = [block |-> current, value |-> v]
          BY <2>1, <4>1 DEF Set, TypeOK
        <5>2. modifications'[j] # NULL
          BY <5>1, <5>0, RecordNotNull
        <5> QED
          BY <2>1, <2>a, <3>1, <5>1, <5>2, WrittenKeyAccounted DEF Set
      <4>2. CASE j # k
        BY <2>1, <2>a, <3>1, <4>2, UntouchedKeyAccounted DEF Set, TypeOK
      <4> QED
        BY <4>1, <4>2
    <3> QED
      BY <2>1, <2>b, <2>c, <3>1 DEF HistoryAccounted, Set
  <2>2. ASSUME NEW ks \in SUBSET Keys, NEW w \in [ks -> Stored],
               SetBatch(ks, w)
        PROVE  HistoryAccounted'
    <3>1. ASSUME NEW j \in Keys, Pristine(j)' PROVE KeyAccounted(j)'
      <4>1. CASE j \in ks
        <5>0. current \in Blocks
          BY BlockAssumption DEF TypeOK, ForkBlocks, Blocks
        <5>1. modifications'[j] = [block |-> current, value |-> w[j]]
          BY <2>2, <4>1 DEF SetBatch, Stamped
        <5>2. modifications'[j] # NULL
          BY <5>1, <5>0, <4>1, RecordNotNull
        <5> QED
          BY <2>2, <2>a, <3>1, <5>1, <5>2, WrittenKeyAccounted DEF SetBatch
      <4>2. CASE j \notin ks
        BY <2>2, <2>a, <3>1, <4>2, UntouchedKeyAccounted
        DEF SetBatch, Stamped
      <4> QED
        BY <4>1, <4>2
    <3> QED
      BY <2>2, <2>b, <2>c, <3>1 DEF HistoryAccounted, SetBatch
  <2>3. CASE Commit
    BY <2>3, <2>a, <2>c, CommitKeepsOrder, CommitKeyAccounted DEF HistoryAccounted
  <2>4. ASSUME NEW k \in Keys, NEW v \in Stored, SetInitial(k, v)
        PROVE  HistoryAccounted'
    <3>1. ASSUME NEW j \in Keys, Pristine(j)' PROVE KeyAccounted(j)'
      BY <2>4, <2>a, <3>1, UntouchedKeyAccounted
      DEF SetInitial, TypeOK, Pristine
    <3> QED
      BY <2>4, <2>b, <2>c, <3>1 DEF HistoryAccounted, SetInitial
  <2>5. ASSUME NEW ks \in SUBSET Keys, NEW w \in [ks -> Stored],
               SetBatchInitial(ks, w)
        PROVE  HistoryAccounted'
    <3>1. ASSUME NEW j \in Keys, Pristine(j)' PROVE KeyAccounted(j)'
      BY <2>5, <2>a, <3>1, UntouchedKeyAccounted
      DEF SetBatchInitial, Stamped, Pristine
    <3> QED
      BY <2>5, <2>b, <2>c, <3>1 DEF HistoryAccounted, SetBatchInitial
  <2>6. ASSUME NEW p \in Prefixes, DeletePrefix(p) PROVE HistoryAccounted'
    <3>1. ASSUME NEW j \in Keys, Pristine(j)' PROVE KeyAccounted(j)'
      BY <2>6, <2>a, <3>1, UntouchedKeyAccounted
      DEF DeletePrefix, Pristine, UnderDeletedPrefix
    <3> QED
      BY <2>6, <2>b, <2>c, <3>1 DEF HistoryAccounted, DeletePrefix
  <2>7. CASE UNCHANGED vars
    <3>1. ASSUME NEW j \in Keys, Pristine(j)' PROVE KeyAccounted(j)'
      BY <2>7, <2>a, <3>1, UntouchedKeyAccounted DEF vars
    <3> QED
      BY <2>7, <2>b, <2>c, <3>1 DEF HistoryAccounted, vars
  <2> QED
    BY <2>1, <2>2, <2>3, <2>4, <2>5, <2>6, <2>7 DEF Next, BlockNext
<1> QED
  BY <1>1, <1>2, TypeInvariant, PTL DEF Spec

(***************************************************************************)
(* At most one row of a key holds at a block, so the unordered query of    *)
(* get_local_value_at_block has one answer.                                *)
(***************************************************************************)
THEOREM DisjointRanges == Spec => []RangesDisjoint
<1>1. TypeOK /\ HistoryAccounted => RangesDisjoint
  <2> SUFFICES ASSUME TypeOK, HistoryAccounted, NEW k \in Keys,
                      NEW bn \in Blocks, NEW r \in RowsAt(k, bn),
                      NEW s \in RowsAt(k, bn), r # s
               PROVE  FALSE
    BY DEF RangesDisjoint
  <2>1. /\ r \in localValues /\ s \in localValues /\ r.key = s.key
        /\ r.from <= bn /\ s.from <= bn
        /\ r.until = NULL \/ r.until > bn
        /\ s.until = NULL \/ s.until > bn
    BY DEF RowsAt, Holds
  <2>2. /\ bn \in Int /\ r.from \in Int /\ s.from \in Int
        /\ r.until # NULL => r.until \in Int
        /\ s.until # NULL => s.until \in Int
    BY <2>1, BlockAssumption DEF TypeOK, LocalValueRow, Blocks
  <2> QED
    BY <2>1, <2>2 DEF HistoryAccounted, RowsOrdered, Precedes
<1> QED
  BY <1>1, TypeInvariant, HistoryInvariant, PTL

(***************************************************************************)
(* The invariant accounts for what get returns at a committed block,       *)
(* whether the map or the rows answer.                                     *)
(***************************************************************************)
LEMMA CommittedStable ==
  ASSUME TypeOK, HistoryAccounted
  PROVE  CommittedStateStable
  <1> SUFFICES ASSUME
                      NEW bn \in (Fork + 1)..(current - 1), NEW k \in Keys,
                      Pristine(k)
               PROVE  Get(bn, k) = sealed[bn][k]
    BY DEF CommittedStateStable
  <1>1. KeyAccounted(k)
    BY DEF HistoryAccounted
  <1>2. /\ Fork \in Int /\ current \in Int /\ bn \in Int
        /\ Fork < bn /\ bn < current
    BY BlockAssumption DEF TypeOK, ForkBlocks
  <1>3. modifications[k] # NULL => modifications[k].block \in Int
    BY BlockAssumption DEF TypeOK, LocalSharedValue, Blocks
  <1>4. ~DeletionAnswers(k) /\ IsHistorical(bn)
    BY <1>2 DEF Pristine, DeletionAnswers, IsHistorical
  <1>5. CASE ModificationAnswers(k, bn)
    BY <1>1, <1>2, <1>3, <1>5
    DEF Get, ModificationAnswers, KeyAccounted, ModificationSealedSince
  <1>6. CASE ~ModificationAnswers(k, bn) /\ RowsAt(k, bn) # {}
    <2>1. Get(bn, k) = (CHOOSE r \in RowsAt(k, bn) : TRUE).value
      BY <1>2, <1>4, <1>6 DEF Get, GetLocalValueAtBlock
    <2>2. (CHOOSE r \in RowsAt(k, bn) : TRUE) \in RowsAt(k, bn)
      BY <1>6
    <2> QED
      BY <1>1, <2>1, <2>2 DEF KeyAccounted, RowsSealed
  <1>7. CASE ~ModificationAnswers(k, bn) /\ RowsAt(k, bn) = {}
    BY <1>1, <1>2, <1>4, <1>7 DEF Get, KeyAccounted, RowsSealed
  <1> QED
    BY <1>5, <1>6, <1>7

(***************************************************************************)
(* get at a committed block returns what the block was committed with.     *)
(***************************************************************************)
THEOREM CommittedReads == Spec => []CommittedStateStable
  BY CommittedStable, TypeInvariant, HistoryInvariant, PTL

-----------------------------------------------------------------------------
(***************************************************************************)
(* What get answers for a key only block production touched, at the fork   *)
(* point and below it, at a committed block, and at the block being built. *)
(***************************************************************************)
LEMMA PristineReads ==
  ASSUME TypeOK, HistoryAccounted, NEW k \in Keys, Pristine(k)
  PROVE  /\ \A bn \in 0..Fork : Get(bn, k) = Remote[bn][k]
         /\ \A bn \in (Fork + 1)..(current - 1) :
               /\ Get(bn, k) = sealed[bn][k]
               /\ \A r \in RowsAt(k, bn) : r.value = Get(bn, k)
               /\ RowsAt(k, bn) = {} => Get(bn, k) = Remote[Fork][k]
         /\ Get(current, k) = IF modifications[k] # NULL THEN modifications[k].value
                              ELSE Remote[Fork][k]
  <1>1. KeyAccounted(k)
    BY DEF HistoryAccounted
  <1>2. Fork \in Nat /\ current \in Int /\ Fork < current
    BY BlockAssumption DEF TypeOK, ForkBlocks
  <1>3. modifications[k] # NULL => modifications[k].block \in Int
    BY BlockAssumption DEF TypeOK, LocalSharedValue, Blocks
  <1>4. ~DeletionAnswers(k)
    BY DEF Pristine, DeletionAnswers
  <1>5. ASSUME NEW bn \in 0..Fork PROVE Get(bn, k) = Remote[bn][k]
    <2>1. ~ModificationAnswers(k, bn)
      BY <1>1, <1>2, <1>3 DEF KeyAccounted, ModificationStamped, ModificationAnswers
    <2>2. bn # current /\ ~IsHistorical(bn)
      BY <1>2 DEF IsHistorical
    <2> QED
      BY <1>4, <2>1, <2>2 DEF Get
  <1>6. ASSUME NEW bn \in (Fork + 1)..(current - 1)
        PROVE  /\ Get(bn, k) = sealed[bn][k]
               /\ \A r \in RowsAt(k, bn) : r.value = Get(bn, k)
               /\ RowsAt(k, bn) = {} => Get(bn, k) = Remote[Fork][k]
    <2>1. Get(bn, k) = sealed[bn][k]
      BY CommittedStable DEF CommittedStateStable
    <2> QED
      BY <1>1, <2>1 DEF KeyAccounted, RowsSealed
  <1>7. Get(current, k) = IF modifications[k] # NULL THEN modifications[k].value
                          ELSE Remote[Fork][k]
    BY <1>4 DEF Get, ModificationAnswers
  <1> QED
    BY <1>5, <1>6, <1>7

(***************************************************************************)
(* keys_by_prefix lists a key exactly when get finds it.                   *)
(***************************************************************************)
LEMMA ListingsMatch ==
  ASSUME TypeOK, HistoryAccounted
  PROVE  KeysMatchReads
  <1> SUFFICES ASSUME NEW p \in Prefixes, NEW k \in p
               PROVE  /\ \A bn \in (Fork + 1)..current :
                            Pristine(k) => (k \in KeysByPrefix(p, bn) <=> Get(bn, k) # NULL)
                      /\ modifications[k] = NULL =>
                            (k \in NextKeys(p) <=> Get(current, k) # NULL)
    BY DEF KeysMatchReads
  <1>1. k \in Keys
    BY PrefixAssumption
  <1>2. Fork \in Nat /\ current \in Int /\ Fork < current
    BY BlockAssumption DEF TypeOK, ForkBlocks
  <1>3. ASSUME Pristine(k) PROVE k \in KeysByPrefix(p, current) <=> Get(current, k) # NULL
    <2>1. k \in KeysByPrefix(p, current) <=> k \in MergeKeysWithInMemory(p)
      BY <1>2 DEF KeysByPrefix
    <2>2. Get(current, k) = IF modifications[k] # NULL THEN modifications[k].value
                            ELSE Remote[Fork][k]
      BY <1>1, <1>3, PristineReads
    <2> QED
      BY <1>3, <2>1, <2>2 DEF MergeKeysWithInMemory, RemoteKeys, Pristine
  <1>4. ASSUME Pristine(k), NEW bn \in (Fork + 1)..(current - 1)
        PROVE  k \in KeysByPrefix(p, bn) <=> Get(bn, k) # NULL
    <2>1. k \in KeysByPrefix(p, bn) <=> k \in MergeKeysWithCache(p, bn)
      BY <1>2 DEF KeysByPrefix
    <2>2. /\ \A r \in RowsAt(k, bn) : r.value = Get(bn, k)
          /\ RowsAt(k, bn) = {} => Get(bn, k) = Remote[Fork][k]
      BY <1>1, <1>4, PristineReads
    <2>3. k \in GetLocalKeysAtBlock(p, bn) <=> \E r \in RowsAt(k, bn) : r.value # NULL
      BY DEF GetLocalKeysAtBlock, RowsAt
    <2>4. k \in GetLocalDeletedKeysAtBlock(p, bn) <=> \E r \in RowsAt(k, bn) : r.value = NULL
      BY DEF GetLocalDeletedKeysAtBlock, RowsAt
    <2>5. k \in RemoteKeys(p) <=> Remote[Fork][k] # NULL
      BY DEF RemoteKeys
    <2>6. CASE RowsAt(k, bn) = {}
      BY <2>1, <2>2, <2>3, <2>4, <2>5, <2>6 DEF MergeKeysWithCache
    <2>7. CASE RowsAt(k, bn) # {}
      BY <2>1, <2>2, <2>3, <2>4, <2>7 DEF MergeKeysWithCache
    <2> QED
      BY <2>6, <2>7
  <1>5. ASSUME modifications[k] = NULL
        PROVE  k \in NextKeys(p) <=> Get(current, k) # NULL
    BY <1>5 DEF NextKeys, RemoteKeys, Get, ModificationAnswers, DeletionAnswers
  <1>6. \A bn \in (Fork + 1)..current : bn = current \/ bn \in (Fork + 1)..(current - 1)
    BY <1>2
  <1> QED
    BY <1>3, <1>4, <1>5, <1>6

(***************************************************************************)
(* get_batch answers as get does.                                          *)
(***************************************************************************)
LEMMA BatchMatches ==
  ASSUME TypeOK, HistoryAccounted
  PROVE  BatchAgreesOnPristine
  <1> SUFFICES ASSUME NEW bn \in 0..current, NEW k \in Keys, Pristine(k)
               PROVE  GetBatch(bn, k) = Get(bn, k)
    BY DEF BatchAgreesOnPristine
  <1>1. Fork \in Nat /\ current \in Int /\ Fork < current
    BY BlockAssumption DEF TypeOK, ForkBlocks
  <1>2. ~DeletionAnswers(k)
    BY DEF Pristine, DeletionAnswers
  <1>3. CASE bn \in 0..Fork
    <2>1. Get(bn, k) = Remote[bn][k]
      BY <1>3, PristineReads
    <2>2. bn # current /\ ~IsHistorical(bn)
      BY <1>1, <1>3 DEF IsHistorical
    <2> QED
      BY <2>1, <2>2 DEF GetBatch
  <1>4. CASE bn \notin 0..Fork
    <2>1. bn = current \/ IsHistorical(bn)
      BY <1>1, <1>4 DEF IsHistorical
    <2> QED
      BY <1>2, <2>1 DEF Get, GetBatch
  <1> QED
    BY <1>3, <1>4

(***************************************************************************)
(* Injected values show from the fork point on and not before.             *)
(***************************************************************************)
LEMMA InjectionsMatch ==
  ASSUME TypeOK, HistoryAccounted
  PROVE  PreForkReadsRemote /\ InjectedVisible
  <1>1. Fork \in Nat /\ current \in Int /\ Fork < current
    BY BlockAssumption DEF TypeOK, ForkBlocks
  <1>2. \A k \in Keys : modifications[k] # NULL => modifications[k].block \in Int
    BY BlockAssumption DEF TypeOK, LocalSharedValue, Blocks
  <1>3. ASSUME NEW bn \in 0..(Fork - 1), NEW k \in Keys, ~UnderDeletedPrefix(k)
        PROVE  Get(bn, k) = Remote[bn][k]
    <2>1. ~ModificationAnswers(k, bn)
      BY <1>1, <1>2 DEF HistoryAccounted, ModificationsStamped, InitialVisibilityBlock,
         ModificationAnswers
    <2>2. bn # current /\ ~IsHistorical(bn)
      BY <1>1 DEF IsHistorical
    <2> QED
      BY <1>3, <2>1, <2>2 DEF Get, DeletionAnswers
  <1>4. ASSUME NEW k \in Keys, NEW bn \in (InitialVisibilityBlock + 1)..current,
               modifications[k] # NULL, modifications[k].block <= Fork
        PROVE  Get(bn, k) = modifications[k].value
    <2>1. modifications[k].block < bn
      BY <1>1, <1>2, <1>4 DEF HistoryAccounted, ModificationsStamped, InitialVisibilityBlock
    <2> QED
      BY <1>4, <2>1 DEF Get, ModificationAnswers
  <1> QED
    BY <1>3, <1>4 DEF PreForkReadsRemote, InjectedVisible

(***************************************************************************)
(* All ways to read the layer agree: keys_by_prefix and next_key with get, *)
(* get_batch with get, reads below the fork point with the live chain, and *)
(* reads from it on with what was injected.                                *)
(***************************************************************************)
THEOREM AllReadsAgree == Spec => []ReadsAgree
<1>1. TypeOK /\ HistoryAccounted => ReadsAgree
  BY ListingsMatch, BatchMatches, InjectionsMatch DEF ReadsAgree
<1> QED
  BY <1>1, TypeInvariant, HistoryInvariant, PTL

-----------------------------------------------------------------------------
(***************************************************************************)
(* What every block of the fork shows of the keys only block production    *)
(* touched.                                                                *)
(***************************************************************************)
PristineAccounted ==
    \A k \in Keys : Pristine(k) =>
        /\ Get(Fork, k) = Remote[Fork][k]
        /\ \A bn \in (Fork + 1)..(current - 1) : Get(bn, k) = sealed[bn][k]
        /\ Get(current, k) = IF modifications[k] # NULL THEN modifications[k].value
                             ELSE Remote[Fork][k]
        /\ Get(current, k) \in Stored

LEMMA PristineNow == TypeOK /\ HistoryAccounted => PristineAccounted
  <1>1. Fork \in 0..Fork
    BY BlockAssumption
  <1> QED
    BY <1>1, PristineReads, GetCurrentType DEF PristineAccounted

LEMMA PristineNext == (TypeOK /\ HistoryAccounted)' => PristineAccounted'
  BY PristineNow, PTL

(***************************************************************************)
(* A step that commits nothing leaves what every earlier block shows of a  *)
(* key only block production touched.                                      *)
(***************************************************************************)
LEMMA HistoryKept ==
  ASSUME TypeOK, PristineAccounted, PristineAccounted',
         UNCHANGED <<current, sealed>>,
         NEW k \in Keys, Pristine(k), Pristine(k)', NEW bn \in Fork..(current - 1)
  PROVE  Get(bn, k)' = Get(bn, k)
  <1>1. Fork \in Nat /\ current \in Int /\ Fork < current
    BY BlockAssumption DEF TypeOK, ForkBlocks
  <1>2. CASE bn = Fork
    BY <1>2 DEF PristineAccounted
  <1>3. CASE bn # Fork
    <2>0. bn \in (Fork + 1)..(current - 1)
      BY <1>1, <1>3
    <2>1. Get(bn, k) = sealed[bn][k]
      BY <2>0 DEF PristineAccounted
    <2>2. Get(bn, k)' = sealed'[bn][k]
      BY <2>0 DEF PristineAccounted
    <2> QED
      BY <2>1, <2>2
  <1> QED
    BY <1>2, <1>3

(***************************************************************************)
(* A new layer maps to the initial versioned state.                        *)
(***************************************************************************)
LEMMA InitMaps == Init => Versioned!VSInit
  <1> SUFFICES ASSUME Init PROVE Versioned!VSInit
    OBVIOUS
  <1>1. Fork \in Nat /\ current = Fork + 1
    BY BlockAssumption DEF Init
  <1>2. ASSUME NEW k \in Keys
        PROVE  Pristine(k) /\ Get(current, k) = Remote[Fork][k] /\ Get(Fork, k) = Remote[Fork][k]
    <2>1. Pristine(k) /\ modifications[k] = NULL /\ ~UnderDeletedPrefix(k)
      BY DEF Init, Pristine, UnderDeletedPrefix
    <2>2. Get(current, k) = Remote[Fork][k]
      BY <2>1 DEF Get, ModificationAnswers, DeletionAnswers
    <2>3. Fork # current /\ ~IsHistorical(Fork)
      BY <1>1 DEF IsHistorical
    <2>4. Get(Fork, k) = Remote[Fork][k]
      BY <2>1, <2>3 DEF Get, ModificationAnswers, DeletionAnswers
    <2> QED
      BY <2>1, <2>2, <2>4
  <1>3. Remote[Fork] = [k \in Keys |-> Remote[Fork][k]]
    BY BlockAssumption, RemoteAssumption
  <1>4. {x \in Keys : Pristine(x)} = Keys
    BY <1>2
  <1>5. PristineState(current) = Remote[Fork] /\ PristineState(Fork) = Remote[Fork]
    BY <1>2, <1>3, <1>4 DEF PristineState
  <1>6. Fork..(current - 1) = {Fork}
    BY <1>1
  <1> QED
    BY <1>5, <1>6 DEF Versioned!VSInit

(***************************************************************************)
(* Writes of the block being built overwrite the working state.            *)
(***************************************************************************)
LEMMA WritesOverwrite ==
  ASSUME TypeOK, PristineAccounted, PristineAccounted',
         UNCHANGED <<deletedPrefixes, current, localValues, sealed, initialised>>
  PROVE  Versioned!Overwrite
  <1>1. \A k \in Keys : Pristine(k)' <=> Pristine(k)
    BY DEF Pristine, UnderDeletedPrefix
  <1>2. \A k \in Keys : Pristine(k) => Get(current, k)' \in Stored
    BY <1>1 DEF PristineAccounted
  <1>3. PristineState(current)' \in [DOMAIN PristineState(current) -> Stored]
    BY <1>1, <1>2 DEF PristineState
  <1>4. ASSUME NEW bn \in Fork..(current - 1) PROVE PristineState(bn)' = PristineState(bn)
    <2>1. \A k \in {x \in Keys : Pristine(x)} : Get(bn, k)' = Get(bn, k)
      BY <1>1, HistoryKept
    <2> QED
      BY <1>1, <2>1 DEF PristineState
  <1>5. [bn \in Fork..(current - 1) |-> PristineState(bn)]'
          = [bn \in Fork..(current - 1) |-> PristineState(bn)]
    BY <1>4
  <1> QED
    BY <1>3, <1>5 DEF Versioned!Overwrite

(***************************************************************************)
(* Injections and deletions of prefixes withdraw the keys they touch.      *)
(***************************************************************************)
LEMMA TamperingWithdraws ==
  ASSUME TypeOK, PristineAccounted, PristineAccounted',
         UNCHANGED <<current, sealed>>,
         \A k \in Keys : Pristine(k)' => /\ Pristine(k)
                                        /\ modifications'[k] = modifications[k]
  PROVE  Versioned!Withdraw
  <1> DEFINE Kept == {x \in Keys : Pristine(x)'}
  <1>1. Kept \in SUBSET DOMAIN PristineState(current)
    BY DEF PristineState
  <1>2. \A k \in Kept : Get(current, k)' = Get(current, k)
    BY DEF PristineAccounted
  <1>3. PristineState(current)' = [k \in Kept |-> PristineState(current)[k]]
    BY <1>2 DEF PristineState
  <1>4. ASSUME NEW bn \in Fork..(current - 1)
        PROVE  PristineState(bn)' = [k \in Kept |-> PristineState(bn)[k]]
    <2>1. \A k \in Kept : Get(bn, k)' = Get(bn, k)
      BY HistoryKept
    <2> QED
      BY <2>1 DEF PristineState
  <1>5. [bn \in Fork..(current - 1) |-> PristineState(bn)]'
          = [bn \in Fork..(current - 1) |-> [k \in Kept |-> PristineState(bn)[k]]]
    BY <1>4
  <1> HIDE DEF Kept
  <1> QED
    BY <1>1, <1>3, <1>5 DEF Versioned!Withdraw

(***************************************************************************)
(* A commit seals the working state as the next block.                     *)
(***************************************************************************)
LEMMA CommitSeals ==
  ASSUME TypeOK, PristineAccounted, PristineAccounted', Commit
  PROVE  Versioned!Seal
  <1>1. /\ Fork \in Nat /\ current \in Int /\ Fork < current
        /\ current' = current + 1 /\ current \in ForkBlocks
    BY BlockAssumption DEF TypeOK, ForkBlocks, Commit
  <1>2. \A k \in Keys : Pristine(k)' <=> Pristine(k)
    BY DEF Commit, Pristine, UnderDeletedPrefix
  <1>3. ASSUME NEW k \in Keys, Pristine(k)
        PROVE  Get(current, k)' = Get(current, k)
    BY <1>2, <1>3 DEF PristineAccounted, Commit
  <1>4. ASSUME NEW k \in Keys, Pristine(k), NEW n \in Fork..current
        PROVE  Get(n, k)' = IF n = current THEN Get(current, k) ELSE Get(n, k)
    <2>1. CASE n = Fork
      BY <1>1, <1>2, <1>4, <2>1 DEF PristineAccounted
    <2>2. CASE n # Fork
      <3>0. n \in (Fork + 1)..(current' - 1)
        BY <1>1, <2>2
      <3>1. Get(n, k)' = sealed'[n][k]
        BY <1>2, <1>4, <3>0 DEF PristineAccounted
      <3>2. sealed' = [sealed EXCEPT ![current] = [j \in Keys |-> Get(current, j)]]
        BY DEF Commit
      <3>3. CASE n = current
        BY <1>1, <3>1, <3>2, <3>3 DEF TypeOK
      <3>4. CASE n # current
        <4>1. n \in (Fork + 1)..(current - 1) /\ n \in ForkBlocks
          BY <1>1, <3>0, <3>4, BlockAssumption DEF ForkBlocks
        <4>2. Get(n, k) = sealed[n][k]
          BY <1>4, <4>1 DEF PristineAccounted
        <4> QED
          BY <3>1, <3>2, <3>4, <4>1, <4>2 DEF TypeOK
      <3> QED
        BY <3>3, <3>4
    <2> QED
      BY <2>1, <2>2
  <1>5. PristineState(current)' = PristineState(current)
    BY <1>2, <1>3 DEF PristineState
  <1>6. ASSUME NEW n \in Fork..current
        PROVE  PristineState(n)' = IF n = current THEN PristineState(current) ELSE PristineState(n)
    BY <1>2, <1>4 DEF PristineState
  <1> DEFINE History == [bn \in Fork..(current - 1) |-> PristineState(bn)]
  <1>7. /\ DOMAIN History = Fork..(current - 1)
        /\ \A c \in Fork..(current - 1) : History[c] = PristineState(c)
    OBVIOUS
  <1>8. /\ current \in {c + 1 : c \in DOMAIN History} \ DOMAIN History
        /\ DOMAIN History \cup {current} = Fork..current
    <2>1. current - 1 \in Fork..(current - 1) /\ current = (current - 1) + 1
      BY <1>1
    <2>2. current \notin Fork..(current - 1)
      BY <1>1
    <2>3. Fork..(current - 1) \cup {current} = Fork..current
      BY <1>1
    <2> QED
      BY <1>7, <2>1, <2>2, <2>3
  <1>9. History' = [n \in DOMAIN History \cup {current} |->
                      IF n = current THEN PristineState(current) ELSE History[n]]
    <2>1. Fork..(current' - 1) = Fork..current
      BY <1>1
    <2>2. History' = [n \in Fork..current |-> PristineState(n)']
      BY <2>1
    <2>3. \A n \in Fork..current : n # current => n \in Fork..(current - 1)
      BY <1>1
    <2> HIDE DEF History
    <2> QED
      BY <1>6, <1>7, <1>8, <2>2, <2>3
  <1> QED
    BY <1>5, <1>8, <1>9 DEF Versioned!Seal

(***************************************************************************)
(* The local storage layer implements a table of frozen states: writes     *)
(* change the working state alone, a commit appends it to the history, and *)
(* injections and prefix deletions withdraw keys, for any number of keys,  *)
(* values and blocks.                                                      *)
(***************************************************************************)
THEOREM LayerIsVersionedState == Spec => ImplementsVersionedState
<1> DEFINE Inv == TypeOK /\ HistoryAccounted
<1>1. Init => Versioned!VSInit
  BY InitMaps
<1>2. Inv /\ Inv' /\ [Next]_vars
        => [Versioned!Overwrite \/ Versioned!Seal \/ Versioned!Withdraw]_(Versioned!vsVars)
  <2> SUFFICES ASSUME Inv, Inv', [Next]_vars
               PROVE  [Versioned!Overwrite \/ Versioned!Seal \/ Versioned!Withdraw]_(Versioned!vsVars)
    OBVIOUS
  <2>0. TypeOK /\ PristineAccounted /\ PristineAccounted'
    BY PristineNow, PristineNext
  <2>1. ASSUME NEW k \in Keys, NEW v \in Stored, Set(k, v) PROVE Versioned!Overwrite
    BY <2>0, <2>1, WritesOverwrite DEF Set
  <2>2. ASSUME NEW ks \in SUBSET Keys, NEW w \in [ks -> Stored], SetBatch(ks, w)
        PROVE  Versioned!Overwrite
    BY <2>0, <2>2, WritesOverwrite DEF SetBatch
  <2>3. CASE Commit
    BY <2>0, <2>3, CommitSeals
  <2>4. ASSUME NEW k \in Keys, NEW v \in Stored, SetInitial(k, v) PROVE Versioned!Withdraw
    <3>1. \A j \in Keys : Pristine(j)' => Pristine(j) /\ modifications'[j] = modifications[j]
      BY <2>0, <2>4, PristineBefore DEF SetInitial, Pristine, TypeOK
    <3> QED
      BY <2>0, <2>4, <3>1, TamperingWithdraws DEF SetInitial
  <2>5. ASSUME NEW ks \in SUBSET Keys, NEW w \in [ks -> Stored], SetBatchInitial(ks, w)
        PROVE  Versioned!Withdraw
    <3>1. \A j \in Keys : Pristine(j)' => Pristine(j) /\ modifications'[j] = modifications[j]
      BY <2>0, <2>5, PristineBefore DEF SetBatchInitial, Stamped, Pristine, TypeOK
    <3> QED
      BY <2>0, <2>5, <3>1, TamperingWithdraws DEF SetBatchInitial
  <2>6. ASSUME NEW p \in Prefixes, DeletePrefix(p) PROVE Versioned!Withdraw
    <3>1. \A j \in Keys : Pristine(j)' => Pristine(j) /\ modifications'[j] = modifications[j]
      BY <2>0, <2>6, PristineBefore DEF DeletePrefix, Pristine, UnderDeletedPrefix, TypeOK
    <3> QED
      BY <2>0, <2>6, <3>1, TamperingWithdraws DEF DeletePrefix
  <2>7. CASE UNCHANGED vars
    <3>1. \A bn, k : Get(bn, k)' = Get(bn, k)
      BY <2>7 DEF vars, Get, ModificationAnswers, DeletionAnswers, UnderDeletedPrefix,
         IsHistorical, RowsAt, GetLocalValueAtBlock
    <3>2. \A k : Pristine(k)' <=> Pristine(k)
      BY <2>7 DEF vars, Pristine, UnderDeletedPrefix
    <3>3. \A bn : PristineState(bn)' = PristineState(bn)
      BY <3>1, <3>2 DEF PristineState
    <3>4. current' = current
      BY <2>7 DEF vars
    <3> QED
      BY <3>3, <3>4 DEF Versioned!vsVars
  <2> QED
    BY <2>1, <2>2, <2>3, <2>4, <2>5, <2>6, <2>7 DEF Next, BlockNext
<1> QED
  BY <1>1, <1>2, TypeInvariant, HistoryInvariant, PTL
  DEF Spec, ImplementsVersionedState, Versioned!VSSpec
=============================================================================
