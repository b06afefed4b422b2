------------------------ MODULE RemoteStorageProofs ------------------------
(***************************************************************************)
(* Proofs about RemoteStorage, for every set of keys and prefixes, page    *)
(* size and number of concurrent tasks, with tasks that stop at any step.  *)
(***************************************************************************)
EXTENDS RemoteStorage, FiniteSetTheorems, TLAPS

(***************************************************************************)
(* Rows are only ever added to the storage table.                          *)
(***************************************************************************)
RowsKept == \A k \in Keys : storage[k] # Unknown => storage'[k] # Unknown

LEMMA IdleType == Idle \in Task
  BY DEF Idle, Task, Marks

LEMMA LiveType ==
  ASSUME NEW k \in Keys
  PROVE  Live[k] \in Stored /\ Live[k] # Unknown
  BY LiveAssumption

(***************************************************************************)
(* Caching keys keeps the rows, adds theirs and stays faithful.            *)
(***************************************************************************)
LEMMA BatchStored ==
  ASSUME TypeOK, CacheFaithful, NEW ks, storage' = SetStorageBatch(ks)
  PROVE  /\ storage' \in [Keys -> Stored \cup {Unknown}]
         /\ CacheFaithful' /\ RowsKept
         /\ \A k \in Keys \cap ks : storage'[k] # Unknown
  BY LiveType DEF SetStorageBatch, TypeOK, CacheFaithful, RowsKept

LEMMA PositiveKeys ==
  ASSUME NEW p \in Prefixes
  PROVE  \A k \in LiveKeys(p, 0) : ~(k <= 0)
  BY PrefixAssumption, KeyAssumption DEF LiveKeys

LEMMA PageFacts ==
  ASSUME NEW p \in Prefixes, NEW start \in Marks, NEW page,
         IsPage(page, p, start)
  PROVE  /\ page \subseteq p /\ page \subseteq Keys
         /\ \A last : IsLastOf(last, page) =>
               /\ last \in Keys
               /\ \A k \in LiveKeys(p, 0) :
                     k <= last => k <= start \/ k \in page
         /\ IsLastPage(page) =>
               \A k \in LiveKeys(p, 0) : k <= start \/ k \in page
  <1>1. p \subseteq Keys
    BY PrefixAssumption
  <1>2. page \subseteq p /\ page \subseteq Keys
    BY <1>1 DEF IsPage, LiveKeys
  <1>3. \A k \in LiveKeys(p, 0) : k <= start \/ k \in LiveKeys(p, start)
    BY <1>1, KeyAssumption DEF LiveKeys, Marks
  <1>4. ASSUME NEW last, IsLastOf(last, page), NEW k \in LiveKeys(p, 0),
               k <= last
        PROVE  last \in Keys /\ (k <= start \/ k \in page)
    <2>1. last \in page /\ last \in Keys /\ k \in Keys
      BY <1>1, <1>2, <1>4 DEF IsLastOf, LiveKeys
    <2>2. k = last \/ k < last
      BY <1>4, <2>1, KeyAssumption
    <2> QED
      BY <1>3, <2>1, <2>2 DEF IsPage
  <1>5. ASSUME NEW last, IsLastOf(last, page) PROVE last \in Keys
    BY <1>2, <1>5 DEF IsLastOf
  <1>6. ASSUME IsLastPage(page) PROVE page = LiveKeys(p, start)
    BY <1>6, PageAssumption DEF IsLastPage, IsPage
  <1> QED
    BY <1>2, <1>3, <1>4, <1>5, <1>6

-----------------------------------------------------------------------------
(* Steps of one task. *)

(***************************************************************************)
(* A step of t that leaves the other tasks alone.                          *)
(***************************************************************************)
StepOf(t) ==
    /\ task' \in [Tasks -> Task]
    /\ \A u \in Tasks \ {t} : task'[u] = task[u]

(***************************************************************************)
(* It keeps the invariant if it keeps the tables' part of it, loses no row *)
(* and leaves t itself well typed and covered.                             *)
(***************************************************************************)
LEMMA OneStep ==
  ASSUME TypeOK, Covered, NEW t \in Tasks, StepOf(t), LocalsSet(t)',
         storage' \in [Keys -> Stored \cup {Unknown}],
         scans' \in [Prefixes -> Progress \cup {NULL}],
         RowsKept, CacheFaithful', ScansCovered',
         TaskCovered(t)', ListsAll(t)'
  PROVE  TypeOK' /\ Covered'
  <1>1. \A u \in Tasks : LocalsSet(u)'
    BY DEF TypeOK, LocalsSet, StepOf
  <1>2. ASSUME NEW u \in Tasks \ {t} PROVE TaskCovered(u)' /\ ListsAll(u)'
    <2>0. task[u] \in Task /\ task'[u] = task[u] /\ LocalsSet(u)
      BY DEF TypeOK, StepOf
    <2>1. /\ task[u].pc \in {"scan", "recordScan", "listed", "record"}
                => task[u].prefix \in Prefixes
          /\ task[u].page \subseteq Keys
      BY <2>0 DEF LocalsSet, Task
    <2>2. TaskCovered(u) /\ ListsAll(u)
      BY DEF Covered, NoKeyMissed
    <2>3. TaskCovered(u)'
      BY <2>0, <2>1, <2>2, PrefixAssumption
      DEF TaskCovered, RowsKept, LiveKeys, IsPage
    <2>4. ListsAll(u)'
      BY <2>0, <2>1, <2>2, PrefixAssumption
      DEF ListsAll, GetKeysByPrefix, Cached, RowsKept, LiveKeys
    <2> QED
      BY <2>3, <2>4
  <1> QED
    BY <1>1, <1>2 DEF TypeOK, Covered, NoKeyMissed, StepOf

(***************************************************************************)
(* A step that does not touch the tables.                                  *)
(***************************************************************************)
LEMMA TablesKept ==
  ASSUME TypeOK, Covered, NEW t \in Tasks, StepOf(t), LocalsSet(t)',
         UNCHANGED <<storage, scans>>, TaskCovered(t)', ListsAll(t)'
  PROVE  TypeOK' /\ Covered'
  <1>1. /\ storage' \in [Keys -> Stored \cup {Unknown}]
        /\ scans' \in [Prefixes -> Progress \cup {NULL}]
        /\ RowsKept /\ CacheFaithful' /\ ScansCovered'
    BY DEF TypeOK, Covered, RowsKept, CacheFaithful, ScansCovered
  <1> QED
    BY <1>1, OneStep

(***************************************************************************)
(* A task that holds neither a page nor a scan has nothing to cover.       *)
(***************************************************************************)
LEMMA QuietStep ==
  ASSUME TypeOK, Covered, NEW t \in Tasks, StepOf(t), LocalsSet(t)',
         UNCHANGED <<storage, scans>>,
         task'[t].pc \in {"idle", "miss", "recheck", "page", "again", "fetch",
                          "batch"}
  PROVE  TypeOK' /\ Covered'
  <1>1. TaskCovered(t)' /\ ListsAll(t)'
    BY DEF TaskCovered, ListsAll
  <1> QED
    BY <1>1, TablesKept

LEMMA GetKept ==
  ASSUME TypeOK, Covered, NEW t \in Tasks,
         \/ \E k \in Keys : BeginGet(t, k)
         \/ \E ks \in SUBSET Keys : BeginGetBatch(t, ks)
         \/ CheckProgress(t)
         \/ RecheckProgress(t)
         \/ CheckAgain(t)
         \/ ReturnKeys(t)
         \/ PrefetchFails(t)
         \/ Stop(t)
  PROVE  TypeOK' /\ Covered'
  <1>0. task \in [Tasks -> Task] /\ task[t] \in Task /\ LocalsSet(t)
    BY DEF TypeOK
  <1>1. ASSUME NEW k \in Keys, BeginGet(t, k) PROVE TypeOK' /\ Covered'
    <2> DEFINE r == [Idle EXCEPT !.pc = "miss", !.key = k]
    <2>1. r \in Task /\ r.pc = "miss" /\ r.key = k
      BY DEF Idle, Task, Marks
    <2>2. task' = [task EXCEPT ![t] = r] /\ UNCHANGED <<storage, scans>>
      BY <1>1 DEF BeginGet
    <2> HIDE DEF r
    <2>3. StepOf(t) /\ task'[t] = r
      BY <1>0, <2>1, <2>2 DEF StepOf
    <2>4. LocalsSet(t)'
      BY <2>1, <2>3 DEF LocalsSet
    <2> QED
      BY <2>1, <2>2, <2>3, <2>4, QuietStep
  <1>2. ASSUME NEW ks \in SUBSET Keys, BeginGetBatch(t, ks)
        PROVE  TypeOK' /\ Covered'
    <2> DEFINE r == [Idle EXCEPT !.pc = "batch", !.page = Uncached(ks)]
    <2>0. Uncached(ks) \in SUBSET Keys
      BY DEF Uncached
    <2>1. r \in Task /\ r.pc = "batch"
      BY <2>0 DEF Idle, Task, Marks
    <2>2. task' = [task EXCEPT ![t] = r] /\ UNCHANGED <<storage, scans>>
      BY <1>2 DEF BeginGetBatch
    <2> HIDE DEF r
    <2>3. StepOf(t) /\ task'[t] = r
      BY <1>0, <2>1, <2>2 DEF StepOf
    <2>4. LocalsSet(t)'
      BY <2>1, <2>3 DEF LocalsSet
    <2> QED
      BY <2>1, <2>2, <2>3, <2>4, QuietStep
  <1>3. CASE CheckProgress(t)
    <2>1. UNCHANGED <<storage, scans>> /\ task[t].key \in Keys
      BY <1>0, <1>3 DEF CheckProgress, LocalsSet
    <2>2. CASE Prefetches(task[t].key)
      <3>1. task' = [task EXCEPT ![t].pc = "recheck",
                                 ![t].prefix = ItemPrefix[task[t].key]]
        BY <1>3, <2>2 DEF CheckProgress
      <3>2. ItemPrefix[task[t].key] \in Prefixes
        BY <2>1, <2>2, PrefixAssumption DEF Prefetches
      <3> QED
        BY <1>0, <2>1, <3>1, <3>2, QuietStep DEF StepOf, LocalsSet, Task
    <2>3. CASE ~Prefetches(task[t].key)
      <3>1. task' = [task EXCEPT ![t].pc = "fetch"]
        BY <1>3, <2>3 DEF CheckProgress
      <3> QED
        BY <1>0, <2>1, <3>1, QuietStep DEF StepOf, LocalsSet, Task
    <2> QED
      BY <2>2, <2>3
  <1>4. CASE RecheckProgress(t)
    BY <1>0, <1>4, QuietStep
    DEF RecheckProgress, StepOf, LocalsSet, Task
  <1>5. CASE CheckAgain(t)
    BY <1>0, <1>5, QuietStep, IdleType
    DEF CheckAgain, StepOf, LocalsSet, Task, Idle
  <1>6. CASE ReturnKeys(t)
    BY <1>0, <1>6, QuietStep, IdleType DEF ReturnKeys, StepOf, LocalsSet, Idle
  <1>7. CASE PrefetchFails(t)
    BY <1>0, <1>7, QuietStep DEF PrefetchFails, StepOf, LocalsSet, Task
  <1>8. CASE Stop(t)
    BY <1>0, <1>8, QuietStep, IdleType DEF Stop, StepOf, LocalsSet, Idle
  <1> QED
    BY <1>1, <1>2, <1>3, <1>4, <1>5, <1>6, <1>7, <1>8

(***************************************************************************)
(* A step that caches some keys, and leaves the progress alone.            *)
(***************************************************************************)
LEMMA CachingStep ==
  ASSUME TypeOK, Covered, NEW t \in Tasks, StepOf(t), LocalsSet(t)',
         NEW ks, storage' = SetStorageBatch(ks), UNCHANGED scans,
         TaskCovered(t)', ListsAll(t)'
  PROVE  TypeOK' /\ Covered'
  <1>1. /\ storage' \in [Keys -> Stored \cup {Unknown}]
        /\ CacheFaithful' /\ RowsKept
    BY BatchStored DEF Covered
  <1>2. scans' \in [Prefixes -> Progress \cup {NULL}]
    BY DEF TypeOK
  <1>3. ScansCovered'
    BY <1>1, PrefixAssumption DEF Covered, ScansCovered, RowsKept, LiveKeys
  <1> QED
    BY <1>1, <1>2, <1>3, OneStep

(***************************************************************************)
(* A step that records progress covered by the storage table.              *)
(***************************************************************************)
LEMMA RecordingStep ==
  ASSUME TypeOK, Covered, NEW t \in Tasks, StepOf(t), LocalsSet(t)',
         NEW p \in Prefixes, NEW last \in Marks, NEW complete \in BOOLEAN,
         UNCHANGED storage, scans' = UpdatePrefixScan(p, last, complete),
         \A k \in LiveKeys(p, 0) : complete \/ k <= last => storage[k] # Unknown,
         TaskCovered(t)', ListsAll(t)'
  PROVE  TypeOK' /\ Covered'
  <1>1. /\ storage' \in [Keys -> Stored \cup {Unknown}]
        /\ CacheFaithful' /\ RowsKept
    BY DEF TypeOK, Covered, CacheFaithful, RowsKept
  <1>2. /\ scans' \in [Prefixes -> Progress \cup {NULL}]
        /\ scans'[p] = [last |-> last, complete |-> complete]
        /\ \A q \in Prefixes \ {p} : scans'[q] = scans[q]
    BY DEF TypeOK, UpdatePrefixScan, Progress
  <1>3. ScansCovered'
    BY <1>2 DEF Covered, ScansCovered, LiveKeys
  <1> QED
    BY <1>1, <1>2, <1>3, OneStep

LEMMA FetchKept ==
  ASSUME TypeOK, Covered, NEW t \in Tasks, Fetch(t) \/ FetchBatch(t)
  PROVE  TypeOK' /\ Covered'
  <1>1. StepOf(t) /\ task'[t] = Idle
    BY IdleType DEF TypeOK, Fetch, FetchBatch, SetStorage, StepOf
  <1>2. LocalsSet(t)' /\ TaskCovered(t)' /\ ListsAll(t)'
    BY <1>1 DEF Idle, LocalsSet, TaskCovered, ListsAll
  <1> QED
    BY <1>1, <1>2, CachingStep DEF Fetch, FetchBatch, SetStorage

(***************************************************************************)
(* The pages: what is fetched is cached before its progress is recorded.   *)
(***************************************************************************)
LEMMA PageKept ==
  ASSUME TypeOK, Covered, NEW t \in Tasks, FirstPage(t) \/ ScanPage(t)
  PROVE  TypeOK' /\ Covered'
  <1> DEFINE p == task[t].prefix
             start == IF task[t].pc = "page" THEN 0 ELSE task[t].start
  <1>0. /\ task \in [Tasks -> Task] /\ task[t] \in Task /\ LocalsSet(t)
        /\ task[t].pc \in {"page", "scan"} /\ p \in Prefixes
        /\ task[t].start \in Marks /\ start \in Marks
        /\ task[t].pc = "page" => task[t].key \in Keys
    BY DEF TypeOK, FirstPage, ScanPage, LocalsSet, Task, Marks
  <1>1. \A k \in LiveKeys(p, 0) : k <= start => storage[k] # Unknown
    <2>1. TaskCovered(t)
      BY DEF Covered
    <2>2. CASE task[t].pc = "page"
      <3>1. start = 0
        BY <2>2
      <3>2. \A k \in LiveKeys(p, 0) : ~(k <= 0)
        BY <1>0, PositiveKeys
      <3> QED
        BY <3>1, <3>2
    <2>3. CASE task[t].pc = "scan"
      BY <2>1, <2>3 DEF TaskCovered
    <2> QED
      BY <1>0, <2>2, <2>3
  <1>2. PICK page \in SUBSET p :
           /\ IsPage(page, p, start)
           /\ page = {} =>
                 /\ task' = [task EXCEPT ![t].pc = IF task[t].pc = "page"
                                                   THEN "again" ELSE "listed"]
                 /\ UNCHANGED storage
                 /\ \/ start = 0 /\ scans' = UpdatePrefixScan(p, 0, TRUE)
                    \/ task[t].pc = "scan" /\ scans' = scans
           /\ page # {} =>
                 /\ task' = [task EXCEPT ![t].pc = IF task[t].pc = "page"
                                                   THEN "record"
                                                   ELSE "recordScan",
                                         ![t].page = page]
                 /\ storage' = SetStorageBatch(page)
                 /\ UNCHANGED scans
    <2>1. CASE FirstPage(t)
      <3>1. task[t].pc = "page" /\ start = 0
        BY <2>1 DEF FirstPage
      <3>2. PICK page \in SUBSET task[t].prefix :
               /\ IsPage(page, task[t].prefix, 0)
               /\ IF page = {}
                  THEN /\ scans' = UpdatePrefixScan(task[t].prefix, 0, TRUE)
                       /\ task' = [task EXCEPT ![t].pc = "again"]
                       /\ UNCHANGED storage
                  ELSE /\ storage' = SetStorageBatch(page)
                       /\ task' = [task EXCEPT ![t].pc = "record",
                                               ![t].page = page]
                       /\ UNCHANGED scans
        BY <2>1 DEF FirstPage
      <3> WITNESS page \in SUBSET p
      <3> QED
        BY <3>1, <3>2
    <2>2. CASE ScanPage(t)
      <3>1. task[t].pc = "scan" /\ start = task[t].start
        BY <2>2 DEF ScanPage
      <3>2. PICK page \in SUBSET task[t].prefix :
               /\ IsPage(page, task[t].prefix, task[t].start)
               /\ IF page = {}
                  THEN /\ scans' = IF task[t].start = 0
                                   THEN UpdatePrefixScan(task[t].prefix, 0, TRUE)
                                   ELSE scans
                       /\ task' = [task EXCEPT ![t].pc = "listed"]
                       /\ UNCHANGED storage
                  ELSE /\ storage' = SetStorageBatch(page)
                       /\ task' = [task EXCEPT ![t].pc = "recordScan",
                                               ![t].page = page]
                       /\ UNCHANGED scans
        BY <2>2 DEF ScanPage
      <3> WITNESS page \in SUBSET p
      <3> QED
        BY <3>1, <3>2
    <2> QED
      BY <2>1, <2>2
  <1>3. page \subseteq Keys
    BY <1>0, <1>2, PageFacts
  <1>4. CASE page = {}
    <2>1. /\ StepOf(t) /\ LocalsSet(t)' /\ task'[t].prefix = p
          /\ task'[t].pc = IF task[t].pc = "page" THEN "again" ELSE "listed"
      BY <1>0, <1>2, <1>4 DEF StepOf, LocalsSet, Task
    <2>2. \A k \in LiveKeys(p, 0) : storage[k] # Unknown
      <3>0. IsPage(page, p, start) /\ IsLastPage(page)
        BY <1>2, <1>4, PageAssumption, FS_EmptySet DEF IsLastPage
      <3>2. \A k \in LiveKeys(p, 0) : k <= start
        BY <1>0, <1>4, <3>0, PageFacts
      <3> QED
        BY <1>1, <3>2
    <2>3. TaskCovered(t)'
      BY <2>1 DEF TaskCovered
    <2>4. ListsAll(t)'
      <3>1. storage' = storage /\ p \subseteq Keys
        BY <1>0, <1>2, <1>4, PrefixAssumption
      <3>2. \A k \in LiveKeys(p, 0) : k \in p /\ storage'[k] # Unknown
        BY <2>2, <3>1 DEF LiveKeys
      <3>3. LiveKeys(task[t].prefix, 0)' = LiveKeys(p, 0)
        BY <2>1 DEF LiveKeys
      <3>4. GetKeysByPrefix(task[t].prefix)' = {k \in p : storage'[k] # Unknown}
        BY <2>1 DEF GetKeysByPrefix, Cached
      <3> QED
        BY <3>2, <3>3, <3>4 DEF ListsAll
    <2>5. CASE scans' = UpdatePrefixScan(p, 0, TRUE)
      <3>1. p \in Prefixes /\ 0 \in Marks /\ TRUE \in BOOLEAN
        BY <1>0 DEF Marks
      <3>2. UNCHANGED storage
        BY <1>2, <1>4
      <3>3. \A k \in LiveKeys(p, 0) : TRUE \/ k <= 0 => storage[k] # Unknown
        BY <2>2
      <3> HIDE DEF p
      <3> QED
        BY <2>1, <2>3, <2>4, <2>5, <3>1, <3>2, <3>3, RecordingStep
    <2>6. CASE scans' = scans
      BY <1>2, <1>4, <2>1, <2>3, <2>4, <2>6, TablesKept
    <2> QED
      BY <1>2, <1>4, <2>5, <2>6
  <1>5. CASE page # {}
    <2>1. /\ StepOf(t) /\ LocalsSet(t)' /\ task'[t].prefix = p
          /\ task'[t].pc = IF task[t].pc = "page" THEN "record"
                                                  ELSE "recordScan"
          /\ task'[t].page = page /\ task'[t].start = task[t].start
      BY <1>0, <1>2, <1>3, <1>5 DEF StepOf, LocalsSet, Task
    <2>2. RowsKept /\ \A k \in page : storage'[k] # Unknown
      BY <1>2, <1>3, <1>5, BatchStored DEF Covered
    <2>3. TaskCovered(t)'
      <3>1. IsPage(page, p, start)
        BY <1>2
      <3>2. task[t].pc = "scan" =>
               \A k \in LiveKeys(p, 0) :
                   k <= task[t].start => storage'[k] # Unknown
        BY <1>0, <1>1, <2>2, PrefixAssumption DEF RowsKept, LiveKeys
      <3> QED
        BY <1>0, <1>5, <2>1, <2>2, <3>1, <3>2
        DEF TaskCovered, IsPage, LiveKeys
    <2>4. ListsAll(t)'
      BY <2>1 DEF ListsAll
    <2> QED
      BY <1>2, <1>5, <2>1, <2>3, <2>4, CachingStep
  <1> QED
    BY <1>4, <1>5

(***************************************************************************)
(* The page in hand when progress is recorded.                             *)
(***************************************************************************)
LEMMA PageInHand ==
  ASSUME TypeOK, Covered, NEW t \in Tasks,
         task[t].pc \in {"record", "recordScan"}
  PROVE  /\ task[t].prefix \in Prefixes
         /\ \A last : IsLastOf(last, task[t].page) =>
               /\ last \in Keys
               /\ \A k \in LiveKeys(task[t].prefix, 0) :
                     IsLastPage(task[t].page) \/ k <= last
                         => storage[k] # Unknown
  <1> DEFINE p == task[t].prefix
             page == task[t].page
             start == IF task[t].pc = "record" THEN 0 ELSE task[t].start
  <1>0. /\ p \in Prefixes /\ start \in Marks
        /\ task[t].pc = "record" => start = 0
        /\ task[t].pc = "recordScan" => start = task[t].start
    BY DEF TypeOK, LocalsSet, Task, Marks
  <1>1. /\ IsPage(page, p, start)
        /\ \A k \in page : storage[k] # Unknown
        /\ task[t].pc = "recordScan" =>
              \A k \in LiveKeys(p, 0) : k <= start => storage[k] # Unknown
    BY DEF Covered, TaskCovered
  <1>2. \A k \in LiveKeys(p, 0) : ~(k <= 0)
    BY <1>0, PositiveKeys
  <1>3. \A k \in LiveKeys(p, 0) : k <= start \/ k \in page
                                      => storage[k] # Unknown
    <2>1. CASE task[t].pc = "record"
      BY <1>0, <1>1, <1>2, <2>1
    <2>2. CASE task[t].pc = "recordScan"
      BY <1>1, <2>2
    <2> QED
      BY <2>1, <2>2
  <1> HIDE DEF p, page, start
  <1>4. \A last : IsLastOf(last, page) =>
           /\ last \in Keys
           /\ \A k \in LiveKeys(p, 0) :
                 IsLastPage(page) \/ k <= last => storage[k] # Unknown
    BY <1>0, <1>1, <1>3, PageFacts
  <1> QED
    BY <1>0, <1>4 DEF p, page

LEMMA RecordKept ==
  ASSUME TypeOK, Covered, NEW t \in Tasks, RecordFirstPage(t) \/ RecordScan(t)
  PROVE  TypeOK' /\ Covered'
  <1>0. /\ task \in [Tasks -> Task] /\ task[t] \in Task /\ LocalsSet(t)
        /\ task[t].pc \in {"record", "recordScan"}
        /\ task[t].prefix \in Prefixes
        /\ UNCHANGED storage /\ IsLastPage(task[t].page) \in BOOLEAN
    BY DEF TypeOK, RecordFirstPage, RecordScan, LocalsSet, IsLastPage
  <1>1. PICK last \in task[t].page :
           /\ IsLastOf(last, task[t].page)
           /\ scans' = UpdatePrefixScan(task[t].prefix, last,
                                        IsLastPage(task[t].page))
           /\ \/ task' = [task EXCEPT ![t].pc = "again"]
                 /\ task[t].pc = "record"
              \/ task' = [task EXCEPT ![t].pc = "listed"]
                 /\ IsLastPage(task[t].page)
              \/ task' = [task EXCEPT ![t].pc = "scan", ![t].start = last]
    <2>1. CASE RecordFirstPage(t)
      BY <2>1 DEF RecordFirstPage
    <2>2. CASE RecordScan(t)
      <3>1. PICK last \in task[t].page :
               /\ IsLastOf(last, task[t].page)
               /\ scans' = UpdatePrefixScan(task[t].prefix, last,
                                            IsLastPage(task[t].page))
               /\ task' = IF IsLastPage(task[t].page)
                          THEN [task EXCEPT ![t].pc = "listed"]
                          ELSE [task EXCEPT ![t].pc = "scan",
                                            ![t].start = last]
        BY <2>2 DEF RecordScan
      <3> WITNESS last \in task[t].page
      <3> QED
        BY <3>1
    <2> QED
      BY <2>1, <2>2
  <1>2. /\ last \in Keys /\ last \in Marks
        /\ \A k \in LiveKeys(task[t].prefix, 0) :
              IsLastPage(task[t].page) \/ k <= last => storage[k] # Unknown
    BY <1>0, <1>1, PageInHand DEF Marks
  <1>3. StepOf(t) /\ LocalsSet(t)' /\ task'[t].prefix = task[t].prefix
    <2>1. CASE /\ task' = [task EXCEPT ![t].pc = "again"]
               /\ task[t].pc = "record"
      BY <1>0, <2>1 DEF StepOf, LocalsSet, Task
    <2>2. CASE task' = [task EXCEPT ![t].pc = "listed"]
      BY <1>0, <2>2 DEF StepOf, LocalsSet, Task
    <2>3. CASE task' = [task EXCEPT ![t].pc = "scan", ![t].start = last]
      BY <1>0, <1>2, <2>3 DEF StepOf, LocalsSet, Task
    <2> QED
      BY <1>1, <2>1, <2>2, <2>3
  <1>4. TaskCovered(t)' /\ ListsAll(t)'
    <2>1. CASE task' = [task EXCEPT ![t].pc = "again"]
      BY <1>0, <2>1 DEF TaskCovered, ListsAll
    <2>2. CASE /\ task' = [task EXCEPT ![t].pc = "listed"]
               /\ IsLastPage(task[t].page)
      <3>1. task'[t].pc = "listed"
        BY <1>0, <2>2 DEF Task
      <3>2. LiveKeys(task[t].prefix, 0) \subseteq
               {k \in task[t].prefix : storage'[k] # Unknown}
        BY <1>0, <1>2, <2>2 DEF LiveKeys
      <3> QED
        BY <1>3, <3>1, <3>2
        DEF TaskCovered, ListsAll, GetKeysByPrefix, Cached, LiveKeys
    <2>3. CASE task' = [task EXCEPT ![t].pc = "scan", ![t].start = last]
      <3>1. task'[t].pc = "scan" /\ task'[t].start = last
        BY <1>0, <2>3 DEF Task
      <3>2. \A k \in LiveKeys(task[t].prefix, 0) :
               k <= last => storage'[k] # Unknown
        BY <1>0, <1>2
      <3> QED
        BY <1>3, <3>1, <3>2 DEF TaskCovered, ListsAll, LiveKeys
    <2> QED
      BY <1>1, <2>1, <2>2, <2>3
  <1> QED
    BY <1>0, <1>1, <1>2, <1>3, <1>4, RecordingStep

(***************************************************************************)
(* A scan starts where the progress row says all keys are cached.          *)
(***************************************************************************)
LEMMA BeginScanKept ==
  ASSUME TypeOK, Covered, NEW t \in Tasks, NEW p \in Prefixes, BeginScan(t, p)
  PROVE  TypeOK' /\ Covered'
  <1>0. /\ task \in [Tasks -> Task] /\ UNCHANGED <<storage, scans>>
        /\ scans[p] \in Progress \cup {NULL} /\ p \subseteq Keys
    BY PrefixAssumption DEF TypeOK, BeginScan
  <1>1. CASE Scanned(p)
    <2>1. task' = [task EXCEPT
                      ![t] = [Idle EXCEPT !.pc = "listed", !.prefix = p]]
      BY <1>1 DEF BeginScan
    <2>2. /\ StepOf(t) /\ LocalsSet(t)' /\ task'[t].prefix = p
          /\ task'[t].pc = "listed"
      BY <1>0, <2>1 DEF StepOf, LocalsSet, Idle, Task, Marks
    <2>3. \A k \in LiveKeys(p, 0) : storage'[k] # Unknown
      BY <1>0, <1>1 DEF Covered, ScansCovered, Scanned
    <2>4. TaskCovered(t)' /\ ListsAll(t)'
      BY <2>2, <2>3 DEF TaskCovered, ListsAll, GetKeysByPrefix, Cached, LiveKeys
    <2> QED
      BY <1>0, <2>2, <2>4, TablesKept
  <1>2. CASE ~Scanned(p)
    <2> DEFINE start == IF scans[p] = NULL THEN 0 ELSE scans[p].last
    <2>1. task' = [task EXCEPT
                      ![t] = [Idle EXCEPT !.pc = "scan", !.prefix = p,
                                          !.start = start]]
      BY <1>2 DEF BeginScan
    <2>2. start \in Marks
      BY <1>0 DEF Progress, Marks
    <2>3. \A k \in LiveKeys(p, 0) : k <= start => storage'[k] # Unknown
      <3>1. CASE scans[p] = NULL
        BY <1>0, <3>1, KeyAssumption DEF LiveKeys
      <3>2. CASE scans[p] # NULL
        BY <1>0, <3>2 DEF Covered, ScansCovered
      <3> QED
        BY <3>1, <3>2
    <2> HIDE DEF start
    <2>4. /\ StepOf(t) /\ LocalsSet(t)' /\ task'[t].prefix = p
          /\ task'[t].pc = "scan" /\ task'[t].start = start
      BY <1>0, <2>1, <2>2 DEF StepOf, LocalsSet, Idle, Task, Marks
    <2>5. TaskCovered(t)' /\ ListsAll(t)'
      BY <2>3, <2>4 DEF TaskCovered, ListsAll, LiveKeys
    <2> QED
      BY <1>0, <2>4, <2>5, TablesKept
  <1> QED
    BY <1>1, <1>2

-----------------------------------------------------------------------------
(* Theorems. *)

(***************************************************************************)
(* Throughout: cached rows show the live chain, no progress row claims     *)
(* keys the storage table lacks, and get_keys misses none, whatever tasks  *)
(* race or stop between caching a page and recording it.                   *)
(***************************************************************************)
THEOREM CacheInvariant == Spec => [](TypeOK /\ Covered)
  <1>1. Init => TypeOK /\ Covered
    <2> SUFFICES ASSUME Init PROVE TypeOK /\ Covered
      OBVIOUS
    <2>1. TypeOK
      BY IdleType DEF Init, TypeOK, LocalsSet, Idle
    <2>2. CacheFaithful /\ ScansCovered
      BY DEF Init, CacheFaithful, ScansCovered
    <2>3. \A t \in Tasks : TaskCovered(t) /\ ListsAll(t)
      BY DEF Init, TaskCovered, ListsAll, Idle
    <2> QED
      BY <2>1, <2>2, <2>3 DEF Covered, NoKeyMissed
  <1>2. TypeOK /\ Covered /\ [Next]_vars => (TypeOK /\ Covered)'
    <2> SUFFICES ASSUME TypeOK, Covered, [Next]_vars
                 PROVE  TypeOK' /\ Covered'
      OBVIOUS
    <2>1. CASE UNCHANGED vars
      BY <2>1
      DEF vars, TypeOK, LocalsSet, Covered, CacheFaithful, ScansCovered,
          TaskCovered, NoKeyMissed, ListsAll, GetKeysByPrefix, Cached
    <2>2. ASSUME NEW t \in Tasks, TaskStep(t) PROVE TypeOK' /\ Covered'
      BY <2>2, GetKept, FetchKept, PageKept, RecordKept DEF TaskStep
    <2> QED
      BY <2>1, <2>2, GetKept, BeginScanKept DEF Next
  <1> QED
    BY <1>1, <1>2, PTL DEF Spec

(***************************************************************************)
(* get_keys misses no key of its prefix.                                   *)
(***************************************************************************)
THEOREM CompleteListings == Spec => []NoKeyMissed
  <1>1. TypeOK /\ Covered => NoKeyMissed
    BY DEF Covered
  <1> QED
    BY <1>1, CacheInvariant, PTL

(***************************************************************************)
(* next_key answered from the cache is next_key answered by the chain.     *)
(***************************************************************************)
THEOREM CachedIteration == Spec => []NextKeyAgrees
  <1>1. TypeOK /\ Covered => NextKeyAgrees
    <2> SUFFICES ASSUME TypeOK, Covered, NEW p \in Prefixes, NEW key \in Keys,
                        NEW q \in Covering[p], Scanned(q)
                 PROVE  NextKeyFromCache(p, key) = LiveNextKey(p, key)
      BY DEF NextKeyAgrees, NextKey
    <2>1. q \in Prefixes /\ p \subseteq q /\ p \subseteq Keys
      BY PrefixAssumption
    <2>2. ASSUME NEW k \in p, key < k, Live[k] # NULL
          PROVE  storage[k] = Live[k]
      <3>1. k \in LiveKeys(q, 0)
        BY <2>1, <2>2, KeyAssumption DEF LiveKeys
      <3>2. storage[k] # Unknown
        BY <2>1, <3>1 DEF Covered, ScansCovered, Scanned
      <3> QED
        BY <2>1, <3>2 DEF Covered, CacheFaithful
    <2>3. ASSUME NEW k \in p, storage[k] \notin {Unknown, NULL}
          PROVE  Live[k] # NULL
      BY <2>1, <2>3 DEF Covered, CacheFaithful
    <2>4. ASSUME NEW k \in p PROVE Live[k] # Unknown
      BY <2>1, LiveType
    <2>5. CachedLiveKeys(p, key) = LiveKeys(p, key)
      BY <2>2, <2>3, <2>4 DEF CachedLiveKeys, LiveKeys
    <2> QED
      BY <2>5 DEF NextKeyFromCache, LiveNextKey
  <1> QED
    BY <1>1, CacheInvariant, PTL
=============================================================================
