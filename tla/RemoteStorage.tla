--------------------------- MODULE RemoteStorage ---------------------------
(***************************************************************************)
(* The remote storage layer (crates/pop-fork/src/remote.rs): reads of the  *)
(* live chain's state at one block through the SQLite cache's storage and  *)
(* prefix_scans tables, by concurrent tasks.                               *)
(*                                                                         *)
(* The state at a block hash never changes, so an RPC answer and the cache *)
(* write that follows it are one step; a cache read and a later write are  *)
(* not.  The tables outlive the process: a task may stop at any step, by   *)
(* an error or because the process is killed, and what it wrote stays.     *)
(*                                                                         *)
(* A storage key is its rank in the byte order, and 0 stands for no key.   *)
(***************************************************************************)
EXTENDS Integers, FiniteSets

CONSTANTS Keys,        \* storage keys
          Values,      \* storage values
          NULL,        \* an empty key; no row; no prefix
          Live,        \* the live chain's state at the block
          Prefixes,    \* key prefixes, each the set of the keys under it
          ItemPrefix,  \* a key's first 32 bytes, NULL for a shorter key
          Covering,    \* a prefix and its first 32 and 16 bytes
          PageSize,    \* keys per page
          Tasks,       \* concurrent callers
          Faults       \* whether a task may stop halfway

Unknown == "unknown"
Stored == Values \cup {NULL}

ASSUME KeyAssumption == Keys \subseteq Nat \ {0}
ASSUME LiveAssumption ==
    /\ Live \in [Keys -> Stored]
    /\ NULL \notin Values /\ Unknown \notin Stored
ASSUME PrefixAssumption ==
    /\ Prefixes \subseteq SUBSET Keys
    /\ NULL \notin Prefixes
    /\ ItemPrefix \in [Keys -> Prefixes \cup {NULL}]
    /\ Covering \in [Prefixes -> SUBSET Prefixes]
    /\ \A p \in Prefixes : \A q \in Covering[p] : p \subseteq q
ASSUME PageAssumption == PageSize \in Nat \ {0}
ASSUME FaultAssumption == Faults \in BOOLEAN

VARIABLES storage,  \* the storage table: key |-> value, or Unknown
          scans,    \* the prefix_scans table: prefix |-> progress, or NULL
          task      \* what each caller is doing

vars == <<storage, scans, task>>

Marks == Keys \cup {0}
Progress == [last : Marks, complete : BOOLEAN]

Task == [pc : {"idle", "miss", "recheck", "page", "record", "again", "fetch",
               "batch", "scan", "recordScan", "listed"},
         key : Marks,                    \* the key get is asked for
         prefix : Prefixes \cup {NULL},  \* the prefix being scanned
         start : Marks,                  \* start_key
         page : SUBSET Keys]             \* the page, or the batch, in hand

Idle == [pc |-> "idle", key |-> 0, prefix |-> NULL, start |-> 0, page |-> {}]

(***************************************************************************)
(* What a step expects of the task's locals.                               *)
(***************************************************************************)
LocalsSet(t) ==
    /\ task[t].pc \in {"miss", "recheck", "page", "record", "again", "fetch"}
           => task[t].key \in Keys
    /\ task[t].pc \in {"recheck", "page", "record", "scan", "recordScan",
                       "listed"}
           => task[t].prefix \in Prefixes

TypeOK ==
    /\ storage \in [Keys -> Stored \cup {Unknown}]
    /\ scans \in [Prefixes -> Progress \cup {NULL}]
    /\ task \in [Tasks -> Task]
    /\ \A t \in Tasks : LocalsSet(t)

Init ==
    /\ storage = [k \in Keys |-> Unknown]
    /\ scans = [p \in Prefixes |-> NULL]
    /\ task = [t \in Tasks |-> Idle]

-----------------------------------------------------------------------------
(* The live chain, as its RPC shows it. *)

(***************************************************************************)
(* The keys of a prefix that hold a value, past a start key.               *)
(***************************************************************************)
LiveKeys(p, start) == {k \in p : Live[k] # NULL /\ start < k}

(***************************************************************************)
(* state_getKeysPaged: the first keys in order, PageSize of them unless    *)
(* there are fewer left.                                                   *)
(***************************************************************************)
IsPage(page, p, start) ==
    /\ page \subseteq LiveKeys(p, start)
    /\ \A k \in page, j \in LiveKeys(p, start) : j < k => j \in page
    /\ page = LiveKeys(p, start) \/ Cardinality(page) = PageSize

\* Deliberate fault: a full page counts as the last one.
FullPageIsLast(page) == Cardinality(page) <= PageSize

IsLastPage(page) == Cardinality(page) < PageSize

IsLastOf(k, page) == k \in page /\ \A j \in page : j <= k

LiveNextKey(p, key) ==
    IF LiveKeys(p, key) = {} THEN 0
    ELSE CHOOSE k \in LiveKeys(p, key) : \A j \in LiveKeys(p, key) : k <= j

-----------------------------------------------------------------------------
(* The cache tables. *)

(***************************************************************************)
(* get_storage finds a row, which may say that the key is empty.           *)
(***************************************************************************)
Cached(k) == storage[k] # Unknown

Uncached(ks) == {k \in ks : ~Cached(k)}

(***************************************************************************)
(* set_storage_batch upserts the values of some keys in one transaction,   *)
(* set_storage that of one.                                                *)
(***************************************************************************)
SetStorageBatch(ks) ==
    [k \in Keys |-> IF k \in ks THEN Live[k] ELSE storage[k]]

SetStorage(key) == SetStorageBatch({key})

UpdatePrefixScan(p, last, complete) ==
    [scans EXCEPT ![p] = [last |-> last, complete |-> complete]]

Scanned(p) == scans[p] # NULL /\ scans[p].complete

(***************************************************************************)
(* get_keys_by_prefix: every row of the prefix, empty ones included.       *)
(***************************************************************************)
GetKeysByPrefix(p) == {k \in p : Cached(k)}

CachedLiveKeys(p, key) ==
    {k \in p : key < k /\ storage[k] \notin {Unknown, NULL}}

NextKeyFromCache(p, key) ==
    IF CachedLiveKeys(p, key) = {} THEN 0
    ELSE CHOOSE k \in CachedLiveKeys(p, key) :
            \A j \in CachedLiveKeys(p, key) : k <= j

(***************************************************************************)
(* next_key: the cache answers once a scan of a covering prefix completed. *)
(***************************************************************************)
NextKey(p, key) ==
    IF \E q \in Covering[p] : Scanned(q) THEN NextKeyFromCache(p, key)
                                         ELSE LiveNextKey(p, key)

-----------------------------------------------------------------------------
(* get. *)

(***************************************************************************)
(* A key in the cache is answered at once.                                 *)
(***************************************************************************)
BeginGet(t, k) ==
    /\ task[t].pc = "idle"
    /\ ~Cached(k)
    /\ task' = [task EXCEPT ![t] = [Idle EXCEPT !.pc = "miss", !.key = k]]
    /\ UNCHANGED <<storage, scans>>

(***************************************************************************)
(* The first read of a long key under an unscanned prefix prefetches.      *)
(***************************************************************************)
Prefetches(k) == ItemPrefix[k] # NULL /\ scans[ItemPrefix[k]] = NULL

CheckProgress(t) ==
    /\ task[t].pc = "miss"
    /\ task' = IF Prefetches(task[t].key)
               THEN [task EXCEPT ![t].pc = "recheck",
                                 ![t].prefix = ItemPrefix[task[t].key]]
               ELSE [task EXCEPT ![t].pc = "fetch"]
    /\ UNCHANGED <<storage, scans>>

(***************************************************************************)
(* prefetch_prefix_single_page looks at the progress once more.            *)
(***************************************************************************)
RecheckProgress(t) ==
    /\ task[t].pc = "recheck"
    /\ task' = IF scans[task[t].prefix] = NULL
               THEN [task EXCEPT ![t].pc = "page"]
               ELSE [task EXCEPT ![t].pc = "again"]
    /\ UNCHANGED <<storage, scans>>

\* Deliberate fault: progress is recorded before the values are cached.
FirstPageRecordedFirst(t) ==
    /\ task[t].pc = "page"
    /\ \E page \in SUBSET task[t].prefix :
          /\ IsPage(page, task[t].prefix, 0)
          /\ \E last \in page :
                /\ IsLastOf(last, page)
                /\ scans' = UpdatePrefixScan(task[t].prefix, last,
                                             IsLastPage(page))
          /\ task' = [task EXCEPT ![t].pc = "again"]
    /\ UNCHANGED storage

(***************************************************************************)
(* The first page is fetched and its values are cached; an empty prefix is *)
(* marked complete.                                                        *)
(***************************************************************************)
FirstPage(t) ==
    /\ task[t].pc = "page"
    /\ \E page \in SUBSET task[t].prefix :
          /\ IsPage(page, task[t].prefix, 0)
          /\ IF page = {}
             THEN /\ scans' = UpdatePrefixScan(task[t].prefix, 0, TRUE)
                  /\ task' = [task EXCEPT ![t].pc = "again"]
                  /\ UNCHANGED storage
             ELSE /\ storage' = SetStorageBatch(page)
                  /\ task' = [task EXCEPT ![t].pc = "record", ![t].page = page]
                  /\ UNCHANGED scans

(***************************************************************************)
(* The progress row is written whatever another task has put there.        *)
(***************************************************************************)
RecordFirstPage(t) ==
    /\ task[t].pc = "record"
    /\ \E last \in task[t].page :
          /\ IsLastOf(last, task[t].page)
          /\ scans' = UpdatePrefixScan(task[t].prefix, last,
                                       IsLastPage(task[t].page))
    /\ task' = [task EXCEPT ![t].pc = "again"]
    /\ UNCHANGED storage

(***************************************************************************)
(* A failed prefetch is logged, and the key is fetched by itself.          *)
(***************************************************************************)
PrefetchFails(t) ==
    /\ Faults
    /\ task[t].pc \in {"recheck", "page", "record"}
    /\ task' = [task EXCEPT ![t].pc = "fetch"]
    /\ UNCHANGED <<storage, scans>>

CheckAgain(t) ==
    /\ task[t].pc = "again"
    /\ task' = IF Cached(task[t].key)
               THEN [task EXCEPT ![t] = Idle]
               ELSE [task EXCEPT ![t].pc = "fetch"]
    /\ UNCHANGED <<storage, scans>>

Fetch(t) ==
    /\ task[t].pc = "fetch"
    /\ storage' = SetStorage(task[t].key)
    /\ task' = [task EXCEPT ![t] = Idle]
    /\ UNCHANGED scans

-----------------------------------------------------------------------------
(* get_batch: the keys that are not cached are fetched together. *)

BeginGetBatch(t, ks) ==
    /\ task[t].pc = "idle"
    /\ Uncached(ks) # {}
    /\ task' = [task EXCEPT ![t] = [Idle EXCEPT !.pc = "batch",
                                               !.page = Uncached(ks)]]
    /\ UNCHANGED <<storage, scans>>

FetchBatch(t) ==
    /\ task[t].pc = "batch"
    /\ storage' = SetStorageBatch(task[t].page)
    /\ task' = [task EXCEPT ![t] = Idle]
    /\ UNCHANGED scans

-----------------------------------------------------------------------------
(* prefetch_prefix, and get_keys which lists the prefix afterwards. *)

BeginScan(t, p) ==
    /\ task[t].pc = "idle"
    /\ task' = [task EXCEPT
                   ![t] = IF Scanned(p)
                          THEN [Idle EXCEPT !.pc = "listed", !.prefix = p]
                          ELSE [Idle EXCEPT !.pc = "scan", !.prefix = p,
                                   !.start = IF scans[p] = NULL THEN 0
                                             ELSE scans[p].last]]
    /\ UNCHANGED <<storage, scans>>

(***************************************************************************)
(* An empty page ends the scan, and completes it only if it is the first.  *)
(***************************************************************************)
ScanPage(t) ==
    /\ task[t].pc = "scan"
    /\ \E page \in SUBSET task[t].prefix :
          /\ IsPage(page, task[t].prefix, task[t].start)
          /\ IF page = {}
             THEN /\ scans' = IF task[t].start = 0
                              THEN UpdatePrefixScan(task[t].prefix, 0, TRUE)
                              ELSE scans
                  /\ task' = [task EXCEPT ![t].pc = "listed"]
                  /\ UNCHANGED storage
             ELSE /\ storage' = SetStorageBatch(page)
                  /\ task' = [task EXCEPT ![t].pc = "recordScan",
                                          ![t].page = page]
                  /\ UNCHANGED scans

\* Deliberate fault: the scan does not move past the page.
RecordScanAgain(t) ==
    /\ task[t].pc = "recordScan"
    /\ \E last \in task[t].page :
          /\ IsLastOf(last, task[t].page)
          /\ scans' = UpdatePrefixScan(task[t].prefix, last,
                                       IsLastPage(task[t].page))
          /\ task' = IF IsLastPage(task[t].page)
                     THEN [task EXCEPT ![t].pc = "listed"]
                     ELSE [task EXCEPT ![t].pc = "scan"]
    /\ UNCHANGED storage

RecordScan(t) ==
    /\ task[t].pc = "recordScan"
    /\ \E last \in task[t].page :
          /\ IsLastOf(last, task[t].page)
          /\ scans' = UpdatePrefixScan(task[t].prefix, last,
                                       IsLastPage(task[t].page))
          /\ task' = IF IsLastPage(task[t].page)
                     THEN [task EXCEPT ![t].pc = "listed"]
                     ELSE [task EXCEPT ![t].pc = "scan", ![t].start = last]
    /\ UNCHANGED storage

ReturnKeys(t) ==
    /\ task[t].pc = "listed"
    /\ task' = [task EXCEPT ![t] = Idle]
    /\ UNCHANGED <<storage, scans>>

(***************************************************************************)
(* The second RPC attempt failed, the cache failed, or the process died.   *)
(***************************************************************************)
Stop(t) ==
    /\ Faults
    /\ task[t].pc # "idle"
    /\ task' = [task EXCEPT ![t] = Idle]
    /\ UNCHANGED <<storage, scans>>

-----------------------------------------------------------------------------
TaskStep(t) ==
    \/ CheckProgress(t)
    \/ RecheckProgress(t)
    \/ FirstPage(t)
    \/ RecordFirstPage(t)
    \/ CheckAgain(t)
    \/ Fetch(t)
    \/ FetchBatch(t)
    \/ ScanPage(t)
    \/ RecordScan(t)
    \/ ReturnKeys(t)

Next ==
    \E t \in Tasks :
        \/ \E k \in Keys : BeginGet(t, k)
        \/ \E ks \in SUBSET Keys : BeginGetBatch(t, ks)
        \/ \E p \in Prefixes : BeginScan(t, p)
        \/ TaskStep(t)
        \/ PrefetchFails(t)
        \/ Stop(t)

Spec == Init /\ [][Next]_vars

(***************************************************************************)
(* An async task that can run is polled until it finishes.                 *)
(***************************************************************************)
FairSpec == Spec /\ \A t \in Tasks : WF_vars(TaskStep(t))

-----------------------------------------------------------------------------
(* Properties. *)

(***************************************************************************)
(* A cached row shows what the live chain holds, the absence of a value    *)
(* included.                                                               *)
(***************************************************************************)
CacheFaithful == \A k \in Keys : storage[k] \in {Unknown, Live[k]}

(***************************************************************************)
(* The progress row of a prefix never claims more than the storage table   *)
(* holds: every key up to the last one scanned is cached, and all keys are *)
(* once the scan is complete.  A scan resumes after that key, so a claim   *)
(* too many, left by a task that stopped or was overtaken, would lose keys *)
(* for good.                                                               *)
(***************************************************************************)
ScansCovered ==
    \A p \in Prefixes :
        scans[p] # NULL =>
            \A k \in LiveKeys(p, 0) :
                scans[p].complete \/ k <= scans[p].last => storage[k] # Unknown

(***************************************************************************)
(* next_key answers from the cache exactly what the live chain would.      *)
(***************************************************************************)
NextKeyAgrees ==
    \A p \in Prefixes, k \in Keys : NextKey(p, k) = LiveNextKey(p, k)

(***************************************************************************)
(* get_keys misses no key, whoever else was scanning or stopped halfway.   *)
(***************************************************************************)
ListsAll(t) ==
    task[t].pc = "listed" =>
        LiveKeys(task[t].prefix, 0) \subseteq GetKeysByPrefix(task[t].prefix)

NoKeyMissed == \A t \in Tasks : ListsAll(t)

(***************************************************************************)
(* Every read finishes, however the progress rows move under it.           *)
(***************************************************************************)
ReadsFinish == \A t \in Tasks : task[t].pc # "idle" ~> task[t].pc = "idle"

-----------------------------------------------------------------------------
(* The inductive invariant. *)

(***************************************************************************)
(* What a scanning task has in hand is already in the table.               *)
(***************************************************************************)
TaskCovered(t) ==
    /\ task[t].pc \in {"record", "recordScan"} =>
          /\ task[t].page # {}
          /\ IsPage(task[t].page, task[t].prefix,
                    IF task[t].pc = "record" THEN 0 ELSE task[t].start)
          /\ \A k \in task[t].page : storage[k] # Unknown
    /\ task[t].pc \in {"scan", "recordScan"} =>
          \A k \in LiveKeys(task[t].prefix, 0) :
              k <= task[t].start => storage[k] # Unknown

Covered ==
    /\ CacheFaithful
    /\ ScansCovered
    /\ \A t \in Tasks : TaskCovered(t)
    /\ NoKeyMissed
=============================================================================
