-------------------------- MODULE BlockchainProofs --------------------------
(***************************************************************************)
(* Proofs about Blockchain.  For every number of concurrent builds, calls  *)
(* and warmups and every fault: the head's line only grows, and only       *)
(* blocks on it are announced, once each.  For one builder whose builds do *)
(* not fail, and any calls, warmups and faults of theirs: every block      *)
(* reads back its own state, the executor and the metadata follow the      *)
(* runtime, and calls at the head see it.                                  *)
(***************************************************************************)
EXTENDS Blockchain, TLAPS

(***************************************************************************)
(* What Append does to a sequence.                                         *)
(***************************************************************************)
LEMMA AppendFacts ==
  ASSUME NEW S, NEW s \in Seq(S), NEW e \in S
  PROVE  /\ Len(s) \in Nat /\ DOMAIN s = 1..Len(s)
         /\ Len(s) + 1 \notin DOMAIN s
         /\ Append(s, e) \in Seq(S)
         /\ Len(Append(s, e)) = Len(s) + 1
         /\ DOMAIN Append(s, e) = DOMAIN s \cup {Len(s) + 1}
         /\ \A i \in DOMAIN s : Append(s, e)[i] = s[i]
         /\ Append(s, e)[Len(s) + 1] = e
  OBVIOUS

-----------------------------------------------------------------------------
(* Types: what the tasks read from the shared storage layer. *)

(***************************************************************************)
(* The executor reads a value of the key's type from the shared layer.     *)
(***************************************************************************)
LEMMA LatestType ==
  ASSUME StorageTyped, NEW n \in Nat, NEW k \in Keys
  PROVE  Latest(n, k) \in ValueOf(k)
  BY BoundAssumption
  DEF Latest, Layer!Get, Layer!ModificationAnswers, Layer!DeletionAnswers,
      Layer!UnderDeletedPrefix, StorageTyped, ValueOf, Codes, Genesis, Keys

(***************************************************************************)
(* Reading :code at a block the layer has passed yields a runtime.         *)
(***************************************************************************)
LEMMA PastCodeType ==
  ASSUME StorageTyped, NEW n \in Nat, NEW l \in Nat, n < l
  PROVE  Layer(l)!Get(n, "code") \in Codes
  <1>1. /\ "code" \in Keys /\ ValueOf("code") = Codes
        /\ \A b \in 0..(MaxBuilds + 1) :
              [c \in 0..(MaxBuilds + 1) |-> Genesis][b]["code"] \in Codes
    BY DEF Keys, ValueOf, Genesis, Codes
  <1>2. 0 \in 0..(MaxBuilds + 1)
    BY BoundAssumption
  <1>3. CASE Layer(l)!ModificationAnswers("code", n)
    BY <1>1, <1>3 DEF Layer!Get, Layer!ModificationAnswers, StorageTyped
  <1>4. CASE /\ ~Layer(l)!ModificationAnswers("code", n)
             /\ Layer(l)!RowsAt("code", n) # {}
             /\ Layer(l)!IsHistorical(n)
    <2>1. (CHOOSE r \in Layer(l)!RowsAt("code", n) : TRUE)
             \in Layer(l)!RowsAt("code", n)
      BY <1>4
    <2>2. \A r \in Layer(l)!RowsAt("code", n) : r.value \in Codes
      BY <1>1 DEF Layer!RowsAt, StorageTyped
    <2> QED
      BY <1>4, <2>1, <2>2
      DEF Layer!Get, Layer!GetLocalValueAtBlock, Layer!IsHistorical,
          Layer!DeletionAnswers, Layer!UnderDeletedPrefix
  <1>5. CASE /\ ~Layer(l)!ModificationAnswers("code", n)
             /\ Layer(l)!RowsAt("code", n) = {} \/ ~Layer(l)!IsHistorical(n)
    BY <1>1, <1>2, <1>5
    DEF Layer!Get, Layer!IsHistorical, Layer!DeletionAnswers,
        Layer!UnderDeletedPrefix
  <1> QED
    BY <1>3, <1>4, <1>5

(***************************************************************************)
(* Committing the layer keeps its rows typed.                              *)
(***************************************************************************)
LEMMA CommitTyped ==
  ASSUME StorageTyped, NEW n \in Nat
  PROVE  \A r \in Layer(n)!CommitLocalChanges(Layer(n)!EntriesToCommit, n) :
            r \in [key : Keys, value : ValueOf(r.key), from : Nat,
                   until : Nat \cup {NULL}]
  <1>1. \A r \in localValues :
           Layer(n)!Closed(r, n) \in [key : Keys, value : ValueOf(r.key),
                                      from : Nat, until : Nat \cup {NULL}]
    BY DEF StorageTyped, Layer!Closed
  <1>2. \A k \in Layer(n)!EntriesToCommit :
           [key |-> k, value |-> modifications[k].value, from |-> n,
            until |-> NULL] \in [key : Keys, value : ValueOf(k),
                                 from : Nat, until : Nat \cup {NULL}]
    BY DEF StorageTyped, Layer!EntriesToCommit
  <1>3. \A r \in localValues : Layer(n)!Closed(r, n).key = r.key
    BY DEF StorageTyped, Layer!Closed
  <1> QED
    BY <1>1, <1>2, <1>3 DEF StorageTyped, Layer!CommitLocalChanges

(***************************************************************************)
(* A task's locals, the block it works on and the runtime it would run.    *)
(***************************************************************************)
LEMMA TaskFacts ==
  ASSUME TasksTyped, BlocksTyped, BuildsAnchored, NEW t \in Tasks
  PROVE  /\ Idle \in Task
         /\ task[t] \in Task
         /\ task[t].executor \in Codes
         /\ Runtime(t) \in Codes /\ Runtime(t) # NULL
         /\ task[t].at \in DOMAIN blocks
         /\ blocks[task[t].at] \in Block
         /\ Building(t) \in Nat /\ Building(t) > 0
  <1>1. Idle \in Task
    BY DEF Idle, Task, Codes, BlockIds
  <1>2. task[t] \in Task
    BY DEF TasksTyped
  <1>3. task[t].executor \in Codes /\ task[t].prototype \in Codes \cup {NULL}
    BY <1>2 DEF Task
  <1>4. Runtime(t) \in Codes /\ Runtime(t) # NULL
    BY <1>3, TxAssumption DEF Runtime
  <1>5. task[t].at \in DOMAIN blocks
    BY DEF BuildsAnchored
  <1>6. blocks[task[t].at] \in Block
    BY <1>5 DEF BlocksTyped
  <1>7. blocks[task[t].at].number \in Nat
    BY <1>6 DEF Block
  <1>8. Building(t) \in Nat /\ Building(t) > 0
    BY <1>7 DEF Building
  <1> QED
    BY <1>1, <1>2, <1>3, <1>4, <1>5, <1>6, <1>8

-----------------------------------------------------------------------------
(* Types: each part of the type invariant is kept by each step. *)

(***************************************************************************)
(* Only applying an extrinsic and finalizing a block change the storage.   *)
(***************************************************************************)
LEMMA StorageKept ==
  ASSUME TypeOK, BuildsAnchored, [Next]_vars
  PROVE  StorageTyped'
  <1>1. ASSUME NEW t \in Builders, ApplyExtrinsic(t) PROVE StorageTyped'
    <2> DEFINE tx == Head(task[t].todo)
    <2>0. /\ t \in Tasks /\ task[t] \in Task
          /\ Building(t) \in Nat
      BY TaskFacts DEF Tasks, TypeOK
    <2>1. tx \in Txs /\ localValues' = localValues
      BY <1>1, <2>0 DEF ApplyExtrinsic, Task
    <2>2. Latest(Building(t), "ledger") \in SUBSET Txs
      BY <2>0, LatestType DEF TypeOK, Keys, ValueOf
    <2>3. CASE modifications' = Wrote(t, tx)
      <3>1. DOMAIN modifications' = Keys
        BY <2>3 DEF Wrote
      <3>2. modifications'["ledger"] \in [block : Nat, value : SUBSET Txs]
        BY <2>0, <2>1, <2>2, <2>3 DEF Wrote, Keys
      <3>3. modifications'["code"] # NULL =>
               modifications'["code"] \in [block : Nat, value : Codes]
        BY <2>0, <2>3 DEF Wrote, Keys, TypeOK, StorageTyped, ValueOf, Codes
      <3> QED
        BY <2>1, <3>1, <3>2, <3>3 DEF StorageTyped, TypeOK, Keys, ValueOf
    <2>4. CASE modifications' = modifications
      BY <2>1, <2>4 DEF StorageTyped, TypeOK
    <2> QED
      BY <1>1, <2>3, <2>4 DEF ApplyExtrinsic
  <1>2. ASSUME NEW t \in Builders, Finalize(t) PROVE StorageTyped'
    <2>1. Building(t) \in Nat
      BY TaskFacts DEF Tasks, TypeOK
    <2> QED
      BY <1>2, <2>1, CommitTyped DEF Finalize, StorageTyped, TypeOK
  <1>3. CASE UNCHANGED storageVars
    BY <1>3 DEF storageVars, StorageTyped, TypeOK
  <1>4. ASSUME NEW t \in Builders,
               \/ \E batch \in Batches : BeginBuild(t, batch)
               \/ BuildStep(t)
               \/ AbandonBuild(t)
        PROVE  StorageTyped'
    BY <1>4, <1>1, <1>2, <1>3
    DEF BuildStep, BeginBuild, CloneExecutor, TakePrototype,
        Initialize, ApplyInherents, AbandonBuild, RuntimeUpgraded,
        RecreateExecutor, RejectBlock, AcceptBlock, StorePrototype,
        EmitNewBlock
  <1>5. ASSUME NEW t \in Callers,
               \/ BeginCall(t)
               \/ \E n \in Numbers : CallAncestor(t, n)
               \/ CallStep(t)
        PROVE  StorageTyped'
    BY <1>5, <1>1, <1>2, <1>3
    DEF CallStep, BeginCall, CloneExecutor, TakePrototype, RunCall,
        CheckHead, RestorePrototype, CallAncestor, Return
  <1>6. ASSUME NEW t \in Warmers, WarmupStep(t) PROVE StorageTyped'
    BY <1>6, <1>1, <1>2, <1>3
    DEF WarmupStep, WarmupCompile, WarmupStoreSlot,
        WarmupStorePrototype, WarmupProviders
  <1> QED
    BY <1>4, <1>5, <1>6, <1>1, <1>2, <1>3 DEF Next, vars

(***************************************************************************)
(* The caches only ever take codes a task holds, or nothing.               *)
(***************************************************************************)
LEMMA CachesKept ==
  ASSUME TypeOK, BuildsAnchored, [Next]_vars
  PROVE  CachesTyped'
  <1>0. \A t \in Tasks : /\ task[t].executor \in Codes
                         /\ task[t].prototype \in Codes \cup {NULL}
                         /\ task[t].newExecutor \in Codes \cup {NULL}
    BY DEF TypeOK, TasksTyped, Task
  <1>1. CASE UNCHANGED <<cacheVars, metadataVersions>>
    BY <1>1 DEF cacheVars, CachesTyped, TypeOK
  <1>2. ASSUME NEW t \in Tasks,
               TakePrototype(t) \/ ApplyInherents(t) \/ AcceptBlock(t)
               \/ StorePrototype(t) \/ RestorePrototype(t)
        PROVE  CachesTyped'
    BY <1>0, <1>2
    DEF TakePrototype, ApplyInherents, AcceptBlock, StorePrototype,
        RestorePrototype, CachesTyped, TypeOK, storageVars
  <1>3. ASSUME NEW t \in Tasks,
               WarmupStoreSlot(t) \/ WarmupStorePrototype(t)
               \/ WarmupProviders(t)
        PROVE  CachesTyped'
    BY <1>0, <1>3
    DEF WarmupStoreSlot, WarmupStorePrototype, WarmupProviders, CachesTyped,
        TypeOK, storageVars
  <1>4. ASSUME NEW t \in Tasks, Finalize(t) PROVE CachesTyped'
    BY <1>0, <1>4
    DEF Finalize, RegisterNewMetadata, Building, CachesTyped, TypeOK, cacheVars
  <1>5. ASSUME NEW t \in Builders,
               \/ \E batch \in Batches : BeginBuild(t, batch)
               \/ BuildStep(t)
               \/ AbandonBuild(t)
        PROVE  CachesTyped'
    BY <1>5, <1>1, <1>2, <1>3, <1>4
    DEF BuildStep, Tasks, storageVars, BeginBuild, CloneExecutor,
        Initialize, ApplyExtrinsic, AbandonBuild, RuntimeUpgraded,
        RecreateExecutor, RejectBlock, EmitNewBlock
  <1>6. ASSUME NEW t \in Callers,
               \/ BeginCall(t)
               \/ \E n \in Numbers : CallAncestor(t, n)
               \/ CallStep(t)
        PROVE  CachesTyped'
    BY <1>6, <1>1, <1>2, <1>3, <1>4
    DEF CallStep, Tasks, storageVars, BeginCall, CloneExecutor,
        RunCall, CheckHead, CallAncestor, Return
  <1>7. ASSUME NEW t \in Warmers, WarmupStep(t) PROVE CachesTyped'
    BY <1>7, <1>1, <1>2, <1>3, <1>4
    DEF WarmupStep, Tasks, storageVars, WarmupCompile
  <1> QED
    BY <1>5, <1>6, <1>7, <1>1, <1>2, <1>3, <1>4
    DEF Next, vars, storageVars

(***************************************************************************)
(* Only finalizing, accepting and announcing change the blocks, the head   *)
(* and the events.                                                         *)
(***************************************************************************)
LEMMA BlocksKept ==
  ASSUME TypeOK, BuildsAnchored, [Next]_vars
  PROVE  BlocksTyped'
  <1>0. \A t \in Tasks : task[t] \in Task
    BY DEF TypeOK, TasksTyped
  <1>1. ASSUME NEW t \in Tasks, Finalize(t) PROVE BlocksTyped'
    <2> DEFINE parent == blocks[task[t].at]
               new == [number |-> Building(t),
                       line |-> Append(parent.line, Len(blocks) + 1),
                       runtime |-> task[t].prototype,
                       txs |-> task[t].included,
                       ledger |-> parent.ledger \cup task[t].included,
                       code |-> task[t].code]
    <2>1. parent \in Block /\ Building(t) \in Nat
      BY TaskFacts DEF TypeOK
    <2>2. task[t].prototype \in Codes
      BY <1>0, <1>1 DEF Finalize, TypeOK, TasksTyped, Task
    <2>3. Len(blocks) + 1 \in BlockIds
      BY DEF TypeOK, BlocksTyped, BlockIds
    <2>4. Append(parent.line, Len(blocks) + 1) \in Seq(BlockIds)
      BY <2>1, <2>3 DEF Block
    <2>5. /\ task[t].included \in SUBSET Txs /\ task[t].code \in Codes
          /\ parent.ledger \cup task[t].included \in SUBSET Txs
      BY <1>0, <2>1 DEF Task, Block
    <2>6. new \in Block
      BY <2>1, <2>2, <2>4, <2>5 DEF Block
    <2>7. blocks' = Append(blocks, new) /\ UNCHANGED <<head, events>>
      BY <1>1 DEF Finalize
    <2> QED
      BY <2>6, <2>7 DEF TypeOK, BlocksTyped
  <1>2. ASSUME NEW t \in Tasks, AcceptBlock(t) PROVE BlocksTyped'
    BY <1>2 DEF AcceptBlock, TypeOK, BlocksTyped, BuildsAnchored, HoldsBlock
  <1>3. ASSUME NEW t \in Tasks, EmitNewBlock(t) PROVE BlocksTyped'
    <2>1. task[t].made \in BlockIds
      BY <1>0 DEF Task
    <2> QED
      BY <1>3, <2>1 DEF EmitNewBlock, TypeOK, BlocksTyped
  <1>4. CASE UNCHANGED <<blocks, head, events>>
    BY <1>4 DEF BlocksTyped, TypeOK
  <1>5. ASSUME NEW t \in Builders,
               \/ \E batch \in Batches : BeginBuild(t, batch)
               \/ BuildStep(t)
               \/ AbandonBuild(t)
        PROVE  BlocksTyped'
    BY <1>5, <1>1, <1>2, <1>3, <1>4
    DEF BuildStep, Tasks, BeginBuild, CloneExecutor, TakePrototype,
        Initialize, ApplyInherents, ApplyExtrinsic, AbandonBuild,
        RuntimeUpgraded, RecreateExecutor, RejectBlock, StorePrototype
  <1>6. ASSUME NEW t \in Callers,
               \/ BeginCall(t)
               \/ \E n \in Numbers : CallAncestor(t, n)
               \/ CallStep(t)
        PROVE  BlocksTyped'
    BY <1>6, <1>1, <1>2, <1>3, <1>4
    DEF CallStep, Tasks, BeginCall, CloneExecutor, TakePrototype,
        RunCall, CheckHead, RestorePrototype, CallAncestor, Return
  <1>7. ASSUME NEW t \in Warmers, WarmupStep(t) PROVE BlocksTyped'
    BY <1>7, <1>1, <1>2, <1>3, <1>4
    DEF WarmupStep, Tasks, WarmupCompile, WarmupStoreSlot,
        WarmupStorePrototype, WarmupProviders
  <1> QED
    BY <1>5, <1>6, <1>7, <1>1, <1>2, <1>3, <1>4 DEF Next, vars

(***************************************************************************)
(* A step that gives one task new locals of the right type keeps the       *)
(* types of all.                                                           *)
(***************************************************************************)
LEMMA OneTaskTyped ==
  ASSUME TasksTyped, NEW t \in Tasks, NEW r \in Task,
         r.pc \in {"initialized", "inherents", "applied"} => r.prototype # NULL,
         task' = [task EXCEPT ![t] = r]
  PROVE  TasksTyped'
  BY DEF TasksTyped

(***************************************************************************)
(* The build's own steps keep its locals typed.                            *)
(***************************************************************************)
LEMMA BuildTasksKept ==
  ASSUME TypeOK, BuildsAnchored, NEW t \in Builders,
         BuildStep(t) \/ AbandonBuild(t)
            \/ (\E batch \in Batches : BeginBuild(t, batch))
  PROVE  TasksTyped'
  <1>0. /\ t \in Tasks /\ Idle \in Task /\ task[t] \in Task
        /\ Runtime(t) \in Codes /\ Runtime(t) # NULL
        /\ Building(t) \in Nat /\ TasksTyped
    BY TaskFacts DEF Tasks, TypeOK
  <1>1. ASSUME NEW batch \in Batches, BeginBuild(t, batch) PROVE TasksTyped'
    <2> DEFINE r == [Idle EXCEPT !.pc = "head", !.at = head, !.todo = batch,
                                 !.code = blocks[head].code]
    <2>1. batch \in Seq(Txs)
      BY TxAssumption
    <2>2. blocks[head] \in Block /\ head \in BlockIds
      BY DEF TypeOK, BlocksTyped, BlockIds
    <2>3. blocks[head].code \in Codes
      BY <2>2 DEF Block
    <2>4. r \in Task /\ r.pc = "head"
      BY <1>0, <2>1, <2>2, <2>3 DEF Task
    <2> QED
      BY <1>0, <1>1, <2>4, OneTaskTyped DEF BeginBuild
  <1>2. CASE AbandonBuild(t) \/ RejectBlock(t) \/ EmitNewBlock(t)
    BY <1>0, <1>2, OneTaskTyped
    DEF AbandonBuild, RejectBlock, EmitNewBlock, Idle
  <1>3. CASE CloneExecutor(t)
    <2>1. executor \in Codes
      BY DEF TypeOK, CachesTyped
    <2> QED
      BY <1>0, <1>3, <2>1 DEF CloneExecutor, TasksTyped, Task
  <1>4. CASE TakePrototype(t)
    <2>1. warmPrototype \in Codes \cup {NULL}
      BY DEF TypeOK, CachesTyped
    <2> QED
      BY <1>0, <1>4, <2>1 DEF TakePrototype, TasksTyped, Task
  <1>5. CASE Initialize(t)
    BY <1>0, <1>5 DEF Initialize, TasksTyped, Task
  <1>6. CASE ApplyInherents(t)
    BY <1>0, <1>6 DEF ApplyInherents, TasksTyped, Task
  <1>11. CASE AcceptBlock(t)
    BY <1>0, <1>11 DEF AcceptBlock, TasksTyped, Task
  <1>12. CASE StorePrototype(t)
    BY <1>0, <1>12 DEF StorePrototype, TasksTyped, Task
  <1>7. CASE ApplyExtrinsic(t)
    <2> DEFINE tx == Head(task[t].todo)
               code == IF tx \in Upgrades THEN tx ELSE task[t].code
               r == [task[t] EXCEPT !.todo = Tail(@)]
               s == [task[t] EXCEPT !.todo = Tail(@),
                                    !.included = @ \cup {tx}, !.code = code]
    <2>1. tx \in Txs /\ Tail(task[t].todo) \in Seq(Txs)
      BY <1>0, <1>7 DEF ApplyExtrinsic, Task
    <2>2. code \in Codes /\ task[t].included \cup {tx} \in SUBSET Txs
      BY <1>0, <2>1 DEF Task, Codes
    <2>3. /\ r \in Task /\ r.pc = task[t].pc
          /\ r.prototype = task[t].prototype
      BY <1>0, <2>1 DEF Task
    <2>4. /\ s \in Task /\ s.pc = task[t].pc
          /\ s.prototype = task[t].prototype
      BY <1>0, <2>1, <2>2 DEF Task
    <2>5. task[t].prototype # NULL
      BY <1>0, <1>7 DEF ApplyExtrinsic, TasksTyped
    <2>6. task' = [task EXCEPT ![t] = r] \/ task' = [task EXCEPT ![t] = s]
      BY <1>0, <1>7 DEF ApplyExtrinsic, TasksTyped, Task
    <2> QED
      BY <1>0, <2>3, <2>4, <2>5, <2>6, OneTaskTyped
  <1>8. CASE RuntimeUpgraded(t)
    <2>1. HasCodeChangedAt(Building(t)) \in BOOLEAN
      BY DEF HasCodeChangedAt
    <2> QED
      BY <1>0, <1>8, <2>1 DEF RuntimeUpgraded, TasksTyped, Task
  <1>9. CASE Finalize(t)
    <2>1. Len(blocks) + 1 \in BlockIds
      BY DEF TypeOK, BlocksTyped, BlockIds
    <2> QED
      BY <1>0, <1>9, <2>1 DEF Finalize, TasksTyped, Task
  <1>10. CASE RecreateExecutor(t)
    <2> DEFINE code == IF task[t].upgraded
                       THEN Layer(Building(t) + 1)!Get(Building(t), "code")
                       ELSE NULL
    <2>1. code \in Codes \cup {NULL}
      BY <1>0, PastCodeType DEF TypeOK
    <2> HIDE DEF code
    <2>2. \/ task' = [task EXCEPT ![t].pc = "recreated",
                                  ![t].newExecutor = code]
          \/ task' = [task EXCEPT ![t].pc = "recreated"]
      BY <1>10 DEF RecreateExecutor, code
    <2>3. CASE task' = [task EXCEPT ![t].pc = "recreated",
                                    ![t].newExecutor = code]
      BY <1>0, <2>1, <2>3 DEF TasksTyped, Task
    <2>4. CASE task' = [task EXCEPT ![t].pc = "recreated"]
      BY <1>0, <2>4 DEF TasksTyped, Task
    <2> QED
      BY <2>2, <2>3, <2>4
  <1> QED
    BY <1>1, <1>2, <1>3, <1>4, <1>5, <1>6, <1>7, <1>8, <1>9, <1>10, <1>11,
       <1>12
    DEF BuildStep

(***************************************************************************)
(* So do the steps of the calls and of the warmup.                         *)
(***************************************************************************)
LEMMA CallTasksKept ==
  ASSUME TypeOK, LinesAnchored, BuildsAnchored, NEW t \in Callers,
         CallStep(t) \/ BeginCall(t) \/ (\E n \in Numbers : CallAncestor(t, n))
  PROVE  TasksTyped'
  <1>0. /\ t \in Tasks /\ Idle \in Task /\ task[t] \in Task
        /\ Runtime(t) \in Codes /\ Building(t) \in Nat /\ TasksTyped
    BY TaskFacts DEF Tasks, TypeOK
  <1>1. CASE CloneExecutor(t)
    <2>1. executor \in Codes
      BY DEF TypeOK, CachesTyped
    <2> QED
      BY <1>0, <1>1, <2>1 DEF CloneExecutor, TasksTyped, Task
  <1>2. CASE TakePrototype(t)
    <2>1. warmPrototype \in Codes \cup {NULL}
      BY DEF TypeOK, CachesTyped
    <2> QED
      BY <1>0, <1>2, <2>1 DEF TakePrototype, TasksTyped, Task
  <1>3. CASE RunCall(t)
    <2>1. Latest(Building(t), "ledger") \in SUBSET Txs
      BY <1>0, LatestType DEF TypeOK, Keys, ValueOf
    <2>2. PICK p \in Codes \cup {NULL} :
             task' = [task EXCEPT ![t].pc = "answered", ![t].prototype = p,
                                  ![t].ledger = Latest(Building(t), "ledger")]
      BY <1>0, <1>3 DEF RunCall
    <2> DEFINE r == [task[t] EXCEPT !.pc = "answered", !.prototype = p,
                                    !.ledger = Latest(Building(t), "ledger")]
    <2>3. r \in Task /\ r.pc = "answered"
      BY <1>0, <2>1 DEF Task
    <2>4. task' = [task EXCEPT ![t] = r]
      BY <2>2
    <2> HIDE DEF r
    <2> QED
      BY <1>0, <2>3, <2>4, OneTaskTyped
  <1>4. CASE CheckHead(t)
    <2>1. CASE task' = [task EXCEPT ![t] = Idle]
      BY <1>0, <2>1, OneTaskTyped DEF Idle
    <2>2. CASE task' = [task EXCEPT ![t].pc = "restore"]
      BY <1>0, <2>2 DEF TasksTyped, Task
    <2> QED
      BY <1>4, <2>1, <2>2 DEF CheckHead
  <1>5. CASE RestorePrototype(t) \/ Return(t)
    BY <1>0, <1>5, OneTaskTyped DEF RestorePrototype, Return, Idle
  <1>6. CASE BeginCall(t)
    <2>1. head \in BlockIds
      BY DEF TypeOK, BlocksTyped, BlockIds
    <2> QED
      BY <1>0, <1>6, <2>1 DEF BeginCall, TasksTyped, Task
  <1>7. ASSUME NEW n \in Numbers, CallAncestor(t, n) PROVE TasksTyped'
    <2>0. n \in Nat
      BY BoundAssumption DEF Numbers
    <2>1. Latest(n + 2, "ledger") \in SUBSET Txs
      BY <2>0, LatestType DEF TypeOK, Keys, ValueOf
    <2>2. Layer(n + 2)!Get(n, "code") \in Codes
      BY <2>0, PastCodeType DEF TypeOK
    <2>3. blocks[head].line[n + 1] \in BlockIds
      <3>1. blocks[head] \in Block
        BY DEF TypeOK, BlocksTyped
      <3>2. /\ blocks[head].line \in Seq(BlockIds)
            /\ blocks[head].number \in Nat
        BY <3>1 DEF Block
      <3>3. Len(blocks[head].line) = blocks[head].number + 1
        BY DEF LinesAnchored, TypeOK, BlocksTyped
      <3>4. n < blocks[head].number
        BY <1>7 DEF CallAncestor
      <3>5. n + 1 \in 1..Len(blocks[head].line)
        BY <2>0, <3>2, <3>3, <3>4
      <3> QED
        BY <3>2, <3>5
    <2> DEFINE r == [task[t] EXCEPT !.pc = "historical",
                                    !.at = blocks[head].line[n + 1],
                                    !.executor = Layer(n + 2)!Get(n, "code"),
                                    !.ledger = Latest(n + 2, "ledger")]
    <2>4. r \in Task /\ r.pc = "historical"
      BY <1>0, <2>1, <2>2, <2>3 DEF Task
    <2>5. task' = [task EXCEPT ![t] = r]
      BY <1>7 DEF CallAncestor
    <2> HIDE DEF r
    <2> QED
      BY <1>0, <2>4, <2>5, OneTaskTyped
  <1> QED
    BY <1>1, <1>2, <1>3, <1>4, <1>5, <1>6, <1>7 DEF CallStep

LEMMA WarmupTasksKept ==
  ASSUME TypeOK, BuildsAnchored, NEW t \in Warmers, WarmupStep(t)
  PROVE  TasksTyped'
  <1>0. t \in Tasks /\ Idle \in Task /\ task[t] \in Task /\ TasksTyped
    BY TaskFacts DEF Tasks, TypeOK
  <1>1. CASE WarmupCompile(t)
    <2>1. executor \in Codes
      BY DEF TypeOK, CachesTyped
    <2>2. ASSUME NEW p \in {executor, NULL},
                 task' = [task EXCEPT ![t].pc = "compiled",
                                      ![t].executor = executor,
                                      ![t].prototype = p]
          PROVE  TasksTyped'
      <3> DEFINE r == [task[t] EXCEPT !.pc = "compiled",
                                      !.executor = executor, !.prototype = p]
      <3>1. r \in Task /\ r.pc = "compiled"
        BY <1>0, <2>1, <2>2 DEF Task
      <3>2. task' = [task EXCEPT ![t] = r]
        BY <2>2
      <3> HIDE DEF r
      <3> QED
        BY <1>0, <3>1, <3>2, OneTaskTyped
    <2>3. CASE task' = [task EXCEPT ![t].pc = "cached",
                                    ![t].executor = executor]
      BY <1>0, <2>1, <2>3 DEF TasksTyped, Task
    <2> QED
      BY <1>1, <2>2, <2>3 DEF WarmupCompile
  <1>2. CASE WarmupStoreSlot(t)
    BY <1>0, <1>2 DEF WarmupStoreSlot, TasksTyped, Task
  <1>4. CASE WarmupStorePrototype(t)
    BY <1>0, <1>4 DEF WarmupStorePrototype, TasksTyped, Task
  <1>3. CASE WarmupProviders(t)
    <2> DEFINE r == [Idle EXCEPT !.pc = "warm"]
    <2>1. r \in Task /\ r.pc = "warm"
      BY <1>0 DEF Task
    <2> QED
      BY <1>0, <1>3, <2>1, OneTaskTyped DEF WarmupProviders
  <1> QED
    BY <1>1, <1>2, <1>3, <1>4 DEF WarmupStep

(***************************************************************************)
(* Every step keeps the types.                                             *)
(***************************************************************************)
LEMMA TypesKept ==
  ASSUME TypeOK, LinesAnchored, BuildsAnchored, [Next]_vars
  PROVE  TypeOK'
  <1>1. TasksTyped'
    <2>1. CASE UNCHANGED vars
      BY <2>1 DEF vars, TypeOK, TasksTyped
    <2>2. ASSUME NEW t \in Builders,
                 \/ \E batch \in Batches : BeginBuild(t, batch)
                 \/ BuildStep(t)
                 \/ AbandonBuild(t)
          PROVE  TasksTyped'
      BY <2>2, BuildTasksKept
    <2>3. ASSUME NEW t \in Callers,
                 \/ BeginCall(t)
                 \/ \E n \in Numbers : CallAncestor(t, n)
                 \/ CallStep(t)
          PROVE  TasksTyped'
      BY <2>3, CallTasksKept
    <2> QED
      BY <2>1, <2>2, <2>3, WarmupTasksKept DEF Next
  <1>2. builds' \in Numbers
    <2>1. ASSUME NEW t \in Builders, NEW batch \in Batches,
                 BeginBuild(t, batch)
          PROVE  builds' \in Numbers
      BY <2>1, BoundAssumption DEF BeginBuild, TypeOK, Numbers
    <2>2. CASE UNCHANGED builds
      BY <2>2 DEF TypeOK
    <2>3. ASSUME NEW t \in Builders, BuildStep(t) \/ AbandonBuild(t)
          PROVE  UNCHANGED builds
      BY <2>3 DEF BuildStep, CloneExecutor, TakePrototype, Initialize,
        ApplyInherents, ApplyExtrinsic, AbandonBuild, RuntimeUpgraded,
        Finalize, RecreateExecutor, RejectBlock, AcceptBlock, StorePrototype,
        EmitNewBlock
    <2>4. ASSUME NEW t \in Callers,
                 \/ BeginCall(t)
                 \/ \E n \in Numbers : CallAncestor(t, n)
                 \/ CallStep(t)
          PROVE  UNCHANGED builds
      BY <2>4 DEF CallStep, CloneExecutor, TakePrototype, BeginCall, RunCall,
        CheckHead, RestorePrototype, CallAncestor, Return
    <2>5. ASSUME NEW t \in Warmers, WarmupStep(t) PROVE UNCHANGED builds
      BY <2>5 DEF WarmupStep, WarmupCompile, WarmupStoreSlot,
        WarmupStorePrototype, WarmupProviders
    <2>6. CASE UNCHANGED vars
      BY <2>6, <2>2 DEF vars
    <2> QED
      BY <2>1, <2>2, <2>3, <2>4, <2>5, <2>6 DEF Next
  <1> QED
    BY <1>1, <1>2, StorageKept, CachesKept, BlocksKept DEF TypeOK

-----------------------------------------------------------------------------
(* The chain. *)

(***************************************************************************)
(* A step that touches neither the blocks nor the head nor the events      *)
(* keeps the chain anchored if every task holds what it held, or a build   *)
(* no longer or not yet holding a block works on a finalized one.          *)
(***************************************************************************)
LEMMA QuietStepAnchored ==
  ASSUME TypeOK, ChainAnchored, UNCHANGED <<blocks, head, events>>,
         NEW t \in Tasks, DOMAIN task' = Tasks,
         \A u \in Tasks \ {t} : task'[u] = task[u],
         task'[t].at \in DOMAIN blocks,
         HoldsBlock(t)' => /\ HoldsBlock(t)
                           /\ task'[t].at = task[t].at
                           /\ task'[t].made = task[t].made,
         task'[t].pc \in {"committed", "stored"} =>
             task[t].pc \in {"committed", "stored"}
  PROVE  ChainAnchored'
  <1>1. Announced' = Announced /\ (\A b : OnChain(b)' <=> OnChain(b))
    BY DEF Announced, OnChain
  <1>2. \A u \in Tasks : HoldsBlock(u)' => /\ HoldsBlock(u)
                                           /\ task'[u].at = task[u].at
                                           /\ task'[u].made = task[u].made
    BY DEF HoldsBlock
  <1>3. BuildsAnchored'
    <2>0. blocks' = blocks /\ BuildsAnchored
      BY DEF ChainAnchored
    <2>1. ASSUME NEW u \in Tasks PROVE task'[u].at \in DOMAIN blocks'
      BY <2>0 DEF BuildsAnchored
    <2>2. ASSUME NEW u \in Tasks, HoldsBlock(u)'
          PROVE  /\ task'[u].made \in DOMAIN blocks'
                 /\ blocks'[task'[u].made].line =
                       Append(blocks'[task'[u].at].line, task'[u].made)
                 /\ task'[u].made \notin Announced'
                 /\ \A v \in Tasks \ {u} :
                       HoldsBlock(v)' => task'[v].made # task'[u].made
      <3>1. HoldsBlock(u) /\ task'[u].at = task[u].at
            /\ task'[u].made = task[u].made
        BY <1>2, <2>2
      <3>2. /\ task[u].made \in DOMAIN blocks
            /\ blocks[task[u].made].line =
                  Append(blocks[task[u].at].line, task[u].made)
            /\ task[u].made \notin Announced
        BY <2>0, <3>1 DEF BuildsAnchored
      <3>3. ASSUME NEW v \in Tasks \ {u}, HoldsBlock(v)'
            PROVE  task'[v].made # task'[u].made
        <4>1. HoldsBlock(v) /\ task'[v].made = task[v].made
          BY <1>2, <3>3
        <4> QED
          BY <2>0, <3>1, <4>1 DEF BuildsAnchored
      <3> QED
        BY <1>1, <2>0, <3>1, <3>2, <3>3
    <2>3. ASSUME NEW u \in Tasks, task'[u].pc \in {"committed", "stored"}
          PROVE  OnChain(task[u].made)'
      <3>1. HoldsBlock(u)' /\ task[u].pc \in {"committed", "stored"}
        BY <2>3 DEF HoldsBlock
      <3>2. task'[u].made = task[u].made /\ OnChain(task[u].made)
        BY <1>2, <2>0, <3>1 DEF BuildsAnchored
      <3>3. OnChain(task[u].made)' <=> OnChain(task[u].made)
        BY <3>2 DEF OnChain
      <3> QED
        BY <3>2, <3>3
    <2> QED
      BY <2>1, <2>2, <2>3 DEF BuildsAnchored
  <1> QED
    BY <1>1, <1>3
    DEF ChainAnchored, LinesAnchored, OnlyHeadsAnnounced

(***************************************************************************)
(* Finalizing adds a block whose line is its parent's and itself; its id   *)
(* is new, so no other build holds it and no event names it.               *)
(***************************************************************************)
LEMMA FinalizeAnchored ==
  ASSUME TypeOK, ChainAnchored, NEW t \in Tasks, Finalize(t)
  PROVE  ChainAnchored'
  <1> DEFINE id == Len(blocks) + 1
             parent == blocks[task[t].at]
             line == Append(parent.line, id)
  <1>0. /\ blocks \in Seq(Block) /\ head \in DOMAIN blocks
        /\ task[t].at \in DOMAIN blocks /\ parent \in Block
        /\ parent.line \in Seq(BlockIds) /\ parent.number \in Nat
        /\ Len(blocks) \in Nat
    BY TaskFacts DEF TypeOK, BlocksTyped, ChainAnchored, Block
  <1>a. id \in BlockIds /\ line \in Seq(BlockIds)
    BY <1>0 DEF BlockIds
  <1>1. /\ UNCHANGED <<head, events>>
        /\ \A i \in DOMAIN blocks : blocks'[i] = blocks[i]
        /\ DOMAIN blocks' = DOMAIN blocks \cup {id}
        /\ id \notin DOMAIN blocks
        /\ blocks'[id].line = line /\ blocks'[id].number = parent.number + 1
    <2> DEFINE new == [number |-> Building(t), line |-> line,
                       runtime |-> task[t].prototype,
                       txs |-> task[t].included,
                       ledger |-> parent.ledger \cup task[t].included,
                       code |-> task[t].code]
    <2>1. blocks' = Append(blocks, new) /\ UNCHANGED <<head, events>>
      BY DEF Finalize
    <2>2. new.line = line /\ new.number = parent.number + 1
      BY DEF Building
    <2>3. blocks \in Seq(Block \cup {new}) /\ new \in Block \cup {new}
      BY <1>0
    <2> HIDE DEF new
    <2> QED
      <3>1. /\ DOMAIN Append(blocks, new) = DOMAIN blocks \cup {id}
            /\ id \notin DOMAIN blocks
            /\ \A i \in DOMAIN blocks : Append(blocks, new)[i] = blocks[i]
            /\ Append(blocks, new)[id] = new
        BY <2>3, AppendFacts
      <3> QED
        BY <2>1, <2>2, <3>1
  <1>2. /\ \A u \in Tasks \ {t} : task'[u] = task[u]
        /\ task'[t].pc = "finalized" /\ task'[t].at = task[t].at
        /\ task'[t].made = id
    BY DEF Finalize, TypeOK, TasksTyped, Task
  <1>3. LinesAnchored'
    <2>1. Len(parent.line) = parent.number + 1
      BY <1>0 DEF ChainAnchored, LinesAnchored
    <2>2. /\ Len(line) = parent.number + 2 /\ line[Len(line)] = id
          /\ \A n \in DOMAIN line :
                line[n] = id \/ \E m \in DOMAIN parent.line :
                                   line[n] = parent.line[m]
      <3>1. /\ Len(line) = Len(parent.line) + 1
            /\ DOMAIN line = DOMAIN parent.line \cup {Len(parent.line) + 1}
            /\ \A i \in DOMAIN parent.line : line[i] = parent.line[i]
            /\ line[Len(parent.line) + 1] = id
        <4>1. parent.line \in Seq(BlockIds) /\ id \in BlockIds
          BY <1>0, <1>a
        <4> HIDE DEF id, parent
        <4> QED
          BY <4>1, AppendFacts
      <3>2. parent.number \in Nat /\ Len(parent.line) = parent.number + 1
        BY <1>0, <2>1
      <3> HIDE DEF id, parent, line
      <3> QED
        BY <3>1, <3>2
    <2>3. \A m \in DOMAIN parent.line : parent.line[m] \in DOMAIN blocks
      BY <1>0 DEF ChainAnchored, LinesAnchored
    <2>4. \A i \in DOMAIN blocks :
             /\ Len(blocks[i].line) = blocks[i].number + 1
             /\ blocks[i].line[Len(blocks[i].line)] = i
             /\ \A n \in DOMAIN blocks[i].line :
                   blocks[i].line[n] \in DOMAIN blocks
      BY DEF ChainAnchored, LinesAnchored
    <2>5. /\ Len(blocks'[id].line) = blocks'[id].number + 1
          /\ blocks'[id].line[Len(blocks'[id].line)] = id
          /\ \A n \in DOMAIN blocks'[id].line :
                blocks'[id].line[n] \in DOMAIN blocks'
      <3>0. parent.number \in Nat
        BY <1>0 DEF Block
      <3>1. Len(line) = (parent.number + 1) + 1
        <4> HIDE DEF line, parent
        <4> QED
          BY <2>2, <3>0
      <3>2. \A n \in DOMAIN line : line[n] \in DOMAIN blocks'
        <4> HIDE DEF line, id, parent
        <4> QED
          BY <1>1, <2>2, <2>3
      <3>3. blocks'[id].line = line /\ blocks'[id].number = parent.number + 1
        BY <1>1
      <3> HIDE DEF line, id, parent
      <3> QED
        BY <2>2, <3>1, <3>2, <3>3
    <2> QED
      BY <1>1, <2>4, <2>5 DEF LinesAnchored
  <1>4. Announced' = Announced /\ Announced \subseteq DOMAIN blocks
    BY <1>1 DEF Announced, ChainAnchored
  <1>5. \A b : OnChain(b)' <=> OnChain(b)
    BY <1>0, <1>1 DEF OnChain
  <1>6. BuildsAnchored'
    <2>0. BuildsAnchored
      BY DEF ChainAnchored
    <2>1. \A u \in Tasks : task'[u].at \in DOMAIN blocks'
      BY <1>0, <1>1, <1>2, <2>0 DEF BuildsAnchored
    <2>2. \A u \in Tasks \ {t} : HoldsBlock(u)' <=> HoldsBlock(u)
      BY <1>2 DEF HoldsBlock
    <2>3. \A u \in Tasks \ {t} : HoldsBlock(u) => task[u].made # id
      BY <1>1, <2>0 DEF BuildsAnchored
    <2>4. ASSUME NEW u \in Tasks, HoldsBlock(u)'
          PROVE  /\ task'[u].made \in DOMAIN blocks'
                 /\ blocks'[task'[u].made].line =
                       Append(blocks'[task'[u].at].line, task'[u].made)
                 /\ task'[u].made \notin Announced'
                 /\ \A v \in Tasks \ {u} :
                       HoldsBlock(v)' => task'[v].made # task'[u].made
      <3>1. CASE u = t
        <4>1. /\ task'[u].made = id /\ id \in DOMAIN blocks'
              /\ id \notin Announced' /\ task'[u].at = task[t].at
          BY <1>1, <1>2, <1>4, <3>1
        <4>2. blocks'[id].line = Append(blocks'[task[t].at].line, id)
          BY <1>0, <1>1
        <4>3. \A v \in Tasks \ {u} : HoldsBlock(v)' => task'[v].made # id
          BY <1>2, <2>2, <2>3, <3>1
        <4> QED
          BY <4>1, <4>2, <4>3
      <3>2. CASE u # t
        <4>1. HoldsBlock(u) /\ task'[u] = task[u] /\ task[u].made # id
          BY <1>2, <2>2, <2>3, <2>4, <3>2
        <4>2. /\ task[u].at \in DOMAIN blocks /\ task[u].made \in DOMAIN blocks
              /\ blocks[task[u].made].line =
                    Append(blocks[task[u].at].line, task[u].made)
              /\ task[u].made \notin Announced
              /\ \A v \in Tasks \ {u} :
                    HoldsBlock(v) => task[v].made # task[u].made
          BY <2>0, <4>1 DEF BuildsAnchored
        <4>3. \A v \in Tasks \ {u} :
                 HoldsBlock(v)' => task'[v].made # task'[u].made
          <5> HIDE DEF id
          <5> QED
            BY <1>2, <2>2, <4>1, <4>2
        <4> HIDE DEF id, line, parent
        <4> QED
          BY <1>1, <1>4, <4>1, <4>2, <4>3
      <3> QED
        BY <3>1, <3>2
    <2>5. ASSUME NEW u \in Tasks, task'[u].pc \in {"committed", "stored"}
          PROVE  OnChain(task[u].made)'
      <3>1. u # t /\ task'[u] = task[u]
        BY <1>2, <2>5
      <3>2. OnChain(task[u].made)
        BY <2>0, <2>5, <3>1 DEF BuildsAnchored
      <3> QED
        BY <1>0, <1>1, <3>1, <3>2 DEF OnChain
    <2> QED
      BY <2>1, <2>4, <2>5 DEF BuildsAnchored
  <1>7. OnlyHeadsAnnounced'
    BY <1>1, <1>4, <1>5 DEF ChainAnchored, OnlyHeadsAnnounced
  <1> QED
    BY <1>1, <1>3, <1>4, <1>6, <1>7 DEF ChainAnchored

(***************************************************************************)
(* Accepting a block replaces the head by a block whose line is the old    *)
(* head's and itself.                                                      *)
(***************************************************************************)
LEMMA AcceptExtends ==
  ASSUME TypeOK, ChainAnchored, NEW t \in Tasks, AcceptBlock(t)
  PROVE  /\ blocks' = blocks /\ head' \in DOMAIN blocks
         /\ blocks[head'].line = Append(blocks[head].line, head')
         /\ head' = task[t].made
  BY DEF AcceptBlock, ChainAnchored, BuildsAnchored, HoldsBlock

LEMMA AcceptAnchored ==
  ASSUME TypeOK, ChainAnchored, NEW t \in Tasks, AcceptBlock(t)
  PROVE  ChainAnchored'
  <1>0. /\ blocks' = blocks /\ events' = events
        /\ blocks[head'].line = Append(blocks[head].line, head')
        /\ blocks[head].line \in Seq(BlockIds)
        /\ head' = task[t].made
    <2>1. blocks[head] \in Block
      BY DEF TypeOK, BlocksTyped
    <2>2. blocks[head].line \in Seq(BlockIds)
      BY <2>1 DEF Block
    <2> QED
      BY <2>2, AcceptExtends DEF AcceptBlock
  <1>1. /\ \A u \in Tasks \ {t} : task'[u] = task[u]
        /\ task[t].pc = "recreated" /\ task'[t].pc = "committed"
        /\ task'[t].at = task[t].at /\ task'[t].made = task[t].made
    BY DEF AcceptBlock, TypeOK, TasksTyped, Task
  <1>2. \A b : OnChain(b) => OnChain(b)'
    BY <1>0 DEF OnChain
  <1>3. OnChain(task[t].made)'
    <2>1. Len(blocks[head].line) + 1 \in DOMAIN blocks[head'].line
      BY <1>0
    <2>2. blocks[head'].line[Len(blocks[head].line) + 1] = head'
      BY <1>0
    <2> QED
      BY <1>0, <1>1, <2>1, <2>2 DEF OnChain
  <1>4. \A u \in Tasks : /\ HoldsBlock(u)' <=> HoldsBlock(u)
                         /\ task'[u].at = task[u].at
                         /\ task'[u].made = task[u].made
    BY <1>1 DEF HoldsBlock
  <1>5. Announced' = Announced
    BY <1>0 DEF Announced
  <1>6. BuildsAnchored'
    <2>0. BuildsAnchored
      BY DEF ChainAnchored
    <2>1. ASSUME NEW u \in Tasks PROVE task'[u].at \in DOMAIN blocks'
      BY <1>0, <1>4, <2>0 DEF BuildsAnchored
    <2>2. ASSUME NEW u \in Tasks, HoldsBlock(u)'
          PROVE  /\ task'[u].made \in DOMAIN blocks'
                 /\ blocks'[task'[u].made].line =
                       Append(blocks'[task'[u].at].line, task'[u].made)
                 /\ task'[u].made \notin Announced'
                 /\ \A v \in Tasks \ {u} :
                       HoldsBlock(v)' => task'[v].made # task'[u].made
      BY <1>0, <1>4, <1>5, <2>0, <2>2 DEF BuildsAnchored
    <2>3. ASSUME NEW u \in Tasks, task'[u].pc \in {"committed", "stored"}
          PROVE  OnChain(task[u].made)'
      <3>1. CASE u = t
        BY <1>3, <3>1
      <3>2. CASE u # t
        <4>1. OnChain(task[u].made) /\ task'[u].made = task[u].made
          BY <1>1, <2>0, <2>3, <3>2 DEF BuildsAnchored
        <4> QED
          BY <1>0, <4>1 DEF OnChain
      <3> QED
        BY <3>1, <3>2
    <2> QED
      BY <2>1, <2>2, <2>3 DEF BuildsAnchored
  <1> QED
    BY <1>0, <1>2, <1>5, <1>6
    DEF ChainAnchored, LinesAnchored, OnlyHeadsAnnounced

(***************************************************************************)
(* Announcing a block, on the chain and unannounced so far, keeps every    *)
(* announcement on the chain and single.                                   *)
(***************************************************************************)
LEMMA EmitAnchored ==
  ASSUME TypeOK, ChainAnchored, NEW t \in Tasks, EmitNewBlock(t)
  PROVE  ChainAnchored'
  <1>0. UNCHANGED <<blocks, head>>
    BY DEF EmitNewBlock
  <1>1. PICK keys \in SUBSET Keys :
           events' = Append(events, [block |-> task[t].made,
                                     modifiedKeys |-> keys])
    BY DEF EmitNewBlock
  <1>2. /\ task[t].made \in DOMAIN blocks /\ task[t].made \notin Announced
        /\ OnChain(task[t].made)
        /\ HoldsBlock(t)
        /\ \A u \in Tasks \ {t} : HoldsBlock(u) => task[u].made # task[t].made
    BY DEF EmitNewBlock, ChainAnchored, BuildsAnchored, HoldsBlock
  <1>3. /\ events \in Seq([block : BlockIds, modifiedKeys : SUBSET Keys])
        /\ Len(events) \in Nat
    BY DEF TypeOK, BlocksTyped
  <1>4. /\ DOMAIN events' = DOMAIN events \cup {Len(events) + 1}
        /\ \A i \in DOMAIN events : events'[i] = events[i]
        /\ events'[Len(events) + 1].block = task[t].made
    BY <1>1, <1>3
  <1>5. Announced' = Announced \cup {task[t].made}
    BY <1>4 DEF Announced
  <1>6. /\ \A u \in Tasks \ {t} : task'[u] = task[u]
        /\ task'[t] = Idle
    BY DEF EmitNewBlock, TypeOK, TasksTyped
  <1>7. 1 \in DOMAIN blocks
    BY DEF TypeOK, BlocksTyped
  <1>8. BuildsAnchored'
    <2>0. BuildsAnchored
      BY DEF ChainAnchored
    <2>1. task'[t].at = 1 /\ task'[t].pc = "idle"
      BY <1>6 DEF Idle
    <2>2. ASSUME NEW u \in Tasks PROVE task'[u].at \in DOMAIN blocks'
      BY <1>0, <1>6, <1>7, <2>0, <2>1 DEF BuildsAnchored
    <2>3. ASSUME NEW u \in Tasks, HoldsBlock(u)'
          PROVE  u # t /\ task'[u] = task[u] /\ HoldsBlock(u)
      BY <1>6, <2>1, <2>3 DEF HoldsBlock
    <2>4. ASSUME NEW u \in Tasks, HoldsBlock(u)'
          PROVE  /\ task'[u].made \in DOMAIN blocks'
                 /\ blocks'[task'[u].made].line =
                       Append(blocks'[task'[u].at].line, task'[u].made)
                 /\ task'[u].made \notin Announced'
                 /\ \A v \in Tasks \ {u} :
                       HoldsBlock(v)' => task'[v].made # task'[u].made
      BY <1>0, <1>2, <1>5, <2>0, <2>3, <2>4 DEF BuildsAnchored
    <2>5. ASSUME NEW u \in Tasks, task'[u].pc \in {"committed", "stored"}
          PROVE  OnChain(task[u].made)'
      <3>1. u # t /\ task'[u] = task[u]
        BY <1>6, <2>1, <2>5
      <3>2. OnChain(task[u].made)
        BY <2>0, <2>5, <3>1 DEF BuildsAnchored
      <3> QED
        BY <1>0, <3>1, <3>2 DEF OnChain
    <2> QED
      BY <2>2, <2>4, <2>5 DEF BuildsAnchored
  <1>9. OnlyHeadsAnnounced'
    <2>1. \A b : OnChain(b)' <=> OnChain(b)
      BY <1>0 DEF OnChain
    <2>2. \A b \in Announced' : OnChain(b)'
      BY <1>2, <1>5, <2>1 DEF ChainAnchored, OnlyHeadsAnnounced
    <2>3. \A i \in DOMAIN events : events[i].block # task[t].made
      BY <1>2 DEF Announced
    <2>4. \A i, j \in DOMAIN events' :
             events'[i].block = events'[j].block => i = j
      BY <1>4, <2>3 DEF ChainAnchored, OnlyHeadsAnnounced
    <2> QED
      BY <2>2, <2>4 DEF OnlyHeadsAnnounced
  <1> QED
    BY <1>0, <1>2, <1>5, <1>8, <1>9 DEF ChainAnchored, LinesAnchored

(***************************************************************************)
(* A step of t that leaves the chain and the other tasks alone, and holds  *)
(* no block but one it held already, at the same place.                    *)
(***************************************************************************)
QuietStep(t) ==
    /\ UNCHANGED <<blocks, head, events>>
    /\ DOMAIN task' = Tasks
    /\ \A u \in Tasks \ {t} : task'[u] = task[u]
    /\ task'[t].at \in DOMAIN blocks
    /\ HoldsBlock(t)' => /\ HoldsBlock(t)
                         /\ task'[t].at = task[t].at
                         /\ task'[t].made = task[t].made
    /\ task'[t].pc \in {"committed", "stored"} =>
           task[t].pc \in {"committed", "stored"}

(***************************************************************************)
(* The steps that finish nothing are quiet: a build up to the finalization *)
(* and after the head write, a rejected or abandoned build.                *)
(***************************************************************************)
LEMMA QuietBuildSteps ==
  ASSUME TypeOK, ChainAnchored, NEW t \in Builders,
         \/ \E batch \in Batches : BeginBuild(t, batch)
         \/ BuildStep(t)
         \/ AbandonBuild(t),
         ~ Finalize(t), ~ AcceptBlock(t), ~ EmitNewBlock(t)
  PROVE  QuietStep(t)
  <1>0. /\ t \in Tasks /\ task \in [Tasks -> Task] /\ task[t] \in Task
        /\ task[t].at \in DOMAIN blocks
        /\ head \in DOMAIN blocks /\ 1 \in DOMAIN blocks
    BY TaskFacts DEF TypeOK, TasksTyped, BlocksTyped, ChainAnchored, Tasks
  <1>1. ASSUME NEW batch \in Batches, BeginBuild(t, batch) PROVE QuietStep(t)
    BY <1>0, <1>1 DEF BeginBuild, QuietStep, HoldsBlock, Idle
  <1>2. CASE CloneExecutor(t)
    BY <1>0, <1>2 DEF CloneExecutor, QuietStep, HoldsBlock, Task
  <1>3. CASE TakePrototype(t)
    BY <1>0, <1>3 DEF TakePrototype, QuietStep, HoldsBlock, Task
  <1>4. CASE Initialize(t)
    BY <1>0, <1>4 DEF Initialize, QuietStep, HoldsBlock, Task
  <1>5. CASE ApplyInherents(t)
    BY <1>0, <1>5 DEF ApplyInherents, QuietStep, HoldsBlock, Task
  <1>6. CASE ApplyExtrinsic(t)
    <2>1. /\ UNCHANGED <<blocks, head, events>>
          /\ task[t].pc = "inherents"
          /\ \/ task' = [task EXCEPT ![t].todo = Tail(@)]
             \/ \E tx : task' = [task EXCEPT
                                    ![t].todo = Tail(@),
                                    ![t].included = @ \cup {tx},
                                    ![t].code = IF tx \in Upgrades THEN tx
                                                                   ELSE @]
      BY <1>6, Zenon DEF ApplyExtrinsic
    <2>2. /\ \A u \in Tasks \ {t} : task'[u] = task[u]
          /\ DOMAIN task' = Tasks
          /\ task'[t].pc = task[t].pc /\ task'[t].at = task[t].at
      <3>1. CASE task' = [task EXCEPT ![t].todo = Tail(@)]
        BY <1>0, <3>1 DEF Task
      <3>2. ASSUME NEW tx,
                   task' = [task EXCEPT
                               ![t].todo = Tail(@),
                               ![t].included = @ \cup {tx},
                               ![t].code = IF tx \in Upgrades THEN tx ELSE @]
            PROVE  <2>2!:
        <4> DEFINE code == IF tx \in Upgrades THEN tx ELSE task[t].code
        <4>1. task' = [task EXCEPT
                          ![t] = [task[t] EXCEPT
                                     !.todo = Tail(task[t].todo),
                                     !.included = task[t].included \cup {tx},
                                     !.code = code]]
          BY <1>0, <3>2 DEF Task
        <4> HIDE DEF code
        <4> QED
          BY <1>0, <4>1 DEF Task
      <3> QED
        BY <2>1, <3>1, <3>2
    <2> QED
      BY <1>0, <2>1, <2>2 DEF QuietStep, HoldsBlock
  <1>7. CASE AbandonBuild(t)
    BY <1>0, <1>7 DEF AbandonBuild, QuietStep, HoldsBlock, Idle
  <1>8. CASE RuntimeUpgraded(t)
    BY <1>0, <1>8 DEF RuntimeUpgraded, QuietStep, HoldsBlock, Task
  <1>9. CASE RecreateExecutor(t)
    BY <1>0, <1>9 DEF RecreateExecutor, QuietStep, HoldsBlock, Task
  <1>10. CASE RejectBlock(t)
    BY <1>0, <1>10 DEF RejectBlock, QuietStep, HoldsBlock, Idle
  <1>11. CASE StorePrototype(t)
    BY <1>0, <1>11 DEF StorePrototype, QuietStep, HoldsBlock, Task
  <1> QED
    BY <1>1, <1>2, <1>3, <1>4, <1>5, <1>6, <1>7, <1>8, <1>9, <1>10, <1>11
    DEF BuildStep

(***************************************************************************)
(* Calls and the warmup never make a block.                                *)
(***************************************************************************)
LEMMA QuietOtherSteps ==
  ASSUME TypeOK, ChainAnchored, NEW t \in Tasks,
         \/ BeginCall(t)
         \/ \E n \in Numbers : CallAncestor(t, n)
         \/ CallStep(t)
         \/ WarmupStep(t)
  PROVE  QuietStep(t)
  <1>0. /\ task \in [Tasks -> Task] /\ task[t] \in Task
        /\ task[t].at \in DOMAIN blocks
        /\ head \in DOMAIN blocks /\ 1 \in DOMAIN blocks
    BY TaskFacts DEF TypeOK, TasksTyped, BlocksTyped, ChainAnchored
  <1>1. CASE BeginCall(t)
    BY <1>0, <1>1 DEF BeginCall, QuietStep, HoldsBlock, Task
  <1>2. ASSUME NEW n \in Numbers, CallAncestor(t, n) PROVE QuietStep(t)
    <2>1. blocks[head] \in Block
      BY DEF TypeOK, BlocksTyped
    <2>2. /\ blocks[head].number \in Nat
          /\ blocks[head].line \in Seq(BlockIds)
          /\ Len(blocks[head].line) = blocks[head].number + 1
      BY <1>0, <2>1 DEF Block, ChainAnchored, LinesAnchored
    <2>3. n \in Nat /\ n < blocks[head].number
      <3>1. n < blocks[head].number
        BY <1>2, Zenon DEF CallAncestor
      <3> QED
        BY <3>1, BoundAssumption DEF Numbers
    <2>4. n + 1 \in DOMAIN blocks[head].line
      BY <2>2, <2>3
    <2>5. blocks[head].line[n + 1] \in DOMAIN blocks
      BY <1>0, <2>4 DEF ChainAnchored, LinesAnchored
    <2>6. /\ \A u \in Tasks \ {t} : task'[u] = task[u]
          /\ DOMAIN task' = Tasks
          /\ task'[t].pc = "historical"
          /\ task'[t].at = blocks[head].line[n + 1]
          /\ UNCHANGED <<blocks, head, events>>
      BY <1>0, <1>2 DEF CallAncestor, Task
    <2> QED
      BY <2>5, <2>6 DEF QuietStep, HoldsBlock
  <1>3. CASE CloneExecutor(t)
    BY <1>0, <1>3 DEF CloneExecutor, QuietStep, HoldsBlock, Task
  <1>4. CASE TakePrototype(t)
    BY <1>0, <1>4 DEF TakePrototype, QuietStep, HoldsBlock, Task
  <1>5. CASE RunCall(t)
    BY <1>0, <1>5 DEF RunCall, QuietStep, HoldsBlock, Task
  <1>6. CASE CheckHead(t)
    BY <1>0, <1>6 DEF CheckHead, QuietStep, HoldsBlock, Task, Idle
  <1>7. CASE RestorePrototype(t)
    BY <1>0, <1>7 DEF RestorePrototype, QuietStep, HoldsBlock, Idle
  <1>8. CASE Return(t)
    BY <1>0, <1>8 DEF Return, QuietStep, HoldsBlock, Idle
  <1>9. CASE WarmupCompile(t)
    BY <1>0, <1>9 DEF WarmupCompile, QuietStep, HoldsBlock, Task
  <1>10. CASE WarmupStoreSlot(t)
    BY <1>0, <1>10 DEF WarmupStoreSlot, QuietStep, HoldsBlock, Task
  <1>11. CASE WarmupStorePrototype(t)
    BY <1>0, <1>11 DEF WarmupStorePrototype, QuietStep, HoldsBlock, Task
  <1>12. CASE WarmupProviders(t)
    BY <1>0, <1>12 DEF WarmupProviders, QuietStep, HoldsBlock, Idle
  <1> QED
    BY <1>1, <1>2, <1>3, <1>4, <1>5, <1>6, <1>7, <1>8, <1>9, <1>10, <1>11,
       <1>12
    DEF CallStep, WarmupStep

(***************************************************************************)
(* Only three kinds of step are not quiet.                                 *)
(***************************************************************************)
LEMMA StepKinds ==
  ASSUME TypeOK, ChainAnchored, Next
  PROVE  \E t \in Tasks : \/ QuietStep(t)
                          \/ Finalize(t)
                          \/ AcceptBlock(t)
                          \/ EmitNewBlock(t)
  <1>1. ASSUME NEW t \in Builders,
               \/ \E batch \in Batches : BeginBuild(t, batch)
               \/ BuildStep(t)
               \/ AbandonBuild(t)
        PROVE  \/ QuietStep(t)
               \/ Finalize(t)
               \/ AcceptBlock(t)
               \/ EmitNewBlock(t)
    BY <1>1, QuietBuildSteps
  <1>2. ASSUME NEW t \in Callers,
               \/ BeginCall(t)
               \/ \E n \in Numbers : CallAncestor(t, n)
               \/ CallStep(t)
        PROVE  t \in Tasks /\ QuietStep(t)
    BY <1>2, QuietOtherSteps DEF Tasks
  <1>3. ASSUME NEW t \in Warmers, WarmupStep(t)
        PROVE  t \in Tasks /\ QuietStep(t)
    BY <1>3, QuietOtherSteps DEF Tasks
  <1> QED
    BY <1>1, <1>2, <1>3 DEF Next, Tasks

(***************************************************************************)
(* Every step keeps the chain anchored.                                    *)
(***************************************************************************)
LEMMA ChainKept ==
  ASSUME TypeOK, ChainAnchored, [Next]_vars
  PROVE  ChainAnchored'
  <1>1. CASE UNCHANGED vars
    <2>1. UNCHANGED <<blocks, head, events, task>>
      BY <1>1 DEF vars
    <2>2. LinesAnchored' /\ Announced' = Announced
      BY <2>1 DEF ChainAnchored, LinesAnchored, Announced
    <2>3. BuildsAnchored'
      <3>1. \A b : OnChain(b)' <=> OnChain(b)
        BY <2>1 DEF OnChain
      <3>2. \A t \in Tasks : HoldsBlock(t)' <=> HoldsBlock(t)
        BY <2>1 DEF HoldsBlock
      <3> QED
        BY <2>1, <2>2, <3>1, <3>2 DEF ChainAnchored, BuildsAnchored
    <2>4. OnlyHeadsAnnounced'
      BY <2>1 DEF ChainAnchored, OnlyHeadsAnnounced, OnChain, Announced
    <2> QED
      BY <2>1, <2>2, <2>3, <2>4 DEF ChainAnchored
  <1>2. ASSUME NEW t \in Tasks, QuietStep(t) PROVE ChainAnchored'
    BY <1>2, QuietStepAnchored DEF QuietStep
  <1> QED
    BY <1>1, <1>2, StepKinds, FinalizeAnchored, AcceptAnchored, EmitAnchored

LEMMA InitAnchored ==
  ASSUME Init
  PROVE  TypeOK /\ ChainAnchored
  <1>1. ForkPoint \in Block /\ Idle \in Task
    BY DEF ForkPoint, Block, Idle, Task, Codes, BlockIds
  <1>2. /\ blocks \in Seq(Block) /\ DOMAIN blocks = {1}
        /\ blocks[1] = ForkPoint /\ head = 1
        /\ events = <<>>
    BY <1>1 DEF Init
  <1>3. TypeOK
    <2>1. StorageTyped
      BY DEF Init, StorageTyped, Keys
    <2>2. CachesTyped
      BY DEF Init, CachesTyped, Codes
    <2>3. BlocksTyped
      BY <1>2 DEF BlocksTyped
    <2>4. TasksTyped
      BY <1>1 DEF Init, TasksTyped, Idle
    <2>5. builds \in Numbers
      BY BoundAssumption DEF Init, Numbers
    <2> QED
      BY <2>1, <2>2, <2>3, <2>4, <2>5 DEF TypeOK
  <1>4. Announced = {} /\ OnlyHeadsAnnounced
    BY <1>2 DEF Announced, OnlyHeadsAnnounced
  <1>5. LinesAnchored
    BY <1>2 DEF LinesAnchored, ForkPoint
  <1>6. BuildsAnchored
    BY <1>2 DEF BuildsAnchored, HoldsBlock, Init, Idle
  <1> QED
    BY <1>3, <1>4, <1>5, <1>6 DEF ChainAnchored

-----------------------------------------------------------------------------
(* Theorems. *)

(***************************************************************************)
(* Types and the anchoring of blocks, builds and announcements hold        *)
(* throughout: neither is inductive alone, since a task reads its parent   *)
(* block through the anchoring and the anchoring is about typed records.   *)
(***************************************************************************)
THEOREM ChainInvariant == Spec => [](TypeOK /\ ChainAnchored)
  <1>1. Init => TypeOK /\ ChainAnchored
    BY InitAnchored
  <1>2. TypeOK /\ ChainAnchored /\ [Next]_vars => (TypeOK /\ ChainAnchored)'
    BY TypesKept, ChainKept DEF ChainAnchored
  <1> QED
    BY <1>1, <1>2, PTL DEF Spec

(***************************************************************************)
(* Only blocks that became the head are announced, each at most once: a    *)
(* block that lost the head to a concurrent build_block never is.          *)
(***************************************************************************)
THEOREM Announcements == Spec => []OnlyHeadsAnnounced
  <1>1. TypeOK /\ ChainAnchored => OnlyHeadsAnnounced
    BY DEF ChainAnchored
  <1> QED
    BY <1>1, ChainInvariant, PTL

(***************************************************************************)
(* However many build_block calls run at once, the head moves only to a    *)
(* block whose parent is the head it replaces.                             *)
(***************************************************************************)
THEOREM HeadOnlyExtends == Spec => HeadExtends
  <1>1. TypeOK /\ ChainAnchored /\ [Next]_vars
            => [head' # head => Parent(blocks'[head']) = head]_vars
    <2> SUFFICES ASSUME TypeOK, ChainAnchored, Next, head' # head
                 PROVE  Parent(blocks'[head']) = head
      OBVIOUS
    <2>1. PICK t \in Tasks : AcceptBlock(t)
      BY StepKinds DEF QuietStep, Finalize, EmitNewBlock
    <2>2. /\ blocks' = blocks
          /\ blocks[head'].line = Append(blocks[head].line, head')
          /\ head' \in DOMAIN blocks
      BY <2>1, AcceptExtends
    <2>3. /\ blocks[head] \in Block /\ head \in DOMAIN blocks
          /\ head' \in BlockIds
      BY <2>2 DEF TypeOK, BlocksTyped, BlockIds
    <2>4. /\ blocks[head].line \in Seq(BlockIds)
          /\ Len(blocks[head].line) = blocks[head].number + 1
          /\ blocks[head].number \in Nat
          /\ blocks[head].line[Len(blocks[head].line)] = head
      BY <2>3 DEF Block, ChainAnchored, LinesAnchored
    <2>5. Len(blocks[head'].line) = Len(blocks[head].line) + 1
      BY <2>2, <2>3, <2>4, AppendFacts
    <2>6. blocks[head'].line[Len(blocks[head].line)] = head
      BY <2>2, <2>3, <2>4, AppendFacts
    <2>7. Len(blocks[head'].line) - 1 = Len(blocks[head].line)
      BY <2>4, <2>5
    <2> QED
      BY <2>2, <2>6, <2>7 DEF Parent
  <1>2. Spec => [](TypeOK /\ ChainAnchored)
    BY ChainInvariant
  <1> QED
    BY <1>1, <1>2, PTL DEF Spec, HeadExtends

-----------------------------------------------------------------------------
(* The inductive invariant behind RuntimeFollowsHead, BlockStateIsItsOwn   *)
(* and CallsSeeTheHead, for builds that do not disturb one another.        *)

(***************************************************************************)
(* One build at a time, and none that fails and leaves its writes behind,  *)
(* or its block with the old executor.                                     *)
(***************************************************************************)
Undisturbed ==
    /\ \A t, u \in Builders : t = u
    /\ "build" \notin Faults
    /\ "compile" \notin Faults

Top == Len(blocks)     \* the last block made

Preparing(t) == task[t].pc \in {"head", "executor", "prototype", "initialized",
                                "inherents", "applied"}
Holding(t) == task[t].pc \in {"finalized", "recreated"}

(***************************************************************************)
(* The blocks form one line, and the last of them is the head or is about  *)
(* to become it.                                                           *)
(***************************************************************************)
OneLine ==
    /\ \A i \in DOMAIN blocks : blocks[i].number = i - 1
                               /\ blocks[i].line = [j \in 1..i |-> j]
    /\ Top <= builds + 1
    /\ head = Top \/ \E t \in Builders : Holding(t)
    /\ \A t \in Builders :
          /\ Preparing(t) => task[t].at = Top /\ Top <= builds
          /\ Holding(t) => head + 1 = Top /\ task[t].at = head /\ task[t].made = Top

(***************************************************************************)
(* What block i should show of a key, and what the layer shows where it    *)
(* stands.                                                                 *)
(***************************************************************************)
Shown(i, k) == IF k = "ledger" THEN blocks[i].ledger ELSE blocks[i].code
Working(k) == IF modifications[k] # NULL THEN modifications[k].value ELSE Genesis[k]

RowsFor(k, n) == {r \in localValues :
                     r.key = k /\ r.from <= n /\ (r.until = NULL \/ r.until > n)}

(***************************************************************************)
(* A key is being written: its modification is stamped with the number of  *)
(* the block that comes after the last one made.                           *)
(***************************************************************************)
Written(k) == modifications[k] # NULL /\ modifications[k].block = Top

KeyKept(k) ==
    /\ Shown(1, k) = Genesis[k]
    /\ modifications[k] = NULL => \A i \in DOMAIN blocks : Shown(i, k) = Genesis[k]
    /\ modifications[k] # NULL => modifications[k].block \in 1..Top
    /\ modifications[k] # NULL =>
          \A n \in modifications[k].block..(Top - 1) :
              Shown(n + 1, k) = modifications[k].value
    /\ Written(k) => \E t \in Builders : task[t].pc \in {"inherents", "applied"}
    /\ \A n \in 1..(Top - 1) :
          /\ \A r \in RowsFor(k, n) : r.value = Shown(n + 1, k)
          /\ RowsFor(k, n) = {} => Shown(n + 1, k) = Genesis[k]

RowsBounded ==
    \A r \in localValues : /\ r.from \in 1..(Top - 1)
                           /\ r.until # NULL => r.until \in 1..(Top - 1)

(***************************************************************************)
(* What a build has done so far is in the map, and nothing else.           *)
(***************************************************************************)
BuildKept(t) ==
    /\ Preparing(t) =>
          /\ Working("ledger") = blocks[Top].ledger \cup task[t].included
          /\ Working("code") = task[t].code
          /\ task[t].included \cap Upgrades # {} <=> Written("code")
          /\ task[t].newExecutor = NULL
    /\ task[t].pc = "applied" => (task[t].upgraded <=> Written("code"))
    /\ Holding(t) /\ ~task[t].upgraded => blocks[Top].code = blocks[head].code
    /\ task[t].pc = "finalized" => task[t].newExecutor = NULL
    /\ task[t].pc = "recreated" =>
          task[t].newExecutor = IF task[t].upgraded THEN blocks[Top].code ELSE NULL

StateKept ==
    /\ \A k \in Keys : KeyKept(k)
    /\ RowsBounded
    /\ \A t \in Builders : BuildKept(t)

(***************************************************************************)
(* The metadata of a runtime is registered by the block after the upgrade. *)
(***************************************************************************)
Upgrading(i) == blocks[i].txs \cap Upgrades # {}
OwnRuntime(i) == i > 1 => blocks[i].runtime = blocks[i - 1].code

MetadataKept ==
    /\ ~Written("code") =>
          (Upgrading(Top) <=> /\ modifications["code"] # NULL
                              /\ modifications["code"].block = Top - 1)
    /\ \A i \in DOMAIN blocks : i > 1 /\ ~Upgrading(i) => blocks[i].code = blocks[i - 1].code
    /\ blocks[1].runtime = blocks[1].code /\ ~Upgrading(1)
    /\ \A n \in Numbers : n >= Top => metadataVersions[n] = NULL
    /\ \A i \in DOMAIN blocks :
          /\ \E m \in 0..(i - 1) : /\ metadataVersions[m] # NULL
                                  /\ \A l \in (m + 1)..(i - 1) : metadataVersions[l] = NULL
          /\ (/\ \A j \in 1..i : OwnRuntime(j)
              /\ ~(i > 1 /\ Upgrading(i) /\ Upgrading(i - 1)))
                => MetadataAt(i - 1) = blocks[i].runtime

(***************************************************************************)
(* A call that was made at what is still the head has the head's executor, *)
(* and read the head's state unless a build was and is under way.          *)
(***************************************************************************)
CallKept(t) ==
    /\ task[t].at <= head
    /\ task[t].pc \in {"executor", "prototype", "answered"} /\ task[t].at = head
          => task[t].executor = blocks[head].code
    /\ task[t].pc = "answered" /\ task[t].at = head =>
          \/ task[t].ledger = blocks[head].ledger
          \/ \E u \in Builders : Preparing(u) \/ Holding(u)

Serial ==
    /\ OneLine
    /\ StateKept
    /\ MetadataKept
    /\ ExecutorMatchesHead
    /\ \A t \in Callers : CallKept(t)


-----------------------------------------------------------------------------
(* What an undisturbed build leaves: reading the shared layer. *)

(***************************************************************************)
(* The blocks and the head, as numbers.                                    *)
(***************************************************************************)
LEMMA TopFacts ==
  ASSUME BlocksTyped
  PROVE  /\ Top \in Nat /\ Top >= 1 /\ DOMAIN blocks = 1..Top
         /\ head \in 1..Top
         /\ \A i \in 1..Top : /\ blocks[i] \in Block
                              /\ blocks[i].ledger \in SUBSET Txs
                              /\ blocks[i].code \in Codes
                              /\ blocks[i].txs \in SUBSET Txs
  <1>1. Top \in Nat /\ DOMAIN blocks = 1..Top /\ head \in 1..Top
    BY DEF BlocksTyped, Top
  <1>2. \A i \in 1..Top : blocks[i] \in Block
    BY <1>1 DEF BlocksTyped
  <1> QED
    BY <1>1, <1>2 DEF Block

(***************************************************************************)
(* Where the layer stands, it shows the map over the fork point.           *)
(***************************************************************************)
LEMMA LatestIsWorking ==
  ASSUME NEW n \in Nat, NEW k \in Keys
  PROVE  Latest(n, k) = Working(k)
  <1>1. 0 \in 0..(MaxBuilds + 1)
    BY BoundAssumption
  <1> QED
    BY <1>1 DEF Latest, Working, Layer!Get, Layer!ModificationAnswers,
       Layer!DeletionAnswers, Layer!UnderDeletedPrefix

(***************************************************************************)
(* A block that has been made shows its own state to a layer beyond it.    *)
(***************************************************************************)
LEMMA PastIsShown ==
  ASSUME TypeOK, NEW k \in Keys, KeyKept(k),
         NEW n \in 0..(Top - 1), NEW l \in Nat, n < l
  PROVE  Layer(l)!Get(n, k) = Shown(n + 1, k)
  <1>0. /\ Top \in Nat /\ Top >= 1 /\ n \in Nat
        /\ 0 \in 0..(MaxBuilds + 1)
        /\ ~ Layer(l)!DeletionAnswers(k)
    BY TopFacts, BoundAssumption
    DEF TypeOK, Layer!DeletionAnswers, Layer!UnderDeletedPrefix
  <1>1. CASE Layer(l)!ModificationAnswers(k, n)
    <2>1. /\ modifications[k] # NULL /\ modifications[k].block < n
          /\ modifications[k].block \in 1..Top
      BY <1>0, <1>1 DEF Layer!ModificationAnswers, KeyKept
    <2>2. n \in modifications[k].block..(Top - 1)
      BY <1>0, <2>1
    <2> QED
      BY <1>1, <2>1, <2>2 DEF KeyKept, Layer!Get
  <1>2. CASE ~ Layer(l)!ModificationAnswers(k, n) /\ n = 0
    <2>1. ~ Layer(l)!IsHistorical(n)
      BY <1>2 DEF Layer!IsHistorical
    <2>2. Shown(n + 1, k) = Genesis[k]
      BY <1>2 DEF KeyKept
    <2> QED
      BY <1>0, <1>2, <2>1, <2>2 DEF Layer!Get
  <1>3. CASE ~ Layer(l)!ModificationAnswers(k, n) /\ n # 0
    <2>1. Layer(l)!RowsAt(k, n) = RowsFor(k, n)
      BY DEF Layer!RowsAt, Layer!Holds, RowsFor
    <2>2. Layer(l)!IsHistorical(n) /\ n \in 1..(Top - 1)
      BY <1>0, <1>3 DEF Layer!IsHistorical
    <2>3. Layer(l)!Get(n, k) = IF RowsFor(k, n) # {}
                               THEN (CHOOSE r \in RowsFor(k, n) : TRUE).value
                               ELSE Genesis[k]
      BY <1>0, <1>3, <2>1, <2>2 DEF Layer!Get, Layer!GetLocalValueAtBlock
    <2>4. RowsFor(k, n) # {} =>
             (CHOOSE r \in RowsFor(k, n) : TRUE) \in RowsFor(k, n)
      OBVIOUS
    <2> QED
      BY <2>2, <2>3, <2>4 DEF KeyKept
  <1> QED
    BY <1>1, <1>2, <1>3

(***************************************************************************)
(* A key no build is writing is, in the map, as the last block left it.    *)
(***************************************************************************)
LEMMA Unwritten ==
  ASSUME TypeOK, NEW k \in Keys, KeyKept(k), ~ Written(k)
  PROVE  Working(k) = Shown(Top, k)
  <1>0. Top \in Nat /\ Top >= 1 /\ DOMAIN blocks = 1..Top
    BY TopFacts DEF TypeOK
  <1>1. CASE modifications[k] = NULL
    BY <1>0, <1>1 DEF KeyKept, Working
  <1>2. CASE modifications[k] # NULL
    <2>1. modifications[k].block \in 1..Top /\ modifications[k].block # Top
      BY <1>2 DEF KeyKept, Written
    <2>2. Top - 1 \in modifications[k].block..(Top - 1)
      BY <1>0, <2>1
    <2>3. Shown((Top - 1) + 1, k) = modifications[k].value
      BY <1>2, <2>2 DEF KeyKept
    <2> QED
      BY <1>0, <1>2, <2>3 DEF Working
  <1> QED
    BY <1>1, <1>2

-----------------------------------------------------------------------------
(* Steps that leave the head, the executor, the storage and the blocks. *)

(***************************************************************************)
(* What the invariant says of the storage depends on the storage, on the   *)
(* blocks and on whether some build is between its inherents and its       *)
(* finalization.                                                           *)
(***************************************************************************)
Writing == \E t \in Builders : task[t].pc \in {"inherents", "applied"}

LEMMA SameStorage ==
  ASSUME UNCHANGED <<blocks, storageVars>>
  PROVE  /\ Top' = Top
         /\ \A i, k : Shown(i, k)' = Shown(i, k)
         /\ \A k : Working(k)' = Working(k)
         /\ \A k : Written(k)' <=> Written(k)
         /\ \A k, n : RowsFor(k, n)' = RowsFor(k, n)
         /\ \A n : HasCodeChangedAt(n)' <=> HasCodeChangedAt(n)
         /\ \A n : MetadataAt(n)' = MetadataAt(n)
         /\ \A i : Upgrading(i)' <=> Upgrading(i)
         /\ \A i : OwnRuntime(i)' <=> OwnRuntime(i)
  BY DEF storageVars, Top, Shown, Working, Written, RowsFor, HasCodeChangedAt,
     MetadataAt, Upgrading, OwnRuntime

LEMMA StorageAlone ==
  ASSUME UNCHANGED <<blocks, storageVars>>, Writing => Writing',
         \A k \in Keys : KeyKept(k), RowsBounded, MetadataKept
  PROVE  (\A k \in Keys : KeyKept(k))' /\ RowsBounded' /\ MetadataKept'
  <1>1. UNCHANGED <<blocks, modifications, localValues, metadataVersions>>
    BY DEF storageVars
  <1>2. (\A k \in Keys : KeyKept(k))'
    <2> SUFFICES ASSUME NEW k \in Keys PROVE KeyKept(k)'
      OBVIOUS
    <2>1. KeyKept(k)
      OBVIOUS
    <2>2. Written(k)' => Writing'
      BY <2>1, SameStorage DEF KeyKept, Writing
    <2> QED
      BY <1>1, <2>1, <2>2, SameStorage DEF KeyKept, Writing
  <1>3. RowsBounded'
    BY <1>1, SameStorage DEF RowsBounded
  <1>4. MetadataKept'
    BY <1>1, SameStorage DEF MetadataKept
  <1> QED
    BY <1>2, <1>3, <1>4

(***************************************************************************)
(* A step that is no build's leaves all of it but the calls.               *)
(***************************************************************************)
LEMMA BuildsAlone ==
  ASSUME Serial, UNCHANGED <<head, executor, storageVars, blocks, builds>>,
         \A u \in Builders : task'[u] = task[u]
  PROVE  OneLine' /\ StateKept' /\ MetadataKept' /\ ExecutorMatchesHead'
  <1>1. \A u \in Builders : /\ Preparing(u)' <=> Preparing(u)
                            /\ Holding(u)' <=> Holding(u)
    BY DEF Preparing, Holding
  <1>2. Writing => Writing'
    BY DEF Writing
  <1>3. (\A k \in Keys : KeyKept(k))' /\ RowsBounded' /\ MetadataKept'
    BY <1>2, StorageAlone DEF Serial, StateKept
  <1>4. OneLine'
    BY <1>1, SameStorage DEF Serial, OneLine
  <1>5. ASSUME NEW u \in Builders PROVE BuildKept(u)'
    <2>1. BuildKept(u)
      BY DEF Serial, StateKept
    <2> QED
      BY <1>1, <2>1, SameStorage DEF BuildKept
  <1>6. ExecutorMatchesHead'
    BY DEF Serial, ExecutorMatchesHead
  <1> QED
    BY <1>3, <1>4, <1>5, <1>6 DEF StateKept

(***************************************************************************)
(* A call holds the head's runtime and state while its block is the head.  *)
(***************************************************************************)
Busy == \E u \in Builders : Preparing(u) \/ Holding(u)

LEMMA QuietHeadRead ==
  ASSUME TypeOK, ChainAnchored, Serial, ~ Busy
  PROVE  head = Top /\ Working("ledger") = blocks[head].ledger
  <1>1. head = Top
    BY DEF Serial, OneLine, Busy
  <1>2. "ledger" \in Keys
    BY DEF Keys
  <1>3. KeyKept("ledger")
    BY <1>2 DEF Serial, StateKept
  <1>4. ~ Written("ledger")
    BY <1>3 DEF KeyKept, Busy, Preparing
  <1> QED
    BY <1>1, <1>2, <1>3, <1>4, Unwritten DEF Shown

LEMMA CallerKept ==
  ASSUME TypeOK, ChainAnchored, Serial, NEW t \in Callers,
         \/ BeginCall(t)
         \/ \E n \in Numbers : CallAncestor(t, n)
         \/ CallStep(t)
  PROVE  /\ UNCHANGED <<head, executor, storageVars, blocks, builds>>
         /\ \A u \in Tasks \ {t} : task'[u] = task[u]
         /\ CallKept(t)'
  <1>0. /\ t \in Tasks /\ task \in [Tasks -> Task] /\ task[t] \in Task
        /\ head \in 1..Top /\ Top \in Nat
        /\ executor = blocks[head].code
        /\ CallKept(t)
    BY TopFacts DEF TypeOK, TasksTyped, Tasks, Serial, ExecutorMatchesHead
  <1>1. QuietStep(t)
    BY <1>0, QuietOtherSteps
  <1>2. /\ UNCHANGED <<head, executor, storageVars, blocks, builds>>
        /\ \A u \in Tasks \ {t} : task'[u] = task[u]
    BY <1>1 DEF QuietStep, CallStep, BeginCall, CallAncestor, CloneExecutor,
       TakePrototype, RunCall, CheckHead, RestorePrototype, Return, cacheVars
  <1>3. Busy' <=> Busy
    <2>1. \A u \in Builders : task'[u] = task[u]
      BY <1>2, TaskAssumption DEF Tasks
    <2> QED
      BY <2>1 DEF Busy, Preparing, Holding
  <1>4. CASE BeginCall(t)
    <2>1. task'[t].at = head /\ task'[t].pc = "head"
      BY <1>0, <1>4 DEF BeginCall, Task
    <2> QED
      BY <1>0, <1>2, <2>1 DEF CallKept
  <1>5. ASSUME NEW n \in Numbers, CallAncestor(t, n) PROVE CallKept(t)'
    <2>1. /\ task'[t].pc = "historical"
          /\ task'[t].at = blocks[head].line[n + 1]
          /\ n < blocks[head].number
      BY <1>0, <1>5 DEF CallAncestor, Task
    <2>2. blocks[head].number = head - 1 /\ blocks[head].line = [j \in 1..head |-> j]
      BY <1>0, TopFacts DEF TypeOK, Serial, OneLine
    <2>3. task'[t].at = n + 1 /\ n + 1 <= head
      BY <1>0, <2>1, <2>2, BoundAssumption DEF Numbers
    <2> QED
      BY <1>2, <2>1, <2>3 DEF CallKept
  <1>6. CASE CloneExecutor(t)
    <2>1. /\ task'[t].pc = "executor" /\ task'[t].at = task[t].at
          /\ task'[t].executor = executor
      BY <1>0, <1>6 DEF CloneExecutor, Task
    <2> QED
      BY <1>0, <1>2, <2>1 DEF CallKept
  <1>7. CASE TakePrototype(t)
    <2>1. /\ task'[t].pc = "prototype" /\ task'[t].at = task[t].at
          /\ task'[t].executor = task[t].executor /\ task[t].pc = "executor"
      BY <1>0, <1>7 DEF TakePrototype, Task
    <2> QED
      BY <1>0, <1>2, <2>1 DEF CallKept
  <1>8. CASE RunCall(t)
    <2>1. /\ task'[t].pc = "answered" /\ task'[t].at = task[t].at
          /\ task'[t].executor = task[t].executor /\ task[t].pc = "prototype"
          /\ task'[t].ledger = Latest(Building(t), "ledger")
      BY <1>0, <1>8 DEF RunCall, Task
    <2>2. Building(t) \in Nat
      BY <1>0, TaskFacts DEF TypeOK, ChainAnchored
    <2>3. task'[t].ledger = Working("ledger")
      BY <2>1, <2>2, LatestIsWorking DEF Keys
    <2>4. task'[t].ledger = blocks[head].ledger \/ Busy
      BY <2>3, QuietHeadRead
    <2>5. task'[t].ledger = blocks'[head'].ledger \/ Busy'
      BY <1>2, <1>3, <2>4
    <2> QED
      BY <1>0, <1>2, <2>1, <2>5 DEF CallKept, Busy
  <1>9. CASE CheckHead(t) \/ RestorePrototype(t) \/ Return(t)
    <2>1. task'[t].pc \in {"restore", "idle"} /\ task'[t].at \in {task[t].at, 1}
      BY <1>0, <1>9 DEF CheckHead, RestorePrototype, Return, Idle, Task
    <2>2. task'[t].at <= head
      BY <1>0, <2>1 DEF CallKept
    <2> QED
      BY <1>2, <2>1, <2>2 DEF CallKept
  <1> QED
    BY <1>2, <1>4, <1>5, <1>6, <1>7, <1>8, <1>9 DEF CallStep

(***************************************************************************)
(* Calls and the warmup keep the invariant.                                *)
(***************************************************************************)
LEMMA CallsSerial ==
  ASSUME TypeOK, ChainAnchored, Serial, NEW t \in Callers,
         \/ BeginCall(t)
         \/ \E n \in Numbers : CallAncestor(t, n)
         \/ CallStep(t)
  PROVE  Serial'
  <1>1. /\ UNCHANGED <<head, executor, storageVars, blocks, builds>>
        /\ \A u \in Tasks \ {t} : task'[u] = task[u]
        /\ CallKept(t)'
    BY CallerKept
  <1>2. \A u \in Builders : task'[u] = task[u]
    BY <1>1, TaskAssumption DEF Tasks
  <1>3. OneLine' /\ StateKept' /\ MetadataKept' /\ ExecutorMatchesHead'
    BY <1>1, <1>2, BuildsAlone
  <1>4. ASSUME NEW u \in Callers, u # t PROVE CallKept(u)'
    <2>1. CallKept(u) /\ task'[u] = task[u]
      BY <1>1, <1>4 DEF Serial, Tasks
    <2>2. \A b \in Builders : /\ Preparing(b)' <=> Preparing(b)
                              /\ Holding(b)' <=> Holding(b)
      BY <1>2 DEF Preparing, Holding
    <2> QED
      BY <1>1, <2>1, <2>2 DEF CallKept
  <1> QED
    BY <1>1, <1>3, <1>4 DEF Serial

LEMMA WarmupSerial ==
  ASSUME TypeOK, ChainAnchored, Serial, NEW t \in Warmers, WarmupStep(t)
  PROVE  Serial'
  <1>1. QuietStep(t)
    BY QuietOtherSteps DEF Tasks
  <1>2. /\ UNCHANGED <<head, executor, storageVars, blocks, builds>>
        /\ \A u \in Tasks \ {t} : task'[u] = task[u]
    BY <1>1 DEF QuietStep, WarmupStep, WarmupCompile, WarmupStoreSlot,
       WarmupStorePrototype, WarmupProviders, cacheVars
  <1>3. \A u \in Builders \cup Callers : task'[u] = task[u]
    BY <1>2, TaskAssumption DEF Tasks
  <1>4. OneLine' /\ StateKept' /\ MetadataKept' /\ ExecutorMatchesHead'
    BY <1>2, <1>3, BuildsAlone
  <1>5. ASSUME NEW u \in Callers PROVE CallKept(u)'
    <2>1. CallKept(u) /\ task'[u] = task[u]
      BY <1>3 DEF Serial
    <2>2. \A b \in Builders : /\ Preparing(b)' <=> Preparing(b)
                              /\ Holding(b)' <=> Holding(b)
      BY <1>3 DEF Preparing, Holding
    <2> QED
      BY <1>2, <2>1, <2>2 DEF CallKept
  <1> QED
    BY <1>4, <1>5 DEF Serial

-----------------------------------------------------------------------------
(* Steps of a build that leave the head, the storage and the blocks. *)

(***************************************************************************)
(* What such a step does to the locals of the build: it begins, prepares,  *)
(* has a new executor made, or winds down after the head write.            *)
(***************************************************************************)
Begins(t) ==
    /\ task[t].pc = "idle" /\ task'[t].pc = "head"
    /\ task'[t].at = head /\ task'[t].included = {}
    /\ task'[t].code = blocks[head].code /\ task'[t].newExecutor = NULL
    /\ builds' = builds + 1

Prepares(t) ==
    /\ Preparing(t) /\ Preparing(t)'
    /\ task'[t].at = task[t].at /\ task'[t].included = task[t].included
    /\ task'[t].code = task[t].code
    /\ task'[t].newExecutor = task[t].newExecutor
    /\ task[t].pc \in {"inherents", "applied"}
          => task'[t].pc \in {"inherents", "applied"}
    /\ task'[t].pc = "applied" =>
          (task'[t].upgraded <=> HasCodeChangedAt(Building(t)))
    /\ builds' = builds

Recreates(t) ==
    /\ task[t].pc = "finalized" /\ task'[t].pc = "recreated"
    /\ task'[t].at = task[t].at /\ task'[t].made = task[t].made
    /\ task'[t].upgraded = task[t].upgraded
    /\ task'[t].newExecutor = IF task[t].upgraded
                              THEN Layer(Building(t) + 1)!Get(Building(t), "code")
                              ELSE NULL
    /\ builds' = builds

WindsDown(t) ==
    /\ task[t].pc \in {"committed", "stored"} /\ task'[t].pc \in {"stored", "idle"}
    /\ builds' = builds

Progress(t) ==
    /\ UNCHANGED <<head, executor, storageVars, blocks>>
    /\ \A u \in Tasks \ {t} : task'[u] = task[u]
    /\ Begins(t) \/ Prepares(t) \/ Recreates(t) \/ WindsDown(t)

LEMMA ProgressSteps ==
  ASSUME "compile" \notin Faults, TypeOK, ChainAnchored, NEW t \in Builders,
         \/ \E batch \in Batches : BeginBuild(t, batch)
         \/ CloneExecutor(t) \/ TakePrototype(t) \/ Initialize(t)
         \/ ApplyInherents(t) \/ RuntimeUpgraded(t) \/ RecreateExecutor(t)
         \/ StorePrototype(t) \/ EmitNewBlock(t)
  PROVE  Progress(t)
  <1>0. t \in Tasks /\ task \in [Tasks -> Task] /\ task[t] \in Task
    BY DEF TypeOK, TasksTyped, Tasks
  <1>1. ASSUME NEW batch \in Batches, BeginBuild(t, batch) PROVE Progress(t)
    BY <1>0, <1>1 DEF BeginBuild, Progress, Begins, Idle, cacheVars
  <1>2. CASE CloneExecutor(t)
    BY <1>0, <1>2 DEF CloneExecutor, Progress, Prepares, Preparing, cacheVars, Task
  <1>3. CASE TakePrototype(t)
    BY <1>0, <1>3 DEF TakePrototype, Progress, Prepares, Preparing, cacheVars, Task
  <1>4. CASE Initialize(t)
    BY <1>0, <1>4 DEF Initialize, Progress, Prepares, Preparing, cacheVars, Task
  <1>5. CASE ApplyInherents(t)
    BY <1>0, <1>5 DEF ApplyInherents, Progress, Prepares, Preparing, cacheVars, Task
  <1>6. CASE RuntimeUpgraded(t)
    <2>1. /\ task'[t] = [task[t] EXCEPT !.pc = "applied",
                              !.upgraded = HasCodeChangedAt(Building(t))]
          /\ \A u \in Tasks \ {t} : task'[u] = task[u]
          /\ UNCHANGED <<head, executor, storageVars, blocks, builds>>
          /\ task[t].pc = "inherents"
      BY <1>0, <1>6 DEF RuntimeUpgraded, cacheVars
    <2>2. task'[t].upgraded <=> HasCodeChangedAt(Building(t))
      <3> DEFINE u == HasCodeChangedAt(Building(t))
      <3>1. u \in BOOLEAN
        BY DEF HasCodeChangedAt
      <3>2. task'[t].upgraded = u
        <4> HIDE DEF u
        <4> QED
          BY <1>0, <2>1 DEF Task, u
      <3> QED
        BY <3>2
    <2>3. /\ task'[t].pc = "applied" /\ task'[t].at = task[t].at
          /\ task'[t].included = task[t].included
          /\ task'[t].code = task[t].code
          /\ task'[t].newExecutor = task[t].newExecutor
      BY <1>0, <2>1 DEF Task
    <2> QED
      BY <2>1, <2>2, <2>3 DEF Progress, Prepares, Preparing
  <1>7. CASE RecreateExecutor(t)
    BY <1>0, <1>7 DEF RecreateExecutor, Progress, Recreates, cacheVars, Task
  <1>8. CASE StorePrototype(t)
    BY <1>0, <1>8 DEF StorePrototype, Progress, WindsDown, cacheVars, Task
  <1>9. CASE EmitNewBlock(t)
    BY <1>0, <1>9 DEF EmitNewBlock, Progress, WindsDown, cacheVars, Idle
  <1> QED
    BY <1>1, <1>2, <1>3, <1>4, <1>5, <1>6, <1>7, <1>8, <1>9

(***************************************************************************)
(* A block of the line stands at its number, over the blocks before it.    *)
(***************************************************************************)
LEMMA Numbering ==
  ASSUME BlocksTyped, OneLine
  PROVE  \A i \in 1..Top : blocks[i].number = i - 1 /\ blocks[i].number + 1 = i
  <1>1. Top \in Nat /\ DOMAIN blocks = 1..Top
    BY TopFacts
  <1>2. \A i \in 1..Top : blocks[i].number = i - 1
    BY <1>1 DEF OneLine
  <1> QED
    BY <1>1, <1>2

LEMMA Lineage ==
  ASSUME BlocksTyped, OneLine
  PROVE  \A i \in 1..Top : blocks[i].line = [j \in 1..i |-> j]
  BY TopFacts DEF OneLine

(***************************************************************************)
(* A build that leaves the head alone and stays busy keeps the calls.      *)
(***************************************************************************)
LEMMA CallsAlone ==
  ASSUME \A u \in Callers : CallKept(u) /\ task'[u] = task[u],
         head' = head, blocks'[head] = blocks[head], Busy => Busy'
  PROVE  (\A u \in Callers : CallKept(u))'
  BY DEF CallKept, Busy

LEMMA ProgressSerial ==
  ASSUME Undisturbed, TypeOK, ChainAnchored, Serial,
         NEW t \in Builders, Progress(t)
  PROVE  Serial'
  <1>0. /\ UNCHANGED <<head, executor, storageVars, blocks>>
        /\ \A u \in Builders : u = t
        /\ \A u \in Callers : task'[u] = task[u]
        /\ t \in Tasks
    BY TaskAssumption DEF Progress, Undisturbed, Tasks
  <1>1. /\ Top \in Nat /\ Top >= 1 /\ DOMAIN blocks = 1..Top
        /\ head \in 1..Top /\ builds \in Nat /\ Top' = Top
        /\ BuildKept(t) /\ \A k \in Keys : KeyKept(k)
    BY <1>0, TopFacts, SameStorage, BoundAssumption
    DEF TypeOK, Numbers, Serial, StateKept
  <1>2. Writing => Writing'
    BY <1>0 DEF Writing, Progress, Begins, Prepares, Recreates, WindsDown
  <1>3. (\A k \in Keys : KeyKept(k))' /\ RowsBounded' /\ MetadataKept'
    BY <1>0, <1>2, StorageAlone DEF Serial, StateKept
  <1>4. Busy => Busy'
    BY <1>0 DEF Busy, Progress, Begins, Prepares, Recreates, WindsDown, Preparing,
       Holding
  <1>5. (\A u \in Callers : CallKept(u))'
    BY <1>0, <1>4, CallsAlone DEF Serial
  <1>6. ~ Writing => \A k \in Keys : ~ Written(k) /\ Working(k) = Shown(Top, k)
    BY <1>1, Unwritten DEF KeyKept, Writing
  <1>7. "code" \in Keys /\ "ledger" \in Keys
    BY DEF Keys
  <1>8. \A i \in 1..Top : blocks[i].number + 1 = i
    BY Numbering DEF TypeOK, Serial
  <1>9. OneLine' /\ BuildKept(t)'
    <2>1. CASE Begins(t)
      <3>1. ~ Writing /\ head = Top
        BY <1>0, <2>1 DEF Begins, Writing, Serial, OneLine, Holding
      <3>2. Preparing(t)' /\ ~ Holding(t)' /\ task'[t].pc # "applied"
        BY <2>1 DEF Begins, Preparing, Holding
      <3>3. OneLine'
        BY <1>0, <1>1, <2>1, <3>1, <3>2 DEF Begins, Serial, OneLine
      <3>4. /\ Working("ledger")' = blocks[Top].ledger
            /\ Working("code")' = blocks[Top].code /\ ~ Written("code")'
        BY <1>0, <1>6, <1>7, <3>1, SameStorage DEF Shown
      <3>5. BuildKept(t)'
        BY <1>0, <1>1, <2>1, <3>1, <3>2, <3>4 DEF Begins, BuildKept
      <3> QED
        BY <3>3, <3>5
    <2>2. CASE Prepares(t)
      <3>1. Preparing(t) /\ Preparing(t)' /\ ~ Holding(t) /\ ~ Holding(t)'
        BY <2>2 DEF Prepares, Preparing, Holding
      <3>2. OneLine'
        BY <1>0, <1>1, <2>2, <3>1 DEF Prepares, Serial, OneLine
      <3>3. task[t].at = Top /\ Building(t) = Top
        <4>1. task[t].at = Top
          BY <3>1 DEF Serial, OneLine
        <4> QED
          BY <1>1, <1>8, <4>1 DEF Building
      <3>4. task'[t].pc = "applied" => (task'[t].upgraded <=> Written("code")')
        BY <2>2, <1>0, <3>3, SameStorage DEF Prepares, HasCodeChangedAt, Written
      <3>5. /\ task'[t].pc # "finalized" /\ task'[t].pc # "recreated"
        BY <3>1 DEF Preparing
      <3>6. /\ Working("ledger")' = Working("ledger")
            /\ Working("code")' = Working("code")
            /\ Written("code")' <=> Written("code")
        BY <1>0, SameStorage
      <3> QED
        BY <1>0, <1>1, <2>2, <3>1, <3>2, <3>4, <3>5, <3>6 DEF Prepares, BuildKept
    <2>3. CASE Recreates(t)
      <3>1. ~ Preparing(t) /\ ~ Preparing(t)' /\ Holding(t) /\ Holding(t)'
        BY <2>3 DEF Recreates, Preparing, Holding
      <3>2. OneLine'
        BY <1>0, <1>1, <2>3, <3>1 DEF Recreates, Serial, OneLine
      <3>3. task[t].at = head /\ Building(t) = head /\ head + 1 = Top
        <4>1. task[t].at = head /\ head + 1 = Top
          BY <3>1 DEF Serial, OneLine
        <4> QED
          BY <1>1, <1>8, <4>1 DEF Building
      <3>4. Layer(Building(t) + 1)!Get(Building(t), "code") = blocks[Top].code
        <4>1. head \in 0..(Top - 1) /\ head + 1 \in Nat /\ head < head + 1
          BY <1>1, <3>3
        <4>2. Layer(head + 1)!Get(head, "code") = Shown(head + 1, "code")
          BY <1>1, <1>7, <4>1, PastIsShown
        <4> QED
          BY <3>3, <4>2 DEF Shown
      <3>5. task'[t].newExecutor = IF task[t].upgraded THEN blocks[Top].code
                                                       ELSE NULL
        BY <2>3, <3>4 DEF Recreates
      <3>6. task'[t].upgraded = task[t].upgraded /\ task'[t].pc = "recreated"
        BY <2>3 DEF Recreates
      <3>7. ~ task[t].upgraded => blocks[Top].code = blocks[head].code
        BY <1>1, <3>1 DEF BuildKept
      <3> QED
        BY <1>0, <1>1, <3>1, <3>2, <3>5, <3>6, <3>7 DEF BuildKept
    <2>4. CASE WindsDown(t)
      <3>1. ~ Preparing(t) /\ ~ Preparing(t)' /\ ~ Holding(t) /\ ~ Holding(t)'
        BY <2>4 DEF WindsDown, Preparing, Holding
      <3>2. OneLine'
        BY <1>0, <1>1, <2>4, <3>1 DEF WindsDown, Serial, OneLine
      <3>3. BuildKept(t)'
        BY <2>4, <3>1 DEF BuildKept, WindsDown
      <3> QED
        BY <3>2, <3>3
    <2> QED
      BY <2>1, <2>2, <2>3, <2>4 DEF Progress
  <1>10. ExecutorMatchesHead'
    BY <1>0 DEF Serial, ExecutorMatchesHead
  <1>11. StateKept'
    BY <1>0, <1>3, <1>9 DEF StateKept
  <1> QED
    BY <1>3, <1>5, <1>9, <1>10, <1>11 DEF Serial

-----------------------------------------------------------------------------
(* Applying an extrinsic. *)

(***************************************************************************)
(* An extrinsic that is applied is stamped with the block being made and   *)
(* seen where the layer stands; one that fails changes no more than the    *)
(* list of those that are left.                                            *)
(***************************************************************************)
LEMMA ExtrinsicSerial ==
  ASSUME Undisturbed, TypeOK, ChainAnchored, Serial,
         NEW t \in Builders, ApplyExtrinsic(t)
  PROVE  Serial'
  <1> DEFINE tx == Head(task[t].todo)
             code == IF tx \in Upgrades THEN tx ELSE task[t].code
  <1>0. t \in Tasks /\ task \in [Tasks -> Task] /\ task[t] \in Task
    BY DEF TypeOK, TasksTyped, Tasks
  <1>1. /\ UNCHANGED <<head, executor, localValues, metadataVersions, blocks,
                       builds>>
        /\ task[t].pc = "inherents" /\ task[t].todo # <<>>
        /\ \/ /\ modifications' = Wrote(t, tx)
              /\ task' = [task EXCEPT ![t] = [task[t] EXCEPT
                             !.todo = Tail(task[t].todo),
                             !.included = task[t].included \cup {tx},
                             !.code = code]]
           \/ /\ task' = [task EXCEPT ![t] = [task[t] EXCEPT
                             !.todo = Tail(task[t].todo)]]
              /\ UNCHANGED modifications
    <2>1. /\ UNCHANGED <<head, executor, localValues, metadataVersions, blocks,
                         builds>>
          /\ task[t].pc = "inherents" /\ task[t].todo # <<>>
          /\ \/ /\ modifications' = Wrote(t, tx)
                /\ task' = [task EXCEPT
                               ![t].todo = Tail(@),
                               ![t].included = @ \cup {tx},
                               ![t].code = IF tx \in Upgrades THEN tx ELSE @]
             \/ /\ task' = [task EXCEPT ![t].todo = Tail(@)]
                /\ UNCHANGED modifications
      BY DEF ApplyExtrinsic, cacheVars
    <2>2. tx \in Txs
      BY <1>0, <2>1 DEF Task
    <2> HIDE DEF tx
    <2>3. [task EXCEPT ![t].todo = Tail(@), ![t].included = @ \cup {tx},
                       ![t].code = IF tx \in Upgrades THEN tx ELSE @]
             = [task EXCEPT ![t] = [task[t] EXCEPT
                   !.todo = Tail(task[t].todo),
                   !.included = task[t].included \cup {tx},
                   !.code = code]]
      BY <1>0, <2>2 DEF Task
    <2>4. [task EXCEPT ![t].todo = Tail(@)]
             = [task EXCEPT ![t] = [task[t] EXCEPT !.todo = Tail(task[t].todo)]]
      BY <1>0 DEF Task
    <2> QED
      BY <2>1, <2>3, <2>4
  <1>2. tx \in Txs /\ task[t].included \in SUBSET Txs
    BY <1>0, <1>1 DEF Task
  <1> HIDE DEF tx
  <1>3. CASE /\ task' = [task EXCEPT ![t] = [task[t] EXCEPT
                            !.todo = Tail(task[t].todo)]]
             /\ UNCHANGED modifications
    <2>1. Progress(t)
      BY <1>0, <1>1, <1>3
      DEF Progress, Prepares, Preparing, storageVars, Task
    <2> QED
      BY <2>1, ProgressSerial
  <1>4. CASE /\ modifications' = Wrote(t, tx)
             /\ task' = [task EXCEPT ![t] = [task[t] EXCEPT
                            !.todo = Tail(task[t].todo),
                            !.included = task[t].included \cup {tx},
                            !.code = code]]
    <2>0. /\ \A u \in Builders : u = t
          /\ \A u \in Callers : task'[u] = task[u]
      BY <1>0, <1>4, TaskAssumption DEF Undisturbed, Tasks
    <2>1. /\ Top \in Nat /\ Top >= 1 /\ DOMAIN blocks = 1..Top
          /\ head \in 1..Top /\ builds \in 0..MaxBuilds
          /\ BuildKept(t) /\ \A k \in Keys : KeyKept(k)
      BY TopFacts DEF TypeOK, Numbers, Serial, StateKept
    <2>2. /\ task'[t].pc = "inherents" /\ task'[t].at = task[t].at
          /\ task'[t].included = task[t].included \cup {tx}
          /\ task'[t].code = code
          /\ task'[t].newExecutor = task[t].newExecutor
      <3> HIDE DEF code
      <3> QED
        BY <1>0, <1>1, <1>4 DEF Task
    <2>3. /\ Preparing(t) /\ Preparing(t)' /\ ~ Holding(t) /\ ~ Holding(t)'
          /\ Busy' /\ Writing'
      BY <1>1, <2>2 DEF Preparing, Holding, Busy, Writing
    <2>4. task[t].at = Top /\ Top <= builds /\ Top \in 0..MaxBuilds
      BY <2>1, <2>3, BoundAssumption DEF Serial, OneLine
    <2>5. Building(t) = Top
      <3>1. blocks[Top].number + 1 = Top
        BY <2>1, Numbering DEF TypeOK, Serial
      <3> QED
        BY <2>4, <3>1 DEF Building
    <2>6. Latest(Building(t), "ledger") = Working("ledger")
      BY <2>1, <2>5, LatestIsWorking DEF Keys
    <2>7. /\ modifications'["ledger"] =
                [block |-> Top, value |-> Working("ledger") \cup {tx}]
          /\ tx \in Upgrades =>
                modifications'["code"] = [block |-> Top, value |-> tx]
          /\ tx \notin Upgrades => modifications'["code"] = modifications["code"]
      BY <1>4, <2>5, <2>6 DEF Wrote, Keys
    <2>8. /\ Working("ledger") = blocks[Top].ledger \cup task[t].included
          /\ Working("code") = task[t].code
          /\ task[t].included \cap Upgrades # {} <=> Written("code")
          /\ task[t].newExecutor = NULL
      BY <2>1, <2>3 DEF BuildKept
    <2>9. /\ modifications'["ledger"] # NULL
          /\ tx \in Upgrades => modifications'["code"] # NULL
      <3>1. Working("ledger") \cup {tx} \in SUBSET Txs
        BY <1>2, <2>1, <2>8, TopFacts DEF TypeOK
      <3>2. tx \in Upgrades => tx \in Codes
        BY DEF Codes
      <3> QED
        BY <2>4, <2>7, <3>1, <3>2, NullAssumption
    <2>10. Top' = Top /\ (\A i, k : Shown(i, k)' = Shown(i, k))
           /\ (\A k, n : RowsFor(k, n)' = RowsFor(k, n))
      BY <1>1 DEF Top, Shown, RowsFor
    <2>11. /\ \A i : Upgrading(i)' <=> Upgrading(i)
           /\ \A i : OwnRuntime(i)' <=> OwnRuntime(i)
           /\ \A n : MetadataAt(n)' = MetadataAt(n)
      BY <1>1 DEF Upgrading, OwnRuntime, MetadataAt
    <2>12. ASSUME NEW k \in Keys PROVE KeyKept(k)'
      <3>1. KeyKept(k)
        BY <2>1
      <3>2. CASE modifications'[k] = modifications[k]
        BY <1>1, <2>1, <2>2, <2>10, <3>1, <3>2 DEF KeyKept, Written
      <3>3. CASE modifications'[k] # NULL /\ modifications'[k].block = Top
        <4>1. modifications'[k].block..(Top' - 1) = {}
          BY <2>1, <2>10, <3>3
        <4> QED
          BY <1>1, <2>1, <2>2, <2>10, <3>1, <3>3, <4>1 DEF KeyKept
      <3> QED
        BY <2>7, <2>9, <3>2, <3>3 DEF Keys
    <2>13. RowsBounded'
      BY <1>1, <2>10 DEF Serial, StateKept, RowsBounded
    <2>14. /\ Working("ledger")' = Working("ledger") \cup {tx}
           /\ Working("code")' = code
           /\ Written("code")' <=> tx \in Upgrades \/ Written("code")
      BY <2>7, <2>8, <2>9, <2>10 DEF Working, Written
    <2>15. BuildKept(t)'
      <3>1. Working("ledger")' = blocks'[Top'].ledger \cup task'[t].included
        BY <1>1, <2>2, <2>8, <2>10, <2>14
      <3>2. task'[t].included \cap Upgrades # {} <=> Written("code")'
        BY <2>2, <2>8, <2>14
      <3> QED
        BY <2>2, <2>3, <2>8, <2>14, <3>1, <3>2 DEF BuildKept
    <2>16. MetadataKept'
      <3>1. ~ Written("code")' =>
               ~ Written("code") /\ modifications'["code"] = modifications["code"]
        BY <2>7, <2>14
      <3> QED
        BY <1>1, <2>10, <2>11, <3>1 DEF Serial, MetadataKept
    <2>17. OneLine'
      BY <1>1, <2>0, <2>1, <2>2, <2>3, <2>4, <2>10 DEF Serial, OneLine
    <2>18. (\A u \in Callers : CallKept(u))'
      BY <1>1, <2>0, <2>3, CallsAlone DEF Serial
    <2>19. ExecutorMatchesHead'
      BY <1>1 DEF Serial, ExecutorMatchesHead
    <2>20. StateKept'
      BY <2>0, <2>12, <2>13, <2>15 DEF StateKept
    <2> QED
      BY <2>16, <2>17, <2>18, <2>19, <2>20 DEF Serial
  <1> QED
    BY <1>1, <1>3, <1>4

-----------------------------------------------------------------------------
(* Finalizing a block. *)

(***************************************************************************)
(* The block made by t, over the last one, and what is left as it was.     *)
(***************************************************************************)
Makes(t) ==
    /\ UNCHANGED <<head, executor, modifications, builds>>
    /\ head = Top /\ Top <= builds /\ Top' = Top + 1
    /\ DOMAIN blocks' = 1..(Top + 1)
    /\ \A i \in 1..Top : blocks'[i] = blocks[i]
    /\ blocks'[Top + 1].number = Top
    /\ blocks'[Top + 1].line = [j \in 1..(Top + 1) |-> j]
    /\ blocks'[Top + 1].runtime = task[t].prototype
    /\ blocks'[Top + 1].txs = task[t].included
    /\ blocks'[Top + 1].ledger = blocks[Top].ledger \cup task[t].included
    /\ blocks'[Top + 1].code = task[t].code
    /\ localValues' =
          Layer(Top)!CommitLocalChanges(Layer(Top)!EntriesToCommit, Top)
    /\ metadataVersions' = IF HasCodeChangedAt(Top - 1)
                           THEN [metadataVersions EXCEPT ![Top] = task[t].prototype]
                           ELSE metadataVersions
    /\ \A u \in Tasks \ {t} : task'[u] = task[u]
    /\ task[t].pc = "applied" /\ task'[t].pc = "finalized"
    /\ task'[t].at = Top /\ task'[t].made = Top + 1
    /\ task'[t].upgraded = task[t].upgraded
    /\ task'[t].newExecutor = task[t].newExecutor

LEMMA FinalizeMakes ==
  ASSUME Undisturbed, TypeOK, ChainAnchored, Serial,
         NEW t \in Builders, Finalize(t)
  PROVE  Makes(t)
  <1>0. /\ t \in Tasks /\ task \in [Tasks -> Task] /\ task[t] \in Task
        /\ \A u \in Builders : u = t
    BY DEF TypeOK, TasksTyped, Tasks, Undisturbed
  <1>1. /\ Top \in Nat /\ Top >= 1 /\ DOMAIN blocks = 1..Top /\ Top = Len(blocks)
    BY TopFacts DEF TypeOK, Top
  <1>2. task[t].pc = "applied"
    BY DEF Finalize
  <1>3. task[t].at = Top /\ Top <= builds /\ head = Top
    BY <1>0, <1>2 DEF Serial, OneLine, Preparing, Holding
  <1>4. blocks[Top].number = Top - 1 /\ blocks[Top].number + 1 = Top
    BY <1>1, Numbering DEF TypeOK, Serial
  <1>5. Building(t) = Top
    BY <1>3, <1>4 DEF Building
  <1> DEFINE new == [number |-> Top,
                     line |-> Append(blocks[Top].line, Len(blocks) + 1),
                     runtime |-> task[t].prototype, txs |-> task[t].included,
                     ledger |-> blocks[Top].ledger \cup task[t].included,
                     code |-> task[t].code]
  <1>6. /\ UNCHANGED <<head, executor, modifications, builds>>
        /\ blocks' = Append(blocks, new)
        /\ localValues' =
              Layer(Top)!CommitLocalChanges(Layer(Top)!EntriesToCommit, Top)
        /\ task' = [task EXCEPT ![t].pc = "finalized",
                                ![t].made = Len(blocks) + 1]
        /\ metadataVersions' = RegisterNewMetadata(t)
    BY <1>3, <1>5 DEF Finalize, cacheVars
  <1>7. metadataVersions' =
           IF HasCodeChangedAt(Top - 1)
           THEN [metadataVersions EXCEPT ![Top] = task[t].prototype]
           ELSE metadataVersions
    BY <1>3, <1>4, <1>5, <1>6 DEF RegisterNewMetadata
  <1>8. /\ \A u \in Tasks \ {t} : task'[u] = task[u]
        /\ task'[t].pc = "finalized" /\ task'[t].at = Top
        /\ task'[t].made = Top + 1
        /\ task'[t].upgraded = task[t].upgraded
        /\ task'[t].newExecutor = task[t].newExecutor
    BY <1>0, <1>1, <1>3, <1>6 DEF Task
  <1>9. blocks \in Seq(Block) /\ new.line = [j \in 1..(Top + 1) |-> j]
    <2>1. blocks[Top].line = [j \in 1..Top |-> j]
      BY <1>1, Lineage DEF TypeOK, Serial
    <2>2. [j \in 1..Top |-> j] \in Seq(Nat)
      BY <1>1
    <2>3. Append([j \in 1..Top |-> j], Top + 1) = [j \in 1..(Top + 1) |-> j]
      BY <1>1, <2>2
    <2> QED
      BY <1>1, <2>1, <2>3 DEF TypeOK, BlocksTyped
  <1>10. /\ Top' = Top + 1 /\ DOMAIN blocks' = 1..(Top + 1)
         /\ blocks'[Top + 1] = new
         /\ \A i \in 1..Top : blocks'[i] = blocks[i]
    <2> HIDE DEF new
    <2> QED
      BY <1>1, <1>6, <1>9 DEF Top
  <1>11. /\ blocks'[Top + 1].number = Top
         /\ blocks'[Top + 1].line = [j \in 1..(Top + 1) |-> j]
         /\ blocks'[Top + 1].runtime = task[t].prototype
         /\ blocks'[Top + 1].txs = task[t].included
         /\ blocks'[Top + 1].ledger = blocks[Top].ledger \cup task[t].included
         /\ blocks'[Top + 1].code = task[t].code
    <2>1. blocks'[Top + 1].line = new.line
      BY <1>10, Zenon
    <2>2. /\ blocks'[Top + 1].number = Top
          /\ blocks'[Top + 1].runtime = task[t].prototype
          /\ blocks'[Top + 1].txs = task[t].included
          /\ blocks'[Top + 1].ledger = blocks[Top].ledger \cup task[t].included
          /\ blocks'[Top + 1].code = task[t].code
      BY <1>10
    <2> HIDE DEF new
    <2> QED
      BY <1>9, <2>1, <2>2, Zenon
  <1> HIDE DEF new
  <1> QED
    BY <1>2, <1>3, <1>6, <1>7, <1>8, <1>10, <1>11, Zenon DEF Makes

(***************************************************************************)
(* The new block shows what the map holds, the older ones what they did.   *)
(***************************************************************************)
LEMMA NewBlockShown ==
  ASSUME TypeOK, Serial, NEW t \in Builders, Makes(t), NEW k \in Keys
  PROVE  /\ Shown(Top, k)' = Working(k)
         /\ \A i \in 1..Top : Shown(i, k)' = Shown(i, k)
  <1>1. BuildKept(t) /\ Preparing(t)
    BY DEF Serial, StateKept, Makes, Preparing
  <1>2. /\ Working("ledger") = blocks[Top].ledger \cup task[t].included
        /\ Working("code") = task[t].code
    BY <1>1 DEF BuildKept
  <1>3. Shown(Top, k)' = IF k = "ledger" THEN blocks'[Top + 1].ledger
                                         ELSE blocks'[Top + 1].code
    BY DEF Shown, Makes
  <1> QED
    BY <1>2, <1>3 DEF Shown, Makes, Keys

(***************************************************************************)
(* The rows a commit leaves: the ones it does not touch, the ones it       *)
(* closes, the ones it opens.                                              *)
(***************************************************************************)
LEMMA RowsCommitted ==
  ASSUME TypeOK, NEW t \in Builders, Makes(t)
  PROVE  /\ \A r \in localValues' :
               \/ r \in localValues /\ (r.until # NULL \/ ~ Written(r.key))
               \/ /\ Written(r.key) /\ r.until = Top
                  /\ \E s \in localValues :
                        /\ s.key = r.key /\ s.value = r.value
                        /\ s.from = r.from /\ s.until = NULL
               \/ /\ Written(r.key) /\ r.from = Top /\ r.until = NULL
                  /\ r.key \in Keys /\ r.value = modifications[r.key].value
         /\ \A s \in localValues :
               (s.until # NULL \/ ~ Written(s.key)) => s \in localValues'
         /\ \A s \in localValues :
               s.until = NULL /\ Written(s.key) =>
                  \E r \in localValues' :
                     /\ r.key = s.key /\ r.value = s.value
                     /\ r.from = s.from /\ r.until = Top
         /\ \A k \in Keys : Written(k) =>
               \E r \in localValues' : /\ r.key = k /\ r.from = Top
                                       /\ r.until = NULL
  <1>1. Layer(Top)!EntriesToCommit = {k \in Keys : Written(k)}
    BY DEF Layer!EntriesToCommit, Written
  <1>2. \A s \in localValues : s.key \in Keys
    BY DEF TypeOK, StorageTyped
  <1>3. \A s \in localValues : /\ Layer(Top)!Closed(s, Top).key = s.key
                               /\ Layer(Top)!Closed(s, Top).value = s.value
                               /\ Layer(Top)!Closed(s, Top).from = s.from
                               /\ Layer(Top)!Closed(s, Top).until = Top
    BY DEF Layer!Closed, TypeOK, StorageTyped
  <1>4. localValues' =
           {r \in localValues : ~ Written(r.key) \/ r.until # NULL}
           \cup {Layer(Top)!Closed(r, Top) :
                    r \in {s \in localValues : Written(s.key) /\ s.until = NULL}}
           \cup {[key |-> k, value |-> modifications[k].value, from |-> Top,
                  until |-> NULL] : k \in {k \in Keys : Written(k)}}
    BY <1>1, <1>2 DEF Makes, Layer!CommitLocalChanges
  <1>5. ASSUME NEW r \in localValues'
        PROVE  \/ r \in localValues /\ (r.until # NULL \/ ~ Written(r.key))
               \/ /\ Written(r.key) /\ r.until = Top
                  /\ \E s \in localValues :
                        /\ s.key = r.key /\ s.value = r.value
                        /\ s.from = r.from /\ s.until = NULL
               \/ /\ Written(r.key) /\ r.from = Top /\ r.until = NULL
                  /\ r.key \in Keys /\ r.value = modifications[r.key].value
    <2>1. CASE r \in {s \in localValues : ~ Written(s.key) \/ s.until # NULL}
      BY <2>1
    <2>2. ASSUME NEW s \in localValues, Written(s.key), s.until = NULL,
                 r = Layer(Top)!Closed(s, Top)
          PROVE  /\ Written(r.key) /\ r.until = Top
                 /\ s.key = r.key /\ s.value = r.value /\ s.from = r.from
      BY <2>2, <1>3
    <2>3. ASSUME NEW k \in Keys, Written(k),
                 r = [key |-> k, value |-> modifications[k].value,
                      from |-> Top, until |-> NULL]
          PROVE  /\ Written(r.key) /\ r.from = Top /\ r.until = NULL
                 /\ r.key \in Keys /\ r.value = modifications[r.key].value
      BY <2>3
    <2> QED
      BY <1>4, <2>1, <2>2, <2>3
  <1>6. \A s \in localValues :
           (s.until # NULL \/ ~ Written(s.key)) => s \in localValues'
    BY <1>4
  <1>7. ASSUME NEW s \in localValues, s.until = NULL, Written(s.key)
        PROVE  \E r \in localValues' :
                  /\ r.key = s.key /\ r.value = s.value
                  /\ r.from = s.from /\ r.until = Top
    <2>1. Layer(Top)!Closed(s, Top) \in localValues'
      BY <1>4, <1>7
    <2> QED
      BY <1>3, <2>1
  <1>8. ASSUME NEW k \in Keys, Written(k)
        PROVE  \E r \in localValues' : /\ r.key = k /\ r.from = Top
                                       /\ r.until = NULL
    <2> DEFINE r == [key |-> k, value |-> modifications[k].value, from |-> Top,
                     until |-> NULL]
    <2>1. r \in localValues'
      BY <1>4, <1>8
    <2>2. r.key = k /\ r.from = Top /\ r.until = NULL
      OBVIOUS
    <2> HIDE DEF r
    <2> QED
      BY <2>1, <2>2
  <1> QED
    BY <1>5, <1>6, <1>7, <1>8

(***************************************************************************)
(* So every block, the new one included, reads back its own state.         *)
(***************************************************************************)
LEMMA KeyCommitted ==
  ASSUME TypeOK, ChainAnchored, Serial, NEW t \in Builders, Makes(t),
         NEW k \in Keys
  PROVE  KeyKept(k)' /\ ~ Written(k)'
  <1>0. /\ Top \in Nat /\ Top >= 1 /\ DOMAIN blocks = 1..Top
        /\ Top' = Top + 1 /\ DOMAIN blocks' = 1..(Top + 1)
        /\ modifications' = modifications
        /\ KeyKept(k) /\ RowsBounded
    BY TopFacts DEF TypeOK, Serial, StateKept, Makes
  <1>1. /\ Shown(Top, k)' = Working(k)
        /\ \A i \in 1..Top : Shown(i, k)' = Shown(i, k)
    BY NewBlockShown
  <1>2. /\ \A i \in 1..Top : Shown(i, k)' = Shown(i, k)
        /\ \A i \in {Top + 1} : Shown(i, k)' = Working(k)
    BY <1>0, <1>1 DEF Shown
  <1>3. ~ Written(k)'
    BY <1>0 DEF KeyKept, Written
  <1>4. (Shown(1, k) = Genesis[k])'
    BY <1>0, <1>2 DEF KeyKept
  <1>5. (modifications[k] = NULL
            => \A i \in DOMAIN blocks : Shown(i, k) = Genesis[k])'
    <2> SUFFICES ASSUME modifications[k] = NULL, NEW i \in 1..(Top + 1)
                 PROVE  Shown(i, k)' = Genesis[k]
      BY <1>0
    <2>1. CASE i \in 1..Top
      BY <1>0, <1>2, <2>1 DEF KeyKept
    <2>2. CASE i = Top + 1
      BY <1>2, <2>2 DEF Working
    <2> QED
      BY <1>0, <2>1, <2>2
  <1>6. (modifications[k] # NULL => modifications[k].block \in 1..Top)'
    BY <1>0 DEF KeyKept
  <1>7. (modifications[k] # NULL =>
            \A n \in modifications[k].block..(Top - 1) :
                Shown(n + 1, k) = modifications[k].value)'
    <2> SUFFICES ASSUME modifications[k] # NULL,
                        NEW n \in modifications[k].block..Top
                 PROVE  Shown(n + 1, k)' = modifications[k].value
      BY <1>0
    <2>0. n \in Nat /\ n >= 1
      BY <1>0 DEF KeyKept
    <2>1. CASE n \in 1..(Top - 1)
      <3>1. n + 1 \in 1..Top /\ n \in modifications[k].block..(Top - 1)
        BY <1>0, <2>0, <2>1 DEF KeyKept
      <3>2. Shown(n + 1, k) = modifications[k].value
        BY <1>0, <3>1 DEF KeyKept
      <3> QED
        BY <1>2, <3>1, <3>2
    <2>2. CASE n = Top
      <3>1. n + 1 \in {Top + 1}
        BY <2>2
      <3> QED
        BY <1>2, <3>1 DEF Working
    <2> QED
      BY <1>0, <2>0, <2>1, <2>2
  <1>8. ASSUME NEW n \in 1..Top
        PROVE  /\ \A r \in RowsFor(k, n)' : r.value = Shown(n + 1, k)'
               /\ RowsFor(k, n)' = {} => Shown(n + 1, k)' = Genesis[k]
    <2>1. \A s \in localValues : /\ s.from \in 1..(Top - 1)
                                 /\ s.until # NULL => s.until \in 1..(Top - 1)
      BY <1>0 DEF RowsBounded
    <2>2. \A r : r \in RowsFor(k, n)' <=>
                    /\ r \in localValues' /\ r.key = k /\ r.from <= n
                    /\ r.until = NULL \/ r.until > n
      BY DEF RowsFor
    <2>3. CASE n \in 1..(Top - 1)
      <3>0. n + 1 \in 1..Top
        BY <1>0, <2>3
      <3>1. ASSUME NEW r \in RowsFor(k, n)'
            PROVE  \E s \in RowsFor(k, n) : s.value = r.value
        <4>1. /\ r \in localValues' /\ r.key = k /\ r.from <= n
              /\ r.until = NULL \/ r.until > n
          BY <2>2, <3>1
        <4>2. ~ (r.from = Top)
          BY <1>0, <2>3, <4>1
        <4>3. CASE r \in localValues
          BY <4>1, <4>3 DEF RowsFor
        <4>4. CASE \E s \in localValues :
                      /\ s.key = r.key /\ s.value = r.value
                      /\ s.from = r.from /\ s.until = NULL
          BY <4>1, <4>4 DEF RowsFor
        <4> QED
          BY <4>1, <4>2, <4>3, <4>4, RowsCommitted
      <3>2. ASSUME NEW s \in RowsFor(k, n) PROVE RowsFor(k, n)' # {}
        <4>1. /\ s \in localValues /\ s.key = k /\ s.from <= n
              /\ s.until = NULL \/ s.until > n
          BY <3>2 DEF RowsFor
        <4>2. CASE s.until # NULL \/ ~ Written(s.key)
          <5>1. s \in localValues'
            BY <4>1, <4>2, RowsCommitted
          <5> QED
            BY <2>2, <4>1, <5>1
        <4>3. CASE s.until = NULL /\ Written(s.key)
          <5>1. PICK r \in localValues' : /\ r.key = s.key /\ r.value = s.value
                                          /\ r.from = s.from /\ r.until = Top
            BY <4>1, <4>3, RowsCommitted
          <5>2. r.until > n
            BY <1>0, <2>3, <5>1
          <5> QED
            BY <2>2, <4>1, <5>1, <5>2
        <4> QED
          BY <4>2, <4>3
      <3>3. /\ \A r \in RowsFor(k, n) : r.value = Shown(n + 1, k)
            /\ RowsFor(k, n) = {} => Shown(n + 1, k) = Genesis[k]
        BY <1>0, <2>3 DEF KeyKept
      <3> QED
        BY <1>2, <3>0, <3>1, <3>2, <3>3
    <2>4. CASE n = Top /\ Written(k)
      <3>1. ASSUME NEW r \in RowsFor(k, n)' PROVE r.value = Working(k)
        <4>1. /\ r \in localValues' /\ r.key = k
              /\ r.until = NULL \/ r.until > Top
          BY <2>2, <2>4, <3>1
        <4>2. CASE r \in localValues /\ (r.until # NULL \/ ~ Written(r.key))
          BY <1>0, <2>1, <2>4, <4>1, <4>2
        <4>3. CASE r.until = Top
          BY <1>0, <4>1, <4>3, NullAssumption
        <4>4. CASE r.value = modifications[r.key].value
          BY <2>4, <4>1, <4>4 DEF Working, Written
        <4> QED
          BY <4>1, <4>2, <4>3, <4>4, RowsCommitted
      <3>2. RowsFor(k, n)' # {}
        <4>1. PICK r \in localValues' : /\ r.key = k /\ r.from = Top
                                        /\ r.until = NULL
          BY <2>4, RowsCommitted
        <4> QED
          BY <1>0, <2>2, <2>4, <4>1
      <3> QED
        BY <1>2, <2>4, <3>1, <3>2
    <2>5. CASE n = Top /\ ~ Written(k)
      <3>0. Working(k) = Shown(Top, k)
        BY <1>0, <2>5, Unwritten
      <3>1. ASSUME NEW r \in RowsFor(k, n)' PROVE r.value = Working(k)
        <4>1. /\ r \in localValues' /\ r.key = k
              /\ r.until = NULL \/ r.until > Top
          BY <2>2, <2>5, <3>1
        <4>2. r \in localValues
          BY <2>5, <4>1, RowsCommitted
        <4>3. /\ r.until = NULL /\ r.from <= Top - 1 /\ Top - 1 \in 1..(Top - 1)
          BY <1>0, <2>1, <4>1, <4>2
        <4>4. r \in RowsFor(k, Top - 1)
          BY <4>1, <4>2, <4>3 DEF RowsFor
        <4>5. r.value = Shown((Top - 1) + 1, k)
          BY <1>0, <4>3, <4>4 DEF KeyKept
        <4> QED
          BY <1>0, <3>0, <4>5
      <3>2. ASSUME RowsFor(k, n)' = {} PROVE Working(k) = Genesis[k]
        <4>1. CASE Top = 1
          BY <1>0, <3>0, <4>1 DEF KeyKept
        <4>2. CASE Top # 1
          <5>1. Top - 1 \in 1..(Top - 1)
            BY <1>0, <4>2
          <5>2. ASSUME NEW s \in RowsFor(k, Top - 1) PROVE FALSE
            <6>1. /\ s \in localValues /\ s.key = k /\ s.from <= Top - 1
                  /\ s.until = NULL \/ s.until > Top - 1
              BY <5>2 DEF RowsFor
            <6>2. s.until = NULL /\ s.from <= Top
              BY <1>0, <2>1, <6>1
            <6>3. s \in localValues'
              BY <2>5, <6>1, RowsCommitted
            <6> QED
              BY <2>2, <2>5, <3>2, <6>1, <6>2, <6>3
          <5>3. Shown((Top - 1) + 1, k) = Genesis[k]
            BY <1>0, <5>1, <5>2 DEF KeyKept
          <5> QED
            BY <1>0, <3>0, <5>3
        <4> QED
          BY <4>1, <4>2
      <3> QED
        BY <1>2, <2>5, <3>1, <3>2
    <2> QED
      BY <1>0, <2>3, <2>4, <2>5
  <1>9. (\A n \in 1..(Top - 1) :
            /\ \A r \in RowsFor(k, n) : r.value = Shown(n + 1, k)
            /\ RowsFor(k, n) = {} => Shown(n + 1, k) = Genesis[k])'
    BY <1>0, <1>8
  <1> QED
    BY <1>3, <1>4, <1>5, <1>6, <1>7, <1>9 DEF KeyKept

(***************************************************************************)
(* metadata_at finds the last version registered up to a block.            *)
(***************************************************************************)
LastVersionFound ==
    \A n \in Nat : \A m \in 0..n :
        (/\ metadataVersions[m] # NULL
         /\ \A l \in (m + 1)..n : metadataVersions[l] = NULL)
            => MetadataAt(n) = metadataVersions[m]

LEMMA LastVersion == LastVersionFound
  <1> SUFFICES ASSUME NEW n \in Nat, NEW m \in 0..n,
                      metadataVersions[m] # NULL,
                      \A l \in (m + 1)..n : metadataVersions[l] = NULL
               PROVE  MetadataAt(n) = metadataVersions[m]
    BY DEF LastVersionFound
  <1> DEFINE Last(c) == /\ metadataVersions[c] # NULL
                        /\ \A l \in (c + 1)..n : metadataVersions[l] = NULL
  <1>1. (CHOOSE c \in 0..n : Last(c)) \in 0..n
        /\ Last(CHOOSE c \in 0..n : Last(c))
    <2>1. \E c \in 0..n : Last(c)
      OBVIOUS
    <2> HIDE DEF Last
    <2> QED
      BY <2>1
  <1>2. \A c \in 0..n : Last(c) => c = m
    OBVIOUS
  <1>3. MetadataAt(n) = metadataVersions[CHOOSE c \in 0..n : Last(c)]
    BY DEF MetadataAt
  <1> HIDE DEF Last
  <1> QED
    BY <1>1, <1>2, <1>3

LEMMA LastVersionNext == LastVersionFound'
  BY LastVersion, PTL

(***************************************************************************)
(* The new block finds the metadata of its own runtime, registered by it   *)
(* if the block before it replaced :code, and by an older block if not.    *)
(***************************************************************************)
LEMMA MetadataCommitted ==
  ASSUME TypeOK, ChainAnchored, Serial, NEW t \in Builders, Makes(t)
  PROVE  MetadataKept'
  <1> USE DEF Makes
  <1>0. /\ Top \in Nat /\ Top >= 1 /\ DOMAIN blocks = 1..Top
        /\ Top' = Top + 1 /\ DOMAIN blocks' = 1..(Top + 1)
        /\ \A i \in 1..Top : blocks'[i] = blocks[i]
        /\ MetadataKept /\ BuildKept(t) /\ Preparing(t)
        /\ "code" \in Keys
    BY TopFacts DEF TypeOK, Serial, StateKept, Preparing, Keys
  <1>1. /\ Top \in Numbers /\ metadataVersions \in [Numbers -> Codes \cup {NULL}]
        /\ metadataVersions' \in [Numbers -> Codes \cup {NULL}]
        /\ task[t].prototype \in Codes /\ task[t].prototype # NULL
    <2>1. Top <= builds /\ builds \in 0..MaxBuilds
      BY DEF TypeOK, Numbers
    <2>2. Top \in Numbers
      BY <1>0, <2>1, BoundAssumption DEF Numbers
    <2>3. task[t] \in Task /\ task[t].prototype # NULL
      BY DEF TypeOK, TasksTyped, Tasks
    <2>4. task[t].prototype \in Codes
      BY <2>3 DEF Task
    <2>5. metadataVersions \in [Numbers -> Codes \cup {NULL}]
      BY DEF TypeOK, CachesTyped
    <2> QED
      BY <2>2, <2>3, <2>4, <2>5
  <1>2. /\ \A i \in 1..Top : Upgrading(i)' <=> Upgrading(i)
        /\ \A i \in 1..Top : OwnRuntime(i)' <=> OwnRuntime(i)
        /\ \A i \in {Top + 1} : Upgrading(i)' <=> task[t].included \cap Upgrades # {}
        /\ \A i \in {Top + 1} : OwnRuntime(i)' => task[t].prototype = blocks[Top].code
    BY <1>0 DEF Upgrading, OwnRuntime
  <1>3. /\ \A l \in 0..(Top - 1) : metadataVersions'[l] = metadataVersions[l]
        /\ \A l \in Numbers : l >= Top + 1 => metadataVersions'[l] = NULL
        /\ metadataVersions'[Top] = IF HasCodeChangedAt(Top - 1)
                                    THEN task[t].prototype ELSE NULL
    <2>1. \A l \in Numbers : l >= Top => metadataVersions[l] = NULL
      BY <1>0 DEF MetadataKept
    <2> QED
      BY <1>0, <1>1, <2>1, BoundAssumption DEF Numbers
  <1>4. Written("code") <=> task[t].included \cap Upgrades # {}
    BY <1>0 DEF BuildKept
  <1>5. ~ Written("code") => task[t].code = blocks[Top].code
    <2>1. KeyKept("code")
      BY <1>0 DEF Serial, StateKept
    <2> QED
      BY <1>0, <2>1, Unwritten DEF BuildKept, Shown
  <1>6. (~ Written("code") =>
            (Upgrading(Top) <=> /\ modifications["code"] # NULL
                                /\ modifications["code"].block = Top - 1))'
    <2>1. Upgrading(Top)' <=> task[t].included \cap Upgrades # {}
      BY <1>0 DEF Upgrading
    <2> QED
      BY <1>0, <1>4, <2>1 DEF Written
  <1>7. (\A i \in DOMAIN blocks :
            i > 1 /\ ~ Upgrading(i) => blocks[i].code = blocks[i - 1].code)'
    <2> SUFFICES ASSUME NEW i \in 1..(Top + 1), i > 1, ~ Upgrading(i)'
                 PROVE  blocks'[i].code = blocks'[i - 1].code
      BY <1>0
    <2>1. CASE i \in 1..Top
      <3>1. i - 1 \in 1..Top
        BY <1>0, <2>1
      <3> QED
        BY <1>0, <1>2, <2>1, <3>1 DEF MetadataKept
    <2>2. CASE i = Top + 1
      <3>1. i - 1 \in 1..Top /\ i - 1 = Top
        BY <1>0, <2>2
      <3>2. ~ Written("code")
        BY <1>2, <1>4, <2>2
      <3> QED
        BY <1>0, <1>5, <2>2, <3>1, <3>2
    <2> QED
      BY <1>0, <2>1, <2>2
  <1>8. (blocks[1].runtime = blocks[1].code /\ ~ Upgrading(1))'
    BY <1>0, <1>2 DEF MetadataKept
  <1>9. (\A n \in Numbers : n >= Top => metadataVersions[n] = NULL)'
    BY <1>0, <1>3
  <1>10. ASSUME NEW i \in 1..Top
         PROVE  /\ \E m \in 0..(i - 1) :
                      /\ metadataVersions'[m] # NULL
                      /\ \A l \in (m + 1)..(i - 1) : metadataVersions'[l] = NULL
                /\ MetadataAt(i - 1)' = MetadataAt(i - 1)
    <2>0. i - 1 \in Nat
      BY <1>0
    <2>1. PICK m \in 0..(i - 1) :
             /\ metadataVersions[m] # NULL
             /\ \A l \in (m + 1)..(i - 1) : metadataVersions[l] = NULL
      BY <1>0 DEF MetadataKept
    <2>2. /\ metadataVersions'[m] = metadataVersions[m]
          /\ \A l \in (m + 1)..(i - 1) : metadataVersions'[l] = NULL
      BY <1>0, <1>3, <2>1
    <2> QED
      BY <2>0, <2>1, <2>2, LastVersion, LastVersionNext DEF LastVersionFound
  <1>11. /\ \E m \in 0..Top :
               /\ metadataVersions'[m] # NULL
               /\ \A l \in (m + 1)..Top : metadataVersions'[l] = NULL
         /\ \A n \in {Top} :
               (/\ \A j \in 1..(n + 1) : OwnRuntime(j)'
                /\ ~ (Upgrading(n + 1)' /\ Upgrading(n)'))
                  => MetadataAt(n)' = task[t].prototype
    <2>1. CASE HasCodeChangedAt(Top - 1)
      <3>1. /\ metadataVersions'[Top] = task[t].prototype
            /\ \A l \in (Top + 1)..Top : metadataVersions'[l] = NULL
            /\ Top \in 0..Top
        BY <1>0, <1>3, <2>1
      <3>2. \A n \in {Top} : MetadataAt(n)' = task[t].prototype
        BY <1>0, <1>1, <3>1, LastVersionNext DEF LastVersionFound
      <3> QED
        BY <1>1, <3>1, <3>2
    <2>2. CASE ~ HasCodeChangedAt(Top - 1)
      <3>1. PICK m \in 0..(Top - 1) :
               /\ metadataVersions[m] # NULL
               /\ \A l \in (m + 1)..(Top - 1) : metadataVersions[l] = NULL
        BY <1>0 DEF MetadataKept
      <3>2. /\ metadataVersions'[m] = metadataVersions[m] /\ m \in 0..Top
            /\ \A l \in (m + 1)..Top : metadataVersions'[l] = NULL
        BY <1>0, <1>3, <2>2, <3>1
      <3>3. /\ MetadataAt(Top - 1) = metadataVersions[m]
            /\ \A n \in {Top} : MetadataAt(n)' = metadataVersions[m]
        <4>1. Top - 1 \in Nat /\ Top \in Nat
          BY <1>0
        <4>2. MetadataAt(Top - 1) = metadataVersions[m]
          BY <4>1, <3>1, LastVersion DEF LastVersionFound
        <4>3. \A n \in {Top} : MetadataAt(n)' = metadataVersions[m]
          BY <4>1, <3>1, <3>2, LastVersionNext DEF LastVersionFound
        <4> QED
          BY <4>2, <4>3
      <3>4. ASSUME \A j \in 1..(Top + 1) : OwnRuntime(j)',
                   \A n \in {Top} : ~ (Upgrading(n + 1)' /\ Upgrading(n)')
            PROVE  MetadataAt(Top - 1) = task[t].prototype
        <4>1. ~ Upgrading(Top)
          <5>1. Upgrading(Top) => ~ Written("code")
            BY <1>0, <1>2, <1>4, <3>4
          <5> QED
            BY <1>0, <2>2, <5>1 DEF MetadataKept, HasCodeChangedAt
        <4>2. \A j \in 1..Top : OwnRuntime(j)
          BY <1>0, <1>2, <3>4
        <4>3. MetadataAt(Top - 1) = blocks[Top].runtime
          BY <1>0, <4>1, <4>2 DEF MetadataKept
        <4>4. task[t].prototype = blocks[Top].code
          BY <1>0, <1>2, <3>4
        <4>5. blocks[Top].runtime = blocks[Top].code
          <5>1. CASE Top = 1
            BY <1>0, <5>1 DEF MetadataKept
          <5>2. CASE Top > 1
            <6>1. blocks[Top].code = blocks[Top - 1].code
              BY <1>0, <4>1, <5>2 DEF MetadataKept
            <6>2. blocks[Top].runtime = blocks[Top - 1].code
              BY <1>0, <4>2, <5>2 DEF OwnRuntime
            <6> QED
              BY <6>1, <6>2
          <5> QED
            BY <1>0, <5>1, <5>2
        <4> QED
          BY <4>3, <4>4, <4>5
      <3> QED
        BY <3>1, <3>2, <3>3, <3>4
    <2> QED
      BY <2>1, <2>2
  <1>12. (\A i \in DOMAIN blocks :
            /\ \E m \in 0..(i - 1) : /\ metadataVersions[m] # NULL
                                    /\ \A l \in (m + 1)..(i - 1) : metadataVersions[l] = NULL
            /\ (/\ \A j \in 1..i : OwnRuntime(j)
                /\ ~(i > 1 /\ Upgrading(i) /\ Upgrading(i - 1)))
                  => MetadataAt(i - 1) = blocks[i].runtime)'
    <2> SUFFICES ASSUME NEW i \in 1..(Top + 1)
                 PROVE  /\ \E m \in 0..(i - 1) :
                              /\ metadataVersions'[m] # NULL
                              /\ \A l \in (m + 1)..(i - 1) : metadataVersions'[l] = NULL
                        /\ (/\ \A j \in 1..i : OwnRuntime(j)'
                            /\ ~(i > 1 /\ Upgrading(i)' /\ Upgrading(i - 1)'))
                              => MetadataAt(i - 1)' = blocks'[i].runtime
      BY <1>0
    <2>1. CASE i \in 1..Top
      <3>1. \A j \in 1..i : j \in 1..Top
        BY <1>0, <2>1
      <3>2. i > 1 => i - 1 \in 1..Top
        BY <1>0, <2>1
      <3>3. (/\ \A j \in 1..i : OwnRuntime(j)
             /\ ~(i > 1 /\ Upgrading(i) /\ Upgrading(i - 1)))
               => MetadataAt(i - 1) = blocks[i].runtime
        BY <1>0, <2>1 DEF MetadataKept
      <3>4. (\A j \in 1..i : OwnRuntime(j)') => \A j \in 1..i : OwnRuntime(j)
        BY <1>2, <3>1
      <3>5. (i > 1 /\ Upgrading(i) /\ Upgrading(i - 1))
               => (Upgrading(i)' /\ Upgrading(i - 1)')
        BY <1>2, <2>1, <3>2
      <3> QED
        BY <1>0, <1>10, <2>1, <3>3, <3>4, <3>5
    <2>2. CASE i = Top + 1
      <3>1. i - 1 = Top /\ i > 1 /\ Top \in {Top}
        BY <1>0, <2>2
      <3>2. blocks'[i].runtime = task[t].prototype
        BY <2>2
      <3> HIDE DEF Makes
      <3> QED
        BY <1>11, <2>2, <3>1, <3>2
    <2> QED
      BY <1>0, <2>1, <2>2
  <1> QED
    BY <1>6, <1>7, <1>8, <1>9, <1>12 DEF MetadataKept

LEMMA FinalizeSerial ==
  ASSUME Undisturbed, TypeOK, ChainAnchored, Serial,
         NEW t \in Builders, Finalize(t)
  PROVE  Serial'
  <1>1. Makes(t)
    BY FinalizeMakes
  <1>2. /\ \A u \in Builders : u = t
        /\ \A u \in Callers : task'[u] = task[u]
    BY <1>1, TaskAssumption DEF Undisturbed, Makes, Tasks
  <1>3. /\ Top \in Nat /\ Top >= 1 /\ DOMAIN blocks = 1..Top
        /\ Top' = Top + 1 /\ DOMAIN blocks' = 1..(Top + 1)
        /\ head = Top /\ head' = Top /\ builds' = builds /\ Top <= builds
        /\ builds \in Nat /\ "code" \in Keys
    BY <1>1, TopFacts, BoundAssumption DEF TypeOK, Makes, Numbers, Keys
  <1>4. /\ BuildKept(t) /\ Preparing(t) /\ ~ Preparing(t)' /\ Holding(t)'
        /\ Busy'
    BY <1>1 DEF Serial, StateKept, Makes, Preparing, Holding, Busy
  <1>5. (\A k \in Keys : KeyKept(k))' /\ MetadataKept'
    BY <1>1, KeyCommitted, MetadataCommitted
  <1>6. RowsBounded'
    <2> SUFFICES ASSUME NEW r \in localValues'
                 PROVE  /\ r.from \in 1..Top
                        /\ r.until # NULL => r.until \in 1..Top
      BY <1>3 DEF RowsBounded
    <2>1. \A s \in localValues : /\ s.from \in 1..(Top - 1)
                                 /\ s.until # NULL => s.until \in 1..(Top - 1)
      BY DEF Serial, StateKept, RowsBounded
    <2>2. CASE r \in localValues
      BY <1>3, <2>1, <2>2
    <2>3. CASE r.until = Top /\ \E s \in localValues : s.from = r.from
      BY <1>3, <2>1, <2>3
    <2>4. CASE r.from = Top /\ r.until = NULL
      BY <1>3, <2>4
    <2> QED
      BY <1>1, <2>2, <2>3, <2>4, RowsCommitted
  <1>7. BuildKept(t)'
    <2>1. task'[t].pc = "finalized" /\ task'[t].newExecutor = NULL
      BY <1>1, <1>4 DEF Makes, BuildKept
    <2>2. ~ task'[t].upgraded => blocks'[Top + 1].code = blocks'[Top].code
      <3>1. KeyKept("code")
        BY <1>3 DEF Serial, StateKept
      <3>2. ~ Written("code") => Working("code") = blocks[Top].code
        BY <1>3, <3>1, Unwritten DEF Shown
      <3>3. task'[t].upgraded <=> Written("code")
        BY <1>1, <1>4 DEF Makes, BuildKept
      <3>4. blocks'[Top + 1].code = Working("code") /\ blocks'[Top] = blocks[Top]
        BY <1>1, <1>3, <1>4 DEF Makes, BuildKept
      <3> QED
        BY <3>2, <3>3, <3>4
    <2> QED
      BY <1>3, <1>4, <2>1, <2>2 DEF BuildKept
  <1>8. OneLine'
    <2>1. (\A i \in DOMAIN blocks : /\ blocks[i].number = i - 1
                                    /\ blocks[i].line = [j \in 1..i |-> j])'
      <3> SUFFICES ASSUME NEW i \in 1..(Top + 1)
                   PROVE  /\ blocks'[i].number = i - 1
                          /\ blocks'[i].line = [j \in 1..i |-> j]
        BY <1>3
      <3>1. CASE i \in 1..Top
        <4>1. blocks'[i] = blocks[i]
          BY <1>1, <3>1 DEF Makes
        <4>2. blocks[i].number = i - 1
          BY <3>1, Numbering DEF TypeOK, Serial
        <4>3. blocks[i].line = [j \in 1..i |-> j]
          BY <3>1, Lineage DEF TypeOK, Serial
        <4> QED
          BY <4>1, <4>2, <4>3
      <3>2. CASE i = Top + 1
        BY <1>1, <1>3, <3>2 DEF Makes
      <3> QED
        BY <1>3, <3>1, <3>2
    <2>2. task'[t].at = Top /\ task'[t].made = Top + 1
      BY <1>1 DEF Makes
    <2> QED
      BY <1>2, <1>3, <1>4, <2>1, <2>2 DEF OneLine
  <1>9. (\A u \in Callers : CallKept(u))'
    <2>1. blocks'[head] = blocks[head] /\ head' = head
      BY <1>1, <1>3 DEF Makes
    <2> QED
      BY <1>2, <1>4, <2>1, CallsAlone DEF Serial
  <1>10. ExecutorMatchesHead'
    BY <1>1, <1>3 DEF Makes, Serial, ExecutorMatchesHead
  <1>11. StateKept'
    BY <1>2, <1>5, <1>6, <1>7 DEF StateKept
  <1> QED
    BY <1>5, <1>8, <1>9, <1>10, <1>11 DEF Serial

-----------------------------------------------------------------------------
(* The head write. *)

LEMMA AcceptSerial ==
  ASSUME Undisturbed, TypeOK, ChainAnchored, Serial,
         NEW t \in Builders, AcceptBlock(t)
  PROVE  Serial'
  <1>0. /\ t \in Tasks /\ task \in [Tasks -> Task] /\ task[t] \in Task
        /\ \A u \in Builders : u = t
    BY DEF TypeOK, TasksTyped, Tasks, Undisturbed
  <1>1. /\ Top \in Nat /\ Top >= 1 /\ DOMAIN blocks = 1..Top /\ head \in 1..Top
        /\ BuildKept(t)
    BY TopFacts DEF TypeOK, Serial, StateKept
  <1>2. /\ task[t].pc = "recreated" /\ head' = task[t].made
        /\ executor' = IF task[t].newExecutor # NULL THEN task[t].newExecutor
                                                     ELSE executor
        /\ task' = [task EXCEPT ![t].pc = "committed"]
        /\ UNCHANGED <<storageVars, blocks, builds>>
    BY DEF AcceptBlock
  <1>3. /\ task'[t].pc = "committed"
        /\ \A u \in Tasks \ {t} : task'[u] = task[u]
    BY <1>0, <1>2 DEF Task
  <1>4. /\ Holding(t) /\ ~ Holding(t)' /\ ~ Preparing(t)'
        /\ ~ Writing
    BY <1>0, <1>2, <1>3 DEF Holding, Preparing, Writing
  <1>5. head + 1 = Top /\ task[t].made = Top
    BY <1>4 DEF Serial, OneLine
  <1>6. head' = Top /\ Top' = Top
    BY <1>2, <1>5 DEF Top
  <1>7. (\A k \in Keys : KeyKept(k))' /\ RowsBounded' /\ MetadataKept'
    BY <1>2, <1>4, StorageAlone DEF Serial, StateKept
  <1>8. OneLine'
    BY <1>0, <1>1, <1>2, <1>4, <1>6 DEF Serial, OneLine
  <1>9. BuildKept(t)'
    BY <1>3, <1>4 DEF BuildKept
  <1>10. ExecutorMatchesHead'
    <2>1. blocks[Top].code \in Codes /\ blocks[Top].code # NULL
      BY <1>1, TopFacts, TxAssumption DEF TypeOK
    <2>2. executor = blocks[head].code
      BY DEF Serial, ExecutorMatchesHead
    <2>3. /\ task[t].newExecutor = IF task[t].upgraded THEN blocks[Top].code
                                                       ELSE NULL
          /\ ~ task[t].upgraded => blocks[Top].code = blocks[head].code
      BY <1>1, <1>2, <1>4 DEF BuildKept
    <2>4. executor' = blocks[Top].code
      BY <1>2, <2>1, <2>2, <2>3
    <2> QED
      BY <1>2, <1>6, <2>4 DEF ExecutorMatchesHead
  <1>11. ASSUME NEW u \in Callers PROVE CallKept(u)'
    <2>1. task'[u] = task[u] /\ task[u].at <= head /\ task[u].at \in Nat
      <3>1. u \in Tasks \ {t} /\ CallKept(u)
        BY TaskAssumption DEF Serial, Tasks
      <3>2. task[u] \in Task
        BY <1>0, <3>1
      <3>3. task[u].at \in Nat
        BY <3>2 DEF Task, BlockIds
      <3> QED
        BY <1>3, <3>1, <3>3 DEF CallKept
    <2>2. task'[u].at < head'
      BY <1>1, <1>5, <1>6, <2>1
    <2> QED
      BY <1>1, <1>6, <2>1, <2>2 DEF CallKept
  <1>12. StateKept'
    BY <1>0, <1>7, <1>9 DEF StateKept
  <1> QED
    BY <1>7, <1>8, <1>10, <1>11, <1>12 DEF Serial

-----------------------------------------------------------------------------
(* Theorems about builds that do not disturb one another. *)

LEMMA InitSerial ==
  ASSUME Init
  PROVE  Serial
  <1>1. /\ blocks = <<ForkPoint>> /\ Top = 1 /\ DOMAIN blocks = {1}
        /\ blocks[1] = ForkPoint /\ head = 1 /\ builds = 0
        /\ \A t \in Tasks : task[t].pc = "idle" /\ task[t].at = 1
        /\ \A k \in Keys : modifications[k] = NULL
        /\ localValues = {} /\ executor = Code0
    BY DEF Init, Top, Idle
  <1>2. \A t \in Builders : t \in Tasks /\ ~ Preparing(t) /\ ~ Holding(t)
    BY <1>1 DEF Preparing, Holding, Tasks
  <1>3. OneLine
    <2>1. ForkPoint.number = 0 /\ ForkPoint.line = [j \in 1..1 |-> j]
      BY DEF ForkPoint
    <2> QED
      BY <1>1, <1>2, <2>1 DEF OneLine
  <1>4. \A k \in Keys : KeyKept(k)
    <2>1. \A k \in Keys : Shown(1, k) = Genesis[k]
      BY <1>1 DEF Shown, ForkPoint, Genesis, Keys
    <2>2. 1..(Top - 1) = {}
      BY <1>1
    <2> QED
      BY <1>1, <2>1, <2>2 DEF KeyKept, Written
  <1>5. \A t \in Builders : BuildKept(t)
    BY <1>1, <1>2 DEF BuildKept
  <1>6. MetadataKept
    <2>1. /\ metadataVersions[0] = Code0 /\ Code0 # NULL /\ 0 \in Numbers
          /\ \A n \in Numbers : n >= 1 => metadataVersions[n] = NULL
      BY BoundAssumption, TxAssumption DEF Init, Numbers, Codes
    <2>2. MetadataAt(0) = Code0
      BY <2>1, LastVersion DEF LastVersionFound
    <2>3. ~ Upgrading(1) /\ blocks[1].runtime = Code0 /\ blocks[1].code = Code0
      BY <1>1 DEF Upgrading, ForkPoint
    <2>4. modifications["code"] = NULL
      BY <1>1 DEF Keys
    <2>5. \E m \in 0..(1 - 1) : /\ metadataVersions[m] # NULL
                               /\ \A l \in (m + 1)..(1 - 1) : metadataVersions[l] = NULL
      BY <2>1
    <2> QED
      BY <1>1, <2>1, <2>2, <2>3, <2>4, <2>5 DEF MetadataKept
  <1>7. ExecutorMatchesHead
    BY <1>1 DEF ExecutorMatchesHead, ForkPoint
  <1>8. \A t \in Callers : CallKept(t)
    BY <1>1 DEF CallKept, Tasks
  <1>9. RowsBounded
    BY <1>1 DEF RowsBounded
  <1> QED
    BY <1>3, <1>4, <1>5, <1>6, <1>7, <1>8, <1>9 DEF Serial, StateKept

LEMMA SerialKept ==
  ASSUME Undisturbed, TypeOK, ChainAnchored, Serial, [Next]_vars
  PROVE  Serial'
  <1>1. CASE UNCHANGED vars
    <2>1. /\ UNCHANGED <<head, executor, storageVars, blocks, builds, task>>
      BY <1>1 DEF vars, cacheVars
    <2>2. OneLine' /\ StateKept' /\ MetadataKept' /\ ExecutorMatchesHead'
      BY <2>1, BuildsAlone
    <2>3. Busy => Busy'
      BY <2>1 DEF Busy, Preparing, Holding
    <2>4. (\A u \in Callers : CallKept(u))'
      BY <2>1, <2>3, CallsAlone DEF Serial
    <2> QED
      BY <2>2, <2>4 DEF Serial
  <1>2. ASSUME NEW t \in Builders,
               \/ \E batch \in Batches : BeginBuild(t, batch)
               \/ BuildStep(t)
               \/ AbandonBuild(t)
        PROVE  Serial'
    <2>1. ~ AbandonBuild(t) /\ "compile" \notin Faults
      BY DEF Undisturbed, AbandonBuild
    <2>2. ~ RejectBlock(t)
      BY DEF RejectBlock, Serial, OneLine, Holding
    <2> QED
      BY <1>2, <2>1, <2>2, ProgressSteps, ProgressSerial, ExtrinsicSerial,
         FinalizeSerial, AcceptSerial
      DEF BuildStep
  <1> QED
    BY <1>1, <1>2, CallsSerial, WarmupSerial DEF Next

(***************************************************************************)
(* A single builder whose builds do not fail keeps blocks, storage,        *)
(* metadata and executor in step, whatever the calls and the warmup do in  *)
(* between and however they fail: the invariant the three theorems below   *)
(* read off.  TLC shows what a second or a failing build can disturb.      *)
(***************************************************************************)
THEOREM SerialInvariant ==
  ASSUME Undisturbed
  PROVE  Spec => [](TypeOK /\ ChainAnchored /\ Serial)
  <1>1. Init => Serial
    BY InitSerial
  <1>2. TypeOK /\ ChainAnchored /\ Serial /\ [Next]_vars => Serial'
    BY SerialKept
  <1> QED
    BY <1>1, <1>2, ChainInvariant, PTL DEF Spec

(***************************************************************************)
(* Reading the storage at the number of any block of the chain, after any  *)
(* number of later blocks and while the next is being built, yields what   *)
(* that block's extrinsics left over its ancestors'.                       *)
(***************************************************************************)
THEOREM OwnStateRead ==
  ASSUME Undisturbed
  PROVE  Spec => []BlockStateIsItsOwn
  <1>1. TypeOK /\ ChainAnchored /\ Serial => BlockStateIsItsOwn
    <2> SUFFICES ASSUME TypeOK, ChainAnchored, Serial,
                        NEW n \in 0..blocks[head].number
                 PROVE  /\ Layer(blocks[head].number + 1)!Get(n, "ledger")
                              = AtNumber(n).ledger
                        /\ Layer(blocks[head].number + 1)!Get(n, "code")
                              = AtNumber(n).code
      BY DEF BlockStateIsItsOwn, ChainNumbers
    <2>1. Top \in Nat /\ head \in 1..Top
      BY TopFacts DEF TypeOK
    <2>2. blocks[head].number = head - 1 /\ blocks[head].number + 1 = head
      BY <2>1, Numbering DEF TypeOK, Serial
    <2>3. blocks[head].line = [j \in 1..head |-> j]
      BY <2>1, Lineage DEF TypeOK, Serial
    <2>4. n \in 0..(Top - 1) /\ n < head /\ head \in Nat /\ n + 1 \in 1..head
      BY <2>1, <2>2
    <2>5. AtNumber(n) = blocks[n + 1]
      BY <2>3, <2>4 DEF AtNumber
    <2>6. \A k \in Keys : Layer(head)!Get(n, k) = Shown(n + 1, k)
      BY <2>4, PastIsShown DEF Serial, StateKept
    <2> QED
      BY <2>2, <2>5, <2>6 DEF Shown, Keys
  <1> QED
    BY <1>1, SerialInvariant, PTL

(***************************************************************************)
(* The executor is always the head's, and metadata_at gives every block    *)
(* the metadata of the runtime that executed it, across any number of      *)
(* upgrades.                                                               *)
(***************************************************************************)
THEOREM RuntimeInStep ==
  ASSUME Undisturbed
  PROVE  Spec => []RuntimeFollowsHead
  <1>1. TypeOK /\ ChainAnchored /\ Serial => RuntimeFollowsHead
    <2> SUFFICES ASSUME TypeOK, ChainAnchored, Serial,
                        NEW n \in ChainNumbers,
                        \A m \in 0..n : RunByItsRuntime(m),
                        ~ (WroteCode(n) /\ WroteCode(n - 1))
                 PROVE  MetadataAt(n) = AtNumber(n).runtime
      BY DEF RuntimeFollowsHead, MetadataFollowsRuntime, Serial
    <2>1. Top \in Nat /\ head \in 1..Top /\ DOMAIN blocks = 1..Top
      BY TopFacts DEF TypeOK
    <2>2. blocks[head].number = head - 1
      BY <2>1, Numbering DEF TypeOK, Serial
    <2>3. blocks[head].line = [j \in 1..head |-> j]
      BY <2>1, Lineage DEF TypeOK, Serial
    <2>4. n \in 0..(head - 1) /\ ChainNumbers = 0..(head - 1)
      BY <2>2 DEF ChainNumbers
    <2>5. \A m \in 0..(head - 1) : AtNumber(m) = blocks[m + 1]
      BY <2>1, <2>3 DEF AtNumber
    <2>6. ASSUME NEW j \in 1..(n + 1) PROVE OwnRuntime(j)
      <3>1. j - 1 \in 0..n /\ j - 1 \in 0..(head - 1) /\ (j - 1) + 1 = j
        BY <2>1, <2>4
      <3>2. RunByItsRuntime(j - 1) /\ AtNumber(j - 1) = blocks[j]
        BY <2>5, <3>1
      <3>3. CASE j > 1
        <4>1. (j - 1) - 1 \in 0..(head - 1) /\ ((j - 1) - 1) + 1 = j - 1
          BY <2>1, <2>4, <3>1, <3>3
        <4>2. AtNumber((j - 1) - 1) = blocks[j - 1]
          BY <2>5, <4>1
        <4>3. j - 1 > 0
          BY <3>3
        <4> QED
          BY <3>2, <4>2, <4>3 DEF RunByItsRuntime, OwnRuntime
      <3>4. CASE ~ (j > 1)
        BY <3>4 DEF OwnRuntime
      <3> QED
        BY <3>3, <3>4
    <2>7. ~ (n + 1 > 1 /\ Upgrading(n + 1) /\ Upgrading((n + 1) - 1))
      <3> SUFFICES ASSUME n + 1 > 1, Upgrading(n + 1), Upgrading((n + 1) - 1)
                   PROVE  FALSE
        OBVIOUS
      <3>1. /\ n - 1 \in 0..(head - 1) /\ (n - 1) + 1 = n /\ (n + 1) - 1 = n
        BY <2>1, <2>4
      <3>2. AtNumber(n) = blocks[n + 1] /\ AtNumber(n - 1) = blocks[n]
        BY <2>4, <2>5, <3>1
      <3> QED
        BY <2>4, <3>1, <3>2 DEF WroteCode, Upgrading
    <2>8. n + 1 \in DOMAIN blocks /\ (n + 1) - 1 = n
      BY <2>1, <2>4
    <2>9. MetadataAt((n + 1) - 1) = blocks[n + 1].runtime
      BY <2>6, <2>7, <2>8 DEF Serial, MetadataKept
    <2> QED
      BY <2>4, <2>5, <2>8, <2>9
  <1> QED
    BY <1>1, SerialInvariant, PTL

(***************************************************************************)
(* A runtime call at a block that is still the head when no block is being *)
(* built saw the head's state through the head's runtime, although it read *)
(* head, executor and storage one after the other.                         *)
(***************************************************************************)
THEOREM CallsReadTheHead ==
  ASSUME Undisturbed
  PROVE  Spec => []CallsSeeTheHead
  <1>1. TypeOK /\ ChainAnchored /\ Serial => CallsSeeTheHead
    BY DEF Serial, CallKept, CallsSeeTheHead, Preparing, Holding
  <1> QED
    BY <1>1, SerialInvariant, PTL
=============================================================================
