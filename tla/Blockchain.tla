----------------------------- MODULE Blockchain -----------------------------
(***************************************************************************)
(* The forked chain (crates/pop-fork/src/blockchain.rs): block production, *)
(* runtime calls and the background warmup as concurrent async tasks.      *)
(*                                                                         *)
(* The head and the executor sit behind locks that are held for one read   *)
(* or one write at a time, the warm prototype is taken out of its mutex    *)
(* and put back later, and every block shares one storage layer, whose     *)
(* operators this module takes from LocalStorage.  A task is one call of   *)
(* build_block, call_at_block, validate_extrinsic or warmup; each of its   *)
(* actions runs to the next await that lets another task in.               *)
(*                                                                         *)
(* Storage is reduced to two keys: :code, and a ledger that records which  *)
(* extrinsics took effect.  A runtime, a prototype compiled from it and a  *)
(* slot duration read from it are all named by the code they come from.    *)
(***************************************************************************)
EXTENDS Integers, Sequences

CONSTANTS Builders,   \* callers of build_block
          Callers,    \* callers of call_at_block and validate_extrinsic
          Warmers,    \* the warmup task, or no task
          Txs,        \* extrinsics
          Upgrades,   \* the extrinsics that replace :code, by themselves
          Code0,      \* :code at the fork point
          Batches,    \* the extrinsic lists build_block is called with
          Faults,     \* what may fail: "build", "compile", "call", "warmup"
          MaxBuilds,  \* bound: calls of build_block
          NULL

Codes == Upgrades \cup {Code0}
Tasks == Builders \cup Callers \cup Warmers

ASSUME TaskAssumption ==
    /\ Builders \cap Callers = {}
    /\ Builders \cap Warmers = {}
    /\ Callers \cap Warmers = {}
ASSUME TxAssumption ==
    /\ Upgrades \subseteq Txs
    /\ Batches \subseteq Seq(Txs)
    /\ NULL \notin Codes
ASSUME BoundAssumption == MaxBuilds \in Nat
ASSUME NullAssumption ==
    /\ NULL \notin Int
    /\ \A n \in 0..MaxBuilds :
          /\ \A c \in Codes : [block |-> n, value |-> c] # NULL
          /\ \A l \in SUBSET Txs : [block |-> n, value |-> l] # NULL

VARIABLES head,              \* the head block, an index of blocks
          executor,          \* the code the cached executor runs
          warmPrototype,     \* the cached prototype's code, or NULL
          slotDuration,      \* cached_slot_duration, NULL for 0
          providerSlot,      \* the timestamp provider's own cache
          modifications,     \* the storage layer's map, shared by all blocks
          localValues,       \* the storage layer's rows
          metadataVersions,  \* metadata_versions, NULL where none is registered
          events,            \* what the broadcast channel was sent
          blocks,            \* every finalized block, the fork point first
          builds,            \* build_block calls begun
          task               \* the program counter and locals of each task

storageVars == <<modifications, localValues, metadataVersions>>
cacheVars == <<executor, warmPrototype, slotDuration, providerSlot>>
vars == <<head, cacheVars, storageVars, events, blocks, builds, task>>

Numbers == 0..MaxBuilds
BlockIds == Nat \ {0}
Keys == {"code", "ledger"}
Genesis == [k \in Keys |-> IF k = "code" THEN Code0 ELSE {}]

(***************************************************************************)
(* The shared storage layer, seen by a clone that is at block number n.    *)
(***************************************************************************)
Layer(n) == INSTANCE LocalStorage WITH
    Values <- Codes \cup SUBSET Txs,
    Prefixes <- {},
    Fork <- 0,
    MaxBlock <- MaxBuilds + 1,
    Remote <- [b \in 0..(MaxBuilds + 1) |-> Genesis],
    deletedPrefixes <- {},
    current <- n,
    sealed <- <<>>,
    initialised <- {}

(***************************************************************************)
(* A block keeps its whole line of ancestors in memory.  ledger and code   *)
(* are history: the state its extrinsics should leave, over its parent's.  *)
(***************************************************************************)
Block == [number : Nat, line : Seq(BlockIds), runtime : Codes,
          txs : SUBSET Txs, ledger : SUBSET Txs, code : Codes]

ForkPoint == [number |-> 0, line |-> <<1>>, runtime |-> Code0, txs |-> {},
              ledger |-> {}, code |-> Code0]

Parent(b) == b.line[Len(b.line) - 1]

(***************************************************************************)
(* The head and its ancestors, by block number.                            *)
(***************************************************************************)
ChainNumbers == 0..blocks[head].number
AtNumber(n) == blocks[blocks[head].line[n + 1]]

Task == [pc : {"idle", "head", "executor", "prototype", "initialized",
               "inherents", "applied", "finalized", "recreated", "committed",
               "stored", "answered", "restore", "historical", "compiled",
               "slot", "cached", "warm"},
         at : BlockIds, executor : Codes, prototype : Codes \cup {NULL},
         todo : Seq(Txs), included : SUBSET Txs, code : Codes,
         upgraded : BOOLEAN, made : BlockIds,
         newExecutor : Codes \cup {NULL}, ledger : SUBSET Txs]

Idle == [pc |-> "idle", at |-> 1, executor |-> Code0, prototype |-> NULL,
         todo |-> <<>>, included |-> {}, code |-> Code0, upgraded |-> FALSE,
         made |-> 1, newExecutor |-> NULL, ledger |-> {}]

(***************************************************************************)
(* What a storage key holds.                                               *)
(***************************************************************************)
ValueOf(k) == IF k = "code" THEN Codes ELSE SUBSET Txs

StorageTyped ==
    /\ DOMAIN modifications = Keys
    /\ \A k \in Keys :
          modifications[k] # NULL =>
              modifications[k] \in [block : Nat, value : ValueOf(k)]
    /\ \A r \in localValues :
          /\ r \in [key : Keys, value : ValueOf(r.key), from : Nat,
                    until : Nat \cup {NULL}]

CachesTyped ==
    /\ executor \in Codes
    /\ warmPrototype \in Codes \cup {NULL}
    /\ slotDuration \in Codes \cup {NULL}
    /\ providerSlot \in Codes \cup {NULL}
    /\ metadataVersions \in [Numbers -> Codes \cup {NULL}]

BlocksTyped ==
    /\ blocks \in Seq(Block)
    /\ head \in DOMAIN blocks
    /\ events \in Seq([block : BlockIds, modifiedKeys : SUBSET Keys])

(***************************************************************************)
(* A build that has run its runtime once keeps the prototype.              *)
(***************************************************************************)
TasksTyped ==
    /\ task \in [Tasks -> Task]
    /\ \A t \in Tasks :
          task[t].pc \in {"initialized", "inherents", "applied"}
              => task[t].prototype # NULL

TypeOK ==
    /\ StorageTyped
    /\ CachesTyped
    /\ BlocksTyped
    /\ TasksTyped
    /\ builds \in Numbers

Init ==
    /\ head = 1
    /\ executor = Code0
    /\ warmPrototype = NULL
    /\ slotDuration = NULL
    /\ providerSlot = NULL
    /\ modifications = [k \in Keys |-> NULL]
    /\ localValues = {}
    /\ metadataVersions = [n \in Numbers |-> IF n = 0 THEN Code0 ELSE NULL]
    /\ events = <<>>
    /\ blocks = <<ForkPoint>>
    /\ builds = 0
    /\ task = [t \in Tasks |-> Idle]

-----------------------------------------------------------------------------
(* Storage, as the tasks use it. *)

(***************************************************************************)
(* The executor reads at the number the clone stands at, where any         *)
(* modification in the map answers.                                        *)
(***************************************************************************)
Latest(n, k) == Layer(n)!Get(n, k)

HasCodeChangedAt(n) ==
    /\ modifications["code"] # NULL
    /\ modifications["code"].block = n

MetadataAt(n) ==
    metadataVersions[CHOOSE m \in 0..n :
        /\ metadataVersions[m] # NULL
        /\ \A l \in (m + 1)..n : metadataVersions[l] = NULL]

-----------------------------------------------------------------------------
(* The steps build_block and the head path of the runtime calls share. *)

CloneExecutor(t) ==
    /\ task[t].pc = "head"
    /\ task' = [task EXCEPT ![t].pc = "executor", ![t].executor = executor]
    /\ UNCHANGED <<head, cacheVars, storageVars, events, blocks, builds>>

TakePrototype(t) ==
    /\ task[t].pc = "executor"
    /\ task' = [task EXCEPT ![t].pc = "prototype",
                            ![t].prototype = warmPrototype]
    /\ warmPrototype' = NULL
    /\ UNCHANGED <<head, executor, slotDuration, providerSlot, storageVars,
                   events, blocks, builds>>

(***************************************************************************)
(* call_with_prototype runs the prototype it is given, whatever code it    *)
(* was compiled from, and compiles the executor's code when given none.    *)
(***************************************************************************)
Runtime(t) ==
    IF task[t].prototype # NULL THEN task[t].prototype ELSE task[t].executor

-----------------------------------------------------------------------------
(* build_block. *)

BeginBuild(t, batch) ==
    /\ task[t].pc = "idle"
    /\ builds < MaxBuilds
    /\ builds' = builds + 1
    /\ task' = [task EXCEPT ![t] = [Idle EXCEPT !.pc = "head", !.at = head,
                                    !.todo = batch, !.code = blocks[head].code]]
    /\ UNCHANGED <<head, cacheVars, storageVars, events, blocks>>

(***************************************************************************)
(* The number of the block a build is making: its layer stands there.      *)
(***************************************************************************)
Building(t) == blocks[task[t].at].number + 1

(***************************************************************************)
(* The header is created, storage prefetched and the runtime initialized;  *)
(* the keys this and the inherents write are rewritten by every block.     *)
(***************************************************************************)
Initialize(t) ==
    /\ task[t].pc = "prototype"
    /\ t \in Builders
    /\ task' = [task EXCEPT ![t].pc = "initialized",
                            ![t].prototype = Runtime(t)]
    /\ UNCHANGED <<head, cacheVars, storageVars, events, blocks, builds>>

(***************************************************************************)
(* The timestamp provider fills its slot-duration cache when it is empty.  *)
(***************************************************************************)
ApplyInherents(t) ==
    /\ task[t].pc = "initialized"
    /\ task' = [task EXCEPT ![t].pc = "inherents"]
    /\ providerSlot' = IF providerSlot = NULL THEN task[t].executor
                                              ELSE providerSlot
    /\ UNCHANGED <<head, executor, warmPrototype, slotDuration, storageVars,
                   events, blocks, builds>>

\* Deliberate fault: writes are stamped with the parent's number.
WroteAtParent(t, tx) ==
    [k \in Keys |->
        IF k = "ledger"
        THEN [block |-> Building(t) - 1,
              value |-> Latest(Building(t), "ledger") \cup {tx}]
        ELSE IF tx \in Upgrades THEN [block |-> Building(t) - 1, value |-> tx]
        ELSE modifications[k]]

(***************************************************************************)
(* An extrinsic that is applied writes the shared map at once, stamped     *)
(* with the block being built; one whose dispatch fails writes nothing.    *)
(***************************************************************************)
Wrote(t, tx) ==
    [k \in Keys |->
        IF k = "ledger"
        THEN [block |-> Building(t),
              value |-> Latest(Building(t), "ledger") \cup {tx}]
        ELSE IF tx \in Upgrades THEN [block |-> Building(t), value |-> tx]
        ELSE modifications[k]]

ApplyExtrinsic(t) ==
    /\ task[t].pc = "inherents"
    /\ task[t].todo # <<>>
    /\ LET tx == Head(task[t].todo) IN
       \/ /\ modifications' = Wrote(t, tx)
          /\ task' = [task EXCEPT
                         ![t].todo = Tail(@),
                         ![t].included = @ \cup {tx},
                         ![t].code = IF tx \in Upgrades THEN tx ELSE @]
       \/ /\ task' = [task EXCEPT ![t].todo = Tail(@)]
          /\ UNCHANGED modifications
    /\ UNCHANGED <<head, cacheVars, localValues, metadataVersions, events,
                   blocks, builds>>

(***************************************************************************)
(* Any runtime or storage error returns from build_block: the prototype    *)
(* the task holds is dropped, what it wrote to the map stays.              *)
(***************************************************************************)
AbandonBuild(t) ==
    /\ "build" \in Faults
    /\ t \in Builders
    /\ task[t].pc \in {"prototype", "initialized", "inherents", "applied"}
    /\ task' = [task EXCEPT ![t] = Idle]
    /\ UNCHANGED <<head, cacheVars, storageVars, events, blocks, builds>>

RuntimeUpgraded(t) ==
    /\ task[t].pc = "inherents"
    /\ task[t].todo = <<>>
    /\ task' = [task EXCEPT ![t].pc = "applied",
                            ![t].upgraded = HasCodeChangedAt(Building(t))]
    /\ UNCHANGED <<head, cacheVars, storageVars, events, blocks, builds>>

\* Deliberate fault: the block that replaces :code takes the new metadata.
RegisterOwnMetadata(t) ==
    IF HasCodeChangedAt(Building(t))
    THEN [metadataVersions EXCEPT ![Building(t)] = task[t].prototype]
    ELSE metadataVersions

(***************************************************************************)
(* register_new_metadata, called when the parent replaced :code: only the  *)
(* block after it runs the new runtime.                                    *)
(***************************************************************************)
RegisterNewMetadata(t) ==
    IF HasCodeChangedAt(blocks[task[t].at].number)
    THEN [metadataVersions EXCEPT ![Building(t)] = task[t].prototype]
    ELSE metadataVersions

(***************************************************************************)
(* finalize registers the metadata of a runtime the parent switched to,    *)
(* commits the layer at the number being built, and makes the block.       *)
(***************************************************************************)
Finalize(t) ==
    LET n == Building(t)
        parent == blocks[task[t].at]
    IN /\ task[t].pc = "applied"
       /\ metadataVersions' = RegisterNewMetadata(t)
       /\ localValues' =
             Layer(n)!CommitLocalChanges(Layer(n)!EntriesToCommit, n)
       /\ blocks' = Append(blocks,
             [number |-> n, line |-> Append(parent.line, Len(blocks) + 1),
              runtime |-> task[t].prototype, txs |-> task[t].included,
              ledger |-> parent.ledger \cup task[t].included,
              code |-> task[t].code])
       /\ task' = [task EXCEPT ![t].pc = "finalized",
                               ![t].made = Len(blocks) + 1]
       /\ UNCHANGED <<head, cacheVars, modifications, events, builds>>

(***************************************************************************)
(* After an upgrade a new executor is made from the code the new block     *)
(* shows; a failure is logged and the old executor kept.                   *)
(***************************************************************************)
RecreateExecutor(t) ==
    LET n == Building(t) IN
    /\ task[t].pc = "finalized"
    /\ \/ /\ task' = [task EXCEPT ![t].pc = "recreated",
                         ![t].newExecutor = IF task[t].upgraded
                                            THEN Layer(n + 1)!Get(n, "code")
                                            ELSE NULL]
       \/ /\ task[t].upgraded /\ "compile" \in Faults
          /\ task' = [task EXCEPT ![t].pc = "recreated"]
    /\ UNCHANGED <<head, cacheVars, storageVars, events, blocks, builds>>

\* Deliberate fault: a block that lost the race is announced.
RejectedEmits(t) ==
    /\ task[t].pc = "recreated"
    /\ head # task[t].at
    /\ task' = [task EXCEPT ![t].pc = "stored"]
    /\ UNCHANGED <<head, cacheVars, storageVars, events, blocks, builds>>

(***************************************************************************)
(* Under the head's write lock: a head other than the parent rejects the   *)
(* block (ConcurrentBlockBuild), else head and executor are replaced.      *)
(***************************************************************************)
RejectBlock(t) ==
    /\ task[t].pc = "recreated"
    /\ head # task[t].at
    /\ task' = [task EXCEPT ![t] = Idle]
    /\ UNCHANGED <<head, cacheVars, storageVars, events, blocks, builds>>

\* Deliberate fault: the head is not compared with the parent.
AcceptUnchecked(t) ==
    /\ task[t].pc = "recreated"
    /\ head' = task[t].made
    /\ executor' = IF task[t].newExecutor # NULL THEN task[t].newExecutor
                                                 ELSE executor
    /\ slotDuration' = IF task[t].upgraded THEN NULL ELSE slotDuration
    /\ task' = [task EXCEPT ![t].pc = "committed"]
    /\ UNCHANGED <<warmPrototype, providerSlot, storageVars, events, blocks,
                   builds>>

\* Deliberate fault: the executor is not replaced on an upgrade.
AcceptKeepsExecutor(t) ==
    /\ task[t].pc = "recreated"
    /\ head = task[t].at
    /\ head' = task[t].made
    /\ slotDuration' = IF task[t].upgraded THEN NULL ELSE slotDuration
    /\ task' = [task EXCEPT ![t].pc = "committed"]
    /\ UNCHANGED <<executor, warmPrototype, providerSlot, storageVars, events,
                   blocks, builds>>

AcceptBlock(t) ==
    /\ task[t].pc = "recreated"
    /\ head = task[t].at
    /\ head' = task[t].made
    /\ executor' = IF task[t].newExecutor # NULL THEN task[t].newExecutor
                                                 ELSE executor
    /\ slotDuration' = IF task[t].upgraded THEN NULL ELSE slotDuration
    /\ task' = [task EXCEPT ![t].pc = "committed"]
    /\ UNCHANGED <<warmPrototype, providerSlot, storageVars, events, blocks,
                   builds>>

\* Deliberate fault: a block with an upgrade is not announced.
UpgradeNotAnnounced(t) ==
    /\ task[t].pc = "committed"
    /\ warmPrototype' = IF task[t].upgraded THEN NULL ELSE task[t].prototype
    /\ providerSlot' = IF task[t].upgraded THEN NULL ELSE providerSlot
    /\ task' = IF task[t].upgraded THEN [task EXCEPT ![t] = Idle]
                                   ELSE [task EXCEPT ![t].pc = "stored"]
    /\ UNCHANGED <<head, executor, slotDuration, storageVars, events, blocks,
                   builds>>

StorePrototype(t) ==
    /\ task[t].pc = "committed"
    /\ warmPrototype' = IF task[t].upgraded THEN NULL ELSE task[t].prototype
    /\ providerSlot' = IF task[t].upgraded THEN NULL ELSE providerSlot
    /\ task' = [task EXCEPT ![t].pc = "stored"]
    /\ UNCHANGED <<head, executor, slotDuration, storageVars, events, blocks,
                   builds>>

(***************************************************************************)
(* The event lists every key of the map as modified.                       *)
(***************************************************************************)
EmitNewBlock(t) ==
    /\ task[t].pc = "stored"
    /\ events' = Append(events,
          [block |-> task[t].made,
           modifiedKeys |-> {k \in Keys : modifications[k] # NULL}])
    /\ task' = [task EXCEPT ![t] = Idle]
    /\ UNCHANGED <<head, cacheVars, storageVars, blocks, builds>>

-----------------------------------------------------------------------------
(* Runtime calls at the head: call_at_block and validate_extrinsic. *)

BeginCall(t) ==
    /\ task[t].pc = "idle"
    /\ task' = [task EXCEPT ![t].pc = "head", ![t].at = head]
    /\ UNCHANGED <<head, cacheVars, storageVars, events, blocks, builds>>

(***************************************************************************)
(* The call reads the layer of the block it was asked for, at the number   *)
(* the layer stands at.  A storage error loses the prototype.              *)
(***************************************************************************)
RunCall(t) ==
    /\ task[t].pc = "prototype"
    /\ t \in Callers
    /\ \E p \in {Runtime(t)} \cup (IF "call" \in Faults THEN {NULL} ELSE {}) :
          task' = [task EXCEPT ![t].pc = "answered", ![t].prototype = p,
                               ![t].ledger = Latest(Building(t), "ledger")]
    /\ UNCHANGED <<head, cacheVars, storageVars, events, blocks, builds>>

(***************************************************************************)
(* The prototype is put back only when the head has not moved: one lock is *)
(* read, then another taken.                                               *)
(***************************************************************************)
CheckHead(t) ==
    /\ task[t].pc = "answered"
    /\ task' = IF head = task[t].at THEN [task EXCEPT ![t].pc = "restore"]
                                    ELSE [task EXCEPT ![t] = Idle]
    /\ UNCHANGED <<head, cacheVars, storageVars, events, blocks, builds>>

RestorePrototype(t) ==
    /\ task[t].pc = "restore"
    /\ warmPrototype' = task[t].prototype
    /\ task' = [task EXCEPT ![t] = Idle]
    /\ UNCHANGED <<head, executor, slotDuration, providerSlot, storageVars,
                   events, blocks, builds>>

(***************************************************************************)
(* A call at an ancestor of the head: a fresh executor runs the code of    *)
(* that block's number, over the layer as the ancestor keeps it, which has *)
(* moved past the block its child was committed at.                        *)
(***************************************************************************)
CallAncestor(t, n) ==
    /\ task[t].pc = "idle"
    /\ n < blocks[head].number
    /\ task' = [task EXCEPT ![t].pc = "historical",
                            ![t].at = blocks[head].line[n + 1],
                            ![t].executor = Layer(n + 2)!Get(n, "code"),
                            ![t].ledger = Latest(n + 2, "ledger")]
    /\ UNCHANGED <<head, cacheVars, storageVars, events, blocks, builds>>

Return(t) ==
    /\ task[t].pc = "historical"
    /\ task' = [task EXCEPT ![t] = Idle]
    /\ UNCHANGED <<head, cacheVars, storageVars, events, blocks, builds>>

-----------------------------------------------------------------------------
(* The background warmup, spawned once after the fork. *)

(***************************************************************************)
(* The executor is cloned, a prototype compiled from it and the slot       *)
(* duration asked for; a storage error loses the prototype, and without    *)
(* one compiled only the providers are warmed.                             *)
(***************************************************************************)
WarmupCompile(t) ==
    /\ task[t].pc = "idle"
    /\ \/ \E p \in {executor} \cup (IF "warmup" \in Faults THEN {NULL} ELSE {}) :
             task' = [task EXCEPT ![t].pc = "compiled", ![t].executor = executor,
                                  ![t].prototype = p]
       \/ /\ "warmup" \in Faults
          /\ task' = [task EXCEPT ![t].pc = "cached", ![t].executor = executor]
    /\ UNCHANGED <<head, cacheVars, storageVars, events, blocks, builds>>

WarmupStoreSlot(t) ==
    /\ task[t].pc = "compiled"
    /\ slotDuration' = task[t].executor
    /\ task' = [task EXCEPT ![t].pc = "slot"]
    /\ UNCHANGED <<head, executor, warmPrototype, providerSlot, storageVars,
                   events, blocks, builds>>

WarmupStorePrototype(t) ==
    /\ task[t].pc = "slot"
    /\ warmPrototype' = task[t].prototype
    /\ task' = [task EXCEPT ![t].pc = "cached"]
    /\ UNCHANGED <<head, executor, slotDuration, providerSlot, storageVars,
                   events, blocks, builds>>

WarmupProviders(t) ==
    /\ task[t].pc = "cached"
    /\ \/ providerSlot' = task[t].executor
       \/ "warmup" \in Faults /\ UNCHANGED providerSlot
    /\ task' = [task EXCEPT ![t] = [Idle EXCEPT !.pc = "warm"]]
    /\ UNCHANGED <<head, executor, warmPrototype, slotDuration, storageVars,
                   events, blocks, builds>>

-----------------------------------------------------------------------------
(***************************************************************************)
(* The steps of a build once it has begun, the error return excepted.      *)
(***************************************************************************)
BuildStep(t) ==
    \/ CloneExecutor(t)
    \/ TakePrototype(t)
    \/ Initialize(t)
    \/ ApplyInherents(t)
    \/ ApplyExtrinsic(t)
    \/ RuntimeUpgraded(t)
    \/ Finalize(t)
    \/ RecreateExecutor(t)
    \/ RejectBlock(t)
    \/ AcceptBlock(t)
    \/ StorePrototype(t)
    \/ EmitNewBlock(t)

CallStep(t) ==
    \/ CloneExecutor(t)
    \/ TakePrototype(t)
    \/ RunCall(t)
    \/ CheckHead(t)
    \/ RestorePrototype(t)
    \/ Return(t)

WarmupStep(t) ==
    \/ WarmupCompile(t)
    \/ WarmupStoreSlot(t)
    \/ WarmupStorePrototype(t)
    \/ WarmupProviders(t)

Next ==
    \/ \E t \in Builders : \/ \E batch \in Batches : BeginBuild(t, batch)
                           \/ BuildStep(t)
                           \/ AbandonBuild(t)
    \/ \E t \in Callers : \/ BeginCall(t)
                          \/ \E n \in Numbers : CallAncestor(t, n)
                          \/ CallStep(t)
    \/ \E t \in Warmers : WarmupStep(t)

Spec == Init /\ [][Next]_vars

(***************************************************************************)
(* The runtime polls every task that can run until it finishes.            *)
(***************************************************************************)
FairSpec ==
    /\ Spec
    /\ \A t \in Builders : WF_vars(BuildStep(t))
    /\ \A t \in Callers : WF_vars(CallStep(t))
    /\ \A t \in Warmers : WF_vars(WarmupStep(t))

-----------------------------------------------------------------------------
(* Properties. *)

(***************************************************************************)
(* Whatever is built concurrently, the head only ever moves to a block     *)
(* built on it: the line behind the head is never replaced.                *)
(***************************************************************************)
HeadExtends == [][head' # head => Parent(blocks'[head']) = head]_vars

Announced == {events[i].block : i \in DOMAIN events}

OnChain(b) == \E n \in DOMAIN blocks[head].line : blocks[head].line[n] = b

(***************************************************************************)
(* Only blocks that became the head are announced, each at most once: a    *)
(* rejected block is never shown to a subscriber.                          *)
(***************************************************************************)
OnlyHeadsAnnounced ==
    /\ \A b \in Announced : OnChain(b)
    /\ \A i, j \in DOMAIN events : events[i].block = events[j].block => i = j

(***************************************************************************)
(* Every block that becomes the head is eventually announced.              *)
(***************************************************************************)
HeadsAnnounced ==
    \A b \in 2..(MaxBuilds + 1) : head = b ~> (b \in Announced)

(***************************************************************************)
(* The executor runs the code of the head's own state.                     *)
(***************************************************************************)
ExecutorMatchesHead == executor = blocks[head].code

(***************************************************************************)
(* Reading the state of any block of the chain yields what its own         *)
(* extrinsics, over its ancestors', left there.                            *)
(***************************************************************************)
BlockStateIsItsOwn ==
    LET layer == blocks[head].number + 1 IN
    \A n \in ChainNumbers :
        /\ Layer(layer)!Get(n, "ledger") = AtNumber(n).ledger
        /\ Layer(layer)!Get(n, "code") = AtNumber(n).code

(***************************************************************************)
(* A call at a block that is still the head, with no block being built,    *)
(* has run on the head's state with the head's runtime: head, executor and *)
(* storage are read one after the other, and a build can come in between.  *)
(***************************************************************************)
CallsSeeTheHead ==
    \A t \in Callers :
        (/\ task[t].pc = "answered"
         /\ task[t].at = head
         /\ \A b \in Builders : task[b].pc = "idle")
            => /\ task[t].ledger = blocks[head].ledger
               /\ task[t].executor = blocks[head].code

(***************************************************************************)
(* A block that the runtime its parent's state carries has executed.       *)
(***************************************************************************)
RunByItsRuntime(n) == n > 0 => AtNumber(n).runtime = AtNumber(n - 1).code

WroteCode(n) == n \in ChainNumbers /\ AtNumber(n).txs \cap Upgrades # {}

(***************************************************************************)
(* metadata_at yields the metadata of the runtime that executed the block, *)
(* though it is registered one block after the upgrade: on a chain that no *)
(* stale prototype has executed, and except for a block that writes :code  *)
(* when its parent did.                                                    *)
(***************************************************************************)
MetadataFollowsRuntime ==
    \A n \in ChainNumbers :
        (/\ \A m \in 0..n : RunByItsRuntime(m)
         /\ ~(WroteCode(n) /\ WroteCode(n - 1)))
            => MetadataAt(n) = AtNumber(n).runtime

(***************************************************************************)
(* Across upgrades the cached executor is the head's, and every block is   *)
(* decoded with the metadata of the runtime that executed it.              *)
(***************************************************************************)
RuntimeFollowsHead == ExecutorMatchesHead /\ MetadataFollowsRuntime

-----------------------------------------------------------------------------
(* The inductive invariant behind HeadExtends and OnlyHeadsAnnounced. *)

(***************************************************************************)
(* A block's line is made of finalized blocks and ends with the block.     *)
(***************************************************************************)
LinesAnchored ==
    \A i \in DOMAIN blocks :
        /\ Len(blocks[i].line) = blocks[i].number + 1
        /\ blocks[i].line[Len(blocks[i].line)] = i
        /\ \A n \in DOMAIN blocks[i].line : blocks[i].line[n] \in DOMAIN blocks

HoldsBlock(t) == task[t].pc \in {"finalized", "recreated", "committed", "stored"}

(***************************************************************************)
(* A build that has made its block made it on the parent it started from;  *)
(* no two builds made the same block; a block is on the chain once it is   *)
(* accepted, and unannounced until its build ends.                         *)
(***************************************************************************)
BuildsAnchored ==
    \A t \in Tasks :
        /\ task[t].at \in DOMAIN blocks
        /\ HoldsBlock(t) =>
              /\ task[t].made \in DOMAIN blocks
              /\ blocks[task[t].made].line =
                    Append(blocks[task[t].at].line, task[t].made)
              /\ task[t].made \notin Announced
              /\ \A u \in Tasks \ {t} :
                    HoldsBlock(u) => task[u].made # task[t].made
        /\ task[t].pc \in {"committed", "stored"} => OnChain(task[t].made)

ChainAnchored ==
    /\ LinesAnchored
    /\ BuildsAnchored
    /\ Announced \subseteq DOMAIN blocks
    /\ OnlyHeadsAnnounced

-----------------------------------------------------------------------------
(* Statements of the code's documentation that the code does not keep. *)

(***************************************************************************)
(* A prototype is put back only if the head has not moved, because "a      *)
(* prototype compiled from old :code would cause stale execution": every   *)
(* block is executed by the runtime its parent's state carries.            *)
(***************************************************************************)
BuiltByParentsRuntime ==
    \A n \in ChainNumbers : RunByItsRuntime(n)

Quiet == \A t \in Tasks : task[t].pc \in {"idle", "warm"}

(***************************************************************************)
(* "The Mutex/OnceCell guards ensure no races" between warmup and          *)
(* building: the slot durations cached are the head runtime's.             *)
(***************************************************************************)
NoStaleSlotDuration ==
    Quiet => /\ slotDuration \in {blocks[head].code, NULL}
             /\ providerSlot \in {blocks[head].code, NULL}
=============================================================================
