---------------------------- MODULE ChainQueries ----------------------------
(***************************************************************************)
(* The queries and subscriptions that a fork answers: the legacy chain_*,  *)
(* state_*, system_* and payment_* methods and archive_v1_* and            *)
(* chainSpec_v1_*, over the lookups of blockchain.rs.  A block that the    *)
(* fork does not have is looked for on the live chain, through the shared  *)
(* client of Upstream.                                                     *)
(*                                                                         *)
(* The live chain and the fork share the blocks up to the fork point; the  *)
(* live chain has gone on to LiveHead, so it has blocks of its own with    *)
(* the numbers of fork blocks.  One storage key stands for all of them: in *)
(* the fork its value names the block that wrote it last, and every live   *)
(* block writes it.  The layered reads themselves are LocalStorage's.      *)
(***************************************************************************)
EXTENDS Upstream, Sequences, FiniteSetsExt

CONSTANTS
    Fork,       \* fork_point_number
    MaxHead,    \* bound: number of the last block built
    LiveHead,   \* the head of the live chain
    Capacity,   \* EVENT_CHANNEL_CAPACITY
    Methods,    \* the requests each task may make
    Asked       \* the numbers, of live blocks and of fork blocks, that requests may name

ASSUME ChainAssumption ==
    /\ Fork \in Nat /\ MaxHead \in Nat /\ LiveHead \in Nat
    /\ Fork <= MaxHead /\ Fork <= LiveHead
    /\ Capacity \in Nat \ {0}
    /\ Asked \subseteq Nat

VARIABLES
    head,       \* number of the head
    wrote,      \* the fork blocks that wrote the key
    building,   \* where build_block is
    channel,    \* every event sent so far
    genesis,    \* genesis_hash_cache
    properties, \* chain_properties_cache
    request     \* the request of each task

forkVars == <<head, wrote, building, channel>>
cacheVars == <<genesis, properties>>
vars == <<upstreamVars, forkVars, cacheVars, request>>

(***************************************************************************)
(* Blocks and their state                                                  *)
(***************************************************************************)
Live(n) == [chain |-> "live", number |-> n]
Forked(n) == [chain |-> "fork", number |-> n]

\* The block of the fork's own chain with number n.
On(n) == IF n <= Fork THEN Live(n) ELSE Forked(n)

\* The head and its ancestors down to the fork point: what a walk along `parent` finds.
LocalBlocks == {On(n) : n \in Fork..head}

OnLiveChain(b) == b.chain = "live" /\ b.number <= LiveHead

None == [chain |-> "none", number |-> 0]

\* External: what the key holds in the state of fork block n, by LocalStorage.
Written(n) ==
    LET writers == {m \in wrote : m <= n}
    IN IF writers = {} THEN Live(Fork) ELSE Forked(Max(writers))

StateOf(b) == IF b.chain = "fork" THEN Written(b.number) ELSE b

\* LocalStorageLayer::get at a block number: local above the fork point up to the block
\* being built, and whatever the live chain has with that number elsewhere.
LayerAt(n) ==
    IF n \in Fork + 1..head + 1 THEN Written(n)
    ELSE IF n <= LiveHead THEN Live(n) ELSE None

Parent(b) == IF b = Forked(Fork + 1) THEN Live(Fork) ELSE [b EXCEPT !.number = @ - 1]

(***************************************************************************)
(* Requests.  `at` is the block asked for (None for the latest), `block`   *)
(* and `number` what it was resolved to, `value` the answer, `low` the     *)
(* head when the request began.  A subscription also has a position in the *)
(* event channel (0 before it subscribes) and the number of the last event *)
(* it has dealt with.                                                      *)
(***************************************************************************)
Subscriptions == {"newHeads", "watchStorage", "watchVersion"}

Method == {"getBlockHash", "getHeader", "getBlock", "getStorage", "accountNextIndex",
           "queryStorageAt", "getKeysPaged", "getRuntimeVersion", "getMetadata", "stateCall",
           "runtimeCall", "descendants", "storageDiff", "genesisHash", "properties"} \union Subscriptions

Lost == [chain |-> "lost", number |-> 0]  \* an error passed on as no value

Idle == [method |-> "none", at |-> None, pc |-> "idle", block |-> None, number |-> 0,
         value |-> None, other |-> None, low |-> 0, position |-> 0, handled |-> 0]

Stage == {"number", "hash", "header", "body", "read", "readAt", "keys", "proxy", "call",
          "find", "parent", "parentNumber", "readParent", "genesis"}

Init ==
    /\ InitUpstream
    /\ head = Fork
    /\ wrote = {}
    /\ building = "idle"
    /\ channel = <<>>
    /\ genesis = None
    /\ properties = "unset"
    /\ request = [t \in Tasks |-> Idle]

(***************************************************************************)
(* The lock of the head.  A storage read keeps it until it is answered,    *)
(* reconnects included; so do the search for a block to call and a prefix  *)
(* listing; a page of keys gives it up before it reconnects, and takes it  *)
(* again.  A waiting builder holds new readers back.                       *)
(***************************************************************************)
RetriesKeys(t) ==
    request[t].pc = "readAt" /\ request[t].method = "getKeysPaged" /\ call[t].left < WithRetry

HoldsHead(t) ==
    /\ call[t].pc # "idle"
    /\ \/ request[t].pc \in {"read", "readParent", "find"}
       \/ request[t].pc = "readAt" /\ request[t].method = "descendants"
       \/ /\ request[t].pc = "readAt" /\ request[t].method = "getKeysPaged"
          /\ call[t].pc \in {"sent", "answered"} \union (IF RetriesKeys(t) THEN {} ELSE {"ready"})

ReadHead == building # "waiting"

\* What the request of t becomes; nothing else changes but, possibly, the client's side.
Becomes(t, r) == request' = [request EXCEPT ![t] = r]

Finish(t, r) ==
    Becomes(t, [r EXCEPT !.pc = IF r.method \in Subscriptions
                                THEN IF r.position = 0 THEN "subscribe" ELSE "listen"
                                ELSE "done"])

FinishWith(t, v) == Finish(t, [request[t] EXCEPT !.value = v])

(***************************************************************************)
(* The RPC methods.  Without a block (where a method allows that) a        *)
(* request is about the head, read once; a block that is named has to be   *)
(* resolved first.                                                         *)
(***************************************************************************)
Begin(t, m, at, stage) ==
    /\ request[t].pc = "idle"
    /\ m \in Methods[t]
    /\ at = None => ReadHead
    /\ LET target == IF at = None THEN On(head) ELSE at IN
       Becomes(t, [Idle EXCEPT !.method = m, !.at = at, !.low = head, !.block = target,
                               !.number = target.number, !.pc = stage])
    /\ UNCHANGED <<upstreamVars, forkVars, cacheVars>>

Given(at, resolved, unresolved) == IF at = None THEN resolved ELSE unresolved

GetBlockHash(t, at) == Begin(t, "getBlockHash", at, "hash")

ArchiveHashByHeight(t, at) == at # None /\ GetBlockHash(t, at)

GetHeader(t, at) == Begin(t, "getHeader", at, "header")

ArchiveHeader(t, at) == at # None /\ GetHeader(t, at)

\* The header and then the body; the archive's method needs the body only.
GetBlock(t, at) == Begin(t, "getBlock", at, "header")

ArchiveBody(t, at) == at # None /\ Begin(t, "getBlock", at, "body")

GetStorage(t, at) == Begin(t, "getStorage", at, Given(at, "read", "number"))

AccountNextIndex(t) == Begin(t, "accountNextIndex", None, "read")

QueryStorageAt(t, at) ==
    Begin(t, "queryStorageAt", at, Given(at, IF head <= Fork THEN "readAt" ELSE "read", "number"))

GetKeysPaged(t, at) == Begin(t, "getKeysPaged", at, "number")

GetRuntimeVersion(t, at) ==
    Begin(t, "getRuntimeVersion", at, Given(at, IF head <= Fork THEN "proxy" ELSE "call", "number"))

GetMetadata(t, at) == Begin(t, "getMetadata", at, "call")

\* state_call; a metadata method takes the way of GetRuntimeVersion instead.
StateCall(t, at) == Begin(t, "stateCall", at, Given(at, "call", "number"))

RuntimeCall(t, at) == Begin(t, "runtimeCall", at, "call")

PaymentQueryInfo(t, at) == RuntimeCall(t, at)

PaymentQueryFeeDetails(t, at) == RuntimeCall(t, at)

ArchiveCall(t, at) == at # None /\ RuntimeCall(t, at)

\* Single keys, or all keys under a prefix.
ArchiveStorage(t, at) ==
    at # None /\ (GetStorage(t, at) \/ Begin(t, "descendants", at, "number"))

ArchiveStorageDiff(t, at) == at # None /\ at.number > 0 /\ Begin(t, "storageDiff", at, "number")

AskGenesisHash(t) == Begin(t, "genesisHash", None, "genesis")

AskProperties(t) == Begin(t, "properties", None, "properties")

SubscribeNewHeads(t) == Begin(t, "newHeads", None, "header")

SubscribeStorage(t) == Begin(t, "watchStorage", None, "read")

SubscribeRuntimeVersion(t) ==
    Begin(t, "watchVersion", None, IF head <= Fork THEN "proxy" ELSE "call")

(***************************************************************************)
(* Stages.  Each asks the fork first.  Resolved(t) is what a request goes  *)
(* on with once the block it named is known to exist.                      *)
(***************************************************************************)
AfterNumber(r) ==
    CASE r.method = "queryStorageAt" -> IF r.number <= Fork THEN "readAt" ELSE "read"
      [] r.method \in {"getKeysPaged", "descendants"} -> IF r.number <= Fork THEN "readAt" ELSE "keys"
      [] r.method \in {"getRuntimeVersion", "watchVersion"} ->
            IF r.number <= Fork THEN "proxy" ELSE "call"
      [] r.method = "stateCall" -> "call"
      [] r.method = "storageDiff" -> "parent"
      [] OTHER -> "read"

Resolved(t) ==
    LET r == request[t] IN
    CASE r.pc = "number" ->
            Becomes(t, [r EXCEPT !.number = r.block.number,
                                 !.pc = AfterNumber([r EXCEPT !.number = r.block.number])])
      [] r.pc = "header" /\ r.method = "getBlock" -> Becomes(t, [r EXCEPT !.pc = "body"])
      [] r.pc = "body" \/ (r.pc = "header" /\ r.method # "getBlock") -> FinishWith(t, r.block)
      [] r.pc = "parent" ->
            Becomes(t, [r EXCEPT !.block = Parent(r.block), !.pc = "parentNumber"])
      [] r.pc = "parentNumber" -> Becomes(t, [r EXCEPT !.pc = "read"])

Lookups == {"number", "header", "body", "parent", "parentNumber"}

\* A hash is looked up along the parents of the head.
FindLocally(t) ==
    /\ request[t].pc \in Lookups
    /\ call[t].pc = "idle"
    /\ ReadHead
    /\ request[t].block \in LocalBlocks
    /\ Resolved(t)
    /\ UNCHANGED <<upstreamVars, forkVars, cacheVars>>

\* The blocks table of the cache has rows of the live chain's blocks only, each kept with
\* an earlier answer, of this fork or of another with the same file: any may be there.
CachedBlocks == {Live(n) : n \in 0..LiveHead}

FindCached(t) ==
    /\ request[t].pc \in {"number", "parent", "parentNumber"}
    /\ call[t].pc = "idle"
    /\ ReadHead
    /\ request[t].block \in CachedBlocks \ LocalBlocks
    /\ Resolved(t)
    /\ UNCHANGED <<upstreamVars, forkVars, cacheVars>>

FindUpstream(t) ==
    /\ request[t].pc \in Lookups
    /\ ReadHead
    /\ request[t].block \notin LocalBlocks
    /\ Ask(t, FALSE, WithRetry)
    /\ UNCHANGED <<forkVars, cacheVars, request>>

\* block_hash_at: nothing above the head, the fork's block down to the fork point.
HashAt(t) ==
    /\ request[t].pc = "hash"
    /\ ReadHead
    /\ call[t].pc = "idle"
    /\ LET n == request[t].number IN
       \/ /\ n > head
          /\ FinishWith(t, None)
          /\ UNCHANGED upstreamVars
       \/ /\ n \in Fork..head
          /\ FinishWith(t, On(n))
          /\ UNCHANGED upstreamVars
       \/ /\ n < Fork
          /\ Ask(t, FALSE, WithRetry)
          /\ UNCHANGED request
    /\ UNCHANGED <<forkVars, cacheVars>>

\* Deliberate fault: the read goes to the head, whatever block was asked for.
ReadTheHead(t) ==
    /\ request[t].pc \in {"read", "readParent"}
    /\ call[t].pc = "idle"
    /\ ReadHead
    /\ LET r == request[t]
           v == LayerAt(head)
       IN \/ /\ IF r.method = "storageDiff" /\ r.pc = "read"
                THEN Becomes(t, [r EXCEPT !.value = v, !.pc = "readParent"])
                ELSE IF r.pc = "readParent" THEN Finish(t, [r EXCEPT !.other = v])
                ELSE Finish(t, [r EXCEPT !.value = v])
             /\ UNCHANGED upstreamVars
          \/ /\ v.chain = "live"
             /\ Ask(t, FALSE, Nested)
             /\ UNCHANGED request
    /\ UNCHANGED <<forkVars, cacheVars>>

\* The number that is read: a watcher reads the head of the moment.
Target(t) ==
    CASE request[t].method = "watchStorage" -> head
      [] request[t].pc = "readParent" -> request[t].block.number
      [] OTHER -> request[t].number

Read(t, v) ==
    LET r == request[t] IN
    CASE r.method = "storageDiff" /\ r.pc = "read" ->
            Becomes(t, [r EXCEPT !.value = v, !.pc = "readParent"])
      [] r.pc = "readParent" -> Finish(t, [r EXCEPT !.other = v])
      [] OTHER -> FinishWith(t, v)

\* get_storage_value: a local or cached value at once, a value of the live chain through
\* the client, with the lock of the head held meanwhile.
ReadStorage(t) ==
    /\ request[t].pc \in {"read", "readParent"}
    /\ call[t].pc = "idle"
    /\ ReadHead
    /\ \/ /\ Read(t, LayerAt(Target(t)))
          /\ UNCHANGED upstreamVars
       \/ /\ LayerAt(Target(t)).chain # "fork"
          /\ Ask(t, FALSE, Nested)
          /\ UNCHANGED request
    /\ UNCHANGED <<forkVars, cacheVars>>

\* keys_by_prefix of the layer, for a block above the fork point.
ListKeys(t) ==
    /\ request[t].pc = "keys"
    /\ ReadHead
    /\ IF request[t].method = "descendants"
       THEN Becomes(t, [request[t] EXCEPT !.pc = "read"])
       ELSE FinishWith(t, Written(request[t].number))
    /\ UNCHANGED <<upstreamVars, forkVars, cacheVars>>

\* storage_batch, or a page of keys, of the live chain at the hash itself.
ReadAtHash(t) ==
    /\ request[t].pc = "readAt"
    /\ call[t].pc = "idle"
    /\ \/ /\ request[t].method \in {"getKeysPaged", "descendants"}
          /\ ReadHead
          /\ Ask(t, TRUE, WithRetry)
          /\ UNCHANGED request
       \/ /\ request[t].method = "queryStorageAt"
          /\ Ask(t, TRUE, Nested)
          /\ UNCHANGED request
       \/ /\ request[t].method = "queryStorageAt"  \* every key is cached
          /\ FinishWith(t, request[t].block)
          /\ UNCHANGED upstreamVars
    /\ UNCHANGED <<forkVars, cacheVars>>

\* proxy_state_call: the live chain runs the call; if it cannot, the fork does.
ProxyCall(t) ==
    /\ request[t].pc = "proxy"
    /\ Ask(t, FALSE, WithRetry)
    /\ UNCHANGED <<forkVars, cacheVars, request>>

\* What a call of t works on.  The code is read by the number of the block; the call then
\* reads at the number its storage layer stands at, where the one map that all layers
\* share answers with the writes of the latest block.
CodeOnly == {"getRuntimeVersion", "getMetadata", "watchVersion"}

CallSees(t) ==
    IF request[t].method \in CodeOnly THEN LayerAt(request[t].block.number) ELSE Written(head)

\* call_at_block: on the head, an ancestor, or a stand-in for a block of the live chain.
CallAtBlock(t) ==
    /\ request[t].pc = "call"
    /\ ReadHead
    /\ IF request[t].block \in LocalBlocks
       THEN FinishWith(t, CallSees(t))
       ELSE Becomes(t, [request[t] EXCEPT !.pc = "find"])
    /\ UNCHANGED <<upstreamVars, forkVars, cacheVars>>

FindForCall(t) ==
    /\ request[t].pc = "find"
    /\ ReadHead
    /\ Ask(t, FALSE, Once)
    /\ UNCHANGED <<forkVars, cacheVars, request>>

(***************************************************************************)
(* The answer of the live chain.                                           *)
(***************************************************************************)
NotFound(t) ==
    IF request[t].method = "getKeysPaged" /\ request[t].pc = "number"
    THEN Becomes(t, [request[t] EXCEPT !.pc = "readAt"])
    ELSE FinishWith(t, None)

Found(t) ==
    LET r == request[t] IN
    CASE r.pc \in Lookups -> Resolved(t)
      [] r.pc = "hash" -> FinishWith(t, Live(r.number))
      [] r.pc = "genesis" -> FinishWith(t, Live(0))
      [] r.pc \in {"read", "readParent"} -> Read(t, LayerAt(Target(t)))
      [] r.pc = "readAt" /\ r.method = "descendants" -> Becomes(t, [r EXCEPT !.pc = "read"])
      [] r.pc = "proxy" \/ (r.pc = "readAt" /\ r.method # "descendants") -> FinishWith(t, r.block)
      [] r.pc = "find" -> FinishWith(t, CallSees(t))

\* Errors that become an answer: a key that could not be read is reported as absent, an
\* account as one that does not exist.
ErrorAsAnswer == {"queryStorageAt", "accountNextIndex", "descendants", "watchStorage"}

Failed(t) ==
    LET r == request[t] IN
    CASE r.pc = "proxy" -> Becomes(t, [r EXCEPT !.pc = "call"])
      [] r.pc = "read" /\ r.method \in ErrorAsAnswer -> FinishWith(t, Lost)
      [] \/ r.pc # "proxy" /\ r.method = "watchVersion"
         \/ r.pc = "readAt" /\ r.method = "descendants" -> FinishWith(t, Lost)
      [] OTHER -> Becomes(t, [r EXCEPT !.pc = "error"])

\* Does the live chain have what the request asks it for?
Exists(t) ==
    LET r == request[t] IN
    CASE r.pc \in {"hash", "genesis"} -> TRUE
      [] r.pc \in {"read", "readParent"} -> LayerAt(Target(t)) # None
      [] OTHER -> OnLiveChain(r.block)

Receive(t) ==
    /\ \/ call[t].pc = "answered" /\ IF Exists(t) THEN Found(t) ELSE NotFound(t)
       \/ call[t].pc = "failed" /\ Failed(t)
    /\ call' = [call EXCEPT ![t] = NoCall]
    /\ genesis' = IF request[t].pc = "genesis" /\ call[t].pc = "answered"
                  THEN Live(0) ELSE genesis
    /\ UNCHANGED <<alive, breaks, made, forkVars, properties>>

(***************************************************************************)
(* Values fetched once.  The genesis hash is asked for by one task at a    *)
(* time, and again if that failed; the properties are fetched over a       *)
(* connection of their own, and a failure is kept as their absence.        *)
(***************************************************************************)
GenesisHash(t) ==
    /\ request[t].pc = "genesis"
    /\ call[t].pc = "idle"
    /\ IF genesis # None
       THEN FinishWith(t, genesis) /\ UNCHANGED <<upstreamVars, genesis>>
       ELSE /\ ReadHead
            /\ ~ \E u \in Tasks : request[u].pc = "genesis" /\ call[u].pc # "idle"
            /\ IF Fork = 0
               THEN FinishWith(t, Live(0)) /\ genesis' = Live(0) /\ UNCHANGED upstreamVars
               ELSE Ask(t, FALSE, WithRetry) /\ UNCHANGED <<request, genesis>>
    /\ UNCHANGED <<forkVars, properties>>

ChainProperties(t) ==
    /\ request[t].pc = "properties"
    /\ properties' \in IF properties = "unset" THEN {"known", "absent"} ELSE {properties}
    /\ FinishWith(t, None)
    /\ UNCHANGED <<upstreamVars, forkVars, genesis>>

(***************************************************************************)
(* Subscriptions: the current head, value or version is sent first, and    *)
(* then the task subscribes and listens.                                   *)
(***************************************************************************)

\* Deliberate fault: the channel replays the last event to a new subscriber.
SubscribeReplaying(t) ==
    /\ request[t].pc = "subscribe"
    /\ Becomes(t, [request[t] EXCEPT !.position = IF channel = <<>> THEN 1 ELSE Len(channel),
                                     !.pc = "listen"])
    /\ UNCHANGED <<upstreamVars, forkVars, cacheVars>>

Subscribe(t) ==
    /\ request[t].pc = "subscribe"
    /\ Becomes(t, [request[t] EXCEPT !.position = Len(channel) + 1, !.pc = "listen"])
    /\ UNCHANGED <<upstreamVars, forkVars, cacheVars>>

Lagged(t) == Len(channel) - request[t].position >= Capacity

\* A new block: heads are passed on; the value or version is fetched again when the event
\* lists its key as modified.
NextEvent(t) ==
    /\ request[t].pc = "listen"
    /\ request[t].position <= Len(channel)
    /\ ~Lagged(t)
    /\ LET r == request[t]
           e == channel[r.position]
           next == [r EXCEPT !.position = @ + 1, !.handled = e.number, !.block = On(e.number)]
       IN Becomes(t, CASE r.method = "newHeads" -> [next EXCEPT !.value = On(e.number)]
                       [] r.method = "watchStorage" /\ e.modified -> [next EXCEPT !.pc = "read"]
                       [] r.method = "watchVersion" /\ e.modified -> [next EXCEPT !.pc = "call"]
                       [] OTHER -> next)
    /\ UNCHANGED <<upstreamVars, forkVars, cacheVars>>

SkipLagged(t) ==
    /\ request[t].pc = "listen"
    /\ Lagged(t)
    /\ Becomes(t, [request[t] EXCEPT !.position = Len(channel) - Capacity + 1])
    /\ UNCHANGED <<upstreamVars, forkVars, cacheVars>>

\* The client disconnects, or the server shuts down.
Close(t) ==
    /\ request[t].pc = "listen"
    /\ Becomes(t, [request[t] EXCEPT !.pc = "closed"])
    /\ UNCHANGED <<upstreamVars, forkVars, cacheVars>>

(***************************************************************************)
(* Block production, as far as queries see it: the builder waits for the   *)
(* lock of the head, moves the head, and sends the event once the lock is  *)
(* free again.  A block's writes appear with it.                           *)
(***************************************************************************)
PrepareBlock ==
    /\ building = "idle"
    /\ head < MaxHead
    /\ building' = "waiting"
    /\ UNCHANGED <<upstreamVars, head, wrote, channel, cacheVars, request>>

AcceptBlock ==
    /\ building = "waiting"
    /\ ~ \E t \in Tasks : HoldsHead(t)
    /\ head' = head + 1
    /\ wrote' \in {wrote, wrote \union {head + 1}}
    /\ building' = "accepted"
    /\ UNCHANGED <<upstreamVars, channel, cacheVars, request>>

\* Deliberate fault: the event lists the keys of its own block only.
EmitOwnKeys ==
    /\ building = "accepted"
    /\ channel' = Append(channel, [number |-> head, modified |-> head \in wrote])
    /\ building' = "idle"
    /\ UNCHANGED <<upstreamVars, head, wrote, cacheVars, request>>

\* The modified keys of the event are the keys of the shared map: all written since the
\* fork.
EmitNewBlock ==
    /\ building = "accepted"
    /\ channel' = Append(channel, [number |-> head, modified |-> wrote # {}])
    /\ building' = "idle"
    /\ UNCHANGED <<upstreamVars, head, wrote, cacheVars, request>>

-----------------------------------------------------------------------------

\* The blocks a request may name, of both chains, existing and not.
Named ==
    {None} \union {Live(n) : n \in Asked} \union {Forked(n) : n \in Asked \ 0..Fork}

\* What a request does once it has begun.
Serve(t) ==
    \/ FindLocally(t)
    \/ FindCached(t)
    \/ FindUpstream(t)
    \/ HashAt(t)
    \/ ReadStorage(t)
    \/ ListKeys(t)
    \/ ReadAtHash(t)
    \/ ProxyCall(t)
    \/ CallAtBlock(t)
    \/ FindForCall(t)
    \/ Receive(t)
    \/ GenesisHash(t)
    \/ ChainProperties(t)
    \/ Subscribe(t)
    \/ NextEvent(t)
    \/ SkipLagged(t)

Client(t) ==
    /\ call[t].pc = "ready" /\ RetriesKeys(t) => ReadHead
    /\ UpstreamStep(t)
    /\ UNCHANGED <<forkVars, cacheVars, request>>

Request(t) ==
    \/ \E at \in Named :
          \/ GetBlockHash(t, at)
          \/ ArchiveHashByHeight(t, at)
          \/ GetHeader(t, at)
          \/ ArchiveHeader(t, at)
          \/ GetBlock(t, at)
          \/ ArchiveBody(t, at)
          \/ GetStorage(t, at)
          \/ QueryStorageAt(t, at)
          \/ GetKeysPaged(t, at)
          \/ GetRuntimeVersion(t, at)
          \/ GetMetadata(t, at)
          \/ StateCall(t, at)
          \/ PaymentQueryInfo(t, at)
          \/ PaymentQueryFeeDetails(t, at)
          \/ ArchiveCall(t, at)
          \/ ArchiveStorage(t, at)
          \/ ArchiveStorageDiff(t, at)
    \/ AccountNextIndex(t)
    \/ AskGenesisHash(t)
    \/ AskProperties(t)
    \/ SubscribeNewHeads(t)
    \/ SubscribeStorage(t)
    \/ SubscribeRuntimeVersion(t)

Next ==
    \/ \E t \in Tasks :
          \/ Request(t)
          \/ Serve(t)
          \/ Client(t)
          \/ Close(t)
    \/ Break /\ UNCHANGED <<forkVars, cacheVars, request>>
    \/ PrepareBlock
    \/ AcceptBlock
    \/ EmitNewBlock

Spec == Init /\ [][Next]_vars

\* Tasks are scheduled fairly, requests are answered or fail, and a build that has begun
\* goes on.  Nothing makes a client ask, a connection break or a block be built.
Fairness ==
    /\ \A t \in Tasks : WF_vars(Serve(t)) /\ WF_vars(Client(t))
    /\ WF_vars(AcceptBlock)
    /\ WF_vars(EmitNewBlock)

FairSpec == Spec /\ Fairness

(***************************************************************************)
(* Properties                                                              *)
(***************************************************************************)

\* The type of the state.
TypeOK ==
    LET Block == {None, Lost} \union {Live(n) : n \in 0..LiveHead + MaxHead}
                              \union {Forked(n) : n \in Fork + 1..LiveHead + MaxHead} IN
    /\ UpstreamTypeOK
    /\ head \in Fork..MaxHead
    /\ wrote \subseteq Fork + 1..head
    /\ building \in {"idle", "waiting", "accepted"}
    /\ \A i \in 1..Len(channel) : channel[i].number = Fork + i
    /\ genesis \in {None, Live(0)}
    /\ properties \in {"unset", "known", "absent"}
    /\ \A t \in Tasks :
          /\ request[t].method \in Method \union {"none"}
          /\ request[t].pc \in Stage \union {"idle", "properties", "subscribe", "listen",
                                              "done", "error", "closed"}
          /\ {request[t].at, request[t].block, request[t].value, request[t].other} \subseteq Block

\* A block the fork's chain has, or had when the live chain left it.
OfTheFork(b) == b \in {On(n) : n \in 0..head}

\* The states that a request without a block may answer from: those the head had while
\* the request was served.
Recent(r) == {Written(n) : n \in r.low..head}

Answered(v, b) == v = StateOf(b) \/ v = Lost

StateQueries == {"getStorage", "accountNextIndex", "queryStorageAt", "getKeysPaged",
                 "descendants", "storageDiff", "getRuntimeVersion", "getMetadata"}

\* An answer is about the block that was asked for, however the head moved between the
\* resolution of the hash and the read and whether it came from the fork, the cache or
\* the live chain; without a block it is about a head of the time of the request.
\* Runtime calls that read state are left out: see HistoricalCalls.
AnswersAskedBlock ==
    \A t \in Tasks :
        LET r == request[t] IN
        r.pc = "done" =>
            /\ r.method = "genesisHash" => r.value = On(0)
            /\ r.method = "getBlockHash" =>
                  \/ r.value = On(r.number)
                  \/ r.value = None /\ r.number > r.low
            /\ r.method \in {"getHeader", "getBlock"} =>
                  \/ r.value = r.at /\ r.at # None
                  \/ r.at = None /\ r.value \in {On(n) : n \in r.low..head}
                  \/ /\ r.value = None /\ ~OnLiveChain(r.at)
                     /\ r.at.chain = "fork" => r.low < r.at.number
            /\ r.method \in StateQueries =>
                  IF r.at = None THEN r.value \in Recent(r) \union {Lost}
                  ELSE OfTheFork(r.at) /\ r.value # None =>
                          /\ Answered(r.value, r.at)
                          /\ r.method = "storageDiff" => Answered(r.other, Parent(r.at))

\* Blocks that a storage or version watcher missed, because they came before it
\* subscribed or because it lagged, do not leave it with an old value: once it has dealt
\* with an event its value is one that some later or the same block has.
WatchedValueCurrent ==
    \A t \in Tasks :
        LET r == request[t] IN
        r.pc = "listen" /\ r.method \in {"watchStorage", "watchVersion"} /\ r.value # Lost =>
            r.value \in {Written(n) : n \in (IF r.handled = 0 THEN r.low ELSE r.handled)..head}

\* A subscriber to heads is never sent a head with a lower number than before.
HeadsInOrder ==
    [][\A t \in Tasks :
         request[t].method = "newHeads" /\ request[t].pc = "listen" =>
            request'[t].value.number >= request[t].value.number]_vars

\* Whatever breaks and whoever waits for whom - requests for the connection, tasks for
\* permits, builders for readers and readers for builders - every request is answered or
\* refused, and every block that is built becomes the head.
RequestsAnswered ==
    /\ \A t \in Tasks : request[t].pc # "idle" ~> request[t].pc \in {"done", "error", "listen", "closed"}
    /\ building = "waiting" ~> building = "accepted"

-----------------------------------------------------------------------------
(* Statements of the code's documentation that the code does not keep. *)

\* A runtime call at a block of the fork sees the state of that block (blockchain.rs,
\* call_at_block: "Call succeeded at the specified block").
HistoricalCalls ==
    \A t \in Tasks :
        LET r == request[t] IN
        r.pc = "done" /\ r.method \in {"stateCall", "runtimeCall"} /\ r.at # None
            /\ OfTheFork(r.at) /\ r.value # None =>
                r.value = StateOf(r.at)
=============================================================================
