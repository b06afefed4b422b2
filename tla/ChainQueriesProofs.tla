------------------------- MODULE ChainQueriesProofs -------------------------
(***************************************************************************)
(* Proofs about the queries of a fork and the connection they share, for   *)
(* any number of tasks, permits, breaks and blocks.                        *)
(***************************************************************************)
EXTENDS ChainQueries, TLAPS

(***************************************************************************)
(* The connection.  made <= breaks is not inductive: that a connection is  *)
(* replaced only after a break of its own needs that a task past the       *)
(* liveness check knows it to be broken, which holds because the lock      *)
(* keeps every other task from repairing it meanwhile.                     *)
(***************************************************************************)
OneReconnects ==
    \A t, u \in Tasks : call[t].pc \in Reconnecting /\ call[u].pc \in Reconnecting => t = u

BrokenWhileReplaced ==
    \A t \in Tasks : call[t].pc \in {"connecting", "replacing"} => ~alive

BreaksAnswered == (alive => made <= breaks) /\ (~alive => made < breaks)

ConnectionInv == UpstreamTypeOK /\ OneReconnects /\ BrokenWhileReplaced /\ BreaksAnswered

LEMMA ConnectionInit == InitUpstream => ConnectionInv
  BY DEF InitUpstream, ConnectionInv, UpstreamTypeOK, OneReconnects, BrokenWhileReplaced,
         BreaksAnswered, NoCall, Call, Pc, Reconnecting, Nested

(***************************************************************************)
(* A step that moves one task to a place outside the reconnecting ones and *)
(* leaves the connection alone.                                            *)
(***************************************************************************)
LEMMA ConnectionLeft ==
  ASSUME ConnectionInv, NEW t \in Tasks, NEW c \in Call, c.pc \notin Reconnecting,
         call' = [call EXCEPT ![t] = c], UNCHANGED <<alive, breaks, made>>
  PROVE  ConnectionInv'
  <1>1. UpstreamTypeOK'
    BY DEF ConnectionInv, UpstreamTypeOK
  <1>2. \A u \in Tasks : call'[u] = IF u = t THEN c ELSE call[u]
    BY DEF ConnectionInv, UpstreamTypeOK
  <1>3. OneReconnects' /\ BrokenWhileReplaced' /\ BreaksAnswered'
    BY <1>2 DEF ConnectionInv, OneReconnects, BrokenWhileReplaced, BreaksAnswered, Reconnecting
  <1> QED
    BY <1>1, <1>3 DEF ConnectionInv

LEMMA AskConnection ==
  ASSUME ConnectionInv, NEW t \in Tasks, NEW b \in BOOLEAN, NEW n \in 0..Nested, Ask(t, b, n)
  PROVE  ConnectionInv'
  <1>1. [pc |-> "ready", batched |-> b, left |-> n] \in Call
    BY DEF Call, Pc
  <1> QED
    BY <1>1, ConnectionLeft DEF Ask, Reconnecting

(***************************************************************************)
(* The steps of the client itself.                                         *)
(***************************************************************************)
LEMMA GotoTyped ==
  ASSUME ConnectionInv, NEW t \in Tasks, NEW pc \in Pc, Goto(t, pc)
  PROVE  /\ call' \in [Tasks -> Call]
         /\ call'[t].pc = pc
         /\ \A u \in Tasks \ {t} : call'[u] = call[u]
         /\ \E c \in Call : c.pc = pc /\ call' = [call EXCEPT ![t] = c]
  <1>1. call \in [Tasks -> Call] /\ call[t] \in Call
    BY DEF ConnectionInv, UpstreamTypeOK
  <1>2. [call[t] EXCEPT !.pc = pc] \in Call
    BY <1>1 DEF Call
  <1>3. call' = [call EXCEPT ![t] = [call[t] EXCEPT !.pc = pc]]
    BY <1>1 DEF Goto
  <1>4. [call[t] EXCEPT !.pc = pc].pc = pc
    BY <1>1 DEF Call
  <1> QED
    BY <1>1, <1>2, <1>3, <1>4

LEMMA GotoConnection ==
  ASSUME ConnectionInv, NEW t \in Tasks, NEW pc \in Pc \ Reconnecting, Goto(t, pc),
         UNCHANGED <<alive, breaks, made>>
  PROVE  ConnectionInv'
  BY GotoTyped, ConnectionLeft

LEMMA FailConnection ==
  ASSUME ConnectionInv, NEW t \in Tasks, Fail(t), UNCHANGED <<alive, breaks, made>>
  PROVE  ConnectionInv'
  <1> DEFINE left == call[t].left
             pc == IF left = 0 THEN "failed" ELSE "locking"
             rest == IF left = 0 THEN 0 ELSE left - 1
             c == [call[t] EXCEPT !.pc = pc, !.left = rest]
  <1>1. call[t] \in Call /\ call \in [Tasks -> Call]
    BY DEF ConnectionInv, UpstreamTypeOK
  <1>2. rest \in 0..Nested
    BY <1>1 DEF Call, Nested
  <1>3. c \in Call /\ c.pc \notin Reconnecting
    BY <1>1, <1>2 DEF Call, Pc, Reconnecting
  <1>4. call' = [call EXCEPT ![t] = c]
    BY <1>1 DEF Fail
  <1> QED
    BY <1>3, <1>4, ConnectionLeft

LEMMA ReconnectConnection ==
  ASSUME ConnectionInv, NEW t \in Tasks,
         LockReconnect(t) \/ CheckLiveness(t) \/ CreateConnection(t) \/ ReplaceConnection(t)
  PROVE  ConnectionInv'
  <1> USE DEF Reconnecting, Pc
  <1>1. CASE LockReconnect(t)
    <2>1. /\ call'[t].pc = "checking" /\ call' \in [Tasks -> Call]
          /\ \A u \in Tasks \ {t} : call'[u] = call[u]
          /\ \A u \in Tasks : call[u].pc \notin Reconnecting
      BY <1>1, GotoTyped DEF LockReconnect
    <2> QED
      BY <1>1, <2>1 DEF LockReconnect, ConnectionInv, UpstreamTypeOK, OneReconnects,
                        BrokenWhileReplaced, BreaksAnswered
  <1>2. CASE CheckLiveness(t)
    <2>1. CASE alive
      BY <1>2, <2>1, GotoConnection DEF CheckLiveness
    <2>2. CASE ~alive
      <3>1. /\ call'[t].pc = "connecting" /\ call' \in [Tasks -> Call]
            /\ \A u \in Tasks \ {t} : call'[u] = call[u]
        BY <1>2, <2>2, GotoTyped DEF CheckLiveness
      <3> QED
        BY <1>2, <2>2, <3>1 DEF CheckLiveness, ConnectionInv, UpstreamTypeOK, OneReconnects,
                                BrokenWhileReplaced, BreaksAnswered
    <2> QED
      BY <2>1, <2>2
  <1>3. CASE CreateConnection(t)
    <2>1. CASE Goto(t, "replacing")
      <3>1. /\ call'[t].pc = "replacing" /\ call' \in [Tasks -> Call]
            /\ \A u \in Tasks \ {t} : call'[u] = call[u]
        BY <2>1, GotoTyped
      <3> QED
        BY <1>3, <3>1 DEF CreateConnection, ConnectionInv, UpstreamTypeOK, OneReconnects,
                          BrokenWhileReplaced, BreaksAnswered
    <2>2. CASE Fail(t)
      BY <1>3, <2>2, FailConnection DEF CreateConnection
    <2>3. CASE Goto(t, "failed")
      BY <1>3, <2>3, GotoConnection DEF CreateConnection
    <2> QED
      BY <1>3, <2>1, <2>2, <2>3 DEF CreateConnection
  <1>4. CASE ReplaceConnection(t)
    <2>1. /\ call'[t].pc = "ready" /\ call' \in [Tasks -> Call]
          /\ \A u \in Tasks \ {t} : call'[u] = call[u]
      BY <1>4, GotoTyped DEF ReplaceConnection
    <2>2. ~alive
      BY <1>4 DEF ReplaceConnection, ConnectionInv, BrokenWhileReplaced
    <2>3. \A u \in Tasks : call'[u].pc \notin Reconnecting
      BY <1>4, <2>1 DEF ReplaceConnection, ConnectionInv, OneReconnects
    <2> QED
      BY <1>4, <2>1, <2>2, <2>3 DEF ReplaceConnection, ConnectionInv, UpstreamTypeOK,
                                    OneReconnects, BrokenWhileReplaced, BreaksAnswered
  <1> QED
    BY <1>1, <1>2, <1>3, <1>4

LEMMA UpstreamConnection ==
  ASSUME ConnectionInv, NEW t \in Tasks, UpstreamStep(t)
  PROVE  ConnectionInv'
  <1>1. CASE Send(t)
    BY <1>1, GotoConnection DEF Send, Pc, Reconnecting
  <1>2. CASE Answer(t)
    BY <1>2, GotoConnection DEF Answer, Pc, Reconnecting
  <1>3. CASE RequestFails(t)
    BY <1>3, FailConnection DEF RequestFails
  <1> QED
    BY <1>1, <1>2, <1>3, ReconnectConnection DEF UpstreamStep

LEMMA BreakConnection ==
  ASSUME ConnectionInv, Break
  PROVE  ConnectionInv'
  <1>1. alive /\ alive' = FALSE /\ breaks' = breaks + 1 /\ made' = made /\ call' = call
    BY DEF Break
  <1>a. made <= breaks /\ made \in Nat /\ breaks \in Nat /\ call \in [Tasks -> Call]
    BY <1>1, Zenon DEF ConnectionInv, UpstreamTypeOK, BreaksAnswered
  <1>b. made' < breaks' /\ made' \in Nat /\ breaks' \in Nat /\ call' \in [Tasks -> Call]
    BY <1>1, <1>a
  <1>2. UpstreamTypeOK' /\ BreaksAnswered'
    BY <1>1, <1>b, Zenon DEF UpstreamTypeOK, BreaksAnswered
  <1>3. OneReconnects' /\ BrokenWhileReplaced'
    BY <1>1 DEF ConnectionInv, OneReconnects, BrokenWhileReplaced
  <1> QED
    BY <1>2, <1>3 DEF ConnectionInv

(***************************************************************************)
(* What a step of a request does with the client: nothing, ask it, or take *)
(* what it has brought.                                                    *)
(***************************************************************************)
Asks(t) == \/ Ask(t, FALSE, Once) \/ Ask(t, FALSE, WithRetry) \/ Ask(t, FALSE, Nested)
           \/ Ask(t, TRUE, WithRetry) \/ Ask(t, TRUE, Nested)

Takes(t) ==
    /\ call[t].pc \in {"answered", "failed"}
    /\ call' = [call EXCEPT ![t] = NoCall]
    /\ UNCHANGED <<alive, breaks, made>>

LEMMA RequestClient ==
  ASSUME NEW t \in Tasks, Request(t) \/ Close(t)
  PROVE  UNCHANGED upstreamVars
  BY DEF Request, Close, GetBlockHash, ArchiveHashByHeight, GetHeader, ArchiveHeader, GetBlock,
         ArchiveBody, GetStorage, QueryStorageAt, GetKeysPaged, GetRuntimeVersion, GetMetadata,
         StateCall, PaymentQueryInfo, PaymentQueryFeeDetails, ArchiveCall, ArchiveStorage,
         ArchiveStorageDiff, RuntimeCall, AccountNextIndex, AskGenesisHash, AskProperties,
         SubscribeNewHeads, SubscribeStorage, SubscribeRuntimeVersion, Begin

LEMMA ServeClient ==
  ASSUME NEW t \in Tasks, Serve(t)
  PROVE  UNCHANGED upstreamVars \/ Asks(t) \/ Takes(t)
  <1>1. CASE FindLocally(t) \/ FindCached(t) \/ ListKeys(t) \/ CallAtBlock(t)
             \/ ChainProperties(t) \/ Subscribe(t) \/ NextEvent(t) \/ SkipLagged(t)
    BY <1>1 DEF FindLocally, FindCached, ListKeys, CallAtBlock, ChainProperties, Subscribe,
                NextEvent, SkipLagged
  <1>2. CASE FindUpstream(t) \/ HashAt(t) \/ ReadStorage(t) \/ ReadAtHash(t)
             \/ ProxyCall(t) \/ FindForCall(t) \/ GenesisHash(t)
    BY <1>2, Zenon DEF FindUpstream, HashAt, ReadStorage, ReadAtHash, ProxyCall, FindForCall,
                       GenesisHash, Asks
  <1>3. CASE Receive(t)
    BY <1>3 DEF Receive, Takes
  <1> QED
    BY <1>1, <1>2, <1>3 DEF Serve

LEMMA ConnectionNext == ConnectionInv /\ [Next]_vars => ConnectionInv'
  <1> SUFFICES ASSUME ConnectionInv, [Next]_vars PROVE ConnectionInv'
    OBVIOUS
  <1>1. ASSUME UNCHANGED upstreamVars
        PROVE  ConnectionInv'
    BY <1>1 DEF upstreamVars, ConnectionInv, UpstreamTypeOK, OneReconnects, BrokenWhileReplaced,
                BreaksAnswered
  <1>2. ASSUME NEW t \in Tasks, Serve(t)
        PROVE  ConnectionInv'
    <2>1. CASE Asks(t)
      <3>1. {Once, WithRetry, Nested} \subseteq 0..Nested
        BY DEF Once, WithRetry, Nested
      <3> QED
        BY <2>1, <3>1, AskConnection DEF Asks
    <2>2. CASE Takes(t)
      <3>1. NoCall \in Call /\ NoCall.pc \notin Reconnecting
        BY DEF NoCall, Call, Pc, Nested, Reconnecting
      <3> QED
        BY <2>2, <3>1, ConnectionLeft DEF Takes
    <2> QED
      BY <1>1, <1>2, <2>1, <2>2, ServeClient
  <1>3. ASSUME NEW t \in Tasks, Request(t) \/ Client(t) \/ Close(t)
        PROVE  ConnectionInv'
    BY <1>1, <1>3, RequestClient, UpstreamConnection DEF Client
  <1>4. CASE Break
    BY <1>4, BreakConnection
  <1>5. CASE PrepareBlock \/ AcceptBlock \/ EmitNewBlock
    BY <1>1, <1>5 DEF PrepareBlock, AcceptBlock, EmitNewBlock
  <1>6. CASE UNCHANGED vars
    BY <1>1, <1>6 DEF vars
  <1> QED
    BY <1>2, <1>3, <1>4, <1>5, <1>6 DEF Next

(***************************************************************************)
(* However many tasks find the connection broken, and wherever they are    *)
(* when it breaks again, reconnect replaces it once per break.             *)
(***************************************************************************)
THEOREM Reconnections == Spec => []OneConnectionPerBreak
  <1>1. Init => ConnectionInv
    BY ConnectionInit DEF Init
  <1>2. ConnectionInv => OneConnectionPerBreak
    BY DEF ConnectionInv, UpstreamTypeOK, BreaksAnswered, OneConnectionPerBreak
  <1> QED
    BY <1>1, <1>2, ConnectionNext, PTL DEF Spec

(***************************************************************************)
(* The fork.  Events are numbered without gaps, one behind the head while  *)
(* the builder has moved it and not yet told; an event that lists no key   *)
(* means that no block up to its own has written, which later writes do    *)
(* not change.                                                             *)
(***************************************************************************)
Told == IF building = "accepted" THEN 1 ELSE 0

ChainInv ==
    /\ head \in Nat /\ Fork <= head
    /\ wrote \subseteq Fork + 1..head
    /\ building \in {"idle", "waiting", "accepted"}
    /\ channel \in Seq([number: Nat, modified: BOOLEAN])
    /\ Fork + Len(channel) + Told = head
    /\ \A i \in 1..Len(channel) :
          /\ channel[i].number = Fork + i
          /\ ~channel[i].modified => \A m \in wrote : Fork + i < m
    /\ genesis \in {None, Live(0)}

(***************************************************************************)
(* Requests.  Meant(r) is the block a request is about: the one it names,  *)
(* or the head when it began.  A fork block it has been resolved to is     *)
(* there (Settled), and stays, because the head only grows: so what is     *)
(* read by number afterwards is that block's state.                        *)
(***************************************************************************)
IsBlock(b) ==
    /\ b.number \in Nat
    /\ b \in {None, Live(b.number), Forked(b.number)}
    /\ b.chain = "fork" => Fork < b.number

Fields == {"method", "at", "pc", "block", "number", "value", "other", "low", "position", "handled"}

Asking == {"number", "header", "body", "parent", "parentNumber", "hash", "genesis", "read",
           "readParent", "readAt", "proxy", "find"}

Shaped(r) ==
    /\ DOMAIN r = Fields
    /\ r.method \in Method \union {"none"}
    /\ r.pc \in Stage \union {"idle", "properties", "subscribe", "listen", "done", "error", "closed"}
    /\ r.pc = "parent" => r.method = "storageDiff"
    /\ r.pc \in {"subscribe", "listen", "closed"} => r.method \in Subscriptions
    /\ IsBlock(r.at) /\ IsBlock(r.block)
    /\ r.low \in Nat /\ r.number \in Nat /\ r.position \in Nat /\ r.handled \in Nat
    /\ r.method # "none" => Fork <= r.low /\ r.low <= head

Meant(r) == IF r.at = None THEN On(r.low) ELSE r.at

Settled(r) == r.at.chain = "fork" => r.at.number <= head

HashFine(r) ==
    /\ r.pc \in {"hash", "done", "error"}
    /\ r.pc = "done" => r.value = On(r.number) \/ (r.value = None /\ r.number > r.low)

GenesisFine(r) ==
    /\ r.pc \in {"genesis", "done", "error"}
    /\ r.pc = "done" => r.value = Live(0)

\* What AnswersAskedBlock says of a header or a body.
Whole(r) ==
    \/ r.value = r.at /\ r.at # None
    \/ r.at = None /\ r.value \in {On(n) : n \in r.low..head}
    \/ /\ r.value = None /\ ~OnLiveChain(r.at)
       /\ r.at.chain = "fork" => r.low < r.at.number

HeaderFine(r) ==
    /\ r.pc \in {"header", "body", "done", "error"}
    /\ r.pc \in {"header", "body"} => r.block = Meant(r)
    /\ r.pc = "done" => Whole(r)

\* The live chain is asked for a header only when the fork did not have it.
HeaderAsked(r) == r.at # None /\ (r.at.chain = "fork" => r.low < r.at.number)

\* What AnswersAskedBlock says of state: an answer about a fork block came after it.
Right(r) ==
    IF r.at = None THEN r.value \in Recent(r) \union {Lost}
    ELSE r.value # None =>
            /\ Settled(r)
            /\ OfTheFork(r.at) =>
                  /\ Answered(r.value, r.at)
                  /\ r.method = "storageDiff" => Answered(r.other, Parent(r.at))

ReadFine(r) ==
    /\ r.pc \in {"number", "read", "readAt", "keys", "proxy", "call", "find", "parent",
                 "parentNumber", "readParent", "done", "error"}
    /\ r.number = Meant(r).number
    /\ r.method = "storageDiff" => r.at # None /\ r.at.number > 0
    /\ r.pc \in {"parentNumber", "readParent"} => r.method = "storageDiff"
    /\ r.pc \in {"call", "find", "proxy"} => r.method \in CodeOnly
    /\ r.pc \in {"number", "readAt", "keys", "proxy", "call", "find", "parent"} => r.block = Meant(r)
    /\ r.pc \in {"parentNumber", "readParent"} => r.block = Parent(r.at)
    /\ r.pc = "read" /\ r.method = "storageDiff" => r.block = Parent(r.at)
    /\ r.pc \in {"read", "readParent", "keys", "parent", "parentNumber"} => Settled(r)
    /\ r.pc = "keys" => r.number > Fork /\ r.method \in {"getKeysPaged", "descendants"}
    /\ r.pc = "proxy" => r.number <= Fork
    /\ r.pc = "readAt" => \/ r.number <= Fork
                          \/ r.method = "getKeysPaged" /\ r.at # None /\ ~OnLiveChain(r.at)
    /\ r.pc = "readAt" => r.method \in {"queryStorageAt", "getKeysPaged", "descendants"}
    /\ r.pc = "find" => r.at # None
    /\ r.pc = "readParent" /\ OfTheFork(r.at) => r.value = StateOf(r.at)
    /\ r.pc = "done" => Right(r)

ReadAsked(r) == r.pc = "number" => r.at # None

HeadsFine(r) ==
    /\ r.pc \in {"header", "subscribe", "listen", "closed", "error"}
    /\ r.pc = "header" => r.block = On(r.low) /\ r.position = 0
    /\ r.pc = "subscribe" => r.value.number \in Nat /\ r.value.number <= head
    /\ r.pc = "listen" => /\ r.value.number \in Nat /\ r.value.number <= Fork + r.position
                          /\ r.position > 0

\* The block whose value a watcher is to have at least.
Since(r) == IF r.handled = 0 THEN r.low ELSE r.handled

WatchFine(r) ==
    /\ r.pc \in {"read", "proxy", "call", "subscribe", "listen", "closed", "error"}
    /\ r.method = "watchStorage" => r.pc \notin {"proxy", "call"}
    /\ r.method = "watchVersion" => r.pc # "read"
    /\ r.handled # 0 => Fork < r.handled /\ r.handled <= head
    /\ r.pc = "proxy" => r.block = Live(Fork) /\ r.low = Fork /\ r.handled = 0
    /\ r.pc = "call" => r.block = On(Since(r))
    /\ r.pc = "listen" => r.position > 0
    /\ r.pc \in {"subscribe", "listen"} /\ r.value # Lost =>
          r.value \in {Written(n) : n \in Since(r)..head}

Fine(r) ==
    /\ Shaped(r)
    /\ r.method = "getBlockHash" => HashFine(r)
    /\ r.method = "genesisHash" => GenesisFine(r)
    /\ r.method \in {"getHeader", "getBlock"} => HeaderFine(r)
    /\ r.method \in StateQueries => ReadFine(r)
    /\ r.method = "newHeads" => HeadsFine(r)
    /\ r.method \in {"watchStorage", "watchVersion"} => WatchFine(r)

FineAsked(r) ==
    /\ r.pc \in Asking
    /\ r.method = "getBlockHash" => r.number <= Fork
    /\ r.method \in {"getHeader", "getBlock"} => HeaderAsked(r)
    /\ r.method \in StateQueries => ReadAsked(r)

RequestInv ==
    /\ DOMAIN request = Tasks
    /\ \A t \in Tasks : Fine(request[t]) /\ (call[t].pc # "idle" => FineAsked(request[t]))

QueryInv == UpstreamTypeOK /\ ChainInv /\ RequestInv

(***************************************************************************)
(* What is written at a block, and what the layers read there.             *)
(***************************************************************************)
LEMMA WrittenFork ==
  ASSUME ChainInv
  PROVE  Written(Fork) = Live(Fork)
  <1>0. \A m \in wrote : ~(m <= Fork)
    BY ChainAssumption DEF ChainInv
  <1>1. {m \in wrote : m <= Fork} = {}
    BY <1>0
  <1> QED
    BY <1>1 DEF Written

LEMMA WrittenKind ==
  ASSUME NEW n
  PROVE  Written(n) # None
  BY DEF Written, Live, Forked, None

LEMMA Layers ==
  ASSUME ChainInv, NEW n \in Nat
  PROVE  /\ Fork < n /\ n <= head => LayerAt(n) = Written(n)
         /\ n <= Fork => LayerAt(n) = Live(n)
         /\ n = Fork => LayerAt(n) = Written(n)
  <1>1. n <= Fork => LayerAt(n) = Live(n)
    BY ChainAssumption DEF LayerAt, ChainInv
  <1>2. Fork < n /\ n <= head => LayerAt(n) = Written(n)
    BY ChainAssumption DEF LayerAt, ChainInv
  <1> QED
    BY <1>1, <1>2, WrittenFork, ChainAssumption

LEMMA Heads ==
  ASSUME ChainInv, NEW n \in Nat
  PROVE  /\ On(n).number = n /\ IsBlock(On(n)) /\ On(n) # None
         /\ Fork <= n /\ n <= head => On(n) \in LocalBlocks
         /\ Fork <= n /\ n <= head => LayerAt(n) = Written(n)
  <1>1. On(n).number = n /\ IsBlock(On(n)) /\ On(n) # None
    BY ChainAssumption DEF On, Live, Forked, IsBlock, None
  <1>2. Fork <= n /\ n <= head => On(n) \in LocalBlocks
    BY ChainAssumption DEF LocalBlocks, ChainInv
  <1> QED
    BY <1>1, <1>2, Layers, ChainAssumption

\* A block of the fork's chain is read right by its number.
LEMMA ReadsState ==
  ASSUME ChainInv, NEW b, IsBlock(b), b # None, OfTheFork(b)
  PROVE  LayerAt(b.number) = StateOf(b)
  <1>1. PICK n \in 0..head : b = On(n)
    BY DEF OfTheFork
  <1>2. n \in Nat /\ n <= head /\ b.number = n
    BY <1>1, Heads DEF ChainInv
  <1>3. CASE n <= Fork
    <2>1. b = Live(n) /\ StateOf(b) = b
      BY <1>1, <1>3 DEF On, StateOf, Live
    <2> QED
      BY <1>2, <1>3, <2>1, Layers
  <1>4. CASE Fork < n
    <2>1. StateOf(b) = Written(n)
      BY <1>1, <1>2, <1>4, ChainAssumption DEF On, StateOf, Forked
    <2> QED
      BY <1>2, <1>4, <2>1, Layers
  <1> QED
    BY <1>2, <1>3, <1>4, ChainAssumption

LEMMA ReadsParent ==
  ASSUME ChainInv, NEW b, IsBlock(b), b # None, b.number > 0, OfTheFork(b)
  PROVE  LayerAt(b.number - 1) = StateOf(Parent(b))
  <1>1. PICK n \in 0..head : b = On(n)
    BY DEF OfTheFork
  <1>2. n \in Nat /\ n <= head /\ b.number = n /\ n > 0 /\ n - 1 \in Nat
    BY <1>1, Heads DEF ChainInv
  <1>3. CASE n <= Fork
    <2>1. b = Live(n)
      BY <1>1, <1>3 DEF On
    <2>2. b # Forked(Fork + 1)
      BY <2>1 DEF Live, Forked
    <2>3. Parent(b) = Live(n - 1)
      BY <2>1, <2>2 DEF Parent, Live
    <2>4. StateOf(Parent(b)) = Live(n - 1)
      BY <2>3 DEF StateOf, Live
    <2> QED
      BY <1>2, <1>3, <2>4, Layers, ChainAssumption
  <1>4. CASE n = Fork + 1
    <2>1. b = Forked(Fork + 1)
      BY <1>1, <1>4, ChainAssumption DEF On
    <2>2. StateOf(Parent(b)) = Live(Fork)
      BY <2>1 DEF Parent, StateOf, Live
    <2> QED
      BY <1>2, <1>4, <2>2, Layers, ChainAssumption
  <1>5. CASE Fork + 1 < n
    <2>1. b = Forked(n)
      BY <1>1, <1>2, <1>5, ChainAssumption DEF On
    <2>2. b # Forked(Fork + 1)
      BY <2>1, <1>2, <1>5, ChainAssumption DEF Forked
    <2>3. Parent(b) = Forked(n - 1)
      BY <2>1, <2>2 DEF Parent, Forked
    <2>4. StateOf(Parent(b)) = Written(n - 1)
      BY <2>3 DEF StateOf, Forked
    <2>5. Fork < n - 1 /\ n - 1 <= head /\ head \in Nat
      BY <1>2, <1>5, ChainAssumption DEF ChainInv
    <2>6. LayerAt(n - 1) = Written(n - 1)
      BY <1>2, <2>5, Layers
    <2> QED
      BY <1>2, <2>4, <2>6
  <1> QED
    BY <1>2, <1>3, <1>4, <1>5, ChainAssumption

(***************************************************************************)
(* Steps and the fork.  The head only grows and what its blocks wrote      *)
(* stays.                                                                  *)
(***************************************************************************)
Grows ==
    /\ head' \in Nat /\ head <= head'
    /\ \A n \in Nat : n <= head => Written(n)' = Written(n)

LEMMA ChainStays ==
  ASSUME ChainInv, UNCHANGED forkVars, genesis' \in {None, Live(0)}
  PROVE  ChainInv' /\ Grows
  <1>1. ChainInv'
    BY DEF ChainInv, forkVars, Told
  <1>2. Grows
    BY DEF Grows, ChainInv, forkVars, Written
  <1> QED
    BY <1>1, <1>2

LEMMA PrepareGrows ==
  ASSUME ChainInv, PrepareBlock
  PROVE  ChainInv' /\ Grows
  <1>1. UNCHANGED <<head, wrote, channel, genesis>> /\ building = "idle" /\ building' = "waiting"
    BY DEF PrepareBlock, cacheVars
  <1>2. ChainInv'
    BY <1>1 DEF ChainInv, Told
  <1>3. Grows
    BY <1>1 DEF Grows, ChainInv, Written
  <1> QED
    BY <1>2, <1>3

LEMMA AcceptGrows ==
  ASSUME ChainInv, AcceptBlock
  PROVE  ChainInv' /\ Grows
  <1>1. /\ head' = head + 1 /\ wrote' \in {wrote, wrote \union {head + 1}}
        /\ building = "waiting" /\ building' = "accepted" /\ UNCHANGED <<channel, genesis>>
    BY DEF AcceptBlock, cacheVars
  <1>2. head \in Nat /\ Fork <= head /\ wrote \subseteq Fork + 1..head
    BY DEF ChainInv
  <1>3. wrote' \subseteq Fork + 1..head'
    BY <1>1, <1>2, ChainAssumption
  <1>4. \A i \in 1..Len(channel) : Fork + i < head + 1 /\ i \in Nat
    BY <1>2, ChainAssumption DEF ChainInv, Told
  <1>5. ChainInv'
    BY <1>1, <1>2, <1>3, <1>4, ChainAssumption DEF ChainInv, Told
  <1>6. \A n \in Nat : n <= head => {m \in wrote' : m <= n} = {m \in wrote : m <= n}
    BY <1>1, <1>2, ChainAssumption
  <1>7. Grows
    BY <1>1, <1>2, <1>6 DEF Grows, Written
  <1> QED
    BY <1>5, <1>7

LEMMA EmitGrows ==
  ASSUME ChainInv, EmitNewBlock
  PROVE  ChainInv' /\ Grows
  <1> DEFINE event == [number |-> head, modified |-> wrote # {}]
  <1>1. /\ UNCHANGED <<head, wrote, genesis>> /\ channel' = Append(channel, event)
        /\ building = "accepted" /\ building' = "idle"
    BY DEF EmitNewBlock, cacheVars
  <1>2. /\ head \in Nat /\ channel \in Seq([number: Nat, modified: BOOLEAN])
        /\ Fork + Len(channel) + 1 = head
    BY <1>1 DEF ChainInv, Told
  <1>3. event \in [number: Nat, modified: BOOLEAN] /\ event.number = head
        /\ (~event.modified => wrote = {})
    BY <1>2
  <1> HIDE DEF event
  <1>4. /\ channel' \in Seq([number: Nat, modified: BOOLEAN]) /\ Len(channel') = Len(channel) + 1
        /\ Len(channel) \in Nat
        /\ \A i \in 1..Len(channel') :
              channel'[i] = IF i = Len(channel) + 1 THEN event ELSE channel[i]
    BY <1>1, <1>2, <1>3
  <1>5. \A i \in 1..Len(channel') : /\ channel'[i].number = Fork + i
                                    /\ ~channel'[i].modified => \A m \in wrote' : Fork + i < m
    BY <1>1, <1>2, <1>3, <1>4, ChainAssumption DEF ChainInv
  <1>6. Fork + Len(channel') + Told' = head'
    BY <1>1, <1>2, <1>4, ChainAssumption DEF Told
  <1>7. ChainInv'
    BY <1>1, <1>4, <1>5, <1>6 DEF ChainInv
  <1>8. Grows
    BY <1>1, <1>2 DEF Grows, Written
  <1> QED
    BY <1>7, <1>8

(***************************************************************************)
(* What holds of a request goes on holding as the fork grows.              *)
(***************************************************************************)
LEMMA Carried ==
  ASSUME ChainInv, Grows, NEW t \in Tasks, NEW r, request'[t] = r, Fine(r)
  PROVE  Fine(request[t])'
  <1>1. head \in Nat /\ head' \in Nat /\ head <= head' /\ Shaped(r)
    BY DEF Grows, ChainInv, Fine
  <1>2. Shaped(request[t])'
    BY <1>1, ChainAssumption DEF Shaped, IsBlock
  <1>3. r.method = "getBlockHash" => HashFine(request[t])'
    BY DEF Fine, HashFine
  <1>4. r.method = "genesisHash" => GenesisFine(request[t])'
    BY DEF Fine, GenesisFine
  <1>5. ASSUME r.method \in {"getHeader", "getBlock"} PROVE HeaderFine(request[t])'
    <2>1. Whole(r) => Whole(request[t])'
      BY <1>1, <1>5, ChainAssumption DEF Whole, Shaped
    <2> QED
      BY <1>5, <2>1 DEF Fine, HeaderFine, Meant
  <1>6. ASSUME r.method \in StateQueries PROVE ReadFine(request[t])'
    <2>0. ReadFine(r) /\ IsBlock(r.at)
      BY <1>1, <1>6 DEF Fine, Shaped
    <2>1. Settled(r) => Settled(request[t])'
      BY <1>1, <2>0 DEF Settled, IsBlock
    <2>2. ASSUME Settled(r), OfTheFork(r.at)'
          PROVE  OfTheFork(r.at) /\ StateOf(r.at)' = StateOf(r.at)
                 /\ (r.at.number > 0 => StateOf(Parent(r.at))' = StateOf(Parent(r.at)))
      <3>1. PICK n \in 0..head' : r.at = On(n)
        BY <2>2 DEF OfTheFork
      <3>2. n \in 0..head
        BY <1>1, <2>2, <3>1, ChainAssumption DEF Settled, On, Live, Forked, ChainInv
      <3>3. r.at.chain = "fork" => r.at.number \in Nat /\ r.at.number <= head
        BY <2>0, <2>2 DEF Settled, IsBlock
      <3>4. StateOf(r.at)' = StateOf(r.at)
        BY <3>3 DEF StateOf, Grows
      <3>5. ASSUME r.at.number > 0 PROVE StateOf(Parent(r.at))' = StateOf(Parent(r.at))
        <4>1. Parent(r.at).chain = "fork" => Parent(r.at).number \in Nat /\ Parent(r.at).number <= head
          BY <1>1, <3>1, <3>2, <3>5, ChainAssumption DEF Parent, On, Live, Forked
        <4> QED
          BY <4>1 DEF StateOf, Grows
      <3> QED
        BY <3>1, <3>2, <3>4, <3>5 DEF OfTheFork
    <2>3. r.pc = "readParent" /\ OfTheFork(r.at)' => r.value = StateOf(r.at)'
      BY <2>0, <2>2 DEF ReadFine
    <2>4. ASSUME r.pc = "done" PROVE Right(request[t])'
      <3>1. Right(r)
        BY <2>0, <2>4 DEF ReadFine
      <3>2. CASE r.at = None
        <4>1. r.value \in {Written(n) : n \in r.low..head} \union {Lost} /\ r.low \in Nat
          BY <1>1, <3>1, <3>2 DEF Right, Recent, Shaped
        <4>2. \A n \in r.low..head : n \in r.low..head' /\ Written(n)' = Written(n)
          BY <1>1, <4>1 DEF Grows
        <4>3. r.value \in {Written(n)' : n \in r.low..head'} \union {Lost}
          BY <4>1, <4>2
        <4> QED
          BY <3>2, <4>3 DEF Right, Recent
      <3>3. CASE r.at # None /\ r.value = None
        BY <3>3 DEF Right
      <3>4. CASE r.at # None /\ r.value # None
        <4>1. Settled(r) /\ (OfTheFork(r.at) =>
                  /\ Answered(r.value, r.at)
                  /\ r.method = "storageDiff" => Answered(r.other, Parent(r.at)))
          BY <3>1, <3>4 DEF Right
        <4>2. r.method = "storageDiff" => r.at.number > 0
          BY <2>0 DEF ReadFine
        <4> QED
          BY <2>1, <2>2, <3>4, <4>1, <4>2 DEF Right, Answered
      <3> QED
        BY <3>2, <3>3, <3>4
    <2> QED
      BY <2>0, <2>1, <2>3, <2>4 DEF ReadFine, Meant, OnLiveChain
  <1>7. r.method = "newHeads" => HeadsFine(request[t])'
    BY <1>1 DEF Fine, HeadsFine
  <1>8. ASSUME r.method \in {"watchStorage", "watchVersion"} PROVE WatchFine(request[t])'
    <2>0. WatchFine(r) /\ r.low \in Nat /\ r.handled \in Nat
      BY <1>1, <1>8 DEF Fine, Shaped
    <2>1. r.value \in {Written(n) : n \in Since(r)..head} => r.value \in {Written(n)' : n \in Since(r)..head'}
      <3>1. \A n \in Since(r)..head : n \in Since(r)..head' /\ Written(n)' = Written(n)
        BY <1>1, <2>0 DEF Grows, Since
      <3> QED
        BY <3>1
    <2>2. r.handled # 0 => Fork < r.handled /\ r.handled <= head'
      BY <1>1, <2>0 DEF WatchFine
    <2> QED
      BY <2>0, <2>1, <2>2 DEF WatchFine, Since
  <1> QED
    BY <1>2, <1>3, <1>4, <1>5, <1>6, <1>7, <1>8 DEF Fine

LEMMA CarriedAsked ==
  ASSUME NEW t \in Tasks, NEW r, request'[t] = r, FineAsked(r)
  PROVE  FineAsked(request[t])'
  BY DEF FineAsked, HeaderAsked, ReadAsked

(***************************************************************************)
(* What a step makes of a request.  q is like r but for the block, the pc  *)
(* and the answers.                                                        *)
(***************************************************************************)
Like(q, r) ==
    /\ Shaped(q)
    /\ q.method = r.method /\ q.at = r.at /\ q.low = r.low /\ q.number = r.number
    /\ q.position = r.position /\ q.handled = r.handled

EndPc(r) ==
    IF r.method \in Subscriptions THEN IF r.position = 0 THEN "subscribe" ELSE "listen" ELSE "done"

Free == {"stateCall", "runtimeCall", "properties", "none"}

LEMMA FineBy ==
  ASSUME NEW q, Shaped(q)
  PROVE  /\ q.method \in Free => Fine(q)
         /\ q.method = "getBlockHash" /\ HashFine(q) => Fine(q)
         /\ q.method = "genesisHash" /\ GenesisFine(q) => Fine(q)
         /\ q.method \in {"getHeader", "getBlock"} /\ HeaderFine(q) => Fine(q)
         /\ q.method \in StateQueries /\ ReadFine(q) => Fine(q)
         /\ q.method = "newHeads" /\ HeadsFine(q) => Fine(q)
         /\ q.method \in {"watchStorage", "watchVersion"} /\ WatchFine(q) => Fine(q)
  BY DEF Fine, Free, StateQueries

LEMMA MethodCases ==
  ASSUME NEW r, Shaped(r)
  PROVE  \/ r.method \in Free
         \/ r.method = "getBlockHash"
         \/ r.method = "genesisHash"
         \/ r.method \in {"getHeader", "getBlock"}
         \/ r.method \in StateQueries
         \/ r.method = "newHeads"
         \/ r.method \in {"watchStorage", "watchVersion"}
  BY DEF Shaped, Method, Free, StateQueries, Subscriptions

LEMMA GoesOn ==
  ASSUME NEW r, Shaped(r), NEW pc, NEW q, q = [r EXCEPT !.pc = pc],
         pc \in (Stage \ {"parent"}) \union {"subscribe", "listen", "done", "error", "closed"},
         pc \in {"subscribe", "listen", "closed"} => r.method \in Subscriptions
  PROVE  Like(q, r) /\ q.block = r.block /\ q.value = r.value /\ q.other = r.other /\ q.pc = pc
  BY DEF Shaped, Like, Fields

LEMMA Finishes ==
  ASSUME NEW t \in Tasks, NEW r, r = request[t], Shaped(r), NEW v, FinishWith(t, v)
  PROVE  \E q : /\ Becomes(t, q) /\ Like(q, r) /\ q.block = r.block /\ q.value = v
                /\ q.other = r.other /\ q.pc = EndPc(r)
  <1> DEFINE w == [r EXCEPT !.value = v]
             q == [w EXCEPT !.pc = EndPc(r)]
  <1>1. EndPc(r) \in {"subscribe", "listen", "done"}
        /\ (EndPc(r) # "done" => r.method \in Subscriptions)
    BY DEF EndPc
  <1>2. /\ Shaped(w) /\ w.method = r.method /\ w.position = r.position /\ w.block = r.block
        /\ w.value = v /\ w.other = r.other /\ w.at = r.at /\ w.low = r.low
        /\ w.number = r.number /\ w.handled = r.handled
    BY DEF Shaped, Fields
  <1>3. Becomes(t, q)
    BY <1>2 DEF FinishWith, Finish, EndPc
  <1> HIDE DEF w
  <1>4. Like(q, w) /\ q.block = w.block /\ q.value = w.value /\ q.other = w.other /\ q.pc = EndPc(r)
    BY <1>1, <1>2, GoesOn
  <1> HIDE DEF q
  <1>5. Like(q, r) /\ q.block = r.block /\ q.value = v /\ q.other = r.other /\ q.pc = EndPc(r)
    BY <1>2, <1>4 DEF Like
  <1> QED
    BY <1>3, <1>5

(***************************************************************************)
(* A block that was found is settled.                                      *)
(***************************************************************************)
There(b) == b.chain = "fork" => b.number <= head

LEMMA FoundThere ==
  ASSUME ChainInv, NEW b, b \in LocalBlocks \/ b \in CachedBlocks \/ OnLiveChain(b)
  PROVE  There(b)
  BY ChainAssumption DEF There, LocalBlocks, CachedBlocks, OnLiveChain, On, Live, Forked, ChainInv

LEMMA AfterNumberOf ==
  ASSUME NEW r, r.method \in StateQueries
  PROVE  /\ AfterNumber(r) \in {"read", "readAt", "keys", "proxy", "call", "parent"}
         /\ AfterNumber(r) = "readAt" => /\ r.number <= Fork
                                         /\ r.method \in {"queryStorageAt", "getKeysPaged", "descendants"}
         /\ AfterNumber(r) = "keys" => ~(r.number <= Fork) /\ r.method \in {"getKeysPaged", "descendants"}
         /\ AfterNumber(r) = "proxy" => r.number <= Fork /\ r.method \in CodeOnly
         /\ AfterNumber(r) = "call" => r.method \in CodeOnly
         /\ AfterNumber(r) = "parent" => r.method = "storageDiff"
         /\ AfterNumber(r) = "read" => r.method # "storageDiff"
  BY DEF AfterNumber, StateQueries, CodeOnly

LEMMA AfterNumberStage ==
  ASSUME NEW r
  PROVE  AfterNumber(r) \in Stage /\ (AfterNumber(r) = "parent" => r.method = "storageDiff")
  BY DEF AfterNumber, Stage

\* The request as it is once its block is known to be there.
Comes(t) == \E q : Becomes(t, q) /\ Fine(q)

LEMMA ResolvedFine ==
  ASSUME ChainInv, NEW t \in Tasks, NEW r, r = request[t], Fine(r), r.pc \in Lookups,
         There(r.block), Resolved(t)
  PROVE  Comes(t)
  <1>0. Shaped(r) /\ r.block.number \in Nat /\ head \in Nat
    BY DEF Fine, Shaped, IsBlock, ChainInv
  <1>1. CASE r.pc = "number"
    <2> DEFINE w == [r EXCEPT !.number = r.block.number]
               pc == AfterNumber(w)
               q == [r EXCEPT !.number = r.block.number, !.pc = pc]
    <2>1. Becomes(t, q)
      BY <1>1 DEF Resolved
    <2>2. w.number = r.block.number /\ w.method = r.method
      BY <1>0 DEF Shaped, Fields
    <2>3. pc \in Stage /\ (pc = "parent" => r.method = "storageDiff")
      BY <2>2, AfterNumberStage
    <2>4. r.method \in StateQueries => w.method \in StateQueries
      BY <2>2
    <2> HIDE DEF w
    <2>5. r.method \in StateQueries =>
            /\ pc \in {"read", "readAt", "keys", "proxy", "call", "parent"}
            /\ pc = "readAt" => /\ r.block.number <= Fork
                                /\ r.method \in {"queryStorageAt", "getKeysPaged", "descendants"}
            /\ pc = "keys" => ~(r.block.number <= Fork) /\ r.method \in {"getKeysPaged", "descendants"}
            /\ pc = "proxy" => r.block.number <= Fork /\ r.method \in CodeOnly
            /\ pc = "call" => r.method \in CodeOnly
            /\ pc = "parent" => r.method = "storageDiff"
            /\ pc = "read" => r.method # "storageDiff"
      BY <2>2, <2>4, AfterNumberOf
    <2> HIDE DEF pc
    <2>6. /\ Shaped(q) /\ q.method = r.method /\ q.at = r.at /\ q.block = r.block /\ q.low = r.low
          /\ q.number = r.block.number /\ q.pc = pc
      BY <1>0, <2>3 DEF Shaped, Fields, Stage
    <2> HIDE DEF q
    <2>7. r.method \in StateQueries \union Free
      BY <1>0, <1>1, MethodCases DEF Fine, HashFine, GenesisFine, HeaderFine, HeadsFine, WatchFine
    <2>8. CASE r.method \in StateQueries
      <3>1. ReadFine(r)
        BY <2>8 DEF Fine
      <3>2. r.block = Meant(r) /\ Meant(q) = Meant(r)
        BY <1>1, <2>6, <3>1 DEF ReadFine, Meant
      <3>3. Settled(q)
        BY <2>6, <3>2 DEF Settled, There, Meant, None
      <3>4. ~(r.block.number <= Fork) => r.block.number > Fork
        BY <1>0, ChainAssumption
      <3>5. ReadFine(q)
        BY <2>5, <2>6, <2>8, <3>1, <3>2, <3>3, <3>4 DEF ReadFine
      <3> QED
        BY <2>1, <2>6, <2>8, <3>5, FineBy DEF Comes
    <2>9. CASE r.method \in Free
      BY <2>1, <2>6, <2>9, FineBy DEF Comes
    <2> QED
      BY <2>7, <2>8, <2>9
  <1>2. CASE r.pc = "header" /\ r.method = "getBlock"
    <2> DEFINE q == [r EXCEPT !.pc = "body"]
    <2>1. Becomes(t, q)
      BY <1>2 DEF Resolved
    <2>2. Like(q, r) /\ q.block = r.block /\ q.pc = "body"
      BY <1>0, GoesOn DEF Stage
    <2> HIDE DEF q
    <2>3. HeaderFine(q)
      BY <1>2, <2>2 DEF Fine, HeaderFine, Like, Meant
    <2> QED
      BY <1>2, <2>1, <2>2, <2>3, FineBy DEF Comes, Like
  <1>3. CASE r.pc \in {"header", "body"} /\ ~(r.pc = "header" /\ r.method = "getBlock")
    <2>1. FinishWith(t, r.block)
      BY <1>3 DEF Resolved
    <2>2. PICK q : /\ Becomes(t, q) /\ Like(q, r) /\ q.block = r.block /\ q.value = r.block
                   /\ q.other = r.other /\ q.pc = EndPc(r)
      BY <1>0, <2>1, Finishes
    <2>3. r.method \in {"getHeader", "getBlock", "newHeads"} \union Free
      BY <1>0, <1>3, MethodCases DEF Fine, HashFine, GenesisFine, ReadFine, WatchFine
    <2>4. CASE r.method \in {"getHeader", "getBlock"}
      <3>1. r.block = Meant(r) /\ q.pc = "done"
        BY <1>3, <2>2, <2>4 DEF Fine, HeaderFine, EndPc, Subscriptions
      <3>2. Whole(q)
        <4>1. CASE r.at = None
          BY <1>0, <2>2, <2>4, <3>1, <4>1 DEF Whole, Like, Meant, Shaped
        <4>2. CASE r.at # None
          BY <2>2, <3>1, <4>2 DEF Whole, Like, Meant
        <4> QED
          BY <4>1, <4>2
      <3>3. HeaderFine(q)
        BY <3>1, <3>2 DEF HeaderFine
      <3> QED
        BY <2>2, <2>4, <3>3, FineBy DEF Comes, Like
    <2>5. CASE r.method = "newHeads"
      <3>1. r.block = On(r.low) /\ q.pc = "subscribe"
        BY <1>3, <2>2, <2>5 DEF Fine, HeadsFine, EndPc, Subscriptions
      <3>2. r.low \in Nat /\ r.low <= head
        BY <1>0, <2>5 DEF Shaped
      <3>3. q.value.number \in Nat /\ q.value.number <= head
        BY <2>2, <3>1, <3>2, Heads
      <3>4. HeadsFine(q)
        BY <3>1, <3>3 DEF HeadsFine
      <3> QED
        BY <2>2, <2>5, <3>4, FineBy DEF Comes, Like
    <2>6. CASE r.method \in Free
      BY <2>2, <2>6, FineBy DEF Comes, Like
    <2> QED
      BY <2>3, <2>4, <2>5, <2>6
  <1>4. CASE r.pc = "parent"
    <2> DEFINE b == Parent(r.block)
               q == [r EXCEPT !.block = b, !.pc = "parentNumber"]
    <2>1. Becomes(t, q)
      BY <1>4 DEF Resolved
    <2>2. r.method \in StateQueries \union Free
      BY <1>0, <1>4, MethodCases DEF Fine, HashFine, GenesisFine, HeaderFine, HeadsFine, WatchFine
    <2>3. CASE r.method \in StateQueries
      <3>1. /\ ReadFine(r) /\ r.block = r.at /\ r.at # None /\ r.at.number > 0 /\ Settled(r)
            /\ r.method = "storageDiff"
        BY <1>0, <1>4, <2>3 DEF Fine, Shaped, ReadFine, Meant
      <3>2. IsBlock(b)
        <4>1. r.block \in {Live(r.block.number), Forked(r.block.number)}
              /\ (r.block.chain = "fork" => Fork < r.block.number)
          BY <1>0, <3>1 DEF Shaped, IsBlock
        <4>2. CASE r.block = Live(r.block.number)
          <5>1. b = Live(r.block.number - 1)
            BY <4>2 DEF Parent, Live, Forked
          <5> QED
            BY <1>0, <3>1, <5>1 DEF IsBlock, Live
        <4>3. CASE r.block = Forked(Fork + 1)
          BY <4>3, ChainAssumption DEF Parent, IsBlock, Live
        <4>4. CASE r.block = Forked(r.block.number) /\ r.block # Forked(Fork + 1)
          <5>1. b = Forked(r.block.number - 1)
            BY <4>4 DEF Parent, Forked
          <5>2. r.block.number # Fork + 1 /\ Fork < r.block.number
            BY <4>1, <4>4 DEF Forked
          <5> QED
            BY <1>0, <5>1, <5>2, ChainAssumption DEF IsBlock, Forked
        <4> QED
          BY <4>1, <4>2, <4>3, <4>4
      <3> HIDE DEF b
      <3>3. Like(q, r) /\ q.block = b /\ q.pc = "parentNumber"
        BY <1>0, <3>2 DEF Shaped, Like, Fields, Stage
      <3> HIDE DEF q
      <3>4. q.block = Parent(q.at) /\ Settled(q) /\ Meant(q) = Meant(r)
        BY <3>1, <3>3 DEF Settled, b, Like, Meant
      <3>5. ReadFine(q)
        BY <3>1, <3>3, <3>4 DEF ReadFine, Like
      <3> QED
        BY <2>1, <2>3, <3>3, <3>5, FineBy DEF Comes, Like
    <2>4. CASE r.method \in Free
      BY <1>0, <1>4, <2>4 DEF Shaped, Free
    <2> QED
      BY <2>2, <2>3, <2>4
  <1>5. CASE r.pc = "parentNumber"
    <2> DEFINE q == [r EXCEPT !.pc = "read"]
    <2>1. Becomes(t, q)
      BY <1>5 DEF Resolved
    <2>2. Like(q, r) /\ q.block = r.block /\ q.pc = "read"
      BY <1>0, GoesOn DEF Stage
    <2> HIDE DEF q
    <2>3. r.method \in StateQueries \union Free
      BY <1>0, <1>5, MethodCases DEF Fine, HashFine, GenesisFine, HeaderFine, HeadsFine, WatchFine
    <2>4. CASE r.method \in StateQueries
      <3>1. ReadFine(q)
        BY <1>5, <2>2, <2>4 DEF Fine, ReadFine, Like, Settled, Meant
      <3> QED
        BY <2>1, <2>2, <2>4, <3>1, FineBy DEF Comes, Like
    <2>5. CASE r.method \in Free
      BY <2>1, <2>2, <2>5, FineBy DEF Comes, Like
    <2> QED
      BY <2>3, <2>4, <2>5
  <1> QED
    BY <1>1, <1>2, <1>3, <1>4, <1>5 DEF Lookups

(***************************************************************************)
(* Values read by number.                                                  *)
(***************************************************************************)
LEMMA HeadRead ==
  ASSUME ChainInv, NEW q, Shaped(q), q.method # "none", q.at = None, q.number = Meant(q).number
  PROVE  /\ LayerAt(q.number) \in Recent(q) /\ LayerAt(q.number) # None
         /\ q.block = Meant(q) /\ q.number <= Fork => q.block \in Recent(q) /\ OnLiveChain(q.block)
  <1>1. q.low \in Nat /\ Fork <= q.low /\ q.low <= head /\ head \in Nat
    BY DEF Shaped, ChainInv
  <1>2. Meant(q) = On(q.low) /\ q.number = q.low
    BY <1>1, Heads DEF Meant
  <1>3. LayerAt(q.number) = Written(q.low) /\ q.low \in q.low..head
    BY <1>1, <1>2, Heads
  <1>4. ASSUME q.block = Meant(q), q.number <= Fork
        PROVE  q.block \in Recent(q) /\ OnLiveChain(q.block)
    <2>1. q.low = Fork /\ q.block = Live(Fork)
      BY <1>1, <1>2, <1>4, ChainAssumption DEF On
    <2>2. q.block = Written(q.low)
      BY <2>1, WrittenFork
    <2> QED
      BY <1>3, <2>1, <2>2, ChainAssumption DEF Recent, OnLiveChain, Live
  <1> QED
    BY <1>3, <1>4, WrittenKind DEF Recent

LEMMA RightRead ==
  ASSUME ChainInv, NEW q, Shaped(q), q.method \notin {"none", "storageDiff"}, Settled(q),
         q.number = Meant(q).number, q.value = LayerAt(q.number)
  PROVE  Right(q)
  <1>1. CASE q.at = None
    BY <1>1, HeadRead DEF Right
  <1>2. CASE q.at # None
    <2>1. q.number = q.at.number /\ IsBlock(q.at)
      BY <1>2 DEF Meant, Shaped
    <2>2. OfTheFork(q.at) => q.value = StateOf(q.at)
      BY <1>2, <2>1, ReadsState
    <2> QED
      BY <1>2, <2>2 DEF Right, Answered
  <1> QED
    BY <1>1, <1>2

LEMMA RightAtFork ==
  ASSUME ChainInv, NEW q, Shaped(q), q.method \notin {"none", "storageDiff"},
         q.number = Meant(q).number, q.number <= Fork, q.block = Meant(q), q.value = q.block
  PROVE  Right(q)
  <1>1. CASE q.at = None
    BY <1>1, HeadRead DEF Right
  <1>2. CASE q.at # None
    <2>1. q.number = q.at.number /\ IsBlock(q.at) /\ q.value = q.at
      BY <1>2 DEF Meant, Shaped
    <2>2. q.at.chain # "fork"
      BY <2>1, ChainAssumption DEF IsBlock
    <2> QED
      BY <1>2, <2>1, <2>2 DEF Right, Answered, Settled, StateOf
  <1> QED
    BY <1>1, <1>2

LEMMA SettledAtFork ==
  ASSUME NEW q, Shaped(q), q.number = Meant(q).number, q.number <= Fork
  PROVE  Settled(q)
  <1>1. CASE q.at = None
    BY <1>1 DEF Settled, None
  <1>2. CASE q.at # None
    <2>1. q.number = q.at.number /\ IsBlock(q.at)
      BY <1>2 DEF Meant, Shaped
    <2> QED
      BY <2>1, ChainAssumption DEF IsBlock, Settled
  <1> QED
    BY <1>1, <1>2

LEMMA ParentNumberOf ==
  ASSUME NEW b, IsBlock(b), b # None
  PROVE  Parent(b).number = b.number - 1
  <1>1. CASE b = Forked(Fork + 1)
    BY <1>1, ChainAssumption DEF Parent, Forked, Live
  <1>2. CASE b = Live(b.number)
    <2>1. Parent(b) = Live(b.number - 1)
      BY <1>2 DEF Parent, Live, Forked
    <2> QED
      BY <2>1 DEF Live
  <1>3. CASE b = Forked(b.number) /\ b # Forked(Fork + 1)
    <2>1. Parent(b) = Forked(b.number - 1)
      BY <1>3 DEF Parent, Forked
    <2> QED
      BY <2>1 DEF Forked
  <1> QED
    BY <1>1, <1>2, <1>3 DEF IsBlock

LEMMA Ends ==
  ASSUME NEW t \in Tasks, NEW w, Shaped(w), Finish(t, w)
  PROVE  \E q : /\ Becomes(t, q) /\ Like(q, w) /\ q.block = w.block /\ q.value = w.value
                /\ q.other = w.other /\ q.pc = EndPc(w)
  <1> DEFINE q == [w EXCEPT !.pc = EndPc(w)]
  <1>1. EndPc(w) \in {"subscribe", "listen", "done"}
        /\ (EndPc(w) # "done" => w.method \in Subscriptions)
    BY DEF EndPc
  <1>2. Becomes(t, q)
    BY DEF Finish, EndPc
  <1>3. Like(q, w) /\ q.block = w.block /\ q.value = w.value /\ q.other = w.other /\ q.pc = EndPc(w)
    BY <1>1, GoesOn
  <1> QED
    BY <1>2, <1>3

LEMMA EndsOther ==
  ASSUME NEW t \in Tasks, NEW r, Shaped(r), NEW v, NEW w, w = [r EXCEPT !.other = v], Finish(t, w)
  PROVE  \E q : /\ Becomes(t, q) /\ Like(q, r) /\ q.block = r.block /\ q.value = r.value
                /\ q.other = v /\ q.pc = EndPc(r)
  <1>1. Like(w, r) /\ w.block = r.block /\ w.value = r.value /\ w.other = v
    BY DEF Like, Shaped, Fields
  <1>2. PICK q : /\ Becomes(t, q) /\ Like(q, w) /\ q.block = w.block /\ q.value = w.value
                 /\ q.other = w.other /\ q.pc = EndPc(w)
    <2> HIDE DEF Finish
    <2>1. Shaped(w)
      BY <1>1 DEF Like
    <2> QED
      BY <2>1, Ends
  <1>3. EndPc(w) = EndPc(r) /\ Like(q, r)
    BY <1>1, <1>2 DEF EndPc, Like
  <1> QED
    BY <1>1, <1>2, <1>3

\* A watcher that has read what a block since its last event has.
LEMMA WatchEnds ==
  ASSUME ChainInv, NEW r, NEW q, r.method \in {"watchStorage", "watchVersion"}, WatchFine(r),
         Shaped(r), Like(q, r), q.pc = EndPc(r),
         q.value = Lost \/ q.value \in {Written(n) : n \in Since(r)..head}
  PROVE  Fine(q)
  <1>1. q.pc \in {"subscribe", "listen"} /\ (q.pc = "listen" => r.position > 0)
    BY DEF EndPc, Subscriptions, Shaped
  <1>2. WatchFine(q)
    BY <1>1 DEF WatchFine, Like, Since
  <1> QED
    BY <1>2, FineBy DEF Like

LEMMA ReadGives ==
  ASSUME ChainInv, NEW t \in Tasks, NEW r, r = request[t], Fine(r), r.pc \in {"read", "readParent"},
         Read(t, LayerAt(Target(t)))
  PROVE  Comes(t)
  <1>0. Shaped(r) /\ head \in Nat /\ Fork <= head
    BY DEF Fine, ChainInv
  <1> DEFINE v == LayerAt(Target(t))
  <1>1. r.method \in StateQueries \/ r.method = "watchStorage" \/ r.method \in Free
    BY <1>0, MethodCases DEF Fine, HashFine, GenesisFine, HeaderFine, HeadsFine, WatchFine
  <1>2. CASE r.method \in StateQueries
    <2>0. ReadFine(r) /\ Settled(r) /\ r.method # "watchStorage" /\ r.method # "none"
      BY <1>2 DEF Fine, ReadFine, StateQueries
    <2>1. CASE r.pc = "read" /\ r.method # "storageDiff"
      <3>1. FinishWith(t, v) /\ v = LayerAt(r.number)
        BY <2>0, <2>1 DEF Read, Target
      <3>2. PICK q : /\ Becomes(t, q) /\ Like(q, r) /\ q.block = r.block /\ q.value = v
                     /\ q.other = r.other /\ q.pc = EndPc(r)
        BY <1>0, <3>1, Finishes
      <3>3. q.pc = "done" /\ Settled(q) /\ Shaped(q) /\ Meant(q) = Meant(r) /\ q.number = r.number
            /\ q.method = r.method /\ q.at = r.at
        BY <1>2, <2>0, <3>2 DEF EndPc, Subscriptions, StateQueries, Like, Settled, Meant
      <3>4. Right(q)
        BY <2>0, <2>1, <3>1, <3>2, <3>3, RightRead DEF ReadFine
      <3>5. ReadFine(q)
        BY <2>0, <2>1, <3>3, <3>4 DEF ReadFine
      <3> QED
        BY <1>2, <3>2, <3>3, <3>5, FineBy DEF Comes
    <2>2. CASE r.pc = "read" /\ r.method = "storageDiff"
      <3> DEFINE q == [r EXCEPT !.value = v, !.pc = "readParent"]
      <3>1. Becomes(t, q) /\ v = LayerAt(r.number)
        BY <2>2 DEF Read, Target
      <3> HIDE DEF v
      <3>2. /\ Like(q, r) /\ q.block = r.block /\ q.value = v /\ q.pc = "readParent"
        BY <1>0 DEF Like, Shaped, Fields, Stage
      <3> HIDE DEF q
      <3>3. r.at # None /\ r.number = r.at.number /\ IsBlock(r.at)
        BY <1>0, <2>0, <2>2 DEF ReadFine, Meant, Shaped
      <3>4. OfTheFork(q.at) => q.value = StateOf(q.at)
        BY <3>1, <3>2, <3>3, ReadsState DEF Like
      <3>5. Settled(q) /\ Shaped(q) /\ Meant(q) = Meant(r) /\ q.number = r.number
            /\ q.method = r.method /\ q.at = r.at
        BY <2>0, <3>2 DEF Like, Settled, Meant
      <3>6. ReadFine(q)
        BY <2>0, <2>2, <3>2, <3>4, <3>5 DEF ReadFine
      <3> QED
        BY <1>2, <3>1, <3>5, <3>6, FineBy DEF Comes
    <2>3. CASE r.pc = "readParent"
      <3>0. PICK w, s : w = v /\ s = [r EXCEPT !.other = w]
        OBVIOUS
      <3>1. Finish(t, s) /\ v = LayerAt(r.block.number)
        BY <2>0, <2>3, <3>0 DEF Read, Target
      <3>2. PICK q : /\ Becomes(t, q) /\ Like(q, r) /\ q.block = r.block /\ q.value = r.value
                     /\ q.other = w /\ q.pc = EndPc(r)
        BY <1>0, <3>0, <3>1, EndsOther
      <3>3. /\ r.at # None /\ IsBlock(r.at) /\ r.at.number > 0 /\ r.block = Parent(r.at)
            /\ r.method = "storageDiff" /\ (OfTheFork(r.at) => r.value = StateOf(r.at))
        BY <1>0, <2>0, <2>3 DEF ReadFine, Shaped
      <3>4. OfTheFork(r.at) => v = StateOf(Parent(r.at))
        BY <3>1, <3>3, ReadsParent, ParentNumberOf
      <3>5. q.pc = "done" /\ Settled(q) /\ Shaped(q) /\ Meant(q) = Meant(r) /\ q.number = r.number
            /\ q.method = r.method /\ q.at = r.at
        BY <1>2, <2>0, <3>2 DEF EndPc, Subscriptions, StateQueries, Like, Settled, Meant
      <3>6. Right(q)
        BY <3>0, <3>2, <3>3, <3>4, <3>5 DEF Right, Answered
      <3>7. ReadFine(q)
        BY <2>0, <2>3, <3>5, <3>6 DEF ReadFine
      <3> QED
        BY <1>2, <3>2, <3>5, <3>7, FineBy DEF Comes
    <2> QED
      BY <2>1, <2>2, <2>3
  <1>3. CASE r.method = "watchStorage"
    <2>0. WatchFine(r) /\ r.pc = "read"
      BY <1>3 DEF Fine, WatchFine
    <2>1. FinishWith(t, v) /\ v = LayerAt(head)
      BY <1>3, <2>0 DEF Read, Target
    <2>2. PICK q : /\ Becomes(t, q) /\ Like(q, r) /\ q.block = r.block /\ q.value = v
                   /\ q.other = r.other /\ q.pc = EndPc(r)
      BY <1>0, <2>1, Finishes
    <2>3. v = Written(head)
      BY <1>0, <2>1, Heads
    <2>4. Since(r) \in Nat /\ Since(r) <= head
      BY <1>0, <1>3, <2>0 DEF WatchFine, Shaped, Since
    <2>5. q.value \in {Written(n) : n \in Since(r)..head}
      BY <1>0, <2>2, <2>3, <2>4
    <2> QED
      BY <1>0, <1>3, <2>0, <2>2, <2>5, WatchEnds DEF Comes
  <1>4. CASE r.method \in Free
    <2>1. r.method # "storageDiff"
      BY <1>4 DEF Free
    <2>2. CASE r.pc = "read"
      <3>1. FinishWith(t, v)
        BY <2>1, <2>2 DEF Read
      <3> QED
        BY <1>0, <1>4, <3>1, Finishes, FineBy DEF Comes, Like
    <2>3. CASE r.pc = "readParent"
      <3>0. PICK w, s : w = v /\ s = [r EXCEPT !.other = w]
        OBVIOUS
      <3>1. Finish(t, s)
        BY <2>1, <2>3, <3>0 DEF Read
      <3> QED
        BY <1>0, <1>4, <3>0, <3>1, EndsOther, FineBy DEF Comes, Like
    <2> QED
      BY <2>2, <2>3
  <1> QED
    BY <1>1, <1>2, <1>3, <1>4

(***************************************************************************)
(* The answers of the live chain.                                          *)
(***************************************************************************)

\* Nothing is what a request is told of a block that neither chain has.
LEMMA NothingFine ==
  ASSUME ChainInv, NEW t \in Tasks, NEW r, r = request[t], Fine(r), FineAsked(r), FinishWith(t, None),
         r.pc \notin {"hash", "genesis"}, r.pc \in Lookups => ~OnLiveChain(r.block),
         r.at = None => r.method \notin StateQueries,
         r.method \notin {"watchStorage", "watchVersion"}
  PROVE  Comes(t)
  <1>0. Shaped(r) /\ head \in Nat
    BY DEF Fine, ChainInv
  <1>1. PICK q : /\ Becomes(t, q) /\ Like(q, r) /\ q.block = r.block /\ q.value = None
                 /\ q.other = r.other /\ q.pc = EndPc(r)
    BY <1>0, Finishes
  <1>2. \/ r.method \in Free \/ r.method \in StateQueries
        \/ r.method \in {"getHeader", "getBlock"} \/ r.method = "newHeads"
    BY <1>0, MethodCases DEF Fine, FineAsked, Asking, HashFine, GenesisFine
  <1>3. CASE r.method \in Free
    BY <1>1, <1>3, FineBy DEF Comes, Like
  <1>4. CASE r.method \in StateQueries
    <2>1. /\ q.pc = "done" /\ Shaped(q) /\ Meant(q) = Meant(r) /\ q.number = r.number
          /\ q.method = r.method /\ q.at = r.at /\ r.at # None
      BY <1>1, <1>4 DEF EndPc, Subscriptions, StateQueries, Like, Meant
    <2>2. Right(q)
      BY <1>1, <2>1 DEF Right
    <2>3. ReadFine(q)
      BY <1>4, <2>1, <2>2 DEF Fine, ReadFine
    <2> QED
      BY <1>1, <1>4, <2>1, <2>3, FineBy DEF Comes
  <1>5. CASE r.method \in {"getHeader", "getBlock"}
    <2>1. r.block = Meant(r) /\ HeaderAsked(r) /\ ~OnLiveChain(r.block) /\ q.pc = "done"
      BY <1>1, <1>5 DEF Fine, FineAsked, Asking, HeaderFine, Lookups, EndPc, Subscriptions
    <2>2. r.block = r.at
      BY <2>1 DEF Meant, HeaderAsked
    <2>3. Whole(q)
      BY <1>1, <2>1, <2>2 DEF Whole, HeaderAsked, Like
    <2>4. HeaderFine(q)
      BY <2>1, <2>3 DEF HeaderFine
    <2> QED
      BY <1>1, <1>5, <2>4, FineBy DEF Comes, Like
  <1>6. CASE r.method = "newHeads"
    <2>1. q.pc = "subscribe"
      BY <1>1, <1>6 DEF Fine, FineAsked, Asking, HeadsFine, EndPc, Subscriptions
    <2>2. HeadsFine(q)
      BY <1>0, <1>1, <2>1 DEF HeadsFine, None
    <2> QED
      BY <1>1, <1>6, <2>2, FineBy DEF Comes, Like
  <1> QED
    BY <1>2, <1>3, <1>4, <1>5, <1>6

\* A state query that ends with the block itself, at or below the fork point.
LEMMA BlockFine ==
  ASSUME ChainInv, NEW t \in Tasks, NEW r, r = request[t], Fine(r), r.method \in StateQueries,
         r.method # "storageDiff", r.pc \in {"readAt", "proxy"}, r.number <= Fork,
         FinishWith(t, r.block)
  PROVE  Comes(t)
  <1>0. Shaped(r) /\ ReadFine(r) /\ r.block = Meant(r) /\ r.number = Meant(r).number
        /\ r.method # "none"
    BY DEF Fine, ReadFine, StateQueries
  <1>1. PICK q : /\ Becomes(t, q) /\ Like(q, r) /\ q.block = r.block /\ q.value = r.block
                 /\ q.other = r.other /\ q.pc = EndPc(r)
    BY <1>0, Finishes
  <1>2. /\ q.pc = "done" /\ Shaped(q) /\ Meant(q) = Meant(r) /\ q.number = r.number
        /\ q.method = r.method /\ q.at = r.at
    BY <1>1 DEF EndPc, Subscriptions, StateQueries, Like, Meant
  <1>3. Right(q)
    BY <1>0, <1>1, <1>2, RightAtFork
  <1>4. ReadFine(q)
    BY <1>0, <1>2, <1>3 DEF ReadFine
  <1> QED
    BY <1>1, <1>2, <1>4, FineBy DEF Comes

LEMMA FoundFine ==
  ASSUME ChainInv, NEW t \in Tasks, NEW r, r = request[t], Fine(r), FineAsked(r), Exists(t), Found(t)
  PROVE  Comes(t)
  <1>0. Shaped(r) /\ r.pc \in Asking
    BY DEF Fine, FineAsked
  <1>1. CASE r.pc \in Lookups
    <2>1. OnLiveChain(r.block) /\ Resolved(t)
      BY <1>1 DEF Exists, Found, Lookups
    <2> QED
      BY <1>1, <2>1, FoundThere, ResolvedFine
  <1>2. CASE r.pc = "hash"
    <2>1. FinishWith(t, Live(r.number))
      BY <1>2 DEF Found, Lookups
    <2>2. PICK q : /\ Becomes(t, q) /\ Like(q, r) /\ q.block = r.block /\ q.value = Live(r.number)
                   /\ q.other = r.other /\ q.pc = EndPc(r)
      BY <1>0, <2>1, Finishes
    <2>3. r.method \in Free \/ r.method = "getBlockHash"
      BY <1>0, <1>2, MethodCases DEF Fine, GenesisFine, HeaderFine, ReadFine, HeadsFine, WatchFine
    <2>4. CASE r.method = "getBlockHash"
      <3>1. q.value = On(q.number) /\ q.pc = "done"
        BY <2>2, <2>4 DEF FineAsked, On, Like, EndPc, Subscriptions
      <3>2. HashFine(q)
        BY <3>1 DEF HashFine
      <3> QED
        BY <2>2, <2>4, <3>2, FineBy DEF Comes, Like
    <2> QED
      BY <2>2, <2>3, <2>4, FineBy DEF Comes, Like
  <1>3. CASE r.pc = "genesis"
    <2>1. FinishWith(t, Live(0))
      BY <1>3 DEF Found, Lookups
    <2>2. PICK q : /\ Becomes(t, q) /\ Like(q, r) /\ q.block = r.block /\ q.value = Live(0)
                   /\ q.other = r.other /\ q.pc = EndPc(r)
      BY <1>0, <2>1, Finishes
    <2>3. r.method \in Free \/ r.method = "genesisHash"
      BY <1>0, <1>3, MethodCases DEF Fine, HashFine, HeaderFine, ReadFine, HeadsFine, WatchFine
    <2>4. CASE r.method = "genesisHash"
      <3>1. GenesisFine(q)
        BY <2>2, <2>4 DEF GenesisFine, EndPc, Subscriptions
      <3> QED
        BY <2>2, <2>4, <3>1, FineBy DEF Comes, Like
    <2> QED
      BY <2>2, <2>3, <2>4, FineBy DEF Comes, Like
  <1>4. CASE r.pc \in {"read", "readParent"}
    <2>1. Read(t, LayerAt(Target(t)))
      BY <1>4 DEF Found, Lookups
    <2> QED
      BY <1>4, <2>1, ReadGives
  <1>5. CASE r.pc = "readAt" /\ r.method = "descendants"
    <2> DEFINE q == [r EXCEPT !.pc = "read"]
    <2>1. Becomes(t, q)
      BY <1>5 DEF Found, Lookups
    <2>2. Like(q, r) /\ q.block = r.block /\ q.pc = "read"
      BY <1>0, GoesOn DEF Stage
    <2> HIDE DEF q
    <2>3. ReadFine(r) /\ r.method \in StateQueries
      BY <1>5 DEF Fine, StateQueries
    <2>4. /\ Shaped(q) /\ Meant(q) = Meant(r) /\ q.number = r.number /\ q.method = r.method
          /\ q.at = r.at
      BY <2>2 DEF Like, Meant
    <2>5. Settled(q)
      BY <1>5, <2>3, <2>4, SettledAtFork DEF ReadFine
    <2>6. ReadFine(q)
      BY <1>5, <2>2, <2>3, <2>4, <2>5 DEF ReadFine
    <2> QED
      BY <2>1, <2>3, <2>4, <2>6, FineBy DEF Comes
  <1>6. CASE r.pc = "proxy" \/ (r.pc = "readAt" /\ r.method # "descendants")
    <2>1. FinishWith(t, r.block) /\ OnLiveChain(r.block)
      BY <1>6 DEF Found, Exists, Lookups
    <2>2. r.method \in Free \/ r.method \in StateQueries \/ r.method \in {"watchStorage", "watchVersion"}
      BY <1>0, <1>6, MethodCases DEF Fine, HashFine, GenesisFine, HeaderFine, HeadsFine
    <2>3. CASE r.method \in StateQueries
      <3>1. r.number <= Fork /\ r.method # "storageDiff"
        BY <1>6, <2>1, <2>3 DEF Fine, ReadFine, Meant, CodeOnly
      <3> QED
        BY <1>6, <2>1, <2>3, <3>1, BlockFine
    <2>4. CASE r.method \in Free
      BY <1>0, <2>1, <2>4, Finishes, FineBy DEF Comes, Like
    <2>5. CASE r.method \in {"watchStorage", "watchVersion"}
      <3>1. PICK q : /\ Becomes(t, q) /\ Like(q, r) /\ q.block = r.block /\ q.value = r.block
                     /\ q.other = r.other /\ q.pc = EndPc(r)
        BY <1>0, <2>1, Finishes
      <3>2. WatchFine(r) /\ r.block = Live(Fork) /\ Since(r) = Fork
        BY <1>6, <2>5 DEF Fine, WatchFine, Since
      <3>3. r.block = Written(Fork) /\ Fork \in Fork..head
        BY <3>2, WrittenFork, ChainAssumption DEF ChainInv
      <3> QED
        BY <1>0, <2>5, <3>1, <3>2, <3>3, WatchEnds DEF Comes
    <2> QED
      BY <2>2, <2>3, <2>4, <2>5
  <1>7. CASE r.pc = "find"
    <2>0. PICK v : v = CallSees(t)
      OBVIOUS
    <2>1. FinishWith(t, v) /\ OnLiveChain(r.block)
      BY <1>7, <2>0 DEF Found, Exists, Lookups
    <2>2. PICK q : /\ Becomes(t, q) /\ Like(q, r) /\ q.block = r.block /\ q.value = v
                   /\ q.other = r.other /\ q.pc = EndPc(r)
      BY <1>0, <2>1, Finishes
    <2>3. r.method \in Free \/ r.method \in StateQueries
      BY <1>0, <1>7, MethodCases DEF Fine, HashFine, GenesisFine, HeaderFine, HeadsFine, WatchFine
    <2>4. CASE r.method \in StateQueries
      <3>1. /\ ReadFine(r) /\ r.method \in CodeOnly /\ r.at # None /\ r.block = r.at
            /\ r.number = Meant(r).number /\ Meant(r) = r.at
        BY <1>7, <2>4 DEF Fine, ReadFine, Meant
      <3>2. q.value = LayerAt(r.number)
        BY <2>0, <2>2, <3>1 DEF CallSees
      <3>3. /\ q.pc = "done" /\ Shaped(q) /\ Meant(q) = Meant(r) /\ q.number = r.number
            /\ q.method = r.method /\ q.at = r.at
        BY <2>2, <2>4 DEF EndPc, Subscriptions, StateQueries, Like, Meant
      <3>4. Settled(q) /\ q.method \notin {"none", "storageDiff"}
        BY <2>1, <3>1, <3>3 DEF Settled, OnLiveChain, CodeOnly
      <3>5. Right(q)
        BY <3>1, <3>2, <3>3, <3>4, RightRead
      <3>6. ReadFine(q)
        BY <3>1, <3>3, <3>5 DEF ReadFine
      <3> QED
        BY <2>2, <2>4, <3>3, <3>6, FineBy DEF Comes
    <2> QED
      BY <2>2, <2>3, <2>4, FineBy DEF Comes, Like
  <1> QED
    BY <1>0, <1>1, <1>2, <1>3, <1>4, <1>5, <1>6, <1>7 DEF Asking, Lookups

LEMMA NotFoundFine ==
  ASSUME ChainInv, NEW t \in Tasks, NEW r, r = request[t], Fine(r), FineAsked(r), ~Exists(t), NotFound(t)
  PROVE  Comes(t)
  <1>0. Shaped(r) /\ r.pc \in Asking /\ head \in Nat /\ Fork <= head
    BY DEF Fine, FineAsked, ChainInv
  <1>1. r.pc \notin {"hash", "genesis"}
    BY DEF Exists
  <1>2. CASE r.method = "getKeysPaged" /\ r.pc = "number"
    <2> DEFINE q == [r EXCEPT !.pc = "readAt"]
    <2>1. Becomes(t, q)
      BY <1>2 DEF NotFound
    <2>2. Like(q, r) /\ q.block = r.block /\ q.pc = "readAt"
      BY <1>0, GoesOn DEF Stage
    <2> HIDE DEF q
    <2>3. ReadFine(r) /\ r.method \in StateQueries /\ r.at # None /\ ~OnLiveChain(r.block)
      BY <1>2 DEF Fine, FineAsked, ReadAsked, StateQueries, Exists
    <2>4. /\ Shaped(q) /\ Meant(q) = Meant(r) /\ q.number = r.number /\ q.method = r.method
          /\ q.at = r.at
      BY <2>2 DEF Like, Meant
    <2>5. r.block = r.at
      BY <1>2, <2>3 DEF ReadFine, Meant
    <2>6. ReadFine(q)
      BY <1>2, <2>2, <2>3, <2>4, <2>5 DEF ReadFine
    <2> QED
      BY <2>1, <2>3, <2>4, <2>6, FineBy DEF Comes
  <1>3. CASE ~(r.method = "getKeysPaged" /\ r.pc = "number")
    <2>1. FinishWith(t, None)
      BY <1>3 DEF NotFound
    <2>2. r.pc \in Lookups => ~OnLiveChain(r.block)
      BY DEF Exists, Lookups
    <2>3. ASSUME r.method \in StateQueries PROVE r.at # None
      <3>1. SUFFICES ASSUME r.at = None PROVE FALSE
        OBVIOUS
      <3>2. ReadFine(r) /\ r.method # "none" /\ r.method # "storageDiff" /\ r.method # "watchStorage"
        BY <2>3, <3>1 DEF Fine, ReadFine, StateQueries
      <3>3. r.pc \in {"read", "readAt", "proxy"}
        BY <1>0, <1>1, <2>3, <3>1, <3>2 DEF Shaped, ReadFine, Asking, FineAsked, ReadAsked
      <3>4. CASE r.pc = "read"
        <4>1. LayerAt(r.number) = None
          BY <3>2, <3>4 DEF Exists, Target
        <4> QED
          BY <1>0, <3>1, <3>2, <4>1, HeadRead DEF ReadFine
      <3>5. CASE r.pc \in {"readAt", "proxy"}
        <4>1. ~OnLiveChain(r.block)
          BY <3>5 DEF Exists
        <4>2. r.block = Meant(r) /\ r.number <= Fork /\ r.number = Meant(r).number
          BY <3>1, <3>2, <3>5 DEF ReadFine
        <4> QED
          BY <1>0, <3>1, <3>2, <4>1, <4>2, HeadRead
      <3> QED
        BY <3>3, <3>4, <3>5
    <2>4. ASSUME r.method \in {"watchStorage", "watchVersion"} PROVE FALSE
      <3>1. WatchFine(r) /\ r.pc \in {"read", "proxy"}
        BY <1>0, <2>4 DEF Fine, WatchFine, Asking
      <3>2. CASE r.pc = "read"
        <4>1. LayerAt(head) = None
          BY <2>4, <3>1, <3>2 DEF Exists, Target, WatchFine
        <4> QED
          BY <1>0, <4>1, Heads, WrittenKind
      <3>3. CASE r.pc = "proxy"
        BY <3>1, <3>3, ChainAssumption DEF Exists, WatchFine, OnLiveChain, Live
      <3> QED
        BY <3>1, <3>2, <3>3
    <2> QED
      BY <1>1, <2>1, <2>2, <2>3, <2>4, NothingFine
  <1> QED
    BY <1>2, <1>3

LEMMA FailedFine ==
  ASSUME ChainInv, NEW t \in Tasks, NEW r, r = request[t], Fine(r), FineAsked(r), Failed(t)
  PROVE  Comes(t)
  <1>0. Shaped(r) /\ r.pc \in Asking
    BY DEF Fine, FineAsked
  <1>1. CASE r.pc = "proxy"
    <2> DEFINE q == [r EXCEPT !.pc = "call"]
    <2>1. Becomes(t, q)
      BY <1>1 DEF Failed
    <2>2. Like(q, r) /\ q.block = r.block /\ q.pc = "call"
      BY <1>0, GoesOn DEF Stage
    <2> HIDE DEF q
    <2>3. r.method \in Free \/ r.method \in StateQueries \/ r.method \in {"watchStorage", "watchVersion"}
      BY <1>0, <1>1, MethodCases DEF Fine, HashFine, GenesisFine, HeaderFine, HeadsFine
    <2>4. CASE r.method \in StateQueries
      <3>1. ReadFine(q)
        BY <1>1, <2>2, <2>4 DEF Fine, ReadFine, Like, Meant
      <3> QED
        BY <2>1, <2>2, <2>4, <3>1, FineBy DEF Comes, Like
    <2>5. CASE r.method \in {"watchStorage", "watchVersion"}
      <3>1. WatchFine(r) /\ r.block = Live(Fork) /\ Since(r) = Fork
        BY <1>1, <2>5 DEF Fine, WatchFine, Since
      <3>2. q.block = On(Since(q))
        BY <2>2, <3>1, ChainAssumption DEF On, Since, Like
      <3>3. WatchFine(q)
        BY <1>1, <2>2, <3>1, <3>2 DEF WatchFine, Like
      <3> QED
        BY <2>1, <2>2, <2>5, <3>3, FineBy DEF Comes, Like
    <2> QED
      BY <2>1, <2>2, <2>3, <2>4, <2>5, FineBy DEF Comes, Like
  <1>2. CASE \/ r.pc = "read" /\ r.method \in ErrorAsAnswer
             \/ r.pc # "proxy" /\ r.method = "watchVersion"
             \/ r.pc = "readAt" /\ r.method = "descendants"
    <2>1. FinishWith(t, Lost)
      BY <1>2 DEF Failed, ErrorAsAnswer
    <2>2. PICK q : /\ Becomes(t, q) /\ Like(q, r) /\ q.block = r.block /\ q.value = Lost
                   /\ q.other = r.other /\ q.pc = EndPc(r)
      BY <1>0, <2>1, Finishes
    <2>3. \/ r.method \in {"watchStorage", "watchVersion"}
          \/ r.method \in StateQueries /\ r.method # "storageDiff"
      BY <1>2 DEF ErrorAsAnswer, StateQueries
    <2>4. CASE r.method \in {"watchStorage", "watchVersion"}
      BY <1>0, <2>2, <2>4, WatchEnds DEF Comes, Fine
    <2>5. CASE r.method \in StateQueries /\ r.method # "storageDiff"
      <3>1. /\ q.pc = "done" /\ Shaped(q) /\ Meant(q) = Meant(r) /\ q.number = r.number
            /\ q.method = r.method /\ q.at = r.at /\ ReadFine(r)
        BY <2>2, <2>5 DEF EndPc, Subscriptions, StateQueries, Like, Meant, Fine
      <3>2. Settled(r)
        <4>1. CASE r.pc = "read"
          BY <3>1, <4>1 DEF ReadFine
        <4>2. CASE r.pc = "readAt" /\ r.method = "descendants"
          BY <1>0, <3>1, <4>2, SettledAtFork DEF ReadFine
        <4> QED
          BY <1>2, <2>5, <4>1, <4>2 DEF StateQueries
      <3>3. Right(q)
        BY <2>2, <2>5, <3>1, <3>2 DEF Right, Answered, Settled
      <3>4. ReadFine(q)
        BY <3>1, <3>3 DEF ReadFine
      <3> QED
        BY <2>2, <2>5, <3>1, <3>4, FineBy DEF Comes
    <2> QED
      BY <2>3, <2>4, <2>5
  <1>3. CASE ~ \/ r.pc = "proxy"
               \/ r.pc = "read" /\ r.method \in ErrorAsAnswer
               \/ r.pc # "proxy" /\ r.method = "watchVersion"
               \/ r.pc = "readAt" /\ r.method = "descendants"
    <2> DEFINE q == [r EXCEPT !.pc = "error"]
    <2>1. Becomes(t, q)
      BY <1>3 DEF Failed
    <2>2. Like(q, r) /\ q.block = r.block /\ q.pc = "error"
      BY <1>0, GoesOn
    <2> HIDE DEF q
    <2>3. CASE r.method \in StateQueries
      <3>1. ReadFine(q)
        BY <2>2, <2>3 DEF Fine, ReadFine, Like, Meant
      <3> QED
        BY <2>1, <2>2, <2>3, <3>1, FineBy DEF Comes, Like
    <2>4. CASE r.method \in {"watchStorage", "watchVersion"}
      <3>1. WatchFine(q)
        BY <2>2, <2>4 DEF Fine, WatchFine, Like
      <3> QED
        BY <2>1, <2>2, <2>4, <3>1, FineBy DEF Comes, Like
    <2>5. CASE r.method \notin StateQueries /\ r.method \notin {"watchStorage", "watchVersion"}
      <3>1. HashFine(q) /\ GenesisFine(q) /\ HeaderFine(q) /\ HeadsFine(q)
        BY <2>2 DEF HashFine, GenesisFine, HeaderFine, HeadsFine
      <3> QED
        BY <1>0, <2>1, <2>2, <2>5, <3>1, MethodCases, FineBy DEF Comes, Like
    <2> QED
      BY <2>3, <2>4, <2>5
  <1> QED
    BY <1>1, <1>2, <1>3

(***************************************************************************)
(* The remaining steps of a request.                                       *)
(***************************************************************************)

\* Questions put to the live chain.
LEMMA AsksFine ==
  ASSUME ChainInv, NEW t \in Tasks, NEW r, r = request[t], Fine(r),
         \/ FindUpstream(t)
         \/ HashAt(t) /\ r.number < Fork
         \/ r.pc \in {"read", "readParent", "readAt", "proxy", "find", "genesis"}
  PROVE  FineAsked(r)
  <1>0. Shaped(r) /\ head \in Nat /\ Fork <= head
    BY DEF Fine, ChainInv
  <1>1. r.pc \in Asking
    BY DEF FindUpstream, HashAt, Asking, Lookups
  <1>2. ASSUME r.method = "getBlockHash" PROVE r.number <= Fork
    <2>1. r.pc \in {"hash", "done", "error"} /\ r.number \in Nat
      BY <1>0, <1>2 DEF Fine, HashFine, Shaped
    <2>2. r.number < Fork
      BY <2>1 DEF FindUpstream, Lookups
    <2> QED
      BY <2>1, <2>2, ChainAssumption
  <1>3. ASSUME r.method # "none", r.at = None, r.block = Meant(r), FindUpstream(t) PROVE FALSE
    <2>1. r.block = On(r.low) /\ r.low \in Nat /\ Fork <= r.low /\ r.low <= head
      BY <1>0, <1>3 DEF Meant, Shaped
    <2> QED
      BY <1>3, <2>1, Heads DEF FindUpstream
  <1>4. ASSUME r.method \in {"getHeader", "getBlock"} PROVE HeaderAsked(r)
    <2>1. r.pc \in {"header", "body"} /\ r.block = Meant(r) /\ FindUpstream(t)
      BY <1>1, <1>4 DEF Fine, HeaderFine, Asking, HashAt
    <2>2. r.at # None /\ r.block = r.at /\ r.at \notin LocalBlocks
      BY <1>3, <1>4, <2>1 DEF Meant, FindUpstream
    <2>3. ASSUME r.at.chain = "fork" PROVE r.low < r.at.number
      <3>1. r.at = Forked(r.at.number) /\ r.at.number \in Nat /\ Fork < r.at.number
        BY <1>0, <2>2, <2>3 DEF Shaped, IsBlock, Live, None
      <3>2. r.at = On(r.at.number)
        BY <3>1, ChainAssumption DEF On
      <3>3. ~(r.at.number <= head)
        BY <2>2, <3>1, <3>2, Heads, ChainAssumption
      <3>4. r.low \in Nat /\ r.low <= head
        BY <1>0, <1>4 DEF Shaped
      <3> QED
        BY <1>0, <3>1, <3>3, <3>4
    <2> QED
      BY <2>2, <2>3 DEF HeaderAsked
  <1>5. ASSUME r.method \in StateQueries PROVE ReadAsked(r)
    <2>1. SUFFICES ASSUME r.pc = "number" PROVE r.at # None
      BY DEF ReadAsked
    <2>2. FindUpstream(t) /\ r.block = Meant(r) /\ r.method # "none"
      BY <1>5, <2>1 DEF Fine, ReadFine, HashAt, StateQueries
    <2> QED
      BY <1>3, <2>2
  <1> QED
    BY <1>1, <1>2, <1>4, <1>5 DEF FineAsked

LEMMA LookupFine ==
  ASSUME ChainInv, NEW t \in Tasks, NEW r, r = request[t], Fine(r), FindLocally(t) \/ FindCached(t)
  PROVE  Comes(t)
  <1>1. r.pc \in Lookups /\ Resolved(t) /\ (r.block \in LocalBlocks \/ r.block \in CachedBlocks)
    BY DEF FindLocally, FindCached, Lookups
  <1> QED
    BY <1>1, FoundThere, ResolvedFine

LEMMA HashFound ==
  ASSUME ChainInv, NEW t \in Tasks, NEW r, r = request[t], Fine(r), HashAt(t), ~(r.number < Fork)
  PROVE  Comes(t)
  <1>0. Shaped(r) /\ r.number \in Nat /\ head \in Nat /\ r.pc = "hash"
    BY DEF Fine, ChainInv, Shaped, HashAt
  <1>1. PICK v : FinishWith(t, v) /\ (v = On(r.number) \/ (v = None /\ r.number > head))
    BY <1>0 DEF HashAt
  <1>2. PICK q : /\ Becomes(t, q) /\ Like(q, r) /\ q.block = r.block /\ q.value = v
                 /\ q.other = r.other /\ q.pc = EndPc(r)
    BY <1>0, <1>1, Finishes
  <1>3. r.method \in Free \/ r.method = "getBlockHash"
    BY <1>0, MethodCases DEF Fine, GenesisFine, HeaderFine, ReadFine, HeadsFine, WatchFine
  <1>4. CASE r.method = "getBlockHash"
    <2>1. r.low \in Nat /\ r.low <= head
      BY <1>0, <1>4 DEF Shaped
    <2>2. v = None /\ r.number > head => r.number > r.low
      BY <1>0, <2>1
    <2>3. HashFine(q)
      BY <1>1, <1>2, <1>4, <2>2 DEF HashFine, Like, EndPc, Subscriptions
    <2> QED
      BY <1>2, <1>4, <2>3, FineBy DEF Comes, Like
  <1> QED
    BY <1>2, <1>3, <1>4, FineBy DEF Comes, Like

LEMMA ListKeysFine ==
  ASSUME ChainInv, NEW t \in Tasks, NEW r, r = request[t], Fine(r), ListKeys(t)
  PROVE  Comes(t)
  <1>0. Shaped(r) /\ head \in Nat /\ r.pc = "keys" /\ r.number \in Nat
    BY DEF Fine, ChainInv, ListKeys, Shaped
  <1>1. r.method \in Free \/ r.method \in StateQueries
    BY <1>0, MethodCases DEF Fine, HashFine, GenesisFine, HeaderFine, HeadsFine, WatchFine
  <1>2. CASE r.method = "descendants"
    <2> DEFINE q == [r EXCEPT !.pc = "read"]
    <2>1. Becomes(t, q)
      BY <1>2 DEF ListKeys
    <2>2. Like(q, r) /\ q.block = r.block /\ q.pc = "read"
      BY <1>0, GoesOn DEF Stage
    <2> HIDE DEF q
    <2>3. ReadFine(q) /\ r.method \in StateQueries
      BY <1>0, <1>2, <2>2 DEF Fine, ReadFine, Like, Meant, Settled, StateQueries
    <2> QED
      BY <2>1, <2>2, <2>3, FineBy DEF Comes, Like
  <1>3. CASE r.method # "descendants"
    <2>0. PICK v : v = Written(r.number)
      OBVIOUS
    <2>1. FinishWith(t, v)
      BY <1>3, <2>0 DEF ListKeys
    <2>2. PICK q : /\ Becomes(t, q) /\ Like(q, r) /\ q.block = r.block /\ q.value = v
                   /\ q.other = r.other /\ q.pc = EndPc(r)
      BY <1>0, <2>1, Finishes
    <2>3. CASE r.method \in StateQueries
      <3>1. /\ q.pc = "done" /\ Shaped(q) /\ Meant(q) = Meant(r) /\ q.number = r.number
            /\ q.method = r.method /\ q.at = r.at /\ ReadFine(r)
        BY <2>2, <2>3 DEF EndPc, Subscriptions, StateQueries, Like, Meant, Fine
      <3>2. /\ Settled(q) /\ q.number = Meant(q).number /\ q.number > Fork
            /\ q.method \notin {"none", "storageDiff"}
        BY <1>0, <3>1 DEF ReadFine, Settled
      <3>3. OfTheFork(q.at) => q.number <= head \/ q.at = None
        <4>1. SUFFICES ASSUME OfTheFork(q.at), q.at # None PROVE q.number <= head
          OBVIOUS
        <4>2. PICK n \in 0..head : q.at = On(n)
          BY <4>1 DEF OfTheFork
        <4>3. q.number = n
          BY <1>0, <3>2, <4>1, <4>2, Heads DEF Meant
        <4> QED
          BY <1>0, <4>3
      <3>4. Right(q)
        <4>1. CASE q.at = None
          <5>1. q.number = q.low /\ q.low <= head /\ q.low \in Nat
            BY <1>0, <3>1, <3>2, <4>1, Heads DEF Meant, Shaped
          <5>2. q.value = Written(q.low) /\ q.low \in q.low..head
            BY <1>0, <2>0, <2>2, <3>1, <5>1
          <5> QED
            BY <4>1, <5>2 DEF Right, Recent
        <4>2. CASE q.at # None
          <5>1. OfTheFork(q.at) => q.value = LayerAt(q.number)
            BY <1>0, <2>0, <2>2, <3>1, <3>2, <3>3, <4>2, Layers
          <5>2. q.number = q.at.number /\ IsBlock(q.at)
            BY <3>1, <3>2, <4>2 DEF Meant, Shaped
          <5>3. OfTheFork(q.at) => q.value = StateOf(q.at)
            BY <4>2, <5>1, <5>2, ReadsState
          <5> QED
            BY <3>2, <4>2, <5>3 DEF Right, Answered
        <4> QED
          BY <4>1, <4>2
      <3>5. ReadFine(q)
        BY <3>1, <3>4 DEF ReadFine
      <3> QED
        BY <2>2, <2>3, <3>1, <3>5, FineBy DEF Comes
    <2> QED
      BY <1>1, <2>2, <2>3, FineBy DEF Comes, Like
  <1> QED
    BY <1>2, <1>3

LEMMA CachedFine ==
  ASSUME ChainInv, NEW t \in Tasks, NEW r, r = request[t], Fine(r), r.pc = "readAt",
         r.method = "queryStorageAt", FinishWith(t, r.block)
  PROVE  Comes(t)
  <1>1. r.method \in StateQueries /\ ReadFine(r) /\ r.number <= Fork
    BY DEF Fine, ReadFine, StateQueries
  <1> QED
    BY <1>1, BlockFine

LEMMA CallFine ==
  ASSUME ChainInv, NEW t \in Tasks, NEW r, r = request[t], Fine(r), CallAtBlock(t)
  PROVE  Comes(t)
  <1>0. Shaped(r) /\ head \in Nat /\ Fork <= head /\ r.pc = "call"
    BY DEF Fine, ChainInv, CallAtBlock
  <1>1. r.method \in Free \/ r.method \in StateQueries \/ r.method \in {"watchStorage", "watchVersion"}
    BY <1>0, MethodCases DEF Fine, HashFine, GenesisFine, HeaderFine, HeadsFine
  <1>2. CASE r.block \in LocalBlocks
    <2>0. PICK v : v = CallSees(t)
      OBVIOUS
    <2>1. FinishWith(t, v)
      BY <1>2, <2>0 DEF CallAtBlock
    <2>2. PICK q : /\ Becomes(t, q) /\ Like(q, r) /\ q.block = r.block /\ q.value = v
                   /\ q.other = r.other /\ q.pc = EndPc(r)
      BY <1>0, <2>1, Finishes
    <2>3. CASE r.method \in StateQueries
      <3>1. /\ q.pc = "done" /\ Shaped(q) /\ Meant(q) = Meant(r) /\ q.number = r.number
            /\ q.method = r.method /\ q.at = r.at /\ ReadFine(r)
        BY <2>2, <2>3 DEF EndPc, Subscriptions, StateQueries, Like, Meant, Fine
      <3>2. r.method \in CodeOnly /\ r.block = Meant(r) /\ r.number = Meant(r).number
        BY <1>0, <3>1 DEF ReadFine
      <3>3. q.value = LayerAt(q.number)
        BY <2>0, <2>2, <3>1, <3>2 DEF CallSees
      <3>4. There(r.block)
        BY <1>2, FoundThere
      <3>5. Settled(q) /\ q.method \notin {"none", "storageDiff"}
        BY <3>1, <3>2, <3>4 DEF Settled, There, Meant, CodeOnly, None
      <3>6. Right(q)
        BY <3>1, <3>2, <3>3, <3>5, RightRead
      <3>7. ReadFine(q)
        BY <3>1, <3>6 DEF ReadFine
      <3> QED
        BY <2>2, <2>3, <3>1, <3>7, FineBy DEF Comes
    <2>4. CASE r.method \in {"watchStorage", "watchVersion"}
      <3>1. WatchFine(r) /\ r.method = "watchVersion" /\ r.block = On(Since(r))
        BY <1>0, <2>4 DEF Fine, WatchFine
      <3>2. Since(r) \in Nat /\ Fork <= Since(r) /\ Since(r) <= head
        BY <1>0, <3>1, ChainAssumption DEF WatchFine, Shaped, Since
      <3>3. v = LayerAt(Since(r))
        BY <2>0, <3>1, <3>2, Heads DEF CallSees, CodeOnly
      <3>4. v = Written(Since(r)) /\ Since(r) \in Since(r)..head
        BY <1>0, <3>2, <3>3, Heads
      <3>5. q.value \in {Written(n) : n \in Since(r)..head}
        BY <2>2, <3>4
      <3> QED
        BY <1>0, <2>2, <2>4, <3>1, <3>5, WatchEnds DEF Comes
    <2> QED
      BY <1>1, <2>2, <2>3, <2>4, FineBy DEF Comes, Like
  <1>3. CASE r.block \notin LocalBlocks
    <2> DEFINE q == [r EXCEPT !.pc = "find"]
    <2>1. Becomes(t, q)
      BY <1>3 DEF CallAtBlock
    <2>2. Like(q, r) /\ q.block = r.block /\ q.pc = "find"
      BY <1>0, GoesOn DEF Stage
    <2> HIDE DEF q
    <2>3. CASE r.method \in StateQueries
      <3>1. ReadFine(r) /\ r.block = Meant(r) /\ r.method \in CodeOnly /\ r.method # "none"
        BY <1>0, <2>3 DEF Fine, ReadFine, StateQueries
      <3>2. r.at # None
        BY <1>0, <1>3, <3>1, Heads DEF Meant, Shaped
      <3>3. ReadFine(q)
        BY <1>0, <2>2, <3>1, <3>2 DEF ReadFine, Like, Meant
      <3> QED
        BY <2>1, <2>2, <2>3, <3>3, FineBy DEF Comes, Like
    <2>4. CASE r.method \in {"watchStorage", "watchVersion"}
      <3>1. WatchFine(r) /\ r.block = On(Since(r))
        BY <1>0, <2>4 DEF Fine, WatchFine
      <3>2. Since(r) \in Nat /\ Fork <= Since(r) /\ Since(r) <= head
        BY <1>0, <2>4, <3>1, ChainAssumption DEF WatchFine, Shaped, Since
      <3> QED
        BY <1>3, <3>1, <3>2, Heads
    <2> QED
      BY <1>1, <2>1, <2>2, <2>3, <2>4, FineBy DEF Comes, Like
  <1> QED
    BY <1>2, <1>3

LEMMA GenesisFound ==
  ASSUME ChainInv, NEW t \in Tasks, NEW r, r = request[t], Fine(r), r.pc = "genesis", FinishWith(t, Live(0))
  PROVE  Comes(t)
  <1>0. Shaped(r)
    BY DEF Fine
  <1>1. PICK q : /\ Becomes(t, q) /\ Like(q, r) /\ q.block = r.block /\ q.value = Live(0)
                 /\ q.other = r.other /\ q.pc = EndPc(r)
    BY <1>0, Finishes
  <1>2. r.method \in Free \/ r.method = "genesisHash"
    BY <1>0, MethodCases DEF Fine, HashFine, HeaderFine, ReadFine, HeadsFine, WatchFine
  <1>3. r.method = "genesisHash" => GenesisFine(q)
    BY <1>1 DEF GenesisFine, EndPc, Subscriptions
  <1> QED
    BY <1>1, <1>2, <1>3, FineBy DEF Comes, Like

LEMMA PropertiesFine ==
  ASSUME NEW t \in Tasks, NEW r, r = request[t], Fine(r), ChainProperties(t)
  PROVE  Comes(t)
  <1>0. Shaped(r) /\ r.pc = "properties" /\ FinishWith(t, None)
    BY DEF Fine, ChainProperties
  <1>1. r.method \in Free
    BY <1>0, MethodCases DEF Fine, HashFine, GenesisFine, HeaderFine, ReadFine, HeadsFine, WatchFine
  <1> QED
    BY <1>0, <1>1, Finishes, FineBy DEF Comes, Like

(***************************************************************************)
(* Subscriptions.                                                          *)
(***************************************************************************)
LEMMA SubscribedMethod ==
  ASSUME NEW r, Fine(r), r.pc \in {"subscribe", "listen"}
  PROVE  r.method = "newHeads" \/ r.method \in {"watchStorage", "watchVersion"}
  BY DEF Fine, Shaped, Subscriptions

\* A subscription moves in the channel and goes on listening.
LEMMA MovesOn ==
  ASSUME ChainInv, NEW t \in Tasks, NEW r, r = request[t], Fine(r), r.pc \in {"subscribe", "listen"},
         NEW p \in Nat, p > 0,
         r.pc = "subscribe" => head <= Fork + p,
         r.pc = "listen" => r.position <= p,
         Becomes(t, [r EXCEPT !.position = p, !.pc = "listen"])
  PROVE  Comes(t)
  <1> DEFINE q == [r EXCEPT !.position = p, !.pc = "listen"]
  <1>0. Shaped(r) /\ head \in Nat /\ Fork \in Nat
    BY ChainAssumption DEF Fine, ChainInv
  <1>1. /\ Shaped(q) /\ q.method = r.method /\ q.value = r.value /\ q.position = p /\ q.pc = "listen"
        /\ q.handled = r.handled /\ q.low = r.low
    BY <1>0 DEF Shaped, Fields
  <1> HIDE DEF q
  <1>2. CASE r.method = "newHeads"
    <2>1. q.value.number \in Nat /\ q.value.number <= Fork + p
      BY <1>0, <1>1, <1>2 DEF Fine, HeadsFine, Shaped
    <2>2. HeadsFine(q)
      BY <1>1, <2>1 DEF HeadsFine
    <2> QED
      BY <1>1, <1>2, <2>2, FineBy DEF Comes, q
  <1>3. CASE r.method \in {"watchStorage", "watchVersion"}
    <2>1. WatchFine(q)
      BY <1>1, <1>3 DEF Fine, WatchFine, Since
    <2> QED
      BY <1>1, <1>3, <2>1, FineBy DEF Comes, q
  <1> QED
    BY <1>1, <1>2, <1>3, SubscribedMethod, FineBy DEF Comes, q

LEMMA SubscribeFine ==
  ASSUME ChainInv, NEW t \in Tasks, NEW r, r = request[t], Fine(r), Subscribe(t)
  PROVE  Comes(t)
  <1>1. r.pc = "subscribe" /\ Len(channel) + 1 \in Nat /\ Len(channel) + 1 > 0
        /\ head <= Fork + (Len(channel) + 1)
    BY ChainAssumption DEF Subscribe, ChainInv, Told
  <1>2. PICK p \in Nat : p = Len(channel) + 1
    BY <1>1
  <1>3. Becomes(t, [r EXCEPT !.position = p, !.pc = "listen"])
    BY <1>2 DEF Subscribe
  <1> QED
    BY <1>1, <1>2, <1>3, MovesOn

LEMMA SkipFine ==
  ASSUME ChainInv, NEW t \in Tasks, NEW r, r = request[t], Fine(r), SkipLagged(t)
  PROVE  Comes(t)
  <1>0. r.pc = "listen" /\ DOMAIN r = Fields /\ r.position \in Nat /\ Len(channel) \in Nat
    BY DEF SkipLagged, Fine, Shaped, ChainInv
  <1>1. Len(channel) - r.position >= Capacity
    BY DEF SkipLagged, Lagged
  <1> DEFINE skip == Len(channel) - Capacity + 1
  <1>a. skip \in Nat /\ r.position <= skip /\ skip > 0
    BY <1>0, <1>1, ChainAssumption
  <1>2. PICK p \in Nat : p = skip /\ r.position <= p /\ p > 0
    BY <1>a
  <1>3. Becomes(t, [r EXCEPT !.position = p])
    BY <1>2 DEF SkipLagged
  <1>4. [r EXCEPT !.position = p] = [r EXCEPT !.position = p, !.pc = "listen"]
    BY <1>0 DEF Fields
  <1> QED
    BY <1>0, <1>2, <1>3, <1>4, MovesOn

LEMMA CloseFine ==
  ASSUME NEW t \in Tasks, NEW r, r = request[t], Fine(r), Close(t)
  PROVE  Comes(t)
  <1> DEFINE q == [r EXCEPT !.pc = "closed"]
  <1>0. Shaped(r) /\ r.pc = "listen" /\ Becomes(t, q)
    BY DEF Fine, Close
  <1>1. Like(q, r) /\ q.pc = "closed"
    BY <1>0, GoesOn DEF Shaped
  <1> HIDE DEF q
  <1>2. r.method = "newHeads" => HeadsFine(q)
    BY <1>1 DEF HeadsFine
  <1>3. r.method \in {"watchStorage", "watchVersion"} => WatchFine(q)
    BY <1>1 DEF Fine, WatchFine, Like
  <1> QED
    BY <1>0, <1>1, <1>2, <1>3, SubscribedMethod, FineBy DEF Comes, Like

LEMMA EventFine ==
  ASSUME ChainInv, NEW t \in Tasks, NEW r, r = request[t], Fine(r), NextEvent(t)
  PROVE  \E q : /\ Becomes(t, q) /\ Fine(q)
                /\ r.method = "newHeads" => q.value.number = Fork + r.position
  <1> DEFINE n == Fork + r.position
             e == channel[r.position]
             next == [r EXCEPT !.position = r.position + 1, !.handled = n, !.block = On(n)]
  <1>0. /\ Shaped(r) /\ r.pc = "listen" /\ r.position \in Nat /\ r.position > 0
        /\ r.position <= Len(channel) /\ Len(channel) \in Nat /\ head \in Nat
    BY SubscribedMethod DEF Fine, Shaped, ChainInv, NextEvent, HeadsFine, WatchFine
  <1>1. r.position \in 1..Len(channel)
    BY <1>0
  <1>a. e.number = n /\ (~e.modified => \A m \in wrote : n < m)
    BY <1>1 DEF ChainInv
  <1>b. n \in Nat /\ Fork < n /\ n <= head
    BY <1>0, ChainAssumption DEF ChainInv, Told
  <1>2. /\ e.number = n /\ n \in Nat /\ Fork < n /\ n <= head
        /\ ~e.modified => \A m \in wrote : n < m
    BY <1>a, <1>b
  <1>3. On(n).number = n /\ IsBlock(On(n))
    BY <1>2, Heads
  <1>4. Becomes(t, CASE r.method = "newHeads" -> [next EXCEPT !.value = On(n)]
                     [] r.method = "watchStorage" /\ e.modified -> [next EXCEPT !.pc = "read"]
                     [] r.method = "watchVersion" /\ e.modified -> [next EXCEPT !.pc = "call"]
                     [] OTHER -> next)
    BY <1>0, <1>2 DEF NextEvent, Shaped, Fields
  <1> HIDE DEF n, e
  <1>5. /\ Shaped(next) /\ next.method = r.method /\ next.pc = "listen" /\ next.value = r.value
        /\ next.position = r.position + 1 /\ next.handled = n /\ next.block = On(n)
        /\ next.low = r.low /\ Since(next) = n
    BY <1>0, <1>2, <1>3, ChainAssumption DEF Shaped, Fields, Since
  <1> HIDE DEF next
  <1>6. CASE r.method = "newHeads"
    <2> DEFINE q == [next EXCEPT !.value = On(n)]
    <2>1. Becomes(t, q)
      BY <1>4, <1>6
    <2>2. /\ Shaped(q) /\ q.method = r.method /\ q.pc = "listen" /\ q.value = On(n)
          /\ q.position = r.position + 1
      BY <1>5 DEF Shaped, Fields
    <2> HIDE DEF q
    <2>3. q.value.number \in Nat /\ q.value.number <= Fork + q.position /\ q.position > 0
      BY <1>0, <1>2, <1>3, <2>2, ChainAssumption DEF n
    <2>4. HeadsFine(q)
      BY <2>2, <2>3 DEF HeadsFine
    <2> QED
      BY <1>3, <1>6, <2>1, <2>2, <2>4, FineBy DEF n
  <1>7. CASE r.method \in {"watchStorage", "watchVersion"}
    <2>0. WatchFine(r)
      BY <1>7 DEF Fine
    <2>1. CASE e.modified
      <3>1. PICK pc \in {"read", "call"} :
               /\ Becomes(t, [next EXCEPT !.pc = pc])
               /\ r.method = "watchStorage" => pc = "read"
               /\ r.method = "watchVersion" => pc = "call"
        BY <1>4, <1>7, <2>1
      <3> DEFINE q == [next EXCEPT !.pc = pc]
      <3>2. Like(q, next) /\ q.block = next.block /\ q.pc = pc
        BY <1>5, <3>1, GoesOn DEF Stage
      <3> HIDE DEF q
      <3>3. Since(q) = n
        BY <1>5, <3>2 DEF Like, Since
      <3>4. WatchFine(q)
        BY <1>2, <1>5, <1>7, <3>1, <3>2, <3>3 DEF WatchFine, Like
      <3>5. Becomes(t, q) /\ Fine(q)
        BY <1>5, <1>7, <3>1, <3>2, <3>4, FineBy DEF Like, q
      <3> QED
        BY <1>7, <3>5
    <2>2. CASE ~e.modified
      <3>1. Becomes(t, next)
        BY <1>4, <1>7, <2>2
      <3>2. ASSUME r.value # Lost PROVE next.value \in {Written(k) : k \in Since(next)..head}
        <4>1. Since(r) \in Nat
          BY <1>0 DEF Since, Shaped
        <4>2. PICK k \in Since(r)..head : r.value = Written(k)
          BY <1>0, <2>0, <3>2 DEF WatchFine
        <4>3. CASE n <= k
          BY <1>0, <1>2, <1>5, <4>1, <4>2, <4>3
        <4>4. CASE k < n
          <5>1. {m \in wrote : m <= k} = {} /\ {m \in wrote : m <= n} = {}
            <6>1. \A m \in wrote : ~(m <= k) /\ ~(m <= n)
              BY <1>2, <2>2, <4>1, <4>2, <4>4, <1>0, ChainAssumption DEF ChainInv
            <6> QED
              BY <6>1
          <5>2. Written(k) = Written(n)
            BY <5>1 DEF Written
          <5> QED
            BY <1>0, <1>2, <1>5, <4>2, <5>2
        <4> QED
          BY <1>0, <1>2, <4>1, <4>2, <4>3, <4>4
      <3>3. WatchFine(next)
        BY <1>0, <1>2, <1>5, <1>7, <3>2 DEF WatchFine
      <3> QED
        BY <1>5, <1>7, <3>1, <3>3, FineBy
    <2> QED
      BY <2>1, <2>2
  <1> QED
    BY <1>0, <1>6, <1>7, SubscribedMethod

(***************************************************************************)
(* New requests.                                                           *)
(***************************************************************************)
LEMMA Begun ==
  ASSUME ChainInv, NEW t \in Tasks, NEW m \in Method, NEW at, IsBlock(at),
         NEW stage \in (Stage \ {"parent"}) \union {"properties"}, Begin(t, m, at, stage)
  PROVE  \E q : /\ Becomes(t, q) /\ Shaped(q) /\ q.method = m /\ q.at = at /\ q.pc = stage
                /\ q.low = head /\ q.block = Meant(q) /\ q.number = Meant(q).number
                /\ q.position = 0 /\ q.handled = 0
  <1>0. head \in Nat /\ Fork <= head /\ On(head).number = head /\ IsBlock(On(head))
    BY Heads DEF ChainInv
  <1>1. PICK b : b = (IF at = None THEN On(head) ELSE at)
    OBVIOUS
  <1>2. IsBlock(b) /\ b.number \in Nat
    BY <1>0, <1>1 DEF IsBlock
  <1> DEFINE q == [Idle EXCEPT !.method = m, !.at = at, !.low = head, !.block = b,
                               !.number = b.number, !.pc = stage]
  <1>3. Becomes(t, q)
    BY <1>1 DEF Begin
  <1>4. /\ q.method = m /\ q.at = at /\ q.pc = stage /\ q.low = head /\ q.block = b
        /\ q.number = b.number /\ q.position = 0 /\ q.handled = 0 /\ DOMAIN q = Fields
    BY DEF Idle, Fields
  <1>5. m # "none" /\ m \in Method \union {"none"}
    BY DEF Method, Subscriptions
  <1>6. stage \notin {"parent", "subscribe", "listen", "closed"}
    BY DEF Stage
  <1> HIDE DEF q
  <1>7. Shaped(q)
    BY <1>0, <1>2, <1>4, <1>5, <1>6 DEF Shaped
  <1>8. q.block = Meant(q) /\ q.number = Meant(q).number
    BY <1>1, <1>4 DEF Meant
  <1> QED
    BY <1>3, <1>4, <1>7, <1>8

LEMMA NamedBlock ==
  ASSUME NEW at \in Named
  PROVE  IsBlock(at)
  <1>1. CASE at = None
    BY <1>1 DEF IsBlock, None
  <1>2. CASE \E n \in Asked : at = Live(n)
    BY <1>2, ChainAssumption DEF IsBlock, Live
  <1>3. CASE \E n \in Asked \ 0..Fork : at = Forked(n)
    BY <1>3, ChainAssumption DEF IsBlock, Forked
  <1> QED
    BY <1>1, <1>2, <1>3 DEF Named

LEMMA StartRead ==
  ASSUME NEW q, Shaped(q), q.method \in StateQueries, q.block = Meant(q), q.number = Meant(q).number,
         q.pc \in {"number", "read", "readAt", "proxy", "call"},
         q.pc = "read" => q.at = None,
         q.pc = "readAt" => q.method = "queryStorageAt" /\ q.number <= Fork,
         q.pc = "proxy" => q.number <= Fork,
         q.pc \in {"proxy", "call"} => q.method \in CodeOnly,
         q.method = "storageDiff" => q.at # None /\ q.at.number > 0
  PROVE  Fine(q)
  <1>1. q.pc = "read" => Settled(q)
    BY DEF Settled, None
  <1>2. ReadFine(q)
    BY <1>1 DEF ReadFine
  <1> QED
    BY <1>2, FineBy

\* The requests by what they start with.
LEMMA BeginRead ==
  ASSUME ChainInv, NEW t \in Tasks, NEW m \in StateQueries, NEW at, IsBlock(at),
         NEW stage \in {"number", "read", "readAt", "proxy", "call"}, Begin(t, m, at, stage),
         stage = "read" => at = None,
         stage = "readAt" => m = "queryStorageAt" /\ at = None /\ head <= Fork,
         stage = "proxy" => at = None /\ head <= Fork,
         stage \in {"proxy", "call"} => m \in CodeOnly,
         m = "storageDiff" => at # None /\ at.number > 0
  PROVE  Comes(t)
  <1>1. m \in Method /\ stage \in (Stage \ {"parent"}) \union {"properties"}
    BY DEF StateQueries, Method, Stage
  <1>2. PICK q : /\ Becomes(t, q) /\ Shaped(q) /\ q.method = m /\ q.at = at /\ q.pc = stage
                 /\ q.low = head /\ q.block = Meant(q) /\ q.number = Meant(q).number
                 /\ q.position = 0 /\ q.handled = 0
    BY <1>1, Begun
  <1>3. q.at = None => q.number = head
    BY <1>2, Heads DEF Meant, ChainInv
  <1>4. Fine(q)
    BY <1>2, <1>3, StartRead
  <1> QED
    BY <1>2, <1>4 DEF Comes

LEMMA BeginOther ==
  ASSUME ChainInv, NEW t \in Tasks, NEW at, IsBlock(at), NEW m, NEW stage, Begin(t, m, at, stage),
         \/ m = "getBlockHash" /\ stage = "hash"
         \/ m \in {"getHeader", "getBlock"} /\ stage \in {"header", "body"}
         \/ m \in Free \ {"none"} /\ stage \in {"number", "call", "properties"}
         \/ m = "genesisHash" /\ stage = "genesis"
         \/ m = "newHeads" /\ stage = "header" /\ at = None
         \/ m = "watchStorage" /\ stage = "read" /\ at = None
         \/ /\ m = "watchVersion" /\ at = None
            /\ stage = (IF head <= Fork THEN "proxy" ELSE "call")
  PROVE  Comes(t)
  <1>0. head \in Nat /\ Fork <= head
    BY DEF ChainInv
  <1>1. m \in Method /\ stage \in (Stage \ {"parent"}) \union {"properties"}
    BY DEF Method, Stage, Subscriptions, Free
  <1>2. PICK q : /\ Becomes(t, q) /\ Shaped(q) /\ q.method = m /\ q.at = at /\ q.pc = stage
                 /\ q.low = head /\ q.block = Meant(q) /\ q.number = Meant(q).number
                 /\ q.position = 0 /\ q.handled = 0
    BY <1>1, Begun
  <1>3. q.at = None => q.block = On(head)
    BY <1>2 DEF Meant
  <1>4. m = "getBlockHash" => HashFine(q)
    BY <1>2 DEF HashFine, Free
  <1>5. m = "genesisHash" => GenesisFine(q)
    BY <1>2 DEF GenesisFine, Free
  <1>6. m \in {"getHeader", "getBlock"} => HeaderFine(q)
    BY <1>2 DEF HeaderFine, Free
  <1>7. m = "newHeads" => HeadsFine(q)
    BY <1>2, <1>3 DEF HeadsFine, Free
  <1>8. m = "watchStorage" => WatchFine(q)
    BY <1>2 DEF WatchFine, Free
  <1>9. ASSUME m = "watchVersion" PROVE WatchFine(q)
    <2>1. q.block = On(head) /\ Since(q) = head /\ q.pc = (IF head <= Fork THEN "proxy" ELSE "call")
      BY <1>2, <1>3, <1>9 DEF Since, Free
    <2>2. CASE head <= Fork
      <3>1. head = Fork /\ q.block = Live(Fork) /\ q.pc = "proxy"
        BY <1>0, <2>1, <2>2, ChainAssumption DEF On
      <3> QED
        BY <1>2, <1>9, <3>1 DEF WatchFine
    <2>3. CASE ~(head <= Fork)
      BY <1>2, <1>9, <2>1, <2>3 DEF WatchFine
    <2> QED
      BY <2>2, <2>3
  <1>10. \/ m \in Free \/ m = "getBlockHash" \/ m = "genesisHash" \/ m \in {"getHeader", "getBlock"}
         \/ m = "newHeads" \/ m \in {"watchStorage", "watchVersion"}
    OBVIOUS
  <1> QED
    BY <1>2, <1>4, <1>5, <1>6, <1>7, <1>8, <1>9, <1>10, FineBy DEF Comes

LEMMA RequestFine ==
  ASSUME ChainInv, NEW t \in Tasks, Request(t)
  PROVE  Comes(t)
  <1>0. IsBlock(None)
    BY DEF IsBlock, None
  <1>1. ASSUME NEW at \in Named,
               \/ GetBlockHash(t, at) \/ ArchiveHashByHeight(t, at) \/ GetHeader(t, at)
               \/ ArchiveHeader(t, at) \/ GetBlock(t, at) \/ ArchiveBody(t, at)
        PROVE  Comes(t)
    BY <1>1, NamedBlock, BeginOther
       DEF GetBlockHash, ArchiveHashByHeight, GetHeader, ArchiveHeader, GetBlock, ArchiveBody
  <1>2. ASSUME NEW at \in Named, GetStorage(t, at)
        PROVE  Comes(t)
    <2>1. \/ Begin(t, "getStorage", at, "read") /\ at = None
          \/ Begin(t, "getStorage", at, "number")
      BY <1>2 DEF GetStorage, Given
    <2> QED
      BY <2>1, NamedBlock, BeginRead DEF StateQueries
  <1>3. ASSUME NEW at \in Named, QueryStorageAt(t, at)
        PROVE  Comes(t)
    <2>1. \/ Begin(t, "queryStorageAt", at, "readAt") /\ at = None /\ head <= Fork
          \/ Begin(t, "queryStorageAt", at, "read") /\ at = None
          \/ Begin(t, "queryStorageAt", at, "number")
      BY <1>3 DEF QueryStorageAt, Given
    <2> QED
      BY <2>1, NamedBlock, BeginRead DEF StateQueries
  <1>4. ASSUME NEW at \in Named, GetKeysPaged(t, at)
        PROVE  Comes(t)
    BY <1>4, NamedBlock, BeginRead DEF StateQueries, GetKeysPaged
  <1>5. ASSUME NEW at \in Named, GetRuntimeVersion(t, at)
        PROVE  Comes(t)
    <2>1. \/ Begin(t, "getRuntimeVersion", at, "proxy") /\ at = None /\ head <= Fork
          \/ Begin(t, "getRuntimeVersion", at, "call")
          \/ Begin(t, "getRuntimeVersion", at, "number")
      BY <1>5 DEF GetRuntimeVersion, Given
    <2> QED
      BY <2>1, NamedBlock, BeginRead DEF StateQueries, CodeOnly
  <1>6. ASSUME NEW at \in Named, GetMetadata(t, at)
        PROVE  Comes(t)
    BY <1>6, NamedBlock, BeginRead DEF StateQueries, GetMetadata, CodeOnly
  <1>7. ASSUME NEW at \in Named,
               \/ StateCall(t, at) \/ PaymentQueryInfo(t, at) \/ PaymentQueryFeeDetails(t, at)
               \/ ArchiveCall(t, at)
        PROVE  Comes(t)
    <2>1. \/ Begin(t, "stateCall", at, "call") \/ Begin(t, "stateCall", at, "number")
          \/ Begin(t, "runtimeCall", at, "call")
      BY <1>7 DEF StateCall, PaymentQueryInfo, PaymentQueryFeeDetails, ArchiveCall, RuntimeCall, Given
    <2> QED
      BY <2>1, NamedBlock, BeginOther DEF Free
  <1>8. ASSUME NEW at \in Named, ArchiveStorage(t, at) \/ ArchiveStorageDiff(t, at)
        PROVE  Comes(t)
    <2>1. \/ GetStorage(t, at) \/ Begin(t, "descendants", at, "number")
          \/ Begin(t, "storageDiff", at, "number") /\ at # None /\ at.number > 0
      BY <1>8 DEF ArchiveStorage, ArchiveStorageDiff
    <2>2. CASE Begin(t, "descendants", at, "number")
      BY <2>2, NamedBlock, BeginRead DEF StateQueries
    <2>3. CASE Begin(t, "storageDiff", at, "number") /\ at # None /\ at.number > 0
      BY <2>3, NamedBlock, BeginRead DEF StateQueries
    <2> QED
      BY <1>2, <2>1, <2>2, <2>3
  <1>9. CASE AccountNextIndex(t)
    BY <1>0, <1>9, BeginRead DEF StateQueries, AccountNextIndex
  <1>10. CASE AskGenesisHash(t)
    BY <1>0, <1>10, BeginOther DEF AskGenesisHash
  <1>11. CASE AskProperties(t)
    BY <1>0, <1>11, BeginOther DEF AskProperties, Free
  <1>12. CASE SubscribeNewHeads(t)
    BY <1>0, <1>12, BeginOther DEF SubscribeNewHeads
  <1>13. CASE SubscribeStorage(t)
    BY <1>0, <1>13, BeginOther DEF SubscribeStorage
  <1>14. CASE SubscribeRuntimeVersion(t)
    BY <1>0, <1>14, BeginOther DEF SubscribeRuntimeVersion
  <1> QED
    BY <1>1, <1>2, <1>3, <1>4, <1>5, <1>6, <1>7, <1>8, <1>9, <1>10, <1>11, <1>12, <1>13, <1>14
       DEF Request

(***************************************************************************)
(* The steps together.  A request either turns into another one with no    *)
(* question left open, or puts a question and stays as it is.              *)
(***************************************************************************)
Turns(t) == Comes(t) /\ call[t].pc = "idle" /\ UNCHANGED call

Receives(t) == Comes(t) /\ call' = [call EXCEPT ![t] = NoCall]

Puts(t) == FineAsked(request[t]) /\ request' = request /\ \A u \in Tasks \ {t} : call'[u] = call[u]

LEMMA IdleCall ==
  ASSUME RequestInv, NEW t \in Tasks, request[t].pc \notin Asking
  PROVE  call[t].pc = "idle"
  BY DEF RequestInv, FineAsked

LEMMA AskAlone ==
  ASSUME UpstreamTypeOK, NEW t \in Tasks, Asks(t)
  PROVE  \A u \in Tasks \ {t} : call'[u] = call[u]
  BY DEF Asks, Ask, UpstreamTypeOK

LEMMA ServeTurns ==
  ASSUME QueryInv, NEW t \in Tasks, Serve(t)
  PROVE  /\ Turns(t) \/ Receives(t) \/ Puts(t)
         /\ UNCHANGED forkVars /\ genesis' \in {None, Live(0)}
  <1>1. PICK r : r = request[t] /\ Fine(r) /\ (call[t].pc # "idle" => FineAsked(r))
    BY DEF QueryInv, RequestInv
  <1>2. ChainInv /\ RequestInv /\ UpstreamTypeOK /\ genesis \in {None, Live(0)}
    BY DEF QueryInv, ChainInv
  <1>3. ASSUME Comes(t), UNCHANGED upstreamVars, r.pc \notin Asking \/ call[t].pc = "idle"
        PROVE  Turns(t)
    BY <1>1, <1>2, <1>3, IdleCall DEF Turns, upstreamVars
  <1>4. ASSUME FineAsked(r), Asks(t), UNCHANGED request
        PROVE  Puts(t)
    BY <1>1, <1>2, <1>4, AskAlone DEF Puts
  <1>5. CASE FindLocally(t) \/ FindCached(t)
    <2>1. UNCHANGED <<upstreamVars, forkVars, genesis>> /\ call[t].pc = "idle"
      BY <1>5 DEF FindLocally, FindCached, cacheVars
    <2> QED
      BY <1>1, <1>2, <1>3, <1>5, <2>1, LookupFine
  <1>6. CASE FindUpstream(t)
    <2>1. UNCHANGED <<forkVars, genesis, request>> /\ Asks(t)
      BY <1>6 DEF FindUpstream, cacheVars, Asks
    <2> QED
      BY <1>1, <1>2, <1>4, <1>6, <2>1, AsksFine
  <1>7. CASE HashAt(t)
    <2>0. UNCHANGED <<forkVars, genesis>> /\ call[t].pc = "idle" /\ r.number \in Nat /\ head \in Nat
          /\ Fork <= head
      BY <1>1, <1>2, <1>7 DEF HashAt, cacheVars, Fine, Shaped, ChainInv
    <2>1. CASE r.number < Fork
      <3>0. ~(request[t].number > head) /\ request[t].number \notin Fork..head
        BY <1>1, <2>0, <2>1, ChainAssumption
      <3>1. UNCHANGED request /\ Asks(t)
        BY <1>7, <3>0, Zenon DEF HashAt, Asks
      <3> QED
        BY <1>1, <1>2, <1>4, <1>7, <2>0, <2>1, <3>1, AsksFine
    <2>2. CASE ~(r.number < Fork)
      <3>1. UNCHANGED upstreamVars
        BY <1>1, <1>7, <2>2 DEF HashAt
      <3> QED
        BY <1>1, <1>2, <1>3, <1>7, <2>0, <2>2, <3>1, HashFound
    <2> QED
      BY <2>1, <2>2
  <1>8. CASE ReadStorage(t)
    <2>0. UNCHANGED <<forkVars, genesis>> /\ call[t].pc = "idle" /\ r.pc \in {"read", "readParent"}
      BY <1>1, <1>8 DEF ReadStorage, cacheVars
    <2>1. CASE Read(t, LayerAt(Target(t))) /\ UNCHANGED upstreamVars
      BY <1>1, <1>2, <1>3, <2>0, <2>1, ReadGives
    <2>2. CASE Ask(t, FALSE, Nested) /\ UNCHANGED request
      BY <1>1, <1>2, <1>4, <2>0, <2>2, AsksFine DEF Asks
    <2> QED
      BY <1>8, <2>1, <2>2 DEF ReadStorage
  <1>9. CASE ListKeys(t)
    <2>1. UNCHANGED <<upstreamVars, forkVars, genesis>> /\ r.pc = "keys"
      BY <1>1, <1>9 DEF ListKeys, cacheVars
    <2> QED
      BY <1>1, <1>2, <1>3, <1>9, <2>1, ListKeysFine DEF Asking
  <1>10. CASE ReadAtHash(t)
    <2>0. UNCHANGED <<forkVars, genesis>> /\ call[t].pc = "idle" /\ r.pc = "readAt"
      BY <1>1, <1>10 DEF ReadAtHash, cacheVars
    <2>1. CASE r.method = "queryStorageAt" /\ FinishWith(t, r.block) /\ UNCHANGED upstreamVars
      BY <1>1, <1>2, <1>3, <2>0, <2>1, CachedFine
    <2>2. CASE (Ask(t, TRUE, WithRetry) \/ Ask(t, TRUE, Nested)) /\ UNCHANGED request
      BY <1>1, <1>2, <1>4, <2>0, <2>2, AsksFine DEF Asks
    <2> QED
      BY <1>1, <1>10, <2>1, <2>2 DEF ReadAtHash
  <1>11. CASE ProxyCall(t) \/ FindForCall(t)
    <2>1. UNCHANGED <<forkVars, genesis, request>> /\ Asks(t) /\ r.pc \in {"proxy", "find"}
      BY <1>1, <1>11 DEF ProxyCall, FindForCall, cacheVars, Asks
    <2> QED
      BY <1>1, <1>2, <1>4, <2>1, AsksFine
  <1>12. CASE CallAtBlock(t)
    <2>1. UNCHANGED <<upstreamVars, forkVars, genesis>> /\ r.pc = "call"
      BY <1>1, <1>12 DEF CallAtBlock, cacheVars
    <2> QED
      BY <1>1, <1>2, <1>3, <1>12, <2>1, CallFine DEF Asking
  <1>13. CASE Receive(t)
    <2>1. /\ UNCHANGED forkVars /\ genesis' \in {None, Live(0)}
          /\ call' = [call EXCEPT ![t] = NoCall] /\ call[t].pc # "idle"
      BY <1>2, <1>13 DEF Receive
    <2>2. Comes(t)
      BY <1>1, <1>2, <1>13, <2>1, FoundFine, NotFoundFine, FailedFine DEF Receive
    <2> QED
      BY <2>1, <2>2 DEF Receives
  <1>14. CASE GenesisHash(t)
    <2>0. UNCHANGED forkVars /\ call[t].pc = "idle" /\ r.pc = "genesis"
      BY <1>1, <1>14 DEF GenesisHash
    <2>1. CASE genesis # None
      <3>1. FinishWith(t, genesis) /\ UNCHANGED <<upstreamVars, genesis>> /\ genesis = Live(0)
        BY <1>2, <1>14, <2>1 DEF GenesisHash
      <3>2. FinishWith(t, Live(0))
        BY <3>1
      <3> QED
        BY <1>1, <1>2, <1>3, <2>0, <3>1, <3>2, GenesisFound
    <2>2. CASE genesis = None /\ Fork = 0
      <3>1. FinishWith(t, Live(0)) /\ UNCHANGED upstreamVars /\ genesis' = Live(0)
        BY <1>14, <2>2 DEF GenesisHash
      <3> QED
        BY <1>1, <1>2, <1>3, <2>0, <3>1, GenesisFound
    <2>3. CASE genesis = None /\ Fork # 0
      <3>1. UNCHANGED <<request, genesis>> /\ Asks(t)
        BY <1>14, <2>3 DEF GenesisHash, Asks
      <3> QED
        BY <1>1, <1>2, <1>4, <2>0, <3>1, AsksFine
    <2> QED
      BY <2>1, <2>2, <2>3
  <1>15. CASE ChainProperties(t)
    <2>1. UNCHANGED <<upstreamVars, forkVars, genesis>> /\ r.pc = "properties"
      BY <1>1, <1>15 DEF ChainProperties
    <2> QED
      BY <1>1, <1>2, <1>3, <1>15, <2>1, PropertiesFine DEF Asking
  <1>16. CASE Subscribe(t) \/ NextEvent(t) \/ SkipLagged(t)
    <2>1. UNCHANGED <<upstreamVars, forkVars, genesis>> /\ r.pc \in {"subscribe", "listen"}
      BY <1>1, <1>16 DEF Subscribe, NextEvent, SkipLagged, cacheVars
    <2>2. Comes(t)
      BY <1>1, <1>2, <1>16, SubscribeFine, SkipFine, EventFine DEF Comes
    <2> QED
      BY <1>2, <1>3, <2>1, <2>2 DEF Asking
  <1> QED
    BY <1>5, <1>6, <1>7, <1>8, <1>9, <1>10, <1>11, <1>12, <1>13, <1>14, <1>15, <1>16 DEF Serve

LEMMA RequestKept ==
  ASSUME QueryInv, Grows, NEW t \in Tasks, Turns(t) \/ Receives(t) \/ Puts(t)
  PROVE  RequestInv'
  <1>0. ChainInv /\ RequestInv /\ call \in [Tasks -> Call]
    BY DEF QueryInv, UpstreamTypeOK
  <1>1. CASE Turns(t) \/ Receives(t)
    <2>1. PICK q : request' = [request EXCEPT ![t] = q] /\ Fine(q)
      BY <1>1 DEF Turns, Receives, Comes, Becomes
    <2>2. /\ DOMAIN request' = Tasks /\ request'[t] = q
          /\ \A u \in Tasks \ {t} : request'[u] = request[u]
      BY <1>0, <2>1 DEF RequestInv
    <2>3. call'[t].pc = "idle" /\ \A u \in Tasks \ {t} : call'[u] = call[u]
      BY <1>0, <1>1 DEF Turns, Receives, NoCall
    <2>4. Fine(request[t])'
      BY <1>0, <2>1, <2>2, Carried
    <2>5. ASSUME NEW u \in Tasks \ {t}
          PROVE  Fine(request[u])' /\ (call'[u].pc # "idle" => FineAsked(request[u])')
      <3>1. PICK r : r = request[u] /\ Fine(r) /\ (call[u].pc # "idle" => FineAsked(r))
        BY <1>0 DEF RequestInv
      <3>2. request'[u] = r
        BY <2>2, <3>1
      <3> QED
        BY <1>0, <2>3, <3>1, <3>2, Carried, CarriedAsked
    <2> QED
      BY <2>2, <2>3, <2>4, <2>5 DEF RequestInv
  <1>2. CASE Puts(t)
    <2>1. ASSUME NEW u \in Tasks
          PROVE  Fine(request[u])' /\ (call'[u].pc # "idle" => FineAsked(request[u])')
      <3>1. PICK r : r = request[u] /\ Fine(r) /\ (call'[u].pc # "idle" => FineAsked(r))
        BY <1>0, <1>2 DEF RequestInv, Puts
      <3>2. request'[u] = r
        BY <1>2, <3>1 DEF Puts
      <3> QED
        BY <1>0, <3>1, <3>2, Carried, CarriedAsked
    <2> QED
      BY <1>0, <1>2, <2>1 DEF RequestInv, Puts
  <1> QED
    BY <1>1, <1>2

\* A step that asks nothing new and leaves every request alone.
LEMMA RequestLeft ==
  ASSUME QueryInv, Grows, request' = request,
         \A u \in Tasks : call'[u].pc # "idle" => call[u].pc # "idle"
  PROVE  RequestInv'
  <1>0. ChainInv /\ RequestInv
    BY DEF QueryInv
  <1>1. ASSUME NEW u \in Tasks
        PROVE  Fine(request[u])' /\ (call'[u].pc # "idle" => FineAsked(request[u])')
    <2>1. PICK r : r = request[u] /\ Fine(r) /\ (call[u].pc # "idle" => FineAsked(r))
      BY <1>0 DEF RequestInv
    <2>2. request'[u] = r
      BY <2>1
    <2> QED
      BY <1>0, <2>1, <2>2, Carried, CarriedAsked
  <1> QED
    BY <1>0, <1>1 DEF RequestInv

LEMMA ClientBusy ==
  ASSUME UpstreamTypeOK, NEW t \in Tasks, UpstreamStep(t)
  PROVE  \A u \in Tasks : call'[u].pc # "idle" => call[u].pc # "idle"
  BY DEF UpstreamTypeOK, UpstreamStep, Send, Answer, RequestFails, LockReconnect, CheckLiveness,
         CreateConnection, ReplaceConnection, Goto, Fail

LEMMA QueryInit == Init => QueryInv
  <1> SUFFICES ASSUME Init PROVE QueryInv
    OBVIOUS
  <1>1. UpstreamTypeOK
    BY ConnectionInit DEF Init, ConnectionInv
  <1>2. ChainInv
    BY ChainAssumption DEF Init, ChainInv, Told, Live, None
  <1>3. Shaped(Idle)
    BY DEF Shaped, Idle, Fields, IsBlock, None, Stage
  <1>4. Fine(Idle)
    BY <1>3, FineBy DEF Idle, Free
  <1>5. RequestInv
    BY <1>4 DEF Init, InitUpstream, RequestInv, NoCall
  <1> QED
    BY <1>1, <1>2, <1>5 DEF QueryInv

LEMMA QueryNext == QueryInv /\ ConnectionInv /\ [Next]_vars => QueryInv'
  <1> SUFFICES ASSUME QueryInv, ConnectionInv, [Next]_vars PROVE QueryInv'
    OBVIOUS
  <1>0. ChainInv /\ UpstreamTypeOK /\ RequestInv /\ genesis \in {None, Live(0)}
    BY DEF QueryInv, ChainInv
  <1>1. UpstreamTypeOK'
    BY ConnectionNext DEF ConnectionInv
  <1>2. ASSUME NEW t \in Tasks, Serve(t)
        PROVE  QueryInv'
    BY <1>0, <1>1, <1>2, ServeTurns, ChainStays, RequestKept DEF QueryInv
  <1>3. ASSUME NEW t \in Tasks, Request(t) \/ Close(t)
        PROVE  QueryInv'
    <2>1. UNCHANGED <<upstreamVars, forkVars, genesis>> /\ request[t].pc \in {"idle", "listen"}
      BY <1>3 DEF Request, Close, GetBlockHash, ArchiveHashByHeight, GetHeader, ArchiveHeader,
           GetBlock, ArchiveBody, GetStorage, QueryStorageAt, GetKeysPaged, GetRuntimeVersion,
           GetMetadata, StateCall, PaymentQueryInfo, PaymentQueryFeeDetails, ArchiveCall,
           ArchiveStorage, ArchiveStorageDiff, RuntimeCall, AccountNextIndex, AskGenesisHash,
           AskProperties, SubscribeNewHeads, SubscribeStorage, SubscribeRuntimeVersion, Begin,
           cacheVars
    <2>2. PICK r : r = request[t] /\ Fine(r)
      BY <1>0 DEF RequestInv
    <2>3. Comes(t)
      BY <1>0, <1>3, <2>2, RequestFine, CloseFine
    <2>4. Turns(t)
      BY <1>0, <2>1, <2>3, IdleCall DEF Turns, Asking, upstreamVars
    <2> QED
      BY <1>0, <1>1, <2>1, <2>4, ChainStays, RequestKept DEF QueryInv
  <1>4. ASSUME NEW t \in Tasks, Client(t)
        PROVE  QueryInv'
    <2>1. UNCHANGED <<forkVars, genesis, request>> /\ UpstreamStep(t)
      BY <1>4 DEF Client, cacheVars
    <2> QED
      BY <1>0, <1>1, <2>1, ChainStays, ClientBusy, RequestLeft DEF QueryInv
  <1>5. CASE Break /\ UNCHANGED <<forkVars, cacheVars, request>>
    <2>1. UNCHANGED <<forkVars, genesis, request, call>>
      BY <1>5 DEF Break, cacheVars
    <2> QED
      BY <1>0, <1>1, <2>1, ChainStays, RequestLeft DEF QueryInv
  <1>6. CASE PrepareBlock \/ AcceptBlock \/ EmitNewBlock
    <2>1. UNCHANGED <<request, call>>
      BY <1>6 DEF PrepareBlock, AcceptBlock, EmitNewBlock, upstreamVars
    <2>2. ChainInv' /\ Grows
      BY <1>0, <1>6, PrepareGrows, AcceptGrows, EmitGrows
    <2> QED
      BY <1>1, <2>1, <2>2, RequestLeft DEF QueryInv
  <1>7. CASE UNCHANGED vars
    <2>1. UNCHANGED <<forkVars, genesis, request, call>>
      BY <1>7 DEF vars, cacheVars, upstreamVars
    <2> QED
      BY <1>0, <1>1, <2>1, ChainStays, RequestLeft DEF QueryInv
  <1> QED
    BY <1>2, <1>3, <1>4, <1>5, <1>6, <1>7 DEF Next

LEMMA QueryAlways == Spec => [](QueryInv /\ ConnectionInv)
  <1>1. Init => QueryInv /\ ConnectionInv
    BY QueryInit, ConnectionInit DEF Init
  <1>2. QueryInv /\ ConnectionInv /\ [Next]_vars => (QueryInv /\ ConnectionInv)'
    BY QueryNext, ConnectionNext
  <1> QED
    BY <1>1, <1>2, PTL DEF Spec

(***************************************************************************)
(* Whoever asks what, however many blocks are built between the resolution *)
(* of a hash and the read by number, and whether the fork, the cache or    *)
(* the live chain answers: an answer is about the block that was asked     *)
(* for.                                                                    *)
(***************************************************************************)
THEOREM AnswersAreAboutTheirBlock == Spec => []AnswersAskedBlock
  <1>1. QueryInv => AnswersAskedBlock
    <2> SUFFICES ASSUME QueryInv, NEW t \in Tasks, NEW r, r = request[t], r.pc = "done"
                 PROVE  /\ r.method = "genesisHash" => r.value = On(0)
                        /\ r.method = "getBlockHash" =>
                              \/ r.value = On(r.number)
                              \/ r.value = None /\ r.number > r.low
                        /\ r.method \in {"getHeader", "getBlock"} => Whole(r)
                        /\ r.method \in StateQueries =>
                              IF r.at = None THEN r.value \in Recent(r) \union {Lost}
                              ELSE OfTheFork(r.at) /\ r.value # None =>
                                      /\ Answered(r.value, r.at)
                                      /\ r.method = "storageDiff" => Answered(r.other, Parent(r.at))
      BY DEF AnswersAskedBlock, Whole
    <2>1. Fine(r)
      BY DEF QueryInv, RequestInv
    <2>2. r.method = "genesisHash" => r.value = On(0)
      BY <2>1, ChainAssumption DEF Fine, GenesisFine, On
    <2>3. r.method = "getBlockHash" => r.value = On(r.number) \/ (r.value = None /\ r.number > r.low)
      BY <2>1 DEF Fine, HashFine
    <2>4. r.method \in {"getHeader", "getBlock"} => Whole(r)
      BY <2>1 DEF Fine, HeaderFine
    <2>5. r.method \in StateQueries => Right(r)
      BY <2>1 DEF Fine, ReadFine
    <2> QED
      BY <2>2, <2>3, <2>4, <2>5 DEF Right
  <1> QED
    BY <1>1, QueryAlways, PTL

(***************************************************************************)
(* A storage or version watcher that lagged, or subscribed after a block   *)
(* it had not seen, is not left with a value older than the last event it  *)
(* has dealt with.                                                         *)
(***************************************************************************)
THEOREM WatchersAreCurrent == Spec => []WatchedValueCurrent
  <1>1. QueryInv => WatchedValueCurrent
    <2> SUFFICES ASSUME QueryInv, NEW t \in Tasks, NEW r, r = request[t], r.pc = "listen",
                        r.method \in {"watchStorage", "watchVersion"}, r.value # Lost
                 PROVE  r.value \in {Written(n) : n \in Since(r)..head}
      BY DEF WatchedValueCurrent, Since
    <2>1. Fine(r)
      BY DEF QueryInv, RequestInv
    <2> QED
      BY <2>1 DEF Fine, WatchFine
  <1> QED
    BY <1>1, QueryAlways, PTL

LEMMA HeadsStep ==
  ASSUME QueryInv, [Next]_vars, NEW t \in Tasks, request[t].method = "newHeads", request[t].pc = "listen"
  PROVE  request'[t].value.number >= request[t].value.number
  <1>1. PICK r : r = request[t] /\ Fine(r) /\ r.method = "newHeads" /\ r.pc = "listen"
    BY DEF QueryInv, RequestInv
  <1>0. ChainInv /\ RequestInv /\ call[t].pc = "idle" /\ DOMAIN request = Tasks
    BY <1>1, IdleCall DEF QueryInv, Asking, RequestInv
  <1>2. /\ r.value.number \in Nat /\ r.value.number <= Fork + r.position
        /\ r.position \in Nat /\ DOMAIN r = Fields
    BY <1>1 DEF Fine, HeadsFine, Shaped
  <1>3. ASSUME request'[t].value = r.value
        PROVE  request'[t].value.number >= r.value.number
    BY <1>2, <1>3
  <1>4. ASSUME NEW u \in Tasks, Serve(u)
        PROVE  request'[t].value.number >= r.value.number
    <2>1. CASE u # t
      <3>1. Turns(u) \/ Receives(u) \/ Puts(u)
        BY <1>4, ServeTurns
      <3>2. request'[t] = request[t]
        BY <1>0, <2>1, <3>1 DEF Turns, Receives, Puts, Comes, Becomes
      <3> QED
        BY <1>1, <1>3, <3>2
    <2>2. CASE u = t
      <3>1. NextEvent(t) \/ SkipLagged(t)
        BY <1>0, <1>1, <1>4, <2>2 DEF Serve, FindLocally, FindCached, FindUpstream, HashAt, ReadStorage,
             ListKeys, ReadAtHash, ProxyCall, CallAtBlock, FindForCall, Receive, GenesisHash,
             ChainProperties, Subscribe, Lookups
      <3>2. CASE NextEvent(t)
        <4>1. PICK q : Becomes(t, q) /\ q.value.number = Fork + r.position
          BY <1>0, <1>1, <3>2, EventFine
        <4>2. request'[t] = q
          BY <1>0, <4>1 DEF Becomes
        <4> QED
          BY <1>2, <4>1, <4>2, ChainAssumption
      <3>3. CASE SkipLagged(t)
        <4>1. request'[t] = [r EXCEPT !.position = Len(channel) - Capacity + 1]
          BY <1>0, <1>1, <3>3 DEF SkipLagged, Becomes
        <4> QED
          BY <1>2, <1>3, <4>1 DEF Fields
      <3> QED
        BY <3>1, <3>2, <3>3
    <2> QED
      BY <2>1, <2>2
  <1>5. ASSUME NEW u \in Tasks, Request(u)
        PROVE  request'[t].value.number >= r.value.number
    <2>1. request[u].pc = "idle"
      BY <1>5 DEF Request, GetBlockHash, ArchiveHashByHeight, GetHeader, ArchiveHeader,
           GetBlock, ArchiveBody, GetStorage, QueryStorageAt, GetKeysPaged, GetRuntimeVersion,
           GetMetadata, StateCall, PaymentQueryInfo, PaymentQueryFeeDetails, ArchiveCall,
           ArchiveStorage, ArchiveStorageDiff, RuntimeCall, AccountNextIndex, AskGenesisHash,
           AskProperties, SubscribeNewHeads, SubscribeStorage, SubscribeRuntimeVersion, Begin
    <2>2. u # t /\ Comes(u)
      BY <1>0, <1>1, <1>5, <2>1, RequestFine
    <2>3. request'[t] = request[t]
      BY <1>0, <2>2 DEF Comes, Becomes
    <2> QED
      BY <1>1, <1>3, <2>3
  <1>6. ASSUME NEW u \in Tasks, Close(u)
        PROVE  request'[t].value.number >= r.value.number
    <2>1. request'[t] \in {r, [r EXCEPT !.pc = "closed"]}
      BY <1>0, <1>1, <1>6 DEF Close, Becomes
    <2> QED
      BY <1>2, <1>3, <2>1 DEF Fields
  <1>7. CASE UNCHANGED request
    BY <1>1, <1>3, <1>7
  <1> QED
    BY <1>1, <1>4, <1>5, <1>6, <1>7 DEF Next, Client, PrepareBlock, AcceptBlock, EmitNewBlock, vars

(***************************************************************************)
(* A subscriber that was behind when the head moved, or that lagged and    *)
(* had events dropped, is still never sent a head below one it has had.    *)
(***************************************************************************)
THEOREM HeadsAreOrdered == Spec => HeadsInOrder
  <1>1. QueryInv /\ [Next]_vars =>
          [\A t \in Tasks :
             request[t].method = "newHeads" /\ request[t].pc = "listen" =>
                request'[t].value.number >= request[t].value.number]_vars
    BY HeadsStep
  <1> QED
    BY <1>1, QueryAlways, PTL DEF Spec, HeadsInOrder

=============================================================================
