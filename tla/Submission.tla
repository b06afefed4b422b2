----------------------------- MODULE Submission -----------------------------
(***************************************************************************)
(* Instant-mode transaction submission: the RPC handlers of                *)
(* crates/pop-fork/src/rpc_server/methods/{author,transaction,dev}.rs      *)
(* sharing one transaction pool (txpool.rs) and one chain.                 *)
(*                                                                         *)
(* Handlers run concurrently on the threads of the RPC server.  A pool     *)
(* operation holds the pool's lock and is one step.  build_block is the    *)
(* three steps its callers can tell apart: it reads the head, applies the  *)
(* extrinsics, and moves the head or reports that another build did.  What *)
(* the runtime makes of an extrinsic is left open.                         *)
(***************************************************************************)
EXTENDS Integers, Sequences, FiniteSets, SequencesExt

CONSTANTS Handlers,  \* RPC calls that can be in progress at a time
          Txs,       \* extrinsics, each submitted at most once
          Methods,   \* the RPC methods clients use
          MaxBlocks, \* bound: chain length from which no dev_newBlock comes
          Faults,    \* whether build_block may fail by itself
          NULL

ASSUME MethodAssumption ==
    Methods \subseteq {"submit", "watch", "broadcast", "newBlock"}
ASSUME BlocksAssumption == MaxBlocks \in Nat
ASSUME NullAssumption == NULL \notin Txs

VARIABLES pool,    \* TxPool.pending
          chain,   \* the blocks built on the fork point
          status,  \* what the submitter of an extrinsic was last told
          order,   \* history: the extrinsics in the order the pool got them
          call     \* what each handler is doing

vars == <<pool, chain, status, order, call>>

(***************************************************************************)
(* The extrinsics given to the runtime, in order, and those of them that   *)
(* failed; the others are in the block.                                    *)
(***************************************************************************)
Block == [applied : Seq(Txs), failed : SUBSET Txs]

Call == [pc : {"idle", "validate", "submit", "drain", "build", "building",
               "inBlock"},
         method : Methods \cup {NULL}, tx : Txs \cup {NULL},
         batch : Seq(Txs), parent : Nat]

Idle == [pc |-> "idle", method |-> NULL, tx |-> NULL, batch |-> <<>>,
         parent |-> 0]

Kinds == {"new", "submitted", "invalid", "ready", "inBlock", "finalized",
          "dropped", "hash", "operation", "error"}

TypeOK ==
    /\ pool \in Seq(Txs)
    /\ chain \in Seq(Block)
    /\ status \in [Txs -> [kind : Kinds, block : Nat]]
    /\ order \in Seq(Txs)
    /\ call \in [Handlers -> Call]

New == [kind |-> "new", block |-> 0]

Init ==
    /\ pool = <<>>
    /\ chain = <<>>
    /\ status = [t \in Txs |-> New]
    /\ order = <<>>
    /\ call = [h \in Handlers |-> Idle]

(***************************************************************************)
(* Tell the submitter of the handler's extrinsic, if it has one.           *)
(***************************************************************************)
Tell(h, kind, block) ==
    IF call[h].tx = NULL THEN status
    ELSE [status EXCEPT ![call[h].tx] = [kind |-> kind, block |-> block]]

Finish(h) == [call EXCEPT ![h] = Idle]

-----------------------------------------------------------------------------
(* The requests. *)

FirstStep(m) ==
    CASE m \in {"submit", "watch"} -> "validate"
      [] m = "broadcast" -> "submit"
      [] m = "newBlock" -> "drain"

Request(h, m, t) ==
    /\ call[h].pc = "idle"
    /\ m # "newBlock"
    /\ status[t] = New
    /\ call' = [call EXCEPT ![h] = [Idle EXCEPT !.pc = FirstStep(m),
                                               !.method = m, !.tx = t]]
    /\ status' = [status EXCEPT ![t].kind = "submitted"]
    /\ UNCHANGED <<pool, chain, order>>

NewBlock(h) ==
    /\ call[h].pc = "idle"
    /\ "newBlock" \in Methods
    /\ Len(chain) < MaxBlocks
    /\ call' = [call EXCEPT ![h] = [Idle EXCEPT !.pc = FirstStep("newBlock"),
                                               !.method = "newBlock"]]
    /\ UNCHANGED <<pool, chain, status, order>>

(***************************************************************************)
(* An extrinsic the runtime refuses never reaches the pool; a watcher of   *)
(* one it accepts is told ready, then broadcast.                           *)
(***************************************************************************)
Refuse(h) ==
    /\ call[h].pc = "validate"
    /\ status' = Tell(h, IF call[h].method = "watch" THEN "invalid"
                                                     ELSE "error", 0)
    /\ call' = Finish(h)
    /\ UNCHANGED <<pool, chain, order>>

Validate(h) ==
    /\ call[h].pc = "validate"
    /\ status' = IF call[h].method = "watch" THEN Tell(h, "ready", 0)
                                             ELSE status
    /\ call' = [call EXCEPT ![h].pc = "submit"]
    /\ UNCHANGED <<pool, chain, order>>

-----------------------------------------------------------------------------
(* The pool. *)

(***************************************************************************)
(* author_submitExtrinsic adds its extrinsic and takes them all at once.   *)
(***************************************************************************)
SubmitAndDrain(h) ==
    /\ call[h].pc = "submit"
    /\ call[h].method = "submit"
    /\ call' = [call EXCEPT ![h].pc = "build",
                            ![h].batch = Append(pool, call[h].tx)]
    /\ pool' = <<>>
    /\ order' = Append(order, call[h].tx)
    /\ UNCHANGED <<chain, status>>

\* Deliberate fault: the newest extrinsic goes to the front.
SubmitInFront(h) ==
    /\ call[h].pc = "submit"
    /\ call[h].method \in {"watch", "broadcast"}
    /\ call' = [call EXCEPT ![h].pc = "drain"]
    /\ pool' = <<call[h].tx>> \o pool
    /\ order' = Append(order, call[h].tx)
    /\ UNCHANGED <<chain, status>>

\* Deliberate fault: leaves the extrinsic for a later call to drain.
SubmitOnly(h) ==
    /\ call[h].pc = "submit"
    /\ call[h].method \in {"watch", "broadcast"}
    /\ call' = Finish(h)
    /\ pool' = Append(pool, call[h].tx)
    /\ order' = Append(order, call[h].tx)
    /\ UNCHANGED <<chain, status>>

Submit(h) ==
    /\ call[h].pc = "submit"
    /\ call[h].method \in {"watch", "broadcast"}
    /\ call' = [call EXCEPT ![h].pc = "drain"]
    /\ pool' = Append(pool, call[h].tx)
    /\ order' = Append(order, call[h].tx)
    /\ UNCHANGED <<chain, status>>

Drain(h) ==
    /\ call[h].pc = "drain"
    /\ call' = [call EXCEPT ![h].pc = "build", ![h].batch = pool]
    /\ pool' = <<>>
    /\ UNCHANGED <<chain, status, order>>

-----------------------------------------------------------------------------
(* build_block, and what the handler makes of its result. *)

ReadHead(h) ==
    /\ call[h].pc = "build"
    /\ call' = [call EXCEPT ![h].pc = "building", ![h].parent = Len(chain)]
    /\ UNCHANGED <<pool, chain, status, order>>

(***************************************************************************)
(* A watcher is told invalid when any extrinsic of its block failed, else  *)
(* inBlock and, after a pause, finalized; author_submitExtrinsic answers   *)
(* with the hash and broadcast with an operation id whatever failed.       *)
(***************************************************************************)
Report(h, block) ==
    IF call[h].method # "watch"
    THEN /\ status' = Tell(h, IF call[h].method = "submit" THEN "hash"
                                                         ELSE "operation",
                           Len(chain) + 1)
         /\ call' = Finish(h)
    ELSE IF block.failed # {}
    THEN /\ status' = Tell(h, "invalid", 0)
         /\ call' = Finish(h)
    ELSE /\ status' = Tell(h, "inBlock", Len(chain) + 1)
         /\ call' = [call EXCEPT ![h].pc = "inBlock"]

(***************************************************************************)
(* The extrinsics are applied in the batch's order, and each is included   *)
(* or fails.                                                               *)
(***************************************************************************)
BuildBlock(h) ==
    /\ call[h].pc = "building"
    /\ Len(chain) = call[h].parent
    /\ \E failed \in SUBSET ToSet(call[h].batch) :
          LET block == [applied |-> call[h].batch, failed |-> failed]
          IN /\ chain' = Append(chain, block)
             /\ Report(h, block)
    /\ UNCHANGED <<pool, order>>

\* Deliberate fault: the submitter is not told.
BuildFailsSilently(h) ==
    /\ call[h].pc = "building"
    /\ Len(chain) # call[h].parent \/ Faults
    /\ call' = Finish(h)
    /\ UNCHANGED <<pool, chain, status, order>>

(***************************************************************************)
(* The head has moved, or the build fails: the batch is gone.              *)
(***************************************************************************)
BuildFails(h) ==
    /\ call[h].pc = "building"
    /\ Len(chain) # call[h].parent \/ Faults
    /\ status' = Tell(h, IF call[h].method = "watch" THEN "dropped"
                                                     ELSE "error", 0)
    /\ call' = Finish(h)
    /\ UNCHANGED <<pool, chain, order>>

Finalized(h) ==
    /\ call[h].pc = "inBlock"
    /\ status' = [status EXCEPT ![call[h].tx].kind = "finalized"]
    /\ call' = Finish(h)
    /\ UNCHANGED <<pool, chain, order>>

-----------------------------------------------------------------------------
Step(h) ==
    \/ Refuse(h)
    \/ Validate(h)
    \/ SubmitAndDrain(h)
    \/ Submit(h)
    \/ Drain(h)
    \/ ReadHead(h)
    \/ BuildBlock(h)
    \/ BuildFails(h)
    \/ Finalized(h)

Next ==
    \E h \in Handlers :
        \/ \E m \in Methods, t \in Txs : Request(h, m, t)
        \/ NewBlock(h)
        \/ Step(h)

Spec == Init /\ [][Next]_vars

(***************************************************************************)
(* The RPC server runs every handler it has started to its end.            *)
(***************************************************************************)
FairSpec == Spec /\ \A h \in Handlers : WF_vars(Step(h))

-----------------------------------------------------------------------------
(* Properties. *)

TxsOf(block) == ToSet(block.applied)
Processed == UNION {TxsOf(chain[i]) : i \in DOMAIN chain}
Included == UNION {TxsOf(chain[i]) \ chain[i].failed : i \in DOMAIN chain}

Batched == UNION {ToSet(call[h].batch) : h \in Handlers}

(***************************************************************************)
(* However the handlers interleave, an extrinsic is in one place only: in  *)
(* the pool, in one handler's batch, or in one block, once.                *)
(***************************************************************************)
OnePlace ==
    /\ IsInjective(pool)
    /\ ToSet(pool) \cap (Batched \cup Processed) = {}
    /\ \A h \in Handlers :
          /\ IsInjective(call[h].batch)
          /\ call[h].pc \in {"build", "building"} =>
                /\ ToSet(call[h].batch) \cap Processed = {}
                /\ \A g \in Handlers \ {h} :
                      ToSet(call[h].batch) \cap ToSet(call[g].batch) = {}
    /\ \A i, j \in DOMAIN chain :
          i # j => TxsOf(chain[i]) \cap TxsOf(chain[j]) = {}
    /\ \A i \in DOMAIN chain : IsInjective(chain[i].applied)

(***************************************************************************)
(* Within a block extrinsics keep the order in which they were submitted.  *)
(***************************************************************************)
Position(t) == CHOOSE i \in DOMAIN order : order[i] = t

InSubmissionOrder(s) ==
    \A i, j \in DOMAIN s : i < j => Position(s[i]) < Position(s[j])

BlocksInOrder == \A i \in DOMAIN chain : InSubmissionOrder(chain[i].applied)

(***************************************************************************)
(* When author_submitExtrinsic returns a hash, the block it built has      *)
(* processed the extrinsic: it adds and drains under one lock, so no other *)
(* handler can have taken it.                                              *)
(***************************************************************************)
SubmitProcessed ==
    \A t \in Txs : status[t].kind = "hash" =>
        t \in TxsOf(chain[status[t].block])

(***************************************************************************)
(* A watcher is never told inBlock or finalized of a block in which its    *)
(* extrinsic failed, whoever's batch it was in.                            *)
(***************************************************************************)
InBlockNotFailed ==
    \A t \in Txs : status[t].kind \in {"inBlock", "finalized"} =>
        t \notin chain[status[t].block].failed

(***************************************************************************)
(* However the handlers of author and transaction interleave, extrinsics   *)
(* are neither lost to two takers nor doubled, blocks keep their order,    *)
(* and what a submitter is told of its extrinsic is true of the chain.     *)
(***************************************************************************)
ExtrinsicsAccounted ==
    /\ OnePlace
    /\ BlocksInOrder
    /\ SubmitProcessed
    /\ InBlockNotFailed

(***************************************************************************)
(* Nothing stays in the pool: every submission is followed by a drain.     *)
(***************************************************************************)
PoolDrained == \A t \in Txs : t \in ToSet(pool) ~> t \notin ToSet(pool)

(***************************************************************************)
(* Every submitter gets an answer.                                         *)
(***************************************************************************)
Answered ==
    \A t \in Txs :
        status[t].kind = "submitted"
            ~> status[t].kind \in {"invalid", "finalized", "dropped", "hash",
                                   "operation", "error"}

-----------------------------------------------------------------------------
(* Statements of the code's documentation that the code does not keep. *)

(***************************************************************************)
(* "in instant mode with single tx, if failed list is non-empty, our tx    *)
(* failed": a watcher is told invalid only of an extrinsic that failed.    *)
(***************************************************************************)
InvalidIsTrue ==
    \A t \in Txs : status[t].kind = "invalid" => t \notin Included
=============================================================================
