----------------------------- MODULE ChainHead -----------------------------
(***************************************************************************)
(* chainHead_v1 subscriptions                                              *)
(* (crates/pop-fork/src/rpc_server/methods/chain_head.rs): following the   *)
(* head of the fork and the operations that report through a subscription. *)
(*                                                                         *)
(* follow sets a subscription up step by step while blocks are built, and  *)
(* then a spawned task forwards operation results and blocks to the        *)
(* client.  body, call and storage check the operation limit, count the    *)
(* operation, and spawn a task that sends the result.  Handlers run on     *)
(* several threads, so two of them can be between the same two steps.      *)
(*                                                                         *)
(* A block is its number; the broadcast channel is the sequence of all     *)
(* blocks sent to it, of which it retains the last Capacity.               *)
(***************************************************************************)
EXTENDS Integers, Sequences, FiniteSets

CONSTANTS Subs,              \* subscription ids
          Ops,               \* operation requests
          NULL,              \* no subscription
          MaxSubscriptions,  \* MAX_SUBSCRIPTIONS
          MaxOperations,     \* MAX_OPERATIONS
          Capacity,          \* EVENT_CHANNEL_CAPACITY
          Builders,          \* how many build_block calls can overlap
          MaxBlock           \* bound: blocks built

ASSUME LimitAssumption ==
    /\ MaxSubscriptions \in Nat
    /\ MaxOperations \in Nat
    /\ Capacity \in Nat \ {0}
    /\ Builders \in Nat
    /\ MaxBlock \in Nat
ASSUME SubAssumption == NULL \notin Subs /\ IsFiniteSet(Ops)

VARIABLES head,            \* the head of the fork
          unsent,          \* accepted blocks whose event is not sent yet
          channel,         \* the blocks sent to the broadcast channel
          subscriptions,   \* ChainHeadState.subscriptions
          follow,          \* the follow call and forwarding task of each id
          operationCount,  \* SubscriptionHandle.operation_count
          op               \* what each operation request is doing

chainVars == <<head, unsent, channel>>
vars == <<chainVars, subscriptions, follow, operationCount, op>>

Blocks == 0..MaxBlock

(***************************************************************************)
(* queue is the operation-event channel; reported and told are what the    *)
(* client has received; lagged records that events were skipped.           *)
(***************************************************************************)
Follow == [pc : {"new", "accepted", "registered", "initialized", "following",
                 "leaving", "closed"},
           reported : Seq(Blocks), position : Nat, lagged : BOOLEAN,
           queue : Seq(Ops), told : SUBSET Ops]

Operation == [pc : {"new", "checked", "counted", "running", "finished",
                    "done", "failed", "refused"},
              sub : Subs \cup {NULL}]

TypeOK ==
    /\ head \in Blocks
    /\ unsent \in SUBSET Blocks
    /\ channel \in Seq(Blocks)
    /\ subscriptions \in SUBSET Subs
    /\ follow \in [Subs -> Follow]
    /\ operationCount \in [Subs -> Nat]
    /\ op \in [Ops -> Operation]

Init ==
    /\ head = 0
    /\ unsent = {}
    /\ channel = <<>>
    /\ subscriptions = {}
    /\ follow = [s \in Subs |->
                    [pc |-> "new", reported |-> <<>>, position |-> 0,
                     lagged |-> FALSE, queue |-> <<>>, told |-> {}]]
    /\ operationCount = [s \in Subs |-> 0]
    /\ op = [o \in Ops |-> [pc |-> "new", sub |-> NULL]]

-----------------------------------------------------------------------------
(* Block production, as subscribers see it. *)

(***************************************************************************)
(* build_block moves the head under its lock and sends the event later.    *)
(***************************************************************************)
AcceptBlock ==
    /\ head < MaxBlock
    /\ Cardinality(unsent) < Builders
    /\ head' = head + 1
    /\ unsent' = unsent \cup {head + 1}
    /\ UNCHANGED <<channel, subscriptions, follow, operationCount, op>>

EmitNewBlock(b) ==
    /\ b \in unsent
    /\ unsent' = unsent \ {b}
    /\ channel' = Append(channel, b)
    /\ UNCHANGED <<head, subscriptions, follow, operationCount, op>>

-----------------------------------------------------------------------------
(* follow. *)

CanAddSubscription == Cardinality(subscriptions) < MaxSubscriptions

(***************************************************************************)
(* At the limit the subscription is rejected; accepting it may fail.       *)
(***************************************************************************)
CheckLimit(s) ==
    /\ follow[s].pc = "new"
    /\ \/ /\ CanAddSubscription
          /\ follow' = [follow EXCEPT ![s].pc = "accepted"]
       \/ follow' = [follow EXCEPT ![s].pc = "closed"]
    /\ UNCHANGED <<chainVars, subscriptions, operationCount, op>>

RegisterSubscription(s) ==
    /\ follow[s].pc = "accepted"
    /\ subscriptions' = subscriptions \cup {s}
    /\ follow' = [follow EXCEPT ![s].pc = "registered"]
    /\ UNCHANGED <<chainVars, operationCount, op>>

(***************************************************************************)
(* The head is read and sent as initialized and bestBlockChanged.          *)
(***************************************************************************)
SendInitialized(s) ==
    /\ follow[s].pc = "registered"
    /\ follow' = [follow EXCEPT ![s].pc = "initialized",
                                ![s].reported = <<head>>]
    /\ UNCHANGED <<chainVars, subscriptions, operationCount, op>>

(***************************************************************************)
(* The client is gone before the first events are sent.                    *)
(***************************************************************************)
SendFails(s) ==
    /\ follow[s].pc = "initialized"
    /\ subscriptions' = subscriptions \ {s}
    /\ follow' = [follow EXCEPT ![s].pc = "closed"]
    /\ UNCHANGED <<chainVars, operationCount, op>>

(***************************************************************************)
(* Only now the task receives from the channel, what is sent from here on. *)
(***************************************************************************)
SubscribeEvents(s) ==
    /\ follow[s].pc = "initialized"
    /\ follow' = [follow EXCEPT ![s].pc = "following",
                                ![s].position = Len(channel)]
    /\ UNCHANGED <<chainVars, subscriptions, operationCount, op>>

(***************************************************************************)
(* The forwarding task's biased select: operation events come first.       *)
(***************************************************************************)
ForwardOperation(s) ==
    /\ follow[s].pc = "following"
    /\ follow[s].queue # <<>>
    /\ follow' = [follow EXCEPT ![s].queue = Tail(@),
                                ![s].told = @ \cup {Head(follow[s].queue)}]
    /\ UNCHANGED <<chainVars, subscriptions, operationCount, op>>

Waiting(s) == Len(channel) - follow[s].position

(***************************************************************************)
(* A block is sent as newBlock, bestBlockChanged and finalized.            *)
(***************************************************************************)
ForwardBlock(s) ==
    /\ follow[s].pc = "following"
    /\ follow[s].queue = <<>>
    /\ Waiting(s) \in 1..Capacity
    /\ follow' = [follow EXCEPT
          ![s].reported = Append(@, channel[follow[s].position + 1]),
          ![s].position = @ + 1]
    /\ UNCHANGED <<chainVars, subscriptions, operationCount, op>>

\* Deliberate fault: a lagging receiver stays where it was.
LagStays(s) ==
    /\ follow[s].pc = "following"
    /\ follow[s].queue = <<>>
    /\ Waiting(s) > Capacity
    /\ follow' = [follow EXCEPT ![s].lagged = TRUE]
    /\ UNCHANGED <<chainVars, subscriptions, operationCount, op>>

(***************************************************************************)
(* A receiver that fell behind is moved to the oldest block retained.      *)
(***************************************************************************)
SkipLagged(s) ==
    /\ follow[s].pc = "following"
    /\ follow[s].queue = <<>>
    /\ Waiting(s) > Capacity
    /\ follow' = [follow EXCEPT ![s].position = Len(channel) - Capacity,
                                ![s].lagged = TRUE]
    /\ UNCHANGED <<chainVars, subscriptions, operationCount, op>>

(***************************************************************************)
(* The client disconnects, a send to it fails, or the server shuts down:   *)
(* the task leaves its loop, then removes the subscription.                *)
(***************************************************************************)
Disconnect(s) ==
    /\ follow[s].pc = "following"
    /\ follow' = [follow EXCEPT ![s].pc = "leaving"]
    /\ UNCHANGED <<chainVars, subscriptions, operationCount, op>>

RemoveSubscription(s) ==
    /\ follow[s].pc = "leaving"
    /\ subscriptions' = subscriptions \ {s}
    /\ follow' = [follow EXCEPT ![s].pc = "closed"]
    /\ UNCHANGED <<chainVars, operationCount, op>>

-----------------------------------------------------------------------------
(* body, call and storage. *)

(***************************************************************************)
(* An id that is not registered, or a count at the limit, ends the request.*)
(***************************************************************************)
BeginOperation(o, s) ==
    /\ op[o].pc = "new"
    /\ follow[s].pc # "new"
    /\ op' = [op EXCEPT ![o] =
                 IF s \in subscriptions /\ operationCount[s] < MaxOperations
                 THEN [pc |-> "checked", sub |-> s]
                 ELSE [pc |-> "refused", sub |-> NULL]]
    /\ UNCHANGED <<chainVars, subscriptions, follow, operationCount>>

CountOperation(o) ==
    /\ op[o].pc = "checked"
    /\ operationCount' = [operationCount EXCEPT ![op[o].sub] = @ + 1]
    /\ op' = [op EXCEPT ![o].pc = "counted"]
    /\ UNCHANGED <<chainVars, subscriptions, follow>>

(***************************************************************************)
(* The hash does not parse or names no block: an error, after counting.    *)
(***************************************************************************)
FailOperation(o) ==
    /\ op[o].pc = "counted"
    /\ op' = [op EXCEPT ![o].pc = "failed"]
    /\ UNCHANGED <<chainVars, subscriptions, follow, operationCount>>

SpawnOperation(o) ==
    /\ op[o].pc = "counted"
    /\ op' = [op EXCEPT ![o].pc = "running"]
    /\ UNCHANGED <<chainVars, subscriptions, follow, operationCount>>

\* Deliberate fault: a result that comes before the task runs is lost.
SendResultToFollower(o) ==
    LET s == op[o].sub IN
    /\ op[o].pc = "running"
    /\ follow' = IF follow[s].pc # "following" THEN follow
                 ELSE [follow EXCEPT ![s].queue = Append(@, o)]
    /\ op' = [op EXCEPT ![o].pc = "finished"]
    /\ UNCHANGED <<chainVars, subscriptions, operationCount>>

(***************************************************************************)
(* The result is queued for the forwarding task, unless that is gone.      *)
(***************************************************************************)
SendResult(o) ==
    LET s == op[o].sub IN
    /\ op[o].pc = "running"
    /\ follow' = IF follow[s].pc \in {"leaving", "closed"} THEN follow
                 ELSE [follow EXCEPT ![s].queue = Append(@, o)]
    /\ op' = [op EXCEPT ![o].pc = "finished"]
    /\ UNCHANGED <<chainVars, subscriptions, operationCount>>

\* Deliberate fault: the operation stays counted.
StaysCounted(o) ==
    /\ op[o].pc = "finished"
    /\ op' = [op EXCEPT ![o].pc = "done"]
    /\ UNCHANGED <<chainVars, subscriptions, follow, operationCount>>

UncountOperation(o) ==
    /\ op[o].pc = "finished"
    /\ operationCount' = [operationCount EXCEPT ![op[o].sub] = @ - 1]
    /\ op' = [op EXCEPT ![o].pc = "done"]
    /\ UNCHANGED <<chainVars, subscriptions, follow>>

-----------------------------------------------------------------------------
FollowStep(s) ==
    \/ RegisterSubscription(s)
    \/ SendInitialized(s)
    \/ SendFails(s)
    \/ SubscribeEvents(s)
    \/ ForwardOperation(s)
    \/ ForwardBlock(s)
    \/ SkipLagged(s)
    \/ RemoveSubscription(s)

OperationStep(o) ==
    \/ CountOperation(o)
    \/ FailOperation(o)
    \/ SpawnOperation(o)
    \/ SendResult(o)
    \/ UncountOperation(o)

Next ==
    \/ AcceptBlock
    \/ \E b \in unsent : EmitNewBlock(b)
    \/ \E s \in Subs : CheckLimit(s) \/ FollowStep(s) \/ Disconnect(s)
    \/ \E o \in Ops : OperationStep(o) \/ \E s \in Subs : BeginOperation(o, s)

Spec == Init /\ [][Next]_vars

(***************************************************************************)
(* Spawned tasks and accepted requests are polled until they finish, and   *)
(* build_block always reaches the send once it has moved the head.         *)
(***************************************************************************)
FairSpec ==
    /\ Spec
    /\ \A s \in Subs : WF_vars(FollowStep(s))
    /\ \A o \in Ops : WF_vars(OperationStep(o))
    /\ WF_vars(\E b \in unsent : EmitNewBlock(b))

-----------------------------------------------------------------------------
(* Properties. *)

Counted(s) ==
    {o \in Ops : /\ op[o].sub = s
                 /\ op[o].pc \in {"counted", "running", "finished", "failed"}}

(***************************************************************************)
(* operation_count is the number of operations that were counted and not   *)
(* uncounted, whatever order the handlers and tasks run in: it never       *)
(* underflows, and never falls below the operations running.               *)
(***************************************************************************)
OperationsCounted ==
    \A s \in Subs : operationCount[s] = Cardinality(Counted(s))

(***************************************************************************)
(* The subscriptions that count towards the limit are those being set up   *)
(* or served: every way out of follow and of its task removes the handle.  *)
(***************************************************************************)
OnlyLiveRegistered ==
    \A s \in Subs :
        s \in subscriptions <=>
            follow[s].pc \in {"registered", "initialized", "following",
                              "leaving"}

(***************************************************************************)
(* A request that has passed the checks belongs to a subscription.         *)
(***************************************************************************)
OperationsOwned ==
    \A o \in Ops : op[o].pc \notin {"new", "refused"} => op[o].sub \in Subs

(***************************************************************************)
(* A block sent while a client follows reaches it, or it fell behind the   *)
(* channel's capacity, or it left.                                         *)
(***************************************************************************)
BlocksForwarded ==
    \A s \in Subs, b \in 1..MaxBlock :
        (follow[s].pc = "following" /\ follow[s].position < b
             /\ b <= Len(channel))
            ~> (b <= follow[s].position \/ follow[s].pc # "following")

(***************************************************************************)
(* The result of an operation that was spawned reaches its client, unless  *)
(* the client left, even when it was ready before the client was served.   *)
(***************************************************************************)
ResultsDelivered ==
    \A o \in Ops, s \in Subs :
        (op[o].pc = "running" /\ op[o].sub = s)
            ~> (o \in follow[s].told \/ follow[s].pc \in {"leaving", "closed"})

-----------------------------------------------------------------------------
(* Statements of the code's documentation that the code does not keep. *)

(***************************************************************************)
(* "No `newBlock` or `finalized` events are sent for the fork point block  *)
(* since it is already included in the initialized event."                 *)
(***************************************************************************)
InitialNotRepeated ==
    \A s \in Subs :
        \A i \in DOMAIN follow[s].reported :
            1 < i => follow[s].reported[i] # follow[s].reported[1]
=============================================================================
