-------------------------- MODULE ChainHeadProofs --------------------------
(***************************************************************************)
(* Proofs about chainHead subscriptions, for any number of subscriptions,  *)
(* operations and builders, any limits and any channel capacity.           *)
(*                                                                         *)
(* The count of a subscription stays a natural number because it equals    *)
(* the number of operations counted and not yet uncounted, so the types    *)
(* and that equality are proved together.                                  *)
(***************************************************************************)
EXTENDS ChainHead, FiniteSetTheorems, TLAPS

(***************************************************************************)
(* The inductive invariant.                                                *)
(***************************************************************************)
Accounted == TypeOK /\ OperationsOwned /\ OperationsCounted

(***************************************************************************)
(* The counted operations of a subscription are finitely many.             *)
(***************************************************************************)
LEMMA CountedFinite ==
  ASSUME NEW s \in Subs
  PROVE  IsFiniteSet(Counted(s)) /\ Cardinality(Counted(s)) \in Nat
  <1>1. Counted(s) \subseteq Ops
    BY DEF Counted
  <1>2. IsFiniteSet(Counted(s))
    BY <1>1, SubAssumption, FS_Subset
  <1> QED
    BY <1>2, FS_CardinalityType

(***************************************************************************)
(* A step that changes only the program counter of one operation, and not  *)
(* across the border of the counted ones, keeps the counts right.          *)
(***************************************************************************)
LEMMA SameCounted ==
  ASSUME Accounted,
         \A o \in Ops, s \in Subs : o \in Counted(s)' <=> o \in Counted(s),
         UNCHANGED operationCount
  PROVE  OperationsCounted'
  <1>1. \A s \in Subs : Counted(s)' = Counted(s)
    BY DEF Counted
  <1> QED
    BY <1>1 DEF Accounted, OperationsCounted

(***************************************************************************)
(* Steps that leave the operations and the counts alone.                   *)
(***************************************************************************)
LEMMA FollowKeepsCounts ==
  ASSUME Accounted, UNCHANGED <<op, operationCount>>
  PROVE  OperationsOwned' /\ OperationsCounted'
  <1>1. OperationsOwned'
    BY DEF Accounted, OperationsOwned
  <1>2. \A o \in Ops, s \in Subs : o \in Counted(s)' <=> o \in Counted(s)
    BY DEF Counted
  <1> QED
    BY <1>1, <1>2, SameCounted

(***************************************************************************)
(* The steps of block production and of follow keep the types.             *)
(***************************************************************************)
LEMMA ChainTyped ==
  ASSUME TypeOK, AcceptBlock \/ \E b \in unsent : EmitNewBlock(b)
  PROVE  TypeOK'
  <1>1. CASE AcceptBlock
    <2>1. head + 1 \in Blocks
      BY <1>1, LimitAssumption DEF AcceptBlock, TypeOK, Blocks
    <2> QED
      BY <1>1, <2>1 DEF AcceptBlock, TypeOK
  <1>2. ASSUME NEW b \in unsent, EmitNewBlock(b)
        PROVE  TypeOK'
    BY <1>2 DEF EmitNewBlock, TypeOK
  <1> QED
    BY <1>1, <1>2

LEMMA FollowTyped ==
  ASSUME TypeOK, NEW s \in Subs,
         CheckLimit(s) \/ FollowStep(s) \/ Disconnect(s)
  PROVE  TypeOK'
  <1>0. /\ follow \in [Subs -> Follow] /\ follow[s] \in Follow
        /\ head \in Blocks /\ channel \in Seq(Blocks)
        /\ Len(channel) \in Nat
    BY DEF TypeOK
  <1>1. SUFFICES follow' \in [Subs -> Follow]
                 /\ subscriptions' \in SUBSET Subs
                 /\ UNCHANGED <<chainVars, operationCount, op>>
    BY DEF TypeOK, chainVars
  <1>2. subscriptions' \in SUBSET Subs
        /\ UNCHANGED <<chainVars, operationCount, op>>
    BY DEF TypeOK, FollowStep, CheckLimit, RegisterSubscription,
       SendInitialized, SendFails, SubscribeEvents, ForwardOperation,
       ForwardBlock, SkipLagged, Disconnect, RemoveSubscription
  <1>3. ASSUME NEW c \in {"accepted", "registered", "leaving", "closed"},
               follow' = [follow EXCEPT ![s].pc = c]
        PROVE  follow' \in [Subs -> Follow]
    <2>1. [follow[s] EXCEPT !.pc = c] \in Follow
      BY <1>0, <1>3 DEF Follow
    <2> QED
      BY <1>0, <1>3, <2>1
  <1>4. CASE CheckLimit(s)
    BY <1>2, <1>4, <1>3 DEF CheckLimit
  <1>5. CASE SendInitialized(s)
    <2>1. <<head>> \in Seq(Blocks)
      BY <1>0
    <2>2. [follow[s] EXCEPT !.pc = "initialized", !.reported = <<head>>]
              \in Follow
      BY <1>0, <2>1 DEF Follow
    <2> QED
      BY <1>0, <1>2, <1>5, <2>2 DEF SendInitialized
  <1>6. CASE SubscribeEvents(s)
    <2>1. [follow[s] EXCEPT !.pc = "following", !.position = Len(channel)]
              \in Follow
      BY <1>0 DEF Follow
    <2> QED
      BY <1>0, <1>2, <1>6, <2>1 DEF SubscribeEvents
  <1>7. CASE ForwardOperation(s)
    <2>1. Head(follow[s].queue) \in Ops /\ Tail(follow[s].queue) \in Seq(Ops)
      BY <1>0, <1>7 DEF ForwardOperation, Follow
    <2> QED
      BY <1>0, <1>2, <1>7, <2>1 DEF ForwardOperation, Follow
  <1>8. CASE ForwardBlock(s)
    <2>1. channel[follow[s].position + 1] \in Blocks
      BY <1>0, <1>8, LimitAssumption DEF ForwardBlock, Waiting, Follow
    <2>2. Append(follow[s].reported, channel[follow[s].position + 1])
              \in Seq(Blocks)
      BY <1>0, <2>1 DEF Follow
    <2>3. follow[s].position + 1 \in Nat
      BY <1>0 DEF Follow
    <2> DEFINE r == Append(follow[s].reported, channel[follow[s].position + 1])
               p == follow[s].position + 1
    <2>4. follow' = [follow EXCEPT ![s].reported = r, ![s].position = p]
      BY <1>8 DEF ForwardBlock
    <2>5. r \in Seq(Blocks) /\ p \in Nat
      BY <2>2, <2>3
    <2> HIDE DEF r, p
    <2>6. [follow[s] EXCEPT !.reported = r, !.position = p] \in Follow
      BY <1>0, <2>5 DEF Follow
    <2> QED
      BY <1>0, <1>2, <2>4, <2>6
  <1>9. CASE SkipLagged(s)
    <2>1. Len(channel) - Capacity \in Nat
      BY <1>0, <1>9, LimitAssumption DEF SkipLagged, Waiting, Follow
    <2> QED
      BY <1>0, <1>2, <1>9, <2>1 DEF SkipLagged, Follow
  <1>10. CASE RegisterSubscription(s) \/ SendFails(s) \/ Disconnect(s)
              \/ RemoveSubscription(s)
    BY <1>2, <1>3, <1>10
    DEF RegisterSubscription, SendFails, Disconnect, RemoveSubscription
  <1> QED
    BY <1>4, <1>5, <1>6, <1>7, <1>8, <1>9, <1>10 DEF FollowStep

(***************************************************************************)
(* Block production and follow leave operations and counts alone.          *)
(***************************************************************************)
LEMMA FollowAccounted ==
  ASSUME Accounted,
         \/ AcceptBlock
         \/ \E b \in unsent : EmitNewBlock(b)
         \/ \E s \in Subs : CheckLimit(s) \/ FollowStep(s) \/ Disconnect(s)
  PROVE  Accounted'
  <1>1. TypeOK'
    BY ChainTyped, FollowTyped DEF Accounted
  <1>2. UNCHANGED <<op, operationCount>>
    BY DEF AcceptBlock, EmitNewBlock, FollowStep, CheckLimit,
       RegisterSubscription, SendInitialized, SendFails, SubscribeEvents,
       ForwardOperation, ForwardBlock, SkipLagged, Disconnect,
       RemoveSubscription
  <1> QED
    BY <1>1, <1>2, FollowKeepsCounts DEF Accounted

(***************************************************************************)
(* The steps of an operation.                                              *)
(***************************************************************************)
LEMMA OperationAccounted ==
  ASSUME Accounted, NEW o \in Ops,
         OperationStep(o) \/ \E s \in Subs : BeginOperation(o, s)
  PROVE  Accounted'
  <1>0. /\ TypeOK /\ OperationsOwned /\ OperationsCounted
        /\ op \in [Ops -> Operation] /\ op[o] \in Operation
        /\ operationCount \in [Subs -> Nat]
    BY DEF Accounted, TypeOK
  <1>1. ASSUME NEW s \in Subs, BeginOperation(o, s)
        PROVE  Accounted'
    <2>1. op' \in [Ops -> Operation]
      BY <1>0, <1>1 DEF BeginOperation, Operation
    <2>2. TypeOK'
      BY <1>0, <1>1, <2>1 DEF BeginOperation, TypeOK, chainVars
    <2>3. OperationsOwned'
      BY <1>0, <1>1 DEF BeginOperation, OperationsOwned
    <2>4. \A p \in Ops, r \in Subs : p \in Counted(r)' <=> p \in Counted(r)
      BY <1>0, <1>1 DEF BeginOperation, Counted
    <2> QED
      BY <1>1, <2>2, <2>3, <2>4, SameCounted DEF BeginOperation, Accounted
  <1>2. CASE FailOperation(o) \/ SpawnOperation(o)
    <2>1. op' \in [Ops -> Operation]
      BY <1>0, <1>2 DEF FailOperation, SpawnOperation, Operation
    <2>2. TypeOK'
      BY <1>0, <1>2, <2>1 DEF FailOperation, SpawnOperation, TypeOK, chainVars
    <2>3. OperationsOwned'
      BY <1>0, <1>2 DEF FailOperation, SpawnOperation, OperationsOwned, Operation
    <2>4. \A p \in Ops, r \in Subs : p \in Counted(r)' <=> p \in Counted(r)
      BY <1>0, <1>2 DEF FailOperation, SpawnOperation, Counted, Operation
    <2> QED
      BY <1>2, <2>2, <2>3, <2>4, SameCounted
      DEF FailOperation, SpawnOperation, Accounted
  <1>3. CASE SendResult(o)
    <2>1. op' \in [Ops -> Operation]
      BY <1>0, <1>3 DEF SendResult, Operation
    <2>2. follow' \in [Subs -> Follow]
      <3>1. op[o].sub \in Subs
        BY <1>0, <1>3 DEF SendResult, OperationsOwned
      <3>2. follow \in [Subs -> Follow] /\ follow[op[o].sub] \in Follow
        BY <1>0, <3>1 DEF TypeOK
      <3>3. Append(follow[op[o].sub].queue, o) \in Seq(Ops)
        BY <3>2 DEF Follow
      <3> QED
        BY <1>3, <3>1, <3>2, <3>3 DEF SendResult, Follow
    <2>3. TypeOK'
      BY <1>0, <1>3, <2>1, <2>2 DEF SendResult, TypeOK, chainVars
    <2>4. OperationsOwned'
      BY <1>0, <1>3 DEF SendResult, OperationsOwned, Operation
    <2>5. \A p \in Ops, r \in Subs : p \in Counted(r)' <=> p \in Counted(r)
      BY <1>0, <1>3 DEF SendResult, Counted, Operation
    <2> QED
      BY <1>3, <2>3, <2>4, <2>5, SameCounted DEF SendResult, Accounted
  <1>4. CASE CountOperation(o)
    <2>1. PICK s \in Subs : s = op[o].sub
      BY <1>0, <1>4 DEF CountOperation, OperationsOwned
    <2>2. op' \in [Ops -> Operation] /\ operationCount' \in [Subs -> Nat]
      <3>1. op' \in [Ops -> Operation]
        BY <1>0, <1>4 DEF CountOperation, Operation
      <3>2. operationCount[s] + 1 \in Nat
        BY <1>0, <2>1
      <3>3. operationCount' = [operationCount EXCEPT ![s] = operationCount[s] + 1]
        BY <1>4, <2>1 DEF CountOperation
      <3> QED
        BY <1>0, <2>1, <3>1, <3>2, <3>3
    <2>3. TypeOK'
      BY <1>0, <1>4, <2>2 DEF CountOperation, TypeOK, chainVars
    <2>4. OperationsOwned'
      BY <1>0, <1>4 DEF CountOperation, OperationsOwned, Operation
    <2>5. Counted(s)' = Counted(s) \cup {o} /\ o \notin Counted(s)
      BY <1>0, <1>4, <2>1 DEF CountOperation, Counted, Operation
    <2>6. Cardinality(Counted(s)') = Cardinality(Counted(s)) + 1
      BY <2>1, <2>5, CountedFinite, FS_AddElement
    <2>7. \A r \in Subs \ {s} : Counted(r)' = Counted(r)
      BY <1>0, <1>4, <2>1 DEF CountOperation, Counted, Operation
    <2>8. /\ operationCount'[s] = operationCount[s] + 1
          /\ \A r \in Subs \ {s} : operationCount'[r] = operationCount[r]
      BY <1>0, <1>4, <2>1 DEF CountOperation
    <2>9. OperationsCounted'
      BY <1>0, <2>1, <2>6, <2>7, <2>8 DEF OperationsCounted
    <2> QED
      BY <2>3, <2>4, <2>9 DEF Accounted
  <1>5. CASE UncountOperation(o)
    <2>1. PICK s \in Subs : s = op[o].sub
      BY <1>0, <1>5 DEF UncountOperation, OperationsOwned
    <2>2. Counted(s)' = Counted(s) \ {o} /\ o \in Counted(s)
      BY <1>0, <1>5, <2>1 DEF UncountOperation, Counted, Operation
    <2>3. /\ Cardinality(Counted(s)') = Cardinality(Counted(s)) - 1
          /\ Cardinality(Counted(s)') \in Nat
      <3>1. IsFiniteSet(Counted(s) \ {o})
            /\ Cardinality(Counted(s) \ {o}) = Cardinality(Counted(s)) - 1
        BY <2>1, <2>2, CountedFinite, FS_RemoveElement
      <3> QED
        BY <2>2, <3>1, FS_CardinalityType
    <2>4. \A r \in Subs \ {s} : Counted(r)' = Counted(r)
      BY <1>0, <1>5, <2>1 DEF UncountOperation, Counted, Operation
    <2>5. /\ operationCount' = [operationCount EXCEPT ![s] = @ - 1]
          /\ operationCount'[s] = operationCount[s] - 1
          /\ \A r \in Subs \ {s} : operationCount'[r] = operationCount[r]
      BY <1>0, <1>5, <2>1 DEF UncountOperation
    <2>6. operationCount[s] = Cardinality(Counted(s))
      BY <1>0, <2>1 DEF OperationsCounted
    <2>7. operationCount' \in [Subs -> Nat]
      <3>1. operationCount[s] - 1 \in Nat
        BY <2>3, <2>6
      <3> QED
        BY <1>0, <2>1, <2>5, <3>1
    <2>8. op' \in [Ops -> Operation]
      BY <1>0, <1>5 DEF UncountOperation, Operation
    <2>9. TypeOK'
      BY <1>0, <1>5, <2>7, <2>8 DEF UncountOperation, TypeOK, chainVars
    <2>10. OperationsOwned'
      BY <1>0, <1>5 DEF UncountOperation, OperationsOwned, Operation
    <2>11. OperationsCounted'
      BY <1>0, <2>1, <2>3, <2>4, <2>5, <2>6 DEF OperationsCounted
    <2> QED
      BY <2>9, <2>10, <2>11 DEF Accounted
  <1> QED
    BY <1>1, <1>2, <1>3, <1>4, <1>5 DEF OperationStep

-----------------------------------------------------------------------------

(***************************************************************************)
(* The inductive invariant holds in every execution.                       *)
(***************************************************************************)
LEMMA AccountedInvariant == Spec => []Accounted
  <1>1. Init => Accounted
    <2> SUFFICES ASSUME Init PROVE Accounted
      OBVIOUS
    <2>1. TypeOK
      BY LimitAssumption DEF Init, TypeOK, Follow, Operation, Blocks
    <2>2. OperationsOwned
      BY DEF Init, OperationsOwned
    <2>3. \A s \in Subs : Counted(s) = {}
      BY DEF Init, Counted
    <2>4. OperationsCounted
      BY <2>3, FS_EmptySet DEF Init, OperationsCounted
    <2> QED
      BY <2>1, <2>2, <2>4 DEF Accounted
  <1>2. Accounted /\ [Next]_vars => Accounted'
    <2> SUFFICES ASSUME Accounted, [Next]_vars PROVE Accounted'
      OBVIOUS
    <2>1. CASE Next
      BY <2>1, FollowAccounted, OperationAccounted DEF Next
    <2>2. CASE UNCHANGED vars
      <3>1. TypeOK'
        BY <2>2 DEF vars, chainVars, Accounted, TypeOK
      <3> QED
        BY <2>2, <3>1, FollowKeepsCounts DEF vars, Accounted
    <2> QED
      BY <2>1, <2>2
  <1> QED
    BY <1>1, <1>2, PTL DEF Spec

(***************************************************************************)
(* In every execution the types hold, operation_count among them, and the  *)
(* count of every subscription is the number of its operations that were   *)
(* counted and not uncounted: it never underflows.                         *)
(***************************************************************************)
THEOREM OperationCounts == Spec => [](TypeOK /\ OperationsCounted)
  <1>1. Accounted => TypeOK /\ OperationsCounted
    BY DEF Accounted
  <1> QED
    BY <1>1, AccountedInvariant, PTL

(***************************************************************************)
(* A step that leaves the handles and the stages of follow alone.          *)
(***************************************************************************)
LEMMA SameStages ==
  ASSUME OnlyLiveRegistered, UNCHANGED subscriptions,
         \A r \in Subs : follow'[r].pc = follow[r].pc
  PROVE  OnlyLiveRegistered'
  BY DEF OnlyLiveRegistered

(***************************************************************************)
(* The handles that count towards the subscription limit are exactly those *)
(* of subscriptions being set up or served, so a client that leaves at any *)
(* point of follow frees its place.                                        *)
(***************************************************************************)
THEOREM LiveHandles == Spec => []OnlyLiveRegistered
  <1>1. Init => OnlyLiveRegistered
    BY DEF Init, OnlyLiveRegistered
  <1>2. Accounted /\ OnlyLiveRegistered /\ [Next]_vars => OnlyLiveRegistered'
    <2> SUFFICES ASSUME Accounted, OnlyLiveRegistered, [Next]_vars
                 PROVE  OnlyLiveRegistered'
      OBVIOUS
    <2>0. /\ follow \in [Subs -> Follow]
          /\ \A r \in Subs : follow[r] \in Follow
      BY DEF Accounted, TypeOK
    <2>1. CASE AcceptBlock \/ \E b \in unsent : EmitNewBlock(b)
      BY <2>1 DEF AcceptBlock, EmitNewBlock, OnlyLiveRegistered
    <2>2. ASSUME NEW s \in Subs, CheckLimit(s)
          PROVE  OnlyLiveRegistered'
      <3>1. CASE follow' = [follow EXCEPT ![s].pc = "accepted"]
        BY <2>0, <2>2, <3>1 DEF CheckLimit, OnlyLiveRegistered, Follow
      <3>2. CASE follow' = [follow EXCEPT ![s].pc = "closed"]
        BY <2>0, <2>2, <3>2 DEF CheckLimit, OnlyLiveRegistered, Follow
      <3> QED
        BY <2>2, <3>1, <3>2 DEF CheckLimit
    <2>3. ASSUME NEW s \in Subs, RegisterSubscription(s)
          PROVE  OnlyLiveRegistered'
      BY <2>0, <2>3 DEF RegisterSubscription, OnlyLiveRegistered, Follow
    <2>4. ASSUME NEW s \in Subs, SendInitialized(s)
          PROVE  OnlyLiveRegistered'
      BY <2>0, <2>4 DEF SendInitialized, OnlyLiveRegistered, Follow
    <2>5. ASSUME NEW s \in Subs, SendFails(s)
          PROVE  OnlyLiveRegistered'
      BY <2>0, <2>5 DEF SendFails, OnlyLiveRegistered, Follow
    <2>6. ASSUME NEW s \in Subs, SubscribeEvents(s)
          PROVE  OnlyLiveRegistered'
      BY <2>0, <2>6 DEF SubscribeEvents, OnlyLiveRegistered, Follow
    <2>7. ASSUME NEW s \in Subs,
                 ForwardOperation(s) \/ ForwardBlock(s) \/ SkipLagged(s)
          PROVE  OnlyLiveRegistered'
      <3>1. CASE ForwardOperation(s)
        BY <2>0, <3>1, SameStages DEF ForwardOperation, Follow
      <3>2. CASE ForwardBlock(s)
        BY <2>0, <3>2, SameStages DEF ForwardBlock, Follow
      <3>3. CASE SkipLagged(s)
        BY <2>0, <3>3, SameStages DEF SkipLagged, Follow
      <3> QED
        BY <2>7, <3>1, <3>2, <3>3
    <2>8. ASSUME NEW s \in Subs, Disconnect(s)
          PROVE  OnlyLiveRegistered'
      BY <2>0, <2>8 DEF Disconnect, OnlyLiveRegistered, Follow
    <2>9. ASSUME NEW s \in Subs, RemoveSubscription(s)
          PROVE  OnlyLiveRegistered'
      BY <2>0, <2>9 DEF RemoveSubscription, OnlyLiveRegistered, Follow
    <2>10. ASSUME NEW o \in Ops, SendResult(o)
           PROVE  OnlyLiveRegistered'
      <3>1. op[o].sub \in Subs
        BY <2>10 DEF SendResult, Accounted, OperationsOwned
      <3>2. \A r \in Subs : follow'[r].pc = follow[r].pc
        BY <2>0, <2>10, <3>1 DEF SendResult, Follow
      <3> QED
        BY <2>10, <3>2, SameStages DEF SendResult
    <2>11. ASSUME NEW o \in Ops,
                  \/ \E s \in Subs : BeginOperation(o, s)
                  \/ CountOperation(o)
                  \/ FailOperation(o)
                  \/ SpawnOperation(o)
                  \/ UncountOperation(o)
           PROVE  OnlyLiveRegistered'
      <3>1. UNCHANGED <<subscriptions, follow>>
        BY <2>11 DEF BeginOperation, CountOperation, FailOperation,
           SpawnOperation, UncountOperation
      <3> QED
        BY <3>1, SameStages
    <2>12. CASE UNCHANGED vars
      BY <2>12, SameStages DEF vars
    <2> QED
      BY <2>1, <2>2, <2>3, <2>4, <2>5, <2>6, <2>7, <2>8, <2>9, <2>10, <2>11,
         <2>12
      DEF Next, FollowStep, OperationStep
  <1> QED
    BY <1>1, <1>2, AccountedInvariant, PTL DEF Spec
=============================================================================
