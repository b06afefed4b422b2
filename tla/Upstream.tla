------------------------------ MODULE Upstream ------------------------------
(***************************************************************************)
(* The RPC client of a fork (crates/pop-fork/src/rpc.rs): one websocket    *)
(* connection to the live chain behind a read-write lock, shared by every  *)
(* task of the server.  A request holds the read lock until it is          *)
(* answered; storage and key requests also hold one of a few permits.  A   *)
(* caller whose request fails reconnects and repeats it once               *)
(* (blockchain.rs, reconnect_upstream); a storage read does so in two      *)
(* nested layers, get_storage_value over RemoteStorageLayer::get.          *)
(*                                                                         *)
(* What is asked and answered is left to the module that uses this one.    *)
(* A request may fail on a sound connection too (the endpoint refuses it,  *)
(* or times out); an endpoint that still serves the connection answers the *)
(* liveness check.                                                         *)
(***************************************************************************)
EXTENDS Naturals, FiniteSets

CONSTANTS
    Tasks,      \* the tasks that share the client
    Permits,    \* MAX_CONCURRENT_UPSTREAM_CALLS
    MaxBreaks   \* bound: how often the connection breaks

ASSUME PermitsAssumption == Permits \in Nat \ {0}

VARIABLES
    alive,      \* does the connection behind `legacy` still work
    breaks,     \* how often it has broken
    made,       \* how often it has been replaced
    call        \* what each task is doing with the client

upstreamVars == <<alive, breaks, made, call>>

(***************************************************************************)
(* A task that wants to send is "ready"; "sent" holds the read lock.  The  *)
(* reconnecting pcs come after a failed first attempt.                     *)
(***************************************************************************)
Reconnecting == {"checking", "connecting", "replacing"}

Pc == {"idle", "ready", "sent", "locking", "answered", "failed"} \union Reconnecting

\* How many reconnects are left to a request: a plain lookup has none, a query with a
\* retry one; a storage read has three, of which the second is the outer layer's.
Once == 0
WithRetry == 1
Nested == 3
OuterRetry == 2

Call == [pc: Pc, batched: BOOLEAN, left: 0..Nested]

NoCall == [pc |-> "idle", batched |-> FALSE, left |-> 0]

InitUpstream ==
    /\ alive = TRUE
    /\ breaks = 0
    /\ made = 0
    /\ call = [t \in Tasks |-> NoCall]

\* Deliberate fault: the guard of the liveness check lives on while the task waits to write.
ReadersAndChecked == {t \in Tasks : call[t].pc \in {"sent", "checking", "connecting", "replacing"}}

\* Holders of the read lock of `legacy`: requests in flight and the liveness check.
Readers == {t \in Tasks : call[t].pc \in {"sent", "checking"}}

\* A task waiting for the write lock.  The lock is fair: it also holds new readers back.
WriterWaiting == \E t \in Tasks : call[t].pc = "replacing"

PermitFree == Cardinality({t \in Tasks : call[t].pc = "sent" /\ call[t].batched}) < Permits

Goto(t, pc) == call' = [call EXCEPT ![t].pc = pc]

(***************************************************************************)
(* Requests                                                                *)
(***************************************************************************)
Ask(t, batched, left) ==
    /\ call[t].pc = "idle"
    /\ call' = [call EXCEPT ![t] = [pc |-> "ready", batched |-> batched, left |-> left]]
    /\ UNCHANGED <<alive, breaks, made>>

Send(t) ==
    /\ call[t].pc = "ready"
    /\ ~WriterWaiting
    /\ call[t].batched => PermitFree
    /\ Goto(t, "sent")
    /\ UNCHANGED <<alive, breaks, made>>

Answer(t) ==
    /\ call[t].pc = "sent"
    /\ alive
    /\ Goto(t, "answered")
    /\ UNCHANGED <<alive, breaks, made>>

\* A failure leads to a reconnect while one is left, and is the caller's error then.
Fail(t) ==
    LET left == call[t].left IN
    call' = [call EXCEPT ![t].pc = IF left = 0 THEN "failed" ELSE "locking",
                         ![t].left = IF left = 0 THEN 0 ELSE left - 1]

RequestFails(t) ==
    /\ call[t].pc = "sent"
    /\ Fail(t)
    /\ UNCHANGED <<alive, breaks, made>>

(***************************************************************************)
(* Reconnecting.  The lock is taken before the liveness check and kept     *)
(* until the connection has been replaced.                                 *)
(***************************************************************************)

\* Deliberate fault: nobody waits for the task that already reconnects.
UnlockedReconnect(t) ==
    /\ call[t].pc = "locking"
    /\ ~WriterWaiting
    /\ Goto(t, "checking")
    /\ UNCHANGED <<alive, breaks, made>>

LockReconnect(t) ==
    /\ call[t].pc = "locking"
    /\ ~ \E u \in Tasks : call[u].pc \in Reconnecting
    /\ Goto(t, "checking")
    /\ UNCHANGED <<alive, breaks, made>>

\* system_chain answers: another task has reconnected, or the request alone had failed.
CheckLiveness(t) ==
    /\ call[t].pc = "checking"
    /\ IF alive THEN Goto(t, "ready") ELSE Goto(t, "connecting")
    /\ UNCHANGED <<alive, breaks, made>>

\* No connection: the error of a nested read's inner layer makes the outer one try.
CreateConnection(t) ==
    /\ call[t].pc = "connecting"
    /\ \/ Goto(t, "replacing")
       \/ IF call[t].left = OuterRetry THEN Fail(t) ELSE Goto(t, "failed")
    /\ UNCHANGED <<alive, breaks, made>>

ReplaceConnection(t) ==
    /\ call[t].pc = "replacing"
    /\ Readers = {}
    /\ alive' = TRUE
    /\ made' = made + 1
    /\ Goto(t, "ready")
    /\ UNCHANGED breaks

\* External: the websocket is closed under the client.
Break ==
    /\ alive
    /\ breaks < MaxBreaks
    /\ alive' = FALSE
    /\ breaks' = breaks + 1
    /\ UNCHANGED <<made, call>>

UpstreamStep(t) ==
    \/ Send(t)
    \/ Answer(t)
    \/ RequestFails(t)
    \/ LockReconnect(t)
    \/ CheckLiveness(t)
    \/ CreateConnection(t)
    \/ ReplaceConnection(t)

(***************************************************************************)
(* Properties                                                              *)
(***************************************************************************)

UpstreamTypeOK ==
    /\ alive \in BOOLEAN
    /\ breaks \in Nat
    /\ made \in Nat
    /\ call \in [Tasks -> Call]

\* Every task that finds the connection broken reconnects, and yet a break is answered
\* by one new connection: a connection that works is never thrown away.
OneConnectionPerBreak == made <= breaks

=============================================================================
