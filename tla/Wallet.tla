------------------------------- MODULE Wallet -------------------------------
(***************************************************************************)
(* Signing with a browser wallet: request_signature                        *)
(* (crates/pop-cli/src/common/wallet.rs) polls the state that the HTTP     *)
(* server of crates/pop-cli/src/wallet_integration.rs fills in.  The       *)
(* server's handlers and the command share one async mutex, and the server *)
(* shuts down gracefully: it takes no new request and waits for the        *)
(* handlers that run.  A page has one request in flight at a time.         *)
(***************************************************************************)
EXTENDS Session

CONSTANTS Pages,        \* open browser tabs
          Payloads,     \* signed payloads
          MaxRequests   \* bound: requests sent

VARIABLES server,      \* "binding", "serving", "closing", "stopped", "failed"
          signed,      \* StateHandler::signed_payload
          walletError, \* StateHandler::error is set
          holder,      \* who holds the state's lock, or NULL
          polling,     \* where request_signature is
          request,     \* the request of each page
          requests,    \* requests sent
          received     \* what request_signature returned, "error" if it failed

walletVars == <<server, signed, walletError, holder, polling, request, requests, received>>

\* A request is its payload and what its handler has still to do.
NoRequest == [todo |-> <<>>, payload |-> NULL]

\* The steps of each route's handler, each under the lock.
Handler(route) ==
    CASE route = "submit" -> <<"signal", "store">>
      [] route = "error" -> <<"report">>
      [] route = "terminate" -> <<"signal">>

Handling(p, step) == request[p].todo # <<>> /\ Head(request[p].todo) = step

StepDone(p) ==
    request' = [request EXCEPT ![p] =
        IF Len(@.todo) = 1 THEN NoRequest ELSE [@ EXCEPT !.todo = Tail(@)]]

WalletInit ==
    /\ server = "binding"
    /\ signed = NULL
    /\ walletError = FALSE
    /\ holder = NULL
    /\ polling = "error"
    /\ request = [p \in Pages |-> NoRequest]
    /\ requests = 0
    /\ received = NULL

-----------------------------------------------------------------------------
(* The server task. *)

BindServer ==
    /\ server = "binding"
    /\ server' \in {"serving", "failed"}
    /\ UNCHANGED <<signed, walletError, holder, polling, request, requests, received>>

(***************************************************************************)
(* Deliberate fault: the server does not wait for its handlers.            *)
(***************************************************************************)
StopAtOnce == server = "closing"

GracefulShutdown ==
    /\ server = "closing"
    /\ \A p \in Pages : request[p] = NoRequest

StopServer ==
    /\ GracefulShutdown
    /\ server' = "stopped"
    /\ UNCHANGED <<signed, walletError, holder, polling, request, requests, received>>

-----------------------------------------------------------------------------
(* The routes. *)

(***************************************************************************)
(* A page fetches the call to sign without touching the shared state.      *)
(***************************************************************************)
SendRequest(p) ==
    /\ server = "serving"
    /\ request[p] = NoRequest
    /\ requests < MaxRequests
    /\ requests' = requests + 1
    /\ \E route \in {"submit", "error", "terminate"}, x \in Payloads :
          request' = [request EXCEPT ![p] = [todo |-> Handler(route), payload |-> x]]
    /\ UNCHANGED <<server, signed, walletError, holder, polling, received>>

(***************************************************************************)
(* terminate_helper: the sender is taken once; a later call finds none.    *)
(***************************************************************************)
TerminateHelper(p) ==
    /\ Handling(p, "signal")
    /\ holder = NULL
    /\ server' = IF server = "serving" THEN "closing" ELSE server
    /\ StepDone(p)
    /\ UNCHANGED <<signed, walletError, holder, polling, requests, received>>

SubmitHandler(p) ==
    /\ Handling(p, "store")
    /\ holder = NULL
    /\ signed' = request[p].payload
    /\ StepDone(p)
    /\ UNCHANGED <<server, walletError, holder, polling, requests, received>>

ErrorHandler(p) ==
    /\ Handling(p, "report")
    /\ holder = NULL
    /\ walletError' = TRUE
    /\ StepDone(p)
    /\ UNCHANGED <<server, signed, holder, polling, requests, received>>

-----------------------------------------------------------------------------
(* The command. *)

TakeError ==
    /\ polling = "error"
    /\ holder = NULL
    /\ walletError' = FALSE
    /\ polling' = "lock"
    /\ UNCHANGED <<server, signed, holder, request, requests, received>>

(***************************************************************************)
(* With the lock held, the command either goes round again or waits for    *)
(* the server to end, still holding the lock.                              *)
(***************************************************************************)
PollState ==
    /\ polling = "lock"
    /\ holder = NULL
    /\ IF server \in {"stopped", "failed"} \/ signed # NULL
       THEN holder' = "command" /\ polling' = "join"
       ELSE holder' = NULL /\ polling' = "error"
    /\ UNCHANGED <<server, signed, walletError, request, requests, received>>

JoinServer ==
    /\ polling = "join"
    /\ server \in {"stopped", "failed"}
    /\ holder' = NULL
    /\ polling' = "done"
    /\ received' = IF server = "failed" THEN "error" ELSE signed
    /\ signed' = IF server = "failed" THEN signed ELSE NULL
    /\ UNCHANGED <<server, walletError, request, requests>>

WalletNext ==
    \/ BindServer
    \/ StopServer
    \/ \E p \in Pages : \/ SendRequest(p)
                        \/ TerminateHelper(p)
                        \/ SubmitHandler(p)
                        \/ ErrorHandler(p)
    \/ TakeError
    \/ PollState
    \/ JoinServer

WalletSpec == WalletInit /\ [][WalletNext]_walletVars

-----------------------------------------------------------------------------
(* Properties. *)

(***************************************************************************)
(* request_signature returns nothing only when no payload was submitted:   *)
(* once the command has its answer no handler is left that could still     *)
(* store one, although the shutdown is signalled before the payload is     *)
(* stored and the command polls in between.                                *)
(***************************************************************************)
NoPayloadAfterAnswer ==
    polling = "done" => signed = NULL /\ \A p \in Pages : ~Handling(p, "store")

-----------------------------------------------------------------------------
(* Not kept by the code. *)

(***************************************************************************)
(* The command never waits for a server that waits for one of its handlers *)
(* while that handler waits for the lock the command holds.                *)
(***************************************************************************)
NoJoinDeadlock ==
    ~(/\ polling = "join"
      /\ holder = "command"
      /\ server \notin {"stopped", "failed"}
      /\ \E p \in Pages : request[p] # NoRequest)

=============================================================================
