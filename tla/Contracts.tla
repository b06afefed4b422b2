------------------------------ MODULE Contracts ------------------------------
(***************************************************************************)
(* `pop up` for a contract, `pop up ink-node` (crates/pop-cli/src/         *)
(* commands/up/contract.rs) and `pop call contract` (commands/call/        *)
(* contract.rs) over the functions of crates/pop-contracts: the nodes a    *)
(* command starts and must stop, what it submits and who agreed to it.     *)
(*                                                                         *)
(* An argument of a call is modelled by the number of the call it was      *)
(* given for (0 for the command line), an endpoint by what listens there:  *)
(* the default local port, another local port, a remote chain.             *)
(***************************************************************************)
EXTENDS Session

CONSTANT MaxCalls      \* bound: calls made in one command

VARIABLES built,       \* the contract's artifacts exist
          inkNodes,    \* the processes of this command that run: "ink-node", "eth-rpc"
          nodePort,    \* where start_ink_node started them, NULL if it did not succeed
          submitted    \* what was sent to a chain, in order

machine == <<built, inkNodes, nodePort, submitted>>

\* A contract with a message that reads, one that writes and takes an argument, and a
\* storage field.
Callables == {"get", "set", "field"}
Arity == [c \in Callables |-> IF c = "set" THEN 1 ELSE 0]
Mutates(c) == c = "set"

-----------------------------------------------------------------------------
(* The command lines. *)

UpContract ==
    [cmd : {"up"}, pc : {"build"}, json : BOOLEAN, skip : BOOLEAN, execute : BOOLEAN,
     wallet : BOOLEAN, suri : BOOLEAN, upload : BOOLEAN, skipBuild : BOOLEAN,
     url : {NULL, "default", "remote"}, args : {<<>>, <<0>>}, message : {NULL},
     call : {0}, confirmed : {FALSE}, repeat : {FALSE}, deployed : {FALSE}, ended : {NULL}]

CallContract ==
    [cmd : {"call"}, pc : {"path"}, json : BOOLEAN, skip : BOOLEAN, execute : BOOLEAN,
     wallet : BOOLEAN, suri : BOOLEAN, upload : {FALSE}, skipBuild : {FALSE},
     url : {NULL, "remote"}, args : {<<>>, <<0>>}, message : {NULL} \cup Callables,
     call : {1}, confirmed : {FALSE}, repeat : {FALSE}, deployed : {FALSE}, ended : {NULL}]

InkNode ==
    [cmd : {"ink-node"}, pc : {"ports"}, json : {FALSE}, skip : BOOLEAN, detach : BOOLEAN,
     explicit : BOOLEAN, ended : {NULL}]

\* --use-wallet conflicts with --suri, and --json asks for nothing.
ContractsInit ==
    /\ session \in {c \in UpContract \cup CallContract : ~(c.wallet /\ c.suri) /\ (c.json => c.skip)}
                    \cup InkNode
    /\ built \in BOOLEAN
    /\ inkNodes = {}
    /\ nodePort = NULL
    /\ submitted = <<>>

(***************************************************************************)
(* An error that the function handles by stopping the nodes, and one that  *)
(* leaves it through `?`.  With --json the deployment is a block of its    *)
(* own, whose errors are kept until the nodes are stopped.                 *)
(***************************************************************************)
CleanUp == Become([pc |-> "terminate", ended |-> IF session.json THEN "error" ELSE "ok"])

(***************************************************************************)
(* Deliberate fault: the errors of the JSON deployment are returned where  *)
(* they occur.                                                             *)
(***************************************************************************)
EscapeAtOnce == Fail

Escape == IF session.json THEN CleanUp ELSE Fail

\* Giving up before anything was started: an error with --json, else a message.
Cancel == IF session.json THEN Fail ELSE Succeed

Submit(what, agreed) ==
    submitted' = Append(submitted, [what |-> what, call |-> session.call, url |-> session.url,
                                    args |-> session.args, agreed |-> agreed])

\* A transaction that fails may have been sent.
Attempt(what, agreed, ok, error) ==
    \/ Submit(what, agreed) /\ (ok \/ error)
    \/ UNCHANGED submitted /\ error

-----------------------------------------------------------------------------
(* What the functions of crates/pop-contracts need and may answer. *)

ExtractFunction(ok, error) == (built /\ ok) \/ error

ProcessFunctionArgs(arity) == Len(session.args) = arity

SetUpExec(arity, ok, error) == (built /\ ProcessFunctionArgs(arity) /\ ok) \/ error

SetUpUpload(ok, error) == (built /\ ok) \/ error

GetPayload(ok, error) == (built /\ ok) \/ error

DryRun(ok, error) == ok \/ error

\* The watch ends with success, with a failed or dropped transaction, or with the connection.
SubmitSignedPayload(what, ok, error) == Attempt(what, TRUE, ok, error)

SignAndSubmit(what, ok, error) == Attempt(what, session.confirmed, ok, error)

\* set_up_call: the message is found in the metadata and its arguments are encoded.
SetUpCallExec(ok, error) == ExtractFunction(SetUpExec(Arity[session.message], ok, error), error)

GetCallPayload(ok, error) == GetPayload(ok, error)

CallFromSignedPayload(ok, error) == SubmitSignedPayload("call", ok, error)

CallSmartContract(ok, error) == SignAndSubmit("call", ok, error)

-----------------------------------------------------------------------------
(* Shared with the calls: crates/pop-cli/src/common/contracts.rs. *)

BuildContractArtifacts(ok, error) == (built' = TRUE /\ ok) \/ (UNCHANGED built /\ error)

ResolveSigner(next, refuse) ==
    \/ (session.suri \/ (session.skip /\ session.wallet)) /\ Goto(next)
    \/ ~session.suri /\ session.skip /\ ~session.wallet /\ refuse
    \/ ~session.suri /\ ~session.skip
       /\ (Become([pc |-> next, wallet |-> TRUE]) \/ Become([pc |-> next, suri |-> TRUE]) \/ refuse)

\* The values that are there are kept and the user is asked for the others.
ResolveFunctionArgs(arity, next, refuse) ==
    LET missing == arity - Len(session.args) IN
    \/ missing < 0 /\ refuse
    \/ missing = 0 /\ Goto(next)
    \/ missing > 0 /\ session.skip /\ refuse
    \/ missing > 0 /\ ~session.skip
       /\ (Become([pc |-> next, args |-> session.args \o [i \in 1..missing |-> session.call]])
           \/ refuse)

MapAccount(next) ==
    \/ Goto(next) /\ UNCHANGED submitted
    \/ Attempt("map", TRUE, Goto(next), Fail)

PromptToSelectChainRpc(next) == (\E u \in {"default", "remote"} : Become([pc |-> next, url |-> u])) \/ Fail

-----------------------------------------------------------------------------
(* UpContractCommand until the nodes run. *)

\* execute_json refuses what it cannot do without asking.
JsonPreconditions == session.json => ~session.wallet /\ ~session.upload /\ session.execute

PrepareDeployment ==
    /\ At("build")
    /\ IF ~JsonPreconditions \/ (session.skipBuild /\ built)
       THEN UNCHANGED built /\ IF JsonPreconditions THEN Goto("signer") ELSE Fail
       ELSE BuildContractArtifacts(Goto("signer"), Cancel)
    /\ UNCHANGED <<inkNodes, nodePort, submitted>>

SignDeployment == At("signer") /\ ResolveSigner("url", Cancel)

ResolveUrl ==
    /\ At("url")
    /\ IF session.url = NULL /\ ~session.skip
       THEN PromptToSelectChainRpc("alive")
       ELSE Become([pc |-> "alive", url |-> IF session.url = NULL THEN "default" ELSE session.url])

CheckChainAlive ==
    /\ At("alive")
    /\ \/ Goto("constructor")
       \/ session.url = "default" /\ Goto("ports")
       \/ (session.url # "default" \/ ~session.skip) /\ Cancel
       \/ session.url = "default" /\ ~session.skip /\ Fail

UseNodeUrl(port) == Become([pc |-> "binaries", url |-> port, port |-> port])

\* A default port that is taken is replaced, an explicit one is not.
ResolveInkNodePorts ==
    /\ At("ports")
    /\ \/ UseNodeUrl("default")
       \/ IF session.cmd = "ink-node" /\ session.explicit THEN Succeed ELSE UseNodeUrl("other")

CheckInkNodeAndPrompt == At("binaries") /\ (Goto("ink-node") \/ Fail)

\* A node that was spawned but does not answer in time is left running.
RunInkNode ==
    /\ At("ink-node")
    /\ \/ inkNodes' = {"ink-node"} /\ (Goto("eth-rpc") \/ Fail)
       \/ Fail /\ UNCHANGED inkNodes
    /\ UNCHANGED <<built, nodePort, submitted>>

RunEthRpcNode ==
    /\ At("eth-rpc")
    /\ \/ /\ inkNodes' = {"ink-node", "eth-rpc"}
          /\ nodePort' = session.port
          /\ Goto(IF session.cmd = "ink-node" THEN "running" ELSE "constructor")
       \/ Fail /\ UNCHANGED <<inkNodes, nodePort>>
    /\ UNCHANGED <<built, submitted>>

\* `pop up ink-node`: until Ctrl+C, or detached.
RunUntilInterrupted ==
    /\ At("running")
    /\ inkNodes' = IF session.detach THEN inkNodes ELSE {}
    /\ Succeed
    /\ UNCHANGED <<built, nodePort, submitted>>

-----------------------------------------------------------------------------
(* The deployment. *)

ResolveConstructor ==
    /\ At("constructor")
    /\ LET next == IF session.wallet THEN "data" ELSE IF session.upload THEN "upload" ELSE "set up" IN
       IF session.upload THEN Goto(next)
       ELSE ExtractFunction(ResolveFunctionArgs(1, next, Escape), Escape)

GetDeploymentData ==
    /\ At("data")
    /\ IF session.upload THEN SetUpUpload(GetPayload(Goto("sign"), CleanUp), CleanUp)
       ELSE SetUpExec(1, GetPayload(Goto("sign"), CleanUp), CleanUp)

SignWithWallet ==
    /\ At("sign")
    /\ \/ Become([pc |-> IF session.upload THEN "send" ELSE "set up", confirmed |-> TRUE])
       \/ CleanUp
       \/ Fail

UploadContract ==
    /\ At("upload")
    /\ SetUpUpload(IF session.execute THEN SignAndSubmit("upload", Goto("finish"), CleanUp)
                   ELSE DryRun(Goto("finish"), Goto("finish")) /\ UNCHANGED submitted,
                   CleanUp /\ UNCHANGED submitted)
    /\ UNCHANGED <<built, inkNodes, nodePort>>

SetUpDeployment ==
    /\ At("set up")
    /\ SetUpExec(1, Goto(IF session.json THEN "dry run" ELSE "map"), CleanUp)

MapDeployer ==
    /\ At("map")
    /\ MapAccount(IF session.wallet THEN "send" ELSE "dry run")
    /\ UNCHANGED <<built, inkNodes, nodePort>>

DryRunInstantiate == At("dry run") /\ DryRun(Goto("confirm"), CleanUp)

ConfirmDeployment ==
    /\ At("confirm")
    /\ \/ session.execute /\ Goto("send")
       \/ ~session.execute /\ Goto("finish")
       \/ ~session.execute /\ ~session.skip
          /\ (Become([pc |-> "send", execute |-> TRUE, confirmed |-> TRUE]) \/ Fail)

\* instantiate_smart_contract, or the payload the wallet signed.
SubmitDeployment ==
    /\ At("send")
    /\ LET ok == Become([pc |-> "finish", deployed |-> ~session.upload]) IN
       IF session.wallet
       THEN SubmitSignedPayload(IF session.upload THEN "upload" ELSE "instantiate", ok, CleanUp)
       ELSE SignAndSubmit("instantiate", ok, Escape)
    /\ UNCHANGED <<built, inkNodes, nodePort>>

\* The call inherits the signer, and execute, from the deployment.
KeepInteracting ==
    /\ At("finish")
    /\ \/ Goto("terminate")
       \/ /\ session.deployed /\ ~session.skip
          /\ \/ Become([pc |-> "path", args |-> <<>>, call |-> 1, confirmed |-> FALSE])
             \/ Fail

TerminateNodes ==
    /\ At("terminate")
    /\ \/ /\ inkNodes' = IF nodePort = NULL THEN inkNodes ELSE {}
          /\ IF session.ended = "error" THEN Fail ELSE Succeed
       \/ nodePort # NULL /\ ~session.skip /\ Fail /\ UNCHANGED inkNodes
    /\ UNCHANGED <<built, nodePort, submitted>>

-----------------------------------------------------------------------------
(* CallContractCommand. *)

\* The end of a call, in a command of its own or in `pop up`.
Return == IF session.cmd = "up" THEN Goto("terminate") ELSE Succeed

JsonCallPreconditions ==
    session.json => /\ ~session.wallet
                    /\ session.url # NULL
                    /\ session.message # NULL

\* The path, and the build if there is none; then the user says whether the contract is
\* deployed.
ConfigureProject ==
    /\ At("path")
    /\ LET next == Become([pc |-> "metadata", repeat |-> session.message = NULL]) IN
       \/ ~JsonCallPreconditions /\ Fail /\ UNCHANGED built
       \/ JsonCallPreconditions /\ (built \/ session.json) /\ (next \/ Fail) /\ UNCHANGED built
       \/ ~built /\ ~session.json
          /\ BuildContractArtifacts(\/ next
                                    \/ ~session.skip /\ ~session.deployed /\ (Return \/ Fail), Fail)
    /\ UNCHANGED <<inkNodes, nodePort, submitted>>

GetMessages ==
    /\ At("metadata")
    /\ ~session.json
    /\ ExtractFunction(Goto("endpoint"), Fail)

\* execute_json: what is missing or does not fit is found before anything is sent.
JsonMessage ==
    /\ At("metadata")
    /\ session.json
    /\ ExtractFunction(/\ session.message # "field"
                       /\ Len(session.args) = Arity[session.message]
                       /\ session.execute => Mutates(session.message) /\ session.suri
                       /\ Goto("json set up"), Fail)

ResolveEndpoint ==
    /\ At("endpoint")
    /\ IF session.url = NULL THEN PromptToSelectChainRpc("message") ELSE Goto("message") \/ Fail

\* A storage field is read without a signer, and none is kept.
SelectMessage ==
    /\ At("message")
    /\ \/ Fail
       \/ \E c \in IF session.message = NULL THEN Callables ELSE {session.message} :
             IF c = "field"
             THEN Become([pc |-> "read", message |-> c, wallet |-> FALSE, suri |-> FALSE])
             ELSE Become([pc |-> "arguments", message |-> c])

ConfigureArguments == At("arguments") /\ ResolveFunctionArgs(Arity[session.message], "caller", Fail)

ConfigureCaller ==
    /\ At("caller")
    /\ IF Mutates(session.message)
       THEN ResolveSigner("agree", Fail)
       ELSE Become([pc |-> "set up call", execute |-> FALSE, wallet |-> FALSE])

ConfirmCall ==
    /\ At("agree")
    /\ IF session.skip \/ session.wallet \/ session.execute
       THEN Become([pc |-> "set up call", execute |-> TRUE])
       ELSE \/ \E yes \in BOOLEAN : Become([pc |-> "set up call", execute |-> yes, confirmed |-> yes])
            \/ Fail

SetUpCall ==
    /\ At("set up call")
    /\ SetUpCallExec(Goto(IF session.wallet THEN "sign call" ELSE "map caller"), Fail)

\* Without a payload the command says so and goes on.
ExecuteWithWallet ==
    /\ At("sign call")
    /\ \/ GetCallPayload(CallFromSignedPayload(Goto("repeat"), Fail), Fail /\ UNCHANGED submitted)
       \/ Goto("repeat") /\ UNCHANGED submitted
    /\ UNCHANGED <<built, inkNodes, nodePort>>

MapCaller ==
    /\ At("map caller")
    /\ MapAccount("dry run call")
    /\ UNCHANGED <<built, inkNodes, nodePort>>

\* A dry run that fails is shown.
DryRunCall ==
    /\ At("dry run call")
    /\ DryRun(IF session.execute THEN Goto("call") ELSE Goto("repeat"), Goto("repeat"))

ExecuteMessage ==
    /\ At("call")
    /\ CallSmartContract(Goto("repeat"), Fail)
    /\ UNCHANGED <<built, inkNodes, nodePort>>

\* execute_json: no account is mapped, and a dry run that fails is an error.
SetUpJsonCall == At("json set up") /\ SetUpCallExec(Goto("json dry run"), Fail)

DryRunJsonCall ==
    /\ At("json dry run")
    /\ DryRun(IF session.execute THEN Goto("json call") ELSE Succeed, Fail)

SubmitJsonCall ==
    /\ At("json call")
    /\ SignAndSubmit("call", Succeed, Fail)
    /\ UNCHANGED <<built, inkNodes, nodePort>>

ReadContractStorage == At("read") /\ (Goto("repeat") \/ Fail)

\* The arguments and the storage key are left as they are.
ResetForNewCall == [message |-> NULL, wallet |-> FALSE, execute |-> FALSE]

FinalizeExecuteCall ==
    /\ At("repeat")
    /\ \/ Return
       \/ session.repeat /\ Fail
       \/ /\ session.repeat /\ session.call < MaxCalls
          /\ Become(With([pc |-> "path", call |-> session.call + 1, confirmed |-> FALSE], ResetForNewCall))

ContractsNext ==
    \/ /\ \/ SignDeployment \/ ResolveUrl \/ CheckChainAlive \/ ResolveInkNodePorts
          \/ CheckInkNodeAndPrompt \/ ResolveConstructor \/ GetDeploymentData \/ SignWithWallet
          \/ SetUpDeployment \/ DryRunInstantiate \/ ConfirmDeployment \/ KeepInteracting
          \/ GetMessages \/ JsonMessage \/ ResolveEndpoint \/ SelectMessage \/ ConfigureArguments
          \/ ConfigureCaller \/ ConfirmCall \/ SetUpCall \/ DryRunCall \/ SetUpJsonCall \/ DryRunJsonCall
          \/ ReadContractStorage \/ FinalizeExecuteCall
       /\ UNCHANGED machine
    \/ PrepareDeployment \/ RunInkNode \/ RunEthRpcNode \/ RunUntilInterrupted \/ UploadContract
    \/ MapDeployer \/ SubmitDeployment \/ TerminateNodes \/ ConfigureProject \/ ExecuteWithWallet
    \/ MapCaller \/ ExecuteMessage \/ SubmitJsonCall

\* The command by itself, of any number of calls.
ContractsSpec == ContractsInit /\ [][ContractsNext]_<<session, machine>>

-----------------------------------------------------------------------------
(* Properties. *)

(***************************************************************************)
(* Once start_ink_node has returned its two processes, a JSON deployment   *)
(* stops both, however it ends: no path of execute_json returns before     *)
(* terminate_nodes.                                                        *)
(***************************************************************************)
JsonLeavesNoNode == nodePort # NULL /\ Done /\ session.json => inkNodes = {}

(***************************************************************************)
(* A command that started a node on a port that happened to be free sends  *)
(* the deployment, and every later call to the contract, to that node.     *)
(***************************************************************************)
SubmittedToOwnNode == nodePort # NULL => \A i \in DOMAIN submitted : submitted[i].url = nodePort

(***************************************************************************)
(* A repeated call that writes is submitted only after the user agreed to  *)
(* it, at the prompt or in the wallet, whatever flags the first call had.  *)
(***************************************************************************)
RepeatedCallConfirmed ==
    \A i \in DOMAIN submitted :
        submitted[i].what = "call" /\ submitted[i].call > 1 /\ ~session.skip => submitted[i].agreed

-----------------------------------------------------------------------------
(* Statements of the code's documentation that the code does not keep. *)

(***************************************************************************)
(* "Resets message specific fields to default values for a new call": a    *)
(* call is submitted with the arguments given for it, not with those of an *)
(* earlier call of the same command.                                       *)
(***************************************************************************)
ArgumentsOfThisCall ==
    \A i \in DOMAIN submitted :
        submitted[i].what = "call" /\ submitted[i].call > 1 =>
            \A n \in DOMAIN submitted[i].args : submitted[i].args[n] = submitted[i].call

=============================================================================
