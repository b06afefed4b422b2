-------------------------------- MODULE Chains --------------------------------
(***************************************************************************)
(* `pop call chain` (crates/pop-cli/src/commands/call/chain.rs) over the   *)
(* functions of crates/pop-chains/src/call: a call is configured from the  *)
(* flags and the prompts, signed with a secret or in a wallet, submitted,  *)
(* and the user may go on to another call.                                 *)
(*                                                                         *)
(* As in Contracts, an argument is the number of the call it was given     *)
(* for.  The chain has one function of each kind: one that takes an        *)
(* argument, one that takes a RuntimeCall, a storage map and a constant.   *)
(***************************************************************************)
EXTENDS Session, Params

CONSTANTS ParamTypes,     \* types a function's argument may have, by their numbers
          MaxChainCalls   \* bound: calls made in one command

ASSUME ParamTypesAssumption ==
    /\ ParamTypes \subseteq TypeIds
    /\ \A i \in ParamTypes : TypeIsSupported(i) /\ TypeRegistry[i].kind # "fields"

VARIABLE extrinsics       \* what was submitted, in order

chainVars == <<session, extrinsics>>

\* What is read of a pallet's metadata.  A function with a parameter that cannot be
\* parsed is listed as unsupported; an entry of the storage is a map or a plain value.
Functions == {"function", "unsupported"}
Constants == {"constant"}
ChainState == {"storage", "plain storage"}

\* get_all_callables
Items == Functions \cup Constants \cup ChainState

CallChain ==
    [cmd : {"call chain"}, pc : {"chain"}, json : BOOLEAN, skip : BOOLEAN, execute : BOOLEAN,
     wallet : BOOLEAN, suri : BOOLEAN, sudo : BOOLEAN, data : BOOLEAN, metadata : BOOLEAN,
     item : {NULL} \cup Items, args : {<<>>, <<0>>}, url : BOOLEAN,
     type : ParamTypes, value : {NULL}, call : {1}, ended : {NULL}]

\* The options that exclude each other.
ChainsInit ==
    /\ session \in {c \in CallChain :
           /\ ~(c.wallet /\ c.suri)
           /\ c.data => c.item = NULL /\ c.args = <<>>
           /\ c.metadata => ~(c.suri \/ c.wallet \/ c.data \/ c.sudo \/ c.execute) /\ c.args = <<>>
           /\ c.json => c.skip}
    /\ extrinsics = <<>>

SubmitCall(root) ==
    extrinsics' = Append(extrinsics, [call |-> session.call, args |-> session.args, root |-> root])

\* sign_and_submit_extrinsic: an extrinsic that fails may have been sent, and one that
\* is in a best block counts as a success.
SignAndSubmitExtrinsic(root, ok, error) ==
    \/ SubmitCall(root) /\ (ok \/ error)
    \/ UNCHANGED extrinsics /\ error

\* wallet::submit_extrinsic waits for the finalized block; no payload is an error.
SubmitWithWallet(root, ok, error) == SignAndSubmitExtrinsic(root, ok, error)

-----------------------------------------------------------------------------
(* The chain and the call. *)

JsonChainPreconditions ==
    session.json => /\ ~session.metadata /\ ~session.wallet /\ ~session.data
                    /\ session.url /\ session.item # NULL /\ session.suri

\* chain::configure: the endpoint, the client and the pallets of its metadata.
ConfigureChain ==
    /\ At("chain")
    /\ \/ Fail
       \/ /\ JsonChainPreconditions
          /\ CASE session.metadata -> Succeed
               [] session.data -> Goto("sign data")
               [] session.json -> Goto("json")
               [] OTHER -> Goto("configure")

(***************************************************************************)
(* Deliberate fault: the arguments of the last call are kept.              *)
(***************************************************************************)
ResetAllButArguments == [item |-> NULL, sudo |-> FALSE, wallet |-> FALSE]

\* --execute, the signer and the endpoint stay.
ResetForNewChainCall == [item |-> NULL, args |-> <<>>, sudo |-> FALSE, wallet |-> FALSE]

\* A name that the pallet does not have is an error.
FindCallableByName == IF session.item = NULL THEN Items ELSE {session.item}

\* The pallet and the function, by name, by a predefined action or by selection.  An
\* unsupported function sends the user back to the selection.
ConfigureCall ==
    /\ At("configure")
    /\ \/ Fail
       \/ \E i \in FindCallableByName :
             CASE i = "unsupported" -> Become(ResetForNewChainCall)
               [] i = "function" -> Become([pc |-> "arguments of call", item |-> i])
               [] i \in ChainState -> Become([pc |-> "storage key", item |-> i])
               [] i = "constant" -> Become([pc |-> "again", item |-> i])

\* prompt_for_param asks along the tree of the parameter.
ResolveArguments ==
    /\ At("arguments of call")
    /\ \/ Fail
       \/ session.args # <<>> /\ Become([pc |-> "sudo", value |-> NULL])
       \/ /\ session.args = <<>>
          /\ \E v \in Prompted[session.type] :
                Become([pc |-> "sudo", args |-> <<session.call>>, value |-> v])

CheckSudo ==
    /\ At("sudo")
    /\ \/ session.sudo /\ Fail
       \/ session.sudo /\ ~session.skip /\ \E root \in BOOLEAN : Become([pc |-> "signer of call", sudo |-> root])
       \/ (session.skip \/ ~session.sudo) /\ Goto("signer of call")

DetermineSigningMethod(next) ==
    \/ (session.suri \/ session.wallet) /\ Goto(next)
    \/ ~session.suri /\ ~session.wallet /\ Fail
    \/ ~session.suri /\ ~session.wallet /\ ~session.skip
       /\ \E w \in BOOLEAN : Become([pc |-> next, wallet |-> w])

SignCall == At("signer of call") /\ DetermineSigningMethod("prepare")

\* The arguments are parsed and encoded with the types of the metadata.
PrepareExtrinsic ==
    /\ At("prepare")
    /\ \/ Fail
       \/ session.value \in {NULL} \cup Values[session.type] /\ Goto("submit")

\* An error in the wallet, a cancellation included, ends the command without one.
SubmitExtrinsic ==
    /\ At("submit")
    /\ IF session.wallet
       THEN SubmitWithWallet(session.sudo, Goto("again"), Succeed)
       ELSE \/ SignAndSubmitExtrinsic(session.sudo, IF session.json THEN Succeed ELSE Goto("again"), Fail)
            \/ ~session.skip /\ ~session.execute /\ Goto("again") /\ UNCHANGED extrinsics

-----------------------------------------------------------------------------
(* Storage, call data, JSON. *)

\* A map is read at one key, or below the parts of it that the user gives.
ConfigureStorageKey ==
    /\ At("storage key")
    /\ \/ session.item = "storage" /\ Fail
       \/ (session.item = "plain storage" \/ session.args # <<>>) /\ Goto("query")
       \/ /\ session.item = "storage" /\ session.args = <<>>
          /\ \E all \in BOOLEAN : Goto(IF all THEN "query all" ELSE "query")

\* Reading fails when the storage or the decoding of a value does; nothing at a key is an answer.
Query == Goto("again") \/ Fail

\* The values come as a stream, and the first that fails ends it.
QueryAll == Goto("again") \/ Fail

\* A key that is a tuple is flattened and tried once more, where it failed to be encoded.
QueryStorageWithTupleFallback ==
    \/ At("query") /\ Query
    \/ At("query all") /\ QueryAll
    \/ (At("query") \/ At("query all")) /\ session.value = NULL /\ Become([value |-> "flattened"])

SubmitFromCallData ==
    /\ At("sign data")
    /\ DetermineSigningMethod("submit data")

SubmitCallData ==
    /\ At("submit data")
    /\ IF session.wallet
       THEN SubmitWithWallet(FALSE, Succeed, Fail)
       ELSE \/ SignAndSubmitExtrinsic(FALSE, Succeed, Fail)
            \/ ~session.skip /\ ~session.execute /\ Succeed /\ UNCHANGED extrinsics

\* Without --execute the extrinsic is signed and validated only.
CallJson ==
    /\ At("json")
    /\ \/ Fail
       \/ session.item = "function" /\ Len(session.args) = 1
          /\ (IF session.execute THEN Goto("prepare") ELSE Succeed)

AnotherCall ==
    /\ At("again")
    /\ \/ Succeed
       \/ ~session.skip /\ Fail
       \/ /\ ~session.skip /\ session.call < MaxChainCalls
          /\ Become(With([pc |-> "configure", call |-> session.call + 1, value |-> NULL], ResetForNewChainCall))

ChainsNext ==
    \/ /\ \/ ConfigureChain \/ ConfigureCall \/ ResolveArguments \/ CheckSudo \/ SignCall
          \/ PrepareExtrinsic \/ ConfigureStorageKey \/ QueryStorageWithTupleFallback
          \/ SubmitFromCallData \/ CallJson \/ AnotherCall
       /\ UNCHANGED extrinsics
    \/ SubmitExtrinsic
    \/ SubmitCallData

\* `pop call chain` by itself; Commands composes it with the other commands.
ChainsSpec == ChainsInit /\ [][ChainsNext]_chainVars

-----------------------------------------------------------------------------
(* Properties. *)

(***************************************************************************)
(* What the flags said for the first call does not reach a later one: an   *)
(* extrinsic of a repeated call has the arguments given for it and is      *)
(* never dispatched with root origin, however the loop was entered again,  *)
(* through another call or through an unsupported function.                *)
(***************************************************************************)
RepeatedCallIsItsOwn ==
    \A i \in DOMAIN extrinsics :
        extrinsics[i].call > 1 => /\ ~extrinsics[i].root
                                  /\ \A n \in DOMAIN extrinsics[i].args : extrinsics[i].args[n] = extrinsics[i].call

(***************************************************************************)
(* The prompts that type_to_param's parameters lead to make a value of the *)
(* parameter's type, whatever the user answers, so that an extrinsic whose *)
(* arguments were all prompted for can be encoded.  It is stated for types *)
(* whose options hold no variant, tuple or option: type_to_param drops the *)
(* flags of an option's argument, and the value does not fit then.         *)
(***************************************************************************)
PromptedArgumentsFit ==
    session.cmd = "call chain" /\ At("prepare") /\ session.value # NULL =>
        (OptionsArePlain(session.type) => session.value \in Values[session.type])

=============================================================================
