---------------------------- MODULE RuntimeTests ----------------------------
(***************************************************************************)
(* `pop test` (crates/pop-cli/src/commands/test): the tests of a project,  *)
(* and the commands that run try-runtime: on-runtime-upgrade,              *)
(* execute-block, fast-forward and create-snapshot.                        *)
(*                                                                         *)
(* A runtime test collects a runtime, a state and what to check, and makes *)
(* the arguments of try-runtime from the flags of the user and from what   *)
(* was asked.  on-runtime-upgrade runs again with a check disabled when    *)
(* the user agrees.                                                        *)
(***************************************************************************)
EXTENDS Runtimes

Checks == {"spec version", "spec name"}

ProjectTest ==
    [cmd : {"test"}, pc : {"project"}, json : BOOLEAN, project : {"contract", "other"}, e2e : BOOLEAN,
     node : {FALSE}, passed : {NULL}, ended : {NULL}]

\* disabled: the checks disabled by a flag; agreed: those that the user agreed to disable.
RuntimeTest ==
    [cmd : {"on-runtime-upgrade", "execute-block", "fast-forward", "create-snapshot"}, pc : {"test runtime"},
     json : BOOLEAN, noBuild : BOOLEAN, flags : SUBSET {"runtime", "state", "checks"},
     disabled : SUBSET Checks, agreed : {{}}, refuses : SUBSET Checks,
     binary : {NULL}, args : {NULL}, ran : {NULL}, passed : {NULL}, ended : {NULL}]

\* Only on-runtime-upgrade has checks of the specification to disable.
TestsInit ==
    /\ RuntimesInit /\ docker = "missing" /\ wasm["debug"] = NULL
    /\ session \in ProjectTest
           \cup {c \in RuntimeTest : c.cmd # "on-runtime-upgrade" => c.disabled = {} /\ c.refuses = {}}

\* An error is reported and the command returns Ok; JSON returns it.
TestFails == IF session.json THEN Fail ELSE Become([pc |-> "done", ended |-> "reported"])

-----------------------------------------------------------------------------
(* Tests of a project *)

\* A contract's end-to-end tests run without ink-node too, but not with --json.
TestProject ==
    /\ At("project")
    /\ \/ session.project = "contract" /\ session.json /\ session.e2e /\ Fail
       \/ /\ session.project = "contract" /\ ~session.json /\ session.e2e
          /\ \E node \in BOOLEAN : Become([pc |-> "cargo test", node |-> node])
       \/ ~(session.project = "contract" /\ session.e2e) /\ Goto("cargo test")

CargoTest == At("cargo test") /\ (Fail \/ Become([pc |-> "done", ended |-> "ok", passed |-> TRUE]))

-----------------------------------------------------------------------------
(* Tests of a runtime *)

\* update_runtime_source: without --runtime the user may name the runtime, or use that of the state.
UpdateRuntimeSource ==
    /\ At("test runtime")
    /\ LET ready(binary) == Become([pc |-> "test state", binary |-> binary]) IN
       \/ session.cmd = "create-snapshot" /\ Goto("snapshot") /\ UNCHANGED wasm
       \/ /\ session.cmd # "create-snapshot"
          /\ \/ "runtime" \in session.flags /\ UNCHANGED wasm /\ ready(Binary("given", {}))
             \/ "runtime" \notin session.flags /\ session.json /\ TestFails /\ UNCHANGED wasm
             \/ "runtime" \notin session.flags /\ ~session.json /\ Goto("test state") /\ UNCHANGED wasm
             \/ /\ "runtime" \notin session.flags /\ ~session.json
                /\ \/ TestFails /\ UNCHANGED wasm
                   \/ \E p \in Profiles : \E r \in EnsureRuntimeBinaryExists(p, {"try-runtime"}, ~session.noBuild) :
                         ready(r.binary) /\ wasm' = r.wasm

\* update_state_source, update_live_state and update_snapshot; fast-forward asks for the number
\* of blocks before.
UpdateStateSource ==
    /\ At("test state")
    /\ \/ TestFails
       \/ session.cmd = "fast-forward" /\ Fail
       \/ ("state" \in session.flags \/ ~session.json) /\ Goto("test checks")

\* The upgrade checks or the try-state tests; the prompts of the latter end the command at once.
SelectChecks ==
    /\ At("test checks")
    /\ \/ "checks" \in session.flags /\ Goto("try-runtime")
       \/ "checks" \notin session.flags /\ session.json /\ Fail
       \/ "checks" \notin session.flags /\ ~session.json
          /\ (Goto("try-runtime") \/ IF session.cmd = "on-runtime-upgrade" THEN TestFails ELSE Fail)

(***************************************************************************)
(* ArgumentConstructor: an argument of the user is kept, and one that was  *)
(* asked for is added only when the user gave none.                        *)
(***************************************************************************)
Arguments ==
    [runtime |-> IF session.binary = NULL THEN "existing"
                 ELSE IF "runtime" \in session.flags THEN "flag" ELSE "built",
     state |-> IF "state" \in session.flags THEN "flag" ELSE "asked",
     checks |-> IF "checks" \in session.flags THEN "flag" ELSE "asked",
     disabled |-> session.disabled \cup session.agreed]

\* create-snapshot asks for the node, and for the path even where it may be left out, so
\* that --json needs both; it runs without a runtime and without checks.
CreateSnapshot ==
    /\ At("snapshot")
    /\ \/ Fail \/ TestFails
       \/ /\ "state" \in session.flags \/ ~session.json
          /\ Become([pc |-> "done", ended |-> "ok", passed |-> TRUE, args |-> Arguments])

\* What try-runtime still refuses, of the checks that are not disabled.
Refused == session.refuses \ (session.disabled \cup session.agreed)

\* The tool may have to be sourced first; both can fail.
RunTryRuntime ==
    /\ At("try-runtime")
    /\ LET with(f) == Become(f @@ [args |-> Arguments, ran |-> [binary |-> session.binary, needs |-> "try-runtime"]])
       IN \/ TestFails
          \/ /\ Refused # {} /\ IF session.json THEN Fail ELSE with([pc |-> "refused"])
          \/ /\ Refused = {}
             /\ with([pc |-> "done", ended |-> "ok", passed |-> TRUE])

\* handle_check_errors: try-runtime compares the version first.
HandleCheckErrors ==
    /\ At("refused")
    /\ LET check == IF "spec version" \in Refused THEN "spec version" ELSE "spec name" IN
       TestFails \/ Become([pc |-> "try-runtime", agreed |-> session.agreed \cup {check}])

TestsNext ==
    \/ /\ TestProject \/ CargoTest \/ UpdateStateSource \/ SelectChecks \/ CreateSnapshot \/ RunTryRuntime
          \/ HandleCheckErrors
       /\ UNCHANGED runtimeVars
    \/ UpdateRuntimeSource /\ UNCHANGED docker

(***************************************************************************)
(* Migrations that are reported as tested passed with every check that the *)
(* runtime would have failed either disabled by a flag or disabled because *)
(* the user was asked about this very check; a check that the runtime      *)
(* passes is not disabled along with another.                              *)
(***************************************************************************)
OnlyAgreedChecksDisabled ==
    session.cmd = "on-runtime-upgrade" /\ session.passed = TRUE =>
        /\ session.refuses \subseteq session.args.disabled
        /\ session.args.disabled \subseteq session.disabled \cup session.refuses

=============================================================================
