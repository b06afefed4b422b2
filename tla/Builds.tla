------------------------------- MODULE Builds -------------------------------
(***************************************************************************)
(* `pop build` (crates/pop-cli/src/commands/build/mod.rs with chain.rs,    *)
(* runtime.rs and contract.rs): what kind of project is at the path        *)
(* decides what is built, and --only-runtime and --deterministic ask for   *)
(* its runtime.                                                            *)
(***************************************************************************)
EXTENDS Runtimes

Build ==
    [cmd : {"build"}, pc : {"dispatch"}, json : BOOLEAN, project : {"contract", "runtime", "chain", "rust"},
     onlyRuntime : BOOLEAN, deterministic : BOOLEAN, verifiable : BOOLEAN, image : BOOLEAN,
     profile : Profiles, features : {{}, {"other"}, {"runtime-benchmarks"}},
     benchmark : BOOLEAN, tryRuntime : BOOLEAN,
     as : {NULL}, polls : {0}, artifact : {NULL}, ended : {NULL}]

\* --verifiable excludes a profile; the tag and the flags of chains are left to every project.
BuildsInit == RuntimesInit /\ session \in {c \in Build : c.verifiable => c.profile = "debug"}

\* --features with --benchmark and --try-runtime, each once
CollectFeatures ==
    session.features
    \cup (IF session.benchmark THEN {"runtime-benchmarks"} ELSE {})
    \cup (IF session.tryRuntime THEN {"try-runtime"} ELSE {})

\* resolve_build_mode
BuildMode == IF session.verifiable THEN "verifiable" ELSE session.profile

\* Only a contract takes --verifiable, and --image only with it.
Dispatch ==
    /\ At("dispatch")
    /\ LET as == IF session.project = "contract" THEN "contract"
                 ELSE IF session.onlyRuntime \/ session.deterministic \/ session.project = "runtime"
                      THEN "runtime" ELSE session.project
           contained == IF as = "contract" THEN session.verifiable ELSE as = "runtime" /\ session.deterministic
       IN Become([pc |-> IF contained THEN "docker" ELSE "build", as |-> as])

\* The command ends with what it has built.
Built(artifact) == Become([pc |-> "done", ended |-> "ok", artifact |-> artifact])

\* A contract is built without features.
BuildContract ==
    /\ At("build") /\ session.as = "contract"
    /\ \/ Fail
       \/ (session.image => session.verifiable) /\ Built([mode |-> BuildMode, binary |-> Binary("contract", {})])
    /\ UNCHANGED wasm

\* find_runtime_dir; outside of a chain's project or a runtime only JSON ends with an error.
BuildRuntimeProject ==
    /\ At("build") /\ session.as = "runtime"
    /\ \/ Fail /\ UNCHANGED wasm
       \/ session.project = "rust" /\ ~session.json /\ Succeed /\ UNCHANGED wasm
       \/ LET r == BuildRuntime(session.profile, CollectFeatures, session.deterministic)
          IN /\ session.project # "rust"
             /\ Built([mode |-> session.profile, binary |-> r.binary])
             /\ wasm' = r.wasm

\* The builder of the chain specification builds the node, or the runtime of a project without one.
BuildChain ==
    /\ At("build") /\ session.as = "chain"
    /\ \/ Fail
       \/ Built([mode |-> session.profile, binary |-> Binary("target", CollectFeatures)])
    /\ UNCHANGED wasm

BuildRust ==
    /\ At("build") /\ session.as = "rust"
    /\ \/ Fail
       \/ Built([mode |-> session.profile, binary |-> Binary("target", CollectFeatures)])
    /\ UNCHANGED wasm

BuildsNext ==
    \/ Dispatch /\ UNCHANGED runtimeVars
    \/ (DetectDocker("build") \/ TryStart \/ WaitForReady("build")) /\ UNCHANGED wasm
    \/ (BuildContract \/ BuildRuntimeProject \/ BuildChain \/ BuildRust) /\ UNCHANGED docker

(***************************************************************************)
(* What `pop build` ends with is what its flags ask for: a chain, a        *)
(* runtime and a plain project have the features of all the flags          *)
(* together, whichever way they were given, and the runtime left for       *)
(* `pop bench -n` and `pop test -n` is that one.  A verifiable contract    *)
(* and a deterministic runtime, which takes no features, are built only    *)
(* with a container engine that runs.                                      *)
(***************************************************************************)
BuiltAsAsked ==
    session.cmd = "build" /\ Done /\ session.ended = "ok" /\ session.artifact # NULL =>
        LET b == session.artifact.binary
            asked == session.features
                     \cup {f \in Features : \/ f = "runtime-benchmarks" /\ session.benchmark
                                            \/ f = "try-runtime" /\ session.tryRuntime}
        IN /\ b.from \in {"wbuild", "target"} => b.features = asked
           /\ b.from = "wbuild" => wasm[session.profile] = b
           /\ b.from = "srtool" \/ session.artifact.mode = "verifiable" => docker = "running"

=============================================================================
