------------------------------ MODULE Runtimes ------------------------------
(***************************************************************************)
(* The runtime binaries of a project and the container engine: what        *)
(* `pop build`, `pop bench` and `pop test` share                           *)
(* (crates/pop-cli/src/common/runtime.rs, pop-common/src/docker.rs).       *)
(*                                                                         *)
(* A binary is known by the features it was built with and by where it     *)
(* comes from: "wbuild", the target directory of a profile; "srtool", the  *)
(* deterministic build; "given", a file that the user names.               *)
(***************************************************************************)
EXTENDS Session

CONSTANT DockerPolls  \* how often wait_for_ready asks, 30 in the code

VARIABLES wasm,   \* profile -> the binary under its target directory, or NULL
          docker  \* "missing", "stopped" or "running"

runtimeVars == <<wasm, docker>>

Profiles == {"debug", "release"}

Features == {"runtime-benchmarks", "try-runtime", "other"}

Binary(from, features) == [from |-> from, features |-> features]

\* What may have been left by earlier builds.
RuntimesInit ==
    /\ wasm \in [Profiles -> {NULL, Binary("wbuild", {}), Binary("wbuild", {"runtime-benchmarks"})}]
    /\ docker \in {"missing", "stopped", "running"}

\* What a build leaves: the binary to use, and the target directories.
Outcome(binary, dirs) == [binary |-> binary, wasm |-> dirs]

\* DeterministicBuilder: srtool takes no features; its binary is in a directory of its own.
BuildDeterministic == Outcome(Binary("srtool", {}), wasm)

\* build_runtime
BuildRuntime(profile, features, deterministic) ==
    LET binary == Binary("wbuild", features)
    IN  IF deterministic THEN BuildDeterministic
                         ELSE Outcome(binary, [wasm EXCEPT ![profile] = binary])

\* Built when there is none, or when the build is forced.
Rebuild(profile, force) == force \/ wasm[profile] = NULL

(***************************************************************************)
(* ensure_runtime_binary_exists.  Where no runtime is found the user names *)
(* one, and may name a binary.  A binary that exists is used as it is when *)
(* the build is not forced.                                                *)
(***************************************************************************)
EnsureRuntimeBinaryExists(profile, features, force) ==
    {Outcome(Binary("given", fs), wasm) : fs \in {{}, features}}
    \cup {IF Rebuild(profile, force) THEN BuildRuntime(profile, features, FALSE)
                                     ELSE Outcome(wasm[profile], wasm)}

-----------------------------------------------------------------------------
(* Docker::ensure_running *)

\* `docker info` with a timeout of its own: one that hangs counts as not running.
DetectDocker(pc) ==
    /\ At("docker")
    /\ \/ Fail /\ UNCHANGED docker
       \/ docker = "running" /\ (Goto(pc) \/ Goto("start docker")) /\ UNCHANGED docker
       \/ docker = "missing" /\ Fail /\ UNCHANGED docker
       \/ docker = "stopped" /\ Goto("start docker") /\ UNCHANGED docker

\* systemctl, for which the user must be root
TryStart ==
    /\ At("start docker")
    /\ \/ Fail /\ UNCHANGED docker
       \/ docker' \in {docker, "running"} /\ Become([pc |-> "wait for docker", polls |-> DockerPolls])

WaitForReady(pc) ==
    /\ At("wait for docker")
    /\ \/ Fail /\ UNCHANGED docker
       \/ session.polls > 0 /\ docker = "running" /\ Goto(pc) /\ UNCHANGED docker
       \/ /\ session.polls > 0
          /\ Become([polls |-> session.polls - 1])
          /\ docker' \in {docker, "running"}

-----------------------------------------------------------------------------
(***************************************************************************)
(* A tool that runs on a runtime of the project, which the user did not    *)
(* ask to leave as it is (-n), runs on one that has the feature the tool   *)
(* needs, whatever earlier builds have left in the target directory.       *)
(***************************************************************************)
UsedWithFeature ==
    \/ "ran" \notin DOMAIN session
    \/ session.ran = NULL
    \/ session.ran.binary = NULL
    \/ session.ran.binary.from = "wbuild" /\ ~session.noBuild => session.ran.needs \in session.ran.binary.features

=============================================================================
