----------------------------- MODULE Utilities ------------------------------
(***************************************************************************)
(* The commands that work on one project or on no project at all: `pop     *)
(* verify` (commands/verify.rs, crates/pop-contracts/src/verify.rs),       *)
(* `pop upgrade`, `pop completion`, `pop hash`, `pop convert` and `pop up  *)
(* frontend`.                                                              *)
(*                                                                         *)
(* What a contract compiles to depends on its source and on the            *)
(* environment of the build: an image, or a mode and the local toolchain.  *)
(* A code is the pair of the two.                                          *)
(***************************************************************************)
EXTENDS GitHubApi

VARIABLE files   \* the project's source, its own bundle, its manifest, and the completion script

Images == {"i1", "i2"}
Toolchains == {"Release r1 c1", "Release r2 c1", "Debug r1 c2"}

\* rust_toolchain() and CARGO_CONTRACT_VERSION of this machine
LocalToolchains == {"Release r1 c1"}

Codes == {"s1", "s2"} \X (Images \cup Toolchains)

\* A .contract file: what its binary hashes to and how it says it was built
Bundles ==
    [code : Codes, built : Images \cup Toolchains] \cup [code : {NULL}, built : Images] \cup [code : Codes, built : {NULL}]

Verify ==
    [cmd : {"verify"}, pc : {"verify"}, path : {"own", "elsewhere"}, contract : Bundles, image : {NULL},
     asked : {NULL}, env : {NULL}, hash : {NULL}, contracts : 1 .. 2, ended : {NULL}]
    \cup [cmd : {"verify"}, pc : {"verify"}, path : {NULL}, contract : Codes \cup {NULL}, image : Images,
          asked : {NULL}, env : {NULL}, hash : {NULL}, contracts : 1 .. 2, ended : {NULL}]

Versions == {"stable1", "stable2", "unknown"}

UpgradeArgs ==
    [cmd : {"upgrade"}, pc : {"upgrade"}, json : BOOLEAN, version : Versions \cup {NULL}, ended : {NULL}]

Shells == {"bash", "zsh", "fish", "powershell", "elvish"}

CompletionArgs ==
    [cmd : {"completion"}, pc : {"completion"}, json : BOOLEAN, shell : {"bash", NULL}, output : {"given", NULL},
     env : {"zsh", NULL}, terminal : BOOLEAN, ended : {NULL}]

FrontendCommand ==
    [cmd : {"up frontend"}, pc : {"frontend dir"}, path : {NULL, "dir", "no dir"},
     lock : SUBSET {"pnpm", "bun", "yarn", "npm"}, here : {"frontend folder", "frontend", "none"},
     manager : {NULL}, ended : {NULL}]

HashCommand ==
    [cmd : {"hash"}, pc : {"hash"}, algorithm : {"blake2", "keccak", "sha2", "twox"}, length : {64, 128, 256, 512},
     data : {"file", "hex", "bad hex", "string", "directory", "large file"}, concat : BOOLEAN,
     output : {NULL}, ended : {NULL}]

Address == [kind : {"eth"}, key : {"k"}] \cup [kind : {"ss58", "public key"}, account : {"native", "padded k"}]

ConvertCommand ==
    [cmd : {"convert"}, pc : {"convert"}, address : Address, output : {NULL}, ended : {NULL}]

UtilitiesInit ==
    /\ ApiInit
    /\ session \in Verify \cup UpgradeArgs \cup CompletionArgs \cup FrontendCommand \cup HashCommand \cup ConvertCommand
    /\ files \in [source : {"s1"}, bundle : {IF session.cmd = "verify" /\ session.path = "own" THEN session.contract ELSE NULL},
                  manifest : IF session.cmd = "upgrade" THEN {"stable1", "missing"} ELSE {"stable1"}, script : {NULL}]

-----------------------------------------------------------------------------
(* pop verify *)

\* The bundle as it is in the file now
ReferenceBundle == IF session.path = "own" THEN files.bundle ELSE session.contract

(***************************************************************************)
(* get_build_info_parsed_from_contract_bundle: an error when the bundle    *)
(* has no binary or no build information.  A bundle that names an image    *)
(* was built verifiably, with it.                                          *)
(***************************************************************************)
GetBuildInfo ==
    /\ At("verify")
    /\ session.path # NULL
    /\ LET b == ReferenceBundle
       IN \/ Fail                                       \* it cannot be read
          \/ (b.code = NULL \/ b.built = NULL) /\ Fail
          \/ /\ b.code # NULL /\ b.built # NULL
             /\ Become([pc |-> "environment", asked |-> b.code, hash |-> b.code, env |-> b.built])
    /\ UNCHANGED <<files, apiVars>>

\* get_deployed_polkavm_code_hash, from Revive.AccountInfoOf of the chain
GetDeployedCodeHash ==
    /\ At("verify")
    /\ session.path = NULL
    /\ \/ Fail                                          \* no connection, no Revive, no such storage
       \/ session.contract = NULL /\ Fail               \* no contract at the address
       \/ /\ session.contract # NULL
          /\ Become([pc |-> "environment", asked |-> session.contract, hash |-> session.contract,
                     env |-> session.image])
    /\ UNCHANGED <<files, apiVars>>

\* Docker for an image, and otherwise compare_local_toolchain
CompareLocalToolchain ==
    /\ At("environment")
    /\ \/ session.env \notin LocalToolchains /\ Fail    \* which Docker that does not run is too
       \/ session.env \in LocalToolchains \cup Images /\ Goto("build")
    /\ UNCHANGED <<files, apiVars>>

\* build_smart_contract, which writes the bundles of the workspace's contracts
BuildContracts ==
    /\ At("build")
    /\ \/ Fail /\ UNCHANGED files
       \/ /\ Goto("compare")
          /\ files' = [files EXCEPT !.bundle = [code |-> <<files.source, session.env>>, built |-> session.env]]
    /\ UNCHANGED apiVars

(***************************************************************************)
(* Deliberate fault: the code hash to verify is read once the build is     *)
(* done.                                                                   *)
(***************************************************************************)
CompareWithFile ==
    /\ At("compare")
    /\ LET reference == IF session.path = "own" THEN ReferenceBundle.code ELSE session.hash
       IN IF session.contracts = 1 /\ reference = files.bundle.code THEN Succeed ELSE Fail
    /\ UNCHANGED <<files, apiVars>>

\* verify_polkavm_code_hash_against_build_result, for a workspace of one contract
VerifyCodeHash ==
    /\ At("compare")
    /\ IF session.contracts = 1 /\ session.hash = files.bundle.code THEN Succeed ELSE Fail
    /\ UNCHANGED <<files, apiVars>>

\* The hash to verify is taken before the build, which may overwrite the bundle it is in.
VerifyContract ==
    \/ GetBuildInfo \/ GetDeployedCodeHash \/ CompareLocalToolchain \/ BuildContracts \/ VerifyCodeHash

-----------------------------------------------------------------------------
(* pop upgrade *)

\* resolve_toml_path; in JSON mode the version is asked for before that, and must be given.
ResolveTomlPath ==
    /\ At("upgrade")
    /\ IF (session.json /\ session.version = NULL) \/ files.manifest = "missing" THEN Fail
       ELSE Goto(IF session.version = NULL THEN "fetch versions" ELSE "version mapping")
    /\ UNCHANGED <<files, apiVars>>

\* fetch_polkadot_sdk_versions, sorted with the latest stable version first, and the user's choice
FetchPolkadotSdkVersions ==
    /\ At("fetch versions")
    /\ Get(TRUE, \E v \in Versions : Become([pc |-> "version mapping", version |-> v]), Fail)
    /\ UNCHANGED files

\* psvm: the versions of the crates, from the release's own files, and the manifest rewritten
UpdateDependencies ==
    /\ At("version mapping")
    /\ \/ Fail /\ UNCHANGED files
       \/ /\ session.version # "unknown"
          /\ Succeed
          /\ files' = [files EXCEPT !.manifest = session.version]
    /\ UNCHANGED apiVars

-----------------------------------------------------------------------------
(* pop completion *)

\* write_completion_file
WriteCompletionFile(shell) ==
    \/ Fail /\ UNCHANGED files
    \/ Succeed /\ files' = [files EXCEPT !.script = shell]

\* shell_from_env_value of $SHELL
DetectShellFromEnv == session.env

CompletionExecute ==
    /\ At("completion")
    /\ LET shell == IF session.shell = NULL /\ session.output # NULL THEN DetectShellFromEnv ELSE session.shell
       IN CASE session.json /\ session.shell = NULL -> Fail /\ UNCHANGED files
            [] session.shell # NULL /\ session.output = NULL -> Succeed /\ UNCHANGED files  \* to stdout
            [] (session.json => session.shell # NULL) /\ session.output # NULL /\ shell # NULL -> WriteCompletionFile(shell)
            [] ~session.json /\ shell = NULL /\ session.output # NULL /\ ~session.terminal -> Fail /\ UNCHANGED files
            [] OTHER -> Goto("interactive setup") /\ UNCHANGED files
    /\ UNCHANGED apiVars

\* A shell, a path unless it was given, and the user's agreement to write there
InteractiveSetup ==
    /\ At("interactive setup")
    /\ \/ Fail /\ UNCHANGED files           \* no home directory, an empty path, or no answer
       \/ Succeed /\ UNCHANGED files        \* aborted
       \/ \E shell \in Shells : WriteCompletionFile(shell)
    /\ UNCHANGED apiVars

-----------------------------------------------------------------------------
(* pop up frontend *)

\* The path that was given, or resolve_frontend_dir
ResolveFrontendDir ==
    /\ At("frontend dir")
    /\ \/ (session.path = "dir" \/ session.here # "none") /\ Goto("detect")
       \/ /\ session.path # "dir" /\ session.here = "none"
          /\ \/ Goto("detect")              \* the path the user gives now
             \/ Succeed                     \* which is not a directory: skipped
             \/ Fail
    /\ UNCHANGED <<files, apiVars>>

\* detect_package_manager: the first lock file in this order
DetectPackageManager(lock) ==
    CASE "pnpm" \in lock -> "pnpm"
      [] "bun" \in lock /\ "pnpm" \notin lock -> "bun"
      [] "yarn" \in lock /\ lock \cap {"pnpm", "bun"} = {} -> "yarn"
      [] lock = {"npm"} -> "npm"
      [] lock = {} -> NULL

\* run_frontend: install, and the development server until it ends
RunFrontend ==
    /\ At("detect")
    /\ LET pm == DetectPackageManager(session.lock)
       IN \/ Fail                           \* not detected, not installed, or it failed
          \/ pm # NULL /\ Become([pc |-> "done", ended |-> "ok", manager |-> pm])
    /\ UNCHANGED <<files, apiVars>>

-----------------------------------------------------------------------------
(* pop hash and pop convert *)

\* The lengths that the arguments' parser accepts, in bits
SupportedLengths(algorithm) ==
    CASE algorithm = "blake2" -> {64, 128, 256, 512}
      [] algorithm = "keccak" -> {256, 512}
      [] algorithm = "sha2" -> {256}
      [] algorithm = "twox" -> {64, 128, 256}

\* Data::from_str: a path that exists must be a file that is not too large.
ReadsData(data) == data \notin {"directory", "large file", "bad hex"}

\* hash(), with the data appended where the algorithm allows it and the user asked for it
Hash ==
    /\ At("hash")
    /\ IF session.length \in SupportedLengths(session.algorithm) /\ ReadsData(session.data)
       THEN Become([pc |-> "done", ended |-> "ok",
                    output |-> [bytes |-> session.length \div 8,
                                appended |-> session.concat /\ session.algorithm \in {"blake2", "twox"}]])
       ELSE Fail
    /\ UNCHANGED <<files, apiVars>>

(***************************************************************************)
(* convert_address: an Ethereum address is padded to an account; of an     *)
(* account, the padding is taken off again, or else it is hashed.          *)
(***************************************************************************)
ConvertAddress(address) ==
    IF address.kind = "eth" THEN [kind |-> "ss58", account |-> "padded k"]
    ELSE [kind |-> "eth", key |-> IF address.account = "padded k" THEN "k" ELSE "hash"]

DoConvert ==
    /\ At("convert")
    /\ \/ Fail                              \* no address at all
       \/ Become([pc |-> "done", ended |-> "ok", output |-> ConvertAddress(session.address)])
    /\ UNCHANGED <<files, apiVars>>

-----------------------------------------------------------------------------
UtilitiesNext ==
    \/ VerifyContract
    \/ ResolveTomlPath \/ FetchPolkadotSdkVersions \/ UpdateDependencies
    \/ CompletionExecute \/ InteractiveSetup
    \/ ResolveFrontendDir \/ RunFrontend
    \/ Hash \/ DoConvert

(***************************************************************************)
(* A contract that is reported as verified is what the project's source    *)
(* compiles to: the binary that the user asked about, as it was before     *)
(* the command built the project over it, has the code of the source in    *)
(* the environment that the reference or the user names.                   *)
(***************************************************************************)
VerifiedIsReproduced ==
    (session.cmd = "verify" /\ session.ended = "ok")
        => /\ session.asked = <<files.source, session.env>>
           /\ session.asked = (IF session.path = NULL THEN session.contract ELSE session.contract.code)
           /\ session.contracts = 1

=============================================================================
