------------------------------ MODULE Commands ------------------------------
(***************************************************************************)
(* The commands of pop, one at a time.  An invocation is of one family;    *)
(* it moves the part of the machine that the family works on, and leaves   *)
(* the parts of the others as they are.  Of the five families that are no  *)
(* session at a terminal, the wallet's signature is a server beside the    *)
(* command, the networks are several processes of pop, the fork is the     *)
(* block production of one, and the storage of a contract and the          *)
(* configuration of a network are what a command shows and launches.       *)
(***************************************************************************)
EXTENDS Contracts, Chains, ChainSpecs, Builds, Benchmarks, RuntimeTests, Projects,
        Utilities, Main, Wallet, Network, Inherents, ContractStorage, NetworkConfig

CONSTANT Families   \* those that are checked

nodes == <<built, inkNodes, nodePort, submitted>>
specs == <<specFiles, specBinary, registrar>>
benches == <<benchFile, weights>>
process == <<stdout, telemetry, exit>>
shown == <<storageVars, launch>>

commandVars ==
    <<session, nodes, extrinsics, specs, runtimeVars, benches, installed, projectVars, apiVars,
      files, process, walletVars, networkVars, inherentVars, shown>>

-----------------------------------------------------------------------------
(* The parts of the machine that an invocation does not work on *)

NoNodes == built = FALSE /\ inkNodes = {} /\ nodePort = NULL /\ submitted = <<>>
NoExtrinsics == extrinsics = <<>>
NoSpecs == specFiles = NULL /\ specBinary = FALSE /\ registrar = NULL
NoRuntimes == wasm = NULL /\ docker = NULL
NoBenches == benchFile = NULL /\ weights = NULL
NoInstallation == installed = {}
NoProject == target = NULL /\ workspace = NULL
NoApi == window = NULL /\ rateLimits = NULL
NoUtility == files = NULL
NoProcess == stdout = <<>> /\ telemetry = NULL /\ exit = NULL
NoNetworks == up = [p \in Ups |-> NULL] /\ cleaner = [k \in Cleaners |-> NoClean] /\ net = [p \in Ups |-> NoNetwork]
NoFork ==
    /\ chain = <<[exts |-> <<>>]>> /\ storage = NULL /\ builder = NULL /\ cached = NULL
    /\ provider = NULL /\ clock = 0 /\ abandoned = 0 /\ refused = <<>>

NoStorage == layout = NULL /\ trie = NULL /\ read = NoRead /\ kept = {} /\ changes = 0
NoConfiguration == launch = NoUp

Elsewhere(family) == session = [cmd |-> family, pc |-> family, ended |-> NULL]

\* A part of the machine that the invocation does not work on
Unless(used, Idle) == IF used THEN TRUE ELSE Idle

CommandsInit ==
    \E family \in Families :
        /\ CASE family = "contract" -> ContractsInit
             [] family = "chain" -> ChainsInit
             [] family = "spec" -> ChainSpecsInit
             [] family = "build" -> BuildsInit
             [] family = "bench" -> BenchInit
             [] family = "test" -> TestsInit
             [] family = "install" -> SetupInit
             [] family = "new" -> ProjectsInit
             [] family = "utility" -> UtilitiesInit
             [] family = "main" -> MainInit
             [] family = "wallet" -> Elsewhere("wallet")
             [] family = "network" -> Elsewhere("network") /\ NetworkInit
             [] family = "fork" -> Elsewhere("fork") /\ InherentsInit
             [] family = "storage" -> Elsewhere("storage") /\ StorageInit
             [] family = "config" -> Elsewhere("config") /\ ConfigInit
        /\ Unless(family = "contract", NoNodes)
        /\ Unless(family = "chain", NoExtrinsics)
        /\ Unless(family = "spec", NoSpecs)
        /\ Unless(family \in {"build", "bench", "test"}, NoRuntimes)
        /\ Unless(family = "bench", NoBenches)
        /\ Unless(family \in {"install", "new"}, NoInstallation)
        /\ Unless(family = "new", NoProject)
        /\ Unless(family \in {"new", "utility"}, NoApi)
        /\ Unless(family = "utility", NoUtility)
        /\ Unless(family = "main", NoProcess)
        /\ WalletInit
        /\ Unless(family = "network", NoNetworks)
        /\ Unless(family = "fork", NoFork)
        /\ Unless(family = "storage", NoStorage)
        /\ Unless(family = "config", NoConfiguration)

-----------------------------------------------------------------------------
ContractStep ==
    /\ session.cmd \in {"up", "call", "ink-node"} /\ ContractsNext
    /\ UNCHANGED <<extrinsics, specs, runtimeVars, benches, installed, projectVars, apiVars, files, process,
                   walletVars, networkVars, inherentVars, shown>>
ChainStep ==
    /\ session.cmd = "call chain" /\ ChainsNext
    /\ UNCHANGED <<nodes, specs, runtimeVars, benches, installed, projectVars, apiVars, files, process,
                   walletVars, networkVars, inherentVars, shown>>
SpecStep ==
    /\ session.cmd \in {"build spec", "up chain"} /\ ChainSpecsNext
    /\ UNCHANGED <<nodes, extrinsics, runtimeVars, benches, installed, projectVars, apiVars, files, process,
                   walletVars, networkVars, inherentVars, shown>>
BuildStep ==
    /\ session.cmd = "build" /\ BuildsNext
    /\ UNCHANGED <<nodes, extrinsics, specs, benches, installed, projectVars, apiVars, files, process,
                   walletVars, networkVars, inherentVars, shown>>
BenchStep ==
    /\ session.cmd \in Benches /\ BenchNext
    /\ UNCHANGED <<nodes, extrinsics, specs, installed, projectVars, apiVars, files, process,
                   walletVars, networkVars, inherentVars, shown>>
TestStep ==
    /\ session.cmd \in {"test", "on-runtime-upgrade", "execute-block", "fast-forward", "create-snapshot"} /\ TestsNext
    /\ UNCHANGED <<nodes, extrinsics, specs, benches, installed, projectVars, apiVars, files, process,
                   walletVars, networkVars, inherentVars, shown>>
InstallStep ==
    /\ session.cmd = "install" /\ SetupNext
    /\ UNCHANGED <<nodes, extrinsics, specs, runtimeVars, benches, projectVars, apiVars, files, process,
                   walletVars, networkVars, inherentVars, shown>>
NewStep ==
    /\ NewCommand /\ ProjectsNext
    /\ UNCHANGED <<nodes, extrinsics, specs, runtimeVars, benches, files, process,
                   walletVars, networkVars, inherentVars, shown>>
UtilityStep ==
    /\ session.cmd \in {"verify", "upgrade", "completion", "up frontend", "hash", "convert"} /\ UtilitiesNext
    /\ UNCHANGED <<nodes, extrinsics, specs, runtimeVars, benches, installed, projectVars, process,
                   walletVars, networkVars, inherentVars, shown>>
MainStep ==
    /\ session.cmd = "main" /\ MainNext
    /\ UNCHANGED <<nodes, extrinsics, specs, runtimeVars, benches, installed, projectVars, apiVars, files,
                   walletVars, networkVars, inherentVars, shown>>
WalletStep ==
    /\ session.cmd = "wallet" /\ WalletNext
    /\ UNCHANGED <<session, nodes, extrinsics, specs, runtimeVars, benches, installed, projectVars, apiVars, files,
                   process, networkVars, inherentVars, shown>>
NetworkStep ==
    /\ session.cmd = "network" /\ NetworkNext
    /\ UNCHANGED <<session, nodes, extrinsics, specs, runtimeVars, benches, installed, projectVars, apiVars, files,
                   process, walletVars, inherentVars, shown>>
ForkStep ==
    /\ session.cmd = "fork" /\ InherentsNext
    /\ UNCHANGED <<session, nodes, extrinsics, specs, runtimeVars, benches, installed, projectVars, apiVars, files,
                   process, walletVars, networkVars, shown>>
StorageStep ==
    /\ session.cmd = "storage" /\ StorageNext
    /\ UNCHANGED <<session, nodes, extrinsics, specs, runtimeVars, benches, installed, projectVars, apiVars, files,
                   process, walletVars, networkVars, inherentVars, launch>>
ConfigStep ==
    /\ session.cmd = "config" /\ ConfigNext
    /\ UNCHANGED <<session, nodes, extrinsics, specs, runtimeVars, benches, installed, projectVars, apiVars, files,
                   process, walletVars, networkVars, inherentVars, storageVars>>

CommandsNext ==
    \/ ContractStep \/ ChainStep \/ SpecStep \/ BuildStep \/ BenchStep \/ TestStep \/ InstallStep
    \/ NewStep \/ UtilityStep \/ MainStep \/ WalletStep \/ NetworkStep \/ ForkStep
    \/ StorageStep \/ ConfigStep

CommandsSpec == CommandsInit /\ [][CommandsNext]_commandVars

-----------------------------------------------------------------------------
(* Properties of more than one family. *)

(***************************************************************************)
(* A success that pop reports was earned: the artifact was built as the    *)
(* flags ask, a tool ran on a runtime with the feature it needs, a chain   *)
(* specification and its artifacts agree and are registered for their id,  *)
(* only checks that the user agreed to were left out of a migration test,  *)
(* an installation and a new project are complete, a verified contract was *)
(* reproduced, a deployment went to the node started for it, a network was *)
(* launched as it was configured and with the chains its chains need, and  *)
(* the storage that is shown of a contract is all of it.                   *)
(***************************************************************************)
SuccessEarned ==
    /\ BuiltAsAsked
    /\ UsedWithFeature
    /\ ArtifactsOfOneSpec
    /\ RegisteredForItsId
    /\ OnlyAgreedChecksDisabled
    /\ InstallationComplete
    /\ NewProjectWhole
    /\ VerifiedIsReproduced
    /\ SubmittedToOwnNode
    /\ LaunchedAsConfigured
    /\ RequirementsMet
    /\ FieldsUnderTheirRoots
    /\ MappingReadComplete

(***************************************************************************)
(* The loops of `pop call`: nothing that was entered for an earlier call,  *)
(* and no consent given to it, is in a later one.                          *)
(***************************************************************************)
RepeatedCallsStartAfresh == RepeatedCallConfirmed /\ RepeatedCallIsItsOwn

=============================================================================
