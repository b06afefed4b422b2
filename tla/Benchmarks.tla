----------------------------- MODULE Benchmarks -----------------------------
(***************************************************************************)
(* `pop bench` (crates/pop-cli/src/commands/bench): pallet, with its       *)
(* prompts, its menu, its file of saved parameters and its weight files;   *)
(* overhead; and block, machine and storage, which hand their arguments to *)
(* frame-omni-bencher.                                                     *)
(*                                                                         *)
(* Of the parameters the model keeps the selection of pallets and          *)
(* extrinsics, what is excluded from it, the genesis builder and one value *)
(* for the others.  An excluded extrinsic is written "pallet::extrinsic"   *)
(* or, as the menu writes it, "pallet:extrinsic".                          *)
(***************************************************************************)
EXTENDS Runtimes

CONSTANT MenuChanges  \* how often a user changes the other parameters in the menu

VARIABLES benchFile,  \* the saved parameters, or NULL
          weights     \* the weight files written: where, and the command in their header; or NULL

Parameters(pallets, extrinsic, excludedPallets, excludedExtrinsics, genesis, other) ==
    [pallets |-> pallets, extrinsic |-> extrinsic, excludedPallets |-> excludedPallets,
     excludedExtrinsics |-> excludedExtrinsics, genesis |-> genesis, other |-> other]

\* Without flags, with the pallets, and with everything that can be asked for.
Flags == {Parameters(NULL, NULL, {}, {}, NULL, 0),
          Parameters("some", NULL, {}, {"pallet::extrinsic"}, NULL, 0),
          Parameters("some", "some", {}, {"pallet::extrinsic"}, "none", 0)}

BenchPallet ==
    [cmd : {"bench pallet"}, pc : {"start"}, json : BOOLEAN, list : BOOLEAN, all : BOOLEAN, file : BOOLEAN,
     skipParameters : BOOLEAN, skipConfirm : BOOLEAN, noBuild : BOOLEAN,
     runtime : {"none", "directory", "file"}, output : {NULL, "file", "directory"}, params : Flags,
     original : {NULL}, saved : {FALSE}, binary : {NULL}, ran : {NULL}, shown : {NULL}, ended : {NULL}]

\* Overhead, block, machine and storage.
BenchTool ==
    [cmd : {"bench overhead", "bench block", "bench machine", "bench storage"}, pc : {"tool start"},
     json : BOOLEAN, noBuild : BOOLEAN, chain : BOOLEAN, runtime : {"none", "file"},
     output : {NULL, "directory", "file"}, binary : {NULL}, ran : {NULL}, shown : {NULL}, ended : {NULL}]

\* A file that was saved by an earlier command, perhaps with what its user excluded.
SavedFiles == {Parameters("some", "some", {}, x, "none", 1) : x \in {{}, {"pallet:extrinsic"}}}

BenchInit ==
    /\ RuntimesInit /\ docker = "missing" /\ wasm["debug"] = NULL
    /\ session \in {c \in BenchPallet : c.all => c.params.pallets = NULL /\ c.params.extrinsic = NULL} \cup BenchTool
    /\ benchFile \in {NULL} \cup SavedFiles
    /\ weights = NULL

SetParam(p) == Become([params |-> With(p, session.params)])
NextParam(p, pc) == Become([params |-> With(p, session.params), pc |-> pc])

\* display_message: the command says what went wrong and returns Ok.
Reported == Become([pc |-> "done", ended |-> "reported"])

-----------------------------------------------------------------------------
(* bench pallet *)

Everything == [pallets |-> "all", extrinsic |-> "all"]

\* The file replaces every flag, and has neither the runtime nor the output in it.  Its -y, -n
\* and --skip-parameters can be any, as those of the session are.
LoadBenchFile ==
    /\ At("start") /\ session.cmd = "bench pallet"
    /\ LET next == IF session.json THEN "validate" ELSE "runtime"
           p == IF session.all THEN With(Everything, session.params) ELSE session.params
       IN \/ ~session.file /\ Become([pc |-> next, params |-> p, original |-> p])
          \/ session.file /\ benchFile = NULL /\ Fail
          \/ /\ session.file /\ benchFile # NULL
             /\ Become([pc |-> next, params |-> benchFile, original |-> benchFile, list |-> FALSE,
                        runtime |-> "none", output |-> NULL])

\* validate_json_mode_requirements: nothing can be asked.
ValidateJson ==
    /\ At("validate")
    /\ IF /\ session.runtime # "none"
          /\ \/ session.list
             \/ session.params.pallets # NULL /\ session.params.extrinsic # NULL /\ session.skipParameters
       THEN Goto("runtime") ELSE Fail

\* JSON uses the release profile, otherwise the user selects one.
BenchProfiles == IF session.json THEN {"release"} ELSE Profiles

BenchBinaries(profiles) ==
    UNION {EnsureRuntimeBinaryExists(p, {"runtime-benchmarks"}, ~session.noBuild) : p \in profiles}

\* A file is the runtime's binary; a directory, or no path, is built or searched.
ResolveRuntime ==
    /\ At("runtime")
    /\ LET next == IF session.json THEN "run json" ELSE IF session.list THEN "run" ELSE "genesis"
           ready(binary) == Become([pc |-> next, binary |-> binary,
                                    runtime |-> IF session.runtime = "none" THEN "directory" ELSE session.runtime])
           failed == IF session.json THEN Fail ELSE Reported
       IN IF session.runtime = "file"
          THEN UNCHANGED wasm /\ \E fs \in {{}, {"runtime-benchmarks"}} : ready(Binary("given", fs))
          ELSE \/ failed /\ UNCHANGED wasm
               \/ \E r \in BenchBinaries(BenchProfiles) : ready(r.binary) /\ wasm' = r.wasm

SelectGenesis ==
    /\ At("genesis")
    /\ \/ session.params.genesis # NULL /\ Goto("pallets")
       \/ session.params.genesis = NULL /\ (Fail \/ \E g \in {"none", "runtime"} : NextParam([genesis |-> g], "pallets"))

PalletChoices == {"all", "some"}

\* The registry comes from frame-omni-bencher, which may have to be sourced.
SelectPallets ==
    /\ At("pallets")
    /\ \/ session.params.pallets # NULL /\ Goto("extrinsics")
       \/ session.params.pallets = NULL /\ (Reported \/ \E p \in PalletChoices : NextParam([pallets |-> p], "extrinsics"))

\* With all the pallets come all the extrinsics.
ExtrinsicChoices == IF session.params.pallets = "all" THEN {"all"} ELSE {"all", "some"}

SelectExtrinsics ==
    /\ At("extrinsics")
    /\ LET next == IF session.skipParameters THEN "output" ELSE "offer menu" IN
       \/ session.params.extrinsic # NULL /\ Goto(next)
       \/ session.params.extrinsic = NULL /\ (Fail \/ \E e \in ExtrinsicChoices : NextParam([extrinsic |-> e], next))

OfferMenu == At("offer menu") /\ (Fail \/ Goto("menu") \/ Goto("output"))

(***************************************************************************)
(* guide_user_to_select_menu_option lists the parameters with their values *)
(* first.  The line of the excluded pallets checks the format of the       *)
(* excluded extrinsics, and what it refuses ends the command.              *)
(***************************************************************************)
MenuListed ==
    session.params.excludedPallets # {} => session.params.excludedExtrinsics \subseteq {"pallet::extrinsic"}

\* Excluded again from nothing: the extrinsics are offered as "pallet:extrinsic".
UpdateExcluded ==
    \/ \E x \in {{}, {"pallet"}} : SetParam([excludedPallets |-> x])
    \/ \E x \in {{}, {"pallet:extrinsic"}} : SetParam([excludedExtrinsics |-> x])

\* Values, ranges and switches that are entered; bounded by MenuChanges.
UpdateOther == session.params.other < MenuChanges /\ SetParam([other |-> session.params.other + 1])

\* The runtime's path is known by now, so that its option selects a profile and builds.
UpdateRuntimePath ==
    /\ session.runtime # "file"
    /\ \/ UNCHANGED <<session, wasm>>
       \/ \E r \in BenchBinaries(Profiles) : Become([binary |-> r.binary]) /\ wasm' = r.wasm

\* update_arguments.  An option that fails is reported and the menu comes again.
Menu ==
    /\ At("menu")
    /\ \/ Fail /\ UNCHANGED wasm
       \/ /\ MenuListed
          /\ \/ \E p \in PalletChoices : SetParam([pallets |-> p])
             \/ \E e \in ExtrinsicChoices : SetParam([extrinsic |-> e])
             \/ UpdateExcluded
             \/ \E g \in {"none", "runtime"} : SetParam([genesis |-> g])
             \/ UpdateOther
             \/ Goto("output")
          /\ UNCHANGED wasm
       \/ MenuListed /\ UpdateRuntimePath

SelectOutput ==
    /\ At("output")
    /\ \/ (session.output # NULL \/ session.params.pallets = "some") /\ Goto("save")
       \/ /\ session.output = NULL
          /\ Fail \/ \E out \in {NULL, "file", "directory"} : Become([pc |-> "save", output |-> out])

(***************************************************************************)
(* Deliberate fault: the parameters that are saved are those from before   *)
(* the prompts.                                                            *)
(***************************************************************************)
SaveOriginal == benchFile' = session.original

Save == benchFile' = session.params

\* guide_user_to_update_bench_file_path; -y saves to pop-bench.toml without a question.
SaveParameters ==
    /\ At("save")
    /\ LET changed == session.params # session.original
           skip == Goto("run") /\ UNCHANGED benchFile
           save == Save /\ Become([pc |-> "run", saved |-> TRUE])
       IN \/ Fail /\ UNCHANGED benchFile
          \/ (IF session.file THEN ~(changed /\ session.skipConfirm) ELSE ~session.skipConfirm) /\ skip
          \/ (session.file => changed) /\ save

\* overwrite_weight_file_command
OverwriteWeightFileCommand(out) == weights' = [at |-> out, command |-> out]

\* The tool is run with the binary and the parameters of the session.
Ran(ended, shown) ==
    Become([pc |-> "done", ended |-> ended, shown |-> shown,
            ran |-> [binary |-> session.binary, needs |-> "runtime-benchmarks", params |-> session.params]])

(***************************************************************************)
(* run: the tool writes to a temporary place, from where the files are     *)
(* copied with the command in their header.  After an error the command    *)
(* that is shown has the temporary path.                                   *)
(***************************************************************************)
Run ==
    /\ At("run")
    /\ \/ Ran("reported", IF session.output = NULL THEN NULL ELSE "temporary") /\ UNCHANGED weights
       \/ session.output = NULL /\ Ran("ok", NULL) /\ UNCHANGED weights
       \/ /\ session.output # NULL
          /\ Ran("ok", session.output) /\ OverwriteWeightFileCommand(session.output)

\* A list goes to the output of the command only.  The results may not parse.
RunJson ==
    /\ At("run json")
    /\ \/ Fail /\ UNCHANGED weights
       \/ (session.output = NULL \/ session.list) /\ Ran("ok", session.output) /\ UNCHANGED weights
       \/ /\ session.output # NULL /\ ~session.list
          /\ (Ran("ok", session.output) \/ Fail) /\ OverwriteWeightFileCommand(session.output)

-----------------------------------------------------------------------------
(* The other benchmarks *)

\* Only pallet has a JSON form.
RejectJson == At("tool start") /\ session.json /\ Fail

\* Overhead asks for the runtime unless --chain names a chain, and for the directory.
ConfigureOverhead ==
    /\ At("tool start") /\ ~session.json /\ session.cmd = "bench overhead"
    /\ LET ready(binary) == Become([pc |-> "run overhead", binary |-> binary,
                                    output |-> IF session.output = NULL THEN "directory" ELSE session.output])
       IN \/ session.chain /\ ready(NULL) /\ UNCHANGED wasm
          \/ /\ ~session.chain /\ session.runtime = "file" /\ UNCHANGED wasm
             /\ \E fs \in {{}, {"runtime-benchmarks"}} : ready(Binary("given", fs))
          \/ /\ ~session.chain /\ session.runtime # "file"
             /\ \/ Reported /\ UNCHANGED wasm
                \/ \E r \in BenchBinaries(Profiles) : ready(r.binary) /\ wasm' = r.wasm

ToolRan == Become([pc |-> "done", ended |-> "ok", shown |-> session.output,
                   ran |-> [binary |-> session.binary, needs |-> "runtime-benchmarks"]])

\* Only to a directory.
RunOverhead ==
    /\ At("run overhead")
    /\ \/ Reported /\ UNCHANGED weights
       \/ session.output # "file" /\ ToolRan /\ OverwriteWeightFileCommand(session.output)

\* Without --weight-path the tool writes to its own default.
RunStorage ==
    /\ At("tool start") /\ ~session.json /\ session.cmd = "bench storage"
    /\ \/ (Fail \/ Reported) /\ UNCHANGED weights
       \/ session.output = NULL /\ ToolRan /\ UNCHANGED weights
       \/ session.output = "directory" /\ ToolRan /\ OverwriteWeightFileCommand(session.output)

\* Block and machine: the arguments are those of the tool.
HandOver ==
    /\ At("tool start") /\ ~session.json /\ session.cmd \in {"bench block", "bench machine"}
    /\ Fail \/ Reported \/ ToolRan

BenchNext ==
    \/ /\ LoadBenchFile \/ ValidateJson \/ SelectGenesis \/ SelectPallets \/ SelectExtrinsics
          \/ OfferMenu \/ SelectOutput \/ RejectJson \/ HandOver
       /\ UNCHANGED <<wasm, docker, benchFile, weights>>
    \/ (ResolveRuntime \/ Menu \/ ConfigureOverhead) /\ UNCHANGED <<docker, benchFile, weights>>
    \/ SaveParameters /\ UNCHANGED <<wasm, docker, weights>>
    \/ (Run \/ RunJson \/ RunOverhead \/ RunStorage) /\ UNCHANGED <<wasm, docker, benchFile>>

\* The command by itself, with any number of changes in the menu.
BenchSpec == BenchInit /\ [][BenchNext]_<<session, runtimeVars, benchFile, weights>>

-----------------------------------------------------------------------------
(* Properties. *)

Benches == {"bench pallet", "bench overhead", "bench block", "bench machine", "bench storage"}

(***************************************************************************)
(* What a benchmark leaves behind can be run again: a file of parameters   *)
(* that was saved holds those of the run, whatever was changed in the menu *)
(* before it, and a weight file records the command with the path where    *)
(* the file is, never the temporary one that the tool was given.           *)
(***************************************************************************)
BenchmarkReproducible ==
    session.cmd \in Benches /\ Done /\ session.ran # NULL =>
        /\ session.cmd = "bench pallet" /\ session.saved => benchFile = session.ran.params
        /\ weights # NULL => weights.command = weights.at /\ session.shown = weights.at

-----------------------------------------------------------------------------
(* Not kept by the code. *)

(***************************************************************************)
(* The menu that offers to exclude extrinsics can be listed again with     *)
(* what it has excluded.  It cannot: it writes "pallet:extrinsic", and the *)
(* command ends in an error when a pallet is excluded as well.             *)
(***************************************************************************)
MenuComesAgain == session.cmd = "bench pallet" /\ At("menu") => MenuListed

=============================================================================
