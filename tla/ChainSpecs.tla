----------------------------- MODULE ChainSpecs -----------------------------
(***************************************************************************)
(* `pop build spec` (crates/pop-cli/src/commands/build/spec.rs over        *)
(* crates/pop-chains/src/build/mod.rs) and the registration of a chain     *)
(* with `pop up` (commands/up/chain.rs), which reserves an id, builds the  *)
(* specification for it and registers the genesis artifacts.               *)
(*                                                                         *)
(* Of a chain specification the model keeps the parachain id in its root,  *)
(* the one in its genesis, and the runtime code.  The file that exists     *)
(* before the command was made for OldId.                                  *)
(***************************************************************************)
EXTENDS Session

CONSTANTS ParaIds,   \* ids that a user may ask for
          OldId,     \* the id of the specification that exists already
          PresetId   \* the id in the presets of the runtime and the node

VARIABLES specFiles,   \* the plain and the raw specification, the genesis code and state
          specBinary,  \* the node or runtime to build the specification with exists
          registrar    \* the relay chain's registrar: ids reserved here, registrations

SpecFile(root, genesis, code) == [root |-> root, genesis |-> genesis, code |-> code]

NoFiles == [plain |-> NULL, raw |-> NULL, code |-> NULL, state |-> NULL]

BuildSpec ==
    [cmd : {"build spec"}, pc : {"supported"}, json : BOOLEAN, existing : BOOLEAN, kept : {FALSE},
     skip : BOOLEAN, builder : {"node", "runtime"}, relay : BOOLEAN, id : {NULL} \cup ParaIds,
     wantsRaw : BOOLEAN, wantsCode : BOOLEAN, wantsState : BOOLEAN, deterministic : BOOLEAN,
     given : {FALSE}, proxy : {FALSE}, made : {FALSE}, ended : {NULL}]

\* The command that generate_spec_files makes up; given: both genesis files are flags.
UpChain ==
    [cmd : {"up chain"}, pc : {"relay chain"}, json : {FALSE}, existing : BOOLEAN, kept : {FALSE},
     skip : {FALSE}, builder : {"node", "runtime"}, relay : {FALSE}, id : {NULL} \cup ParaIds,
     wantsRaw : {FALSE}, wantsCode : {TRUE}, wantsState : {TRUE}, deterministic : BOOLEAN,
     given : BOOLEAN, proxy : BOOLEAN, made : {FALSE}, ended : {NULL}]

\* --is-relay excludes --para-id; a deterministic build names its runtime directory.
ChainSpecsInit ==
    /\ session \in {c \in BuildSpec \cup UpChain :
           /\ c.relay => c.id = NULL
           /\ c.deterministic => c.builder = "runtime"}
    /\ specFiles = [NoFiles EXCEPT !.plain = IF session.existing THEN SpecFile(OldId, OldId, "old") ELSE NULL]
    /\ specBinary \in BOOLEAN
    /\ registrar = [reserved |-> {}, registered |-> NULL]

\* What an error ends the command with: only JSON reports it.
SpecFails == IF session.json THEN Fail ELSE Succeed

-----------------------------------------------------------------------------
(* Configuration. *)

IsSupported ==
    /\ At("supported")
    /\ \/ SpecFails
       \/ Goto(IF session.json THEN "flags" ELSE "configure")

\* configure_build_spec_json: every choice is a flag, and a file that exists is generated anew.
ConfigureBuildSpecJson ==
    /\ At("flags")
    /\ \/ Fail
       \/ (session.relay \/ session.id # NULL) /\ Goto("builder")

\* Asked only about a file that --chain names: use it as it is?
KeepChoices == IF session.existing THEN BOOLEAN ELSE {FALSE}

\* The flag, or the id of the kept file, or what the user enters.
IdChoices(keep) ==
    IF session.relay \/ session.id # NULL THEN {session.id}
    ELSE IF keep THEN {OldId} ELSE ParaIds \cup {OldId}

\* A file that is kept is not built deterministically either.
ConfigureBuildSpec ==
    /\ At("configure")
    /\ \/ IF session.cmd = "build spec" THEN Fail ELSE SpecFails
       \/ \E keep \in KeepChoices : \E id \in IdChoices(keep) :
             Become([pc |-> "builder", kept |-> keep, id |-> id,
                     deterministic |-> session.deterministic /\ ~keep])

-----------------------------------------------------------------------------
(* BuildSpec::build *)

\* create_chain_spec_builder and find_runtime_dir
CreateChainSpecBuilder == At("builder") /\ (SpecFails \/ Goto("compile"))

\* artifact_path: the binary of the node or the wasm file of the runtime.
ArtifactPath == specBinary

\* --skip-build is ignored when there is no artifact.
CompileArtifact ==
    /\ At("compile")
    /\ LET next == Goto(IF session.kept THEN "raw" ELSE "plain") IN
       IF session.skip /\ ArtifactPath
       THEN next /\ UNCHANGED specBinary
       ELSE \/ next /\ specBinary' = TRUE
            \/ SpecFails /\ UNCHANGED specBinary

\* The plain specifications that can come out.  The node loads a file that --chain names; to
\* the runtime --chain is the name of a preset, which the path of a file is not.
PlainWithNode == {IF session.existing THEN specFiles.plain ELSE SpecFile(PresetId, PresetId, "artifact")}
PlainWithRuntime == IF session.existing THEN {} ELSE {SpecFile(PresetId, PresetId, "artifact")}

\* The node writes to a temporary file first.
GeneratePlainChainSpec ==
    /\ At("plain")
    /\ \/ SpecFails /\ UNCHANGED specFiles
       \/ \E plain \in IF session.builder = "node" THEN PlainWithNode ELSE PlainWithRuntime :
             specFiles' = [specFiles EXCEPT !.plain = plain] /\ Goto("customize")

\* A raw specification has no patch in its genesis to replace the id in.
Customized(file, raw) ==
    IF session.relay THEN file
    ELSE [file EXCEPT !.root = session.id, !.genesis = IF raw THEN @ ELSE session.id]

Customize ==
    /\ At("customize")
    /\ \/ SpecFails /\ UNCHANGED specFiles
       \/ /\ specFiles' = [specFiles EXCEPT !.plain = Customized(@, FALSE)]
          /\ Goto(IF session.deterministic THEN "deterministic" ELSE "raw")

\* srtool builds the runtime in a container; the plain specification gets its code.
BuildDeterministicRuntime ==
    /\ At("deterministic")
    /\ \/ SpecFails /\ UNCHANGED specFiles
       \/ specFiles' = [specFiles EXCEPT !.plain.code = "deterministic"] /\ Goto("raw")

WantsArtifacts == session.wantsRaw \/ session.wantsCode \/ session.wantsState

Made == IF session.cmd = "build spec" THEN Become([pc |-> "done", ended |-> "ok", made |-> TRUE])
        ELSE Become([pc |-> "register", made |-> TRUE])

RawWithNode(plain) == plain

\* The runtime's raw specification has none of the root's extensions.
RawWithRuntime(plain) == SpecFile(NULL, plain.genesis, plain.code)

GenerateRawChainSpec ==
    /\ At("raw")
    /\ \/ ~WantsArtifacts /\ Made /\ UNCHANGED specFiles
       \/ WantsArtifacts /\ SpecFails /\ UNCHANGED specFiles
       \/ /\ WantsArtifacts
          /\ specFiles' = [specFiles EXCEPT !.raw =
                IF session.builder = "node" THEN RawWithNode(specFiles.plain)
                ELSE RawWithRuntime(specFiles.plain)]
          /\ Goto(IF session.builder = "runtime" THEN "customize raw" ELSE "genesis code")

CustomizeRaw ==
    /\ At("customize raw")
    /\ \/ SpecFails /\ UNCHANGED specFiles
       \/ specFiles' = [specFiles EXCEPT !.raw = Customized(@, TRUE)] /\ Goto("genesis code")

\* export-genesis-wasm of the node, or the code of the runtime's raw specification
ExportedCode(raw) == raw.code

ExportWasmFile ==
    /\ At("genesis code")
    /\ \/ ~session.wantsCode /\ Goto("genesis state") /\ UNCHANGED specFiles
       \/ session.wantsCode /\ SpecFails /\ UNCHANGED specFiles
       \/ session.wantsCode /\ specFiles' = [specFiles EXCEPT !.code = ExportedCode(specFiles.raw)] /\ Goto("genesis state")

\* export-genesis-state
GenesisState(raw) == raw.genesis

\* With a runtime the state comes from polkadot-omni-node, which may have to be sourced.
GenerateGenesisStateFile ==
    /\ At("genesis state")
    /\ \/ ~session.wantsState /\ Made /\ UNCHANGED specFiles
       \/ session.wantsState /\ SpecFails /\ UNCHANGED specFiles
       \/ session.wantsState /\ specFiles' = [specFiles EXCEPT !.state = GenesisState(specFiles.raw)] /\ Made

-----------------------------------------------------------------------------
(* pop up *)

ConfigureRelayChain == At("relay chain") /\ (SpecFails \/ Goto("reserve"))

\* submit_extrinsic: the id is in an event of the finalized block.
Reserve ==
    /\ At("reserve")
    /\ LET next(id) == Become([pc |-> IF session.given THEN "register" ELSE "configure", id |-> id]) IN
       \/ session.id # NULL /\ next(session.id) /\ UNCHANGED registrar
       \/ session.id = NULL /\ SpecFails /\ UNCHANGED registrar
       \/ /\ session.id = NULL
          /\ \E id \in ParaIds : /\ registrar' = [registrar EXCEPT !.reserved = @ \cup {id}]
                                 /\ (next(id) \/ SpecFails)

\* read_genesis_state and read_genesis_code
ReadGenesis == IF session.given THEN [state |-> session.id, code |-> "given"]
               ELSE [state |-> specFiles.state, code |-> specFiles.code]

Register ==
    /\ At("register")
    /\ \/ SpecFails /\ UNCHANGED registrar
       \/ /\ registrar' = [registrar EXCEPT !.registered =
                [id |-> session.id, proxy |-> session.proxy,
                 state |-> ReadGenesis.state, code |-> ReadGenesis.code]]
          /\ Succeed

ChainSpecsNext ==
    \/ /\ IsSupported \/ ConfigureBuildSpecJson \/ ConfigureBuildSpec \/ CreateChainSpecBuilder
          \/ ConfigureRelayChain
       /\ UNCHANGED <<specFiles, specBinary, registrar>>
    \/ CompileArtifact /\ UNCHANGED <<specFiles, registrar>>
    \/ /\ GeneratePlainChainSpec \/ Customize \/ BuildDeterministicRuntime \/ GenerateRawChainSpec
          \/ CustomizeRaw \/ ExportWasmFile \/ GenerateGenesisStateFile
       /\ UNCHANGED <<specBinary, registrar>>
    \/ (Reserve \/ Register) /\ UNCHANGED <<specFiles, specBinary>>

-----------------------------------------------------------------------------
(* Properties. *)

(***************************************************************************)
(* The artifacts of a build that was reported as done are those of the     *)
(* specification it leaves behind: the raw specification, the genesis code *)
(* and the genesis state have the code and the genesis of the plain one,   *)
(* with a deterministic runtime its code is in all of them, and a          *)
(* specification that was not kept has the id asked for in its root and in *)
(* its genesis.                                                            *)
(***************************************************************************)
ArtifactsOfOneSpec ==
    session.cmd \in {"build spec", "up chain"} /\ session.made =>
        LET f == specFiles IN
        /\ f.raw # NULL => f.raw.genesis = f.plain.genesis /\ f.raw.code = f.plain.code
        /\ session.wantsCode => f.code = f.plain.code
        /\ session.wantsState => f.state = f.plain.genesis
        /\ session.deterministic => f.plain.code = "deterministic"
        /\ ~session.kept /\ ~session.relay =>
              /\ f.plain.root = session.id /\ f.plain.genesis = session.id
              /\ f.raw # NULL => f.raw.root = session.id

(***************************************************************************)
(* `pop up` registers the id that it was given or has reserved, with a     *)
(* genesis state for this id.  The exception is a specification that the   *)
(* user keeps as it is: its id is the one it was made for.                 *)
(***************************************************************************)
RegisteredForItsId ==
    session.cmd = "up chain" /\ registrar.registered # NULL =>
        LET r == registrar.registered IN
        /\ registrar.reserved # {} => r.id \in registrar.reserved
        /\ ~session.kept => r.state = r.id

=============================================================================
