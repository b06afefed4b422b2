---------------------------- MODULE NetworkConfig ----------------------------
(***************************************************************************)
(* What `pop up <relay>` and `pop up network` make of the chains they are  *)
(* asked for (crates/pop-chains/src/registry, crates/pop-chains/src/up,    *)
(* BuildCommand of crates/pop-cli/src/commands/up/network.rs): the         *)
(* configuration built from chains of the registry or loaded from a file,  *)
(* the binary found for each command in it, and the network that is        *)
(* launched once the binaries are there (which Sourcing brings about).     *)
(*                                                                         *)
(* A node is its port and the command it names, a genesis override the id  *)
(* of the chain whose sovereign account it endows.                         *)
(***************************************************************************)
EXTENDS Session

LOCAL INSTANCE SequencesExt
LOCAL INSTANCE Functions

CONSTANTS
    Relays,       \* relay chains, of those pop knows
    Specifiers,   \* chains as given on the command line: name, id and port
    Files,        \* network configuration files
    Repositories, \* repositories given with them: package, and the host is GitHub
    MaxChains     \* bound: chains given on the command line

VARIABLE launch       \* the command

(***************************************************************************)
(* The registry                                                            *)
(***************************************************************************)
SystemBinary == "polkadot-parachain"

\* The system chains have one binary and need no other chain.
SystemChain(type, id) ==
    [type |-> type, id |-> id, binary |-> SystemBinary, requires |-> {}, port |-> NULL]

\* Pop's account is endowed on the Asset Hub.
Pop(id) ==
    [type |-> "pop", id |-> id, binary |-> "pop-node", requires |-> {"asset-hub"}, port |-> NULL]

SystemChains == <<SystemChain("asset-hub", 1000), SystemChain("bridge-hub", 1002),
                  SystemChain("coretime", 1004), SystemChain("people", 1005)>>

Registered(relay) ==
    CASE relay = "kusama" -> SystemChains
      [] relay = "paseo" -> SystemChains \o <<SystemChain("collectives", 1001),
                                              SystemChain("passet-hub", 1111), Pop(4001)>>
      [] relay = "polkadot" -> SystemChains \o <<SystemChain("collectives", 1001), Pop(3395)>>
      [] relay = "westend" -> Append(SystemChains, SystemChain("collectives", 1001))
      [] OTHER -> <<>>

\* Runtime::from_chain, of the name of a chain that ends with that of its relay chain.
RelayRuntimes == {"kusama", "paseo", "polkadot", "westend"}

\* chain_spec_generator: Westend's runtimes come with the binary.
Generator(relay) == IF relay \in RelayRuntimes \ {"westend"} THEN relay ELSE NULL

(***************************************************************************)
(* The command line                                                        *)
(***************************************************************************)

Types(chains) == {chains[i].type : i \in DOMAIN chains}

\* SupportedChains: a chain of the registry, with the id (0 if there is none) and the port
\* that are given.
SupportedChain(relay, spec) == spec.name \in Types(Registered(relay))

ParseRef(relay, spec) ==
    LET chain == Registered(relay)[SelectInSeq(Registered(relay), LAMBDA c : c.type = spec.name)]
    IN  [chain EXCEPT !.id = IF spec.id = 0 THEN @ ELSE spec.id, !.port = spec.port]

Required(chains) == UNION {chains[i].requires : i \in DOMAIN chains}

\* Deliberate fault: chains are launched without those they need.
WithoutDependencies(relay, chains) == chains

\* BuildCommand::execute adds the registered chains that those given need.
WithDependencies(relay, chains) ==
    chains \o SelectSeq(Registered(relay), LAMBDA c : c.type \in Required(chains) \ Types(chains))

(***************************************************************************)
(* NetworkConfiguration                                                    *)
(***************************************************************************)
Node(command, port) == [command |-> command, port |-> port]

VALIDATORS == 6

\* Two validators, or one for each chain as long as there are names.
Validators(n) == IF n < 2 THEN 2 ELSE IF n > VALIDATORS THEN VALIDATORS ELSE n

\* The accounts that chains want endowed on a chain of this type.
Overrides(chains, type) == {chains[i].id : i \in {j \in DOMAIN chains : type \in chains[j].requires}}

BuildConfiguration(relay, port, chains) ==
    [relay |-> relay, default |-> NULL,
     nodes |-> [v \in 1..Validators(Len(chains)) |-> Node(NULL, IF v = 1 THEN port ELSE NULL)],
     paras |-> [i \in DOMAIN chains |->
                  [id |-> chains[i].id, type |-> chains[i].type, default |-> chains[i].binary,
                   evm |-> FALSE, overrides |-> Overrides(chains, chains[i].type),
                   collators |-> <<Node(NULL, chains[i].port)>>]],
     decorated |-> {},
     channels |-> {<<chains[i].id, chains[j].id>> : i, j \in DOMAIN chains}
                    \ {<<chains[i].id, chains[i].id>> : i \in DOMAIN chains}]

\* try_from: the file is read twice, once by zombienet and once for the chains with a
\* decorator, which zombienet does not know.
Load(file) ==
    [file EXCEPT !.decorated = {file.paras[i].id : i \in {j \in DOMAIN file.paras : file.paras[j].decorator}}]

(***************************************************************************)
(* Zombienet::new                                                          *)
(***************************************************************************)
RelayBinary == "polkadot"
Ends(command) == command \in {RelayBinary, "./polkadot"}      \* ... with the binary's name

\* The command in force: the default one, or the first that a node names.
CommandOf(default, nodes, otherwise) ==
    LET named == SelectSeq(nodes, LAMBDA n : n.command # NULL)
    IN  IF default # NULL THEN default ELSE IF named # <<>> THEN Head(named).command ELSE otherwise

\* init_relay_chain: the relay chain's command is that of a known binary, and no node names
\* another one (the first, if it decides, is not compared).
RelaySupported(c) ==
    LET first == SelectInSeq(c.nodes, LAMBDA n : n.command # NULL) IN
    /\ Ends(CommandOf(c.default, c.nodes, RelayBinary))
    /\ c.relay \in RelayRuntimes
    /\ \A v \in DOMAIN c.nodes : \/ c.nodes[v].command \in {NULL, RelayBinary}
                                 \/ c.default = NULL /\ v = first

\* resolve_manifest climbs from the binary to the first directory whose manifest is the
\* package's, or that of a workspace which has it as a member.
ResolveManifest(dirs) ==
    LET found == SelectInSeq(dirs, LAMBDA m : m \in {"package", "member", "broken"})
    IN  IF found = 0 THEN "none" ELSE IF dirs[found] = "broken" THEN "error" ELSE "found"

BinaryFrom(from, name) == [from |-> from, name |-> name, generator |-> NULL, manifest |-> "none"]

FromLocal(name, dirs) == [BinaryFrom("local", name) EXCEPT !.manifest = ResolveManifest(dirs)]

FromRepository(r) == BinaryFrom(IF r.github THEN "github" ELSE "git", r.package)

FromOmniNode == BinaryFrom("release", "polkadot-omni-node")

\* chains::system: the generator of the chain's own runtime.
FromSystem(relay) == [BinaryFrom("release", SystemBinary) EXCEPT !.generator = Generator(relay)]

Known(relay, command) == \E i \in DOMAIN Registered(relay) : Registered(relay)[i].binary = command

IsPath(command) == command \in {"./node", "./missing"}
Template(command) == command = "parachain-template-node"

\* The binary for the command of a chain, or NULL when there is none.
FindBinary(relay, command, there, dirs) ==
    IF command = SystemBinary THEN FromSystem(relay)
    ELSE IF Known(relay, command) THEN BinaryFrom("release", command)
    ELSE IF \E r \in Repositories : r.package = command
    THEN FromRepository(CHOOSE r \in Repositories : r.package = command)
    ELSE IF IsPath(command) \/ (Template(command) /\ there) THEN FromLocal(command, dirs)
    ELSE IF command = "polkadot-omni-node" THEN FromOmniNode
    ELSE BinaryFrom("nowhere", command)

(***************************************************************************)
(* Zombienet::spawn                                                        *)
(***************************************************************************)

\* Deliberate fault: the port of a node is not taken over.
NodeWithoutPort(source, binary) == Node(binary, NULL)

BuildNodeFromSource(source, binary) == Node(binary, source.port)

\* The passet-hub specification is written to a file of its own.
SpecGenerator(para, binary) == IF para.type = "passet-hub" THEN NULL ELSE binary.generator

\* Every node of a chain gets the chain's binary, whatever it named.
AdaptChain(c, para, binary) ==
    [id |-> para.id, evm |-> para.id \in c.decorated \/ para.evm, overrides |-> para.overrides,
     generator |-> SpecGenerator(para, binary),
     collators |-> [n \in DOMAIN para.collators |-> BuildNodeFromSource(para.collators[n], binary.name)]]

AdaptNetwork(c, binaries) ==
    [nodes |-> [v \in DOMAIN c.nodes |-> BuildNodeFromSource(c.nodes[v], RelayBinary)],
     generator |-> Generator(c.relay),
     paras |-> [i \in DOMAIN c.paras |-> AdaptChain(c, c.paras[i], binaries[c.paras[i].id])],
     channels |-> c.channels]

-----------------------------------------------------------------------------
(* The command. *)

NoUp == [pc |-> "start", chains |-> <<>>, relay |-> NULL, config |-> NULL, binaries |-> <<>>,
         there |-> {}, network |-> NULL]

ConfigInit == launch \in {[NoUp EXCEPT !.relay = r, !.there = t] :
                   r \in Relays, t \in SUBSET {"./node", "parachain-template-node"}}

UpFails == launch' = [NoUp EXCEPT !.pc = "failed"]

\* The arguments are parsed one after another; one that is no chain ends the command.
GiveChain(spec) ==
    /\ launch.pc = "start" /\ Len(launch.chains) < MaxChains
    /\ IF SupportedChain(launch.relay, spec) THEN launch' = [launch EXCEPT !.chains = Append(@, ParseRef(launch.relay, spec))]
       ELSE UpFails

UpRelay(port) ==
    /\ launch.pc = "start"
    /\ LET chains == WithDependencies(launch.relay, launch.chains) IN
       launch' = [launch EXCEPT !.pc = "relay", !.chains = chains, !.config = BuildConfiguration(launch.relay, port, chains)]

\* A file may be missing, or be none that zombienet accepts.
UpConfigFile(file) ==
    /\ launch.pc = "start" /\ launch.chains = <<>>
    /\ launch' = [launch EXCEPT !.pc = "relay", !.config = Load(file), !.relay = file.relay] \/ UpFails

InitRelayChain ==
    /\ launch.pc = "relay"
    /\ IF RelaySupported(launch.config) THEN launch' = [launch EXCEPT !.pc = "parachains"] ELSE UpFails

\* The chains of the configuration in turn; the binaries are kept by the id of the chain.
FindParachain(i, dirs) ==
    LET para == launch.config.paras[i]
        command == CommandOf(para.default, para.collators, SystemBinary)
        binary == FindBinary(launch.config.relay, command, command \in launch.there, dirs)
    IN  IF binary.from = "nowhere" \/ binary.manifest = "error" THEN UpFails
        ELSE launch' = [launch EXCEPT !.binaries = Append(@, [id |-> para.id, binary |-> binary])]

Parachains(dirs) ==
    /\ launch.pc = "parachains"
    /\ IF Len(launch.binaries) < Len(launch.config.paras)
       THEN FindParachain(Len(launch.binaries) + 1, dirs)
       ELSE launch' = [launch EXCEPT !.pc = "source"]

\* A local binary that is missing is built if its package was found.
SourceLocal ==
    LET locals == {launch.binaries[i].binary : i \in DOMAIN launch.binaries}
        missing == {b \in locals : b.from = "local" /\ b.name \notin launch.there}
    IN  /\ launch.pc = "source"
        /\ \/ /\ \A b \in missing : b.manifest = "found"
              /\ launch' = [launch EXCEPT !.pc = "adapt", !.there = @ \union {b.name : b \in missing}]
           \/ missing # {} /\ UpFails

\* The last chain with an id decides the binary of all that have it.
BinaryOf(id) ==
    launch.binaries[SelectLastInSeq(launch.binaries, LAMBDA b : b.id = id)].binary

Spawn ==
    /\ launch.pc = "adapt"
    /\ launch' = [launch EXCEPT !.pc = "launched",
                        !.network = AdaptNetwork(launch.config,
                            [id \in {launch.binaries[i].id : i \in DOMAIN launch.binaries} |-> BinaryOf(id)])]

Manifests == {<<"none">>, <<"other", "member">>, <<"none", "package">>, <<"broken", "package">>}

ConfigNext ==
    \/ \E spec \in Specifiers : GiveChain(spec)
    \/ \E port \in {NULL, "9944"} : UpRelay(port)
    \/ \E file \in Files : UpConfigFile(file)
    \/ InitRelayChain
    \/ \E dirs \in Manifests : Parachains(dirs)
    \/ SourceLocal
    \/ Spawn

(***************************************************************************)
(* Properties                                                              *)
(***************************************************************************)
Ids(paras) == [i \in DOMAIN paras |-> paras[i].id]

\* The network that is launched is the one asked for: its nodes have the ports of the
\* configuration and run a binary that exists and was found for the command of their own
\* chain; genesis overrides, decorators and channels are kept.  (Two chains of one id share
\* what was found for the second.)
LaunchedAsConfigured ==
    launch.pc = "launched" =>
        LET c == launch.config
            ports(nodes) == [n \in DOMAIN nodes |-> nodes[n].port]
        IN  /\ ports(launch.network.nodes) = ports(c.nodes)
            /\ launch.network.channels = c.channels
            /\ Ids(launch.network.paras) = Ids(c.paras)
            /\ IsInjective(Ids(c.paras)) =>
                  \A i \in DOMAIN c.paras :
                     LET para == c.paras[i]
                         new == launch.network.paras[i]
                         command == CommandOf(para.default, para.collators, SystemBinary)
                     IN  /\ ports(new.collators) = ports(para.collators)
                         /\ \A n \in DOMAIN new.collators : new.collators[n].command = command
                         /\ IsPath(command) \/ Template(command) => command \in launch.there
                         /\ new.overrides = para.overrides
                         /\ new.generator # NULL => new.generator = c.relay /\ command = SystemBinary
                         /\ new.evm <=> para.evm \/ para.id \in c.decorated

\* Every chain finds the chains it needs in its network, with an account for the very id it
\* was given, and can send to them and receive from them.
RequirementsMet ==
    launch.pc = "launched" =>
        \A i \in DOMAIN launch.chains : \A type \in launch.chains[i].requires :
            \E j \in DOMAIN launch.chains :
                /\ launch.chains[j].type = type
                /\ launch.chains[i].id \in launch.network.paras[j].overrides
                /\ launch.chains[i].id # launch.chains[j].id =>
                      {<<launch.chains[i].id, launch.chains[j].id>>, <<launch.chains[j].id, launch.chains[i].id>>}
                          \subseteq launch.network.channels

=============================================================================
