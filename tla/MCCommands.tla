----------------------------- MODULE MCCommands -----------------------------
(* Instances of Commands. *)
EXTENDS Commands

CONSTANTS u1, k1, k2, k3

Symmetry == Permutations(Cleaners)

\* Types that prompts take apart and types that they do not, in each other
MCTypeRegistry ==
    <<Type("primitive", <<>>),
      Type("tuple", <<1, 1>>),
      Type("fields", <<1>>),
      Type("fields", <<>>),
      Type("variant", <<3, 4>>),
      Type("composite", <<5, 2>>),
      Type("option", <<1>>),
      Type("option", <<5>>),
      Type("sequence", <<1>>),
      Type("tuple", <<>>),
      Type("tuple", <<7, 9, 10>>),
      Type("option", <<7>>),
      Type("option", <<9>>),
      Type("call", <<>>),
      Type("sequence", <<14>>)>>

MCParamTypes == {2, 5, 6, 8, 11, 12, 13, 15}

MCReleaseLists == {<<>>, <<"pre">>, <<"new">>, <<"old", "new">>, <<"pre", "old", "old", "old", "new">>}

(* A parachain that shortens its slots, a relay chain, a solo chain forked *)
(* at its genesis, and a parachain with a consensus of its own.            *)
MCRuntime(consensus, para, duration) ==
    [consensus |-> consensus, parachain |-> para,
     relay |-> consensus = "Babe", duration |-> duration,
     auraApi |-> consensus = "Aura", babeConstant |-> consensus = "Babe"]

MCHeader(parent, root) ==
    [parentHash |-> parent, stateRoot |-> root, seal |-> "babe"]

MCForkProof == [slot |-> 8, head |-> 0]

MCValidation(version) ==
    LET first == MCHeader(0, MCForkProof)
    IN  [call |-> "set_validation_data", version |-> version,
         proof |-> MCForkProof, root |-> MCForkProof,
         descendants |-> <<first, MCHeader(first, 1), MCHeader(2, 2)>>]

MCChain(runtime, upgrade, slot, time, exts) ==
    [runtime |-> runtime, upgrade |-> upgrade, slot |-> slot, time |-> time,
     exts |-> exts]

MCForkedChains ==
    {MCChain(MCRuntime("Aura", TRUE, 2), MCRuntime("Aura", TRUE, 1), 4, 8,
             <<MCValidation(4), [call |-> "set_timestamp", time |-> 8]>>),
     MCChain(MCRuntime("Aura", TRUE, 1), MCRuntime("Aura", TRUE, 1), 8, 8,
             <<MCValidation(5), [call |-> "set_timestamp", time |-> 8]>>),
     MCChain(MCRuntime("Babe", FALSE, 1), MCRuntime("Babe", FALSE, 1), 8, 8, <<>>),
     MCChain(MCRuntime("Aura", FALSE, 1), MCRuntime("Aura", FALSE, 1), NULL, NULL, <<>>),
     MCChain(MCRuntime("Unknown", TRUE, 2), MCRuntime("Unknown", TRUE, 2), NULL, 8,
             <<MCValidation(5), [call |-> "set_timestamp", time |-> 8]>>)}

(* Contracts with two fields of every kind, one of them nested; a trie with *)
(* the cells of two mappings and of a value, and a key too short to have a  *)
(* root.                                                                    *)
Leaf(ty) == [kind |-> "leaf", ty |-> ty]
Struct(parts) == [kind |-> "struct", parts |-> parts]
Root(key, ty, part) == [kind |-> "root", key |-> key, ty |-> ty, parts |-> <<part>>]

Simple == {Leaf("u32"), Leaf("opaque"), Root("m", Mapping, Leaf("u32")), Root("z", "lazy", Leaf("u32"))}

Inner == {Leaf("opaque"), Root("m", Mapping, Leaf("u32"))}

Nested == {[kind |-> "array", len |-> 2, parts |-> <<a>>] : a \in Inner}
          \union {[kind |-> "enum", parts |-> <<<<a>>, <<Leaf("u32"), a>>>>] : a \in Inner}
          \union {[kind |-> "hash", parts |-> <<a>>] : a \in Inner}
          \union {Root("z", "lazy", Struct(<<a, Leaf("u32")>>)) : a \in Inner}

MCLayouts == {Root("c", "contract", Struct(<<a, Root("n", Mapping, Leaf("u32"))>>)) : a \in Simple \union Nested}

MCCells == <<[root |-> "m", key |-> "a"], [root |-> "c", key |-> NULL], [root |-> "n", key |-> "a"],
             [root |-> "m", key |-> "b"], [root |-> NULL, key |-> NULL]>>

(* Chains with and without an id and a port of their own, one of them with  *)
(* the id of another; files with every kind of command.                     *)
MCSpecifiers ==
    [name : {"asset-hub", "pop", "passet-hub"}, id : {0}, port : {NULL, "9944"}]
    \union [name : {"pop"}, id : {1000, 2000}, port : {NULL}]

Para(id, type, default, collators, decorator) ==
    [id |-> id, type |-> type, default |-> default, evm |-> FALSE, decorator |-> decorator,
     overrides |-> {}, collators |-> collators]

RelayNodes == {<<Node(NULL, "9944"), Node(NULL, NULL)>>, <<Node("./polkadot", NULL), Node("polkadot", NULL)>>,
          <<Node("polkadot", NULL), Node("other", NULL)>>}

NodeCommands == {"polkadot-parachain", "pop-node", "custom", "elsewhere", "./node", "./missing",
             "parachain-template-node", "polkadot-omni-node", "unknown"}

MCFiles ==
    {[relay |-> r, default |-> d, nodes |-> validators, decorated |-> {}, channels |-> {<<1, 2>>},
      paras |-> <<Para(1, "a", NULL, <<Node(NULL, "9944"), Node(c, NULL)>>, TRUE),
                  Para(2, "b", IF c = "pop-node" THEN NULL ELSE "pop-node", <<Node(NULL, NULL)>>, FALSE)>>] :
        r \in {"paseo", "westend", "other"}, d \in {NULL, "polkadot"}, validators \in RelayNodes, c \in NodeCommands}

MCRepositories == {[package |-> "custom", github |-> TRUE], [package |-> "elsewhere", github |-> FALSE]}

=============================================================================
