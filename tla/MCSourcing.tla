------------------------------ MODULE MCSourcing ------------------------------
(* Instances of Sourcing: a chain built from source beside the relay chain; *)
(* and one whose system chain pop adds.                                     *)
EXTENDS Sourcing, TLC

CONSTANTS p1, p2

Symmetry == Permutations({p1, p2})

MCConfigs == {{"custom"}}

MCRegistry == {"system", "custom"}

\* The relay chain and its worker come in one archive.
BuiltContents ==
    ("polkadot" :> <<"polkadot", "worker">>) @@ ("generator" :> <<"generator">>)
    @@ ("custom" :> <<"custom">>)

NoRequires == [c \in MCRegistry |-> {}]

\* A system chain runs the parachain binary.
SystemContents == BuiltContents @@ ("parachain" :> <<"parachain">>)

SystemRequired == ("system" :> {}) @@ ("custom" :> {"system"})

=============================================================================
