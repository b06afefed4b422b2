------------------------------- MODULE Params -------------------------------
(***************************************************************************)
(* The parameters of a dispatchable function: type_to_param                *)
(* (crates/pop-chains/src/call/metadata/params.rs) turns a type of the     *)
(* chain's metadata into a tree of parameters, and the prompts of          *)
(* crates/pop-cli/src/commands/call/chain.rs turn the tree and the user's  *)
(* answers into a value.                                                   *)
(*                                                                         *)
(* A type is [kind, subs], its parts being numbers of the metadata's       *)
(* registry; the variants of a "variant" are of kind "fields".  A          *)
(* parameter names its sub-parameters by the types they were made of.  A   *)
(* value is the tree of what scale_value reads; whatever the user types    *)
(* for a leaf is an "atom".                                                *)
(***************************************************************************)
EXTENDS Integers, Sequences, FiniteSets

CONSTANT TypeRegistry   \* the types of the metadata, each after those it is made of

Type(kind, subs) == [kind |-> kind, subs |-> subs]

TypeIds == DOMAIN TypeRegistry

Kinds == {"primitive", "sequence", "composite", "tuple", "variant", "fields", "option", "call"}

\* Types that contain themselves are left out: type_to_param does not return on one.
ASSUME RegistryAssumption ==
    /\ TypeRegistry \in Seq([kind : Kinds, subs : Seq(TypeIds)])
    /\ \A i \in TypeIds :
          LET t == TypeRegistry[i] IN
          /\ \A k \in DOMAIN t.subs : t.subs[k] < i
          /\ t.kind = "option" => Len(t.subs) = 1
          /\ t.kind = "variant" => t.subs # <<>>
          /\ \A k \in DOMAIN t.subs : t.kind = "variant" <=> TypeRegistry[t.subs[k]].kind = "fields"

\* The ways to take one element of each set of a sequence of sets.
OneOfEach(sets) == {s \in [DOMAIN sets -> UNION {sets[i] : i \in DOMAIN sets}] :
                     \A i \in DOMAIN sets : s[i] \in sets[i]}

-----------------------------------------------------------------------------
(* type_to_param *)

\* Arrays, compact numbers and sequences are entered as a whole.
Subs(t) == IF t.kind \in {"primitive", "sequence"} THEN <<>> ELSE t.subs

\* A type and all that type_to_param is called for on its way.
Within[i \in TypeIds] ==
    {i} \cup UNION {Within[Subs(TypeRegistry[i])[k]] : k \in DOMAIN Subs(TypeRegistry[i])}

\* A RuntimeCall that it meets makes the function unsupported.
TypeIsSupported(i) == \A j \in Within[i] : TypeRegistry[j].kind # "call"

Param(subs, kind, optional) == [subs |-> subs, kind |-> kind, optional |-> optional]

(***************************************************************************)
(* Deliberate fault: a tuple is not marked as one.                         *)
(***************************************************************************)
FlagIgnoringTuples(t) == IF t.kind \in {"variant", "sequence"} THEN t.kind ELSE "plain"

\* is_tuple, is_variant and is_sequence; a composite has no flag of its own.
Flag(t) == IF t.kind \in {"tuple", "variant", "sequence"} THEN t.kind ELSE "plain"

\* An option takes over the type name and the sub-parameters of its argument, and no flag.
TypeToParam[i \in TypeIds] ==
    LET t == TypeRegistry[i] IN
    IF t.kind = "option" THEN Param(TypeToParam[t.subs[1]].subs, "plain", TRUE)
                         ELSE Param(Subs(t), Flag(t), FALSE)

-----------------------------------------------------------------------------
(* prompt_for_param: the values that its prompts can make. *)

\* n tells the variants of a type apart.
Value(is, n, of) == [is |-> is, n |-> n, of |-> of]

Atom == Value("atom", 0, <<>>)

Tuples(subs, values) == OneOfEach([k \in DOMAIN subs |-> values[subs[k]]])

\* get_param_value chooses the prompt by the flags, in this order.
GetParamValue(p, prompted) ==
    CASE p.kind = "sequence" \/ p.subs = <<>> -> {Atom}
      [] p.kind = "variant" /\ p.subs # <<>> ->
            UNION {{Value("variant", k, vs) : vs \in Tuples(TypeToParam[p.subs[k]].subs, prompted)} : k \in DOMAIN p.subs}
      [] p.kind = "tuple" /\ p.subs # <<>> -> {Value("tuple", 0, vs) : vs \in Tuples(p.subs, prompted)}
      [] p.kind = "plain" /\ p.subs # <<>> -> {Value("fields", 0, vs) : vs \in Tuples(p.subs, prompted)}

Prompted[i \in TypeIds] ==
    IF TypeToParam[i].optional
    THEN {Value("none", 0, <<>>)} \cup {Value("some", 0, <<v>>) : v \in GetParamValue(TypeToParam[i], Prompted)}
    ELSE GetParamValue(TypeToParam[i], Prompted)

-----------------------------------------------------------------------------
(* The values of a type, as its encoder takes them: the reference.  One    *)
(* that has no parts, the unit among them, is read from what was typed.    *)

ValuesOf(t, values) ==
    LET all == Tuples(t.subs, values) IN
    CASE t.kind \in {"primitive", "sequence"} \/ t.subs = <<>> -> {Atom}
      [] t.kind = "option" -> {Value("none", 0, <<>>)} \cup {Value("some", 0, vs) : vs \in all}
      [] t.kind = "tuple" /\ t.subs # <<>> -> {Value("tuple", 0, vs) : vs \in all}
      [] t.kind = "composite" /\ t.subs # <<>> -> {Value("fields", 0, vs) : vs \in all}
      [] t.kind = "variant" ->
            UNION {{Value("variant", k, vs) : vs \in Tuples(TypeRegistry[t.subs[k]].subs, values)} : k \in DOMAIN t.subs}
      [] OTHER -> {}

Values[i \in TypeIds] == ValuesOf(TypeRegistry[i], Values)

\* No option holds a variant or a tuple, whose flag it would lose, or another option, which
\* would be asked for once only.
OptionsArePlain(i) ==
    \A j \in Within[i] :
        TypeRegistry[j].kind = "option" =>
            TypeRegistry[TypeRegistry[j].subs[1]].kind \notin {"variant", "tuple", "option"}

=============================================================================
