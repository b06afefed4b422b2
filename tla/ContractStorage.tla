--------------------------- MODULE ContractStorage ---------------------------
(***************************************************************************)
(* The storage of a contract as `pop call contract` shows it               *)
(* (crates/pop-contracts/src/utils/metadata.rs): the fields found in the   *)
(* storage layout of the artifact, and the reading of one of them from a   *)
(* chain that goes on.  A mapping is read by paging through all keys of    *)
(* the contract and then fetching the values, each request at whatever     *)
(* block is the best one.                                                  *)
(*                                                                         *)
(* A layout is a tree of records.  The parts of a struct, of a root, a     *)
(* hash and an array (its element) are layouts, those of an enum the       *)
(* fields of its variants.  The name of a field is the path to it.         *)
(***************************************************************************)
EXTENDS Session

LOCAL INSTANCE SequencesExt
LOCAL INSTANCE Functions

CONSTANTS
    Layouts,     \* storage layouts
    Unknown,     \* types that the registry does not resolve
    Cells,       \* the keys of the contract's trie, in order: root key and mapping key
    CellValues,      \* what a cell may hold
    PAGE,        \* keys per request
    Generics,    \* the parameters of the mapping's type are known
    MaxChanges   \* bound: changes of the trie during a read

Mapping == "mapping"     \* MAPPING_TYPE_PATH

VARIABLES
    layout,      \* the layout of the contract
    trie,        \* the value of each cell, NULL if there is none
    read,        \* the read
    kept,        \* history: the cells that have not changed since the read began
    changes

storageVars == <<layout, trie, read, kept, changes>>

(***************************************************************************)
(* get_contract_storage_info                                               *)
(***************************************************************************)
Item(name, key, ty) == [name |-> name, storage_key |-> key, ty |-> ty]

RECURSIVE ExtractField(_, _, _, _)
RECURSIVE ExtractStorageFieldsWithKey(_, _)
RECURSIVE ExtractStorageFields(_)

EachPart(parts, Of(_, _)) == FlattenSeq([i \in DOMAIN parts |-> Of(i, parts[i])])

\* Deliberate fault: a nested root keeps the key of the one above it.
ExtractNestedInPlace(name, l, key) ==
    IF l.ty = Mapping THEN <<Item(name, key, l.ty)>> ELSE ExtractField(name, l.parts[1], key, l.ty)

\* A mapping is one item, whatever is below it; any other root changes the key.
ExtractNested(name, l, key) ==
    IF l.ty = Mapping THEN <<Item(name, l.key, l.ty)>> ELSE ExtractField(name, l.parts[1], l.key, l.ty)

\* The items of a field below the root with this key and type.
ExtractField(name, l, key, rootTy) ==
    CASE l.kind = "leaf" -> IF l.ty \in Unknown THEN <<>> ELSE <<Item(name, key, l.ty)>>
      [] l.kind = "struct" ->
            LET Field(i, part) == ExtractField(Append(name, i), part, key, rootTy)
            IN  EachPart(l.parts, Field)
      [] l.kind = "array" ->
            FlattenSeq([i \in 1..l.len |-> ExtractField(Append(name, i), l.parts[1], key, rootTy)])
      [] l.kind = "enum" ->
            LET Variant(v, fields) ==
                    LET Field(i, part) == ExtractField(name \o <<v, i>>, part, key, rootTy)
                    IN  EachPart(fields, Field)
            IN  EachPart(l.parts, Variant)
      [] l.kind = "hash" ->
            IF rootTy = Mapping THEN <<Item(name, key, rootTy)>>
            ELSE ExtractField(name, l.parts[1], key, rootTy)
      [] l.kind = "root" -> ExtractNested(name, l, key)

\* Fields have names in a struct only.
ExtractStorageFieldsWithKey(l, root) ==
    CASE l.kind = "root" -> ExtractStorageFieldsWithKey(l.parts[1], l)
      [] l.kind = "struct" ->
            LET Field(i, part) == ExtractField(<<i>>, part, root.key, root.ty)
            IN  EachPart(l.parts, Field)
      [] OTHER -> <<>>

ExtractStorageFields(l) ==
    CASE l.kind = "root" -> ExtractStorageFieldsWithKey(l.parts[1], l)
      [] l.kind = "struct" ->
            LET Field(i, part) == ExtractStorageFields(part) IN EachPart(l.parts, Field)
      [] OTHER -> <<>>

(***************************************************************************)
(* fetch_contract_storage_with_param                                       *)
(***************************************************************************)
NoRead == [pc |-> "idle", item |-> NULL, filter |-> NULL, start |-> 0, keys |-> <<>>,
           result |-> <<>>]

StorageInit ==
    /\ layout \in Layouts
    /\ trie \in [DOMAIN Cells -> CellValues \union {NULL}]
    /\ read = NoRead
    /\ kept = {}
    /\ changes = 0

ReadFails == read' = [NoRead EXCEPT !.pc = "failed"]

EndRead(pc, result) == read' = [read EXCEPT !.pc = pc, !.keys = <<>>, !.start = 0, !.result = result]

Answer(result) == EndRead("done", result)

\* configure_storage: the user may give the key of a mapping.  The contract's account is
\* looked up for its trie.
FetchContractInfo(item, filter) ==
    /\ read.pc = "idle"
    /\ filter # NULL => item.ty = Mapping
    /\ \/ read' = [NoRead EXCEPT !.pc = IF item.ty = Mapping THEN "page" ELSE "value",
                                 !.item = item, !.filter = filter]
       \/ ReadFails
    /\ kept' = DOMAIN Cells
    /\ UNCHANGED <<layout, trie, changes>>

\* The key of a field that is no mapping ends with the root key.
FetchContractStorage ==
    LET cell == {c \in DOMAIN Cells : Cells[c] = [root |-> read.item.storage_key, key |-> NULL]} IN
    /\ read.pc = "value"
    /\ \/ Answer([c \in {c \in cell : trie[c] # NULL} |-> trie[c]])
       \/ ReadFails
    /\ UNCHANGED <<layout, trie, kept, changes>>

(***************************************************************************)
(* decode_mapping                                                          *)
(***************************************************************************)

\* The keys after start that there are, at most PAGE of them.
KeysPaged(start) ==
    LET there == SetToSortSeq({c \in DOMAIN Cells : c > start /\ trie[c] # NULL}, <)
    IN  SubSeq(there, 1, IF Len(there) < PAGE THEN Len(there) ELSE PAGE)

\* The keys of the mapping: long enough to hold a root key, and with that of the field.
OfMapping(keys) ==
    LET Belongs(c) == Cells[c].root = read.item.storage_key IN SelectSeq(keys, Belongs)

\* Deliberate fault: the first page is taken for all keys.
FetchFirstPage ==
    LET keys == OfMapping(KeysPaged(read.start)) IN
    /\ read.pc = "page"
    /\ \/ keys = <<>> /\ Answer(<<>>)
       \/ keys # <<>> /\ read' = [read EXCEPT !.pc = "entries", !.keys = keys]
       \/ ReadFails
    /\ UNCHANGED <<layout, trie, kept, changes>>

\* A page that is not full is the last one.
FetchStorageKeysPaged ==
    LET page == KeysPaged(read.start)
        keys == read.keys \o page
    IN  /\ read.pc = "page"
        /\ \/ /\ Len(page) = PAGE
              /\ read' = [read EXCEPT !.keys = keys, !.start = Last(page)]
           \/ /\ Len(page) < PAGE
              /\ IF OfMapping(keys) = <<>> THEN Answer(<<>>)
                 ELSE read' = [read EXCEPT !.pc = "entries", !.keys = OfMapping(keys), !.start = 0]
           \/ ReadFails
        /\ UNCHANGED <<layout, trie, kept, changes>>

\* decode_mapping_impl: cells that have gone are left out.  Without a key all entries are
\* shown; with one its value alone, and cells after it are not looked at.
DecodeMapping(keys) ==
    LET there == SelectSeq(keys, LAMBDA c : trie[c] # NULL)
        found == SelectInSeq(there, LAMBDA c : Cells[c].key = read.filter)
        decoded == IF read.filter # NULL /\ found > 0 THEN SubSeq(there, 1, found) ELSE there
    IN  IF ~Generics THEN EndRead("counted", <<>>)      \* the number of entries only
        ELSE IF \E i \in DOMAIN decoded : Cells[decoded[i]].key = NULL
        THEN ReadFails                           \* no mapping key to decode
        ELSE Answer(IF read.filter = NULL THEN [c \in ToSet(there) |-> trie[c]]
                    ELSE IF found = 0 THEN <<>>
                    ELSE [c \in {there[found]} |-> trie[c]])

FetchStorageEntries ==
    /\ read.pc = "entries"
    /\ DecodeMapping(read.keys) \/ ReadFails
    /\ UNCHANGED <<layout, trie, kept, changes>>

\* The contract is called by others.
Change(c, value) ==
    /\ read.pc \in {"value", "page", "entries"}
    /\ changes < MaxChanges
    /\ trie[c] # value
    /\ trie' = [trie EXCEPT ![c] = value]
    /\ kept' = kept \ {c}
    /\ changes' = changes + 1
    /\ UNCHANGED <<layout, read>>

StorageNext ==
    \/ \E i \in DOMAIN ExtractStorageFields(layout),
          filter \in {Cells[c].key : c \in DOMAIN Cells} \union {NULL} :
          FetchContractInfo(ExtractStorageFields(layout)[i], filter)
    \/ FetchContractStorage
    \/ FetchStorageKeysPaged
    \/ FetchStorageEntries
    \/ \E c \in DOMAIN Cells, value \in CellValues \union {NULL} : Change(c, value)

(***************************************************************************)
(* Properties                                                              *)
(***************************************************************************)
RECURSIVE NodeAt(_, _)
RECURSIVE Positions(_)

PartAt(l, i) == IF l.kind = "array" THEN l.parts[1]
                ELSE IF l.kind = "enum" THEN l.parts[i[1]][i[2]] ELSE l.parts[i]

Steps(l) == CASE l.kind = "leaf" -> {}
              [] l.kind = "array" -> 1..l.len
              [] l.kind = "enum" -> UNION {{<<v, i>> : i \in DOMAIN l.parts[v]} : v \in DOMAIN l.parts}
              [] OTHER -> DOMAIN l.parts

NodeAt(l, path) == IF path = <<>> THEN l ELSE NodeAt(PartAt(l, Head(path)), Tail(path))

Positions(l) == {<<>>} \union UNION {{<<i>> \o p : p \in Positions(PartAt(l, i))} : i \in Steps(l)}

\* The layouts on the way to a position, itself included.
Way(l, path) == [n \in 1..(Len(path) + 1) |-> NodeAt(l, SubSeq(path, 1, n - 1))]

\* The contract's own struct on the way: the first one below a root.
OwnStruct(way) == SelectInSubSeq(way, 2, Len(way), LAMBDA l : l.kind = "struct")

\* What a contract stores lies below the fields of its struct: a leaf, or a mapping, of
\* which nothing inside is listed.
Stored(l, path) ==
    LET way == Way(l, path)
        here == way[Len(way)]
        own == OwnStruct(way)
    IN  /\ own > 0 /\ own < Len(way)
        /\ \/ here.kind = "leaf" /\ here.ty \notin Unknown
           \/ here.kind = "root" /\ here.ty = Mapping
        /\ \A n \in own..(Len(way) - 1) : way[n].kind = "root" => way[n].ty # Mapping

KeyOf(l, path) ==
    LET way == Way(l, path) IN way[SelectLastInSeq(way, LAMBDA n : n.kind = "root")].key

\* Every value and every mapping of a contract's layout is listed, once, with the key of the
\* innermost root that holds it: get_contract_storage_info against a definition by positions
\* (of layouts whose outermost layout is a root).
FieldsUnderTheirRoots ==
    layout # NULL =>
    LET items == ExtractStorageFields(layout)
        stored == {p \in Positions(layout) : Stored(layout, p)}
        here(p) == NodeAt(layout, p)
    IN  /\ IsInjective([i \in DOMAIN items |-> items[i].name])
        /\ Len(items) = Cardinality(stored)
        /\ {<<items[i].storage_key, items[i].ty>> : i \in DOMAIN items}
               = {<<KeyOf(layout, p), here(p).ty>> : p \in stored}

\* A mapping that was read while the contract was called lists every entry that stayed as it
\* was, and nothing of another field; asked for one key, it gives that key's value.
MappingReadComplete ==
    read.pc = "done" /\ read.item.ty = Mapping =>
        /\ \A c \in kept : /\ Cells[c].root = read.item.storage_key
                           /\ trie[c] # NULL
                           /\ read.filter \in {NULL, Cells[c].key}
                           => c \in DOMAIN read.result /\ read.result[c] = trie[c]
        /\ \A c \in DOMAIN read.result : /\ Cells[c].root = read.item.storage_key
                                         /\ read.filter \in {NULL, Cells[c].key}

=============================================================================
