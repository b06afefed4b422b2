----------------------------- MODULE Inherents ------------------------------
(***************************************************************************)
(* What a forked chain puts into a block by itself: the slot digest of the *)
(* header (crates/pop-fork/src/builder.rs), the timestamp and, on a        *)
(* parachain, the relay chain's validation data with its storage proof     *)
(* (crates/pop-fork/src/inherent).  The runtime that judges them is        *)
(* external: its checks are the ones these providers are written to pass.  *)
(*                                                                         *)
(* Time is counted in relay slots of six seconds.  A hash is the value     *)
(* that is hashed, so two hashes are equal exactly when the values are;    *)
(* the header of an accepted block is named by its index in chain, and a   *)
(* proof is what can be read from it, which is also its root.              *)
(***************************************************************************)
EXTENDS Session

CONSTANTS ForkedChains,  \* the chains to fork: runtime, fork block, upgrade
          Txs,           \* user extrinsics that change nothing of interest
          MaxTime,       \* u64::MAX, in relay slots
          MaxClock,      \* bound: the wall clock
          MaxBlocks,     \* bound: blocks built
          MaxAbandoned   \* bound: builds that fail after they began

FallbackDuration == [para |-> 2, relay |-> 1]

(***************************************************************************)
(* A runtime: its consensus pallet, its pallets for parachains and relay   *)
(* chains, its slot duration, and where that can be read from.             *)
(***************************************************************************)
Runtime == [consensus : {"Aura", "Babe", "Unknown"}, parachain : BOOLEAN,
            relay : BOOLEAN, duration : Nat \ {0}, auraApi : BOOLEAN,
            babeConstant : BOOLEAN]

(***************************************************************************)
(* A node's own consensus needs the AuraApi of a runtime with the Aura     *)
(* pallet and the expected block time of one with Babe.                    *)
(***************************************************************************)
ASSUME ChainAssumption ==
    \A c \in ForkedChains :
        /\ {c.runtime, c.upgrade} \subseteq Runtime
        /\ \A r \in {c.runtime, c.upgrade} :
              /\ r.consensus = "Aura" => r.auraApi
              /\ r.consensus = "Babe" => ~r.auraApi /\ r.babeConstant
ASSUME InherentBounds ==
    /\ {MaxTime, MaxClock, MaxBlocks, MaxAbandoned} \subseteq Nat
    /\ NULL \notin Nat
    /\ {"set_timestamp", "set_validation_data"} \cap Txs = {}

VARIABLES chain,         \* the fork block and the blocks built on it
          builder,       \* the BlockBuilder at work, or NoBuilder
          storage,       \* the state the next block executes on
          cached,        \* Blockchain::cached_slot_duration, NULL for 0
          provider,      \* TimestampInherent::cached_slot_duration
          clock,         \* the wall clock
          abandoned,     \* history: builds that failed after they began
          refused        \* history: the inherents the runtime refused

inherentVars == <<chain, builder, storage, cached, provider, clock, abandoned, refused>>

NoBuilder == [phase |-> "none"]
HeadBlock == chain[Len(chain)]
IsParachain == chain[1].runtime.parachain
SaturatingAdd(a, b) == IF a + b > MaxTime THEN MaxTime ELSE a + b

-----------------------------------------------------------------------------
(* Slots. *)

(***************************************************************************)
(* The runtime API of the code that runs, the constant of the metadata,    *)
(* the fallback: the first that answers.                                   *)
(***************************************************************************)
SlotDurationFromRuntime(executor, metadata, fallback) ==
    CASE executor.auraApi -> executor.duration
      [] ~executor.auraApi /\ metadata.babeConstant -> metadata.duration
      [] OTHER -> fallback

CalculateNextSlot(time, duration) == SaturatingAdd(time, duration) \div duration

(***************************************************************************)
(* Timestamp::Now of the parent, or the wall clock before the first block. *)
(***************************************************************************)
CurrentTimestamp == IF HeadBlock.time = NULL THEN clock ELSE HeadBlock.time

(***************************************************************************)
(* The header is made from the parent's metadata: the digest carries a     *)
(* slot when the runtime has a consensus pallet.                           *)
(***************************************************************************)
CreateNextHeaderWithSlot ==
    LET fallback == IF HeadBlock.runtime.consensus = "Aura" THEN FallbackDuration.para
                                                       ELSE FallbackDuration.relay
        duration == IF cached # NULL THEN cached
                    ELSE SlotDurationFromRuntime(HeadBlock.code, HeadBlock.runtime, fallback)
    IN  IF HeadBlock.runtime.consensus = "Unknown" THEN NULL
        ELSE CalculateNextSlot(CurrentTimestamp, duration)

-----------------------------------------------------------------------------
(* The relay chain's data. *)

ReadFromProof(proof, root) == IF proof = root THEN proof.slot ELSE NULL

ModifyProof(proof, updates) == [proof EXCEPT !.head = updates.head,
                                             !.slot = updates.slot]

RelaySlotsPerParaBlock == 2

ReplaceSealWithMagic(header) ==
    IF header.seal = "babe" THEN [header EXCEPT !.seal = "magic"] ELSE header

(***************************************************************************)
(* The first header takes the new root and every later one the hash of the *)
(* one before it.                                                          *)
(***************************************************************************)
ProcessRelayParentDescendants(headers, root) ==
    LET processed[i \in DOMAIN headers] ==
            IF i = 1 THEN [ReplaceSealWithMagic(headers[1]) EXCEPT !.stateRoot = root]
            ELSE [ReplaceSealWithMagic(headers[i]) EXCEPT !.parentHash = processed[i - 1]]
    IN  processed

(***************************************************************************)
(* The parent block's validation data, moved on by one block: the relay    *)
(* slot advances and the proof names the parent as the parachain's head.   *)
(***************************************************************************)
ProcessInherent(ext, head) ==
    LET proof == ModifyProof(ext.proof,
                     [head |-> head,
                      slot |-> SaturatingAdd(ReadFromProof(ext.proof, ext.root),
                                             RelaySlotsPerParaBlock)])
    IN  [ext EXCEPT !.proof = proof, !.root = proof,
                    !.descendants = ProcessRelayParentDescendants(@, proof)]

(***************************************************************************)
(* Both extrinsic formats are recognised.                                  *)
(***************************************************************************)
ValidationData(exts) ==
    {i \in DOMAIN exts : exts[i].call = "set_validation_data"
                         /\ exts[i].version \in {4, 5}}

RelayHeaders(headers) ==
    /\ Len(headers) \in Nat /\ DOMAIN headers = 1..Len(headers)
    /\ \A i \in DOMAIN headers :
          /\ {"parentHash", "stateRoot", "seal"} \subseteq DOMAIN headers[i]
          /\ headers[i].seal \in {"babe", "magic"}

(***************************************************************************)
(* What the providers take for granted.  An upgrade leaves the consensus   *)
(* and the kind of chain alone, and the slots no longer: Babe's not at     *)
(* all, since its constant is read from the metadata of the block before.  *)
(* The fork block is one that its own runtime took.  A parachain's slot is *)
(* no longer than RelaySlotsPerParaBlock, by which its relay chain is      *)
(* moved on.  The time does not come near u64::MAX.                        *)
(***************************************************************************)
ASSUME UpgradeAssumption ==
    \A c \in ForkedChains :
        /\ c.upgrade.consensus = c.runtime.consensus
        /\ c.upgrade.parachain = c.runtime.parachain
        /\ c.upgrade.duration <= c.runtime.duration
        /\ c.runtime.consensus = "Babe" => c.upgrade.duration = c.runtime.duration

ASSUME ForkBlockAssumption ==
    \A c \in ForkedChains :
        /\ c.time # NULL => c.time \in Nat
        /\ DOMAIN c.exts \subseteq Nat
        /\ c.runtime.consensus # "Unknown" =>
              /\ c.time # NULL => c.slot = c.time \div c.runtime.duration
              /\ (IF c.time = NULL THEN MaxClock ELSE c.time) + (MaxBlocks + 1) * c.runtime.duration <= MaxTime
        /\ \A i \in ValidationData(c.exts) :
              LET ext == c.exts[i]
              IN  /\ ValidationData(c.exts) = {i}
                  /\ c.runtime.parachain /\ c.time # NULL
                  /\ {"proof", "root", "descendants"} \subseteq DOMAIN ext
                  /\ {"slot", "head"} \subseteq DOMAIN ext.proof
                  /\ ext.root = ext.proof /\ ext.proof.slot \in Nat
                  /\ RelayHeaders(ext.descendants)
                  /\ c.runtime.consensus # "Unknown" =>
                        /\ c.runtime.duration <= RelaySlotsPerParaBlock
                        /\ c.slot * c.runtime.duration <= ext.proof.slot

-----------------------------------------------------------------------------
(* The providers. *)

ProvideValidationData ==
    LET found == ValidationData(HeadBlock.exts)
    IN  IF ~HeadBlock.runtime.parachain \/ found = {} THEN <<>>
        ELSE <<ProcessInherent(HeadBlock.exts[CHOOSE i \in found :
                                  \A j \in found : i <= j], Len(chain))>>

ProviderDuration ==
    IF provider # NULL THEN provider
    ELSE SlotDurationFromRuntime(HeadBlock.code, HeadBlock.runtime,
             IF IsParachain THEN FallbackDuration.para ELSE FallbackDuration.relay)

ProvideTimestamp ==
    <<[call |-> "set_timestamp",
       time |-> SaturatingAdd(CurrentTimestamp, ProviderDuration)]>>

(***************************************************************************)
(* On a parachain the validation data goes before the timestamp.           *)
(***************************************************************************)
DefaultProviders ==
    IF IsParachain THEN ProvideValidationData \o ProvideTimestamp
                   ELSE ProvideTimestamp

-----------------------------------------------------------------------------
(* The runtime, external: what it refuses, and what it writes. *)

Linked(headers, root) ==
    /\ headers # <<>> => headers[1].stateRoot = root
    /\ \A i \in DOMAIN headers :
          /\ headers[i].seal = "magic"
          /\ i > 1 => headers[i].parentHash = headers[i - 1]

(***************************************************************************)
(* The proof matches its root and its descendants, and the parachain's     *)
(* slot does not begin after the relay chain's.                            *)
(***************************************************************************)
AcceptsValidationData(runtime, slot, ext) ==
    /\ ext.root = ext.proof
    /\ Linked(ext.descendants, ext.root)
    /\ slot # NULL => slot * runtime.duration <= ext.proof.slot

AcceptsTimestamp(runtime, slot, ext, before) ==
    /\ ~storage.updated
    /\ slot # NULL => slot = ext.time \div runtime.duration
    /\ runtime.parachain /\ ValidationData(HeadBlock.exts) # {}
           => \E i \in DOMAIN before : before[i].call = "set_validation_data"

Accepts(runtime, slot, ext, before) ==
    IF ext.call = "set_timestamp" THEN AcceptsTimestamp(runtime, slot, ext, before)
    ELSE AcceptsValidationData(runtime, slot, ext)

-----------------------------------------------------------------------------
(* Building. *)

(***************************************************************************)
(* The pallets of a chain that is forked at its genesis have no time yet.  *)
(***************************************************************************)
InherentsInit ==
    /\ \E c \in ForkedChains :
          /\ chain = <<[runtime |-> c.runtime, code |-> c.runtime,
                        slot |-> c.slot, time |-> c.time, exts |-> c.exts,
                        upgrade |-> c.upgrade]>>
          /\ storage = [slot |-> c.slot, time |-> c.time, updated |-> FALSE,
                        code |-> c.runtime, included |-> FALSE]
    /\ builder = NoBuilder
    /\ cached = NULL
    /\ provider = NULL
    /\ clock = 0
    /\ abandoned = 0
    /\ refused = <<>>

Tick ==
    /\ clock < MaxClock
    /\ clock' = clock + 1
    /\ UNCHANGED <<chain, builder, storage, cached, provider, abandoned, refused>>

(***************************************************************************)
(* The background warmup, finished before the first block: it fills both   *)
(* caches.                                                                 *)
(***************************************************************************)
Warmup ==
    /\ Len(chain) = 1
    /\ builder = NoBuilder
    /\ cached = NULL
    /\ LET duration == SlotDurationFromRuntime(HeadBlock.code, HeadBlock.runtime,
                           IF IsParachain THEN FallbackDuration.para ELSE FallbackDuration.relay)
       IN  cached' = duration /\ provider' = duration
    /\ UNCHANGED <<chain, builder, storage, clock, abandoned, refused>>

BeginBuild ==
    /\ builder = NoBuilder
    /\ Len(chain) <= MaxBlocks
    /\ abandoned <= MaxAbandoned
    /\ builder' = [phase |-> "created", slot |-> CreateNextHeaderWithSlot,
                   exts |-> <<>>]
    /\ UNCHANGED <<chain, storage, cached, provider, clock, abandoned, refused>>

(***************************************************************************)
(* A build that fails is dropped; what it wrote to the shared storage is   *)
(* still there for the next one.                                           *)
(***************************************************************************)
Abandon ==
    /\ builder' = NoBuilder
    /\ abandoned' = abandoned + 1

(***************************************************************************)
(* Core_initialize_block with the header; Aura and Babe refuse a slot that *)
(* does not increase.                                                      *)
(***************************************************************************)
Initialize ==
    /\ builder.phase = "created"
    /\ IF builder.slot = NULL \/ storage.slot = NULL \/ storage.slot < builder.slot
       THEN /\ builder' = [builder EXCEPT !.phase = "initialized"]
            /\ storage' = [storage EXCEPT !.slot = builder.slot]
            /\ UNCHANGED <<abandoned, refused>>
       ELSE /\ Abandon
            /\ refused' = Append(refused, [block |-> Len(chain) + 1,
                                           call |-> "initialize_block"])
            /\ UNCHANGED storage
    /\ UNCHANGED <<chain, cached, provider, clock>>

(***************************************************************************)
(* On a relay chain the block counts as having had the parachains'         *)
(* inherent.                                                               *)
(***************************************************************************)
MockRelayChainInherent == HeadBlock.runtime.relay

(***************************************************************************)
(* All providers answer before any inherent is applied; the first one that *)
(* is refused fails the build, and the ones before it have taken effect.   *)
(***************************************************************************)
ApplyInherents ==
    /\ builder.phase = "initialized"
    /\ LET inherents == DefaultProviders
           runtime == storage.code
           Good(i) == Accepts(runtime, builder.slot, inherents[i],
                              SubSeq(inherents, 1, i - 1))
           bad == {i \in DOMAIN inherents : ~Good(i)}
           applied == IF bad = {} THEN inherents
                      ELSE SubSeq(inherents, 1,
                               (CHOOSE i \in bad : \A j \in bad : i <= j) - 1)
           times == {i \in DOMAIN applied : applied[i].call = "set_timestamp"}
       IN  /\ storage' = [storage EXCEPT
                 !.time = IF times = {} THEN @
                          ELSE applied[CHOOSE i \in times : TRUE].time,
                 !.updated = @ \/ times # {},
                 !.included = bad = {} /\ MockRelayChainInherent]
           /\ IF bad = {}
              THEN /\ builder' = [builder EXCEPT !.phase = "inherents_applied",
                                                 !.exts = @ \o inherents]
                   /\ UNCHANGED <<abandoned, refused>>
              ELSE /\ Abandon
                   /\ refused' = Append(refused,
                         [block |-> Len(chain) + 1,
                          call |-> inherents[Len(applied) + 1].call])
    /\ provider' = ProviderDuration
    /\ UNCHANGED <<chain, cached, clock>>

(***************************************************************************)
(* A provider cannot read the parachain's identity, the parent's data or   *)
(* the slot of its proof: nothing has been applied yet.                    *)
(***************************************************************************)
ProviderFails ==
    /\ builder.phase = "initialized"
    /\ HeadBlock.runtime.parachain
    /\ abandoned < MaxAbandoned
    /\ Abandon
    /\ UNCHANGED <<chain, storage, cached, provider, clock, refused>>

(***************************************************************************)
(* A user extrinsic; one of them may replace the runtime's code.           *)
(***************************************************************************)
ApplyExtrinsic(tx) ==
    /\ builder.phase = "inherents_applied"
    /\ \A i \in DOMAIN builder.exts : builder.exts[i].call # tx
    /\ builder' = [builder EXCEPT !.exts = Append(@, [call |-> tx])]
    /\ storage' = [storage EXCEPT
           !.code = IF tx = "set_code" THEN chain[1].upgrade ELSE @]
    /\ UNCHANGED <<chain, cached, provider, clock, abandoned, refused>>

(***************************************************************************)
(* The executor fails on an extrinsic or on finalize_block.                *)
(***************************************************************************)
ExecutionFails ==
    /\ builder # NoBuilder
    /\ abandoned < MaxAbandoned
    /\ Abandon
    /\ UNCHANGED <<chain, storage, cached, provider, clock, refused>>

(***************************************************************************)
(* Deliberate fault: the timestamp provider keeps its duration.            *)
(***************************************************************************)
KeepProviderCache(upgraded) == provider' = provider

InvalidateCache(upgraded) == provider' = IF upgraded THEN NULL ELSE provider

(***************************************************************************)
(* finalize_block resets what a block may set once.  After an upgrade both *)
(* slot durations are read again.                                          *)
(***************************************************************************)
Finalize ==
    /\ builder.phase = "inherents_applied"
    /\ chain' = Append(chain,
           [runtime |-> HeadBlock.code, code |-> storage.code, slot |-> builder.slot,
            time |-> storage.time, exts |-> builder.exts,
            upgrade |-> chain[1].upgrade])
    /\ storage' = [storage EXCEPT !.updated = FALSE, !.included = FALSE]
    /\ builder' = NoBuilder
    /\ LET upgraded == \E i \in DOMAIN builder.exts : builder.exts[i].call = "set_code"
       IN  /\ cached' = IF upgraded THEN NULL ELSE cached
           /\ InvalidateCache(upgraded)
    /\ UNCHANGED <<clock, abandoned, refused>>

InherentsNext ==
    \/ Tick
    \/ Warmup
    \/ BeginBuild
    \/ Initialize
    \/ ApplyInherents
    \/ ProviderFails
    \/ \E tx \in Txs : ApplyExtrinsic(tx)
    \/ ExecutionFails
    \/ Finalize

\* The fork's blocks by themselves; Commands composes them with the other commands.
InherentsSpec == InherentsInit /\ [][InherentsNext]_inherentVars

-----------------------------------------------------------------------------
(* Properties. *)

(***************************************************************************)
(* The runtime refuses a slot digest or an inherent only after an earlier  *)
(* build was abandoned, or when the parent has no timestamp and the wall   *)
(* clock is read twice: across runtime upgrades and with either cache warm *)
(* or cold, the slot of the header is the one of the timestamp, it always  *)
(* increases, and the relay chain's slot keeps up with it.                 *)
(***************************************************************************)
InherentsAccepted ==
    refused # <<>> =>
        \/ abandoned > Len(refused)
        \/ chain[refused[1].block - 1].time = NULL

(***************************************************************************)
(* Every block on a parachain whose fork block has validation data has it  *)
(* once, as the first extrinsic, with a proof that names the block's own   *)
(* parent as the parachain's head, and relay headers that still link.      *)
(***************************************************************************)
ValidationDataCarried ==
    ValidationData(chain[1].exts) # {} =>
        \A n \in 2..Len(chain) :
            /\ ValidationData(chain[n].exts) = {1}
            /\ chain[n].exts[1].proof.head = n - 1
            /\ Linked(chain[n].exts[1].descendants, chain[n].exts[1].root)
            /\ chain[n].exts[1].version
                   = chain[1].exts[CHOOSE i \in ValidationData(chain[1].exts) :
                                       TRUE].version

(***************************************************************************)
(* The inherents that the providers make for a block are ones the runtime  *)
(* takes, and carry the parachain's validation data on.                    *)
(***************************************************************************)
InherentsSound == InherentsAccepted /\ ValidationDataCarried

=============================================================================
