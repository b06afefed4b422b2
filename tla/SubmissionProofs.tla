-------------------------- MODULE SubmissionProofs --------------------------
(***************************************************************************)
(* Proofs about Submission, for any number of handlers and extrinsics and  *)
(* with builds that fail: an extrinsic is in one place, blocks keep the    *)
(* order of submission, and what a submitter is told is true.              *)
(***************************************************************************)
EXTENDS Submission, TLAPS

-----------------------------------------------------------------------------
(* The inductive invariant. *)

BatchOf(h) == ToSet(call[h].batch)

(***************************************************************************)
(* The handler holds extrinsics that are in no block yet.                  *)
(***************************************************************************)
Moving(h) == call[h].pc \in {"build", "building"}

(***************************************************************************)
(* Pool, moving batches and blocks are disjoint; a batch that is not       *)
(* moving any more is in a block.                                          *)
(***************************************************************************)
Placed ==
    /\ ToSet(pool) \cap Processed = {}
    /\ \A h \in Handlers : ToSet(pool) \cap BatchOf(h) = {}
    /\ \A h \in Handlers : Moving(h) => BatchOf(h) \cap Processed = {}
    /\ \A h \in Handlers : ~ Moving(h) => BatchOf(h) \subseteq Processed
    /\ \A h, g \in Handlers :
          h # g /\ Moving(h) => BatchOf(h) \cap BatchOf(g) = {}
    /\ \A i, j \in DOMAIN chain :
          i # j => TxsOf(chain[i]) \cap TxsOf(chain[j]) = {}

(***************************************************************************)
(* The extrinsics of a sequence are in the order in which the pool got     *)
(* them: it is a subsequence of the history.                               *)
(***************************************************************************)
Rises(o, s) ==
    /\ ToSet(s) \subseteq ToSet(o)
    /\ \A i, j \in DOMAIN s :
          i < j => \E a, b \in DOMAIN o : a < b /\ o[a] = s[i] /\ o[b] = s[j]

Ordered ==
    /\ IsInjective(order)
    /\ Rises(order, pool)
    /\ \A h \in Handlers : Rises(order, call[h].batch)
    /\ \A i \in DOMAIN chain : Rises(order, chain[i].applied)

(***************************************************************************)
(* An extrinsic has one handler from its submission to the last answer,    *)
(* and reaches the pool once.                                              *)
(***************************************************************************)
Owned ==
    /\ \A t \in ToSet(order) : status[t].kind # "new"
    /\ \A h \in Handlers :
          /\ call[h].tx # NULL => status[call[h].tx].kind # "new"
          /\ call[h].pc \in {"validate", "submit"} =>
                call[h].tx # NULL /\ call[h].tx \notin ToSet(order)
          /\ call[h].pc # "idle" /\ call[h].method \in {"submit", "watch"} =>
                call[h].tx # NULL
          /\ call[h].pc = "drain" => call[h].method # "submit"
          /\ call[h].method = "submit" /\ Moving(h) => call[h].tx \in BatchOf(h)
          /\ call[h].pc = "inBlock" =>
                call[h].tx # NULL /\ status[call[h].tx].kind = "inBlock"
    /\ \A h, g \in Handlers :
          h # g /\ call[h].tx # NULL => call[h].tx # call[g].tx

(***************************************************************************)
(* What a submitter was told of a block is true of it.                     *)
(***************************************************************************)
ToldTrue ==
    \A t \in Txs :
        /\ status[t].kind \in {"hash", "inBlock", "finalized"} =>
              status[t].block \in DOMAIN chain
        /\ status[t].kind = "hash" => t \in TxsOf(chain[status[t].block])
        /\ status[t].kind \in {"inBlock", "finalized"} =>
              t \notin chain[status[t].block].failed

Accounted == TypeOK /\ Placed /\ Ordered /\ Owned /\ ToldTrue

-----------------------------------------------------------------------------
(* Sequences. *)

LEMMA AppendSet ==
  ASSUME NEW S, NEW s \in Seq(S), NEW e \in S
  PROVE  /\ Append(s, e) \in Seq(S)
         /\ ToSet(Append(s, e)) = ToSet(s) \cup {e}
         /\ DOMAIN s = 1..Len(s) /\ Len(s) \in Nat
         /\ DOMAIN Append(s, e) = 1..(Len(s) + 1)
         /\ \A i \in 1..Len(s) : Append(s, e)[i] = s[i]
         /\ Append(s, e)[Len(s) + 1] = e
  <1>1. /\ Append(s, e) \in Seq(S)
        /\ DOMAIN s = 1..Len(s) /\ Len(s) \in Nat
        /\ DOMAIN Append(s, e) = 1..(Len(s) + 1)
        /\ \A i \in 1..Len(s) : Append(s, e)[i] = s[i]
        /\ Append(s, e)[Len(s) + 1] = e
    OBVIOUS
  <1>2. ToSet(Append(s, e)) = ToSet(s) \cup {e}
    BY <1>1 DEF ToSet
  <1> QED
    BY <1>1, <1>2

LEMMA EmptySet ==
  /\ <<>> \in Seq(Txs) /\ ToSet(<<>>) = {} /\ \A o : Rises(o, <<>>)
  BY DEF ToSet, Rises

(***************************************************************************)
(* The sequences already in order stay so when the pool gets one more.     *)
(***************************************************************************)
LEMMA RisesOn ==
  ASSUME NEW s \in Seq(Txs), NEW o \in Seq(Txs), Rises(o, s), NEW t \in Txs
  PROVE  Rises(Append(o, t), s)
  <1> DEFINE p == Append(o, t)
  <1>1. /\ ToSet(p) = ToSet(o) \cup {t}
        /\ DOMAIN o \subseteq DOMAIN p
        /\ \A i \in DOMAIN o : p[i] = o[i]
    BY AppendSet
  <1> HIDE DEF p
  <1>2. Rises(p, s)
    BY <1>1 DEF Rises
  <1> QED
    BY <1>2 DEF p

(***************************************************************************)
(* A sequence that the newest extrinsic joins at its end is in order.      *)
(***************************************************************************)
LEMMA RisesAppended ==
  ASSUME NEW s \in Seq(Txs), NEW o \in Seq(Txs), Rises(o, s), NEW t \in Txs
  PROVE  Rises(Append(o, t), Append(s, t))
  <1> DEFINE p == Append(o, t)
             u == Append(s, t)
  <1>1. /\ ToSet(p) = ToSet(o) \cup {t}
        /\ DOMAIN o = 1..Len(o) /\ Len(o) \in Nat
        /\ DOMAIN p = 1..(Len(o) + 1)
        /\ \A i \in 1..Len(o) : p[i] = o[i]
        /\ p[Len(o) + 1] = t
    BY AppendSet
  <1>2. /\ ToSet(u) = ToSet(s) \cup {t}
        /\ DOMAIN s = 1..Len(s) /\ Len(s) \in Nat
        /\ DOMAIN u = 1..(Len(s) + 1)
        /\ \A i \in 1..Len(s) : u[i] = s[i]
        /\ u[Len(s) + 1] = t
    BY AppendSet
  <1> HIDE DEF p, u
  <1>3. ToSet(u) \subseteq ToSet(p)
    BY <1>1, <1>2 DEF Rises
  <1>4. ASSUME NEW i \in DOMAIN u, NEW j \in DOMAIN u, i < j
        PROVE  \E a, b \in DOMAIN p : a < b /\ p[a] = u[i] /\ p[b] = u[j]
    <2>1. i \in 1..Len(s) /\ u[i] = s[i]
      BY <1>2, <1>4
    <2>2. CASE j \in 1..Len(s)
      <3>1. PICK a \in DOMAIN o, b \in DOMAIN o :
               a < b /\ o[a] = s[i] /\ o[b] = s[j]
        BY <1>2, <1>4, <2>1, <2>2 DEF Rises
      <3>2. u[j] = s[j]
        BY <1>2, <2>2
      <3>3. a \in DOMAIN p /\ b \in DOMAIN p
        BY <1>1
      <3>4. a < b /\ p[a] = u[i] /\ p[b] = u[j]
        BY <1>1, <2>1, <3>1, <3>2
      <3> QED
        BY <3>3, <3>4, Zenon
    <2>3. CASE j = Len(s) + 1
      <3>1. s[i] \in ToSet(s)
        BY <1>2, <2>1 DEF ToSet
      <3>2. s[i] \in ToSet(o)
        BY <3>1 DEF Rises
      <3>3. PICK a \in DOMAIN o : o[a] = s[i]
        BY <3>2 DEF ToSet
      <3>4. /\ a \in DOMAIN p /\ Len(o) + 1 \in DOMAIN p
            /\ a < Len(o) + 1
        BY <1>1
      <3>5. p[a] = u[i] /\ p[Len(o) + 1] = u[j]
        BY <1>1, <1>2, <2>1, <2>3, <3>3
      <3> QED
        BY <3>4, <3>5, Zenon
    <2> QED
      BY <1>2, <2>2, <2>3
  <1>5. Rises(p, u)
    BY <1>3, <1>4 DEF Rises
  <1> QED
    BY <1>5 DEF p, u

LEMMA OrderInjective ==
  ASSUME NEW o \in Seq(Txs), IsInjective(o), NEW t \in Txs, t \notin ToSet(o)
  PROVE  IsInjective(Append(o, t))
  <1>1. /\ DOMAIN o = 1..Len(o) /\ Len(o) \in Nat
        /\ DOMAIN Append(o, t) = 1..(Len(o) + 1)
        /\ \A i \in 1..Len(o) : Append(o, t)[i] = o[i]
        /\ Append(o, t)[Len(o) + 1] = t
    BY AppendSet
  <1>2. \A i \in 1..Len(o) : o[i] # t
    BY <1>1 DEF ToSet
  <1> QED
    BY <1>1, <1>2 DEF IsInjective

-----------------------------------------------------------------------------
(* Types. *)

LEMMA HandlerFacts ==
  ASSUME TypeOK, NEW h \in Handlers
  PROVE  /\ call \in [Handlers -> Call] /\ call[h] \in Call
         /\ call[h].tx \in Txs \cup {NULL} /\ call[h].batch \in Seq(Txs)
         /\ pool \in Seq(Txs) /\ order \in Seq(Txs) /\ chain \in Seq(Block)
         /\ status \in [Txs -> [kind : Kinds, block : Nat]]
         /\ Idle \in Call /\ <<>> \in Seq(Txs)
         /\ Len(chain) \in Nat /\ DOMAIN chain = 1..Len(chain)
         /\ \A i \in DOMAIN chain : /\ chain[i] \in Block
                                    /\ chain[i].applied \in Seq(Txs)
                                    /\ chain[i].failed \in SUBSET Txs
  <1>1. call[h] \in Call /\ Idle \in Call /\ <<>> \in Seq(Txs)
    BY DEF TypeOK, Call, Idle
  <1>2. call[h].tx \in Txs \cup {NULL} /\ call[h].batch \in Seq(Txs)
    BY <1>1 DEF Call
  <1>3. \A i \in DOMAIN chain : chain[i] \in Block
    BY DEF TypeOK
  <1>4. \A i \in DOMAIN chain : /\ chain[i].applied \in Seq(Txs)
                                /\ chain[i].failed \in SUBSET Txs
    BY <1>3 DEF Block
  <1> QED
    BY <1>1, <1>2, <1>3, <1>4 DEF TypeOK

LEMMA TellTyped ==
  ASSUME TypeOK, NEW h \in Handlers, NEW kind \in Kinds, NEW block \in Nat
  PROVE  Tell(h, kind, block) \in [Txs -> [kind : Kinds, block : Nat]]
  BY HandlerFacts DEF Tell, TypeOK

(***************************************************************************)
(* What a handler's step leaves in its slot, when it only moves on.        *)
(***************************************************************************)
Slot(h, c) == c \in Call /\ call' = [call EXCEPT ![h] = c]

LEMMA SlotFacts ==
  ASSUME TypeOK, NEW h \in Handlers, NEW c, Slot(h, c)
  PROVE  /\ call' \in [Handlers -> Call]
         /\ call'[h] = c /\ c.batch \in Seq(Txs)
         /\ \A g \in Handlers : g # h => call'[g] = call[g]
  <1>1. c.batch \in Seq(Txs)
    BY DEF Slot, Call
  <1> QED
    BY <1>1 DEF Slot, TypeOK

LEMMA FirstStepTyped ==
  ASSUME NEW m \in Methods
  PROVE  /\ FirstStep(m) \in {"validate", "submit", "drain"}
         /\ m # "newBlock" => FirstStep(m) \in {"validate", "submit"}
         /\ m = "newBlock" => FirstStep(m) = "drain"
  BY MethodAssumption DEF FirstStep

-----------------------------------------------------------------------------
(* The places of the extrinsics, and their order. *)

LEMMA AllSubmitted ==
  ASSUME TypeOK, Ordered
  PROVE  /\ ToSet(pool) \subseteq ToSet(order)
         /\ Processed \subseteq ToSet(order)
         /\ \A h \in Handlers : BatchOf(h) \subseteq ToSet(order)
  BY DEF Ordered, Rises, Processed, TxsOf, BatchOf

(***************************************************************************)
(* A step that takes nothing from the pool and adds no block.              *)
(***************************************************************************)
LEMMA QuietStep ==
  ASSUME TypeOK, Placed, Ordered, NEW h \in Handlers, NEW c, Slot(h, c),
         UNCHANGED <<pool, chain, order>>,
         \/ c.batch = <<>> /\ c.pc \notin {"build", "building"}
         \/ /\ c.batch = call[h].batch
            /\ c.pc \in {"build", "building"} <=> Moving(h)
  PROVE  Placed' /\ Ordered'
  <1>1. /\ call'[h] = c /\ \A g \in Handlers : g # h => call'[g] = call[g]
        /\ call[h].batch \in Seq(Txs)
    BY SlotFacts, HandlerFacts
  <1>2. /\ ToSet(pool)' = ToSet(pool) /\ Processed' = Processed
    BY DEF Processed, TxsOf
  <1>3. \A g \in Handlers :
           \/ BatchOf(g)' = {} /\ ~ Moving(g)'
           \/ BatchOf(g)' = BatchOf(g) /\ (Moving(g)' <=> Moving(g))
    <2> SUFFICES ASSUME NEW g \in Handlers
                 PROVE  \/ BatchOf(g)' = {} /\ ~ Moving(g)'
                        \/ /\ BatchOf(g)' = BatchOf(g)
                           /\ Moving(g)' <=> Moving(g)
      OBVIOUS
    <2>1. CASE g # h
      BY <1>1, <2>1 DEF BatchOf, Moving
    <2>2. CASE g = h
      BY <1>1, <2>2, EmptySet DEF BatchOf, Moving
    <2> QED
      BY <2>1, <2>2
  <1>4. \A g \in Handlers : Rises(order', call'[g].batch)
    <2> SUFFICES ASSUME NEW g \in Handlers
                 PROVE  Rises(order, call'[g].batch)
      OBVIOUS
    <2>1. CASE g # h
      BY <1>1, <2>1 DEF Ordered
    <2>2. CASE g = h
      BY <1>1, <2>2, EmptySet DEF Ordered
    <2> QED
      BY <2>1, <2>2
  <1>5. Placed'
    BY <1>2, <1>3 DEF Placed, TxsOf
  <1>6. Ordered'
    BY <1>2, <1>4 DEF Ordered
  <1> QED
    BY <1>5, <1>6

(***************************************************************************)
(* A step that empties the pool into the handler's batch.                  *)
(***************************************************************************)
LEMMA TakingStep ==
  ASSUME TypeOK, Placed, Ordered, NEW h \in Handlers, NEW c, Slot(h, c),
         pool' = <<>>, chain' = chain, c.pc = "build",
         ToSet(c.batch) \cap Processed = {},
         \A g \in Handlers : ToSet(c.batch) \cap BatchOf(g) = {},
         IsInjective(order'), Rises(order', c.batch),
         \A s \in Seq(Txs) : Rises(order, s) => Rises(order', s)
  PROVE  Placed' /\ Ordered'
  <1>1. /\ call'[h] = c /\ \A g \in Handlers : g # h => call'[g] = call[g]
        /\ \A g \in Handlers : call[g].batch \in Seq(Txs)
        /\ \A i \in DOMAIN chain : chain[i].applied \in Seq(Txs)
    BY SlotFacts, HandlerFacts
  <1>2. ToSet(pool)' = {} /\ Processed' = Processed /\ Rises(order', pool')
    BY EmptySet DEF Processed, TxsOf
  <1>3. BatchOf(h)' = ToSet(c.batch) /\ Moving(h)'
    BY <1>1 DEF BatchOf, Moving
  <1>4. \A g \in Handlers : g # h => /\ BatchOf(g)' = BatchOf(g)
                                     /\ Moving(g)' <=> Moving(g)
    BY <1>1 DEF BatchOf, Moving
  <1>5. Placed'
    <2>1. \A g \in Handlers : Moving(g)' => (BatchOf(g) \cap Processed = {})'
      BY <1>2, <1>3, <1>4 DEF Placed
    <2>2. \A g \in Handlers : ~ Moving(g)' => (BatchOf(g) \subseteq Processed)'
      BY <1>2, <1>3, <1>4 DEF Placed
    <2>3. ASSUME NEW f \in Handlers, NEW g \in Handlers, f # g, Moving(f)'
          PROVE  (BatchOf(f) \cap BatchOf(g) = {})'
      <3>1. CASE f = h
        BY <1>3, <1>4, <2>3, <3>1
      <3>2. CASE g = h
        BY <1>3, <1>4, <2>3, <3>2
      <3>3. CASE f # h /\ g # h
        BY <1>4, <2>3, <3>3 DEF Placed
      <3> QED
        BY <3>1, <3>2, <3>3
    <2>4. (\A i, j \in DOMAIN chain :
              i # j => TxsOf(chain[i]) \cap TxsOf(chain[j]) = {})'
      BY DEF Placed, TxsOf
    <2> QED
      BY <1>2, <2>1, <2>2, <2>3, <2>4 DEF Placed
  <1>6. Ordered'
    <2>1. \A g \in Handlers : Rises(order', call'[g].batch)
      BY <1>1 DEF Ordered
    <2>2. \A i \in DOMAIN chain' : Rises(order', chain'[i].applied)
      BY <1>1 DEF Ordered
    <2> QED
      BY <1>2, <2>1, <2>2 DEF Ordered
  <1> QED
    BY <1>5, <1>6

(***************************************************************************)
(* A new block holds the batch of the handler that built it.               *)
(***************************************************************************)
LEMMA ProcessedGrows ==
  ASSUME TypeOK, NEW b \in Block, chain' = Append(chain, b)
  PROVE  /\ Processed' = Processed \cup TxsOf(b)
         /\ chain' \in Seq(Block)
         /\ DOMAIN chain = 1..Len(chain) /\ Len(chain) \in Nat
         /\ DOMAIN chain' = 1..(Len(chain) + 1)
         /\ \A i \in DOMAIN chain : chain'[i] = chain[i]
         /\ chain'[Len(chain) + 1] = b
         /\ \A i \in DOMAIN chain : TxsOf(chain[i]) \subseteq Processed
  <1>1. /\ chain' \in Seq(Block)
        /\ DOMAIN chain = 1..Len(chain) /\ Len(chain) \in Nat
        /\ DOMAIN chain' = 1..(Len(chain) + 1)
        /\ \A i \in DOMAIN chain : chain'[i] = chain[i]
        /\ chain'[Len(chain) + 1] = b
    BY AppendSet DEF TypeOK
  <1>2. \A i \in DOMAIN chain' : i \in DOMAIN chain \/ i = Len(chain) + 1
    BY <1>1
  <1>3. Len(chain) + 1 \in DOMAIN chain' /\ DOMAIN chain \subseteq DOMAIN chain'
    BY <1>1
  <1>4. \A t : t \in Processed' <=> t \in Processed \/ t \in TxsOf(b)
    <2> SUFFICES ASSUME NEW t
                 PROVE  t \in Processed' <=> t \in Processed \/ t \in TxsOf(b)
      OBVIOUS
    <2>1. t \in Processed <=> \E i \in DOMAIN chain : t \in TxsOf(chain[i])
      BY DEF Processed
    <2>2. t \in Processed' <=> \E i \in DOMAIN chain' : t \in TxsOf(chain'[i])
      BY DEF Processed, TxsOf
    <2> QED
      BY <1>1, <1>2, <1>3, <2>1, <2>2
  <1> QED
    BY <1>1, <1>4 DEF Processed

LEMMA BuildStep ==
  ASSUME TypeOK, Placed, Ordered, NEW h \in Handlers, NEW c, Slot(h, c),
         Moving(h), UNCHANGED <<pool, order>>,
         NEW b \in Block, b.applied = call[h].batch, chain' = Append(chain, b),
         c.pc \notin {"build", "building"},
         c.batch = <<>> \/ c.batch = call[h].batch
  PROVE  Placed' /\ Ordered'
  <1>1. /\ call'[h] = c /\ \A g \in Handlers : g # h => call'[g] = call[g]
        /\ call[h].batch \in Seq(Txs)
    BY SlotFacts, HandlerFacts
  <1>2. TxsOf(b) = BatchOf(h)
    BY DEF TxsOf, BatchOf
  <1>3. /\ Processed' = Processed \cup BatchOf(h)
        /\ Len(chain) \in Nat
        /\ DOMAIN chain' = 1..(Len(chain) + 1)
        /\ DOMAIN chain = 1..Len(chain)
        /\ \A i \in DOMAIN chain : chain'[i] = chain[i]
        /\ chain'[Len(chain) + 1] = b
        /\ \A i \in DOMAIN chain : TxsOf(chain[i]) \subseteq Processed
    BY <1>2, ProcessedGrows
  <1>4. /\ ~ Moving(h)' /\ BatchOf(h)' \subseteq BatchOf(h)
        /\ Rises(order, c.batch)
    BY <1>1, EmptySet DEF Moving, BatchOf, Ordered
  <1>5. \A g \in Handlers : g # h => /\ BatchOf(g)' = BatchOf(g)
                                     /\ Moving(g)' <=> Moving(g)
    BY <1>1 DEF BatchOf, Moving
  <1>6. Placed'
    <2>1. (ToSet(pool) \cap Processed = {})'
      BY <1>3 DEF Placed
    <2>2. \A g \in Handlers : (ToSet(pool) \cap BatchOf(g) = {})'
      BY <1>4, <1>5 DEF Placed
    <2>3. \A g \in Handlers : Moving(g)' => (BatchOf(g) \cap Processed = {})'
      BY <1>3, <1>4, <1>5 DEF Placed
    <2>4. \A g \in Handlers : ~ Moving(g)' => (BatchOf(g) \subseteq Processed)'
      BY <1>3, <1>4, <1>5 DEF Placed
    <2>5. ASSUME NEW f \in Handlers, NEW g \in Handlers, f # g, Moving(f)'
          PROVE  (BatchOf(f) \cap BatchOf(g) = {})'
      <3>1. f # h /\ Moving(f) /\ BatchOf(f)' = BatchOf(f)
        BY <1>4, <1>5, <2>5
      <3>2. BatchOf(g)' \subseteq BatchOf(g)
        BY <1>4, <1>5
      <3> QED
        BY <2>5, <3>1, <3>2 DEF Placed
    <2>6. ASSUME NEW i \in DOMAIN chain', NEW j \in DOMAIN chain', i # j
          PROVE  TxsOf(chain'[i]) \cap TxsOf(chain'[j]) = {}
      <3>1. CASE i \in DOMAIN chain /\ j \in DOMAIN chain
        BY <1>3, <2>6, <3>1 DEF Placed
      <3>2. CASE i = Len(chain) + 1
        <4>1. j \in DOMAIN chain
          BY <1>3, <2>6, <3>2
        <4> QED
          BY <1>2, <1>3, <3>2, <4>1 DEF Placed
      <3>3. CASE j = Len(chain) + 1
        <4>1. i \in DOMAIN chain
          BY <1>3, <2>6, <3>3
        <4> QED
          BY <1>2, <1>3, <3>3, <4>1 DEF Placed
      <3>4. /\ i \in DOMAIN chain \/ i = Len(chain) + 1
            /\ j \in DOMAIN chain \/ j = Len(chain) + 1
        BY <1>3
      <3> QED
        BY <3>1, <3>2, <3>3, <3>4
    <2> QED
      BY <2>1, <2>2, <2>3, <2>4, <2>5, <2>6 DEF Placed, TxsOf
  <1>7. Ordered'
    <2>1. \A g \in Handlers : Rises(order', call'[g].batch)
      BY <1>1, <1>4 DEF Ordered
    <2>2. \A i \in DOMAIN chain' : Rises(order', chain'[i].applied)
      BY <1>3 DEF Ordered
    <2> QED
      BY <2>1, <2>2 DEF Ordered
  <1> QED
    BY <1>6, <1>7

-----------------------------------------------------------------------------
(* Whose extrinsic it is, and what its submitter was told. *)

LEMMA OwnedAfter ==
  ASSUME TypeOK, Owned, NEW h \in Handlers, NEW c, Slot(h, c),
         \A t \in Txs : status'[t].kind = "new" => status[t].kind = "new",
         \A t \in Txs : status'[t] = status[t] \/ t = call[h].tx \/ t = c.tx,
         \/ order' = order
         \/ order' = Append(order, call[h].tx) /\ call[h].pc = "submit",
         \/ c.tx = NULL
         \/ c.tx = call[h].tx
         \/ c.tx \in Txs /\ status[c.tx].kind = "new",
         c.tx # NULL => status'[c.tx].kind # "new",
         c.pc \in {"validate", "submit"} =>
             c.tx # NULL /\ c.tx \notin ToSet(order'),
         c.pc # "idle" /\ c.method \in {"submit", "watch"} => c.tx # NULL,
         c.pc = "drain" => c.method # "submit",
         c.method = "submit" /\ c.pc \in {"build", "building"} =>
             c.tx \in ToSet(c.batch),
         c.pc = "inBlock" => c.tx # NULL /\ status'[c.tx].kind = "inBlock"
  PROVE  Owned'
  <1>1. /\ call'[h] = c /\ \A g \in Handlers : g # h => call'[g] = call[g]
        /\ \A g \in Handlers : call[g].tx \in Txs \cup {NULL}
        /\ order \in Seq(Txs)
    BY SlotFacts, HandlerFacts
  <1>2. call[h].pc = "submit" => call[h].tx \in Txs
    BY <1>1 DEF Owned
  <1>3. ToSet(order') \subseteq ToSet(order) \cup {call[h].tx}
    <2>1. CASE order' = order
      BY <2>1
    <2>2. CASE order' = Append(order, call[h].tx) /\ call[h].pc = "submit"
      BY <1>1, <1>2, <2>2, AppendSet
    <2> QED
      BY <2>1, <2>2
  <1>4. \A t \in ToSet(order)' : status'[t].kind # "new"
    <2>1. ToSet(order) \subseteq Txs
      BY <1>1 DEF ToSet
    <2>2. CASE order' = order
      BY <2>1, <2>2 DEF Owned
    <2>3. CASE order' = Append(order, call[h].tx) /\ call[h].pc = "submit"
      <3>1. call[h].tx \in Txs /\ status[call[h].tx].kind # "new"
        BY <1>2, <2>3, NullAssumption DEF Owned
      <3> QED
        BY <1>3, <2>1, <3>1 DEF Owned
    <2> QED
      BY <2>2, <2>3
  <1>5. ASSUME NEW g \in Handlers, g # h, call[g].tx # NULL
        PROVE  /\ call[g].tx \in Txs /\ call[g].tx # call[h].tx
               /\ call[g].tx # c.tx /\ status'[call[g].tx] = status[call[g].tx]
    <2>1. call[g].tx \in Txs /\ call[g].tx # call[h].tx
      BY <1>1, <1>5 DEF Owned
    <2>2. status[call[g].tx].kind # "new"
      BY <1>5 DEF Owned
    <2>3. call[g].tx # c.tx
      BY <1>5, <2>1, <2>2
    <2> QED
      BY <2>1, <2>3
  <1>6. ASSUME NEW g \in Handlers
        PROVE  /\ call'[g].tx # NULL => status'[call'[g].tx].kind # "new"
               /\ call'[g].pc \in {"validate", "submit"} =>
                     call'[g].tx # NULL /\ call'[g].tx \notin ToSet(order')
               /\ call'[g].pc # "idle" /\ call'[g].method \in {"submit", "watch"}
                     => call'[g].tx # NULL
               /\ call'[g].pc = "drain" => call'[g].method # "submit"
               /\ call'[g].method = "submit" /\ Moving(g)' =>
                     call'[g].tx \in BatchOf(g)'
               /\ call'[g].pc = "inBlock" =>
                     /\ call'[g].tx # NULL
                     /\ status'[call'[g].tx].kind = "inBlock"
    <2>1. CASE g = h
      BY <1>1, <2>1 DEF Moving, BatchOf
    <2>2. CASE g # h
      <3>1. call'[g] = call[g]
        BY <1>1, <2>2
      <3>2. call[g].tx # NULL => status'[call[g].tx] = status[call[g].tx]
        BY <1>5, <2>2
      <3>3. call[g].tx # NULL /\ call[g].tx \notin ToSet(order)
               => call[g].tx \notin ToSet(order')
        BY <1>3, <1>5, <2>2
      <3> QED
        BY <3>1, <3>2, <3>3 DEF Owned, Moving, BatchOf
    <2> QED
      BY <2>1, <2>2
  <1>7. ASSUME NEW f \in Handlers, NEW g \in Handlers, f # g, call'[f].tx # NULL
        PROVE  call'[f].tx # call'[g].tx
    <2>1. CASE f = h
      BY <1>1, <1>5, <1>7, <2>1
    <2>2. CASE g = h
      BY <1>1, <1>5, <1>7, <2>2
    <2>3. CASE f # h /\ g # h
      BY <1>1, <1>7, <2>3 DEF Owned
    <2> QED
      BY <2>1, <2>2, <2>3
  <1> QED
    BY <1>4, <1>6, <1>7 DEF Owned

LEMMA ToldAfter ==
  ASSUME TypeOK, ToldTrue, NEW t \in Txs,
         status' \in [Txs -> [kind : Kinds, block : Nat]],
         DOMAIN chain \subseteq DOMAIN chain',
         \A i \in DOMAIN chain : chain'[i] = chain[i],
         \/ status'[t] = status[t]
         \/ status'[t].kind \notin {"hash", "inBlock", "finalized"}
         \/ /\ status[t].kind = "inBlock" /\ status'[t].kind = "finalized"
            /\ status'[t].block = status[t].block
         \/ /\ status'[t].block \in DOMAIN chain'
            /\ status'[t].kind = "hash" => t \in TxsOf(chain'[status'[t].block])
            /\ status'[t].kind \in {"inBlock", "finalized"} =>
                  t \notin chain'[status'[t].block].failed
  PROVE  /\ status'[t].kind \in {"hash", "inBlock", "finalized"} =>
               status'[t].block \in DOMAIN chain'
         /\ status'[t].kind = "hash" => t \in TxsOf(chain'[status'[t].block])
         /\ status'[t].kind \in {"inBlock", "finalized"} =>
               t \notin chain'[status'[t].block].failed
  BY DEF ToldTrue

(***************************************************************************)
(* What Tell changes.                                                      *)
(***************************************************************************)
LEMMA TellFacts ==
  ASSUME TypeOK, NEW h \in Handlers, NEW k \in Kinds, k # "new",
         NEW n \in Nat, status' = Tell(h, k, n)
  PROVE  /\ status' \in [Txs -> [kind : Kinds, block : Nat]]
         /\ \A t \in Txs : /\ t # call[h].tx => status'[t] = status[t]
                           /\ t = call[h].tx =>
                                 status'[t].kind = k /\ status'[t].block = n
         /\ \A t \in Txs : status'[t].kind = "new" => status[t].kind = "new"
  <1>1. /\ status' \in [Txs -> [kind : Kinds, block : Nat]]
        /\ status \in [Txs -> [kind : Kinds, block : Nat]]
    BY TellTyped DEF TypeOK
  <1>2. \A t \in Txs :
           /\ t # call[h].tx => status'[t] = status[t]
           /\ t = call[h].tx => status'[t].kind = k /\ status'[t].block = n
    BY <1>1, NullAssumption DEF Tell
  <1> QED
    BY <1>1, <1>2

LEMMA ToldKept ==
  ASSUME TypeOK, ToldTrue, status' \in [Txs -> [kind : Kinds, block : Nat]],
         chain' = chain,
         \A t \in Txs :
            \/ status'[t] = status[t]
            \/ status'[t].kind \notin {"hash", "inBlock", "finalized"}
            \/ /\ status[t].kind = "inBlock" /\ status'[t].kind = "finalized"
               /\ status'[t].block = status[t].block
  PROVE  ToldTrue'
  BY ToldAfter DEF ToldTrue, TxsOf

-----------------------------------------------------------------------------
(* The steps. *)

LEMMA RequestStep ==
  ASSUME Accounted, NEW h \in Handlers, NEW m \in Methods, NEW t \in Txs,
         Request(h, m, t)
  PROVE  Accounted'
  <1> DEFINE c == [Idle EXCEPT !.pc = FirstStep(m), !.method = m, !.tx = t]
  <1>1. /\ TypeOK /\ Placed /\ Ordered /\ Owned /\ ToldTrue
        /\ status \in [Txs -> [kind : Kinds, block : Nat]]
        /\ UNCHANGED <<pool, chain, order>>
        /\ status[t].kind = "new"
    BY DEF Accounted, Request, TypeOK, New
  <1>2. FirstStep(m) \in {"validate", "submit"}
    BY FirstStepTyped DEF Request
  <1>3. /\ c.pc = FirstStep(m) /\ c.method = m /\ c.tx = t /\ c.batch = <<>>
        /\ c \in Call
    BY <1>2, FirstStepTyped, EmptySet DEF Idle, Call
  <1>4. Slot(h, c)
    BY <1>3 DEF Slot, Request
  <1> HIDE DEF c
  <1>5. /\ status' = [status EXCEPT ![t].kind = "submitted"]
        /\ status' \in [Txs -> [kind : Kinds, block : Nat]]
        /\ \A u \in Txs : u # t => status'[u] = status[u]
        /\ status'[t].kind = "submitted"
    BY <1>1 DEF Request, Kinds
  <1>6. TypeOK'
    BY <1>1, <1>4, <1>5, SlotFacts DEF TypeOK
  <1>7. Placed' /\ Ordered'
    BY <1>1, <1>2, <1>3, <1>4, QuietStep
  <1>8. Owned'
    <2>1. t \notin ToSet(order') /\ t # NULL
      BY <1>1, NullAssumption DEF Owned
    <2>2. \A u \in Txs : status'[u].kind = "new" => status[u].kind = "new"
      BY <1>5
    <2> QED
      BY <1>1, <1>2, <1>3, <1>4, <1>5, <2>1, <2>2, OwnedAfter
  <1>9. ToldTrue'
    BY <1>1, <1>5, ToldKept
  <1> QED
    BY <1>6, <1>7, <1>8, <1>9 DEF Accounted

LEMMA NewBlockStep ==
  ASSUME Accounted, NEW h \in Handlers, NewBlock(h)
  PROVE  Accounted'
  <1> DEFINE c == [Idle EXCEPT !.pc = FirstStep("newBlock"),
                               !.method = "newBlock"]
  <1>1. /\ TypeOK /\ Placed /\ Ordered /\ Owned /\ ToldTrue
        /\ status \in [Txs -> [kind : Kinds, block : Nat]]
        /\ UNCHANGED <<pool, chain, status, order>>
    BY DEF Accounted, NewBlock, TypeOK
  <1>2. FirstStep("newBlock") = "drain" /\ "newBlock" \in Methods
    BY FirstStepTyped DEF NewBlock
  <1>3. /\ c.pc = "drain" /\ c.method = "newBlock" /\ c.tx = NULL
        /\ c.batch = <<>> /\ c \in Call
    BY <1>2, EmptySet DEF Idle, Call
  <1>4. Slot(h, c)
    BY <1>3 DEF Slot, NewBlock
  <1> HIDE DEF c
  <1>5. TypeOK'
    BY <1>1, <1>4, SlotFacts DEF TypeOK
  <1>6. Placed' /\ Ordered'
    BY <1>1, <1>3, <1>4, QuietStep
  <1>7. Owned'
    BY <1>1, <1>3, <1>4, OwnedAfter
  <1>8. ToldTrue'
    BY <1>1, ToldKept
  <1> QED
    BY <1>5, <1>6, <1>7, <1>8 DEF Accounted

(***************************************************************************)
(* A handler that ends with nothing said of a block.                       *)
(***************************************************************************)
LEMMA GivingUp ==
  ASSUME Accounted, NEW h \in Handlers, UNCHANGED <<pool, chain, order>>,
         NEW k \in {"invalid", "error", "dropped"}, status' = Tell(h, k, 0),
         call' = Finish(h)
  PROVE  Accounted'
  <1>1. /\ TypeOK /\ Placed /\ Ordered /\ Owned /\ ToldTrue
        /\ k \in Kinds /\ k # "new" /\ 0 \in Nat
    BY DEF Accounted, Kinds
  <1>2. /\ Idle.pc = "idle" /\ Idle.method = NULL /\ Idle.tx = NULL
        /\ Idle.batch = <<>>
    BY DEF Idle
  <1>3. Slot(h, Idle)
    BY <1>1, HandlerFacts DEF Slot, Finish
  <1>4. /\ status' \in [Txs -> [kind : Kinds, block : Nat]]
        /\ \A t \in Txs : status'[t] = status[t] \/ t = call[h].tx
        /\ \A t \in Txs : status'[t] = status[t] \/ status'[t].kind = k
        /\ \A t \in Txs : status'[t].kind = "new" => status[t].kind = "new"
    BY <1>1, TellFacts
  <1>5. TypeOK'
    BY <1>1, <1>3, <1>4, SlotFacts DEF TypeOK
  <1>6. Placed' /\ Ordered'
    BY <1>1, <1>2, <1>3, QuietStep
  <1>7. Owned'
    BY <1>1, <1>2, <1>3, <1>4, OwnedAfter
  <1>8. ToldTrue'
    BY <1>1, <1>4, ToldKept
  <1> QED
    BY <1>5, <1>6, <1>7, <1>8 DEF Accounted

LEMMA ValidateStep ==
  ASSUME Accounted, NEW h \in Handlers, Validate(h)
  PROVE  Accounted'
  <1> DEFINE c == [call[h] EXCEPT !.pc = "submit"]
  <1>1. /\ TypeOK /\ Placed /\ Ordered /\ Owned /\ ToldTrue
        /\ UNCHANGED <<pool, chain, order>>
        /\ "ready" \in Kinds /\ "ready" # "new" /\ 0 \in Nat
        /\ call[h].pc = "validate" /\ call[h] \in Call
    BY HandlerFacts DEF Accounted, Validate, Kinds
  <1>2. /\ c.pc = "submit" /\ c.method = call[h].method /\ c.tx = call[h].tx
        /\ c.batch = call[h].batch /\ c \in Call
    BY <1>1 DEF Call
  <1>3. Slot(h, c)
    BY <1>1, <1>2 DEF Slot, Validate, TypeOK
  <1> HIDE DEF c
  <1>4. /\ status' \in [Txs -> [kind : Kinds, block : Nat]]
        /\ \A t \in Txs : status'[t] = status[t] \/ t = call[h].tx
        /\ \A t \in Txs : status'[t] = status[t] \/ status'[t].kind = "ready"
        /\ \A t \in Txs : status'[t].kind = "new" => status[t].kind = "new"
    <2>1. CASE status' = status
      BY <1>1, <2>1 DEF TypeOK
    <2>2. CASE status' = Tell(h, "ready", 0)
      BY <1>1, <2>2, TellFacts
    <2> QED
      BY <2>1, <2>2 DEF Validate
  <1>5. TypeOK'
    BY <1>1, <1>3, <1>4, SlotFacts DEF TypeOK
  <1>6. Placed' /\ Ordered'
    BY <1>1, <1>2, <1>3, QuietStep DEF Moving
  <1>7. Owned'
    <2>1. c.tx # NULL /\ c.tx \in Txs /\ c.tx \notin ToSet(order')
      BY <1>1, <1>2, HandlerFacts DEF Owned
    <2>2. status'[c.tx].kind # "new"
      BY <1>1, <1>2, <1>4, <2>1 DEF Owned
    <2> QED
      BY <1>1, <1>2, <1>3, <1>4, <2>1, <2>2, OwnedAfter
  <1>8. ToldTrue'
    BY <1>1, <1>4, ToldKept
  <1> QED
    BY <1>5, <1>6, <1>7, <1>8 DEF Accounted

LEMMA ReadHeadStep ==
  ASSUME Accounted, NEW h \in Handlers, ReadHead(h)
  PROVE  Accounted'
  <1> DEFINE c == [call[h] EXCEPT !.pc = "building", !.parent = Len(chain)]
  <1>1. /\ TypeOK /\ Placed /\ Ordered /\ Owned /\ ToldTrue
        /\ UNCHANGED <<pool, chain, status, order>>
        /\ call[h].pc = "build" /\ call[h] \in Call /\ Len(chain) \in Nat
        /\ status \in [Txs -> [kind : Kinds, block : Nat]]
    BY HandlerFacts DEF Accounted, ReadHead
  <1>2. /\ c.pc = "building" /\ c.method = call[h].method /\ c.tx = call[h].tx
        /\ c.batch = call[h].batch /\ c \in Call
    BY <1>1 DEF Call
  <1>3. Slot(h, c)
    BY <1>1, <1>2 DEF Slot, ReadHead, TypeOK
  <1> HIDE DEF c
  <1>4. TypeOK'
    BY <1>1, <1>3, SlotFacts DEF TypeOK
  <1>5. Placed' /\ Ordered'
    BY <1>1, <1>2, <1>3, QuietStep DEF Moving
  <1>6. Owned'
    <2>1. c.tx # NULL => status'[c.tx].kind # "new"
      BY <1>1, <1>2 DEF Owned
    <2>2. c.method \in {"submit", "watch"} => c.tx # NULL
      BY <1>1, <1>2 DEF Owned
    <2>3. c.method = "submit" => c.tx \in ToSet(c.batch)
      BY <1>1, <1>2 DEF Owned, Moving, BatchOf
    <2> QED
      BY <1>1, <1>2, <1>3, <2>1, <2>2, <2>3, OwnedAfter
  <1>7. ToldTrue'
    BY <1>1, ToldKept
  <1> QED
    BY <1>4, <1>5, <1>6, <1>7 DEF Accounted

LEMMA FinalizedStep ==
  ASSUME Accounted, NEW h \in Handlers, Finalized(h)
  PROVE  Accounted'
  <1>1. /\ TypeOK /\ Placed /\ Ordered /\ Owned /\ ToldTrue
        /\ UNCHANGED <<pool, chain, order>>
        /\ status \in [Txs -> [kind : Kinds, block : Nat]]
        /\ call[h].tx \in Txs /\ status[call[h].tx].kind = "inBlock"
    BY HandlerFacts DEF Accounted, Finalized, Owned
  <1>2. /\ Idle.pc = "idle" /\ Idle.method = NULL /\ Idle.tx = NULL
        /\ Idle.batch = <<>>
    BY DEF Idle
  <1>3. Slot(h, Idle)
    BY <1>1, HandlerFacts DEF Slot, Finish, Finalized
  <1>4. /\ status' \in [Txs -> [kind : Kinds, block : Nat]]
        /\ \A t \in Txs : t # call[h].tx => status'[t] = status[t]
        /\ status'[call[h].tx].kind = "finalized"
        /\ status'[call[h].tx].block = status[call[h].tx].block
    BY <1>1 DEF Finalized, Kinds
  <1>5. TypeOK'
    BY <1>1, <1>3, <1>4, SlotFacts DEF TypeOK
  <1>6. Placed' /\ Ordered'
    BY <1>1, <1>2, <1>3, QuietStep
  <1>7. Owned'
    <2>1. \A t \in Txs : status'[t].kind = "new" => status[t].kind = "new"
      BY <1>1, <1>4
    <2> QED
      BY <1>1, <1>2, <1>3, <1>4, <2>1, OwnedAfter
  <1>8. ToldTrue'
    BY <1>1, <1>4, ToldKept
  <1> QED
    BY <1>5, <1>6, <1>7, <1>8 DEF Accounted

LEMMA SubmitAndDrainStep ==
  ASSUME Accounted, NEW h \in Handlers, SubmitAndDrain(h)
  PROVE  Accounted'
  <1> DEFINE t == call[h].tx
             c == [call[h] EXCEPT !.pc = "build", !.batch = Append(pool, t)]
  <1>1. /\ TypeOK /\ Placed /\ Ordered /\ Owned /\ ToldTrue
        /\ UNCHANGED <<chain, status>> /\ pool' = <<>>
        /\ order' = Append(order, t)
        /\ call[h].pc = "submit" /\ call[h].method = "submit"
        /\ call[h] \in Call /\ t \in Txs /\ t # NULL
        /\ t \notin ToSet(order) /\ pool \in Seq(Txs) /\ order \in Seq(Txs)
        /\ status \in [Txs -> [kind : Kinds, block : Nat]]
    BY HandlerFacts DEF Accounted, SubmitAndDrain, Owned
  <1>2. /\ Append(pool, t) \in Seq(Txs)
        /\ ToSet(Append(pool, t)) = ToSet(pool) \cup {t}
        /\ order' \in Seq(Txs)
    BY <1>1, AppendSet
  <1>3. /\ c.pc = "build" /\ c.method = "submit" /\ c.tx = t
        /\ c.batch = Append(pool, t) /\ c \in Call
    BY <1>1, <1>2 DEF Call
  <1>4. Slot(h, c)
    BY <1>1, <1>3 DEF Slot, SubmitAndDrain, TypeOK
  <1> HIDE DEF c
  <1>5. TypeOK'
    BY <1>1, <1>2, <1>4, SlotFacts, EmptySet DEF TypeOK
  <1>6. Placed' /\ Ordered'
    <2>1. /\ ToSet(c.batch) \cap Processed = {}
          /\ \A g \in Handlers : ToSet(c.batch) \cap BatchOf(g) = {}
      BY <1>1, <1>2, <1>3, AllSubmitted DEF Placed
    <2>2. /\ IsInjective(order') /\ Rises(order', c.batch)
          /\ \A s \in Seq(Txs) : Rises(order, s) => Rises(order', s)
      BY <1>1, <1>3, RisesOn, RisesAppended, OrderInjective DEF Ordered
    <2> QED
      BY <1>1, <1>3, <1>4, <2>1, <2>2, TakingStep
  <1>7. Owned'
    <2>1. status'[c.tx].kind # "new" /\ c.tx \in ToSet(c.batch)
      BY <1>1, <1>2, <1>3 DEF Owned
    <2> QED
      BY <1>1, <1>3, <1>4, <2>1, OwnedAfter
  <1>8. ToldTrue'
    BY <1>1, ToldKept
  <1> QED
    BY <1>5, <1>6, <1>7, <1>8 DEF Accounted

LEMMA DrainStep ==
  ASSUME Accounted, NEW h \in Handlers, Drain(h)
  PROVE  Accounted'
  <1> DEFINE c == [call[h] EXCEPT !.pc = "build", !.batch = pool]
  <1>1. /\ TypeOK /\ Placed /\ Ordered /\ Owned /\ ToldTrue
        /\ UNCHANGED <<chain, status, order>> /\ pool' = <<>>
        /\ call[h].pc = "drain" /\ call[h] \in Call /\ pool \in Seq(Txs)
        /\ status \in [Txs -> [kind : Kinds, block : Nat]]
    BY HandlerFacts DEF Accounted, Drain
  <1>2. /\ c.pc = "build" /\ c.method = call[h].method /\ c.tx = call[h].tx
        /\ c.batch = pool /\ c \in Call
    BY <1>1 DEF Call
  <1>3. Slot(h, c)
    BY <1>1, <1>2 DEF Slot, Drain, TypeOK
  <1> HIDE DEF c
  <1>4. TypeOK'
    BY <1>1, <1>3, SlotFacts, EmptySet DEF TypeOK
  <1>5. Placed' /\ Ordered'
    <2>1. /\ ToSet(c.batch) \cap Processed = {}
          /\ \A g \in Handlers : ToSet(c.batch) \cap BatchOf(g) = {}
      BY <1>1, <1>2 DEF Placed
    <2>2. /\ IsInjective(order') /\ Rises(order', c.batch)
          /\ \A s \in Seq(Txs) : Rises(order, s) => Rises(order', s)
      BY <1>1, <1>2 DEF Ordered
    <2> QED
      BY <1>1, <1>2, <1>3, <2>1, <2>2, TakingStep
  <1>6. Owned'
    <2>1. c.tx # NULL => status'[c.tx].kind # "new"
      BY <1>1, <1>2 DEF Owned
    <2>2. c.method \in {"submit", "watch"} => c.tx # NULL
      BY <1>1, <1>2 DEF Owned
    <2>3. c.method # "submit"
      BY <1>1, <1>2 DEF Owned
    <2> QED
      BY <1>1, <1>2, <1>3, <2>1, <2>2, <2>3, OwnedAfter
  <1>7. ToldTrue'
    BY <1>1, ToldKept
  <1> QED
    BY <1>4, <1>5, <1>6, <1>7 DEF Accounted

(***************************************************************************)
(* Submit leaves the extrinsic at the end of the pool.                     *)
(***************************************************************************)
LEMMA SubmitStep ==
  ASSUME Accounted, NEW h \in Handlers, Submit(h)
  PROVE  Accounted'
  <1> DEFINE t == call[h].tx
             c == [call[h] EXCEPT !.pc = "drain"]
  <1>1. /\ TypeOK /\ Placed /\ Ordered /\ Owned /\ ToldTrue
        /\ UNCHANGED <<chain, status>> /\ pool' = Append(pool, t)
        /\ order' = Append(order, t)
        /\ call[h].pc = "submit" /\ call[h].method \in {"watch", "broadcast"}
        /\ call[h] \in Call /\ t \in Txs /\ t # NULL
        /\ t \notin ToSet(order) /\ pool \in Seq(Txs) /\ order \in Seq(Txs)
        /\ status \in [Txs -> [kind : Kinds, block : Nat]]
    BY HandlerFacts DEF Accounted, Submit, Owned
  <1>2. /\ pool' \in Seq(Txs) /\ order' \in Seq(Txs)
        /\ ToSet(pool') = ToSet(pool) \cup {t}
    BY <1>1, AppendSet
  <1>3. /\ c.pc = "drain" /\ c.method = call[h].method /\ c.tx = t
        /\ c.batch = call[h].batch /\ c \in Call
    BY <1>1 DEF Call
  <1>4. Slot(h, c)
    BY <1>1, <1>3 DEF Slot, Submit, TypeOK
  <1> HIDE DEF c
  <1>5. TypeOK'
    BY <1>1, <1>2, <1>4, SlotFacts DEF TypeOK
  <1>6. \A g \in Handlers : /\ call'[g].batch = call[g].batch
                            /\ call[g].batch \in Seq(Txs)
                            /\ BatchOf(g)' = BatchOf(g)
                            /\ Moving(g)' <=> Moving(g)
    <2> SUFFICES ASSUME NEW g \in Handlers
                 PROVE  /\ call'[g].batch = call[g].batch
                        /\ call[g].batch \in Seq(Txs)
                        /\ BatchOf(g)' = BatchOf(g)
                        /\ Moving(g)' <=> Moving(g)
      OBVIOUS
    <2>1. /\ call'[h] = c
          /\ g # h => call'[g] = call[g]
          /\ call[g].batch \in Seq(Txs)
      BY <1>1, <1>4, SlotFacts, HandlerFacts
    <2>2. CASE g = h
      BY <1>1, <1>3, <2>1, <2>2 DEF BatchOf, Moving
    <2>3. CASE g # h
      BY <2>1, <2>3 DEF BatchOf, Moving
    <2> QED
      BY <2>2, <2>3
  <1>7. Processed' = Processed
    BY <1>1 DEF Processed, TxsOf
  <1>8. Placed'
    <2>1. t \notin Processed /\ \A g \in Handlers : t \notin BatchOf(g)
      BY <1>1, AllSubmitted
    <2>2. (\A i, j \in DOMAIN chain :
              i # j => TxsOf(chain[i]) \cap TxsOf(chain[j]) = {})'
      BY <1>1 DEF Placed, TxsOf
    <2>3. /\ (ToSet(pool) \cap Processed = {})'
          /\ \A g \in Handlers : (ToSet(pool) \cap BatchOf(g) = {})'
      BY <1>1, <1>2, <1>6, <1>7, <2>1 DEF Placed
    <2>4. /\ \A g \in Handlers : Moving(g)' => (BatchOf(g) \cap Processed = {})'
          /\ \A g \in Handlers :
                ~ Moving(g)' => (BatchOf(g) \subseteq Processed)'
          /\ \A f, g \in Handlers :
                f # g /\ Moving(f)' => (BatchOf(f) \cap BatchOf(g) = {})'
      BY <1>1, <1>6, <1>7 DEF Placed
    <2> QED
      BY <2>2, <2>3, <2>4 DEF Placed
  <1>9. Ordered'
    <2>1. IsInjective(order') /\ Rises(order', pool')
      BY <1>1, RisesAppended, OrderInjective DEF Ordered
    <2>2. \A g \in Handlers : Rises(order', call'[g].batch)
      BY <1>1, <1>6, RisesOn DEF Ordered
    <2>3. \A i \in DOMAIN chain' : Rises(order', chain'[i].applied)
      BY <1>1, HandlerFacts, RisesOn DEF Ordered
    <2> QED
      BY <2>1, <2>2, <2>3 DEF Ordered
  <1>10. Owned'
    <2>1. status'[c.tx].kind # "new" /\ c.method # "submit"
      BY <1>1, <1>3 DEF Owned
    <2> QED
      BY <1>1, <1>3, <1>4, <2>1, OwnedAfter
  <1>11. ToldTrue'
    BY <1>1, ToldKept
  <1> QED
    BY <1>5, <1>8, <1>9, <1>10, <1>11 DEF Accounted

(***************************************************************************)
(* The block that BuildBlock adds, and what Report says of it.             *)
(***************************************************************************)
LEMMA BuildBlockStep ==
  ASSUME Accounted, NEW h \in Handlers, BuildBlock(h)
  PROVE  Accounted'
  <1>1. /\ TypeOK /\ Placed /\ Ordered /\ Owned /\ ToldTrue
        /\ UNCHANGED <<pool, order>>
        /\ call[h].pc = "building" /\ Moving(h) /\ call[h] \in Call
        /\ call[h].batch \in Seq(Txs) /\ chain \in Seq(Block)
        /\ call[h].tx \in Txs \cup {NULL} /\ Len(chain) + 1 \in Nat
        /\ pool \in Seq(Txs) /\ order \in Seq(Txs)
    BY HandlerFacts DEF Accounted, BuildBlock, Moving
  <1>2. PICK failed \in SUBSET ToSet(call[h].batch) :
           LET block == [applied |-> call[h].batch, failed |-> failed]
           IN  chain' = Append(chain, block) /\ Report(h, block)
    BY DEF BuildBlock
  <1> DEFINE b == [applied |-> call[h].batch, failed |-> failed]
             n == Len(chain) + 1
  <1>3. /\ b \in Block /\ b.applied = call[h].batch /\ b.failed = failed
        /\ TxsOf(b) = BatchOf(h)
    BY <1>1 DEF Block, ToSet, TxsOf, BatchOf
  <1>4. chain' = Append(chain, b) /\ Report(h, b)
    BY <1>2
  <1> HIDE DEF b
  <1>5. /\ chain' \in Seq(Block) /\ n \in DOMAIN chain' /\ chain'[n] = b
        /\ DOMAIN chain \subseteq DOMAIN chain'
        /\ \A i \in DOMAIN chain : chain'[i] = chain[i]
    BY <1>1, <1>3, <1>4, ProcessedGrows
  <1> HIDE DEF n
  <1>6. /\ Idle.pc = "idle" /\ Idle.method = NULL /\ Idle.tx = NULL
        /\ Idle.batch = <<>> /\ Idle \in Call
    BY <1>1, HandlerFacts DEF Idle
  <1>7. \E c, k : \* the slot and the answer of each of Report's three cases
           /\ Slot(h, c) /\ k \in Kinds /\ k # "new"
           /\ status' = Tell(h, k, IF k = "invalid" THEN 0 ELSE n)
           /\ \/ c = Idle /\ k \in {"operation", "invalid"}
              \/ c = Idle /\ k = "hash" /\ call[h].method = "submit"
              \/ /\ k = "inBlock" /\ failed = {} /\ call[h].method = "watch"
                 /\ c.pc = "inBlock" /\ c.tx = call[h].tx
                 /\ c.method = "watch" /\ c.batch = call[h].batch
    <2>1. CASE call[h].method \notin {"watch", "submit"}
      <3>1. Slot(h, Idle) /\ status' = Tell(h, "operation", n)
        BY <1>4, <1>6, <2>1 DEF Report, Slot, Finish, n
      <3> QED
        BY <3>1 DEF Kinds
    <2>2. CASE call[h].method = "submit"
      <3>1. Slot(h, Idle) /\ status' = Tell(h, "hash", n)
        BY <1>4, <1>6, <2>2 DEF Report, Slot, Finish, n
      <3> QED
        BY <2>2, <3>1 DEF Kinds
    <2>3. CASE call[h].method = "watch" /\ failed # {}
      <3>1. Slot(h, Idle) /\ status' = Tell(h, "invalid", 0)
        BY <1>3, <1>4, <1>6, <2>3 DEF Report, Slot, Finish
      <3> QED
        BY <3>1 DEF Kinds
    <2>4. CASE call[h].method = "watch" /\ failed = {}
      <3> DEFINE c == [call[h] EXCEPT !.pc = "inBlock"]
      <3>1. /\ c \in Call /\ c.pc = "inBlock" /\ c.tx = call[h].tx
            /\ c.method = "watch" /\ c.batch = call[h].batch
        BY <1>1, <2>4 DEF Call
      <3>2. /\ call' = [call EXCEPT ![h].pc = "inBlock"]
            /\ status' = Tell(h, "inBlock", n)
        BY <1>3, <1>4, <2>4 DEF Report, n
      <3>3. Slot(h, c)
        BY <1>1, <3>1, <3>2 DEF Slot, TypeOK
      <3> HIDE DEF c
      <3> QED
        BY <2>4, <3>1, <3>2, <3>3 DEF Kinds
    <2> QED
      BY <2>1, <2>2, <2>3, <2>4
  <1>8. PICK c, k :
           /\ Slot(h, c) /\ k \in Kinds /\ k # "new"
           /\ status' = Tell(h, k, IF k = "invalid" THEN 0 ELSE n)
           /\ \/ c = Idle /\ k \in {"operation", "invalid"}
              \/ c = Idle /\ k = "hash" /\ call[h].method = "submit"
              \/ /\ k = "inBlock" /\ failed = {} /\ call[h].method = "watch"
                 /\ c.pc = "inBlock" /\ c.tx = call[h].tx
                 /\ c.method = "watch" /\ c.batch = call[h].batch
    BY <1>7
  <1> DEFINE m == IF k = "invalid" THEN 0 ELSE n
  <1>9. m \in Nat /\ status' = Tell(h, k, m) /\ (k # "invalid" => m = n)
    BY <1>1, <1>8 DEF n
  <1> HIDE DEF m
  <1>10. /\ status' \in [Txs -> [kind : Kinds, block : Nat]]
         /\ \A t \in Txs : /\ t # call[h].tx => status'[t] = status[t]
                           /\ t = call[h].tx =>
                                 status'[t].kind = k /\ status'[t].block = m
         /\ \A t \in Txs : status'[t].kind = "new" => status[t].kind = "new"
    BY <1>1, <1>8, <1>9, TellFacts
  <1>11. TypeOK'
    BY <1>1, <1>5, <1>8, <1>10, SlotFacts DEF TypeOK
  <1>12. Placed' /\ Ordered'
    BY <1>1, <1>3, <1>4, <1>6, <1>8, BuildStep
  <1>13. Owned'
    <2>1. CASE c = Idle
      BY <1>1, <1>6, <1>8, <1>10, <2>1, OwnedAfter
    <2>2. CASE c.pc = "inBlock" /\ c.tx = call[h].tx /\ c.method = "watch"
               /\ k = "inBlock"
      <3>1. c.tx # NULL /\ c.tx \in Txs
        BY <1>1, <1>8, <2>2 DEF Owned
      <3>2. status'[c.tx].kind = "inBlock"
        BY <1>10, <2>2, <3>1
      <3> QED
        BY <1>1, <1>8, <1>10, <2>2, <3>1, <3>2, OwnedAfter
    <2> QED
      BY <1>8, <2>1, <2>2
  <1>14. ToldTrue'
    <2>1. ASSUME NEW t \in Txs
          PROVE  \/ status'[t] = status[t]
                 \/ status'[t].kind \notin {"hash", "inBlock", "finalized"}
                 \/ /\ status'[t].block \in DOMAIN chain'
                    /\ status'[t].kind = "hash" =>
                          t \in TxsOf(chain'[status'[t].block])
                    /\ status'[t].kind \in {"inBlock", "finalized"} =>
                          t \notin chain'[status'[t].block].failed
      <3>1. CASE t # call[h].tx
        BY <1>10, <3>1
      <3>2. CASE t = call[h].tx /\ k \in {"operation", "invalid"}
        BY <1>10, <3>2
      <3>3. CASE t = call[h].tx /\ k = "hash" /\ call[h].method = "submit"
        <4>1. t \in TxsOf(b)
          BY <1>1, <1>3, <3>3 DEF Owned
        <4> QED
          BY <1>5, <1>9, <1>10, <3>3, <4>1
      <3>4. CASE t = call[h].tx /\ k = "inBlock" /\ failed = {}
        BY <1>3, <1>5, <1>9, <1>10, <3>4
      <3> QED
        BY <1>8, <3>1, <3>2, <3>3, <3>4
    <2> QED
      BY <1>1, <1>5, <1>10, <2>1, ToldAfter DEF ToldTrue, TxsOf
  <1> QED
    BY <1>11, <1>12, <1>13, <1>14 DEF Accounted

-----------------------------------------------------------------------------
(* The theorems. *)

LEMMA AccountedInit ==
  ASSUME Init
  PROVE  Accounted
  <1>1. /\ pool = <<>> /\ chain = <<>> /\ order = <<>>
        /\ DOMAIN chain = {} /\ chain \in Seq(Block)
        /\ \A h \in Handlers : call[h] = Idle
        /\ \A t \in Txs : status[t].kind = "new"
    BY DEF Init, New
  <1>2. /\ Idle.pc = "idle" /\ Idle.method = NULL /\ Idle.tx = NULL
        /\ Idle.batch = <<>> /\ Idle \in Call
    BY EmptySet DEF Idle, Call
  <1>3. Processed = {} /\ ToSet(pool) = {} /\ ToSet(order) = {}
    BY <1>1, EmptySet DEF Processed
  <1>4. \A h \in Handlers : BatchOf(h) = {} /\ ~ Moving(h)
    BY <1>1, <1>2, EmptySet DEF BatchOf, Moving
  <1>5. TypeOK
    BY <1>1, <1>2, EmptySet DEF TypeOK, Init, New, Kinds
  <1>6. Placed
    BY <1>1, <1>3, <1>4 DEF Placed
  <1>7. Ordered
    <2>1. IsInjective(order)
      BY <1>1 DEF IsInjective
    <2> QED
      BY <1>1, <1>2, <2>1, EmptySet DEF Ordered
  <1>8. Owned
    BY <1>1, <1>2, <1>3, <1>4 DEF Owned
  <1>9. ToldTrue
    BY <1>1 DEF ToldTrue
  <1> QED
    BY <1>5, <1>6, <1>7, <1>8, <1>9 DEF Accounted

LEMMA AccountedNext ==
  ASSUME Accounted, [Next]_vars
  PROVE  Accounted'
  <1>1. CASE UNCHANGED vars
    <2>1. TypeOK' /\ Placed'
      <3>1. /\ UNCHANGED <<pool, chain>> /\ Processed' = Processed
            /\ \A h : BatchOf(h)' = BatchOf(h) /\ (Moving(h)' <=> Moving(h))
        BY <1>1 DEF vars, BatchOf, Moving, Processed, TxsOf
      <3>2. TypeOK'
        BY <1>1 DEF vars, Accounted, TypeOK
      <3>3. Placed'
        BY <3>1 DEF Accounted, Placed, TxsOf
      <3> QED
        BY <3>2, <3>3
    <2>2. Ordered'
      BY <1>1 DEF vars, Accounted, Ordered
    <2>3. Owned'
      BY <1>1 DEF vars, Accounted, Owned, BatchOf, Moving
    <2>4. ToldTrue'
      BY <1>1 DEF vars, Accounted, ToldTrue, TxsOf
    <2> QED
      BY <2>1, <2>2, <2>3, <2>4 DEF Accounted
  <1>2. ASSUME NEW h \in Handlers, NEW m \in Methods, NEW t \in Txs,
               Request(h, m, t)
        PROVE  Accounted'
    BY <1>2, RequestStep
  <1>3. ASSUME NEW h \in Handlers, NewBlock(h)
        PROVE  Accounted'
    BY <1>3, NewBlockStep
  <1>4. ASSUME NEW h \in Handlers, Refuse(h)
        PROVE  Accounted'
    BY <1>4, GivingUp DEF Refuse
  <1>5. ASSUME NEW h \in Handlers, BuildFails(h)
        PROVE  Accounted'
    BY <1>5, GivingUp DEF BuildFails
  <1>6. ASSUME NEW h \in Handlers, Step(h), ~ Refuse(h), ~ BuildFails(h)
        PROVE  Accounted'
    BY <1>6, ValidateStep, SubmitAndDrainStep, SubmitStep, DrainStep,
       ReadHeadStep, BuildBlockStep, FinalizedStep DEF Step
  <1> QED
    BY <1>1, <1>2, <1>3, <1>4, <1>5, <1>6 DEF Next

(***************************************************************************)
(* The inductive invariant of submission, however many handlers of         *)
(* author, transaction and dev run at once and whichever builds fail.      *)
(***************************************************************************)
THEOREM SubmissionInvariant == Spec => []Accounted
  <1>1. Init => Accounted
    BY AccountedInit
  <1>2. Accounted /\ [Next]_vars => Accounted'
    BY AccountedNext
  <1> QED
    BY <1>1, <1>2, PTL DEF Spec

(***************************************************************************)
(* A rising sequence repeats nothing and its positions rise.               *)
(***************************************************************************)
LEMMA RisingIsOrdered ==
  ASSUME order \in Seq(Txs), IsInjective(order), NEW s \in Seq(Txs),
         Rises(order, s)
  PROVE  InSubmissionOrder(s) /\ IsInjective(s)
  <1>1. DOMAIN s \subseteq Int /\ DOMAIN order \subseteq Int
    OBVIOUS
  <1>2. \A a \in DOMAIN order : Position(order[a]) = a
    BY DEF Position, IsInjective
  <1>3. ASSUME NEW i \in DOMAIN s, NEW j \in DOMAIN s, i < j
        PROVE  Position(s[i]) < Position(s[j]) /\ s[i] # s[j]
    <2>1. PICK a \in DOMAIN order, b \in DOMAIN order :
             a < b /\ order[a] = s[i] /\ order[b] = s[j]
      BY <1>3 DEF Rises
    <2>2. Position(s[i]) = a /\ Position(s[j]) = b
      BY <1>2, <2>1
    <2> QED
      BY <1>1, <2>1, <2>2
  <1>4. InSubmissionOrder(s)
    BY <1>3 DEF InSubmissionOrder
  <1>5. IsInjective(s)
    BY <1>1, <1>3 DEF IsInjective
  <1> QED
    BY <1>4, <1>5

LEMMA AccountedImplies ==
  ASSUME Accounted
  PROVE  ExtrinsicsAccounted
  <1>1. /\ TypeOK /\ Placed /\ Ordered /\ ToldTrue
        /\ pool \in Seq(Txs) /\ order \in Seq(Txs)
        /\ \A h \in Handlers : call[h].batch \in Seq(Txs)
        /\ \A i \in DOMAIN chain : chain[i].applied \in Seq(Txs)
    <2>1. \A h \in Handlers : call[h].batch \in Seq(Txs)
      BY HandlerFacts DEF Accounted
    <2>2. \A i \in DOMAIN chain : chain[i] \in Block
      BY DEF Accounted, TypeOK
    <2> QED
      BY <2>1, <2>2 DEF Accounted, TypeOK, Block
  <1>2. /\ IsInjective(pool)
        /\ \A h \in Handlers : IsInjective(call[h].batch)
        /\ \A i \in DOMAIN chain : /\ IsInjective(chain[i].applied)
                                   /\ InSubmissionOrder(chain[i].applied)
    BY <1>1, RisingIsOrdered DEF Ordered
  <1>3. ToSet(pool) \cap (Batched \cup Processed) = {}
    BY <1>1 DEF Placed, Batched, BatchOf
  <1>4. ASSUME NEW h \in Handlers, call[h].pc \in {"build", "building"}
        PROVE  /\ ToSet(call[h].batch) \cap Processed = {}
               /\ \A g \in Handlers \ {h} :
                     ToSet(call[h].batch) \cap ToSet(call[g].batch) = {}
    BY <1>1, <1>4 DEF Placed, BatchOf, Moving
  <1>5. OnePlace
    BY <1>1, <1>2, <1>3, <1>4 DEF OnePlace, Placed
  <1>6. BlocksInOrder /\ SubmitProcessed /\ InBlockNotFailed
    BY <1>1, <1>2 DEF BlocksInOrder, SubmitProcessed, InBlockNotFailed, ToldTrue
  <1> QED
    BY <1>5, <1>6 DEF ExtrinsicsAccounted

(***************************************************************************)
(* An extrinsic is in the pool, in one batch or in one block, once; blocks *)
(* apply extrinsics in the order of their submission; a hash names the     *)
(* block that processed the extrinsic, and inBlock or finalized one in     *)
(* which it did not fail (txpool.rs, author.rs, transaction.rs).           *)
(***************************************************************************)
THEOREM ExtrinsicsInPlace == Spec => []ExtrinsicsAccounted
  BY SubmissionInvariant, AccountedImplies, PTL
=============================================================================
