-------------------------- MODULE ForkSessionProofs --------------------------
(***************************************************************************)
(* Proofs about ForkSession, for any number of commands, endpoints, ports  *)
(* and blocks: what a command that succeeds reports is true of its server, *)
(* and endpoints that were given up leave nothing behind.                  *)
(*                                                                         *)
(* The invariant relates each command to each of its processes.  Processes *)
(* move on by themselves, also between two looks of the command that waits *)
(* for them, so what a command knows of its process has to be something    *)
(* that no step of a process takes back: Moved names what these steps keep.*)
(***************************************************************************)
EXTENDS ForkSession, TLAPS

CommandPCs == {"idle", "next", "inside", "polling", "looking", "reading", "giveUp", "done", "failed"}

ProcessPCs == Ended \union Listening \union {"opening", "forking", "funding", "binding"}

CommandRecord == [pc : CommandPCs, detached : BOOLEAN, port : {AnyPort, 1}, attempt : Nat, reported : Nat]

ProcessRecord == [pc : ProcessPCs, detached : BOOLEAN, port : {AnyPort, 1}, probe : Nat \ {0}, bound : Nat,
                  file : {"absent", "empty", "written"}, head : Nat, wrote : SUBSET Nat,
                  building : BOOLEAN, alone : BOOLEAN]

TypeOK ==
    /\ command \in [Commands -> CommandRecord]
    /\ \A s \in Commands : command[s].attempt \in 1..Endpoints[s]
    /\ process \in [Processes -> ProcessRecord]

\* Where a process can be that has written its ready file.
Settled == {"serving", "stopping", "killed", "stopped"}

\* A process that listens has a port, and a ready file is written by such a process only.
Sound(r) ==
    /\ r.pc \in Listening => r.bound # 0
    /\ r.pc = "announcing" => r.detached
    /\ r.file = "written" => r.bound # 0 /\ r.pc \in Settled

\* Attempts to come have no process; those given up have left neither process nor file.
Known(c, a, r) ==
    /\ c.pc \in {"idle", "next"} /\ a = c.attempt => r = NoProcess
    /\ a > c.attempt => r = NoProcess
    /\ c.pc = "failed" \/ a < c.attempt => r.pc \in Ended /\ r.file = "absent"

\* What the command knows of the current one.
Current(c, r) ==
    /\ c.pc = "reading" => r.file = "written"
    /\ c.pc = "done" /\ c.detached => r.bound # 0 /\ c.reported = r.bound /\ r.pc \in Settled

Attached(c, r) == ~c.detached => ~r.detached /\ r.file = "absent"

Linked(c, a, r) == Known(c, a, r) /\ Attached(c, r) /\ (a = c.attempt => Current(c, r))

Mode(c) ==
    /\ c.pc = "idle" => c.attempt = 1
    /\ c.pc = "inside" => ~c.detached
    /\ c.pc \in {"polling", "looking", "reading", "giveUp"} => c.detached

SessionInv ==
    /\ TypeOK
    /\ \A p \in Processes : Sound(process[p])
    /\ \A s \in Commands : Mode(command[s])
    /\ \A s \in Commands : \A a \in 1..Endpoints[s] : Linked(command[s], a, process[<<s, a>>])

(***************************************************************************)
(* Lemmas                                                                  *)
(***************************************************************************)

\* The processes are those of the commands' attempts.
LEMMA ProcessesOfCommands ==
    /\ \A s \in Commands : \A a \in 1..Endpoints[s] : <<s, a>> \in Processes
    /\ \A p \in Processes : \E s \in Commands : \E a \in 1..Endpoints[s] : p = <<s, a>>
BY DEF Processes

\* What no step of a process takes back.
Moved(q, r) ==
    /\ q.pc \notin Ended
    /\ r.detached => q.detached
    /\ ~q.detached /\ q.file = "absent" => r.file = "absent"
    /\ q.file = "written" => r.file = "written"
    /\ q.pc \in Settled => r.pc \in Settled /\ r.bound = q.bound

\* What a command knows of a process stays true when the process moves.
LEMMA MovedStaysLinked ==
    ASSUME NEW c \in CommandRecord, NEW a \in Nat, NEW q \in ProcessRecord, NEW r \in ProcessRecord,
           Linked(c, a, q), Moved(q, r), Sound(q)
    PROVE  Linked(c, a, r)
<1>1. ~(a > c.attempt) /\ ~(a < c.attempt) /\ c.pc \notin {"failed", "idle", "next"}
    BY DEF Linked, Known, Moved, NoProcess, Ended, CommandRecord
<1>2. Known(c, a, r)
    BY <1>1 DEF Known
<1>3. Attached(c, r)
    BY DEF Linked, Attached, Moved
<1>4. ASSUME a = c.attempt PROVE Current(c, r)
    BY <1>4 DEF Linked, Current, Moved
<1> QED
    BY <1>2, <1>3, <1>4 DEF Linked

\* A step in which processes move, and no command.
LEMMA ProcessesMove ==
    ASSUME SessionInv, command' = command, process' \in [Processes -> ProcessRecord],
           \A p \in Processes : \/ process'[p] = process[p]
                                \/ Moved(process[p], process'[p]) /\ Sound(process'[p])
    PROVE  SessionInv'
<1>1. TypeOK'
    BY DEF SessionInv, TypeOK
<1>2. \A p \in Processes : Sound(process'[p])
    BY DEF SessionInv
<1>3. \A s \in Commands : Mode(command'[s])
    BY DEF SessionInv
<1>4. ASSUME NEW s \in Commands, NEW a \in 1..Endpoints[s]
      PROVE  Linked(command'[s], a, process'[<<s, a>>])
    <2>1. <<s, a>> \in Processes
        BY ProcessesOfCommands
    <2>2. /\ process[<<s, a>>] \in ProcessRecord /\ process'[<<s, a>>] \in ProcessRecord
          /\ command[s] \in CommandRecord
        BY <2>1 DEF SessionInv, TypeOK
    <2>3. Linked(command[s], a, process[<<s, a>>]) /\ Sound(process[<<s, a>>])
        BY <2>1 DEF SessionInv
    <2>4. a \in Nat
        BY SessionAssumption
    <2>5. CASE process'[<<s, a>>] = process[<<s, a>>]
        BY <2>3, <2>5
    <2>6. CASE Moved(process[<<s, a>>], process'[<<s, a>>])
        BY <2>2, <2>3, <2>4, <2>6, MovedStaysLinked
    <2> QED
        BY <2>1, <2>5, <2>6
<1> QED
    BY <1>1, <1>2, <1>3, <1>4 DEF SessionInv

\* A step of one process.
LEMMA ProcessMoves ==
    ASSUME SessionInv, command' = command, NEW p \in Processes, NEW r \in ProcessRecord,
           process' = [process EXCEPT ![p] = r], Moved(process[p], r), Sound(r)
    PROVE  SessionInv'
<1>1. process \in [Processes -> ProcessRecord]
    BY DEF SessionInv, TypeOK
<1>2. process' \in [Processes -> ProcessRecord]
    BY <1>1
<1>3. \A q \in Processes : \/ process'[q] = process[q]
                           \/ Moved(process[q], process'[q]) /\ Sound(process'[q])
    BY <1>1
<1> QED
    BY <1>2, <1>3, ProcessesMove

\* A step of a command, which may change its current process.
LEMMA CommandMoves ==
    ASSUME SessionInv, NEW s \in Commands, NEW c \in CommandRecord, NEW r \in ProcessRecord,
           command' = [command EXCEPT ![s] = c], process' = [process EXCEPT ![Of(s)] = r],
           c.attempt \in 1..Endpoints[s], Mode(c), Sound(r),
           \A a \in 1..Endpoints[s] :
               Linked(c, a, IF a = command[s].attempt THEN r ELSE process[<<s, a>>])
    PROVE  SessionInv'
<1>1. command \in [Commands -> CommandRecord] /\ process \in [Processes -> ProcessRecord]
      /\ \A t \in Commands : command[t].attempt \in 1..Endpoints[t]
    BY DEF SessionInv, TypeOK
<1>2. Of(s) \in Processes
    BY <1>1, ProcessesOfCommands DEF Of
<1>3. TypeOK'
    BY <1>1 DEF TypeOK
<1>4. \A p \in Processes : Sound(process'[p])
    BY <1>1 DEF SessionInv
<1>5. \A t \in Commands : Mode(command'[t])
    BY <1>1 DEF SessionInv
<1>6. ASSUME NEW t \in Commands, NEW a \in 1..Endpoints[t]
      PROVE  Linked(command'[t], a, process'[<<t, a>>])
    <2>1. <<t, a>> \in Processes
        BY ProcessesOfCommands
    <2>2. CASE t # s
        <3>1. command'[t] = command[t] /\ process'[<<t, a>>] = process[<<t, a>>]
            BY <1>1, <2>1, <2>2 DEF Of
        <3> QED
            BY <3>1 DEF SessionInv
    <2>3. CASE t = s
        <3>1. command'[t] = c
            BY <1>1, <2>3
        <3>2. process'[<<t, a>>] = IF a = command[s].attempt THEN r ELSE process[<<s, a>>]
            BY <1>1, <2>1, <2>3 DEF Of
        <3> QED
            BY <2>3, <3>1, <3>2
    <2> QED
        BY <2>2, <2>3
<1> QED
    BY <1>3, <1>4, <1>5, <1>6 DEF SessionInv

LEMMA NoProcessTyped == NoProcess \in ProcessRecord
<1>1. "none" \in ProcessPCs /\ AnyPort \in {AnyPort, 1} /\ 1 \in Nat \ {0} /\ 0 \in Nat
    BY DEF ProcessPCs, Ended
<1>2. {} \in SUBSET Nat /\ "absent" \in {"absent", "empty", "written"} /\ FALSE \in BOOLEAN
    OBVIOUS
<1> QED
    BY <1>1, <1>2 DEF NoProcess, ProcessRecord

LEMMA NoCommandTyped == NoCommand \in CommandRecord
<1>1. "idle" \in CommandPCs /\ AnyPort \in {AnyPort, 1} /\ FALSE \in BOOLEAN
    BY DEF CommandPCs
<1> QED
    BY <1>1 DEF NoCommand, CommandRecord

\* What a process leaves when it ends.
LEMMA EndMoves ==
    ASSUME SessionInv, command' = command, NEW p \in Processes, NEW pc \in Ended,
           Running(p), EndProcess(p, pc),
           process[p].pc \in Settled \union {"bound", "announcing"} => pc \in Settled
    PROVE  SessionInv'
<1> DEFINE q == process[p]
           r == End(process[p], pc)
<1>1. q \in ProcessRecord /\ Sound(q)
    BY DEF SessionInv, TypeOK
<1>2. r \in ProcessRecord
    <2>2. pc \in ProcessPCs
        BY DEF ProcessPCs
    <2>3. q.bound \in Nat /\ q.file \in {"absent", "empty", "written"} /\ q.alone \in BOOLEAN
        BY <1>1 DEF ProcessRecord
    <2>4. \A f \in {"absent", "empty", "written"}, b \in Nat, alone \in BOOLEAN :
              [NoProcess EXCEPT !.pc = pc, !.file = f, !.bound = b, !.alone = alone] \in ProcessRecord
        BY <2>2, NoProcessTyped DEF ProcessRecord
    <2> QED
        BY <2>3, <2>4, Zenon DEF End
<1>3. r.pc = pc /\ r.file = q.file /\ r.bound = q.bound /\ r.detached = FALSE
    BY DEF End, NoProcess
<1>4. Moved(q, r)
    BY <1>3 DEF Moved, Running
<1>5. Sound(r)
    BY <1>1, <1>3 DEF Sound, Ended, Listening
<1> QED
    BY <1>2, <1>4, <1>5, ProcessMoves DEF EndProcess

\* Steps before the ready file: neither file, port nor mode changes, unless a port is bound.
LEMMA StartMoves ==
    ASSUME SessionInv, command' = command, NEW p \in Processes, NEW r \in ProcessRecord,
           process[p].pc \in {"opening", "forking", "funding", "binding"},
           process' = [process EXCEPT ![p] = r],
           r.detached = process[p].detached, r.file = process[p].file,
           r.pc # "announcing", r.pc \in Listening => r.bound # 0
    PROVE  SessionInv'
<1>1. process[p] \in ProcessRecord /\ Sound(process[p])
    BY DEF SessionInv, TypeOK
<1>2. process[p].file # "written"
    BY <1>1 DEF Sound, Settled
<1>3. Moved(process[p], r)
    BY <1>2 DEF Moved, Ended, Settled
<1>4. Sound(r)
    BY <1>2 DEF Sound
<1> QED
    BY <1>3, <1>4, ProcessMoves

\* A process that ends while it starts.
LEMMA RefuseMoves ==
    ASSUME SessionInv, command' = command, NEW p \in Processes, Refuse(p),
           process[p].pc \in {"opening", "forking", "funding", "binding"}
    PROVE  SessionInv'
<1>1. Running(p)
    BY DEF Running, Ended
<1> QED
    BY <1>1, EndMoves DEF Refuse, Ended, Settled

\* A process whose program counter alone moves while it starts.
LEMMA StartStepMoves ==
    ASSUME SessionInv, command' = command, NEW p \in Processes,
           process[p].pc \in {"opening", "forking", "funding", "binding"},
           NEW pc \in {"forking", "funding", "binding"}, Process(p, pc)
    PROVE  SessionInv'
<1> DEFINE r == [process[p] EXCEPT !.pc = pc]
<1>1. process \in [Processes -> ProcessRecord]
    BY DEF SessionInv, TypeOK
<1>2. r \in ProcessRecord
    BY <1>1 DEF ProcessRecord, ProcessPCs
<1>3. process' = [process EXCEPT ![p] = r]
    BY <1>1 DEF Process
<1>4. r.pc = pc /\ r.detached = process[p].detached /\ r.file = process[p].file
    BY <1>1 DEF ProcessRecord
<1> QED
    BY <1>2, <1>3, <1>4, StartMoves DEF Listening

(***************************************************************************)
(* The steps of a process                                                  *)
(***************************************************************************)
LEMMA OpenCacheKeeps ==
    ASSUME SessionInv, NEW p \in Processes, OpenCache(p)
    PROVE  SessionInv'
<1>1. process \in [Processes -> ProcessRecord]
    BY DEF SessionInv, TypeOK
<1>2. PICK alone \in BOOLEAN :
          process' = [q \in Processes |->
             IF q = p THEN [process[p] EXCEPT !.pc = "forking", !.alone = alone]
             ELSE IF Running(q) THEN [process[q] EXCEPT !.alone = FALSE]
             ELSE process[q]]
    BY Zenon DEF OpenCache
<1>3. ASSUME NEW q \in Processes
      PROVE  /\ process'[q] \in ProcessRecord
             /\ \/ process'[q] = process[q]
                \/ Moved(process[q], process'[q]) /\ Sound(process'[q])
    <2>1. process[q] \in ProcessRecord /\ Sound(process[q])
        BY <1>1 DEF SessionInv
    <2>2. CASE q = p
        <3> DEFINE r == [process[p] EXCEPT !.pc = "forking", !.alone = alone]
        <3>1. process'[q] = r
            BY <1>2, <2>2
        <3>2. r \in ProcessRecord
            BY <2>1, <2>2 DEF ProcessRecord, ProcessPCs
        <3>3. r.pc = "forking" /\ r.detached = process[p].detached /\ r.file = process[p].file
            BY <2>1, <2>2 DEF ProcessRecord
        <3>4. process[p].pc = "opening"
            BY DEF OpenCache
        <3>5. process[p].file # "written"
            BY <2>1, <2>2, <3>4 DEF Sound, Settled
        <3> HIDE DEF r
        <3>6. Moved(process[p], r)
            BY <3>3, <3>4, <3>5 DEF Moved, Ended, Settled
        <3>7. Sound(r)
            BY <3>3, <3>5 DEF Sound, Listening
        <3> QED
            BY <2>2, <3>1, <3>2, <3>6, <3>7
    <2>3. CASE q # p /\ Running(q)
        <3> DEFINE r == [process[q] EXCEPT !.alone = FALSE]
        <3>1. process'[q] = r
            BY <1>2, <2>3
        <3>2. r \in ProcessRecord
            BY <2>1 DEF ProcessRecord
        <3>3. /\ r.pc = process[q].pc /\ r.detached = process[q].detached
              /\ r.file = process[q].file /\ r.bound = process[q].bound
            BY <2>1 DEF ProcessRecord
        <3> HIDE DEF r
        <3>4. Moved(process[q], r)
            BY <2>3, <3>3 DEF Moved, Running
        <3>5. Sound(r)
            BY <2>1, <3>3 DEF Sound
        <3> QED
            BY <3>1, <3>2, <3>4, <3>5
    <2>4. CASE q # p /\ ~Running(q)
        BY <1>2, <2>1, <2>4
    <2> QED
        BY <2>2, <2>3, <2>4
<1>4. process' \in [Processes -> ProcessRecord]
    <2>1. process' = [q \in Processes |-> process'[q]]
        BY <1>2
    <2> QED
        BY <1>3, <2>1
<1>5. command' = command
    BY DEF OpenCache
<1> QED
    BY <1>3, <1>4, <1>5, ProcessesMove

LEMMA BindKeeps ==
    ASSUME SessionInv, NEW p \in Processes, Bind(p)
    PROVE  SessionInv'
<1>1. process \in [Processes -> ProcessRecord] /\ process[p] \in ProcessRecord
    BY DEF SessionInv, TypeOK
<1>2. command' = command /\ process[p].pc = "binding"
    BY DEF Bind
<1>3. ASSUME NEW n \in Nat \ {0}, BindTo(p, n)
      PROVE  SessionInv'
    <2> DEFINE r == [process[p] EXCEPT !.pc = "bound", !.bound = n]
    <2>1. r \in ProcessRecord
        BY <1>1 DEF ProcessRecord, ProcessPCs, Listening
    <2>2. process' = [process EXCEPT ![p] = r]
        BY <1>1, <1>3 DEF BindTo
    <2>3. r.pc = "bound" /\ r.bound = n /\ r.detached = process[p].detached /\ r.file = process[p].file
        BY <1>1 DEF ProcessRecord
    <2> QED
        BY <1>2, <2>1, <2>2, <2>3, StartMoves
<1>4. ASSUME process' = [process EXCEPT ![p].probe = @ + 1]
      PROVE  SessionInv'
    <2> DEFINE r == [process[p] EXCEPT !.probe = process[p].probe + 1]
    <2>1. r \in ProcessRecord
        BY <1>1 DEF ProcessRecord
    <2>2. process' = [process EXCEPT ![p] = r]
        BY <1>1, <1>4
    <2>3. r.pc = "binding" /\ r.detached = process[p].detached /\ r.file = process[p].file
        BY <1>1, <1>2 DEF ProcessRecord
    <2> QED
        BY <1>2, <2>1, <2>2, <2>3, StartMoves DEF Listening
<1>5. ASSUME Refuse(p)
      PROVE  SessionInv'
    BY <1>2, <1>5, RefuseMoves
<1>6. process[p].port \in {0, 1} /\ process[p].probe \in Nat \ {0}
    BY <1>1 DEF ProcessRecord, AnyPort
<1>7. \/ process[p].port # AnyPort /\ BindTo(p, process[p].port)
      \/ BindTo(p, process[p].probe)
      \/ process' = [process EXCEPT ![p].probe = @ + 1]
      \/ \E n \in 1..Ports : BindTo(p, n)
      \/ Refuse(p)
    BY Zenon DEF Bind
<1>8. 1..Ports \subseteq Nat \ {0}
    BY SessionAssumption
<1> QED
    BY <1>3, <1>4, <1>5, <1>6, <1>7, <1>8 DEF AnyPort

LEMMA ReadyFileKeeps ==
    ASSUME SessionInv, NEW p \in Processes, CreateReadyFile(p) \/ FillReadyFile(p)
    PROVE  SessionInv'
<1> DEFINE q == process[p]
<1>1. process \in [Processes -> ProcessRecord] /\ q \in ProcessRecord /\ Sound(q)
    BY DEF SessionInv, TypeOK
<1>2. command' = command /\ q.pc \in {"bound", "announcing"}
    BY DEF CreateReadyFile, FillReadyFile
<1>3. PICK pc \in {"announcing", "serving"}, file \in {"absent", "empty", "written"} :
          /\ process' = [process EXCEPT ![p].pc = pc, ![p].file = file]
          /\ pc = "announcing" => q.detached
          /\ file = "written" => pc = "serving"
          /\ ~q.detached => file = "absent"
    <2>1. CASE CreateReadyFile(p) /\ q.detached
        BY <2>1 DEF CreateReadyFile
    <2>2. CASE CreateReadyFile(p) /\ ~q.detached
        BY <2>2 DEF CreateReadyFile
    <2>3. CASE FillReadyFile(p)
        BY <1>1, <2>3 DEF FillReadyFile, Sound
    <2> QED
        BY <2>1, <2>2, <2>3
<1> DEFINE r == [q EXCEPT !.pc = pc, !.file = file]
<1>4. r \in ProcessRecord
    BY <1>1 DEF ProcessRecord, ProcessPCs, Listening
<1>5. process' = [process EXCEPT ![p] = r]
    BY <1>1, <1>3
<1>6. r.pc = pc /\ r.file = file /\ r.bound = q.bound /\ r.detached = q.detached
    BY <1>1 DEF ProcessRecord
<1>7. q.file # "written" /\ q.bound # 0
    BY <1>1, <1>2 DEF Sound, Settled, Listening
<1> HIDE DEF r
<1>8. Moved(q, r)
    BY <1>2, <1>3, <1>6, <1>7 DEF Moved, Ended, Settled
<1>9. Sound(r)
    BY <1>3, <1>6, <1>7 DEF Sound, Settled
<1> QED
    BY <1>2, <1>4, <1>5, <1>8, <1>9, ProcessMoves

\* Steps that change neither mode, port nor file of a process that listens.
LEMMA ListeningKeeps ==
    ASSUME SessionInv, command' = command, NEW p \in Processes, NEW r \in ProcessRecord,
           Running(p), process' = [process EXCEPT ![p] = r],
           r.detached = process[p].detached, r.file = process[p].file, r.bound = process[p].bound,
           \/ r.pc = process[p].pc
           \/ process[p].pc = "serving" /\ r.pc = "stopping"
    PROVE  SessionInv'
<1>1. process[p] \in ProcessRecord /\ Sound(process[p])
    BY DEF SessionInv, TypeOK
<1>2. Moved(process[p], r)
    BY DEF Moved, Running, Settled
<1>3. Sound(r)
    BY <1>1 DEF Sound, Settled, Listening
<1> QED
    BY <1>2, <1>3, ProcessMoves

LEMMA ServingKeeps ==
    ASSUME SessionInv, NEW p \in Processes,
           Interrupt(p) \/ StopAndClear(p) \/ BeginBuild(p) \/ Commit(p) \/ CleanNode(p) \/ Kill(p)
    PROVE  SessionInv'
<1>1. process \in [Processes -> ProcessRecord] /\ process[p] \in ProcessRecord
    BY DEF SessionInv, TypeOK
<1>2. CASE Interrupt(p)
    <2> DEFINE r == [process[p] EXCEPT !.pc = "stopping"]
    <2>1. r \in ProcessRecord
        BY <1>1 DEF ProcessRecord, ProcessPCs, Listening
    <2>2. /\ process' = [process EXCEPT ![p] = r] /\ command' = command
          /\ process[p].pc = "serving"
        BY <1>1, <1>2 DEF Interrupt, Process
    <2>3. /\ r.pc = "stopping" /\ r.detached = process[p].detached /\ r.file = process[p].file
          /\ r.bound = process[p].bound
        BY <1>1 DEF ProcessRecord
    <2>4. Running(p)
        BY <2>2 DEF Running, Ended
    <2> QED
        BY <2>1, <2>2, <2>3, <2>4, ListeningKeeps
<1>3. CASE StopAndClear(p)
    <2>1. Running(p) /\ "stopped" \in Ended /\ "stopped" \in Settled
        BY <1>3 DEF StopAndClear, Running, Ended, Settled
    <2> QED
        BY <1>3, <2>1, EndMoves DEF StopAndClear
<1>4. CASE BeginBuild(p)
    <2> DEFINE r == [process[p] EXCEPT !.building = TRUE]
    <2>1. r \in ProcessRecord
        BY <1>1 DEF ProcessRecord
    <2>2. /\ process' = [process EXCEPT ![p] = r] /\ command' = command
          /\ process[p].pc \in Listening
        BY <1>1, <1>4 DEF BeginBuild
    <2>3. /\ r.pc = process[p].pc /\ r.detached = process[p].detached /\ r.file = process[p].file
          /\ r.bound = process[p].bound
        BY <1>1 DEF ProcessRecord
    <2>4. Running(p)
        BY <2>2 DEF Running, Ended, Listening
    <2> QED
        BY <2>1, <2>2, <2>3, <2>4, ListeningKeeps
<1>5. CASE Commit(p)
    <2> DEFINE n == process[p].head + 1
    <2>1. PICK wrote \in SUBSET Nat :
              process' = [process EXCEPT ![p].building = FALSE, ![p].head = n, ![p].wrote = wrote]
        <3>1. process[p].wrote \in SUBSET Nat /\ n \in Nat
            BY <1>1 DEF ProcessRecord
        <3>2. CASE process' = [process EXCEPT ![p].building = FALSE, ![p].head = n]
            <4>1. process' = [process EXCEPT ![p].building = FALSE, ![p].head = n, ![p].wrote = process[p].wrote]
                BY <1>1, <3>2 DEF ProcessRecord
            <4> QED
                BY <3>1, <4>1
        <3>3. CASE process' = [process EXCEPT ![p].building = FALSE, ![p].head = n,
                                              ![p].wrote = @ \union {n}]
            <4>1. process[p].wrote \union {n} \in SUBSET Nat
                BY <3>1
            <4> QED
                BY <3>3, <4>1
        <3> QED
            BY <1>5, <3>2, <3>3 DEF Commit
    <2> DEFINE r == [process[p] EXCEPT !.building = FALSE, !.head = n, !.wrote = wrote]
    <2>2. r \in ProcessRecord
        <3>1. n \in Nat
            BY <1>1 DEF ProcessRecord
        <3> HIDE DEF n
        <3> QED
            BY <1>1, <3>1 DEF ProcessRecord
    <2>3. process' = [process EXCEPT ![p] = r] /\ command' = command /\ Running(p)
        BY <1>1, <1>5, <2>1 DEF Commit
    <2>4. /\ r.pc = process[p].pc /\ r.detached = process[p].detached /\ r.file = process[p].file
          /\ r.bound = process[p].bound
        BY <1>1 DEF ProcessRecord
    <2> QED
        BY <2>2, <2>3, <2>4, ListeningKeeps
<1>6. CASE CleanNode(p) \/ Kill(p)
    <2>1. Running(p) /\ EndProcess(p, "killed") /\ command' = command
        BY <1>6 DEF CleanNode, Kill, ForkProcesses
    <2>2. "killed" \in Ended /\ "killed" \in Settled
        BY DEF Ended, Settled
    <2> QED
        BY <2>1, <2>2, EndMoves
<1> QED
    BY <1>2, <1>3, <1>4, <1>5, <1>6

LEMMA ServerKeeps ==
    ASSUME SessionInv, NEW p \in Processes, StartServer(p)
    PROVE  SessionInv'
<1>1. CASE OpenCache(p)
    BY <1>1, OpenCacheKeeps
<1>2. CASE ForkChain(p) \/ FundAccounts(p)
    <2>1. command' = command /\ process[p].pc \in {"forking", "funding"}
        BY <1>2 DEF ForkChain, FundAccounts
    <2>2. Process(p, "binding") \/ Process(p, "funding") \/ Refuse(p)
        BY <1>2 DEF ForkChain, FundAccounts
    <2> QED
        BY <2>1, <2>2, StartStepMoves, RefuseMoves
<1>3. CASE Bind(p)
    BY <1>3, BindKeeps
<1>4. CASE CreateReadyFile(p) \/ FillReadyFile(p)
    BY <1>4, ReadyFileKeeps
<1> QED
    BY <1>1, <1>2, <1>3, <1>4 DEF StartServer

(***************************************************************************)
(* The steps of a command                                                  *)
(***************************************************************************)

\* What holds of the records of a command and its current process.
LEMMA OfCommand ==
    ASSUME SessionInv, NEW s \in Commands
    PROVE  /\ command \in [Commands -> CommandRecord] /\ process \in [Processes -> ProcessRecord]
           /\ command[s] \in CommandRecord /\ command[s].attempt \in 1..Endpoints[s]
           /\ Of(s) \in Processes /\ process[Of(s)] \in ProcessRecord
           /\ Mode(command[s]) /\ Sound(process[Of(s)])
           /\ Linked(command[s], command[s].attempt, process[Of(s)])
           /\ \A a \in 1..Endpoints[s] : /\ a \in Nat
                                         /\ process[<<s, a>>] \in ProcessRecord
                                         /\ Linked(command[s], a, process[<<s, a>>])
<1>1. command[s].attempt \in 1..Endpoints[s]
    BY DEF SessionInv, TypeOK
<1>2. Of(s) \in Processes
    BY <1>1, ProcessesOfCommands DEF Of
<1>3. Linked(command[s], command[s].attempt, process[Of(s)])
    BY <1>1 DEF SessionInv, Of
<1>4. \A a \in 1..Endpoints[s] : a \in Nat
    BY SessionAssumption
<1>5. \A a \in 1..Endpoints[s] : process[<<s, a>>] \in ProcessRecord
    BY ProcessesOfCommands DEF SessionInv, TypeOK
<1> QED
    BY <1>1, <1>2, <1>3, <1>4, <1>5 DEF SessionInv, TypeOK

\* Another program counter, that of a command whose current process has been started.
LEMMA GoOn ==
    ASSUME SessionInv, NEW s \in Commands, NEW pc \in CommandPCs, Command(s, pc), process' = process,
           command[s].pc \notin {"idle", "next", "done", "failed"},
           pc \notin {"idle", "next"},
           pc = "inside" => ~command[s].detached,
           pc \in {"polling", "looking", "reading", "giveUp"} => command[s].detached,
           pc = "reading" => process[Of(s)].file = "written",
           pc = "done" => ~command[s].detached,
           pc = "failed" => process[Of(s)].pc \in Ended /\ process[Of(s)].file = "absent"
    PROVE  SessionInv'
<1> DEFINE c == [command[s] EXCEPT !.pc = pc]
           r == process[Of(s)]
<1>1. c \in CommandRecord /\ command' = [command EXCEPT ![s] = c]
    BY OfCommand DEF CommandRecord, Command
<1>2. /\ c.pc = pc /\ c.attempt = command[s].attempt /\ c.detached = command[s].detached
      /\ c.reported = command[s].reported
    BY OfCommand DEF CommandRecord
<1>3. r \in ProcessRecord /\ process' = [process EXCEPT ![Of(s)] = r] /\ Sound(r)
    BY OfCommand
<1>4. c.attempt \in 1..Endpoints[s]
    BY <1>2, OfCommand
<1> HIDE DEF c
<1>5. Mode(c)
    BY <1>2 DEF Mode
<1>6. ASSUME NEW a \in 1..Endpoints[s]
      PROVE  Linked(c, a, IF a = command[s].attempt THEN r ELSE process[<<s, a>>])
    <2>1. (IF a = command[s].attempt THEN r ELSE process[<<s, a>>]) = process[<<s, a>>]
        BY DEF Of
    <2> DEFINE q == process[<<s, a>>]
    <2>2. Linked(command[s], a, q) /\ a \in Nat /\ command[s].attempt \in Nat
        BY OfCommand DEF CommandRecord
    <2>3. a = command[s].attempt => q = r
        BY DEF Of
    <2> HIDE DEF q, r
    <2>4. Attached(c, q)
        BY <1>2, <2>2 DEF Linked, Attached
    <2>5. a = c.attempt => Current(c, q)
        BY <1>2, <2>3 DEF Current, r
    <2>6. Known(c, a, q)
        <3>1. a > c.attempt => q = NoProcess
            BY <1>2, <2>2 DEF Linked, Known
        <3>2. a < c.attempt => q.pc \in Ended /\ q.file = "absent"
            BY <1>2, <2>2 DEF Linked, Known
        <3>3. c.pc = "failed" => q.pc \in Ended /\ q.file = "absent"
            <4>1. NoProcess.pc \in Ended /\ NoProcess.file = "absent"
                BY DEF NoProcess, Ended
            <4>2. a < c.attempt \/ a = c.attempt \/ a > c.attempt
                BY <1>2, <2>2
            <4> QED
                BY <1>2, <2>3, <3>1, <3>2, <4>1, <4>2 DEF r
        <3> QED
            BY <1>2, <3>1, <3>2, <3>3 DEF Known
    <2> QED
        BY <2>1, <2>4, <2>5, <2>6 DEF Linked, q
<1> QED
    BY <1>1, <1>3, <1>4, <1>5, <1>6, CommandMoves

\* The attempt has ended without a file: the next one, or failure.
LEMMA TryNextKeeps ==
    ASSUME SessionInv, NEW s \in Commands, NEW r \in ProcessRecord, TryNext(s),
           process' = [process EXCEPT ![Of(s)] = r], Sound(r),
           command[s].pc \in {"giveUp", "inside"},
           r.pc \in Ended, r.file = "absent", Attached(command[s], r)
    PROVE  SessionInv'
<1>1. PICK c \in CommandRecord :
          /\ command' = [command EXCEPT ![s] = c]
          /\ c.detached = command[s].detached
          /\ c.attempt \in 1..Endpoints[s]
          /\ \/ c.pc = "next" /\ c.attempt = command[s].attempt + 1
             \/ c.pc = "failed" /\ c.attempt = command[s].attempt
    <2>1. command[s] \in CommandRecord /\ command[s].attempt \in 1..Endpoints[s] /\ Endpoints[s] \in Nat
        BY OfCommand, SessionAssumption
    <2>2. CASE command[s].attempt < Endpoints[s]
        <3> DEFINE n == command[s].attempt + 1
                   c == [command[s] EXCEPT !.pc = "next", !.attempt = n]
        <3>1. n \in Nat /\ n \in 1..Endpoints[s]
            BY <2>1, <2>2
        <3>2. command' = [command EXCEPT ![s] = c]
            BY <2>2 DEF TryNext
        <3> HIDE DEF n
        <3>3. c \in CommandRecord
            BY <2>1, <3>1 DEF CommandRecord, CommandPCs
        <3>4. c.pc = "next" /\ c.attempt = n /\ c.detached = command[s].detached
            BY <2>1 DEF CommandRecord
        <3> HIDE DEF c
        <3> QED
            BY <3>1, <3>2, <3>3, <3>4 DEF n
    <2>3. CASE ~(command[s].attempt < Endpoints[s])
        <3> DEFINE c == [command[s] EXCEPT !.pc = "failed"]
        <3>1. command' = [command EXCEPT ![s] = c]
            BY <2>3 DEF TryNext
        <3>2. c \in CommandRecord
            BY <2>1 DEF CommandRecord, CommandPCs
        <3>3. c.pc = "failed" /\ c.attempt = command[s].attempt /\ c.detached = command[s].detached
            BY <2>1 DEF CommandRecord
        <3> HIDE DEF c
        <3> QED
            BY <2>1, <3>1, <3>2, <3>3
    <2> QED
        BY <2>2, <2>3
<1>2. Mode(c)
    BY <1>1 DEF Mode
<1>3. ASSUME NEW a \in 1..Endpoints[s]
      PROVE  Linked(c, a, IF a = command[s].attempt THEN r ELSE process[<<s, a>>])
    <2> DEFINE old == process[<<s, a>>]
               q == IF a = command[s].attempt THEN r ELSE old
    <2>1. a \in Nat /\ command[s].attempt \in Nat /\ Linked(command[s], a, old)
        BY OfCommand DEF CommandRecord
    <2> HIDE DEF old
    <2>2. Attached(c, q)
        BY <1>1, <2>1 DEF Linked, Attached
    <2>3. Current(c, q)
        BY <1>1 DEF Current
    <2>4. Known(c, a, q)
        <3>1. CASE a = command[s].attempt
            <4>1. q = r
                BY <3>1
            <4> HIDE DEF q
            <4> QED
                BY <1>1, <2>1, <3>1, <4>1 DEF Known
        <3>2. CASE a > command[s].attempt
            <4>1. q = NoProcess
                BY <2>1, <3>2 DEF Linked, Known
            <4> HIDE DEF q
            <4>2. NoProcess.pc \in Ended /\ NoProcess.file = "absent"
                BY DEF NoProcess, Ended
            <4> QED
                BY <4>1, <4>2 DEF Known
        <3>3. CASE a < command[s].attempt
            <4>1. q.pc \in Ended /\ q.file = "absent"
                BY <2>1, <3>3 DEF Linked, Known
            <4> HIDE DEF q
            <4>2. ~(a > c.attempt) /\ a # c.attempt
                BY <1>1, <2>1, <3>3
            <4> QED
                BY <4>1, <4>2 DEF Known
        <3> QED
            BY <2>1, <3>1, <3>2, <3>3
    <2> QED
        BY <2>2, <2>3, <2>4 DEF Linked, old
<1> QED
    BY <1>1, <1>2, <1>3, CommandMoves

\* Before it runs a command knows that it has no process.
LEMMA ExecuteKeeps ==
    ASSUME SessionInv, NEW s \in Commands, NEW detached \in BOOLEAN, NEW port \in {AnyPort, 1},
           Execute(s, detached, port)
    PROVE  SessionInv'
<1>1. /\ command[s].pc = "idle" /\ command[s].attempt = 1 /\ process' = process
      /\ command[s] \in CommandRecord
    BY OfCommand DEF Execute, Mode
<1>2. 1 \in 1..Endpoints[s]
    BY SessionAssumption
<1>3. PICK c \in CommandRecord : /\ command' = [command EXCEPT ![s] = c]
                                 /\ c.attempt = 1
                                 /\ c.pc \in {"next", "failed"}
    <2>1. CASE Command(s, "failed")
        <3> DEFINE c == [command[s] EXCEPT !.pc = "failed"]
        <3>1. c \in CommandRecord /\ c.pc = "failed" /\ c.attempt = 1
            BY <1>1 DEF CommandRecord, CommandPCs
        <3>2. command' = [command EXCEPT ![s] = c]
            BY <2>1, OfCommand DEF Command
        <3> QED
            BY <3>1, <3>2
    <2>2. CASE ~Command(s, "failed")
        <3> DEFINE c == [NoCommand EXCEPT !.pc = "next", !.detached = detached, !.port = port]
        <3>1. NoCommand.attempt = 1
            BY DEF NoCommand
        <3>2. c \in CommandRecord /\ c.pc = "next" /\ c.attempt = 1
            BY <3>1, NoCommandTyped DEF CommandRecord, CommandPCs
        <3>3. command' = [command EXCEPT ![s] = c]
            BY <2>2 DEF Execute
        <3> QED
            BY <3>2, <3>3
    <2> QED
        BY <2>1, <2>2
<1>4. Mode(c)
    BY <1>3 DEF Mode
<1>5. process' = [process EXCEPT ![Of(s)] = process[Of(s)]]
    BY <1>1, OfCommand
<1>6. ASSUME NEW a \in 1..Endpoints[s]
      PROVE  Linked(c, a, IF a = command[s].attempt THEN process[Of(s)] ELSE process[<<s, a>>])
    <2>1. (IF a = command[s].attempt THEN process[Of(s)] ELSE process[<<s, a>>]) = process[<<s, a>>]
        BY DEF Of
    <2>2. Linked(command[s], a, process[<<s, a>>]) /\ a \in Nat /\ a >= 1
        BY OfCommand, SessionAssumption
    <2>3. process[<<s, a>>] = NoProcess
        BY <1>1, <2>2 DEF Linked, Known
    <2>4. /\ NoProcess.pc \in Ended /\ NoProcess.file = "absent" /\ ~NoProcess.detached
        BY DEF NoProcess, Ended
    <2>5. Known(c, a, NoProcess) /\ Attached(c, NoProcess) /\ Current(c, NoProcess)
        BY <1>3, <2>4 DEF Known, Attached, Current
    <2> QED
        BY <2>1, <2>3, <2>5 DEF Linked
<1>7. process[Of(s)] \in ProcessRecord /\ Sound(process[Of(s)])
    BY OfCommand
<1> QED
    BY <1>2, <1>3, <1>4, <1>5, <1>6, <1>7, CommandMoves

LEMMA SpawnKeeps ==
    ASSUME SessionInv, NEW s \in Commands, Spawn(s)
    PROVE  SessionInv'
<1> DEFINE pc == IF command[s].detached THEN "polling" ELSE "inside"
           c == [command[s] EXCEPT !.pc = pc]
           r == [NoProcess EXCEPT !.pc = "opening", !.detached = command[s].detached,
                                  !.port = command[s].port]
<1>1. command[s] \in CommandRecord /\ command[s].pc = "next" /\ command[s].attempt \in 1..Endpoints[s]
    BY OfCommand DEF Spawn
<1>2. c \in CommandRecord
    BY <1>1 DEF CommandRecord, CommandPCs
<1>3. /\ c.pc = pc /\ c.attempt = command[s].attempt /\ c.detached = command[s].detached
    BY <1>1 DEF CommandRecord
<1>4. command' = [command EXCEPT ![s] = c]
    BY OfCommand DEF Spawn, Command
<1>5. process' = [process EXCEPT ![Of(s)] = r]
    BY DEF Spawn
<1>6. r \in ProcessRecord
    <2>1. "opening" \in ProcessPCs
        BY DEF ProcessPCs
    <2>2. command[s].detached \in BOOLEAN /\ command[s].port \in {AnyPort, 1}
        BY <1>1 DEF CommandRecord
    <2>3. \A d \in BOOLEAN, port \in {AnyPort, 1} :
              [NoProcess EXCEPT !.pc = "opening", !.detached = d, !.port = port] \in ProcessRecord
        BY <2>1, NoProcessTyped DEF ProcessRecord
    <2> QED
        BY <2>2, <2>3
<1>7. r.pc = "opening" /\ r.detached = command[s].detached /\ r.file = "absent"
    BY DEF NoProcess
<1>8. \/ pc = "polling" /\ command[s].detached
      \/ pc = "inside" /\ ~command[s].detached
    OBVIOUS
<1> HIDE DEF c, r, pc
<1>9. Mode(c) /\ Sound(r)
    BY <1>3, <1>7, <1>8 DEF Mode, Sound, Listening
<1>10. ASSUME NEW a \in 1..Endpoints[s]
       PROVE  Linked(c, a, IF a = command[s].attempt THEN r ELSE process[<<s, a>>])
    <2> DEFINE old == process[<<s, a>>]
    <2>1. Linked(command[s], a, old) /\ a \in Nat /\ command[s].attempt \in Nat
        BY OfCommand DEF CommandRecord
    <2> HIDE DEF old
    <2>2. CASE a = command[s].attempt
        <3>1. Known(c, a, r)
            BY <1>3, <1>8, <2>1, <2>2 DEF Known
        <3>2. Attached(c, r) /\ Current(c, r)
            BY <1>3, <1>7, <1>8 DEF Attached, Current
        <3> QED
            BY <2>2, <3>1, <3>2 DEF Linked
    <2>3. CASE a # command[s].attempt
        <3>1. Known(c, a, old)
            BY <1>3, <1>8, <2>1, <2>3 DEF Linked, Known
        <3>2. Attached(c, old)
            BY <1>3, <2>1 DEF Linked, Attached
        <3> QED
            BY <1>3, <2>3, <3>1, <3>2 DEF Linked, old
    <2> QED
        BY <2>2, <2>3
<1> QED
    BY <1>1, <1>2, <1>3, <1>4, <1>5, <1>6, <1>9, <1>10, CommandMoves

LEMMA WaitKeeps ==
    ASSUME SessionInv, NEW s \in Commands, CheckExited(s) \/ LookForFile(s)
    PROVE  SessionInv'
<1>1. command[s].pc \in {"polling", "looking"} /\ process' = process
    BY DEF CheckExited, LookForFile
<1>2. command[s].detached
    BY <1>1, OfCommand DEF Mode
<1>3. PICK pc \in {"polling", "looking", "giveUp", "reading"} :
          Command(s, pc) /\ (pc = "reading" => process[Of(s)].file = "written")
    <2>1. CASE CheckExited(s)
        BY <2>1 DEF CheckExited
    <2>2. CASE LookForFile(s)
        BY <2>2 DEF LookForFile
    <2> QED
        BY <2>1, <2>2
<1>4. pc \in CommandPCs
    BY DEF CommandPCs
<1> QED
    BY <1>1, <1>2, <1>3, <1>4, GoOn

LEMMA ReportReadyKeeps ==
    ASSUME SessionInv, NEW s \in Commands, ReportReady(s)
    PROVE  SessionInv'
<1> DEFINE q == process[Of(s)]
           r == [q EXCEPT !.file = "absent"]
           c == [command[s] EXCEPT !.pc = "done", !.reported = q.bound]
<1>1. command[s] \in CommandRecord /\ command[s].pc = "reading" /\ command[s].attempt \in 1..Endpoints[s]
    BY OfCommand DEF ReportReady
<1>2. q \in ProcessRecord /\ Sound(q)
    BY OfCommand
<1>3. q.file = "written"
    BY <1>1, OfCommand DEF Linked, Current
<1>4. q.bound # 0 /\ q.pc \in Settled /\ q.bound \in Nat
    BY <1>2, <1>3 DEF Sound, ProcessRecord
<1>5. c \in CommandRecord /\ r \in ProcessRecord
    BY <1>1, <1>2, <1>4 DEF CommandRecord, CommandPCs, ProcessRecord
<1>6. /\ c.pc = "done" /\ c.reported = q.bound /\ c.attempt = command[s].attempt
      /\ c.detached = command[s].detached
    BY <1>1 DEF CommandRecord
<1>7. r.file = "absent" /\ r.pc = q.pc /\ r.bound = q.bound /\ r.detached = q.detached
    BY <1>2 DEF ProcessRecord
<1>8. command' = [command EXCEPT ![s] = c]
    BY <1>3, OfCommand DEF ReportReady
<1>9. process' = [process EXCEPT ![Of(s)] = r]
    BY OfCommand DEF ReportReady
<1> HIDE DEF c, r, q
<1>10. Mode(c)
    BY <1>6 DEF Mode
<1>11. Sound(r)
    BY <1>2, <1>7 DEF Sound
<1>12. ASSUME NEW a \in 1..Endpoints[s]
       PROVE  Linked(c, a, IF a = command[s].attempt THEN r ELSE process[<<s, a>>])
    <2> DEFINE old == process[<<s, a>>]
    <2>1. Linked(command[s], a, old) /\ a \in Nat /\ command[s].attempt \in Nat
        BY OfCommand DEF CommandRecord
    <2>2. a = command[s].attempt => old = q
        BY DEF Of, q
    <2> HIDE DEF old
    <2>3. CASE a = command[s].attempt
        <3>1. Known(c, a, r)
            BY <1>6, <2>1, <2>3 DEF Known
        <3>2. Attached(c, r) /\ Current(c, r)
            BY <1>4, <1>6, <1>7, <2>1, <2>2, <2>3 DEF Linked, Attached, Current
        <3> QED
            BY <2>3, <3>1, <3>2 DEF Linked
    <2>4. CASE a # command[s].attempt
        <3>1. Known(c, a, old)
            BY <1>6, <2>1, <2>4 DEF Linked, Known
        <3>2. Attached(c, old)
            BY <1>6, <2>1 DEF Linked, Attached
        <3> QED
            BY <1>6, <2>4, <3>1, <3>2 DEF Linked, old
    <2> QED
        BY <2>3, <2>4
<1>13. c.attempt \in 1..Endpoints[s]
    BY <1>1, <1>6
<1> QED
    BY <1>5, <1>8, <1>9, <1>10, <1>11, <1>12, <1>13, CommandMoves

LEMMA GiveUpKeeps ==
    ASSUME SessionInv, NEW s \in Commands, GiveUp(s)
    PROVE  SessionInv'
<1> DEFINE q == process[Of(s)]
<1>1. /\ q \in ProcessRecord /\ Sound(q) /\ Linked(command[s], command[s].attempt, q)
      /\ command[s].pc = "giveUp"
    BY OfCommand DEF GiveUp
<1>2. command[s].detached
    BY <1>1, OfCommand DEF Mode
<1>3. PICK r \in ProcessRecord : /\ process' = [process EXCEPT ![Of(s)] = r]
                                 /\ r.pc \in Ended /\ r.file = "absent"
    <2>1. CASE Running(Of(s))
        <3> DEFINE r == [End(q, "killed") EXCEPT !.file = "absent"]
        <3>1. process' = [process EXCEPT ![Of(s)] = r]
            BY <2>1 DEF GiveUp
        <3>2. q.bound \in Nat /\ q.file \in {"absent", "empty", "written"} /\ q.alone \in BOOLEAN
            BY <1>1 DEF ProcessRecord
        <3>3. "killed" \in ProcessPCs /\ "killed" \in Ended
            BY DEF ProcessPCs, Ended
        <3>4. \A f \in {"absent", "empty", "written"}, b \in Nat, alone \in BOOLEAN :
                  [NoProcess EXCEPT !.pc = "killed", !.file = f, !.bound = b, !.alone = alone] \in ProcessRecord
            BY <3>3, NoProcessTyped DEF ProcessRecord
        <3>5. End(q, "killed") \in ProcessRecord /\ End(q, "killed").pc = "killed"
            <4>1. End(q, "killed") \in ProcessRecord
                BY <3>2, <3>4, Zenon DEF End
            <4>2. End(q, "killed").pc = "killed"
                BY DEF End, NoProcess
            <4> QED
                BY <4>1, <4>2
        <3>6. \A e \in ProcessRecord : LET x == [e EXCEPT !.file = "absent"]
                                       IN  x \in ProcessRecord /\ x.pc = e.pc /\ x.file = "absent"
            BY DEF ProcessRecord
        <3>7. r \in ProcessRecord /\ r.pc = "killed" /\ r.file = "absent"
            BY <3>5, <3>6, Zenon
        <3> QED
            BY <3>1, <3>3, <3>7
    <2>2. CASE ~Running(Of(s))
        <3> DEFINE r == [q EXCEPT !.file = "absent"]
        <3>1. process' = [process EXCEPT ![Of(s)] = r]
            BY <2>2 DEF GiveUp
        <3>2. r \in ProcessRecord /\ r.pc = q.pc /\ r.file = "absent"
            BY <1>1 DEF ProcessRecord
        <3> QED
            BY <2>2, <3>1, <3>2 DEF Running
    <2> QED
        BY <2>1, <2>2
<1>4. Sound(r)
    BY <1>3 DEF Sound, Ended, Listening
<1>5. Attached(command[s], r)
    BY <1>2 DEF Attached
<1> QED
    BY <1>1, <1>3, <1>4, <1>5, TryNextKeeps DEF GiveUp

LEMMA ReturnKeeps ==
    ASSUME SessionInv, NEW s \in Commands, Return(s)
    PROVE  SessionInv'
<1> DEFINE r == process[Of(s)]
<1>1. /\ r \in ProcessRecord /\ Sound(r) /\ Linked(command[s], command[s].attempt, r)
      /\ command[s].pc = "inside" /\ Mode(command[s]) /\ process' = process
    BY OfCommand DEF Return
<1>2. ~command[s].detached /\ Attached(command[s], r) /\ r.file = "absent"
    BY <1>1 DEF Mode, Linked, Attached
<1>3. CASE r.pc = "stopped" /\ Command(s, "done")
    BY <1>1, <1>2, <1>3, GoOn DEF CommandPCs
<1>4. CASE r.pc = "refused" /\ TryNext(s)
    <2>1. process' = [process EXCEPT ![Of(s)] = r] /\ r.pc \in Ended
        BY <1>1, <1>4, OfCommand DEF Ended
    <2> QED
        BY <1>1, <1>2, <1>4, <2>1, TryNextKeeps
<1>5. CASE r.pc = "killed" /\ Command(s, "failed")
    BY <1>1, <1>2, <1>5, GoOn DEF CommandPCs, Ended
<1> QED
    BY <1>3, <1>4, <1>5 DEF Return

(***************************************************************************)
(* Theorems                                                                *)
(***************************************************************************)
LEMMA SessionInit == Init => SessionInv
<1> SUFFICES ASSUME Init PROVE SessionInv
    OBVIOUS
<1>2. TypeOK
    BY NoCommandTyped, NoProcessTyped, SessionAssumption DEF Init, TypeOK, NoCommand
<1>3. Sound(NoProcess) /\ Mode(NoCommand)
    BY DEF Sound, Mode, NoProcess, NoCommand, Listening
<1>4. ASSUME NEW a \in Nat \ {0} PROVE Linked(NoCommand, a, NoProcess)
    BY DEF Linked, Known, Attached, Current, NoCommand, NoProcess, Ended
<1>5. \A s \in Commands : \A a \in 1..Endpoints[s] :
          a \in Nat \ {0} /\ command[s] = NoCommand /\ process[<<s, a>>] = NoProcess
    <2>1. \A s \in Commands : \A a \in 1..Endpoints[s] : a \in Nat \ {0}
        BY SessionAssumption
    <2>2. \A s \in Commands : command[s] = NoCommand
        BY DEF Init
    <2>3. \A p \in Processes : process[p] = NoProcess
        BY DEF Init
    <2> QED
        BY <2>1, <2>2, <2>3, ProcessesOfCommands
<1> QED
    BY <1>2, <1>3, <1>4, <1>5 DEF SessionInv, Init

LEMMA SessionStep == SessionInv /\ [Next]_vars => SessionInv'
<1> SUFFICES ASSUME SessionInv, [Next]_vars PROVE SessionInv'
    OBVIOUS
<1>1. ASSUME NEW s \in Commands, NEW detached \in BOOLEAN, NEW port \in {AnyPort, 1},
             Execute(s, detached, port)
      PROVE  SessionInv'
    BY <1>1, ExecuteKeeps
<1>2. ASSUME NEW s \in Commands, RunCommand(s)
      PROVE  SessionInv'
    BY <1>2, SpawnKeeps, WaitKeeps, ReportReadyKeeps, GiveUpKeeps, ReturnKeeps DEF RunCommand
<1>3. ASSUME NEW p \in Processes, StartServer(p)
      PROVE  SessionInv'
    BY <1>3, ServerKeeps
<1>4. ASSUME NEW p \in Processes,
             Interrupt(p) \/ StopAndClear(p) \/ BeginBuild(p) \/ Commit(p) \/ CleanNode(p) \/ Kill(p)
      PROVE  SessionInv'
    BY <1>4, ServingKeeps
<1>5. CASE UNCHANGED vars
    BY <1>5 DEF vars, SessionInv, TypeOK
<1> QED
    BY <1>1, <1>2, <1>3, <1>4, <1>5 DEF Next

\* The commands and the processes are related as SessionInv says, in every state of `pop fork`.
THEOREM SessionsLinked == Spec => []SessionInv
BY SessionInit, SessionStep, PTL DEF Spec

\* A detached `pop fork` that succeeds reports the address its server has bound, although the
\* server may be starting, writing its ready file, stopping or dying at any moment of the wait
\* (spawn_detached, wait_for_ready, fork_output_from_ready_file).
THEOREM ReadyIsTrue == Spec => []ReportedReady
<1>1. SessionInv => ReportedReady
    <2> SUFFICES ASSUME SessionInv, NEW s \in Commands, command[s].pc = "done", command[s].detached
                 PROVE  process[Of(s)].bound # 0 /\ command[s].reported = process[Of(s)].bound
        BY DEF ReportedReady
    <2>1. Linked(command[s], command[s].attempt, process[Of(s)])
        BY OfCommand
    <2> QED
        BY <2>1 DEF Linked, Current
<1> QED
    BY <1>1, SessionsLinked, PTL

\* Endpoints that execute_with_fallback has given up have left no server and no ready file, for
\* any number of endpoints and whatever their processes did meanwhile.
THEOREM NothingLeftBehind == Spec => []NoOrphan
<1>1. SessionInv => NoOrphan
    <2> SUFFICES ASSUME SessionInv, NEW s \in Commands, NEW a \in 1..Endpoints[s],
                        command[s].pc = "failed" \/ a < command[s].attempt
                 PROVE  ~Running(<<s, a>>) /\ process[<<s, a>>].file = "absent"
        BY DEF NoOrphan
    <2>1. Linked(command[s], a, process[<<s, a>>])
        BY OfCommand
    <2> QED
        BY <2>1 DEF Linked, Known, Running
<1> QED
    BY <1>1, SessionsLinked, PTL

(***************************************************************************)
(* The cache file                                                          *)
(***************************************************************************)

\* A set of block numbers has a greatest element below every bound.  (Every finite set has; to
\* prove that takes an induction, to keep it does not.)
Greatest(x, S) == x \in S /\ \A y \in S : x >= y

Stepwise(S) == \A n \in 1..MaxBlocks : {m \in S : m <= n} = {} \/ \E x \in S : Greatest(x, {m \in S : m <= n})

\* Blocks are built by processes that listen, one at a time, within the bound.
Busy(r) ==
    /\ r.building \/ r.wrote # {} \/ r.head # 0 => r.pc \in Listening
    /\ r.wrote \subseteq 1..r.head
    /\ r.head <= MaxBlocks
    /\ r.building => r.head < MaxBlocks
    /\ Stepwise(r.wrote)

\* Processes that may have left rows in the file.
Author(r) == r.pc \in Listening \/ r.pc = "killed" \/ (r.pc = "stopped" /\ ~r.alone)

\* The rows of a file that one process has had for itself: one for each block it wrote, valid up
\* to the next one it wrote.
OwnRows(p, wrote, R) ==
    /\ \A r \in R : /\ r.by = p
                    /\ r.from \in wrote
                    /\ r.from < r.until
                    /\ r.until = Open \/ r.until \in wrote
                    /\ \A m \in wrote : ~(r.from < m /\ m < r.until)
    /\ \A m \in wrote : \E r \in R : r.from = m

Uses(r) == r.pc \notin Ended /\ r.pc # "opening"

Alone(p) ==
    /\ process[p].pc # "opening"
    /\ \A q \in Processes \ {p} : ~Uses(process[q])
    /\ OwnRows(p, process[p].wrote, rows)

CacheInv ==
    /\ rows \subseteq [by : Processes, from : Nat, until : Nat]
    /\ \A p \in Processes : Busy(process[p])
    /\ \A r \in rows : Author(process[r.by])
    /\ \A p \in Processes : process[p].pc \notin Ended /\ process[p].alone => Alone(p)

\* What a step keeps of a process that writes nothing.
Quiet(q, r) ==
    /\ Busy(r)
    /\ Author(q) => Author(r)
    /\ r.pc \notin Ended /\ r.alone =>
           q.pc \notin Ended /\ q.alone /\ r.wrote = q.wrote /\ (r.pc = "opening" => q.pc = "opening")
    /\ Uses(r) => Uses(q)

LEMMA QuietStep ==
    ASSUME CacheInv, rows' = rows, \A p \in Processes : Quiet(process[p], process'[p])
    PROVE  CacheInv'
<1>1. \A p \in Processes : Busy(process'[p])
    BY DEF Quiet
<1>2. ASSUME NEW r \in rows PROVE Author(process'[r.by])
    <2>1. r.by \in Processes /\ Author(process[r.by])
        BY DEF CacheInv
    <2> QED
        BY <2>1 DEF Quiet
<1>3. ASSUME NEW p \in Processes, process'[p].pc \notin Ended, process'[p].alone
      PROVE  Alone(p)'
    <2>1. /\ process[p].pc \notin Ended /\ process[p].alone /\ process'[p].wrote = process[p].wrote
          /\ process'[p].pc = "opening" => process[p].pc = "opening"
        BY <1>3 DEF Quiet
    <2>2. Alone(p)
        BY <2>1 DEF CacheInv
    <2>3. \A q \in Processes \ {p} : ~Uses(process'[q])
        BY <2>2 DEF Alone, Quiet
    <2> QED
        BY <2>1, <2>2, <2>3 DEF Alone
<1> QED
    BY <1>1, <1>2, <1>3 DEF CacheInv

\* A step of one process that writes nothing.
LEMMA QuietProcess ==
    ASSUME SessionInv, CacheInv, rows' = rows, NEW p \in Processes, NEW r,
           process' = [process EXCEPT ![p] = r], Quiet(process[p], r)
    PROVE  CacheInv'
<1>1. process \in [Processes -> ProcessRecord]
    BY DEF SessionInv, TypeOK
<1>2. ASSUME NEW q \in Processes PROVE Quiet(process[q], process'[q])
    <2>1. CASE q = p
        BY <1>1, <2>1
    <2>2. CASE q # p
        <3>1. process'[q] = process[q]
            BY <1>1, <2>2
        <3>2. Quiet(process[q], process[q])
            BY DEF Quiet, CacheInv
        <3> QED
            BY <3>1, <3>2
    <2> QED
        BY <2>1, <2>2
<1> QED
    BY <1>2, QuietStep

\* Nothing about the cache changes: the program counter stays on its side of opening it.
LEMMA QuietSame ==
    ASSUME NEW q \in ProcessRecord, NEW r \in ProcessRecord, Busy(q),
           r.wrote = q.wrote, r.head = q.head, r.building = q.building, r.alone = q.alone,
           \/ r.pc = q.pc
           \/ /\ q.pc \in {"forking", "funding", "binding"}
              /\ r.pc \in {"funding", "binding"} \union Listening
           \/ q.pc \in Listening /\ r.pc \in Listening
    PROVE  Quiet(q, r)
<1>1. Busy(r)
    <2>1. q.pc \in Listening => r.pc \in Listening
        BY DEF Listening
    <2> QED
        BY <2>1 DEF Busy
<1>2. Author(q) => Author(r)
    <2>1. CASE r.pc = q.pc
        BY <2>1 DEF Author
    <2>2. CASE r.pc # q.pc
        BY <2>2 DEF Author, Listening
    <2> QED
        BY <2>1, <2>2
<1>3. (r.pc \notin Ended => q.pc \notin Ended) /\ (Uses(r) => Uses(q))
    BY DEF Uses, Ended, Listening
<1>4. r.pc = "opening" => q.pc = "opening"
    BY DEF Listening
<1> QED
    BY <1>1, <1>2, <1>3, <1>4 DEF Quiet

LEMMA NothingWritten == Stepwise({})
BY DEF Stepwise

\* A process that ends.
LEMMA QuietEnd ==
    ASSUME NEW q \in ProcessRecord, NEW r \in ProcessRecord, r.pc \in Ended,
           r.wrote = {}, r.head = 0, r.building = FALSE, Author(q) => Author(r)
    PROVE  Quiet(q, r)
<1>1. Busy(r)
    <2>1. 0 <= MaxBlocks
        BY SessionAssumption
    <2> QED
        BY <2>1, NothingWritten DEF Busy
<1>2. ~Uses(r)
    BY DEF Uses
<1> QED
    BY <1>1, <1>2 DEF Quiet

\* What End leaves.
LEMMA EndIs ==
    ASSUME NEW q \in ProcessRecord, NEW pc \in Ended
    PROVE  /\ End(q, pc).pc = pc /\ End(q, pc).wrote = {} /\ End(q, pc).head = 0
           /\ End(q, pc).building = FALSE
BY DEF End, NoProcess

LEMMA EndAlone ==
    ASSUME NEW q \in ProcessRecord, NEW pc \in Ended
    PROVE  End(q, pc) \in ProcessRecord /\ End(q, pc).alone = q.alone
<1>1. q.bound \in Nat /\ q.file \in {"absent", "empty", "written"} /\ q.alone \in BOOLEAN /\ pc \in ProcessPCs
    BY DEF ProcessRecord, ProcessPCs
<1>2. \A f \in {"absent", "empty", "written"}, b \in Nat, alone \in BOOLEAN :
          [NoProcess EXCEPT !.pc = pc, !.file = f, !.bound = b, !.alone = alone] \in ProcessRecord
    BY <1>1, NoProcessTyped DEF ProcessRecord
<1>3. \A f \in {"absent", "empty", "written"}, b \in Nat, alone \in BOOLEAN :
          [NoProcess EXCEPT !.pc = pc, !.file = f, !.bound = b, !.alone = alone].alone = alone
    BY NoProcessTyped DEF ProcessRecord
<1>4. End(q, pc) \in ProcessRecord
    BY <1>1, <1>2, Zenon DEF End
<1>5. End(q, pc).alone = q.alone
    BY <1>1, <1>3, Zenon DEF End
<1> QED
    BY <1>4, <1>5

LEMMA EndQuietly ==
    ASSUME SessionInv, CacheInv, rows' = rows, NEW p \in Processes, NEW pc \in Ended, EndProcess(p, pc),
           Author(process[p]) => pc = "killed" \/ (pc = "stopped" /\ ~process[p].alone)
    PROVE  CacheInv'
<1> DEFINE q == process[p]
           r == End(process[p], pc)
<1>1. q \in ProcessRecord
    BY DEF SessionInv, TypeOK
<1>2. r \in ProcessRecord /\ r.alone = q.alone
    BY <1>1, EndAlone
<1>3. r.pc = pc /\ r.wrote = {} /\ r.head = 0 /\ r.building = FALSE
    BY <1>1, EndIs
<1>4. process' = [process EXCEPT ![p] = r]
    BY DEF EndProcess
<1> HIDE DEF q, r
<1>5. Author(q) => Author(r)
    BY <1>2, <1>3 DEF Author, q
<1>6. Quiet(q, r)
    BY <1>1, <1>2, <1>3, <1>5, QuietEnd
<1> QED
    BY <1>4, <1>6, QuietProcess DEF q

LEMMA RefuseQuietly ==
    ASSUME SessionInv, CacheInv, rows' = rows, NEW p \in Processes, Refuse(p),
           process[p].pc \in {"opening", "forking", "funding", "binding"}
    PROVE  CacheInv'
<1>1. ~Author(process[p]) /\ "refused" \in Ended
    BY DEF Author, Listening, Ended
<1> QED
    BY <1>1, EndQuietly DEF Refuse

\* Steps of a process that concern neither its blocks nor the file.
LEMMA StartQuietly ==
    ASSUME SessionInv, CacheInv, rows' = rows, NEW p \in Processes, NEW r \in ProcessRecord,
           process' = [process EXCEPT ![p] = r],
           r.wrote = process[p].wrote, r.head = process[p].head,
           r.building = process[p].building, r.alone = process[p].alone,
           \/ r.pc = process[p].pc
           \/ /\ process[p].pc \in {"forking", "funding", "binding"}
              /\ r.pc \in {"funding", "binding"} \union Listening
           \/ process[p].pc \in Listening /\ r.pc \in Listening
    PROVE  CacheInv'
<1>1. process[p] \in ProcessRecord /\ Busy(process[p])
    BY DEF SessionInv, TypeOK, CacheInv
<1>2. Quiet(process[p], r)
    BY <1>1, QuietSame
<1> QED
    BY <1>2, QuietProcess

\* The rest of the commands' steps.
LEMMA CommandsCache ==
    ASSUME SessionInv, CacheInv, NEW s \in Commands, RunCommand(s)
    PROVE  CacheInv'
<1> DEFINE q == process[Of(s)]
<1>1. /\ q \in ProcessRecord /\ Of(s) \in Processes /\ process \in [Processes -> ProcessRecord]
      /\ Linked(command[s], command[s].attempt, q) /\ Busy(q)
    BY OfCommand DEF CacheInv
<1>2. CASE Spawn(s)
    <2> DEFINE r == [NoProcess EXCEPT !.pc = "opening", !.detached = command[s].detached,
                                      !.port = command[s].port]
    <2>1. q = NoProcess
        BY <1>1, <1>2 DEF Spawn, Linked, Known
    <2>2. process' = [process EXCEPT ![Of(s)] = r] /\ rows' = rows
        BY <1>2 DEF Spawn
    <2>3. /\ r.pc = "opening" /\ r.wrote = {} /\ r.head = 0 /\ r.building = FALSE /\ r.alone = FALSE
        BY DEF NoProcess
    <2>4. NoProcess.pc = "none"
        BY DEF NoProcess
    <2> HIDE DEF q, r
    <2>5. ~Author(q) /\ ~Uses(r)
        BY <2>1, <2>3, <2>4 DEF Author, Uses, Listening
    <2>6. Busy(r)
        <3>1. 0 <= MaxBlocks
            BY SessionAssumption
        <3> QED
            BY <2>3, <3>1, NothingWritten DEF Busy
    <2>7. Quiet(q, r)
        BY <2>3, <2>5, <2>6 DEF Quiet
    <2> QED
        BY <1>1, <2>2, <2>7, QuietProcess DEF q
<1>3. CASE ReportReady(s)
    <2> DEFINE r == [q EXCEPT !.file = "absent"]
    <2>1. process' = [process EXCEPT ![Of(s)] = r] /\ rows' = rows
        BY <1>1, <1>3 DEF ReportReady
    <2>2. /\ r \in ProcessRecord /\ r.pc = q.pc /\ r.wrote = q.wrote /\ r.head = q.head
          /\ r.building = q.building /\ r.alone = q.alone
        BY <1>1 DEF ProcessRecord
    <2> QED
        BY <1>1, <2>1, <2>2, StartQuietly
<1>4. CASE GiveUp(s) /\ ~Running(Of(s))
    <2> DEFINE r == [q EXCEPT !.file = "absent"]
    <2>1. process' = [process EXCEPT ![Of(s)] = r] /\ rows' = rows
        BY <1>4 DEF GiveUp
    <2>2. /\ r \in ProcessRecord /\ r.pc = q.pc /\ r.wrote = q.wrote /\ r.head = q.head
          /\ r.building = q.building /\ r.alone = q.alone
        BY <1>1 DEF ProcessRecord
    <2> QED
        BY <1>1, <2>1, <2>2, StartQuietly
<1>5. CASE GiveUp(s) /\ Running(Of(s))
    <2> DEFINE e == End(q, "killed")
               r == [e EXCEPT !.file = "absent"]
    <2>1. process' = [process EXCEPT ![Of(s)] = r] /\ rows' = rows
        BY <1>5 DEF GiveUp
    <2>2. "killed" \in Ended
        BY DEF Ended
    <2>3. e \in ProcessRecord /\ e.pc = "killed" /\ e.wrote = {} /\ e.head = 0 /\ e.building = FALSE
        BY <1>1, <2>2, EndAlone, EndIs
    <2> HIDE DEF e
    <2>4. /\ r \in ProcessRecord /\ r.pc = "killed" /\ r.wrote = {} /\ r.head = 0 /\ r.building = FALSE
        BY <2>3 DEF ProcessRecord
    <2> HIDE DEF r, q
    <2>5. Quiet(q, r)
        BY <1>1, <2>2, <2>4, QuietEnd DEF Author
    <2> QED
        BY <1>1, <2>1, <2>5, QuietProcess DEF q
<1>6. CASE CheckExited(s) \/ LookForFile(s) \/ Return(s)
    <2>1. process' = process /\ rows' = rows
        BY <1>6 DEF CheckExited, LookForFile, Return
    <2> QED
        BY <2>1 DEF CacheInv, Alone
<1> QED
    BY <1>2, <1>3, <1>4, <1>5, <1>6 DEF RunCommand

(***************************************************************************)
(* Opening, committing and clearing                                        *)
(***************************************************************************)
LEMMA OpenCacheAlone ==
    ASSUME SessionInv, CacheInv, NEW p \in Processes, OpenCache(p)
    PROVE  CacheInv'
<1> DEFINE others == {q \in Processes \ {p} :
                         \/ UsesCache(q) \/ process[q].pc = "killed"
                         \/ process[q].pc = "stopped" /\ ~process[q].alone}
<1>1. /\ process \in [Processes -> ProcessRecord] /\ rows' = rows
      /\ process[p].pc = "opening"
    BY DEF SessionInv, TypeOK, OpenCache
<1>2. process' = [q \in Processes |->
          IF q = p THEN [process[p] EXCEPT !.pc = "forking", !.alone = others = {}]
          ELSE IF Running(q) THEN [process[q] EXCEPT !.alone = FALSE]
          ELSE process[q]]
    BY Zenon DEF OpenCache
<1>3. PICK alone \in BOOLEAN : /\ process'[p] = [process[p] EXCEPT !.pc = "forking", !.alone = alone]
                               /\ alone => others = {}
    <2>1. process'[p] = [process[p] EXCEPT !.pc = "forking", !.alone = others = {}]
        BY <1>2
    <2> HIDE DEF others
    <2> QED
        BY <2>1, Zenon
<1>4. /\ process'[p].pc = "forking" /\ process'[p].alone = alone /\ process'[p].wrote = process[p].wrote
      /\ process'[p].head = process[p].head /\ process'[p].building = process[p].building
    BY <1>1, <1>3 DEF ProcessRecord
<1>5. ASSUME NEW q \in Processes \ {p}
      PROVE  /\ process'[q].pc = process[q].pc /\ process'[q].wrote = process[q].wrote
             /\ process'[q].head = process[q].head /\ process'[q].building = process[q].building
             /\ process'[q].pc \notin Ended => process'[q].alone = FALSE
             /\ process'[q].pc \in Ended => process'[q].alone = process[q].alone
    <2>1. process[q] \in ProcessRecord
        BY <1>1
    <2>2. CASE Running(q)
        <3>1. process'[q] = [process[q] EXCEPT !.alone = FALSE]
            BY <1>2, <2>2
        <3> QED
            BY <2>1, <2>2, <3>1 DEF ProcessRecord, Running
    <2>3. CASE ~Running(q)
        <3>1. process'[q] = process[q]
            BY <1>2, <2>3
        <3> QED
            BY <2>3, <3>1 DEF Running
    <2> QED
        BY <2>2, <2>3
<1> HIDE DEF others
<1>6. Busy(process[p]) /\ process[p].wrote = {} /\ process[p].head = 0 /\ ~process[p].building
    BY <1>1 DEF CacheInv, Busy, Listening
<1>7. \A q \in Processes : Busy(process'[q])
    <2>1. Busy(process'[p])
        BY <1>4, <1>6 DEF Busy
    <2>2. ASSUME NEW q \in Processes \ {p} PROVE Busy(process'[q])
        <3>1. Busy(process[q])
            BY DEF CacheInv
        <3> QED
            BY <1>5, <3>1 DEF Busy
    <2> QED
        BY <2>1, <2>2
<1>8. ASSUME NEW r \in rows PROVE r.by \in Processes \ {p} /\ Author(process[r.by])
    BY <1>1 DEF CacheInv, Author, Listening
<1>9. ASSUME NEW r \in rows PROVE Author(process'[r.by])
    <2>1. process[r.by].pc = "stopped" => process'[r.by].pc \in Ended
        BY <1>5, <1>8 DEF Ended
    <2> QED
        BY <1>5, <1>8, <2>1 DEF Author
<1>10. ASSUME NEW q \in Processes, process'[q].pc \notin Ended, process'[q].alone
       PROVE  Alone(q)'
    <2>1. q = p /\ others = {}
        BY <1>3, <1>4, <1>5, <1>10
    <2>2. \A t \in Processes \ {p} : ~Uses(process[t]) /\ ~Author(process[t])
        BY <2>1 DEF others, UsesCache, Uses, Running, Author, Listening, Ended
    <2>3. rows = {}
        BY <1>8, <2>2
    <2>4. \A t \in Processes \ {p} : ~Uses(process'[t])
        BY <1>5, <2>2 DEF Uses
    <2>5. OwnRows(p, {}, {})
        BY DEF OwnRows
    <2> QED
        BY <1>1, <1>4, <1>6, <2>1, <2>3, <2>4, <2>5 DEF Alone
<1> QED
    BY <1>1, <1>7, <1>9, <1>10 DEF CacheInv

\* The rows of a process alone, after one more block that wrote the key.
LEMMA OwnRowsGrow ==
    ASSUME NEW p \in Processes, NEW head \in Nat, head < MaxBlocks, NEW wrote \in SUBSET (1..head),
           rows \subseteq [by : Processes, from : Nat, until : Nat], OwnRows(p, wrote, rows)
    PROVE  OwnRows(p, wrote \union {head + 1}, CommitLocalChanges(p, head + 1))
<1> DEFINE n == head + 1
           w == wrote \union {n}
           new == [by |-> p, from |-> n, until |-> Open]
           Closed(r) == [r EXCEPT !.until = IF r.until = Open THEN n ELSE r.until]
           R == CommitLocalChanges(p, n)
<1>1. /\ n \in Nat /\ MaxBlocks \in Nat /\ Open \in Nat /\ n < Open
      /\ \A m \in wrote : m \in Nat /\ m < n
    BY SessionAssumption DEF Open
<1>2. R = {Closed(r) : r \in rows} \union {new}
    BY DEF CommitLocalChanges
<1>3. ASSUME NEW r \in rows
      PROVE  /\ Closed(r).by = r.by /\ Closed(r).from = r.from
             /\ Closed(r).until = IF r.until = Open THEN n ELSE r.until
    OBVIOUS
<1>4. new.by = p /\ new.from = n /\ new.until = Open
    OBVIOUS
<1> HIDE DEF Closed, new, R, n
<1>5. ASSUME NEW x \in R
      PROVE  /\ x.by = p
             /\ x.from \in w
             /\ x.from < x.until
             /\ x.until = Open \/ x.until \in w
             /\ \A m \in w : ~(x.from < m /\ m < x.until)
    <2>1. CASE x = new
        BY <1>1, <1>4, <2>1
    <2>2. ASSUME NEW r \in rows, x = Closed(r)
          PROVE  /\ x.by = p
                 /\ x.from \in w
                 /\ x.from < x.until
                 /\ x.until = Open \/ x.until \in w
                 /\ \A m \in w : ~(x.from < m /\ m < x.until)
        <3>1. r.from \in Nat /\ r.until \in Nat
            OBVIOUS
        <3>2. /\ r.by = p /\ r.from \in wrote /\ r.from < r.until
              /\ r.until = Open \/ r.until \in wrote
              /\ \A m \in wrote : ~(r.from < m /\ m < r.until)
            BY DEF OwnRows
        <3>3. CASE r.until = Open
            <4>1. x.by = p /\ x.from = r.from /\ x.until = n
                BY <1>3, <2>2, <3>2, <3>3
            <4>2. \A m \in wrote : ~(r.from < m)
                BY <1>1, <3>2, <3>3
            <4> QED
                BY <1>1, <3>1, <3>2, <4>1, <4>2
        <3>4. CASE r.until # Open
            <4>1. x.by = p /\ x.from = r.from /\ x.until = r.until
                BY <1>3, <2>2, <3>2, <3>4
            <4>2. r.until \in wrote /\ r.until < n
                BY <1>1, <3>2, <3>4
            <4> QED
                BY <1>1, <3>1, <3>2, <4>1, <4>2
        <3> QED
            BY <3>3, <3>4
    <2> QED
        BY <1>2, <2>1, <2>2
<1>6. ASSUME NEW m \in w PROVE \E x \in R : x.from = m
    <2>1. CASE m = n
        BY <1>2, <1>4, <2>1
    <2>2. CASE m \in wrote
        <3>1. PICK r \in rows : r.from = m
            BY <2>2 DEF OwnRows
        <3> QED
            BY <1>2, <1>3, <3>1
    <2> QED
        BY <2>1, <2>2
<1> QED
    BY <1>5, <1>6 DEF OwnRows, R, n

\* One more block, greater than all before, keeps greatest elements.
LEMMA StepwiseGrows ==
    ASSUME NEW head \in Nat, NEW wrote \in SUBSET (1..head), Stepwise(wrote)
    PROVE  Stepwise(wrote \union {head + 1})
<1> DEFINE k == head + 1
           w == wrote \union {k}
<1>1. \A m \in wrote : m \in Nat /\ m < k
    OBVIOUS
<1>2. k \in Nat
    OBVIOUS
<1> HIDE DEF k
<1>3. ASSUME NEW n \in 1..MaxBlocks
      PROVE  {m \in w : m <= n} = {} \/ \E x \in w : Greatest(x, {m \in w : m <= n})
    <2>1. n \in Nat
        BY SessionAssumption
    <2>2. CASE k <= n
        <3>1. Greatest(k, {m \in w : m <= n})
            BY <1>1, <1>2, <2>1, <2>2 DEF Greatest
        <3> QED
            BY <3>1
    <2>3. CASE ~(k <= n)
        <3>1. {m \in w : m <= n} = {m \in wrote : m <= n}
            BY <1>1, <1>2, <2>1, <2>3
        <3>2. {m \in wrote : m <= n} = {} \/ \E x \in wrote : Greatest(x, {m \in wrote : m <= n})
            BY DEF Stepwise
        <3> QED
            BY <3>1, <3>2
    <2> QED
        BY <2>2, <2>3
<1> QED
    BY <1>3 DEF Stepwise, k

LEMMA CommitAlone ==
    ASSUME SessionInv, CacheInv, NEW p \in Processes, Commit(p)
    PROVE  CacheInv'
<1> DEFINE q == process[p]
           n == q.head + 1
<1>1. /\ process \in [Processes -> ProcessRecord] /\ q \in ProcessRecord /\ Busy(q) /\ q.building
      /\ rows \subseteq [by : Processes, from : Nat, until : Nat]
    BY DEF SessionInv, TypeOK, CacheInv, Commit
<1>2. /\ q.head \in Nat /\ n \in Nat /\ q.head < MaxBlocks /\ n <= MaxBlocks /\ MaxBlocks \in Nat
      /\ q.wrote \in SUBSET (1..q.head) /\ q.pc \in Listening /\ Stepwise(q.wrote)
    BY <1>1, SessionAssumption DEF ProcessRecord, Busy
<1>3. Uses(q) /\ q.pc \notin Ended
    BY <1>2 DEF Uses, Ended, Listening
<1>4. CASE process' = [process EXCEPT ![p].building = FALSE, ![p].head = n] /\ rows' = rows
    <2> DEFINE r == [q EXCEPT !.building = FALSE, !.head = n]
    <2>1. process' = [process EXCEPT ![p] = r]
        BY <1>1, <1>4
    <2>2. /\ r.pc = q.pc /\ r.wrote = q.wrote /\ r.head = n /\ r.building = FALSE /\ r.alone = q.alone
        BY <1>1 DEF ProcessRecord
    <2> HIDE DEF r
    <2>3. Busy(r)
        <3>1. 1..q.head \subseteq 1..n
            BY <1>2
        <3> HIDE DEF n
        <3> QED
            BY <1>2, <2>2, <3>1 DEF Busy
    <2>4. Author(r)
        BY <1>2, <2>2 DEF Author
    <2>5. Quiet(q, r)
        BY <1>3, <2>2, <2>3, <2>4 DEF Quiet
    <2> QED
        BY <1>4, <2>1, <2>5, QuietProcess
<1>5. CASE /\ process' = [process EXCEPT ![p].building = FALSE, ![p].head = n, ![p].wrote = @ \union {n}]
           /\ rows' = CommitLocalChanges(p, n)
    <2> DEFINE w == q.wrote \union {n}
               r == [q EXCEPT !.building = FALSE, !.head = n, !.wrote = w]
    <2>1. process' = [process EXCEPT ![p] = r]
        BY <1>1, <1>5
    <2>2. /\ r.pc = q.pc /\ r.wrote = w /\ r.head = n /\ r.building = FALSE /\ r.alone = q.alone
        BY <1>1 DEF ProcessRecord
    <2> HIDE DEF r
    <2>3. Busy(r)
        <3>1. w \subseteq 1..n
            BY <1>2
        <3>2. Stepwise(w)
            BY <1>2, StepwiseGrows
        <3> HIDE DEF n, w
        <3> QED
            BY <1>2, <2>2, <3>1, <3>2 DEF Busy
    <2>4. process'[p] = r /\ \A t \in Processes \ {p} : process'[t] = process[t]
        BY <1>1, <2>1
    <2>5. \A t \in Processes : Busy(process'[t])
        BY <2>3, <2>4 DEF CacheInv
    <2>6. \A t \in Processes : Author(process[t]) => Author(process'[t])
        BY <1>2, <2>2, <2>4 DEF Author
    <2>7. ASSUME NEW x \in rows'
          PROVE  x \in [by : Processes, from : Nat, until : Nat] /\ Author(process'[x.by])
        <3>1. CASE x = [by |-> p, from |-> n, until |-> Open]
            <4>1. Open \in Nat
                BY <1>2 DEF Open
            <4>2. Author(process'[p])
                BY <1>2, <2>2, <2>4 DEF Author
            <4> QED
                BY <1>2, <3>1, <4>1, <4>2
        <3>2. ASSUME NEW y \in rows, x = [y EXCEPT !.until = IF y.until = Open THEN n ELSE y.until]
              PROVE  x \in [by : Processes, from : Nat, until : Nat] /\ Author(process'[x.by])
            <4>1. y \in [by : Processes, from : Nat, until : Nat] /\ Author(process[y.by])
                BY <1>1 DEF CacheInv
            <4>2. x \in [by : Processes, from : Nat, until : Nat] /\ x.by = y.by
                <5> HIDE DEF n
                <5> QED
                    BY <1>2, <3>2, <4>1
            <4> QED
                BY <2>6, <4>1, <4>2
        <3> QED
            BY <1>5, <3>1, <3>2 DEF CommitLocalChanges
    <2>8. ASSUME NEW t \in Processes, process'[t].pc \notin Ended, process'[t].alone
          PROVE  Alone(t)'
        <3>1. process[t].pc \notin Ended /\ process[t].alone
            BY <1>3, <2>2, <2>4, <2>8
        <3>2. Alone(t)
            BY <3>1 DEF CacheInv
        <3>3. t = p
            BY <1>3, <3>2 DEF Alone
        <3>4. OwnRows(p, q.wrote, rows)
            BY <3>2, <3>3 DEF Alone
        <3>5. OwnRows(p, w, rows')
            BY <1>1, <1>2, <1>5, <3>4, OwnRowsGrow
        <3>6. \A u \in Processes \ {p} : ~Uses(process'[u])
            BY <2>4, <3>2, <3>3 DEF Alone
        <3>7. process'[p].pc # "opening"
            BY <1>2, <2>2, <2>4 DEF Listening
        <3> HIDE DEF w
        <3> QED
            BY <2>2, <2>4, <3>3, <3>5, <3>6, <3>7 DEF Alone
    <2>9. rows' \subseteq [by : Processes, from : Nat, until : Nat]
        BY <2>7
    <2> QED
        BY <2>5, <2>7, <2>8, <2>9 DEF CacheInv
<1> QED
    BY <1>4, <1>5 DEF Commit

LEMMA StopAndClearAlone ==
    ASSUME SessionInv, CacheInv, NEW p \in Processes, StopAndClear(p)
    PROVE  CacheInv'
<1> DEFINE q == process[p]
           r == End(process[p], "stopped")
<1>1. /\ process \in [Processes -> ProcessRecord] /\ q \in ProcessRecord
      /\ q.pc = "stopping" /\ EndProcess(p, "stopped") /\ rows' \in Cleared(p) /\ "stopped" \in Ended
    BY DEF SessionInv, TypeOK, StopAndClear, Ended
<1>2. Uses(q)
    BY <1>1 DEF Uses, Ended
<1>3. CASE rows' = {}
    <2>1. process'[p] = r /\ \A t \in Processes \ {p} : process'[t] = process[t]
        BY <1>1 DEF EndProcess
    <2>2. r.pc = "stopped" /\ r.wrote = {} /\ r.head = 0 /\ r.building = FALSE
        BY <1>1, EndIs
    <2> HIDE DEF r
    <2>3. Busy(r)
        <3>1. 0 <= MaxBlocks
            BY SessionAssumption
        <3> QED
            BY <2>2, <3>1, NothingWritten DEF Busy
    <2>4. \A t \in Processes : Busy(process'[t])
        BY <2>1, <2>3 DEF CacheInv
    <2>5. ASSUME NEW t \in Processes, process'[t].pc \notin Ended, process'[t].alone
          PROVE  FALSE
        <3>1. t # p
            BY <1>1, <2>1, <2>2, <2>5
        <3>2. Alone(t)
            BY <2>1, <2>5, <3>1 DEF CacheInv
        <3> QED
            BY <1>2, <3>1, <3>2 DEF Alone
    <2> QED
        BY <1>3, <2>4, <2>5 DEF CacheInv
<1>4. CASE rows' # {}
    <2>1. rows' = rows /\ \E t \in Processes \ {p} : UsesCache(t)
        BY <1>1, <1>4 DEF Cleared
    <2>2. ~q.alone
        <3>1. SUFFICES ASSUME q.alone PROVE FALSE
            OBVIOUS
        <3>2. Alone(p)
            BY <1>2, <3>1 DEF CacheInv, Uses
        <3> QED
            BY <2>1, <3>2 DEF Alone, Uses, UsesCache, Running
    <2> QED
        BY <1>1, <2>1, <2>2, EndQuietly
<1> QED
    BY <1>3, <1>4

LEMMA ServersCache ==
    ASSUME SessionInv, CacheInv, NEW p \in Processes,
           \/ ForkChain(p) \/ FundAccounts(p) \/ Bind(p) \/ CreateReadyFile(p) \/ FillReadyFile(p)
           \/ Interrupt(p) \/ BeginBuild(p) \/ CleanNode(p) \/ Kill(p)
    PROVE  CacheInv'
<1> DEFINE q == process[p]
<1>1. /\ process \in [Processes -> ProcessRecord] /\ q \in ProcessRecord /\ Busy(q)
    BY DEF SessionInv, TypeOK, CacheInv
<1>2. rows' = rows
    BY DEF ForkChain, FundAccounts, Bind, CreateReadyFile, FillReadyFile, Interrupt, BeginBuild, CleanNode, Kill
<1>3. ASSUME q.pc \in {"forking", "funding", "binding"}, Refuse(p) PROVE CacheInv'
    BY <1>2, <1>3, RefuseQuietly
<1>4. ASSUME NEW pc \in {"funding", "binding", "stopping"}, Process(p, pc),
             \/ q.pc \in {"forking", "funding"}
             \/ q.pc = "serving" /\ pc = "stopping"
      PROVE  CacheInv'
    <2> DEFINE r == [q EXCEPT !.pc = pc]
    <2>1. process' = [process EXCEPT ![p] = r]
        BY <1>1, <1>4 DEF Process
    <2>2. /\ r \in ProcessRecord /\ r.pc = pc /\ r.wrote = q.wrote /\ r.head = q.head
          /\ r.building = q.building /\ r.alone = q.alone
        BY <1>1 DEF ProcessRecord, ProcessPCs, Listening
    <2> QED
        BY <1>2, <1>4, <2>1, <2>2, StartQuietly DEF Listening
<1>5. CASE ForkChain(p) \/ FundAccounts(p)
    BY <1>3, <1>4, <1>5 DEF ForkChain, FundAccounts
<1>6. CASE Interrupt(p)
    BY <1>4, <1>6 DEF Interrupt
<1>7. CASE Bind(p)
    <2>1. ASSUME NEW n \in Nat, BindTo(p, n) PROVE CacheInv'
        <3> DEFINE r == [q EXCEPT !.pc = "bound", !.bound = n]
        <3>1. process' = [process EXCEPT ![p] = r]
            BY <1>1, <2>1 DEF BindTo
        <3>2. /\ r \in ProcessRecord /\ r.pc = "bound" /\ r.wrote = q.wrote /\ r.head = q.head
              /\ r.building = q.building /\ r.alone = q.alone
            BY <1>1 DEF ProcessRecord, ProcessPCs, Listening
        <3>3. q.pc = "binding"
            BY <1>7 DEF Bind
        <3> QED
            BY <1>2, <3>1, <3>2, <3>3, StartQuietly DEF Listening
    <2>2. ASSUME process' = [process EXCEPT ![p].probe = @ + 1] PROVE CacheInv'
        <3> DEFINE n == q.probe + 1
                   r == [q EXCEPT !.probe = n]
        <3>1. n \in Nat \ {0}
            BY <1>1 DEF ProcessRecord
        <3>2. process' = [process EXCEPT ![p] = r]
            BY <1>1, <2>2
        <3> HIDE DEF n
        <3>3. /\ r \in ProcessRecord /\ r.pc = q.pc /\ r.wrote = q.wrote /\ r.head = q.head
              /\ r.building = q.building /\ r.alone = q.alone
            BY <1>1, <3>1 DEF ProcessRecord
        <3> QED
            BY <1>2, <3>2, <3>3, StartQuietly
    <2>3. \/ BindTo(p, q.port)
          \/ BindTo(p, q.probe)
          \/ process' = [process EXCEPT ![p].probe = @ + 1]
          \/ \E n \in 1..Ports : BindTo(p, n)
          \/ Refuse(p)
        BY <1>7, Zenon DEF Bind
    <2>4. q.pc = "binding"
        BY <1>7 DEF Bind
    <2>5. q.port \in Nat /\ q.probe \in Nat /\ 1..Ports \subseteq Nat
        BY <1>1, SessionAssumption DEF ProcessRecord, AnyPort
    <2> QED
        BY <1>3, <2>1, <2>2, <2>3, <2>4, <2>5
<1>8. CASE CreateReadyFile(p) \/ FillReadyFile(p)
    <2>1. PICK pc \in {"announcing", "serving"}, file \in {"absent", "empty", "written"} :
              process' = [process EXCEPT ![p].pc = pc, ![p].file = file]
        BY <1>8 DEF CreateReadyFile, FillReadyFile
    <2>2. q.pc \in {"bound", "announcing"}
        BY <1>8 DEF CreateReadyFile, FillReadyFile
    <2> DEFINE r == [q EXCEPT !.pc = pc, !.file = file]
    <2>3. process' = [process EXCEPT ![p] = r]
        BY <1>1, <2>1
    <2>4. /\ r \in ProcessRecord /\ r.pc = pc /\ r.wrote = q.wrote /\ r.head = q.head
          /\ r.building = q.building /\ r.alone = q.alone
        BY <1>1 DEF ProcessRecord, ProcessPCs, Listening
    <2> QED
        BY <1>2, <2>2, <2>3, <2>4, StartQuietly DEF Listening
<1>9. CASE BeginBuild(p)
    <2> DEFINE r == [q EXCEPT !.building = TRUE]
    <2>1. /\ process' = [process EXCEPT ![p] = r]
          /\ q.pc \in Listening /\ q.head < MaxBlocks
        BY <1>1, <1>9 DEF BeginBuild
    <2>2. /\ r \in ProcessRecord /\ r.pc = q.pc /\ r.wrote = q.wrote /\ r.head = q.head
          /\ r.alone = q.alone
        BY <1>1 DEF ProcessRecord
    <2> HIDE DEF r
    <2>3. Busy(r)
        BY <1>1, <2>1, <2>2 DEF Busy
    <2>4. Author(q) => Author(r)
        BY <2>2 DEF Author
    <2>5. Quiet(q, r)
        BY <2>2, <2>3, <2>4 DEF Quiet, Uses
    <2> QED
        BY <1>2, <2>1, <2>5, QuietProcess
<1>10. CASE CleanNode(p) \/ Kill(p)
    <2>1. EndProcess(p, "killed") /\ "killed" \in Ended
        BY <1>10 DEF CleanNode, Kill, Ended
    <2> QED
        BY <1>2, <2>1, EndQuietly
<1> QED
    BY <1>5, <1>6, <1>7, <1>8, <1>9, <1>10

LEMMA CacheInit == Init => CacheInv
<1> SUFFICES ASSUME Init PROVE CacheInv
    OBVIOUS
<1>1. \A p \in Processes : process[p] = NoProcess
    BY DEF Init
<1>2. /\ NoProcess.pc = "none" /\ NoProcess.wrote = {} /\ NoProcess.head = 0
      /\ NoProcess.building = FALSE
    BY DEF NoProcess
<1>3. 0 <= MaxBlocks
    BY SessionAssumption
<1>4. Busy(NoProcess)
    BY <1>2, <1>3, NothingWritten DEF Busy
<1>5. NoProcess.pc \in Ended
    BY <1>2 DEF Ended
<1> QED
    BY <1>1, <1>4, <1>5 DEF CacheInv, Init

LEMMA CacheStep == SessionInv /\ CacheInv /\ [Next]_vars => CacheInv'
<1> SUFFICES ASSUME SessionInv, CacheInv, [Next]_vars PROVE CacheInv'
    OBVIOUS
<1>1. ASSUME NEW s \in Commands, NEW detached \in BOOLEAN, NEW port \in {AnyPort, 1},
             Execute(s, detached, port)
      PROVE  CacheInv'
    <2>1. process' = process /\ rows' = rows
        BY <1>1 DEF Execute
    <2> QED
        BY <2>1 DEF CacheInv, Alone
<1>2. ASSUME NEW s \in Commands, RunCommand(s)
      PROVE  CacheInv'
    BY <1>2, CommandsCache
<1>3. ASSUME NEW p \in Processes, StartServer(p)
      PROVE  CacheInv'
    BY <1>3, OpenCacheAlone, ServersCache DEF StartServer
<1>4. ASSUME NEW p \in Processes,
             Interrupt(p) \/ StopAndClear(p) \/ BeginBuild(p) \/ Commit(p) \/ CleanNode(p) \/ Kill(p)
      PROVE  CacheInv'
    BY <1>4, ServersCache, StopAndClearAlone, CommitAlone
<1>5. CASE UNCHANGED vars
    BY <1>5 DEF vars, CacheInv, Alone
<1> QED
    BY <1>1, <1>2, <1>3, <1>4, <1>5 DEF Next

\* What the library's Max is, of a set with a greatest element.
LEMMA MaxIsGreatest ==
    ASSUME NEW S \in SUBSET Nat, NEW x, Greatest(x, S)
    PROVE  Max(S) = x
<1>1. x \in S /\ \A y \in S : x >= y
    BY DEF Greatest
<1>2. Max(S) \in S /\ \A y \in S : Max(S) >= y
    BY <1>1, Zenon DEF Max
<1>3. x \in Nat /\ Max(S) \in Nat /\ x >= Max(S) /\ Max(S) >= x
    BY <1>1, <1>2
<1> HIDE DEF Max
<1> QED
    BY <1>3

\* A process that has had the file for itself reads the last block it wrote, or the live chain.
LEMMA AloneReadsOwn ==
    ASSUME SessionInv, CacheInv, NEW p \in Processes, process[p].pc \in Listening, process[p].alone
    PROVE  ReadsOwn(p)
<1> DEFINE q == process[p]
           wrote == process[p].wrote
<1>1. /\ q \in ProcessRecord /\ Busy(q) /\ q.pc \notin Ended
      /\ rows \subseteq [by : Processes, from : Nat, until : Nat]
    BY DEF SessionInv, TypeOK, CacheInv, Listening, Ended
<1>2. OwnRows(p, wrote, rows)
    BY <1>1 DEF CacheInv, Alone
<1>3. /\ MaxBlocks \in Nat /\ q.head \in Nat /\ q.head <= MaxBlocks /\ Stepwise(wrote)
      /\ wrote \subseteq 1..q.head /\ wrote \subseteq Nat
    BY <1>1, SessionAssumption DEF Busy, ProcessRecord
<1>4. Open = MaxBlocks + 2
    BY DEF Open
<1> SUFFICES ASSUME NEW n \in 1..q.head
             PROVE  ReadAt(p, n) = LET mine == {m \in wrote : m <= n} IN
                                   {IF mine = {} THEN Remote ELSE [by |-> p, from |-> Max(mine)]}
    BY DEF ReadsOwn
<1> DEFINE mine == {m \in wrote : m <= n}
           valid == {r \in rows : r.from <= n /\ n < r.until}
           last == Max(wrote)
<1>5. n \in Nat /\ n <= q.head /\ n \in 1..MaxBlocks /\ n # q.head + 1
    BY <1>3
<1>6. ReadAt(p, n) = IF wrote # {} /\ last < n THEN {[by |-> p, from |-> last]}
                     ELSE IF valid # {} THEN {[by |-> r.by, from |-> r.from] : r \in valid}
                     ELSE {Remote}
    BY <1>5 DEF ReadAt
<1>7. mine = {} \/ \E x \in wrote : Greatest(x, mine)
    BY <1>3, <1>5 DEF Stepwise
<1>8. \A r \in rows : /\ r.by = p /\ r.from \in wrote /\ r.from < r.until
                      /\ r.until = Open \/ r.until \in wrote
                      /\ \A m \in wrote : ~(r.from < m /\ m < r.until)
                      /\ r.from \in Nat /\ r.until \in Nat
    BY <1>1, <1>2 DEF OwnRows
<1>9. \A m \in wrote : \E r \in rows : r.from = m
    BY <1>2 DEF OwnRows
\* There is a greatest block that was written, if there is any.
<1>10. wrote = {} \/ \E x \in wrote : Greatest(x, wrote)
    <2>1. CASE q.head = 0
        BY <1>3, <2>1
    <2>2. CASE q.head # 0
        <3>1. q.head \in 1..MaxBlocks
            BY <1>3, <2>2
        <3>2. {m \in wrote : m <= q.head} = wrote
            BY <1>3
        <3> QED
            BY <1>3, <3>1, <3>2 DEF Stepwise
    <2> QED
        BY <2>1, <2>2
<1> HIDE DEF q, wrote, valid, last, mine
<1>11. CASE mine = {}
    <2>1. valid = {}
        BY <1>8, <1>11 DEF valid, mine
    <2>2. ~(wrote # {} /\ last < n)
        <3>1. SUFFICES ASSUME wrote # {}, last < n PROVE FALSE
            OBVIOUS
        <3>2. last \in wrote
            BY <1>3, <1>10, <3>1, MaxIsGreatest DEF last, Greatest
        <3> QED
            BY <1>3, <1>5, <1>11, <3>1, <3>2 DEF mine
    <2> QED
        BY <1>6, <1>11, <2>1, <2>2 DEF mine
<1>12. CASE mine # {}
    <2>1. PICK x \in wrote : Greatest(x, mine)
        BY <1>7, <1>12
    <2>2. /\ x \in mine /\ x \in Nat /\ x <= n /\ mine \in SUBSET Nat
          /\ \A y \in wrote : y <= n => x >= y
        BY <1>3, <2>1 DEF Greatest, mine
    <2>3. Max(mine) = x
        BY <2>1, <2>2, MaxIsGreatest
    <2>4. CASE last < n
        <3>1. last \in wrote /\ \A y \in wrote : last >= y
            BY <1>3, <1>10, MaxIsGreatest DEF last, Greatest
        <3>2. last = x
            BY <1>3, <1>5, <2>2, <2>4, <3>1
        <3> QED
            BY <1>6, <1>12, <2>2, <2>3, <2>4, <3>2 DEF mine
    <2>5. CASE ~(last < n)
        <3>1. PICK s \in rows : s.from = x
            BY <1>9
        <3>2. n < s.until
            <4>1. SUFFICES ASSUME ~(n < s.until) PROVE FALSE
                OBVIOUS
            <4>2. s.until # Open
                BY <1>3, <1>4, <1>5, <1>8, <4>1
            <4>3. s.until \in wrote /\ s.until <= n
                BY <1>5, <1>8, <4>1, <4>2
            <4> QED
                BY <1>8, <2>2, <3>1, <4>3
        <3>3. s \in valid
            BY <2>2, <3>1, <3>2 DEF valid
        <3>4. ASSUME NEW r \in valid PROVE r.by = p /\ r.from = x
            <4>1. r \in rows /\ r.from <= n /\ n < r.until
                BY DEF valid
            <4>2. r.from <= x
                BY <1>8, <2>2, <4>1
            <4>3. x < r.until
                BY <1>5, <1>8, <2>2, <4>1
            <4>4. ~(r.from < x)
                BY <1>8, <4>1, <4>3
            <4> QED
                BY <1>8, <2>2, <4>1, <4>2, <4>4
        <3>5. {[by |-> r.by, from |-> r.from] : r \in valid} = {[by |-> p, from |-> x]}
            BY <3>3, <3>4
        <3> QED
            BY <1>6, <1>12, <2>3, <2>5, <3>3, <3>5 DEF mine
    <2> QED
        BY <2>4, <2>5
<1> QED
    BY <1>11, <1>12 DEF wrote

\* Sessions that have used one cache file after each other read no blocks but their own, for any
\* number of sessions and blocks, as long as none was killed with the file or shared it: the rows
\* of a session that is stopped are cleared before the next one can have the file for itself
\* (clear_local_storage after server.stop, in run_server and run_interactive).
THEOREM OwnBlocksRead == Spec => []SessionReadsOwnBlocks
<1>1. SessionInv /\ CacheInv => SessionReadsOwnBlocks
    BY AloneReadsOwn DEF SessionReadsOwnBlocks
<1>2. Spec => [](SessionInv /\ CacheInv)
    BY SessionInit, SessionStep, CacheInit, CacheStep, PTL DEF Spec
<1> QED
    BY <1>1, <1>2, PTL

=============================================================================
