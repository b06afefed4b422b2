----------------------------- MODULE ForkSession -----------------------------
(***************************************************************************)
(* `pop fork` (crates/pop-cli/src/commands/fork.rs): commands that start   *)
(* fork servers, in their own process or detached, one per endpoint of a   *)
(* chain until one succeeds; the servers' life from opening the cache to   *)
(* clearing it; and `pop clean node` (commands/clean.rs), which kills      *)
(* detached servers.  All servers are given the same cache file.           *)
(*                                                                         *)
(* The process of command s for its a-th endpoint is <<s, a>>.  One        *)
(* storage key stands for all of them, and blocks are numbered from the    *)
(* fork point, 0.                                                          *)
(***************************************************************************)
EXTENDS Naturals, FiniteSets, FiniteSetsExt

CONSTANTS
    Commands,   \* invocations of `pop fork`
    Endpoints,  \* how many rpc_urls the chain of each command has
    Ports,      \* TCP ports of the machine, numbered from 1
    Preferred,  \* MAX_PORT_ATTEMPTS: how many of them are tried in turn
    MaxBlocks   \* bound: blocks built by one server

ASSUME SessionAssumption ==
    /\ Endpoints \in [Commands -> Nat \ {0}] /\ Ports \in Nat \ {0}
    /\ Preferred \in 1..Ports /\ MaxBlocks \in Nat

VARIABLES
    command,    \* each command
    process,    \* each server process
    rows        \* local_values of the cache file

vars == <<command, process, rows>>

Processes == UNION {{s} \X (1..Endpoints[s]) : s \in Commands}

AnyPort == 0   \* no --port

(***************************************************************************)
(* A server process.  `file` is its ready file, `probe` the next port it   *)
(* tries, `wrote` its blocks that wrote the key.  `alone` is history: no   *)
(* other process has had the cache since this one opened it, or was killed *)
(* with it or left it in disorder before.                                  *)
(***************************************************************************)
NoProcess == [pc |-> "none", detached |-> FALSE, port |-> AnyPort, probe |-> 1,
              bound |-> 0, file |-> "absent", head |-> 0, wrote |-> {}, building |-> FALSE,
              alone |-> FALSE]

Ended == {"none", "refused", "killed", "stopped"}
Listening == {"bound", "announcing", "serving", "stopping"}

NoCommand == [pc |-> "idle", detached |-> FALSE, port |-> AnyPort, attempt |-> 1,
              reported |-> 0]

Init ==
    /\ command = [s \in Commands |-> NoCommand]
    /\ process = [p \in Processes |-> NoProcess]
    /\ rows = {}

Of(s) == <<s, command[s].attempt>>

Running(p) == process[p].pc \notin Ended

UsesCache(p) == Running(p) /\ process[p].pc # "opening"

Command(s, pc) == command' = [command EXCEPT ![s].pc = pc]

Process(p, pc) == process' = [process EXCEPT ![p].pc = pc]

\* What remains of a process: its ready file, the port it had and how it left the cache.
End(r, pc) == [NoProcess EXCEPT !.pc = pc, !.file = r.file, !.bound = r.bound, !.alone = r.alone]

EndProcess(p, pc) == process' = [process EXCEPT ![p] = End(process[p], pc)]

(***************************************************************************)
(* The command                                                             *)
(***************************************************************************)

\* Machine-readable output needs --detach and a source; a prompt may be cancelled.
Execute(s, detached, port) ==
    /\ command[s].pc = "idle"
    /\ \/ command' = [command EXCEPT ![s] = [NoCommand EXCEPT !.pc = "next", !.detached = detached, !.port = port]]
       \/ Command(s, "failed")
    /\ UNCHANGED <<process, rows>>

\* spawn_detached starts a process with a ready file of its own; run_interactive goes on
\* in the process of the command.
Spawn(s) ==
    /\ command[s].pc = "next"
    /\ process' = [process EXCEPT ![Of(s)] =
          [NoProcess EXCEPT !.pc = "opening", !.detached = command[s].detached,
                            !.port = command[s].port]]
    /\ Command(s, IF command[s].detached THEN "polling" ELSE "inside")
    /\ UNCHANGED rows

\* execute_with_fallback: the next endpoint, or the last error.
TryNext(s) ==
    LET c == command[s] IN
    command' = [command EXCEPT ![s] =
        IF c.attempt < Endpoints[s] THEN [c EXCEPT !.pc = "next", !.attempt = c.attempt + 1]
                                    ELSE [c EXCEPT !.pc = "failed"]]

\* wait_for_ready: has the child exited, ...
CheckExited(s) ==
    /\ command[s].pc = "polling"
    /\ Command(s, IF Running(Of(s)) THEN "looking" ELSE "giveUp")
    /\ UNCHANGED <<process, rows>>

\* Deliberate fault: a ready file is taken for a written one.
LookForAnyFile(s) ==
    /\ command[s].pc = "looking"
    /\ IF process[Of(s)].file # "absent" THEN Command(s, "reading")
       ELSE \/ Command(s, "polling")
            \/ Command(s, "giveUp")
    /\ UNCHANGED <<process, rows>>

\* ... has it written the ready file, is the time up?
LookForFile(s) ==
    /\ command[s].pc = "looking"
    /\ IF process[Of(s)].file = "written" THEN Command(s, "reading")
       ELSE \/ Command(s, "polling")
            \/ Command(s, "giveUp")
    /\ UNCHANGED <<process, rows>>

\* fork_output_from_ready_file: the bound address, or the endpoint that was forked (0)
\* when the file does not parse.
ReportReady(s) ==
    /\ command[s].pc = "reading"
    /\ command' = [command EXCEPT ![s].pc = "done",
          ![s].reported = IF process[Of(s)].file = "written" THEN process[Of(s)].bound ELSE 0]
    /\ process' = [process EXCEPT ![Of(s)].file = "absent"]
    /\ UNCHANGED rows

\* Deliberate fault: the error is returned and the child left alone.
GiveUpQuietly(s) ==
    /\ command[s].pc = "giveUp"
    /\ process' = [process EXCEPT ![Of(s)].file = "absent"]
    /\ TryNext(s)
    /\ UNCHANGED rows

\* kill and wait for the child, remove the ready file, return the error.
GiveUp(s) ==
    /\ command[s].pc = "giveUp"
    /\ LET r == process[Of(s)] IN
       process' = [process EXCEPT
          ![Of(s)] = [IF Running(Of(s)) THEN End(r, "killed") ELSE r EXCEPT !.file = "absent"]]
    /\ TryNext(s)
    /\ UNCHANGED rows

\* run_interactive returns: an error leads to the next endpoint as well.
Return(s) ==
    /\ command[s].pc = "inside"
    /\ \/ process[Of(s)].pc = "stopped" /\ Command(s, "done")
       \/ process[Of(s)].pc = "refused" /\ TryNext(s)
       \/ process[Of(s)].pc = "killed" /\ Command(s, "failed")
    /\ UNCHANGED <<process, rows>>

(***************************************************************************)
(* The server                                                              *)
(***************************************************************************)
Refuse(p) == EndProcess(p, "refused")

\* StorageCache::open: nothing in the file is changed.
OpenCache(p) ==
    /\ process[p].pc = "opening"
    /\ LET others == {q \in Processes \ {p} :
                         \/ UsesCache(q) \/ process[q].pc = "killed"
                         \/ process[q].pc = "stopped" /\ ~process[q].alone} IN
       process' = [q \in Processes |->
          IF q = p THEN [process[p] EXCEPT
                            !.pc = "forking",
                            !.alone = others = {}]
          ELSE IF Running(q) THEN [process[q] EXCEPT !.alone = FALSE]
          ELSE process[q]]
    /\ UNCHANGED <<command, rows>>

\* fork_with_config: connecting, the fork point, metadata and code may all fail.  With
\* --dev the accounts are funded before the server starts.
ForkChain(p) ==
    /\ process[p].pc = "forking"
    /\ Process(p, "binding") \/ Process(p, "funding") \/ Refuse(p)
    /\ UNCHANGED <<command, rows>>

\* initialize_dev_accounts: entries at the fork point, in memory only.
FundAccounts(p) ==
    /\ process[p].pc = "funding"
    /\ Process(p, "binding") \/ Refuse(p)
    /\ UNCHANGED <<command, rows>>

Taken == {process[p].bound : p \in {q \in Processes : process[q].pc \in Listening}}

BindTo(p, n) ==
    /\ n \notin Taken
    /\ process' = [process EXCEPT ![p].pc = "bound", ![p].bound = n]

\* ForkRpcServer::start: the port asked for and no other; else the first of the preferred
\* ones that is free, and then any port, which may be gone by the time it is bound.
Bind(p) ==
    LET r == process[p] IN
    /\ r.pc = "binding"
    /\ \/ r.port # AnyPort /\ (BindTo(p, r.port) \/ (r.port \in Taken /\ Refuse(p)))
       \/ r.port = AnyPort /\ r.probe <= Preferred /\ BindTo(p, r.probe)
       \/ /\ r.port = AnyPort /\ r.probe <= Preferred /\ r.probe \in Taken
          /\ process' = [process EXCEPT ![p].probe = @ + 1]
       \/ /\ r.port = AnyPort /\ r.probe > Preferred
          /\ (\E n \in 1..Ports : BindTo(p, n)) \/ Refuse(p)
    /\ UNCHANGED <<command, rows>>

\* std::fs::write creates the file and then fills it.
CreateReadyFile(p) ==
    /\ process[p].pc = "bound"
    /\ process' = [process EXCEPT ![p].pc = IF process[p].detached THEN "announcing" ELSE "serving",
                                  ![p].file = IF process[p].detached THEN "empty" ELSE "absent"]
    /\ UNCHANGED <<command, rows>>

FillReadyFile(p) ==
    /\ process[p].pc = "announcing"
    /\ process' = [process EXCEPT ![p].pc = "serving", ![p].file = "written"]
    /\ UNCHANGED <<command, rows>>

\* Ctrl+C is handled only now.
Interrupt(p) ==
    /\ process[p].pc = "serving"
    /\ Process(p, "stopping")
    /\ UNCHANGED <<command, rows>>

\* An error (the file is locked by another process) is ignored.
Cleared(p) == IF \E q \in Processes \ {p} : UsesCache(q) THEN {{}, rows} ELSE {{}}

\* Deliberate fault: the cache is cleared while requests may still be running.
ClearBeforeStop(p) ==
    /\ process[p].pc = "stopping"
    /\ \/ ~process[p].building /\ EndProcess(p, "stopped") /\ UNCHANGED rows
       \/ process[p].building /\ rows' \in Cleared(p) /\ UNCHANGED process
    /\ UNCHANGED command

\* server.stop waits for the requests in progress; then the local rows are deleted, of
\* whatever process they are.
StopAndClear(p) ==
    /\ process[p].pc = "stopping"
    /\ ~process[p].building
    /\ EndProcess(p, "stopped")
    /\ rows' \in Cleared(p)
    /\ UNCHANGED command

(***************************************************************************)
(* Blocks.  A commit closes the open row of the key and inserts one.       *)
(***************************************************************************)
Open == MaxBlocks + 2

BeginBuild(p) ==
    /\ process[p].pc \in Listening \ {"stopping"}
    /\ ~process[p].building
    /\ process[p].head < MaxBlocks
    /\ process' = [process EXCEPT ![p].building = TRUE]
    /\ UNCHANGED <<command, rows>>

CommitLocalChanges(p, n) ==
    {[r EXCEPT !.until = IF @ = Open THEN n ELSE @] : r \in rows} \union
        {[by |-> p, from |-> n, until |-> Open]}

Commit(p) ==
    /\ Running(p)
    /\ process[p].building
    /\ LET n == process[p].head + 1 IN
       \/ /\ process' = [process EXCEPT ![p].building = FALSE, ![p].head = n]
          /\ UNCHANGED rows
       \/ /\ process' = [process EXCEPT ![p].building = FALSE, ![p].head = n,
                                        ![p].wrote = @ \union {n}]
          /\ rows' = CommitLocalChanges(p, n)
    /\ UNCHANGED command

\* LocalStorageLayer::get at block n: an entry of the map that is older than n, else a row
\* of the file, else the live chain (no process).
Remote == [by |-> <<>>, from |-> 0]

ReadAt(p, n) ==
    LET last == Max(process[p].wrote)
        valid == {r \in rows : r.from <= n /\ n < r.until}
    IN IF process[p].wrote # {} /\ (n = process[p].head + 1 \/ last < n)
       THEN {[by |-> p, from |-> last]}
       ELSE IF n <= process[p].head /\ valid # {}
       THEN {[by |-> r.by, from |-> r.from] : r \in valid}
       ELSE {Remote}

(***************************************************************************)
(* Killing.  `pop clean node` lists the detached servers, asks, and kills  *)
(* the chosen ones one by one; one that has gone meanwhile is no error.    *)
(* The command of a detached server tells its user to do this, or to use   *)
(* kill -9 directly.                                                       *)
(***************************************************************************)
\* get_fork_processes: by their command line, whether they listen already or not.
ForkProcesses == {p \in Processes : Running(p) /\ process[p].detached}

CleanNode(p) ==
    /\ p \in ForkProcesses
    /\ EndProcess(p, "killed")
    /\ UNCHANGED <<command, rows>>

\* An interactive process is killed by its user, or by the machine.
Kill(p) ==
    /\ Running(p)
    /\ ~process[p].detached
    /\ EndProcess(p, "killed")
    /\ UNCHANGED <<command, rows>>

-----------------------------------------------------------------------------

RunCommand(s) ==
    \/ Spawn(s)
    \/ CheckExited(s)
    \/ LookForFile(s)
    \/ ReportReady(s)
    \/ GiveUp(s)
    \/ Return(s)

StartServer(p) ==
    \/ OpenCache(p)
    \/ ForkChain(p)
    \/ FundAccounts(p)
    \/ Bind(p)
    \/ CreateReadyFile(p)
    \/ FillReadyFile(p)

Next ==
    \/ \E s \in Commands :
          \/ \E detached \in BOOLEAN, port \in {AnyPort, 1} : Execute(s, detached, port)
          \/ RunCommand(s)
    \/ \E p \in Processes :
          \/ StartServer(p)
          \/ Interrupt(p)
          \/ StopAndClear(p)
          \/ BeginBuild(p)
          \/ Commit(p)
          \/ CleanNode(p)
          \/ Kill(p)

Spec == Init /\ [][Next]_vars

(***************************************************************************)
(* Properties                                                              *)
(***************************************************************************)

\* A detached command that succeeds reports the address its server listens on: the
\* child had bound its port before the ready file said so, and an unfinished ready file
\* is not taken for a finished one.
ReportedReady ==
    \A s \in Commands :
        command[s].pc = "done" /\ command[s].detached =>
            /\ process[Of(s)].bound # 0
            /\ command[s].reported = process[Of(s)].bound

\* Endpoints that were given up leave nothing behind: no server that runs unknown to the
\* user and no ready file, although the child may start, bind or fail at any moment.
NoOrphan ==
    \A s \in Commands : \A a \in 1..Endpoints[s] :
        command[s].pc = "failed" \/ a < command[s].attempt =>
            ~Running(<<s, a>>) /\ process[<<s, a>>].file = "absent"

ReadsOwn(p) ==
    \A n \in 1..process[p].head :
        ReadAt(p, n) = LET mine == {m \in process[p].wrote : m <= n} IN
                       {IF mine = {} THEN Remote ELSE [by |-> p, from |-> Max(mine)]}

\* Sessions that use one cache file after each other do not see each other's blocks,
\* as long as each is stopped by Ctrl+C, however late its last block was committed.
SessionReadsOwnBlocks ==
    \A p \in Processes : process[p].pc \in Listening /\ process[p].alone => ReadsOwn(p)

=============================================================================
