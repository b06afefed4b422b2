------------------------------- MODULE Network -------------------------------
(***************************************************************************)
(* `pop up network` and `pop up <relay>` from the launch of the nodes on   *)
(* (spawn of crates/pop-cli/src/commands/up/network.rs), and `pop clean    *)
(* network` (commands/clean.rs), which finds such networks by the files    *)
(* they leave and stops them.                                              *)
(*                                                                         *)
(* Every up command launches at most one network, named after it.          *)
(***************************************************************************)
EXTENDS Naturals, FiniteSets

LOCAL INSTANCE FiniteSetsExt

CONSTANTS
    Ups,        \* processes of `pop up`
    Cleaners,   \* processes of `pop clean network`
    NodeCount   \* node processes of a network

ASSUME NetworkAssumption == NodeCount \in Nat \ {0}

VARIABLES
    up,         \* each up command
    cleaner,    \* each cleaner
    net         \* the network of each up command

networkVars == <<up, cleaner, net>>

Nodes == 1..NodeCount

\* The node processes that run, and the directory with its zombie.json and .CLEARED.
NoNetwork == [nodes |-> {}, dir |-> FALSE, zombie |-> FALSE, cleared |-> FALSE]

NoClean == [pc |-> "idle", list |-> {}, pids |-> {}, keep |-> FALSE, at |-> {}, stopped |-> {}]

\* The flags of an up command that matter from the launch on: --rm, --detach, and --json,
\* which needs --detach and a configuration file.
Modes == {"interactive", "rm", "detach", "json"}

NetworkInit ==
    /\ up \in [Ups -> [pc : {"adapted"}, mode : Modes, pending : {{}}]]
    /\ cleaner = [k \in Cleaners |-> NoClean]
    /\ net = [p \in Ups |-> NoNetwork]

Go(p, pc) == up' = [up EXCEPT ![p].pc = pc, ![p].pending = {}]

Stop(p, pc) == up' = [up EXCEPT ![p] = [pc |-> pc, mode |-> "none", pending |-> {}]]

Set(k, r) == cleaner' = [cleaner EXCEPT ![k] = r]

End(k, pc) == Set(k, [NoClean EXCEPT !.pc = pc, !.stopped = cleaner[k].stopped])

\* mark_cleared, and the removal of the directory.
Marked(n) == [n EXCEPT !.cleared = n.cleared \/ n.dir]
Removed(n) == [n EXCEPT !.dir = FALSE, !.zombie = FALSE]

(***************************************************************************)
(* spawn                                                                   *)
(***************************************************************************)

\* spawn_native starts the nodes and writes zombie.json, or stops what it has started.
SpawnNative(p) ==
    /\ up[p].pc = "adapted"
    /\ \/ /\ net' = [net EXCEPT ![p] = [NoNetwork EXCEPT !.nodes = Nodes, !.dir = TRUE, !.zombie = TRUE]]
          /\ Go(p, "launched")
       \/ Stop(p, "failed") /\ UNCHANGED net
    /\ UNCHANGED cleaner

\* A custom command that fails ends the function, which drops the network and with it the
\* nodes; the directory stays.
RunCustomCommand(p) ==
    /\ up[p].pc = "launched" /\ up[p].mode # "json"
    /\ net' = [net EXCEPT ![p].nodes = {}]
    /\ Stop(p, "failed")
    /\ UNCHANGED cleaner

Detach(p) ==
    /\ up[p].pc = "launched" /\ up[p].mode \in {"detach", "json"}
    /\ up' = [up EXCEPT ![p].pc = "checking", ![p].pending = Nodes]
    /\ UNCHANGED <<cleaner, net>>

\* wait_for_rpc_endpoints_ready: some more of the running nodes answer, or the time is up.
CheckHealth(p, ready) ==
    LET r == up[p] IN
    /\ r.pc = "checking" /\ r.pending # {}
    /\ ready \subseteq r.pending \intersect net[p].nodes
    /\ \/ ready # {} /\ up' = [up EXCEPT ![p].pending = @ \ ready]
       \/ ready = {} /\ IF r.mode = "json" THEN Stop(p, "failed") ELSE Go(p, "pids")
    /\ UNCHANGED <<cleaner, net>>

\* The process ids are read from zombie.json, which may have gone.
ReadPids(p) ==
    LET r == up[p] IN
    /\ r.pc = "pids" \/ (r.pc = "checking" /\ r.pending = {})
    /\ Stop(p, IF net[p].zombie \/ r.mode # "json" THEN "done" ELSE "failed")
    /\ UNCHANGED <<cleaner, net>>

\* Ctrl+C: the directory is removed (--rm) or marked, if that is possible, ...
Interrupt(p) ==
    /\ up[p].pc = "launched" /\ up[p].mode \in {"interactive", "rm"}
    /\ \/ net' = [net EXCEPT ![p] = IF up[p].mode = "rm" THEN Removed(@) ELSE Marked(@)]
       \/ UNCHANGED net
    /\ Go(p, "exiting")
    /\ UNCHANGED cleaner

\* ... and then the nodes stop with the process.
DropNetwork(p) ==
    /\ up[p].pc = "exiting"
    /\ net' = [net EXCEPT ![p].nodes = {}]
    /\ Stop(p, "done")
    /\ UNCHANGED cleaner

(***************************************************************************)
(* Faults: an up command is killed, and the nodes it started go on; a node *)
(* dies.  (A cleaner that is killed is one that takes no further step.)    *)
(***************************************************************************)
KillUp(p) ==
    /\ up[p].pc \in {"launched", "checking", "pids", "exiting"}
    /\ Go(p, "killed")
    /\ UNCHANGED <<cleaner, net>>

NodeDies(p, n) ==
    /\ n \in net[p].nodes
    /\ net' = [net EXCEPT ![p].nodes = @ \ {n}]
    /\ UNCHANGED <<up, cleaner>>

(***************************************************************************)
(* pop clean network                                                       *)
(***************************************************************************)

\* find_zombie_jsons
Candidates == {p \in Ups : net[p].dir /\ net[p].zombie /\ ~net[p].cleared}

\* All candidates, the one or the ones chosen, or one that is named.
ChooseNetworks(k, chosen, keep) ==
    /\ cleaner[k].pc = "idle"
    /\ chosen # {}
    /\ \/ chosen \subseteq Candidates
       \/ \E p \in Ups : chosen = {p} /\ net[p].zombie
    /\ Set(k, [NoClean EXCEPT !.pc = "destroy", !.list = chosen, !.keep = keep])
    /\ UNCHANGED <<up, net>>

\* execute_network_json: --all or a path, without a question; a failure is counted, and the
\* other networks are stopped in the same way.
ChooseNetworksJson(k, keep) ==
    \/ ChooseNetworks(k, Candidates, keep)
    \/ \E p \in Ups : ChooseNetworks(k, {p}, keep)

Finish(k) ==
    /\ cleaner[k].pc = "destroy" /\ cleaner[k].list = {}
    /\ End(k, "done")
    /\ UNCHANGED <<up, net>>

Skip(k, p) == Set(k, [cleaner[k] EXCEPT !.list = @ \ {p}, !.at = {}, !.pc = "destroy"])

\* Deliberate fault: after any error the state is removed as if the network had stopped.
DestroyCarelessly(k, p) ==
    /\ cleaner[k].pc = "destroy" /\ p \in cleaner[k].list
    /\ Set(k, [cleaner[k] EXCEPT !.pc = "forget", !.at = p])
    /\ UNCHANGED <<up, net>>

\* destroy_network attaches to the network and stops its nodes.  An error that says that
\* they have stopped already is none; one that says that nodes cannot be stopped this way
\* leads to their process ids; any other one leaves the network alone.
Destroy(k, p) ==
    /\ cleaner[k].pc = "destroy" /\ p \in cleaner[k].list
    /\ \/ /\ net[p].zombie
          /\ net' = [net EXCEPT ![p].nodes = {}]
          /\ Set(k, [cleaner[k] EXCEPT !.pc = "forget", !.at = p])
       \/ /\ net[p].nodes = {}
          /\ Set(k, [cleaner[k] EXCEPT !.pc = "forget", !.at = p])
          /\ UNCHANGED net
       \/ Set(k, [cleaner[k] EXCEPT !.pc = "pids", !.at = p]) /\ UNCHANGED net
       \/ Skip(k, p) /\ UNCHANGED net
    /\ UNCHANGED up

\* read_pids_from_zombie_json
ListPids(k) ==
    LET p == cleaner[k].at IN
    /\ cleaner[k].pc = "pids"
    /\ IF net[p].zombie THEN Set(k, [cleaner[k] EXCEPT !.pc = "kill", !.pids = Nodes]) ELSE End(k, "failed")
    /\ UNCHANGED <<up, net>>

\* kill -9: a process that is gone is no error, any other one ends the command.
KillPid(k) ==
    LET p == cleaner[k].at IN
    /\ cleaner[k].pc = "kill"
    /\ \/ /\ cleaner[k].pids = {}
          /\ Set(k, [cleaner[k] EXCEPT !.pc = "forget"])
          /\ UNCHANGED net
       \/ /\ cleaner[k].pids # {}
          /\ net' = [net EXCEPT ![p].nodes = @ \ {Min(cleaner[k].pids)}]
          /\ Set(k, [cleaner[k] EXCEPT !.pids = @ \ {Min(@)}])
       \/ cleaner[k].pids # {} /\ End(k, "failed") /\ UNCHANGED net
    /\ UNCHANGED up

\* The directory is marked as cleared or removed; either may fail, which counts as a failure
\* of the command only when it was to be removed.
Forget(k) ==
    LET p == cleaner[k].at
        r == cleaner[k]
        reported(yes) == Set(k, [r EXCEPT !.stopped = IF yes THEN @ \union {p} ELSE @,
                                          !.list = @ \ {p}, !.at = {}, !.pc = "destroy"])
    IN
    /\ r.pc = "forget"
    /\ \/ /\ net' = [net EXCEPT ![p] = IF r.keep THEN Marked(@) ELSE Removed(@)]
          /\ reported(TRUE)
       \/ reported(r.keep) /\ UNCHANGED net
    /\ UNCHANGED up

CleanNetwork(k) ==
    \/ Finish(k)
    \/ \E p \in Ups : Destroy(k, p)
    \/ ListPids(k)
    \/ KillPid(k)
    \/ Forget(k)

-----------------------------------------------------------------------------

NetworkNext ==
    \/ \E p \in Ups :
          \/ SpawnNative(p)
          \/ RunCustomCommand(p)
          \/ Detach(p)
          \/ \E ready \in SUBSET Nodes : CheckHealth(p, ready)
          \/ ReadPids(p)
          \/ Interrupt(p)
          \/ DropNetwork(p)
          \/ KillUp(p)
          \/ \E n \in Nodes : NodeDies(p, n)
    \/ \E k \in Cleaners :
          \/ \E keep \in BOOLEAN :
                \/ \E chosen \in SUBSET Ups : ChooseNetworks(k, chosen, keep)
                \/ ChooseNetworksJson(k, keep)
          \/ CleanNetwork(k)

NetworkSpec == NetworkInit /\ [][NetworkNext]_networkVars

(***************************************************************************)
(* Properties                                                              *)
(***************************************************************************)

\* Nodes that run belong to a command that runs or can be found by `pop clean network`,
\* whatever cleaners did at the same time and whatever failed.  A command that was killed
\* after it had marked or removed its directory is the exception.
RunningNetworksFound ==
    \A p \in Ups :
        net[p].nodes # {} =>
            \/ p \in Candidates
            \/ up[p].pc \in {"launched", "exiting"}
            \/ up[p].pc = "killed" /\ up[p].mode \in {"interactive", "rm"}

\* A network that `pop clean network` reports as stopped has no node left.
StoppedMeansStopped ==
    \A k \in Cleaners : \A p \in cleaner[k].stopped : net[p].nodes = {}

=============================================================================
