---------------------------- MODULE CommandProofs ----------------------------
(***************************************************************************)
(* Proofs about the commands.  First the processes that outlive or run     *)
(* beside one, for any number of them: the networks of `pop up` with the   *)
(* cleaners that stop them, the HTTP server of a wallet's signature, and   *)
(* the processes that source a network's binaries into one cache.  Then    *)
(* the commands that are a conversation with a user, each by itself, for   *)
(* any number of calls, menu choices and releases: contracts, benchmarks   *)
(* and new projects.  Last the inherents of a fork, for any chain that its *)
(* assumptions allow, the answer that an invocation of pop ends with, and  *)
(* what `pop call chain` asks of its user.                                 *)
(***************************************************************************)
EXTENDS Network, Wallet, Sourcing, Contracts, Chains, Benchmarks, Projects, Inherents,
        Main, WellFoundedInduction, TLAPS

(***************************************************************************)
(* Networks.  The inductive invariant says what a cleaner knows at each    *)
(* place: that the network it is about to forget has no node, that the     *)
(* process ids it has still to kill include those of all nodes left, and   *)
(* that a network it was given had been launched, so that no node appears  *)
(* in it any more.                                                         *)
(***************************************************************************)
WorksOn(k, p) ==
    \/ p \in cleaner[k].list \/ p \in cleaner[k].stopped
    \/ cleaner[k].pc \in {"pids", "kill", "forget"} /\ cleaner[k].at = p

Up == [pc : {"adapted", "launched", "checking", "pids", "exiting", "killed", "done", "failed"},
       mode : Modes \union {"none"}, pending : SUBSET Nodes]

Net == [nodes : SUBSET Nodes, dir : BOOLEAN, zombie : BOOLEAN, cleared : BOOLEAN]

Cleaner == [pc : {"idle", "destroy", "pids", "kill", "forget", "done", "failed"},
            list : SUBSET Ups, pids : SUBSET Nodes, keep : BOOLEAN, at : Ups \union {{}},
            stopped : SUBSET Ups]

NetworkTypeOK ==
    /\ up \in [Ups -> Up]
    /\ net \in [Ups -> Net]
    /\ cleaner \in [Cleaners -> Cleaner]

NotBeforeLaunch ==
    \A p \in Ups : up[p].pc = "adapted" =>
        net[p] = NoNetwork /\ \A k \in Cleaners : ~WorksOn(k, p)

CleanerKnows ==
    \A k \in Cleaners :
        /\ cleaner[k].pc \in {"pids", "kill", "forget"} => cleaner[k].at \in Ups
        /\ cleaner[k].pc = "kill" => net[cleaner[k].at].nodes \subseteq cleaner[k].pids
        /\ cleaner[k].pc = "forget" => net[cleaner[k].at].nodes = {}

\* find_zombie_jsons lists it.
Findable(n) == n.dir /\ n.zombie /\ ~n.cleared

NodesFound ==
    \A p \in Ups :
        net[p].nodes # {} =>
            \/ Findable(net[p])
            \/ up[p].mode \in {"interactive", "rm"} /\ up[p].pc \in {"launched", "exiting", "killed"}

OnlyInteractiveExits ==
    \A p \in Ups : up[p].pc = "exiting" => up[p].mode \in {"interactive", "rm"}

NetworkInv ==
    /\ NetworkTypeOK /\ NotBeforeLaunch /\ CleanerKnows /\ NodesFound /\ OnlyInteractiveExits
    /\ StoppedMeansStopped

(***************************************************************************)
(* The steps of up commands and the faults: they leave the cleaners alone, *)
(* and a network changes in its own way only.                              *)
(***************************************************************************)
UpStep(p) ==
    \/ SpawnNative(p) \/ RunCustomCommand(p) \/ Detach(p)
    \/ (\E ready \in SUBSET Nodes : CheckHealth(p, ready))
    \/ ReadPids(p) \/ Interrupt(p) \/ DropNetwork(p) \/ KillUp(p)
    \/ (\E n \in Nodes : NodeDies(p, n))

LEMMA NetworkChanges ==
  ASSUME NEW n \in Net
  PROVE  /\ Marked(n) \in Net /\ Marked(n).nodes = n.nodes
         /\ Removed(n) \in Net /\ Removed(n).nodes = n.nodes
         /\ NoNetwork \in Net
  BY DEF Net, Marked, Removed, NoNetwork

(***************************************************************************)
(* What remains to be shown of a step of an up command: that it and its    *)
(* network keep their types, that nodes appear only at the launch, and     *)
(* that the nodes it leaves can be found.                                  *)
(***************************************************************************)
LEMMA OneNetworkMoves ==
  ASSUME NetworkInv, NEW p \in Ups, UNCHANGED cleaner,
         NEW u \in Up, NEW n \in Net,
         up' = [up EXCEPT ![p] = u], net' = [net EXCEPT ![p] = n],
         u.pc # "adapted",
         n.nodes \subseteq net[p].nodes \/ up[p].pc = "adapted",
         n.nodes # {} => \/ Findable(n)
                         \/ /\ u.mode \in {"interactive", "rm"}
                            /\ u.pc \in {"launched", "exiting", "killed"},
         u.pc = "exiting" => u.mode \in {"interactive", "rm"}
  PROVE  NetworkInv'
  <1>1. NetworkTypeOK'
    BY DEF NetworkInv, NetworkTypeOK
  <1>2. /\ up'[p] = u /\ net'[p] = n
        /\ \A q \in Ups \ {p} : up'[q] = up[q] /\ net'[q] = net[q]
    BY DEF NetworkInv, NetworkTypeOK
  <1>3. NotBeforeLaunch'
    BY <1>2 DEF NetworkInv, NotBeforeLaunch, WorksOn
  <1>4. \A k \in Cleaners : WorksOn(k, p) => n.nodes \subseteq net[p].nodes
    BY DEF NetworkInv, NotBeforeLaunch
  <1>5. CleanerKnows' /\ StoppedMeansStopped'
    <2>1. \A k \in Cleaners, q \in Ups : WorksOn(k, q) => net'[q].nodes \subseteq net[q].nodes
      BY <1>2, <1>4
    <2> QED
      BY <2>1, <1>2 DEF NetworkInv, NetworkTypeOK, Cleaner, CleanerKnows, StoppedMeansStopped, WorksOn
  <1>6. NodesFound' /\ OnlyInteractiveExits'
    BY <1>2 DEF NetworkInv, NodesFound, OnlyInteractiveExits
  <1> QED
    BY <1>1, <1>3, <1>5, <1>6 DEF NetworkInv

LEMMA UpStepInv ==
  ASSUME NetworkInv, NEW p \in Ups, UpStep(p)
  PROVE  NetworkInv'
  <1>0. /\ up \in [Ups -> Up] /\ up[p] \in Up /\ net \in [Ups -> Net] /\ net[p] \in Net
        /\ up = [up EXCEPT ![p] = up[p]] /\ net = [net EXCEPT ![p] = net[p]]
    BY DEF NetworkInv, NetworkTypeOK
  <1>f. net[p].nodes # {} =>
            \/ Findable(net[p])
            \/ up[p].mode \in {"interactive", "rm"} /\ up[p].pc \in {"launched", "exiting", "killed"}
    BY DEF NetworkInv, NodesFound
  <1>g. up[p].pc = "exiting" => up[p].mode \in {"interactive", "rm"}
    BY DEF NetworkInv, OnlyInteractiveExits
  <1>s. ASSUME NEW c \in {"done", "failed"}, Stop(p, c), UNCHANGED cleaner,
               NEW n \in Net, net' = [net EXCEPT ![p] = n], n.nodes \subseteq net[p].nodes,
               n.nodes # {} => Findable(n)
        PROVE  NetworkInv'
    <2> DEFINE u == [pc |-> c, mode |-> "none", pending |-> {}]
    <2>1. u \in Up /\ u.pc = c /\ up' = [up EXCEPT ![p] = u]
      BY <1>s DEF Stop, Up
    <2> HIDE DEF u
    <2> QED
      BY <1>s, <2>1, OneNetworkMoves
  <1>t. ASSUME NEW c \in {"launched", "pids", "exiting", "killed"}, Go(p, c), UNCHANGED cleaner,
               NEW n \in Net, net' = [net EXCEPT ![p] = n],
               n.nodes \subseteq net[p].nodes \/ up[p].pc = "adapted",
               n.nodes # {} => \/ Findable(n)
                               \/ up[p].mode \in {"interactive", "rm"} /\ c # "pids",
               c = "exiting" => up[p].mode \in {"interactive", "rm"}
        PROVE  NetworkInv'
    <2> DEFINE u == [up[p] EXCEPT !.pc = c, !.pending = {}]
    <2>1. u \in Up /\ u.pc = c /\ u.mode = up[p].mode /\ up' = [up EXCEPT ![p] = u]
      BY <1>t, <1>0 DEF Go, Up
    <2> HIDE DEF u
    <2> QED
      BY <1>t, <2>1, OneNetworkMoves
  <1>a. /\ [net[p] EXCEPT !.nodes = {}] \in Net
        /\ [net[p] EXCEPT !.nodes = {}].nodes = {}
    BY <1>0 DEF Net
  <1>1. CASE SpawnNative(p)
    <2>1. CASE Stop(p, "failed") /\ UNCHANGED net
      <3>1. net[p].nodes = {}
        BY <1>1 DEF SpawnNative, NetworkInv, NotBeforeLaunch, NoNetwork
      <3> QED
        BY <1>1, <2>1, <3>1, <1>0, <1>s DEF SpawnNative
    <2>2. CASE Go(p, "launched")
               /\ net' = [net EXCEPT ![p] = [NoNetwork EXCEPT !.nodes = Nodes, !.dir = TRUE, !.zombie = TRUE]]
      <3> DEFINE n == [NoNetwork EXCEPT !.nodes = Nodes, !.dir = TRUE, !.zombie = TRUE]
      <3>1. n \in Net /\ Findable(n)
        BY DEF NoNetwork, Net, Findable
      <3> HIDE DEF n
      <3> QED
        BY <1>1, <2>2, <3>1, <1>t DEF SpawnNative, n
    <2> QED
      BY <1>1, <2>1, <2>2 DEF SpawnNative
  <1>2. CASE RunCustomCommand(p)
    <2>1. net' = [net EXCEPT ![p] = [net[p] EXCEPT !.nodes = {}]]
      BY <1>2, <1>0 DEF RunCustomCommand
    <2> QED
      BY <1>2, <2>1, <1>a, <1>s DEF RunCustomCommand
  <1>3. CASE Detach(p)
    <2> DEFINE u == [up[p] EXCEPT !.pc = "checking", !.pending = Nodes]
    <2>1. /\ u \in Up /\ u.pc = "checking" /\ u.mode = up[p].mode
          /\ up' = [up EXCEPT ![p] = u]
      BY <1>0, <1>3 DEF Detach, Up
    <2>2. net[p].nodes # {} => Findable(net[p])
      BY <1>3, <1>f DEF Detach
    <2>3. net' = [net EXCEPT ![p] = net[p]] /\ UNCHANGED cleaner
      BY <1>3, <1>0 DEF Detach
    <2> HIDE DEF u
    <2> QED
      BY <2>1, <2>2, <2>3, <1>0, OneNetworkMoves
  <1>4. ASSUME NEW ready \in SUBSET Nodes, CheckHealth(p, ready)
        PROVE  NetworkInv'
    <2>0. /\ net[p].nodes # {} => Findable(net[p])
          /\ UNCHANGED <<cleaner, net>>
      BY <1>4, <1>f DEF CheckHealth
    <2>1. CASE up' = [up EXCEPT ![p].pending = @ \ ready]
      <3> DEFINE u == [up[p] EXCEPT !.pending = @ \ ready]
      <3>1. u \in Up /\ u.pc = up[p].pc /\ up' = [up EXCEPT ![p] = u]
        BY <1>0, <2>1 DEF Up
      <3>2. net' = [net EXCEPT ![p] = net[p]] /\ up[p].pc = "checking"
        BY <1>4, <2>0, <1>0 DEF CheckHealth
      <3> HIDE DEF u
      <3> QED
        BY <2>0, <3>1, <3>2, <1>0, OneNetworkMoves
    <2>2. CASE Stop(p, "failed")
      BY <2>0, <2>2, <1>0, <1>s
    <2>3. CASE Go(p, "pids")
      BY <2>0, <2>3, <1>0, <1>t
    <2> QED
      BY <1>4, <2>1, <2>2, <2>3 DEF CheckHealth
  <1>5. CASE ReadPids(p)
    <2>1. /\ net[p].nodes # {} => Findable(net[p])
          /\ UNCHANGED <<cleaner, net>>
          /\ \E c \in {"done", "failed"} : Stop(p, c)
      BY <1>5, <1>f DEF ReadPids
    <2> QED
      BY <2>1, <1>0, <1>s
  <1>6. CASE Interrupt(p)
    <2>1. PICK n \in {net[p], Marked(net[p]), Removed(net[p])} : net' = [net EXCEPT ![p] = n]
      BY <1>6, <1>0 DEF Interrupt
    <2>2. n \in Net /\ n.nodes = net[p].nodes
      BY <1>0, <2>1, NetworkChanges
    <2> QED
      BY <1>6, <2>1, <2>2, <1>t DEF Interrupt
  <1>7. CASE DropNetwork(p)
    <2>1. net' = [net EXCEPT ![p] = [net[p] EXCEPT !.nodes = {}]]
      BY <1>7, <1>0 DEF DropNetwork
    <2> QED
      BY <1>7, <2>1, <1>a, <1>s DEF DropNetwork
  <1>8. CASE KillUp(p)
    BY <1>8, <1>0, <1>f, <1>t DEF KillUp
  <1>9. ASSUME NEW n \in Nodes, NodeDies(p, n)
        PROVE  NetworkInv'
    <2> DEFINE m == [net[p] EXCEPT !.nodes = @ \ {n}]
    <2>1. /\ m \in Net /\ net' = [net EXCEPT ![p] = m] /\ m.nodes \subseteq net[p].nodes
          /\ Findable(net[p]) => Findable(m)
      BY <1>0, <1>9 DEF Net, NodeDies, Findable
    <2>2. up[p].pc # "adapted"
      BY <1>9 DEF NodeDies, NetworkInv, NotBeforeLaunch, NoNetwork
    <2>3. UNCHANGED <<up, cleaner>>
      BY <1>9 DEF NodeDies
    <2> HIDE DEF m
    <2> QED
      BY <2>1, <2>2, <2>3, <1>0, <1>f, <1>g, OneNetworkMoves
  <1> QED
    BY <1>1, <1>2, <1>3, <1>4, <1>5, <1>6, <1>7, <1>8, <1>9 DEF UpStep

(***************************************************************************)
(* The steps of cleaners: they leave the up commands alone.                *)
(***************************************************************************)
LEMMA OneCleanerMoves ==
  ASSUME NetworkInv, NEW k \in Cleaners, UNCHANGED up,
         NEW r \in Cleaner, cleaner' = [cleaner EXCEPT ![k] = r],
         NEW p \in Ups, NEW n \in Net, net' = [net EXCEPT ![p] = n],
         n.nodes \subseteq net[p].nodes,
         n.nodes # {} /\ Findable(net[p]) => Findable(n),
         \/ n = net[p]
         \/ WorksOn(k, p),
         r.pc \in {"pids", "kill", "forget"} =>
             r.at \in Ups /\ (WorksOn(k, r.at) \/ net[r.at].zombie),
         \A q \in r.list \union r.stopped : WorksOn(k, q) \/ net[q].zombie,
         r.pc = "kill" => net'[r.at].nodes \subseteq r.pids,
         r.pc = "forget" => net'[r.at].nodes = {},
         \A q \in r.stopped : net'[q].nodes = {}
  PROVE  NetworkInv'
  <1>1. NetworkTypeOK'
    BY DEF NetworkInv, NetworkTypeOK
  <1>2. /\ cleaner'[k] = r /\ \A j \in Cleaners \ {k} : cleaner'[j] = cleaner[j]
        /\ net'[p] = n /\ \A q \in Ups \ {p} : net'[q] = net[q]
        /\ \A q \in Ups : net'[q].nodes \subseteq net[q].nodes
    BY DEF NetworkInv, NetworkTypeOK
  <1>3. \A q \in Ups : up[q].pc = "adapted" =>
            ~net[q].zombie /\ \A j \in Cleaners : ~WorksOn(j, q)
    BY DEF NetworkInv, NotBeforeLaunch, NoNetwork
  <1>4. NotBeforeLaunch'
    <2> SUFFICES ASSUME NEW q \in Ups, up[q].pc = "adapted"
                 PROVE  net'[q] = NoNetwork /\ \A j \in Cleaners : ~WorksOn(j, q)'
      BY DEF NotBeforeLaunch
    <2>1. net'[q] = NoNetwork
      BY <1>2, <1>3 DEF NetworkInv, NotBeforeLaunch
    <2>2. ASSUME NEW j \in Cleaners PROVE ~WorksOn(j, q)'
      BY <1>2, <1>3 DEF WorksOn
    <2> QED
      BY <2>1, <2>2
  <1>5. CleanerKnows'
    BY <1>2 DEF NetworkInv, CleanerKnows
  <1>6. StoppedMeansStopped'
    BY <1>2 DEF NetworkInv, StoppedMeansStopped, NetworkTypeOK, Cleaner
  <1>7. NodesFound' /\ OnlyInteractiveExits'
    BY <1>2 DEF NetworkInv, NodesFound, OnlyInteractiveExits
  <1> QED
    BY <1>1, <1>4, <1>5, <1>6, <1>7 DEF NetworkInv

(***************************************************************************)
(* The same for a cleaner that only changes its own record.                *)
(***************************************************************************)
LEMMA CleanerAlone ==
  ASSUME NetworkInv, NEW k \in Cleaners, UNCHANGED <<up, net>>,
         NEW r \in Cleaner, cleaner' = [cleaner EXCEPT ![k] = r],
         r.pc \in {"pids", "kill", "forget"} =>
             r.at \in Ups /\ (WorksOn(k, r.at) \/ net[r.at].zombie),
         \A q \in r.list : WorksOn(k, q) \/ net[q].zombie,
         r.pc = "kill" => net[r.at].nodes \subseteq r.pids,
         r.pc = "forget" => net[r.at].nodes = {},
         r.stopped \subseteq cleaner[k].stopped
  PROVE  NetworkInv'
  <1>1. NetworkTypeOK'
    BY DEF NetworkInv, NetworkTypeOK
  <1>2. cleaner'[k] = r /\ \A j \in Cleaners \ {k} : cleaner'[j] = cleaner[j]
    BY DEF NetworkInv, NetworkTypeOK
  <1>3. \A q \in Ups : up[q].pc = "adapted" =>
            ~net[q].zombie /\ \A j \in Cleaners : ~WorksOn(j, q)
    BY DEF NetworkInv, NotBeforeLaunch, NoNetwork
  <1>4. NotBeforeLaunch'
    <2> SUFFICES ASSUME NEW q \in Ups, up[q].pc = "adapted", NEW j \in Cleaners
                 PROVE  ~WorksOn(j, q)'
      BY DEF NetworkInv, NotBeforeLaunch
    <2> QED
      BY <1>2, <1>3 DEF WorksOn
  <1>5. CleanerKnows'
    BY <1>2 DEF NetworkInv, CleanerKnows
  <1>6. StoppedMeansStopped'
    BY <1>2 DEF NetworkInv, StoppedMeansStopped
  <1>7. NodesFound' /\ OnlyInteractiveExits'
    BY DEF NetworkInv, NodesFound, OnlyInteractiveExits
  <1> QED
    BY <1>1, <1>4, <1>5, <1>6, <1>7 DEF NetworkInv

LEMMA ChooseInv ==
  ASSUME NetworkInv, NEW k \in Cleaners, NEW chosen \in SUBSET Ups, NEW keep \in BOOLEAN,
         ChooseNetworks(k, chosen, keep)
  PROVE  NetworkInv'
  <1> DEFINE r == [NoClean EXCEPT !.pc = "destroy", !.list = chosen, !.keep = keep]
  <1>1. /\ r \in Cleaner /\ r.pc = "destroy" /\ r.list = chosen /\ r.stopped = {}
        /\ cleaner' = [cleaner EXCEPT ![k] = r] /\ UNCHANGED <<up, net>>
    BY DEF ChooseNetworks, Set, NoClean, Cleaner
  <1>2. \A q \in chosen : net[q].zombie
    BY DEF ChooseNetworks, Candidates
  <1> HIDE DEF r
  <1> QED
    BY <1>1, <1>2, CleanerAlone

LEMMA CleanInv ==
  ASSUME NetworkInv, NEW k \in Cleaners, CleanNetwork(k)
  PROVE  NetworkInv'
  <1> DEFINE c == cleaner[k]
  <1>0. c \in Cleaner /\ cleaner \in [Cleaners -> Cleaner] /\ net \in [Ups -> Net]
    BY DEF NetworkInv, NetworkTypeOK
  <1>s. /\ \A q \in c.list \union c.stopped : WorksOn(k, q)
        /\ c.pc \in {"pids", "kill", "forget"} => c.at \in Ups /\ WorksOn(k, c.at)
        /\ c.list \subseteq Ups /\ c.stopped \subseteq Ups
    BY <1>0 DEF WorksOn, Cleaner, NetworkInv, CleanerKnows
  <1>k. /\ c.pc = "kill" => net[c.at].nodes \subseteq c.pids
        /\ c.pc = "forget" => net[c.at].nodes = {}
        /\ \A q \in c.stopped : net[q].nodes = {}
    BY DEF NetworkInv, CleanerKnows, StoppedMeansStopped
  <1>e. ASSUME NEW pc \in {"done", "failed"}, End(k, pc), UNCHANGED <<up, net>>
        PROVE  NetworkInv'
    <2> DEFINE r == [NoClean EXCEPT !.pc = pc, !.stopped = cleaner[k].stopped]
    <2>1. /\ r \in Cleaner /\ r.pc = pc /\ r.list = {} /\ r.stopped = c.stopped
          /\ cleaner' = [cleaner EXCEPT ![k] = r]
      BY <1>0, <1>e DEF End, Set, NoClean, Cleaner
    <2> HIDE DEF r
    <2> QED
      BY <1>e, <2>1, CleanerAlone
  <1>1. CASE Finish(k)
    BY <1>1, <1>e DEF Finish
  <1>2. ASSUME NEW p \in Ups, Destroy(k, p)
        PROVE  NetworkInv'
    <2>0. p \in c.list /\ WorksOn(k, p)
      BY <1>2, <1>s DEF Destroy
    <2>f. ASSUME NEW pc \in {"pids", "forget"}
          PROVE  LET r == [c EXCEPT !.pc = pc, !.at = p]
                 IN  /\ r \in Cleaner /\ r.pc = pc /\ r.at = p
                     /\ r.list = c.list /\ r.stopped = c.stopped
      BY <1>0 DEF Cleaner
    <2>1. CASE /\ net' = [net EXCEPT ![p].nodes = {}]
               /\ Set(k, [cleaner[k] EXCEPT !.pc = "forget", !.at = p])
      <3> DEFINE r == [c EXCEPT !.pc = "forget", !.at = p]
                 n == [net[p] EXCEPT !.nodes = {}]
      <3>1. /\ n \in Net /\ n.nodes = {} /\ net' = [net EXCEPT ![p] = n]
            /\ cleaner' = [cleaner EXCEPT ![k] = r]
        BY <2>1, <1>0 DEF Set, Net
      <3>2. /\ r \in Cleaner /\ r.pc = "forget" /\ r.at = p
            /\ r.list = c.list /\ r.stopped = c.stopped
        BY <2>f
      <3>3. net'[p].nodes = {} /\ \A q \in Ups \ {p} : net'[q] = net[q]
        BY <3>1, <1>0
      <3>4. UNCHANGED up
        BY <1>2 DEF Destroy
      <3> HIDE DEF r, n, c
      <3>5. r.at \in Ups /\ WorksOn(k, r.at) /\ r.pc # "kill" /\ net'[r.at].nodes = {}
        BY <3>2, <3>3, <2>0
      <3>6. \A q \in r.list \union r.stopped : WorksOn(k, q)
        BY <3>2, <1>s
      <3>7. \A q \in r.stopped : net'[q].nodes = {}
        BY <3>2, <3>3, <1>s, <1>k
      <3>8. n.nodes \subseteq net[p].nodes /\ ~(n.nodes # {} /\ Findable(net[p]))
        BY <3>1
      <3> QED
        BY <2>0, <3>1, <3>2, <3>4, <3>5, <3>6, <3>7, <3>8, OneCleanerMoves
    <2>2. CASE /\ net[p].nodes = {} /\ UNCHANGED net
               /\ Set(k, [cleaner[k] EXCEPT !.pc = "forget", !.at = p])
      <3> DEFINE r == [c EXCEPT !.pc = "forget", !.at = p]
      <3>1. /\ r \in Cleaner /\ r.pc = "forget" /\ r.at = p
            /\ r.list = c.list /\ r.stopped = c.stopped
        BY <2>f
      <3>2. cleaner' = [cleaner EXCEPT ![k] = r] /\ UNCHANGED up
        BY <1>2, <2>2 DEF Set, Destroy
      <3> HIDE DEF r
      <3> QED
        BY <2>0, <2>2, <3>1, <3>2, <1>s, CleanerAlone
    <2>3. CASE Set(k, [cleaner[k] EXCEPT !.pc = "pids", !.at = p]) /\ UNCHANGED net
      <3> DEFINE r == [c EXCEPT !.pc = "pids", !.at = p]
      <3>1. /\ r \in Cleaner /\ r.pc = "pids" /\ r.at = p
            /\ r.list = c.list /\ r.stopped = c.stopped
        BY <2>f
      <3>2. cleaner' = [cleaner EXCEPT ![k] = r] /\ UNCHANGED up
        BY <1>2, <2>3 DEF Set, Destroy
      <3> HIDE DEF r
      <3> QED
        BY <2>0, <2>3, <3>1, <3>2, <1>s, CleanerAlone
    <2>4. CASE Skip(k, p) /\ UNCHANGED net
      <3> DEFINE r == [c EXCEPT !.list = @ \ {p}, !.at = {}, !.pc = "destroy"]
      <3>1. /\ r \in Cleaner /\ r.pc = "destroy"
            /\ r.list \subseteq c.list /\ r.stopped = c.stopped
        BY <1>0 DEF Cleaner
      <3>2. cleaner' = [cleaner EXCEPT ![k] = r] /\ UNCHANGED up
        BY <1>2, <2>4 DEF Set, Skip, Destroy
      <3> HIDE DEF r
      <3> QED
        BY <2>4, <3>1, <3>2, <1>s, CleanerAlone
    <2> QED
      BY <1>2, <2>1, <2>2, <2>3, <2>4 DEF Destroy
  <1>3. CASE ListPids(k)
    <2>1. CASE Set(k, [cleaner[k] EXCEPT !.pc = "kill", !.pids = Nodes])
      <3> DEFINE r == [c EXCEPT !.pc = "kill", !.pids = Nodes]
      <3>1. /\ r \in Cleaner /\ r.pc = "kill" /\ r.at = c.at /\ r.pids = Nodes
            /\ r.list = c.list /\ r.stopped = c.stopped
        BY <1>0 DEF Cleaner
      <3>2. cleaner' = [cleaner EXCEPT ![k] = r] /\ UNCHANGED <<up, net>> /\ c.pc = "pids"
        BY <1>3, <2>1 DEF Set, ListPids
      <3>3. net[c.at].nodes \subseteq Nodes
        BY <3>2, <1>0, <1>s DEF Net
      <3> HIDE DEF r
      <3> QED
        BY <3>1, <3>2, <3>3, <1>s, CleanerAlone
    <2> QED
      BY <1>3, <2>1, <1>e DEF ListPids
  <1>4. CASE KillPid(k)
    <2>0. c.pc = "kill" /\ UNCHANGED up
      BY <1>4 DEF KillPid
    <2>1. CASE c.pids = {} /\ Set(k, [cleaner[k] EXCEPT !.pc = "forget"]) /\ UNCHANGED net
      <3> DEFINE r == [c EXCEPT !.pc = "forget"]
      <3>1. /\ r \in Cleaner /\ r.pc = "forget" /\ r.at = c.at
            /\ r.list = c.list /\ r.stopped = c.stopped
        BY <1>0 DEF Cleaner
      <3>2. cleaner' = [cleaner EXCEPT ![k] = r] /\ net[c.at].nodes = {}
        BY <2>0, <2>1, <1>k DEF Set
      <3> HIDE DEF r
      <3> QED
        BY <2>0, <2>1, <3>1, <3>2, <1>s, CleanerAlone
    <2>2. ASSUME NEW i,
                 net' = [net EXCEPT ![cleaner[k].at].nodes = @ \ {i}],
                 Set(k, [cleaner[k] EXCEPT !.pids = @ \ {i}])
          PROVE  NetworkInv'
      <3> DEFINE r == [c EXCEPT !.pids = @ \ {i}]
                 n == [net[c.at] EXCEPT !.nodes = @ \ {i}]
      <3>0. c.at \in Ups /\ WorksOn(k, c.at) /\ net[c.at] \in Net
        BY <2>0, <1>0, <1>s
      <3>1. /\ r \in Cleaner /\ r.pc = "kill" /\ r.at = c.at /\ r.pids = c.pids \ {i}
            /\ r.list = c.list /\ r.stopped = c.stopped
        BY <1>0, <2>0 DEF Cleaner
      <3>2. /\ n \in Net /\ n.nodes = net[c.at].nodes \ {i}
            /\ Findable(net[c.at]) => Findable(n)
        BY <3>0 DEF Net, Findable
      <3>3. cleaner' = [cleaner EXCEPT ![k] = r] /\ net' = [net EXCEPT ![c.at] = n]
        BY <2>2, <3>0, <1>0 DEF Set
      <3>4. net'[c.at] = n /\ \A q \in Ups \ {c.at} : net'[q] = net[q]
        BY <3>0, <3>3, <1>0
      <3>5. net'[c.at].nodes \subseteq r.pids /\ \A q \in c.stopped : net'[q].nodes = {}
        BY <2>0, <3>1, <3>2, <3>4, <1>k, <1>s
      <3> HIDE DEF r, n, c
      <3> QED
        BY <2>0, <3>0, <3>1, <3>2, <3>3, <3>5, <1>s, OneCleanerMoves
    <2> QED
      BY <1>4, <2>1, <2>2, <1>e DEF KillPid
  <1>5. CASE Forget(k)
    <2>0. c.pc = "forget" /\ UNCHANGED up /\ c.at \in Ups /\ WorksOn(k, c.at)
          /\ net[c.at].nodes = {} /\ net[c.at] \in Net
      BY <1>5, <1>0, <1>s, <1>k DEF Forget
    <2>1. PICK n \in {net[c.at], Marked(net[c.at]), Removed(net[c.at])} :
              net' = [net EXCEPT ![c.at] = n]
      <3>1. net = [net EXCEPT ![c.at] = net[c.at]]
        BY <1>0, <2>0
      <3> QED
        BY <1>5, <3>1 DEF Forget
    <2>2. n \in Net /\ n.nodes = {}
      BY <2>0, <2>1, NetworkChanges
    <2>3. PICK done \in SUBSET {c.at} :
              cleaner' = [cleaner EXCEPT ![k] =
                  [c EXCEPT !.stopped = @ \union done, !.list = @ \ {c.at}, !.at = {}, !.pc = "destroy"]]
      <3>1. ASSUME NEW yes \in BOOLEAN,
                   Set(k, [c EXCEPT !.stopped = IF yes THEN @ \union {c.at} ELSE @,
                                    !.list = @ \ {c.at}, !.at = {}, !.pc = "destroy"])
            PROVE  \E done \in SUBSET {c.at} :
                      cleaner' = [cleaner EXCEPT ![k] =
                          [c EXCEPT !.stopped = @ \union done, !.list = @ \ {c.at}, !.at = {},
                                    !.pc = "destroy"]]
        <4>1. CASE yes
          BY <3>1, <4>1 DEF Set
        <4>2. CASE ~yes
          <5>1. c.stopped = c.stopped \union {}
            OBVIOUS
          <5> QED
            BY <3>1, <4>2, <5>1 DEF Set
        <4> QED
          BY <4>1, <4>2
      <3>2. c.keep \in BOOLEAN
        BY <1>0 DEF Cleaner
      <3> QED
        BY <1>5, <3>1, <3>2 DEF Forget
    <2> DEFINE r == [c EXCEPT !.stopped = @ \union done, !.list = @ \ {c.at}, !.at = {},
                              !.pc = "destroy"]
    <2>4. /\ r \in Cleaner /\ r.pc = "destroy" /\ r.list \subseteq c.list
          /\ r.stopped \subseteq c.stopped \union {c.at}
      BY <1>0, <2>0, <2>3 DEF Cleaner
    <2>5. net'[c.at] = n /\ \A q \in Ups \ {c.at} : net'[q] = net[q]
      BY <2>0, <2>1, <1>0
    <2>6. \A q \in r.stopped : net'[q].nodes = {}
      BY <2>2, <2>4, <2>5, <1>k, <1>s
    <2> HIDE DEF r
    <2>7. cleaner' = [cleaner EXCEPT ![k] = r]
      BY <2>3 DEF r
    <2> HIDE DEF c
    <2>8. \A q \in r.list \union r.stopped : WorksOn(k, q)
      BY <2>0, <2>4, <1>s
    <2> QED
      BY <2>0, <2>1, <2>2, <2>4, <2>6, <2>7, <2>8, OneCleanerMoves
  <1> QED
    BY <1>1, <1>2, <1>3, <1>4, <1>5 DEF CleanNetwork

LEMMA NetworkInductive == NetworkInv /\ [NetworkNext]_networkVars => NetworkInv'
  <1> SUFFICES ASSUME NetworkInv, [NetworkNext]_networkVars PROVE NetworkInv'
    OBVIOUS
  <1>1. ASSUME NEW p \in Ups, UpStep(p) PROVE NetworkInv'
    BY <1>1, UpStepInv
  <1>2. ASSUME NEW k \in Cleaners, NEW keep \in BOOLEAN,
               \/ \E chosen \in SUBSET Ups : ChooseNetworks(k, chosen, keep)
               \/ ChooseNetworksJson(k, keep)
        PROVE  NetworkInv'
    BY <1>2, ChooseInv DEF ChooseNetworksJson, Candidates
  <1>3. ASSUME NEW k \in Cleaners, CleanNetwork(k) PROVE NetworkInv'
    BY <1>3, CleanInv
  <1>4. CASE UNCHANGED networkVars
    BY <1>4 DEF networkVars, NetworkInv, NetworkTypeOK, NotBeforeLaunch, WorksOn, CleanerKnows,
                NodesFound, OnlyInteractiveExits, StoppedMeansStopped
  <1> QED
    BY <1>1, <1>2, <1>3, <1>4 DEF NetworkNext, UpStep

LEMMA NetworkStarts == NetworkInit => NetworkInv
  <1> SUFFICES ASSUME NetworkInit PROVE NetworkInv
    OBVIOUS
  <1>1. /\ \A p \in Ups : up[p].pc = "adapted" /\ up[p] \in Up /\ net[p] = NoNetwork
        /\ \A k \in Cleaners : cleaner[k] = NoClean
        /\ up \in [Ups -> Up] /\ net \in [Ups -> Net] /\ cleaner \in [Cleaners -> Cleaner]
    BY DEF NetworkInit, Up, Net, NoNetwork, Cleaner, NoClean
  <1> QED
    BY <1>1 DEF NetworkInv, NetworkTypeOK, NotBeforeLaunch, WorksOn, CleanerKnows, NodesFound,
                OnlyInteractiveExits, StoppedMeansStopped, NoNetwork, NoClean

(***************************************************************************)
(* `pop clean network` never reports a network as stopped that has a node  *)
(* left, whatever commands and other cleaners do meanwhile.                *)
(***************************************************************************)
THEOREM CleanedNetworks == NetworkSpec => []StoppedMeansStopped
  <1>1. NetworkInv => StoppedMeansStopped
    BY DEF NetworkInv
  <1> QED
    BY <1>1, NetworkStarts, NetworkInductive, PTL DEF NetworkSpec

(***************************************************************************)
(* No node of a network is left running that neither a command nor `pop    *)
(* clean network` knows of.                                                *)
(***************************************************************************)
THEOREM NetworksFound == NetworkSpec => []RunningNetworksFound
  <1>1. NetworkInv => RunningNetworksFound
    BY DEF NetworkInv, NodesFound, Findable, RunningNetworksFound, Candidates
  <1> QED
    BY <1>1, NetworkStarts, NetworkInductive, PTL DEF NetworkSpec

(***************************************************************************)
(* The wallet.  That the answer is final rests on the graceful shutdown:   *)
(* a server that has stopped has no handler left, one that never served    *)
(* had none, and the command leaves only after one of the two.             *)
(***************************************************************************)
WalletInv ==
    /\ server \in {"binding", "failed"} => signed = NULL
    /\ server \in {"binding", "failed", "stopped"} => \A p \in Pages : request[p] = NoRequest
    /\ polling = "done" => server \in {"failed", "stopped"} /\ signed = NULL

LEMMA NoRequestIdle == ASSUME NEW p \in Pages, NEW step, request[p] = NoRequest
                       PROVE  ~Handling(p, step)
  BY DEF NoRequest, Handling

LEMMA WalletInductive == WalletInv /\ [WalletNext]_walletVars => WalletInv'
  <1> SUFFICES ASSUME WalletInv, [WalletNext]_walletVars PROVE WalletInv'
    OBVIOUS
  <1>1. ASSUME NEW p \in Pages, TerminateHelper(p) \/ SubmitHandler(p) \/ ErrorHandler(p)
        PROVE  WalletInv'
    <2>1. request[p] # NoRequest
      BY <1>1, NoRequestIdle DEF TerminateHelper, SubmitHandler, ErrorHandler
    <2>2. server \notin {"binding", "failed", "stopped"} /\ polling # "done"
      BY <2>1 DEF WalletInv
    <2>3. server' \in {server, "closing"} /\ UNCHANGED polling
      BY <1>1 DEF TerminateHelper, SubmitHandler, ErrorHandler
    <2> QED
      BY <2>2, <2>3 DEF WalletInv
  <1>2. ASSUME NEW p \in Pages, SendRequest(p) PROVE WalletInv'
    BY <1>2 DEF SendRequest, WalletInv
  <1>3. CASE BindServer \/ StopServer
    BY <1>3 DEF BindServer, StopServer, GracefulShutdown, WalletInv
  <1>4. CASE TakeError \/ PollState \/ JoinServer
    BY <1>4 DEF TakeError, PollState, JoinServer, WalletInv
  <1>5. CASE UNCHANGED walletVars
    BY <1>5 DEF walletVars, WalletInv
  <1> QED
    BY <1>1, <1>2, <1>3, <1>4, <1>5 DEF WalletNext

(***************************************************************************)
(* When request_signature has returned, no payload is stored and no        *)
(* handler is left that could store one.                                   *)
(***************************************************************************)
THEOREM SignatureFinal == WalletSpec => []NoPayloadAfterAnswer
  <1>1. WalletInit => WalletInv
    BY DEF WalletInit, WalletInv
  <1>2. WalletInv => NoPayloadAfterAnswer
    BY NoRequestIdle DEF WalletInv, NoPayloadAfterAnswer
  <1> QED
    BY <1>1, <1>2, WalletInductive, PTL DEF WalletSpec

(***************************************************************************)
(* Sourcing.  A set of naturals has a least element: the library's theorem *)
(* on well-founded relations, from which those on Min and Max follow.      *)
(***************************************************************************)
Least(S) == \E x \in S : \A y \in S : x <= y

LEMMA LeastExists == ASSUME NEW S, S \subseteq Nat, S # {} PROVE Least(S)
<1>1. PICK x \in S : \A y \in S : <<y, x>> \notin OpToRel(<, Nat)
  BY NatLessThanWellFounded, WFMin
<1>2. \A y \in S : ~(y < x)
  <2> SUFFICES ASSUME NEW y \in S, y < x PROVE FALSE OBVIOUS
  <2>1. <<y, x>> \in Nat \X Nat OBVIOUS
  <2>2. <<y, x>>[1] = y /\ <<y, x>>[2] = x OBVIOUS
  <2>3. <<y, x>>[1] < <<y, x>>[2] BY <2>2
  <2>4. <<y, x>> \in {ss \in Nat \X Nat : ss[1] < ss[2]} BY <2>1, <2>3
  <2>5. {ss \in Nat \X Nat : ss[1] < ss[2]} = OpToRel(<, Nat) BY Zenon DEF OpToRel
  <2> QED BY <1>1, <2>4, <2>5, Zenon
<1>3. \A y \in S : x <= y BY <1>2, SMT
<1> QED BY <1>3 DEF Least

LEMMA MinIsLeast == ASSUME NEW S, S \subseteq Nat, S # {}
                    PROVE  Min(S) \in S /\ \A y \in S : Min(S) <= y
BY LeastExists DEF Min, Least

LEMMA MaxIsGreatest == ASSUME NEW N \in Nat, NEW S, S \subseteq 0..N, S # {}
                       PROVE  Max(S) \in S /\ \A y \in S : Max(S) >= y
<1> DEFINE D == {d \in 0..N : N - d \in S}
<1>1. D \subseteq Nat /\ D # {}
  <2>1. PICK x \in S : TRUE OBVIOUS
  <2>2. N - x \in D BY <2>1
  <2>3. D \subseteq Nat OBVIOUS
  <2> QED BY <2>2, <2>3
<1> HIDE DEF D
<1>2. PICK d \in D : \A e \in D : d <= e BY <1>1, LeastExists DEF Least
<1>3. N - d \in S /\ d \in 0..N BY <1>2 DEF D
<1>4. \A y \in S : N - y \in D BY DEF D
<1>5. \A y \in S : N - d >= y BY <1>2, <1>3, <1>4
<1> QED BY <1>3, <1>5 DEF Max

(***************************************************************************)
(* Sourcing of binaries.  The state, and what holds of one process: it     *)
(* moves a file that the archive of the binary it sources has, updates the *)
(* one tool it resolved, and launches no network without a relay chain.    *)
(***************************************************************************)
Versions == None..MaxVersion

Bin == [name : Names, tag : Versions, latest : Versions]

Work == [pc : {"idle", "resolve", "fetch", "move", "tool", "ready", "spawn", "link", "adapt",
               "remove", "launched", "done", "failed", "killed"},
         todo : Seq(Names), bins : Seq(Bin), limited : BOOLEAN, asked : Versions,
         queue : SUBSET Nat, at : Nat, copying : BOOLEAN, failed : BOOLEAN,
         after : {"done", "spawn", "tool", "ready"}, list : SUBSET Files]

Fit(r) ==
    /\ r.queue \subseteq DOMAIN r.bins
    /\ r.pc = "move" => r.queue # {} /\ r.at \in DOMAIN Contents[First(r).name]
    /\ (r.pc = "tool" \/ r.after \in {"tool", "ready"}) => Len(r.bins) = 1
    /\ r.pc = "resolve" =>
          r.after = "done" /\ (r.bins # <<>> \/ (r.todo # <<>> /\ Head(r.todo) = Relay))
    /\ (r.pc \in {"spawn", "link", "adapt"} \/ r.after = "spawn") => r.bins # <<>>

SourcingTypeOK ==
    /\ cache \in [Files -> {"absent", "partial", "whole"}]
    /\ link \in Versions
    /\ proc \in [Procs -> Work]
    /\ torn \subseteq Names \X Versions
    /\ \A p \in Procs : Fit(proc[p])

(***************************************************************************)
(* The inductive invariant.  An archive nobody tore: a file in it that is  *)
(* half copied is being copied; whoever moves its files has left none out; *)
(* and unless all of its files are there, each one that is there was moved *)
(* by somebody who is still moving.  A launch: a stale binary was found in *)
(* the cache; while sourcing, each binary is there or still to be sourced  *)
(* under the version it will be launched with; afterwards each is there.   *)
(***************************************************************************)
Movers(P, n, v) == {p \in Procs : P[p].pc = "move" /\ Current(P[p]) = <<n, v>>}

Reached(r, i) == i < r.at \/ (i = r.at /\ r.copying)

Archive(c, P, n, v) ==
    /\ \A i \in DOMAIN Contents[n] :
          c[<<Contents[n][i], v>>] = "partial" =>
              \E p \in Movers(P, n, v) : P[p].at = i /\ P[p].copying
    /\ \A p \in Movers(P, n, v) : \A i \in DOMAIN Contents[n] :
          i < P[p].at => c[<<Contents[n][i], v>>] # "absent"
    /\ \/ \A i \in DOMAIN Contents[n] : c[<<Contents[n][i], v>>] # "absent"
       \/ \A i \in DOMAIN Contents[n] :
             c[<<Contents[n][i], v>>] # "absent" =>
                 \E p \in Movers(P, n, v) : Reached(P[p], i)

ArchivesInv == \A n \in Names, v \in Versions : <<n, v>> \in torn \/ Archive(cache, proc, n, v)

Ready(c, t, b) == c[Key(b)] # "absent" \/ Key(b) \in t

Supplied(c, t, r) ==
    /\ r.pc = "resolve" =>
          \A i \in DOMAIN r.bins : Stale(r.bins[i]) => Ready(c, t, r.bins[i])
    /\ r.pc \in {"fetch", "move"} /\ r.after = "spawn" /\ ~r.failed =>
          \A i \in DOMAIN r.bins :
              Ready(c, t, r.bins[i]) \/ \E j \in r.queue : r.bins[j] = r.bins[i]
    /\ r.pc \in {"spawn", "link", "adapt"} => \A i \in DOMAIN r.bins : Ready(c, t, r.bins[i])

LaunchInv == \A p \in Procs : Supplied(cache, torn, proc[p])

SourcingInv == SourcingTypeOK /\ ArchivesInv /\ LaunchInv

LEMMA ArchiveFacts ==
    /\ MaxVersion \in Nat /\ 0 \in Versions /\ Versions = 0..MaxVersion /\ Versions \subseteq Nat
    /\ \A n \in Names :
          /\ Contents[n] \in Seq(Parts) /\ Len(Contents[n]) \in Nat \ {0}
          /\ DOMAIN Contents[n] = 1..Len(Contents[n])
          /\ Contents[n][1] = n
          /\ \A i \in DOMAIN Contents[n], v \in Versions : <<Contents[n][i], v>> \in Files
          /\ \A v \in Versions : <<n, v>> \in Files
<1>1. MaxVersion \in Nat /\ 0 \in Versions /\ Versions = 0..MaxVersion /\ Versions \subseteq Nat
  BY SourcingAssumption DEF Versions, None
<1>2. ASSUME NEW n \in Names
      PROVE  /\ Contents[n] \in Seq(Parts) /\ Len(Contents[n]) \in Nat \ {0}
             /\ DOMAIN Contents[n] = 1..Len(Contents[n])
             /\ Contents[n][1] = n
             /\ \A i \in DOMAIN Contents[n] : Contents[n][i] \in Parts
  BY SourcingAssumption
<1>3. ASSUME NEW n \in Names, NEW i \in DOMAIN Contents[n], NEW v \in Versions
      PROVE  <<Contents[n][i], v>> \in Files
  BY <1>2 DEF Files, Versions
<1>4. ASSUME NEW n \in Names, NEW v \in Versions PROVE <<n, v>> \in Files
  <2>1. 1 \in DOMAIN Contents[n] BY <1>2
  <2> QED BY <1>2, <1>3, <2>1
<1> QED BY <1>1, <1>2, <1>3, <1>4

LEMMA FirstFits == ASSUME NEW r \in Work, Fit(r), r.queue # {}
                   PROVE  /\ Min(r.queue) \in r.queue
                          /\ First(r) \in Bin /\ Current(r) \in Names \X Versions
                          /\ Rest(r) \subseteq DOMAIN r.bins /\ Rest(r) \subseteq Nat
<1>1. r.queue \subseteq Nat /\ r.bins \in Seq(Bin) /\ r.queue \subseteq DOMAIN r.bins
  BY DEF Work, Fit
<1>2. Min(r.queue) \in r.queue BY <1>1, MinIsLeast
<1>3. First(r) \in Bin BY <1>1, <1>2 DEF First
<1>4. Current(r) \in Names \X Versions BY <1>3 DEF Current, Key, Bin
<1> QED BY <1>1, <1>2, <1>3, <1>4 DEF Rest

LEMMA ResolveType ==
    ASSUME NEW n \in Names, NEW specified \in Versions, NEW answered \in BOOLEAN
    PROVE  Resolve(n, specified, answered) \in Bin
<1> DEFINE released == IF answered THEN 1..MaxVersion
                       ELSE {IF specified # None THEN specified ELSE Fallback}
           stored == CachedVersions(n)
           versions == released \union stored
           newest == IF stored # {} THEN stored ELSE versions
<1>1. stored \subseteq 1..MaxVersion BY DEF CachedVersions
<1>2. released \subseteq 0..MaxVersion /\ released # {}
  <2>1. CASE answered
    <3>1. released = 1..MaxVersion BY <2>1
    <3>2. 1 \in 1..MaxVersion /\ 1..MaxVersion \subseteq 0..MaxVersion BY SourcingAssumption
    <3> HIDE DEF released
    <3> QED BY <3>1, <3>2, Zenon
  <2>2. CASE ~answered
    <3>1. (IF specified # None THEN specified ELSE Fallback) \in 0..MaxVersion
      BY ArchiveFacts, SourcingAssumption
    <3> QED BY <2>2, <3>1
  <2> QED BY <2>1, <2>2
<1> HIDE DEF released, stored
<1>3. versions \subseteq 0..MaxVersion /\ versions # {}
  BY <1>1, <1>2, ArchiveFacts
<1>4. newest \subseteq 0..MaxVersion /\ newest # {} BY <1>1, <1>3, ArchiveFacts
<1>5. Max(newest) \in 0..MaxVersion /\ Max(versions) \in 0..MaxVersion
  <2> HIDE DEF newest, versions
  <2> QED BY <1>3, <1>4, ArchiveFacts, MaxIsGreatest
<1>6. 0 \in Versions /\ None = 0 BY ArchiveFacts DEF None
<1> HIDE DEF newest, versions
<1>7. Resolve(n, specified, answered) =
        IF n \in Built THEN [name |-> n, tag |-> None, latest |-> None]
        ELSE IF specified # None THEN [name |-> n, tag |-> specified, latest |-> None]
        ELSE [name |-> n, tag |-> Max(newest), latest |-> Max(versions)]
  BY DEF Resolve, newest, versions, released, stored
<1> QED BY <1>5, <1>6, <1>7, ArchiveFacts DEF Bin

(***************************************************************************)
(* The kinds of steps: one that touches no file, by a process that moves   *)
(* no archive or tears the one it moves; a file put into the cache; one    *)
(* whose copying begins; one removed.  Every action is of a kind and keeps *)
(* what holds of its process.                                              *)
(***************************************************************************)
QuietStep(p, r) ==
    /\ SetProc(p, r)
    /\ cache' = cache
    /\ torn \subseteq torn' /\ torn' \subseteq Names \X Versions
    /\ proc[p].pc = "move" => Current(proc[p]) \in torn'
    /\ r.pc = "move" => r.at = 1

WholeStep(p, r) ==
    /\ proc[p].pc = "move"
    /\ cache' = [cache EXCEPT ![File(proc[p])] = "whole"]
    /\ SetProc(p, r) /\ r = Moved(proc[p])
    /\ torn' = torn

PartialStep(p, r) ==
    /\ proc[p].pc = "move"
    /\ cache' = [cache EXCEPT ![File(proc[p])] = "partial"]
    /\ SetProc(p, r) /\ r = [proc[p] EXCEPT !.copying = TRUE]
    /\ torn' = torn /\ ~proc[p].copying

RemoveStep(p, r) ==
    \E f \in Files :
        /\ cache' = [cache EXCEPT ![f] = "absent"]
        /\ torn' = torn \union {<<n, f[2]>> : n \in {m \in Names : Contains(Contents[m], f[1])}}
        /\ SetProc(p, r)
        /\ proc[p].pc # "move" /\ r.pc # "move"

Step(p, r) == QuietStep(p, r) \/ WholeStep(p, r) \/ PartialStep(p, r) \/ RemoveStep(p, r)

Takes(p) ==
    /\ link' \in Versions
    /\ \E r \in Work : Fit(r) /\ Supplied(cache', torn', r) /\ Step(p, r)

LEMMA NoWorkTyped == NoWork \in Work
<1>1. None \in Versions /\ <<>> \in Seq(Names) /\ <<>> \in Seq(Bin) BY ArchiveFacts DEF None
<1> QED BY <1>1 DEF NoWork, Work

LEMMA NoWorkFits ==
    ASSUME NEW pc \in {"idle", "launched", "done", "failed", "killed", "remove"}, NEW c, NEW t
    PROVE  LET r == [NoWork EXCEPT !.pc = pc] IN r \in Work /\ Fit(r) /\ Supplied(c, t, r)
<1> DEFINE r == [NoWork EXCEPT !.pc = pc]
<1>1. r \in Work
  BY NoWorkTyped DEF Work
<1>2. r.queue = {} /\ r.bins = <<>> /\ r.after = "done" /\ r.pc = pc
  BY DEF NoWork
<1> HIDE DEF r
<1>3. Fit(r) BY <1>2 DEF Fit
<1>4. Supplied(c, t, r) BY <1>2 DEF Supplied
<1> QED BY <1>1, <1>3, <1>4 DEF r

\* A process that ends, whatever it was doing.
LEMMA Ends ==
    ASSUME SourcingTypeOK, NEW p \in Procs, NEW pc \in {"launched", "done", "failed", "killed"},
           EndProcess(p, pc), cache' = cache, link' \in Versions,
           torn \subseteq torn', torn' \subseteq Names \X Versions,
           proc[p].pc = "move" => Current(proc[p]) \in torn'
    PROVE  Takes(p)
<1> DEFINE r == [NoWork EXCEPT !.pc = pc]
<1>1. r \in Work /\ Fit(r) /\ Supplied(cache', torn', r) BY NoWorkFits
<1>2. r.pc # "move" BY DEF NoWork
<1>3. SetProc(p, r) BY DEF EndProcess
<1> HIDE DEF r
<1>4. QuietStep(p, r) BY <1>2, <1>3 DEF QuietStep
<1> QED BY <1>1, <1>4 DEF Takes, Step

\* A process that goes on without touching a file.
LEMMA GoesOn ==
    ASSUME SourcingTypeOK, NEW p \in Procs, NEW w \in Work, Fit(w), Supplied(cache, torn, w),
           SetProc(p, w), cache' = cache, torn' = torn, link' \in Versions,
           proc[p].pc # "move", w.pc = "move" => w.at = 1
    PROVE  Takes(p)
<1>1. QuietStep(p, w) BY DEF QuietStep, SourcingTypeOK
<1>2. Supplied(cache', torn', w) OBVIOUS
<1> QED BY <1>1, <1>2 DEF Takes, Step

LEMMA FailureFits ==
    ASSUME NEW r \in Work, Fit(r), r.queue # {}, NEW w \in AfterFailure(r), NEW c, NEW t
    PROVE  w \in Work /\ Fit(w) /\ Supplied(c, t, w) /\ w.pc = "fetch"
<1> DEFINE next == [r EXCEPT !.at = 0, !.copying = FALSE, !.failed = TRUE, !.pc = "fetch"]
<1>1. PICK q \in {{}, Rest(r)} : w = [next EXCEPT !.queue = q] BY DEF AfterFailure
<1>2. next \in Work BY DEF Work
<1>3. q \subseteq Nat /\ q \subseteq DOMAIN r.bins BY FirstFits
<1>4. next.bins = r.bins /\ next.after = r.after /\ next.pc = "fetch" /\ next.failed
  BY DEF Work
<1> HIDE DEF next
<1>5. w \in Work BY <1>1, <1>2, <1>3 DEF Work
<1>6. w.queue = q /\ w.bins = r.bins /\ w.after = r.after /\ w.pc = "fetch" /\ w.failed
  BY <1>1, <1>2, <1>4 DEF Work
<1>7. Fit(w) BY <1>3, <1>6 DEF Fit
<1>8. Supplied(c, t, w) BY <1>6 DEF Supplied
<1> QED BY <1>5, <1>6, <1>7, <1>8

LEMMA FetchTakes == ASSUME SourcingInv, NEW p \in Procs, Fetch(p) PROVE Takes(p)
<1> DEFINE r == proc[p]
           w == Fetched(r)
<1>1. r \in Work /\ Fit(r) /\ Supplied(cache, torn, r) /\ r.pc = "fetch" /\ r.queue # {}
  BY DEF SourcingInv, SourcingTypeOK, LaunchInv, Fetch
<1>2. link' \in Versions /\ cache' = cache /\ torn' = torn
  BY DEF Fetch, SourcingInv, SourcingTypeOK
<1>3. CASE FetchFailed(p)
  <2>1. PICK x \in AfterFailure(r) : SetProc(p, x) BY <1>3 DEF FetchFailed
  <2> QED BY <1>1, <1>2, <2>1, FailureFits, GoesOn DEF SourcingInv
<1>4. CASE SetProc(p, w)
  <2>1. w \in Work BY <1>1 DEF Fetched, Work
  <2>2. /\ w.pc = "move" /\ w.at = 1 /\ w.queue = r.queue /\ w.bins = r.bins
        /\ w.after = r.after /\ w.failed = r.failed
    BY <1>1 DEF Fetched, Work
  <2>3. First(w) = First(r) BY <2>2 DEF First
  <2>4. 1 \in DOMAIN Contents[First(r).name]
    BY <1>1, FirstFits, ArchiveFacts DEF Bin
  <2> HIDE DEF w
  <2>5. Fit(w) BY <1>1, <2>2, <2>3, <2>4 DEF Fit
  <2>6. Supplied(cache, torn, w) BY <1>1, <2>2 DEF Supplied
  <2> QED BY <1>1, <1>2, <1>4, <2>1, <2>2, <2>5, <2>6, GoesOn DEF SourcingInv
<1> QED BY <1>3, <1>4 DEF Fetch, FromArchive, FromGitHubArchive

LEMMA FetchDoneTakes == ASSUME SourcingInv, NEW p \in Procs, FetchDone(p) PROVE Takes(p)
<1> DEFINE r == proc[p]
           w == [r EXCEPT !.pc = r.after]
<1>1. r \in Work /\ Fit(r) /\ Supplied(cache, torn, r) /\ r.pc = "fetch" /\ r.queue = {}
  BY DEF SourcingInv, SourcingTypeOK, LaunchInv, FetchDone
<1>2. /\ SourcingTypeOK /\ link' \in Versions /\ cache' = cache /\ torn' = torn
      /\ torn \subseteq Names \X Versions
  BY DEF FetchDone, SourcingInv, SourcingTypeOK
<1>3. CASE r.failed
  BY <1>1, <1>2, <1>3, Ends DEF FetchDone, FailProcess
<1>4. CASE ~r.failed
  <2>1. w \in Work BY <1>1 DEF Work
  <2>2. /\ w.pc = r.after /\ w.queue = {} /\ w.bins = r.bins /\ w.after = r.after
        /\ r.after \in {"done", "spawn", "tool", "ready"}
    BY <1>1 DEF Work
  <2>3. SetProc(p, w) BY <1>4 DEF FetchDone, Proceed, SetProc
  <2> HIDE DEF w
  <2>4. Fit(w) BY <1>1, <2>2 DEF Fit
  <2>5. r.after = "spawn" => \A i \in DOMAIN r.bins : Ready(cache, torn, r.bins[i])
    BY <1>1, <1>4 DEF Supplied
  <2>6. Supplied(cache, torn, w) BY <2>2, <2>5 DEF Supplied
  <2> QED BY <1>1, <1>2, <2>1, <2>2, <2>3, <2>4, <2>6, GoesOn
<1> QED BY <1>3, <1>4

LEMMA ReadyStays ==
    ASSUME SourcingTypeOK, NEW p \in Procs, NEW w, Step(p, w), NEW b \in Bin,
           Ready(cache, torn, b)
    PROVE  Ready(cache', torn', b)
<1>1. Key(b) \in Files /\ Key(b) = <<b.name, b.tag>> /\ b.name \in Names /\ b.tag \in Versions
  BY ArchiveFacts DEF Key, Bin
<1>2. CASE QuietStep(p, w) BY <1>2 DEF QuietStep, Ready
<1>3. CASE WholeStep(p, w) BY <1>1, <1>3 DEF WholeStep, Ready, SourcingTypeOK
<1>4. CASE PartialStep(p, w) BY <1>1, <1>4 DEF PartialStep, Ready, SourcingTypeOK
<1>5. CASE RemoveStep(p, w)
  <2>1. PICK f \in Files :
          /\ cache' = [cache EXCEPT ![f] = "absent"]
          /\ torn' = torn \union {<<n, f[2]>> : n \in {m \in Names : Contains(Contents[m], f[1])}}
    BY <1>5 DEF RemoveStep
  <2>2. CASE Key(b) # f BY <1>1, <2>1, <2>2 DEF Ready, SourcingTypeOK
  <2>3. CASE Key(b) = f
    <3>1. f[1] = b.name /\ f[2] = b.tag BY <1>1, <2>3
    <3>2. Contains(Contents[b.name], b.name) BY <1>1, ArchiveFacts DEF Contains
    <3>3. <<b.name, b.tag>> \in torn' BY <1>1, <2>1, <3>1, <3>2
    <3> QED BY <1>1, <3>3 DEF Ready
  <2> QED BY <2>2, <2>3
<1> QED BY <1>2, <1>3, <1>4, <1>5 DEF Step

LEMMA MovedFits ==
    ASSUME SourcingInv, NEW p \in Procs, proc[p].pc = "move"
    PROVE  /\ Moved(proc[p]) \in Work /\ Fit(Moved(proc[p]))
           /\ Moved(proc[p]).bins = proc[p].bins /\ Moved(proc[p]).after = proc[p].after
           /\ Moved(proc[p]).failed = proc[p].failed
           /\ \/ /\ Moved(proc[p]).pc = "move" /\ Moved(proc[p]).queue = proc[p].queue
                 /\ Moved(proc[p]).at = proc[p].at + 1
                 /\ proc[p].at < Len(Contents[First(proc[p]).name])
              \/ /\ Moved(proc[p]).pc = "fetch" /\ Moved(proc[p]).queue = Rest(proc[p])
                 /\ proc[p].at = Len(Contents[First(proc[p]).name])
<1> DEFINE r == proc[p]
           w == Moved(r)
           n == First(r).name
<1>1. r \in Work /\ Fit(r) /\ r.pc = "move" BY DEF SourcingInv, SourcingTypeOK
<1>2. r.queue # {} /\ r.at \in DOMAIN Contents[n] BY <1>1 DEF Fit
<1>3. First(r) \in Bin /\ n \in Names /\ Rest(r) \subseteq DOMAIN r.bins /\ Rest(r) \subseteq Nat
  BY <1>1, <1>2, FirstFits DEF Bin
<1>4. r.at \in Nat /\ Len(Contents[n]) \in Nat /\ r.at <= Len(Contents[n])
      /\ DOMAIN Contents[n] = 1..Len(Contents[n])
  BY <1>2, <1>3, ArchiveFacts
<1>5. CASE r.at < Len(Contents[n])
  <2>1. w = [r EXCEPT !.at = r.at + 1, !.copying = FALSE] BY <1>5 DEF Moved
  <2> HIDE DEF w
  <2>2. /\ w \in Work /\ w.pc = "move" /\ w.queue = r.queue /\ w.bins = r.bins
        /\ w.after = r.after /\ w.failed = r.failed /\ w.at = r.at + 1
    <3>1. r.at + 1 \in Nat BY <1>4
    <3> QED BY <1>1, <2>1, <3>1 DEF Work
  <2>3. First(w) = First(r) BY <2>2 DEF First
  <2>4. r.at + 1 \in DOMAIN Contents[n] BY <1>4, <1>5
  <2>5. Fit(w) BY <1>1, <1>2, <2>2, <2>3, <2>4 DEF Fit
  <2> QED BY <1>5, <2>2, <2>5 DEF w
<1>6. CASE ~(r.at < Len(Contents[n]))
  <2>1. w = [r EXCEPT !.at = 0, !.queue = Rest(r), !.copying = FALSE, !.pc = "fetch"]
    BY <1>6 DEF Moved
  <2> HIDE DEF w
  <2>2. /\ w \in Work /\ w.pc = "fetch" /\ w.queue = Rest(r) /\ w.bins = r.bins
        /\ w.after = r.after /\ w.failed = r.failed
    <3>1. Rest(r) \in SUBSET Nat BY <1>3
    <3> QED BY <1>1, <2>1, <3>1 DEF Work
  <2>3. Fit(w) BY <1>1, <1>3, <2>2 DEF Fit
  <2>4. r.at = Len(Contents[n]) BY <1>4, <1>6
  <2> QED BY <2>2, <2>3, <2>4 DEF w
<1> QED BY <1>5, <1>6

\* When the last file of a binary is in place, so is its first, the binary itself.
LEMMA MoverReady ==
    ASSUME SourcingInv, NEW p \in Procs, WholeStep(p, Moved(proc[p]))
    PROVE  proc[p].at = Len(Contents[First(proc[p]).name]) => Ready(cache', torn', First(proc[p]))
<1> DEFINE r == proc[p]
           n == First(r).name
           v == First(r).tag
<1>1. r \in Work /\ Fit(r) /\ r.pc = "move" BY DEF SourcingInv, SourcingTypeOK, WholeStep
<1>2. r.queue # {} /\ r.at \in DOMAIN Contents[n] BY <1>1 DEF Fit
<1>3. n \in Names /\ v \in Versions /\ Key(First(r)) = <<n, v>> /\ Current(r) = <<n, v>>
  BY <1>1, <1>2, FirstFits DEF Bin, Key, Current
<1>4. /\ Contents[n][1] = n /\ <<n, v>> \in Files /\ 1 \in DOMAIN Contents[n]
      /\ DOMAIN Contents[n] = 1..Len(Contents[n]) /\ Len(Contents[n]) \in Nat
      /\ <<Contents[n][r.at], v>> \in Files
  BY <1>2, <1>3, ArchiveFacts
<1>5. /\ cache' = [cache EXCEPT ![<<Contents[n][r.at], v>>] = "whole"]
      /\ torn' = torn /\ cache \in [Files -> {"absent", "partial", "whole"}]
  BY DEF WholeStep, File, SourcingInv, SourcingTypeOK
<1>6. CASE r.at = 1 BY <1>3, <1>4, <1>5, <1>6 DEF Ready
<1>7. CASE r.at # 1
  <2>1. <<n, v>> \in torn \/ Archive(cache, proc, n, v)
    BY <1>3 DEF SourcingInv, ArchivesInv
  <2>2. CASE <<n, v>> \in torn BY <1>3, <1>5, <2>2 DEF Ready
  <2>3. CASE Archive(cache, proc, n, v)
    <3>1. p \in Movers(proc, n, v) BY <1>1, <1>3 DEF Movers
    <3>2. 1 < r.at BY <1>2, <1>4, <1>7
    <3>3. cache[<<Contents[n][1], v>>] # "absent" BY <1>4, <2>3, <3>1, <3>2 DEF Archive
    <3>4. cache'[<<n, v>>] # "absent" BY <1>4, <1>5, <3>3
    <3> QED BY <1>3, <3>4 DEF Ready
  <2> QED BY <2>1, <2>2, <2>3
<1> QED BY <1>6, <1>7

LEMMA WholeTakes ==
    ASSUME SourcingInv, NEW p \in Procs, WholeStep(p, Moved(proc[p])), link' = link
    PROVE  Takes(p)
<1> DEFINE r == proc[p]
           w == Moved(r)
<1>1. /\ r \in Work /\ Fit(r) /\ Supplied(cache, torn, r) /\ r.pc = "move" /\ SourcingTypeOK
      /\ link' \in Versions
  BY DEF SourcingInv, SourcingTypeOK, LaunchInv, WholeStep
<1>2. r.bins \in Seq(Bin) /\ r.queue # {} /\ r.queue \subseteq Nat BY <1>1 DEF Work, Fit
<1>3. Step(p, w) BY DEF Step
<1>4. \A i \in DOMAIN r.bins : Ready(cache, torn, r.bins[i]) => Ready(cache', torn', r.bins[i])
  BY <1>1, <1>2, <1>3, ReadyStays
<1>5. Supplied(cache', torn', w)
  <2>1. CASE w.pc = "move" /\ w.queue = r.queue
    BY <1>1, <1>4, <2>1, MovedFits DEF Supplied
  <2>2. CASE /\ w.pc = "fetch" /\ w.queue = Rest(r)
             /\ r.at = Len(Contents[First(r).name])
    <3>1. Ready(cache', torn', First(r)) BY <2>2, MoverReady
    <3>2. w.bins = r.bins /\ w.after = r.after /\ w.failed = r.failed BY <1>1, MovedFits
    <3> HIDE DEF w
    <3>3. ASSUME r.after = "spawn", ~r.failed, NEW i \in DOMAIN r.bins
          PROVE  Ready(cache', torn', r.bins[i]) \/ \E j \in Rest(r) : r.bins[j] = r.bins[i]
      <4>1. Ready(cache, torn, r.bins[i]) \/ \E j \in r.queue : r.bins[j] = r.bins[i]
        BY <1>1, <3>3 DEF Supplied
      <4>2. CASE Ready(cache, torn, r.bins[i]) BY <1>4, <4>2
      <4>3. ASSUME NEW j \in r.queue, r.bins[j] = r.bins[i]
            PROVE  Ready(cache', torn', r.bins[i]) \/ \E k \in Rest(r) : r.bins[k] = r.bins[i]
        <5>1. CASE j = Min(r.queue) BY <3>1, <4>3, <5>1 DEF First
        <5>2. CASE j # Min(r.queue) BY <4>3, <5>2 DEF Rest
        <5> QED BY <5>1, <5>2
      <4> QED BY <4>1, <4>2, <4>3
    <3> QED BY <2>2, <3>2, <3>3 DEF Supplied
  <2> QED BY <1>1, <2>1, <2>2, MovedFits
<1> QED BY <1>1, <1>3, <1>5, MovedFits DEF Takes

LEMMA PartialTakes ==
    ASSUME SourcingInv, NEW p \in Procs, PartialStep(p, [proc[p] EXCEPT !.copying = TRUE]),
           link' = link
    PROVE  Takes(p)
<1> DEFINE r == proc[p]
           w == [r EXCEPT !.copying = TRUE]
<1>1. /\ r \in Work /\ Fit(r) /\ Supplied(cache, torn, r) /\ r.pc = "move" /\ SourcingTypeOK
      /\ link' \in Versions
  BY DEF SourcingInv, SourcingTypeOK, LaunchInv, PartialStep
<1>2. r.bins \in Seq(Bin) BY <1>1 DEF Work
<1>3. Step(p, w) BY DEF Step
<1>4. \A i \in DOMAIN r.bins : Ready(cache, torn, r.bins[i]) => Ready(cache', torn', r.bins[i])
  BY <1>1, <1>2, <1>3, ReadyStays
<1>5. /\ w \in Work /\ w.pc = r.pc /\ w.queue = r.queue /\ w.bins = r.bins /\ w.at = r.at
      /\ w.after = r.after /\ w.failed = r.failed
  BY <1>1 DEF Work
<1> HIDE DEF w
<1>6. First(w) = First(r) BY <1>5 DEF First
<1>7. Fit(w) BY <1>1, <1>5, <1>6 DEF Fit
<1>8. Supplied(cache', torn', w) BY <1>1, <1>4, <1>5 DEF Supplied
<1> QED BY <1>1, <1>3, <1>5, <1>7, <1>8 DEF Takes

LEMMA MoveFailed ==
    ASSUME SourcingInv, NEW p \in Procs, proc[p].pc = "move", FetchFailed(p),
           torn' = Interrupted(proc[p]), cache' = cache, link' = link
    PROVE  Takes(p)
<1> DEFINE r == proc[p]
<1>1. /\ r \in Work /\ Fit(r) /\ r.queue # {} /\ link' \in Versions
      /\ torn \subseteq Names \X Versions
  BY DEF SourcingInv, SourcingTypeOK, Fit
<1>2. PICK w \in AfterFailure(r) : SetProc(p, w) BY DEF FetchFailed
<1>3. w \in Work /\ Fit(w) /\ Supplied(cache', torn', w) /\ w.pc = "fetch"
  BY <1>1, <1>2, FailureFits
<1>4. torn' = torn \union {Current(r)} /\ Current(r) \in Names \X Versions
  BY <1>1, FirstFits DEF Interrupted
<1>5. QuietStep(p, w) BY <1>1, <1>2, <1>3, <1>4 DEF QuietStep
<1> QED BY <1>1, <1>3, <1>5 DEF Takes, Step

LEMMA MoveTakes == ASSUME SourcingInv, NEW p \in Procs, MoveFile(p) \/ CopyFile(p) PROVE Takes(p)
<1>1. proc[p].pc = "move" BY DEF MoveFile, CopyFile
<1>2. CASE /\ cache' = [cache EXCEPT ![File(proc[p])] = "whole"]
           /\ SetProc(p, Moved(proc[p]))
           /\ UNCHANGED <<link, torn>>
  BY <1>1, <1>2, WholeTakes DEF WholeStep
<1>3. CASE /\ ~proc[p].copying
           /\ cache' = [cache EXCEPT ![File(proc[p])] = "partial"]
           /\ SetProc(p, [proc[p] EXCEPT !.copying = TRUE])
           /\ UNCHANGED <<link, torn>>
  BY <1>1, <1>3, PartialTakes DEF PartialStep
<1>4. CASE FetchFailed(p) /\ torn' = Interrupted(proc[p]) /\ UNCHANGED <<cache, link>>
  BY <1>1, <1>4, MoveFailed
<1> QED BY <1>2, <1>3, <1>4 DEF MoveFile, CopyFile

LEMMA KillTakes == ASSUME SourcingInv, NEW p \in Procs, Kill(p) PROVE Takes(p)
<1> DEFINE r == proc[p]
<1>1. /\ SourcingTypeOK /\ r \in Work /\ Fit(r) /\ torn \subseteq Names \X Versions
      /\ cache' = cache /\ link' \in Versions /\ EndProcess(p, "killed")
      /\ torn' = Interrupted(r)
  BY DEF SourcingInv, SourcingTypeOK, Kill
<1>2. r.pc = "move" => r.queue # {} BY <1>1 DEF Fit
<1>3. r.pc = "move" => Current(r) \in Names \X Versions BY <1>1, <1>2, FirstFits
<1>4. /\ torn \subseteq torn' /\ torn' \subseteq Names \X Versions
      /\ r.pc = "move" => Current(r) \in torn'
  BY <1>1, <1>3 DEF Interrupted
<1> QED BY <1>1, <1>4, Ends

LEMMA RemoveTakes ==
    ASSUME SourcingInv, NEW p \in Procs, NEW f \in Files, RemoveFile(p, f)
    PROVE  Takes(p)
<1> DEFINE r == proc[p]
           w == IF ~Listed(f) THEN [NoWork EXCEPT !.pc = "failed"]
                ELSE [r EXCEPT !.list = @ \ {f},
                               !.pc = IF r.list = {f} THEN "done" ELSE "remove"]
<1>1. r \in Work /\ Fit(r) /\ Supplied(cache, torn, r) /\ r.pc = "remove" /\ SourcingTypeOK
  BY DEF SourcingInv, SourcingTypeOK, LaunchInv, RemoveFile
<1>2. SetProc(p, w) BY DEF RemoveFile
<1>3. w \in Work /\ Fit(w) /\ w.pc \in {"failed", "done", "remove"}
  <2>1. CASE ~Listed(f)
    <3>1. w = [NoWork EXCEPT !.pc = "failed"] BY <2>1
    <3>2. [NoWork EXCEPT !.pc = "failed"].pc = "failed" BY DEF NoWork
    <3> HIDE DEF w
    <3> QED BY <3>1, <3>2, NoWorkFits
  <2>2. CASE Listed(f)
    <3> DEFINE x == IF r.list = {f} THEN "done" ELSE "remove"
    <3>1. w = [r EXCEPT !.list = r.list \ {f}, !.pc = x] BY <2>2
    <3>2. x \in {"done", "remove"} OBVIOUS
    <3> HIDE DEF w, x
    <3>3. /\ w \in Work /\ w.pc = x /\ w.queue = r.queue /\ w.bins = r.bins /\ w.at = r.at
          /\ w.after = r.after
      BY <1>1, <3>1, <3>2 DEF Work
    <3>4. Fit(w) BY <1>1, <3>2, <3>3 DEF Fit
    <3> QED BY <3>2, <3>3, <3>4
  <2> QED BY <2>1, <2>2
<1> HIDE DEF w
<1>4. Supplied(cache', torn', w) BY <1>3 DEF Supplied
<1>5. CASE f = LinkFile
  <2>1. link' = None /\ cache' = cache /\ torn' = torn BY <1>5 DEF RemoveFile
  <2>2. link' \in Versions BY <2>1, ArchiveFacts DEF None
  <2>3. QuietStep(p, w) BY <1>1, <1>2, <1>3, <2>1 DEF QuietStep, SourcingTypeOK
  <2> QED BY <1>3, <1>4, <2>2, <2>3 DEF Takes, Step
<1>6. CASE f # LinkFile
  <2>1. RemoveStep(p, w) BY <1>1, <1>2, <1>3, <1>6 DEF RemoveFile, RemoveStep
  <2>2. link' \in Versions BY <1>1, <1>6 DEF RemoveFile, SourcingTypeOK
  <2> QED BY <1>3, <1>4, <2>1, <2>2 DEF Takes, Step
<1> QED BY <1>5, <1>6

LEMMA ChooseTakes ==
    ASSUME SourcingInv, NEW p \in Procs, NEW chosen \in SUBSET Files, ChooseFiles(p, chosen)
    PROVE  Takes(p)
<1> DEFINE w == [NoWork EXCEPT !.pc = "remove", !.list = chosen]
<1>1. w \in Work BY NoWorkTyped DEF Work
<1>2. w.queue = {} /\ w.bins = <<>> /\ w.after = "done" /\ w.pc = "remove" BY DEF NoWork
<1> HIDE DEF w
<1>3. Fit(w) BY <1>2 DEF Fit
<1>4. Supplied(cache, torn, w) BY <1>2 DEF Supplied
<1>5. /\ SourcingTypeOK /\ SetProc(p, w) /\ cache' = cache /\ torn' = torn /\ link' \in Versions
      /\ proc[p].pc = "idle"
  BY DEF ChooseFiles, SourcingInv, SourcingTypeOK, w
<1> QED BY <1>1, <1>2, <1>3, <1>4, <1>5, GoesOn

LEMMA ToolFits ==
    ASSUME NEW w \in Work, NEW b \in Bin, w.bins = <<b>>, w.queue \subseteq {1},
           w.pc \in {"tool", "fetch", "ready"}, w.after \in {"done", "tool", "ready"},
           NEW c, NEW t
    PROVE  Fit(w) /\ Supplied(c, t, w)
<1>1. DOMAIN <<b>> = {1} /\ Len(<<b>>) = 1 OBVIOUS
<1>2. Fit(w) BY <1>1 DEF Fit
<1>3. Supplied(c, t, w) BY DEF Supplied
<1> QED BY <1>2, <1>3

LEMMA ToolTakes ==
    ASSUME SourcingInv, NEW p \in Procs, NEW n \in Needed, NEW answer,
           GenerateTool(p, n, answer)
    PROVE  Takes(p)
<1> DEFINE b == Resolve(n, None, answer = "releases")
<1>1. /\ SourcingTypeOK /\ cache' = cache /\ torn' = torn /\ link' \in Versions
      /\ proc[p].pc = "idle"
  BY DEF GenerateTool, SourcingInv, SourcingTypeOK
<1>2. b \in Bin
  <2>1. n \in Names /\ None \in Versions BY SourcingAssumption, ArchiveFacts DEF None
  <2>2. (answer = "releases") \in BOOLEAN OBVIOUS
  <2> QED BY <2>1, <2>2, ResolveType
<1>3. GenerateTool(p, n, answer) =>
        \/ SetProc(p, [NoWork EXCEPT !.pc = "tool", !.bins = <<b>>])
        \/ SetProc(p, [NoWork EXCEPT !.pc = "fetch", !.bins = <<b>>, !.queue = {1},
                                    !.after = "tool"])
  BY DEF GenerateTool
<1> HIDE DEF b
<1>4. CASE SetProc(p, [NoWork EXCEPT !.pc = "tool", !.bins = <<b>>])
  <2> DEFINE w == [NoWork EXCEPT !.pc = "tool", !.bins = <<b>>]
  <2>1. <<b>> \in Seq(Bin) BY <1>2
  <2>2. w \in Work BY <2>1, NoWorkTyped DEF Work
  <2>3. w.bins = <<b>> /\ w.queue = {} /\ w.pc = "tool" /\ w.after = "done" BY DEF NoWork
  <2> HIDE DEF w
  <2>4. SetProc(p, w) BY <1>4 DEF w
  <2>5. Fit(w) /\ Supplied(cache, torn, w) BY <1>2, <2>2, <2>3, ToolFits
  <2> QED BY <1>1, <2>2, <2>3, <2>4, <2>5, GoesOn
<1>5. CASE SetProc(p, [NoWork EXCEPT !.pc = "fetch", !.bins = <<b>>, !.queue = {1},
                                     !.after = "tool"])
  <2> DEFINE w == [NoWork EXCEPT !.pc = "fetch", !.bins = <<b>>, !.queue = {1}, !.after = "tool"]
  <2>1. <<b>> \in Seq(Bin) /\ {1} \in SUBSET Nat BY <1>2
  <2>2. w \in Work BY <2>1, NoWorkTyped DEF Work
  <2>3. w.bins = <<b>> /\ w.queue = {1} /\ w.pc = "fetch" /\ w.after = "tool" BY DEF NoWork
  <2> HIDE DEF w
  <2>4. SetProc(p, w) BY <1>5 DEF w
  <2>5. Fit(w) /\ Supplied(cache, torn, w) BY <1>2, <2>2, <2>3, ToolFits
  <2> QED BY <1>1, <2>2, <2>3, <2>4, <2>5, GoesOn
<1> QED BY <1>3, <1>4, <1>5

LEMMA UpdateTakes == ASSUME SourcingInv, NEW p \in Procs, UpdateTool(p) PROVE Takes(p)
<1> DEFINE r == proc[p]
           b == r.bins[1]
           new == Resolve(b.name, b.latest, TRUE)
<1>1. /\ SourcingTypeOK /\ cache' = cache /\ torn' = torn /\ link' \in Versions
      /\ r.pc = "tool" /\ r \in Work /\ Fit(r)
  BY DEF UpdateTool, SourcingInv, SourcingTypeOK
<1>2. r.bins \in Seq(Bin) /\ Len(r.bins) = 1 BY <1>1 DEF Work, Fit
<1>3. b \in Bin BY <1>2
<1>4. new \in Bin BY <1>3, ResolveType DEF Bin
<1>5. CASE SetProc(p, [r EXCEPT !.pc = "fetch", !.bins = <<new>>, !.queue = {1}, !.after = "ready"])
  <2> DEFINE w == [r EXCEPT !.pc = "fetch", !.bins = <<new>>, !.queue = {1}, !.after = "ready"]
  <2> HIDE DEF new
  <2>1. <<new>> \in Seq(Bin) /\ {1} \in SUBSET Nat BY <1>4
  <2>2. w \in Work BY <1>1, <2>1 DEF Work
  <2>3. w.bins = <<new>> /\ w.queue = {1} /\ w.pc = "fetch" /\ w.after = "ready"
    BY <1>1 DEF Work
  <2>4. SetProc(p, w) BY <1>5
  <2> HIDE DEF w
  <2>5. Fit(w) /\ Supplied(cache, torn, w) BY <1>4, <2>2, <2>3, ToolFits
  <2> QED BY <1>1, <2>2, <2>3, <2>4, <2>5, GoesOn
<1>6. CASE Proceed(p, "ready")
  <2> DEFINE w == [r EXCEPT !.pc = "ready"]
  <2>1. /\ w \in Work /\ w.pc = "ready" /\ w.bins = r.bins /\ w.queue = r.queue
        /\ w.after = r.after
    BY <1>1 DEF Work
  <2>2. SetProc(p, w) BY <1>6 DEF Proceed, SetProc
  <2> HIDE DEF w
  <2>3. Fit(w) BY <1>1, <2>1 DEF Fit
  <2>4. Supplied(cache, torn, w) BY <2>1 DEF Supplied
  <2> QED BY <1>1, <2>1, <2>2, <2>3, <2>4, GoesOn
<1> QED BY <1>5, <1>6 DEF UpdateTool

LEMMA UseTakes == ASSUME SourcingInv, NEW p \in Procs, UseTool(p) PROVE Takes(p)
<1>1. /\ SourcingTypeOK /\ cache' = cache /\ torn' = torn /\ link' \in Versions
      /\ torn \subseteq Names \X Versions /\ proc[p].pc = "ready" /\ EndProcess(p, "done")
  BY DEF UseTool, SourcingInv, SourcingTypeOK
<1> QED BY <1>1, Ends

LEMMA StartTakes ==
    ASSUME SourcingInv, NEW p \in Procs, NEW asked \in Versions,
           NEW chains \in Configs \union {WithDependencies(c) : c \in Configs},
           Start(p, chains, asked)
    PROVE  Takes(p)
<1> DEFINE todo == NetworkBinaries(chains)
           w == [NoWork EXCEPT !.pc = "resolve", !.asked = asked, !.todo = todo]
<1>1. /\ SourcingTypeOK /\ cache' = cache /\ torn' = torn /\ link' \in Versions
      /\ torn \subseteq Names \X Versions /\ proc[p].pc = "idle"
  BY DEF Start, SourcingInv, SourcingTypeOK
<1>2. todo \in Seq(Names) /\ todo # <<>> /\ Head(todo) = Relay
  <2>1. Parachains(chains) \in Seq(Names) /\ <<Relay, Generator>> \in Seq(Names)
    BY SourcesKnown
  <2> QED BY <2>1 DEF NetworkBinaries
<1> HIDE DEF todo
<1>3. CASE SetProc(p, w)
  <2>1. w \in Work BY <1>2, NoWorkTyped DEF Work
  <2>2. /\ w.pc = "resolve" /\ w.todo = todo /\ w.bins = <<>> /\ w.queue = {}
        /\ w.after = "done"
    BY DEF NoWork
  <2> HIDE DEF w
  <2>3. Fit(w) BY <1>2, <2>2 DEF Fit
  <2>4. Supplied(cache, torn, w) BY <2>2 DEF Supplied
  <2> QED BY <1>1, <1>3, <2>1, <2>2, <2>3, <2>4, GoesOn
<1>4. CASE FailProcess(p) BY <1>1, <1>4, Ends DEF FailProcess
<1> QED BY <1>3, <1>4 DEF Start, todo

LEMMA StaleCached ==
    ASSUME NEW n \in Names, NEW specified \in Versions, NEW answered \in BOOLEAN,
           Stale(Resolve(n, specified, answered))
    PROVE  Ready(cache, torn, Resolve(n, specified, answered))
<1> DEFINE released == IF answered THEN 1..MaxVersion
                       ELSE {IF specified # None THEN specified ELSE Fallback}
           stored == CachedVersions(n)
           versions == released \union stored
           b == Resolve(n, specified, answered)
<1>1. b = IF n \in Built THEN [name |-> n, tag |-> None, latest |-> None]
          ELSE IF specified # None THEN [name |-> n, tag |-> specified, latest |-> None]
          ELSE [name |-> n, tag |-> Max(IF stored # {} THEN stored ELSE versions),
                latest |-> Max(versions)]
  BY DEF Resolve
<1> HIDE DEF versions, stored, b
<1>2. b.latest # None /\ b.tag # b.latest BY DEF Stale, b
<1>3. stored # {} /\ b.name = n /\ b.tag = Max(stored)
  <2>1. b = [name |-> n, tag |-> Max(IF stored # {} THEN stored ELSE versions),
             latest |-> Max(versions)]
    BY <1>1, <1>2
  <2>2. CASE stored = {} BY <1>2, <2>1, <2>2
  <2>3. CASE stored # {} BY <2>1, <2>3
  <2> QED BY <2>2, <2>3
<1>4. stored \subseteq 0..MaxVersion BY ArchiveFacts DEF stored, CachedVersions
<1>5. Max(stored) \in stored BY <1>3, <1>4, ArchiveFacts, MaxIsGreatest
<1>6. cache[<<n, b.tag>>] # "absent" BY <1>3, <1>5 DEF stored, CachedVersions
<1> QED BY <1>3, <1>6 DEF Ready, Key, b

LEMMA ResolveTakes ==
    ASSUME SourcingInv, NEW p \in Procs, NEW answer, ResolveBinary(p, answer)
    PROVE  Takes(p)
<1> DEFINE r == proc[p]
           name == Head(r.todo)
           b == Resolve(name, Specified(r, name), answer = "releases")
           limited == answer = "limited"
           w == [r EXCEPT !.todo = Tail(r.todo), !.limited = limited, !.bins = Append(r.bins, b)]
<1>1. /\ SourcingTypeOK /\ cache' = cache /\ torn' = torn /\ link' \in Versions
      /\ r.pc = "resolve" /\ r.todo # <<>> /\ r \in Work /\ Fit(r) /\ Supplied(cache, torn, r)
  BY DEF ResolveBinary, SourcingInv, SourcingTypeOK, LaunchInv
<1>2. r.todo \in Seq(Names) /\ r.bins \in Seq(Bin) /\ r.asked \in Versions
  BY <1>1 DEF Work
<1>3. name \in Names /\ Tail(r.todo) \in Seq(Names) BY <1>1, <1>2
<1>4. Specified(r, name) \in Versions
  <2>1. CASE name = Relay BY <1>2, <2>1 DEF Specified, Relay, Parachain
  <2>2. CASE name = Parachain
    <3>1. r.bins # <<>> BY <1>1, <2>2 DEF Fit, Relay, Parachain
    <3>2. r.bins[1] \in Bin BY <1>2, <3>1
    <3> QED BY <2>2, <3>2 DEF Specified, Relay, Parachain, Bin
  <2>3. CASE name # Relay /\ name # Parachain
    BY <2>3, ArchiveFacts DEF Specified, None
  <2> QED BY <2>1, <2>2, <2>3
<1>5. b \in Bin /\ (Stale(b) => Ready(cache, torn, b))
  <2>1. (answer = "releases") \in BOOLEAN OBVIOUS
  <2> HIDE DEF name
  <2> QED BY <1>3, <1>4, <2>1, ResolveType, StaleCached
<1>6. SetProc(p, w) BY DEF ResolveBinary
<1> HIDE DEF b, name
<1>7. /\ Append(r.bins, b) \in Seq(Bin) /\ Append(r.bins, b) # <<>>
      /\ \A i \in DOMAIN Append(r.bins, b) :
            (i \in DOMAIN r.bins /\ Append(r.bins, b)[i] = r.bins[i]) \/ Append(r.bins, b)[i] = b
      /\ DOMAIN r.bins \subseteq DOMAIN Append(r.bins, b)
  BY <1>2, <1>5
<1>8. limited \in BOOLEAN OBVIOUS
<1> HIDE DEF limited
<1>9. w \in Work BY <1>1, <1>3, <1>7, <1>8 DEF Work
<1>10. /\ w.pc = "resolve" /\ w.bins = Append(r.bins, b) /\ w.queue = r.queue
       /\ w.after = r.after
  BY <1>1 DEF Work
<1> HIDE DEF w
<1>11. Fit(w) BY <1>1, <1>7, <1>10 DEF Fit
<1>12. Supplied(cache, torn, w)
  <2>1. \A i \in DOMAIN w.bins : Stale(w.bins[i]) => Ready(cache, torn, w.bins[i])
    BY <1>1, <1>5, <1>7, <1>10 DEF Supplied
  <2> QED BY <1>10, <2>1 DEF Supplied
<1> QED BY <1>1, <1>6, <1>9, <1>10, <1>11, <1>12, GoesOn

\* Of the places where a binary stands, the first is kept.
LEMMA FirstKept ==
    ASSUME NEW bins, NEW I, I \subseteq Nat, NEW i \in I
    PROVE  \E j \in FirstOf(bins, I) : bins[j] = bins[i]
<1> DEFINE S == {j \in I : bins[j] = bins[i]}
<1>1. S \subseteq Nat /\ S # {} OBVIOUS
<1>2. PICK j \in S : \A k \in S : j <= k
  <2> HIDE DEF S
  <2> QED BY <1>1, LeastExists DEF Least
<1>3. j \in FirstOf(bins, I) BY <1>2 DEF FirstOf
<1> QED BY <1>2, <1>3

LEMMA SourceTakes ==
    ASSUME SourcingInv, NEW p \in Procs, NEW confirmed \in BOOLEAN, NEW latest \in BOOLEAN,
           SourceBinaries(p, confirmed, latest)
    PROVE  Takes(p)
<1> DEFINE r == proc[p]
           first == FirstOf(r.bins, Missing(r.bins) \union Outdated(r.bins))
           bins == [i \in DOMAIN r.bins |-> IF latest /\ i \in first /\ Stale(r.bins[i])
                                            THEN UseLatest(r.bins[i]) ELSE r.bins[i]]
           queue == ToSource(r.bins, latest)
           w == [r EXCEPT !.bins = bins, !.pc = "fetch", !.after = "spawn",
                          !.limited = FALSE, !.asked = None, !.queue = queue]
<1>1. /\ SourcingTypeOK /\ cache' = cache /\ torn' = torn /\ link' \in Versions
      /\ torn \subseteq Names \X Versions /\ r.todo = <<>>
      /\ r.pc = "resolve" /\ r \in Work /\ Fit(r) /\ Supplied(cache, torn, r)
  BY DEF SourceBinaries, SourcingInv, SourcingTypeOK, LaunchInv
<1>2. r.bins \in Seq(Bin) /\ r.bins # <<>> BY <1>1 DEF Work, Fit
<1>3. DOMAIN r.bins = 1..Len(r.bins) /\ Len(r.bins) \in Nat BY <1>2
<1>4. \A i \in DOMAIN r.bins : r.bins[i] \in Bin /\ UseLatest(r.bins[i]) \in Bin
  <2>1. \A i \in DOMAIN r.bins : r.bins[i] \in Bin BY <1>2
  <2>2. ASSUME NEW b \in Bin PROVE UseLatest(b) \in Bin
    <3>1. b.latest \in Versions BY DEF Bin
    <3>2. [b EXCEPT !.tag = b.latest] \in Bin BY <3>1 DEF Bin
    <3> QED BY <3>2 DEF UseLatest
  <2> QED BY <2>1, <2>2
<1>5. bins \in Seq(Bin) /\ DOMAIN bins = DOMAIN r.bins /\ bins # <<>>
  <2>1. \A i \in DOMAIN r.bins : bins[i] \in Bin BY <1>4
  <2>2. bins \in [1..Len(r.bins) -> Bin]
    BY <1>3, <2>1
  <2>3. DOMAIN bins = 1..Len(r.bins) BY <1>3
  <2> HIDE DEF bins
  <2>4. bins \in Seq(Bin) /\ Len(bins) = Len(r.bins) BY <1>3, <2>2
  <2>5. Len(r.bins) # 0 BY <1>2
  <2> QED BY <1>3, <2>3, <2>4, <2>5
<1>6. queue \subseteq DOMAIN r.bins /\ queue \in SUBSET Nat
  BY <1>3 DEF ToSource, FirstOf, Missing, Outdated
<1>7. CASE ~confirmed
  BY <1>1, <1>7, Ends DEF SourceBinaries, EndProcess
<1>8. CASE confirmed
  <2>1. SetProc(p, w) BY <1>8 DEF SourceBinaries
  <2>2. ASSUME NEW i \in DOMAIN bins
        PROVE  Ready(cache, torn, bins[i]) \/ \E j \in queue : bins[j] = bins[i]
    <3>1. i \in DOMAIN r.bins /\ i \in Nat BY <1>3, <1>5
    <3>2. CASE latest /\ i \in first /\ Stale(r.bins[i])
      <4>1. i \in queue BY <3>2 DEF ToSource
      <4> QED BY <4>1
    <3>3. CASE ~(latest /\ i \in first /\ Stale(r.bins[i]))
      <4>1. bins[i] = r.bins[i] BY <3>1, <3>3
      <4>2. CASE Exists(r.bins[i]) BY <4>1, <4>2 DEF Exists, Ready, Key
      <4>3. CASE Stale(r.bins[i]) BY <1>1, <3>1, <4>1, <4>3 DEF Supplied
      <4>4. CASE ~Exists(r.bins[i]) /\ ~Stale(r.bins[i])
        <5> DEFINE I == Missing(r.bins) \union (IF latest THEN Outdated(r.bins) ELSE {})
        <5>1. i \in I /\ I \subseteq DOMAIN r.bins /\ I \subseteq Nat
          BY <1>3, <3>1, <4>4 DEF Missing, Outdated
        <5>2. PICK j \in FirstOf(r.bins, I) : r.bins[j] = r.bins[i]
          <6> HIDE DEF I
          <6> QED BY <5>1, FirstKept
        <5>3. j \in queue BY <5>2 DEF ToSource
        <5>4. bins[j] = r.bins[j] BY <1>6, <4>4, <5>2, <5>3
        <5> QED BY <4>1, <5>2, <5>3, <5>4
      <4> QED BY <4>2, <4>3, <4>4
    <3> QED BY <3>2, <3>3
  <2> HIDE DEF bins, queue
  <2>3. None \in Versions BY ArchiveFacts DEF None
  <2>4. w \in Work BY <1>1, <1>5, <1>6, <2>3 DEF Work
  <2>5. w.bins = bins /\ w.pc = "fetch" /\ w.after = "spawn" /\ w.queue = queue
    BY <1>1 DEF Work
  <2> HIDE DEF w
  <2>6. Fit(w) BY <1>5, <1>6, <2>5 DEF Fit
  <2>7. Supplied(cache, torn, w) BY <2>2, <2>5 DEF Supplied
  <2> QED BY <1>1, <2>1, <2>4, <2>5, <2>6, <2>7, GoesOn
<1> QED BY <1>7, <1>8

LEMMA SpawnTakes ==
    ASSUME SourcingInv, NEW p \in Procs, UnlinkWorker(p) \/ LinkWorker(p) \/ Adapt(p)
    PROVE  Takes(p)
<1> DEFINE r == proc[p]
<1>1. /\ SourcingTypeOK /\ cache' = cache /\ torn' = torn /\ torn \subseteq Names \X Versions
      /\ r.pc \in {"spawn", "link", "adapt"} /\ r \in Work /\ Fit(r) /\ Supplied(cache, torn, r)
  BY DEF UnlinkWorker, LinkWorker, Adapt, SourcingInv, SourcingTypeOK, LaunchInv
<1>2. r.bins \in Seq(Bin) /\ r.bins # <<>> BY <1>1 DEF Work, Fit
<1>3. RelayOf(p) \in Bin BY <1>2 DEF RelayOf
<1>4. link' \in Versions
  <2>1. None \in Versions /\ RelayOf(p).tag \in Versions /\ link \in Versions
    BY <1>1, <1>3, ArchiveFacts DEF None, Bin, SourcingTypeOK
  <2>2. link' = link \/ link' = None \/ link' = RelayOf(p).tag
    BY DEF UnlinkWorker, LinkWorker, Adapt
  <2> QED BY <2>1, <2>2
<1>5. CASE EndProcess(p, "failed") \/ EndProcess(p, "launched")
  BY <1>1, <1>4, <1>5, Ends
<1>6. ASSUME NEW pc \in {"link", "adapt"}, Proceed(p, pc) PROVE Takes(p)
  <2> DEFINE w == [r EXCEPT !.pc = pc]
  <2>1. /\ w \in Work /\ w.pc = pc /\ w.bins = r.bins /\ w.queue = r.queue
        /\ w.after = r.after
    BY <1>1 DEF Work
  <2>2. SetProc(p, w) BY <1>6 DEF Proceed, SetProc
  <2> HIDE DEF w
  <2>3. Fit(w) BY <1>1, <2>1 DEF Fit
  <2>4. Supplied(cache, torn, w) BY <1>1, <2>1 DEF Supplied
  <2> QED BY <1>1, <1>4, <2>1, <2>2, <2>3, <2>4, GoesOn
<1> QED BY <1>5, <1>6 DEF UnlinkWorker, LinkWorker, Adapt, FailProcess

LEMMA NextTakes == ASSUME SourcingInv, Next PROVE \E p \in Procs : Takes(p)
<1>1. PICK p \in Procs : RunUp(p) \/ RunTool(p) \/ CleanCache(p) \/ SourceBinary(p) \/ Kill(p)
  BY DEF Next
<1>2. CASE RunUp(p)
  <2>1. ASSUME NEW chains \in Configs, NEW asked \in None..MaxVersion,
               UpConfigFile(p, chains, asked) \/ UpRelay(p, chains, asked)
        PROVE  Takes(p)
    <3>1. asked \in Versions BY DEF Versions
    <3>2. CASE UpConfigFile(p, chains, asked)
      BY <3>1, <3>2, StartTakes DEF UpConfigFile
    <3>3. CASE UpRelay(p, chains, asked)
      <4>1. WithDependencies(chains) \in {WithDependencies(c) : c \in Configs} OBVIOUS
      <4>2. Start(p, WithDependencies(chains), asked) BY <3>3 DEF UpRelay
      <4> QED BY <3>1, <4>1, <4>2, StartTakes
    <3> QED BY <2>1, <3>2, <3>3
  <2>2. ASSUME NEW answer, ResolveBinary(p, answer) PROVE Takes(p) BY <2>2, ResolveTakes
  <2>3. ASSUME NEW confirmed \in BOOLEAN, NEW latest \in BOOLEAN,
               SourceBinaries(p, confirmed, latest)
        PROVE  Takes(p)
    BY <2>3, SourceTakes
  <2>4. CASE UnlinkWorker(p) \/ LinkWorker(p) \/ Adapt(p) BY <2>4, SpawnTakes
  <2> QED BY <1>2, <2>1, <2>2, <2>3, <2>4 DEF RunUp
<1>3. CASE RunTool(p) BY <1>3, ToolTakes, UpdateTakes, UseTakes DEF RunTool
<1>4. CASE CleanCache(p)
  <2>1. ASSUME NEW f \in Files, ChooseFiles(p, {f}) PROVE Takes(p) BY <2>1, ChooseTakes
  <2>2. ASSUME NEW f \in Files, RemoveFile(p, f) PROVE Takes(p) BY <2>2, RemoveTakes
  <2>3. CASE ChooseFiles(p, {f \in Files : Listed(f)})
    <3>1. {f \in Files : Listed(f)} \in SUBSET Files OBVIOUS
    <3> QED BY <2>3, <3>1, ChooseTakes
  <2> QED BY <1>4, <2>1, <2>2, <2>3 DEF CleanCache
<1>5. CASE SourceBinary(p)
  BY <1>5, FetchTakes, FetchDoneTakes, MoveTakes DEF SourceBinary
<1>6. CASE Kill(p) BY <1>6, KillTakes
<1> QED BY <1>1, <1>2, <1>3, <1>4, <1>5, <1>6

(***************************************************************************)
(* Each kind keeps the archives.                                           *)
(***************************************************************************)
LEMMA OneProcess ==
    ASSUME SourcingTypeOK, NEW p \in Procs, NEW w, SetProc(p, w)
    PROVE  proc'[p] = w /\ \A q \in Procs : q # p => proc'[q] = proc[q]
BY DEF SetProc, SourcingTypeOK

\* Only a process that moves its files sees a binary's archive in between.
LEMMA QuietArchive ==
    ASSUME SourcingInv, NEW p \in Procs, NEW w \in Work, Fit(w), QuietStep(p, w),
           NEW n \in Names, NEW v \in Versions, <<n, v>> \notin torn', Archive(cache, proc, n, v)
    PROVE  Archive(cache', proc', n, v)
<1>1. proc'[p] = w /\ \A q \in Procs : q # p => proc'[q] = proc[q]
  BY OneProcess DEF QuietStep, SourcingInv
<1>2. p \notin Movers(proc, n, v) BY DEF Movers, QuietStep
<1>3. \A q \in Movers(proc, n, v) : q \in Movers(proc', n, v) /\ proc'[q] = proc[q]
  BY <1>1, <1>2 DEF Movers
<1>4. \A q \in Movers(proc', n, v) :
        (q \in Movers(proc, n, v) /\ proc'[q] = proc[q]) \/ proc'[q].at = 1
  <2> TAKE q \in Movers(proc', n, v)
  <2>1. CASE q = p BY <1>1, <2>1 DEF Movers, QuietStep
  <2>2. CASE q # p BY <1>1, <2>2 DEF Movers
  <2> QED BY <2>1, <2>2
<1>5. cache' = cache BY DEF QuietStep
<1>6. DOMAIN Contents[n] \subseteq Nat \ {0} BY ArchiveFacts
<1>7. ASSUME NEW i \in DOMAIN Contents[n], cache'[<<Contents[n][i], v>>] = "partial"
      PROVE  \E q \in Movers(proc', n, v) : proc'[q].at = i /\ proc'[q].copying
  <2>1. PICK q \in Movers(proc, n, v) : proc[q].at = i /\ proc[q].copying
    BY <1>5, <1>7 DEF Archive
  <2> QED BY <1>3, <2>1
<1>8. ASSUME NEW q \in Movers(proc', n, v), NEW i \in DOMAIN Contents[n], i < proc'[q].at
      PROVE  cache'[<<Contents[n][i], v>>] # "absent"
  <2>1. proc'[q].at # 1 BY <1>6, <1>8
  <2>2. q \in Movers(proc, n, v) /\ i < proc[q].at BY <1>4, <1>8, <2>1
  <2> QED BY <1>5, <2>2 DEF Archive
<1>9. \/ \A i \in DOMAIN Contents[n] : cache'[<<Contents[n][i], v>>] # "absent"
      \/ \A i \in DOMAIN Contents[n] :
            cache'[<<Contents[n][i], v>>] # "absent" =>
                \E q \in Movers(proc', n, v) : Reached(proc'[q], i)
  <2>1. CASE \A i \in DOMAIN Contents[n] : cache[<<Contents[n][i], v>>] # "absent"
    BY <1>5, <2>1
  <2>2. CASE \A i \in DOMAIN Contents[n] :
               cache[<<Contents[n][i], v>>] # "absent" =>
                   \E q \in Movers(proc, n, v) : Reached(proc[q], i)
    <3>1. ASSUME NEW i \in DOMAIN Contents[n], cache'[<<Contents[n][i], v>>] # "absent"
          PROVE  \E q \in Movers(proc', n, v) : Reached(proc'[q], i)
      <4>1. PICK q \in Movers(proc, n, v) : Reached(proc[q], i) BY <1>5, <2>2, <3>1
      <4> QED BY <1>3, <4>1
    <3> QED BY <3>1
  <2> QED BY <2>1, <2>2 DEF Archive
<1> QED BY <1>7, <1>8, <1>9 DEF Archive

\* A step that writes or removes no file of the archive, by a process that does not move it.
LEMMA OtherArchive ==
    ASSUME SourcingInv, NEW p \in Procs, NEW w, SetProc(p, w),
           NEW n \in Names, NEW v \in Versions, Archive(cache, proc, n, v),
           \A i \in DOMAIN Contents[n] :
               cache'[<<Contents[n][i], v>>] = cache[<<Contents[n][i], v>>],
           p \notin Movers(proc, n, v), ~(w.pc = "move" /\ Current(w) = <<n, v>>)
    PROVE  Archive(cache', proc', n, v)
<1>1. proc'[p] = w /\ \A q \in Procs : q # p => proc'[q] = proc[q]
  BY OneProcess DEF SourcingInv
<1>2. Movers(proc', n, v) = Movers(proc, n, v)
  <2>1. ASSUME NEW q \in Procs PROVE q \in Movers(proc', n, v) <=> q \in Movers(proc, n, v)
    <3>1. CASE q = p BY <1>1, <3>1 DEF Movers
    <3>2. CASE q # p BY <1>1, <3>2 DEF Movers
    <3> QED BY <3>1, <3>2
  <2>2. Movers(proc', n, v) \subseteq Procs /\ Movers(proc, n, v) \subseteq Procs BY DEF Movers
  <2> QED BY <2>1, <2>2
<1>3. \A q \in Movers(proc, n, v) : proc'[q] = proc[q] BY <1>1 DEF Movers
<1>4. ASSUME NEW i \in DOMAIN Contents[n], cache'[<<Contents[n][i], v>>] = "partial"
      PROVE  \E q \in Movers(proc', n, v) : proc'[q].at = i /\ proc'[q].copying
  <2>1. PICK q \in Movers(proc, n, v) : proc[q].at = i /\ proc[q].copying
    BY <1>4 DEF Archive
  <2> QED BY <1>2, <1>3, <2>1
<1>5. ASSUME NEW q \in Movers(proc', n, v), NEW i \in DOMAIN Contents[n], i < proc'[q].at
      PROVE  cache'[<<Contents[n][i], v>>] # "absent"
  BY <1>2, <1>3, <1>5 DEF Archive
<1>6. \/ \A i \in DOMAIN Contents[n] : cache'[<<Contents[n][i], v>>] # "absent"
      \/ \A i \in DOMAIN Contents[n] :
            cache'[<<Contents[n][i], v>>] # "absent" =>
                \E q \in Movers(proc', n, v) : Reached(proc'[q], i)
  <2>1. CASE \A i \in DOMAIN Contents[n] : cache[<<Contents[n][i], v>>] # "absent"
    BY <2>1
  <2>2. CASE \A i \in DOMAIN Contents[n] :
               cache[<<Contents[n][i], v>>] # "absent" =>
                   \E q \in Movers(proc, n, v) : Reached(proc[q], i)
    <3>1. ASSUME NEW i \in DOMAIN Contents[n], cache'[<<Contents[n][i], v>>] # "absent"
          PROVE  \E q \in Movers(proc', n, v) : Reached(proc'[q], i)
      <4>1. PICK q \in Movers(proc, n, v) : Reached(proc[q], i) BY <2>2, <3>1
      <4> QED BY <1>2, <1>3, <4>1
    <3> QED BY <3>1
  <2> QED BY <2>1, <2>2 DEF Archive
<1> QED BY <1>4, <1>5, <1>6 DEF Archive

LEMMA RemoveArchive ==
    ASSUME SourcingInv, NEW p \in Procs, NEW w, RemoveStep(p, w),
           NEW n \in Names, NEW v \in Versions, <<n, v>> \notin torn', Archive(cache, proc, n, v)
    PROVE  Archive(cache', proc', n, v)
<1>1. PICK f \in Files :
        /\ cache' = [cache EXCEPT ![f] = "absent"]
        /\ torn' = torn \union {<<m, f[2]>> : m \in {x \in Names : Contains(Contents[x], f[1])}}
  BY DEF RemoveStep
<1>2. cache \in [Files -> {"absent", "partial", "whole"}] BY DEF SourcingInv, SourcingTypeOK
<1>3. ASSUME NEW i \in DOMAIN Contents[n]
      PROVE  cache'[<<Contents[n][i], v>>] = cache[<<Contents[n][i], v>>]
  <2>1. CASE <<Contents[n][i], v>> = f
    <3>1. f[1] = Contents[n][i] /\ f[2] = v BY <2>1
    <3>2. i \in 1..Len(Contents[n]) BY ArchiveFacts
    <3>3. Contains(Contents[n], f[1]) BY <3>1, <3>2 DEF Contains
    <3>4. <<n, v>> \in torn' BY <1>1, <3>1, <3>3
    <3> QED BY <3>4
  <2>2. CASE <<Contents[n][i], v>> # f
    <3>1. <<Contents[n][i], v>> \in Files BY ArchiveFacts
    <3> QED BY <1>1, <1>2, <2>2, <3>1
  <2> QED BY <2>1, <2>2
<1>4. SetProc(p, w) /\ proc[p].pc # "move" /\ w.pc # "move" BY DEF RemoveStep
<1>5. p \notin Movers(proc, n, v) BY <1>4 DEF Movers
<1> QED BY <1>3, <1>4, <1>5, OtherArchive

Writes(p, val) == proc[p].pc = "move" /\ cache' = [cache EXCEPT ![File(proc[p])] = val]

LEMMA WriteFacts ==
    ASSUME SourcingInv, NEW p \in Procs, NEW val, Writes(p, val)
    PROVE  LET m == First(proc[p]).name
               u == First(proc[p]).tag
           IN /\ m \in Names /\ u \in Versions /\ Current(proc[p]) = <<m, u>>
              /\ proc[p].at \in DOMAIN Contents[m] /\ <<Contents[m][proc[p].at], u>> \in Files
              /\ cache \in [Files -> {"absent", "partial", "whole"}]
              /\ cache' = [cache EXCEPT ![<<Contents[m][proc[p].at], u>>] = val]
<1> DEFINE r == proc[p]
           m == First(r).name
           u == First(r).tag
<1>1. /\ r \in Work /\ Fit(r) /\ cache \in [Files -> {"absent", "partial", "whole"}]
      /\ r.pc = "move"
  BY DEF SourcingInv, SourcingTypeOK, Writes
<1>2. r.queue # {} /\ r.at \in DOMAIN Contents[m] BY <1>1 DEF Fit
<1>3. m \in Names /\ u \in Versions /\ Current(r) = <<m, u>>
  BY <1>1, <1>2, FirstFits DEF Bin, Key, Current
<1>4. cache' = [cache EXCEPT ![<<Contents[m][r.at], u>>] = val] BY DEF File, Writes
<1>5. <<Contents[m][r.at], u>> \in Files BY <1>2, <1>3, ArchiveFacts
<1> QED BY <1>1, <1>2, <1>3, <1>4, <1>5

\* A file is written by a process that moves its archive, and belongs to no other.
LEMMA WriteElsewhere ==
    ASSUME SourcingInv, NEW p \in Procs, NEW val, Writes(p, val),
           NEW n \in Names, NEW v \in Versions, NEW i \in DOMAIN Contents[n],
           Current(proc[p]) # <<n, v>> \/ i # proc[p].at
    PROVE  cache'[<<Contents[n][i], v>>] = cache[<<Contents[n][i], v>>]
<1> DEFINE k == proc[p].at
           m == First(proc[p]).name
           u == First(proc[p]).tag
<1>1. /\ m \in Names /\ u \in Versions /\ Current(proc[p]) = <<m, u>> /\ k \in DOMAIN Contents[m]
      /\ cache \in [Files -> {"absent", "partial", "whole"}]
      /\ cache' = [cache EXCEPT ![<<Contents[m][k], u>>] = val]
  BY WriteFacts
<1>2. <<Contents[n][i], v>> # <<Contents[m][k], u>>
  <2>1. Contents[n][i] = Contents[m][k] => n = m /\ i = k BY <1>1, ArchivesDisjoint
  <2> QED BY <1>1, <2>1
<1>3. <<Contents[n][i], v>> \in Files BY ArchiveFacts
<1> QED BY <1>1, <1>2, <1>3

LEMMA WriteHere ==
    ASSUME SourcingInv, NEW p \in Procs, NEW val, Writes(p, val),
           NEW n, NEW v, Current(proc[p]) = <<n, v>>
    PROVE  /\ First(proc[p]).name = n /\ proc[p].at \in DOMAIN Contents[n]
           /\ cache'[<<Contents[n][proc[p].at], v>>] = val
<1> DEFINE k == proc[p].at
           m == First(proc[p]).name
           u == First(proc[p]).tag
<1>1. /\ m \in Names /\ u \in Versions /\ Current(proc[p]) = <<m, u>> /\ k \in DOMAIN Contents[m]
      /\ <<Contents[m][k], u>> \in Files
      /\ cache \in [Files -> {"absent", "partial", "whole"}]
      /\ cache' = [cache EXCEPT ![<<Contents[m][k], u>>] = val]
  BY WriteFacts
<1>2. m = n /\ u = v BY <1>1
<1>3. cache'[<<Contents[m][k], u>>] = val BY <1>1
<1> QED BY <1>1, <1>2, <1>3

LEMMA WholeArchive ==
    ASSUME SourcingInv, NEW p \in Procs, NEW w \in Work, Fit(w), WholeStep(p, w),
           NEW n \in Names, NEW v \in Versions, Archive(cache, proc, n, v)
    PROVE  Archive(cache', proc', n, v)
<1> DEFINE r == proc[p]
           file(i) == cache[<<Contents[n][i], v>>]
<1>1. /\ r.pc = "move" /\ Writes(p, "whole")
      /\ SetProc(p, w) /\ w = Moved(r) /\ r \in Work /\ Fit(r)
  BY DEF WholeStep, Writes, SourcingInv, SourcingTypeOK
<1>2. proc'[p] = w /\ \A q \in Procs : q # p => proc'[q] = proc[q]
  BY <1>1, OneProcess DEF SourcingInv
<1>3. w.pc = "move" => Current(w) = Current(r) /\ w.at = r.at + 1
  BY <1>1, MovedFits DEF Current, First, Key
<1>4. CASE Current(r) # <<n, v>>
  <2>1. p \notin Movers(proc, n, v) BY <1>4 DEF Movers
  <2>2. \A i \in DOMAIN Contents[n] :
          cache'[<<Contents[n][i], v>>] = cache[<<Contents[n][i], v>>]
    BY <1>1, <1>4, WriteElsewhere
  <2> QED BY <1>1, <1>3, <1>4, <2>1, <2>2, OtherArchive
<1>5. CASE Current(r) = <<n, v>>
  <2>1. /\ First(r).name = n /\ r.at \in DOMAIN Contents[n]
        /\ cache'[<<Contents[n][r.at], v>>] = "whole"
        /\ \A i \in DOMAIN Contents[n] : i # r.at => cache'[<<Contents[n][i], v>>] = file(i)
    BY <1>1, <1>5, WriteHere, WriteElsewhere
  <2>2. DOMAIN Contents[n] = 1..Len(Contents[n]) /\ Len(Contents[n]) \in Nat BY ArchiveFacts
  <2>3. p \in Movers(proc, n, v) BY <1>1, <1>5 DEF Movers
  <2>4. \A q \in Movers(proc, n, v) : q # p =>
          q \in Movers(proc', n, v) /\ proc'[q] = proc[q]
    BY <1>2 DEF Movers
  <2>5. \A q \in Movers(proc', n, v) :
          \/ q # p /\ q \in Movers(proc, n, v) /\ proc'[q] = proc[q]
          \/ q = p /\ proc'[q].at = r.at + 1
    <3> TAKE q \in Movers(proc', n, v)
    <3>1. CASE q = p
      <4>1. w.pc = "move" BY <1>2, <3>1 DEF Movers
      <4> QED BY <1>2, <1>3, <3>1, <4>1
    <3>2. CASE q # p BY <1>2, <3>2 DEF Movers
    <3> QED BY <3>1, <3>2
  <2>6. \A i \in DOMAIN Contents[n] : file(i) # "absent" => cache'[<<Contents[n][i], v>>] # "absent"
    BY <2>1
  <2>7. \A i \in DOMAIN Contents[n] : i < r.at => file(i) # "absent" BY <2>3 DEF Archive
  <2>8. ASSUME NEW i \in DOMAIN Contents[n], cache'[<<Contents[n][i], v>>] = "partial"
        PROVE  \E q \in Movers(proc', n, v) : proc'[q].at = i /\ proc'[q].copying
    <3>1. i # r.at /\ file(i) = "partial" BY <2>1, <2>8
    <3>2. PICK q \in Movers(proc, n, v) : proc[q].at = i /\ proc[q].copying
      BY <3>1 DEF Archive
    <3>3. q # p BY <3>1, <3>2
    <3> QED BY <2>4, <3>2, <3>3
  <2>9. ASSUME NEW q \in Movers(proc', n, v), NEW i \in DOMAIN Contents[n], i < proc'[q].at
        PROVE  cache'[<<Contents[n][i], v>>] # "absent"
    <3>1. CASE q # p
      <4>1. q \in Movers(proc, n, v) /\ i < proc[q].at BY <2>5, <2>9, <3>1
      <4> QED BY <2>6, <4>1 DEF Archive
    <3>2. CASE q = p
      <4>1. i < r.at + 1 BY <2>5, <2>9, <3>2
      <4>2. i < r.at \/ i = r.at BY <2>1, <2>2, <4>1
      <4> QED BY <2>1, <2>6, <2>7, <4>2
    <3> QED BY <3>1, <3>2
  <2>10. \/ \A i \in DOMAIN Contents[n] : cache'[<<Contents[n][i], v>>] # "absent"
         \/ \A i \in DOMAIN Contents[n] :
               cache'[<<Contents[n][i], v>>] # "absent" =>
                   \E q \in Movers(proc', n, v) : Reached(proc'[q], i)
    <3>1. CASE \A i \in DOMAIN Contents[n] : file(i) # "absent" BY <2>6, <3>1
    <3>2. CASE r.at = Len(Contents[n])
      <4>1. \A i \in DOMAIN Contents[n] : i < r.at \/ i = r.at BY <2>2, <3>2
      <4> QED BY <2>1, <2>6, <2>7, <4>1
    <3>3. CASE /\ r.at # Len(Contents[n])
               /\ \A i \in DOMAIN Contents[n] :
                     file(i) # "absent" => \E q \in Movers(proc, n, v) : Reached(proc[q], i)
      <4>1. w.pc = "move" /\ w.at = r.at + 1 BY <1>1, <2>1, <3>3, MovedFits
      <4>2. p \in Movers(proc', n, v) /\ proc'[p].at = r.at + 1
        BY <1>2, <1>3, <1>5, <4>1 DEF Movers
      <4>3. ASSUME NEW i \in DOMAIN Contents[n], cache'[<<Contents[n][i], v>>] # "absent"
            PROVE  \E q \in Movers(proc', n, v) : Reached(proc'[q], i)
        <5>1. CASE i < r.at + 1 BY <4>2, <5>1 DEF Reached
        <5>2. CASE ~(i < r.at + 1)
          <6>1. i # r.at /\ ~(i < r.at) BY <2>1, <2>2, <5>2
          <6>2. PICK q \in Movers(proc, n, v) : Reached(proc[q], i) BY <2>1, <3>3, <4>3, <6>1
          <6>3. q # p BY <6>1, <6>2 DEF Reached
          <6> QED BY <2>4, <6>2, <6>3
        <5> QED BY <5>1, <5>2
      <4> QED BY <4>3
    <3> QED BY <3>1, <3>2, <3>3 DEF Archive
  <2> QED BY <2>8, <2>9, <2>10 DEF Archive
<1> QED BY <1>4, <1>5

LEMMA PartialArchive ==
    ASSUME SourcingInv, NEW p \in Procs, NEW w \in Work, Fit(w), PartialStep(p, w),
           NEW n \in Names, NEW v \in Versions, Archive(cache, proc, n, v)
    PROVE  Archive(cache', proc', n, v)
<1> DEFINE r == proc[p]
           file(i) == cache[<<Contents[n][i], v>>]
<1>1. /\ r.pc = "move" /\ Writes(p, "partial") /\ ~r.copying
      /\ SetProc(p, w) /\ w = [r EXCEPT !.copying = TRUE] /\ r \in Work /\ Fit(r)
  BY DEF PartialStep, Writes, SourcingInv, SourcingTypeOK
<1>2. proc'[p] = w /\ \A q \in Procs : q # p => proc'[q] = proc[q]
  BY <1>1, OneProcess DEF SourcingInv
<1>3. w.pc = "move" /\ w.at = r.at /\ w.copying /\ w.queue = r.queue /\ w.bins = r.bins
  BY <1>1 DEF Work
<1>4. Current(w) = Current(r) BY <1>3 DEF Current, First, Key
<1>5. CASE Current(r) # <<n, v>>
  <2>1. p \notin Movers(proc, n, v) BY <1>5 DEF Movers
  <2>2. \A i \in DOMAIN Contents[n] :
          cache'[<<Contents[n][i], v>>] = cache[<<Contents[n][i], v>>]
    BY <1>1, <1>5, WriteElsewhere
  <2> QED BY <1>1, <1>4, <1>5, <2>1, <2>2, OtherArchive
<1>6. CASE Current(r) = <<n, v>>
  <2>1. /\ r.at \in DOMAIN Contents[n]
        /\ cache'[<<Contents[n][r.at], v>>] = "partial"
        /\ \A i \in DOMAIN Contents[n] : i # r.at => cache'[<<Contents[n][i], v>>] = file(i)
    BY <1>1, <1>6, WriteHere, WriteElsewhere
  <2>2. p \in Movers(proc, n, v) /\ p \in Movers(proc', n, v)
    BY <1>1, <1>2, <1>3, <1>4, <1>6 DEF Movers
  <2>3. \A q \in Movers(proc, n, v) : q # p => q \in Movers(proc', n, v) /\ proc'[q] = proc[q]
    BY <1>2 DEF Movers
  <2>4. \A q \in Movers(proc', n, v) : q \in Movers(proc, n, v) /\ proc'[q].at = proc[q].at
    <3> TAKE q \in Movers(proc', n, v)
    <3>1. CASE q = p BY <1>2, <1>3, <2>2, <3>1
    <3>2. CASE q # p BY <1>2, <3>2 DEF Movers
    <3> QED BY <3>1, <3>2
  <2>5. \A i \in DOMAIN Contents[n] : file(i) # "absent" => cache'[<<Contents[n][i], v>>] # "absent"
    BY <2>1
  <2>6. ASSUME NEW i \in DOMAIN Contents[n], cache'[<<Contents[n][i], v>>] = "partial"
        PROVE  \E q \in Movers(proc', n, v) : proc'[q].at = i /\ proc'[q].copying
    <3>1. CASE i = r.at BY <1>2, <1>3, <2>2, <3>1
    <3>2. CASE i # r.at
      <4>1. PICK q \in Movers(proc, n, v) : proc[q].at = i /\ proc[q].copying
        BY <2>1, <2>6, <3>2 DEF Archive
      <4>2. q # p BY <3>2, <4>1
      <4> QED BY <2>3, <4>1, <4>2
    <3> QED BY <3>1, <3>2
  <2>7. ASSUME NEW q \in Movers(proc', n, v), NEW i \in DOMAIN Contents[n], i < proc'[q].at
        PROVE  cache'[<<Contents[n][i], v>>] # "absent"
    BY <2>4, <2>5, <2>7 DEF Archive
  <2>8. \/ \A i \in DOMAIN Contents[n] : cache'[<<Contents[n][i], v>>] # "absent"
        \/ \A i \in DOMAIN Contents[n] :
              cache'[<<Contents[n][i], v>>] # "absent" =>
                  \E q \in Movers(proc', n, v) : Reached(proc'[q], i)
    <3>1. CASE \A i \in DOMAIN Contents[n] : file(i) # "absent" BY <2>5, <3>1
    <3>2. CASE \A i \in DOMAIN Contents[n] :
                 file(i) # "absent" => \E q \in Movers(proc, n, v) : Reached(proc[q], i)
      <4>1. ASSUME NEW i \in DOMAIN Contents[n], cache'[<<Contents[n][i], v>>] # "absent"
            PROVE  \E q \in Movers(proc', n, v) : Reached(proc'[q], i)
        <5>1. CASE i = r.at
          <6>1. Reached(proc'[p], i) BY <1>2, <1>3, <5>1 DEF Reached
          <6> QED BY <2>2, <6>1
        <5>2. CASE i # r.at
          <6>1. PICK q \in Movers(proc, n, v) : Reached(proc[q], i) BY <2>1, <3>2, <4>1, <5>2
          <6>2. q = p => Reached(proc'[p], i) BY <1>2, <1>3, <6>1 DEF Reached
          <6> QED BY <2>2, <2>3, <6>1, <6>2
        <5> QED BY <5>1, <5>2
      <4> QED BY <4>1
    <3> QED BY <3>1, <3>2 DEF Archive
  <2> QED BY <2>6, <2>7, <2>8 DEF Archive
<1> QED BY <1>5, <1>6

LEMMA ArchivesStep ==
    ASSUME SourcingInv, NEW p \in Procs, NEW w \in Work, Fit(w), Step(p, w)
    PROVE  ArchivesInv'
<1> SUFFICES ASSUME NEW n \in Names, NEW v \in Versions, <<n, v>> \notin torn'
             PROVE  Archive(cache', proc', n, v)
  BY DEF ArchivesInv
<1>1. torn \subseteq torn' BY DEF Step, QuietStep, WholeStep, PartialStep, RemoveStep
<1>2. Archive(cache, proc, n, v) BY <1>1 DEF SourcingInv, ArchivesInv
<1> QED BY <1>2, QuietArchive, WholeArchive, PartialArchive, RemoveArchive DEF Step

LEMMA TypesStep ==
    ASSUME SourcingInv, NEW p \in Procs, NEW w \in Work, Fit(w), Step(p, w), link' \in Versions
    PROVE  SourcingTypeOK'
<1>1. SourcingTypeOK BY DEF SourcingInv
<1>2. SetProc(p, w) BY DEF Step, QuietStep, WholeStep, PartialStep, RemoveStep
<1>3. proc' \in [Procs -> Work] BY <1>1, <1>2 DEF SetProc, SourcingTypeOK
<1>4. \A q \in Procs : Fit(proc'[q])
  <2> TAKE q \in Procs
  <2>1. CASE q = p BY <1>1, <1>2, <2>1, OneProcess
  <2>2. CASE q # p BY <1>1, <1>2, <2>2, OneProcess DEF SourcingTypeOK
  <2> QED BY <2>1, <2>2
<1>5. cache' \in [Files -> {"absent", "partial", "whole"}]
  BY <1>1 DEF SourcingTypeOK, Step, QuietStep, WholeStep, PartialStep, RemoveStep
<1>6. torn' \subseteq Names \X Versions
  <2>1. CASE RemoveStep(p, w)
    <3>1. PICK f \in Files :
            torn' = torn \union {<<n, f[2]>> : n \in {m \in Names : Contains(Contents[m], f[1])}}
      BY <2>1 DEF RemoveStep
    <3>2. f[2] \in Versions BY DEF Files, Versions
    <3> QED BY <1>1, <3>1, <3>2 DEF SourcingTypeOK
  <2>2. CASE ~RemoveStep(p, w)
    BY <1>1, <2>2 DEF SourcingTypeOK, Step, QuietStep, WholeStep, PartialStep
  <2> QED BY <2>1, <2>2
<1>7. (\A q \in Procs : Fit(proc[q]))' BY <1>4
<1> QED BY <1>3, <1>5, <1>6, <1>7 DEF SourcingTypeOK

LEMMA LaunchStep ==
    ASSUME SourcingInv, NEW p \in Procs, NEW w \in Work, Step(p, w), Supplied(cache', torn', w)
    PROVE  LaunchInv'
<1>1. SourcingTypeOK BY DEF SourcingInv
<1>2. SetProc(p, w) BY DEF Step, QuietStep, WholeStep, PartialStep, RemoveStep
<1>3. \A q \in Procs : Supplied(cache', torn', proc'[q])
  <2> TAKE q \in Procs
  <2>1. CASE q = p BY <1>1, <1>2, <2>1, OneProcess
  <2>2. CASE q # p
    <3> DEFINE r == proc[q]
    <3>1. proc'[q] = r BY <1>1, <1>2, <2>2, OneProcess
    <3>2. Supplied(cache, torn, r) /\ r.bins \in Seq(Bin)
      BY <1>1 DEF SourcingInv, LaunchInv, SourcingTypeOK, Work
    <3>3. \A i \in DOMAIN r.bins :
            Ready(cache, torn, r.bins[i]) => Ready(cache', torn', r.bins[i])
      BY <1>1, <3>2, ReadyStays
    <3> HIDE DEF r
    <3>4. Supplied(cache', torn', r) BY <3>2, <3>3 DEF Supplied
    <3> QED BY <3>1, <3>4
  <2> QED BY <2>1, <2>2
<1> QED BY <1>3 DEF LaunchInv

LEMMA SourcingInductive == SourcingInv /\ [Next]_vars => SourcingInv'
<1> SUFFICES ASSUME SourcingInv, [Next]_vars PROVE SourcingInv' OBVIOUS
<1>1. CASE Next
  <2>1. PICK p \in Procs : Takes(p) BY <1>1, NextTakes
  <2>2. PICK w \in Work : Fit(w) /\ Supplied(cache', torn', w) /\ Step(p, w) BY <2>1 DEF Takes
  <2> QED BY <2>1, <2>2, ArchivesStep, TypesStep, LaunchStep DEF SourcingInv, Takes
<1>2. CASE UNCHANGED vars
  BY <1>2 DEF vars, SourcingInv, SourcingTypeOK, ArchivesInv, Archive, Movers, LaunchInv
<1> QED BY <1>1, <1>2

LEMMA SourcingStarts == Init => SourcingInv
<1> SUFFICES ASSUME Init PROVE SourcingInv OBVIOUS
<1>1. PICK old \in SUBSET {1} :
        cache = [f \in Files |-> IF f[2] \in old /\ f[1] \notin Built THEN "whole" ELSE "absent"]
  BY DEF Init
<1>2. \A p \in Procs : proc[p] = NoWork BY DEF Init
<1>3. NoWork \in Work /\ Fit(NoWork) /\ Supplied(cache, torn, NoWork)
  <2>1. NoWork.queue = {} /\ NoWork.bins = <<>> /\ NoWork.after = "done" /\ NoWork.pc = "idle"
    BY DEF NoWork
  <2>2. Fit(NoWork) BY <2>1 DEF Fit
  <2>3. Supplied(cache, torn, NoWork) BY <2>1 DEF Supplied
  <2> QED BY <2>2, <2>3, NoWorkTyped
<1>4. SourcingTypeOK
  <2>1. cache \in [Files -> {"absent", "partial", "whole"}] BY <1>1
  <2>2. proc \in [Procs -> Work] BY <1>3 DEF Init
  <2>3. link \in Versions /\ torn \subseteq Names \X Versions BY ArchiveFacts DEF Init, None
  <2> QED BY <1>2, <1>3, <2>1, <2>2, <2>3 DEF SourcingTypeOK
<1>5. LaunchInv BY <1>2, <1>3 DEF LaunchInv
<1>6. ASSUME NEW n \in Names, NEW v \in Versions PROVE Archive(cache, proc, n, v)
  <2>1. Movers(proc, n, v) = {} BY <1>2 DEF Movers, NoWork
  <2>2. \A i \in DOMAIN Contents[n] : Contents[n][i] \in Built <=> n \in Built
    <3> TAKE i \in DOMAIN Contents[n]
    <3>1. CASE n \in Built
      <4>1. i = 1 /\ Contents[n][1] = n BY <3>1, ArchivesDisjoint, ArchiveFacts
      <4> QED BY <3>1, <4>1
    <3>2. ASSUME Contents[n][i] \in Built PROVE n \in Built
      <4> DEFINE m == Contents[n][i]
      <4>1. m \in Names BY <3>2, ArchivesDisjoint
      <4>2. 1 \in DOMAIN Contents[m] /\ Contents[m][1] = m BY <4>1, ArchiveFacts
      <4>3. m = n BY <4>1, <4>2, ArchivesDisjoint
      <4> QED BY <3>2, <4>3
    <3> QED BY <3>1, <3>2
  <2>3. \A i \in DOMAIN Contents[n] :
          cache[<<Contents[n][i], v>>] = IF v \in old /\ n \notin Built THEN "whole" ELSE "absent"
    <3> TAKE i \in DOMAIN Contents[n]
    <3>1. <<Contents[n][i], v>> \in Files BY ArchiveFacts
    <3>2. <<Contents[n][i], v>>[1] = Contents[n][i] /\ <<Contents[n][i], v>>[2] = v OBVIOUS
    <3> QED BY <1>1, <2>2, <3>1, <3>2
  <2> QED BY <2>1, <2>3 DEF Archive
<1> QED BY <1>4, <1>5, <1>6 DEF SourcingInv, ArchivesInv

LEMMA SourcingInvariant == Spec => []SourcingInv
BY SourcingStarts, SourcingInductive, PTL DEF Spec

\* However many processes source the same binaries at once: when nobody moves the files of an
\* archive (from_archive, build), either all of its files are in the cache and whole or none
\* is, unless a move failed, a process died in the middle of one, or pop clean removed a file.
THEOREM ArchivesWhole == Spec => []WholeArchives
<1>1. SourcingInv => WholeArchives
  <2> SUFFICES ASSUME SourcingInv, NEW n \in Names, NEW v \in None..MaxVersion,
                      <<n, v>> \notin torn,
                      ~\E p \in Procs : proc[p].pc = "move" /\ Current(proc[p]) = <<n, v>>
               PROVE  LET files == {cache[<<Contents[n][i], v>>] : i \in DOMAIN Contents[n]}
                      IN  files = {"absent"} \/ files = {"whole"}
    BY DEF WholeArchives
  <2>1. Movers(proc, n, v) = {} BY DEF Movers
  <2>2. Archive(cache, proc, n, v) BY DEF SourcingInv, ArchivesInv, Versions
  <2>3. 1 \in DOMAIN Contents[n] BY ArchiveFacts
  <2>4. \A i \in DOMAIN Contents[n] : cache[<<Contents[n][i], v>>] \in {"absent", "whole"}
    <3> TAKE i \in DOMAIN Contents[n]
    <3>1. <<Contents[n][i], v>> \in Files BY ArchiveFacts DEF Versions
    <3>2. cache[<<Contents[n][i], v>>] \in {"absent", "partial", "whole"}
      BY <3>1 DEF SourcingInv, SourcingTypeOK
    <3> QED BY <2>1, <2>2, <3>2 DEF Archive
  <2>5. \/ \A i \in DOMAIN Contents[n] : cache[<<Contents[n][i], v>>] = "whole"
        \/ \A i \in DOMAIN Contents[n] : cache[<<Contents[n][i], v>>] = "absent"
    BY <2>1, <2>2, <2>4 DEF Archive
  <2> QED BY <2>3, <2>5
<1> QED BY <1>1, SourcingInvariant, PTL

\* source_binaries leaves a launch no binary short: each one that Zombienet::spawn and adapt
\* look for, under the version chosen by then, is in the cache, or somebody removed it or
\* left it half moved.
THEOREM LaunchSupplied == Spec => []NothingMissingAtLaunch
<1>1. SourcingInv => NothingMissingAtLaunch
  BY DEF SourcingInv, LaunchInv, Supplied, Ready, NothingMissingAtLaunch, Exists, Key
<1> QED BY <1>1, SourcingInvariant, PTL

-----------------------------------------------------------------------------
(***************************************************************************)
(* Contracts: the nodes that `pop up` starts, and the calls that are       *)
(* repeated.  The fields that a command has wherever it is.                *)
(***************************************************************************)
Common == {"cmd", "pc", "json", "skip", "ended"}
Options == {"execute", "wallet", "suri", "upload", "skipBuild", "url", "args", "message", "call",
            "confirmed", "repeat", "deployed"}
HasPort(pc) == pc \in {"binaries", "ink-node", "eth-rpc"}

Shape(s) ==
    /\ Common \subseteq DOMAIN s
    /\ s.cmd # "ink-node" => Options \subseteq DOMAIN s
    /\ HasPort(s.pc) => {"port", "url"} \subseteq DOMAIN s

Urls == {NULL, "default", "other", "remote"}
Sending == [what : {"upload", "instantiate", "map", "call"}, call : Nat, url : Urls, args : Seq(Nat),
            agreed : BOOLEAN]

Typed(s) ==
    /\ s.json \in BOOLEAN /\ s.skip \in BOOLEAN
    /\ s.json => s.skip /\ s.cmd # "ink-node"
    /\ HasPort(s.pc) => s.port = s.url /\ s.port \in Urls
    /\ s.cmd # "ink-node" =>
          /\ s.call \in Nat /\ s.url \in Urls /\ s.args \in Seq(Nat)
          /\ s.execute \in BOOLEAN /\ s.confirmed \in BOOLEAN /\ s.wallet \in BOOLEAN
          /\ s.upload \in BOOLEAN
          /\ s.message \in {NULL} \cup Callables
          /\ s.pc = "arguments" => s.message \in Callables

(***************************************************************************)
(* What holds of a command at a place: which places its kind reaches; that *)
(* a JSON deployment past its preconditions asks for nothing and uses no   *)
(* wallet; that one with a node that runs is on a path to terminate_nodes; *)
(* that nothing is sent before the node runs, and then to its port; and    *)
(* that a repeated call forgets what the one before was told to do, and    *)
(* executes only once the user agreed, or with the wallet, which asks.     *)
(***************************************************************************)
Before == {"build", "signer", "url", "alive"}
Starting == {"ports", "binaries", "ink-node", "eth-rpc"}
Deploying == {"constructor", "data", "sign", "upload", "set up", "map", "dry run", "confirm", "send", "finish",
              "terminate"}
Configuring == {"path", "metadata", "endpoint", "message", "arguments", "caller", "agree"}
Calling == {"read", "set up call", "sign call", "map caller", "dry run call", "call", "repeat"}
JsonCalling == {"path", "metadata", "json set up", "json dry run", "json call"}

Reaches(s, pc) ==
    \/ pc = "done" /\ s.cmd \in {"up", "call", "ink-node"}
    \/ s.cmd = "ink-node" /\ pc \in Starting \cup {"running"}
    \/ s.cmd = "up" /\ pc \in Before \cup Starting \cup Deploying
    \/ s.cmd \in {"up", "call"} /\ ~s.json /\ pc \in Configuring \cup Calling
    \/ s.cmd = "call" /\ s.json /\ pc \in JsonCalling

JsonPath(s, pc) ==
    s.json /\ s.cmd = "up" /\ pc \notin {"build", "done"} =>
        ~s.wallet /\ ~s.upload /\ s.execute /\ pc \notin {"data", "sign", "upload", "map"}

NodePath(s, pc, port, nodes) ==
    port # NULL =>
        /\ pc \notin Before \cup Starting
        /\ s.cmd # "call"
        /\ s.json /\ pc = "done" => nodes = {}

OwnNode(s, pc, port, sent) ==
    /\ pc \in Before \cup Starting \/ s.cmd = "ink-node" => sent = <<>>
    /\ port # NULL /\ s.cmd # "ink-node" => s.url = port

Agreement(s, pc) ==
    s.cmd # "ink-node" /\ s.call > 1 /\ ~s.skip =>
        /\ pc \in Configuring => ~s.execute
        /\ pc = "set up call" /\ s.execute => s.confirmed \/ s.wallet
        /\ pc \in {"map caller", "dry run call"} /\ s.execute => s.confirmed
        /\ pc = "call" => s.confirmed

Allowed(s, pc, port, nodes, sent) ==
    /\ Reaches(s, pc) /\ JsonPath(s, pc) /\ Agreement(s, pc)
    /\ NodePath(s, pc, port, nodes) /\ OwnNode(s, pc, port, sent)

SentWell(skip, port, sent) ==
    /\ sent \in Seq(Sending)
    /\ port # NULL => \A i \in DOMAIN sent : sent[i].url = port
    /\ \A i \in DOMAIN sent : sent[i].what = "call" /\ sent[i].call > 1 /\ ~skip => sent[i].agreed

ContractsInv ==
    /\ Shape(session) /\ Typed(session)
    /\ Allowed(session, session.pc, nodePort, inkNodes, submitted)
    /\ SentWell(session.skip, nodePort, submitted)

\* A record some of whose fields were changed.
Updated(s, t, fs) ==
    /\ t.cmd = s.cmd /\ t.json = s.json /\ t.skip = s.skip /\ t.pc = fs.pc
    /\ s.cmd # "ink-node" =>
          /\ t.execute = IF "execute" \in DOMAIN fs THEN fs.execute ELSE s.execute
          /\ t.wallet = IF "wallet" \in DOMAIN fs THEN fs.wallet ELSE s.wallet
          /\ t.suri = IF "suri" \in DOMAIN fs THEN fs.suri ELSE s.suri
          /\ t.upload = IF "upload" \in DOMAIN fs THEN fs.upload ELSE s.upload
          /\ t.skipBuild = IF "skipBuild" \in DOMAIN fs THEN fs.skipBuild ELSE s.skipBuild
          /\ t.url = IF "url" \in DOMAIN fs THEN fs.url ELSE s.url
          /\ t.args = IF "args" \in DOMAIN fs THEN fs.args ELSE s.args
          /\ t.message = IF "message" \in DOMAIN fs THEN fs.message ELSE s.message
          /\ t.call = IF "call" \in DOMAIN fs THEN fs.call ELSE s.call
          /\ t.confirmed = IF "confirmed" \in DOMAIN fs THEN fs.confirmed ELSE s.confirmed
          /\ t.repeat = IF "repeat" \in DOMAIN fs THEN fs.repeat ELSE s.repeat
          /\ t.deployed = IF "deployed" \in DOMAIN fs THEN fs.deployed ELSE s.deployed
    /\ HasPort(s.pc) /\ {"port", "url"} \cap DOMAIN fs = {} => t.port = s.port /\ t.url = s.url
    /\ {"port", "url"} \subseteq DOMAIN fs => t.port = fs.port /\ t.url = fs.url

LEMMA BecomeUpdates ==
    ASSUME NEW fs, Become(fs), Shape(session), "pc" \in DOMAIN fs,
           {"cmd", "json", "skip"} \cap DOMAIN fs = {},
           HasPort(fs.pc) => HasPort(session.pc) \/ {"port", "url"} \subseteq DOMAIN fs
    PROVE  Shape(session') /\ Updated(session, session', fs)
<1>1. /\ DOMAIN session' = DOMAIN fs \cup DOMAIN session
      /\ \A f \in DOMAIN session' : session'[f] = IF f \in DOMAIN fs THEN fs[f] ELSE session[f]
  BY DEF Become, With
<1>2. Common \subseteq DOMAIN session' /\ session'.cmd = session.cmd /\ session'.json = session.json
      /\ session'.skip = session.skip /\ session'.pc = fs.pc
  BY <1>1 DEF Shape, Common
<1>3. session.cmd # "ink-node" => Options \subseteq DOMAIN session' BY <1>1 DEF Shape
<1>4. Shape(session') BY <1>1, <1>2, <1>3 DEF Shape
<1>5. Updated(session, session', fs)
  BY <1>1, <1>2, <1>3 DEF Updated, Options, Shape
<1> QED BY <1>4, <1>5

\* The command goes on, and what it needs at its next place holds of it already.
LEMMA GotoKeeps ==
    ASSUME ContractsInv, NEW x, Goto(x), HasPort(x) => HasPort(session.pc), x # "arguments", NEW P, NEW N, NEW M,
           Allowed(session, x, P, N, M)
    PROVE  /\ Shape(session') /\ Typed(session') /\ Allowed(session', session'.pc, P, N, M)
           /\ session'.skip = session.skip /\ session'.cmd = session.cmd
<1>1. Shape(session') /\ Updated(session, session', [pc |-> x])
  BY BecomeUpdates DEF Goto, ContractsInv
<1>2. Typed(session') BY <1>1 DEF ContractsInv, Typed, Updated
<1>3. session'.pc = x BY <1>1 DEF Updated
<1>4. Reaches(session', x) /\ JsonPath(session', x)
  BY <1>1 DEF Updated, Reaches, JsonPath, Allowed
<1>5. NodePath(session', x, P, N) /\ OwnNode(session', x, P, M)
  BY <1>1 DEF Updated, NodePath, OwnNode, Allowed
<1>6. Agreement(session', x) BY <1>1 DEF Updated, Agreement, Allowed
<1>7. session'.skip = session.skip /\ session'.cmd = session.cmd BY <1>1 DEF Updated
<1> HIDE DEF ContractsInv
<1> QED BY <1>1, <1>2, <1>3, <1>4, <1>5, <1>6, <1>7 DEF Allowed

\* The command ends.
LEMMA EndKeeps ==
    ASSUME ContractsInv, Fail \/ Succeed, NEW N, session.json /\ nodePort # NULL => N = {}
    PROVE  /\ Shape(session') /\ Typed(session') /\ Allowed(session', session'.pc, nodePort, N, submitted)
           /\ session'.skip = session.skip /\ session'.cmd = session.cmd
<1>1. PICK e : Become([pc |-> "done", ended |-> e]) BY DEF Fail, Succeed
<1>2. Shape(session') /\ Updated(session, session', [pc |-> "done", ended |-> e])
  BY <1>1, BecomeUpdates DEF ContractsInv, HasPort
<1>3. Typed(session') BY <1>2 DEF ContractsInv, Typed, Updated, HasPort
<1>4. session'.pc = "done" /\ session'.skip = session.skip /\ session'.cmd = session.cmd BY <1>2 DEF Updated
<1>5. Reaches(session', "done") /\ JsonPath(session', "done")
  BY <1>2 DEF Updated, Reaches, JsonPath, Allowed, ContractsInv
<1>6. NodePath(session', "done", nodePort, N) /\ OwnNode(session', "done", nodePort, submitted)
  BY <1>2 DEF Updated, NodePath, OwnNode, Allowed, ContractsInv, Before, Starting
<1>7. Agreement(session', "done") BY <1>2 DEF Updated, Agreement, Configuring
<1> QED BY <1>2, <1>3, <1>4, <1>5, <1>6, <1>7 DEF Allowed

Keeps(P, N, M) ==
    /\ Shape(session') /\ Typed(session') /\ Allowed(session', session'.pc, P, N, M)
    /\ session'.skip = session.skip /\ session'.cmd = session.cmd

\* A step that leaves the machine as it is.
Quiet == Keeps(nodePort, inkNodes, submitted)

LEMMA SignerWalletQuiet ==
    ASSUME ContractsInv, NEW x \in {"url", "agree"}, ~session.skip, session.cmd # "ink-node",
           Allowed(session, x, nodePort, inkNodes, submitted),
           Become([pc |-> x, wallet |-> TRUE])
    PROVE  Quiet
<1>1. Shape(session') /\ Updated(session, session', [pc |-> x, wallet |-> TRUE])
  BY BecomeUpdates DEF ContractsInv, HasPort, At
<1>2. Typed(session') BY <1>1 DEF ContractsInv, Typed, Updated, HasPort, Urls, At
<1>3. Reaches(session', session'.pc)
  BY <1>1 DEF ContractsInv, Updated, At, Allowed, Reaches, Before, Starting, Deploying, Configuring, Calling,
     JsonCalling
<1>4. JsonPath(session', session'.pc) BY <1>1 DEF ContractsInv, Updated, Typed, At, Allowed, JsonPath
<1>5. NodePath(session', session'.pc, nodePort, inkNodes) /\ OwnNode(session', session'.pc, nodePort, submitted)
  BY <1>1 DEF ContractsInv, Updated, At, Allowed, NodePath, OwnNode, Before, Starting, Deploying
<1>6. Agreement(session', session'.pc)
  BY <1>1 DEF ContractsInv, Updated, At, Allowed, Agreement, Typed, Configuring
<1> QED BY <1>1, <1>2, <1>3, <1>4, <1>5, <1>6 DEF Quiet, Keeps, Updated, Allowed

LEMMA SignerSuriQuiet ==
    ASSUME ContractsInv, NEW x \in {"url", "agree"}, ~session.skip, session.cmd # "ink-node",
           Allowed(session, x, nodePort, inkNodes, submitted),
           Become([pc |-> x, suri |-> TRUE])
    PROVE  Quiet
<1>1. Shape(session') /\ Updated(session, session', [pc |-> x, suri |-> TRUE])
  BY BecomeUpdates DEF ContractsInv, HasPort, At
<1>2. Typed(session') BY <1>1 DEF ContractsInv, Typed, Updated, HasPort, Urls, At
<1>3. Reaches(session', session'.pc)
  BY <1>1 DEF ContractsInv, Updated, At, Allowed, Reaches, Before, Starting, Deploying, Configuring, Calling,
     JsonCalling
<1>4. JsonPath(session', session'.pc) BY <1>1 DEF ContractsInv, Updated, Typed, At, Allowed, JsonPath
<1>5. NodePath(session', session'.pc, nodePort, inkNodes) /\ OwnNode(session', session'.pc, nodePort, submitted)
  BY <1>1 DEF ContractsInv, Updated, At, Allowed, NodePath, OwnNode, Before, Starting, Deploying
<1>6. Agreement(session', session'.pc)
  BY <1>1 DEF ContractsInv, Updated, At, Allowed, Agreement, Typed, Configuring
<1> QED BY <1>1, <1>2, <1>3, <1>4, <1>5, <1>6 DEF Quiet, Keeps, Updated, Allowed

LEMMA UrlQuiet ==
    ASSUME ContractsInv, NEW x \in {"alive", "message"}, NEW u \in Urls, nodePort = NULL, session.cmd # "ink-node",
           Allowed(session, x, nodePort, inkNodes, submitted),
           Become([pc |-> x, url |-> u])
    PROVE  Quiet
<1>1. Shape(session') /\ Updated(session, session', [pc |-> x, url |-> u])
  BY BecomeUpdates DEF ContractsInv, HasPort, At
<1>2. Typed(session') BY <1>1 DEF ContractsInv, Typed, Updated, HasPort, Urls, At
<1>3. Reaches(session', session'.pc)
  BY <1>1 DEF ContractsInv, Updated, At, Allowed, Reaches, Before, Starting, Deploying, Configuring, Calling,
     JsonCalling
<1>4. JsonPath(session', session'.pc) BY <1>1 DEF ContractsInv, Updated, Typed, At, Allowed, JsonPath
<1>5. NodePath(session', session'.pc, nodePort, inkNodes) /\ OwnNode(session', session'.pc, nodePort, submitted)
  BY <1>1 DEF ContractsInv, Updated, At, Allowed, NodePath, OwnNode, Before, Starting, Deploying
<1>6. Agreement(session', session'.pc)
  BY <1>1 DEF ContractsInv, Updated, At, Allowed, Agreement, Typed, Configuring
<1> QED BY <1>1, <1>2, <1>3, <1>4, <1>5, <1>6 DEF Quiet, Keeps, Updated, Allowed

LEMMA PortQuiet ==
    ASSUME ContractsInv, NEW u \in {"default", "other"}, At("ports"),
           Become([pc |-> "binaries", url |-> u, port |-> u])
    PROVE  Quiet
<1>1. Shape(session') /\ Updated(session, session', [pc |-> "binaries", url |-> u, port |-> u])
  BY BecomeUpdates DEF ContractsInv, HasPort, At
<1>2. Typed(session') BY <1>1 DEF ContractsInv, Typed, Updated, HasPort, Urls, At
<1>3. Reaches(session', session'.pc)
  BY <1>1 DEF ContractsInv, Updated, At, Allowed, Reaches, Before, Starting, Deploying, Configuring, Calling,
     JsonCalling
<1>4. JsonPath(session', session'.pc) BY <1>1 DEF ContractsInv, Updated, Typed, At, Allowed, JsonPath
<1>5. NodePath(session', session'.pc, nodePort, inkNodes) /\ OwnNode(session', session'.pc, nodePort, submitted)
  BY <1>1 DEF ContractsInv, Updated, At, Allowed, NodePath, OwnNode, Before, Starting, Deploying
<1>6. Agreement(session', session'.pc)
  BY <1>1 DEF ContractsInv, Updated, At, Allowed, Agreement, Typed, Configuring
<1> QED BY <1>1, <1>2, <1>3, <1>4, <1>5, <1>6 DEF Quiet, Keeps, Updated, Allowed

LEMMA CleanUpQuiet ==
    ASSUME ContractsInv, session.cmd = "up", session.pc \in Deploying, NEW e,
           Become([pc |-> "terminate", ended |-> e])
    PROVE  Quiet
<1>0. session.pc \notin {"build", "done"}
  BY DEF ContractsInv, At, Typed, Allowed, Reaches, Before, Starting, Deploying, Configuring, Calling,
     JsonCalling
<1>1. Shape(session') /\ Updated(session, session', [pc |-> "terminate", ended |-> e])
  BY BecomeUpdates DEF ContractsInv, HasPort, At
<1>2. Typed(session') BY <1>0, <1>1 DEF ContractsInv, Typed, Updated, HasPort, Urls, At
<1>3. Reaches(session', session'.pc)
  BY <1>0, <1>1 DEF ContractsInv, Updated, At, Allowed, Reaches, Before, Starting, Deploying, Configuring,
     Calling, JsonCalling
<1>4. JsonPath(session', session'.pc) BY <1>0, <1>1 DEF ContractsInv, Updated, Typed, At, Allowed, JsonPath
<1>5. NodePath(session', session'.pc, nodePort, inkNodes) /\ OwnNode(session', session'.pc, nodePort, submitted)
  BY <1>0, <1>1 DEF ContractsInv, Updated, At, Allowed, NodePath, OwnNode, Before, Starting, Deploying
<1>6. Agreement(session', session'.pc)
  BY <1>0, <1>1 DEF ContractsInv, Updated, At, Allowed, Agreement, Typed, Configuring
<1> QED BY <1>1, <1>2, <1>3, <1>4, <1>5, <1>6 DEF Quiet, Keeps, Updated, Allowed

LEMMA ArgumentsQuiet ==
    ASSUME ContractsInv, NEW x \in {"data", "upload", "set up", "caller"}, NEW a \in Seq(Nat), session.cmd # "ink-node",
           Allowed(session, x, nodePort, inkNodes, submitted),
           Become([pc |-> x, args |-> a])
    PROVE  Quiet
<1>1. Shape(session') /\ Updated(session, session', [pc |-> x, args |-> a])
  BY BecomeUpdates DEF ContractsInv, HasPort, At
<1>2. Typed(session') BY <1>1 DEF ContractsInv, Typed, Updated, HasPort, Urls, At
<1>3. Reaches(session', session'.pc)
  BY <1>1 DEF ContractsInv, Updated, At, Allowed, Reaches, Before, Starting, Deploying, Configuring, Calling,
     JsonCalling
<1>4. JsonPath(session', session'.pc) BY <1>1 DEF ContractsInv, Updated, Typed, At, Allowed, JsonPath
<1>5. NodePath(session', session'.pc, nodePort, inkNodes) /\ OwnNode(session', session'.pc, nodePort, submitted)
  BY <1>1 DEF ContractsInv, Updated, At, Allowed, NodePath, OwnNode, Before, Starting, Deploying
<1>6. Agreement(session', session'.pc)
  BY <1>1 DEF ContractsInv, Updated, At, Allowed, Agreement, Typed, Configuring
<1> QED BY <1>1, <1>2, <1>3, <1>4, <1>5, <1>6 DEF Quiet, Keeps, Updated, Allowed

LEMMA WalletQuiet ==
    ASSUME ContractsInv, At("sign"), NEW x \in {"send", "set up"},
           Become([pc |-> x, confirmed |-> TRUE])
    PROVE  Quiet
<1>1. Shape(session') /\ Updated(session, session', [pc |-> x, confirmed |-> TRUE])
  BY BecomeUpdates DEF ContractsInv, HasPort, At
<1>2. Typed(session') BY <1>1 DEF ContractsInv, Typed, Updated, HasPort, Urls, At
<1>3. Reaches(session', session'.pc)
  BY <1>1 DEF ContractsInv, Updated, At, Allowed, Reaches, Before, Starting, Deploying, Configuring, Calling,
     JsonCalling
<1>4. JsonPath(session', session'.pc) BY <1>1 DEF ContractsInv, Updated, Typed, At, Allowed, JsonPath
<1>5. NodePath(session', session'.pc, nodePort, inkNodes) /\ OwnNode(session', session'.pc, nodePort, submitted)
  BY <1>1 DEF ContractsInv, Updated, At, Allowed, NodePath, OwnNode, Before, Starting, Deploying
<1>6. Agreement(session', session'.pc)
  BY <1>1 DEF ContractsInv, Updated, At, Allowed, Agreement, Typed, Configuring
<1> QED BY <1>1, <1>2, <1>3, <1>4, <1>5, <1>6 DEF Quiet, Keeps, Updated, Allowed

LEMMA ConfirmQuiet ==
    ASSUME ContractsInv, At("confirm"),
           Become([pc |-> "send", execute |-> TRUE, confirmed |-> TRUE])
    PROVE  Quiet
<1>1. Shape(session') /\ Updated(session, session', [pc |-> "send", execute |-> TRUE, confirmed |-> TRUE])
  BY BecomeUpdates DEF ContractsInv, HasPort, At
<1>2. Typed(session') BY <1>1 DEF ContractsInv, Typed, Updated, HasPort, Urls, At
<1>3. Reaches(session', session'.pc)
  BY <1>1 DEF ContractsInv, Updated, At, Allowed, Reaches, Before, Starting, Deploying, Configuring, Calling,
     JsonCalling
<1>4. JsonPath(session', session'.pc) BY <1>1 DEF ContractsInv, Updated, Typed, At, Allowed, JsonPath
<1>5. NodePath(session', session'.pc, nodePort, inkNodes) /\ OwnNode(session', session'.pc, nodePort, submitted)
  BY <1>1 DEF ContractsInv, Updated, At, Allowed, NodePath, OwnNode, Before, Starting, Deploying
<1>6. Agreement(session', session'.pc)
  BY <1>1 DEF ContractsInv, Updated, At, Allowed, Agreement, Typed, Configuring
<1> QED BY <1>1, <1>2, <1>3, <1>4, <1>5, <1>6 DEF Quiet, Keeps, Updated, Allowed

LEMMA InteractQuiet ==
    ASSUME ContractsInv, At("finish"), ~session.skip,
           Become([pc |-> "path", args |-> <<>>, call |-> 1, confirmed |-> FALSE])
    PROVE  Quiet
<1>0. session.cmd = "up" /\ ~session.json /\ <<>> \in Seq(Nat) /\ 1 \in Nat
  BY DEF ContractsInv, At, Typed, Allowed, Reaches, Before, Starting, Deploying, Configuring, Calling,
     JsonCalling
<1>1. Shape(session') /\ Updated(session, session', [pc |-> "path", args |-> <<>>, call |-> 1, confirmed |-> FALSE])
  BY BecomeUpdates DEF ContractsInv, HasPort, At
<1>2. Typed(session') BY <1>0, <1>1 DEF ContractsInv, Typed, Updated, HasPort, Urls, At
<1>3. Reaches(session', session'.pc)
  BY <1>0, <1>1 DEF ContractsInv, Updated, At, Allowed, Reaches, Before, Starting, Deploying, Configuring,
     Calling, JsonCalling
<1>4. JsonPath(session', session'.pc) BY <1>0, <1>1 DEF ContractsInv, Updated, Typed, At, Allowed, JsonPath
<1>5. NodePath(session', session'.pc, nodePort, inkNodes) /\ OwnNode(session', session'.pc, nodePort, submitted)
  BY <1>0, <1>1 DEF ContractsInv, Updated, At, Allowed, NodePath, OwnNode, Before, Starting, Deploying
<1>6. Agreement(session', session'.pc)
  BY <1>0, <1>1 DEF ContractsInv, Updated, At, Allowed, Agreement, Typed, Configuring
<1> QED BY <1>1, <1>2, <1>3, <1>4, <1>5, <1>6 DEF Quiet, Keeps, Updated, Allowed

LEMMA FieldQuiet ==
    ASSUME ContractsInv, At("message"), NEW c \in Callables,
           Become([pc |-> "read", message |-> c, wallet |-> FALSE, suri |-> FALSE])
    PROVE  Quiet
<1>0. session.cmd # "ink-node" /\ ~session.json
  BY DEF ContractsInv, At, Typed, Allowed, Reaches, Before, Starting, Deploying, Configuring, Calling,
     JsonCalling
<1>1. Shape(session') /\ Updated(session, session', [pc |-> "read", message |-> c, wallet |-> FALSE, suri |-> FALSE])
  BY BecomeUpdates DEF ContractsInv, HasPort, At
<1>2. Typed(session') BY <1>0, <1>1 DEF ContractsInv, Typed, Updated, HasPort, Urls, At
<1>3. Reaches(session', session'.pc)
  BY <1>0, <1>1 DEF ContractsInv, Updated, At, Allowed, Reaches, Before, Starting, Deploying, Configuring,
     Calling, JsonCalling
<1>4. JsonPath(session', session'.pc) BY <1>0, <1>1 DEF ContractsInv, Updated, Typed, At, Allowed, JsonPath
<1>5. NodePath(session', session'.pc, nodePort, inkNodes) /\ OwnNode(session', session'.pc, nodePort, submitted)
  BY <1>0, <1>1 DEF ContractsInv, Updated, At, Allowed, NodePath, OwnNode, Before, Starting, Deploying
<1>6. Agreement(session', session'.pc)
  BY <1>0, <1>1 DEF ContractsInv, Updated, At, Allowed, Agreement, Typed, Configuring
<1> QED BY <1>1, <1>2, <1>3, <1>4, <1>5, <1>6 DEF Quiet, Keeps, Updated, Allowed

LEMMA MessageQuiet ==
    ASSUME ContractsInv, At("message"), NEW c \in Callables,
           Become([pc |-> "arguments", message |-> c])
    PROVE  Quiet
<1>0. session.cmd # "ink-node" /\ ~session.json
  BY DEF ContractsInv, At, Typed, Allowed, Reaches, Before, Starting, Deploying, Configuring, Calling,
     JsonCalling
<1>1. Shape(session') /\ Updated(session, session', [pc |-> "arguments", message |-> c])
  BY BecomeUpdates DEF ContractsInv, HasPort, At
<1>2. Typed(session') BY <1>0, <1>1 DEF ContractsInv, Typed, Updated, HasPort, Urls, At
<1>3. Reaches(session', session'.pc)
  BY <1>0, <1>1 DEF ContractsInv, Updated, At, Allowed, Reaches, Before, Starting, Deploying, Configuring,
     Calling, JsonCalling
<1>4. JsonPath(session', session'.pc) BY <1>0, <1>1 DEF ContractsInv, Updated, Typed, At, Allowed, JsonPath
<1>5. NodePath(session', session'.pc, nodePort, inkNodes) /\ OwnNode(session', session'.pc, nodePort, submitted)
  BY <1>0, <1>1 DEF ContractsInv, Updated, At, Allowed, NodePath, OwnNode, Before, Starting, Deploying
<1>6. Agreement(session', session'.pc)
  BY <1>0, <1>1 DEF ContractsInv, Updated, At, Allowed, Agreement, Typed, Configuring
<1> QED BY <1>1, <1>2, <1>3, <1>4, <1>5, <1>6 DEF Quiet, Keeps, Updated, Allowed

LEMMA ReadingQuiet ==
    ASSUME ContractsInv, At("caller"),
           Become([pc |-> "set up call", execute |-> FALSE, wallet |-> FALSE])
    PROVE  Quiet
<1>0. session.cmd # "ink-node" /\ ~session.json
  BY DEF ContractsInv, At, Typed, Allowed, Reaches, Before, Starting, Deploying, Configuring, Calling,
     JsonCalling
<1>1. Shape(session') /\ Updated(session, session', [pc |-> "set up call", execute |-> FALSE, wallet |-> FALSE])
  BY BecomeUpdates DEF ContractsInv, HasPort, At
<1>2. Typed(session') BY <1>0, <1>1 DEF ContractsInv, Typed, Updated, HasPort, Urls, At
<1>3. Reaches(session', session'.pc)
  BY <1>0, <1>1 DEF ContractsInv, Updated, At, Allowed, Reaches, Before, Starting, Deploying, Configuring,
     Calling, JsonCalling
<1>4. JsonPath(session', session'.pc) BY <1>0, <1>1 DEF ContractsInv, Updated, Typed, At, Allowed, JsonPath
<1>5. NodePath(session', session'.pc, nodePort, inkNodes) /\ OwnNode(session', session'.pc, nodePort, submitted)
  BY <1>0, <1>1 DEF ContractsInv, Updated, At, Allowed, NodePath, OwnNode, Before, Starting, Deploying
<1>6. Agreement(session', session'.pc)
  BY <1>0, <1>1 DEF ContractsInv, Updated, At, Allowed, Agreement, Typed, Configuring
<1> QED BY <1>1, <1>2, <1>3, <1>4, <1>5, <1>6 DEF Quiet, Keeps, Updated, Allowed

LEMMA AgreedQuiet ==
    ASSUME ContractsInv, At("agree"), session.skip \/ session.wallet \/ session.execute,
           Become([pc |-> "set up call", execute |-> TRUE])
    PROVE  Quiet
<1>1. Shape(session') /\ Updated(session, session', [pc |-> "set up call", execute |-> TRUE])
  BY BecomeUpdates DEF ContractsInv, HasPort, At
<1>2. Typed(session') BY <1>1 DEF ContractsInv, Typed, Updated, HasPort, Urls, At
<1>3. Reaches(session', session'.pc)
  BY <1>1 DEF ContractsInv, Updated, At, Allowed, Reaches, Before, Starting, Deploying, Configuring, Calling,
     JsonCalling
<1>4. JsonPath(session', session'.pc) BY <1>1 DEF ContractsInv, Updated, Typed, At, Allowed, JsonPath
<1>5. NodePath(session', session'.pc, nodePort, inkNodes) /\ OwnNode(session', session'.pc, nodePort, submitted)
  BY <1>1 DEF ContractsInv, Updated, At, Allowed, NodePath, OwnNode, Before, Starting, Deploying
<1>6. Agreement(session', session'.pc)
  BY <1>1 DEF ContractsInv, Updated, At, Allowed, Agreement, Typed, Configuring
<1> QED BY <1>1, <1>2, <1>3, <1>4, <1>5, <1>6 DEF Quiet, Keeps, Updated, Allowed

LEMMA AnsweredQuiet ==
    ASSUME ContractsInv, At("agree"), NEW yes \in BOOLEAN,
           Become([pc |-> "set up call", execute |-> yes, confirmed |-> yes])
    PROVE  Quiet
<1>0. session.cmd # "ink-node" /\ ~session.json
  BY DEF ContractsInv, At, Typed, Allowed, Reaches, Before, Starting, Deploying, Configuring, Calling,
     JsonCalling
<1>1. Shape(session') /\ Updated(session, session', [pc |-> "set up call", execute |-> yes, confirmed |-> yes])
  BY BecomeUpdates DEF ContractsInv, HasPort, At
<1>2. Typed(session') BY <1>0, <1>1 DEF ContractsInv, Typed, Updated, HasPort, Urls, At
<1>3. Reaches(session', session'.pc)
  BY <1>0, <1>1 DEF ContractsInv, Updated, At, Allowed, Reaches, Before, Starting, Deploying, Configuring,
     Calling, JsonCalling
<1>4. JsonPath(session', session'.pc) BY <1>0, <1>1 DEF ContractsInv, Updated, Typed, At, Allowed, JsonPath
<1>5. NodePath(session', session'.pc, nodePort, inkNodes) /\ OwnNode(session', session'.pc, nodePort, submitted)
  BY <1>0, <1>1 DEF ContractsInv, Updated, At, Allowed, NodePath, OwnNode, Before, Starting, Deploying
<1>6. Agreement(session', session'.pc)
  BY <1>0, <1>1 DEF ContractsInv, Updated, At, Allowed, Agreement, Typed, Configuring
<1> QED BY <1>1, <1>2, <1>3, <1>4, <1>5, <1>6 DEF Quiet, Keeps, Updated, Allowed

LEMMA PathQuiet ==
    ASSUME ContractsInv, At("path"), NEW r,
           Become([pc |-> "metadata", repeat |-> r])
    PROVE  Quiet
<1>0. session.cmd # "ink-node"
  BY DEF ContractsInv, At, Typed, Allowed, Reaches, Before, Starting, Deploying, Configuring, Calling,
     JsonCalling
<1>1. Shape(session') /\ Updated(session, session', [pc |-> "metadata", repeat |-> r])
  BY BecomeUpdates DEF ContractsInv, HasPort, At
<1>2. Typed(session') BY <1>0, <1>1 DEF ContractsInv, Typed, Updated, HasPort, Urls, At
<1>3. Reaches(session', session'.pc)
  BY <1>0, <1>1 DEF ContractsInv, Updated, At, Allowed, Reaches, Before, Starting, Deploying, Configuring,
     Calling, JsonCalling
<1>4. JsonPath(session', session'.pc) BY <1>0, <1>1 DEF ContractsInv, Updated, Typed, At, Allowed, JsonPath
<1>5. NodePath(session', session'.pc, nodePort, inkNodes) /\ OwnNode(session', session'.pc, nodePort, submitted)
  BY <1>0, <1>1 DEF ContractsInv, Updated, At, Allowed, NodePath, OwnNode, Before, Starting, Deploying
<1>6. Agreement(session', session'.pc)
  BY <1>0, <1>1 DEF ContractsInv, Updated, At, Allowed, Agreement, Typed, Configuring
<1> QED BY <1>1, <1>2, <1>3, <1>4, <1>5, <1>6 DEF Quiet, Keeps, Updated, Allowed

LEMMA RepeatQuiet ==
    ASSUME ContractsInv, At("repeat"),
           Become([pc |-> "path", call |-> session.call + 1, confirmed |-> FALSE, message |-> NULL,
            wallet |-> FALSE, execute |-> FALSE])
    PROVE  Quiet
<1>0. session.cmd # "ink-node" /\ ~session.json /\ session.call + 1 \in Nat
  BY DEF ContractsInv, At, Typed, Allowed, Reaches, Before, Starting, Deploying, Configuring, Calling,
     JsonCalling
<1>1. Shape(session') /\ Updated(session, session', [pc |-> "path", call |-> session.call + 1, confirmed |-> FALSE, message |-> NULL,
            wallet |-> FALSE, execute |-> FALSE])
  BY BecomeUpdates DEF ContractsInv, HasPort, At
<1>2. Typed(session') BY <1>0, <1>1 DEF ContractsInv, Typed, Updated, HasPort, Urls, At
<1>3. Reaches(session', session'.pc)
  BY <1>0, <1>1 DEF ContractsInv, Updated, At, Allowed, Reaches, Before, Starting, Deploying, Configuring,
     Calling, JsonCalling
<1>4. JsonPath(session', session'.pc) BY <1>0, <1>1 DEF ContractsInv, Updated, Typed, At, Allowed, JsonPath
<1>5. NodePath(session', session'.pc, nodePort, inkNodes) /\ OwnNode(session', session'.pc, nodePort, submitted)
  BY <1>0, <1>1 DEF ContractsInv, Updated, At, Allowed, NodePath, OwnNode, Before, Starting, Deploying
<1>6. Agreement(session', session'.pc)
  BY <1>0, <1>1 DEF ContractsInv, Updated, At, Allowed, Agreement, Typed, Configuring
<1> QED BY <1>1, <1>2, <1>3, <1>4, <1>5, <1>6 DEF Quiet, Keeps, Updated, Allowed

Open(x) == Allowed(session, x, nodePort, inkNodes, submitted)
MayEnd == session.json => nodePort = NULL

LEMMA GotoQuiet ==
    ASSUME ContractsInv, NEW x, Goto(x), HasPort(x) => HasPort(session.pc), x # "arguments", Open(x) PROVE Quiet
BY GotoKeeps DEF Quiet, Keeps, Open

LEMMA EndQuiet == ASSUME ContractsInv, Fail \/ Succeed, MayEnd PROVE Quiet
BY EndKeeps DEF Quiet, Keeps, MayEnd

LEMMA CheckChainAliveQuiet == ASSUME ContractsInv, CheckChainAlive PROVE Quiet
<1>1. At("alive") BY DEF CheckChainAlive
<1>2. /\ Open("constructor") /\ Open("ports")
      /\ MayEnd
  BY <1>1 DEF ContractsInv, Open, MayEnd, At, Typed, HasPort, Urls, JsonPreconditions, Allowed, Reaches,
     JsonPath, NodePath, OwnNode, Agreement, Before, Starting, Deploying, Configuring, Calling, JsonCalling
<1> HIDE DEF ContractsInv
<1> QED BY <1>1, <1>2, GotoQuiet, EndQuiet DEF CheckChainAlive, Cancel, HasPort, At

LEMMA CheckInkNodeAndPromptQuiet == ASSUME ContractsInv, CheckInkNodeAndPrompt PROVE Quiet
<1>1. At("binaries") BY DEF CheckInkNodeAndPrompt
<1>2. /\ Open("ink-node")
      /\ MayEnd
  BY <1>1 DEF ContractsInv, Open, MayEnd, At, Typed, HasPort, Urls, JsonPreconditions, Allowed, Reaches,
     JsonPath, NodePath, OwnNode, Agreement, Before, Starting, Deploying, Configuring, Calling, JsonCalling
<1> HIDE DEF ContractsInv
<1> QED BY <1>1, <1>2, GotoQuiet, EndQuiet DEF CheckInkNodeAndPrompt, HasPort, At

LEMMA SignDeploymentQuiet == ASSUME ContractsInv, SignDeployment PROVE Quiet
<1>1. At("signer") BY DEF SignDeployment
<1>2. /\ Open("url")
      /\ MayEnd
      /\ session.cmd # "ink-node"
  BY <1>1 DEF ContractsInv, Open, MayEnd, At, Typed, HasPort, Urls, JsonPreconditions, Allowed, Reaches,
     JsonPath, NodePath, OwnNode, Agreement, Before, Starting, Deploying, Configuring, Calling, JsonCalling
<1> HIDE DEF ContractsInv
<1> QED
  BY <1>1, <1>2, GotoQuiet, EndQuiet, SignerWalletQuiet, SignerSuriQuiet DEF SignDeployment, ResolveSigner,
     Cancel, Open, HasPort, At

LEMMA GetMessagesQuiet == ASSUME ContractsInv, GetMessages PROVE Quiet
<1>1. At("metadata") BY DEF GetMessages
<1>2. /\ ~session.json => Open("endpoint") /\ MayEnd
  BY <1>1 DEF ContractsInv, Open, MayEnd, At, Typed, HasPort, Urls, JsonPreconditions, Allowed, Reaches,
     JsonPath, NodePath, OwnNode, Agreement, Before, Starting, Deploying, Configuring, Calling, JsonCalling
<1> HIDE DEF ContractsInv
<1> QED BY <1>1, <1>2, GotoQuiet, EndQuiet DEF GetMessages, ExtractFunction, HasPort, At

LEMMA ReadContractStorageQuiet == ASSUME ContractsInv, ReadContractStorage PROVE Quiet
<1>1. At("read") BY DEF ReadContractStorage
<1>2. /\ Open("repeat")
      /\ MayEnd
  BY <1>1 DEF ContractsInv, Open, MayEnd, At, Typed, HasPort, Urls, JsonPreconditions, Allowed, Reaches,
     JsonPath, NodePath, OwnNode, Agreement, Before, Starting, Deploying, Configuring, Calling, JsonCalling
<1> HIDE DEF ContractsInv
<1> QED BY <1>1, <1>2, GotoQuiet, EndQuiet DEF ReadContractStorage, HasPort, At

LEMMA DryRunInstantiateQuiet == ASSUME ContractsInv, DryRunInstantiate PROVE Quiet
<1>1. At("dry run") BY DEF DryRunInstantiate
<1>2. /\ Open("confirm")
      /\ session.cmd = "up" /\ session.pc \in Deploying
  BY <1>1 DEF ContractsInv, Open, MayEnd, At, Typed, HasPort, Urls, JsonPreconditions, Allowed, Reaches,
     JsonPath, NodePath, OwnNode, Agreement, Before, Starting, Deploying, Configuring, Calling, JsonCalling
<1> HIDE DEF ContractsInv
<1> QED BY <1>1, <1>2, GotoQuiet, CleanUpQuiet DEF DryRunInstantiate, DryRun, CleanUp, HasPort, At

LEMMA DryRunCallQuiet == ASSUME ContractsInv, DryRunCall PROVE Quiet
<1>1. At("dry run call") BY DEF DryRunCall
<1>2. /\ session.execute => Open("call")
      /\ Open("repeat")
  BY <1>1 DEF ContractsInv, Open, MayEnd, At, Typed, HasPort, Urls, JsonPreconditions, Allowed, Reaches,
     JsonPath, NodePath, OwnNode, Agreement, Before, Starting, Deploying, Configuring, Calling, JsonCalling
<1> HIDE DEF ContractsInv
<1> QED BY <1>1, <1>2, GotoQuiet DEF DryRunCall, DryRun, HasPort, At

LEMMA SetUpJsonCallQuiet == ASSUME ContractsInv, SetUpJsonCall PROVE Quiet
<1>1. At("json set up") BY DEF SetUpJsonCall
<1>2. /\ Open("json dry run")
      /\ MayEnd
  BY <1>1 DEF ContractsInv, Open, MayEnd, At, Typed, HasPort, Urls, JsonPreconditions, Allowed, Reaches,
     JsonPath, NodePath, OwnNode, Agreement, Before, Starting, Deploying, Configuring, Calling, JsonCalling
<1> HIDE DEF ContractsInv
<1> QED
  BY <1>1, <1>2, GotoQuiet, EndQuiet DEF SetUpJsonCall, SetUpCallExec, ExtractFunction, SetUpExec, HasPort, At

LEMMA DryRunJsonCallQuiet == ASSUME ContractsInv, DryRunJsonCall PROVE Quiet
<1>1. At("json dry run") BY DEF DryRunJsonCall
<1>2. /\ Open("json call")
      /\ MayEnd
  BY <1>1 DEF ContractsInv, Open, MayEnd, At, Typed, HasPort, Urls, JsonPreconditions, Allowed, Reaches,
     JsonPath, NodePath, OwnNode, Agreement, Before, Starting, Deploying, Configuring, Calling, JsonCalling
<1> HIDE DEF ContractsInv
<1> QED BY <1>1, <1>2, GotoQuiet, EndQuiet DEF DryRunJsonCall, DryRun, HasPort, At

LEMMA JsonMessageQuiet == ASSUME ContractsInv, JsonMessage PROVE Quiet
<1>1. At("metadata") BY DEF JsonMessage
<1>2. /\ session.json => Open("json set up") /\ MayEnd
  BY <1>1 DEF ContractsInv, Open, MayEnd, At, Typed, HasPort, Urls, JsonPreconditions, Allowed, Reaches,
     JsonPath, NodePath, OwnNode, Agreement, Before, Starting, Deploying, Configuring, Calling, JsonCalling
<1> HIDE DEF ContractsInv
<1> QED BY <1>1, <1>2, GotoQuiet, EndQuiet DEF JsonMessage, ExtractFunction, HasPort, At

LEMMA SetUpCallQuiet == ASSUME ContractsInv, SetUpCall PROVE Quiet
<1>1. At("set up call") BY DEF SetUpCall
<1>2. /\ session.wallet => Open("sign call")
      /\ ~session.wallet => Open("map caller")
      /\ MayEnd
  BY <1>1 DEF ContractsInv, Open, MayEnd, At, Typed, HasPort, Urls, JsonPreconditions, Allowed, Reaches,
     JsonPath, NodePath, OwnNode, Agreement, Before, Starting, Deploying, Configuring, Calling, JsonCalling
<1> HIDE DEF ContractsInv
<1> QED
  BY <1>1, <1>2, GotoQuiet, EndQuiet DEF SetUpCall, SetUpCallExec, ExtractFunction, SetUpExec, HasPort, At

LEMMA SetUpDeploymentQuiet == ASSUME ContractsInv, SetUpDeployment PROVE Quiet
<1>1. At("set up") BY DEF SetUpDeployment
<1>2. /\ session.json => Open("dry run")
      /\ ~session.json => Open("map")
      /\ session.cmd = "up" /\ session.pc \in Deploying
  BY <1>1 DEF ContractsInv, Open, MayEnd, At, Typed, HasPort, Urls, JsonPreconditions, Allowed, Reaches,
     JsonPath, NodePath, OwnNode, Agreement, Before, Starting, Deploying, Configuring, Calling, JsonCalling
<1> HIDE DEF ContractsInv
<1> QED BY <1>1, <1>2, GotoQuiet, CleanUpQuiet DEF SetUpDeployment, SetUpExec, CleanUp, HasPort, At

LEMMA GetDeploymentDataQuiet == ASSUME ContractsInv, GetDeploymentData PROVE Quiet
<1>1. At("data") BY DEF GetDeploymentData
<1>2. /\ Open("sign")
      /\ session.cmd = "up" /\ session.pc \in Deploying
  BY <1>1 DEF ContractsInv, Open, MayEnd, At, Typed, HasPort, Urls, JsonPreconditions, Allowed, Reaches,
     JsonPath, NodePath, OwnNode, Agreement, Before, Starting, Deploying, Configuring, Calling, JsonCalling
<1> HIDE DEF ContractsInv
<1> QED
  BY <1>1, <1>2, GotoQuiet, CleanUpQuiet DEF GetDeploymentData, SetUpUpload, GetPayload, SetUpExec, CleanUp,
     HasPort, At

LEMMA SignWithWalletQuiet == ASSUME ContractsInv, SignWithWallet PROVE Quiet
<1>1. At("sign") BY DEF SignWithWallet
<1>2. /\ MayEnd
      /\ session.cmd = "up" /\ session.pc \in Deploying
  BY <1>1 DEF ContractsInv, Open, MayEnd, At, Typed, HasPort, Urls, JsonPreconditions, Allowed, Reaches,
     JsonPath, NodePath, OwnNode, Agreement, Before, Starting, Deploying, Configuring, Calling, JsonCalling
<1> HIDE DEF ContractsInv
<1> QED BY <1>1, <1>2, EndQuiet, CleanUpQuiet, WalletQuiet DEF SignWithWallet, CleanUp, HasPort, At

LEMMA ConfirmDeploymentQuiet == ASSUME ContractsInv, ConfirmDeployment PROVE Quiet
<1>1. At("confirm") BY DEF ConfirmDeployment
<1>2. /\ session.json => session.execute
      /\ Open("send")
      /\ ~session.execute => Open("finish") /\ MayEnd
  BY <1>1 DEF ContractsInv, Open, MayEnd, At, Typed, HasPort, Urls, JsonPreconditions, Allowed, Reaches,
     JsonPath, NodePath, OwnNode, Agreement, Before, Starting, Deploying, Configuring, Calling, JsonCalling
<1> HIDE DEF ContractsInv
<1> QED BY <1>1, <1>2, GotoQuiet, EndQuiet, ConfirmQuiet DEF ConfirmDeployment, HasPort, At

LEMMA KeepInteractingQuiet == ASSUME ContractsInv, KeepInteracting PROVE Quiet
<1>1. At("finish") BY DEF KeepInteracting
<1>2. /\ Open("terminate")
      /\ ~session.skip => MayEnd
  BY <1>1 DEF ContractsInv, Open, MayEnd, At, Typed, HasPort, Urls, JsonPreconditions, Allowed, Reaches,
     JsonPath, NodePath, OwnNode, Agreement, Before, Starting, Deploying, Configuring, Calling, JsonCalling
<1> HIDE DEF ContractsInv
<1> QED BY <1>1, <1>2, GotoQuiet, EndQuiet, InteractQuiet DEF KeepInteracting, HasPort, At

LEMMA ResolveEndpointQuiet == ASSUME ContractsInv, ResolveEndpoint PROVE Quiet
<1>1. At("endpoint") BY DEF ResolveEndpoint
<1>2. /\ Open("message")
      /\ MayEnd
      /\ session.url = NULL => nodePort = NULL
      /\ {"default", "remote"} \subseteq Urls
      /\ session.cmd # "ink-node"
  BY <1>1 DEF ContractsInv, Open, MayEnd, At, Typed, HasPort, Urls, JsonPreconditions, Allowed, Reaches,
     JsonPath, NodePath, OwnNode, Agreement, Before, Starting, Deploying, Configuring, Calling, JsonCalling
<1> HIDE DEF ContractsInv
<1> QED
  BY <1>1, <1>2, GotoQuiet, EndQuiet, UrlQuiet DEF ResolveEndpoint, PromptToSelectChainRpc, Open, HasPort, At

LEMMA ResolveInkNodePortsQuiet == ASSUME ContractsInv, ResolveInkNodePorts PROVE Quiet
<1>1. At("ports") BY DEF ResolveInkNodePorts
<1>2. /\ MayEnd
  BY <1>1 DEF ContractsInv, Open, MayEnd, At, Typed, HasPort, Urls, JsonPreconditions, Allowed, Reaches,
     JsonPath, NodePath, OwnNode, Agreement, Before, Starting, Deploying, Configuring, Calling, JsonCalling
<1> HIDE DEF ContractsInv
<1> QED BY <1>1, <1>2, EndQuiet, PortQuiet DEF ResolveInkNodePorts, UseNodeUrl, HasPort, At

LEMMA SelectMessageQuiet == ASSUME ContractsInv, SelectMessage PROVE Quiet
<1>1. At("message") BY DEF SelectMessage
<1>2. /\ MayEnd
      /\ session.message \in {NULL} \cup Callables
  BY <1>1 DEF ContractsInv, Open, MayEnd, At, Typed, HasPort, Urls, JsonPreconditions, Allowed, Reaches,
     JsonPath, NodePath, OwnNode, Agreement, Before, Starting, Deploying, Configuring, Calling, JsonCalling
<1> HIDE DEF ContractsInv
<1> QED BY <1>1, <1>2, EndQuiet, FieldQuiet, MessageQuiet DEF SelectMessage, HasPort, At

LEMMA ConfigureCallerQuiet == ASSUME ContractsInv, ConfigureCaller PROVE Quiet
<1>1. At("caller") BY DEF ConfigureCaller
<1>2. /\ MayEnd
      /\ Open("agree")
      /\ session.cmd # "ink-node"
  BY <1>1 DEF ContractsInv, Open, MayEnd, At, Typed, HasPort, Urls, JsonPreconditions, Allowed, Reaches,
     JsonPath, NodePath, OwnNode, Agreement, Before, Starting, Deploying, Configuring, Calling, JsonCalling
<1> HIDE DEF ContractsInv
<1> QED
  BY <1>1, <1>2, GotoQuiet, EndQuiet, SignerWalletQuiet, SignerSuriQuiet, ReadingQuiet DEF ConfigureCaller,
     ResolveSigner, Open, HasPort, At

LEMMA ConfirmCallQuiet == ASSUME ContractsInv, ConfirmCall PROVE Quiet
<1>1. At("agree") BY DEF ConfirmCall
<1>2. /\ MayEnd
  BY <1>1 DEF ContractsInv, Open, MayEnd, At, Typed, HasPort, Urls, JsonPreconditions, Allowed, Reaches,
     JsonPath, NodePath, OwnNode, Agreement, Before, Starting, Deploying, Configuring, Calling, JsonCalling
<1> HIDE DEF ContractsInv
<1> QED BY <1>1, <1>2, EndQuiet, AgreedQuiet, AnsweredQuiet DEF ConfirmCall, HasPort, At

LEMMA ResolveUrlQuiet == ASSUME ContractsInv, ResolveUrl PROVE Quiet
<1>1. At("url") BY DEF ResolveUrl
<1>2. /\ Open("alive")
      /\ MayEnd
      /\ nodePort = NULL
      /\ session.cmd # "ink-node"
      /\ session.url \in Urls /\ {"default", "remote"} \subseteq Urls
  BY <1>1 DEF ContractsInv, Open, MayEnd, At, Typed, HasPort, Urls, JsonPreconditions, Allowed, Reaches,
     JsonPath, NodePath, OwnNode, Agreement, Before, Starting, Deploying, Configuring, Calling, JsonCalling
<1> HIDE DEF ContractsInv
<1> QED BY <1>1, <1>2, EndQuiet, UrlQuiet DEF ResolveUrl, PromptToSelectChainRpc, Open, HasPort, At

LEMMA ArgumentsTyped ==
    ASSUME NEW a \in Seq(Nat), NEW c \in Nat, NEW k \in Nat, k - Len(a) > 0
    PROVE  a \o [i \in 1..(k - Len(a)) |-> c] \in Seq(Nat)
<1>1. k - Len(a) \in Nat OBVIOUS
<1> DEFINE n == k - Len(a)
<1>2. n \in Nat BY <1>1
<1> HIDE DEF n
<1>3. [i \in 1..n |-> c] \in Seq(Nat) BY <1>2
<1>4. a \o [i \in 1..n |-> c] \in Seq(Nat) BY <1>3
<1> QED BY <1>4 DEF n

LEMMA ConfigureArgumentsQuiet == ASSUME ContractsInv, ConfigureArguments PROVE Quiet
<1>1. At("arguments") BY DEF ConfigureArguments
<1>2. /\ MayEnd
      /\ Open("caller")
      /\ session.cmd # "ink-node"
      /\ session.args \in Seq(Nat) /\ session.call \in Nat
      /\ session.message \in Callables
  BY <1>1 DEF ContractsInv, Open, MayEnd, At, Typed, HasPort, Urls, JsonPreconditions, Allowed, Reaches,
     JsonPath, NodePath, OwnNode, Agreement, Before, Starting, Deploying, Configuring, Calling, JsonCalling
<1>3. \A k \in Nat : k - Len(session.args) > 0 =>
               session.args \o [i \in 1..(k - Len(session.args)) |-> session.call] \in Seq(Nat)
  BY <1>2, ArgumentsTyped
<1>4. Arity[session.message] \in Nat BY <1>2 DEF Arity, Callables
<1> HIDE DEF ContractsInv
<1> QED
  BY <1>1, <1>2, <1>3, <1>4, GotoQuiet, EndQuiet, ArgumentsQuiet DEF ConfigureArguments, ResolveFunctionArgs,
     Open, HasPort, At

LEMMA ResolveConstructorQuiet == ASSUME ContractsInv, ResolveConstructor PROVE Quiet
<1>1. At("constructor") BY DEF ResolveConstructor
<1>2. /\ ~session.json => MayEnd
      /\ session.wallet => Open("data")
      /\ session.upload /\ ~session.wallet => Open("upload")
      /\ ~session.wallet /\ ~session.upload => Open("set up")
      /\ session.cmd = "up" /\ session.pc \in Deploying
      /\ session.args \in Seq(Nat) /\ session.call \in Nat
  BY <1>1 DEF ContractsInv, Open, MayEnd, At, Typed, HasPort, Urls, JsonPreconditions, Allowed, Reaches,
     JsonPath, NodePath, OwnNode, Agreement, Before, Starting, Deploying, Configuring, Calling, JsonCalling
<1>3. \A k \in Nat : k - Len(session.args) > 0 =>
               session.args \o [i \in 1..(k - Len(session.args)) |-> session.call] \in Seq(Nat)
  BY <1>2, ArgumentsTyped
<1> HIDE DEF ContractsInv
<1> QED
  BY <1>1, <1>2, <1>3, GotoQuiet, EndQuiet, CleanUpQuiet, ArgumentsQuiet DEF ResolveConstructor,
     ExtractFunction, ResolveFunctionArgs, Escape, CleanUp, Open, HasPort, At

LEMMA FinalizeExecuteCallQuiet == ASSUME ContractsInv, FinalizeExecuteCall PROVE Quiet
<1>1. At("repeat") BY DEF FinalizeExecuteCall
<1>2. /\ MayEnd
      /\ session.cmd = "up" => Open("terminate")
  BY <1>1 DEF ContractsInv, Open, MayEnd, At, Typed, HasPort, Urls, JsonPreconditions, Allowed, Reaches,
     JsonPath, NodePath, OwnNode, Agreement, Before, Starting, Deploying, Configuring, Calling, JsonCalling
<1>3. With([pc |-> "path", call |-> session.call + 1, confirmed |-> FALSE], ResetForNewCall)
        = [pc |-> "path", call |-> session.call + 1, confirmed |-> FALSE, message |-> NULL,
           wallet |-> FALSE, execute |-> FALSE]
  <2> DEFINE f == [pc |-> "path", call |-> session.call + 1, confirmed |-> FALSE]
             r == [pc |-> "path", call |-> session.call + 1, confirmed |-> FALSE, message |-> NULL,
                   wallet |-> FALSE, execute |-> FALSE]
  <2>1. DOMAIN With(f, ResetForNewCall) = DOMAIN r BY DEF With, ResetForNewCall
  <2>2. \A x \in DOMAIN r : With(f, ResetForNewCall)[x] = r[x]
    <3>1. DOMAIN f = {"pc", "call", "confirmed"} /\ DOMAIN ResetForNewCall = {"message", "wallet", "execute"}
      BY DEF ResetForNewCall
    <3>2. \A x \in DOMAIN f : With(f, ResetForNewCall)[x] = f[x] BY DEF With
    <3>3. \A x \in DOMAIN ResetForNewCall : With(f, ResetForNewCall)[x] = ResetForNewCall[x] BY <3>1 DEF With
    <3>4. f["pc"] = r["pc"] /\ f["call"] = r["call"] /\ f["confirmed"] = r["confirmed"] OBVIOUS
    <3>5. /\ ResetForNewCall["message"] = r["message"] /\ ResetForNewCall["wallet"] = r["wallet"]
          /\ ResetForNewCall["execute"] = r["execute"]
      BY DEF ResetForNewCall
    <3>6. DOMAIN r = DOMAIN f \cup DOMAIN ResetForNewCall BY <3>1
    <3> HIDE DEF f, r
    <3> QED BY <3>1, <3>2, <3>3, <3>4, <3>5, <3>6
  <2>3. With(f, ResetForNewCall) = [x \in DOMAIN With(f, ResetForNewCall) |-> With(f, ResetForNewCall)[x]]
    BY DEF With
  <2> QED BY <2>1, <2>2, <2>3
<1> HIDE DEF ContractsInv
<1> QED BY <1>1, <1>2, <1>3, GotoQuiet, EndQuiet, RepeatQuiet DEF FinalizeExecuteCall, Return, HasPort, At

\* What was sent.
LEMMA SubmitWell ==
    ASSUME ContractsInv, NEW what \in {"upload", "instantiate", "map", "call"}, NEW agreed \in BOOLEAN,
           Submit(what, agreed), session.cmd # "ink-node",
           what = "call" /\ session.call > 1 /\ ~session.skip => agreed
    PROVE  SentWell(session.skip, nodePort, submitted')
<1> DEFINE m == [what |-> what, call |-> session.call, url |-> session.url, args |-> session.args,
                 agreed |-> agreed]
<1>1. m \in Sending BY DEF ContractsInv, Typed, Sending
<1>2. submitted' = Append(submitted, m) BY DEF Submit
<1>3. nodePort # NULL => m.url = nodePort BY DEF ContractsInv, Allowed, OwnNode
<1>4. m.what = "call" /\ m.call > 1 /\ ~session.skip => m.agreed OBVIOUS
<1> HIDE DEF m
<1>5. submitted \in Seq(Sending) BY DEF ContractsInv, SentWell
<1>6. /\ submitted' \in Seq(Sending)
      /\ \A i \in DOMAIN submitted' : submitted'[i] = m \/ (i \in DOMAIN submitted /\ submitted'[i] = submitted[i])
  BY <1>1, <1>2, <1>5
<1> QED BY <1>3, <1>4, <1>6 DEF ContractsInv, SentWell

LEMMA StaysWell == ContractsInv => SentWell(session.skip, nodePort, submitted)
BY DEF ContractsInv

LEMMA InvKept ==
    ASSUME Keeps(nodePort', inkNodes', submitted'), SentWell(session.skip, nodePort', submitted')
    PROVE  ContractsInv'
BY DEF Keeps, ContractsInv

LEMMA QuietKeeps ==
    ASSUME ContractsInv, Quiet, UNCHANGED <<inkNodes, nodePort, submitted>>
    PROVE  ContractsInv'
BY InvKept, StaysWell DEF Quiet

LEMMA MovesTo ==
    ASSUME ContractsInv
    PROVE  /\ \A x : Goto(x) => session'.pc = x
           /\ Fail \/ Succeed => session'.pc = "done"
           /\ CleanUp => session'.pc = "terminate"
           /\ \A d : Become([pc |-> "finish", deployed |-> d]) => session'.pc = "finish"
BY DEF ContractsInv, Shape, Common, Goto, Fail, Succeed, CleanUp, Become, With

LEMMA SubmitKeeps ==
    ASSUME ContractsInv, Quiet, session'.pc \notin Before \cup Starting, session.cmd # "ink-node",
           UNCHANGED <<inkNodes, nodePort>>, SentWell(session.skip, nodePort, submitted')
    PROVE  ContractsInv'
<1>1. Keeps(nodePort', inkNodes', submitted') BY DEF Quiet, Keeps, Allowed, OwnNode
<1> QED BY <1>1, InvKept

LEMMA PrepareDeploymentKeeps == ASSUME ContractsInv, PrepareDeployment PROVE ContractsInv'
<1>1. At("build") BY DEF PrepareDeployment
<1>2. /\ MayEnd
      /\ JsonPreconditions => Open("signer")
  BY <1>1 DEF ContractsInv, Open, MayEnd, At, Typed, HasPort, JsonPreconditions, Allowed, Reaches, JsonPath,
     NodePath, OwnNode, Agreement, Before, Starting, Deploying, Configuring, Calling, JsonCalling
<1> HIDE DEF ContractsInv
<1>3. Quiet
  BY <1>1, <1>2, GotoQuiet, EndQuiet DEF PrepareDeployment, BuildContractArtifacts, Cancel, HasPort
<1> QED BY <1>1, <1>2, <1>3, QuietKeeps DEF PrepareDeployment

LEMMA ConfigureProjectKeeps == ASSUME ContractsInv, ConfigureProject PROVE ContractsInv'
<1>1. At("path") BY DEF ConfigureProject
<1>2. /\ MayEnd
      /\ session.cmd = "up" => Open("terminate")
  BY <1>1 DEF ContractsInv, Open, MayEnd, At, Typed, HasPort, JsonPreconditions, Allowed, Reaches, JsonPath,
     NodePath, OwnNode, Agreement, Before, Starting, Deploying, Configuring, Calling, JsonCalling
<1> HIDE DEF ContractsInv
<1>3. Quiet
  BY <1>1, <1>2, GotoQuiet, EndQuiet, PathQuiet DEF ConfigureProject, BuildContractArtifacts, Return, HasPort
<1> QED BY <1>1, <1>2, <1>3, QuietKeeps DEF ConfigureProject

LEMMA RunInkNodeKeeps == ASSUME ContractsInv, RunInkNode PROVE ContractsInv'
<1>1. At("ink-node") BY DEF RunInkNode
<1>2. /\ nodePort = NULL
      /\ \A N : Allowed(session, "eth-rpc", nodePort, N, submitted)
  BY <1>1 DEF ContractsInv, Open, MayEnd, At, Typed, HasPort, JsonPreconditions, Allowed, Reaches, JsonPath,
     NodePath, OwnNode, Agreement, Before, Starting, Deploying, Configuring, Calling, JsonCalling
<1> HIDE DEF ContractsInv
<1>3. Keeps(nodePort, inkNodes', submitted)
  BY <1>1, <1>2, GotoKeeps, EndKeeps DEF RunInkNode, HasPort, At, Keeps
<1> QED BY <1>1, <1>2, <1>3, InvKept, StaysWell DEF RunInkNode, Keeps

LEMMA RunEthRpcNodeKeeps == ASSUME ContractsInv, RunEthRpcNode PROVE ContractsInv'
<1>1. At("eth-rpc") BY DEF RunEthRpcNode
<1>2. /\ nodePort = NULL /\ submitted = <<>>
      /\ session.cmd = "ink-node" => \A N : Allowed(session, "running", session.port, N, submitted)
      /\ session.cmd # "ink-node" => \A N : Allowed(session, "constructor", session.port, N, submitted)
  BY <1>1 DEF ContractsInv, Open, MayEnd, At, Typed, HasPort, JsonPreconditions, Allowed, Reaches, JsonPath,
     NodePath, OwnNode, Agreement, Before, Starting, Deploying, Configuring, Calling, JsonCalling
<1> HIDE DEF ContractsInv
<1>3. Keeps(nodePort', inkNodes', submitted)
  BY <1>1, <1>2, GotoKeeps, EndKeeps DEF RunEthRpcNode, HasPort, At, Keeps
<1>4. SentWell(session.skip, nodePort', submitted) BY <1>2 DEF SentWell
<1> QED BY <1>1, <1>2, <1>3, <1>4, InvKept, StaysWell DEF RunEthRpcNode, Keeps

LEMMA RunUntilInterruptedKeeps == ASSUME ContractsInv, RunUntilInterrupted PROVE ContractsInv'
<1>1. At("running") BY DEF RunUntilInterrupted
<1>2. /\ ~session.json
  BY <1>1 DEF ContractsInv, Open, MayEnd, At, Typed, HasPort, JsonPreconditions, Allowed, Reaches, JsonPath,
     NodePath, OwnNode, Agreement, Before, Starting, Deploying, Configuring, Calling, JsonCalling
<1> HIDE DEF ContractsInv
<1>3. Keeps(nodePort, inkNodes', submitted) BY <1>1, <1>2, EndKeeps DEF RunUntilInterrupted, Keeps
<1> QED BY <1>1, <1>2, <1>3, InvKept, StaysWell DEF RunUntilInterrupted, Keeps

LEMMA TerminateNodesKeeps == ASSUME ContractsInv, TerminateNodes PROVE ContractsInv'
<1>1. At("terminate") BY DEF TerminateNodes
<1>2. /\ session.json => session.skip
  BY <1>1 DEF ContractsInv, Open, MayEnd, At, Typed, HasPort, JsonPreconditions, Allowed, Reaches, JsonPath,
     NodePath, OwnNode, Agreement, Before, Starting, Deploying, Configuring, Calling, JsonCalling
<1> HIDE DEF ContractsInv
<1>3. Keeps(nodePort, inkNodes', submitted) BY <1>1, <1>2, EndKeeps DEF TerminateNodes, Keeps
<1> QED BY <1>1, <1>2, <1>3, InvKept, StaysWell DEF TerminateNodes, Keeps

LEMMA UploadContractKeeps == ASSUME ContractsInv, UploadContract PROVE ContractsInv'
<1>1. At("upload") BY DEF UploadContract
<1>2. /\ Open("finish")
      /\ session.cmd = "up" /\ session.pc \in Deploying
      /\ session.confirmed \in BOOLEAN
  BY <1>1 DEF ContractsInv, Open, MayEnd, At, Typed, HasPort, JsonPreconditions, Allowed, Reaches, JsonPath,
     NodePath, OwnNode, Agreement, Before, Starting, Deploying, Configuring, Calling, JsonCalling
<1> HIDE DEF ContractsInv
<1>9. \A x \in {"finish", "terminate", "done", "send", "dry run", "repeat", "dry run call"} : x \notin Before \cup Starting
  BY DEF Before, Starting
<1>3. Quiet
  BY <1>1, <1>2, GotoQuiet, CleanUpQuiet DEF UploadContract, SetUpUpload, Attempt, SignAndSubmit,
     SubmitSignedPayload, CleanUp, DryRun, HasPort
<1>4. SentWell(session.skip, nodePort, submitted')
  BY <1>1, <1>2, SubmitWell, StaysWell DEF UploadContract, SetUpUpload, Attempt, SignAndSubmit,
     SubmitSignedPayload
<1>5. session'.pc \notin Before \cup Starting
  BY <1>1, <1>2, <1>9, MovesTo DEF UploadContract, SetUpUpload, Attempt, SignAndSubmit, SubmitSignedPayload,
     DryRun
<1> QED BY <1>1, <1>2, <1>3, <1>4, <1>5, SubmitKeeps DEF UploadContract

LEMMA MapDeployerKeeps == ASSUME ContractsInv, MapDeployer PROVE ContractsInv'
<1>1. At("map") BY DEF MapDeployer
<1>2. /\ Open("send") /\ Open("dry run")
      /\ session.cmd # "ink-node"
      /\ MayEnd
  BY <1>1 DEF ContractsInv, Open, MayEnd, At, Typed, HasPort, JsonPreconditions, Allowed, Reaches, JsonPath,
     NodePath, OwnNode, Agreement, Before, Starting, Deploying, Configuring, Calling, JsonCalling
<1> HIDE DEF ContractsInv
<1>9. \A x \in {"finish", "terminate", "done", "send", "dry run", "repeat", "dry run call"} : x \notin Before \cup Starting
  BY DEF Before, Starting
<1>3. Quiet BY <1>1, <1>2, GotoQuiet, EndQuiet DEF MapDeployer, MapAccount, Attempt, HasPort
<1>4. SentWell(session.skip, nodePort, submitted')
  BY <1>1, <1>2, SubmitWell, StaysWell DEF MapDeployer, MapAccount, Attempt
<1>5. session'.pc \notin Before \cup Starting
  BY <1>1, <1>2, <1>9, MovesTo DEF MapDeployer, MapAccount, Attempt
<1> QED BY <1>1, <1>2, <1>3, <1>4, <1>5, SubmitKeeps DEF MapDeployer

LEMMA MapCallerKeeps == ASSUME ContractsInv, MapCaller PROVE ContractsInv'
<1>1. At("map caller") BY DEF MapCaller
<1>2. /\ Open("dry run call")
      /\ session.cmd # "ink-node"
      /\ MayEnd
  BY <1>1 DEF ContractsInv, Open, MayEnd, At, Typed, HasPort, JsonPreconditions, Allowed, Reaches, JsonPath,
     NodePath, OwnNode, Agreement, Before, Starting, Deploying, Configuring, Calling, JsonCalling
<1> HIDE DEF ContractsInv
<1>9. \A x \in {"finish", "terminate", "done", "send", "dry run", "repeat", "dry run call"} : x \notin Before \cup Starting
  BY DEF Before, Starting
<1>3. Quiet BY <1>1, <1>2, GotoQuiet, EndQuiet DEF MapCaller, MapAccount, Attempt, HasPort
<1>4. SentWell(session.skip, nodePort, submitted')
  BY <1>1, <1>2, SubmitWell, StaysWell DEF MapCaller, MapAccount, Attempt
<1>5. session'.pc \notin Before \cup Starting
  BY <1>1, <1>2, <1>9, MovesTo DEF MapCaller, MapAccount, Attempt
<1> QED BY <1>1, <1>2, <1>3, <1>4, <1>5, SubmitKeeps DEF MapCaller

LEMMA ExecuteWithWalletKeeps == ASSUME ContractsInv, ExecuteWithWallet PROVE ContractsInv'
<1>1. At("sign call") BY DEF ExecuteWithWallet
<1>2. /\ Open("repeat")
      /\ session.cmd # "ink-node"
      /\ MayEnd
  BY <1>1 DEF ContractsInv, Open, MayEnd, At, Typed, HasPort, JsonPreconditions, Allowed, Reaches, JsonPath,
     NodePath, OwnNode, Agreement, Before, Starting, Deploying, Configuring, Calling, JsonCalling
<1> HIDE DEF ContractsInv
<1>9. \A x \in {"finish", "terminate", "done", "send", "dry run", "repeat", "dry run call"} : x \notin Before \cup Starting
  BY DEF Before, Starting
<1>3. Quiet
  BY <1>1, <1>2, GotoQuiet, EndQuiet DEF ExecuteWithWallet, GetCallPayload, GetPayload,
     CallFromSignedPayload, Attempt, SignAndSubmit, SubmitSignedPayload, HasPort
<1>4. SentWell(session.skip, nodePort, submitted')
  BY <1>1, <1>2, SubmitWell, StaysWell DEF ExecuteWithWallet, GetCallPayload, GetPayload,
     CallFromSignedPayload, Attempt, SignAndSubmit, SubmitSignedPayload
<1>5. session'.pc \notin Before \cup Starting
  BY <1>1, <1>2, <1>9, MovesTo DEF ExecuteWithWallet, GetCallPayload, GetPayload, CallFromSignedPayload,
     Attempt, SignAndSubmit, SubmitSignedPayload
<1> QED BY <1>1, <1>2, <1>3, <1>4, <1>5, SubmitKeeps DEF ExecuteWithWallet

LEMMA ExecuteMessageKeeps == ASSUME ContractsInv, ExecuteMessage PROVE ContractsInv'
<1>1. At("call") BY DEF ExecuteMessage
<1>2. /\ Open("repeat")
      /\ session.cmd # "ink-node"
      /\ MayEnd
      /\ session.confirmed \in BOOLEAN
      /\ session.call > 1 /\ ~session.skip => session.confirmed
  BY <1>1 DEF ContractsInv, Open, MayEnd, At, Typed, HasPort, JsonPreconditions, Allowed, Reaches, JsonPath,
     NodePath, OwnNode, Agreement, Before, Starting, Deploying, Configuring, Calling, JsonCalling
<1> HIDE DEF ContractsInv
<1>9. \A x \in {"finish", "terminate", "done", "send", "dry run", "repeat", "dry run call"} : x \notin Before \cup Starting
  BY DEF Before, Starting
<1>3. Quiet
  BY <1>1, <1>2, GotoQuiet, EndQuiet DEF ExecuteMessage, CallSmartContract, Attempt, SignAndSubmit,
     SubmitSignedPayload, HasPort
<1>4. SentWell(session.skip, nodePort, submitted')
  BY <1>1, <1>2, SubmitWell, StaysWell DEF ExecuteMessage, CallSmartContract, Attempt, SignAndSubmit,
     SubmitSignedPayload
<1>5. session'.pc \notin Before \cup Starting
  BY <1>1, <1>2, <1>9, MovesTo DEF ExecuteMessage, CallSmartContract, Attempt, SignAndSubmit,
     SubmitSignedPayload
<1> QED BY <1>1, <1>2, <1>3, <1>4, <1>5, SubmitKeeps DEF ExecuteMessage

LEMMA SubmitJsonCallKeeps == ASSUME ContractsInv, SubmitJsonCall PROVE ContractsInv'
<1>1. At("json call") BY DEF SubmitJsonCall
<1>2. /\ session.cmd # "ink-node"
      /\ MayEnd
      /\ session.confirmed \in BOOLEAN
      /\ session.skip
  BY <1>1 DEF ContractsInv, Open, MayEnd, At, Typed, HasPort, JsonPreconditions, Allowed, Reaches, JsonPath,
     NodePath, OwnNode, Agreement, Before, Starting, Deploying, Configuring, Calling, JsonCalling
<1> HIDE DEF ContractsInv
<1>9. \A x \in {"finish", "terminate", "done", "send", "dry run", "repeat", "dry run call"} : x \notin Before \cup Starting
  BY DEF Before, Starting
<1>3. Quiet BY <1>1, <1>2, EndQuiet DEF SubmitJsonCall, Attempt, SignAndSubmit, SubmitSignedPayload
<1>4. SentWell(session.skip, nodePort, submitted')
  BY <1>1, <1>2, SubmitWell, StaysWell DEF SubmitJsonCall, Attempt, SignAndSubmit, SubmitSignedPayload
<1>5. session'.pc \notin Before \cup Starting
  BY <1>1, <1>2, <1>9, MovesTo DEF SubmitJsonCall, Attempt, SignAndSubmit, SubmitSignedPayload
<1> QED BY <1>1, <1>2, <1>3, <1>4, <1>5, SubmitKeeps DEF SubmitJsonCall

LEMMA FinishQuiet ==
    ASSUME ContractsInv, At("send"), NEW d,
           Become([pc |-> "finish", deployed |-> d])
    PROVE  Quiet
<1>1. Shape(session') /\ Updated(session, session', [pc |-> "finish", deployed |-> d])
  BY BecomeUpdates DEF ContractsInv, HasPort, At
<1>2. Typed(session') BY <1>1 DEF ContractsInv, Typed, Updated, HasPort, Urls, At
<1>3. Reaches(session', session'.pc)
  BY <1>1 DEF ContractsInv, Updated, At, Allowed, Reaches, Before, Starting, Deploying, Configuring, Calling,
     JsonCalling
<1>4. JsonPath(session', session'.pc) BY <1>1 DEF ContractsInv, Updated, Typed, At, Allowed, JsonPath
<1>5. NodePath(session', session'.pc, nodePort, inkNodes) /\ OwnNode(session', session'.pc, nodePort, submitted)
  BY <1>1 DEF ContractsInv, Updated, At, Allowed, NodePath, OwnNode, Before, Starting, Deploying
<1>6. Agreement(session', session'.pc)
  BY <1>1 DEF ContractsInv, Updated, At, Allowed, Agreement, Typed, Configuring
<1> QED BY <1>1, <1>2, <1>3, <1>4, <1>5, <1>6 DEF Quiet, Keeps, Updated, Allowed

LEMMA SubmitDeploymentKeeps == ASSUME ContractsInv, SubmitDeployment PROVE ContractsInv'
<1>1. At("send") BY DEF SubmitDeployment
<1>2. /\ session.cmd = "up" /\ session.pc \in Deploying
      /\ ~session.json => MayEnd
      /\ session.confirmed \in BOOLEAN
  BY <1>1 DEF ContractsInv, Open, MayEnd, At, Typed, HasPort, JsonPreconditions, Allowed, Reaches, JsonPath,
     NodePath, OwnNode, Agreement, Before, Starting, Deploying, Configuring, Calling, JsonCalling
<1> HIDE DEF ContractsInv
<1>9. \A x \in {"finish", "terminate", "done", "send", "dry run", "repeat", "dry run call"} : x \notin Before \cup Starting
  BY DEF Before, Starting
<1>3. Quiet
  BY <1>1, <1>2, EndQuiet, CleanUpQuiet, FinishQuiet DEF SubmitDeployment, Attempt, SignAndSubmit,
     SubmitSignedPayload, Escape, CleanUp
<1>4. SentWell(session.skip, nodePort, submitted')
  BY <1>1, <1>2, SubmitWell, StaysWell DEF SubmitDeployment, Attempt, SignAndSubmit, SubmitSignedPayload
<1>5. session'.pc \notin Before \cup Starting
  BY <1>1, <1>2, <1>9, MovesTo DEF SubmitDeployment, Attempt, SignAndSubmit, SubmitSignedPayload, Escape
<1> QED BY <1>1, <1>2, <1>3, <1>4, <1>5, SubmitKeeps DEF SubmitDeployment

LEMMA ContractsStart == ContractsInit => ContractsInv
<1> SUFFICES ASSUME ContractsInit PROVE ContractsInv OBVIOUS
<1>1. session \in UpContract \cup CallContract \cup InkNode /\ (session.cmd # "ink-node" /\ session.json => session.skip)
  BY DEF ContractsInit, InkNode, UpContract, CallContract
<1>2. Shape(session)
  BY <1>1 DEF Shape, Common, Options, HasPort, UpContract, CallContract, InkNode
<1>3. <<>> \in Seq(Nat) /\ <<0>> \in Seq(Nat) OBVIOUS
<1>4. Typed(session) /\ Reaches(session, session.pc) /\ JsonPath(session, session.pc) /\ Agreement(session, session.pc)
  <2>1. CASE session \in UpContract
    <3>1. session.cmd = "up" /\ session.pc = "build" /\ session.call = 0 BY <2>1 DEF UpContract
    <3>2. /\ session.json \in BOOLEAN /\ session.skip \in BOOLEAN /\ session.execute \in BOOLEAN
          /\ session.wallet \in BOOLEAN /\ session.upload \in BOOLEAN /\ session.confirmed \in BOOLEAN
          /\ session.url \in {NULL, "default", "remote"} /\ session.args \in {<<>>, <<0>>}
          /\ session.message \in {NULL} \cup Callables
      BY <2>1 DEF UpContract
    <3>3. session.args \in Seq(Nat) BY <1>3, <3>2
    <3>4. Typed(session) BY <1>1, <3>1, <3>2, <3>3 DEF Typed, HasPort, Urls
    <3> QED BY <3>1, <3>4 DEF Reaches, JsonPath, Agreement, Before
  <2>2. CASE session \in CallContract
    <3>1. session.cmd = "call" /\ session.pc = "path" /\ session.call = 1 /\ session.json \in BOOLEAN
      BY <2>2 DEF CallContract
    <3>2. /\ session.json \in BOOLEAN /\ session.skip \in BOOLEAN /\ session.execute \in BOOLEAN
          /\ session.wallet \in BOOLEAN /\ session.upload \in BOOLEAN /\ session.confirmed \in BOOLEAN
          /\ session.url \in {NULL, "default", "remote"} /\ session.args \in {<<>>, <<0>>}
          /\ session.message \in {NULL} \cup Callables
      BY <2>2 DEF CallContract
    <3>3. session.args \in Seq(Nat) BY <1>3, <3>2
    <3>4. Typed(session) BY <1>1, <3>1, <3>2, <3>3 DEF Typed, HasPort, Urls
    <3> QED BY <3>1, <3>4 DEF Reaches, JsonPath, Agreement, JsonCalling, Configuring
  <2>3. CASE session \in InkNode
    <3>1. session.cmd = "ink-node" /\ session.pc = "ports" /\ session.json = FALSE BY <2>3 DEF InkNode
    <3>2. Typed(session) BY <2>3, <3>1 DEF Typed, HasPort, InkNode
    <3> QED BY <3>1, <3>2 DEF Reaches, JsonPath, Agreement, Starting
  <2> QED BY <1>1, <2>1, <2>2, <2>3
<1>6. nodePort = NULL /\ submitted = <<>> BY DEF ContractsInit
<1>7. SentWell(session.skip, nodePort, submitted) BY <1>6 DEF SentWell
<1>8. NodePath(session, session.pc, nodePort, inkNodes) /\ OwnNode(session, session.pc, nodePort, submitted)
  BY <1>6 DEF NodePath, OwnNode
<1> QED BY <1>2, <1>4, <1>7, <1>8 DEF ContractsInv, Allowed

LEMMA ContractsStep == ContractsInv /\ [ContractsNext]_<<session, machine>> => ContractsInv'
<1> SUFFICES ASSUME ContractsInv, [ContractsNext]_<<session, machine>> PROVE ContractsInv' OBVIOUS
<1>1. CASE UNCHANGED <<session, machine>>
  BY <1>1 DEF machine, ContractsInv
<1>2. CASE UNCHANGED machine /\ ContractsNext /\ Quiet
  BY <1>2, QuietKeeps DEF machine
<1> HIDE DEF ContractsInv
<1>3. ASSUME ContractsNext PROVE ContractsInv'
  <2>1. \/ PrepareDeployment \/ RunInkNode \/ RunEthRpcNode \/ RunUntilInterrupted
        \/ UploadContract \/ MapDeployer \/ SubmitDeployment \/ TerminateNodes
        \/ ConfigureProject \/ ExecuteWithWallet \/ MapCaller \/ ExecuteMessage
        \/ SubmitJsonCall
        \/ (UNCHANGED machine /\ Quiet)
    BY <1>3, SignDeploymentQuiet, ResolveUrlQuiet, CheckChainAliveQuiet, ResolveInkNodePortsQuiet,
       CheckInkNodeAndPromptQuiet, ResolveConstructorQuiet, GetDeploymentDataQuiet,
       SignWithWalletQuiet, SetUpDeploymentQuiet, DryRunInstantiateQuiet, ConfirmDeploymentQuiet,
       KeepInteractingQuiet, GetMessagesQuiet, JsonMessageQuiet, ResolveEndpointQuiet,
       SelectMessageQuiet, ConfigureArgumentsQuiet, ConfigureCallerQuiet, ConfirmCallQuiet,
       SetUpCallQuiet, DryRunCallQuiet, SetUpJsonCallQuiet, DryRunJsonCallQuiet,
       ReadContractStorageQuiet, FinalizeExecuteCallQuiet
       DEF ContractsNext
  <2> QED
    BY <1>2, <1>3, <2>1, PrepareDeploymentKeeps, RunInkNodeKeeps, RunEthRpcNodeKeeps,
       RunUntilInterruptedKeeps,
       UploadContractKeeps, MapDeployerKeeps, SubmitDeploymentKeeps, TerminateNodesKeeps,
       ConfigureProjectKeeps, ExecuteWithWalletKeeps, MapCallerKeeps, ExecuteMessageKeeps,
       SubmitJsonCallKeeps
<1> QED BY <1>1, <1>3

\* A JSON deployment stops the nodes it started, however it ends (execute_json and
\* terminate_nodes of commands/up/contract.rs).
THEOREM JsonStopsItsNodes == ContractsSpec => []JsonLeavesNoNode
<1>1. ContractsInv => JsonLeavesNoNode
  BY DEF ContractsInv, JsonLeavesNoNode, Allowed, NodePath, Done, At
<1> QED BY <1>1, ContractsStart, ContractsStep, PTL DEF ContractsSpec

\* What a command that started a node sends goes to that node, and a repeated call of
\* `pop call contract` is sent only after the user agreed to it, for any number of calls.
THEOREM CallsAgreed == ContractsSpec => [](SubmittedToOwnNode /\ RepeatedCallConfirmed)
<1>1. ContractsInv => SubmittedToOwnNode /\ RepeatedCallConfirmed
  BY DEF ContractsInv, SubmittedToOwnNode, RepeatedCallConfirmed, SentWell
<1> QED BY <1>1, ContractsStart, ContractsStep, PTL DEF ContractsSpec

-----------------------------------------------------------------------------
(***************************************************************************)
(* Benchmarks: the file of parameters, and the weight files.               *)
(***************************************************************************)
BenchFields == {"cmd", "pc", "ran", "shown", "ended"}
PalletFields == {"saved", "params"}

Benchable(s) ==
    /\ BenchFields \subseteq DOMAIN s
    /\ s.cmd \in Benches
    /\ s.cmd = "bench pallet" => PalletFields \subseteq DOMAIN s /\ s.pc \notin {"tool start", "run overhead"}
    /\ s.cmd # "bench pallet" => s.pc \in {"tool start", "run overhead", "done"}

\* Parameters are saved right before the run; nothing is written before the command ends.
BenchHistory(s, file, written) ==
    /\ s.pc # "done" => written = NULL /\ s.ran = NULL
    /\ written # NULL => written.command = written.at /\ (s.ran # NULL => s.shown = written.at)
    /\ s.cmd = "bench pallet" /\ s.saved =>
          /\ s.pc \in {"run", "done"}
          /\ s.pc = "run" => file = s.params
          /\ s.pc = "done" /\ s.ran # NULL => file = s.ran.params

BenchInv == Benchable(session) /\ BenchHistory(session, benchFile, weights)

LEMMA BenchBecomes ==
    ASSUME BenchInv, NEW fs, Become(fs), "cmd" \notin DOMAIN fs
    PROVE  /\ BenchFields \subseteq DOMAIN session' /\ session'.cmd = session.cmd
           /\ session'.pc = IF "pc" \in DOMAIN fs THEN fs.pc ELSE session.pc
           /\ session'.ran = IF "ran" \in DOMAIN fs THEN fs.ran ELSE session.ran
           /\ session'.shown = IF "shown" \in DOMAIN fs THEN fs.shown ELSE session.shown
           /\ session.cmd = "bench pallet" =>
                 /\ PalletFields \subseteq DOMAIN session'
                 /\ session'.saved = IF "saved" \in DOMAIN fs THEN fs.saved ELSE session.saved
                 /\ session'.params = IF "params" \in DOMAIN fs THEN fs.params ELSE session.params
<1>1. /\ DOMAIN session' = DOMAIN fs \cup DOMAIN session
      /\ \A f \in DOMAIN session' : session'[f] = IF f \in DOMAIN fs THEN fs[f] ELSE session[f]
  BY DEF Become, With
<1>2. BenchFields \subseteq DOMAIN session /\ (session.cmd = "bench pallet" => PalletFields \subseteq DOMAIN session)
  BY DEF BenchInv, Benchable
<1> HIDE DEF BenchInv
<1> QED BY <1>1, <1>2 DEF BenchFields, PalletFields

\* A step that writes nothing, before the run or to an early end.
LEMMA BenchQuiet ==
    ASSUME BenchInv, NEW fs, Become(fs), {"cmd", "ran", "saved", "shown"} \cap DOMAIN fs = {},
           session.pc \notin {"run", "done"} \/ (session.pc = "run" /\ "pc" \in DOMAIN fs /\ fs.pc = "done"),
           "pc" \in DOMAIN fs /\ fs.pc # "done" =>
               (fs.pc \in {"tool start", "run overhead"} <=> session.cmd # "bench pallet"),
           UNCHANGED <<benchFile, weights>>
    PROVE  BenchInv'
<1>1. Benchable(session') BY BenchBecomes DEF BenchInv, Benchable
<1>2. BenchHistory(session', benchFile, weights) BY BenchBecomes DEF BenchInv, BenchHistory, Benchable
<1> QED BY <1>1, <1>2 DEF BenchInv

LEMMA LoadBenchFileKeeps == ASSUME BenchInv, LoadBenchFile, UNCHANGED <<benchFile, weights>> PROVE BenchInv'
<1>1. session.pc = "start" /\ session.cmd = "bench pallet"
  BY DEF LoadBenchFile, At, BenchInv, Benchable, Benches
<1> HIDE DEF BenchInv
<1> QED BY <1>1, BenchQuiet DEF LoadBenchFile, Goto, Fail, Reported, NextParam

LEMMA ValidateJsonKeeps == ASSUME BenchInv, ValidateJson, UNCHANGED <<benchFile, weights>> PROVE BenchInv'
<1>1. session.pc = "validate" /\ session.cmd = "bench pallet"
  BY DEF ValidateJson, At, BenchInv, Benchable, Benches
<1> HIDE DEF BenchInv
<1> QED BY <1>1, BenchQuiet DEF ValidateJson, Goto, Fail, Reported, NextParam

LEMMA SelectGenesisKeeps == ASSUME BenchInv, SelectGenesis, UNCHANGED <<benchFile, weights>> PROVE BenchInv'
<1>1. session.pc = "genesis" /\ session.cmd = "bench pallet"
  BY DEF SelectGenesis, At, BenchInv, Benchable, Benches
<1> HIDE DEF BenchInv
<1> QED BY <1>1, BenchQuiet DEF SelectGenesis, Goto, Fail, Reported, NextParam

LEMMA SelectPalletsKeeps == ASSUME BenchInv, SelectPallets, UNCHANGED <<benchFile, weights>> PROVE BenchInv'
<1>1. session.pc = "pallets" /\ session.cmd = "bench pallet"
  BY DEF SelectPallets, At, BenchInv, Benchable, Benches
<1> HIDE DEF BenchInv
<1> QED BY <1>1, BenchQuiet DEF SelectPallets, Goto, Fail, Reported, NextParam

LEMMA SelectExtrinsicsKeeps ==
    ASSUME BenchInv, SelectExtrinsics, UNCHANGED <<benchFile, weights>>
    PROVE  BenchInv'
<1>1. session.pc = "extrinsics" /\ session.cmd = "bench pallet"
  BY DEF SelectExtrinsics, At, BenchInv, Benchable, Benches
<1> HIDE DEF BenchInv
<1> QED BY <1>1, BenchQuiet DEF SelectExtrinsics, Goto, Fail, Reported, NextParam

LEMMA OfferMenuKeeps == ASSUME BenchInv, OfferMenu, UNCHANGED <<benchFile, weights>> PROVE BenchInv'
<1>1. session.pc = "offer menu" /\ session.cmd = "bench pallet"
  BY DEF OfferMenu, At, BenchInv, Benchable, Benches
<1> HIDE DEF BenchInv
<1> QED BY <1>1, BenchQuiet DEF OfferMenu, Goto, Fail, Reported, NextParam

LEMMA SelectOutputKeeps == ASSUME BenchInv, SelectOutput, UNCHANGED <<benchFile, weights>> PROVE BenchInv'
<1>1. session.pc = "output" /\ session.cmd = "bench pallet"
  BY DEF SelectOutput, At, BenchInv, Benchable, Benches
<1> HIDE DEF BenchInv
<1> QED BY <1>1, BenchQuiet DEF SelectOutput, Goto, Fail, Reported, NextParam

LEMMA RejectJsonKeeps == ASSUME BenchInv, RejectJson, UNCHANGED <<benchFile, weights>> PROVE BenchInv'
<1>1. session.pc = "tool start" /\ session.cmd # "bench pallet"
  BY DEF RejectJson, At, BenchInv, Benchable, Benches
<1> HIDE DEF BenchInv
<1> QED BY <1>1, BenchQuiet DEF RejectJson, Goto, Fail, Reported, NextParam

LEMMA ResolveRuntimeKeeps == ASSUME BenchInv, ResolveRuntime, UNCHANGED <<benchFile, weights>> PROVE BenchInv'
<1>1. session.pc = "runtime" /\ session.cmd = "bench pallet"
  BY DEF ResolveRuntime, At, BenchInv, Benchable, Benches
<1> HIDE DEF BenchInv
<1> QED BY <1>1, BenchQuiet DEF ResolveRuntime, Goto, Fail, Reported, NextParam

LEMMA ConfigureOverheadKeeps ==
    ASSUME BenchInv, ConfigureOverhead, UNCHANGED <<benchFile, weights>>
    PROVE  BenchInv'
<1>1. session.pc = "tool start" /\ session.cmd # "bench pallet"
  BY DEF ConfigureOverhead, At, BenchInv, Benchable, Benches
<1> HIDE DEF BenchInv
<1> QED BY <1>1, BenchQuiet DEF ConfigureOverhead, Goto, Fail, Reported, NextParam

LEMMA MenuKeeps == ASSUME BenchInv, Menu, UNCHANGED <<benchFile, weights>> PROVE BenchInv'
<1>1. session.pc = "menu" /\ session.cmd = "bench pallet" BY DEF Menu, At, BenchInv, Benchable
<1>2. CASE UNCHANGED session BY <1>2 DEF BenchInv
<1> HIDE DEF BenchInv
<1>3. CASE \E p : SetParam(p) BY <1>1, <1>3, BenchQuiet DEF SetParam
<1>4. CASE Fail \/ Goto("output") BY <1>1, <1>4, BenchQuiet DEF Fail, Goto
<1>5. CASE \E x : Become([binary |-> x]) BY <1>1, <1>5, BenchQuiet
<1> QED BY <1>2, <1>3, <1>4, <1>5 DEF Menu, UpdateExcluded, UpdateOther, UpdateRuntimePath

LEMMA SaveParametersKeeps == ASSUME BenchInv, SaveParameters, weights' = weights PROVE BenchInv'
<1>1. session.pc = "save" /\ session.cmd = "bench pallet" BY DEF SaveParameters, At, BenchInv, Benchable
<1>2. CASE Fail /\ UNCHANGED benchFile BY <1>1, <1>2, BenchQuiet DEF Fail
<1>3. CASE Goto("run") /\ UNCHANGED benchFile BY <1>1, <1>3, BenchQuiet DEF Goto
<1>4. CASE Save /\ Become([pc |-> "run", saved |-> TRUE])
  <2> DEFINE fs == [pc |-> "run", saved |-> TRUE]
  <2>0. DOMAIN fs = {"pc", "saved"} /\ fs.pc = "run" /\ Become(fs) BY <1>4
  <2> HIDE DEF fs
  <2>1. /\ BenchFields \subseteq DOMAIN session' /\ session'.cmd = session.cmd /\ session'.pc = "run"
        /\ session'.ran = session.ran /\ PalletFields \subseteq DOMAIN session' /\ session'.params = session.params
    BY <1>1, <2>0, BenchBecomes
  <2>2. Benchable(session') BY <1>1, <2>1 DEF BenchInv, Benchable
  <2>3. BenchHistory(session', benchFile', weights) BY <1>1, <1>4, <2>1 DEF BenchInv, BenchHistory, Save
  <2> QED BY <2>2, <2>3 DEF BenchInv
<1> QED BY <1>2, <1>3, <1>4 DEF SaveParameters

\* The run: what it reports and what it has written.
LEMMA RanKeeps ==
    ASSUME BenchInv, NEW e, NEW shown, NEW ran,
           Become([pc |-> "done", ended |-> e, shown |-> shown, ran |-> ran]),
           session.pc # "done",
           session.cmd = "bench pallet" => session.pc \in {"run", "run json"} /\ ran.params = session.params,
           benchFile' = benchFile,
           weights' = weights \/ (OverwriteWeightFileCommand(shown))
    PROVE  BenchInv'
<1> DEFINE fs == [pc |-> "done", ended |-> e, shown |-> shown, ran |-> ran]
<1>0. /\ DOMAIN fs = {"pc", "ended", "shown", "ran"} /\ Become(fs)
      /\ fs.pc = "done" /\ fs.shown = shown /\ fs.ran = ran
  OBVIOUS
<1> HIDE DEF fs
<1>1. /\ BenchFields \subseteq DOMAIN session' /\ session'.cmd = session.cmd /\ session'.pc = "done"
      /\ session'.ran = ran /\ session'.shown = shown
      /\ session.cmd = "bench pallet" => PalletFields \subseteq DOMAIN session' /\ session'.saved = session.saved
  BY <1>0, BenchBecomes
<1>2. Benchable(session') BY <1>1 DEF BenchInv, Benchable
<1>3. BenchHistory(session', benchFile, weights')
  <2>1. weights = NULL BY DEF BenchInv, BenchHistory
  <2>2. weights' # NULL => weights'.command = weights'.at /\ session'.shown = weights'.at
    <3>1. CASE weights' = weights BY <2>1, <3>1
    <3>2. CASE OverwriteWeightFileCommand(shown)
      <4>1. weights' = [at |-> shown, command |-> shown] BY <3>2 DEF OverwriteWeightFileCommand
      <4>2. weights'.at = shown /\ weights'.command = shown BY <4>1
      <4> QED BY <1>1, <4>2
    <3> QED BY <3>1, <3>2
  <2>3. session.cmd = "bench pallet" /\ session.saved => session.pc = "run" /\ benchFile = session.params
    BY DEF BenchInv, BenchHistory
  <2> QED BY <1>1, <2>2, <2>3 DEF BenchHistory
<1> QED BY <1>2, <1>3 DEF BenchInv

LEMMA RunKeeps == ASSUME BenchInv, Run, benchFile' = benchFile PROVE BenchInv'
<1>1. session.pc = "run" /\ session.cmd = "bench pallet" BY DEF Run, At, BenchInv, Benchable
<1> HIDE DEF BenchInv
<1> QED BY <1>1, RanKeeps DEF Run, Ran

\* With --json a run whose results do not parse has written the files and reports no run.
LEMMA RunJsonKeeps == ASSUME BenchInv, RunJson, benchFile' = benchFile PROVE BenchInv'
<1>1. session.pc = "run json" /\ session.cmd = "bench pallet" BY DEF RunJson, At, BenchInv, Benchable
<1>2. CASE Fail /\ weights' = weights BY <1>1, <1>2, BenchQuiet DEF Fail
<1>3. CASE Fail /\ OverwriteWeightFileCommand(session.output)
  <2> DEFINE fs == [pc |-> "done", ended |-> "error"]
  <2>0. DOMAIN fs = {"pc", "ended"} /\ fs.pc = "done" /\ Become(fs) BY <1>3 DEF Fail
  <2> HIDE DEF fs
  <2>1. /\ BenchFields \subseteq DOMAIN session' /\ session'.cmd = session.cmd /\ session'.pc = "done"
        /\ session'.ran = session.ran /\ PalletFields \subseteq DOMAIN session' /\ session'.saved = session.saved
    BY <1>1, <2>0, BenchBecomes
  <2>2. Benchable(session') BY <1>1, <2>1 DEF BenchInv, Benchable
  <2>3. BenchHistory(session', benchFile, weights')
    BY <1>1, <1>3, <2>1 DEF BenchInv, BenchHistory, OverwriteWeightFileCommand
  <2> QED BY <2>2, <2>3 DEF BenchInv
<1> HIDE DEF BenchInv
<1> QED BY <1>1, <1>2, <1>3, RanKeeps DEF RunJson, Ran

LEMMA ToolsKeep ==
    ASSUME BenchInv, RunOverhead \/ RunStorage \/ (HandOver /\ UNCHANGED weights), benchFile' = benchFile
    PROVE  BenchInv'
<1>1. session.pc \in {"tool start", "run overhead"} /\ session.cmd # "bench pallet"
  BY DEF RunOverhead, RunStorage, HandOver, At, BenchInv, Benchable
<1> HIDE DEF BenchInv
<1>2. CASE (Fail \/ Reported) /\ weights' = weights BY <1>1, <1>2, BenchQuiet DEF Fail, Reported
<1>3. CASE ToolRan /\ (weights' = weights \/ OverwriteWeightFileCommand(session.output))
  BY <1>1, <1>3, RanKeeps DEF ToolRan
<1> QED BY <1>2, <1>3 DEF RunOverhead, RunStorage, HandOver

LEMMA BenchStarts == BenchInit => BenchInv
<1> SUFFICES ASSUME BenchInit PROVE BenchInv OBVIOUS
<1>1. session \in BenchPallet \cup BenchTool /\ weights = NULL BY DEF BenchInit
<1>2. CASE session \in BenchPallet
  <2>1. /\ BenchFields \subseteq DOMAIN session /\ PalletFields \subseteq DOMAIN session
        /\ session.cmd = "bench pallet" /\ session.pc = "start" /\ session.ran = NULL /\ session.saved = FALSE
    BY <1>2 DEF BenchPallet, BenchFields, PalletFields
  <2> QED BY <1>1, <2>1 DEF BenchInv, Benchable, BenchHistory, Benches
<1>3. CASE session \in BenchTool
  <2>1. /\ BenchFields \subseteq DOMAIN session /\ session.cmd \in Benches \ {"bench pallet"}
        /\ session.pc = "tool start" /\ session.ran = NULL
    BY <1>3 DEF BenchTool, BenchFields, Benches
  <2> QED BY <1>1, <2>1 DEF BenchInv, Benchable, BenchHistory
<1> QED BY <1>1, <1>2, <1>3

\* What a benchmark leaves behind can be run again, however often the menu was changed
\* (commands/bench/pallet.rs and overwrite_weight_file_command).
THEOREM BenchesReproducible == BenchSpec => []BenchmarkReproducible
<1>1. BenchInv => BenchmarkReproducible
  BY DEF BenchInv, BenchHistory, BenchmarkReproducible, Done, At
<1>2. BenchInv /\ [BenchNext]_<<session, runtimeVars, benchFile, weights>> => BenchInv'
  <2> SUFFICES ASSUME BenchInv, [BenchNext]_<<session, runtimeVars, benchFile, weights>> PROVE BenchInv' OBVIOUS
  <2>1. CASE UNCHANGED <<session, runtimeVars, benchFile, weights>> BY <2>1 DEF BenchInv
  <2> HIDE DEF BenchInv
  <2>2. CASE BenchNext
    BY <2>2, LoadBenchFileKeeps, ValidateJsonKeeps, SelectGenesisKeeps, SelectPalletsKeeps,
       SelectExtrinsicsKeeps, OfferMenuKeeps, SelectOutputKeeps, RejectJsonKeeps, ResolveRuntimeKeeps,
       MenuKeeps, ConfigureOverheadKeeps, SaveParametersKeeps, RunKeeps, RunJsonKeeps, ToolsKeep
       DEF BenchNext
  <2> QED BY <2>1, <2>2
<1> QED BY <1>1, <1>2, BenchStarts, PTL DEF BenchSpec

-----------------------------------------------------------------------------
(***************************************************************************)
(* Projects: what stands at the path, and what is made there.              *)
(***************************************************************************)
NewFields == {"cmd", "pc", "json", "stood", "removed", "ended", "tag", "frontend"}

\* Before the path is looked at, once it is free, and once the project's files are there
Asking == {"new", "license", "releases", "commits", "choose", "guide", "destination", "validate"}
Clear == {"latest", "clone", "create"}
Made == {"git init", "verify", "frontend", "node", "bun", "create frontend", "join"}

Newly(s) ==
    /\ NewFields \subseteq DOMAIN s
    /\ s.cmd \in {"new chain", "new contract", "new pallet"}
    /\ s.cmd # "new chain" => s.tag = NULL
    /\ s.cmd = "new pallet" => s.frontend = NULL
    /\ s.pc \in Asking \cup Clear \cup Made \cup {"done"}
    /\ s.ended = "ok" => s.pc = "done"
    /\ s.json => ~s.removed

\* A project made by the command, with all the files of its release
Whole(s, t) ==
    /\ DOMAIN t = {"kind", "whole", "tag", "git", "frontend"}
    /\ t.kind # "users" /\ t.whole /\ t.tag = s.tag
    /\ t.git \in IF s.cmd = "new pallet" THEN {"none"}
                 ELSE IF s.cmd = "new contract" THEN {"empty"} ELSE {"none", "committed", "empty"}

WithFrontend(s, t) == s.frontend \in {"create-dot-app", "typink"} => t.frontend

AtThePath(s, t, w) ==
    /\ s.stood /\ ~s.removed => t = UsersDirectory /\ s.pc \in Asking \cup {"done"}
    /\ s.pc \in Asking => t \in {NULL, UsersDirectory}
    /\ s.pc \in Clear => t = NULL
    /\ s.pc \in Made => Whole(s, t)
    /\ s.pc = "join" => WithFrontend(s, t)
    /\ s.ended = "ok" /\ t # NULL /\ t.kind # "users" =>
          Whole(s, t) /\ WithFrontend(s, t) /\ (s.cmd # "new chain" => w # "other crates")

ProjectsInv == Newly(session) /\ AtThePath(session, target, workspace)

LEMMA NewBecomes ==
    ASSUME Newly(session), NEW fs, Become(fs), {"cmd", "json", "stood"} \cap DOMAIN fs = {}
    PROVE  /\ NewFields \subseteq DOMAIN session'
           /\ session'.cmd = session.cmd /\ session'.json = session.json /\ session'.stood = session.stood
           /\ session'.pc = IF "pc" \in DOMAIN fs THEN fs.pc ELSE session.pc
           /\ session'.removed = IF "removed" \in DOMAIN fs THEN fs.removed ELSE session.removed
           /\ session'.ended = IF "ended" \in DOMAIN fs THEN fs.ended ELSE session.ended
           /\ session'.tag = IF "tag" \in DOMAIN fs THEN fs.tag ELSE session.tag
           /\ session'.frontend = IF "frontend" \in DOMAIN fs THEN fs.frontend ELSE session.frontend
<1>1. /\ DOMAIN session' = DOMAIN fs \cup DOMAIN session
      /\ \A f \in DOMAIN session' : session'[f] = IF f \in DOMAIN fs THEN fs[f] ELSE session[f]
  BY DEF Become, With
<1>2. NewFields \subseteq DOMAIN session BY DEF Newly
<1> QED BY <1>1, <1>2 DEF NewFields

\* A failure: what is left at the path is the user's, if it was and was not given up.
LEMMA NewFails ==
    ASSUME ProjectsInv, Fail, session.stood /\ ~session.removed => target' = UsersDirectory
    PROVE  ProjectsInv'
<1> DEFINE fs == [pc |-> "done", ended |-> "error"]
<1>1. DOMAIN fs = {"pc", "ended"} /\ fs.pc = "done" /\ fs.ended = "error" /\ Become(fs) BY DEF Fail
<1> HIDE DEF fs
<1>2. Newly(session) BY DEF ProjectsInv
<1>3. /\ NewFields \subseteq DOMAIN session' /\ session'.cmd = session.cmd /\ session'.json = session.json
      /\ session'.stood = session.stood /\ session'.pc = "done" /\ session'.removed = session.removed
      /\ session'.ended = "error" /\ session'.tag = session.tag /\ session'.frontend = session.frontend
  BY <1>1, <1>2, NewBecomes
<1>4. Newly(session') BY <1>2, <1>3 DEF Newly
<1>5. AtThePath(session', target', workspace')
  BY <1>3 DEF AtThePath, Asking, Clear, Made
<1> QED BY <1>4, <1>5 DEF ProjectsInv

\* Questions and queries, before anything is done at the path
LEMMA NewAsks ==
    ASSUME ProjectsInv, session.pc \in Asking, NEW fs, Become(fs),
           {"cmd", "json", "stood", "removed", "ended"} \cap DOMAIN fs = {},
           "pc" \in DOMAIN fs, fs.pc \in Asking, "tag" \in DOMAIN fs => session.cmd = "new chain",
           "frontend" \in DOMAIN fs => session.cmd # "new pallet",
           target' = target
    PROVE  ProjectsInv'
<1>1. Newly(session) /\ session.ended # "ok" BY DEF ProjectsInv, Newly, Asking
<1>2. /\ NewFields \subseteq DOMAIN session' /\ session'.cmd = session.cmd /\ session'.json = session.json
      /\ session'.stood = session.stood /\ session'.pc = fs.pc /\ session'.removed = session.removed
      /\ session'.ended = session.ended /\ (session.cmd # "new chain" => session'.tag = session.tag)
      /\ session.cmd = "new pallet" => session'.frontend = session.frontend
  BY <1>1, NewBecomes
<1>3. Newly(session') BY <1>1, <1>2 DEF Newly
<1>4. fs.pc \notin Clear \cup Made \cup {"join"} BY DEF Asking, Clear, Made
<1>5. /\ target \in {NULL, UsersDirectory}
      /\ session.stood /\ ~session.removed => target = UsersDirectory
  BY DEF ProjectsInv, AtThePath
<1>6. AtThePath(session', target', workspace')
  BY <1>1, <1>2, <1>4, <1>5 DEF AtThePath
<1> QED BY <1>3, <1>6 DEF ProjectsInv

\* check_destination_path: the path is free afterwards, or the command has failed.
LEMMA DestinationKeeps ==
    ASSUME ProjectsInv, session.pc \in Asking, NEW next \in Clear, CheckDestinationPath(next)
    PROVE  ProjectsInv'
<1>1. Newly(session) /\ session.ended # "ok" BY DEF ProjectsInv, Newly, Asking
<1>2. session.stood /\ ~session.removed => target = UsersDirectory BY DEF ProjectsInv, AtThePath
<1>3. next \notin Asking \cup Made \cup {"join", "done"} /\ NULL # UsersDirectory
  BY AbsentAssumption DEF Asking, Clear, Made
<1>4. CASE target = NULL /\ Goto(next) /\ UNCHANGED target
  <2> DEFINE fs == [pc |-> next]
  <2>1. DOMAIN fs = {"pc"} /\ fs.pc = next /\ Become(fs) BY <1>4 DEF Goto
  <2> HIDE DEF fs
  <2>2. /\ NewFields \subseteq DOMAIN session' /\ session'.cmd = session.cmd /\ session'.json = session.json
        /\ session'.stood = session.stood /\ session'.pc = next /\ session'.removed = session.removed
        /\ session'.ended = session.ended /\ session'.tag = session.tag /\ session'.frontend = session.frontend
    BY <1>1, <2>1, NewBecomes
  <2>3. Newly(session') BY <1>1, <2>2 DEF Newly
  <2>4. AtThePath(session', target', workspace') BY <1>1, <1>2, <1>3, <1>4, <2>2 DEF AtThePath
  <2> QED BY <2>3, <2>4 DEF ProjectsInv
<1>5. CASE Fail /\ UNCHANGED target BY <1>2, <1>5, NewFails
<1>6. CASE ~session.json /\ target' = NULL /\ Become([pc |-> next, removed |-> TRUE])
  <2> DEFINE fs == [pc |-> next, removed |-> TRUE]
  <2>1. DOMAIN fs = {"pc", "removed"} /\ fs.pc = next /\ fs.removed = TRUE /\ Become(fs) BY <1>6
  <2> HIDE DEF fs
  <2>2. /\ NewFields \subseteq DOMAIN session' /\ session'.cmd = session.cmd /\ session'.json = session.json
        /\ session'.stood = session.stood /\ session'.pc = next /\ session'.removed = TRUE
        /\ session'.ended = session.ended /\ session'.tag = session.tag /\ session'.frontend = session.frontend
    BY <1>1, <2>1, NewBecomes
  <2>3. Newly(session') BY <1>1, <1>6, <2>2 DEF Newly
  <2>4. AtThePath(session', target', workspace') BY <1>1, <1>3, <1>6, <2>2 DEF AtThePath
  <2> QED BY <2>3, <2>4 DEF ProjectsInv
<1> QED BY <1>4, <1>5, <1>6 DEF CheckDestinationPath

\* The release is looked up with the path free.
LEMMA ClearKeeps ==
    ASSUME ProjectsInv, session.pc \in Clear, session.cmd = "new chain", NEW tag,
           Become([pc |-> "clone", tag |-> tag]), target' = target
    PROVE  ProjectsInv'
<1> DEFINE fs == [pc |-> "clone", tag |-> tag]
<1>1. Newly(session) /\ session.ended # "ok" /\ target = NULL BY DEF ProjectsInv, Newly, AtThePath, Clear
<1>2. DOMAIN fs = {"pc", "tag"} /\ fs.pc = "clone" /\ Become(fs) OBVIOUS
<1> HIDE DEF fs
<1>3. /\ NewFields \subseteq DOMAIN session' /\ session'.cmd = session.cmd /\ session'.json = session.json
      /\ session'.stood = session.stood /\ session'.pc = "clone" /\ session'.removed = session.removed
      /\ session'.ended = session.ended /\ session'.frontend = session.frontend
  BY <1>1, <1>2, NewBecomes
<1>4. ~(session.stood /\ ~session.removed) BY DEF ProjectsInv, AtThePath, Asking, Clear
<1>5. Newly(session') BY <1>1, <1>3 DEF Newly, Clear
<1>6. AtThePath(session', target', workspace') BY <1>1, <1>3, <1>4 DEF AtThePath, Asking, Clear, Made
<1> QED BY <1>5, <1>6 DEF ProjectsInv

\* Steps from the project's files being written to the end of the command
LEMMA MadeKeeps ==
    ASSUME ProjectsInv, session.pc \in Clear \cup Made, NEW next \in Made, Goto(next),
           Whole(session, target'), next = "join" => WithFrontend(session, target')
    PROVE  ProjectsInv'
<1> DEFINE fs == [pc |-> next]
<1>1. Newly(session) /\ session.ended # "ok" BY DEF ProjectsInv, Newly, Clear, Made
<1>2. DOMAIN fs = {"pc"} /\ fs.pc = next /\ Become(fs) BY DEF Goto
<1> HIDE DEF fs
<1>3. /\ NewFields \subseteq DOMAIN session' /\ session'.cmd = session.cmd /\ session'.json = session.json
      /\ session'.stood = session.stood /\ session'.pc = next /\ session'.removed = session.removed
      /\ session'.ended = session.ended /\ session'.tag = session.tag /\ session'.frontend = session.frontend
  BY <1>1, <1>2, NewBecomes
<1>4. ~(session.stood /\ ~session.removed) BY DEF ProjectsInv, AtThePath, Asking, Clear, Made
<1>5. Newly(session') BY <1>1, <1>3 DEF Newly
<1>6. Whole(session', target') /\ (next = "join" => WithFrontend(session', target'))
  BY <1>3 DEF Whole, WithFrontend
<1>7. next \notin Asking \cup Clear BY DEF Asking, Clear, Made
<1>8. AtThePath(session', target', workspace') BY <1>1, <1>3, <1>4, <1>6, <1>7 DEF AtThePath
<1> QED BY <1>5, <1>8 DEF ProjectsInv

-----------------------------------------------------------------------------
LEMMA NotGivenUp ==
    ASSUME ProjectsInv PROVE /\ session.stood /\ ~session.removed => target = UsersDirectory
                             /\ session.pc \in Clear \cup Made => ~(session.stood /\ ~session.removed)
BY DEF ProjectsInv, AtThePath, Asking, Clear, Made

LEMMA NewChainExecuteKeeps == ASSUME ProjectsInv, NewChainExecute PROVE ProjectsInv'
<1>1. session.cmd = "new chain" /\ session.pc \in Asking /\ target' = target
  BY DEF NewChainExecute, Is, At, Asking
<1>2. CASE Fail BY <1>1, <1>2, NewFails, NotGivenUp
<1>3. CASE \E f : Become([pc |-> "destination", frontend |-> f])
  BY <1>1, <1>3, NewAsks DEF Asking
<1>4. CASE \E t : Become([pc |-> IF session.verify THEN "license" ELSE "releases", template |-> t, tag |-> NULL])
  <2> PICK t : Become([pc |-> IF session.verify THEN "license" ELSE "releases", template |-> t, tag |-> NULL])
    BY <1>4
  <2> DEFINE fs == [pc |-> IF session.verify THEN "license" ELSE "releases", template |-> t, tag |-> NULL]
  <2>1. DOMAIN fs = {"pc", "template", "tag"} /\ fs.pc \in Asking /\ Become(fs) BY DEF Asking
  <2> HIDE DEF fs
  <2> QED BY <1>1, <2>1, NewAsks
<1> HIDE DEF ProjectsInv
<1> QED BY <1>2, <1>3, <1>4 DEF NewChainExecute

LEMMA GetRepoLicenseKeeps == ASSUME ProjectsInv, GetRepoLicense PROVE ProjectsInv'
<1>1. session.cmd = "new chain" /\ session.pc \in Asking /\ target' = target /\ (Goto("releases") \/ Fail)
  BY DEF Get, GetRepoLicense, Is, At, Asking
<1>2. CASE Fail BY <1>1, <1>2, NewFails, NotGivenUp
<1>3. CASE Goto("releases") BY <1>1, <1>3, NewAsks DEF Asking, Goto
<1> QED BY <1>1, <1>2, <1>3

LEMMA GetLatest3ReleasesKeeps == ASSUME ProjectsInv, GetLatest3Releases PROVE ProjectsInv'
<1> DEFINE latest == Latest3(session.releases)
           fs == [pc |-> IF session.verify /\ latest # <<>> THEN "commits" ELSE "choose",
                  choices |-> latest, commits |-> Len(latest)]
<1>1. session.cmd = "new chain" /\ session.pc \in Asking /\ target' = target /\ (Become(fs) \/ Fail)
  BY DEF Get, GetLatest3Releases, Is, At, Asking
<1>2. DOMAIN fs = {"pc", "choices", "commits"} /\ fs.pc \in Asking BY DEF Asking
<1> HIDE DEF fs
<1>3. CASE Fail BY <1>1, <1>3, NewFails, NotGivenUp
<1>4. CASE Become(fs) BY <1>1, <1>2, <1>4, NewAsks
<1> QED BY <1>1, <1>3, <1>4

LEMMA GetCommitsKeeps == ASSUME ProjectsInv, GetCommits PROVE ProjectsInv'
<1> DEFINE fs == [pc |-> IF session.commits = 1 THEN "choose" ELSE "commits", commits |-> session.commits - 1]
<1>1. session.cmd = "new chain" /\ session.pc \in Asking /\ target' = target /\ (Become(fs) \/ Fail)
  BY DEF Get, GetCommits, Is, At, Asking
<1>2. DOMAIN fs = {"pc", "commits"} /\ fs.pc \in Asking BY DEF Asking
<1> HIDE DEF fs
<1>3. CASE Fail BY <1>1, <1>3, NewFails, NotGivenUp
<1>4. CASE Become(fs) BY <1>1, <1>2, <1>4, NewAsks
<1> QED BY <1>1, <1>3, <1>4

LEMMA ChooseReleaseKeeps == ASSUME ProjectsInv, ChooseRelease PROVE ProjectsInv'
<1>1. session.cmd = "new chain" /\ session.pc \in Asking /\ target' = target
  BY DEF ChooseRelease, Is, At, Asking
<1>2. CASE Fail BY <1>1, <1>2, NewFails, NotGivenUp
<1>3. CASE \E t : Become([pc |-> "guide", tag |-> t]) BY <1>1, <1>3, NewAsks DEF Asking
<1>4. CASE Goto("guide") BY <1>1, <1>4, NewAsks DEF Asking, Goto
<1> HIDE DEF ProjectsInv
<1> QED BY <1>2, <1>3, <1>4 DEF ChooseRelease

LEMMA GuideChainKeeps == ASSUME ProjectsInv, GuideUserToGenerateParachain PROVE ProjectsInv'
<1>1. session.cmd = "new chain" /\ session.pc \in Asking /\ target' = target
  BY DEF GuideUserToGenerateParachain, Is, At, Asking
<1>2. CASE Fail BY <1>1, <1>2, NewFails, NotGivenUp
<1>3. CASE \E f : Become([pc |-> "destination", frontend |-> f]) BY <1>1, <1>3, NewAsks DEF Asking
<1> HIDE DEF ProjectsInv
<1> QED BY <1>2, <1>3 DEF GuideUserToGenerateParachain

LEMMA ChainDestinationKeeps == ASSUME ProjectsInv, ChainDestination PROVE ProjectsInv'
<1> DEFINE next == IF session.tag = NULL THEN "latest" ELSE "clone"
<1>1. session.pc \in Asking /\ next \in Clear /\ CheckDestinationPath(next)
  BY DEF ChainDestination, Is, At, Asking, Clear
<1> HIDE DEF next
<1> QED BY <1>1, DestinationKeeps

LEMMA GetLatestReleaseKeeps == ASSUME ProjectsInv, GetLatestRelease PROVE ProjectsInv'
<1> DEFINE latest == LatestRelease(session.releases)
<1>1. /\ session.cmd = "new chain" /\ session.pc \in Clear /\ target' = target
      /\ Become([pc |-> "clone", tag |-> latest]) \/ Fail
  BY DEF Get, GetLatestRelease, Is, At, Clear
<1> HIDE DEF latest
<1>2. CASE Fail BY <1>1, <1>2, NewFails, NotGivenUp
<1>3. CASE Become([pc |-> "clone", tag |-> latest]) BY <1>1, <1>3, ClearKeeps
<1> QED BY <1>1, <1>2, <1>3

LEMMA InstantiateKeeps == ASSUME ProjectsInv, InstantiateTemplateDir PROVE ProjectsInv'
<1>1. session.cmd = "new chain" /\ session.pc \in Clear BY DEF InstantiateTemplateDir, Is, At, Clear
<1>2. CASE Fail BY <1>1, <1>2, NewFails, NotGivenUp
<1>3. CASE target' = Project("chain", TRUE, session.tag, "none") /\ Goto("git init")
  <2>1. Whole(session, target') BY <1>1, <1>3 DEF Whole, Project
  <2> QED BY <1>1, <1>3, <2>1, MadeKeeps DEF Made
<1> QED BY <1>2, <1>3 DEF InstantiateTemplateDir

LEMMA GitInitKeeps == ASSUME ProjectsInv, GitInit PROVE ProjectsInv'
<1> DEFINE next == IF session.verify THEN "verify" ELSE "frontend"
<1>1. /\ session.cmd = "new chain" /\ session.pc = "git init" /\ session.pc \in Made /\ Goto(next)
      /\ next \in Made /\ next # "join"
  BY DEF GitInit, Is, At, Made
<1>2. Whole(session, target) BY <1>1 DEF ProjectsInv, AtThePath
<1>3. PICK git \in {"committed", "empty"} : target' = [target EXCEPT !.git = IF @ = "none" THEN git ELSE @]
  BY DEF GitInit
<1>4. Whole(session, target') BY <1>1, <1>2, <1>3 DEF Whole
<1> HIDE DEF next
<1> QED BY <1>1, <1>4, MadeKeeps

LEMMA ShowCommitKeeps == ASSUME ProjectsInv, ShowCommit PROVE ProjectsInv'
<1>1. session.pc \in Made /\ Goto("frontend") /\ "frontend" \in Made /\ target' = target
  BY DEF Get, ShowCommit, Is, At, Made
<1>2. Whole(session, target') BY <1>1 DEF ProjectsInv, AtThePath
<1> QED BY <1>1, <1>2, MadeKeeps

LEMMA NewContractExecuteKeeps == ASSUME ProjectsInv, NewContractExecute PROVE ProjectsInv'
<1>1. session.cmd = "new contract" /\ session.pc \in Asking /\ target' = target
  BY DEF NewContractExecute, Is, At, Asking
<1>2. CASE Fail BY <1>1, <1>2, NewFails, NotGivenUp
<1>3. CASE \E f : Become([pc |-> "validate", frontend |-> f]) BY <1>1, <1>3, NewAsks DEF Asking
<1>4. CASE GuideUserToGenerateContract
  <2>1. PICK t, f : Become([pc |-> "validate", template |-> t, frontend |-> f])
    BY <1>4 DEF GuideUserToGenerateContract
  <2> DEFINE fs == [pc |-> "validate", template |-> t, frontend |-> f]
  <2>2. DOMAIN fs = {"pc", "template", "frontend"} /\ fs.pc \in Asking /\ Become(fs) BY <2>1 DEF Asking
  <2> HIDE DEF fs
  <2> QED BY <1>1, <2>2, NewAsks
<1> HIDE DEF ProjectsInv
<1> QED BY <1>2, <1>3, <1>4 DEF NewContractExecute

\* A name that is refused ends the command with what was at the path before.
LEMMA ValidateContractNameKeeps == ASSUME ProjectsInv, ValidateContractName PROVE ProjectsInv'
<1>1. session.pc \in Asking BY DEF ValidateContractName, Is, At, Asking
<1>2. CASE CheckDestinationPath("create") BY <1>1, <1>2, DestinationKeeps DEF Clear
<1>3. CASE Fail /\ UNCHANGED target BY <1>3, NewFails, NotGivenUp
<1>4. CASE Succeed /\ UNCHANGED target
  <2> DEFINE fs == [pc |-> "done", ended |-> "ok"]
  <2>1. DOMAIN fs = {"pc", "ended"} /\ fs.pc = "done" /\ fs.ended = "ok" /\ Become(fs) BY <1>4 DEF Succeed
  <2> HIDE DEF fs
  <2>2. /\ Newly(session) /\ target \in {NULL, UsersDirectory}
        /\ session.stood /\ ~session.removed => target = UsersDirectory
    BY <1>1 DEF ProjectsInv, AtThePath
  <2>3. /\ NewFields \subseteq DOMAIN session' /\ session'.cmd = session.cmd /\ session'.json = session.json
        /\ session'.stood = session.stood /\ session'.pc = "done" /\ session'.removed = session.removed
        /\ session'.ended = "ok" /\ session'.tag = session.tag /\ session'.frontend = session.frontend
    BY <2>1, <2>2, NewBecomes
  <2>4. Newly(session') BY <2>2, <2>3 DEF Newly
  <2>5. target # NULL => target.kind = "users" BY <2>2 DEF UsersDirectory, Project
  <2>6. AtThePath(session', target', workspace')
    BY <1>4, <2>2, <2>3, <2>5 DEF AtThePath, Asking, Clear, Made
  <2> QED BY <2>4, <2>6 DEF ProjectsInv
<1> HIDE DEF ProjectsInv
<1> QED BY <1>2, <1>3, <1>4 DEF ValidateContractName

LEMMA CreateSmartContractKeeps == ASSUME ProjectsInv, CreateSmartContract PROVE ProjectsInv'
<1>1. session.cmd = "new contract" /\ session.pc \in Clear BY DEF CreateSmartContract, Is, At, Clear
<1>2. CASE Fail BY <1>1, <1>2, NewFails, NotGivenUp
<1>3. CASE target' = Project("contract", TRUE, NULL, "empty") /\ Goto("frontend")
  <2>1. session.tag = NULL BY <1>1 DEF ProjectsInv, Newly
  <2>2. Whole(session, target') BY <1>1, <1>3, <2>1 DEF Whole, Project
  <2> QED BY <1>1, <1>3, <2>2, MadeKeeps DEF Made
<1> QED BY <1>2, <1>3 DEF CreateSmartContract

LEMMA NewPalletExecuteKeeps == ASSUME ProjectsInv, NewPalletExecute PROVE ProjectsInv'
<1>1. session.pc \in Asking /\ target' = target BY DEF NewPalletExecute, Is, At, Asking
<1>2. CASE Fail BY <1>1, <1>2, NewFails, NotGivenUp
<1>3. CASE Goto("destination") BY <1>1, <1>3, NewAsks DEF Asking, Goto
<1>4. CASE \E types, default \in BOOLEAN : Become([pc |-> "destination", types |-> types, default |-> default])
  <2>1. PICK types, default \in BOOLEAN : Become([pc |-> "destination", types |-> types, default |-> default])
    BY <1>4
  <2> DEFINE fs == [pc |-> "destination", types |-> types, default |-> default]
  <2>2. DOMAIN fs = {"pc", "types", "default"} /\ fs.pc \in Asking /\ Become(fs) BY <2>1 DEF Asking
  <2> HIDE DEF fs
  <2> QED BY <1>1, <2>2, NewAsks
<1> HIDE DEF ProjectsInv
<1> QED BY <1>2, <1>3, <1>4 DEF NewPalletExecute

LEMMA PalletDestinationKeeps == ASSUME ProjectsInv, PalletDestination PROVE ProjectsInv'
<1>1. session.pc \in Asking /\ "create" \in Clear /\ CheckDestinationPath("create")
  BY DEF PalletDestination, Is, At, Asking, Clear
<1> QED BY <1>1, DestinationKeeps

LEMMA CreatePalletTemplateKeeps == ASSUME ProjectsInv, CreatePalletTemplate PROVE ProjectsInv'
<1>1. session.cmd = "new pallet" /\ session.pc \in Clear BY DEF CreatePalletTemplate, Is, At, Clear
<1>2. CASE Fail BY <1>1, <1>2, NewFails, NotGivenUp
<1>3. CASE target' = Project("pallet", TRUE, NULL, "none") /\ Goto("join")
  <2>1. session.tag = NULL BY <1>1 DEF ProjectsInv, Newly
  <2>2. Whole(session, target') BY <1>1, <1>3, <2>1 DEF Whole, Project
  <2>3. WithFrontend(session, target') BY <1>1, AbsentAssumption DEF ProjectsInv, Newly, WithFrontend
  <2> QED BY <1>1, <1>3, <2>2, <2>3, MadeKeeps DEF Made
<1> QED BY <1>2, <1>3 DEF CreatePalletTemplate

LEMMA StartFrontendKeeps == ASSUME ProjectsInv, StartFrontend PROVE ProjectsInv'
<1> DEFINE next == IF session.frontend = NULL THEN "join" ELSE "node"
<1>1. session.pc \in Made /\ next \in Made /\ Goto(next) /\ target' = target
  BY DEF StartFrontend, At, Made
<1>2. Whole(session, target') BY <1>1 DEF ProjectsInv, AtThePath
<1>3. next = "join" => WithFrontend(session, target') BY AbsentAssumption DEF WithFrontend
<1> HIDE DEF next
<1> QED BY <1>1, <1>2, <1>3, MadeKeeps

LEMMA EnsureToolsKeeps == ASSUME ProjectsInv, EnsureTools PROVE ProjectsInv'
<1>1. session.pc \in Made /\ target' = target /\ (Fail \/ Goto("bun") \/ Goto("create frontend"))
  BY DEF EnsureTools, EnsureNodeV20, EnsureBun, Ensure, At, Made
<1>2. Whole(session, target') BY <1>1 DEF ProjectsInv, AtThePath
<1>3. CASE Fail BY <1>1, <1>3, NewFails, NotGivenUp
<1>4. ASSUME NEW next \in {"bun", "create frontend"}, Goto(next) PROVE ProjectsInv'
  BY <1>1, <1>2, <1>4, MadeKeeps DEF Made
<1> QED BY <1>1, <1>3, <1>4

LEMMA CreateFrontendKeeps == ASSUME ProjectsInv, CreateFrontend PROVE ProjectsInv'
<1>1. session.pc \in Made BY DEF CreateFrontend, At, Made
<1>2. Whole(session, target) BY <1>1 DEF ProjectsInv, AtThePath
<1>3. CASE Fail BY <1>1, <1>3, NewFails, NotGivenUp
<1>4. CASE Goto("join") /\ target' = [target EXCEPT !.frontend = TRUE]
  <2>1. Whole(session, target') /\ target'.frontend = TRUE BY <1>2, <1>4 DEF Whole
  <2> QED BY <1>1, <1>4, <2>1, MadeKeeps DEF Made, WithFrontend
<1>5. CASE session.frontend = "inkathon" /\ Goto("join") /\ UNCHANGED target
  BY <1>1, <1>2, <1>5, MadeKeeps DEF Made, WithFrontend
<1> QED BY <1>3, <1>4, <1>5 DEF CreateFrontend

\* The end of the command: the project is whole, and has its place in the workspace.
LEMMA AddCrateKeeps == ASSUME ProjectsInv, AddCrateToWorkspace, target' = target PROVE ProjectsInv'
<1>1. session.pc \in Made /\ session.pc = "join" BY DEF AddCrateToWorkspace, At, Made
<1>2. Whole(session, target) /\ WithFrontend(session, target) BY <1>1 DEF ProjectsInv, AtThePath
<1>3. CASE Fail BY <1>1, <1>3, NewFails, NotGivenUp
<1>4. CASE /\ Succeed
           /\ workspace' = IF workspace # "none" /\ session.cmd # "new chain" THEN "member" ELSE workspace
  <2> DEFINE fs == [pc |-> "done", ended |-> "ok"]
  <2>1. DOMAIN fs = {"pc", "ended"} /\ fs.pc = "done" /\ fs.ended = "ok" /\ Become(fs) BY <1>4 DEF Succeed
  <2> HIDE DEF fs
  <2>2. Newly(session) BY DEF ProjectsInv
  <2>3. /\ NewFields \subseteq DOMAIN session' /\ session'.cmd = session.cmd /\ session'.json = session.json
        /\ session'.stood = session.stood /\ session'.pc = "done" /\ session'.removed = session.removed
        /\ session'.ended = "ok" /\ session'.tag = session.tag /\ session'.frontend = session.frontend
    BY <2>1, <2>2, NewBecomes
  <2>4. Newly(session') BY <2>2, <2>3 DEF Newly
  <2>5. Whole(session', target') /\ WithFrontend(session', target') BY <1>2, <2>3 DEF Whole, WithFrontend
  <2>6. session.cmd # "new chain" => workspace' # "other crates" BY <1>4
  <2>7. ~(session.stood /\ ~session.removed) BY <1>1, NotGivenUp
  <2>8. AtThePath(session', target', workspace')
    BY <2>3, <2>5, <2>6, <2>7 DEF AtThePath, Asking, Clear, Made
  <2> QED BY <2>4, <2>8 DEF ProjectsInv
<1> QED BY <1>3, <1>4 DEF AddCrateToWorkspace

LEMMA ProjectsStart == ProjectsInit => ProjectsInv
<1> SUFFICES ASSUME ProjectsInit PROVE ProjectsInv OBVIOUS
<1>1. session \in NewChain \cup NewContract \cup NewPallet /\ target = IF session.stood THEN UsersDirectory ELSE NULL
  BY DEF ProjectsInit
<1>2. /\ NewFields \subseteq DOMAIN session /\ session.cmd \in {"new chain", "new contract", "new pallet"}
      /\ session.pc = "new" /\ session.removed = FALSE /\ session.ended = NULL
      /\ session.cmd # "new chain" => session.tag = NULL
      /\ session.cmd = "new pallet" => session.frontend = NULL
  <2>1. CASE session \in NewChain BY <2>1 DEF NewChain, NewFields
  <2>2. CASE session \in NewContract BY <2>2 DEF NewContract, NewFields
  <2>3. CASE session \in NewPallet BY <2>3 DEF NewPallet, NewFields
  <2> QED BY <1>1, <2>1, <2>2, <2>3
<1>3. session.ended # "ok" BY <1>2, AbsentAssumption
<1>4. Newly(session) BY <1>2, <1>3 DEF Newly, Asking
<1>5. AtThePath(session, target, workspace) BY <1>1, <1>2, <1>3 DEF AtThePath, Asking, Clear, Made
<1> QED BY <1>4, <1>5 DEF ProjectsInv

LEMMA ProjectsKeep ==
    ProjectsInv /\ [ProjectsNext]_<<session, installed, projectVars, apiVars>> => ProjectsInv'
<1> SUFFICES ASSUME ProjectsInv, [ProjectsNext]_<<session, installed, projectVars, apiVars>>
             PROVE  ProjectsInv'
  OBVIOUS
<1>1. CASE UNCHANGED <<session, target, workspace>> BY <1>1 DEF ProjectsInv
<1> HIDE DEF ProjectsInv
<1>2. CASE WindowResets /\ ~Done /\ UNCHANGED <<installed, workspace, target>> BY <1>1, <1>2 DEF WindowResets
<1>3. CASE ProjectsNext
  BY <1>2, <1>3, NewChainExecuteKeeps, GetRepoLicenseKeeps, GetLatest3ReleasesKeeps, GetCommitsKeeps,
     ChooseReleaseKeeps, GuideChainKeeps, ChainDestinationKeeps, GetLatestReleaseKeeps, InstantiateKeeps,
     GitInitKeeps, ShowCommitKeeps, NewContractExecuteKeeps, ValidateContractNameKeeps,
     CreateSmartContractKeeps, NewPalletExecuteKeeps, PalletDestinationKeeps, CreatePalletTemplateKeeps,
     StartFrontendKeeps, EnsureToolsKeeps, CreateFrontendKeeps, AddCrateKeeps
     DEF ProjectsNext
<1> QED BY <1>1, <1>3 DEF projectVars

\* What stands at the path is touched only when the user has agreed, and in JSON mode never, whatever
\* the repositories have published and however many requests GitHub allows (check_destination_path in
\* commands/new, and the checks of --json before anything is done).
THEOREM UsersWorkStands == ProjectsSpec => []UsersWorkKept
<1>1. ProjectsInv => UsersWorkKept BY DEF ProjectsInv, Newly, AtThePath, UsersWorkKept, NewCommand
<1> QED BY <1>1, ProjectsStart, ProjectsKeep, PTL DEF ProjectsSpec

\* A project that is reported made is whole, of the release that was chosen, with the frontend that was
\* asked for and its place in the workspace (instantiate_template_dir, create_smart_contract,
\* create_pallet_template, create_frontend and add_crate_to_workspace).
THEOREM NewProjectsWhole == ProjectsSpec => []NewProjectWhole
<1>1. ProjectsInv => NewProjectWhole
  BY DEF ProjectsInv, Newly, AtThePath, NewProjectWhole, NewCommand, Whole, WithFrontend
<1> QED BY <1>1, ProjectsStart, ProjectsKeep, PTL DEF ProjectsSpec

-----------------------------------------------------------------------------
(***************************************************************************)
(* Inherents: the blocks of a fork.  What each block hands on to the next: *)
(* the code that runs it, and the validation data it carries.              *)
(***************************************************************************)
IsSeq(s) == \E S : s \in Seq(S)

ForkBlock(c) == [runtime |-> c.runtime, code |-> c.runtime, slot |-> c.slot, time |-> c.time,
                 exts |-> c.exts, upgrade |-> c.upgrade]

ItsCodes == {chain[1].runtime, chain[1].upgrade}
Slotted == chain[1].runtime.consensus # "Unknown"
Succeeds(code, runtime) == code = runtime \/ code = chain[1].upgrade

Lineage ==
    /\ IsSeq(chain) /\ Len(chain) \in 1..(MaxBlocks + 1)
    /\ \E c \in ForkedChains : chain[1] = ForkBlock(c)
    /\ \A n \in 1..Len(chain) :
          {chain[n].runtime, chain[n].code} \subseteq ItsCodes /\ Succeeds(chain[n].code, chain[n].runtime)
    /\ DOMAIN storage = {"slot", "time", "updated", "code", "included"}
    /\ storage.code \in ItsCodes /\ Succeeds(storage.code, HeadBlock.code)
    /\ clock \in 0..MaxClock

Sealed(headers) ==
    \E n \in Nat :
        /\ DOMAIN headers = 1..n
        /\ \A i \in 1..n :
              /\ {"parentHash", "stateRoot", "seal"} \subseteq DOMAIN headers[i]
              /\ headers[i].seal \in {"babe", "magic"}

Provable(ext) ==
    /\ {"proof", "root", "descendants"} \subseteq DOMAIN ext
    /\ {"slot", "head"} \subseteq DOMAIN ext.proof
    /\ ext.root = ext.proof /\ ext.proof.slot \in Nat
    /\ Sealed(ext.descendants)

Version == chain[1].exts[CHOOSE i \in ValidationData(chain[1].exts) : TRUE].version

Bears(exts, i) ==
    ValidationData(exts) = {i} /\ Provable(exts[i]) /\ exts[i].version = Version

\* The extrinsics of block n
Carries(exts, n) ==
    IF ValidationData(chain[1].exts) = {} THEN ValidationData(exts) = {}
    ELSE /\ \E i \in Nat : Bears(exts, i)
         /\ n > 1 => /\ Bears(exts, 1) /\ exts[1].proof.head = n - 1
                     /\ Linked(exts[1].descendants, exts[1].root)

Carried == \A n \in 1..Len(chain) : Carries(chain[n].exts, n)

Building ==
    builder # NoBuilder =>
        /\ DOMAIN builder = {"phase", "slot", "exts"} /\ Len(chain) <= MaxBlocks
        /\ builder.phase \in {"created", "initialized", "inherents_applied"}
        /\ builder.phase # "inherents_applied" => builder.exts = <<>>
        /\ builder.phase = "inherents_applied" =>
              IsSeq(builder.exts) /\ Carries(builder.exts, Len(chain) + 1)

\* The first refusal is one that the absent timestamp excuses, unless something failed before it.
Excused ==
    /\ abandoned \in Nat /\ IsSeq(refused) /\ Len(refused) <= abandoned
    /\ Len(refused) > 0 /\ Len(refused) = abandoned =>
          refused[1].block - 1 \in 1..Len(chain) /\ chain[refused[1].block - 1].time = NULL

(***************************************************************************)
(* While no build has been abandoned, the storage is that of the head and  *)
(* of the block being built, and the caches hold the duration of the code  *)
(* that runs.                                                              *)
(***************************************************************************)
Synced ==
    /\ builder.phase \in {"none", "created"} => storage.slot = HeadBlock.slot
    /\ builder.phase \in {"initialized", "inherents_applied"} => storage.slot = builder.slot
    /\ builder.phase # "inherents_applied" => storage.updated = FALSE /\ storage.code = HeadBlock.code
    /\ builder.phase = "inherents_applied" =>
          storage.code = HeadBlock.code \/ \E i \in DOMAIN builder.exts : builder.exts[i].call = "set_code"
    /\ builder.phase # "none" /\ ~Slotted => builder.slot = NULL

\* Block n has this slot and time, and there is time left for the blocks after it.
Stamped(slot, time, duration, exts, n) ==
    /\ time \in Nat /\ slot = time \div duration
    /\ time + (MaxBlocks + 2 - n) * chain[1].runtime.duration <= MaxTime
    /\ \A i \in ValidationData(exts) : slot * duration <= exts[i].proof.slot

Timed ==
    Slotted =>
        /\ cached # NULL => cached = HeadBlock.code.duration
        /\ provider # NULL => provider = HeadBlock.code.duration
        /\ HeadBlock.time = NULL => Len(chain) = 1
        /\ HeadBlock.time # NULL =>
              Stamped(HeadBlock.slot, HeadBlock.time, HeadBlock.runtime.duration, HeadBlock.exts, Len(chain))
        /\ builder.phase \in {"created", "initialized"} =>
              /\ builder.slot # NULL
              /\ HeadBlock.time # NULL =>
                    builder.slot = (HeadBlock.time + HeadBlock.code.duration) \div HeadBlock.code.duration
        /\ builder.phase = "inherents_applied" =>
              Stamped(builder.slot, storage.time, HeadBlock.code.duration, builder.exts, Len(chain) + 1)

InherentsInv == Lineage /\ Carried /\ Building /\ Excused /\ (abandoned = 0 => Synced /\ Timed)


LEMMA DivOf == ASSUME NEW a \in Nat, NEW d \in Nat \ {0}
               PROVE  a \div d \in Nat /\ (a \div d) * d <= a /\ a < (a \div d) * d + d
OBVIOUS

LEMMA NextSlotIs == ASSUME NEW t \in Nat, NEW d \in Nat \ {0} PROVE (t + d) \div d = (t \div d) + 1
OBVIOUS

LEMMA SlotsGrow == ASSUME NEW t \in Nat, NEW d1 \in Nat \ {0}, NEW d2 \in Nat \ {0}, d2 <= d1
                   PROVE  t \div d1 <= t \div d2
OBVIOUS

LEMMA KeepsUp == ASSUME NEW t \in Nat, NEW p \in Nat, NEW d1 \in {1, 2}, NEW d2 \in {1, 2}, d2 <= d1,
                    (t \div d1) * d1 <= p
             PROVE  ((t + d2) \div d2) * d2 <= p + 2
OBVIOUS

LEMMA OneMore == ASSUME NEW n \in Nat, NEW d \in Nat PROVE (n + 1) * d = n * d + d /\ n * d \in Nat
OBVIOUS


LEMMA SeqShape == ASSUME NEW s, IsSeq(s) PROVE Len(s) \in Nat /\ DOMAIN s = 1..Len(s)
BY DEF IsSeq

LEMMA SeqAppended ==
    ASSUME NEW s, IsSeq(s), NEW e
    PROVE  /\ IsSeq(Append(s, e)) /\ Len(Append(s, e)) = Len(s) + 1
           /\ \A i \in 1..Len(s) : Append(s, e)[i] = s[i]
           /\ Append(s, e)[Len(s) + 1] = e
<1>1. PICK S : s \in Seq(S) BY DEF IsSeq
<1>2. s \in Seq(S \cup {e}) BY <1>1
<1>3. Append(s, e) \in Seq(S \cup {e}) BY <1>2
<1> QED BY <1>2, <1>3 DEF IsSeq

LEMMA SeqOne == ASSUME NEW e PROVE IsSeq(<<e>>) /\ Len(<<e>>) = 1 /\ <<e>>[1] = e
<1>1. <<e>> \in Seq({e}) OBVIOUS
<1> QED BY <1>1 DEF IsSeq

LEMMA SeqTwo == ASSUME NEW e, NEW f PROVE IsSeq(<<e, f>>) /\ Len(<<e, f>>) = 2 /\ <<e, f>>[1] = e /\ <<e, f>>[2] = f
<1>1. <<e, f>> \in Seq({e, f}) OBVIOUS
<1> QED BY <1>1 DEF IsSeq

LEMMA SeqNil == ASSUME NEW s, IsSeq(s) PROVE <<>> \o s = s
<1>1. PICK S : s \in Seq(S) BY DEF IsSeq
<1>2. <<>> \in Seq(S) OBVIOUS
<1> QED BY <1>1, <1>2

LEMMA SeqEqual == ASSUME NEW S, NEW s \in Seq(S), NEW t \in Seq(S), Len(s) = Len(t),
                         \A i \in 1..Len(s) : s[i] = t[i]
                  PROVE s = t
OBVIOUS

LEMMA SeqPair == ASSUME NEW e, NEW f PROVE <<e>> \o <<f>> = <<e, f>>
<1> DEFINE S == {e, f}
<1>1. <<e>> \in Seq(S) /\ <<f>> \in Seq(S) /\ <<e, f>> \in Seq(S) OBVIOUS
<1>2. Len(<<e>>) = 1 /\ Len(<<f>>) = 1 /\ <<e>>[1] = e /\ <<f>>[1] = f OBVIOUS
<1>3. Len(<<e, f>>) = 2 /\ <<e, f>>[1] = e /\ <<e, f>>[2] = f OBVIOUS
<1> DEFINE c == <<e>> \o <<f>>
<1>4. c \in Seq(S) /\ Len(c) = 2 BY <1>1, <1>2
<1>5. c[1] = e /\ c[2] = f BY <1>1, <1>2
<1> HIDE DEF c
<1>6. \A i \in 1..2 : c[i] = <<e, f>>[i] BY <1>3, <1>5
<1>7. c = <<e, f>> BY <1>1, <1>3, <1>4, <1>6, SeqEqual
<1> QED BY <1>7 DEF c

LEMMA SubHasFirst == ASSUME NEW e, NEW f PROVE 1 \in DOMAIN SubSeq(<<e, f>>, 1, 1) /\ SubSeq(<<e, f>>, 1, 1)[1] = e
<1>1. <<e, f>> \in Seq({e, f}) /\ Len(<<e, f>>) = 2 OBVIOUS
<1>2. Len(SubSeq(<<e, f>>, 1, 1)) = 1 /\ SubSeq(<<e, f>>, 1, 1) \in Seq({e, f}) BY <1>1
<1> QED BY <1>1, <1>2


\* The headers that a relay chain's new root reaches are linked again.
LEMMA DescendantsLinked ==
    ASSUME NEW headers, Sealed(headers), NEW root
    PROVE  /\ Sealed(ProcessRelayParentDescendants(headers, root))
           /\ Linked(ProcessRelayParentDescendants(headers, root), root)
<1> DEFINE Magic(h) == ReplaceSealWithMagic(h)
           Foremost == [Magic(headers[1]) EXCEPT !.stateRoot = root]
           After(i, h) == [Magic(headers[i]) EXCEPT !.parentHash = h]
           Def(m, f) == [i \in 1..m |-> IF i = 1 THEN Foremost ELSE After(i, f[i - 1])]
           r == ProcessRelayParentDescendants(headers, root)
<1>1. PICK n \in Nat : /\ DOMAIN headers = 1..n
                       /\ \A i \in 1..n : /\ {"parentHash", "stateRoot", "seal"} \subseteq DOMAIN headers[i]
                                          /\ headers[i].seal \in {"babe", "magic"}
  BY DEF Sealed
<1>2. r = CHOOSE f : f = Def(n, f) BY <1>1 DEF ProcessRelayParentDescendants
<1>3. \A i \in 1..n : /\ {"parentHash", "stateRoot", "seal"} \subseteq DOMAIN Magic(headers[i])
                      /\ Magic(headers[i]).seal = "magic"
  BY <1>1 DEF ReplaceSealWithMagic
<1> HIDE DEF Magic
<1>4. \A i \in 1..n : \A h : /\ {"parentHash", "stateRoot", "seal"} \subseteq DOMAIN After(i, h)
                              /\ After(i, h).seal = "magic" /\ After(i, h).parentHash = h
  BY <1>3
<1>5. n > 0 => /\ {"parentHash", "stateRoot", "seal"} \subseteq DOMAIN Foremost
               /\ Foremost.seal = "magic" /\ Foremost.stateRoot = root
  BY <1>3
<1> HIDE DEF Foremost, After
<1>6. \E f : f = Def(n, f)
  <2> DEFINE Bad == {m \in Nat : ~\E f : f = Def(m, f)}
  <2> SUFFICES ASSUME Bad # {} PROVE FALSE OBVIOUS
  <2>1. PICK m \in Bad : \A k \in Bad : m <= k BY LeastExists DEF Least
  <2>2. m \in Nat /\ ~\E f : f = Def(m, f) OBVIOUS
  <2>3. m # 0
    <3> SUFFICES ASSUME m = 0 PROVE FALSE OBVIOUS
    <3> DEFINE g == [i \in 1..0 |-> Foremost]
    <3>1. g = Def(0, g) OBVIOUS
    <3> QED BY <2>2, <3>1
  <2>4. m - 1 \in Nat /\ m - 1 \notin Bad
    <3> HIDE DEF Bad
    <3> QED BY <2>1, <2>2, <2>3
  <2>5. PICK f : f = Def(m - 1, f) BY <2>4
  <2> DEFINE g == [i \in 1..m |-> IF i < m THEN f[i] ELSE IF i = 1 THEN Foremost ELSE After(i, f[i - 1])]
  <2>6. \A i \in 1..m : g[i] = IF i = 1 THEN Foremost ELSE After(i, g[i - 1])
    <3> SUFFICES ASSUME NEW i \in 1..m PROVE g[i] = IF i = 1 THEN Foremost ELSE After(i, g[i - 1]) OBVIOUS
    <3>1. i < m => f[i] = IF i = 1 THEN Foremost ELSE After(i, f[i - 1])
      <4> SUFFICES ASSUME i < m PROVE f[i] = IF i = 1 THEN Foremost ELSE After(i, f[i - 1]) OBVIOUS
      <4>1. i \in 1..(m - 1) BY <2>2
      <4>2. f[i] = Def(m - 1, f)[i] BY <2>5
      <4> QED BY <4>1, <4>2
    <3>2. i # 1 => g[i - 1] = f[i - 1] BY <2>2
    <3> QED BY <3>1, <3>2
  <2>7. g = Def(m, g) BY <2>6
  <2> QED BY <2>2, <2>7
<1>7. r = Def(n, r) BY <1>2, <1>6
<1> HIDE DEF r
<1>8. DOMAIN r = 1..n BY <1>7
<1>9. \A i \in 1..n : r[i] = IF i = 1 THEN Foremost ELSE After(i, r[i - 1])
  <2> SUFFICES ASSUME NEW i \in 1..n PROVE r[i] = IF i = 1 THEN Foremost ELSE After(i, r[i - 1]) OBVIOUS
  <2>1. r[i] = Def(n, r)[i] BY <1>7
  <2> QED BY <2>1
<1> HIDE DEF Def
<1>10. \A i \in 1..n : /\ {"parentHash", "stateRoot", "seal"} \subseteq DOMAIN r[i] /\ r[i].seal = "magic"
                       /\ i > 1 => r[i].parentHash = r[i - 1]
  BY <1>4, <1>5, <1>9
<1>11. n > 0 => r[1].stateRoot = root BY <1>5, <1>9
<1>12. Sealed(r) BY <1>8, <1>10 DEF Sealed
<1>13. Linked(r, root)
  <2>1. r # <<>> => n > 0 BY <1>8
  <2> QED BY <1>8, <1>10, <1>11, <2>1 DEF Linked
<1> QED BY <1>12, <1>13 DEF r

\* What the provider makes of the data of the block before
LEMMA InherentProcessed ==
    ASSUME NEW ext, Provable(ext), NEW head, NEW e, e = ProcessInherent(ext, head)
    PROVE  /\ Provable(e) /\ e.call = ext.call /\ e.version = ext.version /\ e.proof.head = head
           /\ e.proof.slot = SaturatingAdd(ext.proof.slot, RelaySlotsPerParaBlock)
           /\ e.proof.slot \in Nat /\ Linked(e.descendants, e.root) /\ e.root = e.proof
<1> DEFINE slot == SaturatingAdd(ext.proof.slot, RelaySlotsPerParaBlock)
           proof == [ext.proof EXCEPT !.head = head, !.slot = slot]
           hs == ProcessRelayParentDescendants(ext.descendants, proof)
<1>1. /\ {"proof", "root", "descendants"} \subseteq DOMAIN ext /\ {"slot", "head"} \subseteq DOMAIN ext.proof
      /\ ext.root = ext.proof /\ ext.proof.slot \in Nat /\ Sealed(ext.descendants)
  BY DEF Provable
<1>2. slot \in Nat BY <1>1, InherentBounds DEF SaturatingAdd, RelaySlotsPerParaBlock
<1>3. e = [ext EXCEPT !.proof = proof, !.root = proof, !.descendants = hs]
  <2>1. ReadFromProof(ext.proof, ext.root) = ext.proof.slot BY <1>1 DEF ReadFromProof
  <2>2. ModifyProof(ext.proof, [head |-> head, slot |-> slot]) = proof BY DEF ModifyProof
  <2> QED BY <2>1, <2>2 DEF ProcessInherent
<1>4. {"slot", "head"} \subseteq DOMAIN proof /\ proof.slot = slot /\ proof.head = head BY <1>1
<1> HIDE DEF slot
<1>5. Sealed(hs) /\ Linked(hs, proof) BY <1>1, DescendantsLinked
<1> HIDE DEF proof, hs
<1>6. /\ DOMAIN e = DOMAIN ext /\ e.proof = proof /\ e.root = proof /\ e.descendants = hs
      /\ e.call = ext.call /\ e.version = ext.version
  BY <1>1, <1>3
<1>7. Provable(e) BY <1>1, <1>2, <1>4, <1>5, <1>6 DEF Provable
<1> QED BY <1>2, <1>4, <1>5, <1>6, <1>7 DEF slot


-----------------------------------------------------------------------------
\* The fork block and the two runtimes, as the assumptions have them
LEMMA ForkFacts ==
    ASSUME Lineage
    PROVE  /\ Len(chain) \in Nat \ {0} /\ DOMAIN chain = 1..Len(chain) /\ HeadBlock = chain[Len(chain)]
           /\ {HeadBlock.runtime, HeadBlock.code} \subseteq ItsCodes /\ Succeeds(HeadBlock.code, HeadBlock.runtime)
           /\ \A r \in ItsCodes :
                 /\ r.duration \in Nat \ {0} /\ r.duration <= chain[1].runtime.duration
                 /\ r.consensus = chain[1].runtime.consensus /\ r.parachain = chain[1].runtime.parachain
                 /\ chain[1].upgrade.duration <= r.duration
                 /\ r.consensus \in {"Aura", "Babe", "Unknown"}
                 /\ r.consensus = "Aura" => r.auraApi
                 /\ r.consensus = "Babe" => ~r.auraApi /\ r.babeConstant
                                            /\ r.duration = chain[1].runtime.duration
<1>1. Len(chain) \in Nat \ {0} /\ DOMAIN chain = 1..Len(chain) /\ HeadBlock = chain[Len(chain)]
  BY SeqShape DEF Lineage, HeadBlock
<1>2. {HeadBlock.runtime, HeadBlock.code} \subseteq ItsCodes /\ Succeeds(HeadBlock.code, HeadBlock.runtime)
  BY <1>1 DEF Lineage
<1>3. PICK c \in ForkedChains : chain[1] = ForkBlock(c) BY DEF Lineage
<1>4. chain[1].runtime = c.runtime /\ chain[1].upgrade = c.upgrade BY <1>3 DEF ForkBlock
<1>5. /\ {c.runtime, c.upgrade} \subseteq Runtime
      /\ \A r \in {c.runtime, c.upgrade} :
            /\ r.consensus = "Aura" => r.auraApi
            /\ r.consensus = "Babe" => ~r.auraApi /\ r.babeConstant
  BY ChainAssumption
<1>6. /\ c.upgrade.consensus = c.runtime.consensus /\ c.upgrade.parachain = c.runtime.parachain
      /\ c.upgrade.duration <= c.runtime.duration
      /\ c.runtime.consensus = "Babe" => c.upgrade.duration = c.runtime.duration
  BY UpgradeAssumption
<1>7. /\ c.runtime.duration \in Nat \ {0} /\ c.runtime.consensus \in {"Aura", "Babe", "Unknown"}
      /\ c.upgrade.duration \in Nat \ {0}
  BY <1>5 DEF Runtime
<1>8. \A r \in ItsCodes : r = c.runtime \/ r = c.upgrade BY <1>4 DEF ItsCodes
<1> QED BY <1>1, <1>2, <1>4, <1>5, <1>6, <1>7, <1>8

LEMMA ForkBlockFacts ==
    ASSUME Lineage
    PROVE  /\ chain[1].time # NULL => chain[1].time \in Nat
           /\ Slotted =>
                 /\ chain[1].time # NULL => chain[1].slot = chain[1].time \div chain[1].runtime.duration
                 /\ (IF chain[1].time = NULL THEN MaxClock ELSE chain[1].time)
                       + (MaxBlocks + 1) * chain[1].runtime.duration <= MaxTime
           /\ \A i \in ValidationData(chain[1].exts) :
                 /\ i \in Nat /\ Bears(chain[1].exts, i) /\ chain[1].runtime.parachain /\ chain[1].time # NULL
                 /\ Slotted => /\ chain[1].runtime.duration <= RelaySlotsPerParaBlock
                               /\ chain[1].slot * chain[1].runtime.duration <= chain[1].exts[i].proof.slot
<1>1. PICK c \in ForkedChains : chain[1] = ForkBlock(c) BY DEF Lineage
<1>2. /\ chain[1].runtime = c.runtime /\ chain[1].time = c.time /\ chain[1].slot = c.slot
      /\ chain[1].exts = c.exts
  BY <1>1 DEF ForkBlock
<1>3. /\ c.time # NULL => c.time \in Nat
      /\ DOMAIN c.exts \subseteq Nat
      /\ c.runtime.consensus # "Unknown" =>
            /\ c.time # NULL => c.slot = c.time \div c.runtime.duration
            /\ (IF c.time = NULL THEN MaxClock ELSE c.time) + (MaxBlocks + 1) * c.runtime.duration <= MaxTime
  BY ForkBlockAssumption
<1>4. ASSUME NEW i \in ValidationData(c.exts)
      PROVE  /\ i \in Nat /\ Bears(chain[1].exts, i) /\ c.runtime.parachain /\ c.time # NULL
             /\ c.runtime.consensus # "Unknown" => /\ c.runtime.duration <= RelaySlotsPerParaBlock
                                                   /\ c.slot * c.runtime.duration <= c.exts[i].proof.slot
  <2> DEFINE ext == c.exts[i]
  <2>1. /\ ValidationData(c.exts) = {i}
        /\ c.runtime.parachain /\ c.time # NULL
        /\ {"proof", "root", "descendants"} \subseteq DOMAIN ext
        /\ {"slot", "head"} \subseteq DOMAIN ext.proof
        /\ ext.root = ext.proof /\ ext.proof.slot \in Nat
        /\ RelayHeaders(ext.descendants)
        /\ c.runtime.consensus # "Unknown" =>
              /\ c.runtime.duration <= RelaySlotsPerParaBlock
              /\ c.slot * c.runtime.duration <= ext.proof.slot
    BY ForkBlockAssumption
  <2>2. Sealed(ext.descendants) BY <2>1 DEF RelayHeaders, Sealed
  <2>3. Provable(ext) BY <2>1, <2>2 DEF Provable
  <2>4. Version = ext.version BY <1>2, <2>1 DEF Version
  <2>5. Bears(chain[1].exts, i) BY <1>2, <2>1, <2>3, <2>4 DEF Bears
  <2>6. i \in Nat BY <1>3 DEF ValidationData
  <2> QED BY <2>1, <2>5, <2>6
<1> QED BY <1>2, <1>3, <1>4 DEF Slotted

\* Either way of reading the slot duration finds that of the code that runs.
LEMMA DurationRead ==
    ASSUME Lineage, Slotted, NEW f
    PROVE  SlotDurationFromRuntime(HeadBlock.code, HeadBlock.runtime, f) = HeadBlock.code.duration
<1>1. /\ HeadBlock.code \in ItsCodes /\ HeadBlock.runtime \in ItsCodes BY ForkFacts
<1>2. HeadBlock.code.consensus \in {"Aura", "Babe"} /\ HeadBlock.runtime.consensus = HeadBlock.code.consensus
  BY <1>1, ForkFacts DEF Slotted
<1>3. CASE HeadBlock.code.consensus = "Aura" BY <1>1, <1>3, ForkFacts DEF SlotDurationFromRuntime
<1>4. CASE HeadBlock.code.consensus = "Babe"
  <2>1. ~HeadBlock.code.auraApi /\ HeadBlock.runtime.babeConstant
        /\ HeadBlock.runtime.duration = HeadBlock.code.duration
    BY <1>1, <1>2, <1>4, ForkFacts
  <2> QED BY <2>1 DEF SlotDurationFromRuntime
<1> QED BY <1>2, <1>3, <1>4

LEMMA ProviderRead ==
    ASSUME Lineage, Slotted, Timed PROVE ProviderDuration = HeadBlock.code.duration
BY DurationRead DEF Timed, ProviderDuration

\* One block's slot more does not reach the end of time.
LEMMA TimeLeft ==
    ASSUME NEW D \in Nat, NEW d \in Nat, d <= D, NEW t \in Nat, NEW n \in 1..MaxBlocks,
           t + (MaxBlocks + 2 - n) * D <= MaxTime
    PROVE  SaturatingAdd(t, d) = t + d /\ (t + d) + (MaxBlocks + 2 - (n + 1)) * D <= MaxTime
<1>1. MaxBlocks \in Nat /\ MaxTime \in Nat BY InherentBounds
<1> DEFINE m == MaxBlocks + 1 - n
<1>2. m \in Nat /\ MaxBlocks + 2 - n = m + 1 /\ MaxBlocks + 2 - (n + 1) = m BY <1>1
<1> HIDE DEF m
<1>3. (m + 1) * D = m * D + D /\ m * D \in Nat BY <1>2, OneMore
<1>4. t + (m * D + D) <= MaxTime BY <1>2, <1>3
<1>5. t + d <= MaxTime /\ (t + d) + m * D <= MaxTime BY <1>1, <1>3, <1>4
<1>6. SaturatingAdd(t, d) = t + d BY <1>1, <1>5 DEF SaturatingAdd
<1> QED BY <1>2, <1>5, <1>6

-----------------------------------------------------------------------------
\* What the providers put in the next block
Stamp == [call |-> "set_timestamp", time |-> SaturatingAdd(CurrentTimestamp, ProviderDuration)]

Processed ==
    ProcessInherent(HeadBlock.exts[CHOOSE i \in ValidationData(HeadBlock.exts) :
                                       \A j \in ValidationData(HeadBlock.exts) : i <= j], Len(chain))

LEMMA ProcessedFacts ==
    ASSUME Lineage, Carried, ValidationData(chain[1].exts) # {}
    PROVE  /\ Processed.call = "set_validation_data" /\ Processed.version \in {4, 5}
           /\ Processed.version = Version /\ Provable(Processed)
           /\ Processed.proof.head = Len(chain) /\ Linked(Processed.descendants, Processed.root)
           /\ Processed.root = Processed.proof
           /\ \E i \in Nat : /\ ValidationData(HeadBlock.exts) = {i}
                             /\ HeadBlock.exts[i].proof.slot \in Nat
                             /\ Processed.proof.slot
                                   = SaturatingAdd(HeadBlock.exts[i].proof.slot, RelaySlotsPerParaBlock)
<1>1. Carries(HeadBlock.exts, Len(chain)) BY ForkFacts DEF Carried
<1>2. PICK i \in Nat : Bears(HeadBlock.exts, i) BY <1>1 DEF Carries
<1> DEFINE ext == HeadBlock.exts[i]
<1>3. ValidationData(HeadBlock.exts) = {i} /\ Provable(ext) /\ ext.version = Version BY <1>2 DEF Bears
<1>4. ext.call = "set_validation_data" /\ ext.version \in {4, 5} BY <1>3 DEF ValidationData
<1>5. (CHOOSE k \in ValidationData(HeadBlock.exts) : \A j \in ValidationData(HeadBlock.exts) : k <= j) = i
  BY <1>3
<1>6. Processed = ProcessInherent(ext, Len(chain)) BY <1>5 DEF Processed
<1>7. ext.proof.slot \in Nat BY <1>3 DEF Provable
<1> HIDE DEF ext
<1>8. /\ Provable(Processed) /\ Processed.call = ext.call /\ Processed.version = ext.version
      /\ Processed.proof.head = Len(chain)
      /\ Processed.proof.slot = SaturatingAdd(ext.proof.slot, RelaySlotsPerParaBlock)
      /\ Linked(Processed.descendants, Processed.root) /\ Processed.root = Processed.proof
  BY <1>3, <1>6, InherentProcessed
<1> QED BY <1>3, <1>4, <1>7, <1>8 DEF ext

LEMMA Provided ==
    ASSUME Lineage, Carried
    PROVE  DefaultProviders = IF ValidationData(chain[1].exts) = {} THEN <<Stamp>> ELSE <<Processed, Stamp>>
<1>1. ProvideTimestamp = <<Stamp>> BY DEF ProvideTimestamp, Stamp
<1>2. HeadBlock.runtime.parachain = chain[1].runtime.parachain BY ForkFacts
<1>3. Carries(HeadBlock.exts, Len(chain)) BY ForkFacts DEF Carried
<1>4. CASE ValidationData(chain[1].exts) = {}
  <2>1. ValidationData(HeadBlock.exts) = {} BY <1>3, <1>4 DEF Carries
  <2>2. ProvideValidationData = <<>> BY <2>1 DEF ProvideValidationData
  <2>3. <<>> \o <<Stamp>> = <<Stamp>> BY SeqOne, SeqNil
  <2> QED BY <1>1, <1>4, <2>2, <2>3 DEF DefaultProviders
<1>5. CASE ValidationData(chain[1].exts) # {}
  <2>1. chain[1].runtime.parachain BY <1>5, ForkBlockFacts
  <2>2. ValidationData(HeadBlock.exts) # {} BY <1>3, <1>5 DEF Carries, Bears
  <2>3. ProvideValidationData = <<Processed>> BY <1>2, <2>1, <2>2 DEF ProvideValidationData, Processed
  <2>4. <<Processed>> \o <<Stamp>> = <<Processed, Stamp>> BY SeqPair
  <2> QED BY <1>1, <1>5, <2>1, <2>3, <2>4 DEF DefaultProviders, IsParachain
<1> QED BY <1>4, <1>5

LEMMA ProvidedCarry ==
    ASSUME Lineage, Carried
    PROVE  /\ IsSeq(DefaultProviders) /\ Carries(DefaultProviders, Len(chain) + 1)
           /\ {i \in DOMAIN DefaultProviders : DefaultProviders[i].call = "set_timestamp"} # {}
           /\ \A i \in DOMAIN DefaultProviders :
                 DefaultProviders[i].call = "set_timestamp" => DefaultProviders[i] = Stamp
<1> DEFINE ps == DefaultProviders
<1>1. Stamp.call = "set_timestamp" BY DEF Stamp
<1> HIDE DEF ps
<1>2. CASE ValidationData(chain[1].exts) = {}
  <2>1. ps = <<Stamp>> BY <1>2, Provided DEF ps
  <2>2. IsSeq(ps) /\ Len(ps) = 1 /\ ps[1] = Stamp BY <2>1, SeqOne
  <2>3. DOMAIN ps = {1} BY <2>2, SeqShape
  <2>4. ValidationData(ps) = {} BY <1>1, <2>2, <2>3 DEF ValidationData
  <2>5. Carries(ps, Len(chain) + 1) BY <1>2, <2>4 DEF Carries
  <2> QED BY <1>1, <2>2, <2>3, <2>5 DEF ps
<1>3. CASE ValidationData(chain[1].exts) # {}
  <2>1. ps = <<Processed, Stamp>> BY <1>3, Provided DEF ps
  <2>2. IsSeq(ps) /\ Len(ps) = 2 /\ ps[1] = Processed /\ ps[2] = Stamp BY <2>1, SeqTwo
  <2>3. DOMAIN ps = {1, 2} BY <2>2, SeqShape
  <2>4. Processed.call = "set_validation_data" /\ Processed.version \in {4, 5} BY <1>3, ProcessedFacts
  <2>5. ValidationData(ps) = {1} BY <1>1, <2>2, <2>3, <2>4 DEF ValidationData
  <2>6. Bears(ps, 1) BY <1>3, <2>2, <2>5, ProcessedFacts DEF Bears
  <2>7. ps[1].proof.head = Len(chain) /\ Linked(ps[1].descendants, ps[1].root)
    BY <1>3, <2>2, ProcessedFacts
  <2>8. Len(chain) \in Nat BY ForkFacts
  <2>9. Carries(ps, Len(chain) + 1) BY <1>3, <2>6, <2>7, <2>8 DEF Carries
  <2> QED BY <1>1, <2>2, <2>3, <2>4, <2>9 DEF ps
<1> QED BY <1>2, <1>3


-----------------------------------------------------------------------------
\* The slot of the next header is the one its timestamp will have.
LEMMA NextSlotGiven ==
    ASSUME Lineage, Len(chain) <= MaxBlocks
    PROVE  /\ ~Slotted => CreateNextHeaderWithSlot = NULL
           /\ Slotted /\ Timed =>
                 /\ CreateNextHeaderWithSlot # NULL
                 /\ HeadBlock.time # NULL =>
                       CreateNextHeaderWithSlot
                           = (HeadBlock.time + HeadBlock.code.duration) \div HeadBlock.code.duration
<1>1. HeadBlock.runtime.consensus = chain[1].runtime.consensus BY ForkFacts
<1>2. ~Slotted => CreateNextHeaderWithSlot = NULL BY <1>1 DEF Slotted, CreateNextHeaderWithSlot
<1>3. ASSUME Slotted, Timed
      PROVE  /\ CreateNextHeaderWithSlot # NULL
             /\ HeadBlock.time # NULL =>
                   CreateNextHeaderWithSlot
                       = (HeadBlock.time + HeadBlock.code.duration) \div HeadBlock.code.duration
  <2> DEFINE d == HeadBlock.code.duration
             fallback == IF HeadBlock.runtime.consensus = "Aura" THEN FallbackDuration.para
                                                                ELSE FallbackDuration.relay
  <2>1. d \in Nat \ {0} /\ d <= chain[1].runtime.duration /\ chain[1].runtime.duration \in Nat \ {0}
    BY ForkFacts DEF ItsCodes
  <2>2. (IF cached # NULL THEN cached
         ELSE SlotDurationFromRuntime(HeadBlock.code, HeadBlock.runtime, fallback)) = d
    BY <1>3, DurationRead DEF Timed
  <2>3. CreateNextHeaderWithSlot = CalculateNextSlot(CurrentTimestamp, d)
    BY <1>1, <1>3, <2>2 DEF CreateNextHeaderWithSlot, Slotted
  <2> HIDE DEF d
  <2>4. CreateNextHeaderWithSlot = SaturatingAdd(CurrentTimestamp, d) \div d BY <2>3 DEF CalculateNextSlot
  <2>5. CASE HeadBlock.time = NULL
    <3>1. CurrentTimestamp \in Nat BY <2>5, InherentBounds DEF CurrentTimestamp, Lineage
    <3>2. SaturatingAdd(CurrentTimestamp, d) \in Nat BY <2>1, <3>1, InherentBounds DEF SaturatingAdd
    <3>3. CreateNextHeaderWithSlot \in Nat BY <2>1, <2>4, <3>2, DivOf
    <3> QED BY <2>5, <3>3, InherentBounds
  <2>6. CASE HeadBlock.time # NULL
    <3>1. /\ HeadBlock.time \in Nat
          /\ HeadBlock.time + (MaxBlocks + 2 - Len(chain)) * chain[1].runtime.duration <= MaxTime
      BY <1>3, <2>6 DEF Timed, Stamped
    <3>2. CurrentTimestamp = HeadBlock.time BY <2>6 DEF CurrentTimestamp
    <3>3. Len(chain) \in 1..MaxBlocks BY InherentBounds DEF Lineage
    <3>4. SaturatingAdd(HeadBlock.time, d) = HeadBlock.time + d BY <2>1, <3>1, <3>3, TimeLeft
    <3>5. CreateNextHeaderWithSlot = (HeadBlock.time + d) \div d BY <2>4, <3>2, <3>4
    <3>6. (HeadBlock.time + d) \div d \in Nat
      <4>1. HeadBlock.time + d \in Nat BY <2>1, <3>1
      <4> QED BY <2>1, <4>1, DivOf
    <3> QED BY <3>5, <3>6, InherentBounds DEF d
  <2> QED BY <2>5, <2>6
<1> QED BY <1>2, <1>3

\* The timestamp and the relay chain's slot that belong to that slot
LEMMA NextStamped ==
    ASSUME Lineage, Carried, Timed, Slotted, Len(chain) <= MaxBlocks, HeadBlock.time # NULL, NEW slot,
           slot = (HeadBlock.time + HeadBlock.code.duration) \div HeadBlock.code.duration
    PROVE  Stamped(slot, Stamp.time, HeadBlock.code.duration, DefaultProviders, Len(chain) + 1)
<1> DEFINE d == HeadBlock.code.duration
           b == HeadBlock.runtime.duration
           t == HeadBlock.time
<1>1. /\ d \in Nat \ {0} /\ d <= chain[1].runtime.duration /\ chain[1].runtime.duration \in Nat \ {0}
      /\ b \in Nat \ {0} /\ b <= chain[1].runtime.duration /\ d <= b
  BY ForkFacts DEF ItsCodes, Succeeds
<1>2. /\ t \in Nat /\ HeadBlock.slot = t \div b
      /\ t + (MaxBlocks + 2 - Len(chain)) * chain[1].runtime.duration <= MaxTime
      /\ \A i \in ValidationData(HeadBlock.exts) : HeadBlock.slot * b <= HeadBlock.exts[i].proof.slot
  BY DEF Timed, Stamped
<1>3. Stamp.time = SaturatingAdd(t, d) BY ProviderRead DEF Stamp, CurrentTimestamp
<1>4. slot = (t + d) \div d OBVIOUS
<1> HIDE DEF d, b, t
<1>5. Len(chain) \in 1..MaxBlocks BY InherentBounds DEF Lineage
<1>6. /\ Stamp.time = t + d
      /\ (t + d) + (MaxBlocks + 2 - (Len(chain) + 1)) * chain[1].runtime.duration <= MaxTime
  <2> DEFINE D == chain[1].runtime.duration
             n == Len(chain)
  <2>1. D \in Nat /\ d \in Nat /\ d <= D /\ t \in Nat /\ n \in 1..MaxBlocks
        /\ t + (MaxBlocks + 2 - n) * D <= MaxTime
    BY <1>1, <1>2, <1>5
  <2> HIDE DEF D, n
  <2>2. SaturatingAdd(t, d) = t + d /\ (t + d) + (MaxBlocks + 2 - (n + 1)) * D <= MaxTime BY <2>1, TimeLeft
  <2> QED BY <1>3, <2>2 DEF D, n
<1>7. t + d \in Nat /\ t + d <= MaxTime
  BY <1>1, <1>2, <1>3, <1>6, InherentBounds DEF SaturatingAdd
<1>8. ASSUME NEW i \in ValidationData(DefaultProviders) PROVE slot * d <= DefaultProviders[i].proof.slot
  <2>1. ValidationData(chain[1].exts) # {}
    BY <1>8, ProvidedCarry DEF Carries
  <2>2. DefaultProviders[1] = Processed /\ i = 1
    <3>1. DefaultProviders[1] = Processed BY <2>1, Provided, SeqTwo
    <3>2. ValidationData(DefaultProviders) = {1} BY <1>5, <2>1, ProvidedCarry DEF Carries, Bears
    <3> QED BY <1>8, <3>1, <3>2
  <2>3. PICK j \in Nat : /\ ValidationData(HeadBlock.exts) = {j} /\ HeadBlock.exts[j].proof.slot \in Nat
                         /\ Processed.proof.slot
                               = SaturatingAdd(HeadBlock.exts[j].proof.slot, RelaySlotsPerParaBlock)
    BY <2>1, ProcessedFacts
  <2> DEFINE p == HeadBlock.exts[j].proof.slot
  <2>4. p \in Nat /\ (t \div b) * b <= p BY <1>2, <2>3
  <2>5. Processed.proof.slot = IF p + 2 > MaxTime THEN MaxTime ELSE p + 2
    BY <2>3 DEF SaturatingAdd, RelaySlotsPerParaBlock
  <2> HIDE DEF p
  <2>6. chain[1].runtime.duration <= 2 BY <2>1, ForkBlockFacts DEF RelaySlotsPerParaBlock
  <2>7. d \in {1, 2} /\ b \in {1, 2} BY <1>1, <2>6
  <2>8. slot * d <= p + 2 BY <1>1, <1>2, <1>4, <2>4, <2>7, KeepsUp
  <2>9. slot * d <= t + d BY <1>1, <1>4, <1>7, DivOf
  <2>10. slot \in Nat /\ slot * d \in Nat BY <1>1, <1>4, <1>7, DivOf
  <2>11. slot * d <= MaxTime BY <1>7, <2>9, <2>10, InherentBounds
  <2> QED BY <2>2, <2>5, <2>8, <2>11
<1> QED BY <1>4, <1>6, <1>7, <1>8 DEF Stamped, d

\* A fork of a genesis: the first timestamp is the wall clock's.
LEMMA FirstStamped ==
    ASSUME Lineage, Carried, Timed, Slotted, Len(chain) <= MaxBlocks, HeadBlock.time = NULL, NEW slot,
           slot = Stamp.time \div HeadBlock.code.duration
    PROVE  Stamped(slot, Stamp.time, HeadBlock.code.duration, DefaultProviders, Len(chain) + 1)
<1> DEFINE d == HeadBlock.code.duration
<1>1. d \in Nat \ {0} /\ d <= chain[1].runtime.duration /\ chain[1].runtime.duration \in Nat \ {0}
  BY ForkFacts DEF ItsCodes
<1>2. Len(chain) = 1 /\ chain[1].time = NULL /\ 1 \in 1..MaxBlocks
  <2>1. Len(chain) = 1 BY DEF Timed
  <2>2. chain[1].time = NULL BY <2>1, ForkFacts
  <2> QED BY <2>1, <2>2, InherentBounds
<1>3. Stamp.time = SaturatingAdd(clock, d) BY ProviderRead DEF Stamp, CurrentTimestamp
<1> HIDE DEF d
<1>4. clock \in Nat /\ clock <= MaxClock /\ MaxClock \in Nat /\ MaxBlocks \in Nat /\ MaxTime \in Nat
  BY InherentBounds DEF Lineage
<1>5. MaxClock + (MaxBlocks + 1) * chain[1].runtime.duration <= MaxTime BY <1>2, ForkBlockFacts
<1>6. (MaxBlocks + 1) * chain[1].runtime.duration \in Nat /\ MaxBlocks + 2 - 1 = MaxBlocks + 1
  BY <1>1, <1>4, OneMore
<1>7. clock + (MaxBlocks + 2 - 1) * chain[1].runtime.duration <= MaxTime BY <1>4, <1>5, <1>6
<1>8. /\ Stamp.time = clock + d
      /\ (clock + d) + (MaxBlocks + 2 - (1 + 1)) * chain[1].runtime.duration <= MaxTime
  <2> DEFINE D == chain[1].runtime.duration
             n == 1
  <2>1. D \in Nat /\ d \in Nat /\ d <= D /\ n \in 1..MaxBlocks /\ clock + (MaxBlocks + 2 - n) * D <= MaxTime
    BY <1>1, <1>2, <1>7
  <2> HIDE DEF D, n
  <2>2. SaturatingAdd(clock, d) = clock + d /\ (clock + d) + (MaxBlocks + 2 - (n + 1)) * D <= MaxTime
    BY <1>4, <2>1, TimeLeft
  <2> QED BY <1>3, <2>2 DEF D, n
<1>9. ValidationData(chain[1].exts) = {} BY <1>2, ForkBlockFacts
<1>10. ValidationData(DefaultProviders) = {} BY <1>9, ProvidedCarry DEF Carries
<1> QED BY <1>1, <1>2, <1>4, <1>8, <1>10 DEF Stamped, d

\* The runtime takes what the providers make for it.
LEMMA AllAccepted ==
    ASSUME Lineage, Carried, Synced, Timed, builder.phase = "initialized",
           Len(chain) <= MaxBlocks, HeadBlock.time # NULL, NEW i \in DOMAIN DefaultProviders
    PROVE  Accepts(storage.code, builder.slot, DefaultProviders[i], SubSeq(DefaultProviders, 1, i - 1))
<1> DEFINE d == HeadBlock.code.duration
           before == SubSeq(DefaultProviders, 1, i - 1)
<1>1. storage.code = HeadBlock.code /\ storage.updated = FALSE BY DEF Synced
<1>2. builder.slot # NULL =>
         /\ builder.slot = (HeadBlock.time + d) \div d
         /\ Stamped(builder.slot, Stamp.time, d, DefaultProviders, Len(chain) + 1)
  <2> SUFFICES ASSUME builder.slot # NULL
               PROVE  /\ builder.slot = (HeadBlock.time + d) \div d
                      /\ Stamped(builder.slot, Stamp.time, d, DefaultProviders, Len(chain) + 1)
    OBVIOUS
  <2>1. Slotted BY DEF Synced
  <2>2. builder.slot = (HeadBlock.time + d) \div d BY <2>1 DEF Timed
  <2> QED BY <2>1, <2>2, NextStamped
<1>3. Stamp.call = "set_timestamp" BY DEF Stamp
<1> HIDE DEF d
<1>4. CASE ValidationData(chain[1].exts) = {}
  <2>1. DefaultProviders = <<Stamp>> BY <1>4, Provided
  <2>2. DefaultProviders[i] = Stamp BY <2>1, SeqOne, SeqShape
  <2>3. ValidationData(HeadBlock.exts) = {} BY <1>4, ForkFacts DEF Carried, Carries
  <2>4. AcceptsTimestamp(storage.code, builder.slot, Stamp, before)
    BY <1>1, <1>2, <2>3 DEF AcceptsTimestamp, Stamped, d
  <2> QED BY <1>3, <2>2, <2>4 DEF Accepts
<1>5. CASE ValidationData(chain[1].exts) # {}
  <2>1. DefaultProviders = <<Processed, Stamp>> BY <1>5, Provided
  <2>2. i \in {1, 2} /\ DefaultProviders[1] = Processed /\ DefaultProviders[2] = Stamp
    BY <2>1, SeqTwo, SeqShape
  <2>3. Processed.call = "set_validation_data" /\ Processed.root = Processed.proof
        /\ Linked(Processed.descendants, Processed.root)
    BY <1>5, ProcessedFacts
  <2>4. CASE i = 1
    <3>1. Len(chain) + 1 > 1 BY ForkFacts
    <3>2. 1 \in ValidationData(DefaultProviders) BY <1>5, <3>1, ProvidedCarry DEF Carries, Bears
    <3>3. builder.slot # NULL => builder.slot * storage.code.duration <= Processed.proof.slot
      BY <1>1, <1>2, <2>2, <3>2 DEF Stamped, d
    <3>4. AcceptsValidationData(storage.code, builder.slot, Processed)
      BY <2>3, <3>3 DEF AcceptsValidationData
    <3> QED BY <2>2, <2>3, <2>4, <3>4 DEF Accepts
  <2>5. CASE i = 2
    <3>1. 1 \in DOMAIN before /\ before[1] = Processed BY <2>1, <2>5, SubHasFirst
    <3>2. AcceptsTimestamp(storage.code, builder.slot, Stamp, before)
      BY <1>1, <1>2, <2>3, <3>1 DEF AcceptsTimestamp, Stamped, d
    <3> QED BY <1>3, <2>2, <2>5, <3>2 DEF Accepts
  <2> QED BY <2>2, <2>4, <2>5
<1> QED BY <1>4, <1>5


-----------------------------------------------------------------------------
\* A build that is given up leaves its writes behind; from then on nothing is claimed of the next ones.
LEMMA AbandonKeeps ==
    ASSUME Lineage, Carried, Excused, Abandon, chain' = chain, clock' = clock,
           DOMAIN storage' = DOMAIN storage, storage'.code = storage.code,
           \/ refused' = refused
           \/ \E call : /\ refused' = Append(refused, [block |-> Len(chain) + 1, call |-> call])
                        /\ abandoned = 0 => HeadBlock.time = NULL
    PROVE  InherentsInv'
<1>1. builder' = NoBuilder /\ abandoned' = abandoned + 1 /\ abandoned \in Nat BY DEF Abandon, Excused
<1>2. Lineage' BY DEF Lineage, ItsCodes, Succeeds, HeadBlock
<1>3. Carried' BY DEF Carried, Carries, Bears, Version
<1>4. Building' BY <1>1 DEF Building
<1>5. IsSeq(refused) /\ Len(refused) \in Nat /\ Len(refused) <= abandoned BY SeqShape DEF Excused
<1>6. CASE refused' = refused
  <2>1. Len(refused) # abandoned + 1 BY <1>1, <1>5
  <2> QED BY <1>1, <1>2, <1>3, <1>4, <1>5, <1>6, <2>1 DEF InherentsInv, Excused
<1>7. ASSUME NEW call, refused' = Append(refused, [block |-> Len(chain) + 1, call |-> call]),
             abandoned = 0 => HeadBlock.time = NULL
      PROVE  InherentsInv'
  <2> DEFINE r == [block |-> Len(chain) + 1, call |-> call]
  <2>1. /\ IsSeq(refused') /\ Len(refused') = Len(refused) + 1 /\ refused'[Len(refused) + 1] = r
        /\ \A i \in 1..Len(refused) : refused'[i] = refused[i]
    BY <1>5, <1>7, SeqAppended
  <2>2. r.block - 1 = Len(chain) /\ Len(chain) \in 1..Len(chain) /\ chain[Len(chain)] = HeadBlock
    BY ForkFacts
  <2> HIDE DEF r
  <2>3. CASE abandoned = 0
    <3>1. refused'[1] = r BY <1>5, <2>1, <2>3
    <3>2. Excused' BY <1>1, <1>5, <1>7, <2>1, <2>2, <2>3, <3>1 DEF Excused
    <3> QED BY <1>1, <1>2, <1>3, <1>4, <2>3, <3>2 DEF InherentsInv
  <2>4. CASE abandoned # 0
    <3>1. Len(refused') = abandoned' => Len(refused) = abandoned /\ Len(refused) > 0 BY <1>1, <1>5, <2>1, <2>4
    <3>2. Len(refused) > 0 => refused'[1] = refused[1] BY <1>5, <2>1
    <3>3. Excused' BY <1>1, <1>5, <2>1, <3>1, <3>2 DEF Excused
    <3>4. abandoned' # 0 BY <1>1
    <3> QED BY <1>1, <1>2, <1>3, <1>4, <3>3, <3>4 DEF InherentsInv
  <2> QED BY <2>3, <2>4
<1> QED BY <1>6, <1>7

LEMMA TickKeeps == ASSUME InherentsInv, Tick PROVE InherentsInv'
<1>1. Lineage' BY InherentBounds DEF InherentsInv, Tick, Lineage, ItsCodes, Succeeds, HeadBlock
<1>2. Carried' /\ Building' /\ Excused'
  BY DEF InherentsInv, Tick, Carried, Building, Carries, Bears, Version, Excused
<1>3. abandoned = 0 => Synced' /\ Timed'
  BY DEF InherentsInv, Tick, Synced, Timed, HeadBlock, Slotted, Stamped
<1> QED BY <1>1, <1>2, <1>3 DEF InherentsInv, Tick

LEMMA WarmupKeeps == ASSUME InherentsInv, Warmup PROVE InherentsInv'
<1>1. Lineage' BY DEF InherentsInv, Warmup, Lineage, ItsCodes, Succeeds, HeadBlock
<1>2. Carried' /\ Building' /\ Excused'
  <2>1. UNCHANGED <<chain, builder, abandoned, refused>> BY DEF Warmup
  <2> QED BY <2>1 DEF InherentsInv, Carried, Building, Carries, Bears, Version, Excused
<1>3. Slotted => cached' = HeadBlock.code.duration /\ provider' = HeadBlock.code.duration
  BY DurationRead DEF Warmup, InherentsInv
<1>4. abandoned = 0 => Synced' BY DEF InherentsInv, Warmup, Synced, HeadBlock, Slotted
<1>5. abandoned = 0 => Timed'
  BY <1>3 DEF InherentsInv, Warmup, Timed, HeadBlock, Slotted, Stamped
<1> QED BY <1>1, <1>2, <1>4, <1>5 DEF InherentsInv, Warmup

LEMMA BeginBuildKeeps == ASSUME InherentsInv, BeginBuild PROVE InherentsInv'
<1> DEFINE slot == CreateNextHeaderWithSlot
<1>1. builder = NoBuilder /\ Len(chain) <= MaxBlocks /\ builder' = [phase |-> "created", slot |-> slot, exts |-> <<>>]
  BY DEF BeginBuild
<1>2. UNCHANGED <<chain, storage, cached, provider, clock, abandoned, refused>> BY DEF BeginBuild
<1>3. /\ ~Slotted => slot = NULL
      /\ Slotted /\ abandoned = 0 =>
            /\ slot # NULL
            /\ HeadBlock.time # NULL =>
                  slot = (HeadBlock.time + HeadBlock.code.duration) \div HeadBlock.code.duration
  BY <1>1, NextSlotGiven DEF InherentsInv
<1> HIDE DEF slot
<1>4. /\ DOMAIN builder' = {"phase", "slot", "exts"} /\ builder'.phase = "created"
      /\ builder'.slot = slot /\ builder'.exts = <<>>
  BY <1>1
<1>5. Lineage' BY <1>2 DEF InherentsInv, Lineage, ItsCodes, Succeeds, HeadBlock
<1>6. Carried' /\ Excused' BY <1>2 DEF InherentsInv, Carried, Carries, Bears, Version, Excused
<1>7. Building' BY <1>1, <1>2, <1>4 DEF Building
<1>8. builder.phase = "none" BY <1>1 DEF NoBuilder
<1>9. abandoned = 0 => Synced' BY <1>2, <1>3, <1>4, <1>8 DEF InherentsInv, Synced, HeadBlock, Slotted
<1>10. abandoned = 0 => Timed'
  BY <1>2, <1>3, <1>4, <1>8 DEF InherentsInv, Timed, HeadBlock, Slotted, Stamped
<1> QED BY <1>2, <1>5, <1>6, <1>7, <1>9, <1>10 DEF InherentsInv


LEMMA InitializeKeeps == ASSUME InherentsInv, Initialize PROVE InherentsInv'
<1>1. /\ builder.phase = "created" /\ UNCHANGED <<chain, cached, provider, clock>>
      /\ Lineage /\ Carried /\ Building /\ Excused
  BY DEF Initialize, InherentsInv
<1>2. CASE /\ builder' = [builder EXCEPT !.phase = "initialized"]
           /\ storage' = [storage EXCEPT !.slot = builder.slot]
           /\ UNCHANGED <<abandoned, refused>>
  <2>1. DOMAIN builder = {"phase", "slot", "exts"} /\ builder.exts = <<>> /\ Len(chain) <= MaxBlocks
    BY <1>1 DEF Building, NoBuilder
  <2>2. /\ DOMAIN builder' = {"phase", "slot", "exts"} /\ builder'.phase = "initialized"
        /\ builder'.slot = builder.slot /\ builder'.exts = <<>>
    BY <1>2, <2>1
  <2>3. DOMAIN storage = {"slot", "time", "updated", "code", "included"} BY <1>1 DEF Lineage
  <2>4. /\ DOMAIN storage' = DOMAIN storage /\ storage'.slot = builder.slot /\ storage'.updated = storage.updated
        /\ storage'.code = storage.code /\ storage'.time = storage.time
    BY <1>2, <2>3
  <2>5. Lineage' BY <1>1, <2>4 DEF Lineage, ItsCodes, Succeeds, HeadBlock
  <2>6. Carried' /\ Excused' BY <1>1, <1>2 DEF Carried, Carries, Bears, Version, Excused
  <2>7. Building' BY <1>1, <2>1, <2>2 DEF Building
  <2>8. builder.phase = "created" BY <1>1
  <2>9. abandoned = 0 => Synced'
    BY <1>1, <2>2, <2>4, <2>8 DEF InherentsInv, Synced, HeadBlock, Slotted
  <2>10. abandoned = 0 => Timed'
    BY <1>1, <2>2, <2>8 DEF InherentsInv, Timed, HeadBlock, Slotted, Stamped
  <2> QED BY <1>2, <2>5, <2>6, <2>7, <2>9, <2>10 DEF InherentsInv
<1>3. CASE /\ ~(builder.slot = NULL \/ storage.slot = NULL \/ storage.slot < builder.slot)
           /\ Abandon
           /\ refused' = Append(refused, [block |-> Len(chain) + 1, call |-> "initialize_block"])
           /\ UNCHANGED storage
  <2>1. ASSUME abandoned = 0, HeadBlock.time # NULL PROVE FALSE
    <3> DEFINE d == HeadBlock.code.duration
               b == HeadBlock.runtime.duration
               t == HeadBlock.time
    <3>1. Slotted BY <1>1, <1>3, <2>1 DEF InherentsInv, Synced
    <3>2. storage.slot = HeadBlock.slot BY <1>1, <2>1 DEF InherentsInv, Synced
    <3>3. t \in Nat /\ HeadBlock.slot = t \div b /\ builder.slot = (t + d) \div d
      BY <1>1, <2>1, <3>1 DEF InherentsInv, Timed, Stamped
    <3>4. d \in Nat \ {0} /\ b \in Nat \ {0} /\ d <= b BY <1>1, ForkFacts DEF ItsCodes, Succeeds
    <3> HIDE DEF d, b, t
    <3>5. t \div b <= t \div d /\ (t + d) \div d = (t \div d) + 1 BY <3>3, <3>4, SlotsGrow, NextSlotIs
    <3>6. t \div b \in Nat /\ t \div d \in Nat BY <3>3, <3>4, DivOf
    <3>7. storage.slot < builder.slot BY <3>2, <3>3, <3>5, <3>6
    <3> QED BY <1>3, <3>7
  <2> QED BY <1>1, <1>3, <2>1, AbandonKeeps
<1> QED BY <1>2, <1>3 DEF Initialize

LEMMA FailuresKeep == ASSUME InherentsInv, ProviderFails \/ ExecutionFails PROVE InherentsInv'
BY AbandonKeeps DEF InherentsInv, ProviderFails, ExecutionFails

\* The providers' inherents are all taken, or one is refused and the build given up.
LEMMA ApplyInherentsKeeps == ASSUME InherentsInv, ApplyInherents PROVE InherentsInv'
<1> DEFINE ps == DefaultProviders
           Good(i) == Accepts(storage.code, builder.slot, ps[i], SubSeq(ps, 1, i - 1))
           bad == {i \in DOMAIN ps : ~Good(i)}
           applied == IF bad = {} THEN ps
                      ELSE SubSeq(ps, 1, (CHOOSE i \in bad : \A j \in bad : i <= j) - 1)
           times == {i \in DOMAIN applied : applied[i].call = "set_timestamp"}
           stamped == IF times = {} THEN storage.time ELSE applied[CHOOSE i \in times : TRUE].time
           included == bad = {} /\ MockRelayChainInherent
<1>1. /\ builder.phase = "initialized" /\ UNCHANGED <<chain, cached, clock>>
      /\ provider' = ProviderDuration /\ Lineage /\ Carried /\ Building /\ Excused
  BY DEF ApplyInherents, InherentsInv
<1>2. /\ storage' = [storage EXCEPT !.time = stamped, !.updated = storage.updated \/ times # {},
                                    !.included = included]
      /\ IF bad = {}
         THEN /\ builder' = [builder EXCEPT !.phase = "inherents_applied", !.exts = builder.exts \o ps]
              /\ UNCHANGED <<abandoned, refused>>
         ELSE /\ Abandon
              /\ refused' = Append(refused, [block |-> Len(chain) + 1, call |-> ps[Len(applied) + 1].call])
  BY DEF ApplyInherents
<1>3. /\ DOMAIN builder = {"phase", "slot", "exts"} /\ builder.exts = <<>> /\ Len(chain) <= MaxBlocks
      /\ DOMAIN storage = {"slot", "time", "updated", "code", "included"}
  BY <1>1 DEF Building, Lineage, NoBuilder
<1>4. abandoned = 0 /\ HeadBlock.time # NULL => bad = {}
  BY <1>1, <1>3, AllAccepted DEF InherentsInv
<1>5. bad = {} => applied = ps OBVIOUS
<1>6. /\ IsSeq(ps) /\ Carries(ps, Len(chain) + 1)
      /\ \A i \in DOMAIN ps : ps[i].call = "set_timestamp" => ps[i] = Stamp
      /\ {i \in DOMAIN ps : ps[i].call = "set_timestamp"} # {}
  BY <1>1, ProvidedCarry
<1>7. ASSUME bad = {} PROVE stamped = Stamp.time
  <2>1. times = {i \in DOMAIN ps : ps[i].call = "set_timestamp"} BY <1>5, <1>7
  <2> HIDE DEF applied, bad
  <2>2. \A i \in times : applied[i] = Stamp BY <1>5, <1>6, <1>7, <2>1
  <2>3. times # {} BY <1>6, <2>1
  <2> HIDE DEF times
  <2>4. (CHOOSE i \in times : TRUE) \in times BY <2>3
  <2> QED BY <2>2, <2>3, <2>4
<1>8. ASSUME bad = {}, builder.slot # NULL PROVE builder.slot = Stamp.time \div storage.code.duration
  <2>1. PICK i \in DOMAIN ps : ps[i].call = "set_timestamp" BY <1>6
  <2>2. ps[i] = Stamp /\ Stamp.call = "set_timestamp" BY <1>6, <2>1
  <2>3. Good(i) BY <1>8, <2>1
  <2>4. AcceptsTimestamp(storage.code, builder.slot, Stamp, SubSeq(ps, 1, i - 1))
    BY <2>2, <2>3 DEF Accepts
  <2> QED BY <1>8, <2>4 DEF AcceptsTimestamp
<1> HIDE DEF ps, bad, times, stamped, applied, included
<1>9. DOMAIN storage' = DOMAIN storage /\ storage'.code = storage.code /\ storage'.slot = storage.slot
      /\ storage'.time = stamped
  BY <1>2, <1>3
<1>10. CASE bad # {}
  BY <1>1, <1>2, <1>4, <1>9, <1>10, AbandonKeeps
<1>11. CASE bad = {}
  <2>1. builder' = [builder EXCEPT !.phase = "inherents_applied", !.exts = builder.exts \o ps]
        /\ UNCHANGED <<abandoned, refused>>
    BY <1>2, <1>11
  <2>2. builder.exts \o ps = ps BY <1>3, <1>6, SeqNil
  <2>3. /\ DOMAIN builder' = {"phase", "slot", "exts"} /\ builder'.phase = "inherents_applied"
        /\ builder'.slot = builder.slot /\ builder'.exts = ps
    BY <1>3, <2>1, <2>2
  <2>4. Lineage' BY <1>1, <1>9 DEF Lineage, ItsCodes, Succeeds, HeadBlock
  <2>5. Carried' /\ Excused' BY <1>1, <2>1 DEF Carried, Carries, Bears, Version, Excused
  <2>6. Building' BY <1>1, <1>3, <1>6, <2>3 DEF Building, Carries, Bears, Version
  <2>7. builder.phase = "initialized" BY <1>1
  <2>8. abandoned = 0 => Synced'
    BY <1>1, <1>9, <2>3, <2>7 DEF InherentsInv, Synced, HeadBlock, Slotted
  <2>9. ASSUME abandoned = 0, Slotted
         PROVE  Stamped(builder.slot, Stamp.time, HeadBlock.code.duration, ps, Len(chain) + 1)
    <3>1. Timed /\ storage.code = HeadBlock.code BY <2>7, <2>9 DEF InherentsInv, Synced
    <3>2. builder.slot # NULL
          /\ (HeadBlock.time # NULL =>
                 builder.slot = (HeadBlock.time + HeadBlock.code.duration) \div HeadBlock.code.duration)
      BY <2>7, <2>9, <3>1 DEF Timed
    <3>3. CASE HeadBlock.time # NULL BY <1>1, <1>3, <2>9, <3>1, <3>2, <3>3, NextStamped DEF ps
    <3>4. CASE HeadBlock.time = NULL
      BY <1>1, <1>3, <1>8, <1>11, <2>9, <3>1, <3>2, <3>4, FirstStamped DEF ps
    <3> QED BY <3>3, <3>4
  <2>10. abandoned = 0 => Timed'
    <3> SUFFICES ASSUME abandoned = 0, Slotted PROVE Timed' BY <1>1 DEF Timed, Slotted
    <3>1. Timed /\ provider' = HeadBlock.code.duration BY <1>1, ProviderRead DEF InherentsInv
    <3> QED BY <1>1, <1>7, <1>9, <1>11, <2>3, <2>9, <3>1 DEF Timed, HeadBlock, Slotted, Stamped
  <2> QED BY <2>1, <2>4, <2>5, <2>6, <2>8, <2>10 DEF InherentsInv
<1> QED BY <1>10, <1>11


-----------------------------------------------------------------------------
\* A further extrinsic leaves the validation data where it is.
LEMMA StillCarried ==
    ASSUME NEW exts, IsSeq(exts), NEW n, NEW e, e.call # "set_validation_data"
    PROVE  /\ ValidationData(Append(exts, e)) = ValidationData(exts)
           /\ \A i \in ValidationData(exts) : Append(exts, e)[i] = exts[i]
           /\ Carries(exts, n) => Carries(Append(exts, e), n)
<1> DEFINE more == Append(exts, e)
<1>1. Len(exts) \in Nat /\ DOMAIN exts = 1..Len(exts) BY SeqShape
<1>2. /\ IsSeq(more) /\ Len(more) = Len(exts) + 1 /\ more[Len(exts) + 1] = e
      /\ \A i \in 1..Len(exts) : more[i] = exts[i]
  BY SeqAppended
<1> HIDE DEF more
<1>3. DOMAIN more = 1..(Len(exts) + 1) BY <1>2, SeqShape
<1>4. ValidationData(more) = ValidationData(exts) BY <1>1, <1>2, <1>3 DEF ValidationData
<1>5. \A i \in ValidationData(exts) : more[i] = exts[i] BY <1>1, <1>2 DEF ValidationData
<1>6. \A i \in Nat : Bears(exts, i) => Bears(more, i) /\ more[i] = exts[i] BY <1>4, <1>5 DEF Bears
<1>7. Carries(exts, n) => Carries(more, n) BY <1>4, <1>6 DEF Carries
<1> QED BY <1>4, <1>5, <1>7 DEF more

LEMMA ApplyExtrinsicKeeps == ASSUME InherentsInv, NEW tx \in Txs, ApplyExtrinsic(tx) PROVE InherentsInv'
<1> DEFINE e == [call |-> tx]
           more == Append(builder.exts, e)
           code == IF tx = "set_code" THEN chain[1].upgrade ELSE storage.code
<1>1. /\ builder.phase = "inherents_applied" /\ UNCHANGED <<chain, cached, provider, clock, abandoned, refused>>
      /\ builder' = [builder EXCEPT !.exts = more] /\ storage' = [storage EXCEPT !.code = code]
      /\ Lineage /\ Carried /\ Building /\ Excused
  BY DEF ApplyExtrinsic, InherentsInv
<1>2. /\ DOMAIN builder = {"phase", "slot", "exts"} /\ IsSeq(builder.exts) /\ Len(chain) <= MaxBlocks
      /\ Carries(builder.exts, Len(chain) + 1)
      /\ DOMAIN storage = {"slot", "time", "updated", "code", "included"}
  BY <1>1 DEF Building, Lineage, NoBuilder
<1>3. e.call = tx /\ tx # "set_validation_data" BY InherentBounds
<1> HIDE DEF e
<1>4. /\ IsSeq(more) /\ Len(more) = Len(builder.exts) + 1 /\ more[Len(builder.exts) + 1] = e
      /\ \A i \in 1..Len(builder.exts) : more[i] = builder.exts[i]
  BY <1>2, SeqAppended
<1>5. /\ ValidationData(more) = ValidationData(builder.exts) /\ Carries(more, Len(chain) + 1)
      /\ \A i \in ValidationData(builder.exts) : more[i] = builder.exts[i]
  BY <1>2, <1>3, StillCarried
<1>6. /\ Len(builder.exts) \in Nat /\ DOMAIN builder.exts = 1..Len(builder.exts)
      /\ DOMAIN more = 1..(Len(builder.exts) + 1)
  BY <1>2, <1>4, SeqShape
<1> HIDE DEF more
<1>7. /\ DOMAIN builder' = {"phase", "slot", "exts"} /\ builder'.phase = "inherents_applied"
      /\ builder'.slot = builder.slot /\ builder'.exts = more
  BY <1>1, <1>2
<1>8. /\ DOMAIN storage' = DOMAIN storage /\ storage'.code = code /\ storage'.slot = storage.slot
      /\ storage'.time = storage.time
  BY <1>1, <1>2
<1>9. code \in ItsCodes /\ Succeeds(code, HeadBlock.code) BY <1>1 DEF Lineage, ItsCodes, Succeeds
<1>10. Lineage' BY <1>1, <1>8, <1>9 DEF Lineage, ItsCodes, Succeeds, HeadBlock
<1>11. Carried' /\ Excused' BY <1>1 DEF Carried, Carries, Bears, Version, Excused
<1>12. Building' BY <1>1, <1>2, <1>4, <1>5, <1>7 DEF Building, Carries, Bears, Version
<1>13. ASSUME abandoned = 0
       PROVE  code = HeadBlock.code \/ \E i \in DOMAIN more : more[i].call = "set_code"
  <2>1. CASE tx = "set_code" BY <1>3, <1>4, <1>6, <2>1
  <2>2. CASE tx # "set_code"
    <3>1. storage.code = HeadBlock.code \/ \E i \in DOMAIN builder.exts : builder.exts[i].call = "set_code"
      BY <1>1, <1>13 DEF InherentsInv, Synced
    <3> QED BY <1>4, <1>6, <2>2, <3>1
  <2> QED BY <2>1, <2>2
<1> HIDE DEF code
<1>14. abandoned = 0 => Synced'
  BY <1>1, <1>7, <1>8, <1>13 DEF InherentsInv, Synced, HeadBlock, Slotted
<1>15. abandoned = 0 => Timed'
  <2> SUFFICES ASSUME abandoned = 0, Slotted PROVE Timed' BY <1>1 DEF Timed, Slotted
  <2>1. Timed /\ Stamped(builder.slot, storage.time, HeadBlock.code.duration, builder.exts, Len(chain) + 1)
    BY <1>1 DEF InherentsInv, Timed
  <2>2. Stamped(builder.slot, storage.time, HeadBlock.code.duration, more, Len(chain) + 1)
    BY <1>5, <2>1 DEF Stamped
  <2> QED BY <1>1, <1>7, <1>8, <2>1, <2>2 DEF Timed, HeadBlock, Slotted, Stamped
<1> QED BY <1>1, <1>10, <1>11, <1>12, <1>14, <1>15 DEF InherentsInv

LEMMA FinalizeKeeps == ASSUME InherentsInv, Finalize PROVE InherentsInv'
<1> DEFINE block == [runtime |-> HeadBlock.code, code |-> storage.code, slot |-> builder.slot,
                     time |-> storage.time, exts |-> builder.exts, upgrade |-> chain[1].upgrade]
           upgraded == \E i \in DOMAIN builder.exts : builder.exts[i].call = "set_code"
           n == Len(chain)
<1>1. /\ builder.phase = "inherents_applied" /\ UNCHANGED <<clock, abandoned, refused>>
      /\ chain' = Append(chain, block) /\ storage' = [storage EXCEPT !.updated = FALSE, !.included = FALSE]
      /\ builder' = NoBuilder
      /\ cached' = (IF upgraded THEN NULL ELSE cached) /\ provider' = (IF upgraded THEN NULL ELSE provider)
      /\ Lineage /\ Carried /\ Building /\ Excused
  BY DEF Finalize, InvalidateCache, InherentsInv
<1>2. /\ block.runtime = HeadBlock.code /\ block.code = storage.code /\ block.slot = builder.slot
      /\ block.time = storage.time /\ block.exts = builder.exts
  OBVIOUS
<1> HIDE DEF block
<1>3. /\ n <= MaxBlocks /\ Carries(builder.exts, n + 1)
      /\ DOMAIN storage = {"slot", "time", "updated", "code", "included"}
  BY <1>1 DEF Building, Lineage, NoBuilder
<1>4. n \in Nat \ {0} /\ HeadBlock.code \in ItsCodes BY <1>1, ForkFacts
<1>5. /\ IsSeq(chain') /\ Len(chain') = n + 1 /\ chain'[n + 1] = block
      /\ \A i \in 1..n : chain'[i] = chain[i]
  BY <1>1, SeqAppended DEF Lineage
<1>6. chain'[1] = chain[1] /\ HeadBlock' = block BY <1>4, <1>5 DEF HeadBlock
<1>7. /\ DOMAIN storage' = DOMAIN storage /\ storage'.slot = storage.slot /\ storage'.updated = FALSE
      /\ storage'.code = storage.code
  BY <1>1, <1>3
<1> HIDE DEF n
<1>8. Lineage'
  <2>1. storage.code \in ItsCodes /\ Succeeds(storage.code, HeadBlock.code) BY <1>1 DEF Lineage
  <2>2. \A i \in 1..(n + 1) :
           {chain'[i].runtime, chain'[i].code} \subseteq ItsCodes /\ Succeeds(chain'[i].code, chain'[i].runtime)
    <3> SUFFICES ASSUME NEW i \in 1..(n + 1)
                 PROVE  {chain'[i].runtime, chain'[i].code} \subseteq ItsCodes
                        /\ Succeeds(chain'[i].code, chain'[i].runtime)
      OBVIOUS
    <3>1. CASE i = n + 1 BY <1>2, <1>4, <1>5, <2>1, <3>1
    <3>2. CASE i \in 1..n BY <1>1, <1>5, <3>2 DEF Lineage, n
    <3> QED BY <1>4, <3>1, <3>2
  <2>3. ItsCodes' = ItsCodes BY <1>6 DEF ItsCodes
  <2>4. Succeeds(storage.code, HeadBlock.code)' BY <1>2, <1>6, <1>7 DEF Succeeds
  <2>5. n + 1 \in 1..(MaxBlocks + 1) BY <1>3, <1>4, InherentBounds
  <2>6. \A i \in 1..Len(chain') :
           {chain'[i].runtime, chain'[i].code} \subseteq ItsCodes'
           /\ Succeeds(chain[i].code, chain[i].runtime)'
    BY <1>5, <1>6, <2>2, <2>3 DEF Succeeds
  <2>7. \E c \in ForkedChains : chain'[1] = ForkBlock(c) BY <1>1, <1>6 DEF Lineage
  <2>8. clock' \in 0..MaxClock BY <1>1 DEF Lineage
  <2>9. storage'.code \in ItsCodes' BY <1>7, <2>1, <2>3
  <2> QED BY <1>3, <1>5, <1>7, <2>4, <2>5, <2>6, <2>7, <2>8, <2>9 DEF Lineage
<1>9. Carried'
  <2>1. \A i \in 1..(n + 1) : Carries(chain'[i].exts, i)
    <3> SUFFICES ASSUME NEW i \in 1..(n + 1) PROVE Carries(chain'[i].exts, i) OBVIOUS
    <3>1. CASE i = n + 1 BY <1>2, <1>3, <1>5, <3>1
    <3>2. CASE i \in 1..n BY <1>1, <1>5, <3>2 DEF Carried, n
    <3> QED BY <1>4, <3>1, <3>2
  <2>2. \A i : Carries(chain'[i].exts, i) => Carries(chain[i].exts, i)'
    BY <1>6 DEF Carries, Bears, Version
  <2> QED BY <1>5, <2>1, <2>2 DEF Carried
<1>10. Building' BY <1>1 DEF Building
<1>11. Excused' BY <1>1, <1>4, <1>5 DEF Excused, n
<1>12. builder'.phase = "none" BY <1>1 DEF NoBuilder
<1>13. abandoned = 0 => Synced'
  BY <1>1, <1>2, <1>6, <1>7, <1>12 DEF InherentsInv, Synced
<1>14. ASSUME abandoned = 0 PROVE Timed'
  <2> SUFFICES ASSUME Slotted PROVE Timed' BY <1>6 DEF Timed, Slotted
  <2>1. Timed /\ (storage.code = HeadBlock.code \/ upgraded) BY <1>1, <1>14 DEF InherentsInv, Synced
  <2>2. Stamped(block.slot, block.time, block.runtime.duration, block.exts, n + 1)
    BY <1>1, <1>2, <2>1 DEF Timed, n
  <2> HIDE DEF upgraded
  <2>3. /\ cached' # NULL => cached' = block.code.duration
        /\ provider' # NULL => provider' = block.code.duration
    BY <1>1, <1>2, <2>1 DEF Timed
  <2>4. block.time \in Nat /\ block.time # NULL BY <2>2, InherentBounds DEF Stamped
  <2> QED BY <1>5, <1>6, <1>12, <2>2, <2>3, <2>4 DEF Timed, Stamped
<1> QED BY <1>1, <1>8, <1>9, <1>10, <1>11, <1>13, <1>14 DEF InherentsInv

LEMMA InherentsStart == ASSUME InherentsInit PROVE InherentsInv
<1>1. PICK c \in ForkedChains :
         /\ chain = <<ForkBlock(c)>>
         /\ storage = [slot |-> c.slot, time |-> c.time, updated |-> FALSE, code |-> c.runtime,
                       included |-> FALSE]
  BY DEF InherentsInit, ForkBlock
<1>2. /\ builder = NoBuilder /\ cached = NULL /\ provider = NULL /\ clock = 0 /\ abandoned = 0 /\ refused = <<>>
  BY DEF InherentsInit
<1>3. IsSeq(chain) /\ Len(chain) = 1 /\ chain[1] = ForkBlock(c) /\ HeadBlock = chain[1]
  BY <1>1, SeqOne DEF HeadBlock
<1>4. /\ chain[1].runtime = c.runtime /\ chain[1].code = c.runtime /\ chain[1].slot = c.slot
      /\ chain[1].time = c.time /\ chain[1].upgrade = c.upgrade
  BY <1>3 DEF ForkBlock
<1>5. /\ DOMAIN storage = {"slot", "time", "updated", "code", "included"} /\ storage.code = c.runtime
      /\ storage.slot = c.slot /\ storage.updated = FALSE
  BY <1>1
<1>6. Lineage BY <1>2, <1>3, <1>4, <1>5, InherentBounds DEF Lineage, ItsCodes, Succeeds
<1>7. Carries(chain[1].exts, 1) BY <1>6, ForkBlockFacts DEF Carries
<1>8. Carried BY <1>3, <1>7 DEF Carried
<1>9. Building BY <1>2 DEF Building
<1>10. Excused
  <2>1. <<>> \in Seq({}) /\ Len(<<>>) = 0 OBVIOUS
  <2>2. IsSeq(refused) BY <1>2, <2>1 DEF IsSeq
  <2> QED BY <1>2, <2>1, <2>2 DEF Excused
<1>11. builder.phase = "none" BY <1>2 DEF NoBuilder
<1>12. Synced BY <1>3, <1>4, <1>5, <1>11 DEF Synced
<1>13. Timed
  <2> SUFFICES ASSUME Slotted PROVE Timed BY DEF Timed
  <2>1. ASSUME chain[1].time # NULL
        PROVE  Stamped(chain[1].slot, chain[1].time, chain[1].runtime.duration, chain[1].exts, 1)
    <3>1. MaxBlocks + 2 - 1 = MaxBlocks + 1 BY InherentBounds
    <3>2. chain[1].time + (MaxBlocks + 2 - 1) * chain[1].runtime.duration <= MaxTime
      BY <1>6, <2>1, <3>1, ForkBlockFacts
    <3>3. /\ chain[1].time \in Nat /\ chain[1].slot = chain[1].time \div chain[1].runtime.duration
          /\ \A i \in ValidationData(chain[1].exts) :
                chain[1].slot * chain[1].runtime.duration <= chain[1].exts[i].proof.slot
      BY <1>6, <2>1, ForkBlockFacts
    <3> QED BY <3>2, <3>3 DEF Stamped
  <2> QED BY <1>2, <1>3, <1>11, <2>1 DEF Timed
<1> QED BY <1>6, <1>8, <1>9, <1>10, <1>12, <1>13 DEF InherentsInv

LEMMA InherentsKept == ASSUME InherentsInv, [InherentsNext]_inherentVars PROVE InherentsInv'
<1>1. CASE UNCHANGED inherentVars
  <2>1. UNCHANGED <<chain, builder, storage, cached, provider, clock, abandoned, refused>>
    BY <1>1 DEF inherentVars
  <2>2. Lineage' BY <2>1 DEF InherentsInv, Lineage, ItsCodes, Succeeds, HeadBlock
  <2>3. Carried' /\ Building' /\ Excused'
    BY <2>1 DEF InherentsInv, Carried, Carries, Bears, Version, Building, Excused
  <2>4. abandoned = 0 => Synced' /\ Timed'
    BY <2>1 DEF InherentsInv, Synced, Timed, HeadBlock, Slotted, Stamped
  <2> QED BY <2>1, <2>2, <2>3, <2>4 DEF InherentsInv
<1>2. CASE InherentsNext
  BY <1>2, TickKeeps, WarmupKeeps, BeginBuildKeeps, InitializeKeeps, ApplyInherentsKeeps, FailuresKeep,
     ApplyExtrinsicKeeps, FinalizeKeeps
  DEF InherentsNext
<1> QED BY <1>1, <1>2

LEMMA InherentsInvSound == ASSUME InherentsInv PROVE InherentsSound
<1>1. InherentsAccepted
  <2>1. IsSeq(refused) /\ Len(refused) \in Nat /\ abandoned \in Nat /\ Len(refused) <= abandoned
    BY SeqShape DEF InherentsInv, Excused
  <2>2. refused # <<>> => Len(refused) > 0
    <3>1. PICK S : refused \in Seq(S) BY <2>1 DEF IsSeq
    <3> QED BY <3>1
  <2> QED BY <2>1, <2>2 DEF InherentsInv, Excused, InherentsAccepted
<1>2. ValidationDataCarried
  <2> SUFFICES ASSUME ValidationData(chain[1].exts) # {}, NEW n \in 2..Len(chain)
               PROVE  /\ ValidationData(chain[n].exts) = {1}
                      /\ chain[n].exts[1].proof.head = n - 1
                      /\ Linked(chain[n].exts[1].descendants, chain[n].exts[1].root)
                      /\ chain[n].exts[1].version = Version
    BY DEF ValidationDataCarried, Version
  <2>1. n \in 1..Len(chain) /\ n > 1 BY SeqShape DEF InherentsInv, Lineage
  <2>2. Carries(chain[n].exts, n) BY <2>1 DEF InherentsInv, Carried
  <2> QED BY <2>1, <2>2 DEF Carries, Bears
<1> QED BY <1>1, <1>2 DEF InherentsSound

(***************************************************************************)
(* pop-fork's inherents, on every chain that keeps the assumptions: the    *)
(* runtime refuses none of them, and no slot digest, unless an earlier     *)
(* build was abandoned or the parent has no timestamp; and every block     *)
(* carries the parachain's validation data on.                             *)
(***************************************************************************)
THEOREM InherentsAreSound == InherentsSpec => []InherentsSound
<1>1. InherentsInit => InherentsInv BY InherentsStart
<1>2. InherentsInv /\ [InherentsNext]_inherentVars => InherentsInv' BY InherentsKept
<1>3. InherentsInv => InherentsSound BY InherentsInvSound
<1> QED BY <1>1, <1>2, <1>3, PTL DEF InherentsSpec

-----------------------------------------------------------------------------
(***************************************************************************)
(* Main: one invocation with --json.  While it runs, what stands on stdout *)
(* is what its place and its result call for; a process that has ended has *)
(* its envelope.                                                           *)
(***************************************************************************)
MainFields == {"cmd", "pc", "json", "command", "result", "ended"}

MainPlaces == {"init", "parse", "execute", "print", "record", "return", "done"}

Printed ==
    /\ session.pc \in {"init", "parse", "execute", "print"} => stdout = <<>>
    /\ session.pc = "print" => DispatchPrints
    /\ session.pc \in {"record", "return"} =>
          IF session.result = "Ok" THEN ~Silent => stdout \in {<<"ok">>, <<"text", "ok">>}
                                   ELSE stdout \in {<<>>, <<"text">>}
    /\ session.pc = "done" /\ ~Silent =>
          LET answer == IF exit = 0 THEN "ok" ELSE "error" IN stdout \in {<<answer>>, <<"text", answer>>}

EnvelopeInv ==
    /\ DOMAIN session = MainFields /\ session.pc \in MainPlaces
    /\ session.pc # "done" => exit = NULL
    /\ session.json => Printed

LEMMA Appended == ASSUME NEW line
                  PROVE  /\ Append(<<>>, line) = <<line>> /\ Append(<<"text">>, line) = <<"text", line>>
                         /\ <<>> \o <<line>> = <<line>> /\ <<>> \o <<"text", line>> = <<"text", line>>
                         /\ <<>> \o <<>> = <<>>
<1>1. Append(<<>>, line) = <<line>> OBVIOUS
<1>2. <<>> \o <<line>> = <<line>> /\ <<>> \o <<"text", line>> = <<"text", line>> BY SeqOne, SeqTwo, SeqNil
<1>3. <<>> \o <<>> = <<>> OBVIOUS
<1>4. Append(<<"text">>, line) = <<"text", line>>
  <2> DEFINE lines == Append(<<"text">>, line)
  <2>1. IsSeq(<<"text">>) /\ Len(<<"text">>) = 1 /\ <<"text">>[1] = "text" BY SeqOne
  <2>2. /\ IsSeq(lines) /\ Len(lines) = 2 /\ lines[2] = line /\ lines[1] = "text" BY <2>1, SeqAppended
  <2>3. /\ lines \in Seq({"text", line}) /\ <<"text", line>> \in Seq({"text", line}) OBVIOUS
  <2>4. Len(<<"text", line>>) = 2 /\ <<"text", line>>[1] = "text" /\ <<"text", line>>[2] = line BY SeqTwo
  <2> HIDE DEF lines
  <2>5. \A i \in 1..2 : lines[i] = <<"text", line>>[i] BY <2>2, <2>4
  <2>6. lines = <<"text", line>> BY <2>2, <2>3, <2>4, <2>5, SeqEqual
  <2> QED BY <2>6 DEF lines
<1> QED BY <1>1, <1>2, <1>3, <1>4

LEMMA MainBecomes ==
    ASSUME DOMAIN session = MainFields, NEW fields, DOMAIN fields \subseteq MainFields, Become(fields)
    PROVE  /\ DOMAIN session' = MainFields
           /\ \A f \in DOMAIN fields : session'[f] = fields[f]
           /\ \A f \in MainFields \ DOMAIN fields : session'[f] = session[f]
BY DEF Become, With

LEMMA MainStarts == MainInit => EnvelopeInv
<1> SUFFICES ASSUME MainInit PROVE EnvelopeInv OBVIOUS
<1>1. /\ DOMAIN session = MainFields /\ session.pc = "init" BY DEF MainInit, MainFields
<1>2. stdout = <<>> /\ exit = NULL BY DEF MainInit
<1> QED BY <1>1, <1>2 DEF EnvelopeInv, MainPlaces, Printed

\* A step to another place of the program
LEMMA MainGoes ==
    ASSUME EnvelopeInv, NEW pc \in MainPlaces, Goto(pc)
    PROVE  /\ DOMAIN session' = MainFields /\ session'.pc = pc /\ session'.json = session.json
           /\ session'.command = session.command /\ session'.result = session.result
<1>1. DOMAIN [pc |-> pc] = {"pc"} OBVIOUS
<1> QED BY <1>1, MainBecomes DEF EnvelopeInv, Goto, MainFields

LEMMA MainReturns ==
    ASSUME EnvelopeInv, NEW result, NEW printed, Returned(result, printed)
    PROVE  /\ DOMAIN session' = MainFields /\ session'.pc = "record" /\ session'.json = session.json
           /\ session'.command = session.command /\ session'.result = result
           /\ stdout' = stdout \o printed /\ exit' = exit
<1> DEFINE fields == [pc |-> "record", result |-> result]
<1>1. DOMAIN fields = {"pc", "result"} /\ fields["pc"] = "record" /\ fields["result"] = result OBVIOUS
<1>2. Become(fields) /\ stdout' = stdout \o printed /\ exit' = exit BY DEF Returned
<1> HIDE DEF fields
<1> QED BY <1>1, <1>2, MainBecomes DEF EnvelopeInv, MainFields

LEMMA MainEnds ==
    ASSUME EnvelopeInv, NEW ended, Become([pc |-> "done", ended |-> ended])
    PROVE  /\ DOMAIN session' = MainFields /\ session'.pc = "done" /\ session'.json = session.json
           /\ session'.command = session.command
<1> DEFINE fields == [pc |-> "done", ended |-> ended]
<1>1. DOMAIN fields = {"pc", "ended"} /\ fields["pc"] = "done" OBVIOUS
<1> HIDE DEF fields
<1> QED BY <1>1, MainBecomes DEF EnvelopeInv, MainFields, fields

LEMMA ChildOutputs == ASSUME NEW out \in ChildOutput PROVE out \in {<<>>, <<"text">>}
BY DEF ChildOutput

\* The output of a command in JSON mode, with the envelope or without
LEMMA JsonReturns ==
    ASSUME EnvelopeInv, session.pc = "execute" \/ session.pc = "print", session.json, NEW result, NEW printed,
           Returned(result, printed), printed \in {<<>>, <<"text">>, <<"ok">>, <<"text", "ok">>},
           IF result = "Ok" THEN Silent \/ printed \in {<<"ok">>, <<"text", "ok">>}
                            ELSE printed \in {<<>>, <<"text">>}
    PROVE  EnvelopeInv'
<1>1. stdout = <<>> /\ exit = NULL BY DEF EnvelopeInv, Printed
<1>2. stdout' = <<>> \o printed BY <1>1, MainReturns
<1>3. stdout' = printed BY <1>2, Appended
<1>4. Silent' = Silent BY MainReturns DEF Silent
<1> QED BY <1>1, <1>3, <1>4, MainReturns DEF EnvelopeInv, MainPlaces, Printed

LEMMA ExecuteJsonKeeps == ASSUME EnvelopeInv, ExecuteJson PROVE EnvelopeInv'
<1>1. session.pc = "execute" /\ session.json /\ stdout = <<>> /\ exit = NULL
  BY DEF ExecuteJson, At, EnvelopeInv, Printed
<1>2. CASE Returned("UnsupportedJson", <<>>) BY <1>1, <1>2, JsonReturns
<1>3. CASE \E e \in {"PromptRequired", "InvalidInput", "Internal"} : Returned(e, <<>>)
  BY <1>1, <1>3, JsonReturns
<1>4. ASSUME NEW e \in Errors \ {"UnsupportedJson"}, NEW out \in ChildOutput, Returned(e, out) PROVE EnvelopeInv'
  <2>1. e # "Ok" /\ out \in {<<>>, <<"text">>} BY ChildOutputs DEF Errors
  <2> QED BY <1>1, <1>4, <2>1, JsonReturns
<1>5. CASE Silent /\ Returned("Ok", <<>>) BY <1>1, <1>5, JsonReturns
<1>6. ASSUME NEW out \in ChildOutput, Returned("Ok", Append(out, "ok")) PROVE EnvelopeInv'
  <2>1. out \in {<<>>, <<"text">>} BY ChildOutputs
  <2>2. Append(out, "ok") \in {<<"ok">>, <<"text", "ok">>} BY <2>1, Appended
  <2> HIDE DEF ChildOutput
  <2> QED BY <1>1, <1>6, <2>2, JsonReturns
<1>7. CASE DispatchPrints /\ Goto("print") /\ UNCHANGED <<stdout, telemetry, exit>>
  <2>1. "print" \in MainPlaces BY DEF MainPlaces
  <2>2. DispatchPrints' BY <1>7, <2>1, MainGoes DEF DispatchPrints
  <2> QED BY <1>1, <1>7, <2>1, <2>2, MainGoes DEF EnvelopeInv, Printed
<1> QED BY <1>2, <1>3, <1>4, <1>5, <1>6, <1>7 DEF ExecuteJson

LEMMA PrintJsonKeeps == ASSUME EnvelopeInv, PrintJson PROVE EnvelopeInv'
<1>1. session.pc = "print" /\ Returned("Ok", <<"ok">>) BY DEF PrintJson, At
<1>2. CASE session.json BY <1>1, <1>2, JsonReturns
<1>3. CASE ~session.json
  <2>1. ~session'.json /\ exit' = exit /\ session'.pc = "record" BY <1>1, <1>3, MainReturns
  <2> QED BY <1>1, <2>1, MainReturns DEF EnvelopeInv, MainPlaces
<1> QED BY <1>2, <1>3

LEMMA ExecuteHumanKeeps == ASSUME EnvelopeInv, ExecuteHuman PROVE EnvelopeInv'
<1>1. PICK result \in {"Ok", "Internal"} : Returned(result, <<"text">>) BY DEF ExecuteHuman
<1>2. session.pc = "execute" /\ ~session.json BY DEF ExecuteHuman, At
<1>3. ~session'.json /\ exit' = exit /\ session'.pc = "record" BY <1>1, <1>2, MainReturns
<1> QED BY <1>1, <1>2, <1>3, MainReturns DEF EnvelopeInv, MainPlaces

\* The steps that print nothing and go on
LEMMA QuietStepsKeep ==
    ASSUME EnvelopeInv, InitTelemetry \/ Parse \/ RecordCliCommand \/ RecordCliUsed
    PROVE  EnvelopeInv'
<1>1. ASSUME NEW pc \in MainPlaces, Goto(pc), stdout' = stdout, exit' = exit,
             \/ session.pc = "init" /\ pc = "parse"
             \/ session.pc = "parse" /\ pc = "execute"
             \/ session.pc = "record" /\ pc = "return"
      PROVE  EnvelopeInv'
  <2>1. Silent' = Silent BY <1>1, MainGoes DEF Silent
  <2> QED BY <1>1, <2>1, MainGoes DEF EnvelopeInv, Printed
<1>2. CASE InitTelemetry BY <1>1, <1>2 DEF InitTelemetry, At, MainPlaces
<1>3. CASE Parse BY <1>1, <1>3 DEF Parse, At, MainPlaces
<1>4. CASE RecordCliCommand BY <1>1, <1>4 DEF RecordCliCommand, At, MainPlaces
<1>5. CASE RecordCliUsed
  <2>1. UNCHANGED <<session, stdout, exit>> BY <1>5 DEF RecordCliUsed
  <2> QED BY <2>1 DEF EnvelopeInv, Printed, Silent, DispatchPrints
<1> QED BY <1>2, <1>3, <1>4, <1>5

LEMMA ParseFailsKeeps == ASSUME EnvelopeInv, ParseFails PROVE EnvelopeInv'
<1>1. /\ session.pc = "parse" /\ Become([pc |-> "done", ended |-> "error"]) /\ exit' = 2
      /\ stdout' = Append(stdout, IF session.json THEN "error" ELSE "text")
  BY DEF ParseFails, At, Exit
<1>2. /\ DOMAIN session' = MainFields /\ session'.pc = "done" /\ session'.json = session.json
  BY <1>1, MainEnds
<1>3. session.json => stdout' = <<"error">>
  <2> SUFFICES ASSUME session.json PROVE stdout' = <<"error">> OBVIOUS
  <2>1. stdout = <<>> BY <1>1 DEF EnvelopeInv, Printed
  <2> QED BY <1>1, <2>1, Appended
<1> QED BY <1>1, <1>2, <1>3 DEF EnvelopeInv, MainPlaces, Printed

\* The exit code and the last line are made from the same result.
LEMMA ReturnKeeps == ASSUME EnvelopeInv, ReturnFromMain PROVE EnvelopeInv'
<1> DEFINE ok == session.result = "Ok"
<1>1. /\ session.pc = "return" /\ Become([pc |-> "done", ended |-> IF ok THEN "ok" ELSE "error"])
      /\ stdout' = (IF session.json /\ ~ok THEN Append(stdout, "error") ELSE stdout)
      /\ exit' = (IF ok THEN 0 ELSE 1)
  BY DEF ReturnFromMain, At, Exit
<1>2. /\ DOMAIN session' = MainFields /\ session'.pc = "done" /\ session'.json = session.json
      /\ session'.command = session.command
  BY <1>1, MainEnds
<1>3. Silent' = Silent BY <1>2 DEF Silent
<1>4. ASSUME session.json, ~Silent
      PROVE  stdout' \in {<<IF ok THEN "ok" ELSE "error">>, <<"text", IF ok THEN "ok" ELSE "error">>}
  <2>1. CASE ok BY <1>1, <1>4, <2>1 DEF EnvelopeInv, Printed
  <2>2. CASE ~ok
    <3>1. stdout \in {<<>>, <<"text">>} BY <1>1, <1>4, <2>2 DEF EnvelopeInv, Printed
    <3>2. stdout' = Append(stdout, "error") BY <1>1, <1>4, <2>2
    <3> QED BY <2>2, <3>1, <3>2, Appended
  <2> QED BY <2>1, <2>2
<1>5. (exit' = 0) <=> ok BY <1>1
<1> HIDE DEF ok
<1> QED BY <1>2, <1>3, <1>4, <1>5 DEF EnvelopeInv, MainPlaces, Printed

LEMMA MainSteps == ASSUME EnvelopeInv, [MainNext]_mainVars PROVE EnvelopeInv'
<1>1. CASE UNCHANGED mainVars BY <1>1 DEF mainVars, EnvelopeInv, Printed, Silent, DispatchPrints
<1>2. CASE MainNext
  BY <1>2, ExecuteJsonKeeps, PrintJsonKeeps, ExecuteHumanKeeps, QuietStepsKeep, ParseFailsKeeps, ReturnKeeps
  DEF MainNext
<1> QED BY <1>1, <1>2

(***************************************************************************)
(* main, commands/mod.rs and output.rs: however an invocation with --json  *)
(* ends, its last line on stdout is the one envelope, and the exit code    *)
(* says what the envelope says.                                            *)
(***************************************************************************)
THEOREM EnvelopeAnswers == MainSpec => []OneEnvelope
<1>1. EnvelopeInv /\ session.json /\ exit # NULL => session.pc = "done" /\ Printed BY DEF EnvelopeInv
<1>2. EnvelopeInv => OneEnvelope BY <1>1 DEF OneEnvelope, Printed
<1> QED BY <1>2, MainStarts, MainSteps, PTL DEF MainSpec

-----------------------------------------------------------------------------
(***************************************************************************)
(* `pop call chain`.  First the parameters: the recursive functions over   *)
(* the registry of types are what their definitions say, by induction on   *)
(* the number of types, since a type comes after those it is made of; and  *)
(* then the values that the prompts make are compared with a type's.       *)
(***************************************************************************)
\* What the assumption says of one type of the registry
LEMMA RegistryFacts ==
    /\ \E n \in Nat : TypeIds = 1..n
    /\ TypeIds \subseteq Nat
    /\ \A i \in TypeIds :
          /\ TypeRegistry[i].kind \in Kinds /\ TypeRegistry[i].subs \in Seq(TypeIds)
          /\ \A k \in DOMAIN TypeRegistry[i].subs :
                /\ TypeRegistry[i].subs[k] \in TypeIds /\ TypeRegistry[i].subs[k] < i
                /\ TypeRegistry[i].kind = "variant" <=> TypeRegistry[TypeRegistry[i].subs[k]].kind = "fields"
          /\ TypeRegistry[i].kind = "option" => 1 \in DOMAIN TypeRegistry[i].subs /\ Len(TypeRegistry[i].subs) = 1
          /\ TypeRegistry[i].kind = "variant" => TypeRegistry[i].subs # <<>>
<1>1. TypeRegistry \in Seq([kind : Kinds, subs : Seq(TypeIds)]) BY RegistryAssumption
<1>2. TypeIds = 1..Len(TypeRegistry) /\ Len(TypeRegistry) \in Nat BY <1>1 DEF TypeIds
<1>3. ASSUME NEW i \in TypeIds
      PROVE  /\ TypeRegistry[i].kind \in Kinds /\ TypeRegistry[i].subs \in Seq(TypeIds)
             /\ \A k \in DOMAIN TypeRegistry[i].subs :
                   /\ TypeRegistry[i].subs[k] \in TypeIds /\ TypeRegistry[i].subs[k] < i
                   /\ TypeRegistry[i].kind = "variant" <=> TypeRegistry[TypeRegistry[i].subs[k]].kind = "fields"
             /\ TypeRegistry[i].kind = "option" => 1 \in DOMAIN TypeRegistry[i].subs /\ Len(TypeRegistry[i].subs) = 1
             /\ TypeRegistry[i].kind = "variant" => TypeRegistry[i].subs # <<>>
  <2>1. TypeRegistry[i] \in [kind : Kinds, subs : Seq(TypeIds)]
    <3> DEFINE S == [kind : Kinds, subs : Seq(TypeIds)]
    <3>1. TypeRegistry \in Seq(S) BY <1>1
    <3> HIDE DEF S
    <3>2. TypeRegistry[i] \in S BY <1>2, <3>1
    <3> QED BY <3>2 DEF S
  <2>2. TypeRegistry[i].kind \in Kinds /\ TypeRegistry[i].subs \in Seq(TypeIds) BY <2>1
  <2>3. /\ \A k \in DOMAIN TypeRegistry[i].subs :
              /\ TypeRegistry[i].subs[k] < i
              /\ TypeRegistry[i].kind = "variant" <=> TypeRegistry[TypeRegistry[i].subs[k]].kind = "fields"
        /\ TypeRegistry[i].kind = "option" => Len(TypeRegistry[i].subs) = 1
        /\ TypeRegistry[i].kind = "variant" => TypeRegistry[i].subs # <<>>
    BY RegistryAssumption
  <2>4. \A k \in DOMAIN TypeRegistry[i].subs : TypeRegistry[i].subs[k] \in TypeIds BY <2>2
  <2>5. Len(TypeRegistry[i].subs) = 1 => 1 \in DOMAIN TypeRegistry[i].subs BY <2>2
  <2> QED BY <2>2, <2>3, <2>4, <2>5
<1> QED BY <1>2, <1>3

\* The recursive functions are what their definitions say: each reads the registry below a type only.
LEMMA WithinIs == Within = [i \in TypeIds |-> {i} \cup UNION {Within[Subs(TypeRegistry[i])[k]] : k \in DOMAIN Subs(TypeRegistry[i])}]
<1> DEFINE Body(i, f) == {i} \cup UNION {f[Subs(TypeRegistry[i])[k]] : k \in DOMAIN Subs(TypeRegistry[i])}
           Def(m, f) == [i \in 1..m |-> Body(i, f)]
<1>1. PICK n \in Nat : TypeIds = 1..n BY RegistryFacts
<1>2. ASSUME NEW i \in 1..n, NEW f, NEW g, \A j \in 1..(i - 1) : f[j] = g[j] PROVE Body(i, f) = Body(i, g)
  <2>1. \A k \in DOMAIN Subs(TypeRegistry[i]) : Subs(TypeRegistry[i])[k] \in 1..(i - 1)
    <3>1. \A k \in DOMAIN TypeRegistry[i].subs : TypeRegistry[i].subs[k] \in 1..(i - 1) BY <1>1, RegistryFacts
    <3>2. DOMAIN <<>> = {} OBVIOUS
    <3> QED BY <3>1, <3>2 DEF Subs
  <2> QED BY <1>2, <2>1
<1>3. Within = CHOOSE f : f = Def(n, f) BY <1>1 DEF Within
<1> HIDE DEF Body
<1>4. \E f : f = Def(n, f)
  <2> DEFINE Bad == {m \in 0..n : ~\E f : f = Def(m, f)}
  <2> SUFFICES ASSUME Bad # {} PROVE FALSE BY <1>1
  <2>0. Bad \subseteq Nat BY <1>1
  <2>1. PICK m \in Bad : \A k \in Bad : m <= k
    <3> HIDE DEF Bad
    <3> QED BY <2>0, LeastExists DEF Least
  <2>2. m \in 0..n /\ ~\E f : f = Def(m, f) OBVIOUS
  <2>3. m # 0
    <3> SUFFICES ASSUME m = 0 PROVE FALSE OBVIOUS
    <3>1. <<>> = Def(0, <<>>) OBVIOUS
    <3> QED BY <2>2, <3>1
  <2>4. m - 1 \in 0..n /\ m - 1 \notin Bad
    <3> HIDE DEF Bad
    <3> QED BY <2>1, <2>2, <2>3
  <2>5. PICK f : f = Def(m - 1, f) BY <2>4
  <2> DEFINE g == [i \in 1..m |-> IF i < m THEN f[i] ELSE Body(i, f)]
  <2>6. ASSUME NEW i \in 1..m PROVE g[i] = Body(i, g)
    <3>1. Body(i, f) = Body(i, g)
      <4>1. \A j \in 1..(i - 1) : f[j] = g[j] BY <2>2
      <4> HIDE DEF g
      <4> QED BY <1>2, <2>2, <4>1
    <3>2. i < m => f[i] = Body(i, f)
      <4> SUFFICES ASSUME i < m PROVE f[i] = Body(i, f) OBVIOUS
      <4>1. i \in 1..(m - 1) BY <2>2
      <4>2. f[i] = Def(m - 1, f)[i] BY <2>5
      <4> QED BY <4>1, <4>2
    <3> HIDE DEF Body
    <3> QED BY <3>1, <3>2
  <2>7. g = Def(m, g) BY <2>6
  <2> QED BY <2>2, <2>7
<1>5. Within = Def(n, Within) BY <1>3, <1>4
<1> QED BY <1>1, <1>5 DEF Body

LEMMA TypeToParamIs == TypeToParam = [i \in TypeIds |-> IF TypeRegistry[i].kind = "option" THEN Param(TypeToParam[TypeRegistry[i].subs[1]].subs, "plain", TRUE)
           ELSE Param(Subs(TypeRegistry[i]), Flag(TypeRegistry[i]), FALSE)]
<1> DEFINE Body(i, f) == IF TypeRegistry[i].kind = "option" THEN Param(f[TypeRegistry[i].subs[1]].subs, "plain", TRUE)
           ELSE Param(Subs(TypeRegistry[i]), Flag(TypeRegistry[i]), FALSE)
           Def(m, f) == [i \in 1..m |-> Body(i, f)]
<1>1. PICK n \in Nat : TypeIds = 1..n BY RegistryFacts
<1>2. ASSUME NEW i \in 1..n, NEW f, NEW g, \A j \in 1..(i - 1) : f[j] = g[j] PROVE Body(i, f) = Body(i, g)
  <2>1. TypeRegistry[i].kind = "option" => TypeRegistry[i].subs[1] \in 1..(i - 1) BY <1>1, RegistryFacts
  <2> QED BY <1>2, <2>1
<1>3. TypeToParam = CHOOSE f : f = Def(n, f) BY <1>1 DEF TypeToParam
<1> HIDE DEF Body
<1>4. \E f : f = Def(n, f)
  <2> DEFINE Bad == {m \in 0..n : ~\E f : f = Def(m, f)}
  <2> SUFFICES ASSUME Bad # {} PROVE FALSE BY <1>1
  <2>0. Bad \subseteq Nat BY <1>1
  <2>1. PICK m \in Bad : \A k \in Bad : m <= k
    <3> HIDE DEF Bad
    <3> QED BY <2>0, LeastExists DEF Least
  <2>2. m \in 0..n /\ ~\E f : f = Def(m, f) OBVIOUS
  <2>3. m # 0
    <3> SUFFICES ASSUME m = 0 PROVE FALSE OBVIOUS
    <3>1. <<>> = Def(0, <<>>) OBVIOUS
    <3> QED BY <2>2, <3>1
  <2>4. m - 1 \in 0..n /\ m - 1 \notin Bad
    <3> HIDE DEF Bad
    <3> QED BY <2>1, <2>2, <2>3
  <2>5. PICK f : f = Def(m - 1, f) BY <2>4
  <2> DEFINE g == [i \in 1..m |-> IF i < m THEN f[i] ELSE Body(i, f)]
  <2>6. ASSUME NEW i \in 1..m PROVE g[i] = Body(i, g)
    <3>1. Body(i, f) = Body(i, g)
      <4>1. \A j \in 1..(i - 1) : f[j] = g[j] BY <2>2
      <4> HIDE DEF g
      <4> QED BY <1>2, <2>2, <4>1
    <3>2. i < m => f[i] = Body(i, f)
      <4> SUFFICES ASSUME i < m PROVE f[i] = Body(i, f) OBVIOUS
      <4>1. i \in 1..(m - 1) BY <2>2
      <4>2. f[i] = Def(m - 1, f)[i] BY <2>5
      <4> QED BY <4>1, <4>2
    <3> HIDE DEF Body
    <3> QED BY <3>1, <3>2
  <2>7. g = Def(m, g) BY <2>6
  <2> QED BY <2>2, <2>7
<1>5. TypeToParam = Def(n, TypeToParam) BY <1>3, <1>4
<1> QED BY <1>1, <1>5 DEF Body

LEMMA ParamOf ==
    ASSUME NEW i \in TypeIds
    PROVE  TypeToParam[i] = IF TypeRegistry[i].kind = "option"
                            THEN Param(TypeToParam[TypeRegistry[i].subs[1]].subs, "plain", TRUE)
                            ELSE Param(Subs(TypeRegistry[i]), Flag(TypeRegistry[i]), FALSE)
BY TypeToParamIs, Zenon

\* A parameter's sub-parameters are made of types below its own.
LEMMA ParamBelow ==
    ASSUME NEW i \in TypeIds
    PROVE  /\ TypeToParam[i].subs \in Seq(TypeIds)
           /\ \A k \in DOMAIN TypeToParam[i].subs : TypeToParam[i].subs[k] \in TypeIds /\ TypeToParam[i].subs[k] < i
<1> DEFINE Good(j) == /\ TypeToParam[j].subs \in Seq(TypeIds)
                      /\ \A k \in DOMAIN TypeToParam[j].subs : TypeToParam[j].subs[k] \in TypeIds /\ TypeToParam[j].subs[k] < j
           Bad == {j \in TypeIds : ~Good(j)}
<1> SUFFICES ASSUME Bad # {} PROVE FALSE OBVIOUS
<1>1. PICK m \in Bad : \A j \in Bad : m <= j BY RegistryFacts, LeastExists DEF Least
<1>2. m \in TypeIds /\ ~Good(m) /\ m \in Nat BY RegistryFacts
<1>3. \A j \in TypeIds : j < m => Good(j)
  <2> SUFFICES ASSUME NEW j \in TypeIds, j < m PROVE Good(j) OBVIOUS
  <2>1. j \notin Bad
    <3> HIDE DEF Bad
    <3> QED BY <1>1, <1>2, RegistryFacts
  <2> QED BY <2>1
<1>4. CASE TypeRegistry[m].kind = "option"
  <2> DEFINE a == TypeRegistry[m].subs[1]
  <2>1. a \in TypeIds /\ a < m /\ a \in Nat BY <1>2, <1>4, RegistryFacts
  <2>2. TypeToParam[m].subs = TypeToParam[a].subs 
    <3>1. TypeToParam[m] = Param(TypeToParam[a].subs, "plain", TRUE) BY <1>2, <1>4, ParamOf
    <3> HIDE DEF a
    <3> QED BY <3>1 DEF Param
  <2>3. Good(a) BY <1>3, <2>1
  <2> HIDE DEF a
  <2>4. Good(m) BY <1>2, <2>1, <2>2, <2>3, RegistryFacts
  <2> QED BY <1>2, <2>4
<1>5. CASE TypeRegistry[m].kind # "option"
  <2>1. TypeToParam[m].subs = Subs(TypeRegistry[m]) 
    <3>1. TypeToParam[m] = Param(Subs(TypeRegistry[m]), Flag(TypeRegistry[m]), FALSE) BY <1>2, <1>5, ParamOf
    <3> QED BY <3>1 DEF Param
  <2>2. Subs(TypeRegistry[m]) = <<>> \/ Subs(TypeRegistry[m]) = TypeRegistry[m].subs BY DEF Subs
  <2>3. CASE Subs(TypeRegistry[m]) = <<>>
    <3>1. <<>> \in Seq(TypeIds) /\ DOMAIN <<>> = {} OBVIOUS
    <3>2. Good(m) BY <2>1, <2>3, <3>1
    <3> QED BY <1>2, <3>2
  <2>4. CASE Subs(TypeRegistry[m]) = TypeRegistry[m].subs
    <3>1. Good(m) BY <1>2, <2>1, <2>4, RegistryFacts
    <3> QED BY <1>2, <3>1
  <2> QED BY <2>2, <2>3, <2>4
<1> QED BY <1>4, <1>5

\* Tuples of parts on which two functions agree
LEMMA TuplesAgree ==
    ASSUME NEW subs, NEW f, NEW g, \A k \in DOMAIN subs : f[subs[k]] = g[subs[k]]
    PROVE  Tuples(subs, f) = Tuples(subs, g)
<1>1. [k \in DOMAIN subs |-> f[subs[k]]] = [k \in DOMAIN subs |-> g[subs[k]]] OBVIOUS
<1> QED BY <1>1 DEF Tuples

\* The prompts for a type read the prompts for types below it.
LEMMA PromptsBelow ==
    ASSUME NEW i \in TypeIds, NEW f, NEW g, \A j \in TypeIds : j < i => f[j] = g[j]
    PROVE  GetParamValue(TypeToParam[i], f) = GetParamValue(TypeToParam[i], g)
<1> DEFINE p == TypeToParam[i]
<1>1. Tuples(p.subs, f) = Tuples(p.subs, g) BY ParamBelow, TuplesAgree
<1>2. \A k \in DOMAIN p.subs : Tuples(TypeToParam[p.subs[k]].subs, f) = Tuples(TypeToParam[p.subs[k]].subs, g)
  <2> SUFFICES ASSUME NEW k \in DOMAIN p.subs
               PROVE  Tuples(TypeToParam[p.subs[k]].subs, f) = Tuples(TypeToParam[p.subs[k]].subs, g)
    OBVIOUS
  <2> DEFINE j == p.subs[k]
  <2>1. j \in TypeIds /\ j < i /\ i \in Nat /\ j \in Nat BY ParamBelow, RegistryFacts
  <2> HIDE DEF j
  <2>2. ASSUME NEW l \in DOMAIN TypeToParam[j].subs
        PROVE  TypeToParam[j].subs[l] \in TypeIds /\ TypeToParam[j].subs[l] < i
    <3> DEFINE b == TypeToParam[j].subs[l]
    <3>1. b \in TypeIds /\ b < j BY <2>1, ParamBelow
    <3> HIDE DEF b
    <3>2. b \in Nat BY <3>1, RegistryFacts
    <3>3. b < i BY <2>1, <3>1, <3>2
    <3> QED BY <3>1, <3>3 DEF b
  <2>3. Tuples(TypeToParam[j].subs, f) = Tuples(TypeToParam[j].subs, g) BY <2>2, TuplesAgree
  <2> QED BY <2>3 DEF j
<1> HIDE DEF p
<1>3. \A k \in DOMAIN p.subs : {Value("variant", k, vs) : vs \in Tuples(TypeToParam[p.subs[k]].subs, f)}
                             = {Value("variant", k, vs) : vs \in Tuples(TypeToParam[p.subs[k]].subs, g)}
  BY <1>2
<1>4. UNION {{Value("variant", k, vs) : vs \in Tuples(TypeToParam[p.subs[k]].subs, f)} : k \in DOMAIN p.subs}
    = UNION {{Value("variant", k, vs) : vs \in Tuples(TypeToParam[p.subs[k]].subs, g)} : k \in DOMAIN p.subs}
  BY <1>3
<1>5. GetParamValue(p, f) = GetParamValue(p, g) BY <1>1, <1>4 DEF GetParamValue
<1> QED BY <1>5 DEF p

\* So do the values of a type.
LEMMA ValuesBelow ==
    ASSUME NEW i \in TypeIds, NEW f, NEW g, \A j \in TypeIds : j < i => f[j] = g[j]
    PROVE  ValuesOf(TypeRegistry[i], f) = ValuesOf(TypeRegistry[i], g)
<1> DEFINE t == TypeRegistry[i]
<1>1. Tuples(t.subs, f) = Tuples(t.subs, g)
  <2>1. \A k \in DOMAIN t.subs : t.subs[k] \in TypeIds /\ t.subs[k] < i BY RegistryFacts
  <2> HIDE DEF t
  <2>2. \A k \in DOMAIN t.subs : f[t.subs[k]] = g[t.subs[k]] BY <2>1
  <2> QED BY <2>2, TuplesAgree
<1>2. \A k \in DOMAIN t.subs : Tuples(TypeRegistry[t.subs[k]].subs, f) = Tuples(TypeRegistry[t.subs[k]].subs, g)
  <2> SUFFICES ASSUME NEW k \in DOMAIN t.subs
               PROVE  Tuples(TypeRegistry[t.subs[k]].subs, f) = Tuples(TypeRegistry[t.subs[k]].subs, g)
    OBVIOUS
  <2> DEFINE j == t.subs[k]
  <2>1. j \in TypeIds /\ j < i /\ i \in Nat /\ j \in Nat BY RegistryFacts
  <2> HIDE DEF j
  <2>2. \A l \in DOMAIN TypeRegistry[j].subs : TypeRegistry[j].subs[l] \in TypeIds /\ TypeRegistry[j].subs[l] < i
    BY <2>1, RegistryFacts
  <2>3. Tuples(TypeRegistry[j].subs, f) = Tuples(TypeRegistry[j].subs, g) BY <2>2, TuplesAgree
  <2> QED BY <2>3 DEF j
<1> HIDE DEF t
<1>3. \A k \in DOMAIN t.subs : {Value("variant", k, vs) : vs \in Tuples(TypeRegistry[t.subs[k]].subs, f)}
                             = {Value("variant", k, vs) : vs \in Tuples(TypeRegistry[t.subs[k]].subs, g)}
  BY <1>2
<1>4. UNION {{Value("variant", k, vs) : vs \in Tuples(TypeRegistry[t.subs[k]].subs, f)} : k \in DOMAIN t.subs}
    = UNION {{Value("variant", k, vs) : vs \in Tuples(TypeRegistry[t.subs[k]].subs, g)} : k \in DOMAIN t.subs}
  BY <1>3
<1>5. ValuesOf(t, f) = ValuesOf(t, g) BY <1>1, <1>4 DEF ValuesOf
<1> QED BY <1>5 DEF t

LEMMA PromptedIs == Prompted = [i \in TypeIds |-> IF TypeToParam[i].optional
           THEN {Value("none", 0, <<>>)} \cup {Value("some", 0, <<v>>) : v \in GetParamValue(TypeToParam[i], Prompted)}
           ELSE GetParamValue(TypeToParam[i], Prompted)]
<1> DEFINE Body(i, f) == IF TypeToParam[i].optional
           THEN {Value("none", 0, <<>>)} \cup {Value("some", 0, <<v>>) : v \in GetParamValue(TypeToParam[i], f)}
           ELSE GetParamValue(TypeToParam[i], f)
           Def(m, f) == [i \in 1..m |-> Body(i, f)]
<1>1. PICK n \in Nat : TypeIds = 1..n BY RegistryFacts
<1>2. ASSUME NEW i \in 1..n, NEW f, NEW g, \A j \in 1..(i - 1) : f[j] = g[j] PROVE Body(i, f) = Body(i, g)
  <2>1. GetParamValue(TypeToParam[i], f) = GetParamValue(TypeToParam[i], g)
    <3>1. \A j \in TypeIds : j < i => f[j] = g[j] BY <1>1, <1>2
    <3> QED BY <1>1, <3>1, PromptsBelow
  <2> QED BY <2>1
<1>3. Prompted = CHOOSE f : f = Def(n, f) BY <1>1 DEF Prompted
<1> HIDE DEF Body
<1>4. \E f : f = Def(n, f)
  <2> DEFINE Bad == {m \in 0..n : ~\E f : f = Def(m, f)}
  <2> SUFFICES ASSUME Bad # {} PROVE FALSE BY <1>1
  <2>0. Bad \subseteq Nat BY <1>1
  <2>1. PICK m \in Bad : \A k \in Bad : m <= k
    <3> HIDE DEF Bad
    <3> QED BY <2>0, LeastExists DEF Least
  <2>2. m \in 0..n /\ ~\E f : f = Def(m, f) OBVIOUS
  <2>3. m # 0
    <3> SUFFICES ASSUME m = 0 PROVE FALSE OBVIOUS
    <3>1. <<>> = Def(0, <<>>) OBVIOUS
    <3> QED BY <2>2, <3>1
  <2>4. m - 1 \in 0..n /\ m - 1 \notin Bad
    <3> HIDE DEF Bad
    <3> QED BY <2>1, <2>2, <2>3
  <2>5. PICK f : f = Def(m - 1, f) BY <2>4
  <2> DEFINE g == [i \in 1..m |-> IF i < m THEN f[i] ELSE Body(i, f)]
  <2>6. ASSUME NEW i \in 1..m PROVE g[i] = Body(i, g)
    <3>1. Body(i, f) = Body(i, g)
      <4>1. \A j \in 1..(i - 1) : f[j] = g[j] BY <2>2
      <4> HIDE DEF g
      <4> QED BY <1>2, <2>2, <4>1
    <3>2. i < m => f[i] = Body(i, f)
      <4> SUFFICES ASSUME i < m PROVE f[i] = Body(i, f) OBVIOUS
      <4>1. i \in 1..(m - 1) BY <2>2
      <4>2. f[i] = Def(m - 1, f)[i] BY <2>5
      <4> QED BY <4>1, <4>2
    <3> HIDE DEF Body
    <3> QED BY <3>1, <3>2
  <2>7. g = Def(m, g) BY <2>6
  <2> QED BY <2>2, <2>7
<1>5. Prompted = Def(n, Prompted) BY <1>3, <1>4
<1> QED BY <1>1, <1>5 DEF Body

LEMMA ValuesIs == Values = [i \in TypeIds |-> ValuesOf(TypeRegistry[i], Values)]
<1> DEFINE Body(i, f) == ValuesOf(TypeRegistry[i], f)
           Def(m, f) == [i \in 1..m |-> Body(i, f)]
<1>1. PICK n \in Nat : TypeIds = 1..n BY RegistryFacts
<1>2. ASSUME NEW i \in 1..n, NEW f, NEW g, \A j \in 1..(i - 1) : f[j] = g[j] PROVE Body(i, f) = Body(i, g)
  <2>1. \A j \in TypeIds : j < i => f[j] = g[j] BY <1>1, <1>2
  <2> QED BY <1>1, <2>1, ValuesBelow
<1>3. Values = CHOOSE f : f = Def(n, f) BY <1>1 DEF Values
<1> HIDE DEF Body
<1>4. \E f : f = Def(n, f)
  <2> DEFINE Bad == {m \in 0..n : ~\E f : f = Def(m, f)}
  <2> SUFFICES ASSUME Bad # {} PROVE FALSE BY <1>1
  <2>0. Bad \subseteq Nat BY <1>1
  <2>1. PICK m \in Bad : \A k \in Bad : m <= k
    <3> HIDE DEF Bad
    <3> QED BY <2>0, LeastExists DEF Least
  <2>2. m \in 0..n /\ ~\E f : f = Def(m, f) OBVIOUS
  <2>3. m # 0
    <3> SUFFICES ASSUME m = 0 PROVE FALSE OBVIOUS
    <3>1. <<>> = Def(0, <<>>) OBVIOUS
    <3> QED BY <2>2, <3>1
  <2>4. m - 1 \in 0..n /\ m - 1 \notin Bad
    <3> HIDE DEF Bad
    <3> QED BY <2>1, <2>2, <2>3
  <2>5. PICK f : f = Def(m - 1, f) BY <2>4
  <2> DEFINE g == [i \in 1..m |-> IF i < m THEN f[i] ELSE Body(i, f)]
  <2>6. ASSUME NEW i \in 1..m PROVE g[i] = Body(i, g)
    <3>1. Body(i, f) = Body(i, g)
      <4>1. \A j \in 1..(i - 1) : f[j] = g[j] BY <2>2
      <4> HIDE DEF g
      <4> QED BY <1>2, <2>2, <4>1
    <3>2. i < m => f[i] = Body(i, f)
      <4> SUFFICES ASSUME i < m PROVE f[i] = Body(i, f) OBVIOUS
      <4>1. i \in 1..(m - 1) BY <2>2
      <4>2. f[i] = Def(m - 1, f)[i] BY <2>5
      <4> QED BY <4>1, <4>2
    <3> HIDE DEF Body
    <3> QED BY <3>1, <3>2
  <2>7. g = Def(m, g) BY <2>6
  <2> QED BY <2>2, <2>7
<1>5. Values = Def(n, Values) BY <1>3, <1>4
<1> QED BY <1>1, <1>5 DEF Body

LEMMA PromptedOf ==
    ASSUME NEW i \in TypeIds
    PROVE  Prompted[i] = IF TypeToParam[i].optional
                         THEN {Value("none", 0, <<>>)} \cup {Value("some", 0, <<v>>) : v \in GetParamValue(TypeToParam[i], Prompted)}
                         ELSE GetParamValue(TypeToParam[i], Prompted)
BY PromptedIs, Zenon

LEMMA ValuesAre == ASSUME NEW i \in TypeIds PROVE Values[i] = ValuesOf(TypeRegistry[i], Values)
BY ValuesIs, Zenon

LEMMA WithinParts ==
    ASSUME NEW i \in TypeIds, NEW k \in DOMAIN Subs(TypeRegistry[i])
    PROVE  Within[Subs(TypeRegistry[i])[k]] \subseteq Within[i]
<1>1. Within[i] = {i} \cup UNION {Within[Subs(TypeRegistry[i])[l]] : l \in DOMAIN Subs(TypeRegistry[i])}
  BY WithinIs, Zenon
<1> QED BY <1>1

LEMMA WithinItself == ASSUME NEW i \in TypeIds PROVE i \in Within[i]
<1>1. Within[i] = {i} \cup UNION {Within[Subs(TypeRegistry[i])[l]] : l \in DOMAIN Subs(TypeRegistry[i])}
  BY WithinIs, Zenon
<1> QED BY <1>1

\* The one part of an option is chosen from its values.
LEMMA OneOfOne ==
    ASSUME NEW values, NEW subs, Len(subs) = 1, NEW T, subs \in Seq(T)
    PROVE  Tuples(subs, values) = {<<v>> : v \in values[subs[1]]}
<1> DEFINE S == values[subs[1]]
           sets == [k \in DOMAIN subs |-> values[subs[k]]]
<1>1. DOMAIN subs = {1} OBVIOUS
<1>2. DOMAIN sets = {1} /\ sets[1] = S BY <1>1
<1>3. Tuples(subs, values) = OneOfEach(sets) BY DEF Tuples
<1> HIDE DEF sets, S
<1>4. UNION {sets[k] : k \in DOMAIN sets} = S BY <1>2
<1>5. OneOfEach(sets) = {s \in [{1} -> S] : s[1] \in S} BY <1>2, <1>4 DEF OneOfEach
<1>6. ASSUME NEW v \in S PROVE <<v>> \in [{1} -> S] /\ <<v>>[1] = v
  <2>1. <<v>> \in Seq(S) /\ Len(<<v>>) = 1 /\ <<v>>[1] = v OBVIOUS
  <2>2. DOMAIN <<v>> = {1} BY <2>1
  <2>3. <<v>> = [k \in {1} |-> <<v>>[k]] BY <2>2
  <2> QED BY <2>1, <2>3
<1>7. ASSUME NEW s \in [{1} -> S] PROVE s = <<s[1]>>
  <2>1. s[1] \in S OBVIOUS
  <2>2. <<s[1]>> \in [{1} -> S] /\ <<s[1]>>[1] = s[1] BY <1>6, <2>1
  <2> QED BY <2>2
<1>8. OneOfEach(sets) = {<<v>> : v \in S} BY <1>5, <1>6, <1>7
<1> QED BY <1>3, <1>8 DEF S

(***************************************************************************)
(* What the prompts for a type make are the values of the type, where no   *)
(* option hides a flag: by induction over the registry, whose types come   *)
(* after their parts.                                                      *)
(***************************************************************************)
Promptable(i) == TypeIsSupported(i) /\ OptionsArePlain(i) /\ TypeRegistry[i].kind # "fields"

\* A part of a promptable type is one, unless it is a variant's.
LEMMA PartsPromptable ==
    ASSUME NEW i \in TypeIds, TypeIsSupported(i), OptionsArePlain(i), TypeRegistry[i].kind \notin {"primitive", "sequence"},
           NEW k \in DOMAIN TypeRegistry[i].subs
    PROVE  /\ TypeIsSupported(TypeRegistry[i].subs[k]) /\ OptionsArePlain(TypeRegistry[i].subs[k])
           /\ TypeRegistry[i].kind # "variant" => Promptable(TypeRegistry[i].subs[k])
<1>0. Within[TypeRegistry[i].subs[k]] \subseteq Within[i]
  <2>1. Subs(TypeRegistry[i]) = TypeRegistry[i].subs BY DEF Subs
  <2> QED BY <2>1, WithinParts
<1>1. TypeIsSupported(TypeRegistry[i].subs[k]) BY <1>0 DEF TypeIsSupported
<1>2. OptionsArePlain(TypeRegistry[i].subs[k]) BY <1>0 DEF OptionsArePlain
<1>3. TypeRegistry[i].kind # "variant" => TypeRegistry[TypeRegistry[i].subs[k]].kind # "fields" BY RegistryFacts
<1> QED BY <1>1, <1>2, <1>3 DEF Promptable

LEMMA PromptsMakeValues == \A i \in TypeIds : Promptable(i) => Prompted[i] = Values[i]
<1> DEFINE Bad == {i \in TypeIds : Promptable(i) /\ Prompted[i] # Values[i]}
<1> SUFFICES ASSUME Bad # {} PROVE FALSE OBVIOUS
<1>0. Bad \subseteq Nat BY RegistryFacts
<1>1. PICK i \in Bad : \A j \in Bad : i <= j
  <2> HIDE DEF Bad
  <2> QED BY <1>0, LeastExists DEF Least
<1>2. i \in TypeIds /\ i \in Nat /\ Promptable(i) /\ Prompted[i] # Values[i] BY <1>0
<1>3. \A j \in TypeIds : j < i /\ Promptable(j) => Prompted[j] = Values[j]
  <2> SUFFICES ASSUME NEW j \in TypeIds, j < i, Promptable(j) PROVE Prompted[j] = Values[j] OBVIOUS
  <2>1. j \notin Bad
    <3> HIDE DEF Bad
    <3> QED BY <1>1, <1>2, RegistryFacts
  <2> QED BY <2>1
<1> HIDE DEF Bad
<1> DEFINE t == TypeRegistry[i]
           p == TypeToParam[i]
<1>4. t.kind \in Kinds /\ t.kind # "fields" /\ t.kind # "call"
  BY <1>2, RegistryFacts, WithinItself DEF Promptable, TypeIsSupported
<1>5. TypeIsSupported(i) /\ OptionsArePlain(i) BY <1>2 DEF Promptable
<1>6. t.kind \notin {"variant", "primitive", "sequence"} => Tuples(t.subs, Prompted) = Tuples(t.subs, Values)
  <2> SUFFICES ASSUME t.kind \notin {"variant", "primitive", "sequence"} PROVE Tuples(t.subs, Prompted) = Tuples(t.subs, Values) OBVIOUS
  <2>1. \A k \in DOMAIN t.subs : /\ t.subs[k] \in TypeIds /\ t.subs[k] < i /\ Promptable(t.subs[k])
    BY <1>2, <1>5, RegistryFacts, PartsPromptable
  <2>2. \A k \in DOMAIN t.subs : Prompted[t.subs[k]] = Values[t.subs[k]] BY <1>3, <2>1
  <2> HIDE DEF t
  <2> QED BY <2>2, TuplesAgree
<1>7. Values[i] = ValuesOf(t, Values) BY <1>2, ValuesAre
<1>8. CASE t.kind # "option"
  <2>1. p = Param(Subs(t), Flag(t), FALSE) BY <1>2, <1>8, ParamOf
  <2>2. Prompted[i] = GetParamValue(p, Prompted)
    <3> HIDE DEF t
    <3>1. p.optional = FALSE BY <2>1 DEF Param
    <3> QED BY <1>2, <3>1, PromptedOf
  <2> HIDE DEF p
  <2>3. p.subs = Subs(t) /\ p.kind = Flag(t)
    <3> HIDE DEF t
    <3> QED BY <2>1 DEF Param
  <2>4. CASE t.kind \in {"primitive", "sequence"} \/ t.subs = <<>>
    <3>1. p.kind = "sequence" \/ p.subs = <<>> BY <2>3, <2>4 DEF Subs, Flag
    <3>2. GetParamValue(p, Prompted) = {Atom} BY <3>1 DEF GetParamValue
    <3>3. t.kind # "option" /\ (t.kind = "variant" => t.subs # <<>>) BY <1>2, <1>8, RegistryFacts
    <3>4. ValuesOf(t, Values) = {Atom}
      <4> HIDE DEF t
      <4> QED BY <2>4, <3>3 DEF ValuesOf
    <3> QED BY <1>2, <1>7, <2>2, <3>2, <3>4
  <2>5. CASE t.kind = "variant" /\ t.subs # <<>>
    <3>1. p.kind = "variant" /\ p.subs = t.subs BY <2>3, <2>5 DEF Subs, Flag
    <3>2. ASSUME NEW k \in DOMAIN t.subs
          PROVE  Tuples(TypeToParam[t.subs[k]].subs, Prompted) = Tuples(TypeRegistry[t.subs[k]].subs, Values)
      <4> DEFINE r == t.subs[k]
      <4>1. /\ r \in TypeIds /\ r < i /\ r \in Nat /\ TypeRegistry[r].kind = "fields"
            /\ TypeIsSupported(r) /\ OptionsArePlain(r)
        BY <1>2, <1>5, <2>5, RegistryFacts, PartsPromptable
      <4> HIDE DEF r
      <4>2. TypeToParam[r].subs = TypeRegistry[r].subs
        <5>1. TypeToParam[r] = Param(Subs(TypeRegistry[r]), Flag(TypeRegistry[r]), FALSE) BY <4>1, ParamOf
        <5> QED BY <4>1, <5>1 DEF Param, Subs
      <4>3. ASSUME NEW l \in DOMAIN TypeRegistry[r].subs
            PROVE  /\ TypeRegistry[r].subs[l] \in TypeIds /\ TypeRegistry[r].subs[l] < i
                   /\ Promptable(TypeRegistry[r].subs[l])
        <5> DEFINE b == TypeRegistry[r].subs[l]
        <5>1. Promptable(b) BY <4>1, PartsPromptable
        <5>2. b \in TypeIds /\ b < r BY <4>1, RegistryFacts
        <5> HIDE DEF b
        <5>3. b \in Nat BY <5>2, RegistryFacts
        <5>4. b < i BY <1>2, <4>1, <5>2, <5>3
        <5> QED BY <5>1, <5>2, <5>4 DEF b
      <4>4. \A l \in DOMAIN TypeRegistry[r].subs : Prompted[TypeRegistry[r].subs[l]] = Values[TypeRegistry[r].subs[l]]
        BY <1>3, <4>3
      <4>5. Tuples(TypeRegistry[r].subs, Prompted) = Tuples(TypeRegistry[r].subs, Values) BY <4>4, TuplesAgree
      <4> QED BY <4>2, <4>5 DEF r
    <3> HIDE DEF t
    <3>3. UNION {{Value("variant", k, vs) : vs \in Tuples(TypeToParam[t.subs[k]].subs, Prompted)} : k \in DOMAIN t.subs}
        = UNION {{Value("variant", k, vs) : vs \in Tuples(TypeRegistry[t.subs[k]].subs, Values)} : k \in DOMAIN t.subs}
      BY <3>2
    <3>4. GetParamValue(p, Prompted) =
            UNION {{Value("variant", k, vs) : vs \in Tuples(TypeToParam[t.subs[k]].subs, Prompted)} : k \in DOMAIN t.subs}
      BY <2>5, <3>1 DEF GetParamValue
    <3>5. ValuesOf(t, Values) =
            UNION {{Value("variant", k, vs) : vs \in Tuples(TypeRegistry[t.subs[k]].subs, Values)} : k \in DOMAIN t.subs}
      BY <2>5 DEF ValuesOf
    <3> QED BY <1>2, <1>7, <2>2, <3>3, <3>4, <3>5
  <2>6. CASE t.kind = "tuple" /\ t.subs # <<>>
    <3> HIDE DEF t
    <3>1. p.kind = "tuple" /\ p.subs = t.subs BY <2>3, <2>6 DEF Subs, Flag
    <3>2. GetParamValue(p, Prompted) = {Value("tuple", 0, vs) : vs \in Tuples(t.subs, Prompted)}
      BY <2>6, <3>1 DEF GetParamValue
    <3>3. ValuesOf(t, Values) = {Value("tuple", 0, vs) : vs \in Tuples(t.subs, Values)} BY <2>6 DEF ValuesOf
    <3> QED BY <1>2, <1>6, <1>7, <2>2, <2>6, <3>2, <3>3
  <2>7. CASE t.kind = "composite" /\ t.subs # <<>>
    <3> HIDE DEF t
    <3>1. p.kind = "plain" /\ p.subs = t.subs BY <2>3, <2>7 DEF Subs, Flag
    <3>2. GetParamValue(p, Prompted) = {Value("fields", 0, vs) : vs \in Tuples(t.subs, Prompted)}
      BY <2>7, <3>1 DEF GetParamValue
    <3>3. ValuesOf(t, Values) = {Value("fields", 0, vs) : vs \in Tuples(t.subs, Values)} BY <2>7 DEF ValuesOf
    <3> QED BY <1>2, <1>6, <1>7, <2>2, <2>7, <3>2, <3>3
  <2> QED BY <1>4, <1>8, <2>4, <2>5, <2>6, <2>7 DEF Kinds
<1>9. CASE t.kind = "option"
  <2> DEFINE a == t.subs[1]
  <2>1. /\ a \in TypeIds /\ a < i /\ a \in Nat /\ Promptable(a) /\ 1 \in DOMAIN t.subs /\ Len(t.subs) = 1
        /\ t.subs \in Seq(TypeIds)
    BY <1>2, <1>5, <1>9, RegistryFacts, PartsPromptable
  <2>2. TypeRegistry[a].kind \notin {"variant", "tuple", "option"}
    BY <1>2, <1>5, <1>9, WithinItself DEF OptionsArePlain
  <2>3. p = Param(TypeToParam[a].subs, "plain", TRUE) BY <1>2, <1>9, ParamOf
  <2>4. Prompted[i] = {Value("none", 0, <<>>)} \cup {Value("some", 0, <<v>>) : v \in GetParamValue(p, Prompted)}
    <3> HIDE DEF a
    <3>1. p.optional = TRUE BY <2>3 DEF Param
    <3> QED BY <1>2, <3>1, PromptedOf
  <2> HIDE DEF a, p
  <2>5. TypeToParam[a] = Param(Subs(TypeRegistry[a]), Flag(TypeRegistry[a]), FALSE) BY <2>1, <2>2, ParamOf
  <2> DEFINE q == TypeToParam[a]
  <2>6. q.subs = Subs(TypeRegistry[a]) /\ q.kind = Flag(TypeRegistry[a]) /\ q.optional = FALSE BY <2>5 DEF Param
  <2>7. p.subs = q.subs /\ p.kind = "plain" BY <2>3 DEF Param
  <2>8. Prompted[a] = GetParamValue(q, Prompted) BY <2>1, <2>6, PromptedOf
  <2> HIDE DEF q
  <2>9. q.kind = "plain" \/ (q.kind = "sequence" /\ q.subs = <<>>) BY <2>2, <2>6 DEF Flag, Subs
  <2>10. GetParamValue(p, Prompted) = GetParamValue(q, Prompted)
    <3>1. CASE q.subs = <<>>
      <4>1. GetParamValue(p, Prompted) = {Atom} BY <2>7, <3>1 DEF GetParamValue
      <4>2. GetParamValue(q, Prompted) = {Atom} BY <3>1 DEF GetParamValue
      <4> QED BY <4>1, <4>2
    <3>2. CASE q.subs # <<>>
      <4>1. GetParamValue(p, Prompted) = {Value("fields", 0, vs) : vs \in Tuples(q.subs, Prompted)}
        BY <2>7, <3>2 DEF GetParamValue
      <4>2. GetParamValue(q, Prompted) = {Value("fields", 0, vs) : vs \in Tuples(q.subs, Prompted)}
        BY <2>9, <3>2 DEF GetParamValue
      <4> QED BY <4>1, <4>2
    <3> QED BY <3>1, <3>2
  <2>11. GetParamValue(p, Prompted) = Values[a] BY <1>3, <2>1, <2>8, <2>10
  <2>12. Tuples(t.subs, Values) = {<<v>> : v \in Values[a]}
    <3> HIDE DEF t
    <3>1. Tuples(t.subs, Values) = {<<v>> : v \in Values[t.subs[1]]} BY <2>1, OneOfOne
    <3> QED BY <3>1 DEF a
  <2> HIDE DEF t
  <2>13. t.subs # <<>> BY <2>1
  <2>14. ValuesOf(t, Values) = {Value("none", 0, <<>>)} \cup {Value("some", 0, vs) : vs \in Tuples(t.subs, Values)}
    BY <1>9, <2>13 DEF ValuesOf
  <2>15. {Value("some", 0, vs) : vs \in Tuples(t.subs, Values)} = {Value("some", 0, <<v>>) : v \in Values[a]}
    BY <2>12
  <2> QED BY <1>2, <1>7, <2>4, <2>11, <2>14, <2>15
<1> QED BY <1>8, <1>9

(***************************************************************************)
(* `pop call chain`.  What is known of the command at each place: a value  *)
(* was prompted for with the type of this call's argument, or none was;    *)
(* and from the second call on the arguments are this call's and root was  *)
(* not asked for.                                                          *)
(***************************************************************************)
ChainFields == {"cmd", "pc", "sudo", "item", "args", "type", "value", "call"}

ChainTyped(s) ==
    /\ ChainFields \subseteq DOMAIN s /\ s.type \in ParamTypes /\ s.call \in Nat \ {0}
    /\ s.sudo \in BOOLEAN /\ s.args \in Seq(Nat) /\ s.item \in {NULL} \cup Items

OwnArguments(s) == s.call > 1 => ~s.sudo /\ s.args \in {<<>>, <<s.call>>}

ValueKnown(s, pc) ==
    /\ pc \in {"chain", "configure", "arguments of call", "json"} => s.value = NULL
    /\ pc \in {"sudo", "signer of call", "prepare"} => s.value = NULL \/ s.value \in Prompted[s.type]

Submitted == [call : Nat \ {0}, args : Seq(Nat), root : BOOLEAN]

ChainsInv ==
    /\ ChainTyped(session) /\ OwnArguments(session) /\ ValueKnown(session, session.pc)
    /\ extrinsics \in Seq(Submitted) /\ RepeatedCallIsItsOwn

\* The command is then at pc, with these answers.
Answered(pc, item, args, value, call, sudo) ==
    /\ ChainFields \subseteq DOMAIN session' /\ session'.type = session.type
    /\ session'.pc = pc /\ session'.item = item /\ session'.args = args /\ session'.value = value
    /\ session'.call = call /\ session'.sudo = sudo

\* A step that changes some fields
LEMMA ChainBecomes ==
    ASSUME ChainTyped(session), NEW fs, Become(fs), {"cmd", "type"} \cap DOMAIN fs = {}
    PROVE  Answered(IF "pc" \in DOMAIN fs THEN fs.pc ELSE session.pc,
                    IF "item" \in DOMAIN fs THEN fs.item ELSE session.item,
                    IF "args" \in DOMAIN fs THEN fs.args ELSE session.args,
                    IF "value" \in DOMAIN fs THEN fs.value ELSE session.value,
                    IF "call" \in DOMAIN fs THEN fs.call ELSE session.call,
                    IF "sudo" \in DOMAIN fs THEN fs.sudo ELSE session.sudo)
<1>1. /\ DOMAIN session' = DOMAIN fs \cup DOMAIN session
      /\ \A f \in DOMAIN session' : session'[f] = IF f \in DOMAIN fs THEN fs[f] ELSE session[f]
  BY DEF Become, With
<1>2. ChainFields \subseteq DOMAIN session' BY <1>1 DEF ChainTyped
<1> QED BY <1>1, <1>2 DEF ChainFields, Answered

SessionKept == ChainTyped(session') /\ OwnArguments(session') /\ ValueKnown(session', session'.pc)

LEMMA ChainGoes ==
    ASSUME ChainsInv, NEW x, Goto(x), ValueKnown(session, x)
    PROVE  SessionKept
<1>1. Answered(x, session.item, session.args, session.value, session.call, session.sudo)
  BY ChainBecomes DEF Goto, ChainsInv
<1> QED BY <1>1 DEF SessionKept, Answered, ChainTyped, OwnArguments, ValueKnown, ChainsInv

LEMMA ChainEnds == ASSUME ChainsInv, Fail \/ Succeed PROVE SessionKept
<1>1. PICK e : Become([pc |-> "done", ended |-> e]) BY DEF Fail, Succeed
<1>2. Answered("done", session.item, session.args, session.value, session.call, session.sudo)
  BY <1>1, ChainBecomes DEF Answered, ChainsInv
<1> QED BY <1>2 DEF SessionKept, Answered, ChainTyped, OwnArguments, ValueKnown, ChainsInv

\* What is submitted of this call is its own.
LEMMA ChainSubmits ==
    ASSUME ChainsInv, NEW root \in BOOLEAN, root => session.sudo, SubmitCall(root) \/ UNCHANGED extrinsics, SessionKept
    PROVE  ChainsInv'
<1>1. CASE UNCHANGED extrinsics BY <1>1 DEF ChainsInv, SessionKept, RepeatedCallIsItsOwn
<1>2. CASE SubmitCall(root)
  <2> DEFINE e == [call |-> session.call, args |-> session.args, root |-> root]
  <2>1. e \in Submitted BY DEF ChainsInv, ChainTyped, Submitted
  <2>2. e.call > 1 => ~e.root /\ \A n \in DOMAIN e.args : e.args[n] = e.call
    <3>1. e.call > 1 => ~root /\ e.args \in {<<>>, <<e.call>>} BY DEF ChainsInv, OwnArguments
    <3>2. DOMAIN <<>> = {} /\ DOMAIN <<e.call>> = {1} /\ <<e.call>>[1] = e.call OBVIOUS
    <3> QED BY <3>1, <3>2
  <2>3. extrinsics' = Append(extrinsics, e) BY <1>2 DEF SubmitCall
  <2> HIDE DEF e
  <2>4. extrinsics \in Seq(Submitted) BY DEF ChainsInv
  <2>5. extrinsics' \in Seq(Submitted) BY <2>1, <2>3, <2>4
  <2>6. \A i \in DOMAIN extrinsics' : extrinsics'[i] = e \/ (i \in DOMAIN extrinsics /\ extrinsics'[i] = extrinsics[i])
    BY <2>1, <2>3, <2>4
  <2>7. RepeatedCallIsItsOwn'
    <3> SUFFICES ASSUME NEW i \in DOMAIN extrinsics', extrinsics'[i].call > 1
                 PROVE  /\ ~extrinsics'[i].root
                        /\ \A n \in DOMAIN extrinsics'[i].args : extrinsics'[i].args[n] = extrinsics'[i].call
      BY DEF RepeatedCallIsItsOwn
    <3>1. CASE extrinsics'[i] = e BY <2>2, <3>1
    <3>2. CASE i \in DOMAIN extrinsics /\ extrinsics'[i] = extrinsics[i]
      BY <3>2 DEF ChainsInv, RepeatedCallIsItsOwn
    <3> QED BY <2>6, <3>1, <3>2
  <2> QED BY <2>5, <2>7 DEF ChainsInv, SessionKept
<1> QED BY <1>1, <1>2

\* Signing goes on where signing leads to.
LEMMA ChainSigns ==
    ASSUME ChainsInv, NEW x, DetermineSigningMethod(x), ValueKnown(session, x)
    PROVE  SessionKept
<1>1. ASSUME NEW w \in BOOLEAN, Become([pc |-> x, wallet |-> w]) PROVE SessionKept
  <2>1. Answered(x, session.item, session.args, session.value, session.call, session.sudo)
    BY <1>1, ChainBecomes DEF Answered, ChainsInv
  <2> QED BY <2>1 DEF SessionKept, Answered, ChainTyped, OwnArguments, ValueKnown, ChainsInv
<1> QED BY <1>1, ChainGoes, ChainEnds DEF DetermineSigningMethod

LEMMA ConfigureCallKeeps == ASSUME ChainsInv, ConfigureCall PROVE SessionKept
<1>1. At("configure") /\ session.value = NULL BY DEF ConfigureCall, At, ChainsInv, ValueKnown
<1>2. CASE Fail BY <1>2, ChainEnds
<1>3. ASSUME Become(ResetForNewChainCall) PROVE SessionKept
  <2>1. Answered(session.pc, NULL, <<>>, session.value, session.call, FALSE)
    BY <1>3, ChainBecomes DEF Answered, ChainsInv, ResetForNewChainCall
  <2>2. <<>> \in Seq(Nat) OBVIOUS
  <2> QED BY <1>1, <2>1, <2>2 DEF SessionKept, Answered, ChainTyped, OwnArguments, ValueKnown, ChainsInv, At
<1>4. ASSUME NEW x \in {"arguments of call", "storage key", "again"}, NEW i \in Items, Become([pc |-> x, item |-> i]) PROVE SessionKept
  <2>1. Answered(x, i, session.args, session.value, session.call, session.sudo)
    <3> DEFINE fs == [pc |-> x, item |-> i]
    <3>1. DOMAIN fs = {"pc", "item"} /\ fs.pc = x /\ fs.item = i OBVIOUS
    <3>2. Become(fs) BY <1>4
    <3> HIDE DEF fs
    <3> QED BY <3>1, <3>2, ChainBecomes DEF Answered, ChainsInv
  <2> QED BY <1>1, <1>4, <2>1 DEF SessionKept, Answered, ChainTyped, OwnArguments, ValueKnown, ChainsInv
<1>5. CASE \E i \in FindCallableByName :
             CASE i = "unsupported" -> Become(ResetForNewChainCall)
               [] i = "function" -> Become([pc |-> "arguments of call", item |-> i])
               [] i \in ChainState -> Become([pc |-> "storage key", item |-> i])
               [] i = "constant" -> Become([pc |-> "again", item |-> i])
  <2> PICK i \in FindCallableByName :
             CASE i = "unsupported" -> Become(ResetForNewChainCall)
               [] i = "function" -> Become([pc |-> "arguments of call", item |-> i])
               [] i \in ChainState -> Become([pc |-> "storage key", item |-> i])
               [] i = "constant" -> Become([pc |-> "again", item |-> i])
    BY <1>5
  <2>1. i \in Items BY DEF FindCallableByName, ChainsInv, ChainTyped
  <2> QED BY <1>3, <1>4, <2>1 DEF Items, Functions, Constants, ChainState
<1> QED BY <1>2, <1>5 DEF ConfigureCall

LEMMA ResolveArgumentsKeeps == ASSUME ChainsInv, ResolveArguments PROVE SessionKept
<1>1. CASE Fail BY <1>1, ChainEnds
<1>2. CASE Become([pc |-> "sudo", value |-> NULL])
  <2>1. Answered("sudo", session.item, session.args, NULL, session.call, session.sudo)
    BY <1>2, ChainBecomes DEF Answered, ChainsInv
  <2> QED BY <2>1 DEF SessionKept, Answered, ChainTyped, OwnArguments, ValueKnown, ChainsInv
<1>3. ASSUME NEW v \in Prompted[session.type], Become([pc |-> "sudo", args |-> <<session.call>>, value |-> v])
      PROVE  SessionKept
  <2>1. Answered("sudo", session.item, <<session.call>>, v, session.call, session.sudo)
    BY <1>3, ChainBecomes DEF Answered, ChainsInv
  <2>2. <<session.call>> \in Seq(Nat) BY DEF ChainsInv, ChainTyped
  <2> QED BY <2>1, <2>2 DEF SessionKept, Answered, ChainTyped, OwnArguments, ValueKnown, ChainsInv
<1> QED BY <1>1, <1>2, <1>3 DEF ResolveArguments

LEMMA CheckSudoKeeps == ASSUME ChainsInv, CheckSudo PROVE SessionKept
<1>1. At("sudo") /\ ValueKnown(session, "signer of call") BY DEF CheckSudo, At, ChainsInv, ValueKnown
<1>2. ASSUME session.sudo, NEW root \in BOOLEAN, Become([pc |-> "signer of call", sudo |-> root]) PROVE SessionKept
  <2>1. Answered("signer of call", session.item, session.args, session.value, session.call, root)
    <3> DEFINE fs == [pc |-> "signer of call", sudo |-> root]
    <3>1. DOMAIN fs = {"pc", "sudo"} /\ fs.pc = "signer of call" /\ fs.sudo = root OBVIOUS
    <3>2. Become(fs) BY <1>2
    <3> HIDE DEF fs
    <3> QED BY <3>1, <3>2, ChainBecomes DEF Answered, ChainsInv
  <2> QED BY <1>1, <1>2, <2>1 DEF SessionKept, Answered, ChainTyped, OwnArguments, ValueKnown, ChainsInv
<1> QED BY <1>1, <1>2, ChainGoes, ChainEnds DEF CheckSudo

LEMMA AnotherCallKeeps == ASSUME ChainsInv, AnotherCall PROVE SessionKept
<1>1. CASE Fail \/ Succeed BY <1>1, ChainEnds
<1>2. CASE Become(With([pc |-> "configure", call |-> session.call + 1, value |-> NULL], ResetForNewChainCall))
  <2> DEFINE fs == With([pc |-> "configure", call |-> session.call + 1, value |-> NULL], ResetForNewChainCall)
  <2>1. /\ DOMAIN fs = {"pc", "call", "value", "item", "args", "sudo", "wallet"}
        /\ fs.pc = "configure" /\ fs.call = session.call + 1 /\ fs.value = NULL
        /\ fs.item = NULL /\ fs.args = <<>> /\ fs.sudo = FALSE
    BY DEF With, ResetForNewChainCall
  <2>2. Become(fs) BY <1>2
  <2> HIDE DEF fs
  <2>3. Answered("configure", NULL, <<>>, NULL, session.call + 1, FALSE)
    BY <2>1, <2>2, ChainBecomes DEF Answered, ChainsInv
  <2>4. <<>> \in Seq(Nat) /\ session.call + 1 \in Nat \ {0} BY DEF ChainsInv, ChainTyped
  <2> QED BY <2>3, <2>4 DEF SessionKept, Answered, ChainTyped, OwnArguments, ValueKnown, ChainsInv
<1> QED BY <1>1, <1>2 DEF AnotherCall

LEMMA FallbackKeeps == ASSUME ChainsInv, QueryStorageWithTupleFallback PROVE SessionKept
<1>1. CASE Fail BY <1>1, ChainEnds
<1>2. CASE Goto("again")
  <2>1. ValueKnown(session, "again") BY DEF ValueKnown
  <2> QED BY <1>2, <2>1, ChainGoes
<1>3. CASE (At("query") \/ At("query all")) /\ Become([value |-> "flattened"])
  <2>1. Answered(session.pc, session.item, session.args, "flattened", session.call, session.sudo)
    <3> DEFINE fs == [value |-> "flattened"]
    <3>1. DOMAIN fs = {"value"} /\ fs.value = "flattened" OBVIOUS
    <3>2. Become(fs) BY <1>3
    <3> HIDE DEF fs
    <3> QED BY <3>1, <3>2, ChainBecomes DEF Answered, ChainsInv
  <2> QED BY <1>3, <2>1 DEF SessionKept, Answered, ChainTyped, OwnArguments, ValueKnown, ChainsInv, At
<1> QED BY <1>1, <1>2, <1>3 DEF QueryStorageWithTupleFallback, Query, QueryAll

\* The steps that submit nothing
LEMMA ChainStepKeeps ==
    ASSUME ChainsInv,
           \/ ConfigureChain \/ ConfigureCall \/ ResolveArguments \/ CheckSudo \/ SignCall
           \/ PrepareExtrinsic \/ ConfigureStorageKey \/ QueryStorageWithTupleFallback
           \/ SubmitFromCallData \/ CallJson \/ AnotherCall
    PROVE  SessionKept
<1>0. \A pc \in {"storage key", "query", "query all", "sign data", "submit data", "submit", "again"} :
         ValueKnown(session, pc)
  BY DEF ValueKnown
<1>1. ASSUME ConfigureChain PROVE SessionKept
  <2>1. session.value = NULL BY <1>1 DEF ConfigureChain, At, ChainsInv, ValueKnown
  <2>2. ValueKnown(session, "configure") /\ ValueKnown(session, "json") BY <2>1 DEF ValueKnown
  <2>3. Fail \/ Succeed \/ Goto("sign data") \/ Goto("json") \/ Goto("configure") BY <1>1 DEF ConfigureChain
  <2> QED BY <1>0, <2>2, <2>3, ChainEnds, ChainGoes
<1>2. ASSUME SignCall PROVE SessionKept
  <2>1. ValueKnown(session, "prepare") BY <1>2 DEF SignCall, At, ChainsInv, ValueKnown
  <2> QED BY <1>2, <2>1, ChainSigns DEF SignCall
<1>3. ASSUME PrepareExtrinsic PROVE SessionKept BY <1>0, <1>3, ChainEnds, ChainGoes DEF PrepareExtrinsic
<1>4. ASSUME ConfigureStorageKey PROVE SessionKept
  <2>1. Fail \/ Goto("query") \/ Goto("query all") BY <1>4 DEF ConfigureStorageKey
  <2> QED BY <1>0, <2>1, ChainEnds, ChainGoes
<1>5. ASSUME SubmitFromCallData PROVE SessionKept BY <1>0, <1>5, ChainSigns DEF SubmitFromCallData
<1>6. ASSUME CallJson PROVE SessionKept
  <2>1. ValueKnown(session, "prepare") BY <1>6 DEF CallJson, At, ChainsInv, ValueKnown
  <2>2. Fail \/ Succeed \/ Goto("prepare") BY <1>6 DEF CallJson
  <2> QED BY <2>1, <2>2, ChainEnds, ChainGoes
<1> HIDE DEF ChainsInv
<1> QED
  BY <1>1, <1>2, <1>3, <1>4, <1>5, <1>6, ConfigureCallKeeps, ResolveArgumentsKeeps, CheckSudoKeeps,
     FallbackKeeps, AnotherCallKeeps

LEMMA SubmitExtrinsicKeeps == ASSUME ChainsInv, SubmitExtrinsic PROVE ChainsInv'
<1>1. session.sudo \in BOOLEAN BY DEF ChainsInv, ChainTyped
<1>2. SubmitCall(session.sudo) \/ UNCHANGED extrinsics
  BY DEF SubmitExtrinsic, SubmitWithWallet, SignAndSubmitExtrinsic
<1>3. Goto("again") \/ Succeed \/ Fail BY DEF SubmitExtrinsic, SubmitWithWallet, SignAndSubmitExtrinsic
<1>4. ValueKnown(session, "again") BY DEF ValueKnown
<1>5. SessionKept BY <1>3, <1>4, ChainGoes, ChainEnds
<1> QED BY <1>1, <1>2, <1>5, ChainSubmits

LEMMA SubmitCallDataKeeps == ASSUME ChainsInv, SubmitCallData PROVE ChainsInv'
<1>1. SubmitCall(FALSE) \/ UNCHANGED extrinsics
  BY DEF SubmitCallData, SubmitWithWallet, SignAndSubmitExtrinsic
<1>2. Succeed \/ Fail BY DEF SubmitCallData, SubmitWithWallet, SignAndSubmitExtrinsic
<1>3. SessionKept BY <1>2, ChainEnds
<1> QED BY <1>1, <1>3, ChainSubmits

LEMMA ChainsInductive == ChainsInv /\ [ChainsNext]_chainVars => ChainsInv'
<1> SUFFICES ASSUME ChainsInv, [ChainsNext]_chainVars PROVE ChainsInv' OBVIOUS
<1>1. CASE UNCHANGED chainVars
  BY <1>1 DEF chainVars, ChainsInv, ChainTyped, OwnArguments, ValueKnown, RepeatedCallIsItsOwn
<1>2. ASSUME SessionKept, UNCHANGED extrinsics PROVE ChainsInv'
  BY <1>2 DEF ChainsInv, SessionKept, RepeatedCallIsItsOwn
<1> QED BY <1>1, <1>2, ChainStepKeeps, SubmitExtrinsicKeeps, SubmitCallDataKeeps DEF ChainsNext

LEMMA ChainsStart == ChainsInit => ChainsInv
<1> SUFFICES ASSUME ChainsInit PROVE ChainsInv OBVIOUS
<1>1. session \in CallChain /\ extrinsics = <<>> BY DEF ChainsInit
<1>2. /\ ChainFields \subseteq DOMAIN session /\ session.type \in ParamTypes /\ session.call = 1
      /\ session.sudo \in BOOLEAN /\ session.args \in {<<>>, <<0>>} /\ session.item \in {NULL} \cup Items
      /\ session.value = NULL /\ session.pc = "chain"
  BY <1>1 DEF CallChain, ChainFields
<1>3. <<>> \in Seq(Nat) /\ <<0>> \in Seq(Nat) /\ DOMAIN <<>> = {} /\ <<>> \in Seq(Submitted) OBVIOUS
<1>4. session.args \in Seq(Nat) BY <1>2, <1>3
<1>5. ChainTyped(session) /\ OwnArguments(session) /\ ValueKnown(session, session.pc)
  BY <1>2, <1>4 DEF ChainTyped, OwnArguments, ValueKnown
<1>6. RepeatedCallIsItsOwn BY <1>1, <1>3 DEF RepeatedCallIsItsOwn
<1> QED BY <1>1, <1>3, <1>5, <1>6 DEF ChainsInv

(***************************************************************************)
(* Whatever the types of a chain's functions are, an argument that was     *)
(* prompted for can be encoded, except where an option lost a flag.        *)
(***************************************************************************)
THEOREM PromptsFit == ChainsSpec => []PromptedArgumentsFit
<1>1. ChainsInv => PromptedArgumentsFit
  <2> SUFFICES ASSUME ChainsInv, At("prepare"), session.value # NULL, OptionsArePlain(session.type)
               PROVE  session.value \in Values[session.type]
    BY DEF PromptedArgumentsFit
  <2>1. session.type \in ParamTypes /\ session.value \in Prompted[session.type]
    BY DEF ChainsInv, ChainTyped, ValueKnown, At
  <2>2. session.type \in TypeIds /\ Promptable(session.type) BY <2>1, ParamTypesAssumption DEF Promptable
  <2> QED BY <2>1, <2>2, PromptsMakeValues
<1> QED BY <1>1, ChainsStart, ChainsInductive, PTL DEF ChainsSpec

(***************************************************************************)
(* However many calls the user goes on to, an extrinsic after the first    *)
(* has its own call's arguments and no root origin.                        *)
(***************************************************************************)
THEOREM ChainCallsAreTheirOwn == ChainsSpec => []RepeatedCallIsItsOwn
<1>1. ChainsInv => RepeatedCallIsItsOwn BY DEF ChainsInv
<1> QED BY <1>1, ChainsStart, ChainsInductive, PTL DEF ChainsSpec

=============================================================================
