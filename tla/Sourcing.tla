------------------------------ MODULE Sourcing ------------------------------
(***************************************************************************)
(* The binaries pop needs, the cache directory it keeps them in, and what  *)
(* a network launch does until its nodes start                             *)
(* (crates/pop-common/src/sourcing, crates/pop-cli/src/common/binary.rs,   *)
(* crates/pop-chains/src/up, source_binaries of                            *)
(* crates/pop-cli/src/commands/up/network.rs, `pop clean cache`).          *)
(*                                                                         *)
(* A binary is resolved to a version from the releases on GitHub and the   *)
(* files already cached; it is sourced by downloading a release archive    *)
(* and moving its files into the cache, or by building a repository and    *)
(* copying the artifact.  Several processes share the directory and        *)
(* nothing locks it.  One worker binary stands for the relay chain's two.  *)
(***************************************************************************)
EXTENDS Naturals, Sequences, FiniteSets, FiniteSetsExt, SequencesExt

CONSTANTS
    Procs,      \* processes, each of which runs one command
    Needed,     \* tools the other commands need
    Configs,    \* the chains of a network configuration, or given on the command line
    Registry,   \* chains pop knows, ...
    Requires,   \* ... and the chains each of them needs
    Contents,   \* the files of each binary's archive in order, the binary itself first
    Built,      \* binaries built from a repository without a reference
    MaxVersion, \* the newest release on GitHub; older ones are 1, 2, ...
    Fallback    \* the release assumed when GitHub does not answer

Names == DOMAIN Contents
Parts == UNION {{Contents[n][i] : i \in DOMAIN Contents[n]} : n \in Names}
None == 0   \* no version, no tag

ASSUME SourcingAssumption ==
    /\ \A n \in Names : Contents[n] \in Seq(Parts) /\ Contents[n] # <<>> /\ Contents[n][1] = n
    /\ MaxVersion \in Nat \ {0} /\ Fallback \in 1..MaxVersion
    /\ Needed \subseteq Names \ Built
    /\ Requires \in [Registry -> SUBSET Registry]

\* No file comes twice, in one archive or in two, and a build makes one artifact: a file of
\* the cache tells which binary it was sourced for.
ASSUME ArchivesDisjoint ==
    /\ \A m, n \in Names : \A i \in DOMAIN Contents[m], j \in DOMAIN Contents[n] :
          Contents[m][i] = Contents[n][j] => m = n /\ i = j
    /\ Built \subseteq Names
    /\ \A n \in Built : Len(Contents[n]) = 1

VARIABLES
    cache,      \* each file of the cache directory: "absent", "partial" or "whole"
    link,       \* the version the link to the worker points to
    proc,       \* each process
    torn        \* history: binaries some of whose files were moved or removed and others not

vars == <<cache, link, proc, torn>>

Files == Parts \X (None..MaxVersion)

Relay == "polkadot"
Worker == "worker"
Generator == "generator"
System == "system"
Parachain == "parachain"

\* A process: the binaries to resolve, those resolved, whether GitHub's limit of requests is
\* reached, the version asked for, which of the binaries resolved are still to fetch, the
\* place in its archive of the file of the first of them to move next, whether that file is
\* half copied, whether a binary failed, what comes after the sourcing; the files a cleaner
\* has still to remove.
NoWork == [pc |-> "idle", todo |-> <<>>, bins |-> <<>>, limited |-> FALSE, asked |-> None,
           queue |-> {}, at |-> 0, copying |-> FALSE, failed |-> FALSE,
           after |-> "done", list |-> {}]

Init ==
    /\ \E old \in SUBSET {1} :     \* the cache is empty, or has an old release of everything
          cache = [f \in Files |-> IF f[2] \in old /\ f[1] \notin Built THEN "whole" ELSE "absent"]
    /\ link = None
    /\ proc = [p \in Procs |-> NoWork]
    /\ torn = {}

SetProc(p, r) == proc' = [proc EXCEPT ![p] = r]
Proceed(p, pc) == proc' = [proc EXCEPT ![p].pc = pc]
EndProcess(p, pc) == SetProc(p, [NoWork EXCEPT !.pc = pc])
FailProcess(p) == EndProcess(p, "failed")

(***************************************************************************)
(* Resolution                                                              *)
(***************************************************************************)
Exists(b) == cache[<<b.name, b.tag>>] # "absent"

Stale(b) == b.latest # None /\ b.tag # b.latest

UseLatest(b) == IF b.latest # None THEN [b EXCEPT !.tag = b.latest] ELSE b

CachedVersions(n) == {v \in 1..MaxVersion : cache[<<n, v>>] # "absent"}

\* GitHub::resolve: the versions on offer are the releases (or, when GitHub does not answer,
\* the one asked for or the fallback) and the cached ones.  A specified version is taken as
\* it is; otherwise the newest cached one, or the newest of all.
Resolve(n, specified, answered) ==
    LET released == IF answered THEN 1..MaxVersion
                    ELSE {IF specified # None THEN specified ELSE Fallback}
        cached == CachedVersions(n)
        versions == released \union cached
    IN IF n \in Built THEN [name |-> n, tag |-> None, latest |-> None]
       ELSE IF specified # None THEN [name |-> n, tag |-> specified, latest |-> None]
       ELSE [name |-> n, tag |-> Max(IF cached # {} THEN cached ELSE versions),
             latest |-> Max(versions)]

\* ApiClient::get: the releases, an error, or word that the limit of requests is reached, after
\* which the process sends none.
Answers(r) == IF r.limited THEN {"limited"} ELSE {"releases", "error", "limited"}

(***************************************************************************)
(* Sourcing                                                                *)
(***************************************************************************)
First(r) == r.bins[Min(r.queue)]
Rest(r) == r.queue \ {Min(r.queue)}

Key(b) == <<b.name, b.tag>>
Current(r) == Key(First(r))

\* The other binaries are still sourced after one failed, except with --verbose.
AfterFailure(r) ==
    LET next == [r EXCEPT !.at = 0, !.copying = FALSE, !.failed = TRUE, !.pc = "fetch"]
    IN {[next EXCEPT !.queue = {}], [next EXCEPT !.queue = Rest(r)]}

FetchFailed(p) == \E r \in AfterFailure(proc[p]) : SetProc(p, r)

\* The archive is downloaded and unpacked in a temporary directory, or the source code is
\* downloaded (or cloned) and built there; nothing is in the cache yet.
Fetched(r) == [r EXCEPT !.pc = "move", !.at = 1]

FromArchive(p) == First(proc[p]).name \notin Built /\ SetProc(p, Fetched(proc[p]))

FromGitHubArchive(p) == First(proc[p]).name \in Built /\ SetProc(p, Fetched(proc[p]))

Fetch(p) ==
    /\ proc[p].pc = "fetch"
    /\ proc[p].queue # {}
    /\ FromArchive(p) \/ FromGitHubArchive(p) \/ FetchFailed(p)
    /\ UNCHANGED <<cache, link, torn>>

FetchDone(p) ==
    /\ proc[p].pc = "fetch"
    /\ proc[p].queue = {}
    /\ IF proc[p].failed THEN FailProcess(p) ELSE Proceed(p, proc[p].after)
    /\ UNCHANGED <<cache, link, torn>>

\* A file is named after what it holds and the reference it comes from.
File(r) == <<Contents[First(r).name][r.at], First(r).tag>>

Moved(r) ==
    IF r.at < Len(Contents[First(r).name]) THEN [r EXCEPT !.at = r.at + 1, !.copying = FALSE]
    ELSE [r EXCEPT !.at = 0, !.queue = Rest(r), !.copying = FALSE, !.pc = "fetch"]

Interrupted(r) == IF r.pc = "move" THEN torn \union {Current(r)} ELSE torn

\* Deliberate fault: a required file that is not in the archive is skipped.
MoveFileLeniently(p) ==
    LET r == proc[p] IN
    /\ r.pc = "move" /\ ~r.copying
    /\ \/ /\ First(r).name \notin Built
          /\ cache' = [cache EXCEPT ![File(r)] = "whole"]
          /\ SetProc(p, Moved(r))
          /\ UNCHANGED <<link, torn>>
       \/ /\ cache' = [cache EXCEPT ![File(r)] = "partial"]
          /\ SetProc(p, [r EXCEPT !.copying = TRUE])
          /\ UNCHANGED <<link, torn>>
       \/ /\ SetProc(p, Moved(r))
          /\ UNCHANGED <<cache, link, torn>>

\* A file of an archive is renamed into the cache, or copied when that fails (the cache is
\* on another device); an artifact is copied.  The file may be missing.
MoveFile(p) ==
    LET r == proc[p] IN
    /\ r.pc = "move" /\ ~r.copying
    /\ \/ /\ First(r).name \notin Built
          /\ cache' = [cache EXCEPT ![File(r)] = "whole"]
          /\ SetProc(p, Moved(r))
          /\ UNCHANGED <<link, torn>>
       \/ /\ cache' = [cache EXCEPT ![File(r)] = "partial"]
          /\ SetProc(p, [r EXCEPT !.copying = TRUE])
          /\ UNCHANGED <<link, torn>>
       \/ /\ FetchFailed(p)
          /\ torn' = Interrupted(r)
          /\ UNCHANGED <<cache, link>>

CopyFile(p) ==
    LET r == proc[p] IN
    /\ r.pc = "move" /\ r.copying
    /\ \/ /\ cache' = [cache EXCEPT ![File(r)] = "whole"]
          /\ SetProc(p, Moved(r))
          /\ UNCHANGED <<link, torn>>
       \/ /\ FetchFailed(p)
          /\ torn' = Interrupted(r)
          /\ UNCHANGED <<cache, link>>

SourceBinary(p) == Fetch(p) \/ FetchDone(p) \/ MoveFile(p) \/ CopyFile(p)

(***************************************************************************)
(* check_and_prompt: a command needs one tool.                             *)
(***************************************************************************)
GenerateTool(p, n, answer) ==
    /\ proc[p].pc = "idle"
    /\ LET b == Resolve(n, None, answer = "releases") IN
       \/ /\ Exists(b)
          /\ SetProc(p, [NoWork EXCEPT !.pc = "tool", !.bins = <<b>>])
       \/ /\ ~Exists(b)        \* source it, ...
          /\ SetProc(p, [NoWork EXCEPT !.pc = "fetch", !.bins = <<b>>, !.queue = {1},
                                   !.after = "tool"])
       \/ /\ ~Exists(b)        \* ... or do not
          /\ SetProc(p, [NoWork EXCEPT !.pc = "tool", !.bins = <<b>>])
    /\ UNCHANGED <<cache, link, torn>>

UpdateTool(p) ==
    LET b == proc[p].bins[1] IN
    /\ proc[p].pc = "tool"
    /\ \/ /\ Stale(b)
          /\ LET new == Resolve(b.name, b.latest, TRUE) IN
             SetProc(p, [proc[p] EXCEPT !.pc = "fetch", !.bins = <<new>>, !.queue = {1},
                                    !.after = "ready"])
       \/ Proceed(p, "ready")
    /\ UNCHANGED <<cache, link, torn>>

\* The command goes on with the path, which is not looked at any more.
UseTool(p) ==
    /\ proc[p].pc = "ready"
    /\ EndProcess(p, "done")
    /\ UNCHANGED <<cache, link, torn>>

(***************************************************************************)
(* Zombienet::new                                                          *)
(***************************************************************************)

\* BuildCommand::execute adds the chains that those given need.
WithDependencies(chains) ==
    chains \union UNION {Requires[c] : c \in chains \intersect Registry}

\* The binaries of a network: the relay chain's and its spec generator, and for each chain
\* its own; system chains have a spec generator as well.
ChainBinaries(c) == IF c = System THEN <<Parachain, Generator>> ELSE <<c>>

Parachains(chains) == FlattenSeq([i \in 1..Cardinality(chains) |->
                          ChainBinaries(SetToSeq(chains)[i])])

NetworkBinaries(chains) == <<Relay, Generator>> \o Parachains(chains)

\* Each of them has an archive or a repository; Zombienet::new refuses any other.
ASSUME SourcesKnown ==
    /\ {Relay, Generator} \subseteq Names
    /\ \A chains \in Configs \union {WithDependencies(c) : c \in Configs} :
          Parachains(chains) \in Seq(Names)

Start(p, chains, asked) ==
    /\ proc[p].pc = "idle"
    /\ \/ SetProc(p, [NoWork EXCEPT !.pc = "resolve", !.asked = asked,
                              !.todo = NetworkBinaries(chains)])
       \/ FailProcess(p)      \* the configuration is rejected, or a command has no known source
    /\ UNCHANGED <<cache, link, torn>>

\* A configuration file names all the chains itself.
UpConfigFile(p, chains, asked) == Start(p, chains, asked)

\* A relay chain and chains of the registry.
UpRelay(p, chains, asked) ==
    /\ chains \subseteq Registry
    /\ Start(p, WithDependencies(chains), asked)

\* chains::system defaults to the version of the relay chain.
Specified(r, name) ==
    CASE name = Relay -> r.asked
      [] name = Parachain -> r.bins[1].tag
      [] OTHER -> None

\* init_relay_chain and parachains resolve the binaries one after another.
ResolveBinary(p, answer) ==
    LET r == proc[p] name == Head(r.todo) IN
    /\ r.pc = "resolve" /\ r.todo # <<>>
    /\ SetProc(p, [r EXCEPT !.todo = Tail(@), !.limited = answer = "limited",
                        !.bins = Append(@, Resolve(name, Specified(r, name), answer = "releases"))])
    /\ UNCHANGED <<cache, link, torn>>

(***************************************************************************)
(* source_binaries                                                         *)
(***************************************************************************)
Missing(bins) == {i \in DOMAIN bins : ~Exists(bins[i])}
Outdated(bins) == {i \in DOMAIN bins : Stale(bins[i])}

\* Of equal binaries only the first is kept, and so is the only one to be updated.
FirstOf(bins, I) == {i \in I : \A j \in I : bins[j] = bins[i] => i <= j}

\* Deliberate fault: with --skip-confirm or consent only the missing ones are sourced, yet
\* all stale ones are switched to the latest version.
ToSourceMissing(bins, latest) == FirstOf(bins, Missing(bins))

ToSource(bins, latest) ==
    FirstOf(bins, Missing(bins) \union (IF latest THEN Outdated(bins) ELSE {}))

SourceBinaries(p, confirmed, latest) ==
    LET r == proc[p]
        first == FirstOf(r.bins, Missing(r.bins) \union Outdated(r.bins))
        bins == [i \in DOMAIN r.bins |-> IF latest /\ i \in first /\ Stale(r.bins[i])
                                         THEN UseLatest(r.bins[i]) ELSE r.bins[i]]
    IN
    /\ r.pc = "resolve" /\ r.todo = <<>>
    /\ confirmed \/ Missing(r.bins) # {}
    /\ latest => Outdated(r.bins) # {}
    /\ SetProc(p, IF ~confirmed THEN [NoWork EXCEPT !.pc = "failed"]
              ELSE [r EXCEPT !.bins = bins, !.pc = "fetch", !.after = "spawn",
                             !.limited = FALSE, !.asked = None,
                             !.queue = ToSource(r.bins, latest)])
    /\ UNCHANGED <<cache, link, torn>>

(***************************************************************************)
(* Zombienet::spawn                                                        *)
(***************************************************************************)
RelayOf(p) == proc[p].bins[1]

\* An old link is removed when its target is there.
UnlinkWorker(p) ==
    /\ proc[p].pc = "spawn"
    /\ \/ ~Exists(RelayOf(p)) /\ FailProcess(p) /\ UNCHANGED link
       \/ /\ Exists(RelayOf(p))
          /\ link' = IF link # None /\ cache[<<Worker, link>>] # "absent" THEN None ELSE link
          /\ Proceed(p, "link")
    /\ UNCHANGED <<cache, torn>>

\* symlink_file fails when there is one: another process made it, or its target is gone.
LinkWorker(p) ==
    /\ proc[p].pc = "link"
    /\ \/ link = None /\ link' = RelayOf(p).tag /\ Proceed(p, "adapt")
       \/ link # None /\ FailProcess(p) /\ UNCHANGED link
    /\ UNCHANGED <<cache, torn>>

\* adapt puts the paths of the binaries into the configuration, each of which must exist.
Adapt(p) ==
    /\ proc[p].pc = "adapt"
    /\ \/ (\A i \in DOMAIN proc[p].bins : Exists(proc[p].bins[i])) /\ EndProcess(p, "launched")
       \/ (\E i \in DOMAIN proc[p].bins : ~Exists(proc[p].bins[i])) /\ FailProcess(p)
    /\ UNCHANGED <<cache, link, torn>>

(***************************************************************************)
(* pop clean cache                                                         *)
(***************************************************************************)
LinkFile == <<Worker, None>>

Listed(f) == IF f = LinkFile THEN link # None ELSE cache[f] # "absent"

ChooseFiles(k, chosen) ==
    /\ proc[k].pc = "idle"
    /\ chosen # {}
    /\ \A f \in chosen : Listed(f)
    /\ SetProc(k, [NoWork EXCEPT !.pc = "remove", !.list = chosen])
    /\ UNCHANGED <<cache, link, torn>>

\* remove_file, of a file or of the link; one that has gone ends the command.
RemoveFile(k, f) ==
    /\ proc[k].pc = "remove" /\ f \in proc[k].list
    /\ IF f = LinkFile THEN link' = None /\ UNCHANGED <<cache, torn>>
       ELSE /\ cache' = [cache EXCEPT ![f] = "absent"]
            /\ torn' = torn \union {<<n, f[2]>> : n \in {m \in Names : Contains(Contents[m], f[1])}}
            /\ UNCHANGED link
    /\ SetProc(k, IF ~Listed(f) THEN [NoWork EXCEPT !.pc = "failed"] ELSE [proc[k] EXCEPT !.list = @ \ {f},
                                   !.pc = IF proc[k].list = {f} THEN "done" ELSE "remove"])

(***************************************************************************)
(* A process is killed.                                                    *)
(***************************************************************************)
Kill(p) ==
    /\ proc[p].pc \notin {"idle", "done", "failed", "killed", "launched"}
    /\ torn' = Interrupted(proc[p])
    /\ EndProcess(p, "killed")
    /\ UNCHANGED <<cache, link>>

-----------------------------------------------------------------------------

RunUp(p) ==
    \/ \E chains \in Configs, asked \in None..MaxVersion :
          UpConfigFile(p, chains, asked) \/ UpRelay(p, chains, asked)
    \/ \E answer \in Answers(proc[p]) : ResolveBinary(p, answer)
    \/ \E confirmed, latest \in BOOLEAN : SourceBinaries(p, confirmed, latest)
    \/ UnlinkWorker(p)
    \/ LinkWorker(p)
    \/ Adapt(p)

RunTool(p) ==
    \/ \E n \in Needed, answer \in Answers(proc[p]) : GenerateTool(p, n, answer)
    \/ UpdateTool(p)
    \/ UseTool(p)

CleanCache(k) ==
    \/ \E f \in Files : ChooseFiles(k, {f}) \/ RemoveFile(k, f)
    \/ ChooseFiles(k, {f \in Files : Listed(f)})

Next ==
    \E p \in Procs : RunUp(p) \/ RunTool(p) \/ CleanCache(p) \/ SourceBinary(p) \/ Kill(p)

Spec == Init /\ [][Next]_vars

(***************************************************************************)
(* Properties                                                              *)
(***************************************************************************)

\* What one process brings into the cache: while nobody is moving the files of a binary, and
\* nobody failed, died or deleted in the middle of it, the files of its archive are either
\* all there and whole or all absent, whichever processes sourced it at the same time.
WholeArchives ==
    \A n \in Names, v \in None..MaxVersion :
        LET files == {cache[<<Contents[n][i], v>>] : i \in DOMAIN Contents[n]} IN
        \/ <<n, v>> \in torn
        \/ \E p \in Procs : proc[p].pc = "move" /\ Current(proc[p]) = <<n, v>>
        \/ files = {"absent"} \/ files = {"whole"}

\* A launch whose sourcing succeeded is not refused for a binary that is missing, whatever
\* was stale, cached or given twice: sourcing and the switch to the latest versions agree on
\* which files the launch needs.  (Nobody removed files or left them half moved.)
NothingMissingAtLaunch ==
    \A p \in Procs :
        proc[p].pc \in {"spawn", "link", "adapt"} =>
            \A i \in DOMAIN proc[p].bins :
                \/ Exists(proc[p].bins[i])
                \/ Key(proc[p].bins[i]) \in torn

-----------------------------------------------------------------------------
(* Statements of the code's documentation that the code does not keep. *)

\* The binary of a system chain has the version of the relay chain's binary.
SystemFollowsRelay ==
    \A p \in Procs :
        proc[p].pc = "adapt" =>
            \A i \in DOMAIN proc[p].bins :
                proc[p].bins[i].name = Parachain => proc[p].bins[i].tag = RelayOf(p).tag
=============================================================================
