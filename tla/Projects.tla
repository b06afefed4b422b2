------------------------------ MODULE Projects ------------------------------
(***************************************************************************)
(* `pop new chain`, `pop new contract` and `pop new pallet`                *)
(* (crates/pop-cli/src/commands/new): a project is made at a path from a   *)
(* template, which is cloned from its repository, or rendered; a frontend  *)
(* may be made inside it, and a contract or pallet joins the workspace     *)
(* that the path lies in.                                                  *)
(***************************************************************************)
EXTENDS GitHubApi, Setup

CONSTANT ReleaseLists   \* what the repositories may have published, newest first

VARIABLES target,     \* what is at the path: NULL, or a project
          workspace   \* "none" around the path, or whether the project is a "member"

projectVars == <<target, workspace>>

(***************************************************************************)
(* kind: "users" for what stood there before; whole: all its files are     *)
(* there; tag: the release it comes from; git: the repository in it.       *)
(***************************************************************************)
Project(kind, whole, tag, git) == [kind |-> kind, whole |-> whole, tag |-> tag, git |-> git, frontend |-> FALSE]

UsersDirectory == Project("users", TRUE, NULL, "users")

ASSUME AbsentAssumption == NULL \notin {"ok", "create-dot-app", "typink", UsersDirectory}

\* Templates by their provider: those of OpenZeppelin name the versions they support.
ChainTemplates == {"pop", "openzeppelin", "parity"}

NewChain ==
    [cmd : {"new chain"}, pc : {"new"}, json : BOOLEAN, name : BOOLEAN, template : ChainTemplates,
     tag : {NULL, 1, 9}, verify : BOOLEAN, frontend : {NULL, "ask", "create-dot-app"}, releases : ReleaseLists,
     choices : {<<>>}, commits : {0}, stood : BOOLEAN, removed : {FALSE}, ended : {NULL}]

NewContract ==
    [cmd : {"new contract"}, pc : {"new"}, json : BOOLEAN, name : BOOLEAN, valid : BOOLEAN,
     template : {NULL, "standard", "other"}, tag : {NULL}, frontend : {NULL, "ask", "typink", "inkathon"},
     stood : BOOLEAN, removed : {FALSE}, ended : {NULL}]

\* default: --default-config; types: whether config types are given; mode: simple, or advanced with or without flags
NewPallet ==
    [cmd : {"new pallet"}, pc : {"new"}, json : BOOLEAN, name : BOOLEAN, mode : {"simple", "prompt", "flags"},
     default : BOOLEAN, types : BOOLEAN, tag : {NULL}, frontend : {NULL}, stood : BOOLEAN, removed : {FALSE}, ended : {NULL}]

ProjectsInit ==
    /\ ApiInit
    /\ installed \in Machines /\ {"rustup", "homebrew"} \cap installed = {}
    /\ session \in NewChain \cup NewContract
                   \cup {c \in NewPallet : c.mode = "flags" \/ ~(c.default \/ c.types)}
    /\ target = IF session.stood THEN UsersDirectory ELSE NULL
    /\ workspace \in {"none", "other crates"}
    /\ IF session.cmd = "new chain" THEN workspace = "none" ELSE window.left = 0

Is(cmd, pc) == session.cmd = cmd /\ At(pc)

-----------------------------------------------------------------------------
(* What every kind of project shares *)

(***************************************************************************)
(* Deliberate fault: what stands at the path is removed without asking.    *)
(***************************************************************************)
RemoveWhatIsThere(next) ==
    target' = NULL /\ Become([pc |-> next])

\* check_destination_path
CheckDestinationPath(next) ==
    \/ target = NULL /\ Goto(next) /\ UNCHANGED target
    \/ target # NULL /\ Fail /\ UNCHANGED target
    \/ target # NULL /\ ~session.json /\ target' = NULL /\ Become([pc |-> next, removed |-> TRUE])

\* In JSON mode everything that would be asked for is an error, before anything is done.
ChainNeedsPrompt == ~session.name \/ target # NULL \/ session.frontend = "ask"

ContractNeedsPrompt == ~session.name \/ session.template = NULL \/ session.frontend = "ask" \/ target # NULL

PalletNeedsPrompt == ~session.name \/ session.mode = "prompt" \/ target # NULL

\* prompt_frontend_template: a chain has one template, a contract two
PromptFrontendTemplate ==
    IF session.frontend # "ask" THEN {session.frontend}
    ELSE IF session.cmd = "new chain" THEN {"create-dot-app"} ELSE {"typink", "inkathon"}

\* create_frontend; a contract is added to its workspace after that.
StartFrontend ==
    /\ At("frontend")
    /\ session.cmd # "install"
    /\ Goto(IF session.frontend = NULL THEN "join" ELSE "node")
    /\ UNCHANGED <<target, installed>>

EnsureTools ==
    /\ session.cmd \in {"new chain", "new contract"}
    /\ \/ EnsureNodeV20(FALSE, Goto(IF session.frontend = "inkathon" THEN "bun" ELSE "create frontend"))
       \/ EnsureBun(FALSE, Goto("create frontend"))
    /\ UNCHANGED target

\* Inkathon's own commands are run unchecked: what they return is not looked at.
CreateFrontend ==
    /\ At("create frontend")
    /\ \/ Fail /\ UNCHANGED target
       \/ Goto("join") /\ target' = [target EXCEPT !.frontend = TRUE]
       \/ session.frontend = "inkathon" /\ Goto("join") /\ UNCHANGED target
    /\ UNCHANGED installed

\* find_workspace_manifest and add_crate_to_workspace, for a contract and a pallet
AddCrateToWorkspace ==
    /\ At("join")
    /\ \/ session.cmd # "new chain" /\ workspace # "none" /\ Fail /\ UNCHANGED workspace
       \/ Succeed /\ workspace' = IF workspace # "none" /\ session.cmd # "new chain" THEN "member" ELSE workspace

-----------------------------------------------------------------------------
(* pop new chain *)

NewChainExecute ==
    /\ Is("new chain", "new")
    /\ IF session.json /\ ChainNeedsPrompt THEN Fail
       ELSE IF session.name THEN \E f \in PromptFrontendTemplate : Become([pc |-> "destination", frontend |-> f])
       ELSE \E t \in ChainTemplates :
               Become([pc |-> IF session.verify THEN "license" ELSE "releases", template |-> t, tag |-> NULL])
    /\ UNCHANGED <<target, apiVars>>

\* --verify asks for the license; every template names its own.
GetRepoLicense == Is("new chain", "license") /\ Get(TRUE, Goto("releases"), Fail) /\ UNCHANGED target

\* Of the latest three releases, those that the template supports
Supported(tags) ==
    SelectSeq(tags, LAMBDA i : session.template = "openzeppelin" => session.releases[i] # "old")

GetLatest3Releases ==
    /\ Is("new chain", "releases")
    /\ LET latest == Latest3(session.releases)
       IN Get(TRUE, Become([pc |-> IF session.verify /\ latest # <<>> THEN "commits" ELSE "choose",
                            choices |-> latest, commits |-> Len(latest)]), Fail)
    /\ UNCHANGED target

\* get_commit_sha_from_release of each of them
GetCommits ==
    /\ Is("new chain", "commits")
    /\ Get(TRUE, Become([pc |-> IF session.commits = 1 THEN "choose" ELSE "commits", commits |-> session.commits - 1]),
           Fail)
    /\ UNCHANGED target

(***************************************************************************)
(* choose_release and the rest of the guide.  Without a release to choose  *)
(* a template with versions of its own gives up, and another goes on       *)
(* without a tag.  What does not parse as a number of decimals panics.     *)
(***************************************************************************)
ChooseRelease ==
    /\ Is("new chain", "choose")
    /\ LET supported == Supported(session.choices)
       IN \/ Fail
          \/ /\ supported # <<>>
             /\ \E i \in DOMAIN supported : Become([pc |-> "guide", tag |-> supported[i]])
          \/ supported = <<>> /\ session.template # "openzeppelin" /\ Goto("guide")
    /\ UNCHANGED <<target, apiVars>>

GuideUserToGenerateParachain ==
    /\ Is("new chain", "guide")
    /\ \/ Fail
       \/ session.frontend # NULL /\ \E f \in PromptFrontendTemplate : Become([pc |-> "destination", frontend |-> f])
       \/ session.frontend = NULL /\ \E f \in {NULL, "create-dot-app"} : Become([pc |-> "destination", frontend |-> f])
    /\ UNCHANGED <<target, apiVars>>

ChainDestination ==
    /\ Is("new chain", "destination")
    /\ CheckDestinationPath(IF session.tag = NULL THEN "latest" ELSE "clone")
    /\ UNCHANGED apiVars

\* get_latest_release, when no tag was given or chosen
GetLatestRelease ==
    /\ Is("new chain", "latest")
    /\ LET latest == LatestRelease(session.releases)
       IN Get(latest # NULL, Become([pc |-> "clone", tag |-> latest]), Fail)
    /\ UNCHANGED target

\* Over https and then ssh, to a temporary directory whose repository is removed; an unknown tag panics.
CloneAndDegit == session.tag \in DOMAIN session.releases

(***************************************************************************)
(* instantiate_template_dir: the template's files are copied from the      *)
(* clone, and the copy may stop half way.                                  *)
(***************************************************************************)
InstantiateTemplateDir ==
    /\ Is("new chain", "clone")
    /\ \/ Fail /\ UNCHANGED target
       \/ /\ CloneAndDegit
          /\ \/ target' = Project("chain", FALSE, session.tag, "none") /\ Fail
             \/ target' = Project("chain", TRUE, session.tag, "none") /\ Goto("git init")
    /\ UNCHANGED apiVars

\* Git::git_init: without a name and email the repository stays empty; no error ends the command.
GitInit ==
    /\ Is("new chain", "git init")
    /\ \E git \in {"committed", "empty"} :
          target' = [target EXCEPT !.git = IF @ = "none" THEN git ELSE @]
    /\ Goto(IF session.verify THEN "verify" ELSE "frontend")
    /\ UNCHANGED apiVars

\* The commit of the release is only shown: an error leaves it empty.
ShowCommit ==
    Is("new chain", "verify") /\ Get(TRUE, Goto("frontend"), Goto("frontend")) /\ UNCHANGED target

-----------------------------------------------------------------------------
(* pop new contract *)

\* What is missing is asked for; with a name or template missing a frontend is offered.
GuideUserToGenerateContract ==
    \E t \in IF session.template = NULL THEN {"standard", "other"} ELSE {session.template},
       f \in IF session.frontend = NULL THEN {NULL, "typink", "inkathon"} ELSE PromptFrontendTemplate :
       Become([pc |-> "validate", template |-> t, frontend |-> f])

NewContractExecute ==
    /\ Is("new contract", "new")
    /\ IF session.json /\ ContractNeedsPrompt THEN Fail
       ELSE IF session.name /\ session.template # NULL
            THEN \E f \in PromptFrontendTemplate : Become([pc |-> "validate", frontend |-> f])
            ELSE GuideUserToGenerateContract
    /\ UNCHANGED target

\* A name that is no identifier ends the command, as an error only in JSON mode.
ValidateContractName ==
    /\ Is("new contract", "validate")
    /\ IF session.valid THEN CheckDestinationPath("create")
       ELSE (IF session.json THEN Fail ELSE Succeed) /\ UNCHANGED target

\* The path is created first; then the files, the name in them, a workflow, and an empty repository.
CreateSmartContract ==
    /\ Is("new contract", "create")
    /\ \/ target' = Project("contract", FALSE, NULL, "none") /\ Fail
       \/ target' = Project("contract", TRUE, NULL, "empty") /\ Goto("frontend")

-----------------------------------------------------------------------------
(* pop new pallet *)

\* Options that contradict each other are refused before anything is asked or made.
NewPalletExecute ==
    /\ Is("new pallet", "new")
    /\ IF (session.json /\ PalletNeedsPrompt) \/ (session.mode = "flags" /\ session.default /\ ~session.types) THEN Fail
       ELSE IF session.mode = "prompt"
            THEN \E types, default \in BOOLEAN :
                    /\ default => types     \* only offered with a config type
                    /\ Become([pc |-> "destination", types |-> types, default |-> default])
            ELSE Goto("destination")
    /\ UNCHANGED target

PalletDestination == Is("new pallet", "destination") /\ CheckDestinationPath("create")

\* create_pallet_template: directories and empty files, and then what is rendered into them
CreatePalletTemplate ==
    /\ Is("new pallet", "create")
    /\ \/ target' = Project("pallet", FALSE, NULL, "none") /\ Fail
       \/ target' = Project("pallet", TRUE, NULL, "none") /\ Goto("join")

ProjectsNext ==
    \/ /\ \/ NewChainExecute \/ GetRepoLicense \/ GetLatest3Releases \/ GetCommits \/ ChooseRelease
          \/ GuideUserToGenerateParachain \/ ChainDestination \/ GetLatestRelease
          \/ InstantiateTemplateDir \/ GitInit \/ ShowCommit
       /\ UNCHANGED <<installed, workspace>>
    \/ WindowResets /\ ~Done /\ UNCHANGED <<installed, workspace, target>>
    \/ /\ \/ NewContractExecute \/ ValidateContractName \/ CreateSmartContract
          \/ NewPalletExecute \/ PalletDestination \/ CreatePalletTemplate
       /\ UNCHANGED <<installed, workspace, apiVars>>
    \/ (StartFrontend \/ EnsureTools \/ CreateFrontend) /\ UNCHANGED <<workspace, apiVars>>
    \/ AddCrateToWorkspace /\ UNCHANGED <<installed, target, apiVars>>

\* `pop new` by itself; Commands composes it with the other commands.
ProjectsSpec == ProjectsInit /\ [][ProjectsNext]_<<session, installed, projectVars, apiVars>>

-----------------------------------------------------------------------------
NewCommand == session.cmd \in {"new chain", "new contract", "new pallet"}

(***************************************************************************)
(* What stands at the path is the user's until the user agrees that it is  *)
(* removed: `pop new` touches it in no other case, and in JSON mode never. *)
(***************************************************************************)
UsersWorkKept ==
    NewCommand /\ session.stood =>
        /\ ~session.removed => target = UsersDirectory
        /\ session.json => ~session.removed

(***************************************************************************)
(* A project that `pop new` reports made is whole and its own: all files   *)
(* of the release that was chosen, none of what stood at the path, a       *)
(* repository that does not carry the template's history, a frontend if    *)
(* one was asked for (Inkathon's own commands go unchecked), and, for a    *)
(* contract or pallet inside a workspace, a place in it.                   *)
(***************************************************************************)
NewProjectWhole ==
    NewCommand /\ session.ended = "ok" /\ target # NULL /\ target.kind # "users" =>
        /\ target.whole
        /\ target.tag = session.tag
        /\ target.git = IF session.cmd = "new pallet" THEN "none"
                        ELSE IF session.cmd = "new contract" THEN "empty" ELSE target.git
        /\ target.git # "template"
        /\ session.frontend \in {"create-dot-app", "typink"} => target.frontend
        /\ session.cmd # "new chain" => workspace # "other crates"

=============================================================================
