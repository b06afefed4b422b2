------------------------------- MODULE Setup --------------------------------
(***************************************************************************)
(* `pop install` (crates/pop-cli/src/commands/install/mod.rs, frontend.rs):*)
(* the packages that development needs, per operating system, the Rust     *)
(* toolchain, and what the frontends need.                                 *)
(***************************************************************************)
EXTENDS Session

VARIABLE installed   \* what pop has installed on this machine, or found there

Systems == {"macos", "arch", "debian", "ubuntu", "redhat", "other linux", "other"}

Install ==
    [cmd : {"install"}, pc : {"install"}, json : BOOLEAN, skip : BOOLEAN, frontend : BOOLEAN,
     os : Systems, agreed : {{}}, found : {installed}, ended : {NULL}]

Machines == SUBSET {"rustup", "homebrew", "node", "bun"}

SetupInit == installed \in Machines /\ session \in Install

-----------------------------------------------------------------------------
(* What is installed, and what the user is asked about *)

Named(os, frontend) ==
    CASE os = "macos" -> {"homebrew", "protobuf", "openssl", "rustup", "cmake"}
      [] os = "arch" -> {"curl", "git", "clang", "make", "protobuf", "rustup"} \cup (IF frontend THEN {"unzip"} ELSE {})
      [] os = "ubuntu" -> {"git", "clang", "curl", "libssl-dev", "protobuf-compiler", "lsof", "pkg-config", "rustup"}
                          \cup (IF frontend THEN {"unzip"} ELSE {})
      [] os = "debian" -> {"git", "clang", "curl", "libssl-dev", "llvm", "libudev-dev", "make", "protobuf-compiler",
                           "lsof", "rustup"} \cup (IF frontend THEN {"unzip"} ELSE {})
      [] os = "redhat" -> {"clang", "curl", "git", "openssl-devel", "make", "protobuf-compiler", "lsof", "rustup"}

\* The package manager's own update aside, the packages of each system
InstallMac == {"homebrew", "protobuf", "openssl", "cmake"}

InstallArch(frontend) == {"curl", "git", "clang", "make", "protobuf"} \cup (IF frontend THEN {"unzip"} ELSE {})

InstallUbuntu(frontend) ==
    {"git", "clang", "curl", "libssl-dev", "protobuf-compiler", "lsof", "pkg-config"}
    \cup (IF frontend THEN {"unzip"} ELSE {})

InstallDebian(frontend) ==
    {"libssl-dev", "git", "protobuf-compiler", "lsof", "clang", "libclang-dev", "curl", "llvm", "libudev-dev", "make"}
    \cup (IF frontend THEN {"unzip"} ELSE {})

InstallRedhat ==
    {"gcc", "gcc-c++", "make", "cmake", "pkgconf", "pkgconf-pkg-config"}
    \cup {"clang", "curl", "git", "protobuf-compiler", "lsof", "openssl-devel"}

Packages(os, frontend) ==
    CASE os = "macos" -> InstallMac
      [] os = "arch" -> InstallArch(frontend)
      [] os = "ubuntu" -> InstallUbuntu(frontend)
      [] os = "debian" -> InstallDebian(frontend)
      [] os = "redhat" -> InstallRedhat

-----------------------------------------------------------------------------
(* The command *)

\* A Linux that is like none of the four gets a warning, and then the toolchain.
ExecuteInstall ==
    /\ session.cmd = "install" /\ At("install")
    /\ IF session.json /\ ~session.skip THEN Fail
       ELSE CASE session.os = "other" -> Succeed
              [] session.os = "other linux" -> Goto("rustup")
              [] OTHER -> Goto(IF session.skip THEN "packages" ELSE "confirm")
    /\ UNCHANGED installed

PromptForConfirmation ==
    /\ session.cmd = "install" /\ At("confirm")
    /\ \/ Fail
       \/ Become([pc |-> "packages", agreed |-> Named(session.os, session.frontend)])
    /\ UNCHANGED installed

\* The package manager installs everything, or some of it and fails.
InstallPackages ==
    /\ session.cmd = "install" /\ At("packages")
    /\ LET packages == Packages(session.os, session.frontend)
       IN \/ installed' = installed \cup packages /\ Goto("rustup")
          \/ \E some \in {{}, packages} : installed' = installed \cup some /\ Fail

\* rustup is updated, or its script is run; then the toolchain, the target and the components.
InstallRustup ==
    /\ session.cmd = "install" /\ At("rustup")
    /\ \/ \E done \in {{}, {"rustup"}, {"rustup", "wasm target"}} : installed' = installed \cup done /\ Fail
       \/ installed' = installed \cup {"rustup", "wasm target", "components"} /\ Goto("frontend")

InstallFrontend ==
    /\ session.cmd = "install" /\ At("frontend")
    /\ IF session.frontend THEN Goto("node") ELSE Succeed
    /\ UNCHANGED installed

(***************************************************************************)
(* ensure_node_v20 and ensure_bun, which the commands that make a frontend *)
(* call too: what is missing is installed by its script, once the user     *)
(* agrees.  --json cannot ask.                                             *)
(***************************************************************************)
Ensure(tool, skip, next) ==
    \/ tool \in installed /\ next /\ UNCHANGED installed
    \/ Fail /\ UNCHANGED installed
    \/ /\ tool \notin installed
       /\ skip \/ ~session.json
       /\ \/ installed' = installed \cup {tool} /\ next
          \/ installed' = installed \cup {tool} /\ Fail    \* installed, and not found

EnsureNodeV20(skip, next) == At("node") /\ Ensure("node", skip, next)

EnsureBun(skip, next) == At("bun") /\ Ensure("bun", skip, next)

InstallFrontendDependencies ==
    /\ session.cmd = "install"
    /\ EnsureNodeV20(session.skip, Goto("bun")) \/ EnsureBun(session.skip, Succeed)

SetupNext ==
    \/ ExecuteInstall \/ PromptForConfirmation \/ InstallPackages
    \/ InstallRustup \/ InstallFrontend \/ InstallFrontendDependencies

-----------------------------------------------------------------------------
(***************************************************************************)
(* An installation that reports success has installed what the user was    *)
(* asked about and the whole Rust toolchain, whatever it found on the      *)
(* machine, and with -f also what a frontend needs.                        *)
(***************************************************************************)
InstallationComplete ==
    session.cmd = "install" /\ session.ended = "ok" /\ session.os # "other" =>
        /\ session.agreed \cup {"rustup", "wasm target", "components"} \subseteq installed
        /\ session.frontend => {"node", "bun"} \subseteq installed

-----------------------------------------------------------------------------
(* Statements of the code's documentation that the code does not keep. *)

(***************************************************************************)
(* Without -y nothing is installed that the user has not been asked about: *)
(* -y is to install "without prompting for confirmation".                  *)
(***************************************************************************)
InstalledAsAgreed ==
    session.cmd = "install" /\ ~session.skip =>
        installed \subseteq session.found \cup session.agreed \cup {"wasm target", "components", "node", "bun"}

=============================================================================
