-------------------------------- MODULE Main --------------------------------
(***************************************************************************)
(* The process of one `pop` invocation (crates/pop-cli/src/main.rs,        *)
(* commands/mod.rs, output.rs, crates/pop-telemetry/src/lib.rs): the       *)
(* arguments are parsed, the command is dispatched and returns, the event  *)
(* is reported, and the process exits.  Beside it runs the task that       *)
(* reports that the program is used, which nobody waits for.               *)
(*                                                                         *)
(* With --json the answer is one line on stdout, the envelope, and the     *)
(* exit code says whether it holds a success.                              *)
(***************************************************************************)
EXTENDS Session

VARIABLES stdout,     \* what has been printed: envelopes, and what a person reads
          telemetry,  \* opt_out, the ping task, and the events that have been sent
          exit        \* NULL while the process runs

\* The commands, with the arguments that the dispatch looks at
Command ==
    [name : {"install", "build", "upgrade", "hash", "clean", "convert", "completion", "verify"}, sub : {NULL}]
    \cup [name : {"new"}, sub : {"list", NULL, "chain", "pallet", "contract"}]
    \cup [name : {"bench"}, sub : {"pallet", "pallet with a json file", "block", "machine", "overhead", "storage"}]
    \cup [name : {"call"}, sub : {"chain", "contract"}]
    \cup [name : {"test"}, sub : {NULL, "runtime"}]
    \cup [name : {"fork"}, sub : {"serve", "detach", "foreground"}]
    \cup [name : {"up"}, sub : {"network", "network detached", "relay chain", "frontend", "ink-node",
                                "contract project", "chain project", "network file", "no project"}]

Errors == {"UnsupportedJson", "PromptRequired", "InvalidInput", "NetworkError", "BuildError", "DeployError", "Internal"}

\* is_opt_out: CI, DO_NOT_TRACK, or the version in the configuration; without a
\* configuration directory there is no telemetry at all.
OptOuts == {"no config", "opted out", "opted in"}

MainInit ==
    /\ session \in [cmd : {"main"}, pc : {"init"}, json : BOOLEAN, command : Command, result : {NULL}, ended : {NULL}]
    /\ stdout = <<>>
    /\ telemetry \in [consent : OptOuts, ping : {NULL}, sent : {{}}]
    /\ exit = NULL

-----------------------------------------------------------------------------
(* Telemetry *)

Running == exit = NULL

\* init(): the ping is spawned.
InitTelemetry ==
    /\ Running
    /\ At("init")
    /\ Goto("parse")
    /\ telemetry' = IF telemetry.consent = "no config" THEN telemetry ELSE [telemetry EXCEPT !.ping = "spawned"]
    /\ UNCHANGED <<stdout, exit>>

\* send_json: refused after an opt-out; a request that fails is only logged.
SendJson(event) ==
    \/ telemetry.consent = "opted in" /\ telemetry' = [telemetry EXCEPT !.sent = @ \cup {event}]
    \/ UNCHANGED telemetry

\* record_cli_used
RecordCliUsed ==
    /\ Running
    /\ telemetry.ping = "spawned"
    /\ \/ telemetry.consent = "opted in" /\ telemetry' = [telemetry EXCEPT !.ping = "done", !.sent = @ \cup {"init"}]
       \/ telemetry' = [telemetry EXCEPT !.ping = "done"]
    /\ UNCHANGED <<session, stdout, exit>>

\* The runtime is dropped, and the task that still runs on it.
Exit(code) ==
    /\ exit' = code
    /\ telemetry' = [telemetry EXCEPT !.ping = IF @ = "spawned" THEN "dropped" ELSE @]

-----------------------------------------------------------------------------
(* Arguments *)

\* Cli::try_parse: in JSON mode even --help is an error, with an envelope.
ParseFails ==
    /\ Running
    /\ At("parse")
    /\ Become([pc |-> "done", ended |-> "error"])
    /\ stdout' = Append(stdout, IF session.json THEN "error" ELSE "text")
    /\ Exit(2)

Parse ==
    /\ Running
    /\ At("parse")
    /\ Goto("execute")
    /\ UNCHANGED <<stdout, telemetry, exit>>

-----------------------------------------------------------------------------
(* Command::execute *)

\* supports_json, and what the dispatch refuses because a command has no JSON mode of its own
RejectUnsupportedJson ==
    LET c == session.command
    IN \/ c.name = "bench" /\ c.sub \notin {"pallet", "pallet with a json file"}
       \/ c.name = "up" /\ c.sub \in {"relay chain", "frontend", "ink-node", "chain project", "network file"}

\* What the dispatch or the command's JSON mode refuses because a person would have to answer or to wait
RejectInput ==
    LET c == session.command
    IN \/ c.name = "new" /\ c.sub = NULL
       \/ c.name = "bench" /\ c.sub = "pallet with a json file"
       \/ c.name = "up" /\ c.sub \in {"network", "no project"}
       \/ c.name = "fork" /\ c.sub = "foreground"

\* Who prints the envelope: the dispatch, of the output that the command returns, or the command
DispatchPrints == session.command.name \in {"call", "up", "test"}

\* The process that `pop fork --detach` starts serves until it is stopped, and says nothing.
Silent == session.command = [name |-> "fork", sub |-> "serve"]

(***************************************************************************)
(* What package managers and frontend tools print: they are run with the   *)
(* stdout of the process, also in JSON mode.                               *)
(***************************************************************************)
ChildOutput ==
    LET c == session.command
    IN IF c.name = "install" \/ (c.name = "new" /\ c.sub \in {"chain", "contract"}) THEN {<<>>, <<"text">>} ELSE {<<>>}

Returned(result, printed) ==
    /\ Become([pc |-> "record", result |-> result])
    /\ stdout' = stdout \o printed
    /\ UNCHANGED <<telemetry, exit>>

\* A command in JSON mode; with JsonCli a prompt is an error.
ExecuteJson ==
    /\ Running
    /\ At("execute")
    /\ session.json
    /\ IF RejectUnsupportedJson THEN Returned("UnsupportedJson", <<>>)
       ELSE IF RejectInput
            THEN \E e \in {"PromptRequired", "InvalidInput", "Internal"} : Returned(e, <<>>)
            ELSE \/ \E e \in Errors \ {"UnsupportedJson"}, out \in ChildOutput : Returned(e, out)
                 \/ Silent /\ Returned("Ok", <<>>)
                 \/ ~Silent /\ ~DispatchPrints /\ \E out \in ChildOutput : Returned("Ok", Append(out, "ok"))
                 \/ /\ DispatchPrints
                    /\ Goto("print")
                    /\ UNCHANGED <<stdout, telemetry, exit>>

\* CliResponse::ok(output).print_json() of the dispatch
PrintJson ==
    /\ Running
    /\ At("print")
    /\ Returned("Ok", <<"ok">>)

ExecuteHuman ==
    /\ Running
    /\ At("execute")
    /\ ~session.json
    /\ \E result \in {"Ok", "Internal"} : Returned(result, <<"text">>)

-----------------------------------------------------------------------------
(* record_cli_command, whatever the command has returned *)
RecordCliCommand ==
    /\ Running
    /\ At("record")
    /\ Goto("return")
    /\ IF telemetry.consent = "no config" THEN UNCHANGED telemetry ELSE SendJson("command")
    /\ UNCHANGED <<stdout, exit>>

(***************************************************************************)
(* Deliberate fault: an error is only returned, and Rust's main prints it  *)
(* for a person.                                                           *)
(***************************************************************************)
ReturnError ==
    /\ Running
    /\ At("return")
    /\ Become([pc |-> "done", ended |-> IF session.result = "Ok" THEN "ok" ELSE "error"])
    /\ UNCHANGED stdout
    /\ Exit(IF session.result = "Ok" THEN 0 ELSE 1)

\* The end of main: json_error_response of the error in JSON mode
ReturnFromMain ==
    /\ Running
    /\ At("return")
    /\ Become([pc |-> "done", ended |-> IF session.result = "Ok" THEN "ok" ELSE "error"])
    /\ stdout' = IF session.json /\ session.result # "Ok" THEN Append(stdout, "error") ELSE stdout
    /\ Exit(IF session.result = "Ok" THEN 0 ELSE 1)

MainNext ==
    \/ InitTelemetry \/ RecordCliUsed
    \/ ParseFails \/ Parse
    \/ ExecuteJson \/ PrintJson \/ ExecuteHuman
    \/ RecordCliCommand \/ ReturnFromMain

mainVars == <<session, stdout, telemetry, exit>>

\* One invocation by itself; Commands composes it with the commands.
MainSpec == MainInit /\ [][MainNext]_mainVars

-----------------------------------------------------------------------------
(***************************************************************************)
(* Whichever way an invocation with --json ends (a command line that does  *)
(* not parse, a refusal of the dispatch, an error or a success of the      *)
(* command), stdout has one envelope, as its last line, and it holds a     *)
(* success exactly when the exit code is zero.                             *)
(***************************************************************************)
OneEnvelope ==
    (session.cmd = "main" /\ session.json /\ exit # NULL /\ ~Silent)
        => LET answer == IF exit = 0 THEN "ok" ELSE "error"
           IN stdout \in {<<answer>>, <<"text", answer>>}

-----------------------------------------------------------------------------
(* Statements of the code's documentation that the code does not keep. *)

(***************************************************************************)
(* What common/subprocess.rs is written for: the output of a subprocess    *)
(* does not pollute the envelope on stdout.                                *)
(***************************************************************************)
EnvelopeAlone == (session.cmd = "main" /\ session.json /\ exit # NULL) => Len(stdout) <= 1

(***************************************************************************)
(* What main.rs says of the ping: it completes before the command does.    *)
(***************************************************************************)
PingCompletes == exit # NULL => telemetry.ping # "dropped"

=============================================================================
