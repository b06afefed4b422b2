------------------------------ MODULE Session -------------------------------
(***************************************************************************)
(* One pop command at a terminal.  A command is a sequential program: it   *)
(* does one thing after the other, the user answers its prompts, and a     *)
(* step that fails either ends it or is handled as its code says.          *)
(*                                                                         *)
(* session is the command's record: pc, where it is, the fields of its     *)
(* arguments, and ended, how it returned.  Each command's module adds the  *)
(* fields of its own struct.                                               *)
(***************************************************************************)
EXTENDS Integers, Sequences, FiniteSets, TLC

CONSTANT NULL

VARIABLE session

At(pc) == session.pc = pc

(***************************************************************************)
(* A record with some of its fields changed.                               *)
(***************************************************************************)
With(fields, record) ==
    [f \in DOMAIN fields \cup DOMAIN record |-> IF f \in DOMAIN fields THEN fields[f] ELSE record[f]]

Become(fields) == session' = With(fields, session)

Goto(pc) == Become([pc |-> pc])

(***************************************************************************)
(* Ok(()) and Err(_) at the end of the command.                            *)
(***************************************************************************)
Succeed == Become([pc |-> "done", ended |-> "ok"])
Fail == Become([pc |-> "done", ended |-> "error"])

Done == At("done")

=============================================================================
