----------------------------- MODULE MCExecution -----------------------------
(* Small instances of Execution for TLC. *)
EXTENDS Execution

TwoCommands == {<<1, 2>>, <<2, 2>>}
OneCommand == {<<1>>}
=============================================================================
