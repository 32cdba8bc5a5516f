---------------------------- MODULE MCAgentTurns ----------------------------
(***************************************************************************)
(* A small instance of AgentTurns: two messages in a turn of the coder and *)
(* one in a turn of the reviewer.                                          *)
(***************************************************************************)
EXTENDS AgentTurns

CoderTwice == [n \in {"code", "review"} |-> IF n = "code" THEN 2 ELSE 1]
=============================================================================
