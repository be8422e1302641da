--------------------------- MODULE MCCodexSession ---------------------------
(***************************************************************************)
(* Small instances of CodexSession: a message and a tool call, or reasoning*)
(* alone.                                                                  *)
(***************************************************************************)
EXTENDS CodexSession

CONSTANTS m, t

MessageAndTool == [i \in Item |-> IF i = m THEN "message" ELSE "tool"]
Reasoning == [i \in Item |-> "reasoning"]
=============================================================================
