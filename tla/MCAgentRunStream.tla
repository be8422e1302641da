-------------------------- MODULE MCAgentRunStream --------------------------
(***************************************************************************)
(* A small stream: lifecycle packets of one unit, content of one or two    *)
(* (three is above the packet limit), so that three units of content fit   *)
(* beside queued and started, and one unit is kept for run.finished.       *)
(***************************************************************************)
EXTENDS AgentRunStream

SmallOrLarge == {1, 2, 3}
=============================================================================
