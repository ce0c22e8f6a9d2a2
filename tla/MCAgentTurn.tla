---------------------------- MODULE MCAgentTurn ----------------------------
(* Answers of up to two tool calls, among them both kinds of refusal. *)
EXTENDS AgentTurn

MCBatches == UNION {[1..n -> Tools] : n \in 0..2}
=============================================================================
