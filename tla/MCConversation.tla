-------------------------- MODULE MCConversation --------------------------
(* Two clients append; the first entry triggers a rule and an agent turn, *)
(* which writes back a tool call, its result and what comes after it: the *)
(* next entry, or the error of the result.                                *)
EXTENDS Conversation, TLC

CONSTANTS u1, u2, r1, a1, a2, a3

MCTrigger == r1 :> u1 @@ a1 :> u1 @@ a2 :> a1 @@ a3 :> a2

(* Two clients only. *)
NoTrigger == [e \in {} |-> e]
=============================================================================
