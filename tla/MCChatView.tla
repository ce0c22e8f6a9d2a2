---------------------------- MODULE MCChatView ----------------------------
(* A thread with a tool call and its result, one that is created by the     *)
(* view, and a message of the user.                                         *)
EXTENDS ChatView

MCHome == [e \in Entries |-> IF e \in {"call", "result", "other"} THEN "t1" ELSE "t2"]
MCCallOf == [r \in {"result"} |-> "call"]
MCNoCalls == <<>>
=============================================================================
