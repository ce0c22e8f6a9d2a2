----------------------------- MODULE AgentTurn -----------------------------
(***************************************************************************)
(* One invocation of a conversation-mode agent                             *)
(* (compute_runner.py::_execute_agent_compute driving                      *)
(* ai_provider.py::_anthropic_agent_loop_with_conversation).               *)
(*                                                                         *)
(* The loop asks the model for an answer, at most MaxTurns times.  An      *)
(* answer is text, which ends the loop, or a batch of tool calls; each     *)
(* call is written to the conversation, executed, and its result written.  *)
(* A call of system_refuse asks the loop to halt at its next check.  After *)
(* the loop the runner records the outcome in the audit log and, for a     *)
(* refusal, appends the refusal entry.                                     *)
(*                                                                         *)
(* A write-back is one append as Conversation.tla describes it, seen from  *)
(* the caller: stored, swallowed because the row is gone, or an exception  *)
(* raised before or after the entry was stored.                            *)
(***************************************************************************)
EXTENDS Naturals, Sequences, SequencesExt

CONSTANTS
  MaxTurns,     \* max_turns of the loop
  Batches,      \* tool-call batches the model may answer with
  AuditLevel    \* the compute's audit_level

Tools == {"tool", "refuse", "refuse_empty"}

ASSUME AgentTurnAssumption ==
  /\ MaxTurns \in Nat \ {0}
  /\ Batches \subseteq Seq(Tools)
  /\ AuditLevel \in {"none", "actions", "debug"}

VARIABLES
  pc,         \* the next thing the invocation does
  turn,       \* turns finished
  text,       \* the answer streamed text
  batch,      \* tool calls of the answer not yet handled
  call,       \* number of the current tool call
  refusal,    \* refusal_state: not set, an empty reason, or a reason
  row,        \* the conversation's row exists
  log,        \* this invocation's entries, as stored: <<kind, call>>
  bubble,     \* the chat's pending bubble, driven by the streaming channel
  audit,      \* rows written to the audit log
  auditLost   \* an insert into the audit log failed

vars == <<pc, turn, text, batch, call, refusal, row, log, bubble, audit, auditLost>>

Phases == {"start", "top", "stream", "answered", "tools", "exec", "result", "failed",
           "post", "refusal", "error", "done", "crashed"}

Kinds == {"agent", "tool_call", "tool_result", "refusal"}

TypeOK ==
  /\ pc \in Phases
  /\ turn \in 0..MaxTurns
  /\ text \in BOOLEAN
  /\ batch \in Seq(Tools)
  /\ call \in Nat
  /\ refusal \in {"unset", "empty", "reason"}
  /\ row \in BOOLEAN
  /\ log \in Seq(Kinds \X Nat)
  /\ bubble \in {"none", "pending", "committed"}
  /\ audit \in Seq({"success", "refused", "error"})
  /\ auditLost \in BOOLEAN

Init ==
  /\ pc = "start" /\ turn = 0
  /\ text = FALSE /\ batch = <<>> /\ call = 0
  /\ refusal = "unset"
  /\ row = TRUE
  /\ log = <<>>
  /\ bubble = "none"
  /\ audit = <<>>
  /\ auditLost = FALSE

-----------------------------------------------------------------------------
(* Variant: the loop notices a refusal only when the batch is over. *)
HaltedBetweenTurns == refusal = "reason" /\ batch = <<>>

(* _should_halt *)
Halted == refusal = "reason"

(* _do_append: stored, or AppendNotFoundError which the callers swallow.   *)
Stored(entry) == row /\ log' = Append(log, entry)
Swallowed == ~row /\ UNCHANGED log
(* Any other exception: the database was busy or the read-back found no    *)
(* row.  The entry may have been stored before the exception.              *)
Raised(entry) == UNCHANGED log \/ Stored(entry)

(* _on_writeback returns normally: nothing is written after a refusal. *)
WriteBack(entry) ==
  \/ Halted /\ UNCHANGED log
  \/ ~Halted /\ (Stored(entry) \/ Swallowed)

(* _on_writeback lets the exception through. *)
WriteBackRaises(entry) == ~Halted /\ Raised(entry)

(* The stored entries become the model's messages; a list the provider's   *)
(* protocol does not allow is an AIProviderError.                          *)
Materialize ==
  /\ pc = "start"
  /\ pc' \in {"top", "error"}
  /\ UNCHANGED <<turn, text, batch, call, refusal, row, log, bubble, audit, auditLost>>

(* Variant: one turn more than the limit. *)
TopOneMore ==
  /\ pc = "top"
  /\ \/ turn > MaxTurns /\ pc' = "error"
     \/ turn <= MaxTurns /\ Halted /\ pc' = "post"
     \/ turn <= MaxTurns /\ ~Halted /\ pc' = "stream"
  /\ UNCHANGED <<turn, text, batch, call, refusal, row, log, bubble, audit, auditLost>>

(* The head of the for loop: out of turns, halted, or another answer.  The *)
(* turn limit comes first, so a refusal in the last turn is not noticed.   *)
Top ==
  /\ pc = "top"
  /\ \/ turn = MaxTurns /\ pc' = "error"
     \/ turn < MaxTurns /\ Halted /\ pc' = "post"
     \/ turn < MaxTurns /\ ~Halted /\ pc' = "stream"
  /\ UNCHANGED <<turn, text, batch, call, refusal, row, log, bubble, audit, auditLost>>

(* The model's answer arrives; its text deltas open the pending bubble. *)
Answer ==
  /\ pc = "stream"
  /\ \E b \in Batches, t \in BOOLEAN :
       /\ batch' = b
       /\ text' = t
       /\ bubble' = IF t THEN "pending" ELSE bubble
  /\ pc' = "answered"
  /\ UNCHANGED <<turn, call, refusal, row, log, audit, auditLost>>

(* Variant: a failed stream is tried again without counting the turn. *)
StreamRetried ==
  /\ pc = "stream"
  /\ pc' = "top"
  /\ UNCHANGED <<turn, text, batch, call, refusal, row, log, bubble, audit, auditLost>>

(* The stream fails, possibly after some text: AIProviderError. *)
StreamFails ==
  /\ pc = "stream"
  /\ bubble' \in {bubble, "pending"}
  /\ pc' = "error"
  /\ UNCHANGED <<turn, text, batch, call, refusal, row, log, audit, auditLost>>

(* Variant: the bubble is told to wait although nothing was written. *)
FinalTextAlways ==
  /\ pc = "answered" /\ batch = <<>>
  /\ UNCHANGED log \/ (text /\ WriteBack(<<"agent", call>>))
  /\ bubble' = "committed"
  /\ pc' = "post"
  /\ UNCHANGED <<turn, text, batch, call, refusal, row, audit, auditLost>>

(* A text answer is committed and the bubble waits for its entry; the loop *)
(* is over.  Text that strips to nothing leaves no entry.                  *)
FinalText ==
  /\ pc = "answered" /\ batch = <<>>
  /\ \/ /\ text
        /\ WriteBack(<<"agent", call>>)
        /\ bubble' = "committed"
     \/ bubble' = "none" /\ UNCHANGED log
  /\ pc' = "post"
  /\ UNCHANGED <<turn, text, batch, call, refusal, row, audit, auditLost>>

(* The text streamed before tool calls was thinking: the bubble is cleared.*)
StartTools ==
  /\ pc = "answered" /\ batch # <<>>
  /\ bubble' = "none"
  /\ pc' = "tools"
  /\ UNCHANGED <<turn, text, batch, call, refusal, row, log, audit, auditLost>>

(* The batch is done, or a refusal in it drops the rest. *)
EndBatch ==
  /\ pc = "tools"
  /\ \/ batch = <<>> /\ turn' = turn + 1 /\ pc' = "top"
     \/ batch # <<>> /\ Halted /\ pc' = "post" /\ UNCHANGED turn
  /\ UNCHANGED <<text, batch, call, refusal, row, log, bubble, audit, auditLost>>

(* system_refuse: the first reason given is kept, an empty one included,   *)
(* and nothing is written to the conversation.                             *)
Refuse ==
  /\ pc = "tools" /\ batch # <<>> /\ ~Halted
  /\ Head(batch) \in {"refuse", "refuse_empty"}
  /\ refusal' = IF refusal # "unset" THEN refusal
                ELSE IF Head(batch) = "refuse" THEN "reason" ELSE "empty"
  /\ batch' = Tail(batch)
  /\ UNCHANGED <<pc, turn, text, call, row, log, bubble, audit, auditLost>>

(* The tool_call entry is written before the tool runs. *)
CallTool ==
  /\ pc = "tools" /\ batch # <<>> /\ ~Halted
  /\ Head(batch) = "tool"
  /\ call' = call + 1
  /\ WriteBack(<<"tool_call", call'>>)
  /\ pc' = "exec"
  /\ UNCHANGED <<turn, text, batch, refusal, row, bubble, audit, auditLost>>

(* The tool returns or raises. *)
RunTool ==
  /\ pc = "exec"
  /\ pc' \in {"result", "failed"}
  /\ UNCHANGED <<turn, text, batch, call, refusal, row, log, bubble, audit, auditLost>>

(* Variant: the result of a tool that raised is not written. *)
ToolResultOnSuccess ==
  /\ pc \in {"result", "failed"}
  /\ IF pc = "result" THEN WriteBack(<<"tool_result", call>>) ELSE UNCHANGED log
  /\ batch' = Tail(batch)
  /\ pc' = "tools"
  /\ UNCHANGED <<turn, text, call, refusal, row, bubble, audit, auditLost>>

(* The tool_result entry, of the result or of the error. *)
ToolResult ==
  /\ pc \in {"result", "failed"}
  /\ WriteBack(<<"tool_result", call>>)
  /\ batch' = Tail(batch)
  /\ pc' = "tools"
  /\ UNCHANGED <<turn, text, call, refusal, row, bubble, audit, auditLost>>

(* Writing the result raised inside the try that guards the tool: the      *)
(* exception is reported as the tool's own error, in one more tool_result. *)
ResultRaises ==
  /\ pc = "result"
  /\ WriteBackRaises(<<"tool_result", call>>)
  /\ pc' = "failed"
  /\ UNCHANGED <<turn, text, batch, call, refusal, row, bubble, audit, auditLost>>

(* A write-back raises outside any handler: not an AIProviderError, so the *)
(* exception leaves the runner and no outcome is recorded.                 *)
Crash ==
  /\ \/ pc = "answered" /\ batch = <<>> /\ text
        /\ WriteBackRaises(<<"agent", call>>) /\ UNCHANGED call
     \/ pc = "tools" /\ batch # <<>> /\ Head(batch) = "tool"
        /\ call' = call + 1 /\ WriteBackRaises(<<"tool_call", call'>>)
     \/ pc = "failed"
        /\ WriteBackRaises(<<"tool_result", call>>) /\ UNCHANGED call
  /\ pc' = "crashed"
  /\ UNCHANGED <<turn, text, batch, refusal, row, bubble, audit, auditLost>>

(* write_audit_trace: nothing at level "none"; a failed insert is logged.  *)
Record(outcome) ==
  \/ AuditLevel = "none" /\ UNCHANGED <<audit, auditLost>>
  \/ AuditLevel # "none" /\ audit' = Append(audit, outcome) /\ UNCHANGED auditLost
  \/ AuditLevel # "none" /\ auditLost' = TRUE /\ UNCHANGED audit

(* The loop returned: the outcome is a refusal if a reason was given. *)
Post ==
  /\ pc = "post"
  /\ \/ Halted /\ Record("refused") /\ pc' = "refusal"
     \/ ~Halted /\ Record("success") /\ pc' = "done"
  /\ UNCHANGED <<turn, text, batch, call, refusal, row, log, bubble>>

(* Variant: the runner does not return after the refusal entry. *)
AppendRefusalOn ==
  /\ pc = "refusal"
  /\ Stored(<<"refusal", call>>) \/ Swallowed
  /\ audit' = Append(audit, "success")
  /\ pc' = "done"
  /\ UNCHANGED <<turn, text, batch, call, refusal, row, bubble, auditLost>>

(* The refusal entry, appended by the runner itself. *)
AppendRefusal ==
  /\ pc = "refusal"
  /\ \/ (Stored(<<"refusal", call>>) \/ Swallowed) /\ pc' = "done"
     \/ Raised(<<"refusal", call>>) /\ pc' = "crashed"
  /\ UNCHANGED <<turn, text, batch, call, refusal, row, bubble, audit, auditLost>>

(* except AIProviderError: whatever was refused before, the outcome is     *)
(* "error".                                                                *)
RecordError ==
  /\ pc = "error"
  /\ Record("error")
  /\ pc' = "done"
  /\ UNCHANGED <<turn, text, batch, call, refusal, row, log, bubble>>

DeleteRow ==
  /\ row
  /\ row' = FALSE
  /\ UNCHANGED <<pc, turn, text, batch, call, refusal, log, bubble, audit, auditLost>>

Proceed ==
  \/ Materialize \/ Top \/ Answer \/ StreamFails \/ FinalText \/ StartTools \/ EndBatch
  \/ Refuse \/ CallTool \/ RunTool \/ ToolResult \/ ResultRaises \/ Crash
  \/ Post \/ AppendRefusal \/ RecordError

Ended == pc \in {"done", "crashed"} /\ UNCHANGED vars

Next == Proceed \/ DeleteRow \/ Ended

Spec == Init /\ [][Next]_vars

(* The agent's thread keeps running; the provider answers or fails. *)
FairSpec == Spec /\ WF_vars(Proceed)

-----------------------------------------------------------------------------
Refused == refusal = "reason"

(* From the moment a reason is recorded the invocation adds nothing to the *)
(* conversation but the refusal entry, although the model may have asked   *)
(* for more tool calls in the same answer.                                 *)
OnlyRefusalAfterRefusing ==
  [][Refused /\ log' # log => pc = "refusal" /\ Last(log')[1] = "refusal"]_vars

(* Unless the turn limit struck first, a refusal is what the audit row     *)
(* says, never a success or an error.                                      *)
RefusalOutcome ==
  Refused /\ pc = "done" /\ turn < MaxTurns => ToSet(audit) \subseteq {"refused"}

(* An invocation that returns has exactly one outcome on record, at the    *)
(* audit levels that keep a record and as long as the insert succeeds.     *)
OneOutcome ==
  pc = "done" /\ AuditLevel # "none" /\ ~auditLost => Len(audit) = 1

(* The audit log of an invocation that returns holds its one outcome, and   *)
(* the right one.                                                          *)
Outcomes == OneOutcome /\ RefusalOutcome

(* Tool calls are answered: when the invocation ends other than by an      *)
(* exception, each tool_call entry is followed at once by a tool_result of *)
(* the same call, or the row was deleted meanwhile.                        *)
CallsAnswered ==
  pc = "done" /\ row =>
    \A i \in DOMAIN log : log[i][1] = "tool_call" =>
      i < Len(log) /\ log[i + 1] = <<"tool_result", log[i][2]>>

(* The chat never keeps a pending bubble for an invocation that ended with *)
(* an answer or a refusal.                                                 *)
NoBubbleLeft == pc \in {"post", "refusal"} => bubble # "pending"

(* A bubble told to wait for its entry gets one while the row exists.      *)
CommittedTextStored ==
  bubble = "committed" /\ row => \E i \in DOMAIN log : log[i][1] = "agent"

(* No pending bubble is left, and none waits for an entry in vain. *)
BubbleResolved == NoBubbleLeft /\ CommittedTextStored

(* The turn limit bounds the invocation: it ends, or its thread does.      *)
InvocationEnds == <>(pc \in {"done", "crashed"})

=============================================================================
