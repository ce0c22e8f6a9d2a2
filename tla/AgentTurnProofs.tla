--------------------------- MODULE AgentTurnProofs ---------------------------
(***************************************************************************)
(* Proofs about AgentTurn.tla for any turn limit, any batches of tool calls*)
(* and any audit level.                                                    *)
(***************************************************************************)
EXTENDS AgentTurn, TLAPS

Entry == Kinds \X Nat

(* What an append does to the log. *)
LEMMA LogAppend ==
  ASSUME NEW s \in Seq(Entry), NEW x \in Entry
  PROVE  /\ Append(s, x) \in Seq(Entry)
         /\ Append(s, x) # <<>>
         /\ Len(Append(s, x)) = Len(s) + 1
         /\ Len(s) \in Nat
         /\ DOMAIN Append(s, x) = 1..(Len(s) + 1)
         /\ DOMAIN s = 1..Len(s)
         /\ \A i \in 1..Len(s) : Append(s, x)[i] = s[i]
         /\ Append(s, x)[Len(s) + 1] = x
         /\ Last(Append(s, x)) = x
  BY DEF Last

-----------------------------------------------------------------------------
(* Inside a turn the limit has not been reached; only what happens between *)
(* two checks of should_halt can see a refusal, and a refused invocation   *)
(* ends in an error only by running out of turns.                          *)
LoopInv ==
  /\ pc \in {"stream", "answered", "tools", "exec", "result", "failed", "post"}
       => turn < MaxTurns
  /\ pc \in {"start", "stream", "answered", "exec", "result", "failed"} => ~Halted
  /\ pc = "refusal" => Halted
  /\ pc \in {"exec", "result", "failed"} => batch # <<>>
  /\ pc = "error" /\ Halted => turn = MaxTurns

(* The audit log is written once, when the loop is over. *)
AuditInv ==
  /\ pc \notin {"refusal", "done", "crashed"} => audit = <<>>
  /\ pc = "refusal" => ToSet(audit) \subseteq {"refused"}
  /\ pc \in {"refusal", "done"} /\ AuditLevel # "none" /\ ~auditLost => Len(audit) = 1

(* The bubble is open only while an answer is being handled. *)
BubbleInv == pc \notin {"answered", "error", "done", "crashed"} => bubble # "pending"

(* Only the last entry can be a call without its result, and then it is    *)
(* the call at hand.                                                       *)
CallsInv ==
  row => \A i \in DOMAIN log : log[i][1] = "tool_call" =>
    \/ i < Len(log) /\ log[i + 1] = <<"tool_result", log[i][2]>>
    \/ i = Len(log) /\ log[i][2] = call /\ pc \in {"exec", "result", "failed", "crashed"}


-----------------------------------------------------------------------------
LEMMA Empty ==
  /\ \A S : <<>> \in Seq(S)
  /\ DOMAIN <<>> = {}
  /\ ToSet(<<>>) = {}
  BY DEF ToSet

(* A write-back changes the log in one way, and not after a refusal. *)
LEMMA WriteBackLog ==
  ASSUME NEW x, WriteBack(x) \/ WriteBackRaises(x)
  PROVE  log' = log \/ (~Halted /\ row /\ log' = Append(log, x))
  BY DEF WriteBack, WriteBackRaises, Raised, Stored, Swallowed

(* What each step may add to the conversation. *)
Adds(x) ==
  /\ row
  /\ log' = Append(log, x)
  /\ \/ pc = "answered" /\ ~Halted /\ x = <<"agent", call>> /\ pc' \in {"post", "crashed"}
     \/ /\ pc = "tools" /\ ~Halted /\ pc' \in {"exec", "crashed"}
        /\ call' = call + 1 /\ x = <<"tool_call", call'>>
     \/ /\ pc \in {"result", "failed"} /\ ~Halted
        /\ x = <<"tool_result", call>> /\ call' = call
     \/ pc = "refusal" /\ x = <<"refusal", call>>

LEMMA LogStep == [Next]_vars => log' = log \/ \E x : Adds(x)
  <1> SUFFICES ASSUME [Next]_vars PROVE log' = log \/ \E x : Adds(x)
    OBVIOUS
  <1>1. CASE FinalText
    BY <1>1, WriteBackLog DEF FinalText, Adds
  <1>2. CASE CallTool
    BY <1>2, WriteBackLog DEF CallTool, Adds
  <1>3. CASE ToolResult
    BY <1>3, WriteBackLog DEF ToolResult, Adds
  <1>4. CASE ResultRaises
    BY <1>4, WriteBackLog DEF ResultRaises, Adds
  <1>5. CASE Crash
    BY <1>5, WriteBackLog DEF Crash, Adds
  <1>6. CASE AppendRefusal
    BY <1>6 DEF AppendRefusal, Stored, Swallowed, Raised, Adds
  <1>7. CASE ~(FinalText \/ CallTool \/ ToolResult \/ ResultRaises \/ Crash \/ AppendRefusal)
    BY <1>7 DEF Next, Proceed, vars, Materialize, Top, Answer, StreamFails,
         StartTools, EndBatch, Refuse, RunTool, Post, RecordError, DeleteRow, Ended
  <1> QED
    BY <1>1, <1>2, <1>3, <1>4, <1>5, <1>6, <1>7

-----------------------------------------------------------------------------
LEMMA LoopInit == Init => LoopInv
  BY DEF Init, LoopInv, Halted

LEMMA LoopNext == LoopInv /\ [Next]_vars => LoopInv'
  <1> SUFFICES ASSUME LoopInv, [Next]_vars PROVE LoopInv'
    OBVIOUS
  <1> USE DEF LoopInv, Halted
  <1>1. CASE Materialize \/ Top \/ Answer \/ StreamFails
    BY <1>1 DEF Materialize, Top, Answer, StreamFails
  <1>2. CASE FinalText \/ StartTools \/ EndBatch
    BY <1>2 DEF FinalText, StartTools, EndBatch
  <1>3. CASE Refuse \/ CallTool \/ RunTool \/ ToolResult \/ ResultRaises
    BY <1>3 DEF Refuse, CallTool, RunTool, ToolResult, ResultRaises
  <1>4. CASE Crash \/ Post \/ AppendRefusal \/ RecordError
    BY <1>4 DEF Crash, Post, AppendRefusal, RecordError
  <1>5. CASE DeleteRow \/ Ended \/ UNCHANGED vars
    BY <1>5 DEF DeleteRow, Ended, vars
  <1> QED
    BY <1>1, <1>2, <1>3, <1>4, <1>5 DEF Next, Proceed

LEMMA TypeInit == Init => TypeOK
  <1> SUFFICES ASSUME Init PROVE TypeOK
    OBVIOUS
  <1>1. turn \in 0..MaxTurns
    BY AgentTurnAssumption DEF Init
  <1>2. batch \in Seq(Tools) /\ log \in Seq(Kinds \X Nat)
        /\ audit \in Seq({"success", "refused", "error"})
    BY Empty DEF Init
  <1> QED
    BY <1>1, <1>2 DEF Init, TypeOK, Phases

(* An outcome that is recorded is one of the three. *)
LEMMA RecordType ==
  ASSUME NEW A, audit \in Seq(A), auditLost \in BOOLEAN, NEW o \in A, Record(o)
  PROVE  audit' \in Seq(A) /\ auditLost' \in BOOLEAN
  <1>1. Append(audit, o) \in Seq(A)
    OBVIOUS
  <1> QED
    BY <1>1 DEF Record

LEMMA TypeNext == TypeOK /\ LoopInv /\ [Next]_vars => TypeOK'
  <1> SUFFICES ASSUME TypeOK, LoopInv, [Next]_vars PROVE TypeOK'
    OBVIOUS
  <1>1. log' \in Seq(Entry)
    <2>1. CASE log' = log
      BY <2>1 DEF TypeOK, Entry
    <2>2. ASSUME NEW x, Adds(x) PROVE log' \in Seq(Entry)
      <3>2. x \in Entry
        BY <2>2 DEF Adds, TypeOK, Entry, Kinds
      <3> QED
        BY <2>2, <3>2, LogAppend DEF Adds, TypeOK, Entry
    <2> QED
      BY <2>1, <2>2, LogStep
  <1>2. CASE Materialize \/ Top \/ DeleteRow \/ Ended \/ UNCHANGED vars
    BY <1>2 DEF TypeOK, Phases, Materialize, Top, DeleteRow, Ended, vars
  <1>3. CASE Answer \/ StreamFails \/ StartTools \/ RunTool
    BY <1>3, AgentTurnAssumption
       DEF TypeOK, Phases, Answer, StreamFails, StartTools, RunTool
  <1>4. CASE FinalText \/ CallTool \/ ResultRaises \/ Crash \/ AppendRefusal
    BY <1>1, <1>4 DEF TypeOK, Phases, FinalText, CallTool, ResultRaises, Crash,
       AppendRefusal, Entry
  <1>5. CASE EndBatch
    BY <1>5, AgentTurnAssumption DEF TypeOK, LoopInv, Phases, EndBatch
  <1>6. CASE Refuse
    <2>1. batch' \in Seq(Tools)
      BY <1>6 DEF TypeOK, Refuse
    <2> QED
      BY <1>6, <2>1 DEF TypeOK, Phases, Refuse
  <1>7. CASE ToolResult
    <2>1. batch' \in Seq(Tools)
      <3>1. batch # <<>>
        BY <1>7 DEF LoopInv, ToolResult
      <3> QED
        BY <1>7, <3>1 DEF TypeOK, ToolResult
    <2> QED
      BY <1>1, <1>7, <2>1 DEF TypeOK, Phases, ToolResult, Entry
  <1>8. CASE Post \/ RecordError
    <2>1. audit' \in Seq({"success", "refused", "error"}) /\ auditLost' \in BOOLEAN
      BY <1>8, RecordType DEF TypeOK, Post, RecordError
    <2> QED
      BY <1>8, <2>1 DEF TypeOK, Phases, Post, RecordError
  <1> QED
    BY <1>2, <1>3, <1>4, <1>5, <1>6, <1>7, <1>8 DEF Next, Proceed

-----------------------------------------------------------------------------
(* Only the end of the invocation touches the audit log. *)
LEMMA AuditStep ==
  [Next]_vars => \/ UNCHANGED <<audit, auditLost>>
                 \/ Post \/ RecordError
  BY DEF Next, Proceed, vars, Materialize, Top, Answer, StreamFails, FinalText,
         StartTools, EndBatch, Refuse, CallTool, RunTool, ToolResult, ResultRaises,
         Crash, AppendRefusal, DeleteRow, Ended

(* The first outcome that is recorded is the only one. *)
LEMMA RecordOnce ==
  ASSUME NEW o, audit = <<>>, Record(o)
  PROVE  /\ ToSet(audit') \subseteq {o}
         /\ AuditLevel # "none" /\ ~auditLost' => Len(audit') = 1
  <1>1. CASE audit' = audit
    BY <1>1, Empty DEF Record
  <1>2. CASE audit' = Append(audit, o)
    <2>1. audit' = <<o>>
      BY <1>2
    <2>2. Len(audit') = 1 /\ ToSet(audit') = {o}
      BY <2>1 DEF ToSet
    <2> QED
      BY <2>2
  <1> QED
    BY <1>1, <1>2 DEF Record

LEMMA AuditInit == Init => AuditInv /\ RefusalOutcome
  BY DEF Init, AuditInv, RefusalOutcome

LEMMA AuditNext ==
  LoopInv /\ AuditInv /\ RefusalOutcome /\ [Next]_vars => AuditInv' /\ RefusalOutcome'
  <1> SUFFICES ASSUME LoopInv, AuditInv, RefusalOutcome, [Next]_vars
               PROVE  AuditInv' /\ RefusalOutcome'
    OBVIOUS
  <1> USE DEF AuditInv, RefusalOutcome, Refused, Halted
  <1>1. CASE Post
    <2>1. CASE Halted /\ Record("refused") /\ pc' = "refusal"
      BY <1>1, <2>1, RecordOnce DEF Post
    <2>2. CASE ~Halted /\ Record("success") /\ pc' = "done"
      BY <1>1, <2>2, RecordOnce DEF Post
    <2> QED
      BY <1>1, <2>1, <2>2 DEF Post
  <1>2. CASE RecordError
    BY <1>2, RecordOnce, AgentTurnAssumption DEF RecordError, LoopInv
  <1>3. CASE UNCHANGED <<audit, auditLost>> /\ ~Post /\ ~RecordError
    <2>1. UNCHANGED <<audit, auditLost>>
      BY <1>3
    <2>2. CASE AppendRefusal
      BY <2>1, <2>2 DEF AppendRefusal
    <2>3. CASE UNCHANGED vars \/ Ended \/ DeleteRow
      BY <2>1, <2>3 DEF vars, Ended, DeleteRow
    <2>4. CASE pc \notin {"refusal", "done", "crashed"} /\ pc' \notin {"refusal", "done"}
      BY <2>1, <2>4
    <2> QED
      BY <1>3, <2>2, <2>3, <2>4 DEF Next, Proceed, Materialize, Top, Answer,
         StreamFails, FinalText, StartTools, EndBatch, Refuse, CallTool, RunTool,
         ToolResult, ResultRaises, Crash
  <1> QED
    BY <1>1, <1>2, <1>3, AuditStep

-----------------------------------------------------------------------------
LEMMA BubbleInit == Init => BubbleInv /\ CommittedTextStored
  BY DEF Init, BubbleInv, CommittedTextStored

LEMMA BubbleNext == BubbleInv /\ [Next]_vars => BubbleInv'
  BY DEF BubbleInv, Next, Proceed, vars, Materialize, Top, Answer, StreamFails,
         FinalText, StartTools, EndBatch, Refuse, CallTool, RunTool, ToolResult,
         ResultRaises, Crash, Post, AppendRefusal, RecordError, DeleteRow, Ended

(* The bubble is told to wait only by the step that writes the answer. *)
LEMMA BubbleStep ==
  [Next]_vars /\ bubble' = "committed" => bubble = "committed" \/ FinalText
  BY DEF Next, Proceed, vars, Materialize, Top, Answer, StreamFails,
         StartTools, EndBatch, Refuse, CallTool, RunTool, ToolResult,
         ResultRaises, Crash, Post, AppendRefusal, RecordError, DeleteRow, Ended

(* The row never comes back. *)
LEMMA RowStep == [Next]_vars /\ row' => row
  BY DEF Next, Proceed, vars, Materialize, Top, Answer, StreamFails, FinalText,
         StartTools, EndBatch, Refuse, CallTool, RunTool, ToolResult,
         ResultRaises, Crash, Post, AppendRefusal, RecordError, DeleteRow, Ended

LEMMA CommittedNext ==
  TypeOK /\ LoopInv /\ CommittedTextStored /\ [Next]_vars => CommittedTextStored'
  <1> SUFFICES ASSUME TypeOK, LoopInv, CommittedTextStored, [Next]_vars,
                      bubble' = "committed", row'
               PROVE  \E i \in DOMAIN log' : log'[i][1] = "agent"
    BY DEF CommittedTextStored
  <1>0. row /\ log \in Seq(Entry)
    BY RowStep DEF TypeOK, Entry
  <1>1. CASE FinalText
    <2>1. <<"agent", call>> \in Entry
      BY DEF Entry, Kinds, TypeOK
    <2>2. log' = Append(log, <<"agent", call>>)
      BY <1>0, <1>1 DEF FinalText, WriteBack, Stored, Swallowed, LoopInv
    <2> QED
      BY <1>0, <2>1, <2>2, LogAppend
  <1>2. CASE bubble = "committed"
    <2>1. PICK i \in DOMAIN log : log[i][1] = "agent"
      BY <1>0, <1>2 DEF CommittedTextStored
    <2>2. ASSUME NEW x, log' = Append(log, x)
          PROVE  i \in DOMAIN log' /\ log'[i] = log[i]
      BY <1>0, <2>2
    <2>3. log' = log \/ \E x : log' = Append(log, x)
      BY LogStep DEF Adds
    <2> QED
      BY <2>1, <2>2, <2>3
  <1> QED
    BY <1>1, <1>2, BubbleStep

-----------------------------------------------------------------------------
LEMMA CallsInit == Init => CallsInv
  BY DEF Init, CallsInv

(* While no entry is added, the call at hand stays at hand as long as the  *)
(* invocation is between it and its result.                                *)
LEMMA CallAtHand ==
  ASSUME TypeOK, LoopInv, [Next]_vars, log' = log, row, row',
         pc \in {"exec", "result", "failed", "crashed"}
  PROVE  call' = call /\ pc' \in {"exec", "result", "failed", "crashed"}
  <1>1. ~ToolResult
    <2> SUFFICES ASSUME ToolResult PROVE FALSE
      OBVIOUS
    <2>1. log' = Append(log, <<"tool_result", call>>)
      BY DEF ToolResult, WriteBack, Stored, Swallowed, LoopInv
    <2>2. <<"tool_result", call>> \in Entry /\ log \in Seq(Entry)
      BY DEF TypeOK, Entry, Kinds
    <2>3. Len(log') = Len(log) + 1 /\ Len(log) \in Nat
      BY <2>1, <2>2, LogAppend
    <2> QED
      BY <2>3
  <1> QED
    BY <1>1 DEF LoopInv, Next, Proceed, vars, Materialize, Top, Answer, StreamFails,
       FinalText, StartTools, EndBatch, Refuse, CallTool, RunTool, ResultRaises,
       Crash, Post, AppendRefusal, RecordError, DeleteRow, Ended

LEMMA CallsNext ==
  TypeOK /\ LoopInv /\ CallsInv /\ [Next]_vars => CallsInv'
  <1> SUFFICES ASSUME TypeOK, LoopInv, CallsInv, [Next]_vars, row',
                      NEW i \in DOMAIN log', log'[i][1] = "tool_call"
               PROVE  \/ i < Len(log') /\ log'[i + 1] = <<"tool_result", log'[i][2]>>
                      \/ /\ i = Len(log') /\ log'[i][2] = call'
                         /\ pc' \in {"exec", "result", "failed", "crashed"}
    BY DEF CallsInv
  <1>0. row /\ log \in Seq(Entry)
    BY RowStep DEF TypeOK, Entry
  <1>1. CASE log' = log
    BY <1>0, <1>1, CallAtHand DEF CallsInv
  <1>2. CASE \E x : Adds(x)
    <2>1. PICK x : Adds(x)
      BY <1>2
    <2>2. x \in Entry
      BY <2>1 DEF Adds, TypeOK, Entry, Kinds
    <2>3. /\ Len(log) \in Nat
          /\ Len(log') = Len(log) + 1
          /\ DOMAIN log = 1..Len(log)
          /\ DOMAIN log' = 1..(Len(log) + 1)
          /\ \A k \in 1..Len(log) : log'[k] = log[k]
          /\ log'[Len(log) + 1] = x
      BY <1>0, <2>1, <2>2, LogAppend DEF Adds
    (* The new entry is the call itself. *)
    <2>4. CASE i = Len(log) + 1
      <3>1. x[1] = "tool_call"
        BY <2>3, <2>4
      <3>2. x = <<"tool_call", call'>> /\ pc' \in {"exec", "crashed"}
        BY <2>1, <3>1 DEF Adds
      <3> QED
        BY <2>3, <2>4, <3>2
    (* It follows the call at hand: only a result can. *)
    <2>5. CASE i = Len(log)
      <3>1. /\ log[i][1] = "tool_call" /\ i \in DOMAIN log
            /\ log'[i] = log[i] /\ log'[i + 1] = x /\ i < Len(log')
        BY <2>3, <2>5
      <3>2. log[i][2] = call /\ pc \in {"exec", "result", "failed", "crashed"}
        BY <1>0, <2>3, <2>5, <3>1 DEF CallsInv
      <3>3. x = <<"tool_result", call>>
        BY <2>1, <3>2 DEF Adds
      <3> QED
        BY <3>1, <3>2, <3>3
    <2>6. CASE i \in 1..Len(log) /\ i < Len(log)
      BY <1>0, <2>3, <2>6 DEF CallsInv
    <2> QED
      BY <2>3, <2>4, <2>5, <2>6
  <1> QED
    BY <1>1, <1>2, LogStep

-----------------------------------------------------------------------------
IInv ==
  /\ TypeOK
  /\ LoopInv
  /\ AuditInv
  /\ RefusalOutcome
  /\ BubbleInv
  /\ CommittedTextStored
  /\ CallsInv

LEMMA InvCorrect == Spec => []IInv
  <1>1. Init => IInv
    BY TypeInit, LoopInit, AuditInit, BubbleInit, CallsInit DEF IInv
  <1>2. IInv /\ [Next]_vars => IInv'
    BY TypeNext, LoopNext, AuditNext, BubbleNext, CommittedNext, CallsNext DEF IInv
  <1> QED
    BY <1>1, <1>2, PTL DEF Spec

(* The invocation stays within its types, the turn limit among them. *)
THEOREM TypeCorrect == Spec => []TypeOK
  <1>1. IInv => TypeOK
    BY DEF IInv
  <1> QED
    BY <1>1, InvCorrect, PTL

(* Once system_refuse has recorded a reason, the conversation receives     *)
(* nothing from this invocation but the refusal entry.                     *)
THEOREM OnlyRefusalCorrect == Spec => OnlyRefusalAfterRefusing
  <1>1. IInv /\ [Next]_vars
          => [Refused /\ log' # log => pc = "refusal" /\ Last(log')[1] = "refusal"]_vars
    <2> SUFFICES ASSUME IInv, [Next]_vars, Refused, log' # log
                 PROVE  pc = "refusal" /\ Last(log')[1] = "refusal"
      OBVIOUS
    <2>1. PICK x : Adds(x)
      BY LogStep
    <2>2. pc = "refusal" /\ x = <<"refusal", call>> /\ log' = Append(log, x)
      BY <2>1 DEF Adds, Refused, Halted
    <2>3. x \in Entry /\ log \in Seq(Entry)
      BY <2>2 DEF IInv, TypeOK, Entry, Kinds
    <2>4. Last(log') = x
      BY <2>2, <2>3, LogAppend
    <2> QED
      BY <2>2, <2>4
  <1> QED
    BY <1>1, InvCorrect, PTL DEF Spec, OnlyRefusalAfterRefusing

(* A refusal that was noticed before the turn limit struck is recorded as  *)
(* a refusal and as nothing else.                                          *)
THEOREM RefusalCorrect == Spec => []RefusalOutcome
  <1>1. IInv => RefusalOutcome
    BY DEF IInv
  <1> QED
    BY <1>1, InvCorrect, PTL

(* An invocation that returns has recorded exactly one outcome, unless the *)
(* level keeps none or the insert failed.                                  *)
THEOREM OneOutcomeCorrect == Spec => []OneOutcome
  <1>1. IInv => OneOutcome
    BY DEF IInv, AuditInv, OneOutcome
  <1> QED
    BY <1>1, InvCorrect, PTL

(* The audit log of an invocation that returned tells its outcome.         *)
THEOREM OutcomesCorrect == Spec => []Outcomes
  <1>1. OneOutcome /\ RefusalOutcome => Outcomes
    BY DEF Outcomes
  <1> QED
    BY <1>1, OneOutcomeCorrect, RefusalCorrect, PTL

(* Every stored tool call of an invocation that returned is followed by    *)
(* its result.                                                             *)
THEOREM CallsAnsweredCorrect == Spec => []CallsAnswered
  <1>1. IInv => CallsAnswered
    BY DEF IInv, CallsInv, CallsAnswered
  <1> QED
    BY <1>1, InvCorrect, PTL

(* An answer or a refusal leaves no pending bubble behind, and a bubble    *)
(* told to wait gets its entry.                                            *)
THEOREM BubbleCorrect == Spec => []BubbleResolved
  <1>1. IInv => BubbleResolved
    BY DEF IInv, BubbleInv, NoBubbleLeft, BubbleResolved
  <1> QED
    BY <1>1, InvCorrect, PTL
=============================================================================
