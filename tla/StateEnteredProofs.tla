------------------------- MODULE StateEnteredProofs -------------------------
(***************************************************************************)
(* Proofs about StateEntered.tla for any machine, any book of rules and    *)
(* any set of requests.                                                    *)
(***************************************************************************)
EXTENDS StateEntered, FiniteSetTheorems, TLAPS

(* A non-empty stack has a top and a rest. *)
LEMMA StackFacts ==
  ASSUME NEW s \in Seq(Frame), s # <<>>
  PROVE  Last(s) \in Frame /\ Front(s) \in Seq(Frame) /\ Len(s) \in Nat
  BY DEF Last, Front

LEMMA FrontFacts ==
  ASSUME NEW s \in Seq(Frame), Len(s) > 1
  PROVE  Front(s) \in Seq(Frame) /\ Front(s) # <<>>
  <1>1. s # <<>>
    OBVIOUS
  <1>2. Len(Front(s)) = Len(s) - 1
    BY DEF Front
  <1> QED
    BY <1>1, <1>2, StackFacts

(* Pushing a frame keeps a stack a stack. *)
LEMMA PushFacts ==
  ASSUME NEW s \in Seq(Frame), NEW f \in Frame
  PROVE  Append(s, f) \in Seq(Frame)
  OBVIOUS

(* Whatever the dispatcher does to a frame leaves a frame. *)
LEMMA FrameFacts ==
  ASSUME NEW f \in Frame
  PROVE  /\ [f EXCEPT !.action = @ + 1] \in Frame
         /\ [f EXCEPT !.rule = @ + 1, !.action = 0] \in Frame
         /\ \A i \in Nat : [f EXCEPT !.rule = i, !.action = 1] \in Frame
         /\ \A s \in States : [f EXCEPT !.target = s] \in Frame
  <1>1. f = [target |-> f.target, rule |-> f.rule, action |-> f.action]
        /\ f.target \in States /\ f.rule \in Nat /\ f.action \in Nat
    BY DEF Frame
  <1>2. [f EXCEPT !.action = @ + 1] \in Frame
    BY <1>1 DEF Frame
  <1>3. [f EXCEPT !.rule = @ + 1, !.action = 0] \in Frame
    <2>1. \A i \in Nat : [f EXCEPT !.rule = i, !.action = 0] \in Frame
      BY <1>1 DEF Frame
    <2>2. f.rule + 1 \in Nat
      BY <1>1
    <2> QED
      BY <2>1, <2>2
  <1>4. \A i \in Nat : [f EXCEPT !.rule = i, !.action = 1] \in Frame
    BY <1>1 DEF Frame
  <1>5. \A s \in States : [f EXCEPT !.target = s] \in Frame
    BY <1>1 DEF Frame
  <1> QED
    BY <1>2, <1>3, <1>4, <1>5

(* A request waits at the compare-and-swap only for a transition the       *)
(* machine declares from the state it has read.                            *)
ExpectedDeclared ==
  \A r \in Requests :
    call[r].step = "cas" => <<call[r].expected, call[r].want>> \in Declared

(* Replacing the top keeps a stack a stack. *)
LEMMA SetTopType ==
  ASSUME stack \in [Requests -> Seq(Frame)], NEW r \in Requests, stack[r] # <<>>,
         NEW f \in Frame, SetTop(r, f)
  PROVE  stack' \in [Requests -> Seq(Frame)]
  <1>1. Append(Front(stack[r]), f) \in Seq(Frame)
    BY StackFacts, PushFacts
  <1> QED
    BY <1>1 DEF SetTop

LEMMA TopType ==
  ASSUME stack \in [Requests -> Seq(Frame)], NEW r \in Requests, stack[r] # <<>>
  PROVE  Top(r) \in Frame
  BY StackFacts DEF Top

LEMMA StepType ==
  ASSUME call \in [Requests -> Call], NEW r \in Requests,
         NEW s \in {"idle", "read", "cas", "fresh", "dispatch", "done"}, Step(r, s)
  PROVE  call' \in [Requests -> Call]
  BY DEF Step, Call

LEMMA NextActionType ==
  ASSUME TypeOK, NEW r \in Requests, stack[r] # <<>>, NextAction(r)
  PROVE  /\ stack' \in [Requests -> Seq(Frame)]
         /\ call' \in [Requests -> Call]
  <1>1. [Top(r) EXCEPT !.action = @ + 1] \in Frame
    BY TopType, FrameFacts DEF TypeOK
  <1> QED
    BY <1>1, SetTopType, StepType DEF NextAction, TypeOK

LEMMA AbandonType ==
  ASSUME TypeOK, NEW r \in Requests, Abandon(r)
  PROVE  /\ stack' \in [Requests -> Seq(Frame)]
         /\ call' \in [Requests -> Call]
  BY NextActionType, StepType DEF Abandon, TypeOK

-----------------------------------------------------------------------------
LEMMA TypeInit == Init => TypeOK
  <1> SUFFICES ASSUME Init PROVE TypeOK
    OBVIOUS
  <1>1. stack \in [Requests -> Seq(Frame)]
    BY DEF Init
  <1> QED
    BY <1>1, RuleBookAssumption DEF Init, TypeOK, Call

LEMMA TypeNext == TypeOK /\ [Next]_vars => TypeOK'
  <1> SUFFICES ASSUME TypeOK, [Next]_vars PROVE TypeOK'
    OBVIOUS
  <1>0. /\ state \in States \cup {Gone}
        /\ call \in [Requests -> Call]
        /\ stack \in [Requests -> Seq(Frame)]
        /\ entered \in [States -> Nat]
        /\ fired \in [RuleIds -> Nat]
    BY DEF TypeOK
  <1>1. ASSUME NEW r \in Requests, NEW s \in States, Request(r, s) PROVE TypeOK'
    BY <1>0, <1>1 DEF Request, TypeOK, Call
  <1>2. ASSUME NEW r \in Requests, Read(r) PROVE TypeOK'
    <2>1. CASE <<state, call[r].want>> \in Declared
      <3>1. state \in States
        BY <2>1, RuleBookAssumption
      <3>2. call' = [call EXCEPT ![r].step = "cas", ![r].expected = state]
        BY <1>2, <2>1 DEF Read
      <3>3. call' \in [Requests -> Call]
        BY <1>0, <3>1, <3>2 DEF Call
      <3>4. UNCHANGED <<state, stack, entered, fired>>
        BY <1>2, <2>1 DEF Read
      <3> QED
        BY <3>3, <3>4 DEF TypeOK
    <2>2. CASE Abandon(r)
      BY <1>0, <1>2, <2>2, AbandonType DEF Read, TypeOK
    <2> QED
      BY <1>2, <2>1, <2>2 DEF Read
  <1>3. ASSUME NEW r \in Requests, Cas(r) PROVE TypeOK'
    <2>1. CASE state = call[r].expected
      <3>1. call[r].want \in States
        BY <1>0 DEF Call
      <3>2. /\ state' = call[r].want /\ Step(r, "fresh") /\ UNCHANGED <<stack, fired>>
            /\ entered' = [entered EXCEPT ![call[r].want] = @ + 1]
        BY <1>3, <2>1 DEF Cas
      <3>3. call' \in [Requests -> Call]
        BY <1>0, <3>2, StepType
      <3> QED
        BY <1>0, <3>1, <3>2, <3>3 DEF TypeOK
    <2>2. CASE state # call[r].expected
      BY <1>0, <1>3, <2>2, AbandonType DEF Cas, TypeOK
    <2> QED
      BY <2>1, <2>2
  <1>4. ASSUME NEW r \in Requests, Fresh(r) PROVE TypeOK'
    <2>1. [target |-> call[r].want, rule |-> 1, action |-> 0] \in Frame
      BY <1>0 DEF Call, Frame
    <2>2. Append(stack[r], [target |-> call[r].want, rule |-> 1, action |-> 0])
            \in Seq(Frame)
      BY <1>0, <2>1, PushFacts
    <2>3. stack' \in [Requests -> Seq(Frame)]
      BY <1>0, <1>4, <2>2 DEF Fresh
    <2>4. call' \in [Requests -> Call]
      BY <1>0, <1>4, StepType DEF Fresh
    <2> QED
      BY <1>0, <1>4, <2>3, <2>4 DEF Fresh, TypeOK
  <1>5. ASSUME NEW r \in Requests, Match(r) PROVE TypeOK'
    <2>1. PICK i \in Matching(Top(r)) :
            /\ SetTop(r, [Top(r) EXCEPT !.rule = i, !.action = 1])
            /\ fired' = [fired EXCEPT ![i] = @ + 1]
      BY <1>5 DEF Match
    <2>2. i \in RuleIds /\ i \in Nat
      BY RuleBookAssumption DEF Matching, RuleIds
    <2>3. [Top(r) EXCEPT !.rule = i, !.action = 1] \in Frame
      BY <1>0, <1>5, <2>2, TopType, FrameFacts DEF Match
    <2>4. stack' \in [Requests -> Seq(Frame)]
      BY <1>0, <1>5, <2>1, <2>3, SetTopType DEF Match
    <2> QED
      BY <1>0, <1>5, <2>1, <2>2, <2>4 DEF Match, TypeOK
  <1>6. ASSUME NEW r \in Requests, RunUpdate(r) PROVE TypeOK'
    BY <1>0, <1>6, NextActionType DEF RunUpdate, AtAction, TypeOK
  <1>7. ASSUME NEW r \in Requests, RunTransition(r) PROVE TypeOK'
    <2>1. [Top(r) EXCEPT !.target = Actions(r)[Top(r).action]] \in Frame
      BY <1>0, <1>7, TopType, FrameFacts DEF RunTransition, AtAction
    <2>2. stack' \in [Requests -> Seq(Frame)]
      BY <1>0, <1>7, <2>1, SetTopType DEF RunTransition, AtAction
    <2>3. call' \in [Requests -> Call]
      BY <1>0, <1>7 DEF RunTransition, Call
    <2> QED
      BY <1>0, <1>7, <2>2, <2>3 DEF RunTransition, TypeOK
  <1>8. ASSUME NEW r \in Requests, EndRule(r) PROVE TypeOK'
    <2>1. [Top(r) EXCEPT !.rule = @ + 1, !.action = 0] \in Frame
      BY <1>0, <1>8, TopType, FrameFacts DEF EndRule
    <2>2. stack' \in [Requests -> Seq(Frame)]
      BY <1>0, <1>8, <2>1, SetTopType DEF EndRule
    <2> QED
      BY <1>0, <1>8, <2>2 DEF EndRule, TypeOK
  <1>9. ASSUME NEW r \in Requests, Return(r) PROVE TypeOK'
    <2>1. CASE Len(stack[r]) = 1
      <3>1. stack' = [stack EXCEPT ![r] = <<>>]
        BY <1>9, <2>1 DEF Return
      <3>2. stack' \in [Requests -> Seq(Frame)]
        BY <1>0, <3>1
      <3>3. call' \in [Requests -> Call]
        BY <1>0, <1>9, <2>1, StepType DEF Return
      <3> QED
        BY <1>0, <1>9, <3>2, <3>3 DEF Return, TypeOK
    <2>2. CASE Len(stack[r]) > 1
      <3>1. Front(stack[r]) \in Seq(Frame) /\ Front(stack[r]) # <<>>
        BY <1>0, <2>2, FrontFacts
      <3>2. Resumed(Front(stack[r])) \in Seq(Frame)
        BY <3>1, StackFacts, FrameFacts, PushFacts DEF Resumed
      <3>3. stack' = [stack EXCEPT ![r] = Resumed(Front(stack[r]))] /\ UNCHANGED call
        <4>1. Len(stack[r]) \in Nat
          BY <1>0
        <4>2. \A n \in Nat : n > 1 => n # 1
          OBVIOUS
        <4>3. Len(stack[r]) # 1
          BY <2>2, <4>1, <4>2
        <4> QED
          BY <1>9, <4>3, Zenon DEF Return
      <3>4. stack' \in [Requests -> Seq(Frame)]
        BY <1>0, <3>2, <3>3
      <3> QED
        BY <1>0, <1>9, <3>3, <3>4 DEF Return, TypeOK
    <2> QED
      BY <1>9, <2>1, <2>2 DEF Return
  <1>10. CASE Delete
    BY <1>0, <1>10 DEF Delete, TypeOK
  <1>11. CASE Quiescent \/ UNCHANGED vars
    BY <1>0, <1>11 DEF Quiescent, vars, TypeOK
  <1> QED
    BY <1>1, <1>2, <1>3, <1>4, <1>5, <1>6, <1>7, <1>8, <1>9, <1>10, <1>11
       DEF Next, Proceed

(* The requests, the nested dispatcher calls and the counters keep their   *)
(* types through any cascade.                                              *)
THEOREM TypeCorrect == Spec => []TypeOK
  BY TypeInit, TypeNext, PTL DEF Spec

-----------------------------------------------------------------------------
(* Leaving a frame's action or a transition never puts a request at the    *)
(* compare-and-swap.                                                       *)
LEMMA AbandonStep ==
  ASSUME TypeOK, NEW r \in Requests, Abandon(r)
  PROVE  \A q \in Requests : call'[q].step = "cas" => call'[q] = call[q]
  <1>1. \E s \in {"done", "dispatch"} : Step(r, s)
    BY DEF Abandon, NextAction
  <1> QED
    BY <1>1 DEF Step, TypeOK, Call

(* Every request at the compare-and-swap was there before, or has just     *)
(* read a state the machine declares the transition from.                  *)
LEMMA CallStep ==
  ASSUME TypeOK, [Next]_vars, NEW q \in Requests, call'[q].step = "cas"
  PROVE  \/ call'[q] = call[q]
         \/ <<call'[q].expected, call'[q].want>> \in Declared
  <1>0. call \in [Requests -> Call]
    BY DEF TypeOK
  <1>1. ASSUME NEW r \in Requests, NEW s \in States, Request(r, s)
        PROVE  call'[q] = call[q]
    BY <1>0, <1>1 DEF Request, Call
  <1>2. ASSUME NEW r \in Requests, Read(r)
        PROVE  \/ call'[q] = call[q]
               \/ <<call'[q].expected, call'[q].want>> \in Declared
    <2>1. CASE Abandon(r)
      BY <2>1, AbandonStep
    <2>2. CASE /\ <<state, call[r].want>> \in Declared
               /\ call' = [call EXCEPT ![r].step = "cas", ![r].expected = state]
      BY <1>0, <2>2 DEF Call
    <2> QED
      BY <1>2, <2>1, <2>2 DEF Read
  <1>3. ASSUME NEW r \in Requests, Cas(r) PROVE call'[q] = call[q]
    <2>1. CASE Abandon(r)
      BY <2>1, AbandonStep
    <2>2. CASE Step(r, "fresh")
      BY <1>0, <2>2 DEF Step, Call
    <2> QED
      BY <1>3, <2>1, <2>2 DEF Cas
  <1>4. ASSUME NEW r \in Requests, Fresh(r) PROVE call'[q] = call[q]
    BY <1>0, <1>4 DEF Fresh, Step, Call
  <1>5. ASSUME NEW r \in Requests, Match(r) \/ EndRule(r) PROVE call'[q] = call[q]
    BY <1>5 DEF Match, EndRule
  <1>6. ASSUME NEW r \in Requests, RunUpdate(r) PROVE call'[q] = call[q]
    BY <1>0, <1>6 DEF RunUpdate, NextAction, Step, Call
  <1>7. ASSUME NEW r \in Requests, RunTransition(r) PROVE call'[q] = call[q]
    BY <1>0, <1>7 DEF RunTransition, Call
  <1>8. ASSUME NEW r \in Requests, Return(r) PROVE call'[q] = call[q]
    BY <1>0, <1>8 DEF Return, Step, Call
  <1>9. CASE Delete \/ Quiescent \/ UNCHANGED vars
    BY <1>9 DEF Delete, Quiescent, vars
  <1> QED
    BY <1>1, <1>2, <1>3, <1>4, <1>5, <1>6, <1>7, <1>8, <1>9 DEF Next, Proceed

LEMMA ExpectedInit == Init => ExpectedDeclared
  BY DEF Init, ExpectedDeclared

LEMMA ExpectedNext ==
  TypeOK /\ ExpectedDeclared /\ [Next]_vars => ExpectedDeclared'
  BY CallStep DEF ExpectedDeclared

LEMMA ExpectedCorrect == Spec => [](TypeOK /\ ExpectedDeclared)
  BY TypeInit, TypeNext, ExpectedInit, ExpectedNext, PTL DEF Spec

(* However requests and cascades race, the state column moves along        *)
(* declared transitions only: what a request may do when it read the       *)
(* record is still allowed when its conditional update takes effect.       *)
THEOREM DeclaredCorrect == Spec => StateChangesDeclared
  <1>1. TypeOK /\ ExpectedDeclared /\ [Next]_vars
          => [state' # state => state' = Gone \/ <<state, state'>> \in Declared]_vars
    <2> SUFFICES ASSUME ExpectedDeclared, [Next]_vars, state' # state
                 PROVE  state' = Gone \/ <<state, state'>> \in Declared
      OBVIOUS
    <2>1. Delete \/ \E r \in Requests : Cas(r)
      BY DEF Next, Proceed, vars, Request, Read, Fresh, Match, Return, RunUpdate,
             RunTransition, EndRule, Quiescent
    <2>2. CASE Delete
      BY <2>2 DEF Delete
    <2>3. ASSUME NEW r \in Requests, Cas(r)
          PROVE  <<state, state'>> \in Declared
      BY <2>3 DEF Cas, ExpectedDeclared
    <2> QED
      BY <2>1, <2>2, <2>3
  <1> QED
    BY <1>1, ExpectedCorrect, PTL DEF Spec, StateChangesDeclared

-----------------------------------------------------------------------------
(* How often a rule runs, where the rules are of the harmless kind.  A     *)
(* dispatcher call owes a rule a run while the rule is ahead of it and on  *)
(* the state it matches against.                                           *)
FrameOwes(f, i) ==
  f.target = Rules[i].on /\ (f.rule < i \/ (f.rule = i /\ f.action = 0))

(* A call that has made its transition: at the rule's last action, and with *)
(* no rule ahead on the state it moved to.                                 *)
Waits(f) ==
  /\ f.rule \in RuleIds /\ f.action > 0
  /\ f.action = Len(Rules[f.rule].actions)
  /\ \A i \in RuleIds : i > f.rule => Rules[i].on # f.target

(* A call that is running a rule matches against the rule's own state until *)
(* the rule's actions are over.                                            *)
Runs(f) ==
  f.action > 0 =>
    /\ f.rule \in RuleIds
    /\ f.action <= Len(Rules[f.rule].actions) => f.target = Rules[f.rule].on

(* A request's calls: all but the innermost wait for the transition they    *)
(* made, and the innermost does until the transition has been dispatched.  *)
Nested(c, s) ==
  /\ c.step \in {"idle", "done"} => s = <<>>
  /\ \A n \in 1..(Len(s) - 1) : Waits(s[n])
  /\ s # <<>> => IF c.step = "dispatch" THEN Runs(Last(s)) ELSE Waits(Last(s))

(* A request owes a rule a run once it has entered the rule's state.        *)
Owes(c, s, i) ==
  IF c.step = "fresh" THEN c.want = Rules[i].on
                      ELSE s # <<>> /\ FrameOwes(Last(s), i)

NestedInv == \A r \in Requests : Nested(call[r], stack[r])

Owing(i) == {r \in Requests : Owes(call[r], stack[r], i)}

(* A rule has run once for each time its state was entered, but for the     *)
(* requests that owe it a run and, when the record is gone, those that were *)
(* let off.                                                                *)
CountInv ==
  \A i \in RuleIds :
    /\ IsFiniteSet(Owing(i))
    /\ fired[i] + Cardinality(Owing(i)) <= entered[Rules[i].on]
    /\ state # Gone => fired[i] + Cardinality(Owing(i)) = entered[Rules[i].on]

(* A frame in the place of the innermost one leaves the others alone. *)
LEMMA TopReplaced ==
  ASSUME NEW s \in Seq(Frame), s # <<>>, NEW f \in Frame,
         \A n \in 1..(Len(s) - 1) : Waits(s[n])
  PROVE  LET t == Append(Front(s), f) IN
         /\ t # <<>> /\ Last(t) = f
         /\ \A n \in 1..(Len(t) - 1) : Waits(t[n])
  <1> DEFINE t == Append(Front(s), f)
  <1>1. /\ Front(s) \in Seq(Frame) /\ Len(Front(s)) = Len(s) - 1 /\ Len(s) \in Nat \ {0}
        /\ \A n \in 1..(Len(s) - 1) : Front(s)[n] = s[n]
    <2>1. Len(s) \in Nat \ {0}
      OBVIOUS
    <2>2. Front(s) \in Seq(Frame)
      BY StackFacts
    <2>3. Len(Front(s)) = Len(s) - 1
      <3> DEFINE m == Len(s) - 1
      <3>1. m \in Nat /\ m <= Len(s)
        BY <2>1
      <3> HIDE DEF m
      <3>2. SubSeq(s, 1, m) \in Seq(Frame) /\ Len(SubSeq(s, 1, m)) = m
        BY <3>1
      <3> QED
        BY <3>2 DEF m, Front
    <2>4. \A n \in 1..(Len(s) - 1) : Front(s)[n] = s[n]
      BY <2>1 DEF Front
    <2> QED
      BY <2>1, <2>2, <2>3, <2>4
  <1>2. t \in Seq(Frame) /\ Len(t) = Len(s) /\ t[Len(t)] = f
        /\ \A n \in 1..(Len(s) - 1) : t[n] = Front(s)[n]
    <2> DEFINE u == Front(s)
    <2>1. /\ u \in Seq(Frame) /\ Len(u) = Len(s) - 1 /\ Len(s) \in Nat \ {0}
      BY <1>1
    <2> HIDE DEF u
    <2>2. LET w == Append(u, f) IN
          /\ w \in Seq(Frame) /\ Len(w) = Len(u) + 1 /\ w[Len(u) + 1] = f
          /\ \A n \in 1..Len(u) : w[n] = u[n]
      BY <2>1
    <2>3. Len(u) + 1 = Len(s)
      BY <2>1
    <2> QED
      BY <2>1, <2>2, <2>3 DEF u
  <1> HIDE DEF t
  <1>3. t # <<>> /\ Last(t) = f
    BY <1>1, <1>2 DEF Last
  <1>4. \A n \in 1..(Len(t) - 1) : Waits(t[n])
    BY <1>1, <1>2
  <1> QED
    BY <1>3, <1>4 DEF t

(* A new innermost frame. *)
LEMMA TopPushed ==
  ASSUME NEW s \in Seq(Frame), NEW f \in Frame,
         \A n \in 1..(Len(s) - 1) : Waits(s[n]), s # <<>> => Waits(Last(s))
  PROVE  LET t == Append(s, f) IN
         /\ t # <<>> /\ Last(t) = f
         /\ \A n \in 1..(Len(t) - 1) : Waits(t[n])
  <1> DEFINE t == Append(s, f)
  <1>1. t \in Seq(Frame) /\ Len(t) = Len(s) + 1 /\ t[Len(t)] = f /\ Len(s) \in Nat
        /\ \A n \in 1..Len(s) : t[n] = s[n]
    OBVIOUS
  <1>2. \A n \in 1..Len(s) : Waits(s[n])
    <2> SUFFICES ASSUME NEW n \in 1..Len(s) PROVE Waits(s[n])
      OBVIOUS
    <2>1. CASE n = Len(s)
      BY <2>1 DEF Last
    <2>2. CASE n # Len(s)
      <3>1. n \in 1..(Len(s) - 1)
        BY <1>1, <2>2
      <3> QED
        BY <3>1
    <2> QED
      BY <2>1, <2>2
  <1> HIDE DEF t
  <1>3. t # <<>> /\ Last(t) = f
    BY <1>1 DEF Last
  <1>4. \A n \in 1..(Len(t) - 1) : Waits(t[n])
    BY <1>1, <1>2
  <1> QED
    BY <1>3, <1>4 DEF t

(* A rule is found by its number and has a list of actions. *)
LEMMA RuleFacts ==
  /\ RuleIds = 1..Len(Rules) /\ RuleIds \subseteq Nat \ {0}
  /\ \A i \in RuleIds : Rules[i].on \in States /\ Rules[i].actions \in Seq(States \cup {Update})
  <1>1. Rules \in Seq([on : States, actions : Seq(States \cup {Update})])
    BY RuleBookAssumption
  <1>2. RuleIds = 1..Len(Rules) /\ RuleIds \subseteq Nat \ {0}
    BY <1>1 DEF RuleIds
  <1>3. \A i \in RuleIds : Rules[i] \in [on : States, actions : Seq(States \cup {Update})]
    <2> DEFINE T == [on : States, actions : Seq(States \cup {Update})]
    <2>1. Rules \in Seq(T)
      BY <1>1
    <2> HIDE DEF T
    <2>2. \A i \in 1..Len(Rules) : Rules[i] \in T
      BY <2>1
    <2> QED
      BY <1>2, <2>2 DEF T
  <1> QED
    BY <1>2, <1>3

(* A call whose transition is over owes nothing, and is past its actions.   *)
LEMMA WaitsResumed ==
  ASSUME NEW f \in Frame, Waits(f)
  PROVE  LET g == [f EXCEPT !.action = @ + 1] IN
         /\ g \in Frame /\ Runs(g)
         /\ \A i \in RuleIds : ~FrameOwes(f, i) /\ ~FrameOwes(g, i)
  <1> DEFINE g == [f EXCEPT !.action = @ + 1]
  <1>1. g \in Frame /\ g.target = f.target /\ g.rule = f.rule /\ g.action = f.action + 1
        /\ f.action \in Nat /\ f.rule \in Nat
    BY FrameFacts DEF Frame
  <1>2. RuleIds \subseteq Nat /\ Rules[f.rule].actions \in Seq(States \cup {Update})
    BY RuleFacts DEF Waits
  <1>3. f.action > 0 /\ f.rule \in RuleIds /\ g.action > Len(Rules[f.rule].actions)
        /\ Len(Rules[f.rule].actions) \in Nat
    BY <1>1, <1>2 DEF Waits
  <1> HIDE DEF g
  <1>4. Runs(g)
    BY <1>1, <1>3 DEF Runs
  <1>5. ASSUME NEW i \in RuleIds PROVE ~FrameOwes(f, i) /\ ~FrameOwes(g, i)
    <2>1. i > f.rule => Rules[i].on # f.target
      BY DEF Waits
    <2>2. f.rule \in Nat /\ i \in Nat /\ f.action > 0 /\ g.action > 0 /\ f.action \in Nat
      BY <1>1, <1>2, <1>3
    <2> QED
      BY <1>1, <2>1, <2>2 DEF FrameOwes
  <1> QED
    BY <1>1, <1>4, <1>5 DEF g

-----------------------------------------------------------------------------
(* A step of a request leaves the other requests alone. *)
LEMMA Elsewhere ==
  ASSUME TypeOK, NEW r \in Requests, Proceed(r) \/ \E s \in States : Request(r, s),
         NEW q \in Requests, q # r
  PROVE  call'[q] = call[q] /\ stack'[q] = stack[q]
  <1>0. call \in [Requests -> Call] /\ stack \in [Requests -> Seq(Frame)]
    BY DEF TypeOK
  <1>1. ASSUME Abandon(r) PROVE call'[q] = call[q] /\ stack'[q] = stack[q]
    BY <1>0, <1>1 DEF Abandon, NextAction, Step, SetTop
  <1>2. ASSUME NEW s \in States, Request(r, s) PROVE call'[q] = call[q] /\ stack'[q] = stack[q]
    BY <1>0, <1>2 DEF Request
  <1>3. ASSUME Read(r) \/ Cas(r) PROVE call'[q] = call[q] /\ stack'[q] = stack[q]
    BY <1>0, <1>1, <1>3 DEF Read, Cas, Step
  <1>4. ASSUME Fresh(r) PROVE call'[q] = call[q] /\ stack'[q] = stack[q]
    BY <1>0, <1>4 DEF Fresh, Step
  <1>5. ASSUME Match(r) \/ EndRule(r) PROVE call'[q] = call[q] /\ stack'[q] = stack[q]
    BY <1>0, <1>5 DEF Match, EndRule, SetTop
  <1>6. ASSUME RunUpdate(r) \/ RunTransition(r)
        PROVE  call'[q] = call[q] /\ stack'[q] = stack[q]
    BY <1>0, <1>6 DEF RunUpdate, RunTransition, NextAction, SetTop, Step
  <1>7. ASSUME Return(r) PROVE call'[q] = call[q] /\ stack'[q] = stack[q]
    BY <1>0, <1>7 DEF Return, Step
  <1> QED
    BY <1>2, <1>3, <1>4, <1>5, <1>6, <1>7 DEF Proceed

(* A step that keeps a request's calls in order and owes what it owed.      *)
Keeps(r) ==
  /\ Nested(call'[r], stack'[r])
  /\ \A i \in RuleIds : Owes(call'[r], stack'[r], i) <=> Owes(call[r], stack[r], i)

(* The innermost call replaced while the dispatcher runs. *)
LEMMA DispatchKeeps ==
  ASSUME TypeOK, NEW r \in Requests, Nested(call[r], stack[r]), stack[r] # <<>>,
         NEW f \in Frame, Runs(f), call'[r].step = "dispatch",
         stack'[r] = Append(Front(stack[r]), f),
         \A i \in RuleIds : FrameOwes(f, i) <=> Owes(call[r], stack[r], i)
  PROVE  Keeps(r)
  <1>1. stack[r] \in Seq(Frame) /\ \A n \in 1..(Len(stack[r]) - 1) : Waits(stack[r][n])
    BY DEF TypeOK, Nested
  <1>2. /\ stack'[r] # <<>> /\ Last(stack'[r]) = f
        /\ \A n \in 1..(Len(stack'[r]) - 1) : Waits(stack'[r][n])
    BY <1>1, TopReplaced
  <1> QED
    BY <1>2 DEF Keeps, Nested, Owes

(* A transition that is refused. *)
LEMMA AbandonKeeps ==
  ASSUME TypeOK, NEW r \in Requests, Nested(call[r], stack[r]),
         call[r].step \in {"read", "cas"}, Abandon(r)
  PROVE  Keeps(r)
  <1>0. call \in [Requests -> Call] /\ stack \in [Requests -> Seq(Frame)]
    BY DEF TypeOK
  <1>1. CASE stack[r] = <<>>
    <2>1. stack'[r] = <<>> /\ call'[r].step = "done"
      BY <1>0, <1>1 DEF Abandon, Step, Call
    <2> QED
      BY <1>1, <2>1 DEF Keeps, Nested, Owes
  <1>2. CASE stack[r] # <<>>
    <2> DEFINE f == Top(r)
               g == [f EXCEPT !.action = @ + 1]
    <2>1. stack'[r] = Append(Front(stack[r]), g) /\ call'[r].step = "dispatch"
      BY <1>0, <1>2 DEF Abandon, NextAction, SetTop, Step, Call
    <2>2. f \in Frame /\ Waits(f)
      BY <1>0, <1>2, TopType DEF Nested, Top
    <2>3. /\ g \in Frame /\ Runs(g)
          /\ \A i \in RuleIds : ~FrameOwes(f, i) /\ ~FrameOwes(g, i)
      BY <2>2, WaitsResumed
    <2>4. \A i \in RuleIds : Owes(call[r], stack[r], i) <=> FrameOwes(f, i)
      BY <1>2 DEF Owes, Top
    <2> HIDE DEF f, g
    <2> QED
      BY <1>2, <2>1, <2>3, <2>4, DispatchKeeps
  <1> QED
    BY <1>1, <1>2

LEMMA RequestKeeps ==
  ASSUME TypeOK, NEW r \in Requests, Nested(call[r], stack[r]),
         NEW s \in States, Request(r, s)
  PROVE  Keeps(r)
  <1>1. stack'[r] = <<>> /\ stack[r] = <<>> /\ call'[r].step = "read" /\ call[r].step = "idle"
    BY DEF Request, Nested, TypeOK, Call
  <1> QED
    BY <1>1 DEF Keeps, Nested, Owes

LEMMA ReadKeeps ==
  ASSUME TypeOK, NEW r \in Requests, Nested(call[r], stack[r]), Read(r)
  PROVE  Keeps(r)
  <1>1. CASE Abandon(r)
    BY <1>1, AbandonKeeps DEF Read
  <1>2. CASE call' = [call EXCEPT ![r].step = "cas", ![r].expected = state] /\ UNCHANGED stack
    <2>1. stack'[r] = stack[r] /\ call'[r].step = "cas" /\ call[r].step = "read"
      BY <1>2 DEF Read, TypeOK, Call
    <2> QED
      BY <2>1 DEF Keeps, Nested, Owes
  <1> QED
    BY <1>1, <1>2 DEF Read

LEMMA UpdateKeeps ==
  ASSUME TypeOK, NEW r \in Requests, Nested(call[r], stack[r]), RunUpdate(r)
  PROVE  Keeps(r)
  <1> DEFINE f == Top(r)
             g == [f EXCEPT !.action = @ + 1]
  <1>1. /\ stack'[r] = Append(Front(stack[r]), g) /\ call'[r].step = "dispatch"
        /\ stack[r] # <<>> /\ call[r].step = "dispatch"
    BY DEF RunUpdate, AtAction, NextAction, SetTop, Step, TypeOK, Call
  <1>2. f \in Frame /\ Runs(f) /\ f.action > 0 /\ f.action \in DOMAIN Rules[f.rule].actions
    BY <1>1, TopType DEF Nested, Top, RunUpdate, AtAction, Actions, TypeOK
  <1>3. /\ g \in Frame /\ g.target = f.target /\ g.rule = f.rule /\ g.action = f.action + 1
        /\ f.action \in Nat /\ f.rule \in Nat
    BY <1>2, FrameFacts DEF Frame
  <1>4. \A i \in RuleIds : Owes(call[r], stack[r], i) <=> FrameOwes(f, i)
    BY <1>1 DEF Owes, Top
  <1> HIDE DEF f, g
  <1>5. f.rule \in RuleIds /\ Rules[f.rule].actions \in Seq(States \cup {Update})
    BY <1>2, RuleFacts DEF Runs
  <1>6. f.target = Rules[f.rule].on
    BY <1>2, <1>5 DEF Runs
  <1>7. Runs(g)
    BY <1>3, <1>5, <1>6 DEF Runs
  <1>8. \A i \in RuleIds : FrameOwes(g, i) <=> FrameOwes(f, i)
    BY <1>2, <1>3 DEF FrameOwes
  <1> QED
    BY <1>1, <1>3, <1>4, <1>7, <1>8, DispatchKeeps

(* The rule's last action moves the record on: nothing that is ahead is on  *)
(* the rule's state or on the one moved to.                                *)
LEMMA TransitionKeeps ==
  ASSUME TransitionsLast, TypeOK, NEW r \in Requests, Nested(call[r], stack[r]),
         RunTransition(r)
  PROVE  Keeps(r)
  <1> DEFINE f == Top(r)
             to == Rules[f.rule].actions[f.action]
             g == [f EXCEPT !.target = to]
  <1>1. /\ stack'[r] = Append(Front(stack[r]), g) /\ call'[r].step = "read"
        /\ stack[r] # <<>> /\ call[r].step = "dispatch" /\ stack[r] \in Seq(Frame)
        /\ to \in States
    BY DEF RunTransition, AtAction, Actions, SetTop, TypeOK, Call
  <1>2. f \in Frame /\ Runs(f) /\ f.action > 0 /\ f.action \in DOMAIN Rules[f.rule].actions
    BY <1>1, TopType DEF Nested, Top, RunTransition, AtAction, Actions, TypeOK
  <1>3. \A i \in RuleIds : Owes(call[r], stack[r], i) <=> FrameOwes(f, i)
    BY <1>1 DEF Owes, Top
  <1>4. f.rule \in RuleIds /\ Rules[f.rule].actions \in Seq(States \cup {Update})
    BY <1>2, RuleFacts DEF Runs
  <1>5. f.target = Rules[f.rule].on
    BY <1>2, <1>4 DEF Runs
  <1>6. /\ f.action = Len(Rules[f.rule].actions)
        /\ \A i \in RuleIds : i > f.rule => Rules[i].on \notin {f.target, to}
    BY <1>1, <1>2, <1>4, <1>5 DEF TransitionsLast
  <1>7. g \in Frame /\ g.target = to /\ g.rule = f.rule /\ g.action = f.action
    BY <1>1, <1>2, FrameFacts DEF Frame
  <1>8. f.rule \in Nat /\ f.action \in Nat
    BY <1>2 DEF Frame
  <1> HIDE DEF f, g, to
  <1>9. Waits(g)
    BY <1>2, <1>4, <1>6, <1>7 DEF Waits
  <1>10. \A i \in RuleIds : ~FrameOwes(f, i) /\ ~FrameOwes(g, i)
    BY <1>2, <1>6, <1>7, <1>8, RuleFacts DEF FrameOwes
  <1>11. /\ stack'[r] # <<>> /\ Last(stack'[r]) = g
         /\ \A n \in 1..(Len(stack'[r]) - 1) : Waits(stack'[r][n])
    BY <1>1, <1>7, TopReplaced DEF Nested
  <1> QED
    BY <1>1, <1>3, <1>9, <1>10, <1>11 DEF Keeps, Nested, Owes

LEMMA EndKeeps ==
  ASSUME TypeOK, NEW r \in Requests, Nested(call[r], stack[r]), EndRule(r)
  PROVE  Keeps(r)
  <1> DEFINE f == Top(r)
             g == [f EXCEPT !.rule = @ + 1, !.action = 0]
  <1>1. /\ stack'[r] = Append(Front(stack[r]), g) /\ call'[r].step = "dispatch"
        /\ stack[r] # <<>> /\ call[r].step = "dispatch" /\ f.action > 0
    BY DEF EndRule, SetTop, TypeOK
  <1>2. f \in Frame
    BY <1>1, TopType DEF TypeOK
  <1>3. /\ g \in Frame /\ g.target = f.target /\ g.rule = f.rule + 1 /\ g.action = 0
        /\ f.action \in Nat /\ f.rule \in Nat
    BY <1>2, FrameFacts DEF Frame
  <1>4. \A i \in RuleIds : Owes(call[r], stack[r], i) <=> FrameOwes(f, i)
    BY <1>1 DEF Owes, Top
  <1> HIDE DEF f, g
  <1>5. Runs(g)
    BY <1>3 DEF Runs
  <1>6. \A i \in RuleIds : FrameOwes(g, i) <=> FrameOwes(f, i)
    <2> SUFFICES ASSUME NEW i \in RuleIds PROVE FrameOwes(g, i) <=> FrameOwes(f, i)
      OBVIOUS
    <2>1. i \in Nat
      BY RuleFacts
    <2> QED
      BY <1>1, <1>3, <2>1 DEF FrameOwes
  <1> QED
    BY <1>1, <1>3, <1>4, <1>5, <1>6, DispatchKeeps

(* The innermost call returns: it owes nothing, and the one it goes back to *)
(* has made its transition.                                                *)
LEMMA ReturnKeeps ==
  ASSUME TypeOK, NEW r \in Requests, Nested(call[r], stack[r]), Return(r)
  PROVE  Keeps(r)
  <1>0. stack[r] \in Seq(Frame) /\ stack[r] # <<>> /\ call[r].step = "dispatch"
    BY DEF Return, TypeOK
  <1>1. \A i \in RuleIds : ~Owes(call[r], stack[r], i)
    <2> SUFFICES ASSUME NEW i \in RuleIds, FrameOwes(Top(r), i) PROVE FALSE
      BY <1>0 DEF Owes, Top
    <2>1. Top(r).target = Rules[i].on /\ (Top(r).rule < i \/ Top(r).rule = i)
      BY DEF FrameOwes
    <2>2. i \in Nat /\ Top(r).rule \in Nat
      BY <1>0, TopType, RuleFacts DEF Frame, TypeOK
    <2>3. i \in Matching(Top(r))
      BY <2>1, <2>2 DEF Matching
    <2> QED
      BY <2>3 DEF Return
  <1>2. CASE Len(stack[r]) = 1
    <2>1. stack'[r] = <<>> /\ call'[r].step = "done"
      BY <1>2 DEF Return, Step, TypeOK, Call
    <2> QED
      BY <1>1, <2>1 DEF Keeps, Nested, Owes
  <1>3. CASE Len(stack[r]) > 1
    <2>0. Len(stack[r]) # 1
      <3>1. \A n \in Nat : n > 1 => n # 1
        OBVIOUS
      <3> QED
        BY <1>0, <1>3, <3>1
    <2> DEFINE s == Front(stack[r])
               f == Last(s)
               g == [f EXCEPT !.action = @ + 1]
    <2>1. stack'[r] = Append(Front(s), g) /\ call'[r].step = "dispatch"
      <3>1. stack' = [stack EXCEPT ![r] = Resumed(Front(@))] /\ call' = call
        BY <2>0 DEF Return
      <3>2. stack'[r] = Resumed(s)
        BY <3>1 DEF TypeOK
      <3> QED
        BY <1>0, <3>1, <3>2 DEF Resumed
    <2>2. s \in Seq(Frame) /\ s # <<>>
      BY <1>0, <1>3, FrontFacts
    <2>3. Len(s) = Len(stack[r]) - 1 /\ \A n \in 1..Len(s) : s[n] = stack[r][n]
      BY <1>0, <1>3 DEF Front
    <2>4. \A n \in 1..Len(s) : Waits(s[n])
      BY <2>3 DEF Nested
    <2> HIDE DEF s
    <2>5. f \in Frame /\ Waits(f)
      BY <2>2, <2>4 DEF Last
    <2>6. /\ g \in Frame /\ Runs(g)
          /\ \A i \in RuleIds : ~FrameOwes(g, i)
      BY <2>5, WaitsResumed
    <2> HIDE DEF f, g
    <2>7. \A n \in 1..(Len(s) - 1) : Waits(s[n])
      BY <2>2, <2>4
    <2>8. /\ stack'[r] # <<>> /\ Last(stack'[r]) = g
          /\ \A n \in 1..(Len(stack'[r]) - 1) : Waits(stack'[r][n])
      BY <2>1, <2>2, <2>6, <2>7, TopReplaced
    <2> QED
      BY <1>1, <2>1, <2>6, <2>8 DEF Keeps, Nested, Owes
  <1> QED
    BY <1>2, <1>3 DEF Return

-----------------------------------------------------------------------------
(* The compare-and-swap that succeeds leaves every rule of the state entered *)
(* owed, and no other.                                                     *)
LEMMA CasOwes ==
  ASSUME TypeOK, NEW r \in Requests, Nested(call[r], stack[r]), call[r].step = "cas",
         Step(r, "fresh"), UNCHANGED stack
  PROVE  /\ Nested(call'[r], stack'[r])
         /\ \A i \in RuleIds : /\ ~Owes(call[r], stack[r], i)
                               /\ Owes(call'[r], stack'[r], i) <=> call[r].want = Rules[i].on
  <1>1. /\ stack'[r] = stack[r] /\ call'[r].step = "fresh" /\ call'[r].want = call[r].want
        /\ stack[r] \in Seq(Frame)
    BY DEF Step, TypeOK, Call
  <1>2. ASSUME NEW i \in RuleIds PROVE ~Owes(call[r], stack[r], i)
    <2>1. stack[r] # <<>> => Waits(Last(stack[r])) /\ Last(stack[r]) \in Frame
      BY <1>1, StackFacts DEF Nested
    <2> QED
      BY <2>1, WaitsResumed DEF Owes
  <1>3. \A i \in RuleIds : Owes(call'[r], stack'[r], i) <=> call[r].want = Rules[i].on
    BY <1>1 DEF Owes
  <1>4. Nested(call'[r], stack'[r])
    BY <1>1 DEF Nested
  <1> QED
    BY <1>2, <1>3, <1>4

(* The dispatch that follows owes the same rules. *)
LEMMA FreshKeeps ==
  ASSUME TypeOK, NEW r \in Requests, Nested(call[r], stack[r]), call[r].step = "fresh",
         Step(r, "dispatch"),
         stack' = [stack EXCEPT ![r] =
                     Append(@, [target |-> call[r].want, rule |-> 1, action |-> 0])]
  PROVE  Keeps(r)
  <1> DEFINE f == [target |-> call[r].want, rule |-> 1, action |-> 0]
  <1>1. /\ stack'[r] = Append(stack[r], f) /\ call'[r].step = "dispatch"
        /\ stack[r] \in Seq(Frame) /\ f \in Frame
    BY DEF Step, TypeOK, Call, Frame
  <1>2. Runs(f) /\ \A i \in RuleIds : FrameOwes(f, i) <=> call[r].want = Rules[i].on
    <2>1. \A i \in RuleIds : 1 < i \/ 1 = i
      BY RuleFacts
    <2> QED
      BY <2>1 DEF Runs, FrameOwes
  <1> HIDE DEF f
  <1>3. /\ \A n \in 1..(Len(stack[r]) - 1) : Waits(stack[r][n])
        /\ stack[r] # <<>> => Waits(Last(stack[r]))
    BY DEF Nested
  <1>4. /\ stack'[r] # <<>> /\ Last(stack'[r]) = f
        /\ \A n \in 1..(Len(stack'[r]) - 1) : Waits(stack'[r][n])
    BY <1>1, <1>3, TopPushed
  <1> QED
    BY <1>1, <1>2, <1>4 DEF Keeps, Nested, Owes

(* The first rule ahead is run, and it alone is owed no longer. *)
LEMMA MatchOwes ==
  ASSUME TypeOK, NEW r \in Requests, Nested(call[r], stack[r]), Match(r)
  PROVE  /\ Nested(call'[r], stack'[r])
         /\ \E i \in RuleIds :
              /\ fired' = [fired EXCEPT ![i] = @ + 1]
              /\ Owes(call[r], stack[r], i) /\ ~Owes(call'[r], stack'[r], i)
              /\ \A k \in RuleIds \ {i} :
                   Owes(call'[r], stack'[r], k) <=> Owes(call[r], stack[r], k)
  <1> DEFINE f == Top(r)
  <1>1. PICK i \in Matching(f) :
          /\ \A k \in Matching(f) : i <= k
          /\ SetTop(r, [f EXCEPT !.rule = i, !.action = 1])
          /\ fired' = [fired EXCEPT ![i] = @ + 1]
    BY DEF Match
  <1> DEFINE g == [f EXCEPT !.rule = i, !.action = 1]
  <1>2. /\ stack'[r] = Append(Front(stack[r]), g) /\ call' = call
        /\ stack[r] # <<>> /\ call[r].step = "dispatch" /\ f.action = 0
        /\ stack[r] \in Seq(Frame)
    BY <1>1 DEF Match, SetTop, TypeOK
  <1>3. f \in Frame
    BY <1>2, TopType DEF TypeOK
  <1>4. i \in RuleIds /\ i \in Nat \ {0} /\ f.rule \in Nat /\ f.target = Rules[i].on /\ f.rule <= i
    BY <1>3, RuleFacts DEF Matching, Frame
  <1>5. g \in Frame /\ g.target = f.target /\ g.rule = i /\ g.action = 1
    BY <1>3, <1>4, FrameFacts DEF Frame
  <1>6. ASSUME NEW k \in RuleIds
        PROVE  /\ FrameOwes(f, k) <=> k \in Matching(f)
               /\ FrameOwes(g, k) <=> k \in Matching(f) /\ k # i
    <2>1. k \in Nat
      BY RuleFacts
    <2>2. k \in Matching(f) <=> f.target = Rules[k].on /\ f.rule <= k
      BY <1>4, <2>1 DEF Matching
    <2>3. k \in Matching(f) => i <= k
      BY <1>1
    <2> HIDE DEF f, g
    <2>4. FrameOwes(f, k) <=> k \in Matching(f)
      BY <1>2, <1>4, <2>1, <2>2 DEF FrameOwes
    <2>5. FrameOwes(g, k) <=> f.target = Rules[k].on /\ i < k
      BY <1>5, <2>1 DEF FrameOwes
    <2> QED
      BY <1>4, <2>1, <2>2, <2>3, <2>4, <2>5
  <1>7. \A k \in RuleIds : Owes(call[r], stack[r], k) <=> FrameOwes(f, k)
    BY <1>2 DEF Owes, Top
  <1> HIDE DEF f, g
  <1>8. Runs(g)
    <2>1. Rules[i].actions \in Seq(States \cup {Update})
      BY <1>4, RuleFacts
    <2> QED
      BY <1>4, <1>5, <2>1 DEF Runs
  <1>9. /\ stack'[r] # <<>> /\ Last(stack'[r]) = g
        /\ \A n \in 1..(Len(stack'[r]) - 1) : Waits(stack'[r][n])
    BY <1>2, <1>5, TopReplaced DEF Nested
  <1>10. Nested(call'[r], stack'[r])
    BY <1>2, <1>8, <1>9 DEF Nested
  <1>11. \A k \in RuleIds : Owes(call'[r], stack'[r], k) <=> FrameOwes(g, k)
    BY <1>2, <1>9 DEF Owes
  <1>12. i \in Matching(f)
    BY <1>1
  <1> QED
    BY <1>1, <1>4, <1>6, <1>7, <1>10, <1>11, <1>12

-----------------------------------------------------------------------------
LEMMA NestedNext ==
  ASSUME TransitionsLast, TypeOK, NestedInv, [Next]_vars
  PROVE  NestedInv'
  <1>1. ASSUME NEW r \in Requests, Proceed(r) \/ \E s \in States : Request(r, s),
               Nested(call'[r], stack'[r])
        PROVE  NestedInv'
    BY <1>1, Elsewhere DEF NestedInv
  <1>2. ASSUME NEW r \in Requests, Proceed(r) \/ \E s \in States : Request(r, s)
        PROVE  Nested(call'[r], stack'[r])
    <2>0. Nested(call[r], stack[r])
      BY DEF NestedInv
    <2>1. CASE \E s \in States : Request(r, s)
      BY <2>0, <2>1, RequestKeeps DEF Keeps
    <2>2. CASE Read(r)
      BY <2>0, <2>2, ReadKeeps DEF Keeps
    <2>3. CASE Cas(r)
      BY <2>0, <2>3, AbandonKeeps, CasOwes DEF Cas, Keeps
    <2>4. CASE Fresh(r)
      <3>1. CASE stack[r] = <<>> /\ Step(r, "done") /\ UNCHANGED stack
        BY <3>1 DEF Nested, Step, TypeOK, Call
      <3> QED
        BY <2>0, <2>4, <3>1, FreshKeeps DEF Fresh, Keeps
    <2>5. CASE Match(r)
      BY <2>0, <2>5, MatchOwes
    <2>6. CASE RunUpdate(r) \/ RunTransition(r)
      BY <2>0, <2>6, UpdateKeeps, TransitionKeeps DEF Keeps
    <2>7. CASE EndRule(r) \/ Return(r)
      BY <2>0, <2>7, EndKeeps, ReturnKeeps DEF Keeps
    <2> QED
      BY <1>2, <2>1, <2>2, <2>3, <2>4, <2>5, <2>6, <2>7 DEF Proceed
  <1>3. CASE Delete \/ Quiescent \/ UNCHANGED vars
    BY <1>3 DEF Delete, Quiescent, vars, NestedInv
  <1> QED
    BY <1>1, <1>2, <1>3 DEF Next

(* Who owes a rule a run, after a step of one request.                      *)
LEMMA OwingStep ==
  ASSUME TypeOK, NEW r \in Requests, Proceed(r) \/ \E s \in States : Request(r, s),
         NEW i \in RuleIds
  PROVE  Owing(i)' = IF Owes(call'[r], stack'[r], i) THEN Owing(i) \cup {r} ELSE Owing(i) \ {r}
  <1>1. \A q \in Requests \ {r} : Owes(call'[q], stack'[q], i) <=> Owes(call[q], stack[q], i)
    BY Elsewhere
  <1>2. Owing(i)' = {q \in Requests : Owes(call'[q], stack'[q], i)}
    BY DEF Owing
  <1> QED
    BY <1>1, <1>2 DEF Owing

LEMMA CountNext ==
  ASSUME TransitionsLast, TypeOK, NestedInv, CountInv, [Next]_vars
  PROVE  CountInv'
  <1>0. /\ call \in [Requests -> Call] /\ entered \in [States -> Nat]
        /\ fired \in [RuleIds -> Nat] /\ state \in States \cup {Gone}
        /\ stack \in [Requests -> Seq(Frame)]
    BY DEF TypeOK
  <1>1. ASSUME NEW i \in RuleIds
        PROVE  /\ Rules[i].on \in States /\ IsFiniteSet(Owing(i)) /\ Cardinality(Owing(i)) \in Nat
               /\ fired[i] \in Nat /\ entered[Rules[i].on] \in Nat
               /\ \A r \in Requests :
                    /\ r \notin Owing(i) =>
                         /\ IsFiniteSet(Owing(i) \cup {r})
                         /\ Cardinality(Owing(i) \cup {r}) = Cardinality(Owing(i)) + 1
                    /\ r \in Owing(i) =>
                         /\ IsFiniteSet(Owing(i) \ {r})
                         /\ Cardinality(Owing(i) \ {r}) = Cardinality(Owing(i)) - 1
    BY <1>0, RuleFacts, FS_AddElement, FS_RemoveElement, FS_CardinalityType DEF CountInv
  <1>2. ASSUME UNCHANGED <<entered, fired>>, state' # Gone => state # Gone,
               \A i \in RuleIds : Owing(i)' = Owing(i)
        PROVE  CountInv'
    BY <1>2 DEF CountInv
  <1>3. ASSUME NEW r \in Requests, Proceed(r) \/ \E s \in States : Request(r, s), Keeps(r),
               UNCHANGED <<entered, fired, state>>
        PROVE  CountInv'
    <2>1. ASSUME NEW i \in RuleIds PROVE Owing(i)' = Owing(i)
      BY <1>3, OwingStep DEF Keeps, Owing
    <2> QED
      BY <1>2, <1>3, <2>1
  <1>4. ASSUME NEW r \in Requests, Proceed(r) \/ \E s \in States : Request(r, s)
        PROVE  CountInv'
    <2>0. Nested(call[r], stack[r])
      BY DEF NestedInv
    <2>1. CASE \E s \in States : Request(r, s)
      <3>1. UNCHANGED <<entered, fired, state>>
        BY <2>1 DEF Request
      <3> QED
        BY <1>3, <1>4, <2>0, <2>1, <3>1, RequestKeeps
    <2>2. CASE Read(r)
      <3>1. UNCHANGED <<entered, fired, state>>
        BY <2>2 DEF Read
      <3> QED
        BY <1>3, <1>4, <2>0, <2>2, <3>1, ReadKeeps
    <2>3. CASE Cas(r)
      <3>1. CASE state # call[r].expected
        <4>1. UNCHANGED <<entered, fired, state>> /\ Abandon(r) /\ call[r].step = "cas"
          BY <2>3, <3>1 DEF Cas
        <4> QED
          BY <1>3, <1>4, <2>0, <4>1, AbandonKeeps
      <3>2. CASE state = call[r].expected
        <4>1. /\ state' = call[r].want /\ Step(r, "fresh") /\ UNCHANGED <<stack, fired>>
              /\ entered' = [entered EXCEPT ![call[r].want] = @ + 1] /\ call[r].step = "cas"
          BY <2>3, <3>2 DEF Cas
        <4>2. call[r].want \in States /\ state # Gone
          BY <1>0, <3>2, RuleBookAssumption DEF Call
        <4>3. \A i \in RuleIds : /\ ~Owes(call[r], stack[r], i)
                                 /\ Owes(call'[r], stack'[r], i) <=> call[r].want = Rules[i].on
          BY <2>0, <4>1, CasOwes
        <4> SUFFICES ASSUME NEW i \in RuleIds
                     PROVE  /\ IsFiniteSet(Owing(i))'
                            /\ fired'[i] + Cardinality(Owing(i))' = entered'[Rules[i].on]
                            /\ entered'[Rules[i].on] \in Nat
          BY DEF CountInv
        <4>4. r \notin Owing(i) /\ fired[i] + Cardinality(Owing(i)) = entered[Rules[i].on]
          BY <4>2, <4>3 DEF Owing, CountInv
        <4>5. CASE call[r].want = Rules[i].on
          <5>1. Owing(i)' = Owing(i) \cup {r}
            BY <1>4, <4>3, <4>5, OwingStep
          <5>2. fired'[i] = fired[i] /\ entered'[Rules[i].on] = entered[Rules[i].on] + 1
            BY <1>0, <4>1, <4>2, <4>5
          <5> QED
            BY <1>1, <4>4, <5>1, <5>2
        <4>6. CASE call[r].want # Rules[i].on
          <5>0. ~Owes(call'[r], stack'[r], i)
            BY <4>3, <4>6
          <5>1. Owing(i)' = Owing(i)
            BY <1>4, <4>4, <5>0, OwingStep
          <5>2. fired'[i] = fired[i] /\ entered'[Rules[i].on] = entered[Rules[i].on]
            BY <1>0, <1>1, <4>1, <4>2, <4>6
          <5> QED
            BY <1>1, <4>4, <5>1, <5>2
        <4> QED
          BY <4>5, <4>6
      <3> QED
        BY <3>1, <3>2
    <2>4. CASE Fresh(r)
      <3>0. UNCHANGED <<entered, fired, state>> /\ call[r].step = "fresh"
        BY <2>4 DEF Fresh
      <3>1. CASE /\ Step(r, "dispatch")
                 /\ stack' = [stack EXCEPT ![r] =
                      Append(@, [target |-> call[r].want, rule |-> 1, action |-> 0])]
        BY <1>3, <1>4, <2>0, <3>0, <3>1, FreshKeeps
      <3>2. CASE state = Gone /\ stack[r] = <<>> /\ Step(r, "done") /\ UNCHANGED stack
        <4>1. \A i \in RuleIds : ~Owes(call'[r], stack'[r], i)
          BY <1>0, <3>2 DEF Owes, Step, Call
        <4> SUFFICES ASSUME NEW i \in RuleIds
                     PROVE  /\ IsFiniteSet(Owing(i))'
                            /\ fired[i] + Cardinality(Owing(i))' <= entered[Rules[i].on]
          BY <3>0, <3>2 DEF CountInv
        <4>2. Owing(i)' = Owing(i) \ {r}
          BY <1>4, <4>1, OwingStep
        <4>3. fired[i] + Cardinality(Owing(i)) <= entered[Rules[i].on]
          BY DEF CountInv
        <4>4. CASE r \in Owing(i)
          BY <1>1, <4>2, <4>3, <4>4
        <4>5. CASE r \notin Owing(i)
          <5>1. Owing(i)' = Owing(i)
            BY <4>2, <4>5
          <5> QED
            BY <1>1, <4>3, <5>1
        <4> QED
          BY <4>4, <4>5
      <3> QED
        BY <2>4, <3>1, <3>2 DEF Fresh
    <2>5. CASE Match(r)
      <3>1. PICK k \in RuleIds :
              /\ fired' = [fired EXCEPT ![k] = @ + 1]
              /\ Owes(call[r], stack[r], k) /\ ~Owes(call'[r], stack'[r], k)
              /\ \A i \in RuleIds \ {k} :
                   Owes(call'[r], stack'[r], i) <=> Owes(call[r], stack[r], i)
        BY <2>0, <2>5, MatchOwes
      <3>2. UNCHANGED <<state, entered>>
        BY <2>5 DEF Match
      <3> SUFFICES ASSUME NEW i \in RuleIds
                   PROVE  /\ IsFiniteSet(Owing(i))'
                          /\ fired'[i] + Cardinality(Owing(i))' = fired[i] + Cardinality(Owing(i))
        BY <3>2 DEF CountInv
      <3>3. CASE i = k
        <4>0. Owes(call[r], stack[r], i) /\ ~Owes(call'[r], stack'[r], i)
          BY <3>1, <3>3
        <4>1. r \in Owing(i) /\ Owing(i)' = Owing(i) \ {r}
          BY <1>4, <4>0, OwingStep DEF Owing
        <4>2. fired'[i] = fired[i] + 1
          BY <1>0, <3>1, <3>3
        <4>3. IsFiniteSet(Owing(i))'
          BY <1>1, <4>1
        <4>4. /\ Cardinality(Owing(i))' = Cardinality(Owing(i)) - 1
              /\ fired[i] \in Nat /\ Cardinality(Owing(i)) \in Nat
          BY <1>1, <4>1
        <4> QED
          BY <4>2, <4>3, <4>4
      <3>4. CASE i # k
        <4>1. Owing(i)' = Owing(i)
          BY <1>4, <3>1, <3>4, OwingStep DEF Owing
        <4>2. fired'[i] = fired[i]
          BY <1>0, <3>1, <3>4
        <4> QED
          BY <1>1, <4>1, <4>2
      <3> QED
        BY <3>3, <3>4
    <2>6. CASE RunUpdate(r) \/ RunTransition(r)
      <3>1. UNCHANGED <<entered, fired, state>>
        BY <2>6 DEF RunUpdate, RunTransition
      <3> QED
        BY <1>3, <1>4, <2>0, <2>6, <3>1, UpdateKeeps, TransitionKeeps
    <2>7. CASE EndRule(r) \/ Return(r)
      <3>1. UNCHANGED <<entered, fired, state>>
        BY <2>7 DEF EndRule, Return
      <3> QED
        BY <1>3, <1>4, <2>0, <2>7, <3>1, EndKeeps, ReturnKeeps
    <2> QED
      BY <1>4, <2>1, <2>2, <2>3, <2>4, <2>5, <2>6, <2>7 DEF Proceed
  <1>5. CASE Delete \/ Quiescent \/ UNCHANGED vars
    <2>1. UNCHANGED <<entered, fired, call, stack>> /\ (state' # Gone => state # Gone)
      BY <1>5 DEF Delete, Quiescent, vars
    <2>2. \A i \in RuleIds : Owing(i)' = Owing(i)
      BY <2>1 DEF Owing
    <2> QED
      BY <1>2, <2>1, <2>2
  <1> QED
    BY <1>4, <1>5 DEF Next

LEMMA CountCorrect ==
  ASSUME TransitionsLast PROVE Spec => [](TypeOK /\ NestedInv /\ CountInv)
  <1>1. Init => NestedInv /\ CountInv
    <2> SUFFICES ASSUME Init PROVE NestedInv /\ CountInv
      OBVIOUS
    <2>1. NestedInv
      BY DEF Init, NestedInv, Nested
    <2>2. ASSUME NEW i \in RuleIds
          PROVE  /\ IsFiniteSet(Owing(i)) /\ fired[i] + Cardinality(Owing(i)) = 0
                 /\ entered[Rules[i].on] = 0
      <3>1. Owing(i) = {}
        BY DEF Init, Owing, Owes
      <3> QED
        BY <2>2, <3>1, RuleFacts, FS_EmptySet DEF Init
    <2> QED
      BY <2>1, <2>2 DEF CountInv
  <1>2. TypeOK /\ NestedInv /\ CountInv /\ [Next]_vars => NestedInv' /\ CountInv'
    BY NestedNext, CountNext
  <1> QED
    BY <1>1, <1>2, TypeInit, TypeNext, PTL DEF Spec

(* Where the rules are in a harmless order, no rule is forgotten: when all  *)
(* requests have been answered and the record is still there, each rule has *)
(* run once for each entry into its state, however transitions race and     *)
(* cascade (app.py::run_state_entered_event_handlers).                     *)
THEOREM OnceEachCorrect == ASSUME TransitionsLast PROVE Spec => []FiresExactlyOnce
  <1>1. TypeOK /\ NestedInv /\ CountInv => FiresExactlyOnce
    <2> SUFFICES ASSUME TypeOK, NestedInv, CountInv, state # Gone,
                        \A r \in Requests : call[r].step \in {"idle", "done"},
                        NEW i \in RuleIds
                 PROVE  fired[i] = entered[Rules[i].on]
      BY DEF FiresExactlyOnce
    <2>1. Owing(i) = {}
      BY DEF NestedInv, Nested, Owing, Owes
    <2>2. fired[i] + Cardinality(Owing(i)) = entered[Rules[i].on] /\ fired[i] \in Nat
      BY DEF CountInv, TypeOK
    <2> QED
      BY <2>1, <2>2, FS_EmptySet
  <1> QED
    BY <1>1, CountCorrect, PTL

(* In that order no rule ever runs more often than its state was entered    *)
(* ("at most once per (record, target_state) entry", routes.py): what the   *)
(* other orders break.                                                     *)
THEOREM AtMostOnceCorrect == ASSUME TransitionsLast PROVE Spec => []FiresAtMostOnce
  <1>1. TypeOK /\ CountInv => FiresAtMostOnce
    <2> SUFFICES ASSUME TypeOK, CountInv, NEW i \in RuleIds
                 PROVE  fired[i] <= entered[Rules[i].on]
      BY DEF FiresAtMostOnce
    <2>1. /\ fired[i] + Cardinality(Owing(i)) <= entered[Rules[i].on] /\ fired[i] \in Nat
          /\ Cardinality(Owing(i)) \in Nat /\ entered[Rules[i].on] \in Nat
      BY RuleFacts, FS_CardinalityType DEF CountInv, TypeOK
    <2> QED
      BY <2>1
  <1> QED
    BY <1>1, CountCorrect, PTL
=============================================================================
