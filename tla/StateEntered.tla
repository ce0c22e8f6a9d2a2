---------------------------- MODULE StateEntered ----------------------------
(***************************************************************************)
(* State transitions of one record and the state-entered When-rules they   *)
(* set off (transitions.py::generic_transition, routes.py::transition_route,*)
(* app.py::run_state_entered_event_handlers).                              *)
(*                                                                         *)
(* A request moves the record with a read and a compare-and-swap, reads it *)
(* afresh and dispatches the rules declared for the state it named.  A     *)
(* rule's Transition action does the same thing from inside the dispatch,  *)
(* with a recursive call for the state it enters.  Every storage call is   *)
(* awaited, so requests interleave at each of them.                        *)
(*                                                                         *)
(* The dispatcher keeps the state it matches rules against in its          *)
(* parameter target_state, and the Transition action assigns the state it  *)
(* moves to to that same variable: the loop over the remaining rules goes  *)
(* on with the new value.  `target` of a frame is that variable.           *)
(***************************************************************************)
EXTENDS Naturals, Sequences, SequencesExt

CONSTANTS
  Requests,    \* transition requests, one call each
  States,      \* the states of the machine
  Initial,     \* the state the record starts in
  Declared,    \* the transitions the machine declares
  Rules,       \* state-entered rules in source order: [on, actions]
  Update,      \* an action that leaves the state column alone
  Gone,        \* the record does not exist
  MayDelete    \* whether the record may be deleted while requests run

RuleIds == DOMAIN Rules

ASSUME RuleBookAssumption ==
  /\ Initial \in States
  /\ Declared \subseteq States \X States
  /\ MayDelete \in BOOLEAN
  /\ Update \notin States /\ Gone \notin States
  /\ Rules \in Seq([on : States, actions : Seq(States \cup {Update})])

VARIABLES
  state,     \* the machine's column of the record, or Gone
  call,      \* each request: where it is and what its transition wants
  stack,     \* each request's nested dispatcher calls, innermost last
  \* History, read by the properties only:
  entered,   \* how often each state was entered
  fired      \* how often each rule was run

vars == <<state, call, stack, entered, fired>>

Frame == [target : States, rule : Nat, action : Nat]

Call == [step : {"idle", "read", "cas", "fresh", "dispatch", "done"},
         want : States, expected : States]

TypeOK ==
  /\ state \in States \cup {Gone}
  /\ call \in [Requests -> Call]
  /\ stack \in [Requests -> Seq(Frame)]
  /\ entered \in [States -> Nat]
  /\ fired \in [RuleIds -> Nat]

Init ==
  /\ state = Initial
  /\ call = [r \in Requests |-> [step |-> "idle", want |-> Initial, expected |-> Initial]]
  /\ stack = [r \in Requests |-> <<>>]
  /\ entered = [s \in States |-> 0]
  /\ fired = [i \in RuleIds |-> 0]

-----------------------------------------------------------------------------
Top(r) == Last(stack[r])

SetTop(r, frame) == stack' = [stack EXCEPT ![r] = Append(Front(@), frame)]

Step(r, s) == call' = [call EXCEPT ![r].step = s]

(* The action at hand is over: the loop goes on with the next one. *)
NextAction(r) ==
  /\ SetTop(r, [Top(r) EXCEPT !.action = @ + 1])
  /\ Step(r, "dispatch")

(* Variant: a transition that was refused is tried again. *)
AbandonRetry(r) == Step(r, "read") /\ UNCHANGED stack

(* do_state_transition raised: a request reports it, a rule's action logs  *)
(* it and is skipped.                                                      *)
Abandon(r) ==
  \/ /\ stack[r] = <<>>
     /\ Step(r, "done")
     /\ UNCHANGED stack
  \/ /\ stack[r] # <<>>
     /\ NextAction(r)

(* The route is called for a state of the machine. *)
Request(r, target) ==
  /\ call[r].step = "idle"
  /\ call' = [call EXCEPT ![r].step = "read", ![r].want = target]
  /\ UNCHANGED <<state, stack, entered, fired>>

(* do_state_transition reads the record; the machine must declare the      *)
(* transition from the state found.                                        *)
Read(r) ==
  /\ call[r].step = "read"
  /\ \/ /\ <<state, call[r].want>> \in Declared
        /\ call' = [call EXCEPT ![r].step = "cas", ![r].expected = state]
        /\ UNCHANGED stack
     \/ /\ <<state, call[r].want>> \notin Declared
        /\ Abandon(r)
  /\ UNCHANGED <<state, entered, fired>>

(* Variant: the write does not repeat the check on the state column. *)
CasBlind(r) ==
  /\ call[r].step = "cas"
  /\ \/ /\ state # Gone
        /\ state' = call[r].want
        /\ entered' = [entered EXCEPT ![call[r].want] = @ + 1]
        /\ Step(r, "fresh")
        /\ UNCHANGED stack
     \/ /\ state = Gone
        /\ Abandon(r)
        /\ UNCHANGED <<state, entered>>
  /\ UNCHANGED fired

(* update_if: UPDATE ... WHERE id = ? AND state = expected. *)
Cas(r) ==
  /\ call[r].step = "cas"
  /\ \/ /\ state = call[r].expected
        /\ state' = call[r].want
        /\ entered' = [entered EXCEPT ![call[r].want] = @ + 1]
        /\ Step(r, "fresh")
        /\ UNCHANGED stack
     \/ /\ state # call[r].expected
        /\ Abandon(r)
        /\ UNCHANGED <<state, entered>>
  /\ UNCHANGED fired

(* Variant: the dispatcher is called for the state found in the fresh row. *)
FreshFromRow(r) ==
  /\ call[r].step = "fresh"
  /\ stack' = [stack EXCEPT ![r] =
                 Append(@, [target |-> state, rule |-> 1, action |-> 0])]
  /\ Step(r, "dispatch")
  /\ UNCHANGED <<state, entered, fired>>

(* The record is read again and the dispatcher is called for the state     *)
(* entered.  The per-content route dispatches nothing when the row is gone.*)
Fresh(r) ==
  /\ call[r].step = "fresh"
  /\ \/ /\ stack' = [stack EXCEPT ![r] =
                       Append(@, [target |-> call[r].want, rule |-> 1, action |-> 0])]
        /\ Step(r, "dispatch")
     \/ /\ state = Gone /\ stack[r] = <<>>
        /\ Step(r, "done")
        /\ UNCHANGED stack
  /\ UNCHANGED <<state, entered, fired>>

Matching(frame) == {i \in RuleIds : i >= frame.rule /\ Rules[i].on = frame.target}

(* The loop skips to the next rule whose state is target_state and runs it.*)
Match(r) ==
  /\ call[r].step = "dispatch"
  /\ stack[r] # <<>> /\ Top(r).action = 0
  /\ \E i \in Matching(Top(r)) :
       /\ \A k \in Matching(Top(r)) : i <= k
       /\ SetTop(r, [Top(r) EXCEPT !.rule = i, !.action = 1])
       /\ fired' = [fired EXCEPT ![i] = @ + 1]
  /\ UNCHANGED <<state, call, entered>>

(* The innermost of these calls has made its transition and goes on. *)
Resumed(frames) == Append(Front(frames), [Last(frames) EXCEPT !.action = @ + 1])

(* No rule is left: the innermost dispatcher call returns, to the          *)
(* Transition action that made it or to the route.                         *)
Return(r) ==
  /\ call[r].step = "dispatch"
  /\ stack[r] # <<>> /\ Top(r).action = 0 /\ Matching(Top(r)) = {}
  /\ \/ /\ Len(stack[r]) = 1
        /\ stack' = [stack EXCEPT ![r] = <<>>]
        /\ Step(r, "done")
     \/ /\ Len(stack[r]) > 1
        /\ stack' = [stack EXCEPT ![r] = Resumed(Front(@))]
        /\ UNCHANGED call
  /\ UNCHANGED <<state, entered, fired>>

Actions(r) == Rules[Top(r).rule].actions

AtAction(r) ==
  /\ call[r].step = "dispatch"
  /\ stack[r] # <<>> /\ Top(r).action > 0
  /\ Top(r).action \in DOMAIN Actions(r)

(* An Update action patches other columns of the record. *)
RunUpdate(r) ==
  /\ AtAction(r) /\ Actions(r)[Top(r).action] = Update
  /\ NextAction(r)
  /\ UNCHANGED <<state, entered, fired>>

(* A Transition action: target_state is overwritten before anything can    *)
(* fail, and the machine is asked for the transition.                      *)
RunTransition(r) ==
  /\ AtAction(r) /\ Actions(r)[Top(r).action] \in States
  /\ SetTop(r, [Top(r) EXCEPT !.target = Actions(r)[Top(r).action]])
  /\ call' = [call EXCEPT ![r].step = "read", ![r].want = Actions(r)[Top(r).action]]
  /\ UNCHANGED <<state, entered, fired>>

(* Variant: the loop stops at the first rule that matches. *)
EndRuleBreak(r) ==
  /\ call[r].step = "dispatch"
  /\ stack[r] # <<>> /\ Top(r).action > 0
  /\ Top(r).action > Len(Actions(r))
  /\ SetTop(r, [Top(r) EXCEPT !.rule = Len(Rules) + 1, !.action = 0])
  /\ UNCHANGED <<state, call, entered, fired>>

(* The rule's actions have run and its handler event is published. *)
EndRule(r) ==
  /\ call[r].step = "dispatch"
  /\ stack[r] # <<>> /\ Top(r).action > 0
  /\ Top(r).action > Len(Actions(r))
  /\ SetTop(r, [Top(r) EXCEPT !.rule = @ + 1, !.action = 0])
  /\ UNCHANGED <<state, call, entered, fired>>

Delete ==
  /\ MayDelete
  /\ state # Gone
  /\ state' = Gone
  /\ UNCHANGED <<call, stack, entered, fired>>

Proceed(r) ==
  \/ Read(r) \/ Cas(r) \/ Fresh(r)
  \/ Match(r) \/ RunUpdate(r) \/ RunTransition(r) \/ EndRule(r) \/ Return(r)

Quiescent ==
  /\ \A r \in Requests : call[r].step = "done"
  /\ UNCHANGED vars

Next ==
  \/ \E r \in Requests, s \in States : Request(r, s)
  \/ \E r \in Requests : Proceed(r)
  \/ Delete
  \/ Quiescent

Spec == Init /\ [][Next]_vars

(* A coroutine whose storage call has returned is resumed. *)
FairSpec == Spec /\ \A r \in Requests : WF_vars(Proceed(r))

-----------------------------------------------------------------------------
(* The column changes only along a declared transition, whatever requests  *)
(* and cascades race: the compare-and-swap refuses a state that has moved  *)
(* since it was read, and an Update never carries an old state back.       *)
StateChangesDeclared ==
  [][state' # state => state' = Gone \/ <<state, state'>> \in Declared]_vars

(* "the When-rule itself fires at most once per (record, target_state)     *)
(* entry by construction" (routes.py): no rule has run more often than its *)
(* state was entered.                                                      *)
FiresAtMostOnce == \A i \in RuleIds : fired[i] <= entered[Rules[i].on]

(* No rule is forgotten either: when all requests have been answered and   *)
(* the record is still there, each rule has run once for each entry into   *)
(* its state.                                                              *)
FiresExactlyOnce ==
  (state # Gone /\ \A r \in Requests : call[r].step \in {"idle", "done"})
    => \A i \in RuleIds : fired[i] = entered[Rules[i].on]

(* Cascades end: a request whose rules do not chase each other in a cycle  *)
(* is answered.                                                            *)
RequestCompletes ==
  \A r \in Requests : call[r].step # "idle" ~> call[r].step = "done"

(* The rule books for which the overwritten target_state is harmless: a    *)
(* rule with a Transition action is the last one for its own state, comes  *)
(* after every rule of the state it moves to, and transitions last.        *)
TransitionsLast ==
  \A i \in RuleIds : \A n \in DOMAIN Rules[i].actions :
    Rules[i].actions[n] \in States =>
      /\ n = Len(Rules[i].actions)
      /\ \A k \in RuleIds : k > i => Rules[k].on \notin {Rules[i].on, Rules[i].actions[n]}
=============================================================================
