------------------------------ MODULE EventRules ------------------------------
(***************************************************************************)
(* What a stored record sets off (app.py::run_event_handlers): the rules of *)
(* its content, run by the request itself, and the computes triggered by    *)
(* the event, each on a thread of its own (compute_runner.py), with the     *)
(* rules that follow a CEL compute.  Rules and computes work on the copy of *)
(* the record the event came with, while other requests go on.              *)
(*                                                                         *)
(* A rule's actions are the Update of the record itself ("same"), of the    *)
(* row its user owns in another content ("owner"), the creation of a record *)
(* ("insert") and the message to a channel ("send"); Append actions and     *)
(* agents are in Conversation.tla and AgentTurn.tla, rules on a state in    *)
(* StateEntered.tla.                                                       *)
(***************************************************************************)
EXTENDS Naturals, Sequences, FiniteSets

CONSTANTS
  Requests,        \* calls of the write and compute endpoints
  Principals,      \* ids of users
  Owners,          \* the owners of new records, None where the content has none
  Anonymous,       \* the id of the bare anonymous principal
  None,            \* NULL, an absent row
  Text,            \* str() of a principal, by its id
  Values,          \* what a record holds
  Outputs,         \* what the model writes into the output field
  Rules,           \* the content's rules, in order: where they hold, their actions
  Computes,
  Def,             \* of each compute: provider, events, trigger_where, ...
  Invoked,         \* rules on a compute, in order
  EventPrincipal,  \* who a triggered compute is invoked by: None, or Anonymous
                   \* where the app knows no other role
  Stored,          \* the records there may be at the start
  Bodies,          \* the records a caller of the trigger endpoint may post
  MaxId,           \* bound: records
  MaxFaults        \* bound: database errors

Actions == [do : {"same", "owner", "insert", "send"}, to : Values \cup {None}]
Providers == {"cel", "empty", "llm", "none"}  \* "empty": CEL without a body
Record == [owner : Principals \cup {None}, val : Values, out : Outputs \cup {None}]
Keys == Principals \cup {Text[p] : p \in Principals}

ASSUME EventRulesAssumption ==
  /\ Anonymous \in Principals /\ DOMAIN Text = Principals
  /\ Owners \subseteq Principals \cup {None}
  /\ None \notin Principals \cup Values \cup Outputs \cup Keys
  /\ None \notin Record /\ None \notin Nat
  /\ Rules \in Seq([on : SUBSET Values, acts : Seq(Actions)])
  /\ Def \in [Computes -> [provider : Providers, events : SUBSET {"created", "updated", "deleted"},
                           on : SUBSET Values, fails : SUBSET Values, audited : BOOLEAN]]
  /\ Invoked \in Seq([compute : Computes, on : SUBSET Values, acts : Seq(Actions)])
  /\ EventPrincipal \in {None, Anonymous}
  /\ Requests \cap (Requests \X Computes) = {}
  /\ Stored \subseteq Seq(Record) /\ \A s \in Stored : Len(s) <= MaxId
  /\ Bodies \subseteq Record
  /\ MaxId \in Nat /\ MaxFaults \in Nat

(* No LLM compute answers to a deletion: its event would bring the record   *)
(* back on the page.  Apps are free to declare one; ShownIsStored is about  *)
(* those that do not.                                                      *)
NoneForDeleted == \A c \in Computes : Def[c].provider = "llm" => "deleted" \notin Def[c].events

Ids == 1..MaxId
Threads == Requests \X Computes      \* a compute on behalf of a request
Tasks == Requests \cup Threads
Comp(t) == Def[t[2]]

VARIABLES
  rows,      \* the records of the content
  nextId,
  owned,     \* the content with an owner: its counter for each key, or None
  shown,     \* what the last events about a record say of it
  audit,     \* the rows of each compute run in its audit log
  task,      \* what each request and thread is doing
  faults,
  \* History, read by the properties only:
  applied,   \* owner-keyed updates that were stored, for each key
  crossed,   \* keys of which two updates were under way together
  stale,     \* records written past their events or under somebody's copy
  mixed      \* records whose output field two computes or a failure left open

vars == <<rows, nextId, owned, shown, audit, task, faults, applied, crossed, stale, mixed>>
History == <<applied, crossed, stale, mixed>>

Idle == [at |-> "idle", id |-> None, rec |-> None, event |-> "none", rules |-> <<>>,
         seen |-> None, who |-> None, out |-> None, kept |-> "no", late |-> FALSE]

Ended == {"ended", "crashed", "answered", "rejected"}
Places == Ended \cup {"idle", "stored", "read", "rules", "owned", "run", "write", "publish", "audit",
                      "announce", "gate", "check"}

TypeOK ==
  /\ rows \in [Ids -> {None} \cup Record]
  /\ nextId \in 1..(MaxId + 1)
  /\ owned \in [Keys -> Nat \cup {None}]
  /\ shown \in [Ids -> {None} \cup Record]
  /\ audit \in [Threads -> Seq({"success", "error"})]
  /\ task \in [Tasks -> [at : Places, id : Ids \cup {None}, rec : {None} \cup Record,
                         event : {"none", "created", "updated", "deleted"},
                         rules : Seq(Seq(Actions) \ {<<>>}), seen : Nat \cup {None},
                         who : Keys \cup {None}, out : Outputs \cup {None},
                         kept : {"no", "stored", "nowhere"}, late : BOOLEAN]]
  /\ faults \in 0..MaxFaults
  /\ applied \in [Keys -> Nat]
  /\ crossed \subseteq Keys /\ stale \subseteq Ids /\ mixed \subseteq Ids

Busy(t) == task[t].at \notin Ended \cup {"idle"}
Goto(t, at) == task' = [task EXCEPT ![t].at = at]
Fault == faults < MaxFaults /\ faults' = faults + 1
Fine == faults' = faults

(* The computes the event of request r triggers. *)
Due(r) == {c \in Computes : /\ task[r].event \in Def[c].events
                            /\ task[r].rec.val \in Def[c].on}

(* A request whose event is to come. *)
Announcing(u) == task[u].late \/ task[u].at \in {"stored", "read"}

(* Somebody but t will publish the copy of record i it has: a request, or   *)
(* an LLM compute, one a request is going to start included.               *)
Copied(t, i) ==
  \E u \in Tasks \ {t} :
    /\ Busy(u) /\ task[u].id = i /\ task[u].rec # None
    /\ \/ Announcing(u)
       \/ \E c \in Computes :
            /\ Def[c].provider = "llm"
            /\ \/ u \in Requests /\ c \in Due(u)
               \/ u \in Requests \X {c}

-----------------------------------------------------------------------------
(* The requests of the CRUD routes: the record is stored, an updated one    *)
(* read back, the event published, and the record as it was read handed to  *)
(* run_event_handlers; other requests go on in between.  A record that      *)
(* comes in over a channel is published late, after its rules.             *)

(* The actions of the rules whose predicate holds of the record, in the     *)
(* order of the rules; one that raises holds of none.                      *)
Ascending(S) == [k \in 1..Cardinality(S) |->
                   CHOOSE n \in S : Cardinality({m \in S : m < n}) = k - 1]
ActsOf(rules, S) == [k \in 1..Cardinality(S) |-> rules[Ascending(S)[k]].acts]
Fires(rule, rec) == rec.val \in rule.on /\ rule.acts # <<>>
Matching(rec) == ActsOf(Rules, {n \in DOMAIN Rules : Fires(Rules[n], rec)})

Handling(i, rec, event, at) ==
  [Idle EXCEPT !.at = at, !.id = i, !.rec = rec, !.event = event]

(* The statement and its commit. *)
Store(r, i, rec, next) ==
  /\ task[r].at = "idle"
  /\ rows' = [rows EXCEPT ![i] = rec]
  /\ task' = [task EXCEPT ![r] = next]
  /\ stale' = IF Copied(r, i) THEN stale \cup {i} ELSE stale
  /\ UNCHANGED <<owned, shown, audit, faults, applied, crossed, mixed>>

(* A new record is handed on as it was inserted. *)
Added(r, rec) ==
  /\ nextId <= MaxId /\ nextId' = nextId + 1
  /\ Store(r, nextId, rec, Handling(nextId, rec, "created", "stored"))

(* Variant: the owner is stamped with the text of the principal. *)
CreateText(r) ==
  \E v \in Values, p \in Owners \ {None} :
    Added(r, [owner |-> Text[p], val |-> v, out |-> None])

Create(r) ==
  \E v \in Values, p \in Owners : Added(r, [owner |-> p, val |-> v, out |-> None])

(* A record that a channel delivers. *)
Arrive(r) ==
  \E v \in Values, p \in Owners :
    LET rec == [owner |-> p, val |-> v, out |-> None] IN
    /\ nextId <= MaxId /\ nextId' = nextId + 1
    /\ Store(r, nextId, rec, [Handling(nextId, rec, "created", "rules") EXCEPT
                                !.late = TRUE, !.rules = Matching(rec)])

Update(r) ==
  \E i \in Ids, v \in Values :
    /\ rows[i] # None
    /\ Store(r, i, [rows[i] EXCEPT !.val = v], Handling(i, None, "updated", "stored"))
    /\ UNCHANGED nextId

Delete(r) ==
  \E i \in Ids :
    /\ rows[i] # None
    /\ Store(r, i, None, Handling(i, rows[i], "deleted", "read"))
    /\ UNCHANGED nextId

(* After the commit an updated row is read again, which may be gone by now,  *)
(* and the idempotency key of a new one is stored; where that fails the     *)
(* request ends in an error, and no event tells of the change.             *)
ReadBack(r) ==
  LET i == task[r].id
      copy == IF task[r].event = "created" THEN task[r].rec ELSE rows[i]
  IN  /\ task[r].at = "stored"
      /\ \/ copy = None /\ Fine /\ Goto(r, "ended") /\ UNCHANGED stale
         \/ /\ copy # None /\ Fine /\ UNCHANGED stale
            /\ task' = [task EXCEPT ![r].at = "read", ![r].rec = copy]
         \/ Fault /\ Goto(r, "ended") /\ stale' = stale \cup {i}
      /\ UNCHANGED <<rows, nextId, owned, shown, audit, applied, crossed, mixed>>

PublishEvent(r) ==
  LET rec == task[r].rec IN
  /\ task[r].at = "read"
  /\ shown' = [shown EXCEPT ![task[r].id] = IF task[r].event = "deleted" THEN None ELSE rec]
  /\ task' = [task EXCEPT ![r].at = "rules", ![r].rules = Matching(rec)]
  /\ UNCHANGED <<rows, nextId, owned, audit, faults, History>>

-----------------------------------------------------------------------------
(* The actions of the rules. *)

Doing(t, what) ==
  /\ task[t].at = "rules" /\ task[t].rules # <<>>
  /\ Head(Head(task[t].rules)).do = what

Rest(rules) == IF Len(Head(rules)) = 1 THEN Tail(rules)
                                       ELSE <<Tail(Head(rules))>> \o Tail(rules)
Advance(t) == task' = [task EXCEPT ![t].at = "rules", ![t].rules = Rest(@), ![t].seen = None]
To(t) == Head(Head(task[t].rules)).to

Send(t) ==
  /\ Doing(t, "send") /\ Advance(t)
  /\ UNCHANGED <<rows, nextId, owned, shown, audit, faults, History>>

(* The patch comes from the copy and lands on the row there is; a failure   *)
(* is logged.  No event tells of it.                                       *)
Same(t) ==
  LET i == task[t].id IN
  /\ Doing(t, "same")
  /\ \/ /\ To(t) # None /\ rows[i] # None /\ Fine
        /\ rows' = [rows EXCEPT ![i].val = To(t)]
        /\ stale' = stale \cup {i}
     \/ (To(t) = None \/ rows[i] = None) /\ Fine /\ UNCHANGED <<rows, stale>>
     \/ Fault /\ UNCHANGED <<rows, stale>>
  /\ Advance(t)
  /\ UNCHANGED <<nextId, owned, shown, audit, applied, crossed, mixed>>

(* insert_raw is not guarded: where it raises the rest of its rule is lost.  *)
Insert(t) ==
  /\ Doing(t, "insert")
  /\ \/ Fine /\ Advance(t)
     \/ Fault /\ task' = [task EXCEPT ![t].rules = Tail(@)]
  /\ UNCHANGED <<rows, nextId, owned, shown, audit, History>>

(* The user: who invoked, or else the owner of the record. *)
Key(t) == IF task[t].who # None THEN task[t].who
          ELSE IF task[t].rec = None THEN None ELSE task[t].rec.owner

(* Variant: the bare anonymous principal has a row as well. *)
QueryAny(t) ==
  LET k == Key(t) IN
  /\ Doing(t, "owner")
  /\ \/ k = None /\ Fine /\ Advance(t) /\ UNCHANGED crossed
     \/ /\ k # None /\ Fine
        /\ task' = [task EXCEPT ![t].at = "owned", ![t].seen = owned[k]]
        /\ crossed' = IF \E u \in Tasks \ {t} : task[u].at = "owned" /\ Key(u) = k
                        THEN crossed \cup {k} ELSE crossed
     \/ Fault /\ Advance(t) /\ UNCHANGED crossed
  /\ UNCHANGED <<rows, nextId, owned, shown, audit, applied, stale, mixed>>

Query(t) ==
  LET k == Key(t) IN
  /\ Doing(t, "owner")
  /\ \/ k \in {None, Anonymous} /\ Fine /\ Advance(t) /\ UNCHANGED crossed
     \/ /\ k \notin {None, Anonymous} /\ Fine
        /\ task' = [task EXCEPT ![t].at = "owned", ![t].seen = owned[k]]
        /\ crossed' = IF \E u \in Tasks \ {t} : task[u].at = "owned" /\ Key(u) = k
                        THEN crossed \cup {k} ELSE crossed
     \/ Fault /\ Advance(t) /\ UNCHANGED crossed
  /\ UNCHANGED <<rows, nextId, owned, shown, audit, applied, stale, mixed>>

(* The row that was found, or a default one, counted up and stored; the     *)
(* owner is unique, and an error of any kind is logged.                    *)
Owned(t) ==
  LET k == Key(t)
      seen == task[t].seen
      stores == To(t) # None /\ (seen # None \/ owned[k] = None)
  IN  /\ task[t].at = "owned"
      /\ \/ /\ stores /\ Fine
            /\ owned' = [owned EXCEPT ![k] = IF seen = None THEN 1 ELSE seen + 1]
            /\ applied' = [applied EXCEPT ![k] = @ + 1]
         \/ ~stores /\ Fine /\ UNCHANGED <<owned, applied>>
         \/ stores /\ Fault /\ UNCHANGED <<owned, applied>>
      /\ Advance(t)
      /\ UNCHANGED <<rows, nextId, shown, audit, crossed, stale, mixed>>

(* After the rules: a thread for every compute of the event whose           *)
(* trigger_where holds, with a copy of the record.                         *)
StartComputes(r) ==
  /\ task[r].at = "rules" /\ task[r].rules = <<>>
  /\ task' = [t \in Tasks |->
       IF t = r THEN [task[r] EXCEPT !.at = IF task[r].late THEN "announce" ELSE "ended"]
       ELSE IF t \in {r} \X Due(r)
         THEN [Idle EXCEPT !.at = "run", !.id = task[r].id, !.rec = task[r].rec,
                           !.who = EventPrincipal]
       ELSE task[t]]
  /\ UNCHANGED <<rows, nextId, owned, shown, audit, faults, History>>

Announce(r) ==
  /\ task[r].at = "announce"
  /\ shown' = [shown EXCEPT ![task[r].id] = task[r].rec]
  /\ Goto(r, "ended")
  /\ UNCHANGED <<rows, nextId, owned, audit, faults, History>>

EndInvoked(t) ==
  /\ task[t].at = "rules" /\ task[t].rules = <<>>
  /\ Goto(t, "ended")
  /\ UNCHANGED <<rows, nextId, owned, shown, audit, faults, History>>

-----------------------------------------------------------------------------
(* Computes: execute_compute, on a thread or awaited by the trigger         *)
(* endpoint, which passes on whatever record its caller posts.             *)

Trigger(r) ==
  \E c \in Computes, i \in Ids, rec \in Bodies, p \in Principals :
    /\ task[r].at = "idle"
    /\ task' = [task EXCEPT ![r].at = "ended",
         ![<<r, c>>] = [Idle EXCEPT !.at = "run", !.id = i, !.rec = rec, !.who = p]]
    /\ stale' = IF Def[c].provider = "llm" /\ (rows[i] = None \/ rows[i].val # rec.val)
                  THEN stale \cup {i} ELSE stale
    /\ UNCHANGED <<rows, nextId, owned, shown, audit, faults, applied, crossed, mixed>>

(* write_audit_trace: a row, unless the compute keeps none; an error of the *)
(* insert is logged.                                                       *)
Audit(t, outcome) ==
  \/ ~Comp(t).audited /\ Fine /\ UNCHANGED audit
  \/ Comp(t).audited /\ Fine /\ audit' = [audit EXCEPT ![t] = Append(@, outcome)]
  \/ Comp(t).audited /\ Fault /\ UNCHANGED audit

(* Without a provider, or with one nobody knows, nothing runs. *)
Skip(t) ==
  /\ task[t].at = "run" /\ Comp(t).provider = "none"
  /\ Goto(t, "ended")
  /\ UNCHANGED <<rows, nextId, owned, shown, audit, faults, History>>

(* The rules on a compute, for a body that was evaluated; the principal     *)
(* reaches them as str().                                                  *)
OnCompute(c, rec) ==
  ActsOf(Invoked, {n \in DOMAIN Invoked : Invoked[n].compute = c /\ Fires(Invoked[n], rec)})
Caller(t) == IF task[t].who = None THEN None ELSE Text[task[t].who]

EvalCel(t) ==
  LET fails == task[t].rec.val \in Comp(t).fails IN
  /\ task[t].at = "run" /\ Comp(t).provider \in {"cel", "empty"}
  /\ \/ /\ Comp(t).provider = "empty"
        /\ Audit(t, "success") /\ Goto(t, "ended")
     \/ /\ Comp(t).provider = "cel" /\ fails
        /\ Audit(t, "error") /\ Goto(t, "ended")
     \/ /\ Comp(t).provider = "cel" /\ ~fails
        /\ Audit(t, "success")
        /\ task' = [task EXCEPT ![t].at = "rules", ![t].who = Caller(t),
                      ![t].rules = OnCompute(t[2], task[t].rec)]
  /\ UNCHANGED <<rows, nextId, owned, shown, History>>

(* A streamed value reaches the views before it is stored. *)
Stream(i, v) == shown' = [shown EXCEPT ![i] = IF v = None \/ @ = None THEN @
                                              ELSE [@ EXCEPT !.out = v]]

(* Others that write the output field of record i, or will publish it. *)
Met(t, i) == \E u \in Tasks \ {t} :
  /\ Busy(u) /\ task[u].id = i
  /\ \/ Announcing(u)
     \/ u \in Threads /\ Comp(u).provider = "llm"

Answer(t) ==
  \E v \in Outputs \cup {None} :
    /\ task[t].at = "run" /\ Comp(t).provider = "llm"
    /\ Stream(task[t].id, v)
    /\ task' = [task EXCEPT ![t].at = IF v = None THEN "audit" ELSE "write", ![t].out = v]
    /\ mixed' = IF Met(t, task[t].id) THEN mixed \cup {task[t].id} ELSE mixed
    /\ UNCHANGED <<rows, nextId, owned, audit, faults, applied, crossed, stale>>

(* The provider's own errors are recorded; another exception ends the       *)
(* thread.  A part of the answer may have been streamed.                   *)
AnswerFails(t) ==
  \E v \in Outputs \cup {None} :
    /\ task[t].at = "run" /\ Comp(t).provider = "llm"
    /\ Stream(task[t].id, v)
    /\ mixed' = IF v = None THEN mixed ELSE mixed \cup {task[t].id}
    /\ \/ Audit(t, "error") /\ Goto(t, "ended")
       \/ Fine /\ UNCHANGED audit /\ Goto(t, "crashed")
    /\ UNCHANGED <<rows, nextId, owned, applied, crossed, stale>>

(* update_fields, which says nothing where there is no row to write in; its  *)
(* errors end the thread without a word in the audit log.                  *)
WriteFields(t) ==
  LET i == task[t].id IN
  /\ task[t].at = "write"
  /\ \/ /\ Fine
        /\ rows' = [rows EXCEPT ![i] = IF @ = None THEN @ ELSE [@ EXCEPT !.out = task[t].out]]
        /\ task' = [task EXCEPT ![t].at = "publish", ![t].kept = IF rows[i] = None THEN "nowhere" ELSE "stored"]
        /\ UNCHANGED mixed
     \/ /\ Fault /\ Goto(t, "crashed") /\ mixed' = mixed \cup {i} /\ UNCHANGED rows
  /\ UNCHANGED <<nextId, owned, shown, audit, applied, crossed, stale>>

(* Variant: the event carries the copy alone. *)
PublishCopy(t) ==
  /\ task[t].at = "publish"
  /\ shown' = [shown EXCEPT ![task[t].id] = task[t].rec]
  /\ Goto(t, "audit")
  /\ UNCHANGED <<rows, nextId, owned, audit, faults, History>>

(* The event carries the copy, with the output merged in. *)
PublishUpdated(t) ==
  /\ task[t].at = "publish"
  /\ shown' = [shown EXCEPT ![task[t].id] = [task[t].rec EXCEPT !.out = task[t].out]]
  /\ Goto(t, "audit")
  /\ UNCHANGED <<rows, nextId, owned, audit, faults, History>>

AuditSuccess(t) ==
  /\ task[t].at = "audit"
  /\ Audit(t, "success") /\ Goto(t, "ended")
  /\ UNCHANGED <<rows, nextId, owned, shown, History>>

-----------------------------------------------------------------------------
(* The synchronous endpoint evaluates a body and answers with its value.   *)

Invoke(r) ==
  \E c \in Computes, v \in Values :
    /\ task[r].at = "idle" /\ Def[c].provider = "cel"
    /\ task' = [task EXCEPT ![r].at = "ended",
         ![<<r, c>>] = [Idle EXCEPT !.at = "gate",
                          !.rec = [owner |-> None, val |-> v, out |-> None]]]
    /\ UNCHANGED <<rows, nextId, owned, shown, audit, faults, History>>

(* Scope, confidentiality, taint, preconditions, boundary, redacted values. *)
Refuse(t) ==
  /\ task[t].at = "gate" /\ Goto(t, "rejected")
  /\ UNCHANGED <<rows, nextId, owned, shown, audit, faults, History>>

Evaluate(t) ==
  LET fails == task[t].rec.val \in Comp(t).fails IN
  /\ task[t].at = "gate"
  /\ \/ fails /\ Audit(t, "error") /\ Goto(t, "rejected")
     \/ ~fails /\ Goto(t, "check") /\ Fine /\ UNCHANGED audit
  /\ UNCHANGED <<rows, nextId, owned, shown, History>>

(* Variant: the outcome is recorded before the postconditions are asked. *)
ConcludeEarly(t) ==
  /\ task[t].at = "check"
  /\ Audit(t, "success")
  /\ Goto(t, "rejected") \/ Goto(t, "answered")
  /\ UNCHANGED <<rows, nextId, owned, shown, History>>

(* Postconditions and output taint decide before success is recorded. *)
Conclude(t) ==
  /\ task[t].at = "check"
  /\ \/ Goto(t, "rejected") /\ Fine /\ UNCHANGED audit
     \/ Goto(t, "answered") /\ Audit(t, "success")
  /\ UNCHANGED <<rows, nextId, owned, shown, History>>

-----------------------------------------------------------------------------
Init ==
  /\ \E s \in Stored :
       /\ rows = [i \in Ids |-> IF i \in DOMAIN s THEN s[i] ELSE None]
       /\ nextId = Len(s) + 1
  /\ shown = rows
  /\ owned = [k \in Keys |-> None] /\ applied = [k \in Keys |-> 0]
  /\ audit = [t \in Threads |-> <<>>]
  /\ task = [t \in Tasks |-> Idle]
  /\ faults = 0 /\ crossed = {} /\ stale = {} /\ mixed = {}

Call(r) == Create(r) \/ Arrive(r) \/ Update(r) \/ Delete(r) \/ Trigger(r) \/ Invoke(r)
RunRules(t) == Send(t) \/ Same(t) \/ Insert(t) \/ Query(t) \/ Owned(t)
RunCompute(t) == \/ Skip(t) \/ EvalCel(t) \/ EndInvoked(t) \/ Answer(t) \/ AnswerFails(t)
                 \/ WriteFields(t) \/ PublishUpdated(t) \/ AuditSuccess(t)
                 \/ Refuse(t) \/ Evaluate(t) \/ Conclude(t)

Next == \/ \E r \in Requests : \/ Call(r) \/ ReadBack(r) \/ PublishEvent(r)
                               \/ StartComputes(r) \/ Announce(r)
        \/ \E t \in Tasks : RunRules(t)
        \/ \E t \in Threads : RunCompute(t)

Spec == Init /\ [][Next]_vars

-----------------------------------------------------------------------------
(* Properties. *)

(* An owner's row counts each owner-keyed update that was stored, exactly   *)
(* where no two for that key ran together and never too many otherwise, and *)
(* no update is stored under the anonymous principal's id.  It may be under *)
(* its text: the rules on a compute have that for a key, and the guard does *)
(* not know it (compute_runner.py:419 against app.py:905-909).             *)
OwnerCounts ==
  /\ \A k \in Keys :
       LET count == IF owned[k] = None THEN 0 ELSE owned[k] IN
       /\ count <= applied[k] /\ (applied[k] > 0 => count > 0)
       /\ k \notin crossed => count = applied[k]
  /\ owned[Anonymous] = None

(* What the audit log says of a compute is what happened: one row for each  *)
(* that ended by itself where rows are kept and could be inserted, none     *)
(* that says success before the output was stored (a record that is gone by *)
(* then takes none, and update_fields does not say so), for an answer that  *)
(* was refused, or for a thread that crashed.                              *)
AuditTrue ==
  \A t \in Threads :
    LET at == task[t].at
        runs == Comp(t).provider \in {"cel", "empty", "llm"}
    IN  /\ Len(audit[t]) <= 1
        /\ at \in {"ended", "answered"} /\ runs /\ Comp(t).audited /\ faults = 0
             => Len(audit[t]) = 1
        /\ audit[t] = <<"success">> =>
             /\ at \in {"rules", "owned", "ended", "answered"}
             /\ task[t].out # None => task[t].kept # "no"
        /\ audit[t] = <<"error">> => at \in {"ended", "rejected"} /\ task[t].rules = <<>>

(* When everything has ended the last events about a record say what is     *)
(* stored, unless it was written while somebody had a copy of it to publish *)
(* or by a rule, whose update no event tells of, its request failed after   *)
(* the commit, or a compute was triggered with a record that was not the    *)
(* stored one; the output field likewise, unless two computes, or one and   *)
(* an event to come, met or one failed half way.                           *)
ShownIsStored ==
  (\A t \in Tasks : ~Busy(t)) =>
    \A i \in Ids \ stale :
      /\ rows[i] = None <=> shown[i] = None
      /\ rows[i] # None => /\ shown[i].val = rows[i].val
                           /\ i \notin mixed => shown[i].out = rows[i].out
=============================================================================
