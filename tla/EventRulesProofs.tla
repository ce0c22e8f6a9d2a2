--------------------------- MODULE EventRulesProofs ---------------------------
(***************************************************************************)
(* Proofs about EventRules.tla for any requests, rules, computes and       *)
(* records, and any number of database errors.                             *)
(***************************************************************************)
EXTENDS EventRules, FiniteSetTheorems, TLAPS

-----------------------------------------------------------------------------
(* The inductive invariant. *)

Plans == Seq(Seq(Actions) \ {<<>>})
TaskRec == [at : Places, id : Ids \cup {None}, rec : {None} \cup Record,
            event : {"none", "created", "updated", "deleted"},
            rules : Plans, seen : Nat \cup {None},
            who : Keys \cup {None}, out : Outputs \cup {None},
            kept : {"no", "stored", "nowhere"}, late : BOOLEAN]

(* What a task carries wherever it is: a request that has yet to read its   *)
(* record back has none, a thread at a statement has the provider that gets *)
(* there.                                                                  *)
Unstarted == {"idle", "stored", "read", "rules", "owned"}
Carries(t) ==
  LET at == task[t].at IN
  /\ t \in Requests => at \in Unstarted \cup {"announce", "ended"}
  /\ at \in {"stored", "read", "rules", "owned", "run", "write", "publish", "audit", "announce"} =>
       task[t].id \in Ids
  /\ at \in {"read", "rules", "owned", "run", "write", "publish", "audit", "announce"} =>
       task[t].rec \in Record
  /\ at \in {"stored", "read"} => ~task[t].late
  /\ at = "stored" => \/ task[t].event = "created" /\ task[t].rec \in Record
                      \/ task[t].event = "updated" /\ task[t].rec = None
  /\ at = "owned" => Key(t) \in Keys \ {Anonymous} /\ task[t].rules # <<>>
  /\ t \in Threads =>
       /\ at \notin {"stored", "read", "announce"} /\ ~task[t].late
       /\ at \in {"rules", "owned", "check"} => Comp(t).provider = "cel"
       /\ at = "gate" => task[t].rec \in Record /\ Comp(t).provider = "cel"
       /\ at = "check" => task[t].rec \in Record
       /\ at \in {"write", "publish", "audit"} => Comp(t).provider = "llm"
       /\ at = "run" => task[t].who \in Principals \cup {None}
CarryInv == \A t \in Tasks : Carries(t)

(* A request has threads once its rules have run.                          *)
FreshInv ==
  \A r \in Requests, c \in Computes : task[r].at \in Unstarted =>
    task[<<r, c>>] = Idle /\ audit[<<r, c>>] = <<>>

(* No record has an id that was not given yet. *)
RowInv == \A i \in Ids : i >= nextId => rows[i] = None

(* The counters.  Whoever is between the query and the update has seen what *)
(* is stored, unless two of them met.                                      *)
CountOf(v) == IF v = None THEN 0 ELSE v
OwnerInv ==
  /\ \A k \in Keys :
       /\ owned[k] # None => owned[k] > 0
       /\ CountOf(owned[k]) <= applied[k] /\ (applied[k] > 0 => owned[k] # None)
       /\ k \notin crossed =>
            /\ CountOf(owned[k]) = applied[k]
            /\ \A t, u \in Tasks :
                 task[t].at = "owned" /\ Key(t) = k /\ task[u].at = "owned" /\ Key(u) = k => t = u
  /\ owned[Anonymous] = None
  /\ \A t \in Tasks : task[t].at = "owned" =>
       /\ CountOf(task[t].seen) <= applied[Key(t)]
       /\ Key(t) \notin crossed => task[t].seen = owned[Key(t)]

(* The audit log of each thread, place by place. *)
Unheard == {"idle", "run", "write", "publish", "audit", "gate", "check", "crashed"}
AuditOf(t) ==
  LET at == task[t].at IN
  /\ audit[t] \in {<<>>, <<"success">>, <<"error">>}
  /\ at \in Unheard => audit[t] = <<>>
  /\ at \in {"rules", "owned"} => audit[t] # <<"error">>
  /\ at = "rejected" => audit[t] # <<"success">>
  /\ at = "answered" => audit[t] # <<"error">>
  /\ at \in {"rules", "owned", "ended", "answered"} /\ Comp(t).audited /\ faults = 0
       /\ Comp(t).provider # "none" => audit[t] # <<>>
  /\ at \notin {"rules", "owned", "ended"} => task[t].rules = <<>>
  /\ audit[t] = <<"error">> => task[t].rules = <<>>
  /\ at \in {"idle", "run", "gate", "check", "rules", "owned", "answered"} => task[t].out = None
  /\ at \in {"publish", "audit"} => task[t].out = None \/ task[t].kept # "no"
  /\ audit[t] = <<"success">> => task[t].out = None \/ task[t].kept # "no"
AuditInv == \A t \in Threads : AuditOf(t)

(* Who will publish a copy of its record, and what the copy says.  An event *)
(* to come may be about a row that is gone, or that a row is gone.         *)
Holds(u) ==
  /\ Busy(u) /\ task[u].rec # None /\ task[u].event # "deleted"
  /\ \/ u \in Requests /\ (Announcing(u) \/ \E c \in Due(u) : Def[c].provider = "llm")
     \/ u \in Threads /\ Comp(u).provider = "llm"
Deletes(u) == u \in Requests /\ task[u].at = "read" /\ task[u].event = "deleted"
Pending(u) == u \in Requests /\ Busy(u) /\ Announcing(u)
Awaited(i) == \E u \in Requests : Pending(u) /\ task[u].id = i
Late(u) ==
  /\ task[u].at = "announce" => task[u].late
  /\ task[u].late \/ u \in Threads => task[u].event # "deleted"
Matches(u) ==
  LET i == task[u].id IN rows[i] # None /\ task[u].rec.val = rows[i].val
Tells(i) ==
  /\ rows[i] = None /\ shown[i] # None => \E u \in Requests : Deletes(u) /\ task[u].id = i
  /\ rows[i] # None /\ shown[i] # None => shown[i].val = rows[i].val \/ Awaited(i)
  /\ rows[i] # None => shown[i] # None \/ Awaited(i)
CopyInv ==
  /\ \A u \in Tasks : Late(u)
  /\ \A u \in Tasks : Holds(u) /\ task[u].id \notin stale => Matches(u)
  /\ \A u \in Tasks : Deletes(u) /\ task[u].id \notin stale => rows[task[u].id] = None
  /\ \A i \in Ids \ stale : Tells(i)

(* The output field: between the answer and its publication one compute at *)
(* most is at it, and no event is to come.                                 *)
Midway(t) == t \in Threads /\ task[t].at \in {"write", "publish"}
Alone(u) ==
  LET i == task[u].id IN
  /\ task[u].rec # None /\ task[u].event # "deleted" => task[u].rec.out = rows[i].out
  /\ \A t \in Threads : Midway(t) => task[t].id # i
Between(t) ==
  LET i == task[t].id IN
  /\ \A u \in Threads : Midway(u) /\ task[u].id = i => u = t
  /\ task[t].at = "write" /\ shown[i] # None => shown[i].out = task[t].out
  /\ task[t].at = "publish" => rows[i].out = task[t].out
Even(i) ==
  /\ rows[i] # None /\ shown[i] # None
  /\ \A t \in Threads : task[t].at = "write" => task[t].id # i
  => rows[i].out = shown[i].out
OutInv ==
  /\ \A u \in Requests : Pending(u) /\ task[u].id \notin stale \cup mixed => Alone(u)
  /\ \A t \in Threads : Midway(t) /\ task[t].id \notin stale \cup mixed => Between(t)
  /\ \A i \in Ids \ (stale \cup mixed) : Even(i)

TaskInv == TypeOK /\ CarryInv /\ FreshInv /\ RowInv
-----------------------------------------------------------------------------
(* Sequences. *)

(* Ascending enumerates a finite set of numbers. *)
LEMMA AscendingFacts ==
  ASSUME NEW S \in SUBSET Nat, IsFiniteSet(S)
  PROVE  Cardinality(S) \in Nat /\ \A k \in 1..Cardinality(S) : Ascending(S)[k] \in S
  <1> DEFINE N == Cardinality(S)
             Down(i) == {m \in S : m < i}
             rank == [i \in S |-> Cardinality(Down(i))]
  <1>1. N \in Nat
    BY FS_CardinalityType
  <1>2. \A i \in S : Down(i) \in SUBSET S /\ IsFiniteSet(Down(i)) /\ Cardinality(Down(i)) \in Nat
    <2> SUFFICES ASSUME NEW i \in S
                 PROVE  Down(i) \in SUBSET S /\ IsFiniteSet(Down(i)) /\ Cardinality(Down(i)) \in Nat
      OBVIOUS
    <2>1. Down(i) \in SUBSET S
      OBVIOUS
    <2> HIDE DEF Down
    <2> QED
      BY <2>1, FS_Subset, FS_CardinalityType
  <1>3. \A i \in S : Cardinality(Down(i)) \in 0..(N - 1)
    <2> SUFFICES ASSUME NEW i \in S PROVE Cardinality(Down(i)) \in 0..(N - 1)
      OBVIOUS
    <2>1. Down(i) # S
      OBVIOUS
    <2> HIDE DEF Down
    <2>2. Cardinality(Down(i)) <= N /\ Cardinality(Down(i)) # N
      BY <1>2, <2>1, FS_Subset
    <2> QED
      BY <1>1, <1>2, <2>2
  <1>4. \A i, j \in S : i < j => Cardinality(Down(i)) < Cardinality(Down(j))
    <2> SUFFICES ASSUME NEW i \in S, NEW j \in S, i < j
                 PROVE  Cardinality(Down(i)) < Cardinality(Down(j))
      OBVIOUS
    <2>0. \A m \in S : m < i => m < j
      <3> SUFFICES ASSUME NEW m \in S, m < i PROVE m < j
        OBVIOUS
      <3>1. m \in Nat /\ i \in Nat /\ j \in Nat
        OBVIOUS
      <3> QED
        BY <3>1
    <2>1. Down(i) \in SUBSET Down(j) /\ i \in Down(j) /\ i \notin Down(i)
      <3>1. i \in Nat /\ ~(i < i)
        OBVIOUS
      <3> QED
        BY <2>0, <3>1
    <2> HIDE DEF Down
    <2>2. Cardinality(Down(i)) <= Cardinality(Down(j)) /\ Cardinality(Down(i)) # Cardinality(Down(j))
      BY <1>2, <2>1, FS_Subset
    <2> QED
      BY <1>2, <2>2
  <1>5. rank \in Injection(S, 0..(N - 1))
    <2>1. rank \in [S -> 0..(N - 1)]
      BY <1>3
    <2>2. \A i, j \in S : rank[i] = rank[j] => i = j
      <3> SUFFICES ASSUME NEW i \in S, NEW j \in S, Cardinality(Down(i)) = Cardinality(Down(j))
                   PROVE  i = j
        OBVIOUS
      <3>1. i \in Nat /\ j \in Nat
        OBVIOUS
      <3> HIDE DEF Down
      <3> QED
        BY <1>2, <1>4, <3>1
    <2> HIDE DEF rank
    <2> QED
      BY <2>1, <2>2 DEF Injection, IsInjective
  <1>6. IsFiniteSet(0..(N - 1)) /\ Cardinality(0..(N - 1)) = N
    <2>1. 0 \in Int /\ N - 1 \in Int
      BY <1>1
    <2>2. (IF 0 > N - 1 THEN 0 ELSE (N - 1) - 0 + 1) = N
      BY <1>1
    <2> HIDE DEF N
    <2> QED
      BY <2>1, <2>2, FS_Interval
  <1>7. rank \in Surjection(S, 0..(N - 1))
    BY <1>5, <1>6, FS_Injection
  <1>8. \A m \in 0..(N - 1) : \E i \in S : rank[i] = m
    BY <1>7 DEF Surjection
  <1>9. \A k \in 1..N : \E i \in S : Cardinality(Down(i)) = k - 1
    BY <1>1, <1>8
  <1> QED
    BY <1>1, <1>9 DEF Ascending

(* The actions of the rules that fire are a plan. *)
LEMMA ActsFacts ==
  ASSUME NEW R, NEW rules \in Seq(R), NEW S \in SUBSET DOMAIN rules,
         \A n \in S : rules[n].acts \in Seq(Actions) /\ rules[n].acts # <<>>
  PROVE  ActsOf(rules, S) \in Plans
  <1>1. IsFiniteSet(DOMAIN rules) /\ DOMAIN rules \subseteq Nat
    <2>1. DOMAIN rules = 1..Len(rules) /\ Len(rules) \in Nat
      OBVIOUS
    <2> QED
      BY <2>1, FS_Interval
  <1>2. S \in SUBSET Nat /\ IsFiniteSet(S)
    BY <1>1, FS_Subset
  <1>3. Cardinality(S) \in Nat /\ \A k \in 1..Cardinality(S) : Ascending(S)[k] \in S
    BY <1>2, AscendingFacts
  <1>4. \A k \in 1..Cardinality(S) : rules[Ascending(S)[k]].acts \in Seq(Actions) \ {<<>>}
    BY <1>3
  <1>5. ActsOf(rules, S) = [k \in 1..Cardinality(S) |-> rules[Ascending(S)[k]].acts]
    BY DEF ActsOf
  <1>6. ActsOf(rules, S) \in [1..Cardinality(S) -> Seq(Actions) \ {<<>>}]
    BY <1>4, <1>5
  <1> QED
    BY <1>3, <1>6 DEF Plans

LEMMA MatchingFacts ==
  ASSUME NEW rec
  PROVE  Matching(rec) \in Plans /\ \A c : OnCompute(c, rec) \in Plans
  <1>1. Matching(rec) \in Plans
    <2> DEFINE S == {n \in DOMAIN Rules : Fires(Rules[n], rec)}
    <2>1. Rules \in Seq([on : SUBSET Values, acts : Seq(Actions)])
      BY EventRulesAssumption
    <2>2. S \in SUBSET DOMAIN Rules
      OBVIOUS
    <2>3. \A n \in S : Rules[n].acts \in Seq(Actions) /\ Rules[n].acts # <<>>
      <3> HIDE DEF Actions
      <3> DEFINE R == [on : SUBSET Values, acts : Seq(Actions)]
      <3>1. \A n \in DOMAIN Rules : Rules[n] \in R
        <4> Rules \in Seq(R)
          BY <2>1
        <4> HIDE DEF R
        <4> QED
          OBVIOUS
      <3> QED
        BY <3>1 DEF Fires
    <2> HIDE DEF S
    <2>4. ActsOf(Rules, S) \in Plans
      BY <2>1, <2>2, <2>3, ActsFacts
    <2> QED
      BY <2>4 DEF Matching, S
  <1>2. ASSUME NEW c PROVE OnCompute(c, rec) \in Plans
    <2> DEFINE S == {n \in DOMAIN Invoked : Invoked[n].compute = c /\ Fires(Invoked[n], rec)}
    <2>1. Invoked \in Seq([compute : Computes, on : SUBSET Values, acts : Seq(Actions)])
      BY EventRulesAssumption
    <2>2. S \in SUBSET DOMAIN Invoked
      OBVIOUS
    <2>3. \A n \in S : Invoked[n].acts \in Seq(Actions) /\ Invoked[n].acts # <<>>
      <3> DEFINE R == [compute : Computes, on : SUBSET Values, acts : Seq(Actions)]
      <3>1. \A n \in DOMAIN Invoked : Invoked[n] \in R
        <4> Invoked \in Seq(R)
          BY <2>1
        <4> HIDE DEF R
        <4> QED
          OBVIOUS
      <3> QED
        BY <3>1 DEF Fires
    <2> HIDE DEF S
    <2>4. ActsOf(Invoked, S) \in Plans
      BY <2>1, <2>2, <2>3, ActsFacts
    <2> QED
      BY <2>4 DEF OnCompute, S
  <1> QED
    BY <1>1, <1>2

(* A plan goes on to a plan. *)
LEMMA PlanFacts ==
  ASSUME NEW rules \in Plans, rules # <<>>
  PROVE  /\ Rest(rules) \in Plans /\ Tail(rules) \in Plans
         /\ Head(Head(rules)) \in Actions
  <1>1. Head(rules) \in Seq(Actions) /\ Head(rules) # <<>> /\ Tail(rules) \in Plans
    BY DEF Plans
  <1> DEFINE h == Head(rules)
  <1>2. Head(h) \in Actions
    BY <1>1
  <1>3. Len(h) # 1 => Tail(h) \in Seq(Actions) /\ Tail(h) # <<>>
    <2>1. h \in Seq(Actions) /\ h # <<>>
      BY <1>1
    <2> HIDE DEF h
    <2>2. Len(h) \in Nat /\ Len(h) # 0 /\ Tail(h) \in Seq(Actions)
      BY <2>1
    <2>3. Len(h) # 1 => Len(Tail(h)) # 0
      BY <2>1, <2>2
    <2> QED
      BY <2>2, <2>3
  <1>4. Len(h) # 1 => <<Tail(h)>> \o Tail(rules) \in Plans
    <2>1. Len(h) # 1 => <<Tail(h)>> \in Plans
      BY <1>3 DEF Plans
    <2> QED
      BY <1>1, <2>1 DEF Plans
  <1> QED
    BY <1>1, <1>2, <1>4 DEF Rest
-----------------------------------------------------------------------------
(* Tasks. *)

LEMMA TaskSets ==
  /\ Requests \cap Threads = {} /\ Requests \subseteq Tasks /\ Threads \subseteq Tasks
  /\ \A t \in Threads : t[2] \in Computes /\ t[1] \in Requests /\ t = <<t[1], t[2]>>
  /\ \A r \in Requests, c \in Computes : <<r, c>> \in Threads
  BY EventRulesAssumption DEF Tasks, Threads

LEMMA DefFacts ==
  ASSUME NEW t \in Threads
  PROVE  Comp(t).provider \in Providers /\ Comp(t).audited \in BOOLEAN
  BY TaskSets, EventRulesAssumption DEF Comp

LEMMA TaskType ==
  TypeOK <=> /\ rows \in [Ids -> {None} \cup Record] /\ nextId \in 1..(MaxId + 1)
             /\ owned \in [Keys -> Nat \cup {None}] /\ shown \in [Ids -> {None} \cup Record]
             /\ audit \in [Threads -> Seq({"success", "error"})]
             /\ task \in [Tasks -> TaskRec] /\ faults \in 0..MaxFaults
             /\ applied \in [Keys -> Nat]
             /\ crossed \subseteq Keys /\ stale \subseteq Ids /\ mixed \subseteq Ids
  BY DEF TypeOK, TaskRec, Plans

LEMMA IdleFacts == Idle \in TaskRec /\ Idle.at = "idle" /\ Idle.rules = <<>> /\ Idle.out = None
  BY DEF Idle, TaskRec, Places, Ended, Plans

LEMMA GotoFacts ==
  ASSUME task \in [Tasks -> TaskRec], NEW t \in Tasks, NEW at \in Places, Goto(t, at)
  PROVE  /\ task' \in [Tasks -> TaskRec] /\ \A u \in Tasks : u # t => task'[u] = task[u]
         /\ task'[t].at = at /\ task'[t].id = task[t].id /\ task'[t].rec = task[t].rec
         /\ task'[t].event = task[t].event /\ task'[t].rules = task[t].rules
         /\ task'[t].seen = task[t].seen /\ task'[t].who = task[t].who
         /\ task'[t].out = task[t].out /\ task'[t].kept = task[t].kept
         /\ task'[t].late = task[t].late
  BY DEF Goto, TaskRec

LEMMA AdvanceFacts ==
  ASSUME task \in [Tasks -> TaskRec], NEW t \in Tasks, task[t].rules # <<>>, Advance(t)
  PROVE  /\ task' \in [Tasks -> TaskRec] /\ \A u \in Tasks : u # t => task'[u] = task[u]
         /\ task'[t].at = "rules" /\ task'[t].id = task[t].id /\ task'[t].rec = task[t].rec
         /\ task'[t].event = task[t].event /\ task'[t].rules \in Plans
         /\ task'[t].seen = None /\ task'[t].who = task[t].who
         /\ task'[t].out = task[t].out /\ task'[t].kept = task[t].kept
         /\ task'[t].late = task[t].late
  <1>1. Rest(task[t].rules) \in Plans
    BY PlanFacts DEF TaskRec
  <1> DEFINE rest == Rest(task[t].rules)
  <1>2. task' = [task EXCEPT ![t].at = "rules", ![t].rules = rest, ![t].seen = None]
    BY DEF Advance
  <1> HIDE DEF rest
  <1>3. rest \in Plans /\ "rules" \in Places
    BY <1>1 DEF rest, Places
  <1> DEFINE new == [task[t] EXCEPT !.at = "rules", !.rules = rest, !.seen = None]
  <1>4. new \in TaskRec /\ new.at = "rules" /\ new.rules = rest /\ new.seen = None
    BY <1>3 DEF TaskRec
  <1>5. /\ new.id = task[t].id /\ new.rec = task[t].rec /\ new.event = task[t].event
        /\ new.who = task[t].who /\ new.out = task[t].out /\ new.kept = task[t].kept
        /\ new.late = task[t].late
    BY DEF TaskRec
  <1>6. task' = [task EXCEPT ![t] = new]
    BY <1>2
  <1> HIDE DEF new
  <1>7. task' \in [Tasks -> TaskRec] /\ task'[t] = new /\ \A u \in Tasks : u # t => task'[u] = task[u]
    BY <1>4, <1>6
  <1> QED
    BY <1>3, <1>4, <1>5, <1>7

(* What the record of a thread or a request holds for its rules. *)
LEMMA ToFacts ==
  ASSUME task \in [Tasks -> TaskRec], NEW t \in Tasks, task[t].rules # <<>>
  PROVE  To(t) \in Values \cup {None}
  <1>1. Head(Head(task[t].rules)) \in Actions
    BY PlanFacts DEF TaskRec
  <1> QED
    BY <1>1 DEF To, Actions

(* What the others carry they go on carrying; ids are only ever given.      *)
LEMMA OtherCarries ==
  ASSUME TypeOK, NEW u \in Tasks, Carries(u), task'[u] = task[u],
         nextId' \in Nat, nextId <= nextId'
  PROVE  Carries(u)'
  <1>1. Key(u)' = Key(u)
    BY DEF Key
  <1> QED
    BY <1>1 DEF Carries

(* A step of one task. *)
LEMMA TaskStep ==
  ASSUME TypeOK, CarryInv, FreshInv, NEW t \in Tasks,
         t \in Threads => task[t].at # "idle",
         t \in Requests /\ task'[t].at \in Unstarted =>
           task[t].at \in Unstarted,
         \A u \in Tasks : u # t => task'[u] = task[u],
         \A u \in Threads : u # t => audit'[u] = audit[u],
         nextId' \in Nat, nextId <= nextId', Carries(t)'
  PROVE  CarryInv' /\ FreshInv'
  <1>1. CarryInv'
    <2> SUFFICES ASSUME NEW u \in Tasks PROVE Carries(u)'
      BY DEF CarryInv
    <2>1. CASE u = t
      BY <2>1
    <2>2. CASE u # t
      BY <2>2, OtherCarries DEF CarryInv
    <2> QED
      BY <2>1, <2>2
  <1>2. FreshInv'
    <2> SUFFICES ASSUME NEW r \in Requests, NEW c \in Computes,
                        task'[r].at \in Unstarted
                 PROVE  task'[<<r, c>>] = Idle /\ audit'[<<r, c>>] = <<>>
      BY DEF FreshInv, Idle
    <2>1. r \in Tasks /\ <<r, c>> \in Threads /\ <<r, c>> \in Tasks
      BY TaskSets
    <2>2. task[r].at \in Unstarted
      BY <2>1
    <2>3. task[<<r, c>>] = Idle /\ audit[<<r, c>>] = <<>>
      BY <2>2 DEF FreshInv
    <2>4. <<r, c>> # t
      BY <2>1, <2>3, IdleFacts
    <2> QED
      BY <2>1, <2>3, <2>4
  <1> QED
    BY <1>1, <1>2

(* A step of a request that starts threads of its own. *)
LEMMA LaunchStep ==
  ASSUME TypeOK, CarryInv, FreshInv, NEW r \in Requests,
         task'[r].at \in {"ended", "announce"},
         \A u \in Tasks : u # r /\ u \notin {r} \X Computes => task'[u] = task[u],
         UNCHANGED <<audit, nextId>>,
         Carries(r)', \A c \in Computes : Carries(<<r, c>>)'
  PROVE  CarryInv' /\ FreshInv'
  <1>0. nextId \in Nat
    BY DEF TypeOK
  <1>1. CarryInv'
    <2> SUFFICES ASSUME NEW u \in Tasks PROVE Carries(u)'
      BY DEF CarryInv
    <2>1. CASE u = r
      BY <2>1
    <2>2. CASE u \in {r} \X Computes
      <3> PICK c \in Computes : u = <<r, c>>
        BY <2>2
      <3> QED
        OBVIOUS
    <2>3. CASE u # r /\ u \notin {r} \X Computes
      BY <1>0, <2>3, OtherCarries DEF CarryInv
    <2> QED
      BY <2>1, <2>2, <2>3
  <1>2. FreshInv'
    <2> SUFFICES ASSUME NEW q \in Requests, NEW c \in Computes,
                        task'[q].at \in Unstarted
                 PROVE  task'[<<q, c>>] = Idle /\ audit'[<<q, c>>] = <<>>
      BY DEF FreshInv, Idle
    <2>1. q \in Tasks /\ <<q, c>> \in Threads /\ <<q, c>> \in Tasks /\ r \notin Threads
      BY TaskSets
    <2>2. q # r
      BY DEF Unstarted
    <2>3. q \notin {r} \X Computes /\ <<q, c>> \notin {r} \X Computes /\ <<q, c>> # r
      BY <2>1, <2>2, TaskSets
    <2>4. task'[q] = task[q] /\ task'[<<q, c>>] = task[<<q, c>>]
      BY <2>1, <2>2, <2>3
    <2> QED
      BY <2>4 DEF FreshInv
  <1> QED
    BY <1>1, <1>2

-----------------------------------------------------------------------------
(* Types, and what tasks carry: one lemma for each action. *)

(* A statement of a request. *)
LEMMA HandlingFacts ==
  ASSUME NEW i \in Ids, NEW rec \in Record \cup {None},
         NEW event \in {"created", "updated", "deleted"}, NEW at \in {"stored", "read", "rules"}
  PROVE  LET next == Handling(i, rec, event, at) IN
         /\ next \in TaskRec /\ next.at = at /\ next.id = i /\ next.rec = rec
         /\ next.event = event /\ ~next.late /\ next.who = None /\ next.out = None
  <1>1. at \in Places
    BY DEF Places
  <1>2. Handling(i, rec, event, at) \in TaskRec
    BY <1>1, IdleFacts DEF Handling, TaskRec
  <1> QED
    BY <1>2 DEF Handling, Idle

LEMMA StoreFacts ==
  ASSUME TypeOK, NEW r \in Requests, NEW i \in Ids, NEW rec \in Record \cup {None},
         NEW next \in TaskRec, Store(r, i, rec, next)
  PROVE  /\ r \in Tasks /\ r \notin Threads /\ task[r].at = "idle"
         /\ task' \in [Tasks -> TaskRec] /\ task'[r] = next
         /\ \A u \in Tasks : u # r => task'[u] = task[u]
         /\ rows' \in [Ids -> {None} \cup Record] /\ rows'[i] = rec
         /\ \A j \in Ids : j # i => rows'[j] = rows[j]
         /\ stale \subseteq stale' /\ stale' \subseteq Ids
         /\ UNCHANGED <<owned, shown, audit, faults, applied, crossed, mixed>>
  <1>1. r \in Tasks /\ r \notin Threads /\ task \in [Tasks -> TaskRec]
    BY TaskSets, TaskType
  <1>2. /\ rows \in [Ids -> {None} \cup Record] /\ stale \subseteq Ids
    BY DEF TypeOK
  <1> QED
    BY <1>1, <1>2 DEF Store

(* What a call of the CRUD routes or a channel stores, and how it goes on.  *)
LEMMA CallFacts ==
  ASSUME TaskInv, NEW r \in Requests, Create(r) \/ Arrive(r) \/ Update(r) \/ Delete(r)
  PROVE  \E i \in Ids, rec \in Record \cup {None}, next \in TaskRec :
           /\ Store(r, i, rec, next)
           /\ next.id = i /\ next.who = None /\ next.out = None
           /\ next.at \in {"stored", "read", "rules"} /\ (next.late <=> next.at = "rules")
           /\ \/ /\ next.event = "created" /\ next.at # "read"
                 /\ rec # None /\ rec.out = None /\ next.rec = rec
                 /\ i = nextId /\ nextId' = nextId + 1
              \/ /\ next.event = "updated" /\ next.at = "stored"
                 /\ rec # None /\ rec.out = rows[i].out /\ next.rec = None
                 /\ rows[i] # None /\ UNCHANGED nextId
              \/ /\ next.event = "deleted" /\ next.at = "read"
                 /\ rec = None /\ next.rec = rows[i] /\ rows[i] # None /\ UNCHANGED nextId
  <1>0. None \notin Record
    BY EventRulesAssumption
  <1>1. CASE Create(r) \/ Arrive(r)
    <2>1. PICK v \in Values, p \in Owners :
            LET rec == [owner |-> p, val |-> v, out |-> None] IN
            /\ nextId <= MaxId /\ nextId' = nextId + 1
            /\ \/ Store(r, nextId, rec, Handling(nextId, rec, "created", "stored"))
               \/ Store(r, nextId, rec, [Handling(nextId, rec, "created", "rules") EXCEPT
                                          !.late = TRUE, !.rules = Matching(rec)])
      BY <1>1 DEF Create, Arrive, Added
    <2> DEFINE rec == [owner |-> p, val |-> v, out |-> None]
               first == Handling(nextId, rec, "created", "stored")
               given == Handling(nextId, rec, "created", "rules")
               plan == Matching(rec)
               second == [given EXCEPT !.late = TRUE, !.rules = plan]
    <2>2. rec \in Record /\ rec # None /\ rec.out = None
      <3>1. rec \in Record
        BY EventRulesAssumption DEF Record
      <3> QED
        BY <1>0, <3>1
    <2>3. nextId \in Ids
      BY <2>1, EventRulesAssumption DEF TaskInv, TypeOK, Ids
    <2>4. plan \in Plans
      BY <2>2, MatchingFacts
    <2>5. Store(r, nextId, rec, first) \/ Store(r, nextId, rec, second)
      BY <2>1
    <2> HIDE DEF rec, plan
    <2>6. /\ first \in TaskRec /\ first.at = "stored" /\ first.id = nextId /\ first.rec = rec
          /\ first.event = "created" /\ ~first.late /\ first.who = None /\ first.out = None
      BY <2>2, <2>3, HandlingFacts
    <2>7. /\ given \in TaskRec /\ given.at = "rules" /\ given.id = nextId /\ given.rec = rec
          /\ given.event = "created" /\ given.who = None /\ given.out = None
      BY <2>2, <2>3, HandlingFacts
    <2> HIDE DEF first, given
    <2>8. /\ second \in TaskRec /\ second.at = "rules" /\ second.id = nextId /\ second.rec = rec
          /\ second.event = "created" /\ second.late /\ second.who = None /\ second.out = None
      BY <2>4, <2>7 DEF TaskRec
    <2> HIDE DEF second
    <2> QED
      BY <2>1, <2>2, <2>3, <2>5, <2>6, <2>8
  <1>2. CASE Update(r)
    <2>1. PICK i \in Ids, v \in Values :
            /\ rows[i] # None /\ UNCHANGED nextId
            /\ Store(r, i, [rows[i] EXCEPT !.val = v], Handling(i, None, "updated", "stored"))
      BY <1>2 DEF Update
    <2> DEFINE rec == [rows[i] EXCEPT !.val = v]
               next == Handling(i, None, "updated", "stored")
    <2>2. rows[i] \in Record
      BY <2>1 DEF TaskInv, TypeOK
    <2>3. rec \in Record /\ rec.out = rows[i].out
      BY <2>2 DEF Record
    <2>4. Store(r, i, rec, next)
      BY <2>1
    <2> HIDE DEF rec
    <2>5. rec # None
      BY <1>0, <2>3
    <2>6. /\ next \in TaskRec /\ next.at = "stored" /\ next.id = i /\ next.rec = None
          /\ next.event = "updated" /\ ~next.late /\ next.who = None /\ next.out = None
      BY HandlingFacts
    <2> HIDE DEF next
    <2> QED
      BY <2>1, <2>3, <2>4, <2>5, <2>6
  <1>3. CASE Delete(r)
    <2>1. PICK i \in Ids :
            /\ rows[i] # None /\ UNCHANGED nextId
            /\ Store(r, i, None, Handling(i, rows[i], "deleted", "read"))
      BY <1>3 DEF Delete
    <2> DEFINE next == Handling(i, rows[i], "deleted", "read")
    <2>2. rows[i] \in Record
      BY <2>1 DEF TaskInv, TypeOK
    <2>3. /\ next \in TaskRec /\ next.at = "read" /\ next.id = i /\ next.rec = rows[i]
          /\ next.event = "deleted" /\ ~next.late /\ next.who = None /\ next.out = None
      BY <2>2, HandlingFacts
    <2> HIDE DEF next
    <2> QED
      BY <2>1, <2>3 DEF next
  <1> QED
    BY <1>1, <1>2, <1>3

LEMMA CallKeeps ==
  ASSUME TaskInv, NEW r \in Requests, Create(r) \/ Arrive(r) \/ Update(r) \/ Delete(r)
  PROVE  TaskInv'
  <1>0. TypeOK /\ CarryInv /\ FreshInv /\ None \notin Record
    BY EventRulesAssumption DEF TaskInv
  <1>1. PICK i \in Ids, rec \in Record \cup {None}, next \in TaskRec :
           /\ Store(r, i, rec, next)
           /\ next.id = i /\ next.at \in {"stored", "read", "rules"}
           /\ next.late <=> next.at = "rules"
           /\ \/ /\ next.event = "created" /\ next.at # "read" /\ rec # None /\ next.rec = rec
                 /\ i = nextId /\ nextId' = nextId + 1
              \/ /\ next.event = "updated" /\ next.at = "stored" /\ next.rec = None
                 /\ rows[i] # None /\ UNCHANGED nextId
              \/ /\ next.event = "deleted" /\ next.at = "read" /\ next.rec = rows[i]
                 /\ rows[i] # None /\ UNCHANGED nextId
    BY CallFacts
  <1>2. /\ r \in Tasks /\ r \notin Threads /\ task[r].at = "idle"
        /\ task' \in [Tasks -> TaskRec] /\ task'[r] = next
        /\ \A u \in Tasks : u # r => task'[u] = task[u]
        /\ rows' \in [Ids -> {None} \cup Record]
        /\ \A j \in Ids : j # i => rows'[j] = rows[j]
        /\ stale' \subseteq Ids
        /\ UNCHANGED <<owned, shown, audit, faults, applied, crossed, mixed>>
    BY <1>0, <1>1, StoreFacts
  <1>3. nextId \in Nat /\ nextId' \in 1..(MaxId + 1) /\ nextId <= nextId' /\ i < nextId'
        /\ nextId' \in Nat /\ i \in Nat
    BY <1>0, <1>1, EventRulesAssumption DEF TaskInv, TypeOK, RowInv, Ids
  <1>4. Carries(r)'
    <2>1. rows[i] # None => rows[i] \in Record
      BY <1>0 DEF TypeOK
    <2>2. task'[r].at # "owned"
      BY <1>1, <1>2
    <2> QED
      BY <1>1, <1>2, <2>1, <2>2 DEF Carries, Unstarted
  <1>5. CarryInv' /\ FreshInv'
    BY <1>0, <1>2, <1>3, <1>4, TaskStep DEF Unstarted
  <1>6. TypeOK'
    BY <1>0, <1>2, <1>3, TaskType DEF TypeOK, TaskRec, Plans
  <1>7. RowInv'
    <2> SUFFICES ASSUME NEW j \in Ids, j >= nextId' PROVE rows'[j] = None
      BY DEF RowInv
    <2>1. j \in Nat
      BY EventRulesAssumption DEF Ids
    <2>2. j # i /\ j >= nextId
      BY <1>3, <2>1
    <2> QED
      BY <1>2, <2>2 DEF TaskInv, RowInv
  <1> QED
    BY <1>5, <1>6, <1>7 DEF TaskInv

(* An updated record as it is read back, a new one as it was inserted. *)
ReadCopy(r) == IF task[r].event = "created" THEN task[r].rec ELSE rows[task[r].id]
LEMMA ReadFacts ==
  ASSUME TaskInv, NEW r \in Requests, ReadBack(r)
  PROVE  /\ r \in Tasks /\ r \notin Threads /\ task[r].at = "stored" /\ ~task[r].late
         /\ task[r].id \in Ids /\ task[r].event # "deleted"
         /\ task' \in [Tasks -> TaskRec] /\ \A u \in Tasks : u # r => task'[u] = task[u]
         /\ task'[r].id = task[r].id /\ task'[r].event = task[r].event
         /\ task'[r].out = task[r].out /\ ~task'[r].late
         /\ faults' \in 0..MaxFaults
         /\ UNCHANGED <<rows, nextId, owned, shown, audit, applied, crossed, mixed>>
         /\ \/ /\ task'[r].at = "ended" /\ task'[r].rec = task[r].rec
               /\ \/ ReadCopy(r) = None /\ UNCHANGED stale
                  \/ stale' = stale \cup {task[r].id}
            \/ /\ task'[r].at = "read" /\ task'[r].rec = ReadCopy(r) /\ ReadCopy(r) \in Record
               /\ UNCHANGED stale
  <1> DEFINE copy == ReadCopy(r)
             new == [task[r] EXCEPT !.at = "read", !.rec = copy]
  <1>1. r \in Tasks /\ r \notin Threads /\ task \in [Tasks -> TaskRec] /\ TypeOK
    BY TaskSets, TaskType DEF TaskInv
  <1>2. /\ task[r].at = "stored"
        /\ UNCHANGED <<rows, nextId, owned, shown, audit, applied, crossed, mixed>>
        /\ \/ copy = None /\ Fine /\ Goto(r, "ended") /\ UNCHANGED stale
           \/ /\ copy # None /\ Fine /\ UNCHANGED stale
              /\ task' = [task EXCEPT ![r].at = "read", ![r].rec = copy]
           \/ Fault /\ Goto(r, "ended") /\ stale' = stale \cup {task[r].id}
    BY DEF ReadBack, ReadCopy
  <1>3. /\ task[r].id \in Ids /\ ~task[r].late
        /\ \/ task[r].event = "created" /\ task[r].rec \in Record
           \/ task[r].event = "updated" /\ task[r].rec = None
    BY <1>1, <1>2 DEF TaskInv, CarryInv, Carries
  <1>4. copy # None => copy \in Record
    BY <1>1, <1>3 DEF ReadCopy, TypeOK
  <1>5. faults' \in 0..MaxFaults
    BY <1>1, <1>2, EventRulesAssumption DEF TypeOK, Fine, Fault
  <1>6. CASE Goto(r, "ended")
    <2>1. "ended" \in Places
      BY DEF Places, Ended
    <2>2. /\ task' \in [Tasks -> TaskRec] /\ \A u \in Tasks : u # r => task'[u] = task[u]
          /\ task'[r].at = "ended" /\ task'[r].id = task[r].id /\ task'[r].rec = task[r].rec
          /\ task'[r].event = task[r].event /\ task'[r].out = task[r].out
          /\ task'[r].late = task[r].late
      BY <1>1, <1>6, <2>1, GotoFacts
    <2>3. \/ copy = None /\ UNCHANGED stale
          \/ stale' = stale \cup {task[r].id}
      <3>1. CASE copy # None /\ task' = [task EXCEPT ![r].at = "read", ![r].rec = copy]
        <4>1. task'[r].at = "read"
          <5> HIDE DEF copy
          <5> QED
            BY <1>1, <3>1 DEF TaskRec
        <4> QED
          BY <2>2, <4>1
      <3> QED
        BY <1>2, <3>1
    <2> QED
      BY <1>1, <1>2, <1>3, <1>5, <2>2, <2>3
  <1>7. CASE copy # None /\ UNCHANGED stale /\ task' = [task EXCEPT ![r].at = "read", ![r].rec = copy]
    <2>1. copy \in Record /\ "read" \in Places
      BY <1>4, <1>7 DEF Places
    <2> HIDE DEF copy
    <2>2. /\ new \in TaskRec /\ new.at = "read" /\ new.rec = copy /\ new.id = task[r].id
          /\ new.event = task[r].event /\ new.out = task[r].out /\ new.late = task[r].late
      BY <1>1, <2>1 DEF TaskRec
    <2>3. task' = [task EXCEPT ![r] = new]
      BY <1>1, <1>7
    <2> HIDE DEF new
    <2>4. /\ task' \in [Tasks -> TaskRec] /\ task'[r] = new
          /\ \A u \in Tasks : u # r => task'[u] = task[u]
      BY <1>1, <2>2, <2>3
    <2> QED
      BY <1>1, <1>2, <1>3, <1>5, <1>7, <2>1, <2>2, <2>4 DEF copy
  <1> QED
    BY <1>2, <1>6, <1>7

LEMMA ReadKeeps ==
  ASSUME TaskInv, NEW r \in Requests, ReadBack(r) PROVE TaskInv'
  <1>1. TypeOK /\ CarryInv /\ FreshInv /\ nextId \in Nat
    BY DEF TaskInv, TypeOK
  <1>2. /\ r \in Tasks /\ r \notin Threads /\ task[r].at = "stored" /\ task[r].id \in Ids
        /\ task' \in [Tasks -> TaskRec] /\ \A u \in Tasks : u # r => task'[u] = task[u]
        /\ task'[r].id = task[r].id /\ ~task'[r].late
        /\ faults' \in 0..MaxFaults
        /\ UNCHANGED <<rows, nextId, owned, shown, audit, applied, crossed, mixed>>
        /\ \/ task'[r].at = "ended"
           \/ task'[r].at = "read" /\ task'[r].rec \in Record
        /\ stale' \in {stale, stale \cup {task[r].id}}
    BY ReadFacts
  <1>3. Carries(r)'
    BY <1>2 DEF Carries, Unstarted
  <1>4. CarryInv' /\ FreshInv'
    BY <1>1, <1>2, <1>3, TaskStep DEF Unstarted
  <1>5. TypeOK'
    <2>1. stale' \subseteq Ids
      BY <1>1, <1>2 DEF TypeOK
    <2> QED
      BY <1>1, <1>2, <2>1 DEF TypeOK, TaskRec, Plans
  <1> QED
    BY <1>2, <1>4, <1>5 DEF TaskInv, RowInv

(* The event of a request, and its rules. *)
LEMMA EventFacts ==
  ASSUME TaskInv, NEW r \in Requests, PublishEvent(r)
  PROVE  LET rec == IF task[r].event = "deleted" THEN None ELSE task[r].rec IN
         /\ r \in Tasks /\ r \notin Threads /\ task[r].at = "read" /\ ~task[r].late
         /\ task[r].id \in Ids /\ task[r].rec \in Record
         /\ task' \in [Tasks -> TaskRec] /\ \A u \in Tasks : u # r => task'[u] = task[u]
         /\ task'[r].at = "rules" /\ task'[r].id = task[r].id /\ task'[r].rec = task[r].rec
         /\ task'[r].event = task[r].event /\ task'[r].out = task[r].out /\ ~task'[r].late
         /\ shown' \in [Ids -> {None} \cup Record] /\ shown'[task[r].id] = rec
         /\ \A j \in Ids : j # task[r].id => shown'[j] = shown[j]
         /\ UNCHANGED <<rows, nextId, owned, audit, faults, applied, crossed, stale, mixed>>
  <1> DEFINE rec == IF task[r].event = "deleted" THEN None ELSE task[r].rec
             plan == Matching(task[r].rec)
             new == [task[r] EXCEPT !.at = "rules", !.rules = plan]
  <1>1. r \in Tasks /\ r \notin Threads /\ task \in [Tasks -> TaskRec] /\ TypeOK
    BY TaskSets, TaskType DEF TaskInv
  <1>2. /\ task[r].at = "read" /\ shown' = [shown EXCEPT ![task[r].id] = rec]
        /\ task' = [task EXCEPT ![r].at = "rules", ![r].rules = plan]
        /\ UNCHANGED <<rows, nextId, owned, audit, faults, applied, crossed, stale, mixed>>
    BY DEF PublishEvent, History
  <1>3. task[r].id \in Ids /\ task[r].rec \in Record /\ ~task[r].late
    BY <1>1, <1>2 DEF TaskInv, CarryInv, Carries
  <1>4. plan \in Plans
    BY <1>3, MatchingFacts
  <1> HIDE DEF plan
  <1>5. /\ new \in TaskRec /\ new.at = "rules" /\ new.id = task[r].id /\ new.rec = task[r].rec
        /\ new.event = task[r].event /\ new.out = task[r].out /\ new.late = task[r].late
    BY <1>1, <1>4 DEF TaskRec, Places
  <1>6. task' = [task EXCEPT ![r] = new]
    BY <1>1, <1>2
  <1> HIDE DEF new
  <1>7. /\ task' \in [Tasks -> TaskRec] /\ task'[r] = new
        /\ \A u \in Tasks : u # r => task'[u] = task[u]
    BY <1>1, <1>5, <1>6
  <1>8. /\ shown' \in [Ids -> {None} \cup Record] /\ shown'[task[r].id] = rec
        /\ \A j \in Ids : j # task[r].id => shown'[j] = shown[j]
    BY <1>1, <1>2, <1>3 DEF TypeOK
  <1> QED
    BY <1>1, <1>2, <1>3, <1>5, <1>7, <1>8

LEMMA EventKeeps ==
  ASSUME TaskInv, NEW r \in Requests, PublishEvent(r) PROVE TaskInv'
  <1>1. TypeOK /\ CarryInv /\ FreshInv /\ nextId \in Nat
    BY DEF TaskInv, TypeOK
  <1>2. /\ r \in Tasks /\ r \notin Threads /\ task[r].at = "read" /\ task[r].id \in Ids
        /\ task[r].rec \in Record
        /\ task' \in [Tasks -> TaskRec] /\ \A u \in Tasks : u # r => task'[u] = task[u]
        /\ task'[r].at = "rules" /\ task'[r].id = task[r].id /\ task'[r].rec = task[r].rec
        /\ shown' \in [Ids -> {None} \cup Record]
        /\ UNCHANGED <<rows, nextId, owned, audit, faults, applied, crossed, stale, mixed>>
    BY EventFacts
  <1>3. Carries(r)'
    BY <1>2 DEF Carries, Unstarted
  <1>4. CarryInv' /\ FreshInv'
    BY <1>1, <1>2, <1>3, TaskStep DEF Unstarted
  <1>5. TypeOK'
    BY <1>1, <1>2 DEF TypeOK, TaskRec, Plans
  <1> QED
    BY <1>2, <1>4, <1>5 DEF TaskInv, RowInv

(* The next action of a plan. *)
LEMMA AdvanceKeeps ==
  ASSUME TaskInv, NEW t \in Tasks, task[t].at \in {"rules", "owned"}, task[t].rules # <<>>,
         Advance(t), UNCHANGED <<nextId, audit>>
  PROVE  task' \in [Tasks -> TaskRec] /\ CarryInv' /\ FreshInv'
  <1>1. TypeOK /\ CarryInv /\ FreshInv /\ task \in [Tasks -> TaskRec] /\ nextId \in Nat
    BY TaskType DEF TaskInv, TypeOK
  <1>2. /\ task' \in [Tasks -> TaskRec] /\ \A u \in Tasks : u # t => task'[u] = task[u]
        /\ task'[t].at = "rules" /\ task'[t].id = task[t].id /\ task'[t].rec = task[t].rec
        /\ task'[t].late = task[t].late
    BY <1>1, AdvanceFacts
  <1>3. Carries(t)
    BY <1>1 DEF CarryInv
  <1>4. Carries(t)'
    BY <1>2, <1>3 DEF Carries, Unstarted
  <1> QED
    BY <1>1, <1>2, <1>4, TaskStep DEF Unstarted

(* The statements of a compute that only move on. *)
LEMMA GotoKeeps ==
  ASSUME TaskInv, NEW t \in Threads, task[t].at # "idle", NEW at \in Places, Goto(t, at),
         at \in Ended \cup {"check", "audit"},
         at = "check" => task[t].at = "gate", at = "audit" => task[t].at = "publish",
         UNCHANGED nextId, \A u \in Threads : u # t => audit'[u] = audit[u]
  PROVE  task' \in [Tasks -> TaskRec] /\ CarryInv' /\ FreshInv'
  <1>1. /\ TypeOK /\ CarryInv /\ FreshInv /\ task \in [Tasks -> TaskRec] /\ nextId \in Nat
        /\ t \in Tasks /\ t \notin Requests
    BY TaskType, TaskSets DEF TaskInv, TypeOK
  <1>2. /\ task' \in [Tasks -> TaskRec] /\ \A u \in Tasks : u # t => task'[u] = task[u]
        /\ task'[t].at = at /\ task'[t].id = task[t].id /\ task'[t].rec = task[t].rec
        /\ task'[t].late = task[t].late
    BY <1>1, GotoFacts
  <1>3. Carries(t)
    BY <1>1 DEF CarryInv
  <1>4. Carries(t)'
    BY <1>1, <1>2, <1>3 DEF Carries, Ended
  <1> QED
    BY <1>1, <1>2, <1>4, TaskStep

LEMMA AuditType ==
  ASSUME TypeOK, NEW t \in Threads, NEW outcome \in {"success", "error"}, Audit(t, outcome)
  PROVE  /\ audit' \in [Threads -> Seq({"success", "error"})] /\ faults' \in 0..MaxFaults
         /\ faults <= faults' /\ \A u \in Threads : u # t => audit'[u] = audit[u]
         /\ Comp(t).audited /\ faults' = 0 => audit'[t] = Append(audit[t], outcome)
         /\ audit'[t] \in {audit[t], Append(audit[t], outcome)}
  <1>1. MaxFaults \in Nat /\ faults \in 0..MaxFaults
        /\ audit \in [Threads -> Seq({"success", "error"})]
    BY EventRulesAssumption DEF TypeOK
  <1>2. Append(audit[t], outcome) \in Seq({"success", "error"})
    BY <1>1
  <1>3. CASE Fine /\ UNCHANGED audit /\ ~Comp(t).audited
    BY <1>1, <1>3 DEF Fine
  <1>4. CASE Fine /\ audit' = [audit EXCEPT ![t] = Append(@, outcome)]
    <2> DEFINE row == Append(audit[t], outcome)
    <2>1. audit' = [audit EXCEPT ![t] = row]
      BY <1>4
    <2>2. row \in Seq({"success", "error"})
      BY <1>2
    <2> HIDE DEF row
    <2>3. /\ audit' \in [Threads -> Seq({"success", "error"})] /\ audit'[t] = row
          /\ \A u \in Threads : u # t => audit'[u] = audit[u]
      BY <1>1, <2>1, <2>2
    <2> QED
      BY <1>1, <1>4, <2>3 DEF Fine, row
  <1>5. CASE Comp(t).audited /\ Fault /\ UNCHANGED audit
    BY <1>1, <1>5 DEF Fault
  <1> QED
    BY <1>3, <1>4, <1>5 DEF Audit

(* The same record where only these change. *)
LEMMA FrameKeeps ==
  ASSUME TaskInv, task' \in [Tasks -> TaskRec], CarryInv', FreshInv', UNCHANGED nextId,
         rows' \in [Ids -> {None} \cup Record], shown' \in [Ids -> {None} \cup Record],
         \A i \in Ids : rows[i] = None => rows'[i] = None,
         owned' \in [Keys -> Nat \cup {None}], applied' \in [Keys -> Nat],
         audit' \in [Threads -> Seq({"success", "error"})], faults' \in 0..MaxFaults,
         crossed' \subseteq Keys, stale' \subseteq Ids, mixed' \subseteq Ids
  PROVE  TaskInv'
  <1>1. TypeOK'
    BY DEF TypeOK, TaskRec, Plans, TaskInv
  <1>2. RowInv'
    BY DEF RowInv, TaskInv
  <1> QED
    BY <1>1, <1>2 DEF TaskInv

LEMMA FaultType ==
  ASSUME TypeOK, Fault \/ Fine
  PROVE  faults' \in 0..MaxFaults /\ faults <= faults'
  BY EventRulesAssumption DEF TypeOK, Fault, Fine

(* What there is at the statements of a rule. *)
LEMMA DoingFacts ==
  ASSUME TaskInv, NEW t \in Tasks, NEW what, Doing(t, what)
  PROVE  /\ task[t].at = "rules" /\ task[t].rules # <<>> /\ task \in [Tasks -> TaskRec]
         /\ task[t].id \in Ids /\ task[t].rec \in Record
         /\ To(t) \in Values \cup {None}
  <1>1. task[t].at = "rules" /\ task[t].rules # <<>> /\ task \in [Tasks -> TaskRec]
    BY TaskType DEF Doing, TaskInv
  <1>2. Carries(t)
    BY DEF TaskInv, CarryInv
  <1> QED
    BY <1>1, <1>2, ToFacts DEF Carries

LEMMA SendKeeps ==
  ASSUME TaskInv, NEW t \in Tasks, Send(t) PROVE TaskInv'
  <1>1. task[t].at = "rules" /\ task[t].rules # <<>>
    BY DoingFacts DEF Send
  <1>2. task' \in [Tasks -> TaskRec] /\ CarryInv' /\ FreshInv'
    BY <1>1, AdvanceKeeps DEF Send
  <1> QED
    BY <1>2, FrameKeeps DEF Send, History, TaskInv, TypeOK

LEMMA SameKeeps ==
  ASSUME TaskInv, NEW t \in Tasks, Same(t) PROVE TaskInv'
  <1> DEFINE i == task[t].id
  <1>1. task[t].at = "rules" /\ task[t].rules # <<>> /\ i \in Ids /\ To(t) \in Values \cup {None}
    BY DoingFacts DEF Same
  <1>2. task' \in [Tasks -> TaskRec] /\ CarryInv' /\ FreshInv'
    BY <1>1, AdvanceKeeps DEF Same
  <1>3. faults' \in 0..MaxFaults
    BY FaultType DEF Same, TaskInv
  <1>4. /\ rows' \in [Ids -> {None} \cup Record] /\ stale' \subseteq Ids
        /\ \A j \in Ids : rows[j] = None => rows'[j] = None
    <2>0. rows \in [Ids -> {None} \cup Record] /\ stale \subseteq Ids
      BY DEF TaskInv, TypeOK
    <2>1. CASE UNCHANGED <<rows, stale>>
      BY <2>0, <2>1
    <2>2. CASE To(t) # None /\ rows[i] # None /\ rows' = [rows EXCEPT ![i].val = To(t)]
               /\ stale' = stale \cup {i}
      <3> DEFINE new == [rows[i] EXCEPT !.val = To(t)]
      <3>1. rows' = [rows EXCEPT ![i] = new]
        BY <2>2
      <3>2. new \in Record
        BY <1>1, <2>0, <2>2 DEF Record
      <3> HIDE DEF new
      <3> QED
        BY <1>1, <2>0, <2>2, <3>1, <3>2
    <2> QED
      BY <2>1, <2>2 DEF Same
  <1> QED
    BY <1>2, <1>3, <1>4, FrameKeeps DEF Same, TaskInv, TypeOK

LEMMA InsertKeeps ==
  ASSUME TaskInv, NEW t \in Tasks, Insert(t) PROVE TaskInv'
  <1>1. task[t].at = "rules" /\ task[t].rules # <<>> /\ task \in [Tasks -> TaskRec]
    BY DoingFacts DEF Insert
  <1>2. task' \in [Tasks -> TaskRec] /\ CarryInv' /\ FreshInv'
    <2>1. CASE Advance(t)
      BY <1>1, <2>1, AdvanceKeeps DEF Insert
    <2>2. CASE task' = [task EXCEPT ![t].rules = Tail(@)]
      <3> DEFINE rest == Tail(task[t].rules)
      <3>1. rest \in Plans
        BY <1>1, PlanFacts DEF TaskRec
      <3>2. task' = [task EXCEPT ![t].rules = rest]
        BY <2>2
      <3> HIDE DEF rest
      <3>3. /\ task' \in [Tasks -> TaskRec] /\ \A u \in Tasks : u # t => task'[u] = task[u]
            /\ task'[t].at = "rules" /\ task'[t].id = task[t].id /\ task'[t].rec = task[t].rec
            /\ task'[t].late = task[t].late
        BY <1>1, <3>1, <3>2 DEF TaskRec
      <3>4. Carries(t) /\ TypeOK /\ CarryInv /\ FreshInv /\ nextId \in Nat
        BY DEF TaskInv, CarryInv, TypeOK
      <3>5. Carries(t)'
        BY <1>1, <3>3, <3>4 DEF Carries, Insert
      <3> QED
        BY <1>1, <3>3, <3>4, <3>5, TaskStep DEF Insert
    <2> QED
      BY <2>1, <2>2 DEF Insert
  <1>3. faults' \in 0..MaxFaults
    BY FaultType DEF Insert, TaskInv
  <1> QED
    BY <1>2, <1>3, FrameKeeps DEF Insert, History, TaskInv, TypeOK

(* Whom an owner-keyed action is about. *)
LEMMA KeyFacts ==
  ASSUME TaskInv, NEW t \in Tasks, task[t].rec \in Record
  PROVE  Key(t) \in Keys \cup {None}
  <1>1. task[t].who \in Keys \cup {None} /\ task[t].rec.owner \in Principals \cup {None}
    BY DEF TaskInv, TypeOK, Record
  <1>2. Principals \subseteq Keys
    BY DEF Keys
  <1> HIDE DEF Keys
  <1> QED
    BY <1>1, <1>2 DEF Key

LEMMA QueryFacts ==
  ASSUME TaskInv, NEW t \in Tasks, Key(t) \in Keys,
         task' = [task EXCEPT ![t].at = "owned", ![t].seen = owned[Key(t)]]
  PROVE  /\ task' \in [Tasks -> TaskRec] /\ \A u \in Tasks : u # t => task'[u] = task[u]
         /\ task'[t].at = "owned" /\ task'[t].id = task[t].id /\ task'[t].rec = task[t].rec
         /\ task'[t].event = task[t].event /\ task'[t].rules = task[t].rules
         /\ task'[t].seen = owned[Key(t)] /\ task'[t].who = task[t].who
         /\ task'[t].out = task[t].out /\ task'[t].kept = task[t].kept
         /\ task'[t].late = task[t].late /\ Key(t)' = Key(t)
  <1> DEFINE seen == owned[Key(t)]
  <1>1. seen \in Nat \cup {None} /\ task \in [Tasks -> TaskRec] /\ "owned" \in Places
    BY TaskType DEF TaskInv, TypeOK, Places
  <1>2. task' = [task EXCEPT ![t].at = "owned", ![t].seen = seen]
    OBVIOUS
  <1> HIDE DEF seen
  <1>3. /\ task' \in [Tasks -> TaskRec] /\ \A u \in Tasks : u # t => task'[u] = task[u]
        /\ task'[t].at = "owned" /\ task'[t].id = task[t].id /\ task'[t].rec = task[t].rec
        /\ task'[t].event = task[t].event /\ task'[t].rules = task[t].rules
        /\ task'[t].seen = seen /\ task'[t].who = task[t].who
        /\ task'[t].out = task[t].out /\ task'[t].kept = task[t].kept
        /\ task'[t].late = task[t].late
    <2> DEFINE new == [task[t] EXCEPT !.at = "owned", !.seen = seen]
    <2>1. /\ new \in TaskRec /\ new.at = "owned" /\ new.id = task[t].id /\ new.rec = task[t].rec
          /\ new.event = task[t].event /\ new.rules = task[t].rules
          /\ new.seen = seen /\ new.who = task[t].who /\ new.out = task[t].out
          /\ new.kept = task[t].kept /\ new.late = task[t].late
      <3> task[t] \in TaskRec
        BY <1>1
      <3> QED
        BY <1>1 DEF TaskRec
    <2>2. task' = [task EXCEPT ![t] = new]
      BY <1>1, <1>2
    <2> HIDE DEF new
    <2> QED
      BY <1>1, <2>1, <2>2
  <1>4. Key(t)' = Key(t)
    BY <1>3 DEF Key
  <1> QED
    BY <1>3, <1>4 DEF seen

LEMMA QueryKeeps ==
  ASSUME TaskInv, NEW t \in Tasks, Query(t) PROVE TaskInv'
  <1>1. /\ task[t].at = "rules" /\ task[t].rules # <<>> /\ task[t].id \in Ids
        /\ task[t].rec \in Record
    BY DoingFacts DEF Query
  <1>2. Key(t) \in Keys \cup {None}
    BY <1>1, KeyFacts
  <1>3. task' \in [Tasks -> TaskRec] /\ CarryInv' /\ FreshInv' /\ crossed' \subseteq Keys
    <2>1. CASE Advance(t) /\ UNCHANGED crossed
      <3>1. crossed' \subseteq Keys
        BY <2>1 DEF TaskInv, TypeOK
      <3> QED
        BY <1>1, <2>1, <3>1, AdvanceKeeps DEF Query
    <2>2. CASE /\ Key(t) \notin {None, Anonymous}
               /\ task' = [task EXCEPT ![t].at = "owned", ![t].seen = owned[Key(t)]]
               /\ crossed' \in {crossed, crossed \cup {Key(t)}}
      <3>1. /\ task' \in [Tasks -> TaskRec] /\ \A u \in Tasks : u # t => task'[u] = task[u]
            /\ task'[t].at = "owned" /\ task'[t].id = task[t].id /\ task'[t].rec = task[t].rec
            /\ task'[t].rules = task[t].rules
            /\ task'[t].late = task[t].late /\ Key(t)' = Key(t)
        BY <1>2, <2>2, QueryFacts
      <3>2. Carries(t) /\ TypeOK /\ CarryInv /\ FreshInv /\ nextId \in Nat
        BY DEF TaskInv, CarryInv, TypeOK
      <3>3. Carries(t)'
        BY <1>1, <1>2, <2>2, <3>1, <3>2 DEF Carries, Query, Unstarted
      <3>4. CarryInv' /\ FreshInv'
        BY <1>1, <3>1, <3>2, <3>3, TaskStep DEF Query, Unstarted
      <3>5. crossed' \subseteq Keys
        BY <1>2, <2>2 DEF TaskInv, TypeOK
      <3> QED
        BY <3>1, <3>4, <3>5
    <2> QED
      BY <2>1, <2>2 DEF Query
  <1>4. faults' \in 0..MaxFaults
    BY FaultType DEF Query, TaskInv
  <1> QED
    BY <1>3, <1>4, FrameKeeps DEF Query, TaskInv, TypeOK

(* The owner-keyed update, spelled out. *)
LEMMA OwnedFacts ==
  ASSUME TaskInv, NEW t \in Tasks, Owned(t)
  PROVE  /\ task[t].at = "owned" /\ task[t].rules # <<>> /\ Key(t) \in Keys \ {Anonymous}
         /\ task[t].seen \in Nat \cup {None}
         /\ owned' \in [Keys -> Nat \cup {None}] /\ applied' \in [Keys -> Nat]
         /\ \A k \in Keys : k # Key(t) => owned'[k] = owned[k] /\ applied'[k] = applied[k]
         /\ \/ UNCHANGED <<owned, applied>>
            \/ /\ task[t].seen # None \/ owned[Key(t)] = None
               /\ owned'[Key(t)] = CountOf(task[t].seen) + 1
               /\ applied'[Key(t)] = applied[Key(t)] + 1
  <1> DEFINE k == Key(t)
             seen == task[t].seen
  <1>1. Carries(t) /\ task[t].at = "owned"
    BY DEF TaskInv, CarryInv, Owned
  <1>2. k \in Keys \ {Anonymous} /\ task[t].rules # <<>>
    BY <1>1 DEF Carries
  <1>3. seen \in Nat \cup {None} /\ owned \in [Keys -> Nat \cup {None}] /\ applied \in [Keys -> Nat]
    BY DEF TaskInv, TypeOK
  <1>4. \/ UNCHANGED <<owned, applied>>
        \/ /\ seen # None \/ owned[k] = None
           /\ owned' = [owned EXCEPT ![k] = CountOf(seen) + 1]
           /\ applied' = [applied EXCEPT ![k] = @ + 1]
    <2>1. (IF seen = None THEN 1 ELSE seen + 1) = CountOf(seen) + 1
      BY <1>3 DEF CountOf
    <2> QED
      BY <2>1 DEF Owned
  <1>5. CountOf(seen) + 1 \in Nat
    BY <1>3 DEF CountOf
  <1> HIDE DEF k, seen
  <1>6. /\ owned' \in [Keys -> Nat \cup {None}] /\ applied' \in [Keys -> Nat]
        /\ \A j \in Keys : j # k => owned'[j] = owned[j] /\ applied'[j] = applied[j]
        /\ \/ UNCHANGED <<owned, applied>>
           \/ /\ seen # None \/ owned[k] = None
              /\ owned'[k] = CountOf(seen) + 1 /\ applied'[k] = applied[k] + 1
    BY <1>2, <1>3, <1>4, <1>5
  <1> QED
    BY <1>1, <1>2, <1>3, <1>6 DEF k, seen

LEMMA OwnedKeeps ==
  ASSUME TaskInv, NEW t \in Tasks, Owned(t) PROVE TaskInv'
  <1>1. /\ task[t].at = "owned" /\ task[t].rules # <<>>
        /\ owned' \in [Keys -> Nat \cup {None}] /\ applied' \in [Keys -> Nat]
    BY OwnedFacts
  <1>2. task' \in [Tasks -> TaskRec] /\ CarryInv' /\ FreshInv'
    BY <1>1, AdvanceKeeps DEF Owned
  <1>3. faults' \in 0..MaxFaults
    BY FaultType DEF Owned, TaskInv
  <1> QED
    BY <1>1, <1>2, <1>3, FrameKeeps DEF Owned, TaskInv, TypeOK

(* A compute that has just been started. *)
Started(id, rec, who) == [Idle EXCEPT !.at = "run", !.id = id, !.rec = rec, !.who = who]

LEMMA RunFacts ==
  ASSUME NEW id \in Ids, NEW rec \in Record, NEW who \in Keys \cup {None}
  PROVE  LET it == Started(id, rec, who) IN
         /\ it \in TaskRec /\ it.at = "run" /\ it.id = id /\ it.rec = rec /\ it.who = who
         /\ it.rules = <<>> /\ it.out = None /\ it.kept = "no" /\ ~it.late /\ it.event = "none"
  <1> DEFINE it == Started(id, rec, who)
  <1>1. "run" \in Places
    BY DEF Places
  <1>2. it \in TaskRec
    BY <1>1, IdleFacts DEF TaskRec, Started
  <1>3. /\ it.at = "run" /\ it.id = id /\ it.rec = rec /\ it.who = who
        /\ it.rules = <<>> /\ it.out = None /\ it.kept = "no" /\ ~it.late /\ it.event = "none"
    BY DEF Idle, Started
  <1> QED
    BY <1>2, <1>3

(* The threads a request starts, and where it goes itself. *)
LEMMA StartFacts ==
  ASSUME TaskInv, NEW r \in Requests, StartComputes(r)
  PROVE  /\ task[r].at = "rules" /\ task[r].rules = <<>>
         /\ task[r].id \in Ids /\ task[r].rec \in Record
         /\ task' \in [Tasks -> TaskRec]
         /\ task'[r].at = IF task[r].late THEN "announce" ELSE "ended"
         /\ task'[r].id = task[r].id /\ task'[r].rec = task[r].rec
         /\ task'[r].event = task[r].event /\ task'[r].rules = <<>>
         /\ task'[r].late = task[r].late
         /\ \A c \in Computes :
              /\ task[<<r, c>>] = Idle /\ audit[<<r, c>>] = <<>>
              /\ c \notin Due(r) => task'[<<r, c>>] = Idle
              /\ c \in Due(r) =>
                   /\ task'[<<r, c>>].at = "run" /\ task'[<<r, c>>].id = task[r].id
                   /\ task'[<<r, c>>].rec = task[r].rec /\ task'[<<r, c>>].who = EventPrincipal
                   /\ task'[<<r, c>>].rules = <<>> /\ task'[<<r, c>>].out = None
                   /\ task'[<<r, c>>].kept = "no" /\ ~task'[<<r, c>>].late
                   /\ task'[<<r, c>>].event = "none"
         /\ \A u \in Tasks : u # r /\ u \notin {r} \X Computes => task'[u] = task[u]
  <1> DEFINE new == Started(task[r].id, task[r].rec, EventPrincipal)
             old == [task[r] EXCEPT !.at = IF task[r].late THEN "announce" ELSE "ended"]
  <1>1. /\ task[r].at = "rules" /\ task[r].rules = <<>> /\ r \in Tasks
        /\ task \in [Tasks -> TaskRec] /\ task[r] \in TaskRec
    BY TaskSets, TaskType DEF StartComputes, TaskInv
  <1>2. task[r].id \in Ids /\ task[r].rec \in Record
    BY <1>1 DEF TaskInv, CarryInv, Carries
  <1>3. EventPrincipal \in Keys \cup {None}
    BY EventRulesAssumption DEF Keys
  <1>4. /\ new \in TaskRec /\ new.at = "run" /\ new.id = task[r].id /\ new.rec = task[r].rec
        /\ new.who = EventPrincipal /\ new.rules = <<>> /\ new.out = None /\ new.kept = "no" /\ ~new.late
        /\ new.event = "none"
    BY <1>2, <1>3, RunFacts
  <1>5. /\ old \in TaskRec /\ old.at = (IF task[r].late THEN "announce" ELSE "ended")
        /\ old.id = task[r].id /\ old.rec = task[r].rec /\ old.event = task[r].event
        /\ old.rules = <<>> /\ old.late = task[r].late
    BY <1>1 DEF TaskRec, Places, Ended
  <1>6. task' = [t \in Tasks |-> IF t = r THEN old
                                 ELSE IF t \in {r} \X Due(r) THEN new ELSE task[t]]
    BY DEF StartComputes, Started
  <1> HIDE DEF new, old
  <1>7. Due(r) \subseteq Computes
    BY DEF Due
  <1> DEFINE due == Due(r)
  <1> HIDE DEF due
  <1>8. /\ task' \in [Tasks -> TaskRec] /\ task'[r] = old
        /\ \A u \in Tasks : u # r /\ u \notin {r} \X Computes => task'[u] = task[u]
    BY <1>1, <1>4, <1>5, <1>6, <1>7
  <1>9. ASSUME NEW c \in Computes
        PROVE  /\ task[<<r, c>>] = Idle /\ audit[<<r, c>>] = <<>>
               /\ c \in Due(r) => task'[<<r, c>>] = new
               /\ c \notin Due(r) => task'[<<r, c>>] = Idle
    <2>1. <<r, c>> \in Tasks /\ <<r, c>> # r
      BY TaskSets
    <2>2. task[<<r, c>>] = Idle /\ audit[<<r, c>>] = <<>>
      BY <1>1 DEF TaskInv, FreshInv, Unstarted
    <2>3. <<r, c>> \in {r} \X Due(r) <=> c \in Due(r)
      OBVIOUS
    <2> QED
      BY <1>6, <2>1, <2>2, <2>3
  <1> QED
    BY <1>1, <1>2, <1>4, <1>5, <1>8, <1>9

LEMMA StartKeeps ==
  ASSUME TaskInv, NEW r \in Requests, StartComputes(r) PROVE TaskInv'
  <1>1. /\ task[r].id \in Ids /\ task[r].rec \in Record
        /\ task' \in [Tasks -> TaskRec] /\ task'[r].at \in {"announce", "ended"}
        /\ task'[r].id = task[r].id /\ task'[r].rec = task[r].rec
        /\ \A u \in Tasks : u # r /\ u \notin {r} \X Computes => task'[u] = task[u]
    BY StartFacts
  <1>2. UNCHANGED <<audit, nextId>> /\ r \notin Threads /\ TypeOK /\ CarryInv /\ FreshInv
    BY TaskSets DEF StartComputes, TaskInv
  <1>3. Carries(r)'
    BY <1>1, <1>2 DEF Carries
  <1>4. ASSUME NEW c \in Computes PROVE Carries(<<r, c>>)'
    <2> DEFINE t == <<r, c>>
    <2>1. t \in Threads /\ t \notin Requests /\ t \in Tasks
      BY TaskSets
    <2> HIDE DEF t
    <2>2. CASE c \in Due(r)
      <3>1. /\ task'[t].at = "run" /\ task'[t].id = task[r].id /\ task'[t].rec = task[r].rec
            /\ task'[t].who = EventPrincipal /\ ~task'[t].late
        BY <2>2, StartFacts DEF t
      <3>2. EventPrincipal \in Principals \cup {None}
        BY EventRulesAssumption
      <3>3. Carries(t)'
        BY <1>1, <1>2, <2>1, <3>1, <3>2 DEF Carries
      <3> QED
        BY <3>3 DEF t
    <2>3. CASE c \notin Due(r)
      <3>1. task'[t] = task[t]
        BY <2>3, StartFacts DEF t
      <3>2. nextId' \in Nat /\ nextId <= nextId'
        BY <1>2 DEF TypeOK
      <3>3. Carries(t)'
        BY <1>2, <2>1, <3>1, <3>2, OtherCarries DEF CarryInv
      <3> QED
        BY <3>3 DEF t
    <2> QED
      BY <2>2, <2>3
  <1>5. CarryInv' /\ FreshInv'
    BY <1>1, <1>2, <1>3, <1>4, LaunchStep
  <1> QED
    BY <1>1, <1>5, FrameKeeps DEF StartComputes, History, TaskInv, TypeOK

(* A call that starts one compute, and ends. *)
Launched(r, c, new) == task' = [task EXCEPT ![r].at = "ended", ![<<r, c>>] = new]

(* What such a call leaves. *)
LEMMA LaunchFacts ==
  ASSUME TaskInv, NEW r \in Requests, NEW c \in Computes, task[r].at = "idle",
         NEW new \in TaskRec,
         Launched(r, c, new)
  PROVE  /\ task' \in [Tasks -> TaskRec] /\ task'[r].at = "ended" /\ task'[<<r, c>>] = new
         /\ task[<<r, c>>] = Idle /\ audit[<<r, c>>] = <<>>
         /\ task'[r].late = task[r].late /\ task'[r].event = task[r].event
         /\ \A u \in Tasks : u # r /\ u # <<r, c>> => task'[u] = task[u]
  <1> DEFINE t == <<r, c>>
             old == [task[r] EXCEPT !.at = "ended"]
  <1>1. r \in Tasks /\ t \in Tasks /\ t # r /\ task \in [Tasks -> TaskRec]
    BY TaskSets, TaskType DEF TaskInv
  <1>2. old \in TaskRec /\ old.at = "ended" /\ old.late = task[r].late /\ old.event = task[r].event
    <2> task[r] \in TaskRec
      BY <1>1
    <2> QED
      BY DEF TaskRec, Places, Ended
  <1>3. task[t] = Idle /\ audit[t] = <<>>
    BY DEF TaskInv, FreshInv, Unstarted
  <1>4. task' = [task EXCEPT ![r] = old, ![t] = new]
    BY <1>1 DEF Launched
  <1> HIDE DEF t, old
  <1>5. /\ task' \in [Tasks -> TaskRec] /\ task'[r] = old /\ task'[t] = new
        /\ \A u \in Tasks : u # r /\ u # t => task'[u] = task[u]
    BY <1>1, <1>2, <1>4
  <1> QED
    BY <1>2, <1>3, <1>5 DEF t

LEMMA LaunchKeeps ==
  ASSUME TaskInv, NEW r \in Requests, NEW c \in Computes, task[r].at = "idle",
         NEW new \in TaskRec, new.at \in {"run", "gate"},
         new.rec \in Record, ~new.late,
         new.at = "run" => new.id \in Ids /\ new.who \in Principals \cup {None},
         new.at = "gate" => Def[c].provider = "cel",
         Launched(r, c, new), stale' \subseteq Ids,
         UNCHANGED <<rows, nextId, owned, shown, audit, faults, applied, crossed, mixed>>
  PROVE  TaskInv'
  <1>1. /\ task' \in [Tasks -> TaskRec] /\ task'[r].at = "ended" /\ task'[<<r, c>>] = new
        /\ \A u \in Tasks : u # r /\ u # <<r, c>> => task'[u] = task[u]
    BY LaunchFacts
  <1>2. UNCHANGED <<audit, nextId>> /\ r \notin Threads /\ TypeOK /\ CarryInv /\ FreshInv
    BY TaskSets DEF TaskInv
  <1>3. Carries(r)'
    BY <1>1, <1>2 DEF Carries
  <1>4. ASSUME NEW d \in Computes PROVE Carries(<<r, d>>)'
    <2> DEFINE t == <<r, d>>
    <2>1. t \in Threads /\ t \notin Requests /\ t \in Tasks /\ Comp(t) = Def[d] /\ t # r
      BY TaskSets DEF Comp
    <2>2. CASE d = c
      <3>1. task'[t] = new
        BY <1>1, <2>2
      <3> HIDE DEF t
      <3>2. Carries(t)'
        BY <1>2, <2>1, <2>2, <3>1 DEF Carries, Comp
      <3> QED
        BY <3>2 DEF t
    <2>3. CASE d # c
      <3>1. task'[t] = task[t]
        BY <1>1, <2>1, <2>3
      <3>2. nextId' \in Nat /\ nextId <= nextId'
        BY <1>2 DEF TypeOK
      <3> HIDE DEF t
      <3>3. Carries(t)'
        BY <1>2, <2>1, <3>1, <3>2, OtherCarries DEF CarryInv
      <3> QED
        BY <3>3 DEF t
    <2> QED
      BY <2>2, <2>3
  <1>5. \A u \in Tasks : u # r /\ u \notin {r} \X Computes => task'[u] = task[u]
    BY <1>1
  <1>6. CarryInv' /\ FreshInv'
    BY <1>1, <1>2, <1>3, <1>4, <1>5, LaunchStep
  <1> QED
    BY <1>1, <1>6, FrameKeeps DEF History, TaskInv, TypeOK

(* What a triggered compute works on. *)
Foreign(i, rec) == rows[i] = None \/ rows[i].val # rec.val
LEMMA TriggerFacts ==
  ASSUME TaskInv, NEW r \in Requests, Trigger(r)
  PROVE  \E c \in Computes, i \in Ids, rec \in Record, new \in TaskRec :
           /\ task[r].at = "idle" /\ Launched(r, c, new)
           /\ new.at = "run" /\ new.id = i /\ new.rec = rec /\ new.who \in Principals
           /\ new.event = "none" /\ ~new.late /\ new.rules = <<>> /\ new.out = None
           /\ stale' = IF Def[c].provider = "llm" /\ Foreign(i, rec) THEN stale \cup {i} ELSE stale
           /\ UNCHANGED <<rows, nextId, owned, shown, audit, faults, applied, crossed, mixed>>
  <1>1. PICK c \in Computes, i \in Ids, rec \in Bodies, p \in Principals :
          /\ task[r].at = "idle"
          /\ task' = [task EXCEPT ![r].at = "ended",
               ![<<r, c>>] = [Idle EXCEPT !.at = "run", !.id = i, !.rec = rec, !.who = p]]
          /\ stale' = IF Def[c].provider = "llm" /\ (rows[i] = None \/ rows[i].val # rec.val)
                        THEN stale \cup {i} ELSE stale
          /\ UNCHANGED <<rows, nextId, owned, shown, audit, faults, applied, crossed, mixed>>
    BY DEF Trigger
  <1> DEFINE new == Started(i, rec, p)
  <1>2. Launched(r, c, new)
    BY <1>1 DEF Launched, Started
  <1>3. rec \in Record /\ p \in Keys
    BY EventRulesAssumption DEF Keys
  <1>4. /\ new \in TaskRec /\ new.at = "run" /\ new.id = i /\ new.rec = rec
        /\ new.who = p /\ ~new.late /\ new.rules = <<>> /\ new.out = None
    BY <1>3, RunFacts
  <1>5. new.event = "none"
    BY DEF Started, Idle
  <1> HIDE DEF new
  <1> QED
    BY <1>1, <1>2, <1>3, <1>4, <1>5 DEF Foreign

LEMMA TriggerKeeps ==
  ASSUME TaskInv, NEW r \in Requests, Trigger(r) PROVE TaskInv'
  <1>1. PICK c \in Computes, i \in Ids, rec \in Record, new \in TaskRec :
           /\ task[r].at = "idle" /\ Launched(r, c, new)
           /\ new.at = "run" /\ new.id = i /\ new.rec = rec /\ new.who \in Principals /\ ~new.late
           /\ stale' = IF Def[c].provider = "llm" /\ Foreign(i, rec) THEN stale \cup {i} ELSE stale
           /\ UNCHANGED <<rows, nextId, owned, shown, audit, faults, applied, crossed, mixed>>
    BY TriggerFacts
  <1>2. stale' \subseteq Ids
    BY <1>1 DEF TaskInv, TypeOK
  <1> QED
    BY <1>1, <1>2, LaunchKeeps

(* A value a call passes to the endpoint that evaluates it. *)
LEMMA GateFacts ==
  ASSUME NEW v \in Values
  PROVE  LET it == [Idle EXCEPT !.at = "gate", !.rec = [owner |-> None, val |-> v, out |-> None]] IN
         /\ it \in TaskRec /\ it.at = "gate" /\ it.rec \in Record /\ ~it.late
         /\ it.rules = <<>> /\ it.out = None /\ it.event = "none"
  <1> DEFINE rec == [owner |-> None, val |-> v, out |-> None]
             it == [Idle EXCEPT !.at = "gate", !.rec = rec]
  <1>1. "gate" \in Places /\ rec \in Record
    BY DEF Places, Record
  <1> HIDE DEF rec
  <1>2. it \in TaskRec
    BY <1>1, IdleFacts DEF TaskRec
  <1>3. it.at = "gate" /\ it.rec = rec /\ ~it.late /\ it.rules = <<>> /\ it.out = None
        /\ it.event = "none"
    BY DEF Idle
  <1> QED
    BY <1>1, <1>2, <1>3 DEF rec

LEMMA InvokeKeeps ==
  ASSUME TaskInv, NEW r \in Requests, Invoke(r) PROVE TaskInv'
  <1>1. PICK c \in Computes, v \in Values :
          /\ task[r].at = "idle" /\ Def[c].provider = "cel"
          /\ task' = [task EXCEPT ![r].at = "ended",
               ![<<r, c>>] = [Idle EXCEPT !.at = "gate",
                                !.rec = [owner |-> None, val |-> v, out |-> None]]]
          /\ UNCHANGED <<rows, nextId, owned, shown, audit, faults, History>>
    BY DEF Invoke
  <1> DEFINE new == [Idle EXCEPT !.at = "gate", !.rec = [owner |-> None, val |-> v, out |-> None]]
  <1>2. Launched(r, c, new)
    BY <1>1 DEF Launched
  <1>3. new \in TaskRec /\ new.at = "gate" /\ new.rec \in Record /\ ~new.late
    BY GateFacts
  <1> HIDE DEF new
  <1> QED
    BY <1>1, <1>2, <1>3, LaunchKeeps DEF History, TaskInv, TypeOK

LEMMA AnnounceKeeps ==
  ASSUME TaskInv, NEW r \in Requests, Announce(r) PROVE TaskInv'
  <1>1. /\ r \in Tasks /\ r \notin Threads /\ TypeOK /\ CarryInv /\ FreshInv /\ nextId \in Nat
        /\ task \in [Tasks -> TaskRec] /\ task[r].at = "announce" /\ "ended" \in Places
    BY TaskSets, TaskType DEF TaskInv, Announce, Places, Ended, TypeOK
  <1>2. task[r].id \in Ids /\ task[r].rec \in Record
    BY <1>1 DEF CarryInv, Carries
  <1>3. /\ task' \in [Tasks -> TaskRec] /\ \A u \in Tasks : u # r => task'[u] = task[u]
        /\ task'[r].at = "ended"
    BY <1>1, GotoFacts DEF Announce
  <1>4. Carries(r)'
    BY <1>1, <1>3 DEF Carries, Unstarted
  <1>5. CarryInv' /\ FreshInv'
    BY <1>1, <1>3, <1>4, TaskStep DEF Announce, Unstarted
  <1>6. /\ shown' \in [Ids -> {None} \cup Record]
    BY <1>1, <1>2 DEF Announce, TypeOK, Ids
  <1> QED
    BY <1>3, <1>5, <1>6, FrameKeeps DEF Announce, History, TaskInv, TypeOK

(* The steps of a thread that leave it at its end, at the log or the gate,  *)
(* and may leave a row in the log.                                         *)
LEMMA MoveKeeps ==
  ASSUME TaskInv, NEW t \in Threads, task[t].at # "idle", NEW at \in Places, Goto(t, at),
         at \in Ended \cup {"check", "audit"},
         at = "check" => task[t].at = "gate", at = "audit" => task[t].at = "publish",
         UNCHANGED <<rows, nextId, owned, applied, crossed, stale>>,
         shown' \in [Ids -> {None} \cup Record],
         mixed' \subseteq Ids,
         \/ UNCHANGED audit /\ (Fine \/ Fault)
         \/ \E outcome \in {"success", "error"} : Audit(t, outcome)
  PROVE  TaskInv'
  <1>1. /\ audit' \in [Threads -> Seq({"success", "error"})] /\ faults' \in 0..MaxFaults
        /\ \A u \in Threads : u # t => audit'[u] = audit[u]
    <2>1. CASE UNCHANGED audit /\ (Fine \/ Fault)
      BY <2>1, FaultType DEF TaskInv, TypeOK
    <2>2. CASE \E outcome \in {"success", "error"} : Audit(t, outcome)
      BY <2>2, AuditType DEF TaskInv
    <2> QED
      BY <2>1, <2>2
  <1>2. task' \in [Tasks -> TaskRec] /\ CarryInv' /\ FreshInv'
    BY <1>1, GotoKeeps
  <1> QED
    BY <1>1, <1>2, FrameKeeps DEF TaskInv, TypeOK

LEMMA PlainKeeps ==
  ASSUME TaskInv, NEW t \in Threads,
         \/ Skip(t) \/ EndInvoked(t) \/ Refuse(t) \/ Evaluate(t) \/ Conclude(t) \/ AuditSuccess(t)
  PROVE  TaskInv'
  <1>1. PICK at \in {"ended", "rejected", "check", "answered"} :
          /\ Goto(t, at) /\ task[t].at # "idle" /\ (at = "check" => task[t].at = "gate")
          /\ \/ UNCHANGED audit /\ Fine
             \/ \E outcome \in {"success", "error"} : Audit(t, outcome)
    BY DEF Skip, EndInvoked, Refuse, Evaluate, Conclude, AuditSuccess, Fine
  <1>2. at \in Places /\ at \in Ended \cup {"check", "audit"} /\ at # "audit"
    BY DEF Places, Ended
  <1>3. /\ UNCHANGED <<rows, nextId, owned, shown, applied, crossed, stale, mixed>>
    BY DEF Skip, EndInvoked, Refuse, Evaluate, Conclude, AuditSuccess, History
  <1>4. /\ shown' \in [Ids -> {None} \cup Record] /\ mixed' \subseteq Ids
    BY <1>3 DEF TaskInv, TypeOK
  <1> QED
    BY <1>1, <1>2, <1>3, <1>4, MoveKeeps

(* What a statement of a compute is about. *)
LEMMA AtFacts ==
  ASSUME TaskInv, NEW t \in Threads, task[t].at \in {"rules", "owned", "run", "write", "publish", "audit"}
  PROVE  /\ task \in [Tasks -> TaskRec] /\ t \in Tasks /\ t \notin Requests /\ task[t] \in TaskRec
         /\ task[t].id \in Ids /\ task[t].rec \in Record
         /\ ~task[t].late
         /\ task[t].at \in {"write", "publish", "audit"} => Comp(t).provider = "llm"
         /\ task[t].at = "run" => task[t].who \in Principals \cup {None}
  BY TaskSets, TaskType DEF TaskInv, CarryInv, Carries

LEMMA StreamType ==
  ASSUME TypeOK, NEW i \in Ids, NEW v \in Outputs \cup {None}, Stream(i, v)
  PROVE  /\ shown' \in [Ids -> {None} \cup Record]
         /\ \A j \in Ids : j # i => shown'[j] = shown[j]
         /\ shown'[i] = IF v = None \/ shown[i] = None THEN shown[i] ELSE [shown[i] EXCEPT !.out = v]
         /\ shown'[i] = None <=> shown[i] = None
         /\ \A j \in Ids : shown[j] = None => shown'[j] = None
  <1> DEFINE new == IF v = None \/ shown[i] = None THEN shown[i] ELSE [shown[i] EXCEPT !.out = v]
  <1>1. shown \in [Ids -> {None} \cup Record] /\ None \notin Record
    BY EventRulesAssumption DEF TypeOK
  <1>2. new \in {None} \cup Record /\ (new = None <=> shown[i] = None)
    <2>1. CASE v = None \/ shown[i] = None
      BY <1>1, <2>1
    <2>2. CASE v # None /\ shown[i] # None
      <3>1. shown[i] \in Record
        BY <1>1, <2>2
      <3>2. [shown[i] EXCEPT !.out = v] \in Record
        BY <3>1, <2>2 DEF Record
      <3> QED
        BY <1>1, <2>2, <3>2
    <2> QED
      BY <2>1, <2>2
  <1>3. shown' = [shown EXCEPT ![i] = new]
    BY DEF Stream
  <1>4. /\ shown' \in [Ids -> {None} \cup Record] /\ shown'[i] = new
        /\ \A j \in Ids : j # i => shown'[j] = shown[j]
    <2> HIDE DEF new
    <2> QED
      BY <1>1, <1>2, <1>3
  <1> QED
    BY <1>2, <1>4

LEMMA AnswerFailsKeeps ==
  ASSUME TaskInv, NEW t \in Threads, AnswerFails(t) PROVE TaskInv'
  <1>1. task[t].at = "run" /\ task[t].id \in Ids /\ TypeOK
    BY AtFacts DEF AnswerFails, TaskInv
  <1>2. PICK v \in Outputs \cup {None} :
          /\ Stream(task[t].id, v)
          /\ mixed' = IF v = None THEN mixed ELSE mixed \cup {task[t].id}
          /\ \/ Audit(t, "error") /\ Goto(t, "ended")
             \/ Fine /\ UNCHANGED audit /\ Goto(t, "crashed")
          /\ UNCHANGED <<rows, nextId, owned, applied, crossed, stale>>
    BY DEF AnswerFails
  <1>3. /\ shown' \in [Ids -> {None} \cup Record]
        /\ \A j \in Ids : shown[j] = None => shown'[j] = None
    BY <1>1, <1>2, StreamType
  <1>4. mixed' \subseteq Ids
    BY <1>1, <1>2 DEF TypeOK
  <1>5. PICK at \in {"ended", "crashed"} :
          /\ Goto(t, at) /\ at \in Places /\ at \in Ended \cup {"check", "audit"}
          /\ at # "check" /\ at # "audit"
          /\ \/ UNCHANGED audit /\ Fine
             \/ \E outcome \in {"success", "error"} : Audit(t, outcome)
    BY <1>2 DEF Places, Ended
  <1> QED
    BY <1>1, <1>2, <1>3, <1>4, <1>5, MoveKeeps

LEMMA PublishKeeps ==
  ASSUME TaskInv, NEW t \in Threads, PublishUpdated(t) PROVE TaskInv'
  <1> DEFINE new == [task[t].rec EXCEPT !.out = task[t].out]
  <1>1. /\ task[t].at = "publish" /\ task[t].id \in Ids
        /\ task[t].rec \in Record /\ task[t] \in TaskRec
    BY AtFacts DEF PublishUpdated
  <1>2. new \in Record
    BY <1>1 DEF Record, TaskRec
  <1>3. shown' = [shown EXCEPT ![task[t].id] = new] /\ Goto(t, "audit")
        /\ UNCHANGED <<rows, nextId, owned, audit, faults, applied, crossed, stale, mixed>>
    BY DEF PublishUpdated, History
  <1> HIDE DEF new
  <1>4. /\ shown' \in [Ids -> {None} \cup Record] /\ mixed' \subseteq Ids
    BY <1>1, <1>2, <1>3, EventRulesAssumption DEF TaskInv, TypeOK, Ids
  <1>5. "audit" \in Places /\ Fine
    BY <1>3 DEF Places, Fine
  <1> QED
    BY <1>1, <1>3, <1>4, <1>5, MoveKeeps

(* The steps of a compute that change what it carries. *)
LEMMA EvalKeeps ==
  ASSUME TaskInv, NEW t \in Threads, EvalCel(t) PROVE TaskInv'
  <1>1. /\ task[t].at = "run" /\ task \in [Tasks -> TaskRec] /\ t \in Tasks /\ t \notin Requests
        /\ task[t] \in TaskRec /\ task[t].id \in Ids
        /\ task[t].rec \in Record /\ ~task[t].late /\ task[t].who \in Principals \cup {None}
    BY AtFacts DEF EvalCel
  <1>2. CASE Goto(t, "ended") /\ \E outcome \in {"success", "error"} : Audit(t, outcome)
    <2>1. UNCHANGED <<rows, nextId, owned, shown, applied, crossed, stale, mixed>>
      BY DEF EvalCel, History
    <2>2. /\ shown' \in [Ids -> {None} \cup Record] /\ mixed' \subseteq Ids
          /\ "ended" \in Places /\ "ended" \in Ended \cup {"check", "audit"}
      BY <2>1 DEF TaskInv, TypeOK, Places, Ended
    <2> QED
      BY <1>1, <1>2, <2>1, <2>2, MoveKeeps
  <1>3. CASE /\ Comp(t).provider = "cel" /\ Audit(t, "success")
             /\ task' = [task EXCEPT ![t].at = "rules", ![t].who = Caller(t),
                           ![t].rules = OnCompute(t[2], task[t].rec)]
    <2> DEFINE plan == OnCompute(t[2], task[t].rec)
               who == Caller(t)
    <2>1. plan \in Plans
      BY MatchingFacts
    <2>2. who \in Keys \cup {None}
      BY <1>1 DEF Caller, Keys
    <2>3. task' = [task EXCEPT ![t].at = "rules", ![t].who = who, ![t].rules = plan]
      BY <1>3
    <2> HIDE DEF plan, who
    <2>4. /\ task' \in [Tasks -> TaskRec] /\ \A u \in Tasks : u # t => task'[u] = task[u]
          /\ task'[t].at = "rules" /\ task'[t].id = task[t].id /\ task'[t].rec = task[t].rec
          /\ task'[t].late = task[t].late
      <3>1. "rules" \in Places
        BY DEF Places
      <3> DEFINE new == [task[t] EXCEPT !.at = "rules", !.who = who, !.rules = plan]
      <3>2. new \in TaskRec /\ new.at = "rules" /\ new.id = task[t].id /\ new.rec = task[t].rec
            /\ new.late = task[t].late
        <4> HIDE DEF Keys
        <4> QED
          BY <1>1, <2>1, <2>2, <3>1 DEF TaskRec
      <3>3. task' = [task EXCEPT ![t] = new]
        BY <1>1, <2>3
      <3> HIDE DEF new
      <3> QED
        BY <1>1, <3>2, <3>3
    <2>5. /\ audit' \in [Threads -> Seq({"success", "error"})] /\ faults' \in 0..MaxFaults
          /\ \A u \in Threads : u # t => audit'[u] = audit[u]
      BY <1>3, AuditType DEF TaskInv
    <2>6. UNCHANGED <<rows, nextId, owned, shown, applied, crossed, stale, mixed>>
      BY DEF EvalCel, History
    <2>7. Carries(t) /\ TypeOK /\ CarryInv /\ FreshInv /\ nextId \in Nat
      BY <1>1 DEF TaskInv, CarryInv, TypeOK
    <2>8. Carries(t)'
      BY <1>1, <1>3, <2>4, <2>6 DEF Carries
    <2>9. CarryInv' /\ FreshInv'
      BY <1>1, <2>4, <2>5, <2>6, <2>7, <2>8, TaskStep
    <2> QED
      BY <2>4, <2>5, <2>6, <2>9, FrameKeeps DEF TaskInv, TypeOK
  <1> QED
    BY <1>2, <1>3 DEF EvalCel

LEMMA AnswerKeeps ==
  ASSUME TaskInv, NEW t \in Threads, Answer(t) PROVE TaskInv'
  <1>1. /\ task[t].at = "run" /\ task \in [Tasks -> TaskRec] /\ t \in Tasks /\ t \notin Requests
        /\ task[t] \in TaskRec /\ task[t].id \in Ids
        /\ task[t].rec \in Record /\ ~task[t].late /\ Comp(t).provider = "llm"
    BY AtFacts DEF Answer
  <1>2. PICK v \in Outputs \cup {None} :
          /\ Stream(task[t].id, v)
          /\ task' = [task EXCEPT ![t].at = IF v = None THEN "audit" ELSE "write", ![t].out = v]
    BY DEF Answer
  <1>3. /\ task' \in [Tasks -> TaskRec] /\ \A u \in Tasks : u # t => task'[u] = task[u]
        /\ task'[t].at \in {"audit", "write"} /\ task'[t].id = task[t].id
        /\ task'[t].rec = task[t].rec /\ task'[t].late = task[t].late
    BY <1>1, <1>2 DEF TaskRec, Places
  <1>4. /\ UNCHANGED <<rows, nextId, owned, audit, faults, applied, crossed, stale>>
        /\ mixed' \subseteq Ids /\ TypeOK /\ CarryInv /\ FreshInv /\ nextId \in Nat
    BY <1>1 DEF Answer, TaskInv, TypeOK
  <1>5. Carries(t)'
    BY <1>1, <1>3, <1>4 DEF Carries
  <1>6. CarryInv' /\ FreshInv'
    BY <1>1, <1>3, <1>4, <1>5, TaskStep
  <1>7. /\ shown' \in [Ids -> {None} \cup Record]
        /\ \A j \in Ids : shown[j] = None => shown'[j] = None
    BY <1>1, <1>2, <1>4, StreamType
  <1> QED
    BY <1>3, <1>4, <1>6, <1>7, FrameKeeps DEF TypeOK

LEMMA WriteFieldsKeeps ==
  ASSUME TaskInv, NEW t \in Threads, WriteFields(t) PROVE TaskInv'
  <1> DEFINE i == task[t].id
  <1>1. /\ task[t].at = "write" /\ task \in [Tasks -> TaskRec] /\ t \in Tasks /\ t \notin Requests
        /\ task[t] \in TaskRec /\ i \in Ids
        /\ task[t].rec \in Record /\ ~task[t].late /\ Comp(t).provider = "llm"
    BY AtFacts DEF WriteFields
  <1>2. CASE /\ Fine /\ UNCHANGED mixed
             /\ rows' = [rows EXCEPT ![i] = IF @ = None THEN @ ELSE [@ EXCEPT !.out = task[t].out]]
             /\ task' = [task EXCEPT ![t].at = "publish", ![t].kept = IF rows[task[t].id] = None THEN "nowhere" ELSE "stored"]
    <2>1. /\ task' \in [Tasks -> TaskRec] /\ \A u \in Tasks : u # t => task'[u] = task[u]
          /\ task'[t].at = "publish" /\ task'[t].id = i
          /\ task'[t].rec = task[t].rec /\ task'[t].late = task[t].late
      BY <1>1, <1>2 DEF TaskRec, Places
    <2>2. /\ UNCHANGED <<nextId, owned, shown, audit, applied, crossed, stale>>
          /\ TypeOK /\ CarryInv /\ FreshInv /\ nextId \in Nat
      BY DEF WriteFields, TaskInv, TypeOK
    <2>3. Carries(t)'
      BY <1>1, <2>1, <2>2 DEF Carries
    <2>4. CarryInv' /\ FreshInv'
      BY <1>1, <2>1, <2>2, <2>3, TaskStep
    <2>5. /\ rows' \in [Ids -> {None} \cup Record]
          /\ \A j \in Ids : rows[j] = None => rows'[j] = None
      <3> DEFINE new == IF rows[i] = None THEN rows[i] ELSE [rows[i] EXCEPT !.out = task[t].out]
      <3>1. new \in {None} \cup Record /\ (rows[i] = None => new = None)
        <4>1. CASE rows[i] # None
          <5>1. rows[i] \in Record /\ task[t].out \in Outputs \cup {None}
            BY <1>1, <2>2, <4>1 DEF TypeOK, TaskRec
          <5> QED
            BY <4>1, <5>1 DEF Record
        <4> QED
          BY <4>1
      <3>2. rows' = [rows EXCEPT ![i] = new]
        BY <1>2
      <3> HIDE DEF new
      <3> QED
        BY <1>1, <2>2, <3>1, <3>2 DEF TypeOK
    <2>6. faults' \in 0..MaxFaults
      BY <1>2, <2>2, FaultType
    <2> QED
      BY <1>2, <2>1, <2>2, <2>4, <2>5, <2>6, FrameKeeps DEF TypeOK
  <1>3. CASE Fault /\ Goto(t, "crashed") /\ mixed' = mixed \cup {i} /\ UNCHANGED rows
    <2>1. /\ UNCHANGED <<nextId, owned, shown, audit, applied, crossed, stale>>
      BY DEF WriteFields
    <2>2. /\ shown' \in [Ids -> {None} \cup Record] /\ mixed' \subseteq Ids
          /\ "crashed" \in Places /\ "crashed" \in Ended \cup {"check", "audit"}
      BY <1>1, <1>3, <2>1 DEF TaskInv, TypeOK, Places, Ended
    <2> QED
      BY <1>1, <1>3, <2>1, <2>2, MoveKeeps
  <1> QED
    BY <1>2, <1>3 DEF WriteFields

LEMMA TaskNext == ASSUME TaskInv, [Next]_vars PROVE TaskInv'
  <1>1. CASE \E r \in Requests : \/ Call(r) \/ ReadBack(r) \/ PublishEvent(r)
                                 \/ StartComputes(r) \/ Announce(r)
    BY <1>1, CallKeeps, ReadKeeps, EventKeeps, TriggerKeeps, InvokeKeeps, StartKeeps,
       AnnounceKeeps DEF Call
  <1>2. CASE \E t \in Tasks : RunRules(t)
    BY <1>2, SendKeeps, SameKeeps, InsertKeeps, QueryKeeps, OwnedKeeps DEF RunRules
  <1>3. CASE \E t \in Threads : RunCompute(t)
    BY <1>3, PlainKeeps, EvalKeeps, AnswerKeeps, AnswerFailsKeeps, WriteFieldsKeeps,
       PublishKeeps DEF RunCompute
  <1>4. CASE UNCHANGED vars
    <2>1. TypeOK'
      BY <1>4 DEF vars, TypeOK, TaskInv
    <2>2. CarryInv'
      BY <1>4 DEF vars, CarryInv, Carries, Key, TaskInv
    <2>3. FreshInv' /\ RowInv'
      BY <1>4 DEF vars, FreshInv, RowInv, TaskInv
    <2> QED
      BY <2>1, <2>2, <2>3 DEF TaskInv
  <1> QED
    BY <1>1, <1>2, <1>3, <1>4 DEF Next

LEMMA TaskInit == ASSUME Init PROVE TaskInv
  <1>1. PICK s \in Stored :
          /\ rows = [i \in Ids |-> IF i \in DOMAIN s THEN s[i] ELSE None]
          /\ nextId = Len(s) + 1
    BY DEF Init
  <1>2. s \in Seq(Record) /\ Len(s) <= MaxId /\ MaxId \in Nat /\ MaxFaults \in Nat
    BY EventRulesAssumption
  <1>3. Len(s) \in Nat /\ DOMAIN s = 1..Len(s) /\ \A i \in DOMAIN s : s[i] \in Record
    BY <1>2
  <1> HIDE DEF Record
  <1>4. rows \in [Ids -> {None} \cup Record] /\ nextId \in 1..(MaxId + 1)
    BY <1>1, <1>2, <1>3 DEF Ids
  <1>5. RowInv
    BY <1>1, <1>2, <1>3 DEF RowInv, Init, Ids
  <1>6. Idle \in TaskRec /\ Idle.at = "idle"
    BY IdleFacts
  <1>7. task \in [Tasks -> TaskRec] /\ \A t \in Tasks : task[t] = Idle
    BY <1>6 DEF Init
  <1>8. TypeOK
    <2>1. /\ owned \in [Keys -> Nat \cup {None}] /\ shown \in [Ids -> {None} \cup Record]
          /\ faults \in 0..MaxFaults /\ applied \in [Keys -> Nat]
          /\ crossed \subseteq Keys /\ stale \subseteq Ids /\ mixed \subseteq Ids
      BY <1>2, <1>4 DEF Init
    <2>2. audit \in [Threads -> Seq({"success", "error"})]
      BY DEF Init
    <2> QED
      BY <1>4, <1>7, <2>1, <2>2, TaskType
  <1>9. CarryInv
    <2> SUFFICES ASSUME NEW t \in Tasks PROVE Carries(t)
      BY DEF CarryInv
    <2>1. task[t].at = "idle" /\ ~task[t].late
      BY <1>7 DEF Idle
    <2> QED
      BY <2>1 DEF Carries, Unstarted
  <1>10. FreshInv
    BY <1>7, TaskSets DEF FreshInv, Init
  <1> QED
    BY <1>5, <1>8, <1>9, <1>10 DEF TaskInv

LEMMA TaskCorrect == Spec => []TaskInv
  BY TaskInit, TaskNext, PTL DEF Spec

(* The variables are what they are said to be, in every behaviour: whatever *)
(* rules, computes, deletions and errors do, and whatever record a compute  *)
(* is triggered with.                                                      *)
THEOREM TypeCorrect == Spec => []TypeOK
  <1>1. TaskInv => TypeOK
    BY DEF TaskInv
  <1> QED
    BY <1>1, TaskCorrect, PTL

-----------------------------------------------------------------------------
(* The counters of the owners. *)

(* Steps that take nobody to the update, and leave the counters alone.      *)
LEMMA OwnerFrame ==
  ASSUME OwnerInv, UNCHANGED <<owned, applied, crossed>>,
         \A t \in Tasks : task'[t].at = "owned" => task'[t] = task[t]
  PROVE  OwnerInv'
  <1>1. \A t \in Tasks : task'[t] = task[t] => Key(t)' = Key(t)
    BY DEF Key
  <1>2. \A t \in Tasks : task'[t].at = "owned" =>
          task[t].at = "owned" /\ Key(t)' = Key(t) /\ task'[t].seen = task[t].seen
    BY <1>1
  <1> QED
    BY <1>2 DEF OwnerInv

LEMMA OwnerQuery ==
  ASSUME TaskInv, OwnerInv, NEW t \in Tasks, Query(t) PROVE OwnerInv'
  <1>1. /\ task[t].at = "rules" /\ task[t].rules # <<>> /\ task \in [Tasks -> TaskRec]
        /\ task[t].rec \in Record /\ UNCHANGED <<owned, applied>>
    BY DoingFacts DEF Query
  <1>2. Key(t) \in Keys \cup {None}
    BY <1>1, KeyFacts
  <1>3. CASE Advance(t) /\ UNCHANGED crossed
    <2>1. task'[t].at = "rules" /\ \A u \in Tasks : u # t => task'[u] = task[u]
      BY <1>1, <1>3, AdvanceFacts
    <2>2. \A u \in Tasks : task'[u].at = "owned" => task'[u] = task[u]
      BY <2>1
    <2> QED
      BY <1>1, <1>3, <2>2, OwnerFrame
  <1>4. CASE /\ Key(t) \notin {None, Anonymous}
             /\ task' = [task EXCEPT ![t].at = "owned", ![t].seen = owned[Key(t)]]
             /\ crossed' = IF \E u \in Tasks \ {t} : task[u].at = "owned" /\ Key(u) = Key(t)
                             THEN crossed \cup {Key(t)} ELSE crossed
    <2>1. /\ \A u \in Tasks : u # t => task'[u] = task[u]
          /\ task'[t].at = "owned" /\ task'[t].seen = owned[Key(t)] /\ Key(t)' = Key(t)
      BY <1>2, <1>4, QueryFacts
    <2>2. \A u \in Tasks : Key(u)' = Key(u)
      BY <2>1 DEF Key
    <2>3. \A k \in Keys : CountOf(owned'[k]) = CountOf(owned[k])
      BY <1>1
    <2> DEFINE k == Key(t)
    <2>4. k \in Keys /\ crossed \subseteq crossed'
          /\ (k \notin crossed' => ~ \E u \in Tasks \ {t} : task[u].at = "owned" /\ Key(u) = k)
      BY <1>2, <1>4
    <2>5. ASSUME NEW j \in Keys
          PROVE  /\ owned'[j] # None => owned'[j] > 0
                 /\ CountOf(owned'[j]) <= applied'[j] /\ (applied'[j] > 0 => owned'[j] # None)
                 /\ j \notin crossed' =>
                     /\ CountOf(owned'[j]) = applied'[j]
                     /\ \A u, w \in Tasks :
                          task'[u].at = "owned" /\ Key(u)' = j /\ task'[w].at = "owned" /\ Key(w)' = j
                          => u = w
      <3>1. /\ owned'[j] # None => owned'[j] > 0
            /\ CountOf(owned'[j]) <= applied'[j] /\ (applied'[j] > 0 => owned'[j] # None)
            /\ j \notin crossed => CountOf(owned'[j]) = applied'[j]
        BY <1>1 DEF OwnerInv
      <3>2. ASSUME j \notin crossed', NEW u \in Tasks, NEW w \in Tasks,
                   task'[u].at = "owned", Key(u)' = j, task'[w].at = "owned", Key(w)' = j
            PROVE  u = w
        <4>1. j \notin crossed /\ Key(u) = j /\ Key(w) = j
          BY <2>2, <2>4, <3>2
        <4>2. u # t => task[u].at = "owned"
          BY <2>1, <3>2
        <4>3. w # t => task[w].at = "owned"
          BY <2>1, <3>2
        <4>4. CASE u # t /\ w # t
          BY <4>1, <4>2, <4>3, <4>4 DEF OwnerInv
        <4>5. CASE u = t \/ w = t
          <5>1. j = k
            BY <4>1, <4>5
          <5> QED
            BY <2>4, <3>2, <4>1, <4>2, <4>3, <5>1
        <4> QED
          BY <4>4, <4>5
      <3> QED
        BY <2>4, <3>1, <3>2
    <2>6. ASSUME NEW u \in Tasks, task'[u].at = "owned"
          PROVE  /\ CountOf(task'[u].seen) <= applied'[Key(u)']
                 /\ Key(u)' \notin crossed' => task'[u].seen = owned'[Key(u)']
      <3>1. CASE u = t
        BY <1>1, <2>1, <2>4, <3>1 DEF OwnerInv
      <3>2. CASE u # t
        <4>1. task'[u] = task[u] /\ task[u].at = "owned" /\ Key(u)' = Key(u)
          BY <2>1, <2>2, <2>6, <3>2
        <4>2. /\ CountOf(task[u].seen) <= applied[Key(u)]
              /\ Key(u) \notin crossed => task[u].seen = owned[Key(u)]
          BY <4>1 DEF OwnerInv
        <4> QED
          BY <1>1, <2>4, <4>1, <4>2
      <3> QED
        BY <3>1, <3>2
    <2>7. owned'[Anonymous] = None
      BY <1>1 DEF OwnerInv
    <2> QED
      BY <2>5, <2>6, <2>7 DEF OwnerInv
  <1> QED
    BY <1>3, <1>4 DEF Query

LEMMA OwnerOwned ==
  ASSUME TaskInv, OwnerInv, NEW t \in Tasks, Owned(t) PROVE OwnerInv'
  <1> DEFINE k == Key(t)
  <1>1. /\ task[t].at = "owned" /\ task[t].rules # <<>> /\ k \in Keys \ {Anonymous}
        /\ task[t].seen \in Nat \cup {None}
        /\ owned' \in [Keys -> Nat \cup {None}] /\ applied' \in [Keys -> Nat]
        /\ \A j \in Keys : j # k => owned'[j] = owned[j] /\ applied'[j] = applied[j]
        /\ \/ UNCHANGED <<owned, applied>>
           \/ /\ task[t].seen # None \/ owned[k] = None
              /\ owned'[k] = CountOf(task[t].seen) + 1
              /\ applied'[k] = applied[k] + 1
    BY OwnedFacts
  <1>2. task \in [Tasks -> TaskRec] /\ Advance(t) /\ UNCHANGED crossed
    BY TaskType DEF TaskInv, Owned
  <1>3. task'[t].at = "rules" /\ \A u \in Tasks : u # t => task'[u] = task[u]
    BY <1>1, <1>2, AdvanceFacts
  <1>4. \A u \in Tasks : task'[u].at = "owned" => u # t /\ task'[u] = task[u]
    BY <1>3
  <1>5. CASE UNCHANGED <<owned, applied>>
    BY <1>2, <1>4, <1>5, OwnerFrame
  <1>6. CASE /\ owned'[k] = CountOf(task[t].seen) + 1
             /\ applied'[k] = applied[k] + 1
    <2>1. owned \in [Keys -> Nat \cup {None}] /\ applied \in [Keys -> Nat] /\ None \notin Nat
      BY EventRulesAssumption DEF TaskInv, TypeOK
    <2>2. \A u \in Tasks : u # t => Key(u)' = Key(u)
      BY <1>3 DEF Key
    <2>3. /\ CountOf(task[t].seen) <= applied[k] /\ CountOf(task[t].seen) \in Nat
          /\ k \notin crossed => task[t].seen = owned[k] /\ CountOf(owned[k]) = applied[k]
      BY <1>1, <2>1 DEF OwnerInv, CountOf
    <2>4. owned'[k] \in Nat /\ owned'[k] # None /\ owned'[k] > 0 /\ CountOf(owned'[k]) = owned'[k]
      BY <1>6, <2>1, <2>3 DEF CountOf
    <2>5. /\ CountOf(owned'[k]) <= applied'[k]
          /\ k \notin crossed => CountOf(owned'[k]) = applied'[k]
      BY <1>1, <1>6, <2>1, <2>3, <2>4
    <2>6. \A j \in Keys : j # k =>
            /\ owned'[j] # None => owned'[j] > 0
            /\ CountOf(owned'[j]) <= applied'[j] /\ (applied'[j] > 0 => owned'[j] # None)
            /\ j \notin crossed => CountOf(owned'[j]) = applied'[j]
      BY <1>1 DEF OwnerInv
    <2>7. ASSUME NEW u \in Tasks, NEW w \in Tasks, NEW j \in Keys, j \notin crossed',
                 task'[u].at = "owned", Key(u)' = j, task'[w].at = "owned", Key(w)' = j
          PROVE  u = w
      <3>1. task[u].at = "owned" /\ Key(u) = j /\ task[w].at = "owned" /\ Key(w) = j
        BY <1>4, <2>2, <2>7
      <3>2. j \notin crossed
        BY <1>2, <2>7
      <3> QED
        BY <3>1, <3>2 DEF OwnerInv
    <2>8. ASSUME NEW u \in Tasks, task'[u].at = "owned"
          PROVE  /\ CountOf(task'[u].seen) <= applied'[Key(u)']
                 /\ Key(u)' \notin crossed' => task'[u].seen = owned'[Key(u)']
      <3>1. u # t /\ task'[u] = task[u] /\ task[u].at = "owned" /\ Key(u)' = Key(u)
        BY <1>4, <2>2, <2>8
      <3>2. /\ CountOf(task[u].seen) <= applied[Key(u)]
            /\ Key(u) \notin crossed => task[u].seen = owned[Key(u)]
        BY <3>1 DEF OwnerInv
      <3>3. Key(u) \in Keys /\ task[u].seen \in Nat \cup {None}
        BY <3>1 DEF TaskInv, CarryInv, Carries, TypeOK
      <3>4. CASE Key(u) # k
        BY <1>1, <1>2, <3>1, <3>2, <3>3, <3>4
      <3>5. CASE Key(u) = k
        <4>1. k \in crossed
          BY <1>1, <3>1, <3>5 DEF OwnerInv
        <4>2. CountOf(task[u].seen) \in Nat /\ applied[k] \in Nat
          BY <1>1, <2>1, <3>3 DEF CountOf
        <4> QED
          BY <1>2, <1>6, <3>1, <3>2, <3>5, <4>1, <4>2
      <3> QED
        BY <3>4, <3>5
    <2>9. owned'[Anonymous] = None
      BY <1>1, EventRulesAssumption DEF OwnerInv, Keys
    <2> HIDE DEF k
    <2> QED
      BY <1>2, <2>4, <2>5, <2>6, <2>7, <2>8, <2>9 DEF OwnerInv
  <1> QED
    BY <1>1, <1>5, <1>6

(* The steps of a request that are about itself. *)
Writes(r) == Create(r) \/ Arrive(r) \/ Update(r) \/ Delete(r)
Steps(r) == Writes(r) \/ ReadBack(r) \/ PublishEvent(r) \/ Announce(r)

(* The steps that are about one task and leave the counters alone.          *)
LEMMA OneTask ==
  ASSUME TaskInv, NEW t \in Tasks,
         \/ t \in Requests /\ Steps(t)
         \/ Send(t) \/ Same(t) \/ Insert(t)
         \/ t \in Threads /\ RunCompute(t)
  PROVE  /\ UNCHANGED <<owned, applied, crossed>> /\ task'[t].at # "owned"
         /\ \A u \in Tasks : u # t => task'[u] = task[u]
  <1>0. task \in [Tasks -> TaskRec] /\ TypeOK
    BY TaskType DEF TaskInv
  <1>1. CASE t \in Requests /\ Writes(t)
    <2>1. PICK i \in Ids, rec \in Record \cup {None}, next \in TaskRec :
            Store(t, i, rec, next) /\ next.at \in {"stored", "read", "rules"}
      BY <1>1, CallFacts DEF Writes
    <2> QED
      BY <1>0, <1>1, <2>1, StoreFacts
  <1>6. CASE t \in Requests /\ (ReadBack(t) \/ PublishEvent(t))
    BY <1>6, ReadFacts, EventFacts
  <1>2. CASE t \in Requests /\ Announce(t)
    BY <1>0, <1>2, GotoFacts DEF Announce, History, Places, Ended
  <1>3. CASE Send(t) \/ Same(t) \/ (Insert(t) /\ Advance(t))
    <2>1. Advance(t) /\ task[t].rules # <<>> /\ UNCHANGED <<owned, applied, crossed>>
      BY <1>3 DEF Send, Same, Insert, Doing, History
    <2> QED
      BY <1>0, <2>1, AdvanceFacts
  <1>4. CASE Insert(t) /\ task' = [task EXCEPT ![t].rules = Tail(@)]
    BY <1>0, <1>4 DEF Insert, Doing, History, TaskRec
  <1>5. CASE t \in Threads /\ RunCompute(t)
    <2>1. UNCHANGED <<owned, applied, crossed>>
      BY <1>5 DEF RunCompute, Skip, EvalCel, EndInvoked, Answer, AnswerFails, WriteFields,
         PublishUpdated, AuditSuccess, Refuse, Evaluate, Conclude, History
    <2>2. CASE \E at \in {"ended", "rejected", "answered", "crashed", "check", "audit"} : Goto(t, at)
      BY <1>0, <2>1, <2>2, GotoFacts DEF Places, Ended
    <2>3. CASE EvalCel(t) /\ ~Goto(t, "ended")
      <3> DEFINE plan == OnCompute(t[2], task[t].rec)
                 who == Caller(t)
      <3>1. task' = [task EXCEPT ![t].at = "rules", ![t].who = who, ![t].rules = plan]
        BY <2>3 DEF EvalCel
      <3> HIDE DEF plan, who
      <3> QED
        BY <1>0, <2>1, <3>1 DEF TaskRec
    <2>4. CASE Answer(t)
      <3>1. PICK at \in {"audit", "write"}, v \in Outputs \cup {None} :
              task' = [task EXCEPT ![t].at = at, ![t].out = v]
        BY <2>4 DEF Answer
      <3> QED
        BY <1>0, <2>1, <3>1 DEF TaskRec
    <2>5. CASE WriteFields(t) /\ ~Goto(t, "crashed")
      <3> DEFINE how == IF rows[task[t].id] = None THEN "nowhere" ELSE "stored"
      <3>1. task' = [task EXCEPT ![t].at = "publish", ![t].kept = how]
        BY <2>5 DEF WriteFields
      <3> HIDE DEF how
      <3> QED
        BY <1>0, <2>1, <3>1 DEF TaskRec
    <2> QED
      BY <1>5, <2>2, <2>3, <2>4, <2>5 DEF RunCompute, Skip, EndInvoked, AnswerFails,
         PublishUpdated, AuditSuccess, Refuse, Evaluate, Conclude
  <1> QED
    BY <1>1, <1>2, <1>3, <1>4, <1>5, <1>6 DEF Insert, Steps

(* The same of the calls that start computes. *)
LEMMA ManyTasks ==
  ASSUME TaskInv, NEW r \in Requests, StartComputes(r) \/ Trigger(r) \/ Invoke(r)
  PROVE  /\ UNCHANGED <<rows, nextId, owned, shown, audit, faults, applied, crossed, mixed>>
         /\ r \in Tasks /\ r \notin Threads
         /\ task[r].at \in {"idle", "rules"}
         /\ task'[r].at \in {"ended", "announce"}
         /\ \A c \in Computes :
              /\ task[<<r, c>>] = Idle /\ audit[<<r, c>>] = <<>>
              /\ task'[<<r, c>>].at \in {"idle", "run", "gate"}
              /\ task'[<<r, c>>].rules = <<>> /\ task'[<<r, c>>].out = None
         /\ \A u \in Tasks : u # r /\ u \notin {r} \X Computes => task'[u] = task[u]
  <1>0. r \in Tasks /\ r \notin Threads
    BY TaskSets
  <1>1. CASE StartComputes(r)
    <2>1. UNCHANGED <<rows, nextId, owned, shown, audit, faults, applied, crossed, mixed>>
      BY <1>1 DEF StartComputes, History
    <2>2. ASSUME NEW c \in Computes
          PROVE  /\ task[<<r, c>>] = Idle /\ audit[<<r, c>>] = <<>>
                 /\ task'[<<r, c>>].at \in {"idle", "run", "gate"}
                 /\ task'[<<r, c>>].rules = <<>> /\ task'[<<r, c>>].out = None
      BY <1>1, StartFacts, IdleFacts
    <2> QED
      BY <1>0, <1>1, <2>1, <2>2, StartFacts
  <1>2. ASSUME NEW c \in Computes, NEW new \in TaskRec, task[r].at = "idle", Launched(r, c, new),
               new.at \in {"run", "gate"}, new.rules = <<>>, new.out = None
        PROVE  /\ task'[r].at = "ended"
               /\ \A d \in Computes :
                    /\ task[<<r, d>>] = Idle /\ audit[<<r, d>>] = <<>>
                    /\ task'[<<r, d>>].at \in {"idle", "run", "gate"}
                    /\ task'[<<r, d>>].rules = <<>> /\ task'[<<r, d>>].out = None
               /\ \A u \in Tasks : u # r /\ u \notin {r} \X Computes => task'[u] = task[u]
    <2>1. /\ task'[r].at = "ended" /\ task'[<<r, c>>] = new
          /\ \A u \in Tasks : u # r /\ u # <<r, c>> => task'[u] = task[u]
      BY <1>2, LaunchFacts
    <2>2. ASSUME NEW d \in Computes
          PROVE  /\ task[<<r, d>>] = Idle /\ audit[<<r, d>>] = <<>>
                 /\ task'[<<r, d>>].at \in {"idle", "run", "gate"}
                 /\ task'[<<r, d>>].rules = <<>> /\ task'[<<r, d>>].out = None
      <3>1. task[<<r, d>>] = Idle /\ audit[<<r, d>>] = <<>>
        BY <1>2 DEF TaskInv, FreshInv, Unstarted
      <3>2. <<r, d>> \in Tasks /\ <<r, d>> # r
        BY TaskSets
      <3> QED
        BY <1>2, <2>1, <3>1, <3>2, IdleFacts
    <2> QED
      BY <2>1, <2>2
  <1>3. CASE Trigger(r)
    <2>1. PICK c \in Computes, i \in Ids, rec \in Record, new \in TaskRec :
            /\ task[r].at = "idle" /\ Launched(r, c, new)
            /\ new.at = "run" /\ new.rules = <<>> /\ new.out = None
            /\ UNCHANGED <<rows, nextId, owned, shown, audit, faults, applied, crossed, mixed>>
      BY <1>3, TriggerFacts
    <2> QED
      BY <1>0, <1>2, <2>1
  <1>4. CASE Invoke(r)
    <2>1. PICK c \in Computes, v \in Values :
            /\ task[r].at = "idle" /\ Def[c].provider = "cel"
            /\ task' = [task EXCEPT ![r].at = "ended",
                 ![<<r, c>>] = [Idle EXCEPT !.at = "gate",
                                  !.rec = [owner |-> None, val |-> v, out |-> None]]]
            /\ UNCHANGED <<rows, nextId, owned, shown, audit, faults, History>>
      BY <1>4 DEF Invoke
    <2> DEFINE new == [Idle EXCEPT !.at = "gate", !.rec = [owner |-> None, val |-> v, out |-> None]]
    <2>2. Launched(r, c, new)
      BY <2>1 DEF Launched
    <2>3. new \in TaskRec /\ new.at = "gate" /\ new.rules = <<>> /\ new.out = None
      BY GateFacts
    <2> HIDE DEF new
    <2> QED
      BY <1>0, <1>2, <2>1, <2>2, <2>3 DEF History
  <1> QED
    BY <1>1, <1>3, <1>4

LEMMA OwnerNext == ASSUME TaskInv, OwnerInv, [Next]_vars PROVE OwnerInv'
  <1>1. ASSUME NEW t \in Tasks, Query(t) \/ Owned(t) PROVE OwnerInv'
    BY <1>1, OwnerQuery, OwnerOwned
  <1>2. ASSUME NEW t \in Tasks,
               \/ t \in Requests /\ Steps(t)
               \/ Send(t) \/ Same(t) \/ Insert(t)
               \/ t \in Threads /\ RunCompute(t)
        PROVE  OwnerInv'
    <2>1. /\ UNCHANGED <<owned, applied, crossed>> /\ task'[t].at # "owned"
          /\ \A u \in Tasks : u # t => task'[u] = task[u]
      BY <1>2, OneTask
    <2>2. \A u \in Tasks : task'[u].at = "owned" => task'[u] = task[u]
      BY <2>1
    <2> QED
      BY <2>1, <2>2, OwnerFrame
  <1>3. ASSUME NEW r \in Requests, StartComputes(r) \/ Trigger(r) \/ Invoke(r) PROVE OwnerInv'
    <2>1. /\ UNCHANGED <<owned, applied, crossed>> /\ task'[r].at # "owned"
          /\ \A c \in Computes : task'[<<r, c>>].at # "owned"
          /\ \A u \in Tasks : u # r /\ u \notin {r} \X Computes => task'[u] = task[u]
      BY <1>3, ManyTasks DEF History
    <2>2. \A u \in Tasks : task'[u].at = "owned" => task'[u] = task[u]
      BY <2>1
    <2> QED
      BY <2>1, <2>2, OwnerFrame
  <1>4. CASE UNCHANGED vars
    BY <1>4, OwnerFrame DEF vars
  <1> QED
    BY <1>1, <1>2, <1>3, <1>4, TaskSets DEF Next, Call, RunRules, Steps, Writes

(* The row of an owner counts the owner-keyed updates stored for its key:   *)
(* never more of them, exactly all of them where no two were under way      *)
(* together, and none lands on the row of the anonymous principal's id,     *)
(* whatever the rules, the computes and the errors (app.py:891-1057).       *)
THEOREM OwnerCorrect == Spec => []OwnerCounts
  <1>1. Init => OwnerInv
    <2> SUFFICES ASSUME Init PROVE OwnerInv
      OBVIOUS
    <2>1. \A t \in Tasks : task[t].at = "idle"
      BY IdleFacts DEF Init
    <2>2. \A k \in Keys : owned[k] = None /\ applied[k] = 0
      BY DEF Init
    <2>3. Anonymous \in Keys
      BY EventRulesAssumption DEF Keys
    <2> QED
      BY <2>1, <2>2, <2>3 DEF OwnerInv, CountOf
  <1>2. TaskInv /\ OwnerInv /\ [Next]_vars => OwnerInv'
    BY OwnerNext
  <1>3. TaskInv /\ OwnerInv => OwnerCounts
    <2> SUFFICES ASSUME TaskInv, OwnerInv PROVE OwnerCounts
      OBVIOUS
    <2>1. owned \in [Keys -> Nat \cup {None}] /\ applied \in [Keys -> Nat]
      BY DEF TaskInv, TypeOK
    <2> QED
      BY <2>1 DEF OwnerInv, OwnerCounts, CountOf
  <1> QED
    BY <1>1, <1>2, <1>3, TaskCorrect, PTL DEF Spec

-----------------------------------------------------------------------------
(* The audit log. *)

LEMMA AuditFrame ==
  ASSUME TypeOK, AuditInv, faults' \in Nat, faults <= faults',
         \A u \in Threads : (task'[u] = task[u] /\ audit'[u] = audit[u]) \/ AuditOf(u)'
  PROVE  AuditInv'
  <1> SUFFICES ASSUME NEW u \in Threads PROVE AuditOf(u)'
    BY DEF AuditInv
  <1>1. AuditOf(u) /\ faults \in Nat /\ (faults' = 0 => faults = 0)
    BY EventRulesAssumption DEF AuditInv, TypeOK
  <1>2. CASE task'[u] = task[u] /\ audit'[u] = audit[u]
    BY <1>1, <1>2 DEF AuditOf, Comp
  <1> QED
    BY <1>2

(* A rule of a compute leaves the log as it is. *)
LEMMA AuditRules ==
  ASSUME TaskInv, AuditInv, NEW t \in Tasks, RunRules(t)
  PROVE  AuditInv'
  <1>1. /\ task[t].at \in {"rules", "owned"} /\ task[t].rules # <<>> /\ UNCHANGED audit
        /\ task \in [Tasks -> TaskRec] /\ TypeOK
    BY OwnedFacts, TaskType DEF RunRules, Send, Same, Insert, Query, Owned, Doing, History, TaskInv
  <1>2. faults' \in Nat /\ faults <= faults'
    <2>1. Fault \/ Fine
      BY DEF RunRules, Send, Same, Insert, Query, Owned, Fine, Fault
    <2> QED
      BY <1>1, <2>1, FaultType, EventRulesAssumption
  <1>3. /\ \A u \in Tasks : u # t => task'[u] = task[u]
        /\ task'[t].at \in {"rules", "owned"} /\ task'[t].out = task[t].out
        /\ task'[t].kept = task[t].kept
    <2>1. CASE Advance(t)
      BY <1>1, <2>1, AdvanceFacts
    <2>2. CASE Insert(t) /\ task' = [task EXCEPT ![t].rules = Tail(@)]
      BY <1>1, <2>2 DEF TaskRec
    <2>3. CASE Query(t) /\ ~Advance(t)
      <3>1. Key(t) \in Keys \cup {None}
        BY <2>3, DoingFacts, KeyFacts DEF Query
      <3> QED
        BY <2>3, <3>1, QueryFacts DEF Query
    <2> QED
      BY <2>1, <2>2, <2>3 DEF RunRules, Send, Same, Insert, Owned
  <1>4. ASSUME t \in Threads PROVE AuditOf(t)'
    <2>1. AuditOf(t) /\ faults \in Nat /\ (faults' = 0 => faults = 0)
      BY <1>1, <1>2, <1>4, EventRulesAssumption DEF AuditInv, TypeOK
    <2>2. audit'[t] = audit[t] /\ audit[t] # <<"error">>
      BY <1>1, <2>1 DEF AuditOf
    <2> QED
      BY <1>1, <1>3, <2>1, <2>2 DEF AuditOf, Unheard, Comp
  <1>5. \A u \in Threads : (task'[u] = task[u] /\ audit'[u] = audit[u]) \/ AuditOf(u)'
    BY <1>1, <1>3, <1>4, TaskSets
  <1> QED
    BY <1>1, <1>2, <1>5, AuditFrame

(* A step of a compute is about its own log. *)
LEMMA AuditCompute ==
  ASSUME TaskInv, AuditInv, NEW t \in Threads, RunCompute(t)
  PROVE  AuditInv'
  <1>0. /\ t \in Tasks /\ task \in [Tasks -> TaskRec] /\ TypeOK /\ AuditOf(t)
        /\ faults \in Nat /\ t \in Threads
    <2>1. TypeOK /\ AuditOf(t)
      BY DEF TaskInv, AuditInv
    <2>2. t \in Tasks /\ t \in Threads
      BY TaskSets
    <2>3. task \in [Tasks -> TaskRec] /\ faults \in 0..MaxFaults
      BY <2>1, TaskType
    <2> QED
      BY <2>1, <2>2, <2>3, EventRulesAssumption
  <1>1. /\ faults' \in Nat /\ faults <= faults' /\ \A u \in Threads : u # t => audit'[u] = audit[u]
    <2>1. CASE UNCHANGED audit /\ (Fine \/ Fault)
      BY <1>0, <2>1, FaultType, EventRulesAssumption
    <2>2. CASE \E outcome \in {"success", "error"} : Audit(t, outcome)
      BY <1>0, <2>2, AuditType, EventRulesAssumption
    <2> QED
      BY <2>1, <2>2 DEF RunCompute, Skip, EvalCel, EndInvoked, Answer, AnswerFails, WriteFields,
         PublishUpdated, AuditSuccess, Refuse, Evaluate, Conclude, Fine
  <1>2. \A u \in Tasks : u # t => task'[u] = task[u]
    BY <1>0, OneTask
  <1>3. ASSUME NEW at \in Places, Goto(t, at)
        PROVE  /\ task'[t].at = at /\ task'[t].rules = task[t].rules
               /\ task'[t].out = task[t].out /\ task'[t].kept = task[t].kept
    BY <1>0, <1>3, GotoFacts
  <1>4. ASSUME audit[t] = <<>>, NEW outcome \in {"success", "error"}, Audit(t, outcome)
        PROVE  /\ audit'[t] \in {<<>>, <<outcome>>}
               /\ Comp(t).audited /\ faults' = 0 => audit'[t] = <<outcome>>
    <2>1. /\ Comp(t).audited /\ faults' = 0 => audit'[t] = Append(audit[t], outcome)
          /\ audit'[t] \in {audit[t], Append(audit[t], outcome)}
      BY <1>0, <1>4, AuditType
    <2>2. Append(<<>>, outcome) = <<outcome>>
      OBVIOUS
    <2> QED
      BY <1>4, <2>1, <2>2
  <1>5. Places = Ended \cup {"idle", "stored", "read", "rules", "owned", "run", "write", "publish", "audit",
                            "announce", "gate", "check"}
        /\ Ended = {"ended", "crashed", "answered", "rejected"}
    BY DEF Places, Ended
  <1>6. faults' = 0 => faults = 0
    BY <1>0, <1>1
  <1>7. <<"success">> # <<"error">> /\ <<"success">> # <<>> /\ <<"error">> # <<>>
    OBVIOUS
  <1>8. AuditOf(t)'
    <2>1. CASE Skip(t)
      <3>1. task'[t].at = "ended" /\ UNCHANGED audit
        BY <1>3, <1>5, <2>1 DEF Skip
      <3> QED
        BY <1>0, <1>3, <1>5, <1>6, <1>7, <2>1, <3>1 DEF Skip, AuditOf, Unheard, Comp
    <2>2. CASE EndInvoked(t)
      <3>1. task'[t].at = "ended" /\ UNCHANGED audit
        BY <1>3, <1>5, <2>2 DEF EndInvoked
      <3> QED
        BY <1>0, <1>3, <1>5, <1>6, <1>7, <2>2, <3>1 DEF EndInvoked, AuditOf, Unheard, Comp
    <2>3. CASE EvalCel(t) /\ Goto(t, "ended")
      <3>1. audit[t] = <<>> /\ task[t].rules = <<>> /\ task[t].out = None
        BY <1>0, <2>3 DEF EvalCel, AuditOf, Unheard
      <3>2. PICK outcome \in {"success", "error"} : Audit(t, outcome)
        BY <2>3 DEF EvalCel
      <3>3. task'[t].at = "ended" /\ task'[t].rules = <<>> /\ task'[t].out = None
        BY <1>3, <1>5, <2>3, <3>1
      <3> QED
        BY <1>4, <1>7, <3>1, <3>2, <3>3 DEF AuditOf, Unheard, Comp
    <2>4. CASE EvalCel(t) /\ ~Goto(t, "ended")
      <3>1. audit[t] = <<>> /\ task[t].rules = <<>> /\ task[t].out = None
        BY <1>0, <2>4 DEF EvalCel, AuditOf, Unheard
      <3>2. Audit(t, "success")
        BY <2>4 DEF EvalCel
      <3>3. task'[t].at = "rules" /\ task'[t].out = task[t].out
        <4> DEFINE plan == OnCompute(t[2], task[t].rec)
                   who == Caller(t)
        <4>1. task' = [task EXCEPT ![t].at = "rules", ![t].who = who, ![t].rules = plan]
          BY <2>4 DEF EvalCel
        <4> HIDE DEF plan, who
        <4> QED
          BY <1>0, <4>1 DEF TaskRec
      <3> QED
        BY <1>4, <1>7, <3>1, <3>2, <3>3 DEF AuditOf, Unheard, Comp
    <2>5. CASE Answer(t)
      <3>1. PICK v \in Outputs \cup {None} :
              task' = [task EXCEPT ![t].at = IF v = None THEN "audit" ELSE "write", ![t].out = v]
        BY <2>5 DEF Answer
      <3>2. /\ task'[t].at = (IF v = None THEN "audit" ELSE "write") /\ task'[t].out = v
            /\ task'[t].rules = task[t].rules
        BY <1>0, <3>1 DEF TaskRec
      <3>3. audit[t] = <<>> /\ task[t].rules = <<>> /\ audit'[t] = audit[t]
        BY <1>0, <2>5 DEF Answer, AuditOf, Unheard
      <3> QED
        BY <3>2, <3>3, <1>7 DEF AuditOf, Unheard
    <2>6. CASE AnswerFails(t)
      <3>1. audit[t] = <<>> /\ task[t].rules = <<>> /\ task[t].out = None
        BY <1>0, <2>6 DEF AnswerFails, AuditOf, Unheard
      <3>2. CASE Audit(t, "error") /\ Goto(t, "ended")
        <4>1. task'[t].at = "ended" /\ task'[t].rules = <<>> /\ task'[t].out = None
          BY <1>3, <1>5, <3>1, <3>2
        <4> QED
          BY <1>4, <1>7, <3>1, <3>2, <4>1 DEF AuditOf, Unheard, Comp
      <3>3. CASE UNCHANGED audit /\ Goto(t, "crashed")
        <4>1. task'[t].at = "crashed" /\ task'[t].rules = <<>> /\ task'[t].out = None
          BY <1>3, <1>5, <3>1, <3>3
        <4> QED
          BY <1>7, <3>1, <3>3, <4>1 DEF AuditOf, Unheard, Comp
      <3> QED
        BY <2>6, <3>2, <3>3 DEF AnswerFails
    <2>7. CASE WriteFields(t)
      <3>1. audit[t] = <<>> /\ task[t].rules = <<>> /\ audit'[t] = audit[t]
        BY <1>0, <2>7 DEF WriteFields, AuditOf, Unheard
      <3>2. CASE Goto(t, "crashed")
        <4>1. task'[t].at = "crashed" /\ task'[t].rules = <<>>
          BY <1>3, <1>5, <3>1, <3>2
        <4> QED
          BY <1>7, <3>1, <4>1 DEF AuditOf, Unheard, Comp
      <3>3. CASE task' = [task EXCEPT ![t].at = "publish", ![t].kept = IF rows[task[t].id] = None THEN "nowhere" ELSE "stored"]
        <4> DEFINE how == IF rows[task[t].id] = None THEN "nowhere" ELSE "stored"
        <4>0. how # "no" /\ task' = [task EXCEPT ![t].at = "publish", ![t].kept = how]
          BY <3>3
        <4> HIDE DEF how
        <4>1. task'[t].at = "publish" /\ task'[t].rules = <<>> /\ task'[t].kept # "no"
          BY <1>0, <3>1, <4>0 DEF TaskRec
        <4> QED
          BY <1>7, <3>1, <4>1 DEF AuditOf, Unheard, Comp
      <3> QED
        BY <2>7, <3>2, <3>3 DEF WriteFields
    <2>8. CASE PublishUpdated(t)
      <3>1. /\ audit[t] = <<>> /\ task[t].rules = <<>> /\ audit'[t] = audit[t]
            /\ task[t].out = None \/ task[t].kept # "no"
        BY <1>0, <2>8 DEF PublishUpdated, AuditOf, Unheard
      <3>2. task'[t].at = "audit"
        BY <1>3, <1>5, <2>8 DEF PublishUpdated
      <3> QED
        BY <1>3, <1>5, <1>7, <2>8, <3>1, <3>2 DEF AuditOf, Unheard, Comp, PublishUpdated
    <2>9. CASE AuditSuccess(t)
      <3>1. /\ audit[t] = <<>> /\ task[t].rules = <<>> /\ Audit(t, "success")
            /\ task[t].out = None \/ task[t].kept # "no"
        BY <1>0, <2>9 DEF AuditSuccess, AuditOf, Unheard
      <3>2. /\ task'[t].at = "ended" /\ task'[t].rules = <<>>
            /\ task'[t].out = None \/ task'[t].kept # "no"
        BY <1>3, <1>5, <2>9, <3>1 DEF AuditSuccess
      <3> QED
        BY <1>4, <1>7, <3>1, <3>2 DEF AuditOf, Unheard, Comp
    <2>10. CASE Refuse(t)
      <3>1. /\ audit[t] = <<>> /\ task[t].rules = <<>> /\ audit'[t] = audit[t]
        BY <1>0, <2>10 DEF Refuse, AuditOf, Unheard
      <3>2. task'[t].at = "rejected" /\ task'[t].rules = <<>>
        BY <1>3, <1>5, <2>10, <3>1 DEF Refuse
      <3> QED
        BY <1>7, <3>1, <3>2 DEF AuditOf, Unheard, Comp
    <2>11. CASE Evaluate(t)
      <3>1. audit[t] = <<>> /\ task[t].rules = <<>> /\ task[t].out = None
        BY <1>0, <2>11 DEF Evaluate, AuditOf, Unheard
      <3>2. CASE Audit(t, "error") /\ Goto(t, "rejected")
        <4>1. task'[t].at = "rejected" /\ task'[t].rules = <<>>
          BY <1>3, <1>5, <3>1, <3>2
        <4> QED
          BY <1>4, <1>7, <3>1, <3>2, <4>1 DEF AuditOf, Unheard, Comp
      <3>3. CASE UNCHANGED audit /\ Goto(t, "check")
        <4>1. task'[t].at = "check" /\ task'[t].rules = <<>> /\ task'[t].out = None
          BY <1>3, <1>5, <3>1, <3>3
        <4> QED
          BY <1>7, <3>1, <3>3, <4>1 DEF AuditOf, Unheard, Comp
      <3> QED
        BY <2>11, <3>2, <3>3 DEF Evaluate
    <2>12. CASE Conclude(t)
      <3>1. audit[t] = <<>> /\ task[t].rules = <<>> /\ task[t].out = None
        BY <1>0, <2>12 DEF Conclude, AuditOf, Unheard
      <3>2. CASE Goto(t, "rejected") /\ UNCHANGED audit
        <4>1. task'[t].at = "rejected" /\ task'[t].rules = <<>>
          BY <1>3, <1>5, <3>1, <3>2
        <4> QED
          BY <1>7, <3>1, <3>2, <4>1 DEF AuditOf, Unheard, Comp
      <3>3. CASE Audit(t, "success") /\ Goto(t, "answered")
        <4>1. task'[t].at = "answered" /\ task'[t].rules = <<>> /\ task'[t].out = None
          BY <1>3, <1>5, <3>1, <3>3
        <4> QED
          BY <1>4, <1>7, <3>1, <3>3, <4>1 DEF AuditOf, Unheard, Comp
      <3> QED
        BY <2>12, <3>2, <3>3 DEF Conclude
    <2> QED
      BY <2>1, <2>2, <2>3, <2>4, <2>5, <2>6, <2>7, <2>8, <2>9, <2>10, <2>11, <2>12 DEF RunCompute
  <1>9. \A u \in Threads : (task'[u] = task[u] /\ audit'[u] = audit[u]) \/ AuditOf(u)'
    <2> SUFFICES ASSUME NEW u \in Threads, u # t
                 PROVE  task'[u] = task[u] /\ audit'[u] = audit[u]
      BY <1>8
    <2> u \in Tasks
      BY TaskSets
    <2> QED
      BY <1>1, <1>2
  <1> QED
    BY <1>0, <1>1, <1>9, AuditFrame

LEMMA AuditNext == ASSUME TaskInv, AuditInv, [Next]_vars PROVE AuditInv'
  <1>0. TypeOK /\ faults \in Nat /\ faults <= faults
    BY EventRulesAssumption DEF TaskInv, TypeOK
  <1>1. ASSUME NEW r \in Requests, Steps(r)
        PROVE  AuditInv'
    <2>1. r \in Tasks /\ r \notin Threads
      BY TaskSets
    <2>2. \A u \in Tasks : u # r => task'[u] = task[u]
      BY <1>1, <2>1, OneTask
    <2>3. UNCHANGED audit /\ faults' \in Nat /\ faults <= faults'
      <3>1. UNCHANGED audit /\ (UNCHANGED faults \/ Fault)
        BY <1>1 DEF Steps, Writes, Create, Arrive, Update, Delete, Added, Store, ReadBack,
           PublishEvent, Announce, Fine
      <3> QED
        BY <1>0, <3>1 DEF Fault
    <2>4. \A u \in Threads : task'[u] = task[u] /\ audit'[u] = audit[u]
      BY <2>1, <2>2, <2>3, TaskSets
    <2> QED
      BY <1>0, <2>3, <2>4, AuditFrame
  <1>2. ASSUME NEW r \in Requests, StartComputes(r) \/ Trigger(r) \/ Invoke(r) PROVE AuditInv'
    <2>1. /\ UNCHANGED <<audit, faults>> /\ r \notin Threads
          /\ \A c \in Computes :
               /\ audit[<<r, c>>] = <<>> /\ task'[<<r, c>>].at \in {"idle", "run", "gate"}
               /\ task'[<<r, c>>].rules = <<>> /\ task'[<<r, c>>].out = None
          /\ \A u \in Tasks : u # r /\ u \notin {r} \X Computes => task'[u] = task[u]
      BY <1>2, ManyTasks
    <2>2. ASSUME NEW u \in Threads
          PROVE  (task'[u] = task[u] /\ audit'[u] = audit[u]) \/ AuditOf(u)'
      <3>0. u \in Tasks /\ u # r
        BY <2>1, TaskSets
      <3>1. CASE u \notin {r} \X Computes
        BY <2>1, <3>0, <3>1
      <3>2. CASE u \in {r} \X Computes
        <4>1. /\ audit'[u] = <<>> /\ task'[u].at \in {"idle", "run", "gate"}
              /\ task'[u].rules = <<>> /\ task'[u].out = None
          BY <2>1, <3>2
        <4> QED
          BY <4>1 DEF AuditOf, Unheard, Comp
      <3> QED
        BY <3>1, <3>2
    <2> QED
      BY <1>0, <2>1, <2>2, AuditFrame
  <1>3. ASSUME NEW t \in Tasks, RunRules(t) PROVE AuditInv'
    BY <1>3, AuditRules
  <1>4. ASSUME NEW t \in Threads, RunCompute(t) PROVE AuditInv'
    BY <1>4, AuditCompute
  <1>5. CASE UNCHANGED vars
    BY <1>0, <1>5, AuditFrame DEF vars
  <1> QED
    BY <1>1, <1>2, <1>3, <1>4, <1>5 DEF Next, Call, Steps, Writes

(* What the audit log says of a compute is what happened to it: one row at  *)
(* most, a row for each that ended by itself where rows are kept and no     *)
(* insert failed, and never "success" before the output was stored, or      *)
(* found no row to be stored in, for an answer that was refused or for a    *)
(* thread that crashed.                                                    *)
THEOREM AuditCorrect == Spec => []AuditTrue
  <1>1. Init => AuditInv
    <2> SUFFICES ASSUME Init, NEW t \in Threads PROVE AuditOf(t)
      BY DEF AuditInv
    <2>1. task[t] = Idle /\ audit[t] = <<>>
      BY TaskSets DEF Init
    <2> QED
      BY <2>1, IdleFacts DEF AuditOf, Unheard
  <1>2. TaskInv /\ AuditInv /\ [Next]_vars => AuditInv'
    BY AuditNext
  <1>3. TaskInv /\ AuditInv => AuditTrue
    <2> SUFFICES ASSUME TaskInv, AuditInv, NEW t \in Threads
                 PROVE  /\ Len(audit[t]) <= 1
                        /\ task[t].at \in {"ended", "answered"} /\ Comp(t).provider \in {"cel", "empty", "llm"}
                             /\ Comp(t).audited /\ faults = 0 => Len(audit[t]) = 1
                        /\ audit[t] = <<"success">> =>
                             /\ task[t].at \in {"rules", "owned", "ended", "answered"}
                             /\ task[t].out # None => task[t].kept # "no"
                        /\ audit[t] = <<"error">> =>
                             task[t].at \in {"ended", "rejected"} /\ task[t].rules = <<>>
      BY DEF AuditTrue
    <2>1. AuditOf(t) /\ t \in Tasks /\ t \notin Requests
      BY TaskSets DEF AuditInv
    <2>2. task[t].at \in Places /\ task[t].at \notin {"announce", "stored", "read"}
      BY <2>1 DEF TaskInv, TypeOK, CarryInv, Carries
    <2>3. audit[t] # <<>> =>
            task[t].at \in {"rules", "owned", "ended", "answered", "rejected"}
      BY <2>1, <2>2 DEF AuditOf, Unheard, Places, Ended
    <2>4. Len(<<>>) = 0 /\ Len(<<"success">>) = 1 /\ Len(<<"error">>) = 1
          /\ <<"success">> # <<"error">> /\ <<"success">> # <<>> /\ <<"error">> # <<>>
      OBVIOUS
    <2>5. audit[t] \in {<<>>, <<"success">>, <<"error">>}
      BY <2>1 DEF AuditOf
    <2>6. Len(audit[t]) <= 1 /\ (audit[t] # <<>> => Len(audit[t]) = 1)
      <3> DEFINE n == Len(audit[t])
      <3>1. n = 0 \/ n = 1
        BY <2>4, <2>5
      <3>2. audit[t] # <<>> => n = 1
        BY <2>4, <2>5
      <3> HIDE DEF n
      <3>3. n <= 1
        BY <3>1
      <3> QED
        BY <3>2, <3>3 DEF n
    <2>7. (/\ task[t].at \in {"ended", "answered"} /\ Comp(t).provider \in {"cel", "empty", "llm"}
           /\ Comp(t).audited /\ faults = 0) => audit[t] # <<>>
      <3>1. Comp(t).provider \in {"cel", "empty", "llm"} => Comp(t).provider # "none"
        OBVIOUS
      <3>2. (/\ task[t].at \in {"ended", "answered"} /\ Comp(t).audited /\ faults = 0
             /\ Comp(t).provider # "none") => audit[t] # <<>>
        BY <2>1 DEF AuditOf
      <3> QED
        BY <3>1, <3>2
    <2>8. audit[t] = <<"success">> =>
            /\ task[t].at \in {"rules", "owned", "ended", "answered"}
            /\ task[t].out # None => task[t].kept # "no"
      BY <2>1, <2>3, <2>4 DEF AuditOf
    <2>9. audit[t] = <<"error">> =>
            task[t].at \in {"ended", "rejected"} /\ task[t].rules = <<>>
      BY <2>1, <2>3, <2>4 DEF AuditOf
    <2> QED
      BY <2>6, <2>7, <2>8, <2>9
  <1> QED
    BY <1>1, <1>2, <1>3, TaskCorrect, PTL DEF Spec

-----------------------------------------------------------------------------
(* What is shown. *)

(* What is said of a task that stays as it is stays true. *)
LEMMA SameTask ==
  ASSUME NEW u \in Tasks, task'[u] = task[u]
  PROVE  /\ Busy(u)' <=> Busy(u)
         /\ Holds(u)' <=> Holds(u)
         /\ Deletes(u)' <=> Deletes(u)
         /\ Pending(u)' <=> Pending(u)
         /\ Midway(u)' <=> Midway(u)
         /\ Late(u)' <=> Late(u)
  <1>1. /\ Due(u)' = Due(u) /\ (Busy(u)' <=> Busy(u)) /\ Comp(u)' = Comp(u)
        /\ Announcing(u)' <=> Announcing(u)
    BY DEF Due, Busy, Comp, Announcing
  <1>2. (\E c \in Due(u) : Def[c].provider = "llm")' <=> \E c \in Due(u) : Def[c].provider = "llm"
    BY <1>1
  <1>3. Holds(u)' <=> Holds(u)
    BY <1>1, <1>2 DEF Holds
  <1> QED
    BY <1>1, <1>3 DEF Deletes, Pending, Midway, Late

(* Whoever publishes has a record of its own, or is about to. *)
LEMMA HoldsId ==
  ASSUME TaskInv, NEW u \in Tasks, Holds(u)
  PROVE  task[u].id \in Ids /\ task[u].rec \in Record
  <1>1. Carries(u) /\ task[u].at \in Places /\ task[u].rec \in Record
    BY DEF TaskInv, CarryInv, TypeOK, Holds
  <1>2. task[u].at \in {"stored", "read", "rules", "owned", "run", "write", "publish", "audit", "announce"}
    <2>1. task[u].at \notin {"gate", "check"}
      BY <1>1, TaskSets DEF Carries, Holds, Unstarted
    <2> QED
      BY <1>1, <2>1 DEF Holds, Busy, Places
  <1> QED
    BY <1>1, <1>2 DEF Carries

LEMMA PendingFacts ==
  ASSUME TaskInv, NEW u \in Requests
  PROVE  /\ u \in Tasks /\ u \notin Threads
         /\ Pending(u) => task[u].id \in Ids
         /\ Pending(u) /\ task[u].rec # None /\ task[u].event # "deleted" => Holds(u)
         /\ Deletes(u) => Pending(u) /\ task[u].rec # None
  <1>1. u \in Tasks /\ u \notin Threads /\ Carries(u)
    BY TaskSets DEF TaskInv, CarryInv
  <1>2. Pending(u) => task[u].id \in Ids
    BY <1>1 DEF Pending, Busy, Carries, Unstarted, Ended
  <1>3. Deletes(u) => Pending(u) /\ task[u].rec # None
    BY <1>1, EventRulesAssumption DEF Deletes, Pending, Busy, Announcing, Carries, Ended
  <1> QED
    BY <1>1, <1>2, <1>3 DEF Pending, Holds

(* Where the rows and what is shown keep their values, the copies do too. *)
Alike(f, g, i) == (f[i] = None <=> g[i] = None) /\ (f[i] # None => f[i].val = g[i].val)

(* A step of one task, about one record: what there is to show of it.      *)
LEMMA CopyStep ==
  ASSUME TaskInv, CopyInv, NEW t \in Tasks, NEW i, stale \subseteq stale',
         \A u \in Tasks : u # t => task'[u] = task[u],
         Late(t)',
         Holds(t)' /\ task'[t].id \notin stale' => Matches(t)',
         Deletes(t)' /\ task'[t].id \notin stale' => rows'[task'[t].id] = None,
         t \in Requests /\ Pending(t) => task[t].id = i,
         \A j \in Ids \ stale' : j # i => Alike(rows, rows', j) /\ Alike(shown, shown', j),
         i \notin stale' => \A u \in Tasks : u # t /\ task[u].id = i =>
           (Holds(u) => Matches(u)') /\ (Deletes(u) => rows'[i] = None),
         i \in Ids \ stale' => Tells(i)'
  PROVE  CopyInv'
  <1>1. \A u \in Tasks : Late(u)'
    <2> SUFFICES ASSUME NEW u \in Tasks PROVE Late(u)'
      OBVIOUS
    <2>1. CASE u # t
      BY <2>1, SameTask DEF CopyInv
    <2> QED
      BY <2>1
  <1>2. ASSUME NEW u \in Tasks, Holds(u)', task'[u].id \notin stale' PROVE Matches(u)'
    <2>1. CASE u # t /\ task[u].id = i
      BY <1>2, <2>1, SameTask
    <2>2. CASE u # t /\ task[u].id # i
      <3>1. Holds(u) /\ task'[u] = task[u]
        BY <1>2, <2>2, SameTask
      <3>2. task[u].id \in Ids \ stale' /\ Matches(u)
        BY <1>2, <3>1, HoldsId DEF CopyInv
      <3>3. Alike(rows, rows', task[u].id)
        BY <2>2, <3>2
      <3> QED
        BY <3>1, <3>2, <3>3 DEF Alike, Matches
    <2> QED
      BY <1>2, <2>1, <2>2
  <1>3. ASSUME NEW u \in Tasks, Deletes(u)', task'[u].id \notin stale'
        PROVE  rows'[task'[u].id] = None
    <2>1. CASE u # t /\ task[u].id = i
      BY <1>3, <2>1, SameTask
    <2>2. CASE u # t /\ task[u].id # i
      <3>1. Deletes(u) /\ task'[u] = task[u]
        BY <1>3, <2>2, SameTask
      <3>2. task[u].id \in Ids \ stale' /\ rows[task[u].id] = None
        BY <1>3, <3>1, PendingFacts DEF CopyInv, Deletes
      <3>3. Alike(rows, rows', task[u].id)
        BY <2>2, <3>2
      <3> QED
        BY <3>1, <3>2, <3>3 DEF Alike
    <2> QED
      BY <1>3, <2>1, <2>2
  <1>4. ASSUME NEW j \in Ids \ stale' PROVE Tells(j)'
    <2>1. CASE j = i
      BY <1>4, <2>1
    <2>2. CASE j # i
      <3>1. Tells(j) /\ Alike(rows, rows', j) /\ Alike(shown, shown', j)
        BY <1>4, <2>2 DEF CopyInv
      <3>2. ASSUME NEW u \in Requests, Pending(u), task[u].id = j
            PROVE  task'[u] = task[u] /\ Pending(u)' /\ (Deletes(u) => Deletes(u)')
        <4>1. u \in Tasks /\ u # t
          BY <2>2, <3>2, PendingFacts
        <4> QED
          BY <3>2, <4>1, SameTask
      <3>3. Awaited(j) => Awaited(j)'
        BY <3>2 DEF Awaited
      <3>4. ASSUME NEW u \in Requests, Deletes(u), task[u].id = j
            PROVE  \E w \in Requests : Deletes(w)' /\ task'[w].id = j
        BY <3>2, <3>4, PendingFacts
      <3> QED
        BY <3>1, <3>3, <3>4 DEF Tells, Alike
    <2> QED
      BY <2>1, <2>2
  <1> QED
    BY <1>1, <1>2, <1>3, <1>4 DEF CopyInv

(* The steps that go on with the record they have. *)
Proceed(t) == \/ t \in Requests /\ Announce(t)
              \/ RunRules(t)
              \/ t \in Threads /\ RunCompute(t)

LEMMA ProceedFacts ==
  ASSUME TaskInv, NEW t \in Tasks, Proceed(t)
  PROVE  /\ \A u \in Tasks : u # t => task'[u] = task[u]
         /\ task'[t].id = task[t].id /\ task'[t].rec = task[t].rec
         /\ task'[t].event = task[t].event /\ task'[t].late = task[t].late
         /\ Busy(t)
         /\ RunRules(t) => task[t].at \in {"rules", "owned"} /\ task'[t].at \in {"rules", "owned"}
         /\ task[t].at \notin {"stored", "read"} /\ task'[t].at \notin {"stored", "read", "announce"}
  <1>0. task \in [Tasks -> TaskRec] /\ TypeOK
    BY TaskType DEF TaskInv
  <1>1. CASE Advance(t) /\ (Send(t) \/ Same(t) \/ Insert(t) \/ Query(t) \/ Owned(t))
    <2>1. task[t].rules # <<>> /\ task[t].at \in {"rules", "owned"}
      BY <1>1, OwnedFacts DEF Send, Same, Insert, Query, Owned, Doing
    <2> QED
      BY <1>0, <1>1, <2>1, AdvanceFacts DEF Busy, Ended
  <1>2. CASE Insert(t) /\ task' = [task EXCEPT ![t].rules = Tail(@)]
    BY <1>0, <1>2 DEF Insert, Doing, TaskRec, Busy, Ended
  <1>3. CASE Query(t) /\ ~Advance(t)
    <2>1. Key(t) \in Keys \cup {None} /\ task[t].at = "rules"
      BY <1>3, DoingFacts, KeyFacts DEF Query
    <2> QED
      BY <1>3, <2>1, QueryFacts DEF Query, Busy, Ended
  <1>4. CASE \E at \in {"ended", "rejected", "answered", "crashed", "check", "audit"} :
               /\ Goto(t, at) /\ Busy(t) /\ ~RunRules(t) /\ task[t].at \notin {"stored", "read"}
    BY <1>0, <1>4, GotoFacts DEF Places, Ended
  <1>5. CASE t \in Threads /\ RunCompute(t)
    <2>1. Busy(t) /\ task[t].at \notin {"stored", "read"}
      BY <1>5 DEF RunCompute, Skip, EvalCel, EndInvoked, Answer, AnswerFails, WriteFields,
         PublishUpdated, AuditSuccess, Refuse, Evaluate, Conclude, Busy, Ended
    <2>2. CASE RunRules(t)
      BY <1>1, <1>2, <1>3, <2>2 DEF RunRules, Send, Same, Insert, Query, Owned
    <2>3. CASE ~RunRules(t) /\ \E at \in {"ended", "rejected", "answered", "crashed", "check", "audit"} : Goto(t, at)
      BY <1>4, <2>1, <2>3
    <2>4. CASE EvalCel(t) /\ ~Goto(t, "ended")
      <3> DEFINE plan == OnCompute(t[2], task[t].rec)
                 who == Caller(t)
      <3>1. task[t].at = "run" /\ task' = [task EXCEPT ![t].at = "rules", ![t].who = who, ![t].rules = plan]
        BY <2>4 DEF EvalCel
      <3>2. ~RunRules(t)
        BY <3>1 DEF RunRules, Send, Same, Insert, Query, Owned, Doing
      <3> HIDE DEF plan, who
      <3> QED
        BY <1>0, <2>1, <3>1, <3>2 DEF TaskRec
    <2>5. CASE Answer(t)
      <3>1. PICK at \in {"audit", "write"}, v \in Outputs \cup {None} :
              task' = [task EXCEPT ![t].at = at, ![t].out = v]
        BY <2>5 DEF Answer
      <3>2. ~RunRules(t)
        BY <2>5 DEF Answer, RunRules, Send, Same, Insert, Query, Owned, Doing
      <3> QED
        BY <1>0, <2>1, <3>1, <3>2 DEF TaskRec
    <2>6. CASE WriteFields(t) /\ ~Goto(t, "crashed")
      <3> DEFINE how == IF rows[task[t].id] = None THEN "nowhere" ELSE "stored"
      <3>1. task' = [task EXCEPT ![t].at = "publish", ![t].kept = how]
        BY <2>6 DEF WriteFields
      <3>2. ~RunRules(t)
        BY <2>6 DEF WriteFields, RunRules, Send, Same, Insert, Query, Owned, Doing
      <3> HIDE DEF how
      <3> QED
        BY <1>0, <2>1, <3>1, <3>2 DEF TaskRec
    <2> QED
      BY <1>5, <2>2, <2>3, <2>4, <2>5, <2>6 DEF RunCompute, Skip, EndInvoked, AnswerFails,
         PublishUpdated, AuditSuccess, Refuse, Evaluate, Conclude
  <1>6. CASE t \in Requests /\ Announce(t)
    <2>1. Goto(t, "ended") /\ Busy(t) /\ ~RunRules(t) /\ task[t].at \notin {"stored", "read"}
      BY <1>6 DEF Announce, Busy, Ended, RunRules, Send, Same, Insert, Query, Owned, Doing
    <2> QED
      BY <1>4, <2>1
  <1> QED
    BY <1>1, <1>2, <1>3, <1>5, <1>6 DEF Proceed, RunRules, Send, Same, Insert, Owned

(* Whoever still holds a copy held it before, and who is to announce a      *)
(* record is so until it has.                                              *)
LEMMA ProceedHolds ==
  ASSUME TaskInv, CopyInv, NEW t \in Tasks, Proceed(t)
  PROVE  /\ Holds(t)' => Holds(t)
         /\ Late(t)' /\ ~Deletes(t) /\ ~Deletes(t)'
         /\ Pending(t)' => Pending(t)
         /\ ~(t \in Requests /\ Announce(t)) => (Pending(t) => Pending(t)')
  <1>1. /\ task'[t].id = task[t].id /\ task'[t].rec = task[t].rec
        /\ task'[t].event = task[t].event /\ task'[t].late = task[t].late
        /\ Busy(t)
        /\ RunRules(t) => task[t].at \in {"rules", "owned"} /\ task'[t].at \in {"rules", "owned"}
        /\ task[t].at \notin {"stored", "read"} /\ task'[t].at \notin {"stored", "read", "announce"}
    BY ProceedFacts
  <1>2. Due(t)' = Due(t) /\ (Announcing(t)' <=> Announcing(t)) /\ Comp(t)' = Comp(t)
    BY <1>1 DEF Due, Announcing, Comp
  <1>3. (\E c \in Due(t) : Def[c].provider = "llm")' <=> \E c \in Due(t) : Def[c].provider = "llm"
    BY <1>2
  <1>4. Holds(t)' => Holds(t)
    BY <1>1, <1>2, <1>3 DEF Holds
  <1>5. Late(t)' /\ ~Deletes(t) /\ ~Deletes(t)'
    BY <1>1 DEF CopyInv, Late, Deletes
  <1>6. Pending(t)' => Pending(t)
    BY <1>1, <1>2 DEF Pending
  <1>7. ASSUME ~(t \in Requests /\ Announce(t)), Pending(t) PROVE Pending(t)'
    <2>1. RunRules(t)
      BY <1>7, TaskSets DEF Proceed, Pending
    <2> QED
      BY <1>1, <1>2, <1>7, <2>1 DEF Pending, Busy, Ended
  <1> QED
    BY <1>4, <1>5, <1>6, <1>7

(* The steps that go on with a record and publish nothing. *)
LEMMA CopyProceed ==
  ASSUME TaskInv, CopyInv, NEW t \in Tasks, Proceed(t),
         ~(t \in Requests /\ Announce(t)), stale \subseteq stale',
         \A i \in Ids \ stale' : Alike(rows, rows', i) /\ Alike(shown, shown', i)
  PROVE  CopyInv'
  <1>0. PICK i : i = task[t].id
    OBVIOUS
  <1>1. /\ \A u \in Tasks : u # t => task'[u] = task[u]
        /\ task[t].id = i /\ task'[t].id = i /\ task'[t].rec = task[t].rec
    BY <1>0, ProceedFacts
  <1>2. /\ Holds(t)' => Holds(t)
        /\ Late(t)' /\ ~Deletes(t) /\ ~Deletes(t)' /\ (Pending(t) <=> Pending(t)')
    BY ProceedHolds
  <1>3. ASSUME NEW u \in Tasks, task'[u].id = task[u].id, task'[u].rec = task[u].rec,
               Holds(u), task[u].id \notin stale'
        PROVE  Matches(u)'
    <2>1. Matches(u) /\ task[u].id \in Ids
      BY <1>3, HoldsId DEF CopyInv
    <2>2. Alike(rows, rows', task[u].id)
      BY <1>3, <2>1
    <2> QED
      BY <1>3, <2>1, <2>2 DEF Alike, Matches
  <1>4. Holds(t)' /\ task'[t].id \notin stale' => Matches(t)'
    BY <1>1, <1>2, <1>3
  <1>5. ASSUME i \notin stale', NEW u \in Tasks, u # t, task[u].id = i
        PROVE  (Holds(u) => Matches(u)') /\ (Deletes(u) => rows'[i] = None)
    <2>1. Holds(u) => Matches(u)'
      BY <1>1, <1>3, <1>5
    <2>2. ASSUME Deletes(u) PROVE rows'[i] = None
      <3>1. rows[i] = None /\ i \in Ids
        BY <1>5, <2>2, PendingFacts DEF CopyInv, Deletes
      <3>2. Alike(rows, rows', i)
        BY <1>5, <3>1
      <3> QED
        BY <3>1, <3>2 DEF Alike
    <2> QED
      BY <2>1, <2>2
  <1>6. ASSUME i \in Ids \ stale' PROVE Tells(i)'
    <2>1. Tells(i) /\ Alike(rows, rows', i) /\ Alike(shown, shown', i)
      BY <1>6 DEF CopyInv
    <2>2. ASSUME NEW u \in Requests
          PROVE  task'[u].id = task[u].id /\ (Pending(u) => Pending(u)') /\ (Deletes(u) => Deletes(u)')
      <3>1. CASE u # t
        BY <1>1, <3>1, PendingFacts, SameTask
      <3> QED
        BY <1>1, <1>2, <3>1
    <2>3. ASSUME Awaited(i) PROVE Awaited(i)'
      <3>1. PICK u \in Requests : Pending(u) /\ task[u].id = i
        BY <2>3 DEF Awaited
      <3>2. Pending(u)' /\ task'[u].id = i
        BY <2>2, <3>1
      <3> QED
        BY <3>2 DEF Awaited
    <2>4. ASSUME NEW u \in Requests, Deletes(u), task[u].id = i
          PROVE  \E w \in Requests : Deletes(w)' /\ task'[w].id = i
      <3>1. Deletes(u)' /\ task'[u].id = i
        BY <2>2, <2>4
      <3> QED
        BY <3>1
    <2> QED
      BY <2>1, <2>3, <2>4 DEF Tells, Alike
  <1> QED
    BY <1>1, <1>2, <1>4, <1>5, <1>6, CopyStep

(* A write under somebody's copy is marked, so the others have copies of     *)
(* other records, or none that they would publish.                         *)
LEMMA StoreAlone ==
  ASSUME TaskInv, CopyInv, NEW r \in Requests, NEW i \in Ids, NEW rec, NEW next,
         Store(r, i, rec, next), i \notin stale',
         NEW u \in Tasks, u # r, task[u].id = i
  PROVE  /\ ~Holds(u) /\ ~Deletes(u) /\ (Pending(u) => task[u].rec = None)
         /\ ~Midway(u)
  <1>1. ~Copied(r, i)
    BY DEF Store
  <1>2. ASSUME Holds(u) PROVE FALSE
    <2>1. Busy(u) /\ task[u].rec # None
      BY <1>2 DEF Holds
    <2>2. CASE u \in Requests /\ Announcing(u)
      BY <1>1, <2>1, <2>2 DEF Copied
    <2>3. CASE u \in Requests /\ \E c \in Due(u) : Def[c].provider = "llm"
      BY <1>1, <2>1, <2>3 DEF Copied, Due
    <2>4. CASE u \in Threads /\ Comp(u).provider = "llm"
      <3>1. u[2] \in Computes /\ u[1] \in Requests /\ u = <<u[1], u[2]>>
        BY <2>4, TaskSets
      <3>2. u \in Requests \X {u[2]}
        BY <3>1
      <3> QED
        BY <1>1, <2>1, <2>4, <3>1, <3>2 DEF Copied, Comp
    <2> QED
      BY <1>2, <2>2, <2>3, <2>4 DEF Holds
  <1>3. Pending(u) => task[u].rec = None
    BY <1>1 DEF Pending, Copied
  <1>4. ~Deletes(u)
    BY <1>3, PendingFacts DEF Deletes
  <1>5. Midway(u) => Holds(u)
    BY AtFacts, EventRulesAssumption DEF Midway, Holds, Busy, Ended, CopyInv, Late
  <1> QED
    BY <1>2, <1>3, <1>4, <1>5

LEMMA CopyWrite ==
  ASSUME TaskInv, CopyInv, NEW r \in Requests, Writes(r)
  PROVE  CopyInv'
  <1>1. PICK i \in Ids, rec \in Record \cup {None}, next \in TaskRec :
           /\ Store(r, i, rec, next) /\ next.id = i
           /\ next.at \in {"stored", "read", "rules"} /\ (next.late <=> next.at = "rules")
           /\ \/ next.event = "created" /\ next.at # "read" /\ rec # None /\ next.rec = rec
              \/ next.event = "updated" /\ next.at = "stored" /\ rec # None /\ next.rec = None
              \/ next.event = "deleted" /\ next.at = "read" /\ rec = None
    BY CallFacts DEF Writes
  <1>2. /\ r \in Tasks /\ r \notin Threads /\ task[r].at = "idle" /\ task'[r] = next
        /\ \A u \in Tasks : u # r => task'[u] = task[u]
        /\ rows'[i] = rec /\ \A j \in Ids : j # i => rows'[j] = rows[j]
        /\ stale \subseteq stale' /\ UNCHANGED shown
    BY <1>1, StoreFacts DEF TaskInv
  <1>3. ~Pending(r) /\ Pending(r)' /\ Late(r)'
    BY <1>1, <1>2 DEF Pending, Busy, Ended, Announcing, Late
  <1>4. Holds(r)' => Matches(r)'
    BY <1>1, <1>2 DEF Holds, Matches
  <1>5. Deletes(r)' => rows'[i] = None
    BY <1>1, <1>2 DEF Deletes
  <1>6. i \notin stale' => \A u \in Tasks : u # r /\ task[u].id = i => ~Holds(u) /\ ~Deletes(u)
    BY <1>1, StoreAlone
  <1>7. Tells(i)'
    <2>1. Awaited(i)'
      BY <1>1, <1>2, <1>3 DEF Awaited
    <2>2. rows'[i] = None => Deletes(r)' /\ task'[r].id = i
      BY <1>1, <1>2 DEF Deletes
    <2> QED
      BY <2>1, <2>2 DEF Tells
  <1>8. \A j \in Ids \ stale' : j # i => Alike(rows, rows', j) /\ Alike(shown, shown', j)
    BY <1>2 DEF Alike
  <1> QED
    BY <1>1, <1>2, <1>3, <1>4, <1>5, <1>6, <1>7, <1>8, CopyStep

LEMMA CopyRead ==
  ASSUME TaskInv, CopyInv, NEW r \in Requests, ReadBack(r)
  PROVE  CopyInv'
  <1>0. PICK i : i = task[r].id
    OBVIOUS
  <1>1. /\ r \in Tasks /\ r \notin Threads /\ task[r].at = "stored" /\ ~task[r].late
        /\ i \in Ids /\ task[r].event # "deleted"
        /\ \A u \in Tasks : u # r => task'[u] = task[u]
        /\ task'[r].id = i /\ task'[r].event = task[r].event /\ ~task'[r].late
        /\ UNCHANGED <<rows, shown>>
        /\ \/ /\ task'[r].at = "ended" /\ task'[r].rec = task[r].rec
              /\ \/ ReadCopy(r) = None /\ UNCHANGED stale
                 \/ stale' = stale \cup {i}
           \/ /\ task'[r].at = "read" /\ task'[r].rec = ReadCopy(r) /\ ReadCopy(r) \in Record
              /\ UNCHANGED stale
    BY <1>0, ReadFacts
  <1>2. ~Deletes(r) /\ ~Deletes(r)' /\ Late(r)'
    BY <1>1 DEF Deletes, Late
  <1>3. task[r].event = "created" => task[r].rec \in Record /\ Holds(r)
    BY <1>1, EventRulesAssumption DEF TaskInv, CarryInv, Carries, Holds, Busy, Ended, Announcing
  <1>4. Holds(r)' /\ i \notin stale' => Matches(r)'
    <2> SUFFICES ASSUME Holds(r)', i \notin stale' PROVE Matches(r)'
      OBVIOUS
    <2>1. task'[r].rec = ReadCopy(r) /\ ReadCopy(r) \in Record /\ i \notin stale
      BY <1>1 DEF Holds, Busy, Ended
    <2>2. CASE task[r].event = "created"
      BY <1>0, <1>1, <1>3, <2>1, <2>2 DEF ReadCopy, CopyInv, Matches
    <2>3. CASE task[r].event # "created"
      BY <1>0, <1>1, <2>1, <2>3, EventRulesAssumption DEF ReadCopy, Matches
    <2> QED
      BY <2>2, <2>3
  <1>5. ASSUME i \notin stale', NEW u \in Tasks, u # r, task[u].id = i
        PROVE  (Holds(u) => Matches(u)') /\ (Deletes(u) => rows'[i] = None)
    BY <1>1, <1>5 DEF CopyInv, Matches
  <1>6. ASSUME i \in Ids \ stale' PROVE Tells(i)'
    <2>1. Tells(i)
      BY <1>1, <1>6 DEF CopyInv
    <2>2. ASSUME NEW u \in Requests, Deletes(u), task[u].id = i
          PROVE  \E w \in Requests : Deletes(w)' /\ task'[w].id = i
      <3>1. u # r /\ u \in Tasks
        BY <1>2, <2>2, PendingFacts
      <3> QED
        BY <1>1, <2>2, <3>1, SameTask
    <2>3. CASE task'[r].at = "read"
      <3>1. Pending(r)'
        BY <1>1, <2>3 DEF Pending, Busy, Ended, Announcing
      <3>2. Awaited(i)'
        BY <1>1, <3>1 DEF Awaited
      <3> QED
        BY <1>1, <2>1, <2>2, <3>2 DEF Tells
    <2>4. CASE ReadCopy(r) = None
      <3>1. rows[i] = None
        BY <1>0, <1>3, <2>4, EventRulesAssumption DEF ReadCopy
      <3> QED
        BY <1>1, <2>1, <2>2, <3>1 DEF Tells
    <2> QED
      BY <1>1, <1>6, <2>3, <2>4
  <1>7. \A j \in Ids \ stale' : j # i => Alike(rows, rows', j) /\ Alike(shown, shown', j)
    BY <1>1 DEF Alike
  <1>8. stale \subseteq stale'
    BY <1>1
  <1> QED
    BY <1>0, <1>1, <1>2, <1>4, <1>5, <1>6, <1>7, <1>8, CopyStep

(* What a request publishes, at once or after its rules. *)
Publishes(r) == PublishEvent(r) \/ Announce(r)
LEMMA PublishFacts ==
  ASSUME TaskInv, CopyInv, NEW r \in Requests, Publishes(r)
  PROVE  /\ r \in Tasks /\ r \notin Threads
         /\ task[r].id \in Ids /\ task[r].rec \in Record /\ Pending(r)
         /\ \A u \in Tasks : u # r => task'[u] = task[u]
         /\ task'[r].at \in {"rules", "ended"} /\ (task'[r].at = "rules" => ~task'[r].late)
         /\ task'[r].id = task[r].id /\ task'[r].rec = task[r].rec
         /\ task'[r].event = task[r].event /\ task'[r].late = task[r].late
         /\ task[r].event = "deleted" => Deletes(r)
         /\ shown'[task[r].id] = IF task[r].event = "deleted" THEN None ELSE task[r].rec
         /\ \A j \in Ids : j # task[r].id => shown'[j] = shown[j]
         /\ UNCHANGED <<rows, stale, mixed>>
  <1>1. CASE PublishEvent(r)
    <2>1. /\ r \in Tasks /\ r \notin Threads /\ task[r].at = "read" /\ ~task[r].late
          /\ task[r].id \in Ids /\ task[r].rec \in Record
          /\ \A u \in Tasks : u # r => task'[u] = task[u]
          /\ task'[r].at = "rules" /\ task'[r].id = task[r].id /\ task'[r].rec = task[r].rec
          /\ task'[r].event = task[r].event /\ ~task'[r].late
          /\ shown'[task[r].id] = IF task[r].event = "deleted" THEN None ELSE task[r].rec
          /\ \A j \in Ids : j # task[r].id => shown'[j] = shown[j]
          /\ UNCHANGED <<rows, stale, mixed>>
      BY <1>1, EventFacts
    <2>2. task[r].late = FALSE /\ task'[r].late = FALSE
      <3>1. task[r] \in TaskRec /\ task'[r] \in TaskRec
        BY <1>1, <2>1, EventFacts, TaskType DEF TaskInv
      <3> QED
        BY <2>1, <3>1 DEF TaskRec
    <2> QED
      BY <2>1, <2>2 DEF Pending, Busy, Ended, Announcing, Deletes
  <1>2. CASE Announce(r)
    <2>1. r \in Tasks /\ r \notin Threads /\ Proceed(r) /\ task[r].at = "announce"
      BY <1>2, TaskSets DEF Proceed, Announce
    <2>2. task[r].late /\ task[r].event # "deleted"
      BY <2>1 DEF CopyInv, Late
    <2>3. task[r].id \in Ids /\ task[r].rec \in Record
      BY <2>1 DEF TaskInv, CarryInv, Carries
    <2>4. /\ UNCHANGED <<rows, stale, mixed>> /\ Goto(r, "ended")
          /\ shown' = [shown EXCEPT ![task[r].id] = task[r].rec]
      BY <1>2 DEF Announce, History
    <2>5. task'[r].at = "ended" /\ task \in [Tasks -> TaskRec]
      BY <2>1, <2>4, GotoFacts, TaskType DEF TaskInv, Places, Ended
    <2>6. /\ shown'[task[r].id] = task[r].rec
          /\ \A j \in Ids : j # task[r].id => shown'[j] = shown[j]
      BY <2>3, <2>4 DEF TaskInv, TypeOK
    <2> QED
      BY <2>1, <2>2, <2>3, <2>4, <2>5, <2>6, ProceedFacts DEF Pending, Busy, Ended, Announcing
  <1> QED
    BY <1>1, <1>2 DEF Publishes

LEMMA CopyShow ==
  ASSUME TaskInv, CopyInv, NEW r \in Requests, Publishes(r) PROVE CopyInv'
  <1>0. PICK i, rec : i = task[r].id /\ rec = task[r].rec
    OBVIOUS
  <1>1. /\ r \in Tasks /\ r \notin Threads
        /\ i \in Ids /\ rec \in Record /\ rec # None /\ Pending(r)
        /\ \A u \in Tasks : u # r => task'[u] = task[u]
        /\ task'[r].at \in {"rules", "ended"} /\ task'[r].id = i /\ task'[r].rec = rec
        /\ task'[r].event = task[r].event /\ task'[r].late = task[r].late
        /\ task[r].event = "deleted" => Deletes(r)
        /\ shown'[i] = IF task[r].event = "deleted" THEN None ELSE rec
        /\ \A j \in Ids : j # i => shown'[j] = shown[j]
        /\ UNCHANGED <<rows, stale, mixed>>
    BY <1>0, PublishFacts, EventRulesAssumption
  <1>2. ~Deletes(r)' /\ Late(r)'
    BY <1>1 DEF Deletes, Late, CopyInv
  <1>3. task[r].event # "deleted" /\ i \notin stale => rows[i] # None /\ rec.val = rows[i].val
    BY <1>0, <1>1, PendingFacts DEF CopyInv, Matches
  <1>4. Holds(r)' /\ i \notin stale' => Matches(r)'
    BY <1>1, <1>3 DEF Holds, Matches
  <1>5. ASSUME i \notin stale', NEW u \in Tasks, u # r, task[u].id = i
        PROVE  (Holds(u) => Matches(u)') /\ (Deletes(u) => rows'[i] = None)
    BY <1>1, <1>5 DEF CopyInv, Matches
  <1>6. ASSUME i \in Ids \ stale' PROVE Tells(i)'
    <2>1. task[r].event = "deleted" => rows[i] = None
      BY <1>0, <1>1, <1>6 DEF CopyInv
    <2> QED
      BY <1>1, <1>3, <1>6, <2>1 DEF Tells
  <1>7. \A j \in Ids \ stale' : j # i => Alike(rows, rows', j) /\ Alike(shown, shown', j)
    BY <1>1 DEF Alike
  <1> QED
    BY <1>0, <1>1, <1>2, <1>4, <1>5, <1>6, <1>7, CopyStep

LEMMA CopyPublish ==
  ASSUME TaskInv, CopyInv, NEW t \in Threads, PublishUpdated(t) PROVE CopyInv'
  <1>0. PICK i, new : i = task[t].id /\ new = [task[t].rec EXCEPT !.out = task[t].out]
    OBVIOUS
  <1>1. /\ t \in Tasks /\ Proceed(t) /\ t \notin Requests
        /\ task[t].at = "publish" /\ Comp(t).provider = "llm"
    BY TaskSets, AtFacts DEF Proceed, PublishUpdated, RunCompute
  <1>2. i \in Ids /\ task[t].rec \in Record /\ task \in [Tasks -> TaskRec]
    BY <1>0, <1>1, AtFacts
  <1>3. new # None /\ new.val = task[t].rec.val
    <2>1. new \in Record /\ new.val = task[t].rec.val
      <3> task[t].out \in Outputs \cup {None}
        BY <1>1 DEF TaskInv, TypeOK
      <3> QED
        BY <1>0, <1>2 DEF Record
    <2> QED
      BY <2>1, EventRulesAssumption
  <1>4. UNCHANGED <<rows, stale>> /\ shown' = [shown EXCEPT ![i] = new] /\ Goto(t, "audit")
    BY <1>0 DEF PublishUpdated, History
  <1>5. shown'[i] = new /\ \A j \in Ids : j # i => shown'[j] = shown[j]
    BY <1>2, <1>4 DEF TaskInv, TypeOK
  <1>6. /\ \A u \in Tasks : u # t => task'[u] = task[u]
        /\ task'[t].id = i /\ task'[t].rec = task[t].rec /\ task'[t].event = task[t].event
    BY <1>0, <1>1, ProceedFacts
  <1>7. /\ Holds(t)' => Holds(t)
        /\ Late(t)' /\ ~Deletes(t)'
    BY <1>1, ProceedHolds
  <1>8. Holds(t)' /\ i \notin stale' => Matches(t)'
    BY <1>0, <1>1, <1>4, <1>6, <1>7 DEF CopyInv, Matches
  <1>9. ASSUME i \notin stale', NEW u \in Tasks, u # t, task[u].id = i
        PROVE  (Holds(u) => Matches(u)') /\ (Deletes(u) => rows'[i] = None)
    BY <1>4, <1>6, <1>9 DEF CopyInv, Matches
  <1>10. ASSUME i \in Ids \ stale' PROVE Tells(i)'
    <2>1. rows[i] # None /\ new.val = rows[i].val
      <3>1. Holds(t)
        BY <1>1, <1>2, EventRulesAssumption DEF Holds, Busy, Ended, CopyInv, Late
      <3> QED
        BY <1>0, <1>1, <1>3, <1>4, <1>10, <3>1 DEF CopyInv, Matches
    <2> QED
      BY <1>3, <1>4, <1>5, <2>1 DEF Tells
  <1>11. \A j \in Ids \ stale' : j # i => Alike(rows, rows', j) /\ Alike(shown, shown', j)
    BY <1>4, <1>5 DEF Alike
  <1> QED
    BY <1>1, <1>4, <1>6, <1>7, <1>8, <1>9, <1>10, <1>11, CopyStep

(* The computes that are started hold what was held before, or what is      *)
(* stored; the others go on.                                               *)
LEMMA ManyHolds ==
  ASSUME TaskInv, CopyInv, NoneForDeleted, NEW r \in Requests,
         StartComputes(r) \/ Trigger(r) \/ Invoke(r)
  PROVE  /\ stale \subseteq stale'
         /\ Late(r)' /\ \A c \in Computes : Late(<<r, c>>)'
         /\ ~Deletes(r) /\ ~Deletes(r)'
         /\ Pending(r) => Pending(r)'
         /\ Pending(r)' => /\ Pending(r) /\ task'[r].id = task[r].id /\ task'[r].rec = task[r].rec
                           /\ task'[r].event = task[r].event
         /\ Holds(r)' => Holds(r) /\ task'[r].id = task[r].id /\ task'[r].rec = task[r].rec
         /\ \A c \in Computes : Holds(<<r, c>>)' /\ task'[<<r, c>>].id \notin stale' =>
              Matches(<<r, c>>)'
  <1>0. /\ \A c \in Computes : /\ <<r, c>> \in Threads /\ <<r, c>> \in Tasks /\ <<r, c>> # r
                              /\ <<r, c>> \notin Requests /\ Comp(<<r, c>>) = Def[c]
        /\ UNCHANGED rows /\ r \in Tasks /\ r \notin Threads
    BY ManyTasks, TaskSets DEF Comp
  <1>1. CASE StartComputes(r)
    <2>1. /\ task[r].at = "rules" /\ task[r].id \in Ids /\ task[r].rec \in Record
          /\ task'[r].at = (IF task[r].late THEN "announce" ELSE "ended")
          /\ task'[r].id = task[r].id /\ task'[r].rec = task[r].rec
          /\ task'[r].event = task[r].event /\ task'[r].late = task[r].late
          /\ \A c \in Computes :
               /\ c \notin Due(r) => task'[<<r, c>>] = Idle
               /\ c \in Due(r) => /\ task'[<<r, c>>].id = task[r].id
                                  /\ task'[<<r, c>>].rec = task[r].rec
                                  /\ task'[<<r, c>>].event = "none" /\ task'[<<r, c>>].at = "run"
          /\ UNCHANGED stale
      <3>1. UNCHANGED stale
        BY <1>1 DEF StartComputes, History
      <3> QED
        BY <1>1, <3>1, StartFacts
    <2>2. Late(r)' /\ ~Deletes(r) /\ ~Deletes(r)'
      BY <1>0, <2>1 DEF Late, CopyInv, Deletes
    <2>3. Busy(r) /\ (Busy(r)' <=> task[r].late) /\ (Announcing(r)' <=> task[r].late)
          /\ (Announcing(r) <=> task[r].late)
      BY <2>1 DEF Busy, Ended, Announcing
    <2>4. Pending(r) <=> Pending(r)'
      BY <2>3 DEF Pending
    <2>5. ASSUME Holds(r)' PROVE Holds(r)
      <3>1. Busy(r)' /\ task[r].rec # None /\ task[r].event # "deleted"
        BY <2>1, <2>5 DEF Holds
      <3> QED
        BY <1>0, <2>3, <3>1 DEF Holds
    <2>6. ASSUME NEW c \in Computes PROVE Late(<<r, c>>)'
      BY <1>0, <2>1, IdleFacts DEF Late, Idle
    <2>7. ASSUME NEW c \in Computes, Holds(<<r, c>>)', task'[<<r, c>>].id \notin stale'
          PROVE  Matches(<<r, c>>)'
      <3>1. Def[c].provider = "llm" /\ Busy(<<r, c>>)'
        BY <1>0, <2>7 DEF Holds, Comp
      <3>2. c \in Due(r)
        BY <2>1, <3>1, IdleFacts DEF Busy
      <3>3. task[r].event # "deleted"
        BY <3>1, <3>2 DEF Due, NoneForDeleted
      <3>4. Holds(r)
        BY <2>1, <2>3, <3>1, <3>2, <3>3, EventRulesAssumption DEF Holds
      <3>5. Matches(r)
        BY <1>0, <2>1, <2>7, <3>2, <3>4 DEF CopyInv
      <3> QED
        BY <1>0, <2>1, <3>2, <3>5 DEF Matches
    <2> QED
      BY <2>1, <2>2, <2>4, <2>5, <2>6, <2>7
  <1>2. ASSUME NEW c \in Computes, NEW new \in TaskRec, task[r].at = "idle", Launched(r, c, new),
               new.event = "none", new.at \in {"run", "gate"}, stale \subseteq stale',
               Def[c].provider = "llm" /\ new.id \notin stale' =>
                 rows[new.id] # None /\ new.rec.val = rows[new.id].val
        PROVE  /\ Late(r)' /\ \A d \in Computes : Late(<<r, d>>)'
               /\ ~Deletes(r) /\ ~Deletes(r)' /\ ~Pending(r) /\ ~Pending(r)' /\ ~Holds(r)'
               /\ \A d \in Computes : Holds(<<r, d>>)' /\ task'[<<r, d>>].id \notin stale' =>
                    Matches(<<r, d>>)'
    <2>1. /\ task'[r].at = "ended" /\ task'[<<r, c>>] = new /\ task'[r].late = task[r].late
          /\ task'[r].event = task[r].event
          /\ \A u \in Tasks : u # r /\ u # <<r, c>> => task'[u] = task[u]
      BY <1>2, LaunchFacts
    <2>2. \A d \in Computes : task[<<r, d>>] = Idle
      BY <1>2 DEF TaskInv, FreshInv, Unstarted
    <2>3. Late(r)' /\ ~Deletes(r) /\ ~Deletes(r)' /\ ~Busy(r) /\ ~Busy(r)'
      BY <1>0, <1>2, <2>1 DEF Late, CopyInv, Deletes, Busy, Ended
    <2>4. ASSUME NEW d \in Computes
          PROVE  d = c \/ task'[<<r, d>>] = Idle
      BY <1>0, <2>1, <2>2
    <2>5. ASSUME NEW d \in Computes
          PROVE  /\ Late(<<r, d>>)'
                 /\ Holds(<<r, d>>)' /\ task'[<<r, d>>].id \notin stale' => Matches(<<r, d>>)'
      <3>1. CASE d = c
        BY <1>0, <1>2, <2>1, <3>1 DEF Late, Holds, Matches, Comp
      <3>2. CASE task'[<<r, d>>] = Idle
        BY <3>2, IdleFacts DEF Late, Holds, Busy, Idle
      <3> QED
        BY <2>4, <3>1, <3>2
    <2> QED
      BY <2>3, <2>5 DEF Pending, Holds
  <1>3. CASE Trigger(r)
    <2>1. PICK c \in Computes, i \in Ids, rec \in Record, new \in TaskRec :
           /\ task[r].at = "idle" /\ Launched(r, c, new)
           /\ new.at = "run" /\ new.id = i /\ new.rec = rec /\ new.event = "none"
           /\ stale' = IF Def[c].provider = "llm" /\ Foreign(i, rec) THEN stale \cup {i} ELSE stale
      BY <1>3, TriggerFacts
    <2>2. stale \subseteq stale'
      BY <2>1
    <2>3. Def[c].provider = "llm" /\ new.id \notin stale' =>
            rows[new.id] # None /\ new.rec.val = rows[new.id].val
      BY <2>1 DEF Foreign
    <2> QED
      BY <1>2, <2>1, <2>2, <2>3
  <1>4. CASE Invoke(r)
    <2>1. PICK c \in Computes, v \in Values :
            /\ task[r].at = "idle" /\ Def[c].provider = "cel"
            /\ task' = [task EXCEPT ![r].at = "ended",
                 ![<<r, c>>] = [Idle EXCEPT !.at = "gate",
                                  !.rec = [owner |-> None, val |-> v, out |-> None]]]
            /\ UNCHANGED stale
      BY <1>4 DEF Invoke, History
    <2>2. PICK new : new = [Idle EXCEPT !.at = "gate", !.rec = [owner |-> None, val |-> v, out |-> None]]
      OBVIOUS
    <2>3. Launched(r, c, new)
      BY <2>1, <2>2 DEF Launched
    <2>4. new \in TaskRec /\ new.at = "gate" /\ new.event = "none"
      BY <2>2, GateFacts
    <2> QED
      BY <1>2, <2>1, <2>3, <2>4
  <1> QED
    BY <1>1, <1>3, <1>4

LEMMA CopyMany ==
  ASSUME TaskInv, CopyInv, NoneForDeleted, NEW r \in Requests,
         StartComputes(r) \/ Trigger(r) \/ Invoke(r)
  PROVE  CopyInv'
  <1>1. /\ UNCHANGED <<rows, shown>> /\ r \in Tasks /\ stale \subseteq stale'
        /\ \A u \in Tasks : u # r /\ u \notin {r} \X Computes => task'[u] = task[u]
    BY ManyTasks, ManyHolds
  <1>2. ASSUME NEW u \in Tasks, u # r, u \notin {r} \X Computes
        PROVE  /\ task'[u] = task[u] /\ (Late(u)' <=> Late(u)) /\ (Holds(u)' <=> Holds(u))
               /\ Deletes(u)' <=> Deletes(u)
    BY <1>1, <1>2, SameTask
  <1>3. ASSUME NEW u \in Tasks PROVE Late(u)'
    <2>1. CASE u \in {r} \X Computes
      <3>1. PICK c \in Computes : u = <<r, c>>
        BY <2>1
      <3> QED
        BY <3>1, ManyHolds
    <2> QED
      BY <1>2, <2>1, ManyHolds DEF CopyInv
  <1>4. ASSUME NEW u \in Tasks, Holds(u)', task'[u].id \notin stale' PROVE Matches(u)'
    <2>1. CASE u \in {r} \X Computes
      <3>1. PICK c \in Computes : u = <<r, c>>
        BY <2>1
      <3> QED
        BY <1>4, <3>1, ManyHolds
    <2>2. CASE u \notin {r} \X Computes
      <3>1. Holds(u) /\ task'[u].id = task[u].id /\ task'[u].rec = task[u].rec
        BY <1>2, <1>4, <2>2, ManyHolds
      <3> QED
        BY <1>1, <1>4, <3>1 DEF CopyInv, Matches
    <2> QED
      BY <2>1, <2>2
  <1>5. ASSUME NEW u \in Requests
        PROVE  /\ Deletes(u)' <=> Deletes(u)
               /\ Deletes(u) => task'[u].id = task[u].id
               /\ Pending(u) => Pending(u)' /\ task'[u].id = task[u].id
    <2>1. CASE u # r
      <3>1. u \in Tasks /\ u \notin {r} \X Computes
        BY TaskSets
      <3> QED
        BY <1>1, <2>1, <3>1, SameTask
    <2>2. CASE u = r
      BY <2>2, ManyHolds
    <2> QED
      BY <2>1, <2>2
  <1>6. ASSUME NEW u \in Tasks, Deletes(u)', task'[u].id \notin stale'
        PROVE  rows'[task'[u].id] = None
    <2>1. u \in Requests
      BY <1>6 DEF Deletes
    <2>2. Deletes(u) /\ task'[u].id = task[u].id
      BY <1>5, <1>6, <2>1
    <2> QED
      BY <1>1, <1>6, <2>2 DEF CopyInv
  <1>7. ASSUME NEW i \in Ids \ stale' PROVE Tells(i)'
    <2>1. Tells(i)
      BY <1>1, <1>7 DEF CopyInv
    <2>2. Awaited(i) => Awaited(i)'
      BY <1>5 DEF Awaited
    <2>3. (\E u \in Requests : Deletes(u) /\ task[u].id = i)
            => \E u \in Requests : Deletes(u)' /\ task'[u].id = i
      BY <1>5
    <2> QED
      BY <1>1, <2>1, <2>2, <2>3 DEF Tells
  <1> QED
    BY <1>3, <1>4, <1>6, <1>7 DEF CopyInv

LEMMA CopyNext == ASSUME NoneForDeleted, TaskInv, CopyInv, [Next]_vars PROVE CopyInv'
  <1>0. TypeOK
    BY DEF TaskInv
  <1>1. ASSUME NEW t \in Tasks, Proceed(t), ~(t \in Requests /\ Announce(t)),
               stale \subseteq stale',
               \A i \in Ids \ stale' : Alike(rows, rows', i) /\ Alike(shown, shown', i)
        PROVE  CopyInv'
    BY <1>1, CopyProceed
  <1>2. ASSUME NEW t \in Tasks, RunRules(t) PROVE CopyInv'
    <2>1. Proceed(t) /\ ~(t \in Requests /\ Announce(t))
      BY <1>2 DEF Proceed, Announce, RunRules, Send, Same, Insert, Query, Owned, Doing
    <2>2. CASE Same(t)
      <3>1. task[t].id \in Ids
        BY <2>2, DoingFacts DEF Same
      <3>2. /\ stale \subseteq stale' /\ UNCHANGED shown
            /\ \A i \in Ids \ stale' : rows'[i] = rows[i]
        BY <1>0, <2>2, <3>1 DEF Same, TypeOK
      <3>3. \A i \in Ids \ stale' : Alike(rows, rows', i) /\ Alike(shown, shown', i)
        BY <3>2 DEF Alike
      <3> QED
        BY <1>1, <2>1, <3>2, <3>3
    <2>3. CASE ~Same(t)
      <3>1. UNCHANGED <<rows, shown, stale>>
        BY <1>2, <2>3 DEF RunRules, Send, Insert, Query, Owned, History
      <3>2. \A i \in Ids \ stale' : Alike(rows, rows', i) /\ Alike(shown, shown', i)
        BY <3>1 DEF Alike
      <3> QED
        BY <1>1, <2>1, <3>1, <3>2
    <2> QED
      BY <2>2, <2>3
  <1>3. ASSUME NEW t \in Threads, RunCompute(t) PROVE CopyInv'
    <2>1. t \in Tasks /\ Proceed(t) /\ t \notin Requests
      BY <1>3, TaskSets DEF Proceed
    <2>2. CASE PublishUpdated(t)
      BY <2>2, CopyPublish
    <2>3. CASE Answer(t) \/ AnswerFails(t)
      <3>1. task[t].id \in Ids
        BY <2>3, AtFacts DEF Answer, AnswerFails
      <3>2. PICK v \in Outputs \cup {None} : Stream(task[t].id, v)
        BY <2>3 DEF Answer, AnswerFails
      <3>3. UNCHANGED <<rows, stale>>
        BY <2>3 DEF Answer, AnswerFails
      <3>4. /\ \A j \in Ids : j # task[t].id => shown'[j] = shown[j]
            /\ shown'[task[t].id] = None <=> shown[task[t].id] = None
            /\ shown'[task[t].id] = IF v = None \/ shown[task[t].id] = None THEN shown[task[t].id]
                                   ELSE [shown[task[t].id] EXCEPT !.out = v]
        BY <1>0, <3>1, <3>2, StreamType
      <3>5. shown[task[t].id] # None => shown'[task[t].id].val = shown[task[t].id].val
        <4>1. shown[task[t].id] # None => shown[task[t].id] \in Record
          BY <1>0, <3>1 DEF TypeOK
        <4> QED
          BY <3>4, <4>1 DEF Record
      <3>6. \A i \in Ids \ stale' : Alike(rows, rows', i) /\ Alike(shown, shown', i)
        BY <3>3, <3>4, <3>5 DEF Alike
      <3> QED
        BY <1>1, <2>1, <3>3, <3>6
    <2>4. CASE WriteFields(t)
      <3>1. task[t].id \in Ids /\ UNCHANGED <<shown, stale>>
        BY <2>4, AtFacts DEF WriteFields
      <3>2. CASE UNCHANGED rows
        <4>1. \A i \in Ids \ stale' : Alike(rows, rows', i) /\ Alike(shown, shown', i)
          BY <3>1, <3>2 DEF Alike
        <4> QED
          BY <1>1, <2>1, <3>1, <4>1
      <3>3. CASE rows' = [rows EXCEPT ![task[t].id] = IF @ = None THEN @ ELSE [@ EXCEPT !.out = task[t].out]]
        <4> DEFINE old == rows[task[t].id]
                   new == IF old = None THEN old ELSE [old EXCEPT !.out = task[t].out]
        <4>1. (new = None <=> old = None) /\ (old # None => new.val = old.val)
          <5>1. CASE old # None
            <6>1. old \in Record /\ task[t].out \in Outputs \cup {None}
              BY <1>0, <2>1, <3>1, <5>1 DEF TypeOK
            <6>2. new \in Record /\ new.val = old.val
              BY <5>1, <6>1 DEF Record
            <6> HIDE DEF new, old
            <6> QED
              BY <5>1, <6>2, EventRulesAssumption
          <5> QED
            BY <5>1
        <4>2. rows' = [rows EXCEPT ![task[t].id] = new]
          BY <3>3
        <4> HIDE DEF new
        <4>3. rows'[task[t].id] = new /\ \A j \in Ids : j # task[t].id => rows'[j] = rows[j]
          BY <1>0, <3>1, <4>2 DEF TypeOK
        <4>4. \A i \in Ids \ stale' : Alike(rows, rows', i) /\ Alike(shown, shown', i)
          BY <3>1, <4>1, <4>3 DEF Alike
        <4> QED
          BY <1>1, <2>1, <3>1, <4>4
      <3> QED
        BY <2>4, <3>2, <3>3 DEF WriteFields
    <2>5. CASE UNCHANGED <<rows, shown, stale>>
      <3>1. \A i \in Ids \ stale' : Alike(rows, rows', i) /\ Alike(shown, shown', i)
        BY <2>5 DEF Alike
      <3> QED
        BY <1>1, <2>1, <2>5, <3>1
    <2> QED
      BY <1>3, <2>2, <2>3, <2>4, <2>5 DEF RunCompute, Skip, EvalCel, EndInvoked,
         AuditSuccess, Refuse, Evaluate, Conclude, History
  <1>4. ASSUME NEW r \in Requests,
               Call(r) \/ ReadBack(r) \/ PublishEvent(r) \/ StartComputes(r) \/ Announce(r)
        PROVE  CopyInv'
    BY <1>4, CopyWrite, CopyRead, CopyShow, CopyMany DEF Call, Writes, Publishes
  <1>5. CASE UNCHANGED vars
    <2>1. UNCHANGED <<rows, shown, stale, task>>
      BY <1>5 DEF vars
    <2>2. ASSUME NEW u \in Tasks
          PROVE  /\ (Holds(u)' <=> Holds(u)) /\ (Deletes(u)' <=> Deletes(u)) /\ (Late(u)' <=> Late(u))
                 /\ (Pending(u)' <=> Pending(u)) /\ (Matches(u)' <=> Matches(u))
      BY <2>1, SameTask DEF Matches
    <2>3. ASSUME NEW i \in Ids PROVE Tells(i) => Tells(i)'
      <3>1. Awaited(i)' <=> Awaited(i)
        BY <2>1, <2>2, TaskSets DEF Awaited
      <3>2. (\E u \in Requests : Deletes(u) /\ task[u].id = i)
              => \E u \in Requests : Deletes(u)' /\ task'[u].id = i
        BY <2>1, <2>2, TaskSets
      <3> QED
        BY <2>1, <3>1, <3>2 DEF Tells
    <2> QED
      BY <2>1, <2>2, <2>3 DEF CopyInv
  <1> QED
    BY <1>2, <1>3, <1>4, <1>5 DEF Next

-----------------------------------------------------------------------------
(* The output field. *)

(* A thread between its answer and its publication holds its record.       *)
LEMMA MidwayFacts ==
  ASSUME TaskInv, CopyInv, NEW t \in Threads, Midway(t)
  PROVE  /\ t \in Tasks /\ task[t].id \in Ids /\ task[t].rec \in Record
         /\ Holds(t) /\ Busy(t) /\ Comp(t).provider = "llm"
  <1>1. /\ t \in Tasks /\ task[t].id \in Ids /\ task[t].rec \in Record /\ Comp(t).provider = "llm"
    BY AtFacts DEF Midway
  <1>2. Busy(t) /\ task[t].event # "deleted" /\ task[t].rec # None
    BY <1>1, EventRulesAssumption DEF Midway, Busy, Ended, CopyInv, Late
  <1> QED
    BY <1>1, <1>2 DEF Holds

(* Steps that neither publish nor write where it matters. *)
LEMMA OutFrame ==
  ASSUME TaskInv, CopyInv, OutInv, stale \subseteq stale', mixed \subseteq mixed',
         \A u \in Requests : Pending(u)' =>
           /\ Pending(u) /\ task'[u].id = task[u].id /\ task'[u].rec = task[u].rec
           /\ task'[u].event = task[u].event,
         \A t \in Threads : Midway(t)' => task'[t] = task[t],
         \A t \in Threads : task[t].at = "write" /\ task[t].id \notin stale' \cup mixed' =>
           task'[t] = task[t],
         \A i \in Ids \ (stale' \cup mixed') : rows'[i] = rows[i] /\ shown'[i] = shown[i]
  PROVE  OutInv'
  <1>0. \A t \in Threads : Midway(t)' => Midway(t) /\ task'[t] = task[t] /\ task[t].id \in Ids
    <2> SUFFICES ASSUME NEW t \in Threads, Midway(t)'
                 PROVE  Midway(t) /\ task'[t] = task[t] /\ task[t].id \in Ids
      OBVIOUS
    <2>1. task'[t] = task[t]
      OBVIOUS
    <2>2. Midway(t)
      BY <2>1 DEF Midway
    <2> QED
      BY <2>1, <2>2, MidwayFacts
  <1>1. ASSUME NEW u \in Requests, Pending(u)', task'[u].id \notin stale' \cup mixed' PROVE Alone(u)'
    <2>1. /\ Pending(u) /\ task'[u].id = task[u].id /\ task'[u].rec = task[u].rec
          /\ task'[u].event = task[u].event /\ task[u].id \notin stale' \cup mixed'
      BY <1>1
    <2>2. task[u].id \in Ids /\ Alone(u)
      BY <2>1, PendingFacts DEF OutInv
    <2>3. rows'[task[u].id] = rows[task[u].id]
      BY <2>1, <2>2
    <2> QED
      BY <1>0, <2>1, <2>2, <2>3 DEF Alone
  <1>2. ASSUME NEW t \in Threads, Midway(t)', task'[t].id \notin stale' \cup mixed' PROVE Between(t)'
    <2>1. /\ Midway(t) /\ task'[t] = task[t] /\ task[t].id \in Ids
          /\ task[t].id \notin stale' \cup mixed'
      BY <1>0, <1>2
    <2>2. Between(t)
      BY <2>1 DEF OutInv
    <2>3. /\ rows'[task[t].id] = rows[task[t].id] /\ shown'[task[t].id] = shown[task[t].id]
      BY <2>1
    <2> QED
      BY <1>0, <2>1, <2>2, <2>3 DEF Between
  <1>3. ASSUME NEW i \in Ids \ (stale' \cup mixed') PROVE Even(i)'
    <2>1. Even(i) /\ rows'[i] = rows[i] /\ shown'[i] = shown[i]
      BY <1>3 DEF OutInv
    <2>2. ASSUME \A t \in Threads : task'[t].at = "write" => task'[t].id # i, NEW t \in Threads,
                 task[t].at = "write"
          PROVE  task[t].id # i
      BY <1>3, <2>2
    <2> QED
      BY <2>1, <2>2 DEF Even
  <1> QED
    BY <1>1, <1>2, <1>3 DEF OutInv

(* A step of one task, about one record.                                   *)
LEMMA OutStep ==
  ASSUME TaskInv, CopyInv, OutInv, NEW t \in Tasks, NEW i \in Ids,
         stale \subseteq stale', mixed \subseteq mixed',
         \A u \in Tasks : u # t => task'[u] = task[u],
         Midway(t) => task[t].id = i, Midway(t)' => task'[t].id = i,
         Pending(t)' => task'[t].id = i,
         \A j \in Ids \ (stale' \cup mixed') : j # i => rows'[j] = rows[j] /\ shown'[j] = shown[j],
         i \notin stale' \cup mixed' =>
           /\ \A u \in Requests : Pending(u)' /\ task'[u].id = i => Alone(u)'
           /\ \A u \in Threads : Midway(u)' /\ task'[u].id = i => Between(u)'
           /\ Even(i)'
  PROVE  OutInv'
  <1>0. ASSUME NEW u \in Tasks, u # t
        PROVE  task'[u] = task[u] /\ (Midway(u)' <=> Midway(u)) /\ (Pending(u)' <=> Pending(u))
    BY <1>0, SameTask
  <1>1. ASSUME NEW u \in Requests, Pending(u)', task'[u].id \notin stale' \cup mixed' PROVE Alone(u)'
    <2>1. CASE task'[u].id = i
      BY <1>1, <2>1
    <2>2. CASE task'[u].id # i
      <3>1. u # t /\ u \in Tasks
        BY <1>1, <2>2, PendingFacts
      <3>2. task'[u] = task[u] /\ Pending(u)
        BY <1>0, <1>1, <3>1
      <3>3. task[u].id \in Ids /\ task[u].id \notin stale \cup mixed /\ Alone(u)
        BY <1>1, <3>2, PendingFacts DEF OutInv
      <3>4. rows'[task[u].id] = rows[task[u].id]
        BY <1>1, <2>2, <3>2, <3>3
      <3>5. ASSUME NEW w \in Threads, Midway(w)' PROVE task'[w].id # task'[u].id
        <4>1. CASE w # t
          BY <1>0, <3>2, <3>3, <3>5, <4>1, TaskSets DEF Alone
        <4> QED
          BY <2>2, <3>5, <4>1
      <3> QED
        BY <3>2, <3>3, <3>4, <3>5 DEF Alone
    <2> QED
      BY <2>1, <2>2
  <1>2. ASSUME NEW u \in Threads, Midway(u)', task'[u].id \notin stale' \cup mixed' PROVE Between(u)'
    <2>1. CASE task'[u].id = i
      BY <1>2, <2>1
    <2>2. CASE task'[u].id # i
      <3>1. u # t /\ u \in Tasks
        BY <1>2, <2>2, TaskSets
      <3>2. task'[u] = task[u] /\ Midway(u)
        BY <1>0, <1>2, <3>1
      <3>3. task[u].id \in Ids /\ task[u].id \notin stale \cup mixed /\ Between(u)
        BY <1>2, <3>2, MidwayFacts DEF OutInv
      <3>4. rows'[task[u].id] = rows[task[u].id] /\ shown'[task[u].id] = shown[task[u].id]
        BY <1>2, <2>2, <3>2, <3>3
      <3>5. ASSUME NEW w \in Threads, Midway(w)', task'[w].id = task'[u].id PROVE w = u
        <4>1. w # t /\ w \in Tasks
          BY <2>2, <3>5, TaskSets
        <4> QED
          BY <1>0, <3>2, <3>3, <3>5, <4>1 DEF Between
      <3> QED
        BY <3>2, <3>3, <3>4, <3>5 DEF Between
    <2> QED
      BY <2>1, <2>2
  <1>3. ASSUME NEW j \in Ids \ (stale' \cup mixed') PROVE Even(j)'
    <2>1. CASE j = i
      BY <1>3, <2>1
    <2>2. CASE j # i
      <3>1. Even(j) /\ rows'[j] = rows[j] /\ shown'[j] = shown[j]
        BY <1>3, <2>2 DEF OutInv
      <3>2. ASSUME \A w \in Threads : task'[w].at = "write" => task'[w].id # j, NEW w \in Threads,
                   task[w].at = "write"
            PROVE  task[w].id # j
        <4>1. CASE w # t
          BY <1>0, <3>2, <4>1, TaskSets
        <4>2. CASE w = t
          BY <2>2, <3>2, <4>2 DEF Midway
        <4> QED
          BY <4>1, <4>2
      <3> QED
        BY <3>1, <3>2 DEF Even
    <2> QED
      BY <2>1, <2>2
  <1> QED
    BY <1>1, <1>2, <1>3 DEF OutInv

LEMMA OutWrite ==
  ASSUME TaskInv, CopyInv, OutInv, NEW r \in Requests, Writes(r)
  PROVE  OutInv'
  <1>1. PICK i \in Ids, rec \in Record \cup {None}, next \in TaskRec :
           /\ Store(r, i, rec, next) /\ next.id = i
           /\ \/ next.event = "created" /\ rec # None /\ next.rec = rec /\ i = nextId
              \/ next.event = "updated" /\ rec.out = rows[i].out /\ rows[i] # None /\ next.rec = None
              \/ next.event = "deleted" /\ rec = None
    BY CallFacts DEF Writes
  <1>2. /\ r \in Tasks /\ r \notin Threads /\ task[r].at = "idle" /\ task'[r] = next
        /\ \A u \in Tasks : u # r => task'[u] = task[u]
        /\ rows'[i] = rec /\ \A j \in Ids : j # i => rows'[j] = rows[j]
        /\ stale \subseteq stale' /\ UNCHANGED <<shown, mixed>>
    BY <1>1, StoreFacts DEF TaskInv
  <1>3. ~Midway(r) /\ ~Midway(r)' /\ ~Deletes(r)
    BY <1>2 DEF Midway, Deletes
  <1>4. ASSUME i \notin stale', NEW u \in Tasks, u # r, task[u].id = i
        PROVE  ~Deletes(u) /\ (Pending(u) => task[u].rec = None) /\ ~Midway(u)
    BY <1>1, <1>4, StoreAlone
  <1>5. ASSUME i \notin stale', NEW w \in Threads PROVE ~(Midway(w)' /\ task'[w].id = i) /\ ~(Midway(w) /\ task[w].id = i)
    <2>1. w \in Tasks /\ w # r
      BY <1>2, TaskSets
    <2> QED
      BY <1>2, <1>4, <1>5, <2>1, SameTask
  <1>6. ASSUME i \notin stale' \cup mixed', NEW u \in Requests, Pending(u)', task'[u].id = i
        PROVE  Alone(u)'
    <2>1. task'[u].rec # None /\ task'[u].event # "deleted" => task'[u].rec.out = rows'[i].out
      <3>1. CASE u = r
        BY <1>1, <1>2, <3>1
      <3>2. CASE u # r
        <4>1. u \in Tasks /\ task'[u] = task[u]
          BY <1>2, <3>2, TaskSets
        <4>2. Pending(u)
          BY <1>6, <4>1, SameTask
        <4> QED
          BY <1>4, <1>6, <3>2, <4>1, <4>2
      <3> QED
        BY <3>1, <3>2
    <2> QED
      BY <1>5, <1>6, <2>1 DEF Alone
  <1>7. ASSUME i \notin stale' \cup mixed' PROVE Even(i)'
    <2> SUFFICES ASSUME rows'[i] # None, shown'[i] # None PROVE rows'[i].out = shown'[i].out
      BY DEF Even
    <2>1. i \in Ids \ (stale \cup mixed)
      BY <1>2, <1>7
    <2>2. CASE next.event = "created"
      <3>1. i = nextId
        BY <1>1, <2>2
      <3>2. rows[i] = None
        BY <3>1 DEF TaskInv, RowInv, TypeOK, Ids
      <3>3. PICK u \in Requests : Deletes(u) /\ task[u].id = i
        BY <1>2, <2>1, <3>2 DEF CopyInv, Tells
      <3>4. u \in Tasks /\ u # r
        BY <1>3, <3>3, TaskSets
      <3> QED
        BY <1>4, <1>7, <3>3, <3>4
    <2>3. CASE next.event = "updated"
      <3>1. rec.out = rows[i].out /\ rows[i] # None
        BY <1>1, <2>3
      <3>2. \A w \in Threads : task[w].at = "write" => task[w].id # i
        BY <1>5, <1>7 DEF Midway
      <3> QED
        BY <1>2, <2>1, <3>1, <3>2 DEF OutInv, Even
    <2>4. CASE next.event = "deleted"
      BY <1>1, <1>2, <2>4
    <2> QED
      BY <1>1, <2>2, <2>3, <2>4
  <1>8. \A j \in Ids \ (stale' \cup mixed') : j # i => rows'[j] = rows[j] /\ shown'[j] = shown[j]
    BY <1>2
  <1>9. i \notin stale' \cup mixed' =>
          /\ \A u \in Requests : Pending(u)' /\ task'[u].id = i => Alone(u)'
          /\ \A u \in Threads : Midway(u)' /\ task'[u].id = i => Between(u)'
          /\ Even(i)'
    BY <1>5, <1>6, <1>7
  <1> QED
    BY <1>1, <1>2, <1>3, <1>8, <1>9, OutStep

(* What is said of the others about record i stays true where it stays as   *)
(* it is.                                                                  *)
LEMMA OutKeeps ==
  ASSUME TaskInv, CopyInv, OutInv, NEW r \in Requests, NEW i \in Ids,
         \A u \in Tasks : u # r => task'[u] = task[u],
         ~Midway(r), ~Midway(r)', rows'[i] = rows[i], i \notin stale \cup mixed
  PROVE  /\ \A u \in Requests : u # r /\ Pending(u)' /\ task'[u].id = i => Alone(u)'
         /\ \A w \in Threads : /\ w \in Tasks /\ task'[w] = task[w]
                               /\ Midway(w)' <=> Midway(w)
         /\ Even(i)
  <1>1. \A w \in Threads : w \in Tasks /\ w # r /\ task'[w] = task[w] /\ (Midway(w)' <=> Midway(w))
    BY TaskSets, SameTask
  <1>2. ASSUME NEW u \in Requests, u # r, Pending(u)', task'[u].id = i PROVE Alone(u)'
    <2>1. u \in Tasks /\ task'[u] = task[u]
      BY <1>2, TaskSets
    <2>2. Pending(u)
      BY <1>2, <2>1, SameTask
    <2>3. Alone(u)
      BY <1>2, <2>1, <2>2 DEF OutInv
    <2> QED
      BY <1>1, <1>2, <2>1, <2>3 DEF Alone
  <1> QED
    BY <1>1, <1>2 DEF OutInv

LEMMA OutRead ==
  ASSUME TaskInv, CopyInv, OutInv, NEW r \in Requests, ReadBack(r)
  PROVE  OutInv'
  <1>0. PICK i : i = task[r].id
    OBVIOUS
  <1>1. /\ r \in Tasks /\ r \notin Threads /\ task[r].at = "stored"
        /\ i \in Ids /\ task[r].event # "deleted"
        /\ \A u \in Tasks : u # r => task'[u] = task[u]
        /\ task'[r].id = i /\ task'[r].event = task[r].event
        /\ UNCHANGED <<rows, shown, mixed>> /\ stale \subseteq stale'
        /\ \/ task'[r].at = "ended"
           \/ task'[r].at = "read" /\ task'[r].rec = ReadCopy(r)
    BY <1>0, ReadFacts
  <1>2. ~Midway(r) /\ ~Midway(r)' /\ Pending(r)
    BY <1>1 DEF Midway, Pending, Busy, Ended, Announcing
  <1>3. ASSUME i \notin stale' \cup mixed'
        PROVE  /\ \A u \in Requests : Pending(u)' /\ task'[u].id = i => Alone(u)'
               /\ \A u \in Threads : Midway(u)' /\ task'[u].id = i => Between(u)'
               /\ Even(i)'
    <2>1. i \notin stale \cup mixed
      BY <1>1, <1>3
    <2>2. /\ \A u \in Requests : u # r /\ Pending(u)' /\ task'[u].id = i => Alone(u)'
          /\ \A w \in Threads : task'[w] = task[w] /\ (Midway(w)' <=> Midway(w))
          /\ Even(i)
      BY <1>1, <1>2, <2>1, OutKeeps
    <2>3. Alone(r)
      BY <1>0, <1>2, <2>1 DEF OutInv
    <2>4. ASSUME Pending(r)' PROVE Alone(r)'
      <3>1. task'[r].rec = ReadCopy(r)
        BY <1>1, <2>4 DEF Pending, Busy, Ended
      <3>2. task'[r].rec # None => task'[r].rec.out = rows[i].out
        BY <1>0, <1>1, <2>3, <3>1 DEF ReadCopy, Alone
      <3>3. \A w \in Threads : Midway(w)' => task'[w].id # i
        BY <1>0, <2>2, <2>3 DEF Alone
      <3> QED
        BY <1>1, <3>2, <3>3 DEF Alone
    <2>5. ASSUME NEW u \in Threads, Midway(u)', task'[u].id = i PROVE FALSE
      BY <1>0, <2>2, <2>3, <2>5 DEF Alone
    <2>6. Even(i)'
      BY <1>1, <2>2 DEF Even
    <2> QED
      BY <2>2, <2>4, <2>5, <2>6
  <1>4. \A j \in Ids \ (stale' \cup mixed') : j # i => rows'[j] = rows[j] /\ shown'[j] = shown[j]
    BY <1>1
  <1> QED
    BY <1>1, <1>2, <1>3, <1>4, OutStep

LEMMA OutShow ==
  ASSUME TaskInv, CopyInv, OutInv, NEW r \in Requests, Publishes(r) PROVE OutInv'
  <1>0. PICK i : i = task[r].id
    OBVIOUS
  <1>1. /\ r \in Tasks /\ r \notin Threads /\ i \in Ids /\ Pending(r)
        /\ task[r].rec \in Record /\ task[r].rec # None
        /\ \A u \in Tasks : u # r => task'[u] = task[u]
        /\ task'[r].at \in {"rules", "ended"} /\ (task'[r].at = "rules" => ~task'[r].late)
        /\ shown'[i] = IF task[r].event = "deleted" THEN None ELSE task[r].rec
        /\ \A j \in Ids : j # i => shown'[j] = shown[j]
        /\ UNCHANGED <<rows, stale, mixed>>
    BY <1>0, PublishFacts, EventRulesAssumption
  <1>2. ~Midway(r) /\ ~Midway(r)' /\ ~Pending(r)'
    BY <1>1 DEF Midway, Pending, Busy, Ended, Announcing
  <1>3. ASSUME i \notin stale' \cup mixed'
        PROVE  /\ \A u \in Requests : Pending(u)' /\ task'[u].id = i => Alone(u)'
               /\ \A u \in Threads : Midway(u)' /\ task'[u].id = i => Between(u)'
               /\ Even(i)'
    <2>1. i \notin stale \cup mixed
      BY <1>1, <1>3
    <2>2. /\ \A u \in Requests : u # r /\ Pending(u)' /\ task'[u].id = i => Alone(u)'
          /\ \A w \in Threads : task'[w] = task[w] /\ (Midway(w)' <=> Midway(w))
      BY <1>1, <1>2, <2>1, OutKeeps
    <2>3. Alone(r)
      BY <1>0, <1>1, <2>1 DEF OutInv
    <2>4. ASSUME NEW u \in Threads, Midway(u)', task'[u].id = i PROVE FALSE
      BY <1>0, <2>2, <2>3, <2>4 DEF Alone
    <2>5. Even(i)'
      BY <1>0, <1>1, <2>3 DEF Even, Alone
    <2> QED
      BY <1>2, <2>2, <2>4, <2>5
  <1>4. \A j \in Ids \ (stale' \cup mixed') : j # i => rows'[j] = rows[j] /\ shown'[j] = shown[j]
    BY <1>1
  <1> QED
    BY <1>1, <1>2, <1>3, <1>4, OutStep

LEMMA ThreadProceeds ==
  ASSUME TaskInv, NEW t \in Threads, RunCompute(t)
  PROVE  /\ t \in Tasks /\ t \notin Requests
         /\ task'[t].id = task[t].id
         /\ \A u \in Tasks : u # t => task'[u] = task[u]
         /\ \A u \in Requests : u \in Tasks /\ task'[u] = task[u] /\ (Pending(u)' <=> Pending(u))
         /\ \A u \in Threads : u # t => u \in Tasks /\ task'[u] = task[u] /\ (Midway(u)' <=> Midway(u))
         /\ ~Pending(t)'
  <1>1. t \in Tasks /\ t \notin Requests /\ Proceed(t)
    BY TaskSets DEF Proceed
  <1>2. /\ \A u \in Tasks : u # t => task'[u] = task[u]
        /\ task'[t].id = task[t].id
    BY <1>1, ProceedFacts
  <1>3. ASSUME NEW u \in Requests PROVE u \in Tasks /\ task'[u] = task[u] /\ (Pending(u)' <=> Pending(u))
    <2>1. u \in Tasks /\ u # t
      BY <1>1, TaskSets
    <2> QED
      BY <1>2, <2>1, SameTask
  <1>4. ASSUME NEW u \in Threads, u # t
        PROVE  u \in Tasks /\ task'[u] = task[u] /\ (Midway(u)' <=> Midway(u))
    <2>1. u \in Tasks
      BY TaskSets
    <2> QED
      BY <1>2, <1>4, <2>1, SameTask
  <1> QED
    BY <1>1, <1>2, <1>3, <1>4 DEF Pending

LEMMA OutAnswer ==
  ASSUME TaskInv, CopyInv, OutInv, NEW t \in Threads, Answer(t) PROVE OutInv'
  <1>0. PICK i : i = task[t].id
    OBVIOUS
  <1>1. /\ t \in Tasks /\ t \notin Requests /\ task'[t].id = i
        /\ \A u \in Tasks : u # t => task'[u] = task[u]
        /\ \A u \in Requests : task'[u] = task[u] /\ (Pending(u)' <=> Pending(u))
        /\ \A u \in Threads : u # t => /\ u \in Tasks /\ task'[u] = task[u]
                                       /\ Midway(u)' <=> Midway(u)
        /\ ~Pending(t)'
    BY <1>0, ThreadProceeds DEF RunCompute
  <1>2. /\ task[t].at = "run" /\ i \in Ids /\ task \in [Tasks -> TaskRec] /\ ~Midway(t)
    BY <1>0, AtFacts DEF Answer, Midway
  <1>3. PICK v \in Outputs \cup {None} :
          /\ Stream(i, v)
          /\ task' = [task EXCEPT ![t].at = IF v = None THEN "audit" ELSE "write", ![t].out = v]
    BY <1>0 DEF Answer
  <1>4. task'[t].at = (IF v = None THEN "audit" ELSE "write") /\ task'[t].out = v
    BY <1>1, <1>2, <1>3 DEF TaskRec
  <1>5. /\ UNCHANGED <<rows, stale>>
        /\ mixed' = IF Met(t, i) THEN mixed \cup {i} ELSE mixed
    BY <1>0 DEF Answer
  <1>6. /\ \A j \in Ids : j # i => shown'[j] = shown[j]
        /\ shown'[i] = IF v = None \/ shown[i] = None THEN shown[i] ELSE [shown[i] EXCEPT !.out = v]
        /\ shown'[i] = None <=> shown[i] = None
    BY <1>2, <1>3, StreamType DEF TaskInv
  <1>7. ASSUME i \notin stale' \cup mixed'
        PROVE  /\ \A u \in Requests : Pending(u)' /\ task'[u].id = i => Alone(u)'
               /\ \A u \in Threads : Midway(u)' /\ task'[u].id = i => Between(u)'
               /\ Even(i)'
    <2>1. ~Met(t, i) /\ i \in Ids \ (stale \cup mixed)
      BY <1>2, <1>5, <1>7
    <2>2. ASSUME NEW u \in Requests, Pending(u)', task'[u].id = i PROVE FALSE
      <3>1. u # t /\ u \in Tasks /\ Busy(u) /\ Announcing(u) /\ task[u].id = i
        BY <1>1, <2>2, TaskSets DEF Pending
      <3> QED
        BY <2>1, <3>1 DEF Met
    <2>3. ASSUME NEW u \in Threads, u # t, Midway(u)', task'[u].id = i PROVE FALSE
      <3>1. Midway(u) /\ task[u].id = i
        BY <1>1, <2>3
      <3> QED
        BY <2>1, <2>3, <3>1, MidwayFacts DEF Met
    <2>4. ASSUME Midway(t)' PROVE Between(t)'
      <3>1. task'[t].at = "write" /\ v # None
        BY <1>4, <2>4 DEF Midway
      <3>2. shown'[i] # None => shown'[i].out = v
        <4>1. shown[i] # None => shown[i] \in Record
          BY <1>2 DEF TaskInv, TypeOK
        <4> QED
          BY <1>6, <3>1, <4>1 DEF Record
      <3> QED
        BY <1>1, <1>4, <2>3, <3>1, <3>2 DEF Between
    <2>5. Even(i)'
      <3> SUFFICES ASSUME rows'[i] # None, shown'[i] # None,
                          \A w \in Threads : task'[w].at = "write" => task'[w].id # i
                   PROVE  rows'[i].out = shown'[i].out
        BY DEF Even
      <3>1. v = None /\ shown'[i] = shown[i]
        BY <1>1, <1>4, <1>6
      <3>2. \A w \in Threads : task[w].at = "write" => task[w].id # i
        BY <1>1, <1>2
      <3> QED
        BY <1>5, <2>1, <3>1, <3>2 DEF OutInv, Even
    <2> QED
      BY <2>2, <2>3, <2>4, <2>5
  <1>8. \A j \in Ids \ (stale' \cup mixed') : j # i => rows'[j] = rows[j] /\ shown'[j] = shown[j]
    BY <1>5, <1>6
  <1>9. stale \subseteq stale' /\ mixed \subseteq mixed'
    BY <1>5
  <1> QED
    BY <1>1, <1>2, <1>7, <1>8, <1>9, OutStep

(* The statement and the event of a compute: it alone is at the field.     *)
LEMMA OutMidway ==
  ASSUME TaskInv, CopyInv, OutInv, NEW t \in Threads, Midway(t), RunCompute(t),
         task[t].id \notin stale \cup mixed
  PROVE  /\ \A u \in Requests : ~(Pending(u)' /\ task'[u].id = task[t].id)
         /\ \A u \in Threads : u # t => ~(Midway(u)' /\ task'[u].id = task[t].id)
         /\ \A u \in Threads : task[u].at = "write" /\ task[u].id = task[t].id => u = t
  <1>1. Between(t)
    BY DEF OutInv
  <1>2. ASSUME NEW u \in Requests, Pending(u)', task'[u].id = task[t].id PROVE FALSE
    <2>1. Pending(u) /\ task[u].id = task[t].id
      BY <1>2, ThreadProceeds
    <2>2. Alone(u)
      BY <2>1 DEF OutInv
    <2> QED
      BY <2>1, <2>2 DEF Alone
  <1>3. ASSUME NEW u \in Threads, u # t, Midway(u)', task'[u].id = task[t].id PROVE FALSE
    <2>1. Midway(u) /\ task[u].id = task[t].id
      BY <1>3, ThreadProceeds
    <2> QED
      BY <1>1, <1>3, <2>1 DEF Between
  <1>4. ASSUME NEW u \in Threads, task[u].at = "write", task[u].id = task[t].id PROVE u = t
    BY <1>1, <1>4 DEF Between, Midway
  <1> QED
    BY <1>2, <1>3, <1>4

LEMMA OutStored ==
  ASSUME TaskInv, CopyInv, OutInv, NEW t \in Threads, WriteFields(t), ~Goto(t, "crashed")
  PROVE  OutInv'
  <1>0. PICK i, out : i = task[t].id /\ out = task[t].out
    OBVIOUS
  <1>1. /\ t \in Tasks /\ t \notin Requests /\ task'[t].id = i
        /\ \A u \in Tasks : u # t => task'[u] = task[u]
        /\ ~Pending(t)' /\ RunCompute(t)
    BY <1>0, ThreadProceeds DEF RunCompute
  <1>2. /\ task[t].at = "write" /\ Midway(t) /\ i \in Ids /\ Holds(t)
        /\ task \in [Tasks -> TaskRec]
    BY <1>0, MidwayFacts, AtFacts DEF WriteFields, Midway
  <1> DEFINE new == IF rows[i] = None THEN rows[i] ELSE [rows[i] EXCEPT !.out = out]
             how == IF rows[i] = None THEN "nowhere" ELSE "stored"
  <1>3. /\ UNCHANGED <<shown, stale, mixed>> /\ rows' = [rows EXCEPT ![i] = new]
        /\ task' = [task EXCEPT ![t].at = "publish", ![t].kept = how]
    BY <1>0 DEF WriteFields
  <1>4. i \notin stale => rows[i] # None /\ new.out = out
    <2> SUFFICES ASSUME i \notin stale PROVE rows[i] # None /\ new.out = out
      OBVIOUS
    <2>1. rows[i] # None
      BY <1>0, <1>1, <1>2 DEF CopyInv, Matches
    <2>2. rows[i] \in Record
      BY <1>2, <2>1 DEF TaskInv, TypeOK
    <2> QED
      BY <2>1, <2>2 DEF Record
  <1> HIDE DEF new, how
  <1>5. task'[t].at = "publish" /\ task'[t].out = out
    BY <1>0, <1>1, <1>2, <1>3 DEF TaskRec
  <1>6. rows'[i] = new /\ \A j \in Ids : j # i => rows'[j] = rows[j]
    BY <1>2, <1>3 DEF TaskInv, TypeOK
  <1>7. ASSUME i \notin stale' \cup mixed'
        PROVE  /\ \A u \in Requests : Pending(u)' /\ task'[u].id = i => Alone(u)'
               /\ \A u \in Threads : Midway(u)' /\ task'[u].id = i => Between(u)'
               /\ Even(i)'
    <2>1. i \notin stale \cup mixed /\ rows'[i].out = out
      BY <1>3, <1>4, <1>6, <1>7
    <2>2. /\ \A u \in Requests : ~(Pending(u)' /\ task'[u].id = i)
          /\ \A u \in Threads : u # t => ~(Midway(u)' /\ task'[u].id = i)
      BY <1>0, <1>1, <1>2, <2>1, OutMidway
    <2>3. shown[i] # None => shown[i].out = out
      BY <1>0, <1>2, <2>1 DEF OutInv, Between
    <2>4. Between(t)'
      BY <1>1, <1>5, <2>1, <2>2 DEF Between
    <2>5. Even(i)'
      BY <1>3, <2>1, <2>3 DEF Even
    <2> QED
      BY <2>2, <2>4, <2>5
  <1>8. \A j \in Ids \ (stale' \cup mixed') : j # i => rows'[j] = rows[j] /\ shown'[j] = shown[j]
    BY <1>3, <1>6
  <1>9. stale \subseteq stale' /\ mixed \subseteq mixed'
    BY <1>3
  <1> QED
    BY <1>0, <1>1, <1>2, <1>7, <1>8, <1>9, OutStep

LEMMA OutPublish ==
  ASSUME TaskInv, CopyInv, OutInv, NEW t \in Threads, PublishUpdated(t) PROVE OutInv'
  <1>0. PICK i, out, new : /\ i = task[t].id /\ out = task[t].out
                           /\ new = [task[t].rec EXCEPT !.out = task[t].out]
    OBVIOUS
  <1>1. /\ t \in Tasks /\ t \notin Requests /\ task'[t].id = i
        /\ \A u \in Tasks : u # t => task'[u] = task[u]
        /\ ~Pending(t)' /\ RunCompute(t)
    BY <1>0, ThreadProceeds DEF RunCompute
  <1>2. /\ task[t].at = "publish" /\ Midway(t) /\ i \in Ids /\ task[t].rec \in Record
        /\ task \in [Tasks -> TaskRec]
    BY <1>0, MidwayFacts, AtFacts DEF PublishUpdated, Midway
  <1>3. /\ UNCHANGED <<rows, stale, mixed>> /\ shown' = [shown EXCEPT ![i] = new]
        /\ Goto(t, "audit")
    BY <1>0 DEF PublishUpdated, History
  <1>4. new.out = out
    BY <1>0, <1>2 DEF Record
  <1>5. task'[t].at = "audit" /\ ~Midway(t)'
    BY <1>1, <1>2, <1>3, GotoFacts DEF Midway, Places
  <1>6. shown'[i] = new /\ \A j \in Ids : j # i => shown'[j] = shown[j]
    BY <1>2, <1>3 DEF TaskInv, TypeOK
  <1>7. ASSUME i \notin stale' \cup mixed'
        PROVE  /\ \A u \in Requests : Pending(u)' /\ task'[u].id = i => Alone(u)'
               /\ \A u \in Threads : Midway(u)' /\ task'[u].id = i => Between(u)'
               /\ Even(i)'
    <2>1. i \notin stale \cup mixed
      BY <1>3, <1>7
    <2>2. /\ \A u \in Requests : ~(Pending(u)' /\ task'[u].id = i)
          /\ \A u \in Threads : u # t => ~(Midway(u)' /\ task'[u].id = i)
      BY <1>0, <1>1, <1>2, <2>1, OutMidway
    <2>3. rows[i].out = out
      BY <1>0, <1>2, <2>1 DEF OutInv, Between
    <2>4. Even(i)'
      BY <1>3, <1>4, <1>6, <2>3 DEF Even
    <2> QED
      BY <1>5, <2>2, <2>4
  <1>8. \A j \in Ids \ (stale' \cup mixed') : j # i => rows'[j] = rows[j] /\ shown'[j] = shown[j]
    BY <1>3, <1>6
  <1>9. stale \subseteq stale' /\ mixed \subseteq mixed'
    BY <1>3
  <1> QED
    BY <1>0, <1>1, <1>2, <1>5, <1>7, <1>8, <1>9, OutStep

(* A step of a compute that leaves the rows alone, and the field, or marks it. *)
LEMMA OutMoves ==
  ASSUME TaskInv, CopyInv, OutInv, NEW t \in Threads, RunCompute(t), ~Midway(t)',
         UNCHANGED <<rows, stale>>, mixed \subseteq mixed',
         task[t].at = "write" => task[t].id \in mixed',
         \A i \in Ids \ mixed' : shown'[i] = shown[i]
  PROVE  OutInv'
  <1>1. /\ \A u \in Requests : task'[u] = task[u] /\ (Pending(u)' <=> Pending(u))
        /\ \A u \in Threads : u # t => task'[u] = task[u]
    BY ThreadProceeds
  <1>2. stale \subseteq stale'
    OBVIOUS
  <1>3. \A u \in Requests : Pending(u)' =>
          /\ Pending(u) /\ task'[u].id = task[u].id /\ task'[u].rec = task[u].rec
          /\ task'[u].event = task[u].event
    BY <1>1
  <1>4. \A u \in Threads : Midway(u)' => task'[u] = task[u]
    BY <1>1
  <1>5. \A u \in Threads : task[u].at = "write" /\ task[u].id \notin stale' \cup mixed' =>
          task'[u] = task[u]
    BY <1>1
  <1>6. \A i \in Ids \ (stale' \cup mixed') : rows'[i] = rows[i] /\ shown'[i] = shown[i]
    OBVIOUS
  <1> QED
    BY <1>2, <1>3, <1>4, <1>5, <1>6, OutFrame

LEMMA OutRules ==
  ASSUME TaskInv, CopyInv, OutInv, NEW t \in Tasks, RunRules(t) PROVE OutInv'
  <1>1. /\ Proceed(t)
        /\ task[t].at \in {"rules", "owned"} /\ task'[t].at \in {"rules", "owned"}
        /\ task'[t].id = task[t].id /\ task'[t].rec = task[t].rec /\ task'[t].event = task[t].event
        /\ \A u \in Tasks : u # t => task'[u] = task[u]
    BY ProceedFacts DEF Proceed
  <1>2. Pending(t)' => Pending(t)
    BY <1>1, ProceedHolds
  <1>3. stale \subseteq stale' /\ UNCHANGED <<shown, mixed>>
    BY DEF RunRules, Send, Same, Insert, Query, Owned, History
  <1>4. \A i \in Ids \ stale' : rows'[i] = rows[i]
    <2>1. CASE Same(t)
      <3>1. task[t].id \in Ids
        BY <2>1, DoingFacts DEF Same
      <3> QED
        BY <2>1, <3>1 DEF Same, TaskInv, TypeOK
    <2>2. CASE ~Same(t)
      BY <2>2 DEF RunRules, Send, Insert, Query, Owned
    <2> QED
      BY <2>1, <2>2
  <1>5. ASSUME NEW u \in Threads
        PROVE  (Midway(u)' => task'[u] = task[u]) /\ (task[u].at = "write" => task'[u] = task[u])
    BY <1>1, <1>5, TaskSets DEF Midway
  <1>6. ASSUME NEW u \in Requests, Pending(u)'
        PROVE  /\ Pending(u) /\ task'[u].id = task[u].id /\ task'[u].rec = task[u].rec
               /\ task'[u].event = task[u].event
    <2>1. CASE u # t
      BY <1>1, <1>6, <2>1, SameTask, TaskSets
    <2> QED
      BY <1>1, <1>2, <1>6, <2>1
  <1>7. \A i \in Ids \ (stale' \cup mixed') : rows'[i] = rows[i] /\ shown'[i] = shown[i]
    BY <1>3, <1>4
  <1> QED
    BY <1>3, <1>5, <1>6, <1>7, OutFrame

LEMMA OutMany ==
  ASSUME NoneForDeleted, TaskInv, CopyInv, OutInv, NEW r \in Requests,
         StartComputes(r) \/ Trigger(r) \/ Invoke(r)
  PROVE  OutInv'
  <1>1. /\ UNCHANGED <<rows, shown, mixed>> /\ stale \subseteq stale' /\ r \notin Threads
        /\ \A c \in Computes : task[<<r, c>>] = Idle /\ task'[<<r, c>>].at \in {"idle", "run", "gate"}
        /\ \A u \in Tasks : u # r /\ u \notin {r} \X Computes => task'[u] = task[u]
    BY ManyTasks, ManyHolds
  <1>2. ASSUME NEW u \in Threads
        PROVE  (Midway(u)' => task'[u] = task[u]) /\ (task[u].at = "write" => task'[u] = task[u])
    <2>1. u \in Tasks /\ u # r
      BY <1>1, TaskSets
    <2>2. CASE u \in {r} \X Computes
      <3>1. task[u] = Idle /\ task'[u].at \in {"idle", "run", "gate"}
        BY <1>1, <2>2
      <3> QED
        BY <3>1, IdleFacts DEF Midway
    <2>3. CASE u \notin {r} \X Computes
      BY <1>1, <2>1, <2>3
    <2> QED
      BY <2>2, <2>3
  <1>3. ASSUME NEW u \in Requests, Pending(u)'
        PROVE  /\ Pending(u) /\ task'[u].id = task[u].id /\ task'[u].rec = task[u].rec
               /\ task'[u].event = task[u].event
    <2>1. CASE u = r
      BY <1>3, <2>1, ManyHolds
    <2>2. CASE u # r
      <3>1. u \in Tasks /\ u \notin {r} \X Computes
        BY TaskSets
      <3> QED
        BY <1>1, <1>3, <2>2, <3>1, SameTask
    <2> QED
      BY <2>1, <2>2
  <1>4. \A i \in Ids \ (stale' \cup mixed') : rows'[i] = rows[i] /\ shown'[i] = shown[i]
    BY <1>1
  <1>5. mixed \subseteq mixed'
    BY <1>1
  <1> QED
    BY <1>1, <1>2, <1>3, <1>4, <1>5, OutFrame

LEMMA OutCompute ==
  ASSUME TaskInv, CopyInv, OutInv, NEW t \in Threads, RunCompute(t) PROVE OutInv'
  <1>0. t \in Tasks /\ task \in [Tasks -> TaskRec] /\ TypeOK
    BY TaskSets, TaskType DEF TaskInv
  <1>1. CASE Answer(t)
    BY <1>1, OutAnswer
  <1>2. CASE WriteFields(t) /\ ~Goto(t, "crashed")
    BY <1>2, OutStored
  <1>3. CASE PublishUpdated(t)
    BY <1>3, OutPublish
  <1>4. CASE WriteFields(t) /\ Goto(t, "crashed")
    <2>1. task'[t].at = "crashed"
      BY <1>0, <1>4, GotoFacts DEF Places, Ended
    <2> DEFINE how == IF rows[task[t].id] = None THEN "nowhere" ELSE "stored"
    <2>2. \/ task' = [task EXCEPT ![t].at = "publish", ![t].kept = how]
          \/ UNCHANGED <<rows, stale, shown>> /\ mixed' = mixed \cup {task[t].id}
      BY <1>4 DEF WriteFields
    <2> HIDE DEF how
    <2>3. UNCHANGED <<rows, stale, shown>> /\ mixed' = mixed \cup {task[t].id}
      <3>1. CASE task' = [task EXCEPT ![t].at = "publish", ![t].kept = how]
        <4>1. task'[t].at = "publish"
          BY <1>0, <3>1 DEF TaskRec
        <4> QED
          BY <2>1, <4>1
      <3> QED
        BY <2>2, <3>1
    <2> QED
      BY <2>1, <2>3, OutMoves DEF Midway
  <1>5. CASE AnswerFails(t)
    <2>1. task[t].id \in Ids /\ task[t].at = "run" /\ UNCHANGED <<rows, stale>>
      BY <1>5, AtFacts DEF AnswerFails
    <2>2. PICK v \in Outputs \cup {None} :
            /\ Stream(task[t].id, v)
            /\ mixed' = IF v = None THEN mixed ELSE mixed \cup {task[t].id}
      BY <1>5 DEF AnswerFails
    <2>3. /\ \A j \in Ids : j # task[t].id => shown'[j] = shown[j]
          /\ v = None => shown'[task[t].id] = shown[task[t].id]
      BY <1>0, <2>1, <2>2, StreamType
    <2>4. \A i \in Ids \ mixed' : shown'[i] = shown[i]
      BY <2>2, <2>3
    <2>5. ~Midway(t)'
      <3>1. task'[t].at \in {"ended", "crashed"}
        BY <1>0, <1>5, GotoFacts DEF AnswerFails, Places, Ended
      <3> QED
        BY <3>1 DEF Midway
    <2>6. mixed \subseteq mixed'
      BY <2>2
    <2> QED
      BY <2>1, <2>4, <2>5, <2>6, OutMoves
  <1>6. CASE EvalCel(t) /\ ~Goto(t, "ended")
    <2> DEFINE plan == OnCompute(t[2], task[t].rec)
               who == Caller(t)
    <2>1. task[t].at = "run" /\ task' = [task EXCEPT ![t].at = "rules", ![t].who = who, ![t].rules = plan]
      BY <1>6 DEF EvalCel
    <2> HIDE DEF plan, who
    <2>2. task'[t].at = "rules"
      BY <1>0, <2>1 DEF TaskRec
    <2>3. UNCHANGED <<rows, stale, shown, mixed>>
      BY <1>6 DEF EvalCel, History
    <2> QED
      BY <2>1, <2>2, <2>3, OutMoves DEF Midway
  <1>7. CASE /\ UNCHANGED <<rows, stale, shown, mixed>> /\ task[t].at # "write"
             /\ \E at \in {"ended", "rejected", "answered", "check"} : Goto(t, at)
    <2>1. task'[t].at \in {"ended", "rejected", "answered", "check"}
      BY <1>0, <1>7, GotoFacts DEF Places, Ended
    <2> QED
      BY <1>7, <2>1, OutMoves DEF Midway
  <1> QED
    BY <1>1, <1>2, <1>3, <1>4, <1>5, <1>6, <1>7 DEF RunCompute, Skip, EvalCel, EndInvoked,
       AuditSuccess, Refuse, Evaluate, Conclude, History

LEMMA OutNext == ASSUME NoneForDeleted, TaskInv, CopyInv, OutInv, [Next]_vars PROVE OutInv'
  <1>1. CASE UNCHANGED vars
    <2>1. UNCHANGED <<rows, shown, stale, mixed, task>>
      BY <1>1 DEF vars
    <2>2. \A u \in Requests : Pending(u)' => Pending(u)
      BY <2>1, SameTask, TaskSets
    <2> HIDE <1>1
    <2> QED
      BY <2>1, <2>2, OutFrame
  <1> QED
    BY <1>1, OutWrite, OutRead, OutShow, OutMany, OutRules, OutCompute
       DEF Next, Call, Writes, Publishes

(* When everything has ended, the last events about a record say what is    *)
(* stored, wherever nobody wrote it under a copy that was to be published,  *)
(* no rule changed it, no request failed between its commit and its event   *)
(* and no compute was triggered with another record; the output field too   *)
(* where one compute at most was at it, with no event to come, and none     *)
(* failed half way.  No LLM compute may answer to a deletion: its event     *)
(* brings the record back.                                                 *)
THEOREM ShownCorrect == ASSUME NoneForDeleted PROVE Spec => []ShownIsStored
  <1>1. Init => CopyInv /\ OutInv
    <2> SUFFICES ASSUME Init PROVE CopyInv /\ OutInv
      OBVIOUS
    <2>1. shown = rows /\ \A t \in Tasks : task[t] = Idle
      BY DEF Init
    <2>2. ASSUME NEW t \in Tasks
          PROVE  Late(t) /\ ~Holds(t) /\ ~Deletes(t) /\ ~Pending(t) /\ ~Midway(t)
      <3>1. task[t].at = "idle" /\ ~task[t].late /\ task[t].event = "none"
        BY <2>1 DEF Idle
      <3> QED
        BY <3>1 DEF Late, Holds, Deletes, Pending, Midway, Busy
    <2>3. CopyInv
      BY <2>1, <2>2 DEF CopyInv, Tells
    <2>4. OutInv
      BY <2>1, <2>2, TaskSets DEF OutInv, Even
    <2> QED
      BY <2>3, <2>4
  <1>2. TaskInv /\ CopyInv /\ OutInv /\ [Next]_vars => CopyInv' /\ OutInv'
    BY CopyNext, OutNext
  <1>3. TaskInv /\ CopyInv /\ OutInv => ShownIsStored
    <2> SUFFICES ASSUME TaskInv, CopyInv, OutInv, \A t \in Tasks : ~Busy(t), NEW i \in Ids \ stale
                 PROVE  /\ rows[i] = None <=> shown[i] = None
                        /\ rows[i] # None => /\ shown[i].val = rows[i].val
                                             /\ i \notin mixed => shown[i].out = rows[i].out
      BY DEF ShownIsStored
    <2>1. \A u \in Requests : ~Pending(u) /\ ~Deletes(u)
      BY PendingFacts DEF Pending
    <2>2. \A t \in Threads : task[t].at # "write"
      BY TaskSets DEF Busy, Ended
    <2>3. /\ shown[i] # None => (rows[i] # None /\ shown[i].val = rows[i].val)
          /\ rows[i] # None => shown[i] # None
      BY <2>1 DEF CopyInv, Tells, Awaited
    <2>4. rows[i] # None /\ shown[i] # None /\ i \notin mixed => rows[i].out = shown[i].out
      BY <2>2 DEF OutInv, Even
    <2> QED
      BY <2>3, <2>4
  <1> QED
    BY <1>1, <1>2, <1>3, TaskCorrect, PTL DEF Spec
=============================================================================
