------------------------- MODULE ConversationProofs -------------------------
(***************************************************************************)
(* Proofs about Conversation.tla for any sets of entries and any Trigger   *)
(* that TriggerAssumption allows.                                          *)
(***************************************************************************)
EXTENDS Conversation, TLAPS

(* Append puts the new element last and leaves the others in place. *)
LEMMA AppendFacts ==
  ASSUME NEW S, NEW s \in Seq(S), NEW e \in S
  PROVE  /\ Append(s, e) \in Seq(S)
         /\ DOMAIN Append(s, e) = 1..(Len(s) + 1)
         /\ DOMAIN s = 1..Len(s)
         /\ Len(s) \in Nat
         /\ \A i \in 1..Len(s) : Append(s, e)[i] = s[i]
         /\ Append(s, e)[Len(s) + 1] = e
         /\ ToSet(Append(s, e)) = ToSet(s) \cup {e}
  <1>1. /\ Append(s, e) \in Seq(S)
        /\ DOMAIN Append(s, e) = 1..(Len(s) + 1)
        /\ DOMAIN s = 1..Len(s)
        /\ Len(s) \in Nat
        /\ \A i \in 1..Len(s) : Append(s, e)[i] = s[i]
        /\ Append(s, e)[Len(s) + 1] = e
    OBVIOUS
  <1>2. ToSet(Append(s, e)) = ToSet(s) \cup {e}
    BY <1>1 DEF ToSet
  <1> QED
    BY <1>1, <1>2

(* The empty column has no entries. *)
LEMMA EmptyFacts ==
  /\ \A S : <<>> \in Seq(S)
  /\ DOMAIN <<>> = {}
  /\ ToSet(<<>>) = {}
  BY DEF ToSet

-----------------------------------------------------------------------------
(* The variables keep their types: in particular only user entries start   *)
(* agent turns, so a rule's or an agent's own append never starts another. *)
LEMMA TypeInit == Init => TypeOK
  BY EmptyFacts DEF Init, TypeOK, Phases, Results

LEMMA TypeNext == TypeOK /\ [Next]_vars => TypeOK'
  <1> SUFFICES ASSUME TypeOK, [Next]_vars PROVE TypeOK'
    OBVIOUS
  <1> USE DEF Phases, Results, Advance, End
  <1>1. CASE UNCHANGED vars
    BY <1>1 DEF TypeOK, vars
  <1>2. ASSUME NEW e \in Entries, Refuse(e) PROVE TypeOK'
    BY <1>2 DEF TypeOK, Refuse
  <1>3. ASSUME NEW e \in Entries, Load(e) PROVE TypeOK'
    BY <1>3 DEF TypeOK, Load
  <1>4. ASSUME NEW e \in Entries, LoadNotFound(e) PROVE TypeOK'
    BY <1>4 DEF TypeOK, LoadNotFound
  <1>5. ASSUME NEW e \in Entries, Write(e) PROVE TypeOK'
    <2>1. column' \in Seq(Entries)
      BY <1>5, AppendFacts DEF TypeOK, Write
    <2> QED
      BY <1>5, <2>1, EmptyFacts DEF TypeOK, Write
  <1>6. ASSUME NEW e \in Entries, WriteNothing(e) PROVE TypeOK'
    BY <1>6, EmptyFacts DEF TypeOK, WriteNothing
  <1>7. ASSUME NEW e \in Entries, Reread(e) PROVE TypeOK'
    BY <1>7 DEF TypeOK, Reread
  <1>8. ASSUME NEW e \in Entries, RereadNotFound(e) PROVE TypeOK'
    BY <1>8 DEF TypeOK, RereadNotFound
  <1>9. ASSUME NEW e \in Entries, Busy(e) PROVE TypeOK'
    BY <1>9, EmptyFacts DEF TypeOK, Busy
  <1>10. ASSUME NEW e \in Entries, Publish(e) PROVE TypeOK'
    <2>1. bus' \in Seq(Entries)
      BY <1>10, AppendFacts DEF TypeOK, Publish
    <2> QED
      BY <1>10, <2>1 DEF TypeOK, Publish
  <1>11. ASSUME NEW e \in Entries, Finish(e) PROVE TypeOK'
    BY <1>11 DEF TypeOK, Finish
  <1>12. CASE Delete
    BY <1>12, EmptyFacts DEF TypeOK, Delete
  <1>13. CASE Quiescent
    BY <1>1, <1>13 DEF Quiescent
  <1> QED
    BY <1>1, <1>2, <1>3, <1>4, <1>5, <1>6, <1>7, <1>8, <1>9, <1>10, <1>11,
       <1>12, <1>13 DEF Next, Call, Proceed

THEOREM TypeCorrect == Spec => []TypeOK
  BY TypeInit, TypeNext, PTL DEF Spec

-----------------------------------------------------------------------------
(* How far an append has come decides whether its entry is stored, whether *)
(* its event is out and what its caller has been told.                     *)
PhaseInv ==
  /\ \A e \in Entries :
       /\ pc[e] \in {"idle", "loaded"} => e \notin committed
       /\ pc[e] = "written" /\ present => e \in committed
       /\ pc[e] \in {"reread", "published"} => e \in committed
       /\ pc[e] = "published" => e \in ToSet(bus)
       /\ e \in ToSet(bus) => pc[e] \in {"published", "done"} /\ e \in committed
       /\ result[e] = "none" <=> pc[e] # "done"
       /\ result[e] = "ok" => e \in ToSet(bus)
       /\ result[e] \in {"invalid", "not_found"} => e \notin committed
  /\ \A e \in turns : result[e] = "ok"

(* No entry is announced twice. *)
BusDistinct == \A i, k \in DOMAIN bus : bus[i] = bus[k] => i = k

(* A rule or a turn appends only after the append that led to it has been  *)
(* announced or has ended; a user entry leads on once it is announced.     *)
Leads(d) ==
  /\ d \in UserEntries \cup AgentEntries
  /\ pc[d] \in {"published", "done"}
  /\ d \in UserEntries => d \in ToSet(bus)

CauseInv ==
  \A e \in RuleEntries \cup AgentEntries : pc[e] # "idle" => Leads(Trigger[e])

(* The promises about one list of entries. *)
GoodList(v) ==
  /\ ToSet(v) \subseteq committed
  /\ \A i, k \in DOMAIN v : v[i] = v[k] => i = k
  /\ \A i, k \in DOMAIN v : v[i] \in before[v[k]] => i < k
  /\ \A i, k \in DOMAIN v :
       v[k] \in RuleEntries \cup AgentEntries /\ v[i] = Trigger[v[k]] => i < k

(* Every value the column has had keeps them, and an append that has read  *)
(* the row holds one of these values.                                      *)
VersionInv ==
  /\ \A v \in versions : GoodList(v)
  /\ column \in versions
  /\ <<>> \in versions
  /\ ~present => column = <<>>
  /\ \A e \in Entries : pc[e] = "loaded" => entries[e] \in versions
  /\ \A e \in Entries : before[e] \subseteq committed

(* Each entry of S that the list v lacks overlaps another entry of S. *)
Accounted(v, S) ==
  \A e \in S \ ToSet(v) : \E d \in S : d # e /\ Overlap(d, e)

(* The same of the list an append is working on and of what had been       *)
(* stored when it read the row: without this the loss could not be blamed  *)
(* on the next writer.                                                     *)
AccountInv ==
  /\ present => Accounted(column, committed)
  /\ \A e \in Entries : pc[e] = "loaded" => Accounted(entries[e], before[e])

IInv ==
  /\ TypeOK
  /\ PhaseInv
  /\ BusDistinct
  /\ CauseInv
  /\ CausalEvents
  /\ VersionInv
  /\ AccountInv

-----------------------------------------------------------------------------
LEMMA PhaseInit == Init => PhaseInv /\ BusDistinct
  BY EmptyFacts DEF Init, PhaseInv, BusDistinct

LEMMA PhaseNext == TypeOK /\ PhaseInv /\ [Next]_vars => PhaseInv'
  <1> SUFFICES ASSUME TypeOK, PhaseInv, [Next]_vars PROVE PhaseInv'
    OBVIOUS
  <1> USE DEF PhaseInv, Advance, End
  <1>1. CASE UNCHANGED vars
    BY <1>1 DEF vars
  <1>2. ASSUME NEW e \in Entries, Refuse(e) PROVE PhaseInv'
    BY <1>2 DEF TypeOK, Refuse
  <1>3. ASSUME NEW e \in Entries, Load(e) PROVE PhaseInv'
    BY <1>3 DEF TypeOK, Load
  <1>4. ASSUME NEW e \in Entries, LoadNotFound(e) PROVE PhaseInv'
    BY <1>4 DEF TypeOK, LoadNotFound
  <1>5. ASSUME NEW e \in Entries, Write(e) PROVE PhaseInv'
    BY <1>5 DEF TypeOK, Write
  <1>6. ASSUME NEW e \in Entries, WriteNothing(e) PROVE PhaseInv'
    BY <1>6 DEF TypeOK, WriteNothing
  <1>7. ASSUME NEW e \in Entries, Reread(e) PROVE PhaseInv'
    BY <1>7 DEF TypeOK, Reread
  <1>8. ASSUME NEW e \in Entries, RereadNotFound(e) PROVE PhaseInv'
    BY <1>8 DEF TypeOK, RereadNotFound
  <1>9. ASSUME NEW e \in Entries, Busy(e) PROVE PhaseInv'
    BY <1>9 DEF TypeOK, Busy
  <1>10. ASSUME NEW e \in Entries, Publish(e) PROVE PhaseInv'
    <2>1. ToSet(bus') = ToSet(bus) \cup {e}
      BY <1>10, AppendFacts DEF TypeOK, Publish
    <2> QED
      BY <1>10, <2>1 DEF TypeOK, Publish
  <1>11. ASSUME NEW e \in Entries, Finish(e) PROVE PhaseInv'
    BY <1>11 DEF TypeOK, Finish
  <1>12. CASE Delete
    BY <1>12 DEF TypeOK, Delete
  <1>13. CASE Quiescent
    BY <1>1, <1>13 DEF Quiescent
  <1> QED
    BY <1>1, <1>2, <1>3, <1>4, <1>5, <1>6, <1>7, <1>8, <1>9, <1>10, <1>11,
       <1>12, <1>13 DEF Next, Call, Proceed

(* The bus changes in one way only: a published entry joins it at the end. *)
LEMMA BusStep ==
  [Next]_vars => \/ bus' = bus
                 \/ \E e \in Entries : Publish(e)
  BY DEF Next, Call, Proceed, Refuse, Load, LoadNotFound, Write, WriteNothing,
         Reread, RereadNotFound, Busy, Finish, Delete, Quiescent, vars

LEMMA BusNext ==
  TypeOK /\ PhaseInv /\ BusDistinct /\ [Next]_vars => BusDistinct'
  <1> SUFFICES ASSUME TypeOK, PhaseInv, BusDistinct, NEW e \in Entries, Publish(e)
               PROVE  BusDistinct'
    BY BusStep DEF BusDistinct
  <1>1. e \notin ToSet(bus)
    BY DEF PhaseInv, Publish
  <1>2. bus' = Append(bus, e) /\ bus \in Seq(Entries)
    BY DEF Publish, TypeOK
  <1>3. \A i \in DOMAIN bus : bus[i] # e
    BY <1>1 DEF ToSet
  <1> QED
    BY <1>2, <1>3, AppendFacts DEF BusDistinct

-----------------------------------------------------------------------------
(* An append that leads on to others does so for good, and what it has     *)
(* ended with stays.                                                       *)
LEMMA LeadsStable ==
  ASSUME TypeOK, PhaseInv, [Next]_vars, NEW d \in Entries, Leads(d)
  PROVE  /\ Leads(d)'
         /\ d \in ToSet(bus') <=> d \in ToSet(bus)
         /\ pc[d] = "done" => result'[d] = result[d]
  <1>1. d \in ToSet(bus') <=> d \in ToSet(bus)
    <2>1. CASE bus' = bus
      BY <2>1
    <2>2. ASSUME NEW e \in Entries, Publish(e)
          PROVE  d \in ToSet(bus') <=> d \in ToSet(bus)
      <3>1. ToSet(bus') = ToSet(bus) \cup {e}
        BY <2>2, AppendFacts DEF TypeOK, Publish
      <3>2. d # e
        BY <2>2 DEF Leads, Publish
      <3> QED
        BY <3>1, <3>2
    <2> QED
      BY <2>1, <2>2, BusStep
  <1>2. /\ pc'[d] \in {"published", "done"}
        /\ pc[d] = "done" => result'[d] = result[d]
    BY DEF Leads, TypeOK, Next, Call, Proceed, Advance, End, Refuse, Load,
           LoadNotFound, Write, WriteNothing, Reread, RereadNotFound, Busy, Publish,
           Finish, Delete, Quiescent, vars
  <1> QED
    BY <1>1, <1>2 DEF Leads

(* An append that has not been called stays uncalled unless it is callable. *)
LEMMA CalledStep ==
  ASSUME TypeOK, [Next]_vars, NEW e \in Entries, pc[e] = "idle", pc'[e] # "idle"
  PROVE  Callable(e)
  BY DEF TypeOK, Next, Call, Proceed, Advance, End, Refuse, Load, LoadNotFound,
         Write, WriteNothing, Reread, RereadNotFound, Busy, Publish, Finish,
         Delete, Quiescent, vars

LEMMA CallableCaused ==
  ASSUME TypeOK, PhaseInv, NEW e \in RuleEntries \cup AgentEntries, Callable(e)
  PROVE  Leads(Trigger[e])
  <1>1. e \in UserEntries => FALSE
    BY TriggerAssumption
  <1>2. CASE e \in RuleEntries /\ pc[Trigger[e]] = "published"
    BY <1>2, TriggerAssumption DEF PhaseInv, Leads, Entries
  <1>3. CASE e \in AgentEntries /\ Trigger[e] \in turns
    BY <1>3 DEF TypeOK, PhaseInv, Leads, Entries
  <1>4. CASE /\ Trigger[e] \in AgentEntries
             /\ result[Trigger[e]] \in {"ok", "invalid", "not_found", "http404", "error"}
    BY <1>4, TriggerAssumption DEF PhaseInv, Leads, Entries
  <1> QED
    BY <1>1, <1>2, <1>3, <1>4 DEF Callable

(* All that led to an append that has been called leads on. *)
LEMMA CausesLead ==
  ASSUME PhaseInv, CauseInv, NEW e \in RuleEntries \cup AgentEntries, pc[e] # "idle",
         NEW d \in Causes(e)
  PROVE  d \in Entries /\ Leads(d)
  <1> DEFINE S == {x \in Entries : Leads(x)}
  <1>1. Trigger[e] \in S
    BY DEF CauseInv, Leads, Entries
  <1>2. ASSUME NEW x \in S, x \in DOMAIN Trigger PROVE Trigger[x] \in S
    <2>1. x \in RuleEntries \cup AgentEntries /\ pc[x] # "idle"
      BY <1>2, TriggerAssumption DEF Leads
    <2> QED
      BY <2>1 DEF CauseInv, Leads, Entries
  <1>3. Closed(S) /\ S \in SUBSET Entries
    BY <1>2 DEF Closed
  <1>4. d \in S
    <2> HIDE DEF S
    <2> QED
      BY <1>1, <1>3 DEF Causes
  <1> QED
    BY <1>4

(* A new last element comes after all the others and disturbs no order. *)
LEMMA PrecedesAppend ==
  ASSUME NEW S, NEW s \in Seq(S), NEW e \in S
  PROVE  /\ \A d, f : Precedes(d, f, s) => Precedes(d, f, Append(s, e))
         /\ \A d \in ToSet(s) : Precedes(d, e, Append(s, e))
  <1> DEFINE t == Append(s, e)
  <1>1. /\ DOMAIN t = 1..(Len(s) + 1)
        /\ DOMAIN s = 1..Len(s)
        /\ Len(s) \in Nat
        /\ \A i \in 1..Len(s) : t[i] = s[i]
        /\ t[Len(s) + 1] = e
    BY AppendFacts
  <1> HIDE DEF t
  <1>2. \A d, f : Precedes(d, f, s) => Precedes(d, f, t)
    BY <1>1 DEF Precedes
  <1>3. ASSUME NEW d \in ToSet(s) PROVE Precedes(d, e, t)
    <2>1. PICK i \in 1..Len(s) : s[i] = d
      BY <1>1, <1>3 DEF ToSet
    <2>2. i < Len(s) + 1 /\ t[i] = d
      BY <1>1, <2>1
    <2> QED
      BY <1>1, <2>2 DEF Precedes
  <1> QED
    BY <1>2, <1>3 DEF t

LEMMA CauseInit == Init => CauseInv /\ CausalEvents
  BY EmptyFacts DEF Init, CauseInv, CausalEvents, Entries

LEMMA CauseNext ==
  TypeOK /\ PhaseInv /\ CauseInv /\ [Next]_vars => CauseInv'
  <1> SUFFICES ASSUME TypeOK, PhaseInv, CauseInv, [Next]_vars,
                      NEW e \in RuleEntries \cup AgentEntries, pc'[e] # "idle"
               PROVE  Leads(Trigger[e])'
    BY DEF CauseInv
  <1>1. Trigger[e] \in Entries /\ e \in Entries
    BY TriggerAssumption DEF Entries
  <1>2. Leads(Trigger[e])
    BY <1>1, CalledStep, CallableCaused DEF CauseInv
  <1>3. ASSUME NEW d \in Entries, Leads(d) PROVE Leads(d)'
    BY <1>3, LeadsStable
  <1>4. PICK d \in Entries : d = Trigger[e]
    BY <1>1
  <1> QED
    BY <1>2, <1>3, <1>4 DEF Leads

LEMMA CausalEventsNext ==
  TypeOK /\ PhaseInv /\ CauseInv /\ CausalEvents /\ [Next]_vars => CausalEvents'
  <1> SUFFICES ASSUME TypeOK, PhaseInv, CauseInv, CausalEvents, [Next]_vars,
                      NEW e \in ToSet(bus') \cap (RuleEntries \cup AgentEntries),
                      NEW d \in Causes(e)
               PROVE  \/ Precedes(d, e, bus')
                      \/ d \in AgentEntries \ ToSet(bus') /\ result'[d] \in Failed
    BY DEF CausalEvents, Causes, Closed
  <1>1. e \in Entries /\ bus \in Seq(Entries)
    BY DEF Entries, TypeOK
  <1>2. e \in ToSet(bus) \/ Publish(e)
    <2>1. ASSUME NEW f \in Entries, Publish(f) PROVE e \in ToSet(bus) \/ e = f
      BY <2>1, <1>1, AppendFacts DEF Publish
    <2> QED
      BY <2>1, BusStep
  <1>3. pc[e] # "idle"
    BY <1>1, <1>2 DEF PhaseInv, Publish
  <1>4. d \in Entries /\ Leads(d)
    BY <1>3, CausesLead
  <1>5. /\ d \in ToSet(bus') <=> d \in ToSet(bus)
        /\ pc[d] = "done" => result'[d] = result[d]
    BY <1>4, LeadsStable
  (* What is not announced by now has failed. *)
  <1>6. CASE d \notin ToSet(bus)
    <2>1. d \in AgentEntries /\ pc[d] = "done"
      BY <1>4, <1>6 DEF Leads, PhaseInv
    <2>2. result[d] \in Failed
      BY <1>4, <1>6, <2>1 DEF PhaseInv, TypeOK, Results, Failed
    <2> QED
      BY <1>5, <1>6, <2>1, <2>2
  <1>7. CASE d \in ToSet(bus) /\ e \in ToSet(bus)
    <2>1. Precedes(d, e, bus)
      BY <1>7 DEF CausalEvents
    <2> QED
      BY <1>1, <2>1, BusStep, PrecedesAppend DEF Publish
  <1>8. CASE d \in ToSet(bus) /\ Publish(e)
    BY <1>1, <1>8, PrecedesAppend DEF Publish
  <1> QED
    BY <1>2, <1>6, <1>7, <1>8

-----------------------------------------------------------------------------
LEMMA VersionInit == Init => VersionInv
  BY EmptyFacts DEF Init, VersionInv, GoodList

(* Apart from the read, which fills the list of an append and remembers    *)
(* what was stored, the write and the deletion, no step touches the row,   *)
(* its history or the list of an append that stays loaded.                 *)
LEMMA RowStep ==
  ASSUME TypeOK, [Next]_vars
  PROVE  \/ \E e \in Entries : Load(e)
         \/ \E e \in Entries : Write(e)
         \/ Delete
         \/ /\ UNCHANGED <<present, column, committed, before, versions>>
            /\ \A f \in Entries :
                 pc'[f] = "loaded" => pc[f] = "loaded" /\ entries'[f] = entries[f]
  BY DEF TypeOK, Next, Call, Proceed, Advance, End, Refuse, LoadNotFound,
         WriteNothing, Reread, RereadNotFound, Busy, Publish, Finish,
         Quiescent, vars

(* The list of a loaded append with its entry at the end is again good. *)
LEMMA WriteGood ==
  ASSUME TypeOK, PhaseInv, CauseInv, VersionInv, NEW e \in Entries, Write(e)
  PROVE  GoodList(column)'
  <1> DEFINE v == entries[e]
  <1> DEFINE n == Len(v) + 1
  <1>1. /\ v \in Seq(Entries)
        /\ GoodList(v)
        /\ pc[e] = "loaded"
        /\ column' = Append(v, e)
        /\ committed' = committed \cup {e}
        /\ before' = before
    BY DEF Write, VersionInv, TypeOK
  <1>2. /\ DOMAIN column' = 1..n
        /\ DOMAIN v = 1..Len(v)
        /\ Len(v) \in Nat
        /\ \A i \in 1..Len(v) : column'[i] = v[i]
        /\ column'[n] = e
        /\ ToSet(column') = ToSet(v) \cup {e}
    BY <1>1, AppendFacts
  <1> HIDE DEF v
  <1>3. e \notin committed /\ \A f \in Entries : e \notin before[f]
    BY <1>1 DEF PhaseInv, VersionInv
  <1>4. \A i \in 1..Len(v) : v[i] \in committed
    BY <1>1, <1>2 DEF GoodList, ToSet
  <1>5. \A i \in 1..n : i \in 1..Len(v) \/ i = n
    BY <1>2
  <1>6. ToSet(column') \subseteq committed'
    BY <1>1, <1>2 DEF GoodList
  <1>7. ASSUME NEW i \in 1..n, NEW k \in 1..n, column'[i] = column'[k]
        PROVE  i = k
    BY <1>1, <1>2, <1>3, <1>4, <1>5, <1>7 DEF GoodList
  <1>8. ASSUME NEW i \in 1..n, NEW k \in 1..n, column'[i] \in before'[column'[k]]
        PROVE  i < k
    <2>1. k \in 1..Len(v) => v[k] \in Entries
      BY <1>4 DEF TypeOK
    <2>2. column'[i] # e
      BY <1>1, <1>2, <1>3, <1>5, <1>8, <2>1
    <2>3. i \in 1..Len(v)
      BY <1>2, <1>5, <2>2
    <2>4. CASE k = n
      BY <1>2, <2>3, <2>4
    <2>5. CASE k \in 1..Len(v)
      BY <1>1, <1>2, <1>8, <2>3, <2>5 DEF GoodList
    <2> QED
      BY <1>5, <2>4, <2>5
  <1>9. ASSUME NEW i \in 1..n, NEW k \in 1..n,
               column'[k] \in RuleEntries \cup AgentEntries,
               column'[i] = Trigger[column'[k]]
        PROVE  i < k
    <2>1. column'[k] \in Entries /\ pc[column'[k]] # "idle"
      BY <1>1, <1>2, <1>4, <1>5 DEF PhaseInv, TypeOK
    <2>2. Leads(Trigger[column'[k]])
      BY <1>9, <2>1 DEF CauseInv
    <2>3. column'[i] # e
      BY <1>1, <1>9, <2>2 DEF Leads
    <2>4. i \in 1..Len(v)
      BY <1>2, <1>5, <2>3
    <2>5. CASE k = n
      BY <1>2, <2>4, <2>5
    <2>6. CASE k \in 1..Len(v)
      BY <1>1, <1>2, <1>9, <2>4, <2>6 DEF GoodList
    <2> QED
      BY <1>5, <2>5, <2>6
  <1> QED
    BY <1>2, <1>6, <1>7, <1>8, <1>9 DEF GoodList

LEMMA VersionNext ==
  TypeOK /\ PhaseInv /\ CauseInv /\ VersionInv /\ [Next]_vars => VersionInv'
  <1> SUFFICES ASSUME TypeOK, PhaseInv, CauseInv, VersionInv, [Next]_vars
               PROVE  VersionInv'
    OBVIOUS
  <1>1. ASSUME NEW e \in Entries, Load(e) PROVE VersionInv'
    <2>1. /\ e \notin committed
          /\ before' = [before EXCEPT ![e] = committed]
          /\ UNCHANGED <<present, column, committed, versions>>
      BY <1>1 DEF Load, PhaseInv
    <2>2. ASSUME NEW v \in versions PROVE GoodList(v)'
      <3>1. v \in Seq(Entries) /\ GoodList(v)
        BY DEF TypeOK, VersionInv
      <3>2. \A k \in DOMAIN v : v[k] \in committed
        BY <3>1 DEF GoodList, ToSet
      <3>3. \A k \in DOMAIN v : before'[v[k]] = before[v[k]]
        BY <2>1, <3>2 DEF TypeOK
      <3> QED
        BY <2>1, <3>1, <3>3 DEF GoodList
    <2>3. \A f \in Entries : pc'[f] = "loaded" => entries'[f] \in versions'
      BY <1>1 DEF Load, Advance, VersionInv, TypeOK
    <2>4. \A f \in Entries : before'[f] \subseteq committed'
      BY <2>1 DEF VersionInv, TypeOK
    <2> QED
      BY <2>1, <2>2, <2>3, <2>4 DEF VersionInv
  <1>2. ASSUME NEW e \in Entries, Write(e) PROVE VersionInv'
    <2>1. /\ column' \in versions'
          /\ committed' = committed \cup {e}
          /\ versions' = versions \cup {column'}
          /\ UNCHANGED <<present, before>>
          /\ present
      BY <1>2 DEF Write
    <2>2. \A v \in versions : GoodList(v)'
      BY <2>1 DEF VersionInv, GoodList
    <2>3. GoodList(column)'
      BY <1>2, WriteGood
    <2>4. \A f \in Entries : pc'[f] = "loaded" => entries'[f] \in versions'
      BY <1>2 DEF Write, Advance, VersionInv, TypeOK
    <2>5. \A v \in versions' : GoodList(v)'
      BY <2>1, <2>2, <2>3 DEF GoodList
    <2>6. \A f \in Entries : before'[f] \subseteq committed'
      BY <2>1 DEF VersionInv
    <2> QED
      BY <2>1, <2>4, <2>5, <2>6 DEF VersionInv
  <1>3. CASE Delete
    BY <1>3 DEF Delete, VersionInv, GoodList
  <1>4. CASE /\ UNCHANGED <<present, column, committed, before, versions>>
             /\ \A f \in Entries :
                  pc'[f] = "loaded" => pc[f] = "loaded" /\ entries'[f] = entries[f]
    BY <1>4 DEF VersionInv, GoodList
  <1> QED
    BY <1>1, <1>2, <1>3, <1>4, RowStep

-----------------------------------------------------------------------------
LEMMA AccountInit == Init => AccountInv
  BY EmptyFacts DEF Init, AccountInv, Accounted

LEMMA AccountNext ==
  TypeOK /\ PhaseInv /\ VersionInv /\ AccountInv /\ [Next]_vars => AccountInv'
  <1> SUFFICES ASSUME TypeOK, PhaseInv, VersionInv, AccountInv, [Next]_vars
               PROVE  AccountInv'
    OBVIOUS
  <1>1. ASSUME NEW e \in Entries, Load(e) PROVE AccountInv'
    <2>1. /\ e \notin committed
          /\ present
          /\ before' = [before EXCEPT ![e] = committed]
          /\ entries' = [entries EXCEPT ![e] = column]
          /\ pc' = [pc EXCEPT ![e] = "loaded"]
          /\ UNCHANGED <<present, column, committed, versions>>
      BY <1>1 DEF Load, Advance, PhaseInv
    (* Among stored entries nothing changes. *)
    <2>2. \A d, f \in committed : Overlap(d, f)' <=> Overlap(d, f)
      BY <2>1 DEF Overlap, TypeOK
    <2>3. ASSUME NEW v, NEW S \in SUBSET committed, Accounted(v, S)
          PROVE  Accounted(v, S)'
      BY <2>2, <2>3 DEF Accounted
    <2>4. Accounted(column, committed)'
      BY <2>1, <2>3 DEF AccountInv, Accounted
    <2>5. ASSUME NEW f \in Entries, pc'[f] = "loaded"
          PROVE  Accounted(entries[f], before[f])'
      <3>1. CASE f = e
        <4>1. entries'[f] = column /\ before'[f] = committed
          BY <2>1, <3>1 DEF TypeOK
        <4> QED
          BY <2>1, <2>4, <4>1 DEF Accounted
      <3>2. CASE f # e
        <4>1. /\ pc[f] = "loaded"
              /\ entries'[f] = entries[f]
              /\ before'[f] = before[f]
          BY <2>1, <2>5, <3>2 DEF TypeOK
        <4>2. Accounted(entries[f], before[f])
          BY <4>1 DEF AccountInv
        <4>3. before[f] \subseteq committed
          BY DEF VersionInv
        <4> QED
          BY <2>2, <4>1, <4>2, <4>3 DEF Accounted
      <3> QED
        BY <3>1, <3>2
    <2> QED
      BY <2>4, <2>5 DEF AccountInv
  <1>2. ASSUME NEW e \in Entries, Write(e) PROVE AccountInv'
    <2>1. /\ pc[e] = "loaded"
          /\ column' = Append(entries[e], e)
          /\ committed' = committed \cup {e}
          /\ before' = before
          /\ entries[e] \in Seq(Entries)
      BY <1>2 DEF Write, TypeOK
    <2>2. ToSet(column') = ToSet(entries[e]) \cup {e}
      BY <2>1, AppendFacts
    <2>3. /\ Accounted(entries[e], before[e])
          /\ before[e] \subseteq committed
          /\ e \notin committed
          /\ \A f \in Entries : e \notin before[f]
      BY <2>1 DEF AccountInv, VersionInv, PhaseInv
    <2>4. ASSUME NEW x \in committed' \ ToSet(column')
          PROVE  \E d \in committed' : d # x /\ Overlap(d, x)
      <3>1. x \in committed /\ x \notin ToSet(entries[e]) /\ x # e /\ x \in Entries
        BY <2>1, <2>2 DEF TypeOK
      (* It was missing from what e read: an earlier writer lost it. *)
      <3>2. CASE x \in before[e]
        BY <2>1, <2>3, <3>1, <3>2 DEF Accounted
      (* It was stored after e had read: e loses it. *)
      <3>3. CASE x \notin before[e]
        BY <2>1, <2>3, <3>1, <3>3 DEF Overlap
      <3> QED
        BY <3>2, <3>3
    <2>5. Accounted(column, committed)'
      BY <2>1, <2>4 DEF Accounted, Overlap
    <2>6. \A f \in Entries : pc'[f] = "loaded" =>
            pc[f] = "loaded" /\ entries'[f] = entries[f] /\ before'[f] = before[f]
      BY <1>2 DEF Write, Advance, TypeOK
    <2> QED
      BY <2>1, <2>5, <2>6 DEF AccountInv, Accounted, Overlap
  <1>3. CASE Delete
    BY <1>3 DEF Delete, AccountInv, Accounted, Overlap
  <1>4. CASE /\ UNCHANGED <<present, column, committed, before, versions>>
             /\ \A f \in Entries :
                  pc'[f] = "loaded" => pc[f] = "loaded" /\ entries'[f] = entries[f]
    BY <1>4 DEF AccountInv, Accounted, Overlap
  <1> QED
    BY <1>1, <1>2, <1>3, <1>4, RowStep

-----------------------------------------------------------------------------
(* The conjunction is inductive; the layers above only depend on the ones  *)
(* before them.                                                            *)
LEMMA InvInit == Init => IInv
  BY TypeInit, PhaseInit, CauseInit, VersionInit, AccountInit DEF IInv

LEMMA InvNext == IInv /\ [Next]_vars => IInv'
  BY TypeNext, PhaseNext, BusNext, CauseNext, CausalEventsNext, VersionNext,
     AccountNext DEF IInv

(* Every reachable state satisfies the inductive invariant, which ties the *)
(* phase of each append to the row, to the bus and to what callers heard.  *)
THEOREM InvCorrect == Spec => []IInv
  BY InvInit, InvNext, PTL DEF Spec

(* No entry is stored twice, however appends of the same row interleave    *)
(* and wherever one of them fails.                                         *)
THEOREM NoDuplicatesCorrect == Spec => []NoDuplicates
  <1>1. IInv => NoDuplicates
    BY DEF IInv, VersionInv, GoodList, NoDuplicates
  <1> QED
    BY <1>1, InvCorrect, PTL

(* The stored list respects the order in which appends came one after the  *)
(* other: the lost updates of the read-modify-write never reorder entries. *)
THEOREM RealTimeOrderCorrect == Spec => []RealTimeOrder
  <1>1. IInv => RealTimeOrder
    BY DEF IInv, VersionInv, GoodList, RealTimeOrder
  <1> QED
    BY <1>1, InvCorrect, PTL

(* A rule's entry stands after the user entry it reacts to and a           *)
(* write-back after the entry it follows, whatever else was lost.          *)
THEOREM CausalOrderCorrect == Spec => []CausalOrder
  <1>1. IInv => CausalOrder
    BY DEF IInv, VersionInv, GoodList, CausalOrder
  <1> QED
    BY <1>1, InvCorrect, PTL

(* _do_append loses a stored entry only to an append that ran at the same  *)
(* time, for any number of clients, rules and write-backs.                 *)
THEOREM LossCorrect == Spec => []LossOnlyOnOverlap
  <1>1. IInv => LossOnlyOnOverlap
    BY DEF IInv, AccountInv, Accounted, LossOnlyOnOverlap
  <1> QED
    BY <1>1, InvCorrect, PTL

(* Each successful append is announced exactly once, and nothing that was  *)
(* never stored is announced.                                              *)
THEOREM EventsCorrect == Spec => []EventsMatchAppends
  <1>1. IInv => EventsMatchAppends
    <2> SUFFICES ASSUME IInv PROVE EventsMatchAppends
      OBVIOUS
    <2>1. ToSet(bus) \subseteq Entries
      BY DEF IInv, TypeOK, ToSet
    <2> QED
      BY <2>1 DEF IInv, PhaseInv, BusDistinct, EventsMatchAppends
  <1> QED
    BY <1>1, InvCorrect, PTL

(* Subscribers hear of an entry after all that led to it, however many     *)
(* write-backs the turn has made and whichever of them have raised.        *)
THEOREM CausalEventsCorrect == Spec => []CausalEvents
  <1>1. IInv => CausalEvents
    BY DEF IInv
  <1> QED
    BY <1>1, InvCorrect, PTL

(* A caller that is told 400 or 404 by the append helper can rely on the   *)
(* entry not being stored.                                                 *)
THEOREM FailureReportingCorrect == Spec => []FailureReporting
  <1>1. IInv => FailureReporting
    BY DEF IInv, PhaseInv, FailureReporting
  <1> QED
    BY <1>1, InvCorrect, PTL

(* Callers and subscribers are told what was stored.                        *)
THEOREM ReportsCorrect == Spec => []ReportsMatchStore
  <1>1. EventsMatchAppends /\ FailureReporting => ReportsMatchStore
    BY DEF ReportsMatchStore
  <1> QED
    BY <1>1, EventsCorrect, FailureReportingCorrect, PTL

-----------------------------------------------------------------------------
LEMMA RefinementInit == Init => Log!LogInit
  BY DEF Init, Log!LogInit

(* A write extends the value the append has read, which is one of the      *)
(* values the column has had, with an entry that none of them holds; the   *)
(* deletion removes the row; every other step is a stutter.                *)
LEMMA RefinementNext == IInv /\ [Next]_vars => [Log!LogNext]_(Log!logVars)
  <1> SUFFICES ASSUME IInv, [Next]_vars
               PROVE  [Log!LogNext]_(Log!logVars)
    OBVIOUS
  <1>0. TypeOK /\ PhaseInv /\ VersionInv
    BY DEF IInv
  <1>1. ASSUME NEW e \in Entries, Load(e) PROVE UNCHANGED Log!logVars
    BY <1>1 DEF Load, Log!logVars
  <1>2. ASSUME NEW e \in Entries, Write(e) PROVE Log!LogNext
    <2>1. entries[e] \in versions /\ e \notin committed
      BY <1>0, <1>2 DEF Write, PhaseInv, VersionInv
    <2>2. e \notin Log!Known
      BY <1>0, <2>1 DEF VersionInv, GoodList, ToSet, Log!Known, Log!ToSet
    <2>3. Log!Extend(entries[e], e)
      BY <1>2, <2>2 DEF Write, Log!Extend
    <2> QED
      BY <2>1, <2>3 DEF Log!LogNext
  <1>3. CASE Delete
    BY <1>3 DEF Delete, Log!LogNext, Log!RemoveRow
  <1>4. CASE UNCHANGED <<present, column, committed, before, versions>>
    BY <1>4 DEF Log!logVars
  <1> QED
    BY <1>0, <1>1, <1>2, <1>3, <1>4, RowStep

(* The append protocol implements the lossy log: readers of the column     *)
(* only ever see values that some append produced by extending an earlier  *)
(* value with a new entry, until the row is deleted.                       *)
THEOREM Refinement == Spec => ImplementsLog
  BY RefinementInit, RefinementNext, InvCorrect, PTL
     DEF Spec, ImplementsLog, Log!LogSpec
=============================================================================
