--------------------------- MODULE ChatViewProofs ---------------------------
(***************************************************************************)
(* Proofs about ChatView.tla for any threads, any entries, any number of   *)
(* loads and of losses of the socket.                                      *)
(***************************************************************************)
EXTENDS ChatView, TLAPS

(* What a handler makes of a push. *)
LEMMA PushFacts ==
  ASSUME NEW p \in Pushes
  PROVE  /\ p.type = "appended" =>
              p.entry \in Entries /\ p = [type |-> "appended", entry |-> p.entry]
         /\ p.type # "appended" =>
              /\ p.thread \in Threads /\ p.type \in {"delta", "end"}
              /\ p = [type |-> p.type, thread |-> p.thread]
  BY DEF Pushes

(* Taking the first push off the wire leaves the rest in order. *)
LEMMA WireTail ==
  ASSUME wire \in Seq(Pushes), wire # <<>>, wire' = Tail(wire)
  PROVE  /\ wire' \in Seq(Pushes) /\ Head(wire) \in Pushes /\ Head(wire) = wire[1]
         /\ \A i \in DOMAIN wire : i = 1 \/ (i - 1 \in DOMAIN wire' /\ wire'[i - 1] = wire[i])
         /\ \A i \in DOMAIN wire' : i + 1 \in DOMAIN wire /\ wire'[i] = wire[i + 1]
  OBVIOUS

(* A push goes to the end of the wire, or the wire stays as it is. *)
LEMMA WirePush ==
  ASSUME wire \in Seq(Pushes), NEW p \in Pushes, Push(p)
  PROVE  /\ wire' \in Seq(Pushes)
         /\ \A i \in DOMAIN wire : i \in DOMAIN wire' /\ wire'[i] = wire[i]
         /\ \A i \in DOMAIN wire' : i \in DOMAIN wire \/ (i = Len(wire) + 1 /\ wire'[i] = p)
         /\ link = "subscribed" => Len(wire) + 1 \in DOMAIN wire' /\ wire'[Len(wire) + 1] = p
         /\ Len(wire) \in Nat /\ DOMAIN wire = 1..Len(wire)
  <1>1. CASE link = "subscribed"
    <2>1. wire' = Append(wire, p)
      BY <1>1 DEF Push
    <2> QED
      BY <2>1
  <1>2. CASE link # "subscribed"
    BY <1>2 DEF Push
  <1> QED
    BY <1>1, <1>2

(* A load changes in place. *)
LEMMA SetLoadFacts ==
  ASSUME loads \in Seq(Loads), NEW i \in DOMAIN loads,
         NEW s \in {"asked", "read", "rendered", "failed"}, NEW x \in SUBSET Entries,
         SetLoad(i, s, x)
  PROVE  /\ loads' \in Seq(Loads) /\ Len(loads') = Len(loads) /\ DOMAIN loads' = DOMAIN loads
         /\ \A j \in DOMAIN loads : j # i => loads'[j] = loads[j]
         /\ loads'[i].thread = loads[i].thread /\ loads'[i].stage = s /\ loads'[i].entries = x
  <1> DEFINE l == [thread |-> loads[i].thread, stage |-> s, entries |-> x]
  <1>1. loads[i] \in Loads
    OBVIOUS
  <1>2. l \in Loads
    BY <1>1 DEF Loads
  <1>3. loads' = [loads EXCEPT ![i] = l]
    BY DEF SetLoad
  <1> HIDE DEF l
  <1>4. loads' \in Seq(Loads) /\ Len(loads') = Len(loads) /\ DOMAIN loads' = DOMAIN loads
        /\ \A j \in DOMAIN loads : j # i => loads'[j] = loads[j]
    BY <1>2, <1>3
  <1>5. loads'[i] = l
    BY <1>3
  <1> QED
    BY <1>4, <1>5 DEF l

(* Clearing the view for a thread puts its load behind the others. *)
LEMMA StartLoadFacts ==
  ASSUME loads \in Seq(Loads), NEW t \in Threads, StartLoad(t), ChatViewAssumption
  PROVE  /\ loads' \in Seq(Loads) /\ Len(loads') = Len(loads) + 1 /\ Len(loads) \in Nat
         /\ DOMAIN loads' = 1..(Len(loads) + 1) /\ DOMAIN loads = 1..Len(loads)
         /\ \A j \in DOMAIN loads : loads'[j] = loads[j]
         /\ loads'[Len(loads')].thread = t /\ loads'[Len(loads')].stage = "asked"
         /\ loads'[Len(loads')].entries = {}
  <1> DEFINE l == [thread |-> t, stage |-> "asked", entries |-> {}]
  <1>1. l \in Loads
    BY DEF Loads
  <1>2. loads' = Append(loads, l)
    BY DEF StartLoad, ChatViewAssumption
  <1>3. l.thread = t /\ l.stage = "asked" /\ l.entries = {}
    OBVIOUS
  <1> HIDE DEF l
  <1> QED
    BY <1>1, <1>2, <1>3

-----------------------------------------------------------------------------
(* Which actions touch what. *)

(* The stored lists and the progress of the entries. *)
LEMMA EntryStep ==
  ASSUME Next
  PROVE  \/ \E e \in Entries : AppendByOthers(e) \/ Publish(e) \/ FailAfterStore(e)
         \/ HandleFrame \/ Drop
         \/ \E e \in Own : Submit(e) \/ SubmitNew(e) \/ SubmitCreated(e)
         \/ UNCHANGED <<conv, at>>
  BY DEF Next, Delta, EndStream, FailStream, Open, Subscribe, Reply, ReadRecord, RenderReply,
         LoadFails, HandleAppended, HandleStream, Resolve, ResolveFails, SwitchThread, NewChat,
         NewChatCreated, Idle, vars, server

(* The loads, the active thread and what is settled. *)
LEMMA LoadStep ==
  ASSUME Next
  PROVE  \/ \E i \in DOMAIN loads : ReadRecord(i) \/ RenderReply(i) \/ LoadFails(i)
         \/ \E t \in exists \cup {None} : Resolve(t)
         \/ \E t \in Threads : SwitchThread(t) \/ NewChatCreated(t)
         \/ HandleAppended
         \/ \E e \in Own : SubmitCreated(e)
         \/ UNCHANGED <<loads, active, settled>>
  BY DEF Next, Delta, EndStream, FailStream, Open, Subscribe, Drop, Reply, HandleStream,
         ResolveFails, NewChat, Idle, vars, view, history, AppendByOthers, Publish,
         FailAfterStore, HandleFrame, Submit, SubmitNew

-----------------------------------------------------------------------------
(* Types. *)

Place(p) == IF p.type = "appended" THEN Home[p.entry] ELSE p.thread

(* Whatever the browser and the server know of is in a thread that exists. *)
Known ==
  /\ \A e \in Entries : at[e] # "new" => Home[e] \in exists
  /\ \A i \in DOMAIN wire : Place(wire[i]) \in exists

Typed == TypeOK /\ Known

LEMMA TypedInit ==
  ASSUME ChatViewAssumption, Init
  PROVE  Typed
  <1>1. DOMAIN wire = {} /\ wire \in Seq(Pushes) /\ frames \in Seq(Own) /\ loads \in Seq(Loads)
    BY DEF Init
  <1>2. drops \in 0..MaxDrops
    BY DEF Init, ChatViewAssumption
  <1> QED
    BY <1>1, <1>2 DEF ChatViewAssumption, Init, Typed, TypeOK, Known, Stages

LEMMA TypedAppend ==
  ASSUME ChatViewAssumption, Typed, NEW e \in Entries, AppendByOthers(e)
  PROVE  Typed'
  BY DEF ChatViewAssumption, Typed, TypeOK, Known, Stages, AppendByOthers, Store, socket, view,
         history, Place

LEMMA TypedHandleFrame ==
  ASSUME ChatViewAssumption, Typed, HandleFrame
  PROVE  Typed'
  <1>1. Head(frames) \in Entries /\ frames' \in Seq(Own)
    BY DEF ChatViewAssumption, Typed, TypeOK, HandleFrame
  <1> QED
    BY <1>1 DEF ChatViewAssumption, Typed, TypeOK, Known, Stages, HandleFrame, Store, view,
         history, Place

(* A push for an existing thread keeps the wire in order. *)
LEMMA TypedPush ==
  ASSUME Typed, NEW p \in Pushes, Place(p) \in exists, Push(p), exists' = exists
  PROVE  wire' \in Seq(Pushes) /\ \A i \in DOMAIN wire' : Place(wire'[i]) \in exists'
  <1>1. wire \in Seq(Pushes) /\ \A i \in DOMAIN wire : Place(wire[i]) \in exists
    BY DEF Typed, TypeOK, Known
  <1> HIDE DEF Place
  <1>2. /\ wire' \in Seq(Pushes)
        /\ \A i \in DOMAIN wire : i \in DOMAIN wire' /\ wire'[i] = wire[i]
        /\ \A i \in DOMAIN wire' : i \in DOMAIN wire \/ (i = Len(wire) + 1 /\ wire'[i] = p)
    BY <1>1, WirePush
  <1> QED
    BY <1>1, <1>2

LEMMA TypedPublish ==
  ASSUME ChatViewAssumption, Typed, NEW e \in Entries, Publish(e) \/ FailAfterStore(e)
  PROVE  Typed'
  <1>1. CASE Publish(e)
    <2> DEFINE p == [type |-> "appended", entry |-> e]
    <2>1. p \in Pushes /\ Place(p) = Home[e]
      BY DEF Pushes, Place
    <2>2. Home[e] \in exists
      BY <1>1 DEF Publish, Typed, Known
    <2>3. Push(p) /\ exists' = exists
      BY <1>1 DEF Publish
    <2> HIDE DEF p
    <2>4. wire' \in Seq(Pushes) /\ \A i \in DOMAIN wire' : Place(wire'[i]) \in exists'
      BY <2>1, <2>2, <2>3, TypedPush
    <2> QED
      BY <1>1, <2>4 DEF Publish, Typed, TypeOK, Known, Stages, view, history
  <1>2. CASE FailAfterStore(e)
    BY <1>2 DEF FailAfterStore, Typed, TypeOK, Known, Stages, socket, view, history, Place
  <1> QED
    BY <1>1, <1>2

LEMMA TypedStream ==
  ASSUME ChatViewAssumption, Typed, NEW t \in Threads, Delta(t) \/ EndStream(t) \/ FailStream(t)
  PROVE  Typed'
  <1>1. ASSUME NEW k \in {"delta", "end"}, t \in exists, Push([type |-> k, thread |-> t]),
               exists' = exists
        PROVE  wire' \in Seq(Pushes) /\ \A i \in DOMAIN wire' : Place(wire'[i]) \in exists'
    <2> DEFINE p == [type |-> k, thread |-> t]
    <2>1. p \in Pushes /\ Place(p) = t /\ Push(p)
      BY <1>1 DEF Pushes, Place
    <2> HIDE DEF p
    <2> QED
      BY <1>1, <2>1, TypedPush
  <1>2. CASE Delta(t)
    <2>1. wire' \in Seq(Pushes) /\ \A i \in DOMAIN wire' : Place(wire'[i]) \in exists'
      BY <1>2, <1>1 DEF Delta
    <2> QED
      BY <1>2, <2>1 DEF Delta, Typed, TypeOK, Known, view
  <1>3. CASE EndStream(t)
    <2>1. wire' \in Seq(Pushes) /\ \A i \in DOMAIN wire' : Place(wire'[i]) \in exists'
      BY <1>3, <1>1 DEF EndStream, Typed, TypeOK
    <2> QED
      BY <1>3, <2>1 DEF EndStream, Typed, TypeOK, Known, view
  <1>4. CASE FailStream(t)
    BY <1>4 DEF FailStream, Typed, TypeOK, Known, socket, view, Place
  <1> QED
    BY <1>2, <1>3, <1>4

LEMMA TypedSocket ==
  ASSUME ChatViewAssumption, Typed, Open \/ Subscribe \/ Drop
  PROVE  Typed'
  <1>1. CASE Open \/ Subscribe
    BY <1>1 DEF Open, Subscribe, Typed, TypeOK, Known, server, view, history, Place
  <1>2. CASE Drop
    <2>1. DOMAIN wire' = {} /\ wire' \in Seq(Pushes) /\ frames' \in Seq(Own)
      BY <1>2 DEF Drop
    <2>2. drops' \in 0..MaxDrops
      BY <1>2 DEF Drop, Typed, TypeOK, ChatViewAssumption
    <2>3. /\ at' \in [Entries -> Stages]
          /\ \A e \in Entries : at'[e] # "new" => at[e] # "new"
      BY <1>2 DEF Drop, Typed, TypeOK, Stages
    <2> QED
      BY <1>2, <2>1, <2>2, <2>3 DEF Drop, Typed, TypeOK, Known, view
  <1> QED
    BY <1>1, <1>2

LEMMA TypedReply ==
  ASSUME ChatViewAssumption, Typed, NEW i \in DOMAIN loads,
         ReadRecord(i) \/ RenderReply(i) \/ LoadFails(i)
  PROVE  Typed'
  <1>1. loads \in Seq(Loads) /\ loads[i] \in Loads
    BY DEF Typed, TypeOK
  <1>2. loads[i].thread \in Threads /\ loads[i].entries \in SUBSET Entries
    BY <1>1 DEF Loads
  <1>3. conv[loads[i].thread] \in SUBSET Entries
    BY <1>2 DEF Typed, TypeOK
  <1>4. loads' \in Seq(Loads)
    BY <1>1, <1>3, SetLoadFacts DEF ReadRecord, RenderReply, LoadFails
  <1> QED
    BY <1>2, <1>4 DEF ReadRecord, RenderReply, LoadFails, Render, Typed, TypeOK, Known, server,
         socket, history, Place, ChatViewAssumption

LEMMA TypedPushed ==
  ASSUME ChatViewAssumption, Typed, HandleAppended \/ HandleStream
  PROVE  Typed'
  <1>1. wire \in Seq(Pushes) /\ wire # <<>> /\ wire' = Tail(wire) /\ exists' = exists
    BY DEF HandleAppended, HandleStream, Typed, TypeOK, server
  <1>2. /\ wire' \in Seq(Pushes) /\ Head(wire) \in Pushes /\ Head(wire) = wire[1]
        /\ \A i \in DOMAIN wire' : i + 1 \in DOMAIN wire /\ wire'[i] = wire[i + 1]
    BY <1>1, WireTail
  <1>3. Place(Head(wire)) \in exists /\ \A i \in DOMAIN wire' : Place(wire'[i]) \in exists'
    BY <1>1, <1>2 DEF Typed, Known
  <1>4. CASE HandleAppended
    <2>1. Head(wire).entry \in Entries /\ Place(Head(wire)) = Home[Head(wire).entry]
      BY <1>2, <1>4, PushFacts DEF HandleAppended, Place
    <2> QED
      BY <1>2, <1>3, <1>4, <2>1 DEF HandleAppended, Display, Typed, TypeOK, Known, server, history
  <1>5. CASE HandleStream
    <2>1. Place(Head(wire)) = Head(wire).thread
      BY <1>5 DEF HandleStream, Place
    <2> QED
      BY <1>2, <1>3, <1>5, <2>1 DEF HandleStream, Typed, TypeOK, Known, server, history
  <1> QED
    BY <1>4, <1>5

LEMMA TypedSwitch ==
  ASSUME ChatViewAssumption, Typed,
         NEW t \in exists \cup {None}, Resolve(t) \/ SwitchThread(t) \/ NewChatCreated(t)
  PROVE  Typed'
  <1>1. active' \in exists \cup {None} /\ StartLoad(active')
    BY DEF Resolve, SwitchThread, NewChatCreated, Typed, TypeOK
  <1>2. loads' \in Seq(Loads)
    <2>1. loads \in Seq(Loads) /\ exists \subseteq Threads
      BY DEF Typed, TypeOK
    <2>2. CASE active' = None
      BY <1>1, <2>1, <2>2 DEF StartLoad
    <2>3. CASE active' \in Threads
      BY <1>1, <2>1, <2>3, StartLoadFacts
    <2> QED
      BY <1>1, <2>1, <2>2, <2>3
  <1>3. /\ shown' = {} /\ inline' = {} /\ bubble' = {}
        /\ covered' \in BOOLEAN /\ settled' \in BOOLEAN
    BY <1>1 DEF StartLoad
  <1> QED
    BY <1>1, <1>2, <1>3 DEF Resolve, SwitchThread, NewChatCreated, Typed, TypeOK, Known, server,
         socket, Place

LEMMA TypedUser ==
  ASSUME ChatViewAssumption, Typed,
         \/ ResolveFails
         \/ \E t \in Threads : NewChat(t)
         \/ \E e \in Own : Submit(e) \/ SubmitNew(e) \/ SubmitCreated(e)
  PROVE  Typed'
  <1>1. CASE ResolveFails
    BY <1>1 DEF ResolveFails, Typed, TypeOK, Known, server, socket, history, Place
  <1>2. ASSUME NEW t \in Threads, NewChat(t) PROVE Typed'
    BY <1>2 DEF NewChat, Typed, TypeOK, Known, socket, history, Place
  <1>3. ASSUME NEW e \in Own, SendAppend(e)
        PROVE  frames' \in Seq(Own) /\ at' \in [Entries -> Stages]
               /\ \A x \in Entries : x # e => at'[x] = at[x]
    BY <1>3 DEF SendAppend, Typed, TypeOK, Stages, ChatViewAssumption
  <1>4. ASSUME NEW e \in Own, Submit(e) PROVE Typed'
    <2>1. Home[e] \in Threads /\ active = Home[e]
      BY <1>4 DEF Submit, ChatViewAssumption
    <2>2. Home[e] \in exists
      BY <2>1 DEF Typed, TypeOK, ChatViewAssumption
    <2>3. frames' \in Seq(Own) /\ at' \in [Entries -> Stages]
               /\ \A x \in Entries : x # e => at'[x] = at[x]
      BY <1>3, <1>4 DEF Submit
    <2> QED
      BY <1>4, <2>2, <2>3 DEF Submit, Typed, TypeOK, Known, view, history, Place
  <1>5. ASSUME NEW e \in Own, SubmitNew(e) PROVE Typed'
    BY <1>5 DEF SubmitNew, Typed, TypeOK, Known, Stages, socket, view, history, Place,
         ChatViewAssumption
  <1>6. ASSUME NEW e \in Own, SubmitCreated(e) PROVE Typed'
    <2>1. Home[e] \in exists
      BY <1>6 DEF SubmitCreated, Typed, Known, ChatViewAssumption
    <2>3. frames' \in Seq(Own) /\ at' \in [Entries -> Stages]
               /\ \A x \in Entries : x # e => at'[x] = at[x]
      BY <1>3, <1>6 DEF SubmitCreated
    <2> QED
      BY <1>6, <2>1, <2>3 DEF SubmitCreated, Typed, TypeOK, Known, Place
  <1> QED
    BY <1>1, <1>2, <1>4, <1>5, <1>6

LEMMA TypedStep ==
  ASSUME ChatViewAssumption, Typed, [Next]_vars
  PROVE  Typed'
  <1>1. CASE UNCHANGED vars
    BY <1>1 DEF Typed, TypeOK, Known, vars, server, socket, view, history, Place
  <1>2. CASE Idle
    BY <1>2, <1>1 DEF Idle
  <1>3. ASSUME NEW t \in Threads, SwitchThread(t) \/ NewChatCreated(t) PROVE Typed'
    <2>1. t \in exists
      BY <1>3 DEF SwitchThread, NewChatCreated, Typed, TypeOK
    <2> QED
      BY <1>3, <2>1, TypedSwitch
  <1> QED
    BY <1>1, <1>2, <1>3, TypedAppend, TypedHandleFrame, TypedPublish, TypedStream, TypedSocket,
       TypedReply, TypedPushed, TypedSwitch, TypedUser DEF Next, Reply

(* Types of the state, and everything is about threads that exist: what is  *)
(* pushed, rendered or made active never names a thread before its record   *)
(* was created.                                                             *)
THEOREM TypeCorrect == Spec => []TypeOK
  <1>1. Init => Typed
    BY ChatViewAssumption, TypedInit
  <1>2. Typed /\ [Next]_vars => Typed'
    BY ChatViewAssumption, TypedStep
  <1>3. Typed => TypeOK
    BY DEF Typed
  <1> QED
    BY <1>1, <1>2, <1>3, PTL DEF Spec

-----------------------------------------------------------------------------
(* The active thread and the latest load. *)

Newest == loads[Len(loads)]

Settled ==
  /\ covered => link = "subscribed"
  /\ settled => active \in Threads /\ loads # <<>> /\ Newest.thread = active

(* The three ways to clear the view for a thread come to the same. *)
LEMMA SwitchFacts ==
  ASSUME ChatViewAssumption, Typed,
         \/ \E t \in exists \cup {None} : Resolve(t)
         \/ \E t \in Threads : SwitchThread(t) \/ NewChatCreated(t)
  PROVE  /\ UNCHANGED <<conv, at, streams, socket, stranded>>
         /\ shown' = {} /\ inline' = {} /\ bubble' = {}
         /\ covered' => link' = "subscribed"
         /\ settled' => /\ active' \in Threads /\ loads' # <<>>
                        /\ Newest'.thread = active' /\ Newest'.stage = "asked"
         /\ DOMAIN loads \subseteq DOMAIN loads'
         /\ \A j \in DOMAIN loads' :
              \/ j \in DOMAIN loads /\ loads'[j] = loads[j]
              \/ loads'[j].stage = "asked" /\ loads'[j].entries = {}
  <1>1. active' \in Threads \cup {None} /\ StartLoad(active')
    BY DEF Resolve, SwitchThread, NewChatCreated, Typed, TypeOK
  <1>2. UNCHANGED <<conv, at, streams, socket, stranded>>
    BY DEF Resolve, SwitchThread, NewChatCreated, server
  <1>3. /\ shown' = {} /\ inline' = {} /\ bubble' = {}
        /\ covered' => link' = "subscribed"
        /\ settled' = (active' # None)
    BY <1>1, <1>2 DEF StartLoad, socket
  <1>4. CASE active' = None
    BY <1>1, <1>2, <1>3, <1>4 DEF StartLoad
  <1>5. CASE active' \in Threads
    <2>1. loads \in Seq(Loads)
      BY DEF Typed, TypeOK
    <2>2. /\ loads' \in Seq(Loads) /\ Len(loads') = Len(loads) + 1 /\ Len(loads) \in Nat
          /\ DOMAIN loads' = 1..(Len(loads) + 1) /\ DOMAIN loads = 1..Len(loads)
          /\ \A j \in DOMAIN loads : loads'[j] = loads[j]
          /\ loads'[Len(loads')].thread = active' /\ loads'[Len(loads')].stage = "asked"
          /\ loads'[Len(loads')].entries = {}
      BY <1>1, <1>5, <2>1, StartLoadFacts
    <2>3. /\ Newest'.thread = active' /\ Newest'.stage = "asked"
          /\ loads' # <<>> /\ DOMAIN loads \subseteq DOMAIN loads'
      BY <2>2 DEF Newest
    <2>4. ASSUME NEW j \in DOMAIN loads'
          PROVE  j \in DOMAIN loads \/ j = Len(loads')
      BY <2>2
    <2> QED
      BY <1>2, <1>3, <1>5, <2>2, <2>3, <2>4
  <1> QED
    BY <1>1, <1>4, <1>5

(* The steps of a fetch keep its thread, and all others as they are. *)
LEMMA ReplyFacts ==
  ASSUME ChatViewAssumption, Typed, NEW i \in DOMAIN loads,
         ReadRecord(i) \/ RenderReply(i) \/ LoadFails(i)
  PROVE  /\ UNCHANGED <<conv, at, wire, active, history>>
         /\ loads[i].thread \in Threads /\ loads[i].entries \in SUBSET Entries
         /\ Len(loads') = Len(loads) /\ DOMAIN loads' = DOMAIN loads
         /\ \A j \in DOMAIN loads : j # i => loads'[j] = loads[j]
         /\ loads'[i].thread = loads[i].thread
         /\ ReadRecord(i) => loads'[i].stage = "read"
                             /\ loads'[i].entries = conv[loads[i].thread]
         /\ RenderReply(i) => loads'[i].stage = "rendered" /\ loads'[i].entries = {}
         /\ LoadFails(i) => loads'[i].stage = "failed" /\ loads'[i].entries = {}
  <1>1. loads \in Seq(Loads) /\ loads[i] \in Loads
    BY DEF Typed, TypeOK
  <1>2. loads[i].thread \in Threads /\ loads[i].entries \in SUBSET Entries
    BY <1>1 DEF Loads
  <1>3. conv[loads[i].thread] \in SUBSET Entries
    BY <1>2 DEF Typed, TypeOK
  <1>4. UNCHANGED <<conv, at, wire, active, history>>
    BY DEF ReadRecord, RenderReply, LoadFails, server, socket
  <1>5. CASE ReadRecord(i)
    BY <1>1, <1>2, <1>3, <1>4, <1>5, SetLoadFacts DEF ReadRecord, RenderReply, LoadFails
  <1>6. CASE RenderReply(i)
    BY <1>1, <1>2, <1>3, <1>4, <1>6, SetLoadFacts DEF ReadRecord, RenderReply, LoadFails
  <1>7. CASE LoadFails(i)
    BY <1>1, <1>2, <1>3, <1>4, <1>7, SetLoadFacts DEF ReadRecord, RenderReply, LoadFails
  <1> QED
    BY <1>5, <1>6, <1>7

(* The link, and whether the subscription has covered the latest load. *)
LEMMA CoverStep ==
  ASSUME Next
  PROVE  \/ Open \/ Subscribe \/ Drop
         \/ \E t \in exists \cup {None} : Resolve(t)
         \/ \E t \in Threads : SwitchThread(t) \/ NewChatCreated(t)
         \/ UNCHANGED <<link, covered>>
  BY DEF Next, Delta, EndStream, FailStream, Reply, ReadRecord, RenderReply, LoadFails,
         HandleAppended, HandleStream, ResolveFails, NewChat, Idle, vars, socket, history,
         AppendByOthers, Publish, FailAfterStore, HandleFrame, Submit, SubmitNew, SubmitCreated

LEMMA SettledStep ==
  ASSUME ChatViewAssumption, Typed, Settled, [Next]_vars
  PROVE  Settled'
  <1>1. CASE UNCHANGED vars
    BY <1>1 DEF Settled, Newest, vars, view, socket, history
  <1>2. ASSUME \/ \E t \in exists \cup {None} : Resolve(t)
               \/ \E t \in Threads : SwitchThread(t) \/ NewChatCreated(t)
        PROVE  Settled'
    BY <1>2, SwitchFacts DEF Settled
  <1>3. ASSUME Next PROVE (covered => link = "subscribed")'
    <2>1. CASE Open \/ Subscribe \/ Drop
      BY <2>1 DEF Open, Subscribe, Drop, Settled, history
    <2> QED
      BY <1>2, <1>3, <2>1, CoverStep DEF Settled
  <1>4. ASSUME Next
        PROVE  (settled => active \in Threads /\ loads # <<>> /\ Newest.thread = active)'
    <2>1. ASSUME NEW i \in DOMAIN loads, ReadRecord(i) \/ RenderReply(i) \/ LoadFails(i)
          PROVE  (settled => active \in Threads /\ loads # <<>> /\ Newest.thread = active)'
      <3>1. \A j \in DOMAIN loads : loads'[j].thread = loads[j].thread
        BY <2>1, ReplyFacts
      <3>2. loads # <<>> => loads' # <<>> /\ Len(loads) \in DOMAIN loads
        BY <2>1, ReplyFacts DEF Typed, TypeOK
      <3> QED
        BY <2>1, <3>1, <3>2, ReplyFacts DEF Settled, Newest, history
    <2>2. CASE HandleAppended
      BY <2>2 DEF HandleAppended, Settled, Newest, history, ChatViewAssumption
    <2>3. ASSUME NEW e \in Own, SubmitCreated(e)
          PROVE  (settled => active \in Threads /\ loads # <<>> /\ Newest.thread = active)'
      BY <2>3 DEF SubmitCreated, Settled, Newest
    <2> QED
      BY <1>2, <1>4, <2>1, <2>2, <2>3, LoadStep DEF Settled, Newest
  <1> QED
    BY <1>1, <1>3, <1>4 DEF Settled

-----------------------------------------------------------------------------
(* The stored lists. *)

(* An entry is in the list of its thread only, and only once stored. *)
Stored ==
  \A t \in Threads : \A e \in conv[t] :
    Home[e] = t /\ at[e] \in {"stored", "published", "silent"}

LEMMA StoreFacts ==
  ASSUME ChatViewAssumption, Typed, NEW e \in Entries, Store(e)
  PROVE  /\ Home[e] \in Threads
         /\ conv'[Home[e]] \subseteq conv[Home[e]] \cup {e}
         /\ \A t \in Threads : t # Home[e] => conv'[t] = conv[t]
         /\ at'[e] = "stored" /\ \A x \in Entries : x # e => at'[x] = at[x]
  BY DEF Store, Typed, TypeOK, ChatViewAssumption

LEMMA StoredStep ==
  ASSUME ChatViewAssumption, Typed, Stored, [Next]_vars
  PROVE  Stored'
  <1>1. CASE UNCHANGED <<conv, at>>
    BY <1>1 DEF Stored
  <1>2. CASE UNCHANGED vars
    BY <1>1, <1>2 DEF vars, server
  <1>3. ASSUME NEW e \in Entries, Store(e) PROVE Stored'
    <2>1. \A t \in Threads : conv[t] \subseteq Entries
      BY DEF Typed, TypeOK
    <2> QED
      BY <1>3, <2>1, StoreFacts DEF Stored
  <1>4. CASE HandleFrame
    <2>1. Head(frames) \in Entries
      BY <1>4 DEF HandleFrame, Typed, TypeOK, ChatViewAssumption
    <2> QED
      BY <1>3, <1>4, <2>1 DEF HandleFrame
  <1>5. ASSUME NEW e \in Entries, AppendByOthers(e) \/ Publish(e) \/ FailAfterStore(e)
        PROVE  Stored'
    <2>1. CASE AppendByOthers(e)
      BY <1>3, <2>1 DEF AppendByOthers
    <2>2. CASE Publish(e) \/ FailAfterStore(e)
      BY <2>2 DEF Publish, FailAfterStore, Stored, Typed, TypeOK
    <2> QED
      BY <1>5, <2>1, <2>2
  <1>6. CASE Drop
    BY <1>6 DEF Drop, Stored, Typed, TypeOK
  <1>7. ASSUME NEW e \in Own, Submit(e) \/ SubmitNew(e) \/ SubmitCreated(e)
        PROVE  Stored'
    <2>1. conv' = conv /\ at[e] \in {"new", "asked"}
          /\ \A x \in Entries : x # e => at'[x] = at[x]
      BY <1>7 DEF Submit, SubmitNew, SubmitCreated, SendAppend, Typed, TypeOK
    <2>2. \A t \in Threads : conv[t] \subseteq Entries
      BY DEF Typed, TypeOK
    <2> QED
      BY <2>1, <2>2 DEF Stored
  <1> QED
    BY <1>1, <1>2, <1>4, <1>5, <1>6, <1>7, EntryStep

-----------------------------------------------------------------------------
(* Entries of other threads. *)

(* What a fetch carries is of its thread. *)
Fetched == \A i \in DOMAIN loads : \A e \in loads[i].entries : Home[e] = loads[i].thread

(* A thread is asked for only by the user of this view, for a message of    *)
(* theirs, and was not there before.                                        *)
Asked == \A e \in Entries : at[e] = "asked" => e \in Own /\ Home[e] \notin Existing

Foreign == Settled /\ Stored /\ Fetched /\ Asked /\ ForeignOnlyByReply

LEMMA FetchedStep ==
  ASSUME ChatViewAssumption, Typed, Stored, Fetched, [Next]_vars
  PROVE  Fetched'
  <1>1. CASE UNCHANGED loads
    BY <1>1 DEF Fetched
  <1>2. ASSUME NEW i \in DOMAIN loads, ReadRecord(i) \/ RenderReply(i) \/ LoadFails(i)
        PROVE  Fetched'
    BY <1>2, ReplyFacts DEF Fetched, Stored
  <1>3. ASSUME \/ \E t \in exists \cup {None} : Resolve(t)
               \/ \E t \in Threads : SwitchThread(t) \/ NewChatCreated(t)
        PROVE  Fetched'
    BY <1>3, SwitchFacts DEF Fetched
  <1>4. HandleAppended \/ (\E e \in Own : SubmitCreated(e)) \/ UNCHANGED vars => UNCHANGED loads
    BY DEF HandleAppended, SubmitCreated, vars, view
  <1> QED
    BY <1>1, <1>2, <1>3, <1>4, LoadStep

LEMMA AskedStep ==
  ASSUME ChatViewAssumption, Typed, Asked, [Next]_vars
  PROVE  Asked'
  <1>1. CASE UNCHANGED <<conv, at>>
    BY <1>1 DEF Asked
  <1>2. CASE UNCHANGED vars
    BY <1>1, <1>2 DEF vars, server
  <1>3. ASSUME NEW e \in Entries, AppendByOthers(e) \/ Publish(e) \/ FailAfterStore(e)
        PROVE  Asked'
    BY <1>3 DEF AppendByOthers, Store, Publish, FailAfterStore, Asked, Typed, TypeOK
  <1>4. CASE HandleFrame
    BY <1>4 DEF HandleFrame, Store, Asked, Typed, TypeOK
  <1>5. CASE Drop
    BY <1>5 DEF Drop, Asked, Typed, TypeOK
  <1>6. ASSUME NEW e \in Own, Submit(e) \/ SubmitNew(e) \/ SubmitCreated(e)
        PROVE  Asked'
    BY <1>6 DEF Submit, SubmitNew, SubmitCreated, SendAppend, Asked, Typed, TypeOK
  <1> QED
    BY <1>1, <1>2, <1>3, <1>4, <1>5, <1>6, EntryStep

(* Which actions change the screen or could undo its excuse. *)
LEMMA ScreenStep ==
  ASSUME Next
  PROVE  \/ \E i \in DOMAIN loads : ReadRecord(i) \/ RenderReply(i) \/ LoadFails(i)
         \/ \E t \in exists \cup {None} : Resolve(t)
         \/ \E t \in Threads : SwitchThread(t) \/ NewChatCreated(t)
         \/ HandleAppended
         \/ \E e \in Own : SubmitCreated(e)
         \/ UNCHANGED <<loads, active, shown, inline>>
  BY DEF Next, Delta, EndStream, FailStream, Open, Subscribe, Drop, Reply, HandleStream,
         ResolveFails, NewChat, Idle, vars, view, history, AppendByOthers, Publish,
         FailAfterStore, HandleFrame, Submit, SubmitNew

(* An entry that has left its beginnings never goes back. *)
LEMMA NeverNewAgain ==
  ASSUME ChatViewAssumption, Typed, Next
  PROVE  \A e \in Entries : at[e] # "new" => at'[e] # "new"
  <1>1. ASSUME NEW e \in Entries, AppendByOthers(e) \/ Publish(e) \/ FailAfterStore(e)
        PROVE  \A x \in Entries : at[x] # "new" => at'[x] # "new"
    BY <1>1 DEF AppendByOthers, Store, Publish, FailAfterStore, Typed, TypeOK
  <1>2. CASE HandleFrame
    BY <1>2 DEF HandleFrame, Store, Typed, TypeOK
  <1>3. CASE Drop
    BY <1>3 DEF Drop, Typed, TypeOK
  <1>4. ASSUME NEW e \in Own, Submit(e) \/ SubmitNew(e) \/ SubmitCreated(e)
        PROVE  \A x \in Entries : at[x] # "new" => at'[x] # "new"
    BY <1>4 DEF Submit, SubmitNew, SubmitCreated, SendAppend, Typed, TypeOK
  <1> QED
    BY <1>1, <1>2, <1>3, <1>4, EntryStep

(* ForeignOnlyByReply for one entry. *)
Excused(e) ==
  \/ Home[e] = active
  \/ \E j \in DOMAIN loads : loads[j].thread = Home[e] /\ loads[j].stage = "rendered"
  \/ \E m \in Own : Home[m] = active /\ active \notin Existing /\ at[m] # "new"

LEMMA ForeignStep ==
  ASSUME ChatViewAssumption, Typed, Foreign, [Next]_vars
  PROVE  Foreign'
  <1> USE DEF Foreign
  <1>1. \A e \in shown \cup inline : Excused(e)
    BY DEF ForeignOnlyByReply, Excused
  <1>2. \A e \in Own : e \in Entries
    BY DEF ChatViewAssumption
  <1>3. ASSUME Next, NEW e \in shown' \cup inline' PROVE Excused(e)'
    <2>1. CASE UNCHANGED <<loads, active, shown, inline>>
      BY <1>1, <1>2, <1>3, <2>1, NeverNewAgain DEF Excused
    <2>2. ASSUME NEW i \in DOMAIN loads, ReadRecord(i) \/ RenderReply(i) \/ LoadFails(i)
          PROVE  Excused(e)'
      <3>1. ASSUME Excused(e) PROVE Excused(e)'
        <4>1. ASSUME NEW j \in DOMAIN loads, loads[j].stage = "rendered"
              PROVE  j \in DOMAIN loads' /\ loads'[j] = loads[j]
          BY <2>2, <4>1, ReplyFacts DEF ReadRecord, RenderReply, LoadFails
        <4> QED
          BY <2>2, <3>1, <4>1, ReplyFacts DEF Excused
      <3>2. CASE e \in shown \cup inline
        BY <1>1, <3>1, <3>2
      <3>3. CASE e \notin shown \cup inline
        <4>1. RenderReply(i) /\ e \in loads[i].entries
          BY <1>3, <2>2, <3>3 DEF ReadRecord, RenderReply, LoadFails, Render
        <4>2. Home[e] = loads[i].thread
          BY <4>1 DEF Fetched
        <4> QED
          BY <4>1, <4>2, ReplyFacts DEF Excused
      <3> QED
        BY <3>2, <3>3
    <2>3. CASE \/ \E t \in exists \cup {None} : Resolve(t)
               \/ \E t \in Threads : SwitchThread(t) \/ NewChatCreated(t)
      BY <1>3, <2>3, SwitchFacts
    <2>4. CASE HandleAppended
      <3>1. /\ shown' \cup inline' \subseteq shown \cup inline \cup {Head(wire).entry}
            /\ UNCHANGED <<loads, at>>
            /\ active # None => active' = active
            /\ active' # Home[Head(wire).entry] => UNCHANGED <<shown, inline>>
        BY <2>4 DEF HandleAppended, Display, server
      <3>2. CASE e \notin shown \cup inline
        BY <1>3, <3>1, <3>2 DEF Excused
      <3>3. CASE e \in shown \cup inline
        <4>1. e \in Entries /\ Home[e] # None /\ \A m \in Own : Home[m] # None
          BY <1>2, <3>3 DEF Typed, TypeOK, ChatViewAssumption
        <4> QED
          BY <1>1, <3>1, <3>3, <4>1 DEF Excused
      <3> QED
        BY <3>2, <3>3
    <2>5. ASSUME NEW m \in Own, SubmitCreated(m) PROVE Excused(e)'
      <3>1. active' = Home[m] /\ Home[m] \notin Existing /\ at[m] # "new"
        BY <1>2, <2>5 DEF SubmitCreated, Asked
      <3> QED
        BY <1>2, <1>3, <3>1, NeverNewAgain DEF Excused
    <2> QED
      BY <1>3, <2>1, <2>2, <2>3, <2>4, <2>5, ScreenStep
  <1>4. CASE UNCHANGED vars
    BY <1>4 DEF vars, server, view, ForeignOnlyByReply, Settled, Newest, Stored, Fetched, Asked,
                socket, history
  <1>5. CASE Next
    <2>1. ForeignOnlyByReply'
      BY <1>3, <1>5 DEF ForeignOnlyByReply, Excused
    <2> QED
      BY <1>5, <2>1, SettledStep, StoredStep, FetchedStep, AskedStep
  <1> QED
    BY <1>4, <1>5

(* Types, and where entries are: the base of all that follows. *)
LEMMA BaseInit ==
  ASSUME ChatViewAssumption, Init
  PROVE  Typed /\ Foreign
  <1>1. DOMAIN loads = {}
    BY DEF Init
  <1>2. \A t \in Threads : conv[t] = {}
    BY DEF Init
  <1>3. \A e \in Entries : at[e] = "new"
    BY DEF Init
  <1> QED
    BY <1>1, <1>2, <1>3, TypedInit
    DEF Init, Foreign, Settled, Stored, Fetched, Asked, ForeignOnlyByReply

(* An entry of another thread is on the screen only if a reply that came    *)
(* late put it there, or the submit handler changed recordId under it: the  *)
(* appended handler's thread test is enough to keep events out.             *)
THEOREM ForeignCorrect == Spec => []ForeignOnlyByReply
  <1>1. Init => Typed /\ Foreign
    BY ChatViewAssumption, BaseInit
  <1>2. Typed /\ Foreign /\ [Next]_vars => (Typed /\ Foreign)'
    BY ChatViewAssumption, TypedStep, ForeignStep
  <1>3. Foreign => ForeignOnlyByReply
    BY DEF Foreign
  <1> QED
    BY <1>1, <1>2, <1>3, PTL DEF Spec

-----------------------------------------------------------------------------
(* The streaming bubble. *)

EndOf(t) == [type |-> "end", thread |-> t]

(* A piece of text on the wire is followed by its end, unless the stream    *)
(* still goes on or stopped without one; only agents' streams end.          *)
Followed ==
  /\ \A i \in DOMAIN wire : wire[i].type = "delta" =>
       \/ wire[i].thread \in streams \cup stranded
       \/ \E j \in DOMAIN wire : j > i /\ wire[j] = EndOf(wire[i].thread)
  /\ \A i \in DOMAIN wire : wire[i].type = "end" => wire[i].thread \in Streaming

(* Which actions touch streams and pushes. *)
LEMMA WireStep ==
  ASSUME Next
  PROVE  \/ \E e \in Entries : Publish(e)
         \/ \E t \in Threads : Delta(t) \/ EndStream(t) \/ FailStream(t)
         \/ Drop \/ HandleAppended \/ HandleStream
         \/ UNCHANGED <<wire, streams, stranded>>
  BY DEF Next, Open, Subscribe, Reply, ReadRecord, RenderReply, LoadFails, Resolve, SwitchThread,
         NewChatCreated, ResolveFails, NewChat, Idle, vars, server, socket, history,
         AppendByOthers, FailAfterStore, HandleFrame, Submit, SubmitNew, SubmitCreated

LEMMA FollowedStep ==
  ASSUME ChatViewAssumption, Typed, Followed, [Next]_vars
  PROVE  Followed'
  <1> DEFINE Behind(i) == \/ wire[i].thread \in streams \cup stranded
                          \/ \E j \in DOMAIN wire : j > i /\ wire[j] = EndOf(wire[i].thread)
  <1>0. wire \in Seq(Pushes) /\ Len(wire) \in Nat /\ DOMAIN wire = 1..Len(wire)
    BY DEF Typed, TypeOK
  <1>1. CASE UNCHANGED <<wire, streams, stranded>>
    BY <1>1 DEF Followed
  <1>2. CASE UNCHANGED vars
    BY <1>1, <1>2 DEF vars, server, socket, history
  <1>3. ASSUME NEW p \in Pushes, Push(p),
               p.type = "delta" => p.thread \in streams',
               p.type = "end" => p.thread \in Streaming,
               \A t \in streams \cup stranded :
                 t \in streams' \cup stranded' \/ (p = EndOf(t) /\ link = "subscribed")
        PROVE  Followed'
    <2>1. /\ \A i \in DOMAIN wire : i \in DOMAIN wire' /\ wire'[i] = wire[i]
          /\ \A i \in DOMAIN wire' : i \in DOMAIN wire \/ (i = Len(wire) + 1 /\ wire'[i] = p)
          /\ link = "subscribed" => Len(wire) + 1 \in DOMAIN wire' /\ wire'[Len(wire) + 1] = p
      BY <1>0, <1>3, WirePush
    <2>2. ASSUME NEW i \in DOMAIN wire', wire'[i].type = "delta" PROVE Behind(i)'
      <3>1. CASE i \in DOMAIN wire
        <4>1. wire'[i] = wire[i] /\ Behind(i)
          BY <2>1, <2>2, <3>1 DEF Followed
        <4>2. CASE wire[i].thread \in streams \cup stranded
          <5>1. CASE p = EndOf(wire[i].thread) /\ link = "subscribed"
            BY <1>0, <2>1, <3>1, <4>1, <5>1
          <5> QED
            BY <1>3, <4>1, <4>2, <5>1
        <4>3. CASE \E j \in DOMAIN wire : j > i /\ wire[j] = EndOf(wire[i].thread)
          BY <2>1, <4>1, <4>3
        <4> QED
          BY <4>1, <4>2, <4>3
      <3>2. CASE i \notin DOMAIN wire
        BY <1>3, <2>1, <2>2, <3>2
      <3> QED
        BY <3>1, <3>2
    <2>3. ASSUME NEW i \in DOMAIN wire', wire'[i].type = "end"
          PROVE  wire'[i].thread \in Streaming
      BY <1>3, <2>1, <2>3 DEF Followed
    <2> QED
      BY <2>2, <2>3 DEF Followed
  <1>4. ASSUME NEW e \in Entries, Publish(e) PROVE Followed'
    <2> DEFINE p == [type |-> "appended", entry |-> e]
    <2>1. p \in Pushes /\ p.type = "appended"
      BY DEF Pushes
    <2>2. Push(p) /\ UNCHANGED <<streams, stranded>>
      BY <1>4 DEF Publish, history
    <2> HIDE DEF p
    <2> QED
      BY <1>3, <2>1, <2>2
  <1>5. ASSUME NEW t \in Threads, Delta(t) PROVE Followed'
    <2> DEFINE p == [type |-> "delta", thread |-> t]
    <2>1. p \in Pushes /\ p.type = "delta" /\ p.thread = t
      BY DEF Pushes
    <2>2. Push(p) /\ streams' = streams \cup {t} /\ stranded' = stranded \ {t}
      BY <1>5 DEF Delta
    <2> HIDE DEF p
    <2> QED
      BY <1>3, <2>1, <2>2
  <1>6. ASSUME NEW t \in Threads, EndStream(t) PROVE Followed'
    <2>1. EndOf(t) \in Pushes /\ EndOf(t).type = "end" /\ EndOf(t).thread = t
      BY DEF Pushes, EndOf
    <2>2. /\ Push(EndOf(t)) /\ streams' = streams \ {t} /\ t \in Streaming
          /\ stranded' = IF link = "subscribed" THEN stranded ELSE stranded \cup {t}
      BY <1>6 DEF EndStream, EndOf, Typed, TypeOK
    <2> QED
      BY <1>3, <2>1, <2>2
  <1>7. ASSUME NEW t \in Threads, FailStream(t) PROVE Followed'
    BY <1>7 DEF FailStream, socket, Followed
  <1>8. CASE Drop
    <2>1. DOMAIN wire' = {}
      BY <1>8 DEF Drop
    <2> QED
      BY <2>1 DEF Followed
  <1>9. CASE HandleAppended \/ HandleStream
    <2>1. wire # <<>> /\ wire' = Tail(wire) /\ UNCHANGED <<streams, stranded>>
      BY <1>9 DEF HandleAppended, HandleStream, server, history
    <2>2. /\ wire' \in Seq(Pushes)
          /\ \A i \in DOMAIN wire : i = 1 \/ (i - 1 \in DOMAIN wire' /\ wire'[i - 1] = wire[i])
          /\ \A i \in DOMAIN wire' : i + 1 \in DOMAIN wire /\ wire'[i] = wire[i + 1]
      BY <1>0, <2>1, WireTail
    <2>3. ASSUME NEW i \in DOMAIN wire', wire'[i].type = "delta" PROVE Behind(i)'
      <3>1. i + 1 \in DOMAIN wire /\ wire'[i] = wire[i + 1] /\ Behind(i + 1) /\ i \in Nat
        <4>1. i + 1 \in DOMAIN wire /\ wire'[i] = wire[i + 1]
          BY <2>2, <2>3
        <4>2. Behind(i + 1)
          BY <2>3, <4>1 DEF Followed
        <4>3. i \in Nat
          BY <2>2, <2>3
        <4> QED
          BY <4>1, <4>2, <4>3
      <3>2. ASSUME NEW j \in DOMAIN wire, j > i + 1 PROVE j - 1 \in DOMAIN wire' /\ j - 1 > i
                                                          /\ wire'[j - 1] = wire[j]
        BY <1>0, <2>2, <3>1, <3>2
      <3>3. CASE wire[i + 1].thread \in streams \cup stranded
        BY <2>1, <3>1, <3>3
      <3>4. ASSUME NEW j \in DOMAIN wire, j > i + 1, wire[j] = EndOf(wire[i + 1].thread)
            PROVE  Behind(i)'
        <4>1. j - 1 \in DOMAIN wire' /\ j - 1 > i /\ wire'[j - 1] = EndOf(wire'[i].thread)
          BY <3>1, <3>2, <3>4
        <4> QED
          BY <4>1
      <3> QED
        BY <3>1, <3>3, <3>4
    <2> QED
      BY <2>2, <2>3 DEF Followed
  <1> QED
    BY <1>1, <1>2, <1>4, <1>5, <1>6, <1>7, <1>8, <1>9, WireStep

(* Which actions touch the bubble or what it depends on. *)
LEMMA BubbleStep ==
  ASSUME Next
  PROVE  \/ \E e \in Entries : Publish(e)
         \/ \E t \in Threads : Delta(t) \/ EndStream(t) \/ FailStream(t)
         \/ Drop \/ HandleAppended \/ HandleStream
         \/ \E t \in exists \cup {None} : Resolve(t)
         \/ \E t \in Threads : SwitchThread(t) \/ NewChatCreated(t)
         \/ \E e \in Own : SubmitCreated(e)
         \/ UNCHANGED <<wire, streams, stranded, active, bubble, settled>>
  BY DEF Next, Open, Subscribe, Reply, ReadRecord, RenderReply, LoadFails, ResolveFails, NewChat,
         Idle, vars, server, socket, view, history, AppendByOthers, FailAfterStore, HandleFrame,
         Submit, SubmitNew

(* The bubble stands for a stream that goes on, or that has its end on the  *)
(* way, or that will have none.                                             *)
Alive(t) == t \in streams \cup stranded \/ \E i \in DOMAIN wire : wire[i] = EndOf(t)

LEMMA AliveIsBubbleEnds ==
  BubbleEnds <=> (settled => bubble \subseteq {active} /\ \A t \in bubble : Alive(t))
  BY DEF BubbleEnds, Alive, EndOf, OnWire

Bubbling == Settled /\ Followed /\ BubbleEnds

LEMMA BubbleEndsStep ==
  ASSUME ChatViewAssumption, Typed, Bubbling, Next, settled'
  PROVE  bubble' \subseteq {active'} /\ \A t \in bubble' : Alive(t)'
  <1>0. wire \in Seq(Pushes) /\ Len(wire) \in Nat /\ DOMAIN wire = 1..Len(wire)
    BY DEF Typed, TypeOK
  <1>1. settled => bubble \subseteq {active} /\ \A t \in bubble : Alive(t)
    BY AliveIsBubbleEnds DEF Bubbling
  <1>2. CASE UNCHANGED <<wire, streams, stranded, active, bubble, settled>>
    BY <1>1, <1>2 DEF Alive
  <1>3. ASSUME \/ \E t \in exists \cup {None} : Resolve(t)
               \/ \E t \in Threads : SwitchThread(t) \/ NewChatCreated(t)
        PROVE  bubble' = {}
    BY <1>3, SwitchFacts
  <1>4. ASSUME NEW p \in Pushes, Push(p), UNCHANGED <<active, bubble, settled>>,
               \A t \in streams \cup stranded :
                 t \in streams' \cup stranded' \/ (p = EndOf(t) /\ link = "subscribed")
        PROVE  bubble' \subseteq {active'} /\ \A t \in bubble' : Alive(t)'
    <2>1. /\ \A i \in DOMAIN wire : i \in DOMAIN wire' /\ wire'[i] = wire[i]
          /\ link = "subscribed" => Len(wire) + 1 \in DOMAIN wire' /\ wire'[Len(wire) + 1] = p
      BY <1>0, <1>4, WirePush
    <2>2. ASSUME NEW t, Alive(t) PROVE Alive(t)'
      BY <1>4, <2>1, <2>2 DEF Alive
    <2> QED
      BY <1>1, <1>4, <2>2
  <1>5. ASSUME NEW e \in Entries, Publish(e)
        PROVE  bubble' \subseteq {active'} /\ \A t \in bubble' : Alive(t)'
    <2> DEFINE p == [type |-> "appended", entry |-> e]
    <2>1. p \in Pushes
      BY DEF Pushes
    <2>2. Push(p) /\ UNCHANGED <<streams, stranded, active, bubble, settled>>
      BY <1>5 DEF Publish, history, view
    <2> HIDE DEF p
    <2> QED
      BY <1>4, <2>1, <2>2
  <1>6. ASSUME NEW t \in Threads, Delta(t) \/ EndStream(t)
        PROVE  bubble' \subseteq {active'} /\ \A x \in bubble' : Alive(x)'
    <2>1. CASE Delta(t)
      <3> DEFINE p == [type |-> "delta", thread |-> t]
      <3>1. p \in Pushes
        BY DEF Pushes
      <3>2. /\ Push(p) /\ UNCHANGED <<active, bubble, settled>>
            /\ streams' = streams \cup {t} /\ stranded' = stranded \ {t}
        BY <2>1 DEF Delta, view
      <3> HIDE DEF p
      <3> QED
        BY <1>4, <3>1, <3>2
    <2>2. CASE EndStream(t)
      <3>1. EndOf(t) \in Pushes
        BY DEF Pushes, EndOf
      <3>2. /\ Push(EndOf(t)) /\ UNCHANGED <<active, bubble, settled>>
            /\ streams' = streams \ {t}
            /\ stranded' = IF link = "subscribed" THEN stranded ELSE stranded \cup {t}
        BY <2>2 DEF EndStream, EndOf, view
      <3> QED
        BY <1>4, <3>1, <3>2
    <2> QED
      BY <1>6, <2>1, <2>2
  <1>7. ASSUME NEW t \in Threads, FailStream(t)
        PROVE  bubble' \subseteq {active'} /\ \A x \in bubble' : Alive(x)'
    BY <1>1, <1>7 DEF FailStream, socket, view, Alive
  <1>8. CASE Drop
    <2>1. ASSUME NEW t, Alive(t) PROVE Alive(t)'
      <3>1. CASE t \in streams \cup stranded
        BY <1>8, <3>1 DEF Drop, Alive
      <3>2. ASSUME NEW i \in DOMAIN wire, wire[i] = EndOf(t) PROVE t \in stranded'
        <4>1. t \in Streaming
          BY <3>2 DEF Bubbling, Followed, EndOf
        <4> QED
          BY <1>8, <3>2, <4>1 DEF Drop, EndOf
      <3> QED
        BY <2>1, <3>1, <3>2 DEF Alive
    <2> QED
      BY <1>1, <1>8, <2>1 DEF Drop, view
  <1>9. CASE HandleAppended \/ HandleStream
    <2>1. /\ wire # <<>> /\ wire' = Tail(wire)
          /\ UNCHANGED <<streams, stranded, settled>>
      BY <1>9 DEF HandleAppended, HandleStream, server, history
    <2>2. active # None /\ active' = active
      BY <1>9, <2>1 DEF Bubbling, Settled, HandleAppended, HandleStream, ChatViewAssumption
    <2>3. /\ Head(wire) \in Pushes /\ Head(wire) = wire[1]
          /\ \A i \in DOMAIN wire : i = 1 \/ (i - 1 \in DOMAIN wire' /\ wire'[i - 1] = wire[i])
          /\ 1 \in DOMAIN wire
      BY <1>0, <2>1, WireTail
    <2>7. ASSUME NEW t, NEW j \in DOMAIN wire, j # 1, wire[j] = EndOf(t) PROVE Alive(t)'
      <3>1. j - 1 \in DOMAIN wire' /\ wire'[j - 1] = EndOf(t)
        BY <2>3, <2>7
      <3> QED
        BY <3>1 DEF Alive
    <2>4. ASSUME NEW t, Alive(t), Head(wire) # EndOf(t) PROVE Alive(t)'
      <3>1. CASE t \in streams \cup stranded
        BY <2>1, <3>1 DEF Alive
      <3>2. ASSUME NEW j \in DOMAIN wire, wire[j] = EndOf(t) PROVE j # 1
        BY <2>3, <2>4, <3>2
      <3> QED
        BY <2>4, <2>7, <3>1, <3>2 DEF Alive
    <2>5. CASE HandleAppended
      <3>1. \A t : Head(wire) # EndOf(t)
        BY <2>5 DEF HandleAppended, EndOf
      <3> QED
        BY <1>1, <2>1, <2>2, <2>4, <2>5, <3>1 DEF HandleAppended
    <2>6. CASE HandleStream
      <3> DEFINE p == Head(wire)
      <3>1. /\ p.type \in {"delta", "end"} /\ p.thread \in Threads
            /\ p = [type |-> p.type, thread |-> p.thread]
        BY <2>3, <2>6, PushFacts DEF HandleStream
      <3>2. CASE active # p.thread
        <4>1. bubble' = bubble /\ p # EndOf(active)
          BY <2>2, <2>6, <3>1, <3>2 DEF HandleStream, EndOf
        <4> QED
          BY <1>1, <2>1, <2>2, <2>4, <4>1
      <3>3. CASE active = p.thread /\ p.type = "end"
        BY <2>2, <2>6, <3>3 DEF HandleStream
      <3>4. CASE active = p.thread /\ p.type = "delta"
        <4>1. bubble' = bubble \cup {active}
          BY <2>2, <2>6, <3>4 DEF HandleStream
        <4>2. Alive(active)'
          <5>1. \/ active \in streams \cup stranded
                \/ \E j \in DOMAIN wire : j > 1 /\ wire[j] = EndOf(active)
            BY <2>3, <3>4 DEF Bubbling, Followed
          <5>2. CASE active \in streams \cup stranded
            BY <2>1, <2>2, <5>2 DEF Alive
          <5>3. ASSUME NEW j \in DOMAIN wire, j > 1, wire[j] = EndOf(active)
                PROVE  Alive(active)'
            <6>1. j # 1
              BY <1>0, <5>3
            <6>2. j - 1 \in DOMAIN wire' /\ wire'[j - 1] = EndOf(active')
              BY <2>2, <2>3, <5>3, <6>1
            <6> QED
              BY <6>2 DEF Alive
          <5> QED
            BY <5>1, <5>2, <5>3
        <4> QED
          BY <1>1, <2>1, <2>2, <4>1, <4>2
      <3> QED
        BY <3>1, <3>2, <3>3, <3>4
    <2> QED
      BY <1>9, <2>5, <2>6
  <1>10. ASSUME NEW e \in Own, SubmitCreated(e)
         PROVE  bubble' \subseteq {active'} /\ \A x \in bubble' : Alive(x)'
    BY <1>1, <1>10 DEF SubmitCreated, Alive
  <1> QED
    BY <1>2, <1>3, <1>5, <1>6, <1>7, <1>8, <1>9, <1>10, BubbleStep

LEMMA BubblingStep ==
  ASSUME ChatViewAssumption, Typed, Bubbling, [Next]_vars
  PROVE  Bubbling'
  <1>1. Settled' /\ Followed'
    BY SettledStep, FollowedStep DEF Bubbling
  <1>2. CASE UNCHANGED vars
    BY <1>1, <1>2 DEF vars, server, socket, view, history, Bubbling, BubbleEnds, OnWire
  <1>3. CASE Next
    <2>1. (settled => bubble \subseteq {active} /\ \A t \in bubble : Alive(t))'
      BY <1>3, BubbleEndsStep
    <2>2. BubbleEnds'
      BY <2>1 DEF BubbleEnds, Alive, EndOf, OnWire
    <2> QED
      BY <1>1, <2>2 DEF Bubbling
  <1> QED
    BY <1>2, <1>3

(* The pending bubble shows text of the loaded thread only, and it stays    *)
(* only while an end is still to come or can no longer come.                *)
THEOREM BubbleCorrect == Spec => []BubbleEnds
  <1>1. Init => Typed /\ Bubbling
    <2>1. Init => DOMAIN wire = {}
      BY DEF Init
    <2> QED
      BY <2>1, ChatViewAssumption, TypedInit
      DEF Init, Bubbling, Settled, Followed, BubbleEnds
  <1>2. Typed /\ Bubbling /\ [Next]_vars => (Typed /\ Bubbling)'
    BY ChatViewAssumption, TypedStep, BubblingStep
  <1>3. Bubbling => BubbleEnds
    BY DEF Bubbling
  <1> QED
    BY <1>1, <1>2, <1>3, PTL DEF Spec

-----------------------------------------------------------------------------
(* No gap between the load and the subscription. *)

Event(e) == [type |-> "appended", entry |-> e]

(* An entry is on the screen, or an event for it will come, or the reply    *)
(* that is about to be rendered brings it.                                  *)
Safe(e) ==
  \/ at[e] = "stored" \/ \E i \in DOMAIN wire : wire[i] = Event(e)
  \/ e \in shown \cup inline
  \/ /\ Newest.stage = "read" /\ e \in Newest.entries
     /\ e \in Results => CallOf[e] \in Newest.entries

Gapless ==
  covered /\ settled /\ Newest.stage \in {"read", "rendered"} => \A e \in Expected : Safe(e)

GapInv == Settled /\ Stored /\ Gapless

(* A step that clears no view and touches neither list nor load keeps what  *)
(* was safe, if it loses no event on the way.                               *)
LEMMA SafeKept ==
  ASSUME Gapless, covered, settled, Newest.stage \in {"read", "rendered"},
         UNCHANGED loads, shown \cup inline \subseteq shown' \cup inline',
         NEW e \in Expected, at'[e] = at[e],
         (\E i \in DOMAIN wire : wire[i] = Event(e)) =>
           (\E i \in DOMAIN wire' : wire'[i] = Event(e)) \/ e \in shown' \cup inline'
  PROVE  Safe(e)'
  BY DEF Gapless, Safe, Newest

LEMMA SafePush ==
  ASSUME Typed, NEW p \in Pushes, Push(p)
  PROVE  /\ \A x : (\E i \in DOMAIN wire : wire[i] = x) => (\E i \in DOMAIN wire' : wire'[i] = x)
         /\ link = "subscribed" => \E i \in DOMAIN wire' : wire'[i] = p
  <1>1. wire \in Seq(Pushes)
    BY DEF Typed, TypeOK
  <1> QED
    BY <1>1, WirePush

(* Which actions touch what Gapless is about. *)
LEMMA GapStep ==
  ASSUME Next
  PROVE  \/ \E e \in Entries : AppendByOthers(e) \/ Publish(e) \/ FailAfterStore(e)
         \/ HandleFrame \/ Drop \/ HandleAppended \/ HandleStream
         \/ \E t \in Threads : Delta(t) \/ EndStream(t)
         \/ \E i \in DOMAIN loads : ReadRecord(i) \/ RenderReply(i) \/ LoadFails(i)
         \/ \E t \in exists \cup {None} : Resolve(t)
         \/ \E t \in Threads : SwitchThread(t) \/ NewChatCreated(t)
         \/ \E e \in Own : Submit(e) \/ SubmitNew(e) \/ SubmitCreated(e)
         \/ UNCHANGED <<conv, at, wire, active, shown, inline, loads, covered, settled>>
  BY DEF Next, Open, Subscribe, FailStream, Reply, ResolveFails, NewChat, Idle, vars, server,
         socket, view, history

(* The step of storing: the new entry has its event to come, and a result   *)
(* never overtakes its call.                                                *)
LEMMA GapStore ==
  ASSUME ChatViewAssumption, Typed, Stored, Gapless, NEW x \in Entries, Store(x),
         \A r \in Results : CallOf[r] = x => at[r] = "new",
         UNCHANGED <<wire, loads, active, shown, inline, covered, settled>>,
         covered, settled, active \in Threads, Newest.stage \in {"read", "rendered"},
         NEW e \in Expected'
  PROVE  Safe(e)'
  <1>1. e \in conv'[active] /\ at'[e] # "silent"
        /\ (e \in Results => CallOf[e] \in conv'[active])
    BY DEF Expected
  <1>2. CASE e = x
    BY <1>2, StoreFacts DEF Safe
  <1>3. CASE e # x
    <2>1. conv'[active] \subseteq conv[active] \cup {x}
      BY StoreFacts
    <2>2. e \in conv[active] /\ e \in Entries
      BY <1>1, <1>3, <2>1 DEF Typed, TypeOK
    <2>3. at'[e] = at[e] /\ at[e] # "new"
      BY <1>3, <2>2, StoreFacts DEF Stored
    <2>4. e \in Results => CallOf[e] \in conv[active]
      BY <1>1, <2>1, <2>3
    <2>5. e \in Expected
      BY <1>1, <2>2, <2>3, <2>4 DEF Expected
    <2> QED
      BY <2>3, <2>5, SafeKept
  <1> QED
    BY <1>2, <1>3

LEMMA SafeStep ==
  ASSUME ChatViewAssumption, Typed, GapInv, Next, covered', settled',
         Newest'.stage \in {"read", "rendered"}, NEW e \in Expected'
  PROVE  Safe(e)'
  <1> USE DEF GapInv
  <1>0. wire \in Seq(Pushes)
    BY DEF Typed, TypeOK
  <1>1. e \in conv'[active'] /\ at'[e] # "silent"
        /\ (e \in Results => CallOf[e] \in conv'[active'])
    BY DEF Expected
  <1>2. ASSUME covered, settled, UNCHANGED <<conv, active>>, at[e] # "silent"
        PROVE  e \in Expected /\ active \in Threads /\ e \in Entries /\ Home[e] = active
               /\ at[e] \in {"stored", "published"}
    <2>1. active \in Threads /\ e \in conv[active]
      BY <1>1, <1>2 DEF Settled
    <2> QED
      BY <1>1, <1>2, <2>1 DEF Expected, Stored, Typed, TypeOK
  <1>3. CASE UNCHANGED <<conv, at, wire, active, shown, inline, loads, covered, settled>>
    BY <1>1, <1>2, <1>3, SafeKept DEF Newest
  <1>4. ASSUME NEW x \in Entries, AppendByOthers(x) PROVE Safe(e)'
    <2>1. /\ Store(x) /\ \A r \in Results : CallOf[r] = x => at[r] = "new"
          /\ UNCHANGED <<wire, loads, active, shown, inline, covered, settled>>
      BY <1>4 DEF AppendByOthers, socket, view, history
    <2>2. covered /\ settled /\ active \in Threads /\ Newest.stage \in {"read", "rendered"}
      BY <2>1 DEF Settled, Newest
    <2> QED
      BY <2>1, <2>2, GapStore
  <1>5. CASE HandleFrame
    <2>1. Head(frames) \in Own
      BY <1>5 DEF HandleFrame, Typed, TypeOK
    <2>2. /\ Store(Head(frames)) /\ \A r \in Results : CallOf[r] # Head(frames)
          /\ UNCHANGED <<wire, loads, active, shown, inline, covered, settled>>
      BY <1>5, <2>1 DEF HandleFrame, view, history, ChatViewAssumption
    <2>3. covered /\ settled /\ active \in Threads /\ Newest.stage \in {"read", "rendered"}
      BY <2>2 DEF Settled, Newest
    <2>4. Head(frames) \in Entries
      BY <2>1 DEF ChatViewAssumption
    <2> QED
      BY <2>2, <2>3, <2>4, GapStore
  <1>6. ASSUME NEW x \in Entries, Publish(x) PROVE Safe(e)'
    <2>1. /\ UNCHANGED <<conv, loads, active, shown, inline, covered, settled, link>>
          /\ Push(Event(x)) /\ at[x] = "stored" /\ at' = [at EXCEPT ![x] = "published"]
      BY <1>6 DEF Publish, view, history, Event
    <2>2. Event(x) \in Pushes
      BY DEF Pushes, Event
    <2>3. e = x \/ at'[e] = at[e]
      BY <2>1 DEF Typed, TypeOK
    <2>4. e \in Expected
      BY <1>1, <1>2, <2>1, <2>3
    <2>5. CASE e = x
      <3>1. link = "subscribed"
        BY <2>1 DEF Settled
      <3> QED
        BY <2>1, <2>2, <2>5, <3>1, SafePush DEF Safe
    <2>6. CASE e # x
      <3>1. at'[e] = at[e] /\ covered /\ settled /\ Newest.stage \in {"read", "rendered"}
        BY <2>1, <2>3, <2>6 DEF Newest
      <3> QED
        BY <2>1, <2>2, <2>4, <3>1, SafePush, SafeKept
    <2> QED
      BY <2>5, <2>6
  <1>7. ASSUME NEW x \in Entries, FailAfterStore(x) PROVE Safe(e)'
    <2>1. /\ UNCHANGED <<conv, wire, loads, active, shown, inline, covered, settled>>
          /\ at' = [at EXCEPT ![x] = "silent"] /\ at[x] = "stored"
      BY <1>7 DEF FailAfterStore, socket, view, history
    <2>2. at'[e] = at[e] /\ at[e] # "silent"
      BY <1>1, <2>1 DEF Typed, TypeOK
    <2>3. e \in Expected /\ covered /\ settled /\ Newest.stage \in {"read", "rendered"}
      BY <1>2, <2>1, <2>2 DEF Newest
    <2> QED
      BY <2>1, <2>2, <2>3, SafeKept
  <1>8. ASSUME NEW t \in Threads, Delta(t) \/ EndStream(t) PROVE Safe(e)'
    <2>1. PICK k \in {"delta", "end"} : Push([type |-> k, thread |-> t])
      BY <1>8 DEF Delta, EndStream
    <2>2. [type |-> k, thread |-> t] \in Pushes
      BY DEF Pushes
    <2>3. UNCHANGED <<conv, at, loads, active, shown, inline, covered, settled>>
      BY <1>8 DEF Delta, EndStream, view
    <2>4. e \in Expected /\ covered /\ settled /\ Newest.stage \in {"read", "rendered"}
      BY <1>1, <1>2, <2>3 DEF Newest
    <2>5. (\E i \in DOMAIN wire : wire[i] = Event(e)) => (\E i \in DOMAIN wire' : wire'[i] = Event(e))
      BY <2>1, <2>2, SafePush
    <2> QED
      BY <2>3, <2>4, <2>5, SafeKept
  <1>9. CASE Drop
    BY <1>9 DEF Drop
  <1>10. ASSUME NEW i \in DOMAIN loads, ReadRecord(i) \/ RenderReply(i) \/ LoadFails(i)
         PROVE  Safe(e)'
    <2>1. UNCHANGED <<conv, at, wire, active, covered, settled>>
      BY <1>10, ReplyFacts DEF history
    <2>2. e \in Expected /\ loads # <<>> /\ Newest.thread = active
      BY <1>1, <1>2, <2>1 DEF Settled
    <2>3. Len(loads') = Len(loads) /\ Len(loads) \in DOMAIN loads /\ Len(loads') \in DOMAIN loads
      BY <1>10, <2>2, ReplyFacts DEF Typed, TypeOK
    <2>4. shown \cup inline \subseteq shown' \cup inline'
      BY <1>10 DEF ReadRecord, RenderReply, LoadFails, Render
    <2>5. CASE i # Len(loads)
      <3>1. Newest' = Newest
        BY <1>10, <2>3, <2>5, ReplyFacts DEF Newest
      <3> QED
        BY <2>1, <2>2, <2>4, <3>1 DEF Gapless, Safe
    <2>6. CASE i = Len(loads) /\ ReadRecord(i)
      <3>1. Newest'.stage = "read" /\ Newest'.entries = conv[active]
        BY <2>2, <2>3, <2>6, ReplyFacts DEF Newest
      <3> QED
        BY <2>2, <3>1 DEF Safe, Expected
    <2>7. CASE i = Len(loads) /\ RenderReply(i)
      <3>1. Newest.stage = "read"
        BY <2>7 DEF RenderReply, Newest
      <3>2. Safe(e)
        BY <2>1, <2>2, <3>1 DEF Gapless
      <3>3. CASE e \in Newest.entries /\ (e \in Results => CallOf[e] \in Newest.entries)
        BY <2>7, <3>3 DEF RenderReply, Render, Newest, Safe
      <3> QED
        BY <2>1, <2>4, <3>2, <3>3 DEF Safe
    <2>8. CASE i = Len(loads) /\ LoadFails(i)
      BY <2>3, <2>8, ReplyFacts DEF Newest
    <2> QED
      BY <1>10, <2>5, <2>6, <2>7, <2>8
  <1>11. CASE HandleAppended \/ HandleStream
    <2>1. /\ wire # <<>> /\ wire' = Tail(wire)
          /\ UNCHANGED <<conv, at, loads, covered, settled>>
      BY <1>11 DEF HandleAppended, HandleStream, server, history
    <2>2. active # None /\ active' = active
      BY <1>11, <2>1 DEF Settled, HandleAppended, HandleStream, ChatViewAssumption
    <2>3. /\ Head(wire) = wire[1]
          /\ \A i \in DOMAIN wire : i = 1 \/ (i - 1 \in DOMAIN wire' /\ wire'[i - 1] = wire[i])
      BY <1>0, <2>1, WireTail
    <2>4. e \in Expected /\ Home[e] = active /\ Newest.stage \in {"read", "rendered"}
      BY <1>1, <1>2, <2>1, <2>2 DEF Newest
    <2>5. shown \cup inline \subseteq shown' \cup inline'
      BY <1>11 DEF HandleAppended, Display, HandleStream
    <2>6. ASSUME NEW i \in DOMAIN wire, wire[i] = Event(e)
          PROVE  (\E j \in DOMAIN wire' : wire'[j] = Event(e)) \/ e \in shown' \cup inline'
      <3>1. CASE i = 1
        <4>1. Head(wire).type = "appended" /\ Head(wire).entry = e
          BY <2>3, <2>6, <3>1 DEF Event
        <4>2. Display(e)
          BY <1>11, <2>2, <2>4, <4>1 DEF HandleAppended, HandleStream
        <4> QED
          BY <4>2 DEF Display
      <3>2. CASE i # 1
        BY <2>3, <2>6, <3>2
      <3> QED
        BY <3>1, <3>2
    <2> QED
      BY <2>1, <2>4, <2>5, <2>6, SafeKept
  <1>12. ASSUME NEW m \in Own, Submit(m) \/ SubmitNew(m) \/ SubmitCreated(m) PROVE Safe(e)'
    <2>1. /\ UNCHANGED <<conv, wire, loads, shown, inline, covered>>
          /\ settled /\ active' = active /\ at[m] \in {"new", "asked"}
          /\ m \in Entries /\ \A x \in Entries : x # m => at'[x] = at[x]
      BY <1>12 DEF Submit, SubmitNew, SubmitCreated, SendAppend, view, socket, history, Typed,
                   TypeOK, ChatViewAssumption
    <2>2. active \in Threads /\ e \in conv[active]
      BY <1>1, <2>1 DEF Settled
    <2>3. e \in Entries /\ e # m
      BY <2>1, <2>2 DEF Stored, Typed, TypeOK
    <2>4. at'[e] = at[e] /\ at[e] # "silent"
      BY <1>1, <2>1, <2>3
    <2>5. e \in Expected /\ Newest.stage \in {"read", "rendered"}
      BY <1>2, <2>1, <2>4 DEF Newest
    <2> QED
      BY <2>1, <2>4, <2>5, SafeKept
  <1>13. CASE \/ \E t \in exists \cup {None} : Resolve(t)
              \/ \E t \in Threads : SwitchThread(t) \/ NewChatCreated(t)
    BY <1>13, SwitchFacts
  <1> QED
    BY <1>3, <1>4, <1>5, <1>6, <1>7, <1>8, <1>9, <1>10, <1>11, <1>12, <1>13, GapStep

LEMMA GapInvStep ==
  ASSUME ChatViewAssumption, Typed, GapInv, [Next]_vars
  PROVE  GapInv'
  <1>1. Settled' /\ Stored'
    BY SettledStep, StoredStep DEF GapInv
  <1>2. CASE UNCHANGED vars
    BY <1>1, <1>2 DEF vars, server, socket, view, history, GapInv, Gapless, Safe, Expected, Newest
  <1>3. CASE Next
    <2>1. Gapless'
      BY <1>3, SafeStep DEF Gapless
    <2> QED
      BY <1>1, <2>1 DEF GapInv
  <1> QED
    BY <1>2, <1>3

(* The fetch and the subscription together leave no gap: with the           *)
(* subscription in force since before the latest load, every entry of the   *)
(* active thread is on the screen once the reply is rendered, or its event  *)
(* is still to come, for any number of loads and of overlapping appends.    *)
THEOREM NoGapCorrect == Spec => []NoGap
  <1>1. Init => Typed /\ GapInv
    <2>1. Init => \A t \in Threads : conv[t] = {}
      BY DEF Init
    <2> QED
      BY <2>1, ChatViewAssumption, TypedInit DEF Init, GapInv, Settled, Stored, Gapless
  <1>2. Typed /\ GapInv /\ [Next]_vars => (Typed /\ GapInv)'
    BY ChatViewAssumption, TypedStep, GapInvStep
  <1>3. GapInv => NoGap
    BY DEF GapInv, Gapless, Safe, NoGap, Covered, InFlight, OnWire, Visible, Event, Newest, Last
  <1> QED
    BY <1>1, <1>2, <1>3, PTL DEF Spec

=============================================================================
