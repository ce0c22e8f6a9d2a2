------------------------------ MODULE ChatView ------------------------------
(***************************************************************************)
(* The browser's view of a conversation field                              *)
(* (static/termin.js::hydrateConversationFieldChat) against the server it  *)
(* talks to.                                                               *)
(*                                                                         *)
(* The view shows one thread at a time.  Choosing a thread clears the list *)
(* and fetches the thread's record; the reply is rendered when it comes,   *)
(* whatever has happened meanwhile.  Independently of that, `appended` and *)
(* streaming events of all threads arrive on a WebSocket in order, are     *)
(* filtered by thread, and are rendered one by one.  The socket may be     *)
(* lost and is opened and subscribed again; nothing is fetched then.       *)
(*                                                                         *)
(* An entry is an identity, as in Conversation.tla; Home gives its thread. *)
(* A tool_result names the tool_call it answers.  The model keeps which    *)
(* entries are on the screen; their order there, how often one is drawn,   *)
(* labels, placeholders and the text of a streaming bubble are left out.   *)
(***************************************************************************)
EXTENDS Naturals, Sequences, SequencesExt, FiniteSets

CONSTANTS
  Threads,     \* parent records with a conversation field
  Existing,    \* those that exist when the page opens
  None,        \* recordId is null
  Entries,     \* entries ever appended
  Own,         \* the ones this browser's user submits
  Home,        \* the thread of an entry
  CallOf,      \* the tool_call that a tool_result names
  Streaming,   \* threads in which an agent answers
  MaxLoads,    \* bound: fetches of a thread
  MaxDrops     \* bound: losses of the socket

Results == DOMAIN CallOf

ASSUME ChatViewAssumption ==
  /\ Existing \subseteq Threads /\ Streaming \subseteq Threads /\ None \notin Threads
  /\ Own \subseteq Entries
  /\ Home \in [Entries -> Threads]
  /\ Results \subseteq Entries \ Own
  /\ CallOf \in [Results -> Entries \ (Own \cup Results)]
  /\ \A r \in Results : Home[CallOf[r]] = Home[r]
  /\ \A r, q \in Results : CallOf[r] = CallOf[q] => r = q
  /\ MaxLoads \in Nat /\ MaxDrops \in Nat

VARIABLES
  \* The server.
  exists,      \* threads that have been created
  conv,        \* the conversation list of each thread
  at,          \* how far each entry has come
  streams,     \* threads in which an agent is streaming an answer
  \* The socket.
  link,        \* down, open, or open and subscribed
  drops,       \* losses so far
  frames,      \* append frames on their way to the server
  wire,        \* pushes on their way to the browser
  \* The view.
  resolving,   \* resolveActiveRecord has not settled
  active,      \* recordId
  shown,       \* entries with a node of their own in the messages container
  inline,      \* results drawn inside the node of their call
  loads,       \* the fetches made by loadActiveThread, oldest first
  creating,    \* threads being created by the New chat button
  bubble,      \* the threads whose text is in the pending bubble
  \* History, read by the properties only.
  covered,     \* subscribed ever since the latest load began
  settled,     \* active is the thread of the latest load, and was ever since
  stranded     \* threads whose last stream stopped and the browser heard no end

server == <<exists, conv, at, streams>>
socket == <<link, drops, frames, wire>>
view   == <<resolving, active, shown, inline, loads, creating, bubble>>
history == <<covered, settled, stranded>>
vars   == <<server, socket, view, history>>

Stages == {"new", "asked", "sent", "stored", "published", "silent", "unsent"}

Pushes == [type : {"appended"}, entry : Entries]
            \cup [type : {"delta", "end"}, thread : Threads]

Loads == [thread : Threads, stage : {"asked", "read", "rendered", "failed"},
          entries : SUBSET Entries]

TypeOK ==
  /\ Existing \subseteq exists /\ exists \subseteq Threads
  /\ conv \in [Threads -> SUBSET Entries]
  /\ at \in [Entries -> Stages]
  /\ streams \subseteq Streaming \cap exists
  /\ link \in {"down", "open", "subscribed"}
  /\ drops \in 0..MaxDrops
  /\ frames \in Seq(Own)
  /\ wire \in Seq(Pushes)
  /\ resolving \in BOOLEAN
  /\ active \in exists \cup {None}
  /\ shown \subseteq Entries /\ inline \subseteq Results
  /\ loads \in Seq(Loads)
  /\ creating \subseteq exists
  /\ bubble \subseteq exists
  /\ covered \in BOOLEAN /\ settled \in BOOLEAN
  /\ stranded \subseteq Streaming

Init ==
  /\ exists = Existing
  /\ conv = [t \in Threads |-> {}]
  /\ at = [e \in Entries |-> "new"]
  /\ streams = {}
  /\ link = "down" /\ drops = 0 /\ frames = <<>> /\ wire = <<>>
  /\ resolving = TRUE /\ active = None /\ shown = {} /\ inline = {}
  /\ loads = <<>> /\ creating = {} /\ bubble = {}
  /\ covered = FALSE /\ settled = FALSE /\ stranded = {}

-----------------------------------------------------------------------------
(* The server. *)

(* An append reaches the thread's list.  It overwrites what overlapping     *)
(* appends have stored (Conversation.tla); what is lost stays lost here.    *)
Store(e) ==
  /\ Home[e] \in exists
  /\ \E kept \in SUBSET conv[Home[e]] :
       conv' = [conv EXCEPT ![Home[e]] = kept \cup {e}]
  /\ at' = [at EXCEPT ![e] = "stored"]

(* Other clients, rules and agents.  An agent writes a result only after    *)
(* its call was announced or has failed for good.                           *)
AppendByOthers(e) ==
  /\ e \notin Own /\ at[e] = "new"
  /\ e \in Results => at[CallOf[e]] # "stored"
  /\ \A r \in Results : CallOf[r] = e => at[r] = "new"
  /\ Store(e)
  /\ UNCHANGED <<exists, streams, socket, view, history>>

(* The next append frame of this browser is handled; frames are handled one *)
(* after the other, after the subscriptions sent on the same socket.        *)
HandleFrame ==
  /\ link = "subscribed" /\ frames # <<>>
  /\ Store(Head(frames))
  /\ frames' = Tail(frames)
  /\ UNCHANGED <<exists, streams, link, drops, wire, view, history>>

(* A published event reaches this browser if it is subscribed just then. *)
Push(p) == wire' = IF link = "subscribed" THEN Append(wire, p) ELSE wire

Publish(e) ==
  /\ at[e] = "stored"
  /\ at' = [at EXCEPT ![e] = "published"]
  /\ Push([type |-> "appended", entry |-> e])
  /\ UNCHANGED <<exists, conv, streams, link, drops, frames, view, history>>

(* The read-back after the UPDATE fails: the entry is stored and no event   *)
(* is ever published for it (Conversation.tla).                             *)
FailAfterStore(e) ==
  /\ at[e] = "stored"
  /\ at' = [at EXCEPT ![e] = "silent"]
  /\ UNCHANGED <<exists, conv, streams, socket, view, history>>

(* A piece of an answer.  Bound: not before the browser has handled the     *)
(* previous stream event; a second piece in a row would change nothing.     *)
Delta(t) ==
  /\ t \in Streaming \cap exists
  /\ \A i \in DOMAIN wire : wire[i].type = "appended"
  /\ streams' = streams \cup {t}
  /\ stranded' = stranded \ {t}
  /\ Push([type |-> "delta", thread |-> t])
  /\ UNCHANGED <<exists, conv, at, link, drops, frames, view, covered, settled>>

EndStream(t) ==
  /\ t \in streams
  /\ streams' = streams \ {t}
  /\ Push([type |-> "end", thread |-> t])
  /\ stranded' = IF link = "subscribed" THEN stranded ELSE stranded \cup {t}
  /\ UNCHANGED <<exists, conv, at, link, drops, frames, view, covered, settled>>

(* The stream fails after some text: no end is sent (AgentTurn.tla). *)
FailStream(t) ==
  /\ t \in streams
  /\ streams' = streams \ {t}
  /\ stranded' = stranded \cup {t}
  /\ UNCHANGED <<exists, conv, at, socket, view, covered, settled>>

-----------------------------------------------------------------------------
(* The socket. *)

(* onopen sends the subscriptions again; they take effect at the server. *)
Open ==
  /\ link = "down"
  /\ link' = "open"
  /\ UNCHANGED <<server, drops, frames, wire, view, history>>

Subscribe ==
  /\ link = "open"
  /\ link' = "subscribed"
  /\ UNCHANGED <<server, drops, frames, wire, view, history>>

(* The socket is lost with everything in flight. *)
Drop ==
  /\ link # "down" /\ drops < MaxDrops
  /\ link' = "down" /\ drops' = drops + 1
  /\ frames' = <<>> /\ wire' = <<>>
  /\ at' = [e \in Entries |-> IF at[e] = "sent" THEN "unsent" ELSE at[e]]
  /\ covered' = FALSE
  /\ stranded' = stranded \cup
       {t \in Streaming : \E i \in DOMAIN wire : wire[i] = [type |-> "end", thread |-> t]}
  /\ UNCHANGED <<exists, conv, streams, view, settled>>

-----------------------------------------------------------------------------
(* The view: what is on the screen. *)

(* The entries of a record.  A result is left to the node of its call, and  *)
(* left out if that is not there.                                           *)
Render(list) ==
  /\ shown' = shown \cup (list \ Results)
  /\ inline' = inline \cup {r \in Results \cap list : CallOf[r] \in list}

(* One entry that arrived live.  A result goes to the node of its call if   *)
(* there is one.                                                            *)
Display(e) ==
  IF e \in Results /\ CallOf[e] \in shown
    THEN inline' = inline \cup {e} /\ UNCHANGED shown
    ELSE shown' = shown \cup {e} /\ UNCHANGED inline

(* Variant: the streaming bubble is not reset. *)
StartLoadKeepingBubble(t) ==
  /\ shown' = {} /\ inline' = {} /\ UNCHANGED bubble
  /\ covered' = (link = "subscribed") /\ settled' = (t # None)
  /\ loads' = IF t = None THEN loads
              ELSE Append(loads, [thread |-> t, stage |-> "asked", entries |-> {}])

(* loadActiveThread up to the request. *)
StartLoad(t) ==
  /\ shown' = {} /\ inline' = {} /\ bubble' = {}
  /\ covered' = (link = "subscribed") /\ settled' = (t # None)
  /\ loads' = IF t = None THEN loads
              ELSE Append(loads, [thread |-> t, stage |-> "asked", entries |-> {}])

SetLoad(i, newStage, list) ==
  loads' = [loads EXCEPT ![i] = [thread |-> @.thread, stage |-> newStage, entries |-> list]]

(* The server answers the request. *)
ReadRecord(i) ==
  /\ loads[i].stage = "asked"
  /\ SetLoad(i, "read", conv[loads[i].thread])
  /\ UNCHANGED <<server, socket, resolving, active, shown, inline, creating, bubble, history>>

(* Variant: the list is cleared again before the reply is rendered. *)
RenderReplyAfresh(i) ==
  /\ loads[i].stage = "read"
  /\ shown' = loads[i].entries \ Results
  /\ inline' = {r \in Results \cap loads[i].entries : CallOf[r] \in loads[i].entries}
  /\ SetLoad(i, "rendered", {})
  /\ UNCHANGED <<server, socket, resolving, active, creating, bubble, history>>

(* The reply is rendered below what is shown, for whatever thread. *)
RenderReply(i) ==
  /\ loads[i].stage = "read"
  /\ Render(loads[i].entries)
  /\ SetLoad(i, "rendered", {})
  /\ UNCHANGED <<server, socket, resolving, active, creating, bubble, history>>

(* The request fails or the record is refused: a placeholder is shown. *)
LoadFails(i) ==
  /\ loads[i].stage \in {"asked", "read"}
  /\ SetLoad(i, "failed", {})
  /\ UNCHANGED <<server, socket, resolving, active, shown, inline, creating, bubble, history>>

Reply(i) == i \in DOMAIN loads /\ (ReadRecord(i) \/ RenderReply(i) \/ LoadFails(i))

-----------------------------------------------------------------------------
(* The view: pushes. *)

(* Variant: events are not filtered by thread. *)
HandleAppendedUnfiltered ==
  /\ wire # <<>> /\ Head(wire).type = "appended"
  /\ LET e == Head(wire).entry IN
       /\ active' = IF active = None THEN Home[e] ELSE active
       /\ Display(e)
  /\ wire' = Tail(wire)
  /\ UNCHANGED <<server, link, drops, frames, resolving, loads, creating, bubble,
                 history>>

(* Variant: events that arrive during a load are left to the load. *)
HandleAppendedWhenLoaded ==
  /\ wire # <<>> /\ Head(wire).type = "appended"
  /\ LET e == Head(wire).entry IN
       /\ active' = IF active = None THEN Home[e] ELSE active
       /\ IF active' = Home[e]
                /\ \A i \in DOMAIN loads : loads[i].stage \in {"rendered", "failed"}
            THEN Display(e) ELSE UNCHANGED <<shown, inline>>
  /\ wire' = Tail(wire)
  /\ UNCHANGED <<server, link, drops, frames, resolving, loads, creating, bubble,
                 history>>

(* The appended handler.  Without an active thread the view adopts the      *)
(* thread of the first event it sees, and loads nothing.                    *)
HandleAppended ==
  /\ wire # <<>> /\ Head(wire).type = "appended"
  /\ LET e == Head(wire).entry IN
       /\ active' = IF active = None THEN Home[e] ELSE active
       /\ IF active' = Home[e] THEN Display(e) ELSE UNCHANGED <<shown, inline>>
  /\ wire' = Tail(wire)
  /\ UNCHANGED <<server, link, drops, frames, resolving, loads, creating, bubble,
                 history>>

(* The streaming handler.  Without an active thread every stream passes;    *)
(* an end removes the bubble whoever filled it.                             *)
HandleStream ==
  /\ wire # <<>> /\ Head(wire).type # "appended"
  /\ wire' = Tail(wire)
  /\ LET p == Head(wire) IN
       \/ /\ active \notin {None, p.thread}
          /\ UNCHANGED bubble
       \/ /\ active \in {None, p.thread} /\ p.type = "delta"
          /\ bubble' = bubble \cup {p.thread}
       \/ /\ active \in {None, p.thread} /\ p.type = "end"
          /\ bubble' = {}
  /\ UNCHANGED <<server, link, drops, frames, resolving, active, shown, inline, loads, creating,
                 history>>

-----------------------------------------------------------------------------
(* The view: the user. *)

(* There is room for one more load beside those already under way. *)
Room == Len(loads) + Cardinality(creating) + (IF resolving THEN 1 ELSE 0) < MaxLoads

(* resolveActiveRecord settles on a record, or on none and keeps recordId.  *)
Resolve(t) ==
  /\ resolving
  /\ resolving' = FALSE
  /\ active' = IF t = None THEN active ELSE t
  /\ StartLoad(active')
  /\ UNCHANGED <<server, socket, creating, stranded>>

(* The request fails: the continuation never runs. *)
ResolveFails ==
  /\ resolving
  /\ resolving' = FALSE
  /\ UNCHANGED <<server, socket, active, shown, inline, loads, creating, bubble, history>>

(* A row of the thread picker is clicked. *)
SwitchThread(t) ==
  /\ Room /\ t \in exists
  /\ active' = t
  /\ StartLoad(t)
  /\ UNCHANGED <<server, socket, resolving, creating, stranded>>

(* New chat: the record is created, later the view switches to it. *)
NewChat(t) ==
  /\ Room /\ t \notin exists
  /\ exists' = exists \cup {t}
  /\ creating' = creating \cup {t}
  /\ UNCHANGED <<conv, at, streams, socket, resolving, active, shown, inline,
                 loads, bubble, history>>

NewChatCreated(t) ==
  /\ t \in creating
  /\ creating' = creating \ {t}
  /\ active' = t
  /\ StartLoad(t)
  /\ UNCHANGED <<server, socket, resolving, stranded>>

(* sendAppendFrame: without an open socket the message is gone. *)
SendAppend(e) ==
  /\ frames' = IF link = "down" THEN frames ELSE Append(frames, e)
  /\ at' = [at EXCEPT ![e] = IF link = "down" THEN "unsent" ELSE "sent"]

(* The form is submitted. *)
Submit(e) ==
  /\ e \in Own /\ at[e] = "new"
  /\ active = Home[e]
  /\ SendAppend(e)
  /\ UNCHANGED <<exists, conv, streams, link, drops, wire, view, history>>

(* Variant: the new thread is active before the server has created it. *)
SubmitNewAtOnce(e) ==
  /\ e \in Own /\ at[e] = "new"
  /\ active = None /\ Home[e] \notin exists
  /\ active' = Home[e]
  /\ at' = [at EXCEPT ![e] = "asked"]
  /\ UNCHANGED <<exists, conv, streams, socket, resolving, shown, inline, loads, creating, bubble,
                 history>>

(* The form is submitted without an active thread: one is created first. *)
SubmitNew(e) ==
  /\ e \in Own /\ at[e] = "new"
  /\ active = None /\ Home[e] \notin exists
  /\ exists' = exists \cup {Home[e]}
  /\ at' = [at EXCEPT ![e] = "asked"]
  /\ UNCHANGED <<conv, streams, socket, view, history>>

(* ... and becomes the active one, without a load. *)
SubmitCreated(e) ==
  /\ at[e] = "asked"
  /\ active' = Home[e]
  /\ SendAppend(e)
  /\ settled' = (settled /\ active' = active)
  /\ UNCHANGED <<exists, conv, streams, link, drops, wire, resolving, shown, inline, loads,
                 creating, bubble, covered, stranded>>

-----------------------------------------------------------------------------
(* Nothing is under way; only the user or the agents could go on. *)
Idle ==
  /\ link = "subscribed" /\ wire = <<>> /\ frames = <<>>
  /\ ~resolving /\ creating = {}
  /\ \A e \in Entries : at[e] \in {"new", "published", "silent", "unsent"}
  /\ \A i \in DOMAIN loads : loads[i].stage \in {"rendered", "failed"}
  /\ UNCHANGED vars

Next ==
  \/ \E e \in Entries : AppendByOthers(e) \/ Publish(e) \/ FailAfterStore(e)
  \/ HandleFrame
  \/ \E t \in Threads : Delta(t) \/ EndStream(t) \/ FailStream(t)
  \/ Open \/ Subscribe \/ Drop
  \/ \E i \in 1..MaxLoads : Reply(i)
  \/ HandleAppended \/ HandleStream
  \/ \E t \in exists \cup {None} : Resolve(t)
  \/ ResolveFails
  \/ \E t \in Threads : SwitchThread(t) \/ NewChat(t) \/ NewChatCreated(t)
  \/ \E e \in Own : Submit(e) \/ SubmitNew(e) \/ SubmitCreated(e)
  \/ Idle

Spec == Init /\ [][Next]_vars

(* The server publishes what it stored, requests are answered or fail, and  *)
(* the browser handles what has arrived; nobody has to do anything else.    *)
Fairness ==
  /\ \A e \in Entries : WF_vars(Publish(e) \/ FailAfterStore(e))
  /\ \A i \in 1..MaxLoads : WF_vars(Reply(i))
  /\ WF_vars(HandleAppended \/ HandleStream)

FairSpec == Spec /\ Fairness

-----------------------------------------------------------------------------
(* Properties. *)

Visible(e) == e \in shown \cup inline

OnWire(p) == \E i \in DOMAIN wire : wire[i] = p

InFlight(e) == at[e] = "stored" \/ OnWire([type |-> "appended", entry |-> e])

(* The latest load began with the subscription in force, the socket has not *)
(* been lost since, and neither has the active thread changed.              *)
Covered == covered /\ settled

(* Entries of the active thread that the view can be expected to have.      *)
(* There is no event for an entry whose append failed half-way, and a load  *)
(* leaves out a result whose call was lost.                                 *)
Expected ==
  {e \in conv[active] : at[e] # "silent" /\ (e \in Results => CallOf[e] \in conv[active])}

(* Once the latest load is rendered, every entry of the active thread whose *)
(* event is not on its way is on the screen, however many earlier loads are *)
(* still outstanding and whatever arrived during the load: the fetch and    *)
(* the subscription together leave no gap.                                  *)
NoGap ==
  Covered /\ Last(loads).stage = "rendered"
    => \A e \in Expected : InFlight(e) \/ Visible(e)

(* An entry of another thread is on the screen only if a fetched reply put  *)
(* it there or the submit handler changed recordId without a load: events   *)
(* never bring it in.                                                       *)
ForeignOnlyByReply ==
  \A e \in shown \cup inline :
    \/ Home[e] = active
    \/ \E j \in DOMAIN loads : loads[j].thread = Home[e] /\ loads[j].stage = "rendered"
    \/ \E m \in Own : Home[m] = active /\ active \notin Existing /\ at[m] # "new"

(* While the active thread is the one that was loaded last, the pending     *)
(* bubble holds text of that thread only, and only while its stream goes on *)
(* or its end is on the way, unless the end was lost or never sent.         *)
BubbleEnds ==
  settled => /\ bubble \subseteq {active}
             /\ \A t \in bubble \ stranded :
                  t \in streams \/ OnWire([type |-> "end", thread |-> t])

(* An entry stored in the active thread comes to the screen, unless the     *)
(* user goes elsewhere, the socket or a load fails, or the list loses it.   *)
EventuallyShown ==
  \A e \in Entries :
    (Covered /\ e \in Expected)
      ~> (Visible(e) \/ ~Covered \/ Last(loads).stage = "failed" \/ e \notin Expected)

=============================================================================
