---------------------------- MODULE Conversation ----------------------------
(***************************************************************************)
(* Appending to a conversation column (routes.py::_do_append) on one row.  *)
(*                                                                         *)
(* The append is a read-modify-write over three awaited statements on a    *)
(* connection of its own: SELECT the row, UPDATE the whole JSON column,    *)
(* SELECT the row again; then the `appended` event is published and the    *)
(* event rules are dispatched before the caller gets the entry back.  Any  *)
(* other append, and the deletion of the row, may run at each await.       *)
(*                                                                         *)
(* An entry stands for the one append that writes it.  User entries come   *)
(* from the REST route or the WebSocket frame.  A rule entry is the Append *)
(* action of a When-rule, run inside the dispatch of the user entry that   *)
(* triggered it.  Agent entries are the write-backs of an agent turn,      *)
(* which that dispatch starts on a thread and which makes one append after *)
(* another.                                                                *)
(***************************************************************************)
EXTENDS Naturals, Sequences, SequencesExt

CONSTANTS
  UserEntries,    \* appended by a client
  RuleEntries,    \* appended by a When-rule
  AgentEntries,   \* written back by an agent turn
  Tried,          \* write-backs of a tool's result in the try around the tool
  Trigger         \* the append that leads to a rule's or an agent's append

Entries == UserEntries \cup RuleEntries \cup AgentEntries

(* A rule reacts to `kind == "user"` entries and appends a system_event, so *)
(* it never triggers itself; an agent entry follows the user entry that    *)
(* started the turn or the previous write-back of the same turn.            *)
ASSUME TriggerAssumption ==
  /\ UserEntries \cap (RuleEntries \cup AgentEntries) = {}
  /\ RuleEntries \cap AgentEntries = {}
  /\ Trigger \in [RuleEntries \cup AgentEntries -> UserEntries \cup AgentEntries]
  /\ \A r \in RuleEntries : Trigger[r] \in UserEntries
  /\ Tried \subseteq AgentEntries

Phases == {"idle", "loaded", "written", "reread", "published", "done"}

Results == {"none", "ok", "invalid", "not_found", "http404", "error"}

VARIABLES
  present,     \* the row exists
  column,      \* the JSON list stored in the row's conversation field
  pc,          \* how far each append has come
  entries,     \* each append's local list, decoded from the row it read
  result,      \* how each append ended
  turns,       \* user entries whose dispatch started an agent turn
  bus,         \* `appended` events in publication order
  \* History, read by the properties only:
  committed,   \* entries an UPDATE has stored
  before,      \* what had been committed when each append read the row
  versions     \* every value the column has had

vars == <<present, column, pc, entries, result, turns, bus,
          committed, before, versions>>

TypeOK ==
  /\ present \in BOOLEAN
  /\ column \in Seq(Entries)
  /\ pc \in [Entries -> Phases]
  /\ entries \in [Entries -> Seq(Entries)]
  /\ result \in [Entries -> Results]
  /\ turns \subseteq UserEntries
  /\ bus \in Seq(Entries)
  /\ committed \subseteq Entries
  /\ before \in [Entries -> SUBSET Entries]
  /\ versions \subseteq Seq(Entries)

Init ==
  /\ present = TRUE
  /\ column = <<>>
  /\ pc = [e \in Entries |-> "idle"]
  /\ entries = [e \in Entries |-> <<>>]
  /\ result = [e \in Entries |-> "none"]
  /\ turns = {}
  /\ bus = <<>>
  /\ committed = {}
  /\ before = [e \in Entries |-> {}]
  /\ versions = {<<>>}

-----------------------------------------------------------------------------
(* The append reaches its next phase, or ends with a result. *)
Advance(e, phase) ==
  /\ pc' = [pc EXCEPT ![e] = phase]
  /\ UNCHANGED result

End(e, r) ==
  /\ pc' = [pc EXCEPT ![e] = "done"]
  /\ result' = [result EXCEPT ![e] = r]

(* Variant: the rules are dispatched before the event is published. *)
CallableEarly(e) ==
  \/ e \in UserEntries
  \/ e \in RuleEntries /\ pc[Trigger[e]] \in {"reread", "published"}
  \/ e \in AgentEntries /\ Trigger[e] \in turns

(* A client may call at any time.  The rules append one after the other     *)
(* while the dispatch of their user entry runs.  A turn goes on to its next *)
(* write-back unless the previous one raised: the write-back callback       *)
(* swallows the validation and not-found errors only.  Where a tool's       *)
(* result was to be written, the exception counts as the tool's and is      *)
(* written back in its turn.                                                *)
Callable(e) ==
  \/ e \in UserEntries
  \/ /\ e \in RuleEntries
     /\ pc[Trigger[e]] = "published"
     /\ \A r \in RuleEntries \ {e} : Trigger[r] = Trigger[e] => pc[r] \in {"idle", "done"}
  \/ e \in AgentEntries /\ Trigger[e] \in turns
  \/ /\ e \in AgentEntries
     /\ Trigger[e] \in AgentEntries
     /\ \/ result[Trigger[e]] \in {"ok", "invalid", "not_found"}
        \/ Trigger[e] \in Tried /\ result[Trigger[e]] \in {"http404", "error"}

(* The payload is refused: unknown kind, or an empty body. *)
Refuse(e) ==
  /\ pc[e] = "idle" /\ Callable(e)
  /\ End(e, "invalid")
  /\ UNCHANGED <<present, column, entries, turns, bus, committed, before, versions>>

(* Variant: the stored list fails to decode and counts as empty. *)
LoadUndecoded(e) ==
  /\ pc[e] = "idle" /\ Callable(e)
  /\ present
  /\ entries' = [entries EXCEPT ![e] = <<>>]
  /\ before' = [before EXCEPT ![e] = committed]
  /\ Advance(e, "loaded")
  /\ UNCHANGED <<present, column, turns, bus, committed, versions>>

(* get_record finds the row and the stored list is decoded.  A column that  *)
(* holds no JSON list would count as empty: no append stores one.           *)
Load(e) ==
  /\ pc[e] = "idle" /\ Callable(e)
  /\ present
  /\ entries' = [entries EXCEPT ![e] = column]
  /\ before' = [before EXCEPT ![e] = committed]
  /\ Advance(e, "loaded")
  /\ UNCHANGED <<present, column, turns, bus, committed, versions>>

(* No row, or a row the caller does not own: both raise AppendNotFoundError. *)
(* Server-side appends carry no row filter.                                  *)
LoadNotFound(e) ==
  /\ pc[e] = "idle" /\ Callable(e)
  /\ ~present \/ e \in UserEntries
  /\ End(e, "not_found")
  /\ UNCHANGED <<present, column, entries, turns, bus, committed, before, versions>>

(* Variant: the newest entry goes to the front of the list. *)
WriteFront(e) ==
  /\ pc[e] = "loaded"
  /\ present
  /\ column' = <<e>> \o entries[e]
  /\ committed' = committed \cup {e}
  /\ versions' = versions \cup {column'}
  /\ entries' = [entries EXCEPT ![e] = <<>>]
  /\ Advance(e, "written")
  /\ UNCHANGED <<present, turns, bus, before>>

(* update_record: UPDATE and COMMIT store the whole list. *)
Write(e) ==
  /\ pc[e] = "loaded"
  /\ present
  /\ column' = Append(entries[e], e)
  /\ committed' = committed \cup {e}
  /\ versions' = versions \cup {column'}
  /\ entries' = [entries EXCEPT ![e] = <<>>]
  /\ Advance(e, "written")
  /\ UNCHANGED <<present, turns, bus, before>>

(* Variant: the write inserts the row when it is missing. *)
WriteUpsert(e) ==
  /\ pc[e] = "loaded"
  /\ ~present
  /\ present' = TRUE
  /\ column' = Append(entries[e], e)
  /\ committed' = committed \cup {e}
  /\ versions' = versions \cup {column'}
  /\ entries' = [entries EXCEPT ![e] = <<>>]
  /\ Advance(e, "written")
  /\ UNCHANGED <<turns, bus, before>>

(* The row went away after the read: the UPDATE matches nothing. *)
WriteNothing(e) ==
  /\ pc[e] = "loaded"
  /\ ~present
  /\ entries' = [entries EXCEPT ![e] = <<>>]
  /\ Advance(e, "written")
  /\ UNCHANGED <<present, column, turns, bus, committed, before, versions>>

(* update_record reads the row back for its return value. *)
Reread(e) ==
  /\ pc[e] = "written"
  /\ present
  /\ Advance(e, "reread")
  /\ UNCHANGED <<present, column, entries, turns, bus, committed, before, versions>>

(* Variant: the late 404 is translated like the early one. *)
RereadTranslated(e) ==
  /\ pc[e] = "written"
  /\ ~present
  /\ End(e, "not_found")
  /\ UNCHANGED <<present, column, entries, turns, bus, committed, before, versions>>

(* The row is gone by now: HTTPException(404) leaves _do_append as it is, *)
(* not as AppendNotFoundError.                                            *)
RereadNotFound(e) ==
  /\ pc[e] = "written"
  /\ ~present
  /\ End(e, "http404")
  /\ UNCHANGED <<present, column, entries, turns, bus, committed, before, versions>>

(* SQLite's busy timeout expires at one of the three statements.  After the *)
(* UPDATE the entry stays stored although the caller gets an error.         *)
Busy(e) ==
  /\ \/ pc[e] = "idle" /\ Callable(e)
     \/ pc[e] \in {"loaded", "written"}
  /\ entries' = [entries EXCEPT ![e] = <<>>]
  /\ End(e, "error")
  /\ UNCHANGED <<present, column, turns, bus, committed, before, versions>>

(* The `<field>_appended` envelope goes to the event bus. *)
Publish(e) ==
  /\ pc[e] = "reread"
  /\ bus' = Append(bus, e)
  /\ Advance(e, "published")
  /\ UNCHANGED <<present, column, entries, turns, committed, before, versions>>

(* Variant: the agent listens to entries of every kind. *)
FinishAnyKind(e) ==
  /\ pc[e] = "published"
  /\ \A r \in RuleEntries : Trigger[r] = e => pc[r] \in {"idle", "done"}
  /\ UNCHANGED turns \/ turns' = turns \cup {e}
  /\ End(e, "ok")
  /\ UNCHANGED <<present, column, entries, bus, committed, before, versions>>

(* Variant: the dispatch waits for a rule that may never fire. *)
FinishWaiting(e) ==
  /\ pc[e] = "published"
  /\ \A r \in RuleEntries : Trigger[r] = e => pc[r] = "done"
  /\ \/ UNCHANGED turns
     \/ e \in UserEntries /\ turns' = turns \cup {e}
  /\ End(e, "ok")
  /\ UNCHANGED <<present, column, entries, bus, committed, before, versions>>

(* run_event_handlers ends: its rules have run, and the agent that listens  *)
(* to user entries may have been started on a thread.                       *)
Finish(e) ==
  /\ pc[e] = "published"
  /\ \A r \in RuleEntries : Trigger[r] = e => pc[r] \in {"idle", "done"}
  /\ \/ UNCHANGED turns
     \/ e \in UserEntries /\ turns' = turns \cup {e}
  /\ End(e, "ok")
  /\ UNCHANGED <<present, column, entries, bus, committed, before, versions>>

(* The row is deleted by its own route. *)
Delete ==
  /\ present
  /\ present' = FALSE
  /\ column' = <<>>
  /\ UNCHANGED <<pc, entries, result, turns, bus, committed, before, versions>>

(* Steps an append takes once it has been called. *)
Proceed(e) ==
  \/ Write(e) \/ WriteNothing(e)
  \/ Reread(e) \/ RereadNotFound(e)
  \/ Publish(e)
  \/ Finish(e)

Call(e) == Refuse(e) \/ Load(e) \/ LoadNotFound(e)

(* Every append that could run has ended. *)
Quiescent ==
  /\ \A e \in Entries : pc[e] = "done" \/ (pc[e] = "idle" /\ ~Callable(e))
  /\ UNCHANGED vars

Next ==
  \/ \E e \in Entries : Call(e) \/ Proceed(e) \/ Busy(e)
  \/ Delete
  \/ Quiescent

Spec == Init /\ [][Next]_vars

(* The event loop resumes every coroutine whose statement has completed. *)
Fairness == \A e \in Entries : WF_vars(Proceed(e))

FairSpec == Spec /\ Fairness

-----------------------------------------------------------------------------
(* Position order of two entries in a list. *)
Precedes(d, e, s) ==
  \E i, k \in DOMAIN s : i < k /\ s[i] = d /\ s[k] = e

(* Neither of two appends had been stored when the other one read the row. *)
Overlap(d, e) == d \notin before[e] /\ e \notin before[d]

(* Every entry appears at most once in the column: an append that fails    *)
(* after its UPDATE is not applied again.                                  *)
NoDuplicates ==
  \A i, k \in DOMAIN column : column[i] = column[k] => i = k

(* The list is ordered: an entry stored before another append read the row *)
(* never stands after that append's entry.                                 *)
RealTimeOrder ==
  \A i, k \in DOMAIN column : column[i] \in before[column[k]] => i < k

(* Whatever survives of one exchange is in causal order: a rule's entry    *)
(* stands after the user entry it reacts to, a write-back after the user   *)
(* entry or the write-back it follows.                                     *)
CausalOrder ==
  \A i, k \in DOMAIN column :
    column[k] \in RuleEntries \cup AgentEntries /\ column[i] = Trigger[column[k]]
      => i < k

(* The read-modify-write loses an entry only to an append that ran at the  *)
(* same time: while the row exists, a stored entry that is missing from    *)
(* the column overlaps another stored append.                              *)
LossOnlyOnOverlap ==
  present =>
    \A e \in committed \ ToSet(column) : \E d \in committed : d # e /\ Overlap(d, e)

(* Every successful append publishes exactly one `appended` event, and no  *)
(* event announces an entry that was never stored.                         *)
EventsMatchAppends ==
  /\ \A i, k \in DOMAIN bus : bus[i] = bus[k] => i = k
  /\ ToSet(bus) \subseteq committed
  /\ \A e \in Entries : result[e] = "ok" => e \in ToSet(bus)

(* The appends that led to e, one through the other. *)
Closed(S) == \A x \in S \cap DOMAIN Trigger : Trigger[x] \in S
Causes(e) ==
  {d \in Entries : \A S \in SUBSET Entries : Trigger[e] \in S /\ Closed(S) => d \in S}

Failed == {"invalid", "not_found", "http404", "error"}

(* Subscribers hear of every entry after all that led to it: after the user *)
(* entry, and after each earlier write-back of the turn, unless that one    *)
(* has failed, whether its error was swallowed or told to the model, and    *)
(* will not be announced at all.                                            *)
CausalEvents ==
  \A e \in ToSet(bus) \cap (RuleEntries \cup AgentEntries) : \A d \in Causes(e) :
    \/ Precedes(d, e, bus)
    \/ d \in AgentEntries \ ToSet(bus) /\ result[d] \in Failed

(* The two errors the callers translate (400 and 404, or the matching      *)
(* error frames) mean that the entry was not stored.                       *)
FailureReporting ==
  \A e \in Entries : result[e] \in {"invalid", "not_found"} => e \notin committed

(* What a caller or a subscriber is told is what was stored. *)
ReportsMatchStore == EventsMatchAppends /\ FailureReporting

(* The column implements the lossy log. *)
Log == INSTANCE ConversationLog WITH log <- column
ImplementsLog == Log!LogSpec

(* An append that has been called returns, with its rules run, whatever    *)
(* else happens to the row.                                                *)
AppendCompletes ==
  \A e \in Entries : pc[e] \notin {"idle", "done"} ~> pc[e] = "done"

=============================================================================
