# Formal models of termin-server

termin-server runs applications compiled to the Termin intermediate
representation: a FastAPI process over one SQLite database, with an in-process
event bus, a WebSocket and an SSE channel to browsers, declarative When-rules,
and agents that talk to a language model on threads of their own. This directory
holds TLA+ models of the parts of it where order and concurrency matter, TLC
configurations that check them on small instances, and TLAPS proofs.

Line numbers refer to files under `src/termin_server/`.

## 1. Inventory

Everything in the process runs on one asyncio event loop, except agent
invocations (`app.py` 100-140), which get a daemon thread and an event loop of
their own. All of them share the SQLite file; every statement goes through
aiosqlite and is a point where another coroutine or thread may run. There is no
lock and no transaction around a read-modify-write sequence.

| Component | State | Operations | Talks to |
|---|---|---|---|
| Conversation append (`routes.py` `_do_append`) | the JSON column of a record | append an entry: SELECT, UPDATE of the whole column, SELECT, publish, dispatch | storage, event bus, event rules; called by the REST route, the WebSocket frame, When-rules and agent write-backs |
| Event rules (`app.py` `run_event_handlers`, `run_compute_invoked_event_handlers`, `_execute_owner_keyed_update`) | none of its own | Append, Update, Create, Transition, Send actions; starting computes | append, transitions, storage, agents |
| State transitions (`transitions.py`, `routes.py`, `app.py` `run_state_entered_event_handlers`) | a state column per machine | transition request: read, compare-and-swap, fresh read, dispatch of the state-entered rules, which may transition again | storage, event bus |
| Agent and LLM computes (`compute_runner.py`, `ai_provider.py`) | per invocation: turn, pending calls, refusal state; the audit log | materialise, stream an answer, call tools, write back, refuse, record the outcome | append, streaming channel, provider |
| Record store (`storage.py`, `providers/builtins/storage_sqlite.py`) | tables, idempotency keys | create, read, update, update_if, delete, query with a keyset cursor | SQLite |
| Migration and startup (`app.py` 1700-1900, `storage_sqlite.py`) | schema, schema metadata, seed rows | diff, backup, migrate, record the schema, seed | SQLite |
| Chat view (`static/termin.js`) | entries shown, subscription, pending bubble | load, switch thread, receive `appended` and streaming events, reconnect | REST, WebSocket |
| WebSocket runtime (`websocket_manager.py`, `fastapi_adapter.py`) | connections, subscriptions | push, append frame, reconnect | append, event bus |
| Identity and scopes (`identity.py`) | none | role and scopes of a request | every route |
| Theme preferences (`preferences.py`) | one table | lazy creation, read, upsert | SQLite |
| Pages and presentation | none | rendering | storage, identity |
| Providers and channels (`providers/builtins/*`) | none or test buffers | adapters and stubs | outside services |

What is hard, and what correct means, per component:

- **Append.** Appends from four kinds of callers interleave at three awaited
  statements with each other and with the deletion of the row; each statement
  may fail with "database is locked"; rules append from inside the dispatch of
  an append; an agent appends later from another thread. Correct: what survives
  is ordered, free of duplicates and of invented entries; an entry is lost only
  to an overlapping append; events match stored entries and come in causal
  order; the translated errors mean "not stored"; every call returns.
- **Event rules and computes.** Rules and computes work on the copy of the record
  their event came with while other requests change it; owner-keyed updates read,
  count and store in separate statements; LLM computes publish their copy when
  they are done; any statement may raise. Correct: an owner's row counts the
  updates that did not overlap; the audit log says what happened; the last event
  about a record says what is stored, apart from named exceptions.
- **State-entered rules.** A rule's transition recurses into the dispatcher while
  other requests move the same record. Correct: the column moves along
  declared transitions only; each rule runs exactly once per entry; requests end.
- **Agent turn.** A refusal may come anywhere in a batch of tool calls; streams,
  tools and write-backs may fail; the turn limit may strike at any of these.
  Correct: nothing but the refusal entry follows a refusal; tool calls are
  answered; one outcome is recorded; no bubble stays pending; the loop ends.
- **Streamed answers.** A scanner takes the JSON of a tool call apart character by
  character, a queue carries the fields from the provider's thread to the runner,
  and the JSON is parsed once more at the end, whole or cut off. Correct: texts
  are told whole and under their names; no part of a text is stored; the page
  ends up with the record; the runner always hears of the end.
- **Record store.** A stop between insert and idempotency key; two creates with
  one key; a row that is deleted under a patch; NULLs in keysets; pages read while
  rows come and go. Correct: one record per key; a deleted row stays deleted;
  a scan sees every row that stays put exactly once.
- **Migration.** SQLite stores CREATE, ALTER and DROP at once unless a
  transaction is open, each step may be the last one before a stop, and a DROP
  takes along the rows that refer to the table. Correct: a rebuild is whole or did
  not happen; rows are kept or in a backup; a server that is up has its package's
  tables; a start that was stopped can be made again.
- **Chat view.** Events that arrive during a fetch, a thread switch or an
  outage; replies of fetches in any order. Correct: nothing stored is missing from
  the screen, each entry is shown once and in the thread it belongs to, no pending
  bubble outlives its stream.

`PROJECT.json` lists every hazard with its line and the properties that cover it.

## 2. Modules

| Module | What it is |
|---|---|
| `ConversationLog` | the promise of a conversation column: a lossy append-only log |
| `Conversation` | `_do_append` on one row with all its callers; implements `ConversationLog` |
| `StateEntered` | transition requests and the state-entered cascade on one record |
| `EventRules` | CRUD requests, the rules of their events, CEL and LLM computes, the compute endpoints |
| `AgentTurn` | one invocation of a conversation-mode agent |
| `Streams` | an answer streamed from the provider through the runner to the record and its cells |
| `Records` | the storage provider: create with a key, update, delete, query by pages |
| `Migration` | the start of a package on a database: diff, backup, migrate, metadata, seed |
| `ChatView` | the browser's chat over a conversation field, its socket and the server it sees |
| `ConversationProofs`, `StateEnteredProofs`, `EventRulesProofs`, `AgentTurnProofs`, `StreamsProofs`, `RecordsProofs`, `MigrationProofs`, `ChatViewProofs` | the TLAPS proofs about these modules |
| `MC*` | instances for TLC |

The modules meet where one takes the outcome of another for granted: `AgentTurn`
and `ChatView` see an append as `Conversation` shows it to its caller and to
subscribers; `EventRules` starts the computes whose answers `Streams` follows;
`StateEntered` and `EventRules` use single statements of the store that `Records`
takes apart; `Migration` makes the tables all of them use. They are not composed
into one specification: their state spaces multiply, and what each needs of the
other is the few outcomes named in its comments.

In each module a definition that starts its comment with "Variant:" is a changed
form of the definition after it, as a plausible mistake in the code would
produce. Variants belong to no specification; the mutants of `PROJECT.json` put
them in to show that the properties notice.

### Conversation

An entry is identified with the one append that writes it; `pc[e]` says which
statement that append has finished. `column` is the JSON list, `entries[e]` the
local list decoded from the row that was read, `bus` the sequence of published
`appended` events, `turns` the user entries whose dispatch started an agent
turn. `committed`, `before` and `versions` are history that no guard reads.

| Action | Code |
|---|---|
| `Refuse` | payload validation (`AppendValidationError`) |
| `Load`, `LoadNotFound` | `get_record`, the row filter, decoding the list |
| `Write`, `WriteNothing` | UPDATE and COMMIT in `update_record`; the second when no row matches |
| `Reread`, `RereadNotFound` | the read-back of `update_record` and its `HTTPException(404)` |
| `Busy` | any of the three statements raises because the lock is not granted |
| `Publish` | the `<field>_appended` envelope goes to the bus |
| `Finish` | `run_event_handlers` returns, the entry goes back to the caller |
| `Delete` | the row is deleted by its own route |
| `Callable` | who may append when: clients at any time, a rule during the dispatch of its user entry, a write-back after a predecessor that was stored, refused or not found, or that raised where it stood in the `try` around a tool (`Tried`, `ai_provider.py` 1249-1279) |

The payload, its JSON form, timestamps and ids are abstracted to the identity of
the entry: an id is a fresh UUID, so two appends never produce the same entry. A
column that holds no JSON list counts as an empty one in the code (`routes.py`
634-645); no append stores such a value, and `Load` leaves the branch out.

### StateEntered

`call[r]` is a request, `stack[r]` its nested dispatcher calls. A frame keeps
`target_state`, the rule the loop is at and the action in that rule. A rule's
Transition action assigns to the very variable the loop matches against
(`app.py` 1444), and so does `RunTransition`. `Abandon` is the error path of a
transition: a request reports the error, a rule logs it and goes on.
The operator `TransitionsLast` describes the orders of rules for which the reused
variable makes no difference: a rule that transitions does it in its last action,
and no later rule reacts to its own state or to the state it moves to.

### AgentTurn

`pc` follows the loop in `_anthropic_agent_loop_with_conversation` and the code
around it in `_execute_agent_compute`. A write-back is one append seen by its
caller: stored, swallowed (the row is gone), or raised before or after it was
stored, which are the outcomes `Conversation` establishes for agent entries.
`ResultRaises` is the exception of a result write-back caught by the handler meant for the
tool; `Crash` is an exception that is not an `AIProviderError`.

### EventRules

`task` holds what each request and each compute thread is doing, with the copy of
the record it works on (`rec`), the rule actions it has left and the principal it
acts for. `rows` is the table, `owned` the counters of the content the owner-keyed
rules write, `shown` what the last published event says of each record, `audit`
the audit rows of each compute run. `applied`, `crossed`, `stale` and `mixed` are
history: updates that were stored, keys whose updates met, records somebody had a
copy of when they were written, output fields two writers met on.

| Action | Code |
|---|---|
| `Create`, `Update`, `Delete` | the statement of a CRUD request and its commit (`Store`) |
| `ReadBack` | the read-back of an update, or the idempotency key of a new record: the row may be gone, and an error ends the request without an event |
| `PublishEvent` | the event goes out, and the dispatch begins with the copy that was read |
| `Arrive`, `Announce` | a record from a channel, published after its rules have run |
| `Send`, `Same`, `Insert`, `Query`, `Owned` | one action of a rule: the message to a channel, the Update of the record, the creation of one, the two halves of the owner-keyed Update; also for the rules on a compute (`app.py` 1713-1774), which know the two Updates only |
| `StartComputes` | the computes the event triggers, each on a thread with a copy |
| `Trigger`, `Invoke` | the trigger endpoint and the synchronous endpoint |
| `Skip`, `EvalCel`, `EndInvoked` | a compute without provider, one in CEL and the rules on it |
| `Answer`, `AnswerFails`, `WriteFields`, `PublishUpdated`, `AuditSuccess` | an LLM compute |
| `Refuse`, `Evaluate`, `Conclude` | the gates, the body and the checks after it of the synchronous endpoint |

Between these steps other requests run, so two changes may be published in the other
order. The deletion takes its copy in the step that deletes, which is the one case left
out here. `Trigger` takes the record from the request's body (`Bodies`), stored or not.
`kept` says whether the output of an LLM compute was stored, or found no row to be
stored in, of which `update_fields` says nothing. `Text` is what `str()` makes of a
principal, the key under which the rules on a compute look for the user's row.

The CRUD and trigger handlers live in `termin_core`; they are modelled from the
hooks `routes.py` gives them. A predicate is the set of values it holds of.

### Streams

`script` is what the model says: an LLM compute's one tool call or an agent's
turns with their calls, each a JSON document of texts, numbers, lists and nested
data (`Nested` are the pairs of a document and of the objects in it). `json` and `pos` are the text of the call at hand and how much of it has
arrived, `scan` the scanner, `queue` the events between the thread (`producer`)
and the `runner`, `said` the message of an agent as the runner gets it, `row` the
record, `cell` and `streaming` the page. `told` and `lost` are history: what has been
told of the block at hand, and that an event of this invocation found the socket closed.

| Definition | Code |
|---|---|
| `Advance`, `Emitted` | one character of `StreamingJsonFieldExtractor._scan`: next state, events |
| `Parsed`, `Closed`, `Finish` | `parsed_object`, the braces it adds, `finish` |
| `Begin`, `Receive`, `EndBlock`, `EndStream`, `FailStream` | the thread of a turn |
| `CutStream`, `Partial` | `max_tokens` cuts an agent's message off: the call it was in is part of the message with what has come of its input, and the runner makes it (`ai_provider.py` 643, 687, 707-743) |
| `Publish`, `TakeError`, `TakeEnd`, `TakeMessage`, `TakeDone` | the runner at the queue |
| `CallTool`, `Filled`, `Update`, `NextTurn` | tools, the values `update_record` keeps, the next turn |
| `Write`, `Merge`, `PublishUpdated` | storing the output, its event |
| `Show`, `ShowRow`, `Drop`, `Reconnect` | `hydrateComputeStream`, the update of a table row, the socket |

The scanner is modelled character by character because its mistakes are about
single characters; `Parsed` is the JSON parser by what it returns (the document
whose text this is), not by how it works. `Partial` stands for the client library,
which keeps of a cut-off input the pairs that were closed, the closed elements of a list
or of the data, and of a number what has come. An update without `data` merges nothing
(`DataOf`, `compute_runner.py` 794), and one whose values are all empty writes nothing
(`Filled`, `storage.py` 466-471).

`StreamsAssumption` says what a script is: its calls are inputs as the tools' schemas
have them (`Input`); a number (or `true`, `null`) has characters and none that JSON gives
a meaning, and a field of the record is given a text or a number (`Sound`,
`build_output_tool`, `ai_provider.py` 1505-1567). `Plain` are the scripts the scanner is
made for: no Unicode escape, no line break in a key, no list with a comma or a brace in
its JSON. Texts may hold anything else, and objects may be nested.

### Records

`rows`, `nextId` and `keys` are the table, AUTOINCREMENT and `_termin_idempotency`;
`call` says which statement a call has come to, `scan` where a scan is. `madeBy`,
`open`, `crossed` and `steady` are history.

| Definition | Code |
|---|---|
| `Meaning`, `Leaf`, `SqlAnd`, `SqlOr`, `SqlNot` | `_compile_predicate`, in SQL's three values |
| `After`, `Ordered`, `Found`, `CursorOf`, `Page` | `_build_keyset_filter`, ORDER BY, `query` and its cursor |
| `StartCreate`, `Lookup`, `LookupRow`, `Cleanup`, `Insert`, `StoreKey` | `create`, a statement each |
| `UpdateRead`, `UpdateWrite`, `UpdateReread`, `Delete` | `update`, `delete` |
| `Stop` | the process stops between two commits |

### Migration

`disk` is what is committed: for every content its table (columns and rows) and
its `trebuild_` table; `tx` is what an open transaction sees. `meta` is
`_termin_schema`, `diff` and `todo` the changes of this start. `written`,
`backedUp` and `standing` are history.

| Action | Code |
|---|---|
| `Launch` | the start up to the acknowledgement gate: read the schema, diff, renames |
| `Backup` | the copy of the file where a change is of high risk |
| `ApplyAdded`, `ApplyRemoved`, `ApplyRenamed`, `AddColumn` | the changes that are single statements |
| `RebuildCreate`, `RebuildCopy`, `RebuildDrop`, `RebuildRename` | the four of a rebuild |
| `Commit` | validation and COMMIT, or the error and rollback |
| `RecordTable`, `RecordRow` | `write_schema_metadata` |
| `SeedContent`, `SeedRow`, `Serve` | seeding, a commit per record; the server is up |
| `Write`, `Shutdown`, `Interrupt` | around it: users' records, an orderly end, a stop at any step |

What the statements do to the database was taken from SQLite as the code opens it:
`PRAGMA foreign_keys` on, the `sqlite3` module's default isolation. There INSERT
opens a transaction and CREATE, ALTER and DROP do not; `init_db` has a connection
of its own, which waits in vain for a write lock the migration holds; DROP deletes
the table's rows first. The diff is code of `termin_core`, modelled by the kinds
of change it gives `migrate`. `Unacked` are the packages whose changes the operator
has not acknowledged. Left out: field renames, column types, and that
introspection of a database without metadata would also list a leftover
`trebuild_` table.

`MigrationAssumption` says of any instance: an order of the diff lists every content
once, rows are finitely many and a content's seed rows are its own. A bound of the
model is `ShallowAssumption`: references go one level deep, because `Dropped` follows one, and
renamed contents take no part in them. Two further conditions are needed by one
theorem each and hold of the instance: `RenamesKeepColumns` (a content is renamed from one
name and declares the same columns under both, since field renames are left out and
the classification of a rename with changed columns belongs to `termin_core`) and
`LossesAreRisky` (removals and rebuilds are among the changes of high risk).

### ChatView

`shown` is the set of entries with a node in the messages container, `inline` the
results drawn inside the node of their call, `loads` the fetches of
`loadActiveThread`, `wire` and `frames` the two directions of the socket. The order
of the nodes and how often one entry is drawn are left out; no property here is about them
(section 5 says what reading the code showed). The server part (`conv`, `at`,
`streams`) is the outcome of `Conversation` and `AgentTurn` as a browser sees it:
an append may have overwritten any of the earlier entries, may be stored without
an event, and a stream may fail without an `end`. `covered` (subscribed ever since the latest load began), `settled` (the active
thread has been that of the latest load ever since) and `stranded` (streams whose
end was lost or never sent) are history for the properties.

| Action | Code |
|---|---|
| `Resolve`, `ResolveFails` | `resolveActiveRecord` and its continuation |
| `StartLoad`, `ReadRecord`, `RenderReply`, `LoadFails` | `loadActiveThread`: clear and request, the server's answer, the continuation, its error paths |
| `SwitchThread`, `NewChat`, `NewChatCreated` | the thread picker, the New chat button before and after its request |
| `Submit`, `SubmitNew`, `SubmitCreated` | the form with and without an active record |
| `HandleAppended`, `HandleStream` | the two subscriptions |
| `Open`, `Subscribe`, `Drop` | `onopen` with its subscriptions, their arrival at the server, `onclose` |
| `AppendByOthers`, `HandleFrame`, `Publish`, `FailAfterStore` | appends at the server and their events |
| `Delta`, `EndStream`, `FailStream` | the streaming channel |

Which record `resolveActiveRecord` picks is left open, since a page may pin any.
The list of results of a call has one element: ids of calls are unique.

## 3. Runs

| Run | Instance | Shows |
|---|---|---|
| `conversation` | two clients, one rule, a turn with three write-backs, one of them of a tool's result; deletion and busy statements at any time; 290,272 states | all safety properties of `Conversation`, that it implements `ConversationLog`, and that appends return |
| `state_entered` | three requests for any of four states, a five-rule cascade two deep, deletion; 200,184 states | declared steps only, each rule exactly once per entry, requests answered |
| `event_rules` | two requests of any kind on one record, three rules, computes of all providers, two rules on computes, records of their own for the trigger, one database error; 1.56 million states | counters of owners, truth of the audit log, what the pages end up with |
| `agent_turn` | three turns, every batch of up to two tool calls out of an ordinary tool and both refusals; 48,055 states | the properties of a turn listed above |
| `streams` | two invocations in turn out of eight scripts, a failure or cut at any character, of agents' messages too, one outage; 334,061 states | each text told in order and whole, nothing partial stored, the page shows the record, invocations end |
| `records` | two writers, one scan, one key, pages of one record, one stop; 156,720 states | exact pages, one record per key, deleted for good |
| `migration` | three packages in any order on a new or an old database, three orders of the diff, one stop; 65,921 states | whole rebuilds, rows kept, declared tables served, stopped starts repeated |
| `chat_view` | two loads, two threads of which the view may create one, an outage, three entries (a call, its result, a message of the user); 421,839 states | a load under a subscription leaves no gap, stored entries come to the screen, pushes bring in no other thread |
| `chat_stream` | agents streaming in both threads, two loads, an outage; 5.57 million states | after a load the pending bubble belongs to the loaded thread and goes away with its stream |
| `state_entered_once` | one request, two rules in the wrong order | a rule runs twice for one entry |
| `migration_atomic` | as `migration` | a stop between two changes leaves a mixture of two packages |
| `stream_done` | as `streams` | a whole answer with a brace in a text gives an empty output |

The three last runs end in counterexamples and are findings (section 5).

**Bounds.** Two overlapping writers suffice for every lost update; the further
appends (rule, write-backs) add causal chains, among them one through a write-back that
raised and was told to the model, and the
case where a loss is blamed on an entry that was itself lost. The theorems of
section 4 remove these bounds for all safety properties of `Conversation`, among
them the bound of one rule per user entry. For
`StateEntered`, three requests let one be overtaken twice, and the
rule book has several rules per state, a rule with an action before its
transition, and a cascade that enters a state which cascades again. The number
of cascades is bounded by the workflow, since a request's `call` is made once.
For `AgentTurn`, three turns give a first, a middle and a last one; a batch of
two has a call before and after each refusal.

For `EventRules` two requests are the one whose copy is stale and the one that made
it so, or two updates of one counter; each may start every compute, so up to four
threads are under way. One record suffices: nothing in the code reads two.
For `Streams` the scripts hold what the scanner tells apart: quotes, escapes,
closing and opening braces inside a text, a number before a text, lists, nested
data, an empty text, an agent that updates this record, one that ends with `set_output`, one that
does not end, each of which may be cut off; the second invocation meets the cells the first one left. For
`Records` pages of one record put every row on a page boundary; the stored tables
hold a NULL, equal sort values and a deleted row; `MaxId` leaves room for a create
of each writer. For `Migration` three packages give a way there, on and back again;
their contents hold each kind of change, a reference that cascades and one that
restricts; a single stop at any statement is followed by any start.

For `ChatView` two loads are one that is overtaken and one that overtakes it (the first
may belong to the page's opening or to a click); one outage shows what is missed
and what is subscribed again. `Room` and `MaxDrops` are the bounds; `Delta` waits
until the previous stream event was handled, since further text in the same bubble changes nothing.
Streams are checked apart from tool calls because no handler reads both.

**Fairness.** `Conversation` and `StateEntered`: weak fairness of each call's own
steps once it has begun, because the event loop resumes a coroutine whose
statement has completed and SQLite answers or reports a timeout. No client is
ever obliged to call, no row to be deleted, no statement to be busy.
`AgentTurn`: weak fairness of the invocation, whose thread keeps running;
it is an assumption about the provider that a stream ends or fails (the client
library gives requests a timeout), and either outcome is allowed.

`Streams`: weak fairness of the thread and of the runner; the client library times a
silent provider out, which is `FailStream`. `Migration`: weak fairness of the start's
own steps and of launching the deployed package again, as a supervisor does;
`RepeatableServes` gives up its claim when the operator turns to another package.
`EventRules` and `Records` have no liveness property and no fairness.

`ChatView`: the server publishes or fails to, requests are answered or fail, and
the browser handles what has arrived. Users, agents and the network owe nothing:
`EventuallyShown` ends its promise when the socket or the load fails.

**Deadlock** is checked in the runs of `Conversation`, `StateEntered`, `AgentTurn`,
`ChatView` and `Migration`; the only states without a successor other than
stuttering are those in which every call has ended (`Quiescent`, `Ended`), or in
which nothing is under way in the browser (`Idle`). `EventRules`, `Records` and
`Streams` switch it off: there the calls the bounds allow come to an end and
nothing remains to be done; `StreamEnds` and the conditions "has ended" in the
properties of the other two look at those very states.

## 4. Theorems

`ConversationProofs` proves, for any sets of entries and any `Trigger` allowed by
`TriggerAssumption` (the three kinds are disjoint, a rule reacts to a user
entry, a write-back follows a user entry or a write-back), that `Spec` implies:

`TypeCorrect`, `InvCorrect`, `NoDuplicatesCorrect`, `RealTimeOrderCorrect`,
`CausalOrderCorrect`, `LossCorrect`, `EventsCorrect`, `CausalEventsCorrect`,
`FailureReportingCorrect`, `ReportsCorrect` (the last with `EventsCorrect` and
`NoDuplicatesCorrect`, as the runs check them), and `Refinement` (the append
implements `ConversationLog`).

None of these properties is inductive: a property of `column` says nothing about the
stale list an append in flight holds. The inductive invariant `IInv` is built in layers,
each using only those before it:

1. `PhaseInv` ties the phase of an append to the row, the bus and its result
   (for instance: an append that has loaded has not been stored, one that was
   announced has been).
2. `BusDistinct`, from 1: publishing happens once.
3. `CauseInv` and `CausalEvents`: a rule or write-back has begun only if each
   append that led to it, over any number of steps, was announced, or is a write-back
   that has failed, whose error was swallowed or told to the model, and will not be.
4. `VersionInv`: *every value the column has ever had* is duplicate-free, in
   real-time and causal order and made of stored entries, and a loaded append
   holds one of these values. This is what makes stale lists harmless to order.
5. `AccountInv`: every entry missing from the column, and from each list in flight
   relative to what had been stored when it was read, overlaps a stored entry.
   In the step `Write(e)` a missing entry either was missing from what `e` had read, so
   the invariant explains it, or was stored since, so `e` itself overlaps it.

Refinement then maps `Write(e)` to `Extend(entries[e], e)`, `Delete` to
`RemoveRow` and everything else to a stutter.

`AgentTurnProofs` proves for any turn limit, any batches and any audit level
(`AgentTurnAssumption`) every safety property of the passing run: `TypeCorrect`,
`OnlyRefusalCorrect`, `RefusalCorrect`, `OneOutcomeCorrect`, `OutcomesCorrect`,
`CallsAnsweredCorrect` and `BubbleCorrect`. `LogStep` lists what any step may add
to the conversation and under which condition. The invariant then says where a
refusal can be pending (`LoopInv`: never between an answer's arrival and its
first call, nor while a tool runs, because `should_halt` is asked at the head of
the turn and before each call), that the audit log is empty until the loop is over
(`AuditInv`), and that only the last entry can be a call without a result, and only
while that call is being handled (`CallsInv`).

`StateEnteredProofs` proves for any machine, rules and requests
(`RuleBookAssumption`) `TypeCorrect` and `DeclaredCorrect`. The latter needs
`ExpectedDeclared`: whoever waits at the compare-and-swap wants a transition that
is declared from the state it expects, so that the swap, which finds that very state,
is legal no matter what happened since the read. With the hypothesis
`TransitionsLast` it also proves `OnceEachCorrect` and `AtMostOnceCorrect`; without it
the latter is false, which is the finding of `state_entered_once`. `NestedInv` says
that all of a request's dispatcher calls but the innermost wait for the transition
they have made, with no rule ahead of them on the state they moved to. A request then
owes a rule at most one run (`Owes`), and `CountInv` says that a rule's runs and the
requests that owe it one add up to the entries into its state.

`EventRulesProofs` proves for any values, rules, computes, outputs, principals and
any number of requests and errors (`EventRulesAssumption`) every property of the run.

- `TypeCorrect` needs what a task carries at each place (`CarryInv`), that a request
  has no threads before its rules have run (`FreshInv`), and that no record or
  event has an id not yet given (`RowInv`).
- `OwnerCorrect`: `OwnerInv` says that whoever is between the query and the update
  has seen the count that is stored, unless two of them met (`crossed`).
- `AuditCorrect`: `AuditInv` gives the audit log of a thread at each place, and with a
  success at which places the output has been stored or has found no row.
- `ShownCorrect`, with the hypothesis `NoneForDeleted` (no LLM compute is triggered by
  a deletion; the code permits it, and the event of such a compute shows a deleted
  record again, see section 5): `CopyInv` says that whoever will publish a copy of a
  record holds what is stored, unless the record was written under somebody's copy, its
  request failed after the commit, or the copy came from the body of a trigger
  (`stale`), and `OutInv` the same of the output field, which an LLM compute changes
  before it publishes.

`RecordsProofs` proves for any rows, queries, page sizes, keys, writers, scans and stops
(`RecordsAssumption`) every property of the run.

- `TypeCorrect`, `OneRecordCorrect` and `DeletedCorrect` rest on `KeyInv`: what a call
  carries at each statement (`CallInv`), no row beyond `nextId` and no entry of
  `keys` for a row of another key (`TableInv`), one open create for a key nobody met on
  (`OpenInv`), and for such a key one record, which is the one of its entry or that of
  the create about to store the entry (`SingleInv`).
- `PagesCorrect` adds `ScanInv`: of the rows that stay as they were, a scan has
  collected those its cursor has passed and no others, in order. The step of a page needs that
  `Sorted` enumerates a finite set in order (`SortedFacts`), that the order of a query
  is total because the id breaks ties, and that `After` says what is ahead of the
  cursor in this order. Rows with a NULL in a sort column are not among them, nor is a scan
  that ended at one.

`MigrationProofs` proves for any packages, contents, references, seeds, orders of the diff
and stops (`MigrationAssumption`) the safety properties of the run.

- `TypeCorrect` and `RebuildCorrect` rest on `BaseInv`: what is left of a migration
  has at most one change for a content, each of a kind the package asks for (`PlanInv`);
  a transaction is open from a copy to the commit only, and sees every stored table whose
  change is still to come (`AwaitInv`); rebuild tables hold rows only
  inside it and on the way to their name (`RowsInv`); a content every package declares has
  its table, is about to get it or is being renamed (`KeptInv`).
- `RowsCorrect`, with `LossesAreRisky`: rows of the contents that are to be kept are in
  their table, or in the rebuild table while the old one is away (`SafeInv`); for all
  rows, a migration without a backup takes none out (`BackInv`). `SteadyInv` keeps a
  table whose rows others cascade with out of rebuilds.
- `ServesCorrect`, with `RenamesKeepColumns`: `OnItsWay` relates a table on disk, its
  rebuild table, the recorded columns and the declared ones such that the diff of
  the next start finds what is left to do (`Resumable`) wherever the last one stopped, and
  `WorkInv` says that the changes which are left make the declared tables.

`StreamsProofs` proves `StoredCorrect`, `TypeCorrect`, `PageCorrect` and `TextCorrect` for
any scripts, characters, number of rounds and outages (`StreamsAssumption`).

- `StoredCorrect`: the calls an agent makes (`said`) and the output an LLM compute holds
  are inputs of the script or cuts of one (`SaidInv`, `ResultInv`), and a cut (`Cuts`)
  drops pairs, elements and digits of a number, so that it has whole texts only.
- `TypeCorrect`: `ThreadInv` ties `json` to the block the thread is at and keeps the scanner
  inside the object, so that its depth never falls below zero; `PageInv` has the record and the
  page, whose values stay texts and numbers because the output and the data of an update
  give the fields nothing else (`Given`).
- `PageCorrect`, with `AnswerInv`: the events that end a stream come when the thread has
  ended, so the parse does not change any more (`QueueInv`, `HeldInv`); what is parsed is
  stored (`StoredInv`) and shown (`ShownInv`). The heart is `ParsedWhole`: the only cut of
  a document with the JSON of the whole is the whole. A shorter cut ends in the middle of
  the JSON, with a brace where it goes on with a comma or a digit (`CutsApart`).
- `TextCorrect`, with `TextInv`: `Stage` lists the places the scanner can be at in a
  document and says for each what is left to read, exactly: the rest of the letters of a
  key or text (`Spelt`, in the middle of an escape too), and behind it the rest of the
  object, up to the end (`Follow`). For each place one lemma takes the next character:
  `StartStep`, `GapStep`, `PairStep`, `KeyStep`, `ColonStep`, `ValueStep`, `StringStep` and
  `OtherStep` lead to a place of the same document (`StageStep`). A place also says which
  events are still to be told, and what has been told with these behind it is always what
  the input calls for (`told \o e = ToTell(Doc)`): a character that tells nothing leaves
  them as they are, one that tells something takes the first of them away. With nothing
  left to read the scanner is done and nothing is left to tell (`StageEnd`). A scanner
  that passes over a text would keep its events to the end, so it does not satisfy this.
  No other scripts than those in `Plain` had to be left out.

The JSON is a fold (`FlattenSeq`). The module starts with what the proofs need of it: the
flattened sequence of a concatenation, its length, and what is left behind the n-th piece
(`After`). These are inductions, and the library's induction theorems cannot be applied by the
provers installed; `SetInduction` takes their place: a set of naturals that contains 0
and with n also n + 1 has them all, which follows from the least element of the rest
(`WFMin`).

`ChatViewProofs` proves for any threads, entries, number of loads and of outages
(`ChatViewAssumption`) `TypeCorrect`, `ForeignCorrect`, `BubbleCorrect` and
`NoGapCorrect`. The types need `Known` (an entry under way, or a push, belongs to
a thread that exists). `Settled` ties the active thread to the latest load and
`covered` to the subscription. On these rest:

- `Foreign`: what a fetch carries is of its thread, and the submit handler
  changes `recordId` only to a thread it has asked for itself.
- `Followed`: text on the wire has its end behind it, unless the stream goes on
  or stopped without one; the bubble inherits this when the text is handled.
- `Gapless`: between the server's answer and the continuation that renders it,
  an entry may be neither on the screen nor announced, but then the reply holds
  it, and with it the call of a result. An entry stored after the answer was read
  is announced later, because the subscription covers the whole fetch. An
  append that loses a call only takes its result out of what is expected.

Checked by TLC only:

- liveness (`AppendCompletes`, `RequestCompletes`, `InvocationEnds`, `EventuallyShown`,
  `RepeatableServes`, `StreamEnds`), which the provers cannot reach;
- the properties of the three runs that expect a violation, which are false
  (`FiresAtMostOnce` is proved under the condition that makes it true).

## 5. Findings

With a run that shows them:

- The Transition action overwrites the `target_state` of the loop that runs it,
  so rules of the new state declared later run twice and later rules of
  the old state are skipped (`app.py` 1444; `routes.py` 468-470 claims once). Run
  `state_entered_once`.
- A migration is not atomic: changes are stored one by one until the INSERT of a
  rebuild opens a transaction (`storage_sqlite.py` 251 against 100 and 199). Run
  `migration_atomic`.
- `parsed_object` counts braces inside strings, so the output of a whole answer with a
  `{` in a text is empty: nothing is stored, and the audit row says success
  (`ai_provider.py` 217 against 527). Run `stream_done`.

Met on the way, without a run of its own:

- `_do_append` loses updates: the entry of one of two overlapping appends is
  overwritten although its caller got 201 and subscribers saw the event
  (`routes.py` 602-679). `LossOnlyOnOverlap` says that nothing worse happens.
- At audit level `none` a refusal is not logged (`compute_runner.py` 1320
  against the comment at 1168).
- A refusal in the last allowed turn is recorded as an error and leaves no refusal entry
  (`ai_provider.py` 1284 against 1072).
- The reply of a fetch is rendered without asking whether its thread is still
  active (`termin.js` 648 against 626).
- Clearing the list when a fetch is sent and not when its reply is rendered also lets two
  loads of one thread, or a load and an earlier event, show an entry twice
  (`termin.js` 635 against 628, "Idempotent").
- `_attachToolResultToCall` looks for an attribute that the initial render of a
  paired result (1202-1210) does not set, so the event of a result that a load has shown
  adds it again (1069 against 1068).
- `renderConversationEntries` skips every result with a `tool_call_id`, also one
  without a call, which 1015 says to "render standalone" (1024).
- "create one synchronously" (843): a second submit before the first record exists creates
  another record, and the messages land in two threads.
- `app.py` 834-837 says that the request which triggered a rule "has already returned by
  now". `_do_append` awaits `run_event_handlers` before it returns (`routes.py` 732), so
  the caller waits for the rules; `Finish` models that.
- In a migration, an addition or a second rebuild after a rebuild meets the lock of the
  transaction the first one's INSERT opened and fails with "database is locked", at
  every start, unless its table is already there (`storage_sqlite.py` 334, 200); a rebuild of a table that others refer to
  deletes the rows that cascade and fails where one restricts (350).
- A NULL in the sort column at the end of a page ends the scan: the comparison with
  it holds of no row (`storage_sqlite.py` 1072-1116).
- The rules on a compute get `str()` of the principal object where the rules of a record
  have its id (`compute_runner.py` 419). The guard against the anonymous principal
  compares with the id (`app.py` 959), so the owner-keyed updates of anonymous callers go
  to one row they share, against `app.py` 905-909. `OwnerCounts` speaks of the
  id's row for that reason. The updates of a known user go to another row than those of the
  rules on records.
- `update_fields` raises nothing where the row has been deleted, so an LLM compute audits
  success for an output that is stored nowhere (`compute_runner.py` 572).
- Commit, read-back and publication of a change are separate: two updates may be published
  in the other order, the older one last, and an error of the read-back answers with an
  error for a change that is stored and that nobody is told of (`storage_sqlite.py` 792,
  `routes.py` 59). `ShownIsStored` exempts both.
- The trigger endpoint takes the record from the request's body, and the `updated` event of
  an LLM compute shows it on every page (`compute_runner.py` 1688, 574).
- An agent's call that `max_tokens` has cut off is executed: nobody asks for the stop reason,
  and the client library gives the input as far as it came (`ai_provider.py` 687, 707-743).
  `StoredWhole` says that no part of a text gets into the record this way.
- A result write-back that raises after its entry was stored is told to the model as the
  tool's error, and a second result is written for the call (`ai_provider.py` 1249-1279;
  `CallsAnswered` asks for the first one only).
- The `updated` event of an LLM compute carries the record as it was when the compute
  was triggered (`compute_runner.py` 574): pages show old values again, or a record
  that has been deleted.
- `data-termin-streaming` is set at the first piece of a stream and never removed, so a
  second stream is appended to the text of the first until its end comes
  (`termin.js` 385).
- A number cut off by `max_tokens` is closed with a brace and stored
  (`ai_provider.py` 217-220; `StoredWhole` speaks of texts only for this reason).
- The scanner takes the comma or brace inside a list for the end of the list and its texts
  for keys and values of their own, an escaped character as the letter `u` with its
  digits, and does not decode escapes in keys (`ai_provider.py` 287, 352, 251; `Plain`
  excludes these scripts from `StreamedText`, and the proof needs no other exception).
- The key of a nested object is told like a field of the answer. If such a key is a
  field of the record and the answer has no other field of it, its text goes into the cell of the
  page, nothing is stored and no event follows that would correct it (`ai_provider.py` 274,
  `compute_runner.py` 563-573; `PageShowsRecord` asks for a field of the record in the answer).
- An agent's `content_create` of another record streams its fields under the triggering
  record's id, into that record's cells (`compute_runner.py` 948).
- Calls in one message with `set_output` are not made (`ai_provider.py` 722-726).

## 6. Not modelled

- Rules that transition in a cycle: the dispatcher recurses until Python's
  recursion limit, there is no guard (`app.py` 1511-1520). The rule books here
  have no cycle, and the recursion itself is caught by no property.
- The reason a transition reports for a miss, which is read after it and may be that of a
  later state (`storage_sqlite.py` 871): it only goes into a text.
- Scopes and row filters beyond "found or not found"; transition feedback, which
  is presentation; Transition actions on records of another content type.
- The connection `_do_append` leaves open, and the closing of the agent's loop
  0.1 s after its end: both depend on the garbage collector or the wall clock.
- What an agent is told: the context of a turn is the record as its trigger read it
  (`app.py` 1336), and the models abstract what entries say.
- The OpenAI loops, which repeat the Anthropic ones over another client library; loops
  without streaming; lists and objects given to a field of the record, which are stored
  as JSON text (`storage.py` 20-44); the agent's tools other than `content_update`, `set_output` and
  refusal; an answer of a conversation-mode agent cut off by `max_tokens` (`Streams` cuts the
  messages of the other agents).
- Field renames and column types in a migration; that two backups within a second have one
  name (`storage_sqlite.py` 518-519); channels, scheduler and the forwarder
  after it, which start tasks of their own.
- The chat over a messages collection, which the conversation chat replaces, forms and the
  theme picker.
- Identity and scopes, theme preferences: functions of one request, or single
  statements; no order of steps can go wrong.
- Providers, pages, bootstrap and presentation: adapters and rendering.
- The event bus, IR and expression evaluator live in another package; the bus
  appears as the order of publications, a predicate as the values it holds of.

## 7. Plan

All planned modules exist, and every safety property of the passing runs is a theorem.
What could follow, in this order:

1. `Records` and `EventRules` as implementations of abstract specifications: a keyed
   store that gives each row once, and a counter per owner that loses only
   overlapping updates, in the way `Conversation` implements `ConversationLog`.
2. `Migration`: the tables a stopped start leaves, as an action property (no step goes back
   behind what the diff of the next start needs).
3. `Streams`: lists of nested data and what the scanner makes of their commas, as a
   statement of what is told beyond `Plain`.
4. `StateEntered`: rules in other orders, where a rule may run twice, with the bound
   that holds there.
