------------------------------- MODULE Records -------------------------------
(***************************************************************************)
(* The record store (providers/builtins/storage_sqlite.py), with the        *)
(* statements of storage.py it is made of: callers create records, with and *)
(* without an idempotency key, patch them, delete them and page through     *)
(* them with a keyset cursor, each statement in a commit of its own, while  *)
(* the process may stop between any two.                                   *)
(***************************************************************************)
EXTENDS Integers, Sequences, SequencesExt, FiniteSets

CONSTANTS
  Writers,     \* calls that create, update or delete
  Scans,       \* calls that page through a query
  Fields,      \* the columns, beside id
  Values,      \* what a column holds, numbers where a scan sorts by it
  None,        \* NULL, an absent field or key
  Keys,        \* idempotency keys
  Predicates,  \* the predicates queries use, with the parts of each
  Queries,     \* the queries: a predicate or None, and an order_by or None
  Limit,       \* records on a page
  Stored,      \* the rows the content may start with, in order of their ids:
               \* None for one that has been deleted
  KeyOf,       \* the key the row with id 1 may have been created under
  NewRows,     \* the records that are created
  Patches,     \* the patches that are applied
  MaxId,       \* bound: the last id that is given
  MaxSeen,     \* bound: records a scan collects
  MaxStops     \* bound: how often the process stops

Calls == Writers \cup Scans
Ids == 1..MaxId
SortFields == {q.order.field : q \in {x \in Queries : x.order # None}}
Row == {r \in [Fields -> Values \cup {None}] : \A f \in SortFields : r[f] \in Int \cup {None}}

ASSUME RecordsAssumption ==
  /\ None \notin Values /\ None \notin Keys /\ None \notin Row /\ None \notin Int
  /\ None \notin Queries /\ None \notin Predicates /\ None \notin Seq(Int \cup {None})
  /\ "id" \notin Fields
  /\ Limit \in Nat \ {0} /\ MaxId \in Nat /\ MaxSeen \in Nat /\ MaxStops \in Nat
  /\ Stored \subseteq Seq({None} \cup Row)
  /\ KeyOf \in Keys \cup {None} /\ \A s \in Stored : Len(s) \in 1..MaxId
  /\ NewRows \subseteq Row /\ Patches \subseteq Row
  /\ \A q \in Queries :
       /\ q.pred \in Predicates \cup {None}
       /\ q.order # None => q.order.field \in Fields /\ q.order.dir \in {"asc", "desc"}

VARIABLES
  rows,     \* the table: a row or None for every id
  nextId,   \* AUTOINCREMENT: no id is given twice
  keys,     \* the idempotency table: the id stored under a key
  call,     \* what each call is doing
  scan,     \* where the scan of a call is
  stops,
  \* History, read by the properties only:
  madeBy,   \* the key a row was created under
  open,     \* for each key, the creates under it that have not returned
  crossed,  \* keys whose creates overlapped, or one of which never returned
  steady    \* for each scan, the rows it should find, untouched since it began

vars == <<rows, nextId, keys, call, scan, stops, madeBy, open, crossed, steady>>

-----------------------------------------------------------------------------
(* Predicates, in the three values of SQL: TRUE, FALSE and None. *)

ValueOf(i, row, f) == IF f = "id" THEN i ELSE row[f]
Column(i, f) == ValueOf(i, rows[i], f)

Compare(op, x, y) ==
  CASE op = "eq" -> x = y
    [] op = "ne" -> x # y
    [] op = "gt" -> x > y
    [] op = "gte" -> x >= y
    [] op = "lt" -> x < y
    [] op = "lte" -> x <= y
    [] op = "in" -> x \in y

Leaf(p, x) ==
  IF p.value = None /\ p.op \in {"eq", "ne"}
    THEN (x = None) <=> (p.op = "eq")
  ELSE IF p.op = "in" /\ p.value = {} THEN FALSE
  ELSE IF x = None THEN None
  ELSE Compare(p.op, x, p.value)

SqlNot(v) == IF v = None THEN None ELSE ~v
SqlAnd(vs) == IF FALSE \in vs THEN FALSE ELSE IF None \in vs THEN None ELSE TRUE
SqlOr(vs) == IF TRUE \in vs THEN TRUE ELSE IF None \in vs THEN None ELSE FALSE

(* _compile_predicate: what each predicate says of a row with id i. *)
Meaning(i, row) ==
  LET says[p \in Predicates] ==
        CASE p.op = "and" -> SqlAnd({says[q] : q \in p.parts})
          [] p.op = "or" -> SqlOr({says[q] : q \in p.parts})
          [] p.op = "not" -> SqlNot(says[p.part])
          [] OTHER -> Leaf(p, ValueOf(i, row, p.field))
  IN  says

Live == {i \in Ids : rows[i] # None}
Matches(i, p) == p = None \/ Meaning(i, rows[i])[p] = TRUE

-----------------------------------------------------------------------------
(* The order of a query and the rows after a cursor. *)

SortKeys(o) == IF o = None THEN <<[field |-> "id", dir |-> "asc"]>>
                           ELSE <<o, [field |-> "id", dir |-> "asc"]>>

(* ORDER BY: NULL comes before every value. *)
Less(x, y) == y # None /\ (x = None \/ x < y)
Ahead(x, y, dir) == IF dir = "asc" THEN Less(x, y) ELSE Less(y, x)
Ordered(ks, i, j) ==
  \E n \in DOMAIN ks :
    /\ \A m \in 1..(n - 1) : Column(i, ks[m].field) = Column(j, ks[m].field)
    /\ Ahead(Column(i, ks[n].field), Column(j, ks[n].field), ks[n].dir)

(* Variant: the cursor is compared without the id as the last key. *)
AfterNoTie(ks, cursor, i) ==
  /\ cursor[1] # None /\ Column(i, ks[1].field) # None
  /\ Ahead(cursor[1], Column(i, ks[1].field), ks[1].dir)

(* _build_keyset_filter: comparisons with NULL hold of no row. *)
After(ks, cursor, i) ==
  \E n \in DOMAIN ks :
    /\ \A m \in 1..(n - 1) :
         cursor[m] # None /\ Column(i, ks[m].field) = cursor[m]
    /\ cursor[n] # None /\ Column(i, ks[n].field) # None
    /\ Ahead(cursor[n], Column(i, ks[n].field), ks[n].dir)

(* The rows of a query that are left, in order: the n-th is the one that    *)
(* has n - 1 before it.                                                    *)
Left(s) == {i \in Live : /\ Matches(i, s.query.pred)
                         /\ s.cursor = None \/ After(SortKeys(s.query.order), s.cursor, i)}
Rank(S, ks, i) == Cardinality({j \in S : Ordered(ks, j, i)})
Sorted(S, ks) == [n \in 1..Cardinality(S) |-> CHOOSE i \in S : Rank(S, ks, i) = n - 1]
Found(s) == Sorted(Left(s), SortKeys(s.query.order))

-----------------------------------------------------------------------------
(* Calls. *)

NoScan == [query |-> None, cursor |-> None, seen |-> <<>>, cut |-> FALSE]
NoCall == [op |-> "none", at |-> "idle", row |-> None, key |-> None, id |-> None]

Places == {"idle", "lookup", "lookupRow", "cleanup", "insert", "key", "read",
           "write", "reread", "delete", "page", "returned", "raised", "lost"}
Ended == {"returned", "raised", "lost"}

TypeOK ==
  /\ rows \in [Ids -> Row \cup {None}]
  /\ nextId \in 1..(MaxId + 1)
  /\ keys \in [Keys -> Ids \cup {None}]
  /\ call \in [Calls -> [op : {"none", "create", "update", "delete", "scan"},
                         at : Places, row : Row \cup {None},
                         key : Keys \cup {None}, id : Ids \cup {None}]]
  /\ scan \in [Calls -> [query : Queries \cup {None}, cursor : Seq(Int \cup {None}) \cup {None},
                         seen : Seq(Ids), cut : BOOLEAN]]
  /\ stops \in 0..MaxStops
  /\ madeBy \in [Ids -> Keys \cup {None}]
  /\ open \in [Keys -> SUBSET Calls]
  /\ crossed \subseteq Keys
  /\ steady \in [Calls -> SUBSET Ids]

Is(c, op, at) == call[c].op = op /\ call[c].at = at
Goto(c, at) == call' = [call EXCEPT ![c].at = at]

(* The end of a call, which no longer is a create under its key. *)
Leave(c, at, id) ==
  /\ call' = [call EXCEPT ![c].at = at, ![c].id = id]
  /\ open' = [k \in Keys |-> open[k] \ {c}]

Idle == UNCHANGED <<madeBy, open, crossed, stops>>
Table == <<rows, nextId, steady>>

(* A statement stores row r under id i. *)
Put(i, r) ==
  /\ rows' = [rows EXCEPT ![i] = r]
  /\ steady' = IF rows[i] = r THEN steady
                              ELSE [c \in Calls |-> steady[c] \ {i}]

-----------------------------------------------------------------------------
(* create. *)

StartCreate(c, r, k) ==
  /\ call[c].at = "idle"
  /\ call' = [call EXCEPT ![c] = [op |-> "create", row |-> r, key |-> k, id |-> None,
                at |-> IF k # None THEN "lookup" ELSE "insert"]]
  /\ open' = [x \in Keys |-> IF x = k THEN open[x] \cup {c} ELSE open[x]]
  /\ crossed' = crossed \cup {x \in {k} \ {None} : open[x] # {}}
  /\ UNCHANGED <<Table, keys, scan, stops, madeBy>>

(* Variant: an entry of an earlier call is not looked at. *)
LookupExpired(c) ==
  /\ Is(c, "create", "lookup")
  /\ Goto(c, "insert")
  /\ UNCHANGED <<Table, keys, scan>> /\ Idle

(* _lookup_idempotency_record: the entry, its record, and the entry of a    *)
(* record that is gone.                                                    *)
Lookup(c) ==
  LET id == keys[call[c].key] IN
  /\ Is(c, "create", "lookup")
  /\ call' = [call EXCEPT ![c].id = id,
                          ![c].at = IF id = None THEN "insert" ELSE "lookupRow"]
  /\ UNCHANGED <<Table, keys, scan>> /\ Idle

LookupRow(c) ==
  /\ Is(c, "create", "lookupRow")
  /\ \/ /\ rows[call[c].id] # None
        /\ Leave(c, "returned", call[c].id)
     \/ /\ rows[call[c].id] = None
        /\ Goto(c, "cleanup") /\ open' = open
  /\ UNCHANGED <<Table, keys, scan, stops, madeBy, crossed>>

Cleanup(c) ==
  /\ Is(c, "create", "cleanup")
  /\ keys' = [keys EXCEPT ![call[c].key] = None]
  /\ Goto(c, "insert")
  /\ UNCHANGED <<Table, scan>> /\ Idle

(* insert_raw, which inserts nothing for a record without fields. *)
Insert(c) ==
  LET r == call[c].row
      empty == \A f \in Fields : r[f] = None
      id == IF empty THEN None ELSE nextId
  IN  /\ Is(c, "create", "insert")
      /\ \/ empty /\ UNCHANGED <<Table, madeBy>>
         \/ /\ ~empty /\ nextId <= MaxId
            /\ Put(nextId, r) /\ nextId' = nextId + 1
            /\ madeBy' = [madeBy EXCEPT ![nextId] = call[c].key]
      /\ \/ call[c].key = None /\ Leave(c, "returned", id)
         \/ /\ call[c].key # None
            /\ call' = [call EXCEPT ![c].at = "key", ![c].id = id]
            /\ open' = open
      /\ UNCHANGED <<keys, scan, stops, crossed>>

(* The entry: its primary key is the idempotency key, its id is NOT NULL.   *)
StoreKey(c) ==
  LET k == call[c].key IN
  /\ Is(c, "create", "key")
  /\ \/ /\ keys[k] = None /\ call[c].id # None
        /\ keys' = [keys EXCEPT ![k] = call[c].id]
        /\ Leave(c, "returned", call[c].id)
     \/ /\ keys[k] # None \/ call[c].id = None
        /\ keys' = keys /\ Leave(c, "raised", call[c].id)
  /\ UNCHANGED <<Table, scan, stops, madeBy, crossed>>

-----------------------------------------------------------------------------
(* update, delete. *)

StartOn(c, op, at, i, patch) ==
  /\ call[c].at = "idle"
  /\ call' = [call EXCEPT ![c] = [op |-> op, row |-> patch, key |-> None,
                                  id |-> i, at |-> at]]
  /\ UNCHANGED <<Table, keys, scan>> /\ Idle

StartUpdate(c, i, patch) == StartOn(c, "update", "read", i, patch)
StartDelete(c, i) == StartOn(c, "delete", "delete", i, None)

(* Variant: a row that is not there ends the call without an answer. *)
UpdateReadSilent(c) ==
  /\ Is(c, "update", "read")
  /\ Goto(c, IF rows[call[c].id] # None THEN "write" ELSE "missing")
  /\ UNCHANGED <<Table, keys, scan>> /\ Idle

(* None is what update returns for a row that is not there. *)
UpdateRead(c) ==
  /\ Is(c, "update", "read")
  /\ \/ rows[call[c].id] # None /\ Goto(c, "write")
     \/ rows[call[c].id] = None /\ Goto(c, "returned")
  /\ UNCHANGED <<Table, keys, scan>> /\ Idle

(* A patch leaves alone the fields it holds nothing for. *)
Patched(r, patch) == [f \in Fields |-> IF patch[f] = None THEN r[f] ELSE patch[f]]

(* Variant: the row is written whether or not it is still there. *)
UpdateWriteUpsert(c) ==
  LET i == call[c].id IN
  /\ Is(c, "update", "write")
  /\ Put(i, IF rows[i] # None THEN Patched(rows[i], call[c].row) ELSE call[c].row)
  /\ Goto(c, "reread")
  /\ UNCHANGED <<nextId, keys, scan>> /\ Idle

UpdateWrite(c) ==
  LET i == call[c].id IN
  /\ Is(c, "update", "write")
  /\ \/ rows[i] # None /\ Put(i, Patched(rows[i], call[c].row))
     \/ rows[i] = None /\ UNCHANGED <<rows, steady>>
  /\ Goto(c, "reread")
  /\ UNCHANGED <<nextId, keys, scan>> /\ Idle

UpdateReread(c) ==
  /\ Is(c, "update", "reread") /\ Goto(c, "returned")
  /\ UNCHANGED <<Table, keys, scan>> /\ Idle

Delete(c) ==
  /\ Is(c, "delete", "delete")
  /\ Put(call[c].id, None) /\ Goto(c, "returned")
  /\ UNCHANGED <<nextId, keys, scan>> /\ Idle

-----------------------------------------------------------------------------
(* Paging through a query, as long as there is a next cursor. *)

StartScan(c, q) ==
  /\ call[c].at = "idle"
  /\ call' = [call EXCEPT ![c] = [NoCall EXCEPT !.op = "scan", !.at = "page"]]
  /\ scan' = [scan EXCEPT ![c] = [NoScan EXCEPT !.query = q]]
  /\ steady' = [steady EXCEPT ![c] = {i \in Live : Matches(i, q.pred)}]
  /\ UNCHANGED <<rows, nextId, keys>> /\ Idle

CursorOf(s, i) == [n \in DOMAIN SortKeys(s.query.order) |->
                     Column(i, SortKeys(s.query.order)[n].field)]

Page(c) ==
  LET s == scan[c]
      found == Found(s)
      more == Len(found) > Limit
      page == IF more THEN SubSeq(found, 1, Limit) ELSE found
      next == IF more THEN CursorOf(s, page[Limit]) ELSE None
  IN  /\ Is(c, "scan", "page") /\ Len(s.seen) < MaxSeen
      /\ scan' = [scan EXCEPT ![c] =
           [s EXCEPT !.seen = @ \o page, !.cursor = next,
                     !.cut = @ \/ (more /\ \E n \in DOMAIN next : next[n] = None)]]
      /\ Goto(c, IF more THEN "page" ELSE "returned")
      /\ UNCHANGED <<Table, keys>> /\ Idle

-----------------------------------------------------------------------------
(* The process stops: calls under way are gone, what was committed stays.  *)
Stop ==
  /\ stops < MaxStops
  /\ \E c \in Calls : call[c].at \notin Ended \cup {"idle"}
  /\ stops' = stops + 1
  /\ call' = [c \in Calls |-> IF call[c].at \in Ended \cup {"idle"} THEN call[c]
                              ELSE [call[c] EXCEPT !.at = "lost"]]
  /\ crossed' = crossed \cup {k \in Keys : open[k] # {}}
  /\ UNCHANGED <<Table, keys, scan, madeBy, open>>

Init ==
  /\ \E s \in Stored :
       /\ rows = [i \in Ids |-> IF i \in DOMAIN s THEN s[i] ELSE None]
       /\ nextId = Len(s) + 1
  /\ \E k \in {None, KeyOf} :
       /\ keys = [x \in Keys |-> IF x = k THEN 1 ELSE None]
       /\ madeBy = [i \in Ids |-> IF i = 1 THEN k ELSE None]
  /\ call = [c \in Calls |-> NoCall] /\ scan = [c \in Calls |-> NoScan]
  /\ stops = 0
  /\ open = [k \in Keys |-> {}]
  /\ crossed = {} /\ steady = [c \in Calls |-> {}]

(* A caller names a row that has been stored. *)
Start(c) == \/ \E r \in NewRows, k \in Keys \cup {None} : StartCreate(c, r, k)
            \/ \E i \in 1..(nextId - 1), p \in Patches : StartUpdate(c, i, p)
            \/ \E i \in 1..(nextId - 1) : StartDelete(c, i)
Step(c) == \/ Lookup(c) \/ LookupRow(c) \/ Cleanup(c) \/ Insert(c) \/ StoreKey(c)
           \/ UpdateRead(c) \/ UpdateWrite(c) \/ UpdateReread(c) \/ Delete(c)
           \/ Page(c)

Next == \/ \E c \in Writers : Start(c)
        \/ \E c \in Scans, q \in Queries : StartScan(c, q)
        \/ \E c \in Calls : Step(c)
        \/ Stop

Spec == Init /\ [][Next]_vars

-----------------------------------------------------------------------------
(* Properties. *)

(* A scan that has come to its end has seen each row that it should find    *)
(* and nobody touched meanwhile exactly once, and these in order, whatever  *)
(* was stored and deleted between its pages ("Stable under concurrent       *)
(* inserts / deletes", storage_sqlite.py:698), as long as no page ended at  *)
(* a NULL and the row holds none where a NULL is last.                     *)
PagesExact ==
  \A c \in Calls : Is(c, "scan", "returned") /\ ~scan[c].cut =>
    LET ks == SortKeys(scan[c].query.order)
        seen == scan[c].seen
        sure == {i \in steady[c] : \A n \in DOMAIN ks : Column(i, ks[n].field) # None}
    IN  /\ \A i \in sure : \E n \in DOMAIN seen : seen[n] = i
        /\ \A m, n \in DOMAIN seen :
             m < n /\ seen[m] \in sure /\ seen[n] \in sure =>
               seen[m] # seen[n] /\ Ordered(ks, seen[m], seen[n])

(* Records created under one key are two only if creates under it           *)
(* overlapped or one was cut off before it stored its entry, and a create   *)
(* that returns gives back a record of its key.                            *)
OneRecordPerKey ==
  /\ \A k \in Keys \ crossed : Cardinality({i \in Live : madeBy[i] = k}) <= 1
  /\ \A c \in Calls : Is(c, "create", "returned") /\ call[c].key # None
       => call[c].id # None /\ madeBy[call[c].id] = call[c].key

(* A row that has been deleted stays so, although a patch that read it or a *)
(* create that found its key is still under way: no id is used again.      *)
DeletedForGood ==
  [][\A i \in Ids : i < nextId /\ rows[i] = None => rows'[i] = None]_vars

=============================================================================
