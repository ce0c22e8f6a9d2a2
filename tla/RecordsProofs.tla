---------------------------- MODULE RecordsProofs ----------------------------
(***************************************************************************)
(* Proofs about Records.tla for any callers, rows, keys, queries and page  *)
(* sizes, and any number of stops.                                         *)
(***************************************************************************)
EXTENDS Records, FiniteSetTheorems, TLAPS

-----------------------------------------------------------------------------
(* The inductive invariant. *)

(* What a call carries at each of its statements.  A row it names has been  *)
(* stored once.                                                            *)
Given(i) == i \in Ids /\ i < nextId
Carries(c) ==
  /\ call[c].op = "none" <=> call[c].at = "idle"
  /\ call[c].op = "create" =>
       /\ call[c].row \in Row
       /\ call[c].at \in {"lookup", "lookupRow", "cleanup", "insert", "key",
                          "returned", "raised", "lost"}
       /\ call[c].at \in {"lookup", "lookupRow", "cleanup", "key"} => call[c].key \in Keys
       /\ call[c].at \in {"lookupRow", "cleanup"} =>
            Given(call[c].id) /\ madeBy[call[c].id] = call[c].key
       /\ call[c].at = "key" /\ call[c].id # None =>
            Given(call[c].id) /\ madeBy[call[c].id] = call[c].key
       /\ call[c].at = "returned" /\ call[c].key # None =>
            Given(call[c].id) /\ madeBy[call[c].id] = call[c].key
  /\ call[c].op = "update" =>
       /\ call[c].row \in Row /\ Given(call[c].id)
       /\ call[c].at \in {"read", "write", "reread", "returned", "lost"}
  /\ call[c].op = "delete" =>
       Given(call[c].id) /\ call[c].at \in {"delete", "returned", "lost"}
  /\ call[c].op = "scan" =>
       scan[c].query \in Queries /\ call[c].at \in {"page", "returned", "lost"}
CallInv == \A c \in Calls : Carries(c)

(* No row has an id that was not given yet; an entry names a row of its key. *)
TableInv ==
  /\ \A i \in Ids : i >= nextId => rows[i] = None
  /\ \A k \in Keys : keys[k] # None => keys[k] < nextId /\ madeBy[keys[k]] = k

(* The creates under a key that have not returned.  One that a stop cut off *)
(* is counted for ever.                                                    *)
Creating == {"lookup", "lookupRow", "cleanup", "insert", "key"}
OpenInv ==
  \A k \in Keys :
    /\ \A c \in open[k] :
         /\ call[c].op = "create" /\ call[c].key = k
         /\ call[c].at \in Creating \/ (call[c].at = "lost" /\ k \in crossed)
    /\ \A c \in Calls :
         call[c].op = "create" /\ call[c].key = k /\ call[c].at \in Creating => c \in open[k]
    /\ k \notin crossed => \A c, d \in open[k] : c = d

(* Where creates under a key never met, its record is the one of its entry, *)
(* or the one whose create is about to store the entry.                    *)
SingleInv ==
  \A k \in Keys \ crossed :
    /\ \A i \in Live : madeBy[i] = k =>
         keys[k] = i \/ \E c \in open[k] : call[c].at = "key" /\ call[c].id = i
    /\ \A c \in open[k] :
         /\ call[c].at \in {"insert", "key"} => keys[k] = None
         /\ call[c].at \in {"lookupRow", "cleanup"} => keys[k] = call[c].id
         /\ call[c].at = "cleanup" => rows[call[c].id] = None

(* The rows a scan should find are there and match its query. *)
SteadyInv ==
  \A c \in Calls : call[c].op = "scan" =>
    \A i \in steady[c] : i \in Live /\ Matches(i, scan[c].query.pred)

(* Of these, and as long as no page ended at a NULL, it has collected those *)
(* up to its cursor, in order.                                             *)
Ks(c) == SortKeys(scan[c].query.order)
Sure(c) == {i \in steady[c] : \A n \in DOMAIN Ks(c) : Column(i, Ks(c)[n].field) # None}
Seen(c, i) == \E n \in DOMAIN scan[c].seen : scan[c].seen[n] = i
Passed(c, i) == scan[c].cursor # None /\ ~After(Ks(c), scan[c].cursor, i)
InOrder(c) ==
  \A m, n \in DOMAIN scan[c].seen :
    m < n /\ scan[c].seen[m] \in Sure(c) /\ scan[c].seen[n] \in Sure(c) =>
      Ordered(Ks(c), scan[c].seen[m], scan[c].seen[n])
CursorInt(c) ==
  scan[c].cursor # None =>
    /\ DOMAIN scan[c].cursor = DOMAIN Ks(c)
    /\ \A n \in DOMAIN Ks(c) : scan[c].cursor[n] \in Int
Collected(c) ==
  /\ call[c].at = "page" =>
       /\ CursorInt(c)
       /\ \A i \in Sure(c) : Seen(c, i) <=> Passed(c, i)
  /\ call[c].at = "returned" => \A i \in Sure(c) : Seen(c, i)
  /\ InOrder(c)
ScanInv == \A c \in Calls : call[c].op = "scan" /\ ~scan[c].cut => Collected(c)

KeyInv == TypeOK /\ CallInv /\ TableInv /\ OpenInv /\ SingleInv
IInv == KeyInv /\ SteadyInv /\ ScanInv
-----------------------------------------------------------------------------
(* Sorting. *)

(* What a strict order that is total on S makes of it: Sorted enumerates S  *)
(* without repetition and in order.                                        *)
LEMMA SortedFacts ==
  ASSUME NEW S, IsFiniteSet(S), NEW ks,
         \A i \in S : ~Ordered(ks, i, i),
         \A i, j, k \in S : Ordered(ks, i, j) /\ Ordered(ks, j, k) => Ordered(ks, i, k),
         \A i, j \in S : i = j \/ Ordered(ks, i, j) \/ Ordered(ks, j, i)
  PROVE  /\ Cardinality(S) \in Nat
         /\ Sorted(S, ks) \in [1..Cardinality(S) -> S]
         /\ \A i \in S : \E n \in 1..Cardinality(S) : Sorted(S, ks)[n] = i
         /\ \A m, n \in 1..Cardinality(S) :
              m < n => Ordered(ks, Sorted(S, ks)[m], Sorted(S, ks)[n])
  <1> DEFINE N == Cardinality(S)
             Down(i) == {j \in S : Ordered(ks, j, i)}
             rank == [i \in S |-> Rank(S, ks, i)]
  <1>1. N \in Nat
    BY FS_CardinalityType
  <1>2. \A i \in S : Down(i) \subseteq S /\ IsFiniteSet(Down(i)) /\ Rank(S, ks, i) = Cardinality(Down(i))
    <2> SUFFICES ASSUME NEW i \in S
                 PROVE  Down(i) \subseteq S /\ IsFiniteSet(Down(i)) /\ Rank(S, ks, i) = Cardinality(Down(i))
      OBVIOUS
    <2>1. Down(i) \in SUBSET S
      OBVIOUS
    <2> QED
      BY <2>1, FS_Subset DEF Rank
  <1>3. \A i \in S : Rank(S, ks, i) \in 0..(N - 1)
    <2> SUFFICES ASSUME NEW i \in S PROVE Rank(S, ks, i) \in 0..(N - 1)
      OBVIOUS
    <2>1. Down(i) \in SUBSET S /\ Down(i) # S
      OBVIOUS
    <2> HIDE DEF Down
    <2>2. Cardinality(Down(i)) \in Nat /\ Cardinality(Down(i)) <= N /\ Cardinality(Down(i)) # N
      BY <1>2, <2>1, FS_Subset, FS_CardinalityType
    <2> QED
      BY <1>1, <1>2, <2>2
  <1>4. \A i, j \in S : Ordered(ks, i, j) => Rank(S, ks, i) < Rank(S, ks, j)
    <2> SUFFICES ASSUME NEW i \in S, NEW j \in S, Ordered(ks, i, j)
                 PROVE  Rank(S, ks, i) < Rank(S, ks, j)
      OBVIOUS
    <2>1. Down(i) \in SUBSET Down(j) /\ Down(i) # Down(j)
      <3>1. \A k \in Down(i) : k \in Down(j)
        OBVIOUS
      <3>2. i \in Down(j) /\ i \notin Down(i)
        OBVIOUS
      <3> HIDE DEF Down
      <3> QED
        BY <3>1, <3>2
    <2> HIDE DEF Down
    <2>2. Cardinality(Down(i)) <= Cardinality(Down(j)) /\ Cardinality(Down(i)) # Cardinality(Down(j))
      BY <1>2, <2>1, FS_Subset
    <2>3. Cardinality(Down(i)) \in Nat /\ Cardinality(Down(j)) \in Nat
      BY <1>2, FS_CardinalityType
    <2> QED
      BY <1>2, <2>2, <2>3
  <1>5. \A i, j \in S : Rank(S, ks, i) < Rank(S, ks, j) => Ordered(ks, i, j)
    <2> SUFFICES ASSUME NEW i \in S, NEW j \in S, Rank(S, ks, i) < Rank(S, ks, j), ~Ordered(ks, i, j)
                 PROVE  FALSE
      OBVIOUS
    <2>1. CASE i = j
      BY <1>3, <2>1
    <2>2. CASE Ordered(ks, j, i)
      BY <1>3, <1>4, <2>2
    <2> QED
      BY <2>1, <2>2
  <1>6. \A n \in 1..N : \E i \in S : Rank(S, ks, i) = n - 1
    <2>1. rank \in Injection(S, 0..(N - 1))
      <3>1. rank \in [S -> 0..(N - 1)]
        BY <1>3
      <3>2. \A i, j \in S : rank[i] = rank[j] => i = j
        <4> SUFFICES ASSUME NEW i \in S, NEW j \in S, Rank(S, ks, i) = Rank(S, ks, j)
                     PROVE  i = j
          OBVIOUS
        <4> QED
          BY <1>3, <1>4
      <3> HIDE DEF rank
      <3> QED
        BY <3>1, <3>2 DEF Injection, IsInjective
    <2>2. IsFiniteSet(0..(N - 1)) /\ Cardinality(0..(N - 1)) = N
      BY <1>1, FS_Interval
    <2>3. rank \in Surjection(S, 0..(N - 1))
      BY <2>1, <2>2, FS_Injection
    <2>4. \A m \in 0..(N - 1) : \E i \in S : rank[i] = m
      BY <2>3 DEF Surjection
    <2> QED
      BY <1>1, <2>4
  <1> DEFINE sorted == [n \in 1..N |-> CHOOSE i \in S : Rank(S, ks, i) = n - 1]
  <1>7. Sorted(S, ks) = sorted
    BY DEF Sorted
  <1>8. \A n \in 1..N : sorted[n] \in S /\ Rank(S, ks, sorted[n]) = n - 1
    BY <1>6
  <1>9. sorted \in [1..N -> S]
    BY <1>8
  <1> HIDE DEF sorted
  <1>10. \A i \in S : \E n \in 1..N : sorted[n] = i
    <2> SUFFICES ASSUME NEW i \in S PROVE \E n \in 1..N : sorted[n] = i
      OBVIOUS
    <2>1. Rank(S, ks, i) + 1 \in 1..N
      BY <1>1, <1>3
    <2>2. Rank(S, ks, sorted[Rank(S, ks, i) + 1]) = Rank(S, ks, i) /\ sorted[Rank(S, ks, i) + 1] \in S
      BY <1>3, <1>8, <2>1
    <2>3. sorted[Rank(S, ks, i) + 1] = i
      BY <1>3, <1>4, <2>2
    <2> QED
      BY <2>1, <2>3
  <1>11. \A m, n \in 1..N : m < n => Ordered(ks, sorted[m], sorted[n])
    BY <1>1, <1>5, <1>8
  <1> QED
    BY <1>1, <1>7, <1>9, <1>10, <1>11
-----------------------------------------------------------------------------
(* The order of a query: its own field, where it has one, and the id. *)

(* A field that a query sorts by holds numbers. *)
LEMMA SortedColumn ==
  ASSUME NEW q \in Queries, q.order # None, NEW i, rows[i] \in Row
  PROVE  /\ Column(i, q.order.field) \in Int \cup {None}
         /\ q.order.dir \in {"asc", "desc"}
  <1>1. q.order.field \in SortFields /\ q.order.field # "id" /\ q.order.dir \in {"asc", "desc"}
    BY RecordsAssumption DEF SortFields
  <1>2. rows[i][q.order.field] \in Int \cup {None}
    BY <1>1 DEF Row
  <1> QED
    BY <1>1, <1>2 DEF Column, ValueOf

LEMMA KeysOfId ==
  /\ SortKeys(None) = <<[field |-> "id", dir |-> "asc"]>>
  /\ DOMAIN SortKeys(None) = {1}
  /\ SortKeys(None)[1].field = "id" /\ SortKeys(None)[1].dir = "asc"
  BY DEF SortKeys

LEMMA KeysOfField ==
  ASSUME NEW o, o # None
  PROVE  /\ SortKeys(o) = <<o, [field |-> "id", dir |-> "asc"]>>
         /\ DOMAIN SortKeys(o) = {1, 2}
         /\ SortKeys(o)[1] = o /\ SortKeys(o)[2].field = "id" /\ SortKeys(o)[2].dir = "asc"
  BY DEF SortKeys

LEMMA IdColumn ==
  ASSUME NEW i \in Int
  PROVE  Column(i, "id") = i /\ i # None
  BY RecordsAssumption DEF Column, ValueOf

LEMMA OrderedById ==
  ASSUME NEW i \in Int, NEW j \in Int
  PROVE  Ordered(SortKeys(None), i, j) <=> i < j
  <1>1. Ordered(SortKeys(None), i, j) <=> Ahead(Column(i, "id"), Column(j, "id"), "asc")
    BY KeysOfId DEF Ordered
  <1> QED
    BY <1>1, IdColumn DEF Ahead, Less

LEMMA OrderedByField ==
  ASSUME NEW o, o # None, NEW i \in Int, NEW j \in Int
  PROVE  Ordered(SortKeys(o), i, j) <=>
           \/ Ahead(Column(i, o.field), Column(j, o.field), o.dir)
           \/ Column(i, o.field) = Column(j, o.field) /\ i < j
  <1> DEFINE ks == SortKeys(o)
  <1>1. Ordered(ks, i, j) <=>
          \/ Ahead(Column(i, ks[1].field), Column(j, ks[1].field), ks[1].dir)
          \/ /\ Column(i, ks[1].field) = Column(j, ks[1].field)
             /\ Ahead(Column(i, ks[2].field), Column(j, ks[2].field), ks[2].dir)
    <2>1. DOMAIN ks = {1, 2} /\ 1..(1 - 1) = {} /\ 1..(2 - 1) = {1}
      BY KeysOfField
    <2> HIDE DEF ks
    <2> QED
      BY <2>1 DEF Ordered
  <1>2. Ahead(Column(i, "id"), Column(j, "id"), "asc") <=> i < j
    BY IdColumn DEF Ahead, Less
  <1> QED
    BY <1>1, <1>2, KeysOfField

(* The order is strict and total on the rows there are. *)
LEMMA OrderFacts ==
  ASSUME NEW q \in Queries, NEW S \in SUBSET Int, \A i \in S : rows[i] \in Row
  PROVE  LET ks == SortKeys(q.order) IN
         /\ \A i \in S : ~Ordered(ks, i, i)
         /\ \A i, j, k \in S : Ordered(ks, i, j) /\ Ordered(ks, j, k) => Ordered(ks, i, k)
         /\ \A i, j \in S : i = j \/ Ordered(ks, i, j) \/ Ordered(ks, j, i)
  <1>1. CASE q.order = None
    BY <1>1, OrderedById
  <1>2. CASE q.order # None
    <2> DEFINE col(i) == Column(i, q.order.field)
    <2>1. \A i \in S : col(i) \in Int \cup {None}
      BY <1>2, SortedColumn
    <2>2. q.order.dir \in {"asc", "desc"} /\ None \notin Int
      BY <1>2, RecordsAssumption
    <2>3. \A i, j \in S : Ordered(SortKeys(q.order), i, j) <=>
            Ahead(col(i), col(j), q.order.dir) \/ (col(i) = col(j) /\ i < j)
      BY <1>2, OrderedByField
    <2> HIDE DEF col
    <2>4. CASE q.order.dir = "asc"
      BY <2>1, <2>2, <2>3, <2>4 DEF Ahead, Less
    <2>5. CASE q.order.dir = "desc"
      BY <2>1, <2>2, <2>3, <2>5 DEF Ahead, Less
    <2> QED
      BY <2>2, <2>4, <2>5
  <1> QED
    BY <1>1, <1>2

(* A page draws on the rows there are, each once and in order. *)
LEMMA FoundFacts ==
  ASSUME NEW s, s.query \in Queries, rows \in [Ids -> Row \cup {None}]
  PROVE  LET S == Left(s)
             ks == SortKeys(s.query.order)
         IN  /\ S \subseteq Ids /\ Cardinality(S) \in Nat
             /\ Found(s) \in [1..Cardinality(S) -> S] /\ Found(s) \in Seq(Ids)
             /\ Len(Found(s)) = Cardinality(S)
             /\ \A i \in S : \E n \in DOMAIN Found(s) : Found(s)[n] = i
             /\ \A m, n \in DOMAIN Found(s) : m < n => Ordered(ks, Found(s)[m], Found(s)[n])
  <1> DEFINE S == Left(s)
             ks == SortKeys(s.query.order)
  <1>1. S \in SUBSET Ids
    BY DEF Left, Live
  <1>2. IsFiniteSet(S) /\ Ids \subseteq Int
    BY <1>1, FS_Interval, FS_Subset, RecordsAssumption DEF Ids
  <1>3. \A i \in S : rows[i] \in Row
    BY DEF Left, Live
  <1>4. /\ \A i \in S : ~Ordered(ks, i, i)
        /\ \A i, j, k \in S : Ordered(ks, i, j) /\ Ordered(ks, j, k) => Ordered(ks, i, k)
        /\ \A i, j \in S : i = j \/ Ordered(ks, i, j) \/ Ordered(ks, j, i)
    <2>1. S \in SUBSET Int
      BY <1>1, <1>2
    <2> HIDE DEF S
    <2> QED
      BY <1>3, <2>1, OrderFacts
  <1>5. Found(s) = Sorted(S, ks)
    BY DEF Found
  <1> HIDE DEF S, ks
  <1>6. /\ Cardinality(S) \in Nat
        /\ Found(s) \in [1..Cardinality(S) -> S]
        /\ \A i \in S : \E n \in 1..Cardinality(S) : Found(s)[n] = i
        /\ \A m, n \in 1..Cardinality(S) : m < n => Ordered(ks, Found(s)[m], Found(s)[n])
    BY <1>2, <1>4, <1>5, SortedFacts
  <1>7. Found(s) \in Seq(Ids) /\ Len(Found(s)) = Cardinality(S) /\ DOMAIN Found(s) = 1..Cardinality(S)
    BY <1>1, <1>6
  <1> QED
    BY <1>1, <1>6, <1>7 DEF S, ks
-----------------------------------------------------------------------------
(* Types. *)

CallRec == [op : {"none", "create", "update", "delete", "scan"}, at : Places,
            row : Row \cup {None}, key : Keys \cup {None}, id : Ids \cup {None}]
ScanRec == [query : Queries \cup {None}, cursor : Seq(Int \cup {None}) \cup {None},
            seen : Seq(Ids), cut : BOOLEAN]

LEMMA GotoFacts ==
  ASSUME call \in [Calls -> CallRec], NEW c \in Calls, NEW at \in Places, Goto(c, at)
  PROVE  /\ call' \in [Calls -> CallRec]
         /\ \A d \in Calls : d # c => call'[d] = call[d]
         /\ call'[c].at = at /\ call'[c].op = call[c].op /\ call'[c].row = call[c].row
         /\ call'[c].key = call[c].key /\ call'[c].id = call[c].id
  BY DEF Goto, CallRec

LEMMA LeaveFacts ==
  ASSUME call \in [Calls -> CallRec], open \in [Keys -> SUBSET Calls], NEW c \in Calls,
         NEW at \in Places, NEW i \in Ids \cup {None}, Leave(c, at, i)
  PROVE  /\ call' \in [Calls -> CallRec] /\ open' \in [Keys -> SUBSET Calls]
         /\ \A d \in Calls : d # c => call'[d] = call[d]
         /\ call'[c].at = at /\ call'[c].op = call[c].op /\ call'[c].row = call[c].row
         /\ call'[c].key = call[c].key /\ call'[c].id = i
         /\ \A k \in Keys : open'[k] = open[k] \ {c}
  BY DEF Leave, CallRec

LEMMA PutFacts ==
  ASSUME rows \in [Ids -> Row \cup {None}], steady \in [Calls -> SUBSET Ids],
         NEW i \in Ids, NEW r \in Row \cup {None}, Put(i, r)
  PROVE  /\ rows' \in [Ids -> Row \cup {None}] /\ steady' \in [Calls -> SUBSET Ids]
         /\ rows'[i] = r /\ \A j \in Ids : j # i => rows'[j] = rows[j]
         /\ \A c \in Calls : \A j \in steady'[c] : j \in steady[c] /\ rows'[j] = rows[j]
  <1>1. rows' \in [Ids -> Row \cup {None}] /\ rows'[i] = r /\ \A j \in Ids : j # i => rows'[j] = rows[j]
    BY DEF Put
  <1>2. CASE rows[i] = r
    BY <1>1, <1>2 DEF Put
  <1>3. CASE rows[i] # r
    BY <1>1, <1>3 DEF Put
  <1> QED
    BY <1>1, <1>2, <1>3

(* A patched row is a row. *)
LEMMA PatchedFacts ==
  ASSUME NEW r \in Row, NEW patch \in Row
  PROVE  Patched(r, patch) \in Row
  <1>1. SortFields \subseteq Fields
    BY RecordsAssumption DEF SortFields
  <1> QED
    BY <1>1 DEF Patched, Row

(* The cursor after a row says what the row holds in the fields of the order. *)
LEMMA CursorFacts ==
  ASSUME NEW s, s.query \in Queries, NEW i \in Ids, rows[i] \in Row
  PROVE  LET ks == SortKeys(s.query.order) IN
         /\ CursorOf(s, i) \in Seq(Int \cup {None})
         /\ DOMAIN CursorOf(s, i) = DOMAIN ks
         /\ \A n \in DOMAIN ks : CursorOf(s, i)[n] = Column(i, ks[n].field)
  <1> DEFINE ks == SortKeys(s.query.order)
             N == IF s.query.order = None THEN 1 ELSE 2
  <1>1. DOMAIN ks = 1..N /\ N \in Nat
    <2>1. 1..1 = {1} /\ 1..2 = {1, 2}
      OBVIOUS
    <2>2. CASE s.query.order = None
      BY <2>1, <2>2, KeysOfId
    <2>3. CASE s.query.order # None
      BY <2>1, <2>3, KeysOfField
    <2> QED
      BY <2>2, <2>3
  <1>2. \A n \in DOMAIN ks : Column(i, ks[n].field) \in Int \cup {None}
    <2>1. i \in Int /\ Column(i, "id") = i
      BY IdColumn, RecordsAssumption DEF Ids
    <2>2. CASE s.query.order = None
      BY <2>1, <2>2, KeysOfId
    <2>3. CASE s.query.order # None
      BY <2>1, <2>3, KeysOfField, SortedColumn
    <2> QED
      BY <2>2, <2>3
  <1>3. CursorOf(s, i) = [n \in DOMAIN ks |-> Column(i, ks[n].field)]
    BY DEF CursorOf
  <1> HIDE DEF ks, N
  <1>4. CursorOf(s, i) \in [1..N -> Int \cup {None}]
    BY <1>1, <1>2, <1>3
  <1>5. CursorOf(s, i) \in Seq(Int \cup {None})
    BY <1>1, <1>4
  <1> QED
    BY <1>3, <1>5 DEF ks

(* What a page does to its scan. *)
LEMMA PageFacts ==
  ASSUME TypeOK, CallInv, NEW c \in Calls, Page(c)
  PROVE  LET s == scan[c]
             found == Found(s)
             more == Len(found) > Limit
             page == IF more THEN SubSeq(found, 1, Limit) ELSE found
             next == IF more THEN CursorOf(s, page[Limit]) ELSE None
         IN  /\ scan' \in [Calls -> ScanRec]
             /\ \A d \in Calls : d # c => scan'[d] = scan[d]
             /\ scan'[c].query = s.query /\ scan'[c].query \in Queries
             /\ page \in Seq(Ids) /\ scan'[c].seen = s.seen \o page
             /\ more => page[Limit] = found[Limit] /\ found[Limit] \in Left(s)
             /\ scan'[c].cursor = next /\ next \in Seq(Int \cup {None}) \cup {None}
             /\ scan'[c].cut <=> s.cut \/ (more /\ \E n \in DOMAIN next : next[n] = None)
  <1> DEFINE s == scan[c]
             found == Found(s)
             more == Len(found) > Limit
             page == IF more THEN SubSeq(found, 1, Limit) ELSE found
             next == IF more THEN CursorOf(s, page[Limit]) ELSE None
             cut == s.cut \/ (more /\ \E n \in DOMAIN next : next[n] = None)
  <1>1. s \in ScanRec /\ s.query \in Queries
    BY DEF TypeOK, ScanRec, CallInv, Carries, Page, Is
  <1>2. /\ found \in Seq(Ids) /\ found \in [1..Cardinality(Left(s)) -> Left(s)]
        /\ Len(found) = Cardinality(Left(s)) /\ Cardinality(Left(s)) \in Nat
    BY <1>1, FoundFacts DEF TypeOK
  <1>3. Limit \in Nat \ {0}
    BY RecordsAssumption
  <1>4. more => Limit \in 1..Len(found) /\ found[Limit] \in Left(s)
    <2> HIDE DEF found, s
    <2> QED
      BY <1>2, <1>3
  <1>5. more => page[Limit] = found[Limit]
    <2> HIDE DEF found
    <2> QED
      BY <1>2, <1>3
  <1>6. page \in Seq(Ids)
    <2> HIDE DEF found
    <2> QED
      BY <1>2, <1>3
  <1>7. next \in Seq(Int \cup {None}) \cup {None}
    <2>1. CASE more
      <3>1. found[Limit] \in Ids /\ rows[found[Limit]] \in Row
        BY <1>4, <2>1 DEF Left, Live, TypeOK
      <3>2. next = CursorOf(s, found[Limit])
        BY <1>5, <2>1
      <3> HIDE DEF found, next
      <3> QED
        BY <1>1, <3>1, <3>2, CursorFacts
    <2> QED
      BY <2>1
  <1>8. cut \in BOOLEAN
    OBVIOUS
  <1>9. scan' = [scan EXCEPT ![c] = [s EXCEPT !.seen = s.seen \o page, !.cursor = next, !.cut = cut]]
    BY DEF Page
  <1> HIDE DEF found, more, page, next, cut
  <1>10. /\ scan' \in [Calls -> ScanRec]
         /\ \A d \in Calls : d # c => scan'[d] = scan[d]
         /\ scan'[c].query = s.query /\ scan'[c].seen = s.seen \o page
         /\ scan'[c].cursor = next /\ scan'[c].cut = cut
    <2>1. s.seen \o page \in Seq(Ids)
      BY <1>1, <1>6 DEF ScanRec
    <2>2. [s EXCEPT !.seen = s.seen \o page, !.cursor = next, !.cut = cut] \in ScanRec
      BY <1>1, <1>7, <1>8, <2>1 DEF ScanRec
    <2>3. scan \in [Calls -> ScanRec]
      BY DEF TypeOK, ScanRec
    <2> QED
      BY <1>1, <1>9, <2>2, <2>3 DEF ScanRec
  <1> QED
    BY <1>1, <1>4, <1>5, <1>6, <1>7, <1>10 DEF found, more, page, next, cut
-----------------------------------------------------------------------------
(* The keys. *)

KeyVars == <<nextId, keys, madeBy, open, crossed>>

(* Only creates touch what is said about keys; a row that goes takes nothing *)
(* with it.                                                                *)
LEMMA OtherCalls ==
  ASSUME TypeOK, CallInv, TableInv, OpenInv, SingleInv, NEW c \in Calls, UNCHANGED KeyVars,
         \A d \in Calls : d # c => call'[d] = call[d],
         call[c].op # "create", call'[c].op # "create",
         \A i \in Ids : rows'[i] # None => rows[i] # None
  PROVE  TableInv' /\ OpenInv' /\ SingleInv'
  <1>0. open \in [Keys -> SUBSET Calls] /\ keys \in [Keys -> Ids \cup {None}]
    BY DEF TypeOK
  <1>1. TableInv'
    BY <1>0 DEF TableInv, KeyVars
  <1>2. OpenInv'
    <2> SUFFICES ASSUME NEW k \in Keys
                 PROVE  /\ \A d \in open[k] :
                             /\ call'[d].op = "create" /\ call'[d].key = k
                             /\ call'[d].at \in Creating \/ (call'[d].at = "lost" /\ k \in crossed)
                        /\ \A d \in Calls :
                             call'[d].op = "create" /\ call'[d].key = k /\ call'[d].at \in Creating
                               => d \in open[k]
                        /\ k \notin crossed => \A d, e \in open[k] : d = e
      BY DEF OpenInv, KeyVars
    <2>1. \A d \in open[k] : d \in Calls /\ d # c
      BY <1>0 DEF OpenInv
    <2> QED
      BY <2>1 DEF OpenInv
  <1>3. SingleInv'
    <2> SUFFICES ASSUME NEW k \in Keys \ crossed
                 PROVE  /\ \A i \in Live' : madeBy[i] = k =>
                             keys[k] = i \/ \E d \in open[k] : call'[d].at = "key" /\ call'[d].id = i
                        /\ \A d \in open[k] :
                             /\ call'[d].at \in {"insert", "key"} => keys[k] = None
                             /\ call'[d].at \in {"lookupRow", "cleanup"} => keys[k] = call'[d].id
                             /\ call'[d].at = "cleanup" => rows'[call'[d].id] = None
      BY DEF SingleInv, KeyVars
    <2>1. \A d \in open[k] : d \in Calls /\ d # c /\ call'[d] = call[d]
      BY <1>0 DEF OpenInv
    <2>2. Live' \subseteq Live
      BY DEF Live
    <2>3. \A d \in open[k] : call[d].at = "cleanup" => call[d].id \in Ids
      BY <1>0 DEF OpenInv, CallInv, Carries, Given
    <2> QED
      BY <2>1, <2>2, <2>3 DEF SingleInv
  <1> QED
    BY <1>1, <1>2, <1>3

LEMMA InitKey == Init => KeyInv
  <1> SUFFICES ASSUME Init PROVE KeyInv
    OBVIOUS
  <1>0. /\ None \notin Int /\ None \notin Keys /\ MaxId \in Nat /\ MaxStops \in Nat
        /\ KeyOf \in Keys \cup {None}
    BY RecordsAssumption
  <1>1. PICK s \in Stored : /\ rows = [i \in Ids |-> IF i \in DOMAIN s THEN s[i] ELSE None]
                            /\ nextId = Len(s) + 1
    BY DEF Init
  <1>2. s \in Seq({None} \cup Row) /\ Len(s) \in 1..MaxId
    BY RecordsAssumption
  <1>3. PICK k \in {None, KeyOf} : /\ keys = [x \in Keys |-> IF x = k THEN 1 ELSE None]
                                   /\ madeBy = [i \in Ids |-> IF i = 1 THEN k ELSE None]
    BY DEF Init
  <1>4. 1 \in Ids /\ Ids \subseteq Nat
    BY <1>0, <1>2 DEF Ids
  <1>5. rows \in [Ids -> Row \cup {None}] /\ nextId \in 2..(MaxId + 1)
    BY <1>0, <1>1, <1>2
  <1>6. keys \in [Keys -> Ids \cup {None}] /\ madeBy \in [Ids -> Keys \cup {None}]
    BY <1>0, <1>3, <1>4
  <1>7. TypeOK
    <2>1. NoCall \in CallRec /\ NoScan \in ScanRec
      BY DEF NoCall, NoScan, CallRec, ScanRec, Places
    <2>2. call \in [Calls -> CallRec] /\ scan \in [Calls -> ScanRec]
      BY <2>1 DEF Init
    <2> QED
      BY <1>0, <1>5, <1>6, <2>2 DEF Init, TypeOK, CallRec, ScanRec
  <1>8. CallInv
    BY DEF Init, CallInv, Carries, NoCall
  <1>9. TableInv
    <2>1. \A i \in Ids : i >= nextId => rows[i] = None
      BY <1>1, <1>2 DEF Ids
    <2>2. \A x \in Keys : keys[x] # None => keys[x] < nextId /\ madeBy[keys[x]] = x
      BY <1>3, <1>4, <1>5
    <2> QED
      BY <2>1, <2>2 DEF TableInv
  <1>10. OpenInv
    BY DEF Init, OpenInv, NoCall
  <1>11. SingleInv
    <2> SUFFICES ASSUME NEW x \in Keys
                 PROVE  /\ \A i \in Live : madeBy[i] = x => keys[x] = i
                        /\ open[x] = {}
      BY DEF SingleInv
    <2>1. open[x] = {}
      BY DEF Init
    <2>2. \A i \in Live : madeBy[i] = x => keys[x] = i
      BY <1>0, <1>3 DEF Live
    <2> QED
      BY <2>1, <2>2
  <1> QED
    BY <1>7, <1>8, <1>9, <1>10, <1>11 DEF KeyInv

(* Each statement of a create keeps what is said of the keys. *)
LEMMA StartCreateKey ==
  ASSUME KeyInv, NEW c \in Calls, NEW r \in NewRows, NEW k \in Keys \cup {None}, StartCreate(c, r, k)
  PROVE  KeyInv'
  <1> USE DEF KeyInv
  <1>0. r \in Row /\ None \notin Keys
    BY RecordsAssumption
  <1>1. /\ call[c].at = "idle" /\ call[c].op = "none"
        /\ open \in [Keys -> SUBSET Calls] /\ call \in [Calls -> CallRec]
        /\ UNCHANGED <<rows, nextId, steady, keys, scan, stops, madeBy>>
        /\ open' = [x \in Keys |-> IF x = k THEN open[x] \cup {c} ELSE open[x]]
        /\ crossed' = crossed \cup {x \in {k} \ {None} : open[x] # {}}
    BY DEF StartCreate, Table, CallInv, Carries, TypeOK, CallRec
  <1>2. /\ call' \in [Calls -> CallRec]
        /\ \A d \in Calls : d # c => call'[d] = call[d]
        /\ call'[c].op = "create" /\ call'[c].row = r /\ call'[c].key = k
        /\ call'[c].at \in {"lookup", "insert"} /\ (call'[c].at = "lookup" <=> k # None)
    BY <1>0, <1>1 DEF StartCreate, CallRec, Places
  <1>3. TypeOK'
    BY <1>1, <1>2 DEF TypeOK, CallRec
  <1>4. CallInv'
    BY <1>0, <1>1, <1>2 DEF CallInv, Carries, Given
  <1>5. TableInv'
    BY <1>1 DEF TableInv, TypeOK
  <1>6. \A x \in Keys : c \notin open[x]
    BY <1>1 DEF OpenInv
  <1>7. OpenInv'
    <2> SUFFICES ASSUME NEW x \in Keys
                 PROVE  /\ \A d \in open'[x] :
                             /\ call'[d].op = "create" /\ call'[d].key = x
                             /\ call'[d].at \in Creating \/ (call'[d].at = "lost" /\ x \in crossed')
                        /\ \A d \in Calls :
                             call'[d].op = "create" /\ call'[d].key = x /\ call'[d].at \in Creating
                               => d \in open'[x]
                        /\ x \notin crossed' => \A d, e \in open'[x] : d = e
      BY DEF OpenInv
    <2>1. CASE x = k
      BY <1>0, <1>1, <1>2, <1>6, <2>1 DEF OpenInv, Creating
    <2>2. CASE x # k
      BY <1>0, <1>1, <1>2, <1>6, <2>2 DEF OpenInv
    <2> QED
      BY <2>1, <2>2
  <1>8. SingleInv'
    <2> SUFFICES ASSUME NEW x \in Keys \ crossed'
                 PROVE  /\ \A i \in Live' : madeBy'[i] = x =>
                             keys'[x] = i \/ \E d \in open'[x] : call'[d].at = "key" /\ call'[d].id = i
                        /\ \A d \in open'[x] :
                             /\ call'[d].at \in {"insert", "key"} => keys'[x] = None
                             /\ call'[d].at \in {"lookupRow", "cleanup"} => keys'[x] = call'[d].id
                             /\ call'[d].at = "cleanup" => rows'[call'[d].id] = None
      BY DEF SingleInv
    <2>1. x \in Keys \ crossed /\ open[x] \subseteq open'[x] /\ Live' = Live
      BY <1>1 DEF Live
    <2>2. \A d \in open[x] : d \in Calls /\ call'[d] = call[d]
      BY <1>1, <1>2, <1>6, <2>1
    <2>3. \A d \in open'[x] : d \in open[x] \/ (d = c /\ x = k)
      BY <1>1
    <2> QED
      BY <1>0, <1>1, <1>2, <2>1, <2>2, <2>3 DEF SingleInv
  <1> QED
    BY <1>3, <1>4, <1>5, <1>7, <1>8

(* A step of a create that leaves its key open and the table alone. *)
LEMMA StayOpen ==
  ASSUME KeyInv, NEW c \in Calls, call[c].op = "create", call[c].at \in Creating,
         UNCHANGED <<open, crossed>>,
         call' \in [Calls -> CallRec], \A d \in Calls : d # c => call'[d] = call[d],
         call'[c].op = "create", call'[c].key = call[c].key, call'[c].at \in Creating
  PROVE  OpenInv'
  <1> USE DEF KeyInv
  <1>1. open \in [Keys -> SUBSET Calls]
    BY DEF TypeOK
  <1> SUFFICES ASSUME NEW x \in Keys
               PROVE  /\ \A d \in open[x] :
                           /\ call'[d].op = "create" /\ call'[d].key = x
                           /\ call'[d].at \in Creating \/ (call'[d].at = "lost" /\ x \in crossed)
                      /\ \A d \in Calls :
                           call'[d].op = "create" /\ call'[d].key = x /\ call'[d].at \in Creating
                             => d \in open[x]
                      /\ x \notin crossed => \A d, e \in open[x] : d = e
    BY DEF OpenInv
  <1> QED
    BY <1>1 DEF OpenInv

LEMMA LookupKey ==
  ASSUME KeyInv, NEW c \in Calls, Lookup(c)
  PROVE  KeyInv'
  <1> USE DEF KeyInv
  <1> DEFINE k == call[c].key
  <1>1. /\ call[c].op = "create" /\ call[c].at = "lookup" /\ k \in Keys /\ keys[k] \in Ids \cup {None}
        /\ open \in [Keys -> SUBSET Calls] /\ call \in [Calls -> CallRec]
        /\ UNCHANGED <<rows, nextId, steady, keys, scan, stops, madeBy, open, crossed>>
    BY DEF Lookup, Is, Table, Idle, CallInv, Carries, TypeOK, CallRec
  <1>2. /\ call' \in [Calls -> CallRec]
        /\ \A d \in Calls : d # c => call'[d] = call[d]
        /\ call'[c].op = "create" /\ call'[c].row = call[c].row /\ call'[c].key = k
        /\ call'[c].id = keys[k] /\ call'[c].at = IF keys[k] = None THEN "insert" ELSE "lookupRow"
    BY <1>1 DEF Lookup, CallRec, Places
  <1>3. TypeOK'
    BY <1>1, <1>2 DEF TypeOK, CallRec
  <1>4. CallInv'
    BY <1>1, <1>2 DEF CallInv, Carries, TableInv, Given
  <1>5. TableInv'
    BY <1>1 DEF TableInv, TypeOK
  <1>6. OpenInv'
    BY <1>1, <1>2, StayOpen DEF Creating
  <1>7. SingleInv'
    <2> SUFFICES ASSUME NEW x \in Keys \ crossed
                 PROVE  /\ \A i \in Live' : madeBy'[i] = x =>
                             keys'[x] = i \/ \E d \in open'[x] : call'[d].at = "key" /\ call'[d].id = i
                        /\ \A d \in open'[x] :
                             /\ call'[d].at \in {"insert", "key"} => keys'[x] = None
                             /\ call'[d].at \in {"lookupRow", "cleanup"} => keys'[x] = call'[d].id
                             /\ call'[d].at = "cleanup" => rows'[call'[d].id] = None
      BY <1>1 DEF SingleInv
    <2>1. \A d \in open[x] : d \in Calls /\ call[d].key = x
      BY <1>1 DEF OpenInv
    <2>2. Live' = Live
      BY <1>1 DEF Live
    <2> QED
      BY <1>1, <1>2, <2>1, <2>2 DEF SingleInv
  <1> QED
    BY <1>3, <1>4, <1>5, <1>6, <1>7

(* A create that returns or raises is open no longer. *)
LEMMA Closing ==
  ASSUME KeyInv, NEW c \in Calls, call[c].op = "create", call[c].at \in Creating,
         UNCHANGED crossed,
         call' \in [Calls -> CallRec], \A d \in Calls : d # c => call'[d] = call[d],
         call'[c].op = "create", call'[c].at \notin Creating,
         \A k \in Keys : open'[k] = open[k] \ {c}
  PROVE  OpenInv'
  <1> USE DEF KeyInv
  <1>1. open \in [Keys -> SUBSET Calls]
    BY DEF TypeOK
  <1> SUFFICES ASSUME NEW x \in Keys
               PROVE  /\ \A d \in open'[x] :
                           /\ call'[d].op = "create" /\ call'[d].key = x
                           /\ call'[d].at \in Creating \/ (call'[d].at = "lost" /\ x \in crossed)
                      /\ \A d \in Calls :
                           call'[d].op = "create" /\ call'[d].key = x /\ call'[d].at \in Creating
                             => d \in open'[x]
                      /\ x \notin crossed => \A d, e \in open'[x] : d = e
    BY DEF OpenInv
  <1> QED
    BY <1>1 DEF OpenInv

LEMMA LookupRowKey ==
  ASSUME KeyInv, NEW c \in Calls, LookupRow(c)
  PROVE  KeyInv'
  <1> USE DEF KeyInv
  <1> DEFINE k == call[c].key
             i == call[c].id
  <1>1. /\ call[c].op = "create" /\ call[c].at = "lookupRow" /\ k \in Keys /\ i \in Ids
        /\ Given(i) /\ madeBy[i] = k
        /\ open \in [Keys -> SUBSET Calls] /\ call \in [Calls -> CallRec]
        /\ UNCHANGED <<rows, nextId, steady, keys, scan, stops, madeBy, crossed>>
    BY DEF LookupRow, Is, Table, CallInv, Carries, TypeOK, CallRec, Given
  <1>2. Live' = Live
    BY <1>1 DEF Live
  <1>3. CASE rows[i] # None /\ Leave(c, "returned", i)
    <2>1. /\ call' \in [Calls -> CallRec] /\ open' \in [Keys -> SUBSET Calls]
          /\ \A d \in Calls : d # c => call'[d] = call[d]
          /\ call'[c].at = "returned" /\ call'[c].op = "create" /\ call'[c].row = call[c].row
          /\ call'[c].key = k /\ call'[c].id = i
          /\ \A x \in Keys : open'[x] = open[x] \ {c}
      BY <1>1, <1>3, LeaveFacts DEF Places
    <2>2. TypeOK' /\ CallInv' /\ TableInv'
      <3>1. TypeOK'
        BY <1>1, <2>1 DEF TypeOK, CallRec
      <3>2. CallInv'
        BY <1>1, <2>1 DEF CallInv, Carries, Given
      <3>3. TableInv'
        BY <1>1 DEF TableInv, TypeOK
      <3> QED
        BY <3>1, <3>2, <3>3
    <2>3. OpenInv'
      BY <1>1, <2>1, Closing DEF Creating
    <2>4. SingleInv'
      <3> SUFFICES ASSUME NEW x \in Keys \ crossed
                   PROVE  /\ \A j \in Live : madeBy[j] = x =>
                               keys[x] = j \/ \E d \in open'[x] : call'[d].at = "key" /\ call'[d].id = j
                          /\ \A d \in open'[x] :
                               /\ call'[d].at \in {"insert", "key"} => keys[x] = None
                               /\ call'[d].at \in {"lookupRow", "cleanup"} => keys[x] = call'[d].id
                               /\ call'[d].at = "cleanup" => rows[call'[d].id] = None
        BY <1>1, <1>2 DEF SingleInv
      <3>1. \A d \in open[x] : d \in Calls
        BY <1>1
      <3> QED
        BY <1>1, <2>1, <3>1 DEF SingleInv
    <2> QED
      BY <2>2, <2>3, <2>4
  <1>4. CASE rows[i] = None /\ Goto(c, "cleanup") /\ open' = open
    <2>1. /\ call' \in [Calls -> CallRec] /\ \A d \in Calls : d # c => call'[d] = call[d]
          /\ call'[c].at = "cleanup" /\ call'[c].op = "create" /\ call'[c].row = call[c].row
          /\ call'[c].key = k /\ call'[c].id = i
      BY <1>1, <1>4, GotoFacts DEF Places
    <2>2. TypeOK'
      BY <1>1, <1>4, <2>1 DEF TypeOK, CallRec
    <2>3. CallInv'
      BY <1>1, <2>1 DEF CallInv, Carries, Given
    <2>4. TableInv'
      BY <1>1 DEF TableInv, TypeOK
    <2>5. OpenInv'
      BY <1>1, <1>4, <2>1, StayOpen DEF Creating
    <2>6. SingleInv'
      <3> SUFFICES ASSUME NEW x \in Keys \ crossed
                   PROVE  /\ \A j \in Live : madeBy[j] = x =>
                               keys[x] = j \/ \E d \in open[x] : call'[d].at = "key" /\ call'[d].id = j
                          /\ \A d \in open[x] :
                               /\ call'[d].at \in {"insert", "key"} => keys[x] = None
                               /\ call'[d].at \in {"lookupRow", "cleanup"} => keys[x] = call'[d].id
                               /\ call'[d].at = "cleanup" => rows[call'[d].id] = None
        BY <1>1, <1>2, <1>4 DEF SingleInv
      <3>1. \A d \in open[x] : d \in Calls
        BY <1>1
      <3> QED
        BY <1>1, <1>4, <2>1, <3>1 DEF SingleInv
    <2> QED
      BY <2>2, <2>3, <2>4, <2>5, <2>6
  <1> QED
    BY <1>3, <1>4 DEF LookupRow

LEMMA CleanupKey ==
  ASSUME KeyInv, NEW c \in Calls, Cleanup(c)
  PROVE  KeyInv'
  <1> USE DEF KeyInv
  <1> DEFINE k == call[c].key
  <1>1. /\ call[c].op = "create" /\ call[c].at = "cleanup" /\ k \in Keys
        /\ Given(call[c].id) /\ Goto(c, "insert")
        /\ open \in [Keys -> SUBSET Calls] /\ call \in [Calls -> CallRec]
        /\ keys \in [Keys -> Ids \cup {None}] /\ keys' = [keys EXCEPT ![k] = None]
        /\ UNCHANGED <<rows, nextId, steady, scan, stops, madeBy, open, crossed>>
    BY DEF Cleanup, Is, Table, Idle, CallInv, Carries, TypeOK, CallRec
  <1>2. /\ call' \in [Calls -> CallRec] /\ \A d \in Calls : d # c => call'[d] = call[d]
        /\ call'[c].at = "insert" /\ call'[c].op = "create" /\ call'[c].row = call[c].row
        /\ call'[c].key = k /\ call'[c].id = call[c].id
    BY <1>1, GotoFacts DEF Places
  <1>3. keys' \in [Keys -> Ids \cup {None}] /\ keys'[k] = None
        /\ \A x \in Keys : x # k => keys'[x] = keys[x]
    BY <1>1
  <1>4. TypeOK'
    BY <1>1, <1>2, <1>3 DEF TypeOK, CallRec
  <1>5. CallInv'
    BY <1>1, <1>2 DEF CallInv, Carries, Given
  <1>6. TableInv'
    BY <1>1, <1>3 DEF TableInv, TypeOK
  <1>7. OpenInv'
    BY <1>1, <1>2, StayOpen DEF Creating
  <1>8. SingleInv'
    <2> SUFFICES ASSUME NEW x \in Keys \ crossed
                 PROVE  /\ \A i \in Live : madeBy[i] = x =>
                             keys'[x] = i \/ \E d \in open[x] : call'[d].at = "key" /\ call'[d].id = i
                        /\ \A d \in open[x] :
                             /\ call'[d].at \in {"insert", "key"} => keys'[x] = None
                             /\ call'[d].at \in {"lookupRow", "cleanup"} => keys'[x] = call'[d].id
                             /\ call'[d].at = "cleanup" => rows[call'[d].id] = None
      BY <1>1 DEF SingleInv, Live
    <2>1. \A d \in open[x] : d \in Calls /\ call[d].key = x
      BY <1>1 DEF OpenInv
    <2>2. CASE x # k
      BY <1>1, <1>2, <1>3, <2>1, <2>2 DEF SingleInv
    <2>3. CASE x = k
      <3>1. c \in open[k] /\ \A d \in open[k] : d = c
        BY <1>1, <2>3 DEF OpenInv, Creating
      <3>2. \A i \in Live : madeBy[i] # k
        BY <1>1, <2>3, <3>1 DEF SingleInv, Live
      <3> QED
        BY <1>2, <1>3, <2>3, <3>1, <3>2
    <2> QED
      BY <2>2, <2>3
  <1> QED
    BY <1>4, <1>5, <1>6, <1>7, <1>8

LEMMA InsertKey ==
  ASSUME KeyInv, NEW c \in Calls, Insert(c)
  PROVE  KeyInv'
  <1> USE DEF KeyInv
  <1> DEFINE k == call[c].key
             r == call[c].row
             empty == \A f \in Fields : r[f] = None
  <1>0. None \notin Int /\ None \notin Keys /\ MaxId \in Nat /\ Ids \subseteq Int
    BY RecordsAssumption DEF Ids
  <1>1. /\ call[c].op = "create" /\ call[c].at = "insert" /\ k \in Keys \cup {None} /\ r \in Row
        /\ open \in [Keys -> SUBSET Calls] /\ call \in [Calls -> CallRec]
        /\ madeBy \in [Ids -> Keys \cup {None}] /\ nextId \in 1..(MaxId + 1)
        /\ keys \in [Keys -> Ids \cup {None}]
        /\ UNCHANGED <<keys, scan, stops, crossed>>
    BY DEF Insert, Is, CallInv, Carries, TypeOK, CallRec
  <1>2. PICK id \in Ids \cup {None} :
          /\ rows' \in [Ids -> Row \cup {None}] /\ steady' \in [Calls -> SUBSET Ids]
          /\ nextId' \in 1..(MaxId + 1) /\ nextId' >= nextId
          /\ madeBy' \in [Ids -> Keys \cup {None}]
          /\ \A i \in Ids : i # id => rows'[i] = rows[i] /\ madeBy'[i] = madeBy[i]
          /\ id # None => id = nextId /\ nextId' = nextId + 1 /\ madeBy'[id] = k
          /\ \/ k = None /\ Leave(c, "returned", id)
             \/ /\ k # None /\ open' = open
                /\ call' = [call EXCEPT ![c].at = "key", ![c].id = id]
    <2>1. CASE empty
      <3>1. UNCHANGED <<rows, nextId, steady, madeBy>>
        BY <2>1 DEF Insert, Table
      <3>2. \/ k = None /\ Leave(c, "returned", None)
            \/ /\ k # None /\ open' = open
               /\ call' = [call EXCEPT ![c].at = "key", ![c].id = None]
        BY <2>1 DEF Insert
      <3>3. /\ rows' \in [Ids -> Row \cup {None}] /\ steady' \in [Calls -> SUBSET Ids]
            /\ nextId' \in 1..(MaxId + 1) /\ nextId' >= nextId
            /\ madeBy' \in [Ids -> Keys \cup {None}]
        BY <1>1, <3>1 DEF TypeOK
      <3>4. \A i \in Ids : rows'[i] = rows[i] /\ madeBy'[i] = madeBy[i]
        BY <3>1
      <3> HIDE DEF k, r, empty
      <3> QED
        BY <3>2, <3>3, <3>4
    <2>2. CASE ~empty
      <3>1. /\ nextId <= MaxId /\ Put(nextId, r) /\ nextId' = nextId + 1
            /\ madeBy' = [madeBy EXCEPT ![nextId] = k]
        BY <2>2 DEF Insert
      <3>2. \/ k = None /\ Leave(c, "returned", nextId)
            \/ /\ k # None /\ open' = open
               /\ call' = [call EXCEPT ![c].at = "key", ![c].id = nextId]
        BY <2>2 DEF Insert
      <3>3. nextId \in Ids
        BY <1>0, <1>1, <3>1 DEF Ids
      <3>4. /\ rows' \in [Ids -> Row \cup {None}] /\ steady' \in [Calls -> SUBSET Ids]
            /\ \A i \in Ids : i # nextId => rows'[i] = rows[i]
        BY <1>1, <3>1, <3>3, PutFacts DEF TypeOK
      <3>5. /\ madeBy' \in [Ids -> Keys \cup {None}] /\ madeBy'[nextId] = k
            /\ \A i \in Ids : i # nextId => madeBy'[i] = madeBy[i]
        BY <1>1, <3>1, <3>3
      <3>6. nextId' \in 1..(MaxId + 1) /\ nextId' >= nextId
        BY <1>0, <1>1, <3>1
      <3> QED
        BY <3>1, <3>2, <3>3, <3>4, <3>5, <3>6
    <2> QED
      BY <2>1, <2>2
  <1>5. /\ call' \in [Calls -> CallRec] /\ \A d \in Calls : d # c => call'[d] = call[d]
        /\ call'[c].at = IF k = None THEN "returned" ELSE "key"
        /\ call'[c].op = "create" /\ call'[c].row = r
        /\ call'[c].key = k /\ call'[c].id = id
    <2>1. CASE k = None /\ Leave(c, "returned", id)
      BY <1>1, <2>1, LeaveFacts DEF Places
    <2>2. CASE k # None /\ call' = [call EXCEPT ![c].at = "key", ![c].id = id]
      BY <1>1, <2>2 DEF CallRec, Places
    <2> QED
      BY <1>2, <2>1, <2>2
  <1>6. \A x \in Keys : open'[x] = IF k = None THEN open[x] \ {c} ELSE open[x]
    BY <1>2 DEF Leave
  <1>7. open' \in [Keys -> SUBSET Calls]
    BY <1>1, <1>2 DEF Leave
  <1>8. TypeOK'
    BY <1>1, <1>2, <1>5, <1>7 DEF TypeOK, CallRec
  <1>9. \A i \in Ids : i < nextId => rows'[i] = rows[i] /\ madeBy'[i] = madeBy[i]
    BY <1>0, <1>1, <1>2 DEF Ids
  <1>10. CallInv'
    <2>1. \A i : Given(i) => Given(i)' /\ madeBy'[i] = madeBy[i]
      BY <1>0, <1>1, <1>2, <1>9 DEF Given
    <2>2. id # None => Given(id)' /\ madeBy'[id] = k
      BY <1>0, <1>1, <1>2 DEF Given
    <2> SUFFICES ASSUME NEW d \in Calls PROVE Carries(d)'
      BY DEF CallInv
    <2>3. CASE d # c
      BY <1>1, <1>5, <2>1, <2>3 DEF CallInv, Carries
    <2>4. CASE d = c
      BY <1>1, <1>2, <1>5, <2>2, <2>4 DEF Carries
    <2> QED
      BY <2>3, <2>4
  <1>11. TableInv'
    <2>1. \A i \in Ids : i >= nextId' => rows'[i] = None
      <3> SUFFICES ASSUME NEW i \in Ids, i >= nextId' PROVE rows'[i] = None
        OBVIOUS
      <3>1. i # id /\ i >= nextId
        BY <1>0, <1>1, <1>2
      <3> QED
        BY <1>2, <3>1 DEF TableInv
    <2>2. \A x \in Keys : keys[x] # None => keys[x] < nextId' /\ madeBy'[keys[x]] = x
      <3> SUFFICES ASSUME NEW x \in Keys, keys[x] # None
                   PROVE  keys[x] < nextId' /\ madeBy'[keys[x]] = x
        OBVIOUS
      <3>1. keys[x] \in Ids /\ keys[x] < nextId /\ madeBy[keys[x]] = x
        BY <1>1 DEF TableInv
      <3> QED
        BY <1>0, <1>1, <1>2, <1>9, <3>1 DEF Ids
    <2> QED
      BY <1>1, <2>1, <2>2 DEF TableInv
  <1>12. OpenInv'
    <2>1. CASE k = None
      BY <1>1, <1>5, <1>6, <2>1, Closing DEF Creating
    <2>2. CASE k # None
      BY <1>1, <1>2, <1>5, <2>2, StayOpen DEF Creating
    <2> QED
      BY <2>1, <2>2
  <1>13. SingleInv'
    <2> SUFFICES ASSUME NEW x \in Keys \ crossed
                 PROVE  /\ \A i \in Live' : madeBy'[i] = x =>
                             keys[x] = i \/ \E d \in open'[x] : call'[d].at = "key" /\ call'[d].id = i
                        /\ \A d \in open'[x] :
                             /\ call'[d].at \in {"insert", "key"} => keys[x] = None
                             /\ call'[d].at \in {"lookupRow", "cleanup"} => keys[x] = call'[d].id
                             /\ call'[d].at = "cleanup" => rows'[call'[d].id] = None
      BY <1>1 DEF SingleInv
    <2>1. \A d \in open[x] : d \in Calls /\ call[d].key = x /\ call[d].op = "create"
      BY <1>1 DEF OpenInv
    <2>2. \A i \in Live' : i \in Live \/ i = id
      BY <1>2 DEF Live
    <2>3. \A d \in open[x] : call[d].at = "cleanup" => rows'[call[d].id] = rows[call[d].id]
      BY <1>9, <2>1 DEF CallInv, Carries, Given
    <2>4. CASE x # k
      <3>1. c \notin open[x] /\ open'[x] = open[x]
        BY <1>6, <2>1, <2>4
      <3>2. \A i \in Live' : madeBy'[i] = x => i \in Live /\ madeBy[i] = x
        <4> SUFFICES ASSUME NEW i \in Live', madeBy'[i] = x
                     PROVE  i # id
          BY <1>2, <2>2 DEF Live
        <4> QED
          BY <1>0, <1>2, <2>4 DEF Live
      <3> QED
        BY <1>5, <2>1, <2>3, <3>1, <3>2 DEF SingleInv
    <2>5. CASE x = k
      <3>1. c \in open[k] /\ (\A d \in open[k] : d = c) /\ open'[k] = open[k]
        <4>1. call[c].key = k /\ call[c].at \in Creating /\ k # None
          BY <1>0, <1>1, <2>5 DEF Creating
        <4> QED
          BY <1>1, <1>6, <2>5, <4>1 DEF OpenInv
      <3>2. keys[k] = None /\ call'[c].at = "key"
        BY <1>0, <1>1, <1>5, <2>5, <3>1 DEF SingleInv
      <3>3. \A i \in Live : madeBy[i] # k
        BY <1>0, <1>1, <2>5, <3>1, <3>2 DEF SingleInv, Live, Ids
      <3>4. \A i \in Live' : madeBy'[i] = k => i = id
        BY <1>2, <2>2, <3>3 DEF Live
      <3> QED
        BY <1>5, <2>5, <3>1, <3>2, <3>4
    <2> QED
      BY <2>4, <2>5
  <1> QED
    BY <1>8, <1>10, <1>11, <1>12, <1>13

LEMMA StoreKeyKey ==
  ASSUME KeyInv, NEW c \in Calls, StoreKey(c)
  PROVE  KeyInv'
  <1> USE DEF KeyInv
  <1> DEFINE k == call[c].key
             i == call[c].id
  <1>0. None \notin Int /\ None \notin Keys /\ Ids \subseteq Int
    BY RecordsAssumption DEF Ids
  <1>1. /\ call[c].op = "create" /\ call[c].at = "key" /\ k \in Keys /\ i \in Ids \cup {None}
        /\ (i # None => Given(i) /\ madeBy[i] = k)
        /\ open \in [Keys -> SUBSET Calls] /\ call \in [Calls -> CallRec]
        /\ keys \in [Keys -> Ids \cup {None}]
        /\ UNCHANGED <<rows, nextId, steady, scan, stops, madeBy, crossed>>
    BY DEF StoreKey, Is, Table, CallInv, Carries, TypeOK, CallRec
  <1>2. /\ \E at \in {"returned", "raised"} : Leave(c, at, i) /\ (at = "returned" => i # None)
        /\ keys' \in [Keys -> Ids \cup {None}] /\ \A x \in Keys : x # k => keys'[x] = keys[x]
        /\ keys'[k] = IF keys[k] = None THEN i ELSE keys[k]
    BY <1>1 DEF StoreKey
  <1>3. /\ call' \in [Calls -> CallRec] /\ open' \in [Keys -> SUBSET Calls]
        /\ \A d \in Calls : d # c => call'[d] = call[d]
        /\ call'[c].at \in {"returned", "raised"} /\ (call'[c].at = "returned" => i # None)
        /\ call'[c].op = "create" /\ call'[c].row = call[c].row
        /\ call'[c].key = k /\ call'[c].id = i
        /\ \A x \in Keys : open'[x] = open[x] \ {c}
    <2>1. PICK at \in {"returned", "raised"} : Leave(c, at, i) /\ (at = "returned" => i # None)
      BY <1>2
    <2>2. at \in Places
      BY DEF Places
    <2> QED
      BY <1>1, <2>1, <2>2, LeaveFacts
  <1>4. TypeOK'
    BY <1>1, <1>2, <1>3 DEF TypeOK, CallRec
  <1>5. CallInv'
    BY <1>1, <1>3 DEF CallInv, Carries, Given
  <1>6. TableInv'
    <2> SUFFICES ASSUME NEW x \in Keys, keys'[x] # None
                 PROVE  keys'[x] < nextId /\ madeBy[keys'[x]] = x
      BY <1>1 DEF TableInv, TypeOK
    <2> QED
      BY <1>1, <1>2 DEF TableInv, Given
  <1>7. OpenInv'
    BY <1>1, <1>3, Closing DEF Creating
  <1>8. SingleInv'
    <2> SUFFICES ASSUME NEW x \in Keys \ crossed
                 PROVE  /\ \A j \in Live : madeBy[j] = x =>
                             keys'[x] = j \/ \E d \in open'[x] : call'[d].at = "key" /\ call'[d].id = j
                        /\ \A d \in open'[x] :
                             /\ call'[d].at \in {"insert", "key"} => keys'[x] = None
                             /\ call'[d].at \in {"lookupRow", "cleanup"} => keys'[x] = call'[d].id
                             /\ call'[d].at = "cleanup" => rows[call'[d].id] = None
      BY <1>1 DEF SingleInv, Live
    <2>1. \A d \in open[x] : d \in Calls /\ call[d].key = x
      BY <1>1 DEF OpenInv
    <2>2. CASE x # k
      BY <1>1, <1>2, <1>3, <2>1, <2>2 DEF SingleInv
    <2>3. CASE x = k
      <3>1. c \in open[k] /\ (\A d \in open[k] : d = c) /\ open'[k] = {}
        BY <1>1, <1>3, <2>3 DEF OpenInv, Creating
      <3>2. keys[k] = None
        BY <1>1, <2>3, <3>1 DEF SingleInv
      <3>3. \A j \in Live : madeBy[j] = k => j = i
        BY <1>0, <1>1, <2>3, <3>1, <3>2 DEF SingleInv, Live
      <3> QED
        BY <1>2, <2>3, <3>1, <3>2, <3>3
    <2> QED
      BY <2>2, <2>3
  <1> QED
    BY <1>4, <1>5, <1>6, <1>7, <1>8

LEMMA StopKey ==
  ASSUME KeyInv, Stop
  PROVE  KeyInv'
  <1> USE DEF KeyInv
  <1>1. /\ UNCHANGED <<rows, nextId, steady, keys, scan, madeBy, open>>
        /\ stops' = stops + 1 /\ stops < MaxStops /\ stops \in 0..MaxStops
        /\ crossed' = crossed \cup {k \in Keys : open[k] # {}}
        /\ call \in [Calls -> CallRec] /\ open \in [Keys -> SUBSET Calls]
        /\ call' = [c \in Calls |-> IF call[c].at \in Ended \cup {"idle"} THEN call[c]
                                    ELSE [call[c] EXCEPT !.at = "lost"]]
    BY DEF Stop, Table, TypeOK, CallRec
  <1>2. /\ call' \in [Calls -> CallRec]
        /\ \A c \in Calls :
             /\ call'[c].op = call[c].op /\ call'[c].row = call[c].row
             /\ call'[c].key = call[c].key /\ call'[c].id = call[c].id
             /\ call'[c].at = IF call[c].at \in Ended \cup {"idle"} THEN call[c].at ELSE "lost"
    BY <1>1 DEF CallRec, Places
  <1>3. TypeOK'
    <2>1. stops' \in 0..MaxStops
      BY <1>1, RecordsAssumption
    <2>2. crossed' \subseteq Keys
      BY <1>1 DEF TypeOK
    <2> QED
      BY <1>1, <1>2, <2>1, <2>2 DEF TypeOK, CallRec
  <1>4. CallInv'
    <2> SUFFICES ASSUME NEW c \in Calls PROVE Carries(c)'
      BY DEF CallInv
    <2> QED
      BY <1>1, <1>2 DEF CallInv, Carries, Given, Ended
  <1>5. TableInv'
    BY <1>1 DEF TableInv, TypeOK
  <1>6. OpenInv'
    <2> SUFFICES ASSUME NEW x \in Keys
                 PROVE  /\ \A d \in open[x] :
                             /\ call'[d].op = "create" /\ call'[d].key = x
                             /\ call'[d].at \in Creating \/ (call'[d].at = "lost" /\ x \in crossed')
                        /\ \A d \in Calls :
                             call'[d].op = "create" /\ call'[d].key = x /\ call'[d].at \in Creating
                               => d \in open[x]
                        /\ x \notin crossed' => \A d, e \in open[x] : d = e
      BY <1>1 DEF OpenInv
    <2>1. x \notin crossed' => open[x] = {}
      BY <1>1
    <2> QED
      BY <1>1, <1>2, <2>1 DEF OpenInv, Creating, Ended
  <1>7. SingleInv'
    <2>1. \A x \in Keys \ crossed' : x \notin crossed /\ open[x] = {} /\ open'[x] = {}
      BY <1>1
    <2> QED
      BY <1>1, <2>1 DEF SingleInv, Live
  <1> QED
    BY <1>3, <1>4, <1>5, <1>6, <1>7

(* Nor does a step of any other call touch them. *)
LEMMA OtherKey ==
  ASSUME KeyInv, NEW c \in Calls, UNCHANGED <<KeyVars, stops>>,
         call' \in [Calls -> CallRec], \A d \in Calls : d # c => call'[d] = call[d],
         scan' \in [Calls -> ScanRec], \A d \in Calls : d # c => scan'[d] = scan[d],
         rows' \in [Ids -> Row \cup {None}], steady' \in [Calls -> SUBSET Ids],
         \A i \in Ids : rows'[i] # None => rows[i] # None,
         call[c].op # "create", call'[c].op # "create", Carries(c)'
  PROVE  KeyInv'
  <1> USE DEF KeyInv
  <1>1. TypeOK'
    BY DEF TypeOK, KeyVars, CallRec, ScanRec
  <1>2. CallInv'
    <2> SUFFICES ASSUME NEW d \in Calls PROVE Carries(d)'
      BY DEF CallInv
    <2>1. CASE d # c
      BY <2>1 DEF CallInv, Carries, Given, KeyVars
    <2> QED
      BY <2>1
  <1>3. TableInv' /\ OpenInv' /\ SingleInv'
    BY OtherCalls DEF KeyVars
  <1> QED
    BY <1>1, <1>2, <1>3

LEMMA StartOnKey ==
  ASSUME KeyInv, NEW c \in Calls, NEW i \in 1..(nextId - 1),
         NEW op \in {"update", "delete"}, NEW patch \in Row \cup {None},
         op = "update" => patch \in Row,
         StartOn(c, op, IF op = "update" THEN "read" ELSE "delete", i, patch)
  PROVE  KeyInv'
  <1> DEFINE at == IF op = "update" THEN "read" ELSE "delete"
  <1>1. /\ i \in Ids /\ i < nextId
        /\ call \in [Calls -> CallRec] /\ scan \in [Calls -> ScanRec]
        /\ call[c].op = "none" /\ UNCHANGED <<KeyVars, stops, rows, steady, scan>>
    BY RecordsAssumption
       DEF KeyInv, TypeOK, CallInv, Carries, StartOn, Table, Idle, Ids, KeyVars, CallRec, ScanRec
  <1>2. /\ call' \in [Calls -> CallRec] /\ \A d \in Calls : d # c => call'[d] = call[d]
        /\ call'[c].op = op /\ call'[c].at = at /\ call'[c].row = patch /\ call'[c].id = i
    BY <1>1 DEF StartOn, CallRec, Places
  <1>3. Carries(c)'
    BY <1>1, <1>2 DEF Carries, Given, KeyVars
  <1> QED
    BY <1>1, <1>2, <1>3, OtherKey DEF KeyInv, TypeOK

(* A step of an update, a delete or a scan that only goes on. *)
LEMMA GoOnKey ==
  ASSUME KeyInv, NEW c \in Calls, NEW at \in Places, Goto(c, at),
         UNCHANGED <<KeyVars, stops>>,
         scan' \in [Calls -> ScanRec], \A d \in Calls : d # c => scan'[d] = scan[d],
         rows' \in [Ids -> Row \cup {None}], steady' \in [Calls -> SUBSET Ids],
         \A i \in Ids : rows'[i] # None => rows[i] # None,
         \/ call[c].op = "update" /\ at \in {"read", "write", "reread", "returned"}
         \/ call[c].op = "delete" /\ at = "returned"
         \/ call[c].op = "scan" /\ at \in {"page", "returned"} /\ scan'[c].query = scan[c].query
  PROVE  KeyInv'
  <1>1. call \in [Calls -> CallRec]
    BY DEF KeyInv, TypeOK, CallRec
  <1>2. /\ call' \in [Calls -> CallRec] /\ \A d \in Calls : d # c => call'[d] = call[d]
        /\ call'[c].at = at /\ call'[c].op = call[c].op /\ call'[c].row = call[c].row
        /\ call'[c].key = call[c].key /\ call'[c].id = call[c].id
    BY <1>1, GotoFacts
  <1>3. Carries(c)'
    BY <1>2 DEF KeyInv, CallInv, Carries, Given, KeyVars
  <1> QED
    BY <1>2, <1>3, OtherKey

LEMMA UpdateReadKey ==
  ASSUME KeyInv, NEW c \in Calls, UpdateRead(c)
  PROVE  KeyInv'
  <1>1. PICK at \in {"write", "returned"} : Goto(c, at)
    BY DEF UpdateRead
  <1>2. at \in Places
    BY DEF Places
  <1>3. UNCHANGED <<KeyVars, stops, rows, steady, scan>> /\ call[c].op = "update"
    BY DEF UpdateRead, Is, Table, Idle, KeyVars
  <1>4. /\ scan \in [Calls -> ScanRec] /\ rows \in [Ids -> Row \cup {None}]
        /\ steady \in [Calls -> SUBSET Ids]
    BY DEF KeyInv, TypeOK, ScanRec
  <1> QED
    BY <1>1, <1>2, <1>3, <1>4, GoOnKey

LEMMA UpdateWriteFacts ==
  ASSUME KeyInv, NEW c \in Calls, UpdateWrite(c)
  PROVE  /\ call[c].op = "update" /\ call[c].id \in Ids
         /\ \/ /\ rows[call[c].id] # None
               /\ \E r \in Row : Put(call[c].id, r)
            \/ UNCHANGED <<rows, steady>>
         /\ rows' \in [Ids -> Row \cup {None}] /\ steady' \in [Calls -> SUBSET Ids]
         /\ \A i \in Ids : rows'[i] # None <=> rows[i] # None
  <1> DEFINE i == call[c].id
             r == Patched(rows[i], call[c].row)
  <1>1. call[c].op = "update" /\ i \in Ids /\ call[c].row \in Row
    BY DEF UpdateWrite, Is, KeyInv, CallInv, Carries, Given
  <1>2. rows \in [Ids -> Row \cup {None}] /\ steady \in [Calls -> SUBSET Ids] /\ None \notin Row
    BY RecordsAssumption DEF KeyInv, TypeOK
  <1>3. CASE rows[i] # None /\ Put(i, r)
    <2>1. r \in Row
      BY <1>1, <1>2, <1>3, PatchedFacts
    <2> HIDE DEF r, i
    <2> QED
      BY <1>1, <1>2, <1>3, <2>1, PutFacts DEF i
  <1>4. CASE rows[i] = None /\ UNCHANGED <<rows, steady>>
    BY <1>1, <1>2, <1>4
  <1> QED
    BY <1>3, <1>4 DEF UpdateWrite

LEMMA UpdateWriteKey ==
  ASSUME KeyInv, NEW c \in Calls, UpdateWrite(c)
  PROVE  KeyInv'
  <1>1. Goto(c, "reread") /\ "reread" \in Places
    BY DEF UpdateWrite, Places
  <1>2. UNCHANGED <<KeyVars, stops, scan>> /\ scan \in [Calls -> ScanRec]
    BY DEF UpdateWrite, Idle, KeyVars, KeyInv, TypeOK, ScanRec
  <1> QED
    BY <1>1, <1>2, UpdateWriteFacts, GoOnKey

LEMMA UpdateRereadKey ==
  ASSUME KeyInv, NEW c \in Calls, UpdateReread(c)
  PROVE  KeyInv'
  <1>1. Goto(c, "returned") /\ "returned" \in Places
    BY DEF UpdateReread, Places
  <1>2. UNCHANGED <<KeyVars, stops, rows, steady, scan>> /\ call[c].op = "update"
    BY DEF UpdateReread, Is, Table, Idle, KeyVars
  <1>3. /\ scan \in [Calls -> ScanRec] /\ rows \in [Ids -> Row \cup {None}]
        /\ steady \in [Calls -> SUBSET Ids]
    BY DEF KeyInv, TypeOK, ScanRec
  <1> QED
    BY <1>1, <1>2, <1>3, GoOnKey

LEMMA DeleteFacts ==
  ASSUME KeyInv, NEW c \in Calls, Delete(c)
  PROVE  /\ call[c].op = "delete" /\ call[c].id \in Ids /\ Put(call[c].id, None)
         /\ rows' \in [Ids -> Row \cup {None}] /\ steady' \in [Calls -> SUBSET Ids]
         /\ \A i \in Ids : rows'[i] # None => rows[i] # None
  <1>1. call[c].op = "delete" /\ call[c].id \in Ids /\ Put(call[c].id, None)
    BY DEF Delete, Is, KeyInv, CallInv, Carries, Given
  <1>2. rows \in [Ids -> Row \cup {None}] /\ steady \in [Calls -> SUBSET Ids]
    BY DEF KeyInv, TypeOK
  <1> QED
    BY <1>1, <1>2, PutFacts

LEMMA DeleteKey ==
  ASSUME KeyInv, NEW c \in Calls, Delete(c)
  PROVE  KeyInv'
  <1>1. Goto(c, "returned") /\ "returned" \in Places
    BY DEF Delete, Places
  <1>2. UNCHANGED <<KeyVars, stops, scan>> /\ scan \in [Calls -> ScanRec]
    BY DEF Delete, Idle, KeyVars, KeyInv, TypeOK, ScanRec
  <1> QED
    BY <1>1, <1>2, DeleteFacts, GoOnKey

LEMMA StartScanFacts ==
  ASSUME KeyInv, NEW c \in Calls, NEW q \in Queries, StartScan(c, q)
  PROVE  /\ call[c].at = "idle" /\ call[c].op = "none"
         /\ UNCHANGED <<KeyVars, stops, rows>>
         /\ call' \in [Calls -> CallRec] /\ \A d \in Calls : d # c => call'[d] = call[d]
         /\ call'[c].op = "scan" /\ call'[c].at = "page"
         /\ scan' \in [Calls -> ScanRec] /\ \A d \in Calls : d # c => scan'[d] = scan[d]
         /\ scan'[c].query = q /\ scan'[c].cursor = None /\ scan'[c].seen = <<>>
         /\ steady' \in [Calls -> SUBSET Ids] /\ \A d \in Calls : d # c => steady'[d] = steady[d]
         /\ steady'[c] = {i \in Live : Matches(i, q.pred)}
  <1>1. /\ call \in [Calls -> CallRec] /\ scan \in [Calls -> ScanRec]
        /\ steady \in [Calls -> SUBSET Ids] /\ call[c].at = "idle"
    BY DEF KeyInv, TypeOK, CallRec, ScanRec, StartScan
  <1>2. call[c].op = "none" /\ UNCHANGED <<KeyVars, stops, rows>>
    BY <1>1 DEF KeyInv, CallInv, Carries, StartScan, Idle, KeyVars
  <1>3. /\ call' \in [Calls -> CallRec] /\ \A d \in Calls : d # c => call'[d] = call[d]
        /\ call'[c].op = "scan" /\ call'[c].at = "page"
    <2>1. [NoCall EXCEPT !.op = "scan", !.at = "page"] \in CallRec
      BY DEF NoCall, CallRec, Places
    <2> QED
      BY <1>1, <2>1 DEF StartScan, NoCall
  <1>4. /\ scan' \in [Calls -> ScanRec] /\ \A d \in Calls : d # c => scan'[d] = scan[d]
        /\ scan'[c].query = q /\ scan'[c].cursor = None /\ scan'[c].seen = <<>>
    <2>1. [NoScan EXCEPT !.query = q] \in ScanRec
      <3>1. NoScan \in ScanRec
        BY DEF NoScan, ScanRec
      <3> QED
        BY <3>1 DEF ScanRec
    <2> QED
      BY <1>1, <2>1 DEF StartScan, NoScan
  <1>5. /\ steady' \in [Calls -> SUBSET Ids] /\ \A d \in Calls : d # c => steady'[d] = steady[d]
        /\ steady'[c] = {i \in Live : Matches(i, q.pred)}
    <2>1. {i \in Live : Matches(i, q.pred)} \in SUBSET Ids
      BY DEF Live
    <2>2. steady' = [steady EXCEPT ![c] = {i \in Live : Matches(i, q.pred)}]
      BY DEF StartScan
    <2> DEFINE S == {i \in Live : Matches(i, q.pred)}
    <2> HIDE DEF S
    <2> QED
      BY <1>1, <2>1, <2>2 DEF S
  <1> QED
    BY <1>1, <1>2, <1>3, <1>4, <1>5

LEMMA StartScanKey ==
  ASSUME KeyInv, NEW c \in Calls, NEW q \in Queries, StartScan(c, q)
  PROVE  KeyInv'
  <1>1. Carries(c)'
    <2>1. /\ call'[c].op = "scan" /\ call'[c].at = "page" /\ scan'[c].query \in Queries
      BY StartScanFacts
    <2> QED
      BY <2>1 DEF Carries
  <1>2. rows \in [Ids -> Row \cup {None}]
    BY DEF KeyInv, TypeOK
  <1> QED
    BY <1>1, <1>2, StartScanFacts, OtherKey

LEMMA PageKey ==
  ASSUME KeyInv, NEW c \in Calls, Page(c)
  PROVE  KeyInv'
  <1>1. PICK at \in {"page", "returned"} : Goto(c, at)
    BY DEF Page
  <1>2. at \in Places
    BY DEF Places
  <1>3. UNCHANGED <<KeyVars, stops, rows, steady>> /\ call[c].op = "scan"
    BY DEF Page, Is, Table, Idle, KeyVars
  <1>4. /\ scan' \in [Calls -> ScanRec] /\ \A d \in Calls : d # c => scan'[d] = scan[d]
        /\ scan'[c].query = scan[c].query
    BY PageFacts DEF KeyInv
  <1>5. rows \in [Ids -> Row \cup {None}] /\ steady \in [Calls -> SUBSET Ids]
    BY DEF KeyInv, TypeOK
  <1> QED
    BY <1>1, <1>2, <1>3, <1>4, <1>5, GoOnKey

(* A row that a caller may name. *)
LEMMA StartKey ==
  ASSUME KeyInv, NEW c \in Calls, Start(c)
  PROVE  KeyInv'
  <1>1. CASE \E r \in NewRows, k \in Keys \cup {None} : StartCreate(c, r, k)
    BY <1>1, StartCreateKey
  <1>2. CASE \E i \in 1..(nextId - 1), p \in Patches : StartUpdate(c, i, p)
    <2>1. PICK i \in 1..(nextId - 1), p \in Patches : StartUpdate(c, i, p)
      BY <1>2
    <2>2. p \in Row
      BY RecordsAssumption
    <2>3. StartOn(c, "update", IF "update" = "update" THEN "read" ELSE "delete", i, p)
      BY <2>1 DEF StartUpdate
    <2> QED
      BY <2>2, <2>3, StartOnKey
  <1>3. CASE \E i \in 1..(nextId - 1) : StartDelete(c, i)
    <2>1. PICK i \in 1..(nextId - 1) : StartDelete(c, i)
      BY <1>3
    <2>2. StartOn(c, "delete", IF "delete" = "update" THEN "read" ELSE "delete", i, None)
      BY <2>1 DEF StartDelete
    <2> QED
      BY <2>2, StartOnKey
  <1> QED
    BY <1>1, <1>2, <1>3 DEF Start

LEMMA NextKey == KeyInv /\ [Next]_vars => KeyInv'
  <1> SUFFICES ASSUME KeyInv, [Next]_vars PROVE KeyInv'
    OBVIOUS
  <1>1. Writers \subseteq Calls /\ Scans \subseteq Calls
    BY DEF Calls
  <1>2. CASE \E c \in Writers : Start(c)
    BY <1>1, <1>2, StartKey
  <1>3. CASE \E c \in Scans, q \in Queries : StartScan(c, q)
    BY <1>1, <1>3, StartScanKey
  <1>4. ASSUME NEW c \in Calls, Step(c) PROVE KeyInv'
    BY <1>4, LookupKey, LookupRowKey, CleanupKey, InsertKey, StoreKeyKey, UpdateReadKey,
       UpdateWriteKey, UpdateRereadKey, DeleteKey, PageKey DEF Step
  <1>5. CASE Stop
    BY <1>5, StopKey
  <1>6. CASE UNCHANGED vars
    BY <1>6 DEF vars, KeyInv, TypeOK, CallInv, Carries, Given, TableInv, OpenInv, SingleInv, Live
  <1> QED
    BY <1>2, <1>3, <1>4, <1>5, <1>6 DEF Next

LEMMA KeyCorrect == Spec => []KeyInv
  <1>1. Init => KeyInv
    BY InitKey
  <1>2. KeyInv /\ [Next]_vars => KeyInv'
    BY NextKey
  <1> QED
    BY <1>1, <1>2, PTL DEF Spec

(* Every variable of the store keeps to its type. *)
THEOREM TypeCorrect == Spec => []TypeOK
  <1>1. KeyInv => TypeOK
    BY DEF KeyInv
  <1> QED
    BY <1>1, KeyCorrect, PTL

(* Two records of one key mean that creates under it overlapped or one was  *)
(* cut off; a create that returns gives back a record of its key           *)
(* (storage_sqlite.py, create and _lookup_idempotency_record).             *)
THEOREM OneRecordCorrect == Spec => []OneRecordPerKey
  <1>1. KeyInv => OneRecordPerKey
    <2> SUFFICES ASSUME KeyInv PROVE OneRecordPerKey
      OBVIOUS
    <2>1. ASSUME NEW k \in Keys \ crossed
          PROVE  Cardinality({i \in Live : madeBy[i] = k}) <= 1
      <3> DEFINE S == {i \in Live : madeBy[i] = k}
      <3>1. \A i, j \in S : i = j
        <4>1. open[k] \subseteq Calls /\ \A c, d \in open[k] : c = d
          BY DEF KeyInv, TypeOK, OpenInv
        <4>2. \A c \in open[k] : call[c].at = "key" => keys[k] = None
          BY DEF KeyInv, SingleInv
        <4>3. \A i \in S : i # None
          BY RecordsAssumption DEF Live, Ids
        <4> QED
          BY <4>1, <4>2, <4>3 DEF KeyInv, SingleInv
      <3> HIDE DEF S
      <3>2. S = {} \/ \E i : S = {i}
        BY <3>1
      <3>3. Cardinality(S) = 0 \/ Cardinality(S) = 1
        BY <3>2, FS_EmptySet, FS_Singleton
      <3> QED
        BY <3>3 DEF S
    <2>2. ASSUME NEW c \in Calls, Is(c, "create", "returned"), call[c].key # None
          PROVE  call[c].id # None /\ madeBy[call[c].id] = call[c].key
      BY <2>2, RecordsAssumption DEF KeyInv, CallInv, Carries, Given, Is, Ids
    <2> QED
      BY <2>1, <2>2 DEF OneRecordPerKey
  <1> QED
    BY <1>1, KeyCorrect, PTL

(* No step brings back a row that was deleted. *)
LEMMA NextDeleted ==
  ASSUME KeyInv, [Next]_vars, NEW i \in Ids, i < nextId, rows[i] = None
  PROVE  rows'[i] = None
  <1>1. Writers \subseteq Calls /\ Scans \subseteq Calls
    BY DEF Calls
  <1>2. CASE UNCHANGED rows
    BY <1>2
  <1>3. CASE \E c \in Calls : Insert(c)
    <2>1. nextId \in Int /\ Ids \subseteq Int
      BY RecordsAssumption DEF KeyInv, TypeOK, Ids
    <2> QED
      BY <1>3, <2>1 DEF Insert, Table, Put, KeyInv, TypeOK
  <1>4. CASE \E c \in Calls : UpdateWrite(c)
    BY <1>4, UpdateWriteFacts
  <1>5. CASE \E c \in Calls : Delete(c)
    BY <1>5, DeleteFacts
  <1>6. CASE Stop
    BY <1>2, <1>6 DEF Stop, Table
  <1>7. CASE \E c \in Writers : Start(c)
    BY <1>2, <1>7 DEF Start, StartCreate, StartUpdate, StartDelete, StartOn, Table
  <1>8. CASE \E c \in Scans, q \in Queries : StartScan(c, q)
    BY <1>2, <1>8 DEF StartScan
  <1>9. ASSUME NEW c \in Calls, Step(c) PROVE rows'[i] = None
    BY <1>2, <1>3, <1>4, <1>5, <1>9
       DEF Step, Lookup, LookupRow, Cleanup, StoreKey, UpdateRead, UpdateReread, Page, Table
  <1> QED
    BY <1>2, <1>6, <1>7, <1>8, <1>9 DEF Next, vars

(* A deleted row stays deleted (AUTOINCREMENT gives no id twice, and update *)
(* stores no row that is gone).                                            *)
THEOREM DeletedCorrect == Spec => DeletedForGood
  <1>1. KeyInv /\ [Next]_vars => [\A i \in Ids : i < nextId /\ rows[i] = None => rows'[i] = None]_vars
    BY NextDeleted
  <1> QED
    BY <1>1, KeyCorrect, PTL DEF Spec, DeletedForGood
-----------------------------------------------------------------------------
(* Pages. *)

(* The rows after a cursor that holds no NULL. *)
LEMMA AfterById ==
  ASSUME NEW cursor, cursor[1] \in Int, NEW i \in Int
  PROVE  After(SortKeys(None), cursor, i) <=> cursor[1] < i
  <1>1. cursor[1] # None /\ Column(i, "id") = i /\ i # None
    BY IdColumn, RecordsAssumption
  <1>2. After(SortKeys(None), cursor, i) <=> Ahead(cursor[1], Column(i, "id"), "asc")
    BY <1>1, KeysOfId DEF After
  <1> QED
    BY <1>1, <1>2 DEF Ahead, Less

LEMMA AfterByField ==
  ASSUME NEW o, o # None, NEW cursor, cursor[1] \in Int, cursor[2] \in Int, NEW i \in Int
  PROVE  After(SortKeys(o), cursor, i) <=>
           /\ Column(i, o.field) # None
           /\ \/ Ahead(cursor[1], Column(i, o.field), o.dir)
              \/ Column(i, o.field) = cursor[1] /\ cursor[2] < i
  <1> DEFINE ks == SortKeys(o)
  <1>1. cursor[1] # None /\ cursor[2] # None /\ Column(i, "id") = i /\ i # None
    BY IdColumn, RecordsAssumption
  <1>2. After(ks, cursor, i) <=>
          \/ /\ cursor[1] # None /\ Column(i, ks[1].field) # None
             /\ Ahead(cursor[1], Column(i, ks[1].field), ks[1].dir)
          \/ /\ cursor[1] # None /\ Column(i, ks[1].field) = cursor[1]
             /\ cursor[2] # None /\ Column(i, ks[2].field) # None
             /\ Ahead(cursor[2], Column(i, ks[2].field), ks[2].dir)
    <2>1. DOMAIN ks = {1, 2} /\ 1..(1 - 1) = {} /\ 1..(2 - 1) = {1}
      BY KeysOfField
    <2> HIDE DEF ks
    <2> QED
      BY <2>1 DEF After
  <1>3. Ahead(cursor[2], Column(i, "id"), "asc") <=> cursor[2] < i
    BY <1>1 DEF Ahead, Less
  <1> QED
    BY <1>1, <1>2, <1>3, KeysOfField

(* What comes after a row that is after the cursor is after it as well. *)
LEMMA AfterTrans ==
  ASSUME NEW q \in Queries, NEW cursor, \A n \in DOMAIN SortKeys(q.order) : cursor[n] \in Int,
         NEW i \in Int, NEW j \in Int, rows[i] \in Row, rows[j] \in Row,
         After(SortKeys(q.order), cursor, i), Ordered(SortKeys(q.order), i, j),
         \A n \in DOMAIN SortKeys(q.order) : Column(j, SortKeys(q.order)[n].field) # None
  PROVE  After(SortKeys(q.order), cursor, j)
  <1>1. CASE q.order = None
    <2>1. cursor[1] \in Int
      BY <1>1, KeysOfId
    <2> QED
      BY <1>1, <2>1, AfterById, OrderedById
  <1>2. CASE q.order # None
    <2> DEFINE x == Column(i, q.order.field)
               y == Column(j, q.order.field)
               dir == q.order.dir
    <2>1. cursor[1] \in Int /\ cursor[2] \in Int /\ y # None
      BY <1>2, KeysOfField
    <2>2. x \in Int \cup {None} /\ y \in Int /\ dir \in {"asc", "desc"} /\ None \notin Int
      BY <1>2, <2>1, SortedColumn, RecordsAssumption
    <2>3. x # None /\ (Ahead(cursor[1], x, dir) \/ (x = cursor[1] /\ cursor[2] < i))
      BY <1>2, <2>1, AfterByField
    <2>4. Ahead(x, y, dir) \/ (x = y /\ i < j)
      BY <1>2, OrderedByField
    <2> HIDE DEF x, y, dir
    <2>5. Ahead(cursor[1], y, dir) \/ (y = cursor[1] /\ cursor[2] < j)
      <3>1. CASE dir = "asc"
        BY <2>1, <2>2, <2>3, <2>4, <3>1 DEF Ahead, Less
      <3>2. CASE dir = "desc"
        BY <2>1, <2>2, <2>3, <2>4, <3>2 DEF Ahead, Less
      <3> QED
        BY <2>2, <3>1, <3>2
    <2> QED
      BY <1>2, <2>1, <2>5, AfterByField DEF y, dir
  <1> QED
    BY <1>1, <1>2

(* Where neither holds a NULL, after the cursor of a row is after the row. *)
LEMMA AfterRow ==
  ASSUME NEW q \in Queries, NEW cursor, NEW i \in Int, NEW j \in Int,
         rows[i] \in Row, rows[j] \in Row,
         \A n \in DOMAIN SortKeys(q.order) :
           /\ cursor[n] = Column(i, SortKeys(q.order)[n].field) /\ cursor[n] \in Int
           /\ Column(j, SortKeys(q.order)[n].field) # None
  PROVE  After(SortKeys(q.order), cursor, j) <=> Ordered(SortKeys(q.order), i, j)
  <1>0. Column(i, "id") = i
    BY IdColumn
  <1>1. CASE q.order = None
    <2>1. cursor[1] = i
      BY <1>0, <1>1, KeysOfId
    <2> QED
      BY <1>1, <2>1, AfterById, OrderedById
  <1>2. CASE q.order # None
    <2>1. cursor[1] = Column(i, q.order.field) /\ cursor[2] = i /\ cursor[1] \in Int
          /\ Column(j, q.order.field) # None
      BY <1>0, <1>2, KeysOfField
    <2>2. After(SortKeys(q.order), cursor, j) <=>
            Ahead(cursor[1], Column(j, q.order.field), q.order.dir)
            \/ (Column(j, q.order.field) = cursor[1] /\ cursor[2] < j)
      BY <1>2, <2>1, AfterByField
    <2>3. Ordered(SortKeys(q.order), i, j) <=>
            Ahead(Column(i, q.order.field), Column(j, q.order.field), q.order.dir)
            \/ (Column(i, q.order.field) = Column(j, q.order.field) /\ i < j)
      BY <1>2, OrderedByField
    <2> QED
      BY <2>1, <2>2, <2>3
  <1> QED
    BY <1>1, <1>2

(* What is said of a row depends on that row only. *)
LEMMA SameRow ==
  ASSUME NEW i, rows'[i] = rows[i]
  PROVE  /\ \A f : Column(i, f)' = Column(i, f)
         /\ \A p : Matches(i, p)' <=> Matches(i, p)
         /\ \A ks, cursor : After(ks, cursor, i)' <=> After(ks, cursor, i)
         /\ \A j : rows'[j] = rows[j] => \A ks : Ordered(ks, i, j)' <=> Ordered(ks, i, j)
  <1>1. \A f : Column(i, f)' = Column(i, f)
    BY DEF Column
  <1>2. \A p : Matches(i, p)' <=> Matches(i, p)
    BY DEF Matches
  <1>3. \A ks, cursor : After(ks, cursor, i)' <=> After(ks, cursor, i)
    BY DEF After, Column
  <1>4. \A j : rows'[j] = rows[j] => \A ks : Ordered(ks, i, j)' <=> Ordered(ks, i, j)
    BY DEF Ordered, Column
  <1> QED
    BY <1>1, <1>2, <1>3, <1>4

(* A step that is not of scan c, or cuts it off, leaves what it collected:  *)
(* the rows it should find are as they were, or no longer counted.         *)
LEMMA Quiet ==
  ASSUME NEW c \in Calls, KeyInv, call[c].op = "scan", call'[c].op = "scan",
         call'[c].at \in {call[c].at, "lost"}, scan'[c] = scan[c],
         \A i \in steady'[c] : i \in steady[c] /\ rows'[i] = rows[i]
  PROVE  /\ (\A i \in steady[c] : i \in Live /\ Matches(i, scan[c].query.pred)) =>
              (\A i \in steady'[c] : i \in Live' /\ Matches(i, scan[c].query.pred)')
         /\ Collected(c) => Collected(c)'
  <1> DEFINE ks == SortKeys(scan[c].query.order)
  <1>1. Ks(c)' = Ks(c)
    BY DEF Ks, SortKeys
  <1>2. \A i \in Sure(c)' : i \in Sure(c) /\ rows'[i] = rows[i]
    <2> SUFFICES ASSUME NEW i \in Sure(c)' PROVE i \in Sure(c) /\ rows'[i] = rows[i]
      OBVIOUS
    <2>1. i \in steady'[c] /\ i \in steady[c] /\ rows'[i] = rows[i]
      BY DEF Sure
    <2>2. \A f : Column(i, f)' = Column(i, f)
      BY <2>1, SameRow
    <2>3. \A n \in DOMAIN Ks(c)' : Column(i, Ks(c)[n].field)' # None
      BY DEF Sure
    <2> QED
      BY <1>1, <2>1, <2>2, <2>3 DEF Sure
  <1>3. \A i \in Sure(c)' : (Seen(c, i)' <=> Seen(c, i)) /\ (Passed(c, i)' <=> Passed(c, i))
    <2> SUFFICES ASSUME NEW i \in Sure(c)'
                 PROVE  (Seen(c, i)' <=> Seen(c, i)) /\ (Passed(c, i)' <=> Passed(c, i))
      OBVIOUS
    <2>1. \A k, cursor : After(k, cursor, i)' <=> After(k, cursor, i)
      BY <1>2, SameRow
    <2> QED
      BY <1>1, <2>1 DEF Seen, Passed
  <1>4. InOrder(c) => InOrder(c)'
    <2> SUFFICES ASSUME InOrder(c), NEW m \in DOMAIN scan[c].seen, NEW n \in DOMAIN scan[c].seen,
                        m < n, scan[c].seen[m] \in Sure(c)', scan[c].seen[n] \in Sure(c)'
                 PROVE  Ordered(Ks(c), scan[c].seen[m], scan[c].seen[n])'
      BY DEF InOrder
    <2>1. Ordered(Ks(c), scan[c].seen[m], scan[c].seen[n])
      BY <1>2 DEF InOrder
    <2> DEFINE i == scan[c].seen[m]
               j == scan[c].seen[n]
    <2>2. i' = i /\ j' = j
      OBVIOUS
    <2>3. rows'[i] = rows[i] /\ rows'[j] = rows[j]
      BY <1>2
    <2> HIDE DEF i, j
    <2>4. \A k : Ordered(k, i, j)' <=> Ordered(k, i, j)
      BY <2>2, <2>3 DEF Ordered, Column
    <2> QED
      BY <1>1, <2>1, <2>4 DEF i, j
  <1>5. CursorInt(c) => CursorInt(c)'
    BY <1>1 DEF CursorInt
  <1>6. Collected(c) => Collected(c)'
    BY <1>2, <1>3, <1>4, <1>5 DEF Collected
  <1>7. ASSUME \A i \in steady[c] : i \in Live /\ Matches(i, scan[c].query.pred), NEW i \in steady'[c]
        PROVE  i \in Live' /\ Matches(i, scan[c].query.pred)'
    <2>1. rows'[i] = rows[i] /\ i \in Live /\ Matches(i, scan[c].query.pred)
      BY <1>7
    <2>2. \A p : Matches(i, p)' <=> Matches(i, p)
      BY <2>1, SameRow
    <2> QED
      BY <2>1, <2>2 DEF Live
  <1> QED
    BY <1>6, <1>7

(* The scan that begins has collected nothing. *)
LEMMA StartScanOwn ==
  ASSUME KeyInv, NEW c \in Calls, NEW q \in Queries, StartScan(c, q)
  PROVE  /\ \A i \in steady'[c] : i \in Live' /\ Matches(i, scan[c].query.pred)'
         /\ Collected(c)'
  <1>1. /\ rows' = rows /\ call'[c].at = "page" /\ scan'[c].query = q
        /\ scan'[c].cursor = None /\ scan'[c].seen = <<>>
        /\ steady'[c] = {i \in Live : Matches(i, q.pred)}
    BY StartScanFacts
  <1>2. \A i \in steady'[c] : i \in Live' /\ Matches(i, scan[c].query.pred)'
    <2> SUFFICES ASSUME NEW i \in steady'[c] PROVE i \in Live' /\ Matches(i, scan[c].query.pred)'
      OBVIOUS
    <2>1. i \in Live /\ Matches(i, q.pred)
      BY <1>1
    <2>2. Live' = Live
      BY <1>1 DEF Live
    <2>3. Matches(i, q.pred)' <=> Matches(i, scan[c].query.pred)'
      BY <1>1 DEF Matches
    <2>4. \A p : Matches(i, p)' <=> Matches(i, p)
      BY <1>1, SameRow
    <2>5. Matches(i, q.pred) <=> Matches(i, scan[c].query.pred)'
      BY <1>1, <2>4 DEF Matches
    <2> QED
      BY <2>1, <2>2, <2>5
  <1>3. Collected(c)'
    BY <1>1 DEF Collected, CursorInt, Seen, Passed, InOrder
  <1> QED
    BY <1>2, <1>3

(* The scan that takes a page: what it left are the rows after its cursor. *)
LEMMA PageOwn ==
  ASSUME KeyInv, SteadyInv, NEW c \in Calls, ~scan'[c].cut, Page(c), Collected(c)
  PROVE  Collected(c)'
  <1> DEFINE s == scan[c]
             q == s.query
             ks == SortKeys(q.order)
             found == Found(s)
             more == Len(found) > Limit
             page == IF more THEN SubSeq(found, 1, Limit) ELSE found
             next == IF more THEN CursorOf(s, page[Limit]) ELSE None
             K == IF more THEN Limit ELSE Len(found)
             last == found[Limit]
  <1>1. /\ call[c].at = "page" /\ call[c].op = "scan" /\ q \in Queries
        /\ rows \in [Ids -> Row \cup {None}] /\ s.seen \in Seq(Ids)
        /\ UNCHANGED <<rows, steady>> /\ Ids \subseteq Int
    BY RecordsAssumption DEF Page, Is, Table, KeyInv, CallInv, Carries, TypeOK, Ids
  <1>2. /\ scan'[c].query = q /\ page \in Seq(Ids) /\ scan'[c].seen = s.seen \o page
        /\ more => page[Limit] = last /\ last \in Left(s)
        /\ scan'[c].cursor = next
        /\ ~s.cut /\ (more => \A n \in DOMAIN next : next[n] # None)
    BY PageFacts DEF KeyInv
  <1>3. call'[c].at = IF more THEN "page" ELSE "returned"
    BY DEF Page, Goto, KeyInv, TypeOK
  <1>4. /\ Left(s) \subseteq Ids /\ found \in Seq(Ids) /\ Len(found) \in Nat
        /\ \A n \in 1..Len(found) : found[n] \in Left(s)
        /\ \A i \in Left(s) : \E n \in 1..Len(found) : found[n] = i
        /\ \A m, n \in 1..Len(found) : m < n => Ordered(ks, found[m], found[n])
    <2>1. /\ Left(s) \subseteq Ids /\ Cardinality(Left(s)) \in Nat
          /\ found \in [1..Cardinality(Left(s)) -> Left(s)] /\ found \in Seq(Ids)
          /\ Len(found) = Cardinality(Left(s))
          /\ \A i \in Left(s) : \E n \in DOMAIN found : found[n] = i
          /\ \A m, n \in DOMAIN found : m < n => Ordered(ks, found[m], found[n])
      BY <1>1, FoundFacts
    <2> HIDE DEF found, ks, s
    <2> QED
      BY <2>1
  <1>5. \A i \in Left(s) : i \in Int /\ rows[i] \in Row
    BY <1>1, <1>4 DEF Left, Live
  <1>6. Limit \in Nat \ {0} /\ (more => Limit \in 1..Len(found))
    <2> HIDE DEF found
    <2> QED
      BY <1>4, RecordsAssumption
  <1>7. K \in 0..Len(found) /\ Len(page) = K /\ \A n \in 1..K : page[n] = found[n]
    <2> HIDE DEF found
    <2> QED
      BY <1>4, <1>6
  <1>8. Ks(c) = ks /\ Ks(c)' = ks /\ Sure(c)' = Sure(c)
    BY <1>1, <1>2 DEF Ks, Sure, Column
  <1>9. \A i \in Sure(c) :
          /\ i \in Int /\ rows[i] \in Row /\ \A n \in DOMAIN ks : Column(i, ks[n].field) # None
          /\ i \in Left(s) <=> ~Seen(c, i)
          /\ Seen(c, i) => s.cursor # None /\ ~After(ks, s.cursor, i)
    <2> SUFFICES ASSUME NEW i \in Sure(c)
                 PROVE  /\ i \in Int /\ rows[i] \in Row
                        /\ \A n \in DOMAIN ks : Column(i, ks[n].field) # None
                        /\ i \in Left(s) <=> ~Seen(c, i)
                        /\ Seen(c, i) => s.cursor # None /\ ~After(ks, s.cursor, i)
      OBVIOUS
    <2>1. i \in Live /\ Matches(i, q.pred)
      BY <1>1 DEF SteadyInv, Sure
    <2>2. Seen(c, i) <=> Passed(c, i)
      BY <1>1 DEF Collected
    <2>3. i \in Left(s) <=> (s.cursor = None \/ After(ks, s.cursor, i))
      BY <2>1 DEF Left
    <2> QED
      BY <1>1, <1>8, <2>1, <2>2, <2>3 DEF Passed, Sure, Live
  <1>10. \A i \in Left(s) : \A j \in Sure(c) : s.cursor # None /\ Ordered(ks, i, j) =>
           After(ks, s.cursor, j)
    <2> SUFFICES ASSUME NEW i \in Left(s), NEW j \in Sure(c), s.cursor # None, Ordered(ks, i, j)
                 PROVE  After(ks, s.cursor, j)
      OBVIOUS
    <2>1. \A n \in DOMAIN ks : s.cursor[n] \in Int
      BY <1>1, <1>8 DEF Collected, CursorInt
    <2>2. After(ks, s.cursor, i)
      BY DEF Left
    <2> QED
      BY <1>1, <1>5, <1>9, <2>1, <2>2, AfterTrans
  <1>11. /\ \A i : rows[i] \in Row /\ i \in Int => ~Ordered(ks, i, i)
         /\ \A i, j : rows[i] \in Row /\ rows[j] \in Row /\ i \in Int /\ j \in Int =>
              /\ i = j \/ Ordered(ks, i, j) \/ Ordered(ks, j, i)
              /\ ~(Ordered(ks, i, j) /\ Ordered(ks, j, i))
    <2>1. ASSUME NEW i, NEW j, rows[i] \in Row, rows[j] \in Row, i \in Int, j \in Int
          PROVE  /\ ~Ordered(ks, i, i) /\ (i = j \/ Ordered(ks, i, j) \/ Ordered(ks, j, i))
                 /\ ~(Ordered(ks, i, j) /\ Ordered(ks, j, i))
      <3> DEFINE S == {i, j}
      <3>1. S \in SUBSET Int /\ \A x \in S : rows[x] \in Row
        BY <2>1
      <3>2. i \in S /\ j \in S
        OBVIOUS
      <3> HIDE DEF S, ks
      <3>3. /\ \A x \in S : ~Ordered(ks, x, x)
            /\ \A x, y, z \in S : Ordered(ks, x, y) /\ Ordered(ks, y, z) => Ordered(ks, x, z)
            /\ \A x, y \in S : x = y \/ Ordered(ks, x, y) \/ Ordered(ks, y, x)
        BY <1>1, <3>1, OrderFacts DEF ks
      <3> QED
        BY <3>2, <3>3
    <2> HIDE DEF ks
    <2> QED
      BY <2>1
  <1>12. \A i : Seen(c, i)' <=> Seen(c, i) \/ \E n \in 1..K : found[n] = i
    <2> HIDE DEF K, found, page, s
    <2>1. scan'[c].seen = scan[c].seen \o page /\ scan[c].seen \in Seq(Ids) /\ page \in Seq(Ids)
      BY <1>1, <1>2 DEF s
    <2>2. K \in Nat
      BY <1>4, <1>7
    <2> SUFFICES ASSUME NEW i
                 PROVE  Seen(c, i)' <=> Seen(c, i) \/ \E n \in 1..K : found[n] = i
      OBVIOUS
    <2>3. ASSUME Seen(c, i) PROVE Seen(c, i)'
      <3>1. PICK n \in 1..Len(scan[c].seen) : scan[c].seen[n] = i
        BY <2>1, <2>3 DEF Seen
      <3>2. n \in DOMAIN scan'[c].seen /\ scan'[c].seen[n] = i
        BY <2>1, <3>1
      <3> QED
        BY <3>2 DEF Seen
    <2>4. ASSUME NEW n \in 1..K, found[n] = i PROVE Seen(c, i)'
      <3>1. Len(scan[c].seen) + n \in DOMAIN scan'[c].seen
        BY <1>7, <2>1, <2>2
      <3>2. scan'[c].seen[Len(scan[c].seen) + n] = i
        BY <1>7, <2>1, <2>2, <2>4
      <3> QED
        BY <3>1, <3>2 DEF Seen
    <2>5. ASSUME Seen(c, i)' PROVE Seen(c, i) \/ \E n \in 1..K : found[n] = i
      <3>1. PICK n \in DOMAIN scan'[c].seen : scan'[c].seen[n] = i
        BY <2>5 DEF Seen
      <3>2. CASE n \in 1..Len(scan[c].seen)
        BY <2>1, <3>1, <3>2 DEF Seen
      <3>3. CASE n \notin 1..Len(scan[c].seen)
        <4>1. n - Len(scan[c].seen) \in 1..K /\ page[n - Len(scan[c].seen)] = i
          BY <1>7, <2>1, <2>2, <3>1, <3>3
        <4> QED
          BY <1>7, <4>1
      <3> QED
        BY <3>2, <3>3
    <2> QED
      BY <2>3, <2>4, <2>5
  <1> HIDE DEF s, q, ks, found, more, page, next, K, last
  <1>13. InOrder(c)'
    <2> DEFINE old == s.seen
               seen == old \o page
    <2>1. scan'[c].seen = seen /\ old \in Seq(Ids) /\ page \in Seq(Ids) /\ K \in Nat
      BY <1>1, <1>2, <1>4, <1>7
    <2> HIDE DEF old
    <2>2. DOMAIN seen = 1..(Len(old) + K)
      <3>1. seen \in Seq(Ids) /\ Len(seen) = Len(old) + Len(page)
        BY <2>1
      <3> HIDE DEF seen
      <3> QED
        BY <1>7, <3>1
    <2>3. \A n \in 1..Len(old) : seen[n] = old[n]
      BY <2>1
    <2>4. \A n \in DOMAIN seen : n \notin 1..Len(old) =>
            n - Len(old) \in 1..K /\ seen[n] = found[n - Len(old)]
      BY <1>7, <2>1, <2>2
    <2> HIDE DEF seen
    <2> SUFFICES ASSUME NEW m \in DOMAIN seen, NEW n \in DOMAIN seen, m < n,
                        seen[m] \in Sure(c), seen[n] \in Sure(c)
                 PROVE  Ordered(ks, seen[m], seen[n])
      <3>1. \A m, n \in DOMAIN seen :
              m < n /\ seen[m] \in Sure(c) /\ seen[n] \in Sure(c) => Ordered(ks, seen[m], seen[n])
        OBVIOUS
      <3>2. \A k, i, j : Ordered(k, i, j)' <=> Ordered(k, i, j)
        BY <1>1 DEF Ordered, Column
      <3>3. \A m, n \in DOMAIN scan'[c].seen :
              m < n /\ scan'[c].seen[m] \in Sure(c)' /\ scan'[c].seen[n] \in Sure(c)' =>
                Ordered(ks, scan'[c].seen[m], scan'[c].seen[n])
        BY <1>8, <2>1, <3>1
      <3> QED
        BY <1>1, <1>8, <3>3 DEF InOrder, Ordered, Column
    <2>5. CASE n \in 1..Len(old)
      <3>1. m \in 1..Len(old)
        BY <2>1, <2>2, <2>5
      <3>2. InOrder(c) /\ DOMAIN old = 1..Len(old) /\ old = scan[c].seen
        BY <2>1 DEF Collected, old, s
      <3> QED
        BY <1>8, <2>3, <2>5, <3>1, <3>2 DEF InOrder
    <2>6. CASE m \in 1..Len(old) /\ n \notin 1..Len(old)
      <3>1. Seen(c, seen[m])
        <4>1. old = scan[c].seen /\ DOMAIN old = 1..Len(old)
          BY <2>1 DEF old, s
        <4> QED
          BY <2>3, <2>6, <4>1 DEF Seen
      <3>2. seen[n] \in Left(s)
        BY <1>4, <1>7, <2>4, <2>6
      <3>3. s.cursor # None /\ ~After(ks, s.cursor, seen[m]) /\ seen[m] \notin Left(s)
        BY <1>9, <3>1
      <3>4. ~Ordered(ks, seen[n], seen[m])
        BY <1>10, <3>2, <3>3
      <3> QED
        BY <1>9, <1>11, <3>2, <3>3, <3>4
    <2>7. CASE m \notin 1..Len(old) /\ n \notin 1..Len(old)
      <3>1. m - Len(old) < n - Len(old)
        BY <2>1, <2>2
      <3> QED
        BY <1>4, <1>7, <2>4, <2>7, <3>1
    <2> QED
      BY <2>1, <2>2, <2>5, <2>6, <2>7
  <1>14. CASE ~more
    <2>1. K = Len(found)
      BY <1>14 DEF K
    <2>2. \A i \in Sure(c) : Seen(c, i)'
      BY <1>4, <1>9, <1>12, <2>1
    <2> QED
      BY <1>3, <1>8, <1>13, <1>14, <2>2 DEF Collected
  <1>15. CASE more
    <2>1. K = Limit /\ next = CursorOf(s, last) /\ last \in Left(s) /\ last \in Ids
      BY <1>2, <1>4, <1>15 DEF K, next
    <2>2. /\ DOMAIN next = DOMAIN ks /\ next \in Seq(Int \cup {None}) /\ next # None
          /\ \A n \in DOMAIN ks : next[n] = Column(last, ks[n].field)
      <3>1. /\ CursorOf(s, last) \in Seq(Int \cup {None})
            /\ DOMAIN CursorOf(s, last) = DOMAIN ks
            /\ \A n \in DOMAIN ks : CursorOf(s, last)[n] = Column(last, ks[n].field)
        BY <1>1, <1>5, <2>1, CursorFacts DEF q, ks
      <3>2. next # None
        BY <2>1, <3>1, RecordsAssumption
      <3> QED
        BY <2>1, <3>1, <3>2
    <2>3. \A n \in DOMAIN ks : next[n] \in Int
      <3>1. \A n \in DOMAIN next : next[n] \in Int \cup {None}
        BY <2>2
      <3> QED
        BY <1>2, <1>15, <2>2, <3>1
    <2>4. \A i \in Sure(c) : After(ks, next, i) <=> Ordered(ks, last, i)
      BY <1>1, <1>5, <1>9, <2>1, <2>2, <2>3, AfterRow DEF ks
    <2>5. \A i \in Sure(c) : Seen(c, i)' <=> ~Ordered(ks, last, i)
      <3> SUFFICES ASSUME NEW i \in Sure(c) PROVE Seen(c, i)' <=> ~Ordered(ks, last, i)
        OBVIOUS
      <3>1. CASE Seen(c, i)
        BY <1>9, <1>10, <1>12, <2>1, <3>1
      <3>2. CASE ~Seen(c, i)
        <4>1. PICK n \in 1..Len(found) : found[n] = i
          BY <1>4, <1>9, <3>2
        <4>2. last = found[Limit] /\ Limit \in 1..Len(found)
          BY <1>6, <1>15 DEF last
        <4>3. CASE n < Limit
          BY <1>4, <1>5, <1>9, <1>11, <1>12, <2>1, <4>1, <4>2, <4>3
        <4>4. CASE n = Limit
          BY <1>4, <1>9, <1>11, <1>12, <2>1, <4>1, <4>2, <4>4
        <4>5. CASE n > Limit
          <5>1. Ordered(ks, last, i)
            BY <1>4, <4>1, <4>2, <4>5
          <5>2. \A m \in 1..K : found[m] # i
            BY <1>4, <1>9, <1>11, <2>1, <4>1, <4>2, <4>5
          <5> QED
            BY <1>12, <3>2, <5>1, <5>2
        <4> QED
          BY <1>4, <4>1, <4>2, <4>3, <4>4, <4>5
      <3> QED
        BY <3>1, <3>2
    <2>6. CursorInt(c)'
      BY <1>2, <1>8, <2>2, <2>3 DEF CursorInt
    <2>7. \A i \in Sure(c)' : Seen(c, i)' <=> Passed(c, i)'
      <3> SUFFICES ASSUME NEW i \in Sure(c) PROVE Seen(c, i)' <=> Passed(c, i)'
        BY <1>8
      <3>1. \A k, cursor : After(k, cursor, i)' <=> After(k, cursor, i)
        BY <1>1 DEF After, Column
      <3>2. Passed(c, i)' <=> ~After(ks, next, i)
        BY <1>1, <1>2, <1>8, <2>2 DEF Passed, After, Column
      <3> QED
        BY <2>4, <2>5, <3>2
    <2> QED
      BY <1>3, <1>13, <1>15, <2>6, <2>7 DEF Collected
  <1> QED
    BY <1>14, <1>15

(* What a step is to a scan: its beginning, its page, or quiet. *)
Still(d) ==
  /\ call[d].op = "scan" /\ call'[d].at \in {call[d].at, "lost"} /\ scan'[d] = scan[d]
  /\ \A i \in steady'[d] : i \in steady[d] /\ rows'[i] = rows[i]

(* A step of another kind of call. *)
LEMMA StillOther ==
  ASSUME KeyInv, NEW c \in Calls, NEW d \in Calls, call'[d].op = "scan",
         call[c].op # "scan", UNCHANGED scan,
         \/ \E at : Goto(c, at)
         \/ \E at, i : Leave(c, at, i)
         \/ \E at, i : call' = [call EXCEPT ![c].at = at, ![c].id = i],
         \/ UNCHANGED <<rows, steady>>
         \/ \E i \in Ids, r \in Row \cup {None} : Put(i, r)
  PROVE  Still(d)
  <1>1. call \in [Calls -> CallRec]
    BY DEF KeyInv, TypeOK, CallRec
  <1>2. d # c /\ call'[d] = call[d]
    <2>1. call'[c].op = call[c].op /\ \A e \in Calls : e # c => call'[e] = call[e]
      <3>1. CASE \E at : Goto(c, at)
        BY <1>1, <3>1 DEF Goto, CallRec
      <3>2. CASE \E at, i : Leave(c, at, i)
        BY <1>1, <3>2 DEF Leave, CallRec
      <3>3. CASE \E at, i : call' = [call EXCEPT ![c].at = at, ![c].id = i]
        BY <1>1, <3>3 DEF CallRec
      <3> QED
        BY <3>1, <3>2, <3>3
    <2> QED
      BY <2>1
  <1>3. \A i \in steady'[d] : i \in steady[d] /\ rows'[i] = rows[i]
    <2>1. CASE UNCHANGED <<rows, steady>>
      BY <2>1
    <2>2. CASE \E i \in Ids, r \in Row \cup {None} : Put(i, r)
      BY <2>2, PutFacts DEF KeyInv, TypeOK
    <2> QED
      BY <2>1, <2>2
  <1> QED
    BY <1>2, <1>3 DEF Still

LEMMA StillStart ==
  ASSUME KeyInv, NEW c \in Calls, NEW d \in Calls, Start(c), call'[d].op = "scan"
  PROVE  Still(d)
  <1>1. call \in [Calls -> CallRec]
    BY DEF KeyInv, TypeOK, CallRec
  <1>2. UNCHANGED <<rows, steady, scan>>
    BY DEF Start, StartCreate, StartUpdate, StartDelete, StartOn, Table
  <1>3. d # c /\ call'[d] = call[d]
    BY <1>1 DEF Start, StartCreate, StartUpdate, StartDelete, StartOn
  <1> QED
    BY <1>2, <1>3 DEF Still

LEMMA StillStep ==
  ASSUME KeyInv, NEW c \in Calls, NEW d \in Calls, Step(c), call'[d].op = "scan"
  PROVE  Still(d) \/ (c = d /\ Page(d))
  <1>1. CASE Lookup(c)
    <2>1. c # d /\ call'[d] = call[d]
      BY <1>1 DEF Lookup, Is, KeyInv, TypeOK, CallRec
    <2>2. UNCHANGED <<scan, rows, steady>>
      BY <1>1 DEF Lookup, Table
    <2> QED
      BY <2>1, <2>2 DEF Still
  <1>2. CASE LookupRow(c)
    <2>1. call[c].op # "scan" /\ UNCHANGED <<scan, rows, steady>>
      BY <1>2 DEF LookupRow, Is, Table
    <2>2. (\E at : Goto(c, at)) \/ \E at, i : Leave(c, at, i)
      BY <1>2 DEF LookupRow
    <2> QED
      BY <2>1, <2>2, StillOther
  <1>3. CASE Cleanup(c)
    BY <1>3, StillOther DEF Cleanup, Is, Table
  <1>4. CASE Insert(c)
    <2>1. call[c].op # "scan" /\ UNCHANGED scan
      BY <1>4 DEF Insert, Is
    <2>2. \/ \E at, i : Leave(c, at, i)
          \/ \E at, i : call' = [call EXCEPT ![c].at = at, ![c].id = i]
      BY <1>4 DEF Insert
    <2>3. \/ UNCHANGED <<rows, steady>>
          \/ \E i \in Ids, r \in Row \cup {None} : Put(i, r)
      <3>1. call[c].row \in Row /\ (nextId <= MaxId => nextId \in Ids)
        BY <1>4, RecordsAssumption DEF Insert, Is, KeyInv, TypeOK, CallInv, Carries, Ids
      <3> QED
        BY <1>4, <3>1 DEF Insert, Table
    <2> QED
      BY <2>1, <2>2, <2>3, StillOther
  <1>5. CASE StoreKey(c)
    <2>1. call[c].op # "scan" /\ UNCHANGED <<scan, rows, steady>>
      BY <1>5 DEF StoreKey, Is, Table
    <2>2. (\E at : Goto(c, at)) \/ \E at, i : Leave(c, at, i)
      BY <1>5 DEF StoreKey
    <2> QED
      BY <2>1, <2>2, StillOther
  <1>6. CASE UpdateRead(c)
    BY <1>6, StillOther DEF UpdateRead, Is, Table
  <1>7. CASE UpdateWrite(c)
    <2>1. call[c].op # "scan" /\ UNCHANGED scan /\ Goto(c, "reread")
      BY <1>7 DEF UpdateWrite, Is
    <2>2. \/ UNCHANGED <<rows, steady>>
          \/ \E i \in Ids, r \in Row \cup {None} : Put(i, r)
      BY <1>7, UpdateWriteFacts
    <2> QED
      BY <2>1, <2>2, StillOther
  <1>8. CASE UpdateReread(c)
    BY <1>8, StillOther DEF UpdateReread, Is, Table
  <1>9. CASE Delete(c)
    <2>1. call[c].op # "scan" /\ UNCHANGED scan /\ Goto(c, "returned")
      BY <1>9 DEF Delete, Is
    <2>2. call[c].id \in Ids /\ Put(call[c].id, None)
      BY <1>9, DeleteFacts
    <2> QED
      BY <2>1, <2>2, StillOther
  <1>10. CASE Page(c)
    <2>1. CASE c = d
      BY <1>10, <2>1
    <2>2. CASE c # d
      <3>1. call'[d] = call[d] /\ UNCHANGED <<rows, steady>>
        BY <1>10, <2>2 DEF Page, Goto, Table, KeyInv, TypeOK
      <3>2. scan'[d] = scan[d]
        BY <1>10, <2>2, PageFacts DEF KeyInv
      <3> QED
        BY <3>1, <3>2 DEF Still
    <2> QED
      BY <2>1, <2>2
  <1> QED
    BY <1>1, <1>2, <1>3, <1>4, <1>5, <1>6, <1>7, <1>8, <1>9, <1>10 DEF Step

LEMMA StillNext ==
  ASSUME KeyInv, [Next]_vars, NEW d \in Calls, call'[d].op = "scan"
  PROVE  Still(d) \/ Page(d) \/ \E q \in Queries : StartScan(d, q)
  <1>1. Writers \subseteq Calls /\ Scans \subseteq Calls
    BY DEF Calls
  <1>2. CASE \E c \in Writers : Start(c)
    BY <1>1, <1>2, StillStart
  <1>3. CASE \E c \in Scans, q \in Queries : StartScan(c, q)
    <2>1. PICK c \in Scans, q \in Queries : StartScan(c, q)
      BY <1>3
    <2>2. CASE c # d
      <3>1. /\ call'[d] = call[d] /\ scan'[d] = scan[d] /\ steady'[d] = steady[d] /\ rows' = rows
        BY <1>1, <2>1, <2>2, StartScanFacts
      <3> QED
        BY <3>1 DEF Still
    <2> QED
      BY <2>1, <2>2
  <1>4. CASE \E c \in Calls : Step(c)
    BY <1>4, StillStep
  <1>5. CASE Stop
    BY <1>5 DEF Stop, Table, Still, KeyInv, TypeOK, CallRec
  <1>6. CASE UNCHANGED vars
    BY <1>6 DEF vars, Still
  <1> QED
    BY <1>2, <1>3, <1>4, <1>5, <1>6 DEF Next

LEMMA NextScan == IInv /\ [Next]_vars => IInv'
  <1> SUFFICES ASSUME IInv, [Next]_vars PROVE IInv'
    OBVIOUS
  <1>1. KeyInv /\ KeyInv'
    BY NextKey DEF IInv
  <1>2. ASSUME NEW d \in Calls, call'[d].op = "scan"
        PROVE  /\ \A i \in steady'[d] : i \in Live' /\ Matches(i, scan[d].query.pred)'
               /\ ~scan'[d].cut => Collected(d)'
    <2>1. CASE Still(d)
      BY <1>1, <1>2, <2>1, Quiet DEF Still, IInv, SteadyInv, ScanInv
    <2>2. CASE \E q \in Queries : StartScan(d, q)
      BY <1>1, <2>2, StartScanOwn
    <2>3. CASE Page(d)
      <3>1. /\ call[d].op = "scan" /\ UNCHANGED <<rows, steady>>
            /\ scan'[d].query = scan[d].query /\ (~scan'[d].cut => ~scan[d].cut)
        BY <1>1, <2>3, PageFacts DEF Page, Is, Table, KeyInv
      <3>2. \A i \in steady'[d] : i \in Live' /\ Matches(i, scan[d].query.pred)'
        BY <3>1 DEF IInv, SteadyInv, Live, Matches
      <3>3. ~scan'[d].cut => Collected(d)'
        BY <1>1, <2>3, <3>1, PageOwn DEF IInv, ScanInv
      <3> QED
        BY <3>2, <3>3
    <2> QED
      BY <1>1, <1>2, <2>1, <2>2, <2>3, StillNext
  <1>3. SteadyInv' /\ ScanInv'
    BY <1>2 DEF SteadyInv, ScanInv
  <1> QED
    BY <1>1, <1>3 DEF IInv

(* A scan that has come to its end has each row that stayed as it was, once *)
(* and in the order of its query, whatever the other calls did meanwhile   *)
(* (storage_sqlite.py, query and _build_keyset_filter).                    *)
THEOREM PagesCorrect == Spec => []PagesExact
  <1>1. Init => IInv
    <2> SUFFICES ASSUME Init PROVE IInv
      OBVIOUS
    <2>1. \A c \in Calls : call[c].op # "scan"
      BY DEF Init, NoCall
    <2> QED
      BY <2>1, InitKey DEF IInv, SteadyInv, ScanInv
  <1>2. IInv => PagesExact
    <2> SUFFICES ASSUME IInv, NEW c \in Calls, Is(c, "scan", "returned"), ~scan[c].cut
                 PROVE  /\ \A i \in Sure(c) : \E n \in DOMAIN scan[c].seen : scan[c].seen[n] = i
                        /\ \A m, n \in DOMAIN scan[c].seen :
                             m < n /\ scan[c].seen[m] \in Sure(c) /\ scan[c].seen[n] \in Sure(c) =>
                               /\ scan[c].seen[m] # scan[c].seen[n]
                               /\ Ordered(Ks(c), scan[c].seen[m], scan[c].seen[n])
      BY DEF PagesExact, Sure, Ks
    <2>1. Collected(c)
      BY DEF IInv, ScanInv, Is
    <2>2. scan[c].query \in Queries
      BY DEF IInv, KeyInv, CallInv, Carries, Is
    <2>3. \A i \in Sure(c) : ~Ordered(Ks(c), i, i)
      <3>1. \A i \in Sure(c) : i \in Int /\ rows[i] \in Row
        BY RecordsAssumption DEF Sure, IInv, KeyInv, TypeOK, SteadyInv, Is, Live, Ids
      <3> DEFINE S == {i \in Sure(c) : TRUE}
      <3>2. S \in SUBSET Int /\ \A i \in S : rows[i] \in Row
        BY <3>1
      <3> HIDE DEF S
      <3>3. \A i \in S : ~Ordered(Ks(c), i, i)
        BY <2>2, <3>2, OrderFacts DEF Ks
      <3> QED
        BY <3>3 DEF S
    <2> QED
      BY <2>1, <2>3 DEF Collected, InOrder, Seen, Is
  <1> QED
    BY <1>1, <1>2, NextScan, PTL DEF Spec
=============================================================================
