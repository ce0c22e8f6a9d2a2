--------------------------- MODULE MigrationProofs ---------------------------
(***************************************************************************)
(* Proofs about Migration.tla for any packages, contents, columns and rows, *)
(* any order of the diff and any number of stops.                          *)
(***************************************************************************)
EXTENDS Migration, FiniteSetTheorems, TLAPS

(* What a migration is to make, and what is left of it. *)
New == Schema[goal]
Applying == {"apply", "copy", "drop", "rename"}
Planned == phase \in Applying \cup {"backup"}
Rem == IF phase = "backup" THEN diff ELSE todo
Changes(q) == {q[i] : i \in DOMAIN q}
Left == Changes(Rem)
Cur == Head(todo).content

(* A content the rows of a safe content cascade with. *)
Steady(c) == \E b \in Contents : Safe(b) /\ Parent[b] = c /\ OnDelete[b] = "cascade"

(* A change is of a kind the package asks for: it removes what the package  *)
(* does not declare and renames what it no longer declares.                *)
Lawful(ch) ==
  /\ ch.kind = "removed" <=> New[ch.content] = None
  /\ ch.kind = "renamed" => /\ <<ch.from, ch.content>> \in Renames
                            /\ ch.from \in Contents /\ New[ch.from] = None
  /\ ch.kind = "inplace" => ch.adds # {} /\ ch.adds \subseteq New[ch.content]

Distinct(q) == \A i, j \in DOMAIN q : q[i].content = q[j].content => i = j

(* A content has one change at most, and what is renamed has none of its own.*)
Sound(q) ==
  /\ Distinct(q)
  /\ \A ch \in Changes(q) : Lawful(ch)
  /\ \A ch, other \in Changes(q) : ch.kind = "renamed" => other.content # ch.from

(* The migration sees every stored table of a content whose change is still *)
(* to come, in its transaction too.                                        *)
AwaitInv ==
  tx # None => \A ch \in Changes(todo) : phase = "apply" \/ ch # Head(todo) =>
    /\ Exists(disk.live[ch.content]) => Exists(View.live[ch.content])
    /\ Exists(disk.temp[ch.content]) => Exists(View.temp[ch.content])

(* A transaction is open only while changes are applied, and from the copy  *)
(* of a rebuild on.                                                        *)
PlanInv ==
  /\ tx # None => phase \in Applying
  /\ phase \in {"drop", "rename"} => tx # None
  /\ phase \in {"copy", "drop", "rename"} =>
       todo # <<>> /\ Head(todo).kind = "rebuild" /\ Exists(View.temp[Cur])
  /\ Planned => Sound(Rem)
  /\ AwaitInv

(* The metadata is of a package, and of the one that is served. *)
MetaInv ==
  /\ meta.schema # None => meta.made /\ \E p \in Packages : meta.schema = Schema[p]
  /\ phase = "recordRow" => meta.made
  /\ phase \in {"seed", "serving"} => meta.made /\ meta.schema = New

(* A parent has its columns or no table yet, and is at most added. *)
SteadyInv ==
  /\ \A c \in Contents : Steady(c) =>
       disk.live[c].cols \in {None, New[c]} /\ View.live[c].cols \in {None, New[c]}
  /\ Planned => \A ch \in Left : Steady(ch.content) => ch.kind = "added"

(* The content every package declares has its table once a package has been *)
(* recorded, and before that unless it is still to be made.                *)
Kept(c) == \A p \in Packages : Schema[p][c] # None
KeptInv ==
  \A c \in Contents : Kept(c) =>
    /\ meta.schema # None => Exists(disk.live[c])
    /\ phase \in {"record", "recordRow", "seed", "serving"} => Exists(disk.live[c])
    /\ Planned => \/ Exists(View.live[c])
                  \/ (phase = "rename" /\ c = Cur)
                  \/ (meta.schema = None /\ \E ch \in Left : ch.content = c)

(* No rows without a table, and none in a rebuild table but for the one that *)
(* is copied in a transaction.                                             *)
RowsInv ==
  /\ \A c \in Contents :
       /\ disk.temp[c].rows = {}
       /\ View.temp[c].rows = {} \/ (phase \in {"drop", "rename"} /\ c = Cur)
       /\ ~Exists(disk.live[c]) => disk.live[c].rows = {}
       /\ ~Exists(View.live[c]) => View.live[c].rows = {}
  /\ seeds # <<>> => phase = "seed"
  /\ \A i \in DOMAIN seeds : Exists(disk.live[ContentOf[seeds[i]]])

(* The rows that are to be kept are where they belong, or on their way.     *)
SafeInv ==
  \A r \in written : Safe(ContentOf[r]) =>
    LET c == ContentOf[r] IN
    /\ r \in disk.live[c].rows
    /\ (phase = "rename" /\ c = Cur) \/ r \in View.live[c].rows
    /\ phase \in {"drop", "rename"} /\ c = Cur => r \in View.temp[c].rows

(* A migration that can lose rows has a backup of all of them.              *)
BackInv ==
  /\ written \subseteq LiveRows(disk) \cup backedUp
  /\ phase \in Applying =>
       \/ written \subseteq backedUp
       \/ /\ written \subseteq LiveRows(View) \cup backedUp
          /\ \A ch \in Left : ch.kind \in {"removed", "rebuild"} =>
               View.live[ch.content].rows = {} /\ View.temp[ch.content].rows = {}

(* A table of columns has, recorded as was, with a rebuild table of columns *)
(* spare, can become the table of columns new: where the diff sees nothing  *)
(* to do it is as declared, and elsewhere it is on its way there.          *)
OnItsWay(c, has, was, spare, new) ==
  /\ was = new => has = new
  /\ was = None => has \in {None, new}
  /\ new = None /\ has # None => \E p \in Packages : has = Schema[p][c]
  /\ was # None /\ new # None /\ was \subseteq new =>
       has # None /\ was \subseteq has /\ has \subseteq new
  /\ spare # None => spare = new /\ was # None /\ new # None /\ ~(was \subseteq new)

(* What a start of the package can be made of. *)
Resumable ==
  \A c \in Contents :
    OnItsWay(c, disk.live[c].cols, Recorded[c], disk.temp[c].cols, New[c])

Fits(ch) ==
  LET c == ch.content
      has == View.live[c].cols
  IN  /\ ch.kind \in {"added", "renamed"} => has \in {None, New[c]}
      /\ ch.kind = "renamed" => View.live[ch.from].cols \in {None, New[c]}
      /\ ch.kind = "inplace" => has # None /\ New[c] \ ch.adds \subseteq has /\ has \subseteq New[c]
      /\ ch.kind = "rebuild" => Recorded[c] # None /\ ~(Recorded[c] \subseteq New[c])

(* The work that is left makes the tables of the package of what there is.  *)
WorkInv ==
  /\ \A ch \in Left : Fits(ch)
  /\ \A c \in Contents :
       \/ \E ch \in Left : c = ch.content \/ (ch.kind = "renamed" /\ c = ch.from)
       \/ View.live[c].cols = New[c]
  /\ \A c \in Contents : Exists(View.temp[c]) =>
       /\ View.temp[c].cols = New[c]
       /\ \E ch \in Left : ch.content = c /\ ch.kind = "rebuild"

Settled(schema) == Shapes(disk) = schema /\ \A c \in Contents : ~Exists(disk.temp[c])

ServeInv ==
  /\ phase = "serving" => standing # "started"
  /\ standing = "served" =>
       /\ phase \in {"down", "serving"}
       /\ Settled(Recorded)
       /\ Recorded = NoSchema \/ \E p \in Packages : Recorded = Schema[p]
  /\ standing = "started" =>
       /\ Resumable
       /\ Planned => WorkInv
       /\ phase \in {"record", "recordRow", "seed"} => Settled(New)

-----------------------------------------------------------------------------
(* The diff. *)

(* Ascending enumerates a finite set of numbers, each once. *)
LEMMA AscendingFacts ==
  ASSUME NEW S \in SUBSET Nat, IsFiniteSet(S)
  PROVE  /\ Cardinality(S) \in Nat
         /\ \A k \in 1..Cardinality(S) : Ascending(S)[k] \in S
         /\ \A j, k \in 1..Cardinality(S) : Ascending(S)[j] = Ascending(S)[k] => j = k
         /\ \A i \in S : \E k \in 1..Cardinality(S) : Ascending(S)[k] = i
  <1> DEFINE N == Cardinality(S)
             Down(i) == {m \in S : m < i}
             rank == [i \in S |-> Cardinality(Down(i))]
  <1>1. N \in Nat
    BY FS_CardinalityType
  <1>2. \A i \in S : Down(i) \in SUBSET S /\ IsFiniteSet(Down(i)) /\ Cardinality(Down(i)) \in Nat
    <2> SUFFICES ASSUME NEW i \in S
                 PROVE  Down(i) \in SUBSET S /\ IsFiniteSet(Down(i)) /\ Cardinality(Down(i)) \in Nat
      OBVIOUS
    <2>1. Down(i) \in SUBSET S
      OBVIOUS
    <2> HIDE DEF Down
    <2> QED
      BY <2>1, FS_Subset, FS_CardinalityType
  <1>3. \A i \in S : Cardinality(Down(i)) \in 0..(N - 1)
    <2> SUFFICES ASSUME NEW i \in S PROVE Cardinality(Down(i)) \in 0..(N - 1)
      OBVIOUS
    <2>1. Down(i) # S
      OBVIOUS
    <2> HIDE DEF Down
    <2>2. Cardinality(Down(i)) <= N /\ Cardinality(Down(i)) # N
      BY <1>2, <2>1, FS_Subset
    <2> QED
      BY <1>1, <1>2, <2>2
  <1>4. \A i, j \in S : i < j => Cardinality(Down(i)) < Cardinality(Down(j))
    <2> SUFFICES ASSUME NEW i \in S, NEW j \in S, i < j
                 PROVE  Cardinality(Down(i)) < Cardinality(Down(j))
      OBVIOUS
    <2>0. \A m \in S : m < i => m < j
      <3> SUFFICES ASSUME NEW m \in S, m < i PROVE m < j
        OBVIOUS
      <3>1. m \in Nat /\ i \in Nat /\ j \in Nat
        OBVIOUS
      <3> QED
        BY <3>1
    <2>1. Down(i) \in SUBSET Down(j) /\ i \in Down(j) /\ i \notin Down(i)
      <3>1. i \in Nat /\ ~(i < i)
        OBVIOUS
      <3> QED
        BY <2>0, <3>1
    <2> HIDE DEF Down
    <2>2. Cardinality(Down(i)) <= Cardinality(Down(j)) /\ Cardinality(Down(i)) # Cardinality(Down(j))
      BY <1>2, <2>1, FS_Subset
    <2> QED
      BY <1>2, <2>2
  <1>5. rank \in Injection(S, 0..(N - 1))
    <2>1. rank \in [S -> 0..(N - 1)]
      BY <1>3
    <2>2. \A i, j \in S : rank[i] = rank[j] => i = j
      <3> SUFFICES ASSUME NEW i \in S, NEW j \in S, Cardinality(Down(i)) = Cardinality(Down(j))
                   PROVE  i = j
        OBVIOUS
      <3>1. i \in Nat /\ j \in Nat
        OBVIOUS
      <3> HIDE DEF Down
      <3> QED
        BY <1>2, <1>4, <3>1
    <2> HIDE DEF rank
    <2> QED
      BY <2>1, <2>2 DEF Injection, IsInjective
  <1>6. IsFiniteSet(0..(N - 1)) /\ Cardinality(0..(N - 1)) = N
    <2>1. 0 \in Int /\ N - 1 \in Int
      BY <1>1
    <2>2. (IF 0 > N - 1 THEN 0 ELSE (N - 1) - 0 + 1) = N
      BY <1>1
    <2> HIDE DEF N
    <2> QED
      BY <2>1, <2>2, FS_Interval
  <1>7. rank \in Surjection(S, 0..(N - 1))
    BY <1>5, <1>6, FS_Injection
  <1>8. \A m \in 0..(N - 1) : \E i \in S : rank[i] = m
    BY <1>7 DEF Surjection
  <1>9. \A k \in 1..N : \E i \in S : Cardinality(Down(i)) = k - 1
    BY <1>1, <1>8
  <1>10. \A k \in 1..N : Ascending(S)[k] \in S /\ Cardinality(Down(Ascending(S)[k])) = k - 1
    BY <1>9 DEF Ascending
  <1>11. \A i, j \in S : Cardinality(Down(i)) = Cardinality(Down(j)) => i = j
    <2> SUFFICES ASSUME NEW i \in S, NEW j \in S, Cardinality(Down(i)) = Cardinality(Down(j))
                 PROVE  i = j
      OBVIOUS
    <2>1. i \in Nat /\ j \in Nat
      OBVIOUS
    <2> HIDE DEF Down
    <2> QED
      BY <1>2, <1>4, <2>1
  <1> HIDE DEF N, Down
  <1>12. \A j, k \in 1..N : Ascending(S)[j] = Ascending(S)[k] => j = k
    <2> SUFFICES ASSUME NEW j \in 1..N, NEW k \in 1..N, Ascending(S)[j] = Ascending(S)[k]
                 PROVE  j = k
      OBVIOUS
    <2>1. j - 1 = k - 1 /\ j \in Int /\ k \in Int
      BY <1>10
    <2> QED
      BY <2>1
  <1>13. ASSUME NEW i \in S PROVE \E k \in 1..N : Ascending(S)[k] = i
    <2> DEFINE k == Cardinality(Down(i)) + 1
    <2>1. k \in 1..N /\ k - 1 = Cardinality(Down(i))
      BY <1>1, <1>2, <1>3
    <2> HIDE DEF k
    <2>2. Ascending(S)[k] \in S /\ Cardinality(Down(Ascending(S)[k])) = Cardinality(Down(i))
      BY <1>10, <2>1
    <2> QED
      BY <1>11, <2>1, <2>2
  <1> QED
    BY <1>1, <1>10, <1>12, <1>13 DEF N

(* What the kind of a change says of the two schemas. *)
LEMMA ChangeFields ==
  ASSUME NEW old \in Schemas, NEW new \in Schemas, NEW c \in Contents
  PROVE  /\ ChangeOf(old, new, c).content = c
         /\ ChangeOf(old, new, c).kind \in Kinds
         /\ ChangeOf(old, new, c).kind = "renamed" <=> RenamedFrom(old, new, c) # {}
  BY DEF ChangeOf, Kinds

LEMMA ChangeKinds ==
  ASSUME NEW old \in Schemas, NEW new \in Schemas, NEW c \in Contents,
         RenamedFrom(old, new, c) = {}
  PROVE  /\ ChangeOf(old, new, c).kind = "added" <=> old[c] = None
         /\ ChangeOf(old, new, c).kind = "removed" <=> old[c] # None /\ new[c] = None
         /\ ChangeOf(old, new, c).kind = "inplace" <=>
               old[c] # None /\ new[c] # None /\ old[c] \subseteq new[c]
         /\ ChangeOf(old, new, c).kind = "rebuild" <=>
               old[c] # None /\ new[c] # None /\ ~(old[c] \subseteq new[c])
  BY DEF ChangeOf

LEMMA ChangeAdds ==
  ASSUME NEW old \in Schemas, NEW new \in Schemas, NEW c \in Contents,
         ChangeOf(old, new, c).kind = "inplace", old[c] # new[c]
  PROVE  /\ old[c] # None /\ new[c] # None /\ old[c] \subseteq new[c]
         /\ ChangeOf(old, new, c).adds # {}
         /\ ChangeOf(old, new, c).adds \subseteq new[c]
         /\ new[c] \ ChangeOf(old, new, c).adds \subseteq old[c]
  <1> DEFINE ch == ChangeOf(old, new, c)
  <1>1. old[c] # None /\ new[c] # None /\ old[c] \subseteq new[c]
    BY ChangeFields, ChangeKinds
  <1>2. ch.adds = IF old[c] = None \/ new[c] = None THEN {} ELSE new[c] \ old[c]
    BY DEF ChangeOf
  <1>3. old[c] \in SUBSET Columns /\ new[c] \in SUBSET Columns
    BY <1>1 DEF Schemas
  <1> HIDE DEF ch
  <1>4. ch.adds = new[c] \ old[c]
    BY <1>1, <1>2
  <1>5. ch.adds # {}
    BY <1>1, <1>3, <1>4
  <1> QED
    BY <1>1, <1>4, <1>5 DEF ch

LEMMA ChangeFrom ==
  ASSUME NEW old \in Schemas, NEW new \in Schemas, NEW c \in Contents,
         RenamedFrom(old, new, c) # {}
  PROVE  /\ ChangeOf(old, new, c).from \in Contents
         /\ <<ChangeOf(old, new, c).from, c>> \in Renames
         /\ old[ChangeOf(old, new, c).from] # None
         /\ new[ChangeOf(old, new, c).from] = None
         /\ RenamedAway(old, new, ChangeOf(old, new, c).from)
         /\ old[c] = None /\ new[c] # None
  <1> DEFINE o == ChangeOf(old, new, c).from
  <1>1. o \in RenamedFrom(old, new, c)
    BY DEF ChangeOf
  <1>2. <<o, c>> \in Renames /\ o \in Contents /\ old[o] # None /\ new[o] = None
        /\ old[c] = None /\ new[c] # None
    BY <1>1 DEF RenamedFrom
  <1>3. RenamedAway(old, new, o)
    BY <1>1, <1>2 DEF RenamedAway
  <1> QED
    BY <1>2, <1>3

LEMMA ChangeType ==
  ASSUME NEW old \in Schemas, NEW new \in Schemas, NEW c \in Contents
  PROVE  ChangeOf(old, new, c) \in Change
  <1> DEFINE ch == ChangeOf(old, new, c)
  <1>1. ch = [content |-> ch.content, kind |-> ch.kind, from |-> ch.from, adds |-> ch.adds]
    BY DEF ChangeOf
  <1>0. old[c] \in {None} \cup SUBSET Columns /\ new[c] \in {None} \cup SUBSET Columns
    BY DEF Schemas
  <1>2. ch.content \in Contents /\ ch.kind \in Kinds
    BY ChangeFields
  <1>4. ch.adds \in SUBSET Columns
    <2>1. ch.adds = IF old[c] = None \/ new[c] = None THEN {} ELSE new[c] \ old[c]
      BY DEF ChangeOf
    <2> HIDE DEF ch
    <2> QED
      BY <1>0, <2>1
  <1>3. ch.from \in Contents \cup {None}
    <2>1. CASE RenamedFrom(old, new, c) = {}
      BY <2>1 DEF ChangeOf
    <2>2. CASE RenamedFrom(old, new, c) # {}
      BY <2>2, ChangeFrom
    <2> QED
      BY <2>1, <2>2
  <1> HIDE DEF ch
  <1> QED
    BY <1>1, <1>2, <1>3, <1>4 DEF Change, ch

(* The diff has one change for each content that differs and is not renamed.*)
LEMMA DiffFacts ==
  ASSUME order \in Orders, NEW old \in Schemas, NEW new \in Schemas
  PROVE  LET d == Diff(old, new) IN
         /\ d \in Seq(Change) /\ Distinct(d)
         /\ \A ch \in Changes(d) :
              /\ ch \in Change /\ ch = ChangeOf(old, new, ch.content)
              /\ old[ch.content] # new[ch.content] /\ ~RenamedAway(old, new, ch.content)
         /\ \A c \in Contents : old[c] # new[c] /\ ~RenamedAway(old, new, c) =>
              \E ch \in Changes(d) : ch.content = c
  <1> DEFINE ids == Changed(old, new)
             n == Cardinality(ids)
             at == Ascending(ids)
             d == Diff(old, new)
  <1>1. /\ order \in Seq(Contents)
        /\ \A c \in Contents : \E i \in DOMAIN order : \A j \in DOMAIN order : order[j] = c <=> j = i
    BY MigrationAssumption
  <1>2. /\ ids \in SUBSET Nat /\ IsFiniteSet(ids) /\ ids \subseteq DOMAIN order
        /\ \A i \in DOMAIN order : order[i] \in Contents
    <2>1. DOMAIN order = 1..Len(order) /\ Len(order) \in Nat
      BY <1>1
    <2>2. IsFiniteSet(DOMAIN order) /\ DOMAIN order \in SUBSET Nat
      BY <2>1, FS_Interval
    <2>3. ids \subseteq DOMAIN order
      BY DEF Changed
    <2> HIDE DEF ids
    <2> QED
      BY <1>1, <2>1, <2>2, <2>3, FS_Subset
  <1>3. \A i \in DOMAIN order :
          i \in ids <=> old[order[i]] # new[order[i]] /\ ~RenamedAway(old, new, order[i])
    BY DEF Changed
  <1> HIDE DEF ids
  <1>4. /\ n \in Nat /\ \A k \in 1..n : at[k] \in ids
        /\ \A j, k \in 1..n : at[j] = at[k] => j = k
        /\ \A i \in ids : \E k \in 1..n : at[k] = i
    BY <1>2, AscendingFacts
  <1>5. d = [k \in 1..n |-> ChangeOf(old, new, order[at[k]])]
    BY DEF Diff, ids
  <1> HIDE DEF n, at, d
  <1>6. ASSUME NEW k \in 1..n
        PROVE  /\ order[at[k]] \in Contents /\ d[k] \in Change /\ d[k].content = order[at[k]]
               /\ d[k] = ChangeOf(old, new, d[k].content)
               /\ old[d[k].content] # new[d[k].content]
               /\ ~RenamedAway(old, new, d[k].content)
    <2>1. at[k] \in ids /\ at[k] \in DOMAIN order /\ order[at[k]] \in Contents
      BY <1>2, <1>4
    <2>2. d[k] = ChangeOf(old, new, order[at[k]])
      BY <1>5
    <2>3. old[order[at[k]]] # new[order[at[k]]] /\ ~RenamedAway(old, new, order[at[k]])
      BY <1>3, <2>1
    <2>4. d[k] \in Change /\ d[k].content = order[at[k]]
      <3> DEFINE c == order[at[k]]
      <3>1. c \in Contents /\ old[c] # new[c] /\ d[k] = ChangeOf(old, new, c)
        BY <2>1, <2>2, <2>3
      <3> HIDE DEF c
      <3>2. ChangeOf(old, new, c) \in Change /\ ChangeOf(old, new, c).content = c
        BY <3>1, ChangeType, ChangeFields
      <3> QED
        BY <3>1, <3>2 DEF c
    <2> QED
      BY <2>1, <2>2, <2>3, <2>4
  <1>7. DOMAIN d = 1..n /\ d \in [1..n -> Change]
    BY <1>5, <1>6
  <1>8. d \in Seq(Change)
    BY <1>4, <1>7
  <1>9. Distinct(d)
    <2> SUFFICES ASSUME NEW j \in 1..n, NEW k \in 1..n, d[j].content = d[k].content
                 PROVE  j = k
      BY <1>7 DEF Distinct
    <2>1. order[at[j]] = order[at[k]] /\ order[at[j]] \in Contents
          /\ at[j] \in DOMAIN order /\ at[k] \in DOMAIN order
      BY <1>2, <1>4, <1>6
    <2>2. at[j] = at[k]
      BY <1>1, <2>1
    <2> QED
      BY <1>4, <2>2
  <1>10. ASSUME NEW c \in Contents, old[c] # new[c], ~RenamedAway(old, new, c)
         PROVE  \E ch \in Changes(d) : ch.content = c
    <2>1. PICK i \in DOMAIN order : order[i] = c
      BY <1>1
    <2>2. i \in ids
      BY <1>3, <1>10, <2>1
    <2>3. PICK k \in 1..n : at[k] = i
      BY <1>4, <2>2
    <2>4. d[k] \in Changes(d) /\ d[k].content = c
      BY <1>6, <1>7, <2>1, <2>3 DEF Changes
    <2> QED
      BY <2>4
  <1>11. \A ch \in Changes(d) : \E k \in 1..n : ch = d[k]
    BY <1>7 DEF Changes
  <1> QED
    BY <1>6, <1>8, <1>9, <1>10, <1>11 DEF d

-----------------------------------------------------------------------------
(* Sequences of changes, seen as sets. *)

LEMMA TailFacts ==
  ASSUME NEW q \in Seq(Change), q # <<>>
  PROVE  /\ Head(q) \in Change /\ Head(q) \in Changes(q)
         /\ Tail(q) \in Seq(Change) /\ Changes(Tail(q)) \subseteq Changes(q)
         /\ \A ch \in Changes(q) : ch = Head(q) \/ ch \in Changes(Tail(q))
         /\ Distinct(q) => /\ Distinct(Tail(q))
                           /\ \A ch \in Changes(Tail(q)) : ch.content # Head(q).content
  <1> DEFINE T == Change
  <1>1. q \in Seq(T) /\ q # <<>>
    OBVIOUS
  <1> HIDE DEF T
  <1>2. /\ Len(q) \in Nat \ {0} /\ DOMAIN q = 1..Len(q) /\ Head(q) = q[1]
        /\ Tail(q) \in Seq(T) /\ Len(Tail(q)) = Len(q) - 1
        /\ DOMAIN Tail(q) = 1..(Len(q) - 1)
        /\ \A i \in 1..(Len(q) - 1) : Tail(q)[i] = q[i + 1]
        /\ q[1] \in T
    BY <1>1
  <1>3. \A i \in DOMAIN Tail(q) : i + 1 \in DOMAIN q /\ i + 1 # 1 /\ Tail(q)[i] = q[i + 1]
    BY <1>2
  <1>4. 1 \in DOMAIN q
    BY <1>2
  <1>5. \A i \in DOMAIN q : i = 1 \/ (i - 1 \in DOMAIN Tail(q) /\ q[i] = Tail(q)[i - 1])
    BY <1>2
  <1>6. \A i, j \in DOMAIN Tail(q) : i + 1 = j + 1 => i = j
    BY <1>2
  <1>7. Changes(Tail(q)) \subseteq Changes(q)
    BY <1>3 DEF Changes
  <1>8. \A ch \in Changes(q) : ch = Head(q) \/ ch \in Changes(Tail(q))
    <2> SUFFICES ASSUME NEW i \in DOMAIN q
                 PROVE  q[i] = Head(q) \/ q[i] \in Changes(Tail(q))
      BY DEF Changes
    <2> QED
      BY <1>2, <1>5 DEF Changes
  <1>9. Distinct(q) => Distinct(Tail(q))
    BY <1>3, <1>6 DEF Distinct
  <1>10. Distinct(q) => \A ch \in Changes(Tail(q)) : ch.content # Head(q).content
    BY <1>2, <1>3, <1>4 DEF Distinct, Changes
  <1> QED
    BY <1>2, <1>4, <1>7, <1>8, <1>9, <1>10 DEF Changes, T

LEMMA ChangesType ==
  ASSUME NEW q \in Seq(Change), NEW ch \in Changes(q)
  PROVE  ch \in Change /\ ch.content \in Contents /\ ch.adds \in SUBSET Columns
  <1> DEFINE T == Change
  <1>1. q \in Seq(T)
    OBVIOUS
  <1> HIDE DEF T
  <1>2. PICK i \in DOMAIN q : ch = q[i]
    BY DEF Changes
  <1>3. ch \in T
    BY <1>1, <1>2
  <1> QED
    BY <1>3 DEF T, Change

LEMMA AgainFacts ==
  ASSUME NEW q \in Seq(Change), q # <<>>, NEW ch \in Change
  PROVE  /\ <<ch>> \o Tail(q) \in Seq(Change) /\ <<ch>> \o Tail(q) # <<>>
         /\ Head(<<ch>> \o Tail(q)) = ch /\ ch \in Changes(<<ch>> \o Tail(q))
         /\ Changes(Tail(q)) \subseteq Changes(<<ch>> \o Tail(q))
         /\ \A other \in Changes(<<ch>> \o Tail(q)) : other = ch \/ other \in Changes(Tail(q))
         /\ Distinct(q) /\ ch.content = Head(q).content => Distinct(<<ch>> \o Tail(q))
  <1> DEFINE T == Change
             r == <<ch>> \o Tail(q)
  <1>1. q \in Seq(T) /\ q # <<>> /\ ch \in T
    OBVIOUS
  <1> HIDE DEF T
  <1>2. Tail(q) \in Seq(T)
    BY <1>1
  <1>3. /\ r \in Seq(T) /\ r # <<>> /\ Head(r) = ch
        /\ Len(q) \in Nat \ {0} /\ DOMAIN r = 1..Len(q) /\ r[1] = ch
        /\ Tail(r) = Tail(q)
    BY <1>1, <1>2
  <1> HIDE DEF r
  <1>4. r \in Seq(Change)
    BY <1>3 DEF T
  <1>5. /\ ch \in Changes(r) /\ Changes(Tail(q)) \subseteq Changes(r)
        /\ \A other \in Changes(r) : other = ch \/ other \in Changes(Tail(q))
    BY <1>3, <1>4, TailFacts
  <1>6. ASSUME Distinct(q), ch.content = Head(q).content
        PROVE  Distinct(r)
    <2>1. Distinct(Tail(q)) /\ \A other \in Changes(Tail(q)) : other.content # ch.content
      BY <1>6, TailFacts
    <2>2. \A i \in DOMAIN r : i = 1 \/ (i - 1 \in DOMAIN Tail(q) /\ r[i] = Tail(q)[i - 1])
      <3>1. /\ Len(q) - 1 \in Nat /\ DOMAIN Tail(r) = 1..(Len(q) - 1) /\ Len(r) = Len(q)
            /\ \A i \in 1..(Len(q) - 1) : Tail(r)[i] = r[i + 1]
        BY <1>1, <1>3
      <3> QED
        BY <1>3, <3>1
    <2>3. \A i, j \in DOMAIN r : i - 1 = j - 1 => i = j
      BY <1>3
    <2>4. \A i \in DOMAIN Tail(q) : Tail(q)[i] \in Changes(Tail(q))
      BY DEF Changes
    <2>5. \A i \in DOMAIN r : i # 1 => r[i].content # ch.content
      BY <2>1, <2>2, <2>4
    <2> SUFFICES ASSUME NEW i \in DOMAIN r, NEW j \in DOMAIN r, r[i].content = r[j].content
                 PROVE  i = j
      BY DEF Distinct
    <2>6. i = 1 <=> j = 1
      BY <1>3, <2>5
    <2>7. CASE i # 1
      <3>1. i - 1 \in DOMAIN Tail(q) /\ j - 1 \in DOMAIN Tail(q)
            /\ Tail(q)[i - 1].content = Tail(q)[j - 1].content
        BY <2>2, <2>6, <2>7
      <3>2. i - 1 = j - 1
        BY <2>1, <3>1 DEF Distinct
      <3> QED
        BY <2>3, <3>2
    <2> QED
      BY <2>6, <2>7
  <1> QED
    BY <1>3, <1>4, <1>5, <1>6 DEF r

-----------------------------------------------------------------------------
(* The tables of a database. *)

PutLive(d, c, t) == [d EXCEPT !.live[c] = t]
PutTemp(d, c, t) == [d EXCEPT !.temp[c] = t]
WithRows(t, rows) == [cols |-> t.cols, rows |-> rows]
WithCols(t, cols) == [cols |-> cols, rows |-> t.rows]

LEMMA DiskType ==
  ASSUME NEW d \in Disk
  PROVE  /\ d.live \in [Contents -> Table] /\ d.temp \in [Contents -> Table]
         /\ d = [live |-> d.live, temp |-> d.temp]
  BY DEF Disk

LEMMA TableType ==
  ASSUME NEW t \in Table
  PROVE  /\ t.cols \in {None} \cup SUBSET Columns /\ t.rows \in SUBSET Rows
         /\ t = [cols |-> t.cols, rows |-> t.rows]
  BY DEF Table

LEMMA NoTableType == NoTable \in Table /\ NoTable.rows = {} /\ ~Exists(NoTable)
  BY DEF NoTable, Table, Exists

LEMMA PutLiveFacts ==
  ASSUME NEW d \in Disk, NEW c \in Contents, NEW t \in Table
  PROVE  /\ PutLive(d, c, t) \in Disk
         /\ PutLive(d, c, t).temp = d.temp
         /\ PutLive(d, c, t).live[c] = t
         /\ \A b \in Contents : b # c => PutLive(d, c, t).live[b] = d.live[b]
  <1>1. PutLive(d, c, t) = [live |-> [d.live EXCEPT ![c] = t], temp |-> d.temp]
    BY DiskType DEF PutLive
  <1>2. [d.live EXCEPT ![c] = t] \in [Contents -> Table]
    BY DiskType
  <1> QED
    BY <1>1, <1>2, DiskType DEF Disk

LEMMA PutTempFacts ==
  ASSUME NEW d \in Disk, NEW c \in Contents, NEW t \in Table
  PROVE  /\ PutTemp(d, c, t) \in Disk
         /\ PutTemp(d, c, t).live = d.live
         /\ PutTemp(d, c, t).temp[c] = t
         /\ \A b \in Contents : b # c => PutTemp(d, c, t).temp[b] = d.temp[b]
  <1>1. PutTemp(d, c, t) = [live |-> d.live, temp |-> [d.temp EXCEPT ![c] = t]]
    BY DiskType DEF PutTemp
  <1>2. [d.temp EXCEPT ![c] = t] \in [Contents -> Table]
    BY DiskType
  <1> QED
    BY <1>1, <1>2, DiskType DEF Disk

LEMMA CreatedFacts ==
  ASSUME NEW t \in Table, NEW cols \in {None} \cup SUBSET Columns
  PROVE  /\ Created(t, cols) \in Table
         /\ Exists(t) => Created(t, cols) = t
         /\ ~Exists(t) => Created(t, cols).cols = cols /\ Created(t, cols).rows = {}
  BY DEF Created, Table, Exists

LEMMA WithRowsType ==
  ASSUME NEW t \in Table, NEW rows \in SUBSET Rows
  PROVE  WithRows(t, rows) \in Table
  BY TableType DEF WithRows, Table

LEMMA WithRowsIs ==
  ASSUME NEW t \in Table, NEW rows
  PROVE  [t EXCEPT !.rows = rows] = WithRows(t, rows)
  BY TableType DEF WithRows

LEMMA WithColsType ==
  ASSUME NEW t \in Table, NEW cols \in {None} \cup SUBSET Columns
  PROVE  WithCols(t, cols) \in Table
  BY TableType DEF WithCols, Table

LEMMA DroppedFacts ==
  ASSUME NEW d \in Disk, NEW c \in Contents
  PROVE  /\ Dropped(d, c) \in Disk
         /\ Dropped(d, c).temp = d.temp
         /\ Dropped(d, c).live[c] = NoTable
         /\ \A b \in Contents : b # c =>
              /\ Dropped(d, c).live[b].cols = d.live[b].cols
              /\ \A r \in Rows : r \in Dropped(d, c).live[b].rows
                                   <=> r \in d.live[b].rows /\ r \notin Referring(d, c)
              /\ Dropped(d, c).live[b].rows \in SUBSET d.live[b].rows
  <1> DEFINE t(b) == [d.live[b] EXCEPT !.rows = @ \ Referring(d, c)]
             new == [b \in Contents |-> IF b = c THEN NoTable ELSE t(b)]
  <1>4. \A b \in Contents : /\ t(b) \in Table /\ t(b).cols = d.live[b].cols
                            /\ t(b).rows = d.live[b].rows \ Referring(d, c)
    <2> SUFFICES ASSUME NEW b \in Contents
                 PROVE  /\ t(b) \in Table /\ t(b).cols = d.live[b].cols
                        /\ t(b).rows = d.live[b].rows \ Referring(d, c)
      OBVIOUS
    <2> DEFINE old == d.live[b]
               gone == Referring(d, c)
    <2>1. /\ old = [cols |-> old.cols, rows |-> old.rows]
          /\ old.cols \in {None} \cup SUBSET Columns /\ old.rows \in SUBSET Rows
      BY DiskType, TableType
    <2> HIDE DEF old, gone
    <2>2. [old EXCEPT !.rows = @ \ gone] = [cols |-> old.cols, rows |-> old.rows \ gone]
      BY <2>1
    <2>3. [cols |-> old.cols, rows |-> old.rows \ gone] \in Table
      BY <2>1 DEF Table
    <2> QED
      BY <2>2, <2>3 DEF old, gone
  <1>5. Dropped(d, c) = [live |-> new, temp |-> d.temp]
    <2>1. Dropped(d, c) = [d EXCEPT !.live = new]
      BY DEF Dropped
    <2>2. d = [live |-> d.live, temp |-> d.temp]
      BY DiskType
    <2> HIDE DEF new
    <2> QED
      BY <2>1, <2>2
  <1> HIDE DEF t
  <1>6. new \in [Contents -> Table]
    BY <1>4, NoTableType
  <1> QED
    BY <1>4, <1>5, <1>6, DiskType DEF Disk

-----------------------------------------------------------------------------
(* The steps, one form for each. *)

Working == UNCHANGED <<order, meta, goal, diff, counts, seeds, faults, written,
                       backedUp, standing>>
Done == todo' = Tail(todo) /\ phase' = "apply" /\ Working
Stays(p) == todo' = todo /\ phase' = p /\ Working

(* What the migration sees becomes d, at once or in its transaction. *)
Alters(d) == /\ d \in Disk /\ View' = d
             /\ tx = None => disk' = d /\ tx' = None
             /\ tx # None => disk' = disk /\ tx' \in Disk /\ tx' # None

Stop == /\ disk' = disk /\ tx' = None /\ View' = disk
        /\ phase # "down" /\ phase' = "down"
        /\ phase = "seed" /\ seeds # <<>> => seeds' = <<>>
        /\ seeds' \in {seeds, <<>>} /\ faults' \in 0..MaxFaults
        /\ UNCHANGED <<order, meta, goal, diff, todo, counts, written, backedUp, standing>>

AddedStep ==
  /\ At("added")
  /\ Alters(PutLive(View, Cur, Created(View.live[Cur], New[Cur]))) /\ Done
RemovedStep ==
  At("removed") /\ MayDrop(View, Cur) /\ Alters(Dropped(View, Cur)) /\ Done
RenamedStep ==
  /\ At("renamed") /\ Head(todo).from \in Contents
  /\ Exists(View.live[Head(todo).from]) /\ ~Exists(View.live[Cur])
  /\ Alters(PutLive(PutLive(View, Cur, View.live[Head(todo).from]), Head(todo).from, NoTable))
  /\ Done
WithoutColumn(ch, a) == [ch EXCEPT !.adds = @ \ {a}]
ColumnStep(a) ==
  /\ At("inplace") /\ a \in Head(todo).adds /\ Exists(View.live[Cur])
  /\ Alters(PutLive(View, Cur, WithCols(View.live[Cur], View.live[Cur].cols \cup {a})))
  /\ phase' = "apply" /\ Working
  /\ \/ Head(todo).adds \subseteq {a} /\ todo' = Tail(todo)
     \/ /\ ~(Head(todo).adds \subseteq {a})
        /\ todo' = <<WithoutColumn(Head(todo), a)>> \o Tail(todo)
CreateStep ==
  /\ At("rebuild")
  /\ Alters(PutTemp(View, Cur, Created(View.temp[Cur], New[Cur]))) /\ Stays("copy")
CopyStep ==
  /\ phase = "copy" /\ Exists(View.live[Cur])
  /\ disk' = disk /\ tx' # None /\ tx' \in Disk
  /\ View' = PutTemp(View, Cur, WithRows(View.temp[Cur], View.temp[Cur].rows \cup View.live[Cur].rows))
  /\ Stays("drop")
DropStep ==
  phase = "drop" /\ MayDrop(View, Cur) /\ Alters(Dropped(View, Cur)) /\ Stays("rename")
FinishStep ==
  /\ phase = "rename"
  /\ Alters(PutTemp(PutLive(View, Cur, View.temp[Cur]), Cur, NoTable)) /\ Done
CommitStep ==
  /\ phase = "apply" /\ todo = <<>>
  /\ disk' = View /\ tx' = None /\ View' = View /\ Stays("record")

(* What a step of the start that leaves the database alone does. *)
Quiet == /\ disk' = disk /\ tx' = tx /\ View' = View
         /\ UNCHANGED <<order, faults, written, counts>>

StoredStep(r) ==
  /\ phase \in {"seed", "serving"} /\ r \in Rows /\ Exists(disk.live[ContentOf[r]])
  /\ disk' = PutLive(disk, ContentOf[r], WithRows(disk.live[ContentOf[r]],
                                                  disk.live[ContentOf[r]].rows \cup {r}))
  /\ written' = written \cup {r}
  /\ UNCHANGED <<order, tx, meta, goal, phase, diff, todo, counts, faults, backedUp, standing>>

LEMMA ViewType ==
  ASSUME TypeOK
  PROVE  View \in Disk /\ (tx = None => View = disk) /\ (tx # None => View = tx)
  BY DEF TypeOK, View

LEMMA CurType ==
  ASSUME TypeOK, todo # <<>>
  PROVE  /\ Head(todo) \in Change /\ Cur \in Contents /\ Head(todo).adds \in SUBSET Columns
         /\ Head(todo).from \in Contents \cup {None} /\ Head(todo).kind \in Kinds
         /\ New \in Schemas /\ New[Cur] \in {None} \cup SUBSET Columns
         /\ View.live[Cur] \in Table /\ View.temp[Cur] \in Table
  <1>1. Head(todo) \in Change
    BY TailFacts DEF TypeOK
  <1>2. /\ Cur \in Contents /\ Head(todo).adds \in SUBSET Columns
        /\ Head(todo).from \in Contents \cup {None} /\ Head(todo).kind \in Kinds
    BY <1>1 DEF Change, Cur
  <1>3. New \in Schemas
    BY MigrationAssumption DEF TypeOK, New
  <1> QED
    BY <1>1, <1>2, <1>3, ViewType, DiskType DEF Schemas

LEMMA AltersFacts ==
  ASSUME TypeOK, NEW d \in Disk, Ddl(d)
  PROVE  Alters(d)
  <1>1. None \notin Disk
    BY MigrationAssumption
  <1> QED
    BY <1>1 DEF Alters, Ddl, View, TypeOK

LEMMA FailStops == ASSUME TypeOK, Fail, phase # "down", phase = "seed" => seeds = <<>>
                   PROVE  Stop
  BY DEF Fail, Goes, Stop, TypeOK, View

(* A table that is there already is created by changing nothing.            *)
LEMMA CreatedAlready ==
  ASSUME NEW d \in Disk, NEW c \in Contents, NEW cols
  PROVE  /\ Exists(d.live[c]) => PutLive(d, c, Created(d.live[c], cols)) = d
         /\ Exists(d.temp[c]) => PutTemp(d, c, Created(d.temp[c], cols)) = d
  <1>1. d.live \in [Contents -> Table] /\ d.temp \in [Contents -> Table]
        /\ d = [live |-> d.live, temp |-> d.temp]
    BY DiskType
  <1>2. /\ PutLive(d, c, d.live[c]) = [live |-> [d.live EXCEPT ![c] = d.live[c]], temp |-> d.temp]
        /\ PutTemp(d, c, d.temp[c]) = [live |-> d.live, temp |-> [d.temp EXCEPT ![c] = d.temp[c]]]
    BY <1>1 DEF PutLive, PutTemp
  <1>3. [d.live EXCEPT ![c] = d.live[c]] = d.live /\ [d.temp EXCEPT ![c] = d.temp[c]] = d.temp
    BY <1>1
  <1>4. PutLive(d, c, d.live[c]) = d /\ PutTemp(d, c, d.temp[c]) = d
    BY <1>1, <1>2, <1>3
  <1> QED
    BY <1>4 DEF Created

(* What is stored of the content of the next change is seen.               *)
LEMMA AwaitHead ==
  ASSUME TypeOK, AwaitInv, phase = "apply", todo # <<>>, tx # None
  PROVE  /\ Exists(disk.live[Cur]) => Exists(View.live[Cur])
         /\ Exists(disk.temp[Cur]) => Exists(View.temp[Cur])
  <1>1. Head(todo) \in Changes(todo)
    BY TailFacts DEF TypeOK
  <1> QED
    BY <1>1 DEF AwaitInv, Cur

LEMMA AddedCase ==
  ASSUME TypeOK, PlanInv, ApplyAdded
  PROVE  Stop \/ AddedStep
  <1>1. At("added") /\ phase = "apply" /\ todo # <<>>
    BY DEF ApplyAdded, At
  <1>2. CASE Fail
    BY <1>1, <1>2, FailStops
  <1>4. CASE tx # None /\ Exists(disk.live[Cur]) /\ UNCHANGED <<disk, tx>> /\ Next1
    <2>1. /\ View \in Disk /\ Cur \in Contents /\ Exists(View.live[Cur])
      BY <1>1, <1>4, AwaitHead, ViewType, CurType DEF PlanInv
    <2>2. PutLive(View, Cur, Created(View.live[Cur], New[Cur])) = View
      BY <2>1, CreatedAlready
    <2>3. View' = View /\ tx' = tx /\ disk' = disk /\ tx \in Disk
      BY <1>4 DEF View, TypeOK
    <2>4. Alters(View)
      BY <1>4, <2>1, <2>3 DEF Alters
    <2> QED
      BY <1>1, <1>4, <2>2, <2>4 DEF AddedStep, Next1, Goes, Done, Working
  <1>3. CASE /\ tx = None /\ tx' = tx /\ Next1
             /\ disk' = [disk EXCEPT !.live[Cur] = Created(@, New[Cur])]
    <2>1. View = disk /\ Done
      BY <1>3, ViewType DEF Next1, Goes, Done, Working
    <2>2. disk' = PutLive(disk, Cur, Created(disk.live[Cur], New[Cur]))
      BY <1>3 DEF PutLive
    <2>3. PutLive(disk, Cur, Created(disk.live[Cur], New[Cur])) \in Disk
      BY <1>1, <2>1, CurType, CreatedFacts, PutLiveFacts, ViewType
    <2>4. View' = disk'
      BY <1>3 DEF View
    <2> QED
      BY <1>1, <1>3, <2>1, <2>2, <2>3, <2>4 DEF AddedStep, Alters
  <1> QED
    BY <1>2, <1>3, <1>4 DEF ApplyAdded, Cur, New

LEMMA RemovedCase ==
  ASSUME TypeOK, ApplyRemoved
  PROVE  Stop \/ RemovedStep
  <1>1. At("removed") /\ phase = "apply" /\ todo # <<>>
    BY DEF ApplyRemoved, At
  <1>2. Dropped(View, Cur) \in Disk
    BY <1>1, CurType, ViewType, DroppedFacts
  <1>3. \/ ~MayDrop(View, Cur) /\ Fail
        \/ MayDrop(View, Cur) /\ Ddl(Dropped(View, Cur)) /\ Done
    BY DEF ApplyRemoved, Cur, Next1, Goes, Done, Working
  <1> QED
    BY <1>1, <1>2, <1>3, FailStops, AltersFacts DEF RemovedStep

LEMMA RenamedCase ==
  ASSUME TypeOK, PlanInv, ApplyRenamed
  PROVE  Stop \/ RenamedStep
  <1> DEFINE o == Head(todo).from
  <1>1. At("renamed") /\ phase = "apply" /\ todo # <<>> /\ Head(todo).kind = "renamed"
    BY DEF ApplyRenamed, At
  <1>2. o \in Contents
    <2>1. Planned /\ Rem = todo /\ Head(todo) \in Left
      BY <1>1, TailFacts DEF Planned, Applying, Rem, Left, TypeOK
    <2>2. Lawful(Head(todo))
      BY <2>1 DEF PlanInv, Sound, Left
    <2> QED
      BY <1>1, <2>2 DEF Lawful
  <1>3. Cur \in Contents /\ View \in Disk /\ View.live[o] \in Table
    BY <1>1, <1>2, CurType, ViewType, DiskType
  <1>4. /\ PutLive(View, Cur, View.live[o]) \in Disk
        /\ PutLive(PutLive(View, Cur, View.live[o]), o, NoTable) \in Disk
    BY <1>2, <1>3, PutLiveFacts, NoTableType
  <1>5. \/ Fail
        \/ /\ Exists(View.live[o]) /\ ~Exists(View.live[Cur]) /\ Done
           /\ Ddl([View EXCEPT !.live[Cur] = View.live[o], !.live[o] = NoTable])
    BY DEF ApplyRenamed, Cur, Next1, Goes, Done, Working
  <1>6. [View EXCEPT !.live[Cur] = View.live[o], !.live[o] = NoTable]
          = PutLive(PutLive(View, Cur, View.live[o]), o, NoTable)
    BY DEF PutLive
  <1> QED
    BY <1>1, <1>2, <1>4, <1>5, <1>6, FailStops, AltersFacts DEF RenamedStep

LEMMA ColumnCase ==
  ASSUME TypeOK, AddColumn
  PROVE  Stop \/ \E a \in Head(todo).adds : ColumnStep(a)
  <1>1. At("inplace") /\ phase = "apply" /\ todo # <<>>
    BY DEF AddColumn, At
  <1>2. PICK a \in Head(todo).adds :
          \/ /\ Exists(View.live[Cur]) /\ a \notin View.live[Cur].cols
             /\ Ddl([View EXCEPT !.live[Cur].cols = @ \cup {a}])
             /\ todo' = IF WithoutColumn(Head(todo), a).adds = {} THEN Tail(todo)
                        ELSE <<WithoutColumn(Head(todo), a)>> \o Tail(todo)
             /\ Goes("apply")
          \/ Fail
    BY DEF AddColumn, Cur, WithoutColumn
  <1> DEFINE t == View.live[Cur]
             new == WithCols(t, t.cols \cup {a})
  <1>3. /\ Head(todo) \in Change /\ Cur \in Contents /\ View \in Disk /\ t \in Table
        /\ a \in Columns
    BY <1>1, CurType, ViewType
  <1>4. CASE Fail
    BY <1>1, <1>4, FailStops
  <1>5. CASE ~Fail
    <2>1. t.cols \cup {a} \in {None} \cup SUBSET Columns
      BY <1>2, <1>3, <1>5, TableType DEF Exists
    <2>2. new \in Table
      BY <1>3, <2>1, WithColsType
    <2>3. PutLive(View, Cur, new) \in Disk
      BY <1>3, <2>2, PutLiveFacts
    <2>4. [View EXCEPT !.live[Cur].cols = @ \cup {a}] = PutLive(View, Cur, new)
      <3>1. t = [cols |-> t.cols, rows |-> t.rows]
        BY <1>3, TableType
      <3>2. [t EXCEPT !.cols = @ \cup {a}] = new
        BY <3>1 DEF WithCols
      <3>3. [View EXCEPT !.live[Cur].cols = @ \cup {a}]
              = [View EXCEPT !.live[Cur] = [t EXCEPT !.cols = @ \cup {a}]]
        BY <1>3, DiskType
      <3> QED
        BY <3>2, <3>3 DEF PutLive
    <2>5. Alters(PutLive(View, Cur, new))
      BY <1>2, <1>5, <2>3, <2>4, AltersFacts
    <2>6. WithoutColumn(Head(todo), a).adds = {} <=> Head(todo).adds \subseteq {a}
      <3>1. WithoutColumn(Head(todo), a).adds = Head(todo).adds \ {a}
        BY <1>3 DEF WithoutColumn, Change
      <3> QED
        BY <3>1
    <2> QED
      BY <1>1, <1>2, <1>5, <2>5, <2>6 DEF ColumnStep, Goes, Working
  <1> QED
    BY <1>4, <1>5

LEMMA CreateCase ==
  ASSUME TypeOK, PlanInv, RebuildCreate
  PROVE  Stop \/ CreateStep
  <1>1. At("rebuild") /\ phase = "apply" /\ todo # <<>>
    BY DEF RebuildCreate, At
  <1>2. CASE Fail
    BY <1>1, <1>2, FailStops
  <1>4. CASE tx # None /\ Exists(disk.temp[Cur]) /\ UNCHANGED <<disk, tx, todo>> /\ Goes("copy")
    <2>1. /\ View \in Disk /\ Cur \in Contents /\ Exists(View.temp[Cur])
      BY <1>1, <1>4, AwaitHead, ViewType, CurType DEF PlanInv
    <2>2. PutTemp(View, Cur, Created(View.temp[Cur], New[Cur])) = View
      BY <2>1, CreatedAlready
    <2>3. View' = View /\ tx' = tx /\ disk' = disk /\ tx \in Disk
      BY <1>4 DEF View, TypeOK
    <2>4. Alters(View)
      BY <1>4, <2>1, <2>3 DEF Alters
    <2> QED
      BY <1>1, <1>4, <2>2, <2>4 DEF CreateStep, Goes, Stays, Working
  <1>3. CASE /\ tx = None /\ UNCHANGED <<tx, todo>> /\ Goes("copy")
             /\ disk' = [disk EXCEPT !.temp[Cur] = Created(@, New[Cur])]
    <2>1. View = disk /\ Stays("copy") /\ tx' = None
      BY <1>3, ViewType DEF Goes, Stays, Working
    <2>2. disk' = PutTemp(disk, Cur, Created(disk.temp[Cur], New[Cur]))
      BY <1>3 DEF PutTemp
    <2>3. PutTemp(disk, Cur, Created(disk.temp[Cur], New[Cur])) \in Disk
      BY <1>1, <2>1, CurType, CreatedFacts, PutTempFacts, ViewType
    <2>4. View' = disk'
      BY <2>1 DEF View
    <2> QED
      BY <1>1, <1>3, <2>1, <2>2, <2>3, <2>4 DEF CreateStep, Alters
  <1> QED
    BY <1>2, <1>3, <1>4 DEF RebuildCreate, Cur, New

LEMMA CopyCase ==
  ASSUME TypeOK, PlanInv, RebuildCopy
  PROVE  Stop \/ CopyStep
  <1> DEFINE t == View.temp[Cur]
             new == WithRows(t, t.rows \cup View.live[Cur].rows)
  <1>1. phase = "copy" /\ todo # <<>>
    BY DEF RebuildCopy, PlanInv
  <1>2. /\ Cur \in Contents /\ View \in Disk /\ t \in Table /\ View.live[Cur] \in Table
    BY <1>1, CurType, ViewType
  <1>3. new \in Table
    BY <1>2, TableType, WithRowsType
  <1>4. PutTemp(View, Cur, new) \in Disk /\ None \notin Disk
    BY <1>2, <1>3, PutTempFacts, MigrationAssumption
  <1>5. \/ Fail
        \/ /\ Exists(View.live[Cur])
           /\ tx' = [View EXCEPT !.temp[Cur].rows = @ \cup View.live[Cur].rows]
           /\ UNCHANGED <<disk, todo>> /\ Goes("drop")
    BY DEF RebuildCopy, Cur, New
  <1>6. [View EXCEPT !.temp[Cur].rows = @ \cup View.live[Cur].rows] = PutTemp(View, Cur, new)
    <2>1. t = [cols |-> t.cols, rows |-> t.rows]
      BY <1>2, TableType
    <2>2. [t EXCEPT !.rows = @ \cup View.live[Cur].rows] = new
      BY <1>2, WithRowsIs
    <2>3. [View EXCEPT !.temp[Cur].rows = @ \cup View.live[Cur].rows]
            = [View EXCEPT !.temp[Cur] = [t EXCEPT !.rows = @ \cup View.live[Cur].rows]]
      BY <1>2, DiskType
    <2> QED
      BY <2>2, <2>3 DEF PutTemp
  <1>7. CASE Fail
    BY <1>1, <1>7, FailStops
  <1>8. CASE ~Fail
    <2>1. tx' = PutTemp(View, Cur, new) /\ disk' = disk /\ Stays("drop") /\ Exists(View.live[Cur])
      BY <1>5, <1>6, <1>8 DEF Goes, Stays, Working
    <2>2. tx' # None /\ tx' \in Disk /\ View' = tx'
      BY <1>4, <2>1 DEF View
    <2> QED
      BY <1>1, <2>1, <2>2 DEF CopyStep
  <1> QED
    BY <1>7, <1>8

LEMMA DropCase ==
  ASSUME TypeOK, PlanInv, RebuildDrop
  PROVE  Stop \/ DropStep
  <1>1. phase = "drop" /\ todo # <<>>
    BY DEF RebuildDrop, PlanInv
  <1>2. Dropped(View, Cur) \in Disk
    BY <1>1, CurType, ViewType, DroppedFacts
  <1>3. \/ Fail
        \/ MayDrop(View, Cur) /\ Ddl(Dropped(View, Cur)) /\ Stays("rename")
    BY DEF RebuildDrop, Cur, Goes, Stays, Working
  <1> QED
    BY <1>1, <1>2, <1>3, FailStops, AltersFacts DEF DropStep

LEMMA FinishCase ==
  ASSUME TypeOK, PlanInv, RebuildRename
  PROVE  FinishStep
  <1>1. phase = "rename" /\ todo # <<>>
    BY DEF RebuildRename, PlanInv
  <1>2. /\ Cur \in Contents /\ View \in Disk /\ View.temp[Cur] \in Table
    BY <1>1, CurType, ViewType
  <1>3. PutTemp(PutLive(View, Cur, View.temp[Cur]), Cur, NoTable) \in Disk
    BY <1>2, PutLiveFacts, PutTempFacts, NoTableType
  <1>4. [View EXCEPT !.live[Cur] = View.temp[Cur], !.temp[Cur] = NoTable]
          = PutTemp(PutLive(View, Cur, View.temp[Cur]), Cur, NoTable)
    BY DEF PutLive, PutTemp
  <1>5. Ddl([View EXCEPT !.live[Cur] = View.temp[Cur], !.temp[Cur] = NoTable]) /\ Done
    BY DEF RebuildRename, Cur, Next1, Goes, Done, Working
  <1> QED
    BY <1>1, <1>3, <1>4, <1>5, AltersFacts DEF FinishStep

LEMMA CommitCase ==
  ASSUME TypeOK, Commit
  PROVE  Stop \/ CommitStep
  <1>1. phase = "apply" /\ todo = <<>>
    BY DEF Commit
  <1>2. CASE Fail
    BY <1>1, <1>2, FailStops
  <1>3. CASE ~Fail
    <2>1. disk' = View /\ tx' = None /\ Stays("record")
      BY <1>3 DEF Commit, Goes, Stays, Working
    <2>2. View' = View
      BY <2>1 DEF View
    <2> QED
      BY <1>1, <2>1, <2>2 DEF CommitStep
  <1> QED
    BY <1>2, <1>3

LEMMA SeedCase ==
  ASSUME TypeOK, NEW c \in Contents, SeedContent(c)
  PROVE  Stop \/ (/\ phase = "seed" /\ seeds = <<>> /\ Exists(disk.live[c]) /\ seeds' = SeedOf[c]
                  /\ Quiet /\ UNCHANGED <<meta, goal, phase, diff, todo, backedUp, standing>>)
  <1>1. phase = "seed" /\ seeds = <<>>
    BY DEF SeedContent
  <1>2. CASE Fail
    BY <1>1, <1>2, FailStops
  <1>3. CASE ~Fail
    BY <1>1, <1>3 DEF SeedContent, Quiet, View
  <1> QED
    BY <1>2, <1>3

LEMMA StoredFacts ==
  ASSUME TypeOK, NEW r \in Rows
  PROVE  /\ ContentOf[r] \in Contents
         /\ PutLive(disk, ContentOf[r], WithRows(disk.live[ContentOf[r]],
                                                 disk.live[ContentOf[r]].rows \cup {r})) \in Disk
         /\ [disk EXCEPT !.live[ContentOf[r]].rows = @ \cup {r}]
              = PutLive(disk, ContentOf[r], WithRows(disk.live[ContentOf[r]],
                                                     disk.live[ContentOf[r]].rows \cup {r}))
  <1> DEFINE c == ContentOf[r]
             t == disk.live[c]
  <1>1. c \in Contents
    BY MigrationAssumption
  <1> HIDE DEF c
  <1>2. disk \in Disk /\ t \in Table
    BY <1>1, DiskType DEF TypeOK
  <1>3. t.rows \cup {r} \in SUBSET Rows /\ t = [cols |-> t.cols, rows |-> t.rows]
    BY <1>2, TableType
  <1>4. PutLive(disk, c, WithRows(t, t.rows \cup {r})) \in Disk
    BY <1>1, <1>2, <1>3, WithRowsType, PutLiveFacts
  <1>5. [t EXCEPT !.rows = @ \cup {r}] = WithRows(t, t.rows \cup {r})
    BY <1>2, WithRowsIs
  <1>6. [disk EXCEPT !.live[c].rows = @ \cup {r}]
          = [disk EXCEPT !.live[c] = [t EXCEPT !.rows = @ \cup {r}]]
    BY <1>1, <1>2, DiskType
  <1> QED
    BY <1>1, <1>4, <1>5, <1>6 DEF PutLive, c

LEMMA SeedRowCase ==
  ASSUME TypeOK, RowsInv, SeedRow
  PROVE  /\ StoredStep(Head(seeds)) /\ phase = "seed" /\ seeds # <<>> /\ seeds' = Tail(seeds)
  <1>1. phase = "seed" /\ seeds # <<>> /\ seeds \in Seq(Rows)
    BY DEF SeedRow, TypeOK
  <1>2. Head(seeds) \in Rows /\ 1 \in DOMAIN seeds /\ Head(seeds) = seeds[1]
    BY <1>1
  <1>3. Exists(disk.live[ContentOf[Head(seeds)]])
    BY <1>2 DEF RowsInv
  <1> QED
    BY <1>1, <1>2, <1>3, StoredFacts DEF SeedRow, StoredStep

LEMMA WriteCase ==
  ASSUME TypeOK, NEW r \in Rows, Write(r)
  PROVE  StoredStep(r) /\ phase = "serving" /\ seeds' = seeds
  BY StoredFacts DEF Write, StoredStep

LEMMA InterruptCase == ASSUME TypeOK, Interrupt PROVE Stop
  BY MigrationAssumption DEF Interrupt, Stop, TypeOK, View

LEMMA ShutdownCase ==
  ASSUME TypeOK, Shutdown, tx # None => phase \in Applying
  PROVE  Stop
  BY DEF Shutdown, Goes, Stop, TypeOK, View, Applying

(* Every step is of one of these forms. *)
SeedingStep(c) ==
  /\ phase = "seed" /\ seeds = <<>> /\ Exists(disk.live[c]) /\ seeds' = SeedOf[c]
  /\ Quiet /\ UNCHANGED <<meta, goal, phase, diff, todo, backedUp, standing>>
StoreStep == \E r \in Rows : StoredStep(r) /\ seeds' \in {seeds, Tail(seeds)}
                             /\ (seeds = <<>> => seeds' = seeds)
ApplyStep == \/ AddedStep \/ RemovedStep \/ RenamedStep
             \/ (\E a \in Head(todo).adds : ColumnStep(a))
             \/ CreateStep \/ CopyStep \/ DropStep \/ FinishStep
StartStep == \/ \E p \in Packages : Launch(p)
             \/ Backup \/ CommitStep \/ RecordTable \/ RecordRow
             \/ (\E c \in Contents : SeedingStep(c)) \/ StoreStep \/ Serve

LEMMA Cases ==
  ASSUME TypeOK, PlanInv, RowsInv, Next
  PROVE  Stop \/ ApplyStep \/ StartStep
  <1>1. CASE \E p \in Packages : Launch(p)
    BY <1>1 DEF StartStep
  <1>2. CASE Backup \/ RecordTable \/ RecordRow \/ Serve
    BY <1>2 DEF StartStep
  <1>3. CASE ApplyAdded \/ ApplyRemoved \/ ApplyRenamed \/ AddColumn
    BY <1>3, AddedCase, RemovedCase, RenamedCase, ColumnCase DEF ApplyStep
  <1>4. CASE RebuildCreate \/ RebuildCopy \/ RebuildDrop \/ RebuildRename
    BY <1>4, CreateCase, CopyCase, DropCase, FinishCase DEF ApplyStep
  <1>5. CASE Commit
    BY <1>5, CommitCase DEF StartStep
  <1>6. CASE \E c \in Contents : SeedContent(c)
    BY <1>6, SeedCase DEF StartStep, SeedingStep
  <1>7. CASE SeedRow
    <2>1. StoredStep(Head(seeds)) /\ seeds # <<>> /\ seeds' = Tail(seeds)
      BY <1>7, SeedRowCase
    <2> QED
      BY <2>1 DEF StartStep, StoreStep, StoredStep
  <1>8. CASE \E r \in Rows : Write(r)
    <2>1. PICK r \in Rows : Write(r)
      BY <1>8
    <2>2. StoredStep(r) /\ seeds' = seeds
      BY <2>1, WriteCase
    <2> QED
      BY <2>2 DEF StartStep, StoreStep
  <1>9. CASE Shutdown
    BY <1>9, ShutdownCase DEF PlanInv
  <1>10. CASE Interrupt
    BY <1>10, InterruptCase
  <1> QED
    BY <1>1, <1>2, <1>3, <1>4, <1>5, <1>6, <1>7, <1>8, <1>9, <1>10 DEF Next, Startup

-----------------------------------------------------------------------------
(* Types, the plan and the metadata. *)

LEMMA WithoutColumnFacts ==
  ASSUME NEW ch \in Change, NEW a
  PROVE  /\ WithoutColumn(ch, a) \in Change
         /\ WithoutColumn(ch, a).content = ch.content /\ WithoutColumn(ch, a).kind = ch.kind
         /\ WithoutColumn(ch, a).from = ch.from
         /\ \A b : b \in WithoutColumn(ch, a).adds <=> b \in ch.adds /\ b # a
  BY DEF WithoutColumn, Change

LEMMA AltersType ==
  ASSUME TypeOK, NEW d, Alters(d)
  PROVE  disk' \in Disk /\ tx' \in Disk \cup {None}
  BY DEF Alters, TypeOK

(* The work that is left after a step of a change. *)
LEMMA ColumnWork ==
  ASSUME TypeOK, NEW a, ColumnStep(a)
  PROVE  /\ todo' \in Seq(Change) /\ todo # <<>>
         /\ Changes(Tail(todo)) \subseteq Changes(todo')
         /\ \A ch \in Changes(todo') :
              \/ ch \in Changes(Tail(todo))
              \/ ch = WithoutColumn(Head(todo), a) /\ ~(Head(todo).adds \subseteq {a})
         /\ Distinct(todo) => Distinct(todo')
  <1> DEFINE left == WithoutColumn(Head(todo), a)
  <1>1. todo # <<>> /\ todo \in Seq(Change) /\ Head(todo) \in Change
    BY TailFacts DEF ColumnStep, At, TypeOK
  <1>2. left \in Change /\ left.content = Head(todo).content
    BY <1>1, WithoutColumnFacts
  <1> HIDE DEF left
  <1>3. CASE todo' = Tail(todo)
    BY <1>1, <1>3, TailFacts
  <1>4. CASE todo' = <<left>> \o Tail(todo) /\ ~(Head(todo).adds \subseteq {a})
    <2>1. /\ todo' \in Seq(Change) /\ Changes(Tail(todo)) \subseteq Changes(todo')
          /\ \A ch \in Changes(todo') : ch = left \/ ch \in Changes(Tail(todo))
          /\ Distinct(todo) => Distinct(todo')
      BY <1>1, <1>2, <1>4, AgainFacts
    <2> QED
      BY <1>1, <1>4, <2>1 DEF left
  <1> QED
    BY <1>3, <1>4 DEF ColumnStep, left

LEMMA ApplyPhases ==
  ASSUME TypeOK, PlanInv, ApplyStep
  PROVE  /\ phase \in Applying /\ phase' \in Applying /\ Working /\ todo # <<>>
         /\ todo' \in Seq(Change)
         /\ disk' \in Disk /\ tx' \in Disk \cup {None}
  <1>1. CASE AddedStep \/ RemovedStep \/ RenamedStep \/ FinishStep
    <2>1. todo # <<>> /\ phase \in Applying /\ Done
      BY <1>1 DEF AddedStep, RemovedStep, RenamedStep, FinishStep, At, Applying, PlanInv
    <2>2. todo' \in Seq(Change)
      BY <2>1, TailFacts DEF TypeOK, Done
    <2>3. \E d : Alters(d)
      BY <1>1 DEF AddedStep, RemovedStep, RenamedStep, FinishStep
    <2> QED
      BY <2>1, <2>2, <2>3, AltersType DEF Done, Applying
  <1>2. CASE \E a \in Head(todo).adds : ColumnStep(a)
    <2>1. PICK a \in Head(todo).adds : ColumnStep(a)
      BY <1>2
    <2>2. todo # <<>> /\ todo' \in Seq(Change)
      BY <2>1, ColumnWork
    <2>3. phase = "apply" /\ phase' = "apply" /\ Working /\ \E d : Alters(d)
      BY <2>1 DEF ColumnStep, At
    <2> QED
      BY <2>2, <2>3, AltersType DEF Applying
  <1>3. CASE CreateStep \/ CopyStep \/ DropStep
    <2>1. todo # <<>> /\ phase \in Applying /\ phase' \in Applying /\ Working /\ todo' = todo
      BY <1>3 DEF CreateStep, CopyStep, DropStep, At, Applying, PlanInv, Stays
    <2>2. disk' \in Disk /\ tx' \in Disk \cup {None}
      BY <1>3, AltersType DEF CreateStep, CopyStep, DropStep, TypeOK
    <2> QED
      BY <2>1, <2>2 DEF TypeOK
  <1> QED
    BY <1>1, <1>2, <1>3 DEF ApplyStep

LEMMA RecordedType ==
  ASSUME TypeOK
  PROVE  Recorded \in Schemas
  <1>1. Shapes(disk) \in Schemas
    BY DiskType, TableType DEF TypeOK, Shapes, Schemas
  <1>2. NoSchema \in Schemas
    BY DEF NoSchema, Schemas
  <1> QED
    BY <1>1, <1>2 DEF Recorded, TypeOK

LEMMA LaunchFacts ==
  ASSUME TypeOK, NEW p \in Packages, Launch(p)
  PROVE  /\ phase = "down" /\ phase' \in {"down", "backup"} /\ goal' = p
         /\ diff' = Diff(Recorded, Schema[p]) /\ diff' \in Seq(Change)
         /\ Schema[p] \in Schemas /\ Recorded \in Schemas
         /\ standing' \in {"started", "abandoned"}
         /\ UNCHANGED <<order, disk, tx, meta, todo, counts, seeds, faults, written, backedUp>>
         /\ View' = View /\ Recorded' = Recorded
  <1>1. /\ phase = "down" /\ phase' \in {"down", "backup"} /\ goal' = p
        /\ diff' = Diff(Recorded, Schema[p]) /\ standing' \in {"started", "abandoned"}
        /\ UNCHANGED <<order, disk, tx, meta, todo, counts, seeds, faults, written, backedUp>>
    BY DEF Launch
  <1>2. Schema[p] \in Schemas /\ Recorded \in Schemas /\ order \in Orders
    BY RecordedType, MigrationAssumption DEF TypeOK
  <1>3. diff' \in Seq(Change)
    BY <1>1, <1>2, DiffFacts
  <1>4. View' = View /\ Recorded' = Recorded
    BY <1>1 DEF View, Recorded, Shapes
  <1> QED
    BY <1>1, <1>2, <1>3, <1>4

LEMMA BackupFacts ==
  ASSUME TypeOK, Backup
  PROVE  /\ phase = "backup" /\ phase' = "apply" /\ todo' = diff /\ View' = View
         /\ Recorded' = Recorded
         /\ counts' \in [Contents -> Nat \cup {None}] /\ backedUp' \in SUBSET Rows
         /\ UNCHANGED <<order, disk, tx, meta, goal, diff, seeds, faults, written, standing>>
  <1>1. /\ phase = "backup" /\ phase' = "apply" /\ todo' = diff /\ counts' = Snapshot
        /\ backedUp' \in {backedUp, backedUp \cup LiveRows(disk)}
        /\ UNCHANGED <<order, disk, tx, meta, goal, diff, seeds, faults, written, standing>>
    BY DEF Backup
  <1>2. View' = View /\ Recorded' = Recorded
    BY <1>1 DEF View, Recorded, Shapes
  <1>3. \A c \in Contents : disk.live[c].rows \in SUBSET Rows /\ Cardinality(disk.live[c].rows) \in Nat
    <2> SUFFICES ASSUME NEW c \in Contents
                 PROVE  disk.live[c].rows \in SUBSET Rows /\ Cardinality(disk.live[c].rows) \in Nat
      OBVIOUS
    <2>1. disk.live[c].rows \in SUBSET Rows
      BY DiskType, TableType DEF TypeOK
    <2> QED
      BY <2>1, MigrationAssumption, FS_Subset, FS_CardinalityType
  <1>4. LiveRows(disk) \in SUBSET Rows
    BY <1>3 DEF LiveRows
  <1>5. Snapshot \in [Contents -> Nat \cup {None}]
    BY <1>3 DEF Snapshot
  <1> QED
    BY <1>1, <1>2, <1>4, <1>5 DEF TypeOK

LEMMA TypeStep ==
  ASSUME TypeOK, PlanInv, RowsInv, [Next]_vars
  PROVE  TypeOK'
  <1>1. CASE UNCHANGED vars
    BY <1>1 DEF vars, TypeOK
  <1>2. CASE Stop
    <2>1. /\ disk' = disk /\ tx' = None /\ phase' = "down" /\ faults' \in 0..MaxFaults
          /\ UNCHANGED <<order, meta, goal, diff, todo, counts, written, backedUp, standing>>
      BY <1>2 DEF Stop
    <2>2. seeds' \in Seq(Rows)
      <3>1. seeds' = seeds \/ seeds' = <<>>
        BY <1>2 DEF Stop
      <3>2. seeds \in Seq(Rows) /\ <<>> \in Seq(Rows)
        BY DEF TypeOK
      <3> HIDE <1>2
      <3> QED
        BY <3>1, <3>2
    <2> HIDE <1>2
    <2> QED
      BY <2>1, <2>2 DEF TypeOK, Phases
  <1>3. CASE ApplyStep
    <2>1. /\ Working /\ todo' \in Seq(Change) /\ phase' \in Applying
          /\ disk' \in Disk /\ tx' \in Disk \cup {None}
      BY <1>3, ApplyPhases
    <2> QED
      BY <2>1 DEF TypeOK, Working, Applying, Phases
  <1>4. CASE \E p \in Packages : Launch(p)
    <2>1. PICK p \in Packages : Launch(p)
      BY <1>4
    <2>2. /\ phase' \in {"down", "backup"} /\ goal' = p /\ diff' \in Seq(Change)
          /\ standing' \in {"started", "abandoned"}
          /\ UNCHANGED <<order, disk, tx, meta, todo, counts, seeds, faults, written, backedUp>>
      BY <2>1, LaunchFacts
    <2> QED
      BY <2>2 DEF TypeOK, Phases
  <1>5. CASE Backup
    <2>1. /\ phase' = "apply" /\ todo' = diff
          /\ counts' \in [Contents -> Nat \cup {None}] /\ backedUp' \in SUBSET Rows
          /\ UNCHANGED <<order, disk, tx, meta, goal, diff, seeds, faults, written, standing>>
      BY <1>5, BackupFacts
    <2> QED
      BY <2>1 DEF TypeOK, Phases
  <1>6. CASE CommitStep
    BY <1>6, ViewType DEF CommitStep, Stays, Working, TypeOK, Phases
  <1>7. CASE RecordTable
    BY <1>7 DEF RecordTable, TypeOK, Phases
  <1>8. CASE RecordRow
    <2>1. Schema[goal] \in Schemas
      BY MigrationAssumption DEF TypeOK
    <2> QED
      BY <1>8, <2>1 DEF RecordRow, TypeOK, Phases
  <1>9. CASE \E c \in Contents : SeedingStep(c)
    <2>1. PICK c \in Contents : SeedingStep(c)
      BY <1>9
    <2>2. SeedOf[c] \in Seq(Rows)
      BY MigrationAssumption
    <2> QED
      BY <2>1, <2>2 DEF SeedingStep, Quiet, TypeOK
  <1>10. CASE StoreStep
    <2>1. PICK r \in Rows : StoredStep(r) /\ seeds' \in {seeds, Tail(seeds)} /\ (seeds = <<>> => seeds' = seeds)
      BY <1>10 DEF StoreStep
    <2>2. disk' \in Disk
      BY <2>1, StoredFacts DEF StoredStep
    <2>3. seeds' \in Seq(Rows)
      <3>1. CASE seeds = <<>>
        BY <2>1, <3>1 DEF TypeOK
      <3>2. CASE seeds # <<>>
        <4>1. Tail(seeds) \in Seq(Rows)
          BY <3>2 DEF TypeOK
        <4> QED
          BY <2>1, <4>1 DEF TypeOK
      <3> QED
        BY <3>1, <3>2
    <2> QED
      BY <2>1, <2>2, <2>3 DEF StoredStep, TypeOK
  <1>11. CASE Serve
    BY <1>11 DEF Serve, TypeOK, Phases
  <1> QED
    BY <1>1, <1>2, <1>3, <1>4, <1>5, <1>6, <1>7, <1>8, <1>9, <1>10, <1>11, Cases DEF StartStep

LEMMA SoundTail ==
  ASSUME NEW q \in Seq(Change), q # <<>>, Sound(q)
  PROVE  Sound(Tail(q))
  <1>1. Distinct(Tail(q)) /\ Changes(Tail(q)) \subseteq Changes(q)
    BY TailFacts DEF Sound
  <1> QED
    BY <1>1 DEF Sound

LEMMA SoundColumn ==
  ASSUME TypeOK, NEW a, ColumnStep(a), Sound(todo)
  PROVE  Sound(todo')
  <1> DEFINE left == WithoutColumn(Head(todo), a)
  <1>1. /\ todo # <<>> /\ Distinct(todo')
        /\ \A ch \in Changes(todo') :
              \/ ch \in Changes(Tail(todo))
              \/ ch = left /\ ~(Head(todo).adds \subseteq {a})
    BY ColumnWork DEF Sound
  <1>2. /\ Head(todo) \in Change /\ Head(todo) \in Changes(todo)
        /\ Changes(Tail(todo)) \subseteq Changes(todo) /\ Sound(Tail(todo))
    BY <1>1, TailFacts, SoundTail DEF TypeOK
  <1>3. Head(todo).kind = "inplace"
    BY DEF ColumnStep, At
  <1>4. /\ left.content = Head(todo).content /\ left.kind = "inplace"
        /\ \A b : b \in left.adds <=> b \in Head(todo).adds /\ b # a
    BY <1>2, <1>3, WithoutColumnFacts
  <1> HIDE DEF left
  <1>5. Lawful(Head(todo))
    BY <1>2 DEF Sound
  <1>6. ASSUME ~(Head(todo).adds \subseteq {a}) PROVE Lawful(left)
    <2>1. left.adds # {} /\ left.adds \subseteq New[left.content]
      BY <1>3, <1>4, <1>5, <1>6 DEF Lawful
    <2>2. New[left.content] # None
      BY <1>3, <1>4, <1>5 DEF Lawful
    <2> QED
      BY <1>4, <2>1, <2>2 DEF Lawful
  <1>7. \A ch \in Changes(todo') : Lawful(ch)
    BY <1>1, <1>2, <1>6 DEF Sound
  <1>8. \A ch, other \in Changes(todo') : ch.kind = "renamed" => other.content # ch.from
    <2> SUFFICES ASSUME NEW ch \in Changes(todo'), NEW other \in Changes(todo'), ch.kind = "renamed"
                 PROVE  other.content # ch.from
      OBVIOUS
    <2>1. ch \in Changes(todo)
      BY <1>1, <1>2, <1>4
    <2>2. \E o \in Changes(todo) : o.content = other.content
      BY <1>1, <1>2, <1>4
    <2> QED
      BY <2>1, <2>2 DEF Sound
  <1> QED
    BY <1>1, <1>7, <1>8 DEF Sound

(* The plan is that of the same package as long as it is not launched anew. *)
LEMMA SoundStays ==
  ASSUME goal' = goal, Sound(todo')
  PROVE  Sound(todo)'
  BY DEF Sound, Lawful, New

(* What the diff of a package is made of. *)
LEMMA SoundDiff ==
  ASSUME TypeOK, NEW p \in Packages, Launch(p)
  PROVE  Sound(diff)'
  <1> DEFINE old == Recorded
             new == Schema[p]
  <1>1. /\ goal' = p /\ diff' = Diff(old, new) /\ old \in Schemas /\ new \in Schemas
    BY LaunchFacts
  <1> HIDE DEF old, new
  <1>2. order \in Orders
    BY DEF TypeOK
  <1>3. /\ Distinct(diff')
        /\ \A ch \in Changes(diff') :
              /\ ch \in Change /\ ch = ChangeOf(old, new, ch.content)
              /\ old[ch.content] # new[ch.content] /\ ~RenamedAway(old, new, ch.content)
    BY <1>1, <1>2, DiffFacts
  <1>4. New' = new
    BY <1>1 DEF New, new
  <1>5. ASSUME NEW ch \in Changes(diff')
        PROVE  /\ Lawful(ch)'
               /\ ch.kind = "renamed" => RenamedAway(old, new, ch.from)
    <2> DEFINE c == ch.content
    <2>1. /\ c \in Contents /\ ch = ChangeOf(old, new, c) /\ old[c] # new[c]
      BY <1>3 DEF Change
    <2> HIDE DEF c
    <2>2. ch.kind = "renamed" <=> RenamedFrom(old, new, c) # {}
      BY <1>1, <2>1, ChangeFields
    <2>3. CASE ch.kind = "renamed"
      <3>1. /\ ch.from \in Contents /\ <<ch.from, c>> \in Renames /\ new[ch.from] = None
            /\ new[c] # None /\ RenamedAway(old, new, ch.from)
        BY <1>1, <2>1, <2>2, <2>3, ChangeFrom
      <3> QED
        BY <1>4, <2>3, <3>1 DEF Lawful, c
    <2>4. CASE ch.kind = "inplace"
      <3>1. new[c] # None /\ ch.adds # {} /\ ch.adds \subseteq new[c]
        BY <1>1, <2>1, <2>4, ChangeAdds
      <3> QED
        BY <1>4, <2>4, <3>1 DEF Lawful, c
    <2>5. CASE ch.kind \notin {"renamed", "inplace"}
      <3>1. ch.kind = "removed" <=> old[c] # None /\ new[c] = None
        BY <1>1, <2>1, <2>2, <2>5, ChangeKinds
      <3> QED
        BY <1>4, <2>1, <2>5, <3>1 DEF Lawful, c
    <2> QED
      BY <2>3, <2>4, <2>5
  <1>6. \A ch, other \in Changes(diff') : ch.kind = "renamed" => other.content # ch.from
    BY <1>3, <1>5
  <1> QED
    BY <1>3, <1>5, <1>6 DEF Sound

(* The plan before and after a step of a change. *)
LEMMA ApplyPlan ==
  ASSUME TypeOK, PlanInv, ApplyStep
  PROVE  /\ Planned /\ Rem = todo /\ Planned' /\ Rem' = todo' /\ Left' = Changes(todo')
         /\ Sound(todo) /\ Sound(todo') /\ New' = New /\ Recorded' \in {Recorded, Shapes(disk')}
  <1>1. /\ phase \in Applying /\ phase' \in Applying /\ Working /\ todo # <<>>
        /\ Planned /\ Rem = todo /\ Planned' /\ Rem' = todo'
    BY ApplyPhases DEF Applying, Planned, Rem
  <1>2. Sound(todo)
    BY <1>1 DEF PlanInv
  <1>3. Sound(todo')
    <2>1. CASE todo' \in {todo, Tail(todo)}
      BY <1>1, <1>2, <2>1, SoundTail DEF TypeOK
    <2>2. CASE \E a \in Head(todo).adds : ColumnStep(a)
      BY <1>2, <2>2, SoundColumn
    <2> QED
      BY <2>1, <2>2 DEF ApplyStep, AddedStep, RemovedStep, RenamedStep, FinishStep, Done,
                        CreateStep, CopyStep, DropStep, Stays
  <1> QED
    BY <1>1, <1>2, <1>3 DEF Working, New, Recorded, Shapes, Left

LEMMA TempStays ==
  ASSUME TypeOK, PlanInv, CreateStep \/ CopyStep \/ DropStep
  PROVE  /\ todo' = todo /\ todo # <<>> /\ Head(todo).kind = "rebuild"
         /\ Exists(View.temp[Cur])'
  <1>1. /\ todo' = todo /\ todo # <<>> /\ Head(todo).kind = "rebuild" /\ Cur' = Cur
    BY DEF CreateStep, CopyStep, DropStep, At, PlanInv, Stays, Cur
  <1>2. /\ Cur \in Contents /\ View \in Disk /\ View.temp[Cur] \in Table /\ View.live[Cur] \in Table
        /\ New[Cur] \in {None} \cup SUBSET Columns
    BY <1>1, CurType, ViewType
  <1>3. CASE CreateStep
    <2>1. New[Cur] # None
      <3>1. Planned /\ Rem = todo /\ Head(todo) \in Changes(todo)
        BY <1>1, <1>3, TailFacts DEF CreateStep, At, Planned, Applying, Rem, TypeOK
      <3>2. Lawful(Head(todo))
        BY <3>1 DEF PlanInv, Sound
      <3> QED
        BY <1>1, <3>2 DEF Lawful, Cur
    <2> DEFINE t == Created(View.temp[Cur], New[Cur])
    <2>2. t \in Table /\ Exists(t)
      BY <1>2, <2>1, CreatedFacts DEF Exists
    <2>3. View' = PutTemp(View, Cur, t)
      BY <1>3 DEF CreateStep, Alters
    <2> HIDE DEF t
    <2>4. View'.temp[Cur] = t
      BY <1>2, <2>2, <2>3, PutTempFacts
    <2> QED
      BY <1>1, <2>2, <2>4 DEF Exists
  <1>4. CASE CopyStep
    <2> DEFINE rows == View.temp[Cur].rows \cup View.live[Cur].rows
               t == WithRows(View.temp[Cur], rows)
    <2>1. t \in Table
      BY <1>2, TableType, WithRowsType
    <2>2. t.cols = View.temp[Cur].cols
      BY DEF WithRows
    <2>3. View' = PutTemp(View, Cur, t) /\ Exists(View.temp[Cur])
      BY <1>4 DEF CopyStep, PlanInv
    <2> HIDE DEF t
    <2>4. View'.temp[Cur] = t
      BY <1>2, <2>1, <2>3, PutTempFacts
    <2> QED
      BY <1>1, <2>2, <2>3, <2>4 DEF Exists
  <1>5. CASE DropStep
    <2>1. View' = Dropped(View, Cur) /\ Exists(View.temp[Cur])
      BY <1>5 DEF DropStep, Alters, PlanInv
    <2>2. View'.temp = View.temp
      BY <1>2, <2>1, DroppedFacts
    <2> QED
      BY <1>1, <2>1, <2>2 DEF Exists
  <1> QED
    BY <1>3, <1>4, <1>5

LEMMA MetaStep ==
  ASSUME TypeOK, PlanInv, RowsInv, MetaInv, [Next]_vars
  PROVE  MetaInv'
  <1>1. CASE UNCHANGED vars
    BY <1>1 DEF vars, MetaInv, New
  <1>2. CASE Stop
    BY <1>2 DEF Stop, MetaInv
  <1>3. CASE ApplyStep
    <2>1. phase' \in Applying /\ meta' = meta
      BY <1>3, ApplyPhases DEF Working
    <2> QED
      BY <2>1 DEF MetaInv, Applying
  <1>4. CASE \E p \in Packages : Launch(p)
    <2>1. phase' \in {"down", "backup"} /\ meta' = meta
      BY <1>4, LaunchFacts
    <2> QED
      BY <2>1 DEF MetaInv
  <1>5. CASE Backup \/ CommitStep
    <2>1. phase' \in {"apply", "record"} /\ meta' = meta
      BY <1>5, BackupFacts DEF CommitStep, Stays, Working
    <2> QED
      BY <2>1 DEF MetaInv
  <1>6. CASE RecordTable
    <2>1. meta'.made = TRUE /\ meta'.schema = meta.schema /\ phase' = "recordRow"
      BY <1>6 DEF RecordTable, TypeOK
    <2> QED
      BY <2>1 DEF MetaInv
  <1>7. CASE RecordRow
    <2>1. meta'.made = meta.made /\ meta'.schema = Schema[goal] /\ goal' = goal /\ phase = "recordRow"
      BY <1>7 DEF RecordRow, TypeOK
    <2> QED
      BY <2>1 DEF MetaInv, New, TypeOK
  <1>8. CASE (\E c \in Contents : SeedingStep(c)) \/ StoreStep \/ Serve
    <2>1. phase \in {"seed", "serving"} /\ phase' \in {"seed", "serving"} /\ meta' = meta /\ goal' = goal
      BY <1>8 DEF SeedingStep, StoreStep, StoredStep, Serve
    <2> QED
      BY <2>1 DEF MetaInv, New
  <1> QED
    BY <1>1, <1>2, <1>3, <1>4, <1>5, <1>6, <1>7, <1>8, Cases DEF StartStep

-----------------------------------------------------------------------------
(* What each step of a change does to the tables the migration sees. *)

(* A change is stored at once, or the stored tables stay as they are. *)
LEMMA StoredOrNot ==
  ASSUME TypeOK, PlanInv, ApplyStep
  PROVE  \/ disk' = disk
         \/ tx = None /\ View = disk /\ disk' = View' /\ tx' = None
  BY ViewType DEF ApplyStep, AddedStep, RemovedStep, RenamedStep, ColumnStep, FinishStep,
                  CreateStep, CopyStep, DropStep, Alters

LEMMA AddedView ==
  ASSUME TypeOK, AddedStep
  PROVE  /\ Cur \in Contents /\ View'.temp = View.temp
         /\ \A b \in Contents : b # Cur => View'.live[b] = View.live[b]
         /\ Exists(View.live[Cur]) => View'.live[Cur] = View.live[Cur]
         /\ ~Exists(View.live[Cur]) => /\ View'.live[Cur].cols = New[Cur]
                                       /\ View'.live[Cur].rows = {}
  <1>1. todo # <<>>
    BY DEF AddedStep, At
  <1> DEFINE t == Created(View.live[Cur], New[Cur])
  <1>2. /\ Cur \in Contents /\ View \in Disk /\ View.live[Cur] \in Table
        /\ New[Cur] \in {None} \cup SUBSET Columns
    BY <1>1, CurType, ViewType
  <1>3. /\ t \in Table
        /\ Exists(View.live[Cur]) => t = View.live[Cur]
        /\ ~Exists(View.live[Cur]) => t.cols = New[Cur] /\ t.rows = {}
    BY <1>2, CreatedFacts
  <1>4. View' = PutLive(View, Cur, t)
    BY DEF AddedStep, Alters
  <1> HIDE DEF t
  <1>5. /\ View'.live[Cur] = t /\ View'.temp = View.temp
        /\ \A b \in Contents : b # Cur => View'.live[b] = View.live[b]
    BY <1>2, <1>3, <1>4, PutLiveFacts
  <1> QED
    BY <1>2, <1>3, <1>5

LEMMA DroppedView ==
  ASSUME TypeOK, RemovedStep \/ (PlanInv /\ DropStep)
  PROVE  /\ Cur \in Contents /\ View'.temp = View.temp /\ MayDrop(View, Cur)
         /\ View'.live[Cur] = NoTable
         /\ \A b \in Contents : b # Cur =>
              /\ View'.live[b].cols = View.live[b].cols
              /\ \A r \in Rows : r \in View'.live[b].rows
                                   <=> r \in View.live[b].rows /\ r \notin Referring(View, Cur)
              /\ View'.live[b].rows \in SUBSET View.live[b].rows
  <1>1. todo # <<>> /\ MayDrop(View, Cur) /\ View' = Dropped(View, Cur)
    BY DEF RemovedStep, At, DropStep, PlanInv, Alters
  <1>2. Cur \in Contents /\ View \in Disk
    BY <1>1, CurType, ViewType
  <1> QED
    BY <1>1, <1>2, DroppedFacts

LEMMA RenamedView ==
  ASSUME TypeOK, RenamedStep
  PROVE  /\ Cur \in Contents /\ Head(todo).from \in Contents /\ View'.temp = View.temp
         /\ Exists(View.live[Head(todo).from]) /\ ~Exists(View.live[Cur])
         /\ Cur # Head(todo).from
         /\ View'.live[Cur] = View.live[Head(todo).from]
         /\ View'.live[Head(todo).from] = NoTable
         /\ \A b \in Contents \ {Cur, Head(todo).from} : View'.live[b] = View.live[b]
  <1> DEFINE o == Head(todo).from
             mid == PutLive(View, Cur, View.live[o])
  <1>1. /\ todo # <<>> /\ o \in Contents /\ Exists(View.live[o]) /\ ~Exists(View.live[Cur])
        /\ View' = PutLive(mid, o, NoTable) /\ o # Cur
    BY DEF RenamedStep, At, Alters
  <1>2. Cur \in Contents /\ View \in Disk /\ View.live[o] \in Table
    BY <1>1, CurType, ViewType, DiskType
  <1>3. /\ mid \in Disk /\ mid.temp = View.temp /\ mid.live[Cur] = View.live[o]
        /\ \A b \in Contents : b # Cur => mid.live[b] = View.live[b]
    BY <1>2, PutLiveFacts
  <1> HIDE DEF mid
  <1>4. /\ View'.temp = mid.temp /\ View'.live[o] = NoTable
        /\ \A b \in Contents : b # o => View'.live[b] = mid.live[b]
    BY <1>1, <1>3, PutLiveFacts, NoTableType
  <1> QED
    BY <1>1, <1>2, <1>3, <1>4

LEMMA ColumnView ==
  ASSUME TypeOK, NEW a \in Head(todo).adds, ColumnStep(a)
  PROVE  /\ Cur \in Contents /\ View'.temp = View.temp
         /\ \A b \in Contents : b # Cur => View'.live[b] = View.live[b]
         /\ Exists(View.live[Cur]) /\ Exists(View'.live[Cur])
         /\ View'.live[Cur].rows = View.live[Cur].rows
         /\ View'.live[Cur].cols = View.live[Cur].cols \cup {a}
  <1>1. todo # <<>> /\ Exists(View.live[Cur])
    BY DEF ColumnStep, At
  <1> DEFINE t == View.live[Cur]
             new == WithCols(t, t.cols \cup {a})
  <1>2. /\ Cur \in Contents /\ View \in Disk /\ t \in Table /\ a \in Columns
    BY <1>1, CurType, ViewType
  <1>3. t.cols \cup {a} \in SUBSET Columns
    BY <1>1, <1>2, TableType DEF Exists
  <1>4. new \in Table /\ new.cols = t.cols \cup {a} /\ new.rows = t.rows
    BY <1>2, <1>3, WithColsType DEF WithCols
  <1>5. Exists(new)
    BY <1>3, <1>4, MigrationAssumption DEF Exists
  <1>6. View' = PutLive(View, Cur, new)
    BY DEF ColumnStep, Alters
  <1> HIDE DEF new
  <1>7. /\ View'.live[Cur] = new /\ View'.temp = View.temp
        /\ \A b \in Contents : b # Cur => View'.live[b] = View.live[b]
    BY <1>2, <1>4, <1>6, PutLiveFacts
  <1> QED
    BY <1>1, <1>2, <1>4, <1>5, <1>7

LEMMA CreateView ==
  ASSUME TypeOK, CreateStep
  PROVE  /\ Cur \in Contents /\ View'.live = View.live
         /\ \A b \in Contents : b # Cur => View'.temp[b] = View.temp[b]
         /\ Exists(View.temp[Cur]) => View'.temp[Cur] = View.temp[Cur]
         /\ ~Exists(View.temp[Cur]) => /\ View'.temp[Cur].cols = New[Cur]
                                       /\ View'.temp[Cur].rows = {}
  <1>1. todo # <<>>
    BY DEF CreateStep, At
  <1> DEFINE t == Created(View.temp[Cur], New[Cur])
  <1>2. /\ Cur \in Contents /\ View \in Disk /\ View.temp[Cur] \in Table
        /\ New[Cur] \in {None} \cup SUBSET Columns
    BY <1>1, CurType, ViewType
  <1>3. /\ t \in Table
        /\ Exists(View.temp[Cur]) => t = View.temp[Cur]
        /\ ~Exists(View.temp[Cur]) => t.cols = New[Cur] /\ t.rows = {}
    BY <1>2, CreatedFacts
  <1>4. View' = PutTemp(View, Cur, t)
    BY DEF CreateStep, Alters
  <1> HIDE DEF t
  <1>5. /\ View'.temp[Cur] = t /\ View'.live = View.live
        /\ \A b \in Contents : b # Cur => View'.temp[b] = View.temp[b]
    BY <1>2, <1>3, <1>4, PutTempFacts
  <1> QED
    BY <1>2, <1>3, <1>5

LEMMA CopyView ==
  ASSUME TypeOK, PlanInv, CopyStep
  PROVE  /\ Cur \in Contents /\ View'.live = View.live
         /\ \A b \in Contents : b # Cur => View'.temp[b] = View.temp[b]
         /\ View'.temp[Cur].cols = View.temp[Cur].cols
         /\ View'.temp[Cur].rows = View.temp[Cur].rows \cup View.live[Cur].rows
  <1>1. todo # <<>>
    BY DEF CopyStep, PlanInv
  <1> DEFINE rows == View.temp[Cur].rows \cup View.live[Cur].rows
             t == WithRows(View.temp[Cur], rows)
  <1>2. /\ Cur \in Contents /\ View \in Disk /\ View.temp[Cur] \in Table /\ View.live[Cur] \in Table
    BY <1>1, CurType, ViewType
  <1>3. t \in Table
    BY <1>2, TableType, WithRowsType
  <1>4. t.cols = View.temp[Cur].cols /\ t.rows = rows
    BY DEF WithRows
  <1>5. View' = PutTemp(View, Cur, t)
    BY DEF CopyStep
  <1> HIDE DEF t
  <1>6. /\ View'.temp[Cur] = t /\ View'.live = View.live
        /\ \A b \in Contents : b # Cur => View'.temp[b] = View.temp[b]
    BY <1>2, <1>3, <1>5, PutTempFacts
  <1> QED
    BY <1>2, <1>4, <1>6

LEMMA FinishView ==
  ASSUME TypeOK, PlanInv, FinishStep
  PROVE  /\ Cur \in Contents /\ Exists(View.temp[Cur])
         /\ View'.live[Cur] = View.temp[Cur] /\ View'.temp[Cur] = NoTable
         /\ \A b \in Contents : b # Cur => /\ View'.live[b] = View.live[b]
                                           /\ View'.temp[b] = View.temp[b]
  <1> DEFINE mid == PutLive(View, Cur, View.temp[Cur])
  <1>1. todo # <<>> /\ Exists(View.temp[Cur]) /\ View' = PutTemp(mid, Cur, NoTable)
    BY DEF FinishStep, PlanInv, Alters
  <1>2. Cur \in Contents /\ View \in Disk /\ View.temp[Cur] \in Table
    BY <1>1, CurType, ViewType
  <1>3. /\ mid \in Disk /\ mid.temp = View.temp /\ mid.live[Cur] = View.temp[Cur]
        /\ \A b \in Contents : b # Cur => mid.live[b] = View.live[b]
    BY <1>2, PutLiveFacts
  <1> HIDE DEF mid
  <1>4. /\ View'.live = mid.live /\ View'.temp[Cur] = NoTable
        /\ \A b \in Contents : b # Cur => View'.temp[b] = mid.temp[b]
    BY <1>1, <1>2, <1>3, PutTempFacts, NoTableType
  <1> QED
    BY <1>1, <1>2, <1>3, <1>4

LEMMA ApplyKinds ==
  ASSUME PlanInv
  PROVE  /\ AddedStep => Head(todo).kind = "added"
         /\ RemovedStep => Head(todo).kind = "removed"
         /\ RenamedStep => Head(todo).kind = "renamed"
         /\ \A a : ColumnStep(a) => Head(todo).kind = "inplace"
         /\ CreateStep \/ CopyStep \/ DropStep \/ FinishStep => Head(todo).kind = "rebuild"
  BY DEF PlanInv, AddedStep, RemovedStep, RenamedStep, ColumnStep, CreateStep, CopyStep,
         DropStep, FinishStep, At

(* A step of a change leaves the tables of the other contents where they are.*)
LEMMA OthersView ==
  ASSUME TypeOK, PlanInv, ApplyStep, NEW b \in Contents, b # Cur, RenamedStep => b # Head(todo).from
  PROVE  /\ Exists(View.live[b]) => Exists(View'.live[b])
         /\ Exists(View.temp[b]) => Exists(View'.temp[b])
  <1>1. CASE AddedStep
    BY <1>1, AddedView
  <1>2. CASE RemovedStep \/ DropStep
    BY <1>2, DroppedView DEF Exists
  <1>3. CASE RenamedStep
    BY <1>3, RenamedView
  <1>4. CASE \E a \in Head(todo).adds : ColumnStep(a)
    BY <1>4, ColumnView
  <1>5. CASE CreateStep \/ CopyStep
    BY <1>5, CreateView, CopyView
  <1>6. CASE FinishStep
    BY <1>6, FinishView
  <1> QED
    BY <1>1, <1>2, <1>3, <1>4, <1>5, <1>6 DEF ApplyStep

LEMMA DistinctTail ==
  ASSUME NEW q \in Seq(Change), q # <<>>, Distinct(q), NEW ch \in Changes(q),
         ch \in Changes(Tail(q)) \/ ch # Head(q)
  PROVE  ch.content # Head(q).content
  <1>1. PICK i \in DOMAIN q : ch = q[i] /\ i # 1
    <2>1. CASE ch \in Changes(Tail(q))
      <3>1. PICK j \in DOMAIN Tail(q) : ch = Tail(q)[j]
        BY <2>1 DEF Changes
      <3>2. j + 1 \in DOMAIN q /\ q[j + 1] = ch /\ j + 1 # 1
        BY <3>1
      <3> QED
        BY <3>2
    <2>2. CASE ch # Head(q)
      BY <2>2 DEF Changes
    <2> QED
      BY <2>1, <2>2
  <1>2. 1 \in DOMAIN q /\ Head(q) = q[1]
    OBVIOUS
  <1> QED
    BY <1>1, <1>2 DEF Distinct

(* What is still to come stays in sight: a step touches the tables of its   *)
(* own change, and a rename those of a content that has none.              *)
LEMMA AwaitStep ==
  ASSUME TypeOK, PlanInv, ApplyStep
  PROVE  AwaitInv'
  <1>1. /\ todo # <<>> /\ todo \in Seq(Change) /\ Head(todo) \in Changes(todo) /\ Cur = Head(todo).content
        /\ Changes(Tail(todo)) \subseteq Changes(todo) /\ Sound(todo) /\ Distinct(todo)
    BY ApplyPhases, ApplyPlan, TailFacts DEF TypeOK, Sound, Cur
  <1> SUFFICES ASSUME tx' # None, NEW ch \in Changes(todo'), phase' = "apply" \/ ch # Head(todo')
               PROVE  /\ Exists(disk'.live[ch.content]) => Exists(View'.live[ch.content])
                      /\ Exists(disk'.temp[ch.content]) => Exists(View'.temp[ch.content])
    BY DEF AwaitInv
  <1> DEFINE b == ch.content
  <1>2. b \in Contents
    <2>1. todo' \in Seq(Change)
      BY ApplyPhases
    <2>2. ch \in Change
      BY ONLY <2>1, ch \in Changes(todo') DEF Changes
    <2> QED
      BY <2>2 DEF Change
  <1>3. CASE tx # None
    <2>1. disk' = disk
      BY <1>3, StoredOrNot
    <2>2. ASSUME ch \in Changes(todo), b # Cur
          PROVE  /\ Exists(disk'.live[b]) => Exists(View'.live[b])
                 /\ Exists(disk'.temp[b]) => Exists(View'.temp[b])
      <3>1. ch # Head(todo)
        BY <1>1, <2>2
      <3>2. /\ Exists(disk.live[b]) => Exists(View.live[b])
            /\ Exists(disk.temp[b]) => Exists(View.temp[b])
        BY <1>3, <2>2, <3>1 DEF PlanInv, AwaitInv
      <3>3. RenamedStep => b # Head(todo).from
        BY <1>1, <2>2, ApplyKinds DEF Sound
      <3> QED
        BY <1>2, <2>1, <2>2, <3>2, <3>3, OthersView
    <2>3. CASE AddedStep \/ RemovedStep \/ RenamedStep \/ FinishStep
      <3>1. ch \in Changes(Tail(todo))
        BY <2>3 DEF AddedStep, RemovedStep, RenamedStep, FinishStep, Done
      <3> QED
        BY <1>1, <2>2, <3>1, DistinctTail
    <2>4. CASE CreateStep \/ CopyStep \/ DropStep
      <3>1. todo' = todo /\ phase' # "apply"
        BY <2>4 DEF CreateStep, CopyStep, DropStep, Stays
      <3> QED
        BY <1>1, <2>2, <3>1, DistinctTail
    <2>5. CASE \E a \in Head(todo).adds : ColumnStep(a)
      <3>1. PICK a \in Head(todo).adds : ColumnStep(a)
        BY <2>5
      <3>2. CASE ch \in Changes(Tail(todo))
        BY <1>1, <2>2, <3>2, DistinctTail
      <3>3. CASE ch = WithoutColumn(Head(todo), a)
        <4>1. b = Cur /\ phase = "apply"
          BY <1>1, <3>1, <3>3 DEF WithoutColumn, ColumnStep, At, Change, Changes
        <4>2. Exists(disk.temp[b]) => Exists(View.temp[b])
          BY <1>1, <1>3, <4>1, AwaitHead DEF PlanInv
        <4> QED
          BY <2>1, <3>1, <4>1, <4>2, ColumnView
      <3> QED
        BY <3>1, <3>2, <3>3, ColumnWork
    <2> QED
      BY <2>3, <2>4, <2>5 DEF ApplyStep
  <1>4. CASE tx = None
    <2>1. CopyStep
      BY <1>4 DEF ApplyStep, AddedStep, RemovedStep, RenamedStep, ColumnStep, FinishStep,
                  CreateStep, DropStep, Alters
    <2>2. disk' = disk /\ disk = View
      BY <1>4, <2>1 DEF CopyStep, View
    <2>3. View'.live = View.live /\ \A x \in Contents : View'.temp[x].cols = View.temp[x].cols
      BY <2>1, CopyView
    <2> QED
      BY <1>2, <2>2, <2>3 DEF Exists
  <1> QED
    BY <1>3, <1>4

LEMMA PlanStep ==
  ASSUME TypeOK, PlanInv, RowsInv, [Next]_vars
  PROVE  PlanInv'
  <1>1. CASE UNCHANGED vars
    <2>1. AwaitInv'
      BY <1>1 DEF vars, PlanInv, AwaitInv, View
    <2> QED
      BY <1>1, <2>1 DEF vars, PlanInv, Planned, Rem, Cur, View, Sound, Lawful, New
  <1>2. CASE Stop
    BY <1>2 DEF Stop, PlanInv, Planned, Applying, AwaitInv
  <1>3. CASE ApplyStep
    <2>1. /\ phase' \in Applying /\ goal' = goal
      BY <1>3, ApplyPhases DEF Working
    <2>2. Planned' => Sound(Rem)'
      BY <1>3, <2>1, ApplyPlan, SoundStays DEF Sound, Lawful, New
    <2>3. phase' \in {"drop", "rename"} => tx' # None
      BY <1>3 DEF ApplyStep, AddedStep, RemovedStep, RenamedStep, ColumnStep, FinishStep,
                  CreateStep, CopyStep, DropStep, Done, Stays, PlanInv, Alters
    <2>4. phase' \in {"copy", "drop", "rename"} => CreateStep \/ CopyStep \/ DropStep
      BY <1>3 DEF ApplyStep, AddedStep, RemovedStep, RenamedStep, ColumnStep, FinishStep, Done
    <2>5. phase' \in {"copy", "drop", "rename"} =>
            todo' # <<>> /\ Head(todo').kind = "rebuild" /\ Exists(View.temp[Cur])'
      BY <2>4, TempStays
    <2>6. AwaitInv'
      BY <1>3, AwaitStep
    <2> QED
      BY <2>1, <2>2, <2>3, <2>5, <2>6 DEF PlanInv
  <1>4. CASE \E p \in Packages : Launch(p)
    <2>1. PICK p \in Packages : Launch(p)
      BY <1>4
    <2>2. Sound(diff)' /\ phase' \in {"down", "backup"} /\ tx' = tx /\ phase = "down"
      BY <2>1, SoundDiff, LaunchFacts
    <2>3. Planned' => Rem' = diff'
      BY <2>2 DEF Planned, Rem, Applying
    <2>4. AwaitInv'
      BY <2>2 DEF PlanInv, AwaitInv, Applying
    <2> QED
      BY <2>2, <2>3, <2>4 DEF PlanInv, Sound, Lawful, Applying
  <1>5. CASE Backup
    <2>1. phase = "backup" /\ phase' = "apply" /\ todo' = diff /\ tx' = tx /\ goal' = goal
      BY <1>5, BackupFacts
    <2>2. Planned /\ Rem = diff /\ Rem' = todo'
      BY <2>1 DEF Planned, Rem
    <2>3. Sound(todo)'
      BY <2>1, <2>2, SoundStays DEF PlanInv
    <2>4. AwaitInv'
      BY <2>1 DEF PlanInv, AwaitInv, Applying
    <2> QED
      BY <2>1, <2>2, <2>3, <2>4 DEF PlanInv, Sound, Lawful, Applying
  <1>6. CASE CommitStep \/ RecordTable \/ RecordRow \/ (\E c \in Contents : SeedingStep(c)) \/ StoreStep \/ Serve
    <2>1. /\ phase' \in {"record", "recordRow", "seed", "serving"} /\ tx' = None
      BY <1>6 DEF CommitStep, RecordTable, RecordRow, SeedingStep, Quiet, StoreStep, StoredStep,
                  Serve, Stays, PlanInv, Applying
    <2> QED
      BY <2>1 DEF PlanInv, Planned, Applying, AwaitInv
  <1> QED
    BY <1>1, <1>2, <1>3, <1>4, <1>5, <1>6, Cases DEF StartStep

LEMMA StoredView ==
  ASSUME TypeOK, PlanInv, NEW r \in Rows, StoredStep(r)
  PROVE  /\ tx = None /\ tx' = None /\ View = disk /\ View' = disk' /\ disk'.temp = disk.temp
         /\ ContentOf[r] \in Contents
         /\ \A b \in Contents : /\ disk'.live[b].cols = disk.live[b].cols
                                /\ disk.live[b].rows \in SUBSET disk'.live[b].rows
                                /\ b # ContentOf[r] => disk'.live[b] = disk.live[b]
         /\ r \in disk'.live[ContentOf[r]].rows /\ Exists(disk'.live[ContentOf[r]])
  <1> DEFINE c == ContentOf[r]
             t == disk.live[c]
             new == WithRows(t, t.rows \cup {r})
  <1>1. /\ phase \in {"seed", "serving"} /\ tx' = tx /\ disk' = PutLive(disk, c, new)
        /\ Exists(t)
    BY DEF StoredStep
  <1>2. tx = None
    BY <1>1 DEF PlanInv, Applying
  <1>3. c \in Contents /\ disk \in Disk
    BY MigrationAssumption DEF TypeOK
  <1> HIDE DEF c
  <1>4. t \in Table /\ t.rows \cup {r} \in SUBSET Rows
    BY <1>3, DiskType, TableType
  <1>5. new \in Table /\ new.cols = t.cols /\ new.rows = t.rows \cup {r}
    BY <1>4, WithRowsType DEF WithRows
  <1> HIDE DEF new
  <1>6. /\ disk'.live[c] = new /\ disk'.temp = disk.temp
        /\ \A b \in Contents : b # c => disk'.live[b] = disk.live[b]
    BY <1>1, <1>3, <1>5, PutLiveFacts
  <1>7. View = disk /\ View' = disk'
    BY <1>1, <1>2 DEF View
  <1>8. ASSUME NEW b \in Contents
        PROVE  /\ disk'.live[b].cols = disk.live[b].cols
               /\ disk.live[b].rows \in SUBSET disk'.live[b].rows
               /\ b # c => disk'.live[b] = disk.live[b]
    BY <1>5, <1>6
  <1>9. r \in disk'.live[c].rows /\ Exists(disk'.live[c])
    BY <1>1, <1>5, <1>6 DEF Exists
  <1> QED
    BY <1>1, <1>2, <1>3, <1>6, <1>7, <1>8, <1>9 DEF c

-----------------------------------------------------------------------------
(* Rows are in tables, and a table that every package declares is there.    *)

LEMMA ViewRowsStep ==
  ASSUME TypeOK, PlanInv, RowsInv, ApplyStep, NEW c \in Contents
  PROVE  /\ View'.temp[c].rows = {} \/ (phase' \in {"drop", "rename"} /\ c = Cur')
         /\ ~Exists(View'.live[c]) => View'.live[c].rows = {}
  <1>1. /\ View.temp[c].rows = {} \/ (phase \in {"drop", "rename"} /\ c = Cur)
        /\ ~Exists(View.live[c]) => View.live[c].rows = {}
    BY DEF RowsInv
  <1>2. CASE AddedStep
    BY <1>1, <1>2, AddedView DEF AddedStep, At
  <1>3. CASE RemovedStep
    <2>1. /\ View'.temp = View.temp /\ View'.live[Cur] = NoTable /\ phase = "apply"
          /\ c # Cur => /\ View'.live[c].cols = View.live[c].cols
                        /\ View'.live[c].rows \subseteq View.live[c].rows
      BY <1>3, DroppedView DEF RemovedStep, At
    <2> QED
      BY <1>1, <2>1, NoTableType DEF Exists
  <1>4. CASE RenamedStep
    <2>1. /\ View'.temp = View.temp /\ phase = "apply"
          /\ \/ View'.live[c] = View.live[c] \/ View'.live[c] = NoTable
             \/ View'.live[c] = View.live[Head(todo).from]
          /\ Exists(View.live[Head(todo).from])
      BY <1>4, RenamedView DEF RenamedStep, At
    <2> QED
      BY <1>1, <2>1, NoTableType
  <1>5. CASE \E a \in Head(todo).adds : ColumnStep(a)
    BY <1>1, <1>5, ColumnView DEF ColumnStep, At
  <1>6. CASE CreateStep
    BY <1>1, <1>6, CreateView DEF CreateStep, At
  <1>7. CASE CopyStep
    <2>1. phase = "copy" /\ phase' = "drop" /\ Cur' = Cur
      BY <1>7 DEF CopyStep, Stays, Cur
    <2>2. View'.live = View.live /\ (c # Cur => View'.temp[c] = View.temp[c])
      BY <1>7, CopyView
    <2> QED
      BY <1>1, <2>1, <2>2
  <1>8. CASE DropStep
    <2>1. phase = "drop" /\ phase' = "rename" /\ Cur' = Cur
      BY <1>8 DEF DropStep, Stays, Cur
    <2>2. /\ View'.temp = View.temp /\ View'.live[Cur] = NoTable
          /\ c # Cur => /\ View'.live[c].cols = View.live[c].cols
                        /\ View'.live[c].rows \subseteq View.live[c].rows
      BY <1>8, DroppedView
    <2> QED
      BY <1>1, <2>1, <2>2, NoTableType DEF Exists
  <1>9. CASE FinishStep
    <2>1. /\ Exists(View.temp[Cur]) /\ View'.live[Cur] = View.temp[Cur] /\ View'.temp[Cur] = NoTable
          /\ c # Cur => View'.live[c] = View.live[c] /\ View'.temp[c] = View.temp[c]
      BY <1>9, FinishView
    <2> QED
      BY <1>1, <2>1, NoTableType
  <1> QED
    BY <1>2, <1>3, <1>4, <1>5, <1>6, <1>7, <1>8, <1>9 DEF ApplyStep

LEMMA RowsStep ==
  ASSUME TypeOK, PlanInv, RowsInv, [Next]_vars
  PROVE  RowsInv'
  <1>1. CASE UNCHANGED vars
    BY <1>1 DEF vars, RowsInv, View, Cur
  <1>2. CASE Stop
    <2>1. disk' = disk /\ View' = disk' /\ phase' = "down" /\ seeds' = <<>>
      BY <1>2 DEF Stop, RowsInv
    <2> QED
      BY <2>1 DEF RowsInv
  <1>3. CASE ApplyStep
    <2>1. phase \in Applying /\ phase' \in Applying /\ seeds' = seeds
      BY <1>3, ApplyPhases DEF Working
    <2>2. seeds = <<>>
      BY <2>1 DEF RowsInv, Applying
    <2>3. PlanInv'
      BY PlanStep
    <2>4. CASE disk' = disk
      BY <1>3, <2>1, <2>2, <2>4, ViewRowsStep DEF RowsInv
    <2>5. CASE disk' = View' /\ tx' = None
      <3>1. phase' \notin {"drop", "rename"}
        BY <2>3, <2>5 DEF PlanInv
      <3>2. \A c \in Contents : /\ disk'.temp[c].rows = {} /\ View'.temp[c].rows = {}
                                /\ ~Exists(disk'.live[c]) => disk'.live[c].rows = {}
                                /\ ~Exists(View'.live[c]) => View'.live[c].rows = {}
        BY <1>3, <2>5, <3>1, ViewRowsStep
      <3> QED
        BY <2>1, <2>2, <3>2 DEF RowsInv
    <2> QED
      BY <1>3, <2>4, <2>5, StoredOrNot
  <1>4. CASE \/ \E p \in Packages : Launch(p)
             \/ Backup \/ RecordTable \/ RecordRow \/ Serve
    <2>1. /\ disk' = disk /\ View' = View /\ seeds' = seeds
          /\ phase \notin {"drop", "rename"}
          /\ seeds # <<>> => phase # "seed"
      BY <1>4, LaunchFacts, BackupFacts DEF RecordTable, RecordRow, Serve, View
    <2>2. seeds' = <<>>
      BY <2>1 DEF RowsInv
    <2> HIDE <1>4
    <2> QED
      BY <2>1, <2>2 DEF RowsInv
  <1>5. CASE CommitStep
    <2>1. disk' = View /\ View' = View /\ seeds' = seeds /\ phase = "apply"
      BY <1>5 DEF CommitStep, Stays, Working
    <2> QED
      BY <2>1 DEF RowsInv
  <1>6. CASE \E c \in Contents : SeedingStep(c)
    <2>1. PICK c \in Contents : SeedingStep(c)
      BY <1>6
    <2>2. \A i \in DOMAIN SeedOf[c] : ContentOf[SeedOf[c][i]] = c
      BY MigrationAssumption
    <2>3. /\ disk' = disk /\ View' = View /\ seeds' = SeedOf[c] /\ phase = "seed" /\ phase' = phase
          /\ Exists(disk.live[c])
      BY <2>1 DEF SeedingStep, Quiet
    <2> QED
      BY <2>2, <2>3 DEF RowsInv
  <1>7. CASE StoreStep
    <2>1. PICK r \in Rows : StoredStep(r) /\ seeds' \in {seeds, Tail(seeds)} /\ (seeds = <<>> => seeds' = seeds)
      BY <1>7 DEF StoreStep
    <2>2. /\ View = disk /\ View' = disk' /\ disk'.temp = disk.temp
          /\ ContentOf[r] \in Contents /\ Exists(disk'.live[ContentOf[r]])
          /\ \A b \in Contents : /\ disk'.live[b].cols = disk.live[b].cols
                                 /\ b # ContentOf[r] => disk'.live[b] = disk.live[b]
      BY <2>1, StoredView
    <2>3. phase \in {"seed", "serving"} /\ phase' = phase
      BY <2>1 DEF StoredStep
    <2>4. \A i \in DOMAIN seeds' : \E j \in DOMAIN seeds : seeds'[i] = seeds[j]
      <3>1. CASE seeds' = seeds
        BY <3>1
      <3>2. CASE seeds # <<>> /\ seeds' = Tail(seeds)
        <4>1. seeds \in Seq(Rows)
          BY DEF TypeOK
        <4>2. /\ Len(seeds) \in Nat /\ DOMAIN seeds = 1..Len(seeds)
              /\ DOMAIN seeds' = 1..(Len(seeds) - 1)
              /\ \A i \in 1..(Len(seeds) - 1) : seeds'[i] = seeds[i + 1]
          BY <3>2, <4>1
        <4>3. \A i \in DOMAIN seeds' : i + 1 \in DOMAIN seeds
          BY <4>2
        <4> QED
          BY <4>2, <4>3
      <3> QED
        BY <2>1, <3>1, <3>2
    <2>5. \A j \in DOMAIN seeds : seeds[j] \in Rows /\ ContentOf[seeds[j]] \in Contents
      BY MigrationAssumption DEF TypeOK
    <2>6. \A i \in DOMAIN seeds' : Exists(disk'.live[ContentOf[seeds'[i]]])
      BY <2>2, <2>4, <2>5 DEF RowsInv, Exists
    <2>7. seeds' # <<>> => phase' = "seed"
      BY <2>1, <2>3 DEF RowsInv
    <2>8. ASSUME NEW c \in Contents
          PROVE  /\ disk'.temp[c].rows = {} /\ View'.temp[c].rows = {}
                 /\ ~Exists(disk'.live[c]) => disk'.live[c].rows = {}
                 /\ ~Exists(View'.live[c]) => View'.live[c].rows = {}
      BY <2>2 DEF RowsInv
    <2> HIDE <1>7, <2>1
    <2> QED
      BY <2>6, <2>7, <2>8 DEF RowsInv
  <1> QED
    BY <1>1, <1>2, <1>3, <1>4, <1>5, <1>6, <1>7, Cases DEF StartStep

LEMMA HeadLawful ==
  ASSUME TypeOK, PlanInv, ApplyStep
  PROVE  /\ todo # <<>> /\ Lawful(Head(todo)) /\ Head(todo) \in Changes(todo)
         /\ Changes(Tail(todo)) \subseteq Changes(todo)
         /\ \A ch \in Changes(todo) : ch = Head(todo) \/ ch \in Changes(Tail(todo))
         /\ \A ch \in Changes(Tail(todo)) : ch.content # Cur
         /\ Left = Changes(todo)
  <1>1. todo # <<>> /\ Sound(todo) /\ Rem = todo
    BY ApplyPhases, ApplyPlan
  <1> QED
    BY <1>1, TailFacts DEF TypeOK, Sound, Left, Cur

LEMMA KeptView ==
  ASSUME TypeOK, PlanInv, KeptInv, ApplyStep, NEW c \in Contents, Kept(c)
  PROVE  \/ Exists(View'.live[c])
         \/ phase' = "rename" /\ c = Cur'
         \/ meta'.schema = None /\ \E ch \in Left' : ch.content = c
  <1>1. /\ Planned /\ Left = Changes(todo) /\ Left' = Changes(todo') /\ meta' = meta
    BY ApplyPlan, ApplyPhases, HeadLawful DEF Working
  <1>2. \/ Exists(View.live[c])
        \/ phase = "rename" /\ c = Cur
        \/ meta.schema = None /\ \E ch \in Changes(todo) : ch.content = c
    BY <1>1 DEF KeptInv
  <1>3. New[c] # None
    BY DEF Kept, New, TypeOK
  <1>4. Lawful(Head(todo)) /\ Cur = Head(todo).content
    BY HeadLawful DEF Cur
  <1>5. \A ch \in Changes(todo) : ch.content = c /\ c # Cur => ch \in Changes(Tail(todo))
    BY HeadLawful, <1>4
  <1>6. CASE AddedStep
    <2>1. phase = "apply" /\ todo' = Tail(todo)
      BY <1>6 DEF AddedStep, At, Done
    <2>2. /\ c # Cur => View'.live[c] = View.live[c]
          /\ c = Cur => Exists(View'.live[c])
      BY <1>3, <1>6, AddedView DEF Exists
    <2> QED
      BY <1>1, <1>2, <1>5, <2>1, <2>2
  <1>7. CASE RemovedStep
    <2>1. phase = "apply" /\ todo' = Tail(todo) /\ Head(todo).kind = "removed"
      BY <1>7 DEF RemovedStep, At, Done
    <2>2. c # Cur
      BY <1>3, <1>4, <2>1 DEF Lawful
    <2>3. View'.live[c].cols = View.live[c].cols
      BY <1>7, <2>2, DroppedView
    <2> QED
      BY <1>1, <1>2, <1>5, <2>1, <2>2, <2>3 DEF Exists
  <1>8. CASE RenamedStep
    <2>1. phase = "apply" /\ todo' = Tail(todo) /\ Head(todo).kind = "renamed"
      BY <1>8 DEF RenamedStep, At, Done
    <2>2. c # Head(todo).from
      BY <1>3, <1>4, <2>1 DEF Lawful
    <2>3. Exists(View'.live[c]) \/ (c # Cur /\ View'.live[c] = View.live[c])
      BY <1>8, <2>2, RenamedView
    <2> QED
      BY <1>1, <1>2, <1>5, <2>1, <2>2, <2>3
  <1>9. CASE \E a \in Head(todo).adds : ColumnStep(a)
    <2>1. PICK a \in Head(todo).adds : ColumnStep(a)
      BY <1>9
    <2>2. phase = "apply" /\ Changes(Tail(todo)) \subseteq Changes(todo')
      BY <2>1, ColumnWork DEF ColumnStep, At
    <2>3. Exists(View'.live[c]) \/ (c # Cur /\ View'.live[c] = View.live[c])
      BY <2>1, ColumnView
    <2> QED
      BY <1>1, <1>2, <1>5, <2>2, <2>3
  <1>10. CASE CreateStep
    <2>1. phase = "apply" /\ todo' = todo /\ View'.live = View.live
      BY <1>10, CreateView DEF CreateStep, At, Stays
    <2> QED
      BY <1>1, <1>2, <2>1
  <1>11. CASE CopyStep
    <2>1. phase = "copy" /\ todo' = todo /\ View'.live = View.live
      BY <1>11, CopyView DEF CopyStep, Stays
    <2> QED
      BY <1>1, <1>2, <2>1
  <1>12. CASE DropStep
    <2>1. phase = "drop" /\ phase' = "rename" /\ todo' = todo /\ Cur' = Cur
      BY <1>12 DEF DropStep, Stays, Cur
    <2>2. c # Cur => View'.live[c].cols = View.live[c].cols
      BY <1>12, DroppedView
    <2> QED
      BY <1>1, <1>2, <2>1, <2>2 DEF Exists
  <1>13. CASE FinishStep
    <2>1. todo' = Tail(todo)
      BY <1>13 DEF FinishStep, Done
    <2>2. /\ c = Cur => Exists(View'.live[c])
          /\ c # Cur => View'.live[c] = View.live[c]
      BY <1>13, FinishView
    <2> QED
      BY <1>1, <1>2, <1>5, <2>1, <2>2
  <1> QED
    BY <1>6, <1>7, <1>8, <1>9, <1>10, <1>11, <1>12, <1>13 DEF ApplyStep

LEMMA KeptStep ==
  ASSUME TypeOK, PlanInv, RowsInv, KeptInv, [Next]_vars
  PROVE  KeptInv'
  <1>0. PlanInv'
    BY PlanStep
  <1> USE DEF Kept
  <1>1. CASE UNCHANGED vars
    BY <1>1 DEF vars, KeptInv, View, Cur, Planned, Left, Rem
  <1>2. CASE Stop
    BY <1>2 DEF Stop, KeptInv, Planned, Applying
  <1>3. CASE ApplyStep
    <2>1. phase' \in Applying /\ meta' = meta
      BY <1>3, ApplyPhases DEF Working
    <2>2. ASSUME NEW c \in Contents, Kept(c), meta.schema # None
          PROVE  Exists(disk'.live[c])
      <3>1. Exists(disk.live[c])
        BY <2>2 DEF KeptInv
      <3>2. CASE disk' = View' /\ tx' = None
        <4>1. phase' # "rename"
          BY <1>0, <3>2 DEF PlanInv
        <4> QED
          BY <1>3, <2>1, <2>2, <3>2, <4>1, KeptView
      <3> QED
        BY <1>3, <3>1, <3>2, StoredOrNot
    <2> QED
      BY <1>3, <2>1, <2>2, KeptView DEF KeptInv, Applying
  <1>4. CASE \E p \in Packages : Launch(p)
    <2>1. PICK p \in Packages : Launch(p)
      BY <1>4
    <2> DEFINE old == Recorded
               new == Schema[p]
    <2>2. /\ phase = "down" /\ phase' \in {"down", "backup"} /\ disk' = disk /\ View' = View
          /\ meta' = meta /\ diff' = Diff(old, new) /\ old \in Schemas /\ new \in Schemas
          /\ order \in Orders /\ tx' = tx
      BY <2>1, LaunchFacts DEF TypeOK
    <2>3. View = disk
      BY <2>2, ViewType DEF PlanInv, Applying
    <2>4. ASSUME NEW c \in Contents, Kept(c), meta.schema = None, ~Exists(disk.live[c])
          PROVE  \E ch \in Changes(diff') : ch.content = c
      <3>1. old[c] = None
        BY <2>4 DEF Recorded, NoSchema, Shapes, Exists
      <3>2. new[c] # None
        BY <2>4
      <3>3. ~RenamedAway(old, new, c)
        BY <3>1 DEF RenamedAway, RenamedFrom
      <3> HIDE DEF old, new
      <3> QED
        BY <2>2, <3>1, <3>2, <3>3, DiffFacts
    <2>5. Planned' => Left' = Changes(diff')
      BY <2>2 DEF Planned, Left, Rem, Applying
    <2> HIDE <1>4, <2>1
    <2> QED
      BY <2>2, <2>3, <2>4, <2>5 DEF KeptInv
  <1>5. CASE Backup
    <2>1. /\ phase = "backup" /\ phase' = "apply" /\ todo' = diff /\ disk' = disk /\ View' = View
          /\ meta' = meta
      BY <1>5, BackupFacts
    <2>2. Planned /\ Left' = Left
      BY <2>1 DEF Planned, Left, Rem
    <2> QED
      BY <2>1, <2>2 DEF KeptInv
  <1>6. CASE CommitStep
    <2>1. /\ phase = "apply" /\ phase' = "record" /\ todo = <<>> /\ disk' = View /\ meta' = meta
      BY <1>6 DEF CommitStep, Stays, Working
    <2>2. Planned /\ Left = {} /\ ~Planned'
      BY <2>1 DEF Planned, Left, Rem, Changes, Applying
    <2> QED
      BY <2>1, <2>2 DEF KeptInv
  <1>7. CASE RecordTable \/ RecordRow \/ (\E c \in Contents : SeedingStep(c)) \/ Serve
    <2>1. /\ disk' = disk /\ phase \in {"record", "recordRow", "seed", "serving"}
          /\ phase' \in {"record", "recordRow", "seed", "serving"}
      BY <1>7 DEF RecordTable, RecordRow, SeedingStep, Quiet, Serve
    <2> QED
      BY <2>1 DEF KeptInv, Planned, Applying
  <1>8. CASE StoreStep
    <2>1. PICK r \in Rows : StoredStep(r)
      BY <1>8 DEF StoreStep
    <2>2. /\ phase \in {"seed", "serving"} /\ phase' = phase
          /\ \A b \in Contents : disk'.live[b].cols = disk.live[b].cols
      BY <2>1, StoredView DEF StoredStep
    <2> QED
      BY <2>2 DEF KeptInv, Planned, Applying, Exists
  <1> QED
    BY <1>1, <1>2, <1>3, <1>4, <1>5, <1>6, <1>7, <1>8, Cases DEF StartStep

LEMMA InitialDisk ==
  ASSUME Init
  PROVE  /\ disk \in Disk /\ View = disk
         /\ \A c \in Contents :
              /\ disk.temp[c] = NoTable
              /\ disk.live[c].rows \subseteq Orphans
              /\ ~Exists(disk.live[c]) => disk.live[c].rows = {}
         /\ Shapes(disk) = NoSchema \/ \E p \in Packages : Shapes(disk) = Schema[p]
  <1>1. PICK s, held : /\ disk = Filled(s, held) /\ held \in SUBSET Orphans
                       /\ s = NoSchema \/ \E p \in Packages : s = Schema[p]
    <2>1. disk = Filled(NoSchema, {})
          \/ disk \in {Filled(Schema[p], held) : p \in {Legacy} \ {None}, held \in SUBSET Orphans}
      BY DEF Init, InitialDisks
    <2>2. {Legacy} \ {None} \subseteq Packages
      BY MigrationAssumption
    <2>3. CASE disk = Filled(NoSchema, {})
      BY <2>3
    <2>4. CASE disk \in {Filled(Schema[p], held) : p \in {Legacy} \ {None}, held \in SUBSET Orphans}
      <3>1. PICK p \in {Legacy} \ {None}, held \in SUBSET Orphans : disk = Filled(Schema[p], held)
        BY <2>4
      <3> QED
        BY <2>2, <3>1
    <2> QED
      BY <2>1, <2>3, <2>4
  <1>2. s \in Schemas
    <2>1. NoSchema \in Schemas
      BY DEF NoSchema, Schemas
    <2> QED
      BY <1>1, <2>1, MigrationAssumption
  <1>3. Orphans \subseteq Rows
    BY MigrationAssumption
  <1> DEFINE live == [c \in Contents |-> IF s[c] = None THEN NoTable
                                         ELSE [cols |-> s[c], rows |-> Held(c, held)]]
  <1>4. ASSUME NEW c \in Contents
        PROVE  /\ live[c] \in Table /\ live[c].cols = s[c] /\ live[c].rows \subseteq Orphans
               /\ ~Exists(live[c]) => live[c].rows = {}
    <2> DEFINE rows == Held(c, held)
    <2>1. rows \in SUBSET Rows /\ rows \subseteq Orphans
      BY <1>1, <1>3 DEF Held
    <2> HIDE DEF rows
    <2>2. s[c] \in {None} \cup SUBSET Columns
      BY <1>2 DEF Schemas
    <2>3. live[c] = IF s[c] = None THEN NoTable ELSE [cols |-> s[c], rows |-> rows]
      BY DEF rows
    <2> HIDE DEF live
    <2>4. CASE s[c] = None
      BY <2>3, <2>4 DEF NoTable, Table
    <2>5. CASE s[c] # None
      <3>1. live[c] = [cols |-> s[c], rows |-> rows]
        BY <2>3, <2>5
      <3>2. live[c] \in Table
        BY <2>1, <2>2, <3>1 DEF Table
      <3> QED
        BY <2>1, <2>5, <3>1, <3>2 DEF Exists
    <2> QED
      BY <2>4, <2>5
  <1>5. live \in [Contents -> Table] /\ [c \in Contents |-> NoTable] \in [Contents -> Table]
    <2>1. live = [c \in Contents |-> live[c]]
      OBVIOUS
    <2> HIDE DEF live
    <2> QED
      BY <1>4, <2>1, NoTableType
  <1> HIDE DEF live
  <1>6. disk.live = live /\ disk.temp = [c \in Contents |-> NoTable] /\ disk \in Disk
    <2>1. disk = [live |-> live, temp |-> [c \in Contents |-> NoTable]]
      BY <1>1 DEF live, Filled
    <2> QED
      BY <1>5, <2>1 DEF Disk
  <1>7. Shapes(disk) = s
    BY <1>2, <1>4, <1>6 DEF Shapes, Schemas
  <1>8. View = disk
    BY DEF Init, View
  <1> QED
    BY <1>1, <1>4, <1>6, <1>7, <1>8

(* What the run of a start is made of. *)
BaseInv == TypeOK /\ PlanInv /\ MetaInv /\ RowsInv /\ KeptInv

LEMMA InitBase == Init => BaseInv
  <1> SUFFICES ASSUME Init PROVE BaseInv
    OBVIOUS
  <1>1. TypeOK
    <2>1. <<>> \in Seq(Change) /\ <<>> \in Seq(Rows) /\ 0 \in 0..MaxFaults
      BY MigrationAssumption
    <2>2. counts \in [Contents -> Nat \cup {None}]
      BY DEF Init
    <2>3. disk \in Disk
      BY InitialDisk
    <2>4. meta \in [made : BOOLEAN, schema : Schemas \cup {None}]
      BY DEF Init
    <2> QED
      BY <2>1, <2>2, <2>3, <2>4 DEF Init, TypeOK, Phases
  <1>2. PlanInv
    BY DEF Init, PlanInv, Planned, Applying, AwaitInv
  <1>3. MetaInv
    BY DEF Init, MetaInv
  <1>4. RowsInv
    BY InitialDisk, NoTableType DEF Init, RowsInv
  <1>5. KeptInv
    BY DEF Init, KeptInv, Planned, Applying
  <1> QED
    BY <1>1, <1>2, <1>3, <1>4, <1>5 DEF BaseInv

LEMMA BaseStep == BaseInv /\ [Next]_vars => BaseInv'
  BY TypeStep, PlanStep, MetaStep, RowsStep, KeptStep DEF BaseInv

LEMMA BaseCorrect == Spec => []BaseInv
  BY InitBase, BaseStep, PTL DEF Spec

(* Every variable keeps its type: whatever is started, stopped and started  *)
(* again, the tables, the metadata and the changes that are left are what  *)
(* storage_sqlite.py::migrate and app.py::lifespan expect to find.         *)
THEOREM TypeCorrect == Spec => []TypeOK
  <1>1. BaseInv => TypeOK
    BY DEF BaseInv
  <1> QED
    BY <1>1, BaseCorrect, PTL

(* A rebuild happens as a whole: the transaction that the copy opens covers *)
(* the drop of the old table and the new one's name, so no stop leaves a    *)
(* copied row in a rebuild table or a declared content without its table    *)
(* (storage_sqlite.py::_rebuild_table, migrate).                           *)
THEOREM RebuildCorrect == Spec => []RebuildIsAtomic
  <1>1. BaseInv => RebuildIsAtomic
    BY DEF BaseInv, RowsInv, KeptInv, Kept, RebuildIsAtomic
  <1> QED
    BY <1>1, BaseCorrect, PTL

-----------------------------------------------------------------------------
(* No row is lost.  A content with rows of a safe one keeps its table.      *)

LEMMA SteadyFacts ==
  ASSUME NEW c \in Contents, Steady(c)
  PROVE  /\ \A p, q \in Packages : Schema[p][c] # None /\ Schema[p][c] = Schema[q][c]
         /\ \A n \in Renames : n[1] # c /\ n[2] # c
  BY MigrationAssumption, ShallowAssumption DEF Steady, Safe

LEMMA SteadyView ==
  ASSUME TypeOK, PlanInv, SteadyInv, ApplyStep, NEW c \in Contents, Steady(c)
  PROVE  View'.live[c].cols \in {None, New[c]}
  <1>1. /\ Planned /\ Left = Changes(todo) /\ Head(todo) \in Changes(todo)
        /\ Lawful(Head(todo)) /\ Cur = Head(todo).content
    BY ApplyPlan, HeadLawful DEF Cur
  <1>2. View.live[c].cols \in {None, New[c]} /\ (c = Cur => Head(todo).kind = "added")
    BY <1>1 DEF SteadyInv
  <1>3. New[c] # None
    BY SteadyFacts DEF New, TypeOK
  <1>4. CASE AddedStep
    BY <1>2, <1>4, AddedView
  <1>5. CASE RemovedStep \/ DropStep
    <2>1. c # Cur
      BY <1>2, <1>5, ApplyKinds
    <2> QED
      BY <1>2, <1>5, <2>1, DroppedView
  <1>6. CASE RenamedStep
    <2>1. c # Cur /\ c # Head(todo).from
      BY <1>1, <1>2, <1>3, <1>6, ApplyKinds DEF Lawful
    <2> QED
      BY <1>2, <1>6, <2>1, RenamedView
  <1>7. CASE \E a \in Head(todo).adds : ColumnStep(a)
    <2>1. c # Cur
      BY <1>2, <1>7, ApplyKinds
    <2> QED
      BY <1>2, <1>7, <2>1, ColumnView
  <1>8. CASE CreateStep \/ CopyStep
    BY <1>2, <1>8, CreateView, CopyView
  <1>9. CASE FinishStep
    <2>1. c # Cur
      BY <1>2, <1>9, ApplyKinds
    <2> QED
      BY <1>2, <1>9, <2>1, FinishView
  <1> QED
    BY <1>4, <1>5, <1>6, <1>7, <1>8, <1>9 DEF ApplyStep

(* The kinds of the changes that are left are kinds of changes before.      *)
LEMMA WorkKinds ==
  ASSUME TypeOK, PlanInv, ApplyStep, NEW ch \in Left'
  PROVE  \E was \in Left : ch.content = was.content /\ ch.kind = was.kind /\ ch.from = was.from
  <1>1. /\ Left = Changes(todo) /\ Left' = Changes(todo') /\ todo # <<>>
        /\ Changes(Tail(todo)) \subseteq Changes(todo) /\ Head(todo) \in Changes(todo)
        /\ Head(todo) \in Change
    BY ApplyPlan, HeadLawful, CurType
  <1>2. CASE todo' \in {todo, Tail(todo)}
    BY <1>1, <1>2
  <1>3. CASE \E a \in Head(todo).adds : ColumnStep(a)
    BY <1>1, <1>3, ColumnWork, WithoutColumnFacts
  <1> QED
    BY <1>2, <1>3 DEF ApplyStep, AddedStep, RemovedStep, RenamedStep, FinishStep, Done,
                      CreateStep, CopyStep, DropStep, Stays

LEMMA SteadyStep ==
  ASSUME BaseInv, SteadyInv, [Next]_vars
  PROVE  SteadyInv'
  <1>0. TypeOK /\ PlanInv /\ RowsInv /\ MetaInv
    BY DEF BaseInv
  <1>a. \A c \in Contents : Steady(c) => New'[c] = New[c]
    <2>1. goal \in Packages /\ goal' \in Packages
      BY <1>0, TypeStep DEF TypeOK
    <2> QED
      BY <2>1, SteadyFacts DEF New
  <1>1. CASE UNCHANGED vars
    BY <1>1 DEF vars, SteadyInv, View, Planned, Left, Rem, New
  <1>2. CASE Stop
    <2>1. disk' = disk /\ View' = disk /\ phase' = "down"
      BY <1>2 DEF Stop
    <2> QED
      BY <1>a, <2>1 DEF SteadyInv, Planned, Applying
  <1>3. CASE ApplyStep
    <2>1. /\ Planned /\ New' = New
      BY <1>0, <1>3, ApplyPlan
    <2>2. \A ch \in Left' : Steady(ch.content) => ch.kind = "added"
      BY <1>0, <1>3, <2>1, WorkKinds DEF SteadyInv
    <2>3. \A c \in Contents : Steady(c) => View'.live[c].cols \in {None, New[c]}
      BY <1>0, <1>3, SteadyView
    <2>4. disk' = disk \/ disk' = View'
      BY <1>0, <1>3, StoredOrNot
    <2> QED
      BY <2>1, <2>2, <2>3, <2>4 DEF SteadyInv
  <1>4. CASE \E p \in Packages : Launch(p)
    <2>1. PICK p \in Packages : Launch(p)
      BY <1>4
    <2> DEFINE old == Recorded
               new == Schema[p]
    <2>2. /\ phase' \in {"down", "backup"} /\ disk' = disk /\ View' = View /\ goal' = p
          /\ diff' = Diff(old, new) /\ old \in Schemas /\ new \in Schemas /\ order \in Orders
      BY <1>0, <2>1, LaunchFacts DEF TypeOK
    <2>3. ASSUME NEW ch \in Changes(diff'), Steady(ch.content)
          PROVE  ch.kind = "added"
      <3> DEFINE c == ch.content
      <3>1. /\ ch \in Change /\ ch = ChangeOf(old, new, c) /\ old[c] # new[c]
        <4> HIDE DEF old, new
        <4> QED
          BY <2>2, DiffFacts
      <3>2. c \in Contents
        BY <3>1 DEF Change
      <3>3. RenamedFrom(old, new, c) = {}
        BY <2>3, <3>2, SteadyFacts DEF RenamedFrom
      <3>4. new[c] = New[c] /\ \A q \in Packages : Schema[q][c] = new[c]
        BY <1>0, <2>3, <3>2, SteadyFacts DEF New, TypeOK
      <3>5. old[c] = None
        <4>1. CASE meta.made
          BY <1>0, <3>1, <3>2, <3>4, <4>1 DEF MetaInv, Recorded, NoSchema
        <4>2. CASE ~meta.made
          BY <2>3, <3>1, <3>2, <3>4, <4>2 DEF SteadyInv, Recorded, Shapes
        <4> QED
          BY <4>1, <4>2
      <3> HIDE DEF c, old, new
      <3> QED
        BY <2>2, <3>1, <3>2, <3>3, <3>5, ChangeKinds
    <2>4. Planned' => Left' = Changes(diff')
      BY <2>2 DEF Planned, Left, Rem, Applying
    <2> HIDE <1>4, <2>1
    <2> QED
      BY <1>a, <2>2, <2>3, <2>4 DEF SteadyInv
  <1>5. CASE Backup
    <2>1. /\ phase = "backup" /\ phase' = "apply" /\ todo' = diff /\ disk' = disk /\ View' = View
      BY <1>0, <1>5, BackupFacts
    <2>2. Planned /\ Left' = Left
      BY <2>1 DEF Planned, Left, Rem
    <2> QED
      BY <1>a, <2>1, <2>2 DEF SteadyInv
  <1>6. CASE CommitStep \/ RecordTable \/ RecordRow \/ (\E c \in Contents : SeedingStep(c)) \/ Serve
    <2>1. /\ disk' \in {disk, View} /\ View' = View /\ phase' \in {"record", "recordRow", "seed", "serving"}
      BY <1>6 DEF CommitStep, Stays, RecordTable, RecordRow, SeedingStep, Quiet, Serve, View
    <2> HIDE <1>6
    <2> QED
      BY <1>a, <2>1 DEF SteadyInv, Planned, Applying
  <1>7. CASE StoreStep
    <2>1. PICK r \in Rows : StoredStep(r)
      BY <1>7 DEF StoreStep
    <2>2. /\ phase' \in {"seed", "serving"} /\ View = disk /\ View' = disk'
          /\ \A b \in Contents : disk'.live[b].cols = disk.live[b].cols
      BY <1>0, <2>1, StoredView DEF StoredStep
    <2> HIDE <1>7, <2>1
    <2> QED
      BY <1>a, <2>2 DEF SteadyInv, Planned, Applying
  <1> QED
    BY <1>0, <1>1, <1>2, <1>3, <1>4, <1>5, <1>6, <1>7, Cases DEF StartStep

(* A row of a content that is to be kept is not referring to a dropped table.*)
LEMMA NotReferring ==
  ASSUME TypeOK, PlanInv, SteadyInv, RemovedStep \/ DropStep,
         NEW r \in Rows, Safe(ContentOf[r])
  PROVE  r \notin Referring(View, Cur)
  <1> SUFFICES ASSUME r \in Referring(View, Cur) PROVE FALSE
    OBVIOUS
  <1>1. /\ Planned /\ Left = Changes(todo) /\ Head(todo) \in Changes(todo) /\ MayDrop(View, Cur)
        /\ Head(todo).kind \in {"removed", "rebuild"} /\ Cur = Head(todo).content
    BY ApplyPlan, HeadLawful, ApplyKinds, DroppedView DEF ApplyStep, Cur
  <1>2. ContentOf[r] \in Contents /\ Parent[ContentOf[r]] = Cur
        /\ OnDelete[ContentOf[r]] = "cascade"
    BY <1>1, MigrationAssumption DEF Referring, MayDrop
  <1>3. Steady(Cur)
    BY <1>2 DEF Steady
  <1>4. Head(todo).kind = "added"
    BY <1>1, <1>3 DEF SteadyInv
  <1> QED
    BY <1>1, <1>4

LEMMA SafeView ==
  ASSUME TypeOK, PlanInv, RowsInv, SteadyInv, SafeInv, ApplyStep,
         NEW r \in written, Safe(ContentOf[r])
  PROVE  /\ (phase' = "rename" /\ ContentOf[r] = Cur') \/ r \in View'.live[ContentOf[r]].rows
         /\ phase' \in {"drop", "rename"} /\ ContentOf[r] = Cur' => r \in View'.temp[ContentOf[r]].rows
  <1> DEFINE c == ContentOf[r]
  <1>1. r \in Rows /\ c \in Contents
    BY MigrationAssumption DEF TypeOK
  <1>2. /\ (phase = "rename" /\ c = Cur) \/ r \in View.live[c].rows
        /\ phase \in {"drop", "rename"} /\ c = Cur => r \in View.temp[c].rows
    BY DEF SafeInv
  <1>3. New[c] # None
    BY DEF Safe, New, TypeOK
  <1>4. /\ Lawful(Head(todo)) /\ Cur = Head(todo).content
    BY HeadLawful DEF Cur
  <1>5. RemovedStep \/ DropStep => r \notin Referring(View, Cur)
    BY <1>1, NotReferring
  <1>6. ~Exists(View.live[c]) => View.live[c].rows = {}
    BY <1>1 DEF RowsInv
  <1> HIDE DEF c
  <1>7. CASE AddedStep
    <2>1. phase = "apply" /\ phase' = "apply"
      BY <1>7 DEF AddedStep, At, Done
    <2>2. r \in View'.live[c].rows
      BY <1>1, <1>2, <1>6, <1>7, <2>1, AddedView
    <2> QED
      BY <2>1, <2>2 DEF c
  <1>8. CASE RemovedStep
    <2>1. phase = "apply" /\ phase' = "apply"
      BY <1>8 DEF RemovedStep, At, Done
    <2>2. c # Cur
      BY <1>3, <1>4, <1>8, ApplyKinds DEF Lawful
    <2>3. r \in View'.live[c].rows
      BY <1>1, <1>2, <1>5, <1>8, <2>1, <2>2, DroppedView
    <2> QED
      BY <2>1, <2>3 DEF c
  <1>9. CASE RenamedStep
    <2>1. phase = "apply" /\ phase' = "apply"
      BY <1>9 DEF RenamedStep, At, Done
    <2>2. c # Head(todo).from
      BY <1>3, <1>4, <1>9, ApplyKinds DEF Lawful
    <2>3. r \in View'.live[c].rows
      BY <1>1, <1>2, <1>6, <1>9, <2>1, <2>2, RenamedView
    <2> QED
      BY <2>1, <2>3 DEF c
  <1>10. CASE \E a \in Head(todo).adds : ColumnStep(a)
    <2>1. phase = "apply" /\ phase' = "apply"
      BY <1>10 DEF ColumnStep, At
    <2>2. r \in View'.live[c].rows
      BY <1>1, <1>2, <1>10, <2>1, ColumnView
    <2> QED
      BY <2>1, <2>2 DEF c
  <1>11. CASE CreateStep
    <2>1. phase = "apply" /\ phase' = "copy"
      BY <1>11 DEF CreateStep, At, Stays
    <2>2. r \in View'.live[c].rows
      BY <1>2, <1>11, <2>1, CreateView
    <2> QED
      BY <2>1, <2>2 DEF c
  <1>12. CASE CopyStep
    <2>1. phase = "copy" /\ phase' = "drop" /\ Cur' = Cur
      BY <1>12 DEF CopyStep, Stays, Cur
    <2>2. r \in View'.live[c].rows
      BY <1>2, <1>12, <2>1, CopyView
    <2>3. c = Cur => r \in View'.temp[c].rows
      BY <1>2, <1>12, <2>1, CopyView
    <2> QED
      BY <2>1, <2>2, <2>3 DEF c
  <1>13. CASE DropStep
    <2>1. phase = "drop" /\ phase' = "rename" /\ Cur' = Cur
      BY <1>13 DEF DropStep, Stays, Cur
    <2>2. c # Cur => r \in View'.live[c].rows
      BY <1>1, <1>2, <1>5, <1>13, <2>1, DroppedView
    <2>3. c = Cur => r \in View'.temp[c].rows
      BY <1>2, <1>13, <2>1, DroppedView
    <2> QED
      BY <2>1, <2>2, <2>3 DEF c
  <1>14. CASE FinishStep
    <2>1. phase = "rename" /\ phase' = "apply"
      BY <1>14 DEF FinishStep, Done
    <2>2. r \in View'.live[c].rows
      BY <1>1, <1>2, <1>14, <2>1, FinishView
    <2> QED
      BY <2>1, <2>2 DEF c
  <1> QED
    BY <1>7, <1>8, <1>9, <1>10, <1>11, <1>12, <1>13, <1>14 DEF ApplyStep

LEMMA SafeStep ==
  ASSUME BaseInv, SteadyInv, SafeInv, [Next]_vars
  PROVE  SafeInv'
  <1>0. TypeOK /\ PlanInv /\ RowsInv /\ PlanInv'
    BY BaseStep DEF BaseInv
  <1>a. \A r \in written : r \in Rows /\ ContentOf[r] \in Contents
    BY <1>0, MigrationAssumption DEF TypeOK
  <1>1. CASE UNCHANGED vars
    BY <1>1 DEF vars, SafeInv, View, Cur
  <1>2. CASE Stop
    <2>1. disk' = disk /\ View' = disk /\ phase' = "down" /\ written' = written
      BY <1>2 DEF Stop
    <2> HIDE <1>2
    <2> QED
      BY <2>1 DEF SafeInv
  <1>3. CASE ApplyStep
    <2>1. written' = written
      BY <1>0, <1>3, ApplyPhases DEF Working
    <2> SUFFICES ASSUME NEW r \in written, Safe(ContentOf[r])
                 PROVE  /\ r \in disk'.live[ContentOf[r]].rows
                        /\ (phase' = "rename" /\ ContentOf[r] = Cur') \/ r \in View'.live[ContentOf[r]].rows
                        /\ phase' \in {"drop", "rename"} /\ ContentOf[r] = Cur'
                             => r \in View'.temp[ContentOf[r]].rows
      BY <2>1 DEF SafeInv
    <2>2. r \in disk.live[ContentOf[r]].rows
      BY DEF SafeInv
    <2>3. /\ (phase' = "rename" /\ ContentOf[r] = Cur') \/ r \in View'.live[ContentOf[r]].rows
          /\ phase' \in {"drop", "rename"} /\ ContentOf[r] = Cur' => r \in View'.temp[ContentOf[r]].rows
      BY <1>0, <1>3, SafeView
    <2>4. disk' = disk \/ (disk' = View' /\ phase' # "rename")
      BY <1>0, <1>3, StoredOrNot DEF PlanInv
    <2> QED
      BY <2>2, <2>3, <2>4
  <1>4. CASE (\E p \in Packages : Launch(p)) \/ Backup \/ RecordTable \/ RecordRow
             \/ (\E c \in Contents : SeedingStep(c)) \/ Serve
    <2>1. /\ disk' = disk /\ View' = View /\ written' = written
          /\ phase \notin {"drop", "rename"} /\ phase' \notin {"drop", "rename"}
      BY <1>0, <1>4, LaunchFacts, BackupFacts DEF RecordTable, RecordRow, SeedingStep, Quiet, Serve, View
    <2> HIDE <1>4
    <2> QED
      BY <2>1 DEF SafeInv
  <1>5. CASE CommitStep
    <2>1. /\ disk' = View /\ View' = View /\ written' = written /\ phase = "apply" /\ phase' = "record"
      BY <1>5 DEF CommitStep, Stays, Working
    <2> HIDE <1>5
    <2> QED
      BY <2>1 DEF SafeInv
  <1>6. CASE StoreStep
    <2>1. PICK r \in Rows : StoredStep(r)
      BY <1>6 DEF StoreStep
    <2>2. /\ View' = disk' /\ ContentOf[r] \in Contents /\ r \in disk'.live[ContentOf[r]].rows
          /\ \A b \in Contents : disk.live[b].rows \in SUBSET disk'.live[b].rows
      BY <1>0, <2>1, StoredView
    <2>3. written' = written \cup {r} /\ phase' \in {"seed", "serving"}
      BY <2>1 DEF StoredStep
    <2> HIDE <1>6, <2>1
    <2>4. \A s \in written' : Safe(ContentOf[s]) => s \in disk'.live[ContentOf[s]].rows
      BY <1>a, <2>2, <2>3 DEF SafeInv
    <2> QED
      BY <2>2, <2>3, <2>4 DEF SafeInv
  <1> QED
    BY <1>0, <1>1, <1>2, <1>3, <1>4, <1>5, <1>6, Cases DEF StartStep

-----------------------------------------------------------------------------
(* The rows that a migration takes out on purpose are in a backup.          *)

(* A migration without a backup takes no rows out.                          *)
Harmless == \A ch \in Left : ch.kind \in {"removed", "rebuild"} =>
              View.live[ch.content].rows = {} /\ View.temp[ch.content].rows = {}

LEMMA HarmlessStep ==
  ASSUME TypeOK, PlanInv, RowsInv, ApplyStep, Harmless
  PROVE  /\ LiveRows(View) \subseteq LiveRows(View')
         /\ Harmless'
  <1>1. /\ Left = Changes(todo) /\ Left' = Changes(todo') /\ Sound(todo)
        /\ Head(todo) \in Changes(todo) /\ Head(todo) \in Change
        /\ Changes(Tail(todo)) \subseteq Changes(todo)
        /\ \A ch \in Changes(Tail(todo)) : ch.content # Cur
        /\ Cur = Head(todo).content /\ todo \in Seq(Change)
    BY ApplyPlan, HeadLawful, CurType DEF Cur, TypeOK
  <1>2. \A ch \in Changes(todo) : ch \in Change /\ ch.content \in Contents
    BY <1>1, ChangesType
  <1>3. \A ch \in Changes(todo) : ch.kind \in {"removed", "rebuild"} =>
          View.live[ch.content].rows = {} /\ View.temp[ch.content].rows = {}
    BY <1>1 DEF Harmless
  <1>4. \A c \in Contents : ~Exists(View.live[c]) => View.live[c].rows = {}
    BY DEF RowsInv
  <1>c. Head(todo).kind \in {"removed", "rebuild"} =>
          View.live[Cur].rows = {} /\ View.temp[Cur].rows = {}
    BY <1>1, <1>3
  (* It is enough that no row leaves its table and the others stay empty. *)
  <1>5. ASSUME \A c \in Contents, r \in Rows : r \in View.live[c].rows =>
                 \E b \in Contents : r \in View'.live[b].rows
        PROVE  LiveRows(View) \subseteq LiveRows(View')
    <2>1. \A c \in Contents : View.live[c].rows \in SUBSET Rows
      BY ViewType, DiskType, TableType
    <2> QED
      BY <1>5, <2>1 DEF LiveRows
  <1>6. CASE AddedStep
    <2>1. todo' = Tail(todo)
      BY <1>6 DEF AddedStep, Done
    <2>2. \A c \in Contents : View'.live[c].rows = View.live[c].rows /\ View'.temp[c] = View.temp[c]
      BY <1>4, <1>6, AddedView
    <2>3. Harmless'
      BY <1>1, <1>2, <1>3, <2>1, <2>2 DEF Harmless
    <2> QED
      BY <1>5, <2>2, <2>3
  <1>7. CASE RemovedStep \/ DropStep
    <2>1. todo' \in {todo, Tail(todo)} /\ Head(todo).kind \in {"removed", "rebuild"}
      BY <1>7, ApplyKinds DEF RemovedStep, DropStep, Done, Stays
    <2>2. /\ Cur \in Contents /\ View'.temp = View.temp /\ View'.live[Cur] = NoTable
          /\ \A b \in Contents : b # Cur =>
               /\ \A r \in Rows : r \in View'.live[b].rows
                                   <=> r \in View.live[b].rows /\ r \notin Referring(View, Cur)
               /\ View'.live[b].rows \in SUBSET View.live[b].rows
      BY <1>7, DroppedView
    <2>3. Referring(View, Cur) = {}
      BY <1>c, <2>1 DEF Referring
    <2>4. \A b \in Contents, r \in Rows : r \in View.live[b].rows => r \in View'.live[b].rows
      BY <1>c, <2>1, <2>2, <2>3
    <2>5. \A b \in Contents : View.live[b].rows = {} => View'.live[b].rows = {}
      BY <2>2, NoTableType
    <2>6. Harmless'
      BY <1>1, <1>2, <1>3, <2>1, <2>2, <2>5 DEF Harmless
    <2> QED
      BY <1>5, <2>4, <2>6
  <1>8. CASE RenamedStep
    <2> DEFINE o == Head(todo).from
    <2>1. todo' = Tail(todo) /\ Head(todo).kind = "renamed"
      BY <1>8, ApplyKinds DEF RenamedStep, Done
    <2>2. /\ Cur \in Contents /\ o \in Contents /\ View'.temp = View.temp
          /\ ~Exists(View.live[Cur])
          /\ View'.live[Cur] = View.live[o] /\ View'.live[o] = NoTable
          /\ \A b \in Contents \ {Cur, o} : View'.live[b] = View.live[b]
      BY <1>8, RenamedView
    <2>3. \A b \in Contents, r \in Rows : r \in View.live[b].rows =>
            \E c \in Contents : r \in View'.live[c].rows
      BY <1>4, <2>2
    <2>4. \A ch \in Changes(todo) : ch.content # o
      BY <1>1, <2>1 DEF Sound
    <2>5. Harmless'
      BY <1>1, <1>2, <1>3, <2>1, <2>2, <2>4 DEF Harmless
    <2> QED
      BY <1>5, <2>3, <2>5
  <1>9. CASE \E a \in Head(todo).adds : ColumnStep(a)
    <2>1. PICK a \in Head(todo).adds : ColumnStep(a)
      BY <1>9
    <2>2. \A c \in Contents : View'.live[c].rows = View.live[c].rows /\ View'.temp[c] = View.temp[c]
      BY <2>1, ColumnView
    <2>3. \A ch \in Left' : \E was \in Left : ch.content = was.content /\ ch.kind = was.kind
      BY WorkKinds
    <2>4. Harmless'
      <3> SUFFICES ASSUME NEW ch \in Left', ch.kind \in {"removed", "rebuild"}
                   PROVE  View'.live[ch.content].rows = {} /\ View'.temp[ch.content].rows = {}
        BY DEF Harmless
      <3>1. PICK was \in Changes(todo) : ch.content = was.content /\ ch.kind = was.kind
        BY <1>1, <2>3
      <3>2. /\ was.content \in Contents
            /\ View.live[was.content].rows = {} /\ View.temp[was.content].rows = {}
        BY <1>2, <1>3, <3>1
      <3> QED
        BY <2>2, <3>1, <3>2
    <2> QED
      BY <1>5, <2>2, <2>4
  <1>10. CASE CreateStep
    <2>1. todo' = todo
      BY <1>10 DEF CreateStep, Stays
    <2>2. /\ View'.live = View.live
          /\ \A b \in Contents : View.temp[b].rows = {} => View'.temp[b].rows = {}
      BY <1>10, CreateView
    <2>3. Harmless'
      BY <1>1, <1>2, <1>3, <2>1, <2>2 DEF Harmless
    <2> QED
      BY <1>5, <2>2, <2>3
  <1>11. CASE CopyStep
    <2>1. todo' = todo /\ Head(todo).kind = "rebuild"
      BY <1>11, ApplyKinds DEF CopyStep, Stays
    <2>2. /\ View'.live = View.live
          /\ \A b \in Contents : b # Cur => View'.temp[b] = View.temp[b]
          /\ View'.temp[Cur].rows = View.temp[Cur].rows \cup View.live[Cur].rows
      BY <1>11, CopyView
    <2>3. View'.temp[Cur].rows = {}
      BY <1>c, <2>1, <2>2
    <2>4. Harmless'
      BY <1>1, <1>2, <1>3, <2>1, <2>2, <2>3 DEF Harmless
    <2> QED
      BY <1>5, <2>2, <2>4
  <1>12. CASE FinishStep
    <2>1. todo' = Tail(todo) /\ Head(todo).kind = "rebuild"
      BY <1>12, ApplyKinds DEF FinishStep, Done
    <2>2. \A b \in Contents : b # Cur => View'.live[b] = View.live[b] /\ View'.temp[b] = View.temp[b]
      BY <1>12, FinishView
    <2>3. \A b \in Contents, r \in Rows : r \in View.live[b].rows => r \in View'.live[b].rows
      BY <1>c, <2>1, <2>2
    <2>4. Harmless'
      BY <1>1, <1>2, <1>3, <2>1, <2>2 DEF Harmless
    <2> QED
      BY <1>5, <2>3, <2>4
  <1> QED
    BY <1>6, <1>7, <1>8, <1>9, <1>10, <1>11, <1>12 DEF ApplyStep

LEMMA BackStep ==
  ASSUME BaseInv, BackInv, [Next]_vars, LossesAreRisky
  PROVE  BackInv'
  <1>0. TypeOK /\ PlanInv /\ RowsInv
    BY DEF BaseInv
  <1>1. CASE UNCHANGED vars
    BY <1>1 DEF vars, BackInv, View, Left, Rem, LiveRows
  <1>2. CASE Stop
    <2>1. disk' = disk /\ phase' = "down" /\ written' = written /\ backedUp' = backedUp
      BY <1>2 DEF Stop
    <2> QED
      BY <2>1 DEF BackInv, Applying
  <1>3. CASE ApplyStep
    <2>1. phase \in Applying /\ written' = written /\ backedUp' = backedUp
      BY <1>0, <1>3, ApplyPhases DEF Working
    <2>2. CASE written \subseteq backedUp
      BY <2>1, <2>2 DEF BackInv
    <2>3. CASE written \subseteq LiveRows(View) \cup backedUp /\ Harmless
      <3>1. LiveRows(View) \subseteq LiveRows(View') /\ Harmless'
        BY <1>0, <1>3, <2>3, HarmlessStep
      <3>2. disk' = disk \/ disk' = View'
        BY <1>0, <1>3, StoredOrNot
      <3>3. written' \subseteq LiveRows(disk') \cup backedUp'
        BY <2>1, <2>3, <3>1, <3>2 DEF BackInv
      <3>4. written' \subseteq LiveRows(View') \cup backedUp'
        BY <2>1, <2>3, <3>1
      <3> QED
        BY <3>1, <3>3, <3>4 DEF BackInv, Harmless
    <2> QED
      BY <2>1, <2>2, <2>3 DEF BackInv, Harmless
  <1>4. CASE Backup
    <2>1. /\ phase = "backup" /\ phase' = "apply" /\ todo' = diff /\ View' = View
          /\ disk' = disk /\ written' = written
      BY <1>0, <1>4, BackupFacts
    <2>2. View = disk /\ Left' = Changes(diff)
      BY <1>0, <2>1, ViewType DEF PlanInv, Applying, Left, Rem
    <2>3. CASE \E i \in DOMAIN diff : HighRisk(diff[i])
      <3>1. backedUp' = backedUp \cup LiveRows(disk)
        BY <1>4, <2>3 DEF Backup
      <3>2. written' \subseteq backedUp'
        BY <2>1, <3>1 DEF BackInv
      <3> QED
        BY <3>2 DEF BackInv
    <2>4. CASE ~\E i \in DOMAIN diff : HighRisk(diff[i])
      <3>1. backedUp' = backedUp
        BY <1>4, <2>4 DEF Backup
      <3>2. written' \subseteq LiveRows(disk') \cup backedUp'
            /\ written' \subseteq LiveRows(View') \cup backedUp'
        BY <2>1, <2>2, <3>1 DEF BackInv
      <3>3. ASSUME NEW ch \in Left', ch.kind \in {"removed", "rebuild"}
            PROVE  View'.live[ch.content].rows = {} /\ View'.temp[ch.content].rows = {}
        <4>1. ch.content \in Contents
          BY <1>0, <2>2, ChangesType DEF TypeOK
        <4>2. ~HighRisk(ch)
          BY <2>2, <2>4 DEF Changes
        <4>3. disk.live[ch.content].rows = {}
          BY <3>3, <4>2 DEF HighRisk, LossesAreRisky
        <4> QED
          BY <1>0, <2>1, <2>2, <4>1, <4>3 DEF RowsInv
      <3> QED
        BY <3>2, <3>3 DEF BackInv
    <2> QED
      BY <2>3, <2>4
  <1>5. CASE CommitStep
    <2>1. /\ disk' = View /\ written' = written /\ backedUp' = backedUp
          /\ phase = "apply" /\ phase' = "record"
      BY <1>5 DEF CommitStep, Stays, Working
    <2> QED
      BY <2>1 DEF BackInv, Applying
  <1>6. CASE (\E p \in Packages : Launch(p)) \/ RecordTable \/ RecordRow
             \/ (\E c \in Contents : SeedingStep(c)) \/ Serve
    <2>1. /\ disk' = disk /\ written' = written /\ backedUp' = backedUp /\ phase' \notin Applying
      BY <1>0, <1>6, LaunchFacts DEF RecordTable, RecordRow, SeedingStep, Quiet, Serve, Applying
    <2> HIDE <1>6
    <2> QED
      BY <2>1 DEF BackInv
  <1>7. CASE StoreStep
    <2>1. PICK r \in Rows : StoredStep(r)
      BY <1>7 DEF StoreStep
    <2>2. /\ ContentOf[r] \in Contents /\ r \in disk'.live[ContentOf[r]].rows
          /\ \A b \in Contents : disk.live[b].rows \in SUBSET disk'.live[b].rows
      BY <1>0, <2>1, StoredView
    <2>3. written' = written \cup {r} /\ phase' \notin Applying /\ backedUp' = backedUp
      BY <2>1 DEF StoredStep, Applying
    <2>4. LiveRows(disk) \subseteq LiveRows(disk') /\ r \in LiveRows(disk')
      BY <2>2 DEF LiveRows
    <2> HIDE <1>7, <2>1
    <2> QED
      BY <2>3, <2>4 DEF BackInv
  <1> QED
    BY <1>0, <1>1, <1>2, <1>3, <1>4, <1>5, <1>6, <1>7, Cases DEF StartStep

(* Rows are where they were, or in a backup where a migration drops them:  *)
(* whatever is started, stopped and started again, a stored row of a        *)
(* content that every package keeps stays in its table, the rows of tables  *)
(* that are rebuilt included, and any other is in the backup that a         *)
(* migration of high risk makes first (app.py, steps 6 and 7;               *)
(* storage_sqlite.py::migrate).                                            *)
THEOREM RowsCorrect ==
  ASSUME LossesAreRisky
  PROVE  Spec => []RowsKept
  <1> DEFINE Inv == BaseInv /\ SteadyInv /\ SafeInv /\ BackInv
  <1>1. Init => Inv
    <2> SUFFICES ASSUME Init PROVE Inv
      OBVIOUS
    <2>1. BaseInv
      BY InitBase
    <2>2. written = {} /\ phase = "down" /\ meta.made = FALSE /\ View = disk
      BY InitialDisk DEF Init
    <2>3. SteadyInv
      <3> SUFFICES ASSUME NEW c \in Contents, Steady(c)
                   PROVE  disk.live[c].cols \in {None, New[c]}
        BY <2>2 DEF SteadyInv, Planned, Applying
      <3>1. \A p \in Packages : Schema[p][c] = New[c]
        BY <2>1, SteadyFacts DEF New, BaseInv, TypeOK
      <3>2. Shapes(disk)[c] \in {None, New[c]}
        BY <3>1, InitialDisk DEF NoSchema
      <3> QED
        BY <3>2 DEF Shapes
    <2>4. SafeInv
      BY <2>2 DEF SafeInv
    <2>5. BackInv
      BY <2>2 DEF BackInv, Applying
    <2> QED
      BY <2>1, <2>3, <2>4, <2>5
  <1>2. Inv /\ [Next]_vars => Inv'
    BY BaseStep, SteadyStep, SafeStep, BackStep
  <1>3. Inv => RowsKept
    BY DEF SafeInv, BackInv, RowsKept, SafeRowsKept, LostRowsBackedUp
  <1> QED
    BY <1>1, <1>2, <1>3, PTL DEF Spec

-----------------------------------------------------------------------------
(* A start makes the tables of its package.                                *)

(* A step of a change leaves the tables of other contents as they are made. *)
Elsewhere(b) == b # Cur /\ (Head(todo).kind = "renamed" => b # Head(todo).from)

LEMMA ElsewhereStays ==
  ASSUME TypeOK, PlanInv, ApplyStep, NEW b \in Contents
  PROVE  /\ Elsewhere(b) => View'.live[b].cols = View.live[b].cols
         /\ b # Cur => View'.temp[b].cols = View.temp[b].cols
         /\ Head(todo).kind = "renamed" /\ b = Head(todo).from => View'.live[b].cols = None
  <1>1. CASE AddedStep
    BY <1>1, AddedView, ApplyKinds DEF Elsewhere
  <1>2. CASE RemovedStep \/ DropStep
    BY <1>2, DroppedView, ApplyKinds DEF Elsewhere
  <1>3. CASE RenamedStep
    BY <1>3, RenamedView, ApplyKinds DEF Elsewhere, NoTable
  <1>4. CASE \E a \in Head(todo).adds : ColumnStep(a)
    BY <1>4, ColumnView, ApplyKinds DEF Elsewhere
  <1>5. CASE CreateStep
    BY <1>5, CreateView, ApplyKinds DEF Elsewhere
  <1>6. CASE CopyStep
    BY <1>6, CopyView, ApplyKinds DEF Elsewhere
  <1>7. CASE FinishStep
    BY <1>7, FinishView, ApplyKinds DEF Elsewhere
  <1> QED
    BY <1>1, <1>2, <1>3, <1>4, <1>5, <1>6, <1>7 DEF ApplyStep

(* What is recorded changes with the tables only before the metadata table. *)
LEMMA RecordedStays ==
  ASSUME TypeOK, PlanInv, ApplyStep
  PROVE  /\ meta.made \/ disk' = disk => Recorded' = Recorded
         /\ ~meta.made => /\ Recorded = Shapes(disk) /\ Recorded' = Shapes(disk')
         /\ \A b \in Contents : Elsewhere(b) => Recorded'[b] = Recorded[b]
         /\ Head(todo).kind = "rebuild" => Recorded' = Recorded
  <1>1. meta' = meta
    BY ApplyPhases DEF Working
  <1>2. /\ meta.made \/ disk' = disk => Recorded' = Recorded
        /\ ~meta.made => /\ Recorded = Shapes(disk) /\ Recorded' = Shapes(disk')
    BY <1>1 DEF Recorded, Shapes
  <1>3. disk' = disk \/ (disk = View /\ disk' = View')
    BY StoredOrNot
  <1>4. \A b \in Contents : Elsewhere(b) => Recorded'[b] = Recorded[b]
    <2> SUFFICES ASSUME NEW b \in Contents, Elsewhere(b) PROVE Recorded'[b] = Recorded[b]
      OBVIOUS
    <2>1. View'.live[b].cols = View.live[b].cols
      BY ElsewhereStays
    <2> QED
      BY <1>2, <1>3, <2>1 DEF Shapes
  <1>5. Head(todo).kind = "rebuild" => Recorded' = Recorded
    <2> SUFFICES ASSUME Head(todo).kind = "rebuild", ~meta.made, disk' # disk
                 PROVE  Recorded' = Recorded
      BY <1>2
    <2>1. CreateStep
      BY <1>3, ApplyKinds DEF ApplyStep, CopyStep, DropStep, FinishStep, Alters, PlanInv
    <2>2. View'.live = View.live
      BY <2>1, CreateView
    <2>3. disk'.live = disk.live
      BY <1>3, <2>2
    <2> QED
      BY <1>2, <2>3 DEF Shapes
  <1> QED
    BY <1>2, <1>4, <1>5

(* The change that a step ends has made the tables of its content.          *)
LEMMA ChangeDone ==
  ASSUME TypeOK, PlanInv, WorkInv, ApplyStep, todo' = Tail(todo)
  PROVE  /\ View'.live[Cur].cols = New[Cur]
         /\ Exists(View'.temp[Cur]) => Exists(View.temp[Cur]) /\ Head(todo).kind # "rebuild"
  <1>1. /\ Lawful(Head(todo)) /\ Fits(Head(todo)) /\ Cur = Head(todo).content
        /\ Cur \in Contents /\ todo # <<>> /\ todo \in Seq(Change)
    BY HeadLawful, CurType DEF Cur, WorkInv, TypeOK
  <1>2. CASE AddedStep
    <2>1. New[Cur] # None /\ View.live[Cur].cols \in {None, New[Cur]}
      BY <1>1, <1>2, ApplyKinds DEF Lawful, Fits
    <2> QED
      BY <1>2, <2>1, AddedView, ApplyKinds DEF Exists
  <1>3. CASE RemovedStep
    <2>1. New[Cur] = None
      BY <1>1, <1>3, ApplyKinds DEF Lawful
    <2> QED
      BY <1>3, <2>1, DroppedView, ApplyKinds DEF NoTable
  <1>4. CASE RenamedStep
    <2>1. View.live[Head(todo).from].cols \in {None, New[Cur]}
      BY <1>1, <1>4, ApplyKinds DEF Fits
    <2> QED
      BY <1>4, <2>1, RenamedView, ApplyKinds DEF Exists
  <1>5. ASSUME NEW a \in Head(todo).adds, ColumnStep(a)
        PROVE  /\ View'.live[Cur].cols = New[Cur]
               /\ Exists(View'.temp[Cur]) => Exists(View.temp[Cur]) /\ Head(todo).kind # "rebuild"
    <2>1. Head(todo).kind = "inplace"
      BY <1>5, ApplyKinds
    <2>2. /\ New[Cur] \ Head(todo).adds \subseteq View.live[Cur].cols
          /\ View.live[Cur].cols \subseteq New[Cur] /\ Head(todo).adds \subseteq New[Cur]
      BY <1>1, <2>1 DEF Fits, Lawful
    <2>3. Head(todo).adds \subseteq {a}
      <3>1. Tail(todo) # <<WithoutColumn(Head(todo), a)>> \o Tail(todo)
        <4> DEFINE T == Change
        <4>1. todo \in Seq(T) /\ WithoutColumn(Head(todo), a) \in T
          BY <1>1, CurType, WithoutColumnFacts
        <4> HIDE DEF T
        <4>2. Tail(todo) \in Seq(T) /\ <<WithoutColumn(Head(todo), a)>> \in Seq(T)
          BY <1>1, <4>1
        <4> QED
          BY <4>2
      <3> QED
        BY <1>5, <3>1 DEF ColumnStep
    <2>4. /\ View'.live[Cur].cols = View.live[Cur].cols \cup {a} /\ View'.temp = View.temp
      BY <1>5, ColumnView
    <2>5. View.live[Cur].cols \cup {a} = New[Cur]
      BY <1>5, <2>2, <2>3
    <2> QED
      BY <2>1, <2>4, <2>5
  <1>6. CASE FinishStep
    <2>1. View.temp[Cur].cols = New[Cur]
      BY <1>1, <1>6, FinishView DEF WorkInv
    <2> QED
      BY <1>6, <2>1, FinishView, NoTableType
  <1>7. CASE CreateStep \/ CopyStep \/ DropStep
    <2>1. Tail(todo) = todo
      BY <1>7 DEF CreateStep, CopyStep, DropStep, Stays
    <2> DEFINE T == Change
    <2>2. todo \in Seq(T) /\ todo # <<>>
      BY <1>1
    <2> HIDE DEF T
    <2>3. Len(Tail(todo)) # Len(todo)
      BY <2>2
    <2> QED
      BY <2>1, <2>3
  <1> QED
    BY <1>2, <1>3, <1>4, <1>5, <1>6, <1>7 DEF ApplyStep

LEMMA FitsStays ==
  ASSUME TypeOK, PlanInv, ApplyStep, NEW ch \in Left, ch \in Left', Fits(ch), ch.content # Cur,
         New' = New
  PROVE  Fits(ch)'
  <1> DEFINE c == ch.content
  <1>1. /\ Left = Changes(todo) /\ Sound(todo) /\ Head(todo) \in Changes(todo)
        /\ Cur = Head(todo).content /\ todo \in Seq(Change)
    BY ApplyPlan, HeadLawful DEF Cur, TypeOK
  <1>2. c \in Contents /\ Lawful(ch)
    BY <1>1, ChangesType DEF Sound
  <1>3. Elsewhere(c)
    BY <1>1 DEF Elsewhere, Sound
  <1>4. View'.live[c].cols = View.live[c].cols /\ Recorded'[c] = Recorded[c]
    BY <1>2, <1>3, ElsewhereStays, RecordedStays
  <1>5. ch.kind = "renamed" => View'.live[ch.from].cols \in {None, View.live[ch.from].cols}
    <2> SUFFICES ASSUME ch.kind = "renamed"
                 PROVE  View'.live[ch.from].cols \in {None, View.live[ch.from].cols}
      OBVIOUS
    <2>1. ch.from \in Contents /\ ch.from # Cur
      BY <1>1, <1>2 DEF Lawful, Sound
    <2> QED
      BY <2>1, ElsewhereStays DEF Elsewhere
  <1> HIDE DEF c
  <1>6. /\ ch.kind \in {"added", "renamed"} => View.live[c].cols \in {None, New[c]}
        /\ ch.kind = "renamed" => View.live[ch.from].cols \in {None, New[c]}
        /\ ch.kind = "inplace" => View.live[c].cols # None
             /\ New[c] \ ch.adds \subseteq View.live[c].cols /\ View.live[c].cols \subseteq New[c]
        /\ ch.kind = "rebuild" => Recorded[c] # None /\ ~(Recorded[c] \subseteq New[c])
    BY DEF Fits, c
  <1> DEFINE has == View'.live[c].cols
             was == Recorded'[c]
             new == New'[c]
  <1>7. /\ ch.kind \in {"added", "renamed"} => has \in {None, new}
        /\ ch.kind = "renamed" => View'.live[ch.from].cols \in {None, new}
        /\ ch.kind = "inplace" => has # None /\ new \ ch.adds \subseteq has /\ has \subseteq new
        /\ ch.kind = "rebuild" => was # None /\ ~(was \subseteq new)
    BY <1>4, <1>5, <1>6
  <1> QED
    BY <1>7 DEF Fits, c

LEMMA WorkStep ==
  ASSUME TypeOK, PlanInv, WorkInv, ApplyStep
  PROVE  WorkInv'
  <1>1. /\ Left = Changes(todo) /\ Left' = Changes(todo') /\ Sound(todo) /\ New' = New
        /\ Head(todo) \in Changes(todo) /\ Head(todo) \in Change
        /\ Changes(Tail(todo)) \subseteq Changes(todo)
        /\ \A ch \in Changes(todo) : ch = Head(todo) \/ ch \in Changes(Tail(todo))
        /\ \A ch \in Changes(Tail(todo)) : ch.content # Cur
        /\ Cur = Head(todo).content /\ Cur \in Contents /\ todo \in Seq(Change) /\ todo # <<>>
        /\ Lawful(Head(todo))
    BY ApplyPlan, HeadLawful, CurType DEF Cur, TypeOK
  <1>2. /\ \A ch \in Changes(todo) : Fits(ch)
        /\ \A b \in Contents :
             \/ \E ch \in Changes(todo) : b = ch.content \/ (ch.kind = "renamed" /\ b = ch.from)
             \/ View.live[b].cols = New[b]
        /\ \A b \in Contents : Exists(View.temp[b]) =>
             /\ View.temp[b].cols = New[b]
             /\ \E ch \in Changes(todo) : ch.content = b /\ ch.kind = "rebuild"
    BY <1>1 DEF WorkInv
  <1>3. Changes(Tail(todo)) \subseteq Changes(todo')
    BY <1>1, ColumnWork DEF ApplyStep, AddedStep, RemovedStep, RenamedStep, FinishStep, Done,
                            CreateStep, CopyStep, DropStep, Stays
  <1>4. \A ch \in Changes(Tail(todo)) : Fits(ch)'
    BY <1>1, <1>2, <1>3, FitsStays
  (* Three ways a step goes on with the work. *)
  <1>5. CASE todo' = Tail(todo)
    <2>1. /\ View'.live[Cur].cols = New[Cur]
          /\ Exists(View'.temp[Cur]) => Exists(View.temp[Cur]) /\ Head(todo).kind # "rebuild"
      BY <1>5, ChangeDone
    <2>2. ASSUME NEW b \in Contents
          PROVE  \/ \E ch \in Changes(todo') : b = ch.content \/ (ch.kind = "renamed" /\ b = ch.from)
                 \/ View'.live[b].cols = New[b]
      <3>1. CASE \E ch \in Changes(Tail(todo)) : b = ch.content \/ (ch.kind = "renamed" /\ b = ch.from)
        BY <1>5, <3>1
      <3>2. CASE b = Cur
        BY <2>1, <3>2
      <3>3. CASE b # Cur /\ Head(todo).kind = "renamed" /\ b = Head(todo).from
        <4>1. New[b] = None
          BY <1>1, <3>3 DEF Lawful
        <4> QED
          BY <3>3, <4>1, ElsewhereStays
      <3>4. CASE /\ Elsewhere(b)
                 /\ ~\E ch \in Changes(Tail(todo)) : b = ch.content \/ (ch.kind = "renamed" /\ b = ch.from)
        <4>1. View.live[b].cols = New[b]
          BY <1>1, <1>2, <3>4 DEF Elsewhere
        <4> QED
          BY <3>4, <4>1, ElsewhereStays
      <3> QED
        BY <3>1, <3>2, <3>3, <3>4 DEF Elsewhere
    <2>3. ASSUME NEW b \in Contents, Exists(View'.temp[b])
          PROVE  /\ View'.temp[b].cols = New[b]
                 /\ \E ch \in Changes(todo') : ch.content = b /\ ch.kind = "rebuild"
      <3>1. CASE b = Cur
        <4>1. Exists(View.temp[Cur]) /\ Head(todo).kind # "rebuild"
          BY <2>1, <2>3, <3>1
        <4>2. PICK ch \in Changes(todo) : ch.content = Cur /\ ch.kind = "rebuild"
          BY <1>1, <1>2, <4>1
        <4>3. ch = Head(todo)
          BY <1>1, <4>2
        <4> QED
          BY <4>1, <4>2, <4>3
      <3>2. CASE b # Cur
        <4>1. View'.temp[b].cols = View.temp[b].cols
          BY <3>2, ElsewhereStays
        <4>2. /\ View.temp[b].cols = New[b]
              /\ \E ch \in Changes(todo) : ch.content = b /\ ch.kind = "rebuild"
          BY <1>2, <2>3, <4>1 DEF Exists
        <4> QED
          BY <1>1, <1>5, <3>2, <4>1, <4>2
      <3> QED
        BY <3>1, <3>2
    <2> QED
      BY <1>1, <1>4, <1>5, <2>2, <2>3 DEF WorkInv
  <1>6. ASSUME NEW a \in Head(todo).adds, ColumnStep(a), todo' # Tail(todo)
        PROVE  WorkInv'
    <2> DEFINE left == WithoutColumn(Head(todo), a)
    <2>1. /\ todo' = <<left>> \o Tail(todo)
          /\ Head(todo).kind = "inplace"
      BY <1>6, ApplyKinds DEF ColumnStep
    <2>2. left \in Change /\ left.content = Cur /\ left.kind = "inplace"
          /\ \A b : b \in left.adds <=> b \in Head(todo).adds /\ b # a
      BY <1>1, <2>1, WithoutColumnFacts
    <2> HIDE DEF left
    <2>3. /\ left \in Changes(todo')
          /\ \A ch \in Changes(todo') : ch = left \/ ch \in Changes(Tail(todo))
      BY <1>1, <2>1, <2>2, AgainFacts
    <2>4. /\ View'.live[Cur].cols = View.live[Cur].cols \cup {a} /\ View'.temp = View.temp
          /\ Exists(View'.live[Cur])
      BY <1>6, ColumnView
    <2>5. ASSUME NEW ch, ch = left
          PROVE  Fits(ch)'
      <3>1. /\ New[Cur] \ Head(todo).adds \subseteq View.live[Cur].cols
            /\ View.live[Cur].cols \subseteq New[Cur] /\ Head(todo).adds \subseteq New[Cur]
        BY <1>1, <1>2, <2>1 DEF Fits, Lawful
      <3>2. /\ New[Cur] \ left.adds \subseteq View.live[Cur].cols \cup {a}
            /\ View.live[Cur].cols \cup {a} \subseteq New[Cur]
        BY <1>6, <2>2, <3>1
      <3>3. /\ View'.live[Cur].cols # None /\ New'[Cur] \ left.adds \subseteq View'.live[Cur].cols
            /\ View'.live[Cur].cols \subseteq New'[Cur]
        BY <1>1, <2>4, <3>2 DEF Exists
      <3>4. ch.content = Cur /\ ch.kind = "inplace" /\ ch.adds = left.adds
        BY <2>2, <2>5
      <3> QED
        BY <3>3, <3>4 DEF Fits
    <2>6. ASSUME NEW b \in Contents
          PROVE  \/ \E ch \in Changes(todo') : b = ch.content \/ (ch.kind = "renamed" /\ b = ch.from)
                 \/ View'.live[b].cols = New[b]
      <3>1. CASE b = Cur
        BY <2>2, <2>3, <3>1
      <3>2. CASE b # Cur
        <4>1. Elsewhere(b)
          BY <2>1, <3>2 DEF Elsewhere
        <4>2. View'.live[b].cols = View.live[b].cols
          BY <4>1, ElsewhereStays
        <4> QED
          BY <1>1, <1>2, <1>3, <2>1, <3>2, <4>2
      <3> QED
        BY <3>1, <3>2
    <2>7. ASSUME NEW b \in Contents, Exists(View'.temp[b])
          PROVE  /\ View'.temp[b].cols = New[b]
                 /\ \E ch \in Changes(todo') : ch.content = b /\ ch.kind = "rebuild"
      BY <1>1, <1>2, <1>3, <2>1, <2>4, <2>7
    <2>8. \A ch \in Changes(todo') : Fits(ch)'
      BY <1>4, <2>3, <2>5
    <2> QED
      BY <1>1, <2>6, <2>7, <2>8 DEF WorkInv
  <1>7. CASE CreateStep \/ CopyStep \/ DropStep
    <2>1. todo' = todo /\ Head(todo).kind = "rebuild"
      BY <1>7, ApplyKinds DEF CreateStep, CopyStep, DropStep, Stays
    <2>2. Fits(Head(todo))'
      <3>1. Recorded' = Recorded
        BY <2>1, RecordedStays
      <3>2. Recorded[Cur] # None /\ ~(Recorded[Cur] \subseteq New[Cur])
        BY <1>1, <1>2, <2>1 DEF Fits
      <3> QED
        BY <1>1, <2>1, <3>1, <3>2 DEF Fits
    <2>3. ASSUME NEW b \in Contents
          PROVE  \/ \E ch \in Changes(todo') : b = ch.content \/ (ch.kind = "renamed" /\ b = ch.from)
                 \/ View'.live[b].cols = New[b]
      <3>1. CASE b = Cur
        BY <1>1, <2>1, <3>1
      <3>2. CASE b # Cur
        <4>1. Elsewhere(b)
          BY <2>1, <3>2 DEF Elsewhere
        <4>2. View'.live[b].cols = View.live[b].cols
          BY <4>1, ElsewhereStays
        <4> QED
          BY <1>2, <2>1, <4>2
      <3> QED
        BY <3>1, <3>2
    <2>4. Exists(View'.temp[Cur]) => View'.temp[Cur].cols = New[Cur]
      <3>1. View.temp[Cur].cols \in {None, New[Cur]}
        BY <1>1, <1>2 DEF Exists
      <3> QED
        BY <1>7, <3>1, CreateView, CopyView, DroppedView DEF Exists
    <2>5. ASSUME NEW b \in Contents, Exists(View'.temp[b])
          PROVE  /\ View'.temp[b].cols = New[b]
                 /\ \E ch \in Changes(todo') : ch.content = b /\ ch.kind = "rebuild"
      <3>1. CASE b = Cur
        BY <1>1, <2>1, <2>4, <2>5, <3>1
      <3>2. CASE b # Cur
        <4>1. View'.temp[b].cols = View.temp[b].cols
          BY <3>2, ElsewhereStays
        <4> QED
          BY <1>2, <2>1, <2>5, <4>1 DEF Exists
      <3> QED
        BY <3>1, <3>2
    <2> QED
      BY <1>1, <1>4, <2>1, <2>2, <2>3, <2>5 DEF WorkInv
  <1> QED
    BY <1>5, <1>6, <1>7 DEF ApplyStep, AddedStep, RemovedStep, RenamedStep, FinishStep, Done

LEMMA ResumeStep ==
  ASSUME TypeOK, PlanInv, WorkInv, Resumable, ApplyStep
  PROVE  Resumable'
  <1>1. /\ Left = Changes(todo) /\ New' = New /\ todo # <<>> /\ Cur = Head(todo).content
        /\ Cur \in Contents /\ Head(todo) \in Changes(todo) /\ Lawful(Head(todo))
        /\ \A ch \in Changes(todo) : ch = Head(todo) \/ ch \in Changes(Tail(todo))
        /\ \A ch \in Changes(Tail(todo)) : ch.content # Cur
    BY ApplyPlan, HeadLawful, CurType DEF Cur
  <1>2. CASE disk' = disk
    BY <1>1, <1>2, RecordedStays DEF Resumable
  <1>3. CASE tx = None /\ View = disk /\ disk' = View' /\ tx' = None
    <2>1. ASSUME NEW b \in Contents, Elsewhere(b)
          PROVE  OnItsWay(b, disk'.live[b].cols, Recorded'[b], disk'.temp[b].cols, New[b])
      <3>1. /\ disk'.live[b].cols = disk.live[b].cols /\ Recorded'[b] = Recorded[b]
            /\ disk'.temp[b].cols = disk.temp[b].cols
        BY <1>3, <2>1, ElsewhereStays, RecordedStays DEF Elsewhere
      <3> QED
        BY <3>1 DEF Resumable
    <2>2. ASSUME NEW b \in Contents, b # Cur, Head(todo).kind = "renamed", b = Head(todo).from
          PROVE  OnItsWay(b, disk'.live[b].cols, Recorded'[b], disk'.temp[b].cols, New[b])
      <3>1. New[b] = None /\ disk'.live[b].cols = None /\ disk'.temp[b].cols = disk.temp[b].cols
        BY <1>1, <1>3, <2>2, ElsewhereStays DEF Lawful
      <3>2. disk.temp[b].cols = None
        BY <3>1 DEF Resumable, OnItsWay
      <3> QED
        BY <3>1, <3>2 DEF OnItsWay
    <2>3. Exists(View.temp[Cur]) => Head(todo).kind = "rebuild" /\ View.temp[Cur].cols = New[Cur]
      BY <1>1 DEF WorkInv
    <2> DEFINE has == disk'.live[Cur].cols
               was == Recorded'[Cur]
               spare == disk'.temp[Cur].cols
               new == New[Cur]
    <2>4. CASE todo' = Tail(todo)
      <3>1. has = new /\ spare = None
        BY <1>3, <2>3, <2>4, ChangeDone DEF Exists
      <3>2. OnItsWay(Cur, has, was, spare, new)
        BY <3>1 DEF OnItsWay
      <3> QED
        BY <1>1, <2>1, <2>2, <3>2 DEF Resumable, Elsewhere
    <2>5. ASSUME NEW a \in Head(todo).adds, ColumnStep(a)
          PROVE  OnItsWay(Cur, has, was, spare, new)
      <3> DEFINE had == disk.live[Cur].cols
                 recorded == Recorded[Cur]
      <3>1. Head(todo).kind = "inplace" /\ Fits(Head(todo)) /\ new # None
        BY <1>1, <2>5, ApplyKinds DEF WorkInv, Lawful
      <3>2. /\ had # None /\ had \subseteq new /\ a \in new
        BY <1>1, <1>3, <2>5, <3>1 DEF Fits, Lawful
      <3>3. has = had \cup {a} /\ has # None /\ View'.temp = View.temp
        BY <1>3, <2>5, ColumnView DEF Exists
      <3>4. spare = None
        BY <1>3, <2>3, <3>1, <3>3 DEF Exists
      <3>5. was = recorded \/ was = has
        BY <1>1, RecordedStays DEF Shapes
      <3>6. OnItsWay(Cur, had, recorded, disk.temp[Cur].cols, new)
        BY <1>1 DEF Resumable
      <3> HIDE DEF has, was, spare, new, had, recorded
      <3>7. /\ recorded = new => had = new
            /\ recorded = None => had = new
            /\ recorded # None /\ recorded \subseteq new => recorded \subseteq had
        BY <3>1, <3>2, <3>6 DEF OnItsWay
      <3>8. has \subseteq new /\ had \subseteq has /\ (had = new => has = new)
        BY <3>2, <3>3
      <3>9. CASE was = has
        BY <3>1, <3>3, <3>4, <3>8, <3>9 DEF OnItsWay
      <3>10. CASE was = recorded
        BY <3>1, <3>3, <3>4, <3>7, <3>8, <3>10 DEF OnItsWay
      <3> QED
        BY <3>5, <3>9, <3>10
    <2>6. CASE \E a \in Head(todo).adds : ColumnStep(a)
      BY <1>1, <2>1, <2>2, <2>5, <2>6 DEF Resumable, Elsewhere
    <2>7. CASE CreateStep
      <3>1. Head(todo).kind = "rebuild" /\ Fits(Head(todo)) /\ new # None
        BY <1>1, <2>7, ApplyKinds DEF WorkInv, Lawful
      <3>2. has = disk.live[Cur].cols /\ was = Recorded[Cur]
        BY <1>3, <2>7, <3>1, CreateView, RecordedStays
      <3>3. spare = new
        BY <1>3, <2>3, <2>7, CreateView DEF Exists
      <3>4. Recorded[Cur] # None /\ ~(Recorded[Cur] \subseteq new)
        BY <1>1, <3>1 DEF Fits
      <3>5. OnItsWay(Cur, disk.live[Cur].cols, Recorded[Cur], disk.temp[Cur].cols, new)
        BY <1>1 DEF Resumable
      <3>6. OnItsWay(Cur, has, was, spare, new)
        <4> HIDE DEF has, was, spare, new
        <4> QED
          BY <3>1, <3>2, <3>3, <3>4, <3>5 DEF OnItsWay
      <3> QED
        BY <1>1, <2>1, <2>2, <3>6 DEF Resumable, Elsewhere
    <2>8. ~CopyStep /\ ~DropStep
      BY <1>3 DEF CopyStep, DropStep, PlanInv
    <2> QED
      BY <2>4, <2>6, <2>7, <2>8 DEF ApplyStep, AddedStep, RemovedStep, RenamedStep, FinishStep, Done
  <1> QED
    BY <1>2, <1>3, StoredOrNot

(* The diff of what is recorded is the work that is left to do.             *)
LEMMA LaunchWork ==
  ASSUME TypeOK, PlanInv, NEW p \in Packages, Launch(p), phase' = "backup",
         Resumable', RenamesKeepColumns
  PROVE  WorkInv'
  <1> DEFINE old == Recorded
             new == Schema[p]
  <1>1. /\ phase = "down" /\ disk' = disk /\ View' = View /\ Recorded' = old /\ goal' = p
        /\ diff' = Diff(old, new) /\ old \in Schemas /\ new \in Schemas /\ order \in Orders
    BY LaunchFacts DEF TypeOK
  <1>2. View = disk /\ New' = new /\ Left' = Changes(diff')
    BY <1>1, ViewType DEF PlanInv, Applying, New, Left, Rem
  <1>3. \A c \in Contents : OnItsWay(c, disk.live[c].cols, old[c], disk.temp[c].cols, new[c])
    BY <1>1, <1>2 DEF Resumable
  <1>a. \A q \in Packages, c \in Contents :
          \A n \in Renames : n[1] = c /\ Schema[q][c] # None /\ new[n[2]] # None => Schema[q][c] = new[n[2]]
    BY DEF RenamesKeepColumns
  <1> HIDE DEF old, new
  <1>4. /\ \A ch \in Changes(diff') :
              /\ ch \in Change /\ ch = ChangeOf(old, new, ch.content)
              /\ old[ch.content] # new[ch.content] /\ ~RenamedAway(old, new, ch.content)
        /\ \A c \in Contents : old[c] # new[c] /\ ~RenamedAway(old, new, c) =>
              \E ch \in Changes(diff') : ch.content = c
    BY <1>1, DiffFacts
  <1>5. ASSUME NEW ch \in Changes(diff')
        PROVE  Fits(ch)'
    <2> DEFINE c == ch.content
               has == disk.live[c].cols
    <2>1. /\ c \in Contents /\ ch = ChangeOf(old, new, c) /\ old[c] # new[c]
          /\ OnItsWay(c, has, old[c], disk.temp[c].cols, new[c])
      BY <1>3, <1>4 DEF Change
    <2> HIDE DEF c
    <2>2. ch.kind \in Kinds /\ (ch.kind = "renamed" <=> RenamedFrom(old, new, c) # {})
      BY <1>1, <2>1, ChangeFields
    <2> HIDE DEF has
    <2>3. CASE ch.kind = "added"
      <3>1. old[c] = None
        BY <1>1, <2>1, <2>2, <2>3, ChangeKinds
      <3>2. has \in {None, new[c]}
        BY <2>1, <3>1 DEF OnItsWay
      <3> QED
        BY <1>1, <1>2, <2>3, <3>2 DEF Fits, c, has
    <2>4. CASE ch.kind = "renamed"
      <3> DEFINE o == ch.from
      <3>1. /\ o \in Contents /\ <<o, c>> \in Renames /\ old[o] # None /\ new[o] = None
            /\ old[c] = None /\ new[c] # None
        BY <1>1, <2>1, <2>2, <2>4, ChangeFrom
      <3>2. has \in {None, new[c]}
        BY <2>1, <3>1 DEF OnItsWay
      <3>3. disk.live[o].cols \in {None, new[c]}
        <4>1. CASE disk.live[o].cols # None
          <5>1. PICK q \in Packages : disk.live[o].cols = Schema[q][o]
            BY <1>3, <3>1, <4>1 DEF OnItsWay
          <5>2. Schema[q][o] = new[c]
            <6>1. <<o, c>>[1] = o /\ <<o, c>>[2] = c
              OBVIOUS
            <6> QED
              BY <1>a, <3>1, <4>1, <5>1, <6>1
          <5> QED
            BY <5>1, <5>2
        <4> QED
          BY <4>1
      <3> QED
        BY <1>1, <1>2, <2>4, <3>2, <3>3 DEF Fits, c, has
    <2>5. CASE ch.kind = "inplace"
      <3>1. /\ old[c] # None /\ new[c] # None /\ old[c] \subseteq new[c]
            /\ new[c] \ ch.adds \subseteq old[c]
        BY <1>1, <2>1, <2>5, ChangeAdds
      <3>2. has # None /\ old[c] \subseteq has /\ has \subseteq new[c]
        BY <2>1, <3>1 DEF OnItsWay
      <3>3. new[c] \ ch.adds \subseteq has
        BY <3>1, <3>2
      <3> QED
        BY <1>1, <1>2, <2>5, <3>2, <3>3 DEF Fits, c, has
    <2>6. CASE ch.kind = "rebuild"
      <3>1. old[c] # None /\ ~(old[c] \subseteq new[c])
        BY <1>1, <2>1, <2>2, <2>6, ChangeKinds
      <3> QED
        BY <1>1, <1>2, <2>6, <3>1 DEF Fits, c
    <2>7. CASE ch.kind = "removed"
      BY <2>7 DEF Fits
    <2> QED
      BY <2>2, <2>3, <2>4, <2>5, <2>6, <2>7 DEF Kinds
  <1>6. ASSUME NEW c \in Contents
        PROVE  \/ \E ch \in Changes(diff') : c = ch.content \/ (ch.kind = "renamed" /\ c = ch.from)
               \/ disk.live[c].cols = new[c]
    <2>1. CASE old[c] = new[c]
      BY <1>3, <2>1 DEF OnItsWay
    <2>2. CASE old[c] # new[c] /\ ~RenamedAway(old, new, c)
      BY <1>4, <2>2
    <2>3. CASE RenamedAway(old, new, c)
      <3>1. PICK n \in Renames : n[1] = c /\ c \in RenamedFrom(old, new, n[2])
        BY <2>3 DEF RenamedAway
      <3> DEFINE to == n[2]
      <3>2. /\ to \in Contents /\ old[to] = None /\ new[to] # None
        BY <3>1, MigrationAssumption DEF RenamedFrom
      <3>3. \A m \in Renames : m[2] = to => m = n
        BY DEF RenamesKeepColumns
      <3> HIDE DEF to
      <3>4. ~RenamedAway(old, new, to)
        BY <3>2 DEF RenamedAway, RenamedFrom
      <3>5. PICK ch \in Changes(diff') : ch.content = to
        BY <1>4, <3>2, <3>4
      <3>6. ch = ChangeOf(old, new, to) /\ RenamedFrom(old, new, to) # {}
        BY <1>4, <3>1, <3>5 DEF to
      <3>7. ch.kind = "renamed" /\ <<ch.from, to>> \in Renames
        BY <1>1, <3>2, <3>6, ChangeFields, ChangeFrom
      <3>8. ch.from = c
        <4>1. <<ch.from, to>>[2] = to /\ <<ch.from, to>>[1] = ch.from
          OBVIOUS
        <4>2. <<ch.from, to>> = n
          BY <3>3, <3>7, <4>1
        <4> QED
          BY <3>1, <4>1, <4>2
      <3> QED
        BY <3>5, <3>7, <3>8
    <2> QED
      BY <2>1, <2>2, <2>3
  <1>7. ASSUME NEW c \in Contents, Exists(disk.temp[c])
        PROVE  /\ disk.temp[c].cols = new[c]
               /\ \E ch \in Changes(diff') : ch.content = c /\ ch.kind = "rebuild"
    <2>1. /\ disk.temp[c].cols = new[c] /\ old[c] # None /\ new[c] # None
          /\ ~(old[c] \subseteq new[c])
      BY <1>3, <1>7 DEF OnItsWay, Exists
    <2>2. old[c] # new[c] /\ ~RenamedAway(old, new, c) /\ RenamedFrom(old, new, c) = {}
      BY <2>1 DEF RenamedAway, RenamedFrom
    <2>3. PICK ch \in Changes(diff') : ch.content = c
      BY <1>4, <2>2
    <2>4. ch = ChangeOf(old, new, c)
      BY <1>4, <2>3
    <2>5. ch.kind = "rebuild"
      BY <1>1, <2>1, <2>2, <2>4, ChangeKinds
    <2> QED
      BY <2>1, <2>3, <2>5
  <1> QED
    BY <1>1, <1>2, <1>5, <1>6, <1>7 DEF WorkInv

LEMMA ServeStep ==
  ASSUME BaseInv, ServeInv, [Next]_vars, RenamesKeepColumns
  PROVE  ServeInv'
  <1>0. TypeOK /\ PlanInv /\ RowsInv /\ MetaInv
    BY DEF BaseInv
  <1>1. CASE UNCHANGED vars
    <2>1. /\ UNCHANGED <<order, disk, tx, meta, goal, phase, diff, todo, standing>>
      BY <1>1 DEF vars
    <2>2. /\ View' = View /\ Recorded' = Recorded /\ New' = New /\ Planned' = Planned /\ Left' = Left
      BY <2>1 DEF View, Recorded, Shapes, New, Planned, Left, Rem
    <2> HIDE <1>1
    <2> QED
      BY <2>1, <2>2 DEF ServeInv, Settled, Shapes, Resumable, WorkInv, Fits
  <1>2. CASE Stop
    <2>1. /\ disk' = disk /\ phase' = "down" /\ meta' = meta /\ goal' = goal /\ standing' = standing
      BY <1>2 DEF Stop
    <2>2. Recorded' = Recorded /\ New' = New /\ Shapes(disk') = Shapes(disk)
      BY <2>1 DEF Recorded, Shapes, New
    <2> HIDE <1>2
    <2> QED
      BY <2>1, <2>2 DEF ServeInv, Settled, Shapes, Resumable, Planned, Applying
  <1>3. CASE ApplyStep
    <2>1. /\ phase \in Applying /\ phase' \in Applying /\ standing' = standing
      BY <1>0, <1>3, ApplyPhases DEF Working
    <2>2. CASE standing = "started"
      <3>1. Planned /\ Resumable /\ WorkInv
        BY <2>1, <2>2 DEF ServeInv, Planned
      <3>2. Resumable' /\ WorkInv'
        BY <1>0, <1>3, <3>1, ResumeStep, WorkStep
      <3> QED
        BY <2>1, <2>2, <3>2 DEF ServeInv, Applying
    <2>3. CASE standing # "started"
      <3>1. standing # "served"
        BY <2>1 DEF ServeInv, Applying
      <3> QED
        BY <2>1, <2>3, <3>1 DEF ServeInv, Applying
    <2> QED
      BY <2>2, <2>3
  <1>4. CASE \E p \in Packages : Launch(p)
    <2>1. PICK p \in Packages : Launch(p)
      BY <1>4
    <2>2. /\ phase = "down" /\ phase' \in {"down", "backup"} /\ disk' = disk
          /\ Recorded' = Recorded /\ goal' = p
          /\ Schema[p] \in Schemas /\ Recorded \in Schemas
          /\ standing' \in {"started", "abandoned"}
      BY <1>0, <2>1, LaunchFacts
    <2>3. standing' = "started" => standing = "served" \/ (standing = "started" /\ goal' = goal)
      BY <1>0, <2>1 DEF Launch, TypeOK
    <2>4. CASE standing' = "started"
      <3>1. Resumable'
        <4>1. CASE standing = "served"
          <5>1. /\ Settled(Recorded)
                /\ Recorded = NoSchema \/ \E q \in Packages : Recorded = Schema[q]
            BY <4>1 DEF ServeInv
          <5>2. \A c \in Contents : disk.live[c].cols = Recorded[c] /\ disk.temp[c].cols = None
            BY <5>1 DEF Settled, Shapes, Exists
          <5>3. \A c \in Contents : Recorded[c] # None => \E q \in Packages : Recorded[c] = Schema[q][c]
            BY <5>1 DEF NoSchema
          <5>4. New' = Schema[p]
            BY <2>2 DEF New
          <5> SUFFICES ASSUME NEW c \in Contents
                       PROVE  OnItsWay(c, disk'.live[c].cols, Recorded'[c], disk'.temp[c].cols, New'[c])
            BY DEF Resumable
          <5> QED
            BY <2>2, <5>2, <5>3 DEF OnItsWay
        <4>2. CASE standing = "started" /\ goal' = goal
          <5>1. Resumable /\ New' = New
            BY <4>2 DEF ServeInv, New
          <5> QED
            BY <2>2, <5>1 DEF Resumable
        <4> QED
          BY <2>3, <2>4, <4>1, <4>2
      <3>2. Planned' => phase' = "backup"
        BY <2>2 DEF Planned, Applying
      <3>3. Planned' => WorkInv'
        BY <1>0, <2>1, <3>1, <3>2, LaunchWork
      <3> HIDE <1>4, <2>1
      <3> QED
        BY <2>2, <2>4, <3>1, <3>3 DEF ServeInv
    <2>5. CASE standing' = "abandoned"
      BY <2>2, <2>5 DEF ServeInv
    <2> QED
      BY <2>2, <2>4, <2>5
  <1>5. CASE Backup
    <2>1. /\ phase = "backup" /\ phase' = "apply" /\ todo' = diff /\ View' = View
          /\ Recorded' = Recorded /\ disk' = disk /\ goal' = goal /\ standing' = standing
      BY <1>0, <1>5, BackupFacts
    <2>2. Planned /\ Left' = Left /\ New' = New
      BY <2>1 DEF Planned, Left, Rem, New
    <2>3. CASE standing = "started"
      <3>1. Resumable /\ WorkInv
        BY <2>2, <2>3 DEF ServeInv
      <3>2. Resumable' /\ WorkInv'
        BY <2>1, <2>2, <3>1 DEF Resumable, WorkInv, Fits
      <3> QED
        BY <2>1, <2>3, <3>2 DEF ServeInv
    <2>4. CASE standing # "started"
      BY <2>1, <2>4 DEF ServeInv
    <2> QED
      BY <2>3, <2>4
  <1>6. CASE CommitStep
    <2>1. /\ phase = "apply" /\ phase' = "record" /\ todo = <<>> /\ disk' = View
          /\ goal' = goal /\ standing' = standing
      BY <1>6 DEF CommitStep, Stays, Working
    <2>2. Planned /\ Left = {} /\ New' = New /\ ~Planned'
      BY <2>1 DEF Planned, Applying, Left, Rem, Changes, New
    <2>3. CASE standing = "started"
      <3>1. WorkInv
        BY <2>2, <2>3 DEF ServeInv
      <3>2. \A c \in Contents : View.live[c].cols = New[c] /\ ~Exists(View.temp[c])
        BY <2>2, <3>1 DEF WorkInv
      <3>3. New = [c \in Contents |-> New[c]]
        BY <1>0, MigrationAssumption DEF New, TypeOK, Schemas
      <3>4. Settled(New)'
        BY <2>1, <2>2, <3>2, <3>3 DEF Settled, Shapes
      <3>5. Resumable'
        BY <3>4 DEF Settled, Resumable, OnItsWay, Shapes, Exists
      <3> QED
        BY <2>1, <2>2, <2>3, <3>4, <3>5 DEF ServeInv
    <2>4. CASE standing # "started"
      <3>1. standing # "served"
        BY <2>1 DEF ServeInv
      <3> QED
        BY <2>1, <2>4, <3>1 DEF ServeInv
    <2> QED
      BY <2>3, <2>4
  <1>7. CASE RecordTable \/ RecordRow \/ (\E c \in Contents : SeedingStep(c))
    <2>1. /\ disk' = disk /\ goal' = goal /\ standing' = standing
          /\ phase \in {"record", "recordRow", "seed"} /\ phase' \in {"recordRow", "seed"}
      BY <1>7 DEF RecordTable, RecordRow, SeedingStep, Quiet
    <2>2. ~Planned' /\ New' = New
      BY <2>1 DEF Planned, Applying, New
    <2>3. standing # "served"
      BY <2>1 DEF ServeInv
    <2>4. standing = "started" => Settled(New)'
      BY <2>1, <2>2 DEF ServeInv, Settled, Shapes
    <2>5. standing = "started" => Resumable'
      BY <2>4 DEF Settled, Resumable, OnItsWay, Shapes, Exists
    <2> HIDE <1>7
    <2> QED
      BY <2>1, <2>2, <2>3, <2>4, <2>5 DEF ServeInv
  <1>8. CASE Serve
    <2>1. /\ phase = "seed" /\ phase' = "serving" /\ disk' = disk /\ meta' = meta /\ goal' = goal
          /\ standing' = IF standing = "abandoned" THEN standing ELSE "served"
      BY <1>8 DEF Serve
    <2>2. meta.made /\ meta.schema = New /\ New # None /\ goal \in Packages
      BY <1>0, <2>1, MigrationAssumption DEF MetaInv, New, TypeOK
    <2>3. Recorded = New /\ Recorded' = Recorded /\ Recorded = Schema[goal]
      BY <2>1, <2>2 DEF Recorded, New
    <2>4. standing \in {"started", "abandoned"}
      BY <1>0, <2>1 DEF ServeInv, TypeOK
    <2>5. standing = "started" => Settled(Recorded)
      BY <2>1, <2>3 DEF ServeInv
    <2>6. standing' = "served" => Settled(Recorded)'
      BY <2>1, <2>3, <2>4, <2>5 DEF Settled, Shapes
    <2> HIDE <1>8
    <2>7. standing' \in {"served", "abandoned"}
      BY <2>1, <2>4
    <2> QED
      BY <2>1, <2>2, <2>3, <2>6, <2>7 DEF ServeInv
  <1>9. CASE StoreStep
    <2>1. PICK r \in Rows : StoredStep(r)
      BY <1>9 DEF StoreStep
    <2>2. /\ phase \in {"seed", "serving"} /\ UNCHANGED <<meta, goal, phase, standing>>
      BY <2>1 DEF StoredStep
    <2>3. \A c \in Contents : disk'.live[c].cols = disk.live[c].cols
      BY <1>0, <2>1, StoredView
    <2>4. disk'.temp = disk.temp /\ Shapes(disk') = Shapes(disk)
      BY <1>0, <2>1, <2>3, StoredView DEF Shapes
    <2>5. meta.made /\ Recorded' = Recorded /\ New' = New
      BY <1>0, <2>2 DEF MetaInv, Recorded, New
    <2> HIDE <1>9, <2>1
    <2>6. standing = "served" => Settled(Recorded)'
      BY <2>4, <2>5 DEF ServeInv, Settled
    <2>7. standing = "started" /\ phase = "seed" => Settled(New)'
      BY <2>4, <2>5 DEF ServeInv, Settled
    <2>8. standing = "started" => phase = "seed"
      BY <2>2 DEF ServeInv
    <2>9. standing = "started" => Resumable'
      BY <2>7, <2>8 DEF Settled, Resumable, OnItsWay, Shapes, Exists
    <2> QED
      BY <2>2, <2>5, <2>6, <2>7, <2>8, <2>9 DEF ServeInv, Planned, Applying
  <1> QED
    BY <1>0, <1>1, <1>2, <1>3, <1>4, <1>5, <1>6, <1>7, <1>8, <1>9, Cases DEF StartStep

(* A server that is up has the tables its package declares, however often   *)
(* its start was stopped before, as long as every package that was started  *)
(* also came up before another one was: the changes of a stopped start are  *)
(* found again, or found done, by the diff of the next one (app.py,         *)
(* lifespan steps 1 to 8; storage_sqlite.py::migrate).                      *)
THEOREM ServesCorrect ==
  ASSUME RenamesKeepColumns
  PROVE  Spec => []ServesDeclared
  <1> DEFINE Inv == BaseInv /\ ServeInv
  <1>1. Init => Inv
    <2> SUFFICES ASSUME Init PROVE ServeInv
      BY InitBase
    <2>1. /\ phase = "down" /\ standing = "served" /\ meta.made = FALSE
      BY DEF Init
    <2>2. Recorded = Shapes(disk)
      BY <2>1 DEF Recorded
    <2>3. Settled(Recorded)
      BY <2>2, InitialDisk, NoTableType DEF Settled
    <2> QED
      BY <2>1, <2>2, <2>3, InitialDisk DEF ServeInv
  <1>2. Inv /\ [Next]_vars => Inv'
    BY BaseStep, ServeStep
  <1>3. Inv => ServesDeclared
    <2> SUFFICES ASSUME BaseInv, ServeInv, phase = "serving", standing = "served"
                 PROVE  Shapes(disk) = Schema[goal]
      BY DEF ServesDeclared
    <2>1. meta.made /\ meta.schema = Schema[goal] /\ Schema[goal] # None
      BY MigrationAssumption DEF BaseInv, MetaInv, New, TypeOK
    <2>2. Recorded = Schema[goal]
      BY <2>1 DEF Recorded
    <2> QED
      BY <2>2 DEF ServeInv, Settled
  <1> QED
    BY <1>1, <1>2, <1>3, PTL DEF Spec
=============================================================================
