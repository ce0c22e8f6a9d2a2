------------------------------ MODULE Migration ------------------------------
(***************************************************************************)
(* The start of the server with a package: the schema migration, the       *)
(* schema metadata and the seed data (app.py::lifespan,                    *)
(* storage_sqlite.py::SqliteStorageProvider.migrate, storage.py::init_db). *)
(*                                                                         *)
(* The database is modelled as SQLite under the sqlite3 module's default   *)
(* isolation: INSERT opens a transaction, CREATE, ALTER and DROP do not, so *)
(* they are stored at once unless a transaction is open already.  init_db  *)
(* has a connection of its own and meets the write lock when one is.       *)
(* Dropping a table deletes its rows first, with what ON DELETE says of    *)
(* the rows that refer to them.  The process may stop at every step and    *)
(* the operator may start the same or another package after that.          *)
(***************************************************************************)
EXTENDS Naturals, Sequences, FiniteSets

CONSTANTS
  Packages,    \* the packages an operator starts
  Contents, Columns, Rows,
  None,        \* a content the package does not declare; no table
  Schema,      \* what each package declares: its columns by content
  Renames,     \* rename_contents of the deploy config: <<old, new>>
  Parent,      \* the content a content's reference field points to, or None
  OnDelete,    \* the cascade_mode of that field
  ContentOf,   \* the content of a row
  RefOf,       \* the row a row refers to, or None
  SeedOf,      \* the seed rows of a content, in order
  Unacked,     \* packages the operator has not acknowledged
  RiskyKinds,  \* kinds of change the classifier calls high risk
  Orders,      \* orders compute_migration_diff may list the contents in
  Legacy,      \* the package of a database from before the metadata, or None
  Orphans,     \* rows such a database may hold without the row they refer to
  MaxFaults    \* how often the process may stop while it starts

Schemas == [Contents -> {None} \cup SUBSET Columns]
NoTable == [cols |-> None, rows |-> {}]
Table == [cols : {None} \cup SUBSET Columns, rows : SUBSET Rows]
Disk == [live : [Contents -> Table], temp : [Contents -> Table]]

ASSUME MigrationAssumption ==
  /\ None \notin Contents \cup Rows \cup Packages
  /\ (\A s \in SUBSET Columns : s # None) /\ None \notin Schemas /\ None \notin Disk
  /\ IsFiniteSet(Rows)
  /\ Schema \in [Packages -> Schemas]
  /\ Renames \subseteq Contents \X Contents
  /\ Parent \in [Contents -> Contents \cup {None}]
  /\ OnDelete \in [Contents -> {"cascade", "restrict"}]
  /\ ContentOf \in [Rows -> Contents]
  /\ RefOf \in [Rows -> Rows \cup {None}]
  /\ SeedOf \in [Contents -> Seq(Rows)]
  /\ \A c \in Contents : \A i \in DOMAIN SeedOf[c] : ContentOf[SeedOf[c][i]] = c
  /\ Unacked \subseteq Packages
  /\ Legacy \in Packages \cup {None} /\ Orphans \subseteq Rows
  /\ Orders \subseteq Seq(Contents)
  /\ \A o \in Orders : \A c \in Contents :
       \E i \in DOMAIN o : \A j \in DOMAIN o : o[j] = c <=> j = i
  /\ MaxFaults \in Nat

(* Rows refer one level deep, and a renamed content takes no part in       *)
(* references: what a package of the bounded instances looks like.         *)
ASSUME ShallowAssumption ==
  /\ \A c \in Contents : Parent[c] # None => Parent[Parent[c]] = None
  /\ \A n \in Renames : /\ Parent[n[1]] = None /\ Parent[n[2]] = None
                        /\ \A c \in Contents : Parent[c] \notin {n[1], n[2]}

(* A deploy config renames to one name once, and a content that declares    *)
(* the same columns under both.                                            *)
RenamesKeepColumns ==
  \A n \in Renames :
    /\ \A m \in Renames : m[2] = n[2] => m = n
    /\ \A p, q \in Packages : Schema[p][n[1]] # None /\ Schema[q][n[2]] # None
                                => Schema[p][n[1]] = Schema[q][n[2]]

(* The changes that can take rows out of the database are of high risk.     *)
LossesAreRisky == {"removed", "rebuild"} \subseteq RiskyKinds

VARIABLES
  order,     \* the order of this installation's diffs
  disk,      \* the committed tables
  tx,        \* what the migration's open transaction sees, or None
  meta,      \* the metadata table: made, and the schema of its last row
  goal,      \* the package last started
  phase,     \* where the start is
  diff,      \* the changes of this start
  todo,      \* those that are left, the first one possibly in part
  counts,    \* row counts of the tables to rebuild, before the migration
  seeds,     \* rows left to seed of the content at hand
  faults,    \* how often the process has stopped
  \* History, read by the properties only:
  written,   \* rows the server has stored
  backedUp,  \* rows that a backup file holds
  standing   \* whether every package served before another one was started

vars == <<order, disk, tx, meta, goal, phase, diff, todo, counts, seeds,
          faults, written, backedUp, standing>>

Kinds == {"added", "removed", "renamed", "inplace", "rebuild"}
Change == [content : Contents, kind : Kinds, from : Contents \cup {None},
           adds : SUBSET Columns]

Phases == {"down", "backup", "apply", "copy", "drop", "rename", "record",
           "recordRow", "seed", "serving"}

TypeOK ==
  /\ order \in Orders
  /\ disk \in Disk /\ tx \in Disk \cup {None}
  /\ meta \in [made : BOOLEAN, schema : Schemas \cup {None}]
  /\ goal \in Packages /\ phase \in Phases
  /\ diff \in Seq(Change) /\ todo \in Seq(Change)
  /\ counts \in [Contents -> Nat \cup {None}]
  /\ seeds \in Seq(Rows)
  /\ faults \in 0..MaxFaults
  /\ written \subseteq Rows /\ backedUp \subseteq Rows
  /\ standing \in {"served", "started", "abandoned"}

-----------------------------------------------------------------------------
(* The database. *)

(* What the migration's connection reads. *)
View == IF tx = None THEN disk ELSE tx

Exists(t) == t.cols # None

(* A CREATE, ALTER or DROP: stored at once without a transaction. *)
Ddl(d) == IF tx = None THEN disk' = d /\ tx' = tx
                       ELSE tx' = d /\ disk' = disk

(* The rows that refer to a row of table c. *)
Referring(d, c) ==
  {r \in Rows : /\ Parent[ContentOf[r]] = c
                /\ r \in d.live[ContentOf[r]].rows
                /\ RefOf[r] \in d.live[c].rows}

MayDrop(d, c) == \A r \in Referring(d, c) : OnDelete[ContentOf[r]] = "cascade"

(* DROP TABLE with foreign keys on: ON DELETE CASCADE rows go with it. *)
Dropped(d, c) ==
  [d EXCEPT !.live = [b \in Contents |->
     IF b = c THEN NoTable
              ELSE [d.live[b] EXCEPT !.rows = @ \ Referring(d, c)]]]

(* CREATE TABLE IF NOT EXISTS. *)
Created(t, cols) == IF Exists(t) THEN t ELSE [cols |-> cols, rows |-> {}]

LiveRows(d) == UNION {d.live[c].rows : c \in Contents}
Shapes(d) == [c \in Contents |-> d.live[c].cols]
NoSchema == [c \in Contents |-> None]

(* read_schema_metadata: the last row; nothing for an empty metadata table  *)
(* or an empty database; otherwise what introspection finds.               *)
Recorded == IF meta.made
              THEN IF meta.schema = None THEN NoSchema ELSE meta.schema
              ELSE Shapes(disk)

-----------------------------------------------------------------------------
(* The diff. *)

RenamedFrom(old, new, c) ==
  {o \in Contents : /\ <<o, c>> \in Renames
                    /\ old[o] # None /\ new[o] = None
                    /\ old[c] = None /\ new[c] # None}
RenamedAway(old, new, c) ==
  \E n \in Renames : n[1] = c /\ c \in RenamedFrom(old, new, n[2])

(* Variant: a field that went away is taken for a change in place. *)
ChangeOfNeverRebuild(old, new, c) ==
  [content |-> c, from |-> None,
   adds |-> IF old[c] = None \/ new[c] = None THEN {} ELSE new[c] \ old[c],
   kind |-> IF old[c] = None THEN "added"
            ELSE IF new[c] = None THEN "removed"
            ELSE IF new[c] \subseteq old[c] THEN "rebuild" ELSE "inplace"]

(* Variant: the change is handed on without being classified. *)
ChangeOfUnclassified(old, new, c) ==
  [content |-> c, from |-> None, adds |-> {}, kind |-> "modified"]

ChangeOf(old, new, c) ==
  [content |-> c,
   from |-> IF RenamedFrom(old, new, c) = {} THEN None
            ELSE CHOOSE o \in RenamedFrom(old, new, c) : TRUE,
   adds |-> IF old[c] = None \/ new[c] = None THEN {} ELSE new[c] \ old[c],
   kind |-> IF RenamedFrom(old, new, c) # {} THEN "renamed"
            ELSE IF old[c] = None THEN "added"
            ELSE IF new[c] = None THEN "removed"
            ELSE IF old[c] \subseteq new[c] THEN "inplace" ELSE "rebuild"]

(* The contents that differ, one change for each, in the order of the diff. *)
Changed(old, new) ==
  {i \in DOMAIN order : /\ old[order[i]] # new[order[i]]
                        /\ ~RenamedAway(old, new, order[i])}
Ascending(S) == [k \in 1..Cardinality(S) |->
                   CHOOSE n \in S : Cardinality({m \in S : m < n}) = k - 1]
Diff(old, new) ==
  LET ids == Changed(old, new)
  IN  [k \in 1..Cardinality(ids) |-> ChangeOf(old, new, order[Ascending(ids)[k]])]

(* Variant: a rebuild counts as harmless because it keeps every row. *)
HighRiskRemovalOnly(ch) ==
  ch.kind = "removed" /\ disk.live[ch.content].rows # {}

(* The classification, after the downgrade for empty tables. *)
HighRisk(ch) == ch.kind \in RiskyKinds /\ disk.live[ch.content].rows # {}

AllAdded == \A i \in DOMAIN diff : diff[i].kind = "added"

-----------------------------------------------------------------------------
(* Starting: read, diff, gate, back up. *)

Goes(p) == phase' = p /\ UNCHANGED <<order, goal, diff, counts, meta, seeds,
                                    faults, written, backedUp, standing>>

(* The start ends with an exception: the connection closes, an open        *)
(* transaction is rolled back and the server does not come up.             *)
Fail == tx' = None /\ disk' = disk /\ todo' = todo /\ Goes("down")

Launch(p) ==
  /\ phase = "down"
  /\ goal' = p
  /\ standing' = IF standing = "abandoned" \/ (standing = "started" /\ p # goal)
                   THEN "abandoned" ELSE "started"
  /\ diff' = Diff(Recorded, Schema[p])
  /\ phase' = IF p \in Unacked /\ \E i \in DOMAIN diff' : diff'[i].kind # "added"
                THEN "down" ELSE "backup"
  /\ UNCHANGED <<order, disk, tx, meta, todo, counts, seeds, faults, written,
                 backedUp>>

(* The row counts of the tables to rebuild. *)
Snapshot ==
  [c \in Contents |->
     IF /\ \E i \in DOMAIN diff : diff[i].content = c /\ diff[i].kind = "rebuild"
        /\ Exists(disk.live[c])
     THEN Cardinality(disk.live[c].rows) ELSE None]

(* The copy of the file before a high-risk migration. *)
Backup ==
  /\ phase = "backup"
  /\ backedUp' = IF \E i \in DOMAIN diff : HighRisk(diff[i])
                   THEN backedUp \cup LiveRows(disk) ELSE backedUp
  /\ counts' = Snapshot
  /\ todo' = diff
  /\ phase' = "apply"
  /\ UNCHANGED <<order, disk, tx, meta, goal, diff, seeds, faults, written,
                 standing>>

-----------------------------------------------------------------------------
(* Applying one change after the other. *)

At(kind) == phase = "apply" /\ todo # <<>> /\ Head(todo).kind = kind
Next1 == todo' = Tail(todo) /\ Goes("apply")

(* Variant: CREATE TABLE without IF NOT EXISTS. *)
ApplyAddedOnce ==
  LET c == Head(todo).content IN
  /\ At("added")
  /\ \/ /\ tx = None /\ ~Exists(disk.live[c])
        /\ disk' = [disk EXCEPT !.live[c] = Created(@, Schema[goal][c])]
        /\ tx' = tx /\ Next1
     \/ (tx # None \/ Exists(disk.live[c])) /\ Fail

(* init_db on its own connection: an open transaction locks it out, unless  *)
(* the table is there already and nothing has to be written.               *)
ApplyAdded ==
  LET c == Head(todo).content IN
  /\ At("added")
  /\ \/ /\ tx = None
        /\ disk' = [disk EXCEPT !.live[c] = Created(@, Schema[goal][c])]
        /\ tx' = tx /\ Next1
     \/ tx # None /\ Exists(disk.live[c]) /\ UNCHANGED <<disk, tx>> /\ Next1
     \/ tx # None /\ ~Exists(disk.live[c]) /\ Fail

ApplyRemoved ==
  LET c == Head(todo).content IN
  /\ At("removed")
  /\ \/ MayDrop(View, c) /\ Ddl(Dropped(View, c)) /\ Next1
     \/ ~MayDrop(View, c) /\ Fail

ApplyRenamed ==
  LET o == Head(todo).from
      n == Head(todo).content
      can == Exists(View.live[o]) /\ ~Exists(View.live[n])
  IN  /\ At("renamed")
      /\ \/ can /\ Ddl([View EXCEPT !.live[n] = View.live[o],
                                    !.live[o] = NoTable]) /\ Next1
         \/ ~can /\ Fail

(* One ALTER TABLE ADD COLUMN; the change goes on with the other columns. *)
AddColumn ==
  LET c == Head(todo).content IN
  /\ At("inplace")
  /\ \E a \in Head(todo).adds :
       LET can == Exists(View.live[c]) /\ a \notin View.live[c].cols
           left == [Head(todo) EXCEPT !.adds = @ \ {a}]
       IN  \/ /\ can
              /\ Ddl([View EXCEPT !.live[c].cols = @ \cup {a}])
              /\ todo' = IF left.adds = {} THEN Tail(todo)
                                           ELSE <<left>> \o Tail(todo)
              /\ Goes("apply")
           \/ ~can /\ Fail

(* The rebuild: a new table by init_db, on a connection of its own ... *)
RebuildCreate ==
  LET c == Head(todo).content IN
  /\ At("rebuild")
  /\ \/ /\ tx = None
        /\ disk' = [disk EXCEPT !.temp[c] = Created(@, Schema[goal][c])]
        /\ UNCHANGED <<tx, todo>> /\ Goes("copy")
     \/ tx # None /\ Exists(disk.temp[c]) /\ UNCHANGED <<disk, tx, todo>> /\ Goes("copy")
     \/ tx # None /\ ~Exists(disk.temp[c]) /\ Fail

(* Variant: the copy is committed before the old table is dropped. *)
RebuildCopyCommitted ==
  LET c == Head(todo).content IN
  /\ phase = "copy"
  /\ disk' = [disk EXCEPT !.temp[c].rows = @ \cup View.live[c].rows]
  /\ tx' = None /\ todo' = todo /\ Goes("drop")

(* ... the rows copied, column by column that is not new ... *)
RebuildCopy ==
  LET c == Head(todo).content
      columns == Schema[goal][c] \ Head(todo).adds
      can == /\ Exists(View.live[c]) /\ columns \subseteq View.live[c].cols
             /\ Exists(View.temp[c]) /\ columns \subseteq View.temp[c].cols
  IN  /\ phase = "copy"
      /\ \/ /\ can
            /\ tx' = [View EXCEPT !.temp[c].rows = @ \cup View.live[c].rows]
            /\ UNCHANGED <<disk, todo>> /\ Goes("drop")
         \/ ~can /\ Fail

(* ... the old table dropped ... *)
RebuildDrop ==
  LET c == Head(todo).content IN
  /\ phase = "drop"
  /\ \/ MayDrop(View, c) /\ Ddl(Dropped(View, c)) /\ todo' = todo /\ Goes("rename")
     \/ ~MayDrop(View, c) /\ Fail

(* ... and the new one given its name. *)
RebuildRename ==
  LET c == Head(todo).content IN
  /\ phase = "rename"
  /\ Ddl([View EXCEPT !.live[c] = View.temp[c], !.temp[c] = NoTable])
  /\ Next1

RefsHold(d) ==
  \A r \in LiveRows(d) : RefOf[r] # None =>
    RefOf[r] \in d.live[Parent[ContentOf[r]]].rows

(* The validation before the commit. *)
Valid ==
  /\ RefsHold(View)
  /\ \A c \in Contents : counts[c] # None =>
       Cardinality(View.live[c].rows) = counts[c]
  /\ \A i \in DOMAIN diff : diff[i].kind # "removed" =>
       Exists(View.live[diff[i].content])

Commit ==
  /\ phase = "apply" /\ todo = <<>>
  /\ \/ /\ AllAdded \/ Valid
        /\ disk' = View /\ tx' = None /\ todo' = todo /\ Goes("record")
     \/ ~AllAdded /\ ~Valid /\ Fail

-----------------------------------------------------------------------------
(* After the migration: the metadata, the seed data, the server. *)

(* write_schema_metadata: the table, stored at once, and then its row. *)
RecordTable ==
  /\ phase = "record"
  /\ meta' = [meta EXCEPT !.made = TRUE]
  /\ phase' = "recordRow"
  /\ UNCHANGED <<order, disk, tx, goal, diff, todo, counts, seeds, faults,
                 written, backedUp, standing>>

RecordRow ==
  /\ phase = "recordRow"
  /\ meta' = [meta EXCEPT !.schema = Schema[goal]]
  /\ phase' = "seed"
  /\ UNCHANGED <<order, disk, tx, goal, diff, todo, counts, seeds, faults,
                 written, backedUp, standing>>

(* A content the package seeds and that has no rows, each record in its own *)
(* commit; without its table the start ends with an exception.             *)
ToSeed(c) ==
  Schema[goal][c] # None /\ SeedOf[c] # <<>> /\ disk.live[c].rows = {}

SeedContent(c) ==
  /\ phase = "seed" /\ seeds = <<>> /\ ToSeed(c)
  /\ \/ /\ Exists(disk.live[c])
        /\ seeds' = SeedOf[c]
        /\ UNCHANGED <<order, disk, tx, meta, goal, phase, diff, todo, counts,
                       faults, written, backedUp, standing>>
     \/ ~Exists(disk.live[c]) /\ Fail

SeedRow ==
  LET r == Head(seeds) IN
  /\ phase = "seed" /\ seeds # <<>>
  /\ disk' = [disk EXCEPT !.live[ContentOf[r]].rows = @ \cup {r}]
  /\ written' = written \cup {r}
  /\ seeds' = Tail(seeds)
  /\ UNCHANGED <<order, tx, meta, goal, phase, diff, todo, counts, faults,
                 backedUp, standing>>

Serve ==
  /\ phase = "seed" /\ seeds = <<>>
  /\ \A c \in Contents : ~ToSeed(c)
  /\ phase' = "serving"
  /\ standing' = IF standing = "abandoned" THEN standing ELSE "served"
  /\ UNCHANGED <<order, disk, tx, meta, goal, diff, todo, counts, seeds,
                 faults, written, backedUp>>

-----------------------------------------------------------------------------
(* Around the start. *)

(* The server stores a record; its reference field names an existing row. *)
Write(r) ==
  LET c == ContentOf[r] IN
  /\ phase = "serving"
  /\ Exists(disk.live[c]) /\ r \notin disk.live[c].rows
  /\ RefOf[r] # None => RefOf[r] \in disk.live[Parent[c]].rows
  /\ disk' = [disk EXCEPT !.live[c].rows = @ \cup {r}]
  /\ written' = written \cup {r}
  /\ UNCHANGED <<order, tx, meta, goal, phase, diff, todo, counts, seeds,
                 faults, backedUp, standing>>

Shutdown == phase = "serving" /\ UNCHANGED <<disk, tx, todo>> /\ Goes("down")

(* The process stops, or a step raises, anywhere in the start. *)
Interrupt ==
  /\ phase \notin {"down", "serving"} /\ faults < MaxFaults
  /\ tx' = None /\ phase' = "down" /\ faults' = faults + 1
  /\ seeds' = <<>>
  /\ UNCHANGED <<order, disk, meta, goal, diff, todo, counts, written, backedUp,
                 standing>>

Held(c, held) == {r \in held : ContentOf[r] = c}

Filled(schema, held) ==
  [live |-> [c \in Contents |->
     IF schema[c] = None THEN NoTable
                         ELSE [cols |-> schema[c], rows |-> Held(c, held)]],
   temp |-> [c \in Contents |-> NoTable]]

(* A new file, or one from before the metadata table. *)
InitialDisks ==
  {Filled(NoSchema, {})} \cup
  {Filled(Schema[p], held) : p \in {Legacy} \ {None}, held \in SUBSET Orphans}

Init ==
  /\ order \in Orders
  /\ disk \in InitialDisks
  /\ tx = None
  /\ meta = [made |-> FALSE, schema |-> None]
  /\ goal \in Packages /\ phase = "down"
  /\ diff = <<>> /\ todo = <<>> /\ seeds = <<>> /\ faults = 0
  /\ counts = [c \in Contents |-> None]
  /\ written = {} /\ backedUp = {} /\ standing = "served"

Startup == \/ Backup
           \/ ApplyAdded \/ ApplyRemoved \/ ApplyRenamed \/ AddColumn
           \/ RebuildCreate \/ RebuildCopy \/ RebuildDrop \/ RebuildRename
           \/ Commit \/ RecordTable \/ RecordRow
           \/ (\E c \in Contents : SeedContent(c)) \/ SeedRow \/ Serve

Next == \/ \E p \in Packages : Launch(p)
        \/ Startup
        \/ \E r \in Rows : Write(r)
        \/ Shutdown
        \/ Interrupt

Spec == Init /\ [][Next]_vars

(* The event loop runs the start to its end and the supervisor restarts the *)
(* package that is deployed; nothing makes a process stop or a user write. *)
FairSpec == /\ Spec
            /\ WF_vars(Startup)
            /\ WF_vars(phase = "down" /\ Launch(goal))
-----------------------------------------------------------------------------
(* Properties. *)

(* A rebuild happens as a whole: whenever the process stops, a content that *)
(* every package declares has its table, and no copied row is left in a    *)
(* rebuild table (storage_sqlite.py::_rebuild_table).                      *)
RebuildIsAtomic ==
  \A c \in Contents :
    /\ disk.temp[c].rows = {}
    /\ meta.schema # None /\ (\A p \in Packages : Schema[p][c] # None)
         => Exists(disk.live[c])

(* No package drops the content or the content its rows cascade with, and  *)
(* none makes that one be rebuilt.                                         *)
Safe(c) ==
  /\ \A p \in Packages : Schema[p][c] # None
  /\ Parent[c] # None /\ OnDelete[c] = "cascade" =>
       \A p, q \in Packages : /\ Schema[p][Parent[c]] # None
                              /\ Schema[p][Parent[c]] = Schema[q][Parent[c]]

(* Whatever is started, stopped and started again, a stored row of a content *)
(* that every package keeps is still in the database, the rows of tables    *)
(* that are rebuilt under way included.                                    *)
SafeRowsKept ==
  \A r \in written : Safe(ContentOf[r]) => r \in disk.live[ContentOf[r]].rows

(* A row that a migration has taken out of the database, on purpose or by a *)
(* cascade out of a rebuild, is in a backup (app.py, steps 6 and 7).       *)
LostRowsBackedUp == written \subseteq LiveRows(disk) \cup backedUp

(* Rows are where they were, or in a backup where a migration drops them.  *)
RowsKept == SafeRowsKept /\ LostRowsBackedUp

(* A server that is up has the tables its package declares, as long as     *)
(* every package that was started also came up before another one was.     *)
ServesDeclared ==
  phase = "serving" /\ standing = "served" => Shapes(disk) = Schema[goal]

(* The changes of package p that a stopped start can be followed by again:  *)
(* additions and removals, with one rebuild at most and after the additions.*)
Repeatable(p) ==
  \E d \in {Diff(Recorded, Schema[p])} :
  /\ p \notin Unacked /\ RefsHold(disk)
  /\ \A i \in DOMAIN d :
       /\ d[i].kind \in {"added", "removed", "rebuild"}
       /\ d[i].kind = "rebuild" =>
            \A j \in DOMAIN d : j > i => d[j].kind = "removed"
       /\ d[i].kind # "added" => MayDrop(disk, d[i].content)
       /\ d[i].kind = "rebuild" =>
            /\ Schema[p][d[i].content] \ d[i].adds
                 \subseteq disk.live[d[i].content].cols
            /\ disk.temp[d[i].content].cols \in {None, Schema[p][d[i].content]}

(* Such a package comes up, however its start is stopped on the way, unless *)
(* the operator turns to another one (app.py::lifespan, steps 1 to 8).     *)
RepeatableServes ==
  (phase \in {"down", "backup"} /\ standing = "started" /\ Repeatable(goal))
    ~> (phase = "serving" \/ standing = "abandoned")

(* What migrate promises ("Apply a schema migration atomically",           *)
(* storage_sqlite.py:100): a start that has not come up leaves the tables   *)
(* of the old package or those of the new one.                             *)
MigrationAtomic ==
  phase = "down" /\ meta.schema # None
    => Shapes(disk) \in {meta.schema, Schema[goal]}
=============================================================================
