----------------------------- MODULE MCMigration -----------------------------
(* Orders with notes, rooms with bookings; notes go with their order, a     *)
(* booking holds its room.  v2 rebuilds orders, adds two columns to notes,  *)
(* drops rooms and bookings and adds tags; v3 rebuilds orders again, notes, *)
(* and rooms as v1 has them, and renames tags to labels.                   *)
EXTENDS Migration, TLC

CONSTANTS v1, v2, v3,
          orders, notes, rooms, bookings, tags, labels,
          colA, colB, colC, order1, order2, note1, room1, booking1

MCContents == {orders, notes, rooms, bookings, tags, labels}

(* A package's schema from the columns of the contents it declares. *)
Declares(f) == [x \in MCContents |-> IF x \in DOMAIN f THEN f[x] ELSE None]

MCSchema ==
  [p \in {v1, v2, v3} |->
     CASE p = v1 -> Declares((orders :> {colA, colB}) @@ (notes :> {colA})
                             @@ (rooms :> {colA}) @@ (bookings :> {colA}))
       [] p = v2 -> Declares((orders :> {colA, colC}) @@ (notes :> {colA, colB, colC})
                             @@ (tags :> {colA}))
       [] p = v3 -> Declares((orders :> {colB, colC}) @@ (notes :> {colB, colC})
                             @@ (rooms :> {colB}) @@ (bookings :> {colA})
                             @@ (labels :> {colA}))]

MCRenames == {<<tags, labels>>}
MCParent == [x \in MCContents |-> IF x = notes THEN orders
                                  ELSE IF x = bookings THEN rooms ELSE None]
MCOnDelete == [x \in MCContents |->
                 IF x = bookings THEN "restrict" ELSE "cascade"]
MCContentOf == [r \in Rows |-> IF r \in {order1, order2} THEN orders
                               ELSE IF r = note1 THEN notes
                               ELSE IF r = room1 THEN rooms ELSE bookings]
MCRefOf == [r \in Rows |-> IF r = note1 THEN order1
                           ELSE IF r = booking1 THEN room1 ELSE None]
MCSeedOf == [x \in MCContents |-> IF x = orders THEN <<order1, order2>> ELSE <<>>]
MCOrders == {<<notes, orders, bookings, rooms, tags, labels>>,
             <<tags, labels, bookings, rooms, notes, orders>>,
             <<rooms, bookings, labels, tags, orders, notes>>}

(* Nothing is renamed with other columns, and what loses rows is of high risk. *)
ASSUME RenamesKeepColumns /\ LossesAreRisky
=============================================================================
