------------------------------ MODULE MCRecords ------------------------------
(* Records with an owner and a number the scans sort by.                    *)
EXTENDS Records

CONSTANTS ann, bob

MCRow(o, n) == [f \in {"owner", "n"} |-> IF f = "n" THEN n ELSE o]

OfAnn == [op |-> "eq", field |-> "owner", value |-> ann]
NotOfAnn == [op |-> "not", part |-> OfAnn]
Counted == [op |-> "gte", field |-> "n", value |-> 2]
AnnOrCounted == [op |-> "or", parts |-> {OfAnn, Counted}]
MCPredicates == {OfAnn, NotOfAnn, Counted, AnnOrCounted}

Up == [field |-> "n", dir |-> "asc"]
Down == [field |-> "n", dir |-> "desc"]
MCQueries == {[pred |-> None, order |-> Up], [pred |-> NotOfAnn, order |-> Down],
              [pred |-> AnnOrCounted, order |-> None]}

MCStored == {<<None, MCRow(ann, 2), MCRow(bob, 1)>>,
             <<MCRow(ann, 1), MCRow(bob, None), MCRow(ann, 2)>>}
MCNewRows == {MCRow(ann, 1), MCRow(None, None)}
MCPatches == {MCRow(None, 2)}
=============================================================================
