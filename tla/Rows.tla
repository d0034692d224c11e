-------------------------------- MODULE Rows --------------------------------
(***************************************************************************)
(* Slices of rows that carry a numeric id, and the loops the code runs     *)
(* over them.  The users of a room, the members and applicants of a clan   *)
(* and the friends of a player are all kept and searched this way: an id   *)
(* is looked up from the front, a row is cut out of the slice, and a new   *)
(* row is numbered one above the highest id found.                         *)
(***************************************************************************)
EXTENDS Naturals, Sequences, FiniteSetsExt, SequencesExt

IDs(rows) == {rows[i].id : i \in DOMAIN rows}

\* No two rows share an id.
Unique(rows) == \A i, j \in DOMAIN rows : rows[i].id = rows[j].id => i = j

\* The place of the first row with this id.  Only used when there is one.
IndexOf(rows, id) ==
    CHOOSE i \in DOMAIN rows :
        /\ rows[i].id = id
        /\ \A j \in DOMAIN rows : rows[j].id = id => i <= j

RowWith(rows, id) == rows[IndexOf(rows, id)]

\* The players that rows are about, and the first row about one of them.
People(rows) == {rows[i].who : i \in DOMAIN rows}

PlaceOf(rows, p) ==
    CHOOSE i \in DOMAIN rows :
        /\ rows[i].who = p
        /\ \A j \in DOMAIN rows : rows[j].who = p => i <= j

RowOf(rows, p) == rows[PlaceOf(rows, p)]

Without(rows, id) ==
    IF id \in IDs(rows) THEN RemoveAt(rows, IndexOf(rows, id)) ELSE rows

\* What a loop copies that skips the rows at other places: those at these, in order.
Keep(rows, places) ==
    LET nth(n) == CHOOSE i \in places : Cardinality({k \in places : k <= i}) = n
    IN  [n \in 1 .. Cardinality(places) |-> rows[nth(n)]]

\* The largest id, zero in an empty slice.
Highest(rows) == Max({0} \cup IDs(rows))

\* Faulty variant: numbers from the length of the slice.
NextIDByCount(rows) == Len(rows) + 1

NextID(rows) == Highest(rows) + 1
=============================================================================
