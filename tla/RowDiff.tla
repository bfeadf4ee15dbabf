------------------------------ MODULE RowDiff ------------------------------
(***************************************************************************)
(* The row events that tell a reader of one list of rows about the next    *)
(* (packages/rust/src/differ.rs, and reconcile_rows in db.rs).             *)
(***************************************************************************)
EXTENDS Integers, RowMatch

CONSTANT Key(_)   \* the columns a keyed table's rows are matched by

NoRow == <<>>

Insert(row)   == [old |-> NoRow, new |-> row]
Delete(row)   == [old |-> row, new |-> NoRow]
Update(o, n)  == [old |-> o, new |-> n]

Inserts(rows) == [i \in DOMAIN rows |-> Insert(rows[i])]
Deletes(rows) == [i \in DOMAIN rows |-> Delete(rows[i])]
Pairs(os, ns) == [i \in DOMAIN os |-> Update(os[i], ns[i])]
After(n, rows) == SubSeq(rows, n + 1, Len(rows))
First(n, rows) == SubSeq(rows, 1, n)

\* The rows at some places, in order.
RowsAt(places, rows) ==
  [n \in DOMAIN InOrder(places) |-> rows[InOrder(places)[n]]]

-----------------------------------------------------------------------------
(* A file's rows, told apart by their place in it. *)

\* Mutant of full_replace: the new rows first.
full_replace_grows(old, new) == Inserts(new) \o Deletes(old)

full_replace(old, new) == Deletes(old) \o Inserts(new)

Changed(old, new) == {i \in DOMAIN old : old[i] # new[i]}

\* A file that shrank, or most of whose rows changed, is replaced.
diff_rows(old, new) ==
  IF \/ Len(new) < Len(old)
     \/ Len(old) > 1 /\ Cardinality(Changed(old, new)) * 2 > Len(old)
  THEN full_replace(old, new)
  ELSE Pairs(RowsAt(Changed(old, new), old), RowsAt(Changed(old, new), new))
         \o Inserts(After(Len(old), new))

-----------------------------------------------------------------------------
(* Rows told apart by an identity (RowMatch): the whole of each, or its key. *)

Removed(had, ids, stored) ==
  RowsAt(DOMAIN had \ UNION {Claim(had, ids, i) : i \in DOMAIN ids}, stored)

Added(had, ids, rows) == RowsAt({i \in DOMAIN ids : Claim(had, ids, i) = {}}, rows)

\* A claimed row that the new one differs from is updated in place.
Updated(had, ids, stored, rows) ==
  LET Old(i)  == stored[CHOOSE at \in Claim(had, ids, i) : TRUE]
      matched == {i \in DOMAIN ids : Claim(had, ids, i) # {}}
      places  == InOrder({i \in matched : Old(i) # rows[i]})
  IN  [n \in DOMAIN places |-> Update(Old(places[n]), rows[places[n]])]

Keys(rows) == [i \in DOMAIN rows |-> Key(rows[i])]

diff_keyed(old, new) ==
  LET had == Keys(old)
      ids == Keys(new)
  IN  Deletes(Removed(had, ids, old)) \o Updated(had, ids, old, new)
        \o Inserts(Added(had, ids, new))

\* A row is its own identity here.  Rows with no counterpart on the other side
\* are paired as updates; deletes come first.
diff_unordered(old, new) ==
  LET gone   == Removed(old, new, old)
      come   == Added(old, new, new)
      paired == IF Len(gone) < Len(come) THEN Len(gone) ELSE Len(come)
  IN  Deletes(After(paired, gone))
        \o Pairs(First(paired, gone), First(paired, come))
        \o Inserts(After(paired, come))

\* How the rows of a file, of a keyed file, and of a per-table hook are told apart.
RowEvents(way, old, new) ==
  CASE way = "place" -> diff_rows(old, new)
    [] way = "key"   -> diff_keyed(old, new)
    [] way = "value" -> diff_unordered(old, new)

-----------------------------------------------------------------------------
(* What a reader makes of the events. *)

Count(rows, row) == Cardinality({i \in DOMAIN rows : rows[i] = row})

\* How many more of a row there are after the events.
Gain(events, row) ==
  Cardinality({i \in DOMAIN events : events[i].new = row})
    - Cardinality({i \in DOMAIN events : events[i].old = row})

\* How many more rows of any kind.
Growth(events) ==
  Cardinality({i \in DOMAIN events : events[i].old = NoRow})
    - Cardinality({i \in DOMAIN events : events[i].new = NoRow})

=============================================================================
