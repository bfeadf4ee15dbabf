---------------------------- MODULE MCLiveIndex ----------------------------
(* LiveIndex over a few files and directories. *)
EXTENDS LiveIndex

CONSTANTS notes, totals, parents, children, f1, f2, d1, c1, c2  \* model values

\* A per-file table, and a per-table hook over one file of its own and a shared one.
TwoTables == {<<notes, f1>>, <<totals, f1>>, <<totals, f2>>}
\* A file of each of two tables.
OneEach   == {<<parents, f1>>, <<children, f2>>}

InTheDirectory  == {<<d1, f2>>}
BothInDirectory == {<<d1, f1>>, <<d1, f2>>}

\* No foreign key; a child needs the parent.
NoForeignKey(r) == TRUE
HasParent(r) == r[<<children, f2>>] # Absent => r[<<parents, f1>>] # Absent

=============================================================================
