------------------------------ MODULE RowStore ------------------------------
(***************************************************************************)
(* A table's rows and who owns them (packages/rust/src/db.rs).             *)
(*                                                                         *)
(* A table's schema is the user's: whose a row is, is kept beside it, by   *)
(* rowid.  A file owns rowids, in the order its hook made them; the rows   *)
(* of a per-table hook are owned as ranges of rowids.  SQLite uses a rowid *)
(* again once the last row is deleted.  A changed output is reconciled     *)
(* with the rows there are: a row whose key is filled and stays is updated *)
(* where it is.  A unit that breaks a UNIQUE is rolled back to its         *)
(* savepoint.                                                              *)
(***************************************************************************)
EXTENDS Integers, RowMatch, FiniteSetsExt, SequencesExt

CONSTANTS
  Files,      \* the files of a table with a per-file hook
  Columns,
  Values,
  Keys,       \* key_candidates, here those of UNIQUE indexes, in order
  Null,
  Outputs,    \* what a hook may make: rows, and the columns any of them has
  MaxRowid    \* bound: no row is inserted beyond it

ASSUME StoreAssumption ==
  /\ Keys \in Seq(SUBSET Columns) /\ \A n \in DOMAIN Keys : Keys[n] # {}
  /\ Outputs \subseteq [rows : Seq([Columns -> Values]), emits : SUBSET Columns]
  /\ \A out \in Outputs :
       \A i \in DOMAIN out.rows, c \in Columns \ out.emits : out.rows[i][c] = Null
  /\ MaxRowid \in Nat

VARIABLES
  perTable,   \* whether the table's hook is a per-table one
  table,      \* its rows, by rowid
  owned,      \* the rowids of each file (_dirsql_internal_rows)
  ranges,     \* those of the per-table hook (_dirsql_internal_ranges)
  made        \* (not in the code) the output each file, or the hook, last landed

storeVars == <<perTable, table, owned, ranges, made>>

Nothing == [rows |-> <<>>, emits |-> {}]
Hook == "hook"       \* BATCH_OWNER

-----------------------------------------------------------------------------
(* SQLite's table. *)

\* Do two rows have the same value of a unique key?
Clash(row, other) ==
  \E n \in DOMAIN Keys : \A c \in Keys[n] : row[c] # Null /\ row[c] = other[c]

Without(t, rowids) == Restrict(t, DOMAIN t \ rowids)

\* A unit of work: the table so far, the rowid of each of the new rows, and
\* whether a statement has failed.
Unit(t, placed) == [table |-> t, placed |-> placed, failed |-> FALSE]

\* Rows of `new` go in one after the other, each at its rowid.  One that clashes
\* with a row there, or with one before it, fails the statement and the unit.
PutAll(w, at, new) ==
  LET t == w.table IN
  [table  |-> [r \in DOMAIN t \cup Range(at) |->
                IF r \in Range(at) THEN new[CHOOSE i \in DOMAIN at : at[i] = r] ELSE t[r]],
   placed |-> [i \in DOMAIN w.placed |-> IF i \in DOMAIN at THEN at[i] ELSE w.placed[i]],
   failed |-> \/ w.failed
              \/ \E i \in DOMAIN at : \/ \E r \in DOMAIN t : Clash(new[i], t[r])
                                      \/ \E j \in DOMAIN at : j < i /\ Clash(new[i], new[j])]

\* A new row's rowid is one more than the largest there is.
PutNew(w, places, new) ==
  LET last == Max(DOMAIN w.table \cup {0})
  IN  PutAll(w, [i \in places |-> last + Cardinality({j \in places : j <= i})], new)

insert_rows(t, rows) ==
  PutNew(Unit(t, [i \in DOMAIN rows |-> 0]), DOMAIN rows, rows)

-----------------------------------------------------------------------------
(* Reconciling the rows of one owner with its hook's new output.           *)

\* The first key every row fills; {} if there is none.
row_key(out) ==
  LET filled == {n \in DOMAIN Keys :
                  \A i \in DOMAIN out.rows, c \in Keys[n] : out.rows[i][c] # Null}
  IN  IF filled = {} THEN {} ELSE Keys[Min(filled)]

\* Where each new row goes: the rowid of the stored row it matches, or 0.
Match(t, stored, out, key) ==
  LET on  == IF key = {} THEN out.emits ELSE key
      had == [n \in DOMAIN stored |-> Restrict(t[stored[n]], on)]
      ids == [i \in DOMAIN out.rows |-> Restrict(out.rows[i], on)]
  IN  [i \in DOMAIN ids |->
        IF Claim(had, ids, i) = {} THEN 0 ELSE stored[CHOOSE n \in Claim(had, ids, i) : TRUE]]

\* The columns the hook leaves out keep what they have.
Merged(old, new, emits) == [c \in Columns |-> IF c \in emits THEN new[c] ELSE old[c]]

Update(t, at, row) == [t EXCEPT ![at] = row]

InTheWay(t, at, row) == \E r \in DOMAIN t \ {at} : Clash(row, t[r])

\* The table as the updates are tried in order: one with a row in its way fails.
Tried(w, todo, new) ==
  LET tried[i \in 0 .. Len(w.placed)] ==
        IF i = 0 THEN w.table
        ELSE LET before == tried[i - 1] IN
             IF i \in todo /\ ~InTheWay(before, w.placed[i], new[i])
             THEN Update(before, w.placed[i], new[i]) ELSE before
  IN  tried

Blocked(w, todo, new) ==
  LET tried == Tried(w, todo, new)
  IN  {i \in todo : InTheWay(tried[i - 1], w.placed[i], new[i])}

Parted(w, todo, new) ==
  Unit(Without(Tried(w, todo, new)[Len(w.placed)],
               {w.placed[i] : i \in Blocked(w, todo, new)}),
       w.placed)

\* Mutants of UpdateAll: a clash fails the unit; a row that was in the way
\* comes back as a new one.
UpdateAll_atonce(w, todo, new) ==
  [Unit(Tried(w, todo, new)[Len(w.placed)], w.placed)
     EXCEPT !.failed = Blocked(w, todo, new) # {}]

UpdateAll_anew(w, todo, new) ==
  PutNew(Parted(w, todo, new), Blocked(w, todo, new), new)

\* SQLite checks a UNIQUE row by row, so a row whose new value another still
\* has is set aside; those rows are deleted and then put back where they were.
\* (A clash on a PRIMARY KEY is not set aside.)
UpdateAll(w, todo, new) ==
  PutAll(Parted(w, todo, new), Restrict(w.placed, Blocked(w, todo, new)), new)

\* Rows nothing matches are deleted first, new ones inserted last.
reconcile_rows(t, stored, out, key) ==
  LET placed  == Match(t, stored, out, key)
      kept    == {i \in DOMAIN placed : placed[i] # 0}
      new     == [i \in DOMAIN placed |->
                   IF i \in kept THEN Merged(t[placed[i]], out.rows[i], out.emits)
                   ELSE out.rows[i]]
      updated == {i \in kept : new[i] # t[placed[i]]}
      added   == DOMAIN placed \ kept
      removed == ToSet(stored) \ ToSet(placed)
      done    == UpdateAll(Unit(Without(t, removed), placed), updated, new)
      whole   == PutNew(done, added, new)
  IN  [table |-> whole.table, placed |-> whole.placed, failed |-> whole.failed,
       moved |-> removed # {} \/ added # {}]

-----------------------------------------------------------------------------
(* A table with a per-file hook.                                           *)

\* Mutant of Own: ownership is rewritten only where other rowids are owned.
Own_same_rowids(f, w) ==
  [owned EXCEPT ![f] = IF ToSet(w.placed) = ToSet(@) THEN @ ELSE w.placed]

Own(f, w) == [owned EXCEPT ![f] = w.placed]

Replaced(f, out) == insert_rows(Without(table, ToSet(owned[f])), out.rows)

\* The rows read through what the file owns.
Stored(f) ==
  LET there == InOrder({n \in DOMAIN owned[f] : owned[f][n] \in DOMAIN table})
  IN  [n \in DOMAIN there |-> owned[f][there[n]]]

\* Matched by key if the rows fill one, else deleted and inserted.
Upserted(f, out) ==
  IF row_key(out) = {} THEN Replaced(f, out)
  ELSE reconcile_rows(table, Stored(f), out, row_key(out))

Bounded(w) == \A r \in DOMAIN w.table : r <= MaxRowid

\* The unit lands whole, or is rolled back.
Land(f, out, w) ==
  /\ ~perTable /\ Bounded(w)
  /\ IF w.failed THEN UNCHANGED <<table, owned, made>>
     ELSE /\ table' = w.table
          /\ owned' = Own(f, w)
          /\ made' = [made EXCEPT ![f] = out]
  /\ UNCHANGED <<perTable, ranges>>

handle_upsert(f) == \E out \in Outputs : Land(f, out, Upserted(f, out))

handle_delete(f) == Land(f, Nothing, Replaced(f, Nothing))

\* A build over a cache puts the rows of a file that changed in anew.
build_file(f) == \E out \in Outputs : Land(f, out, Replaced(f, out))

-----------------------------------------------------------------------------
(* A table with a per-table hook.                                          *)

Covered == {r \in DOMAIN table : \E s \in ranges : r \in s[1] .. s[2]}

RangeOf(rowids) == IF rowids = {} THEN {} ELSE {<<Min(rowids), Max(rowids)>>}

LandAll(out, w, now) ==
  /\ perTable /\ Bounded(w)
  /\ IF w.failed THEN UNCHANGED <<table, ranges, made>>
     ELSE /\ table' = w.table
          /\ ranges' = now
          /\ made' = [made EXCEPT ![Hook] = out]
  /\ UNCHANGED <<perTable, owned>>

Rowids == InOrder(DOMAIN table)

\* Mutant of Refit: only a removal moves the range.
Refit_removed(w) ==
  IF DOMAIN table \subseteq ToSet(w.placed) THEN ranges ELSE RangeOf(ToSet(w.placed))

\* An update keeps its rowid, so only a removal or an addition moves the range.
Refit(w) == IF w.moved THEN RangeOf(ToSet(w.placed)) ELSE ranges

reconcile_batch_rows(out, key) ==
  LET w == reconcile_rows(table, Rowids, out, key) IN LandAll(out, w, Refit(w))

\* A watch batch, or a query, runs the hook again.
refresh_table == \E out \in Outputs : reconcile_batch_rows(out, row_key(out))

\* A build stores the rows of an empty table as they come, in chunks.
stream_table_rows ==
  /\ ranges = {}
  /\ \E out \in Outputs : \E n \in 0 .. Len(out.rows) :
       LET w == insert_rows(table, out.rows)
           head == {w.placed[i] : i \in 1 .. n}
       IN  LandAll(out, w, RangeOf(head) \cup RangeOf(ToSet(w.placed) \ head))

\* A build over a cache.
refill_table_rows ==
  /\ ranges # {}
  /\ \E out \in Outputs :
       IF row_key(out) # {} THEN reconcile_batch_rows(out, row_key(out))
       ELSE LET w == insert_rows(Without(table, Covered), out.rows)
            IN  LandAll(out, w, RangeOf(ToSet(w.placed)))

-----------------------------------------------------------------------------

StoreInit ==
  /\ perTable \in BOOLEAN
  /\ table = <<>> /\ ranges = {}
  /\ owned = [f \in Files |-> <<>>]
  /\ made = [o \in Files \cup {Hook} |-> Nothing]

StoreNext ==
  \/ \E f \in Files : handle_upsert(f) \/ handle_delete(f) \/ build_file(f)
  \/ refresh_table \/ stream_table_rows \/ refill_table_rows

StoreSpec == StoreInit /\ [][StoreNext]_storeVars

-----------------------------------------------------------------------------
(* Properties.                                                             *)

\* Ownership does not "diverge from the rows it describes" (db.rs,
\* INTERNAL_ROWS_TABLE), however rowids are reused: each row is one file's
\* once, or the hook's, and no rowid is owned that has no row.
Owned ==
  IF perTable THEN Covered = DOMAIN table
  ELSE LET all == {p \in Files \X (1 .. MaxRowid) : p[2] \in DOMAIN owned[p[1]]}
       IN  /\ {owned[p[1]][p[2]] : p \in all} = DOMAIN table
           /\ Cardinality(all) = Cardinality(DOMAIN table)

Seen(row, out) == Restrict(row, out.emits)

Times(rows, row) == Cardinality({i \in DOMAIN rows : rows[i] = row})

\* What is read back of a file is what its hook last made, in its order; what
\* is read of a per-table hook's table is that too, in any order.
AsMade ==
  IF perTable
  THEN LET out   == made[Hook]
           had   == [n \in DOMAIN Rowids |-> Seen(table[Rowids[n]], out)]
           wants == [i \in DOMAIN out.rows |-> Seen(out.rows[i], out)]
       IN  \A row \in ToSet(had) \cup ToSet(wants) : Times(had, row) = Times(wants, row)
  ELSE \A f \in Files :
         LET out == made[f] IN
         [i \in DOMAIN owned[f] |-> Seen(table[owned[f][i]], out)]
           = [i \in DOMAIN out.rows |-> Seen(out.rows[i], out)]

\* What a file's rows would be: those of its output, and what the row of the
\* same key has where the hook leaves a column out.
Wanted(f, out) ==
  LET key == row_key(out)
      Old(i) == {r \in ToSet(owned[f]) : key # {} /\ \A c \in key : table[r][c] = out.rows[i][c]}
  IN  [i \in DOMAIN out.rows |->
        IF Old(i) = {} THEN out.rows[i]
        ELSE Merged(table[CHOOSE r \in Old(i) : TRUE], out.rows[i], out.emits)]

\* "Re-placing the blocked rows at their rowids checks only the end state"
\* (db.rs, reconcile_rows): an edit lands exactly if the rows it leads to
\* clash neither with one another nor with another file's, however values
\* move between rows.
LandsIfSound ==
  ~perTable => \A f \in Files, out \in Outputs :
    LET rows   == Wanted(f, out)
        others == DOMAIN table \ ToSet(owned[f])
    IN  Upserted(f, out).failed <=>
          \/ \E i, j \in DOMAIN rows : i # j /\ Clash(rows[i], rows[j])
          \/ \E i \in DOMAIN rows, r \in others : Clash(rows[i], table[r])

\* "has an edited row `UPDATE`d in place, so its children stay"
\* (docs/reference/config.md:374-376): a row whose key stays keeps its rowid,
\* and the columns the hook leaves out.
InPlace(before, after, out) ==
  LET key == row_key(out) IN
  key # {} => \A r \in before, s \in after :
    (\A c \in key : table[r][c] = table'[s][c]) =>
      r = s /\ \A c \in Columns \ out.emits : table[r][c] = table'[s][c]

EditsInPlace ==
  [][/\ \A f \in Files : handle_upsert(f) => InPlace(ToSet(owned[f]), ToSet(owned'[f]), made'[f])
     /\ refresh_table => InPlace(DOMAIN table, DOMAIN table', made'[Hook])]_storeVars

-----------------------------------------------------------------------------
(* The inductive invariant, StoreInv (RowsAndWatchesProofs).               *)

RowType == [Columns -> Values]

\* No two rows have the same value of a unique key.
Sound(t) == \A r, s \in DOMAIN t : r # s => ~Clash(t[r], t[s])

Distinct(at) == \A i, j \in DOMAIN at : at[i] = at[j] => i = j

\* What the tables hold.
StoreTypeOK ==
  /\ perTable \in BOOLEAN
  /\ DOMAIN table \subseteq 1 .. MaxRowid
  /\ \A r \in DOMAIN table : table[r] \in RowType
  /\ owned \in [Files -> Seq(1 .. MaxRowid)]
  /\ ranges \subseteq (1 .. MaxRowid) \X (1 .. MaxRowid)
  /\ made \in [Files \cup {Hook} -> Outputs \cup {Nothing}]

\* Each row is owned, by one file, at one place.
OwnedInv ==
  ~perTable =>
    /\ \A f \in Files : Distinct(owned[f]) /\ ToSet(owned[f]) \subseteq DOMAIN table
    /\ \A f, g \in Files : f # g => ToSet(owned[f]) \cap ToSet(owned[g]) = {}
    /\ \A r \in DOMAIN table : \E f \in Files : r \in ToSet(owned[f])

\* Each row of a per-table hook is in one of its ranges.
CoverInv == perTable => \A r \in DOMAIN table : \E s \in ranges : r \in s[1] .. s[2]

\* A file's rows are those its hook made, in its order, for AsMade to follow.
MadeInv ==
  ~perTable => \A f \in Files :
    /\ DOMAIN owned[f] = DOMAIN made[f].rows
    /\ \A i \in DOMAIN owned[f] : Seen(table[owned[f][i]], made[f]) = Seen(made[f].rows[i], made[f])

\* The rows of a per-table hook's table are those it made, at places p.
At(p, out) ==
  /\ DOMAIN p = DOMAIN out.rows /\ Distinct(p) /\ Range(p) = DOMAIN table
  /\ \A i \in DOMAIN p : Seen(table[p[i]], out) = Seen(out.rows[i], out)

HookInv == perTable => \E p \in [DOMAIN made[Hook].rows -> DOMAIN table] : At(p, made[Hook])

StoreInv == StoreTypeOK /\ Sound(table) /\ OwnedInv /\ CoverInv /\ MadeInv /\ HookInv

=============================================================================
