------------------------------ MODULE RowMatch ------------------------------
(***************************************************************************)
(* How stored rows and new ones are matched (reconcile_rows in db.rs).     *)
(* `had` and `ids` are the identities of the stored rows and of the new    *)
(* ones, each in order.                                                    *)
(***************************************************************************)
EXTENDS Naturals, Sequences, FiniteSets

\* How many of the rows up to the i-th have its identity.
Nth(ids, i) == Cardinality({j \in 1 .. i : ids[j] = ids[i]})

\* The place of the stored row that the i-th new one claims: the first of its
\* identity no earlier one has claimed.
Claim(had, ids, i) ==
  {at \in DOMAIN had : had[at] = ids[i] /\ Nth(had, at) = Nth(ids, i)}

\* Places in order.
InOrder(places) ==
  [n \in 1 .. Cardinality(places) |->
    CHOOSE i \in places : Cardinality({j \in places : j <= i}) = n]

=============================================================================
