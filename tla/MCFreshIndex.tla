---------------------------- MODULE MCFreshIndex ----------------------------
(* FreshIndex over a few files, times and contents. *)
EXTENDS FreshIndex, TLC

CONSTANTS notes, totals, f1, f2, c1, c2   \* model values

AllMatches == Tables \X Files

Interchangeable == Permutations(Files) \cup Permutations(Contents)

=============================================================================
