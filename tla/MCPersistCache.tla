--------------------------- MODULE MCPersistCache ---------------------------
(* PersistCache over a few files, times, contents and configurations. *)
EXTENDS PersistCache, TLC

CONSTANTS notes, totals, f1, f2, c1, c2, d1, d2, h1, h2   \* model values

AllMatches == Tables \X Files

\* A per-file table over one file, a per-table hook over it and another.
SharedFile == {<<notes, f1>>, <<totals, f1>>, <<totals, f2>>}

OneConfig  == {[ddl |-> d1, hook |-> h1]}
TwoConfigs == {[ddl |-> d1, hook |-> h1], [ddl |-> d2, hook |-> h2]}

Interchangeable == Permutations(Files) \cup Permutations(Contents)

=============================================================================
