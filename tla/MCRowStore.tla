---------------------------- MODULE MCRowStore ----------------------------
EXTENDS RowStore

CONSTANTS k, u   \* the columns, each a key: model values

MCKeys == <<{k}, {u}>>
MCValues == {1, 2, 3, Null}

Row(x, y) == (k :> x) @@ (u :> y)
All(rows) == [rows |-> rows, emits |-> {k, u}]

\* Values that swap, move on and come back; a row with no value of the first
\* key, so that the second tells rows apart; rows no key tells apart; rows of
\* which the hook leaves a column out.
MCOutputs ==
  { Nothing,
    All(<<Row(1, 1)>>),
    All(<<Row(1, 1), Row(2, 2)>>),
    All(<<Row(1, 2), Row(2, 1)>>),
    All(<<Row(2, 3), Row(1, 2)>>),
    All(<<Row(1, 2), Row(2, 3), Row(3, 1)>>),
    All(<<Row(Null, 1), Row(1, 2)>>),
    All(<<Row(Null, Null), Row(Null, Null)>>),
    [rows |-> <<Row(2, Null), Row(1, Null)>>, emits |-> {k}],
    All(<<Row(3, 3)>>) }

=============================================================================
