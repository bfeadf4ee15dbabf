----------------------------- MODULE MCStreams -----------------------------
EXTENDS Streams, TLC

CONSTANTS notes, people, totals   \* model values

\* A row's first column is the key of a keyed table.
MCKey(row) == row[1]

x == <<1, 1>>
y == <<2, 1>>
z == <<2, 2>>

MCWay == notes :> "place" @@ people :> "key" @@ totals :> "value"

MCContents ==
  notes  :> {<<>>, <<x, y>>, <<x, x, y>>} @@
  people :> {<<x, y>>, <<z>>} @@
  totals :> {<<x, x, y>>, <<y, z>>}

MCStarts ==
  {notes :> n @@ people :> <<x, y>> @@ totals :> <<x, x, y>> : n \in MCContents[notes]}

=============================================================================
