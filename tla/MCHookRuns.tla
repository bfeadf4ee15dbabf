---------------------------- MODULE MCHookRuns -----------------------------
EXTENDS HookRuns

\* The first table's paths make two runs, the second's one.
MCRuns == <<2, 1>>

\* In the first, rows and noise, bad output, and a failure that has a row out
\* of shape; in the second, rows, and one out of shape.
MCScripts == <<
  { [lines |-> <<"row", "row">>, noise |-> 2, ok |-> TRUE],
    [lines |-> <<"row", "bad">>, noise |-> 0, ok |-> TRUE],
    [lines |-> <<"odd">>, noise |-> 1, ok |-> FALSE] },
  { [lines |-> <<"row">>, noise |-> 0, ok |-> TRUE],
    [lines |-> <<"odd">>, noise |-> 0, ok |-> TRUE] } >>

=============================================================================
