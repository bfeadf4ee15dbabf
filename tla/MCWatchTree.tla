---------------------------- MODULE MCWatchTree ----------------------------
EXTENDS WatchTree

CONSTANTS r, a, b, c

\* Three directories, each in the one before.
MCParent == a :> r @@ b :> a @@ c :> b

=============================================================================
