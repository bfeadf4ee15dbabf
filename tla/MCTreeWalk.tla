----------------------------- MODULE MCTreeWalk -----------------------------
(* TreeWalk over a small tree. *)
EXTENDS TreeWalk, TLC

CONSTANTS root, left1, right1, deep1, deep2, last1, f1, f2, f3   \* model values

\* Two directories with a leaf between them; the first holds two more, and
\* one of those another.
MCSteps ==
  root   :> <<left1, f1, right1, last1>> @@
  left1  :> <<deep1, f2, deep2>> @@
  deep1  :> <<>> @@
  deep2  :> <<f3>> @@
  right1 :> <<>> @@
  last1  :> <<>>

=============================================================================
