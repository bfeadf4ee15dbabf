-------------------------- MODULE MCFunctionWorker --------------------------
(* FunctionWorker over a few statements. *)
EXTENDS FunctionWorker

CONSTANTS u, v, w  \* model values

\* A full batch; a rest, with a repeated argument and a call on a stand-in.
Mixed == {<<u, v, w>>, <<v, u, u, Nested>>}

=============================================================================
