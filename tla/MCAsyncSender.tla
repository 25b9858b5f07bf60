---------------------------- MODULE MCAsyncSender ----------------------------
(* AsyncSender with two threads owning a channel each. *)
EXTENDS AsyncSender, TLC

CONSTANTS a, b, main, other

MCThreadOf == (a :> main) @@ (b :> other)

\* Refinement of the ordered path, liveness included.
OrderedPath == Path!Spec
=============================================================================
