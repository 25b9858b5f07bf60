-------------------------- MODULE MCEventDispatcher --------------------------
(* EventDispatcher on small instances; the cfg files bound the events. *)
EXTENDS EventDispatcher

\* Refinement of the ordered path, liveness included.
OrderedPath == Path!Spec
=============================================================================
