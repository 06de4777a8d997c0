-------------------------- MODULE MCRunpodResources --------------------------
(* Instances of RunpodResources: every owner on the same target.           *)
EXTENDS RunpodResources

MCTarget == [o \in Owners |-> "pod"]
=============================================================================
