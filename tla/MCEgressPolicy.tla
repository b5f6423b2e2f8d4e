--------------------------- MODULE MCEgressPolicy ---------------------------
(* EgressPolicy on small bounds, with every kernel. *)
EXTENDS EgressPolicy, TLC

\* All of them, with one that has no usable backend.
EveryKernel == {k \in Kernel : k.backend \/ (k.mangle /\ k.mark /\ k.conntrack /\ k.resolved
                                             /\ k.moves /\ ~k.accepts)}
=============================================================================
