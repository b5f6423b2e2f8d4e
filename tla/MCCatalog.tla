------------------------------ MODULE MCCatalog ------------------------------
(* Catalog with requests, videos and idempotency keys that are interchangeable. *)
EXTENDS Catalog, TLC

Symmetry == Permutations(Requests) \cup Permutations(Keys)

\* A change of the key, or events in the lives of jobs.
ChangesOrEvents == {[changes |-> 1, events |-> 0], [changes |-> 0, events |-> 3]}
=============================================================================
