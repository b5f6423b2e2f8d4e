--------------------------- MODULE MCJobLifecycle ---------------------------
(* JobLifecycle on small instances. *)
EXTENDS JobLifecycle, TLC

\* Workers are alike, and so are requests.
Symmetry == Permutations(Workers) \cup Permutations(Requests)

\* What a step or an invariant of JobTwoWorkers can tell apart: no guard reads
\* posts, lost, spoilt, leaked or aborted.
WithoutCounts ==
    <<row, bull, worker, letters, request, due, parked, readded, retried, faults>>
=============================================================================
