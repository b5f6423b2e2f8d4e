---------------------------- MODULE AccountLimit ----------------------------
(***************************************************************************)
(* What lib/worker/rateLimiter.ts promises of Account.maxConcurrent: runs  *)
(* of the account enter one at a time and only where there is room, and    *)
(* leave when they like, several at once when a worker dies.               *)
(***************************************************************************)
EXTENDS FiniteSets, Naturals

CONSTANTS
    Runners,    \* who may run a job of the account
    Limit       \* Account.maxConcurrent

VARIABLE inside     \* who is running one

Empty == inside = {}

Enter ==
    /\ Cardinality(inside) < Limit
    /\ \E r \in Runners \ inside : inside' = inside \cup {r}

Leave == inside' \in SUBSET inside

Spec == Empty /\ [][Enter \/ Leave]_inside
=============================================================================
