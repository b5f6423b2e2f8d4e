----------------------------- MODULE MCDevices -----------------------------
(* Devices on small instances. *)
EXTENDS Devices, TLC

CONSTANTS j1, j2, a1, a2

Of(a, camera, proxied, harden, verify) ==
    [account |-> a, camera |-> camera, proxied |-> proxied, harden |-> harden, verify |-> verify]

Two(s1, s2) == [j \in Jobs |-> IF j = j1 THEN s1 ELSE s2]

\* Two accounts that compete for the cameras; and one account whose jobs meet in
\* its session volume, one of them behind a proxy that is not enforced but checked,
\* or enforced and not checked.
Plain(a) == Of(a, FALSE, FALSE, FALSE, FALSE)
Mixed == {Two(Of(a1, TRUE, FALSE, FALSE, FALSE), Of(a2, TRUE, FALSE, FALSE, FALSE)),
          Two(Of(a1, FALSE, TRUE, FALSE, TRUE), Plain(a1)),
          Two(Of(a1, FALSE, TRUE, TRUE, FALSE), Plain(a2))}
=============================================================================
