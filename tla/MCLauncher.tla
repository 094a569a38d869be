----------------------------- MODULE MCLauncher -----------------------------
(***************************************************************************)
(* Launcher with a node that owns the coordinator and a remote one.        *)
(***************************************************************************)
EXTENDS Launcher

CONSTANTS n0, n1

Topology(owner, c0, c1, start, verify) ==
    [owner |-> owner, verify |-> verify,
     count |-> [n \in Nodes |-> IF n = n0 THEN c0 ELSE c1],
     start |-> [n \in Nodes |-> start]]

\* Two workers beside the coordinator; one here and one there, with and without
\* the check of the connection; then the rejected ones: no service on n1, a
\* negative count, a port range that ends past the last port, an unknown owner.
SomeTopologies ==
    {Topology(n0, 2, 0, 1, TRUE), Topology(n0, 1, 1, 2, TRUE), Topology(n0, 1, 1, 2, FALSE),
     Topology(n0, 0, -1, 1, TRUE), Topology(n0, 2, 2, 2, TRUE), Topology("other", 1, 1, 1, TRUE)}
=============================================================================
