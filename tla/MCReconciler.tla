----------------------------- MODULE MCReconciler -----------------------------
(* Instances of Reconciler: two cores, three fragments, two listeners.        *)
EXTENDS Reconciler

CONSTANTS f1, f2, f3, p1, p2

MCFragments == {f1, f2, f3}
MCPorts == {p1, p2}

\* f1 and f3 are two contents of one profile: same listener, other users.
MCPortOf == [f \in MCFragments |-> IF f = f2 THEN p2 ELSE p1]

W(a, b) == <<a, b>>

\* Start, change, stop and hand over cores; the last one collides with itself.
AllWants == {W({f1}, {}), W({f3}, {f2}), W({}, {f1}), W({f2}, {f1}), W({f1}, {f3})}
===============================================================================
