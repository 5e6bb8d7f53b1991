------------------------------ MODULE MCRouting -------------------------------
(* Two pools, two rule sets, one of them custom-direct, and two addresses.    *)
EXTENDS Routing, TLC

CONSTANTS A, B

Plain(i) == [on |-> TRUE, members |-> {i}]
Chain    == [pool |-> A :> Plain("leaf") @@ B :> Plain(A), rule |-> [on |-> TRUE, target |-> B]]
Single   == [pool |-> A :> Plain("leaf") @@ B :> None, rule |-> [on |-> TRUE, target |-> A]]

References2 == {{"leaf"}, {A}, {B}}

(* Two forms at a time, of the policy, of rule sets or of both; two edits or  *)
(* requests of sources among scheduled fetches, a publication and a failure.  *)
Budget(p, s, q, n, f) ==
    "policy" :> p @@ "set" :> s @@ "source" :> q @@ "publish" :> n @@ "failure" :> f
Scenario(p, s, t, u, b) == [policy |-> p, home |-> s, target |-> t, urls |-> u, left |-> b]
FiveScenarios ==
    {Scenario(Chain, "s", A, {}, Budget(2, 0, 0, 0, 0)),
     Scenario(Single, "s", A, {}, Budget(1, 1, 0, 0, 0)),
     Scenario(Single, "s", "DIRECT", {}, Budget(0, 2, 0, 0, 0)),
     Scenario(Single, "custom", "DIRECT", {"u"}, Budget(0, 1, 1, 0, 0)),
     Scenario(Single, "s", A, {"u"}, Budget(0, 0, 2, 1, 1))}
===============================================================================
