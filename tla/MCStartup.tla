---------------------------- MODULE MCStartup ----------------------------
EXTENDS Startup

Pick(legacy, smart, own, catchAll, mine) ==
    [pool |-> [i \in Pools |-> CASE i = "LEGACY" -> legacy [] i = "SMART" -> smart
                                 [] i = "OWN" -> own [] OTHER -> {}],
     rule |-> [r \in Rules |-> IF r = "own" THEN mine ELSE catchAll]]

(* What was shipped before and today, with a pool of the operator above or  *)
(* below, and an operator who reused an old name.                           *)
Mixed  == Pick({}, None, {"LEGACY"}, "OWN", "LEGACY")
Reused == Pick({}, {"LEGACY"}, None, "SMART", None)

(* FAST-AUTO falls back to a pool that goes with the second change.         *)
Between == [Pick({}, {"FAST"}, {}, "SMART", None) EXCEPT !.pool["FAST"] = {"LEGACY"}]

MCPolicies ==
    {Mixed, Reused, Between, Pick({"OWN"}, {"FAST"}, {}, "LEGACY", "OWN"),
     Pick(None, {"FAST"}, {"SMART"}, "SMART", "DIRECT")}

Past == [version : 0..12, keys : SUBSET Keys, policy : MCPolicies, admins : 0..1]

(* Every version once, and every policy before and between the changes.     *)
MCPasts ==
    {p \in Past : /\ p.keys \in OldKeys(p.version)
                  /\ p.version \in {4, 9} \/ (p.policy = Mixed /\ p.keys # Keys)
                  /\ p.admins = 1 \/ (p.version = 9 /\ p.policy = Mixed /\ p.keys = Keys)}

MCLimits == [crash |-> 2, tool |-> 1, edit |-> 2, setup |-> 2]
==========================================================================
