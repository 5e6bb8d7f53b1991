--------------------------- MODULE MCRuntimePlans ---------------------------
(* Every capability once, with one change and one run of the worker; and     *)
(* pairs of profiles, one of them disabled at first, with two changes and    *)
(* two runs: of VLESS REALITY TCP, which three runtimes serve, of the native *)
(* protocols, whose own servers take one profile only, and of two protocols  *)
(* in one runtime.                                                           *)
EXTENDS Inventory

CONSTANTS p1, p2, public, private, shared, home, domain, withPort

RefOf(f) == CASE f = "public_key" -> public [] f = "private_key" -> private [] OTHER -> shared
Refs(c, optional) == [f \in RequiredFields(c) \cup optional |-> RefOf(f)]

Start(c, d, optional, core, changes) ==
    [row |-> [p \in {p1, p2} |->
                IF p = p1 THEN [DefaultRow(c, Refs(c, optional), 1) EXCEPT !.on = TRUE, !.core = core]
                ELSE DefaultRow(d, Refs(d, {}), 2)],
     settings |-> [frontend \in {Site, Node} |-> home],
     left |-> [change |-> changes, run |-> changes]]

(* A pair that is ready, and what becomes of one.                            *)
Ready == [directory |-> "closed", certificate |-> "fit", key |-> "fit",
          expired |-> FALSE, covers |-> TRUE]
MCMaterials ==
    {Ready, [Ready EXCEPT !.expired = TRUE], [Ready EXCEPT !.covers = FALSE],
     [Ready EXCEPT !.directory = "open"], [Ready EXCEPT !.key = "unsafe"],
     [Ready EXCEPT !.certificate = "missing", !.key = "missing"]}

RealityTcp == <<"vless", "reality-tcp">>
Hysteria   == <<"hysteria2", Plain>>
Tuic       == <<"tuic", Plain>>
MCStarts ==
    {Start(c, RealityTcp, OptionalFields(c), DefaultRuntime(c), 1) : c \in Capabilities}
    \cup {Start(RealityTcp, RealityTcp, {}, LegacyRuntime(RealityTcp), 2),
          Start(<<"trojan", "restls">>, RealityTcp, {}, None, 2),
          Start(Hysteria, Tuic, {"obfs_password"}, None, 2),
          Start(Tuic, Tuic, {}, DefaultRuntime(Tuic), 2)}
=============================================================================
