-------------------------- MODULE MCClientDocuments --------------------------
(* Two profiles that share a capability, a role and a secret, and a third     *)
(* with others; two pools, two rule sets and two inline rules; two edits, a   *)
(* change of the runtimes and a subscription at the same time.                *)
EXTENDS ClientDocuments

CONSTANTS a, b, c, A, B, r1, r2, s1, s2

MCListed     == <<b, a, c>>
MCCapability == [p \in {a, b, c} |-> IF p = c THEN "y" ELSE "x"]
MCRole       == [p \in {a, b, c} |-> IF p = c THEN "manual" ELSE "auto"]
MCReferences == [p \in {a, b, c} |-> IF p = c THEN {} ELSE {"key"}]
MCRules      == <<r1, r2>>
MCSets       == <<s1, s2>>

Exact == [domains |-> {"d"}, plain |-> TRUE, all |-> FALSE]
Regex == [domains |-> {"d"}, plain |-> FALSE, all |-> FALSE]
MCLines   == {Exact, Regex, Match}
MCMembers == {{ProfileOf(a), <<"role", "manual">>}, {<<"role", "manual">>}, {PoolOf(B)}}
MCTargets == {Direct, ProfileOf(c), <<"capability", "x">>, PoolOf(A), PoolOf(B)}

Group(m)     == [on |-> TRUE, members |-> {m}]
Line1(l, t)  == [on |-> TRUE, line |-> l, target |-> t]
List(l, t)   == [on |-> TRUE, lines |-> {l}, target |-> t]
Policy(g, h) == [i \in {A, B} |-> IF i = A THEN g ELSE h]
Ordered(x, y, f, g) == [i \in {x, y} |-> IF i = x THEN f ELSE g]
Budget(e, h, f)  == [edit |-> e, host |-> h, fetch |-> f]

MCStarts ==
    {[profile |-> {a, b, c}, pool |-> Policy(Group(ProfileOf(a)), Group(PoolOf(A))),
      rule |-> Ordered(r1, r2, Line1(Match, PoolOf(B)), None),
      set |-> Ordered(s1, s2, List(Exact, PoolOf(A)), None), left |-> Budget(2, 1, 1)],
     [profile |-> {a, b, c}, pool |-> Policy(Group(<<"role", "manual">>), None),
      rule |-> Ordered(r1, r2, Line1(Regex, <<"capability", "x">>), Line1(Match, PoolOf(A))),
      set |-> Ordered(s1, s2, List(Regex, Direct), List(Exact, PoolOf(A))), left |-> Budget(2, 1, 1)]}
==============================================================================
