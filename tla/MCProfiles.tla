------------------------------ MODULE MCProfiles ------------------------------
(* Two profiles of one transport; build 2 brings a batch that names both    *)
(* again, and the adapter of the second, which build 1 lacks.               *)
EXTENDS Profiles, TLC

CONSTANTS p1, p2

OneTransport == p1 :> "tcp" @@ p2 :> "tcp"
TwoBatches   == <<{p1}, {p1, p2}>>
Release      == [p \in {p1, p2} |-> [title |-> "t", port |-> 1, cfg |-> "k"]]
OldBuild     == <<{p2}, {}>>
NewSchema    == <<1, 2>>
Budget(requests, events) ==
    "page" :> 2 @@ "request" :> requests @@ "event" :> events @@ "clock" :> 1
FewLimits    == {Budget(3, 0), Budget(2, 1)}
Tabs         == Permutations(Sessions)
=============================================================================
