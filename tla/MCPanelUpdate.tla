---------------------------- MODULE MCPanelUpdate -----------------------------
(* Two updates, the first of which brings a new schema of profiles.         *)
EXTENDS PanelUpdate, TLC

QuarterToAndLater == {LastQuarter, LastQuarter + 1}
FirstMigrates == 0 :> 1 @@ 1 :> 2 @@ 2 :> 2

(* Many interruptions of one edit, or fewer of two and nothing asked for.   *)
Mixed ==
    {[k \in Kinds |-> CASE k \in {"push", "kill"} -> 2 [] OTHER -> 1],
     [k \in Kinds |-> CASE k = "edit" -> 2 [] k = "request" -> 0 [] OTHER -> 1]}
===============================================================================
