--------------------------- MODULE MCModuleUpdates ---------------------------
(* Bounds for TLC: two requests, and one of every other kind of event.      *)
EXTENDS ModuleUpdates

FewLimits == [kind \in Kinds |-> IF kind = "request" THEN 2 ELSE 1]
=============================================================================
