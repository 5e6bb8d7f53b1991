--------------------------- MODULE MCUserLifecycle ----------------------------
(* Instances of UserLifecycle.                                                *)
EXTENDS UserLifecycle

CONSTANTS u1, u2, h1, h2
===============================================================================
