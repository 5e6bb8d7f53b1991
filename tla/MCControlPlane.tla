---------------------------- MODULE MCControlPlane ----------------------------
(* Instances of ControlPlane: what generations ask for, none of it, one fragment *)
(* or two, of which the pair fails validation.                                *)
EXTENDS ControlPlane

CONSTANTS a, b

AllWants == {{}, {a}, {a, b}}
SomethingWanted == {{a}, {b}, {a, b}}
Refused == {{a, b}}
===============================================================================
