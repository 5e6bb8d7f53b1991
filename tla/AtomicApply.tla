----------------------------- MODULE AtomicApply ------------------------------
(***************************************************************************)
(* What the reconciler promises: generations are committed in order, one of*)
(* them at a time becomes the published one, and in that same step, never  *)
(* before and never for some cores only, what the cores serve becomes      *)
(* exactly what that generation asks of them.                              *)
(***************************************************************************)
EXTENDS Naturals

CONSTANTS Cores, Wants, MaxGen, None

VARIABLES
    desired,    \* the latest committed generation
    loaded,     \* the committed generation the worker read last
    published,  \* the applied generation
    serving     \* per core: what it may rely on to run, now and after a boot

vars == <<desired, loaded, published, serving>>

Nothing == [gen |-> 0, want |-> [c \in Cores |-> {}]]

(* A core without fragments is stopped and disabled.                        *)
ServiceFor(config) == [enabled |-> config # {},
                       running |-> IF config = {} THEN None ELSE config]

Init ==
    /\ desired = Nothing
    /\ loaded = Nothing
    /\ published = Nothing
    /\ serving = [c \in Cores |-> ServiceFor({})]

Commit(want) ==
    /\ desired.gen < MaxGen
    /\ desired' = [gen |-> desired.gen + 1, want |-> want]
    /\ UNCHANGED <<loaded, published, serving>>

Load ==
    /\ loaded' = desired
    /\ UNCHANGED <<desired, published, serving>>

Apply ==
    /\ loaded.gen > published.gen
    /\ published' = loaded
    /\ serving' = [c \in Cores |-> ServiceFor(loaded.want[c])]
    /\ UNCHANGED <<desired, loaded>>

Next == Load \/ Apply \/ \E want \in Wants : Commit(want)

Spec == Init /\ [][Next]_vars
===============================================================================
