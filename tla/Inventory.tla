------------------------------ MODULE Inventory ------------------------------
(***************************************************************************)
(* What the pages of the panel say of the profiles and the frontends: load *)
(* (panel, inventory.rs) collects rows, the reconcile row, the probes of   *)
(* the runtimes and the state of their units, and build_inventory (core,   *)
(* inventory.rs) makes a state of each out of them.  It has code of its    *)
(* own for which runtime a profile is served by.                           *)
(*                                                                         *)
(* load reads the rows and later the reconcile row.  Where a generation is *)
(* committed in between, it puts one beside the other; this module is      *)
(* about the pages whose two reads saw the same generation.                *)
(***************************************************************************)
EXTENDS RuntimePlans, Sequences

(* The facts of the runtimes, from core_registry().observations(), the      *)
(* module statuses and systemd.                                             *)
IsInstalled(core) == core \in {Site, Node} \/ host[core] # "absent"
OfVersion(core)   == core \in {Site, Node} \/ host[core] = "validated"
Usable(core)      == IsInstalled(core) /\ OfVersion(core)
IsActive(core)    == core \notin down /\ (core \in {Site, Node} \/ conf[core] # {})

(* runtime_fact_can_back_protocol.                                          *)
CanBack(core, c) == c \in Offers(core) /\ Usable(core)

(* build_protocol_adapters, for the adapters this release has.              *)
AdapterState(c) == IF \E core \in Cores : CanBack(core, c) THEN "available" ELSE "adapter-only"

(* select_runtime: the preferred runtime whatever it is like, else the      *)
(* first one, in the order of the map, that can back the protocol.          *)
ById == <<"hysteria", "mihomo", "sing-box", "tuic", "xray">>
ShownRuntime(p) ==
    LET backing == {i \in DOMAIN ById : CanBack(ById[i], row[p].cap)} IN
    IF row[p].core # None THEN row[p].core
    ELSE IF backing = {} THEN None
    ELSE ById[CHOOSE i \in backing : \A j \in backing : i <= j]

(* build_runtimes: an applied list is only believed while it is current.    *)
IsDesired(core) == (\E p \in On(row) : row[p].core = core) \/ core \in Desired(settings)
IsApplied(core) == applied.gen = generation /\ core \in applied.cores

(* classify_runtime, but for the failed transaction, of which a profile     *)
(* shows nothing: its generation is not applied.                            *)
RuntimeState(core) ==
    IF ~IsInstalled(core) THEN "available-not-installed"
    ELSE IF ~IsDesired(core) /\ ~IsApplied(core) THEN "installed-inactive"
    ELSE IF IsActive(core) THEN "active-healthy"
    ELSE "active-degraded"

(* Mutant: an older applied generation is taken for the desired one.        *)
StateOnWhateverIsApplied(core) ==
    IF RuntimeState(core) = "active-healthy" THEN "applied-healthy" ELSE "applied-degraded"

(* build_resources, of a runtime that could serve.                          *)
StateOn(core) ==
    IF generation > applied.gen THEN "configured-pending"
    ELSE IF RuntimeState(core) = "active-healthy" THEN "applied-healthy"
    ELSE "applied-degraded"

(* A profile; the pair that is not ready turns it back (load, at the end).  *)
ProfileState(p) ==
    LET core == ShownRuntime(p) IN
    IF ~row[p].on THEN "disabled"
    ELSE IF NeedsTls(row[p].cap) /\ ~StaticReady(material, report) THEN "configured-pending"
    ELSE IF core = None \/ ~Usable(core) THEN "core-unavailable"
    ELSE StateOn(core)

FrontendState(frontend) ==
    IF frontend \in Desired(settings) THEN StateOn(frontend) ELSE "disabled"

-----------------------------------------------------------------------------
(* PageTellsTruth: what the page calls applied and healthy is.  A profile   *)
(* has its listener in a runtime, its protocol is called available, and,    *)
(* where it is bound to a runtime, the listener is in that one and the      *)
(* process is up; the site answers for the host of the settings.  Of a      *)
(* profile that is bound to none, the page may look at another runtime than *)
(* the one that serves it.                                                  *)
Serves(core, p) == core \in applied.cores /\ \E l \in conf[core] : l.name = p

PageTellsTruth ==
    /\ \A p \in Profiles :
          ProfileState(p) = "applied-healthy" =>
              /\ \E core \in Cores : Serves(core, p)
              /\ AdapterState(row[p].cap) = "available"
              /\ row[p].core # None => Serves(row[p].core, p) /\ row[p].core \notin down
    /\ FrontendState(Site) = "applied-healthy" => site = settings[Site] /\ Site \notin down
=============================================================================
