------------------------------ MODULE Frontends ------------------------------
(***************************************************************************)
(* The two adapters that are no proxy core (adapters/infrastructure.rs):   *)
(* the Nginx site from which clients fetch their documents, and the check  *)
(* that the name of the node resolves.  The settings of the panel say for  *)
(* which hosts; a name under .local asks for neither.                      *)
(*                                                                         *)
(* known tells what the host has for a name:                               *)
(*   "archived"  certificate and key in the archive of that name, safe     *)
(*   "current"   not about to expire, and for that name                    *)
(*   "taken"     another enabled site has it as server_name                *)
(*   "resolves"  in the DNS                                                *)
(***************************************************************************)
CONSTANTS
    Hosts,       \* what the form of the settings takes for a host
    LocalHosts,  \* those that end in .local
    Domains,     \* those that are plain domain names: no port, no brackets
    SitePort,    \* 443
    NoSite

ASSUME FrontendsAssumption ==
    /\ LocalHosts \subseteq Hosts /\ Domains \subseteq Hosts
    /\ NoSite \notin Hosts

Site == "subscription-frontend"
Node == "node-readiness"
Facts == {"archived", "current", "taken", "resolves"}

(* desired_resources, of which each frontend has one or several, that come  *)
(* and go together.                                                         *)
Desired(settings) ==
    {frontend \in {Site, Node} : settings[frontend] \notin LocalHosts}

(* The listener claim among them.                                           *)
ClaimsSitePort(settings) == Site \in Desired(settings)

(* domain() of both adapters: exactly one, and validate_domain takes it.    *)
HasDomain(settings, frontend) == settings[frontend] \in Domains

(* validate_certificate and validate_letsencrypt_material.                  *)
Archived(known, host)  == "archived" \in known[host]
Certified(known, host) == Archived(known, host) /\ "current" \in known[host]

(* reject_duplicate_server_name, over the names of every enabled site.      *)
Unshared(known, host) == "taken" \notin known[host]

(* stage_config: all that is checked before a file is touched.              *)
Stages(frontend, settings, known) ==
    /\ HasDomain(settings, frontend)
    /\ frontend = Site => /\ Certified(known, settings[Site])
                          /\ Unshared(known, settings[Site])

(* healthcheck, after.                                                      *)
Healthy(frontend, settings, known) ==
    IF frontend = Site THEN Certified(known, settings[Site])
    ELSE "resolves" \in known[settings[Node]]

(* install_config: an empty plan removes the site.                          *)
Installed(settings) == IF Site \in Desired(settings) THEN settings[Site] ELSE NoSite
=============================================================================
