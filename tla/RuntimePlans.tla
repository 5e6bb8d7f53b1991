---------------------------- MODULE RuntimePlans ----------------------------
(***************************************************************************)
(* From the rows of the panel to the listeners of the cores and back: how  *)
(* the worker turns the desired state it loaded, secrets it reads later    *)
(* and the runtimes of the host into one configuration per core            *)
(* (build_plans, CoreRegistry::select, the composers of adapters/cores.rs),*)
(* how it compares the users of the runtimes with the desired ones, and    *)
(* what the subscription hands to clients meanwhile.                       *)
(*                                                                         *)
(* Reconciler has the transaction in detail and shows that it takes effect *)
(* as one step or not at all, which is how it appears here.  Profiles has  *)
(* the forms; here a form commits in one step.                             *)
(***************************************************************************)
EXTENDS Adapters, TlsMaterial, Frontends

CONSTANTS
    Profiles, Ports,
    Subscribers, \* values of users.id
    Names,     \* names of secrets
    Secrets,   \* values of secrets; a key pair counts as one value
    Materials, \* the states of the certificate pair that an operator leaves
    Starts     \* the rows an installation starts with, and how often each
               \* bounded kind of event may happen to it

Kinds == {"change", "run"}

References == UNION {[fields -> Names] : fields \in SUBSET Fields}
ProfileRow == [cap : Capabilities, on : BOOLEAN, port : Ports, core : Cores \cup {None},
               refs : References]

(* What validate_profile_candidate let pass: the secrets the capability     *)
(* asks for, and a preferred runtime that offers it.                        *)
Accepted(new) ==
    /\ Configured(new.cap, new.refs)
    /\ new.core # None => new.cap \in Offers(new.core)

ASSUME RuntimePlansAssumption ==
    \A start \in Starts :
        /\ start.left \in [Kinds -> Nat]
        /\ start.settings \in [{Site, Node} -> Hosts]
        /\ start.row \in [Profiles -> ProfileRow]
        /\ \A p \in Profiles : Accepted(start.row[p])

(* None is no value of the sets it extends.                                 *)
ASSUME NoneIsNoPlan ==
    None \notin Cores /\ None \notin Secrets /\ None # "synced" /\ Secrets # {}

VARIABLES
    row,        \* protocol_profiles
    secret,     \* secret_values: what clients get, and servers without a file
    file,       \* the root-only files in secrets.d
    users,      \* the users with access
    generation, \* desired_generation
    host,       \* per core: binary absent, of the validated version, of another
    material,   \* the certificate pair of the runtimes
    report,     \* tls-readiness.json
    known,      \* what the host has for the names in the settings
    down,       \* services that should run and do not
    settings,   \* the hosts of the site and of the node
    conf,       \* per core: the configuration its process runs
    site,       \* the host the installed Nginx site answers for
    applied,    \* applied.json
    job,        \* what the worker works on, or None
    sync,       \* runtime_user_sync: per profile a status, or None
    quiet,      \* history: root-only secrets changed since the last generation
    left        \* what is left of the budget

panel   == <<row, secret, users, settings, generation>>
machine == <<host, material, known, down>>
served  == <<conf, site, applied>>
planVars == <<row, secret, file, users, generation, host, material, report, known, down,
              settings, conf, site, applied, job, sync, quiet, left>>

-----------------------------------------------------------------------------
(* Selection and plans *)

Spend(kind) == left[kind] > 0 /\ left' = [left EXCEPT ![kind] = @ - 1]
Commit      == generation' = generation + 1

(* ManagedCoreAdapter::compatible: binary, version and marker are the       *)
(* validated ones and, for a capability that needs it, TLS is ready, as far *)
(* as the process that asks can tell.                                       *)
Compatible(core, c, tls) == host[core] = "validated" /\ (NeedsTls(c) => tls)

(* CoreRegistry::select: the preferred runtime or none; without preference  *)
(* the compatible one of the highest priority, in the order of the IDs.     *)
Candidates(c, tls) == {core \in Cores : c \in Offers(core) /\ Compatible(core, c, tls)}
Select(c, preferred, tls) ==
    LET candidates == Candidates(c, tls) IN
    IF preferred # None
    THEN IF preferred \in candidates THEN preferred ELSE None
    ELSE IF candidates = {} THEN None
    ELSE CHOOSE core \in candidates : \A other \in candidates : Priority(other) <= Priority(core)

On(rows) == {p \in Profiles : rows[p].on}

(* resolve_server_secret: a server-only reference is read from its file, a  *)
(* shared one from its file if there is one, else from the database.  Which *)
(* it is, the first profile that refers to it says; their order is left     *)
(* open.                                                                    *)
Needed(rows)     == UNION {ServerReferences(rows[p].refs) : p \in On(rows)}
Readers(rows, n) == {p \in On(rows) : n \in ServerReferences(rows[p].refs)}
First(rows, n)   == CHOOSE p \in Readers(rows, n) : TRUE
Resolved(rows) ==
    [n \in Needed(rows) |->
        IF n \in ServerOnlyReferences(rows[First(rows, n)].refs) \/ file[n] # None
        THEN file[n] ELSE secret[n]]
Core(rows, p) == Select(rows[p].cap, rows[p].core, PrivilegedReady(material, FALSE))

(* build_plans and load_privileged_secrets give up when a profile has no    *)
(* runtime or a secret of its server is missing.                            *)
Plannable(want) ==
    \A p \in On(want.row) :
        /\ Core(want.row, p) # None
        /\ \A n \in ServerReferences(want.row[p].refs) : want.store[n] # None

Plan(want, core) ==
    {Fragment(p, want.row[p], want.users, want.store) :
        p \in {p \in On(want.row) : Core(want.row, p) = core}}
Active(want)  == {core \in Cores : Plan(want, core) # {}} \cup Desired(want.settings)
Planned(want) == Active(want) \cup applied.cores

(* validate_listener_plan: no listener is claimed twice.                    *)
ClaimsDiffer(want) ==
    \A p \in On(want.row) :
        /\ \A q \in On(want.row) \ {p} :
              want.row[p].port = want.row[q].port => Udp(want.row[p].cap) # Udp(want.row[q].cap)
        /\ ClaimsSitePort(want.settings) /\ want.row[p].port = SitePort => Udp(want.row[p].cap)

-----------------------------------------------------------------------------
(* The panel and the manager *)

(* A form of a profile is saved: enabled, disabled, moved to another port   *)
(* or bound to another core.  What it passes is validate_profile_candidate. *)
SaveProfile(p, on, port, core) ==
    LET new == [row[p] EXCEPT !.on = on, !.port = port, !.core = core] IN
    /\ Spend("change")
    /\ new # row[p]
    /\ \A n \in ClientReferences(new.refs) : secret[n] # None
    /\ Accepted(new)
    /\ core = None => \E other \in Cores : new.cap \in Offers(other)
    /\ on => /\ Select(new.cap, core, StaticReady(material, report)) # None
             /\ \A q \in On(row) \ {p} : row[q].port = port => Udp(row[q].cap) # Udp(new.cap)
    /\ row' = [row EXCEPT ![p] = new]
    /\ IF on \/ row[p].on THEN Commit /\ quiet' = {} ELSE UNCHANGED <<generation, quiet>>
    /\ UNCHANGED <<secret, file, users, settings, machine, report, served, job, sync>>

(* upsert_secret and delete_secret: any change is a generation.             *)
WriteSecret(n, v) ==
    /\ secret' = [secret EXCEPT ![n] = v]
    /\ Commit /\ quiet' = {}

ServerOnlyNames == UNION {ServerOnlyReferences(row[p].refs) : p \in Profiles}

(* secret_save_action takes no name that a profile uses as server-only,     *)
(* secret_delete_action any that is there.                                  *)
SaveSecret(n, v) ==
    /\ Spend("change")
    /\ n \notin ServerOnlyNames
    /\ WriteSecret(n, v)
    /\ UNCHANGED <<row, file, users, settings, machine, report, served, job, sync>>

DeleteSecret(n) ==
    /\ Spend("change")
    /\ secret[n] # None
    /\ WriteSecret(n, None)
    /\ UNCHANGED <<row, file, users, settings, machine, report, served, job, sync>>

(* store_privileged_secret and delete_privileged_secret of the manager: the *)
(* file changes and the worker is started; no generation is committed.      *)
StoreFile(n, v) ==
    /\ Spend("change")
    /\ v # file[n]
    /\ file' = [file EXCEPT ![n] = v]
    /\ quiet' = quiet \cup {n}
    /\ UNCHANGED <<panel, machine, report, served, job, sync>>

(* PrivilegedSecretStore::write replaces no file that is there.             *)
WriteNew(n, v) == file' = [file EXCEPT ![n] = IF @ = None THEN v ELSE @]

(* adopt_server_only_secret: a value that was kept in the database moves to *)
(* a file, unless the file has another value.                               *)
Adopt(n) ==
    /\ n \in ServerOnlyNames /\ secret[n] # None
    /\ file[n] \in {None, secret[n]}
    /\ WriteNew(n, secret[n])
    /\ WriteSecret(n, None)
    /\ UNCHANGED <<row, users, settings, machine, report, served, job, sync, left>>

SetAccess(u) ==
    /\ Spend("change")
    /\ users' = IF u \in users THEN users \ {u} ELSE users \cup {u}
    /\ Commit /\ quiet' = {}
    /\ UNCHANGED <<row, secret, file, settings, machine, report, served, job, sync>>

(* update_settings_action takes any host; upsert_settings_with_runtime_keys *)
(* commits a generation when one of the two changed.                        *)
SaveSettings(new) ==
    /\ Spend("change")
    /\ new # settings
    /\ settings' = new
    /\ Commit /\ quiet' = {}
    /\ UNCHANGED <<row, secret, file, users, machine, report, served, job, sync>>

(* The host: a runtime is installed, updated past the validated version or  *)
(* removed while nothing applied needs it; the certificate pair is issued,  *)
(* replaced, left half done or lost; what holds of a name changes; a        *)
(* service dies or is started by hand.                                      *)
ChangeHost ==
    /\ Spend("change")
    /\ \/ /\ \E core \in Cores, s \in {"absent", "validated", "other"} :
               /\ s # host[core]
               /\ s = "absent" => core \notin applied.cores
               /\ host' = [host EXCEPT ![core] = s]
          /\ UNCHANGED <<material, known, down>>
       \/ /\ material' \in Materials \ {material}
          /\ UNCHANGED <<host, known, down>>
       \/ /\ \E name \in Domains \ LocalHosts, fact \in Facts :
               known' = [known EXCEPT ![name] =
                            IF fact \in @ THEN @ \ {fact} ELSE @ \cup {fact}]
          /\ UNCHANGED <<host, material, down>>
       \/ /\ \E service \in applied.cores \ {Node} :
               down' = IF service \in down THEN down \ {service} ELSE down \cup {service}
          /\ UNCHANGED <<host, material, known>>
    /\ UNCHANGED <<panel, file, report, served, job, sync, quiet>>

(* --publish-tls-readiness, which the installer calls.                      *)
PublishReport ==
    /\ report' = ReportOf(material)
    /\ UNCHANGED <<panel, file, machine, served, job, sync, quiet, left>>

-----------------------------------------------------------------------------
(* The worker *)

(* process() loads the desired state at one moment, publishes the report    *)
(* and gives up when an enabled profile lacks a certificate for its SNI.    *)
Load ==
    /\ job = None
    /\ Spend("run")
    /\ report' = ReportOf(material)
    /\ job' = IF \A p \in On(row) : NeedsTls(row[p].cap) => PrivilegedReady(material, TRUE)
              THEN [pc |-> "secrets", row |-> row, users |-> users, settings |-> settings,
                    gen |-> generation, store |-> None]
              ELSE None
    /\ UNCHANGED <<panel, file, machine, served, sync, quiet>>

(* load_privileged_secrets, later; a missing secret ends the run.           *)
ReadSecrets ==
    /\ job # None /\ job.pc = "secrets"
    /\ LET store == Resolved(job.row) IN
       IF \A n \in Needed(job.row) : store[n] # None
       THEN job' = [job EXCEPT !.store = store, !.pc = IF job.gen > applied.gen THEN "apply" ELSE "observe"]
       ELSE job' = None
    /\ UNCHANGED <<panel, file, machine, report, served, sync, quiet, left>>

(* reconcile() succeeds as a whole.                                         *)
Apply ==
    /\ job # None /\ job.pc = "apply"
    /\ Plannable(job) /\ ClaimsDiffer(job)
    /\ \A core \in Cores \cap Planned(job) : Composable(core, Plan(job, core))
    /\ \A frontend \in Desired(job.settings) :
          Stages(frontend, job.settings, known) /\ Healthy(frontend, job.settings, known)
    /\ conf' = [core \in Cores |->
                  IF core \in Planned(job) THEN Compose(core, Plan(job, core)) ELSE conf[core]]
    /\ site' = IF Site \in Planned(job) THEN Installed(job.settings) ELSE site
    /\ applied' = [gen |-> job.gen, cores |-> Active(job)]
    /\ down' = down \ Planned(job)
    /\ job' = [job EXCEPT !.pc = "observe"]
    /\ UNCHANGED <<panel, file, host, material, known, report, sync, quiet, left>>

(* Or it fails and leaves the runtimes as they were.                        *)
Fail ==
    /\ job # None /\ job.pc = "apply"
    /\ job' = [job EXCEPT !.pc = "observe"]
    /\ UNCHANGED <<panel, file, machine, report, served, sync, quiet, left>>

(* observe_user_sync plans again, with the host as it is now, asks every    *)
(* planned core once and gives its answer to each of its profiles.          *)
Observe ==
    /\ job # None /\ job.pc = "observe"
    /\ job' = None
    /\ sync' = IF ~Plannable(job) THEN sync
               ELSE [p \in Profiles |->
                       IF p \in On(job.row) /\ PerUser(job.row[p].cap)
                       THEN LET core == Core(job.row, p)
                            IN  ObserveUsers(core, Plan(job, core), conf[core])
                       ELSE None]
    /\ UNCHANGED <<panel, file, machine, report, served, quiet, left>>

-----------------------------------------------------------------------------
(* Secrets that servers alone use are in files at the start, or still in    *)
(* the database, where an older release kept them.                          *)
PlansInit ==
    /\ \E start \in Starts : row = start.row /\ settings = start.settings /\ left = start.left
    /\ \E kept \in {"file", "database"} :
          /\ secret = [n \in Names |->
                IF \/ n \in UNION {ClientReferences(row[p].refs) : p \in Profiles}
                   \/ n \in ServerOnlyNames /\ kept = "database"
                THEN CHOOSE v \in Secrets : TRUE ELSE None]
          /\ file = [n \in Names |-> IF n \in ServerOnlyNames /\ kept = "file"
                                     THEN CHOOSE v \in Secrets : TRUE ELSE None]
    /\ users = {CHOOSE u \in Subscribers : TRUE}
    /\ generation = 1
    /\ host = [core \in Cores |-> "validated"]
    /\ material \in {m \in Materials : PrivilegedReady(m, TRUE)}
    /\ known = [name \in Hosts |-> IF name \in Domains \ LocalHosts
                                    THEN {"archived", "current", "resolves"} ELSE {}]
    /\ down = {}
    /\ report = ReportOf(material)
    /\ conf = [core \in Cores |-> {}]
    /\ site = NoSite
    /\ applied = [gen |-> 0, cores |-> {}]
    /\ job = None
    /\ sync = [p \in Profiles |-> None]
    /\ quiet = {}

PlansNext ==
    \/ \E p \in Profiles, on \in BOOLEAN, port \in Ports, core \in Cores \cup {None} :
          SaveProfile(p, on, port, core)
    \/ \E n \in Names, v \in Secrets : SaveSecret(n, v)
    \/ \E n \in Names, v \in Secrets \cup {None} : StoreFile(n, v)
    \/ \E n \in Names : DeleteSecret(n) \/ Adopt(n)
    \/ \E u \in Subscribers : SetAccess(u)
    \/ \E new \in [{Site, Node} -> Hosts] : SaveSettings(new)
    \/ ChangeHost \/ PublishReport \/ Load \/ ReadSecrets \/ Apply \/ Fail \/ Observe

PlansSpec == PlansInit /\ [][PlansNext]_planVars

-----------------------------------------------------------------------------
(* Properties *)

(* mihomo_subscription and generate_mihomo_yaml_detailed: a document has a  *)
(* proxy for every enabled profile some installed runtime has a capability  *)
(* for, whether or not that runtime is compatible.                          *)
Available(rows) ==
    {p \in On(rows) : \E core \in Cores : host[core] # "absent" /\ rows[p].cap \in Offers(core)}
Handed(u) ==
    IF \A p \in Available(row) : Renderable(row[p], secret)
    THEN {Proxy(p, row[p], u, secret) : p \in Available(row)} ELSE {}

(* Where the operator keeps one secret in two places with two values, the   *)
(* key pair is not one, or the secret was changed behind the panel.         *)
OddSecrets(p) ==
    \/ \E n \in ServerReferences(row[p].refs) : n \in quiet
    \/ \E n \in SharedReferences(row[p].refs) : file[n] \notin {None, secret[n]}
    \/ "private_key" \in DOMAIN row[p].refs
          /\ file[row[p].refs["private_key"]] # secret[row[p].refs["public_key"]]

(* What sing-box composes for VLESS REALITY TCP has no vision flow.         *)
WithoutVision(p) == \E l \in conf["sing-box"] : l.name = p /\ l.kind = "vless"

(* ServedAsPromised: while the generation the panel is at is the one that   *)
(* is applied, the site answers at the address the users are given, if that *)
(* is a public one, and every proxy in a document is one a runtime lets in. *)
(* Rows, files, secrets and host are read at different moments by two       *)
(* processes that share no code for it: render_client and the composers     *)
(* have to agree on protocol, wrapper, flow, secrets, port and users.       *)
ServedAsPromised ==
    applied.gen = generation =>
        /\ site = Installed(settings)
        /\ \A u \in users : \A proxy \in Handed(u) :
            \/ OddSecrets(proxy.name)
            \/ WithoutVision(proxy.name)
            \/ \E core \in Cores \cap applied.cores : \E l \in conf[core] : Accepts(l, proxy)

(* The run could not apply what it loaded, so that a core the profile is to *)
(* leave still has its listener: observe_user_sync asks the planned core    *)
(* alone.                                                                   *)
NotYetMoved(p, core) == applied.gen < job.gen /\ core # Core(job.row, p)

(* SyncedRevokes: where the worker calls the users of a profile synced, no  *)
(* listener of that profile in any runtime lets in a user without access,   *)
(* whatever was planned, failed or moved before.  In the planned core that  *)
(* is the comparison, of which each profile gets a copy; in all the others  *)
(* it is that a core which lost its last profile is planned once more,      *)
(* without one.  Only a profile whose move could not be applied may be      *)
(* called synced by the core it was to move to while the one it comes from  *)
(* still lets a revoked user in.                                            *)
SyncedRevokes ==
    [][\A p \in Profiles :
          job # None /\ job.pc = "observe" /\ job' = None /\ Plannable(job) /\ sync'[p] = "synced"
          => \A core \in Cores : \A l \in conf[core] :
                l.name = p => l.users \subseteq job.users \/ NotYetMoved(p, core)]_planVars
=============================================================================
