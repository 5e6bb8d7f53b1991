--------------------------- MODULE ClientDocuments ---------------------------
(***************************************************************************)
(* The document a client fetches (mihomo_subscription, mihomo.rs,          *)
(* policy.rs) and the page that explains it to an administrator            *)
(* (routing_page, routing_topology.rs).  Both are functions of the same    *)
(* tables, written twice; the subscription reads the tables one after the  *)
(* other while forms change them.                                          *)
(*                                                                         *)
(* Routing has the forms and their races; here a form commits in one step. *)
(* What a proxy holds is in Adapters.  A pool member and the target of a   *)
(* rule are selectors <<kind, argument>>.  A rule set stands for what it   *)
(* compiles to, a set of lines.  A line has the domains it matches, and    *)
(* whether the page can tell (a DOMAIN kind) or not (an IP, a regex).  Of  *)
(* secrets it matters whether those that clients need are there.           *)
(***************************************************************************)
EXTENDS Integers, Sequences, Functions, Absent

CONSTANTS
    Listed,     \* the profiles, in the order of list_protocol_profiles_decoded
    Capability, \* per profile its capability
    Role,       \* per profile its role
    References, \* per profile the secrets its clients need
    Pools,      \* IDs of transport pools
    BuiltIn,    \* those that is_valid_routing_target accepts unseen
    Rules,      \* a sequence of IDs of inline rules, in the order of priorities
    Sets,       \* the slugs of rule sets, in order
    Domains,
    Lines,      \* the lines a rule or a rule set can have
    Members,    \* what a pool may be edited to hold, sets of selectors
    Targets,    \* the selectors that rules are sent with
    Starts      \* installations to start with and what may happen to them

Profiles == Range(Listed)
Kinds    == {"edit", "host", "fetch"}
Direct   == <<"fixed", "DIRECT">>
ProfileOf(p) == <<"profile", p>>
PoolOf(i)    == <<"pool", i>>
Match        == [domains |-> Domains, plain |-> TRUE, all |-> TRUE]

Line == [domains : SUBSET Domains, plain : BOOLEAN, all : {FALSE}] \cup {Match}

VARIABLES
    profile,   \* the enabled profiles
    runtime,   \* the capabilities of the installed runtimes
    stored,    \* the secrets that secret_values has
    pool,      \* client_transport_pools with their members
    rule,      \* client_routing_rules
    set,       \* routing_rule_sets
    fetch,     \* a subscription that is being answered, or None
    document,  \* the answer the last one got, or None
    loose,     \* history: sets whose pool was switched off under them
    left       \* what is left of the budget

rows == <<profile, runtime, stored, pool, rule, set, loose>>
documentVars == <<profile, runtime, stored, pool, rule, set, fetch, document, loose, left>>

Spend(kind) == left[kind] > 0 /\ left' = [left EXCEPT ![kind] = @ - 1]
RuleIds == Range(Rules)
Slugs   == Range(Sets)
SecretNames == UNION Range(References)

-----------------------------------------------------------------------------
(* The policy *)

On(t, i)      == t[i] # None /\ t[i].on
EnabledPools(ps) == {i \in Pools : On(ps, i)}

(* The profiles among `have` that a selector stands for.                    *)
Selected(m, have) ==
    CASE m[1] = "profile"    -> {m[2]} \cap have
      [] m[1] = "capability" -> {p \in have : Capability[p] = m[2]}
      [] m[1] = "role"       -> {p \in have : Role[p] = m[2]}
      [] m[1] = "but"        -> {p \in have : Role[p] # m[2]}
      [] OTHER -> {}

(* validate: a profile, a capability and a pool that a pool names have to   *)
(* be there; a role may be empty.                                           *)
MemberThere(m, have, ps) ==
    CASE m[1] \in {"profile", "capability"} -> Selected(m, have) # {}
      [] m[1] = "pool" -> m[2] \in EnabledPools(ps)
      [] OTHER -> TRUE

Acyclic(ps) ==
    \A S \in (SUBSET EnabledPools(ps)) \ {{}} :
        \E i \in S : \A j \in S : PoolOf(j) \notin ps[i].members

(* ClientPolicy::validate                                                   *)
Valid(ps, rs, have) ==
    /\ \A i \in EnabledPools(ps) :
          ps[i].members # {} /\ \A m \in ps[i].members : MemberThere(m, have, ps)
    /\ Acyclic(ps)
    /\ \A r \in RuleIds : On(rs, r) =>
          \/ rs[r].target = Direct
          \/ rs[r].target[1] # "role" /\ MemberThere(rs[r].target, have, ps)

(* resolved_pools: the names a group has as its members.                    *)
Resolve(members, have) ==
    UNION {IF m[1] \in {"pool", "fixed"} THEN {m} ELSE {ProfileOf(p) : p \in Selected(m, have)}
           : m \in members}

(* The first listed of some profiles.                                       *)
Earliest(places) == CHOOSE k \in places : \A l \in places : k <= l
First(have)      == Listed[Earliest({k \in DOMAIN Listed : Listed[k] \in have})]

(* resolved_rules: a capability is the first available profile that has it. *)
ResolveTarget(t, have) ==
    IF t[1] = "capability" THEN ProfileOf(First(Selected(t, have))) ELSE t

-----------------------------------------------------------------------------
(* The document *)

(* A profile has one capability here, that one runtime offers; the code has *)
(* a set of them, and on the page a preferred runtime goes first.           *)
Backed(w, p) == Capability[p] \in w.runtime

Available(w) == {p \in w.profile : Backed(w, p)}

(* render_client fails exactly when a secret it needs is missing            *)
(* (Adapters!Renderable).                                                   *)
Rendered(w, p) == References[p] \subseteq w.stored

(* rule_provider: what a client gets for an enabled rule set; the document  *)
(* has its address only.                                                    *)
Provider(w, s) == IF On(w.set, s) THEN w.set[s].lines ELSE {}

(* The rules of a document keep the places they have among all rules: rule  *)
(* sets first, then the inline rules.                                       *)
Places    == 1..(Len(Sets) + Len(Rules))
IsSet(k)  == k <= Len(Sets)
From(k)   == IF IsSet(k) THEN Sets[k] ELSE Rules[k - Len(Sets)]
Active(w) == {k \in Places : IF IsSet(k) THEN On(w.set, From(k)) ELSE On(w.rule, From(k))}

RuleTarget(w, k) ==
    IF IsSet(k) THEN w.set[From(k)].target
    ELSE ResolveTarget(w.rule[From(k)].target, Available(w))

Refused == [status |-> "refused"]

(* generate_mihomo_yaml_detailed: one profile that cannot be rendered, and  *)
(* there is no document.  dns_policy.validate is not in it: the policy is   *)
(* what load_dns_policy has just returned, which validates it before.       *)
Generate(w) ==
    IF \/ Available(w) = {}
       \/ \E p \in Available(w) : ~Rendered(w, p)
       \/ ~Valid(w.pool, w.rule, Available(w))
       \/ \E i \in EnabledPools(w.pool) : Resolve(w.pool[i].members, Available(w)) = {}
    THEN Refused
    ELSE [status  |-> "served",
          proxies |-> Available(w),
          groups  |-> [i \in EnabledPools(w.pool) |-> Resolve(w.pool[i].members, Available(w))],
          rules   |-> [k \in Active(w) |-> RuleTarget(w, k)]]

Names(doc) ==
    {ProfileOf(p) : p \in doc.proxies} \cup {PoolOf(i) : i \in DOMAIN doc.groups} \cup {Direct}

(* What the client does with a domain: the first rule that matches.         *)
Hits(w, k, d) ==
    IF IsSet(k) THEN \E l \in Provider(w, From(k)) : d \in l.domains
    ELSE d \in w.rule[From(k)].line.domains
Route(w, doc, d) ==
    LET hits == {k \in DOMAIN doc.rules : Hits(w, k, d)}
    IN  IF hits = {} THEN None ELSE doc.rules[Earliest(hits)]

-----------------------------------------------------------------------------
(* The page *)

(* A path of the topology: resolve_target looks for pools among the         *)
(* enabled ones, and for the runtime of a profile by its name.              *)
PoolState(w, i) ==
    IF \/ w.pool[i].members = {}
       \/ \E m \in w.pool[i].members :
             m[1] \in {"profile", "capability", "pool"} /\ ~MemberThere(m, w.profile, w.pool)
    THEN "unresolved" ELSE "dynamic"

(* resolve_target and apply_pool_state                                      *)
StateOf(w, t) ==
    CASE t = Direct -> "ready"
      [] t[1] = "pool" -> IF t[2] \in EnabledPools(w.pool) THEN PoolState(w, t[2]) ELSE "unresolved"
      [] t[1] = "profile" -> IF t[2] \in w.profile /\ Backed(w, t[2]) THEN "ready" ELSE "unresolved"
      [] OTHER -> "unresolved"

(* domain_matchers keeps the lines it understands and notes that there were *)
(* others.                                                                  *)
Path(w, lines, target) ==
    [matchers |-> {l \in lines : l.plain},
     unsupported |-> \E l \in lines : ~l.plain,
     target |-> target, state |-> StateOf(w, target)]

(* Mutant: the first profile that has a capability, enabled or not.         *)
ShownTargetOfAll(w, t) ==
    IF t[1] = "capability" /\ Selected(t, Profiles) # {}
    THEN ProfileOf(First(Selected(t, Profiles))) ELSE t

(* Among the enabled profiles the first that has a capability, if any.      *)
ShownTarget(w, t) ==
    IF t[1] = "capability" /\ Selected(t, w.profile) # {}
    THEN ProfileOf(First(Selected(t, w.profile))) ELSE t

(* RoutingTopology::build                                                   *)
Topology(w) ==
    [k \in Active(w) |->
        IF IsSet(k) THEN Path(w, w.set[From(k)].lines, w.set[From(k)].target)
        ELSE Path(w, {w.rule[From(k)].line}, ShownTarget(w, w.rule[From(k)].target))]

(* issues, less the missing MATCH and the lines the page cannot tell: what  *)
(* is unresolved.                                                           *)
Issues(w) ==
    {PoolOf(i) : i \in {i \in EnabledPools(w.pool) : PoolState(w, i) = "unresolved"}}
    \cup {From(k) : k \in {k \in Active(w) : Topology(w)[k].state = "unresolved"}}

(* routing_page loads the tables and the runtimes.                          *)
Now == [profile |-> profile, runtime |-> runtime, stored |-> stored, pool |-> pool,
        rule |-> rule, set |-> set]

Definite(path, d) == \E l \in path.matchers : d \in l.domains

(* inspect_domain: a definite match, unless a path before it may match.     *)
Inspect(paths, d) ==
    LET stops == {k \in DOMAIN paths : paths[k].unsupported \/ Definite(paths[k], d)}
    IN  IF stops = {} THEN [outcome |-> "default"]
        ELSE IF Definite(paths[Earliest(stops)], d)
        THEN [outcome |-> "matched", path |-> paths[Earliest(stops)]]
        ELSE [outcome |-> "uncertain"]

-----------------------------------------------------------------------------
(* Forms *)

Quiet == UNCHANGED <<fetch, document>>

SavePool(i, new) ==
    LET next == [pool EXCEPT ![i] = new] IN
    /\ Spend("edit") /\ Valid(next, rule, profile)
    /\ pool' = next
    /\ loose' = IF new.on THEN loose
                ELSE loose \cup {s \in Slugs : set[s] # None /\ set[s].target = PoolOf(i)}
    /\ UNCHANGED <<profile, runtime, stored, rule, set>> /\ Quiet

Moved(m, i, to) == IF m = PoolOf(i) THEN PoolOf(to) ELSE m

(* Mutant: rule sets do not follow a pool that is replaced.                 *)
DeletePoolOnly(i, to) ==
    LET used == \/ \E j \in Pools : pool[j] # None /\ PoolOf(i) \in pool[j].members
                \/ \E r \in RuleIds : rule[r] # None /\ rule[r].target = PoolOf(i)
                \/ \E s \in Slugs : set[s] # None /\ set[s].target = PoolOf(i)
        left2 == [j \in Pools |-> IF j = i \/ pool[j] = None THEN None
                     ELSE [pool[j] EXCEPT !.members = {Moved(m, i, to) : m \in @}]]
        rules == [r \in RuleIds |-> IF rule[r] = None THEN None
                     ELSE [rule[r] EXCEPT !.target = Moved(@, i, to)]]
    IN /\ Spend("edit")
       /\ pool[i] # None /\ (used => to # i /\ pool[to] # None)
       /\ Valid(left2, rules, profile)
       /\ pool' = left2 /\ rule' = rules
       /\ UNCHANGED <<set, loose, profile, runtime, stored>> /\ Quiet

(* delete_transport_pool_inner: what refers to the pool moves to another,   *)
(* whether that one is enabled or not.                                      *)
DeletePool(i, to) ==
    LET used == \/ \E j \in Pools : pool[j] # None /\ PoolOf(i) \in pool[j].members
                \/ \E r \in RuleIds : rule[r] # None /\ rule[r].target = PoolOf(i)
                \/ \E s \in Slugs : set[s] # None /\ set[s].target = PoolOf(i)
        left2 == [j \in Pools |-> IF j = i \/ pool[j] = None THEN None
                     ELSE [pool[j] EXCEPT !.members = {Moved(m, i, to) : m \in @}]]
        rules == [r \in RuleIds |-> IF rule[r] = None THEN None
                     ELSE [rule[r] EXCEPT !.target = Moved(@, i, to)]]
        moved == {s \in Slugs : set[s] # None /\ set[s].target = PoolOf(i)}
    IN /\ Spend("edit")
       /\ pool[i] # None /\ (used => to # i /\ pool[to] # None)
       /\ Valid(left2, rules, profile)
       /\ pool' = left2 /\ rule' = rules
       /\ set' = [s \in Slugs |-> IF s \in moved THEN [set[s] EXCEPT !.target = PoolOf(to)] ELSE set[s]]
       /\ loose' = IF On(pool, to) THEN loose ELSE loose \cup moved
       /\ UNCHANGED <<profile, runtime, stored>> /\ Quiet

SaveRule(r, new) ==
    LET next == [rule EXCEPT ![r] = new] IN
    /\ Spend("edit") /\ Valid(pool, next, profile)
    /\ rule' = next
    /\ UNCHANGED <<profile, runtime, stored, pool, set, loose>> /\ Quiet

DeleteRule(r) ==
    /\ Spend("edit") /\ rule[r] # None
    /\ rule' = [rule EXCEPT ![r] = None]
    /\ UNCHANGED <<profile, runtime, stored, pool, set, loose>> /\ Quiet

(* validate_classical_rule_payload: some line, and none that catches all.   *)
Compiles(lines) == lines # {} /\ Match \notin lines

(* The forms of a rule set check its target, and that it compiles.          *)
SetTarget(t, ps) == t = Direct \/ (t[1] = "pool" /\ t[2] \in BuiltIn \cup EnabledPools(ps))

SaveSet(s, new) ==
    /\ Spend("edit") /\ Compiles(new.lines)
    /\ SetTarget(new.target, pool)
    /\ set' = [set EXCEPT ![s] = new]
    /\ loose' = loose \ {s}
    /\ UNCHANGED <<profile, runtime, stored, pool, rule>> /\ Quiet

(* A profile is enabled, where its secrets are there, or disabled, whoever  *)
(* refers to it.                                                            *)
SwitchProfile(p) ==
    /\ Spend("edit")
    /\ p \notin profile => References[p] \subseteq stored
    /\ profile' = IF p \in profile THEN profile \ {p} ELSE profile \cup {p}
    /\ UNCHANGED <<runtime, stored, pool, rule, set, loose>> /\ Quiet

(* A runtime that offers a capability is installed or removed.              *)
SwitchRuntime(c) ==
    /\ Spend("host")
    /\ runtime' = IF c \in runtime THEN runtime \ {c} ELSE runtime \cup {c}
    /\ UNCHANGED <<profile, stored, pool, rule, set, loose>> /\ Quiet

(* A secret is saved or deleted, whichever profiles refer to it.            *)
SwitchSecret(n) ==
    /\ Spend("edit")
    /\ stored' = IF n \in stored THEN stored \ {n} ELSE stored \cup {n}
    /\ UNCHANGED <<profile, runtime, pool, rule, set, loose>> /\ Quiet

-----------------------------------------------------------------------------
(* The subscription: four reads, then the observation of the runtimes *)

ReadProfiles ==
    /\ fetch = None /\ Spend("fetch")
    /\ fetch' = [pc |-> "secrets", profile |-> profile]
    /\ UNCHANGED <<rows, document>>

(* load_secret_values_map leaves out what is missing.                       *)
ReadSecrets ==
    /\ fetch # None /\ fetch.pc = "secrets"
    /\ fetch' = [pc |-> "sets", profile |-> fetch.profile, stored |-> stored]
    /\ UNCHANGED <<rows, document, left>>

ReadSets ==
    /\ fetch # None /\ fetch.pc = "sets"
    /\ fetch' = [pc |-> "policy", profile |-> fetch.profile, stored |-> fetch.stored, set |-> set]
    /\ UNCHANGED <<rows, document, left>>

ReadPolicy ==
    /\ fetch # None /\ fetch.pc = "policy"
    /\ LET seen == [profile |-> fetch.profile, runtime |-> runtime, stored |-> fetch.stored,
                    pool |-> pool, rule |-> rule, set |-> fetch.set]
       IN document' = [answer |-> Generate(seen),
                       torn   |-> {s \in Slugs : fetch.set[s] # set[s]}, loose |-> loose]
    /\ fetch' = None
    /\ UNCHANGED <<rows, left>>

-----------------------------------------------------------------------------
PoolRow == [on : BOOLEAN, members : Members]
RuleRow == [on : BOOLEAN, line : Lines, target : Targets]
SetRow  == [on : BOOLEAN, lines : SUBSET Lines, target : Targets]

(* What the tables come to hold: a selector was sent by a form, or is the   *)
(* pool that took the place of another.                                     *)
Moves    == {PoolOf(i) : i \in Pools}
PoolKept == [on : BOOLEAN, members : SUBSET ((UNION Members) \cup Moves)]
RuleKept == [on : BOOLEAN, line : Lines, target : Targets \cup Moves]
SetKept  == [on : BOOLEAN, lines : SUBSET Lines, target : Targets \cup Moves]

TargetKinds == {"profile", "capability", "role", "pool"}
MemberKinds == TargetKinds \cup {"but"}
Selectors(ms, kinds) == \A m \in ms : m = Direct \/ (m[1] \in kinds /\ m = <<m[1], m[2]>>)

ASSUME ClientDocumentsAssumption ==
    /\ BuiltIn \subseteq Pools
    /\ Lines \subseteq Line
    /\ DOMAIN Capability = Profiles /\ DOMAIN Role = Profiles /\ DOMAIN References = Profiles
    /\ Selectors(UNION Members, MemberKinds)
    /\ Selectors(Targets, TargetKinds)
    /\ Listed \in Seq(Profiles) /\ Rules \in Seq(RuleIds) /\ Sets \in Seq(Slugs)

(* An installation starts with a policy that validates and with rule sets   *)
(* that passed their form.                                                  *)
ASSUME StartsAssumption ==
    \A start \in Starts :
        /\ start.profile \subseteq Profiles
        /\ start.pool \in [Pools -> PoolKept \cup {None}]
        /\ start.rule \in [RuleIds -> RuleKept \cup {None}]
        /\ start.set \in [Slugs -> SetKept \cup {None}]
        /\ start.left \in [Kinds -> Nat]
        /\ Valid(start.pool, start.rule, start.profile)
        /\ \A s \in Slugs : start.set[s] # None => SetTarget(start.set[s].target, start.pool)

ASSUME NoneIsNoRow == None \notin PoolKept \cup RuleKept \cup SetKept

DocumentsInit ==
    /\ \E i \in Starts :
          /\ profile = i.profile /\ pool = i.pool /\ rule = i.rule /\ set = i.set
          /\ left = i.left
    /\ runtime = {Capability[p] : p \in Profiles}
    /\ stored = SecretNames
    /\ fetch = None /\ document = None /\ loose = {}

DocumentsNext ==
    \/ \E i \in Pools : \E new \in PoolRow : SavePool(i, new)
    \/ \E i, to \in Pools : DeletePool(i, to)
    \/ \E r \in RuleIds : DeleteRule(r) \/ \E new \in RuleRow : SaveRule(r, new)
    \/ \E s \in Slugs : \E new \in SetRow : SaveSet(s, new)
    \/ \E p \in Profiles : SwitchProfile(p) \/ SwitchRuntime(Capability[p])
    \/ \E n \in SecretNames : SwitchSecret(n)
    \/ ReadProfiles \/ ReadSecrets \/ ReadSets \/ ReadPolicy

DocumentsSpec == DocumentsInit /\ [][DocumentsNext]_documentVars

-----------------------------------------------------------------------------
(* Properties *)

(* DocumentIsClosed: a document that is served mentions no group or proxy   *)
(* that it does not have (a client refuses such a document), although the   *)
(* tables were read one by one and generate checks the policy only.  Not so *)
(* for rule sets that changed between the reads, that lost their pool to a  *)
(* switch or that name a built-in target nobody created.                    *)
DocumentIsClosed ==
    document # None /\ document.answer.status = "served" =>
        LET doc == document.answer IN
        /\ \A i \in DOMAIN doc.groups : doc.groups[i] \subseteq Names(doc)
        /\ \A k \in DOMAIN doc.rules :
              \/ doc.rules[k] \in Names(doc)
              \/ IsSet(k) /\ (\/ From(k) \in document.torn \/ From(k) \in document.loose
                              \/ doc.rules[k][2] \in BuiltIn)

(* InspectionIsSound: where the page says which path definitely matches a   *)
(* domain, a client with the document of this moment sends the domain to    *)
(* the target the page names.  The page resolves selectors over enabled     *)
(* profiles, the document over those with an installed runtime.             *)
InspectionIsSound ==
    LET doc == Generate(Now)
        paths == Topology(Now)
    IN  doc.status = "served" =>
            \A d \in Domains :
                LET seen == Inspect(paths, d)
                IN  seen.outcome = "matched" => Route(Now, doc, d) = seen.path.target

(* What the page does not look at, but the generation does: a profile       *)
(* without an installed runtime, one whose secret was deleted, a pool that  *)
(* no profile is in.                                                        *)
Unseen(w) ==
    \/ Available(w) # w.profile \/ Available(w) = {}
    \/ \E p \in Available(w) : ~Rendered(w, p)
    \/ \E i \in EnabledPools(w.pool) : Resolve(w.pool[i].members, Available(w)) = {}

(* PageForetells: where every profile can be rendered and every pool has    *)
(* somebody in it, a policy for which the page shows nothing unresolved is  *)
(* one that clients are served, and whose document is closed.               *)
PageForetells ==
    Issues(Now) = {} /\ ~Unseen(Now) =>
        LET doc == Generate(Now) IN
        doc.status = "served" /\ \A k \in DOMAIN doc.rules : doc.rules[k] \in Names(doc)

(* PageIsSound: both halves of what the page of the topology claims, for    *)
(* a domain and for the whole policy.                                       *)
PageIsSound == InspectionIsSound /\ PageForetells
=============================================================================
