------------------------------- MODULE Routing -------------------------------
(***************************************************************************)
(* What the panel routes clients by: the client policy (transport pools    *)
(* and inline rules), the rule sets with their entries and remote sources  *)
(* (storage.rs, policy.rs, rules.rs, the forms of main.rs), and the worker *)
(* that refreshes the sources over the network (rule_sources.rs).          *)
(*                                                                         *)
(* Every form reads and validates outside the transaction that writes, and *)
(* no lock is held in between.  A pool keeps whether it is enabled and     *)
(* what it refers to (members and fallback_pool alike); "leaf" stands for  *)
(* members that are no pool.  One inline rule stands for the list of them. *)
(* The generation every policy save commits is ControlPlane's.             *)
(***************************************************************************)
EXTENDS Integers, FiniteSets

CONSTANTS
    Pools,      \* IDs of transport pools
    BuiltIn,    \* those that is_valid_routing_target accepts unseen
    Sets,       \* slugs of rule sets
    Custom,     \* the slug custom-direct
    Entries,    \* IDs of rule entries, never used twice
    Sources,    \* IDs of rule sources, never used twice
    Values,     \* rules
    Urls,       \* addresses of remote lists
    Dated,      \* those that send Last-Modified and no ETag
    Handlers,   \* requests of administrators
    Scheduler,  \* the task of spawn_checker
    References, \* what a pool may be edited to refer to
    Scenarios,  \* an installation to start with and how often each bounded
                \* kind of event may happen to it
    None,       \* no row, no request, no payload
    Gone        \* a row that was deleted

Kinds == {"policy", "set", "source", "publish", "failure"}

ASSUME RoutingAssumption ==
    /\ BuiltIn \subseteq Pools /\ Dated \subseteq Urls
    /\ Custom \in Sets
    /\ Scheduler \notin Handlers
    /\ References \subseteq SUBSET (Pools \cup {"leaf"})
    /\ "leaf" \notin Pools /\ "DIRECT" \notin Pools /\ None \notin Pools
    /\ None # Gone

VARIABLES
    pool,      \* client_transport_pools and their members
    rule,      \* client_routing_rules
    set,       \* routing_rule_sets
    entry,     \* routing_rule_entries
    source,    \* routing_rule_sources
    content,   \* per address: the date of what it serves
    job,       \* per handler and for the scheduler: what it is doing
    queue,     \* sources the scheduler has yet to refresh in this pass
    left,      \* what is left of the budget
    raced,     \* history: sets written after what was read for it changed,
               \* and their copies
    unchecked  \* history: the policy was saved unvalidated, from a load in
               \* two halves or from such a policy; the next validated form
               \* puts an end to it

policy == <<pool, rule>>
lists  == <<entry, source>>
vars == <<pool, rule, set, entry, source, content, job, queue, left, raced, unchecked>>

-----------------------------------------------------------------------------
(* Data *)

Workers == Handlers \cup {Scheduler}
Targets == Pools \cup {"DIRECT"}
Pool    == [on : BOOLEAN, members : SUBSET (Pools \cup {"leaf"})]
Rule    == [on : BOOLEAN, target : Targets]
Policy  == [pool : [Pools -> Pool \cup {None}], rule : Rule \cup {None}]
Set     == [on : BOOLEAN, target : Targets, raw : BOOLEAN]
Entry   == [set : Sets, on : BOOLEAN, value : Values]
Dates   == 0..9
Payload == [url : Urls, date : Dates]
Source  == [set : Sets, url : Urls, on : BOOLEAN,
            cache : Payload \cup {None}, tag : Payload \cup {None}]

(* NULL, and what is left of a row that was deleted, are no rows.           *)
ASSUME RowsAssumption ==
    {None, Gone} \cap (Pool \cup Set \cup Entry \cup Source \cup Payload
                       \cup (Pools \X Pools) \cup BOOLEAN) = {}

(* A new ID is one that nobody has or is about to write: any, so one.       *)
Fresh(ids, used) == IF ids \subseteq used THEN {} ELSE {CHOOSE i \in ids : i \notin used}

Row(t, i)    == t[i] \notin {None, Gone}
In(t, s)     == {i \in DOMAIN t : Row(t, i) /\ t[i].set = s}
Spend(kind)  == left[kind] > 0 /\ left' = [left EXCEPT ![kind] = @ - 1]
Override(f, g) == [x \in DOMAIN f |-> IF x \in DOMAIN g THEN g[x] ELSE f[x]]

(* compile_rule_set_payload: enabled entries, the raw layer and the caches  *)
(* of enabled sources, empty caches skipped; nothing at all is an error.    *)
Compiles(s, raw, en, so) ==
    \/ raw
    \/ \E e \in In(en, s) : en[e].on
    \/ \E q \in In(so, s) : so[q].on /\ so[q].cache # None

-----------------------------------------------------------------------------
(* The client policy *)

Enabled(p) == {i \in Pools : p.pool[i] # None /\ p.pool[i].on}

Acyclic(p) ==
    \A S \in (SUBSET Enabled(p)) \ {{}} : \E i \in S : p.pool[i].members \cap S = {}

(* ClientPolicy::validate, which every form but one runs before it saves:   *)
(* what pools and rules demand of each other.  Not in here are the profiles *)
(* and capabilities that validate() looks up, and that resolved_pools wants *)
(* every pool to have members left: both depend on the profiles of the      *)
(* moment, which change without the policy; ClientDocuments has them.       *)
Valid(p) ==
    /\ \A i \in Enabled(p) :
          p.pool[i].members # {} /\ p.pool[i].members \ {"leaf"} \subseteq Enabled(p)
    /\ Acyclic(p)
    /\ p.rule # None /\ p.rule.on => p.rule.target \in Enabled(p) \cup {"DIRECT"}

ASSUME ScenariosAssumption ==
    \A i \in Scenarios :
        /\ i.policy \in Policy /\ Valid(i.policy)
        /\ i.home \in Sets /\ i.target \in {"DIRECT"} \cup Enabled(i.policy)
        /\ i.urls \subseteq Urls
        /\ i.left \in [Kinds -> 0..9]

Replaced(t, old, new) == IF t = old THEN new ELSE t

(* replace_pool_references *)
Renamed(p, old, new) ==
    [pool |-> [i \in Pools |->
                 IF p.pool[i] = None THEN None
                 ELSE [p.pool[i] EXCEPT !.members = {Replaced(m, old, new) : m \in @}]],
     rule |-> IF p.rule = None THEN None
              ELSE [p.rule EXCEPT !.target = Replaced(@, old, new)]]

(* Who refers to a pool: pools, rules and rule sets.                        *)
Referenced(p, i) ==
    \/ \E k \in Pools : p.pool[k] # None /\ i \in p.pool[k].members
    \/ p.rule # None /\ p.rule.target = i
    \/ \E s \in Sets : Row(set, s) /\ set[s].target = i

(* The form of a pool: its switch, its members, one line each; kinds,       *)
(* intervals and limits of the pool are left out.                           *)
PostedPools == [on : BOOLEAN, members : References]
PoolForms == [do : {"save pool"}, old : Pools \cup {None}, id : Pools, row : PostedPools]
PolicyForms ==
    PoolForms
    \cup [do : {"delete pool"}, id : Pools, to : Pools \cup {None}]
    \cup [do : {"save rule"}, on : BOOLEAN, target : Targets]
    \cup [do : {"delete rule"}]

-----------------------------------------------------------------------------
(* Requests *)

PolicyJob == [kind : {"policy"}, form : PolicyForms, rows : [Pools -> BOOLEAN \cup {None}],
              save : Policy \cup {None}, moved : (Pools \X Pools) \cup {None},
              torn : BOOLEAN, stale : BOOLEAN]

(* The outcome of the checks of a rule-set form: the row it will write (or  *)
(* Gone, or None when it leaves it alone), entries and sources by ID.       *)
SetJob(entries, sources) ==
    [kind : {"set"}, do : {"insert", "update", "delete", "lists"}, slug : Sets,
     row : Set \cup {None}, entries : entries, sources : sources, stale : BOOLEAN]

Answers == [status : {"same", "failed"}] \cup [status : {"new"}, list : Payload]
RefreshJob == [kind : {"refresh"}, id : Sources, seen : Source,
               answer : {None} \cup Answers]

PolicyRequest(j) == j.kind = "policy" /\ j \in PolicyJob
SetRequest(j) ==
    /\ j.kind = "set" /\ j \in SetJob({j.entries}, {j.sources})
    /\ DOMAIN j.entries \subseteq Entries /\ DOMAIN j.sources \subseteq Sources
    /\ \A e \in DOMAIN j.entries : j.entries[e] \in Entry \cup {Gone}
    /\ \A q \in DOMAIN j.sources : j.sources[q] \in Source \cup {Gone}
Refreshing(j) == j.kind = "refresh" /\ j \in RefreshJob

Idle(h) == job[h] = None
Finish(h) == job' = [job EXCEPT ![h] = None]

(* A commit of h: whoever has read and not yet written has read too early.  *)
FinishAndOutdate(h) ==
    job' = [g \in Workers |->
              IF g = h THEN None
              ELSE IF Idle(g) \/ job[g].kind = "refresh" THEN job[g]
              ELSE [job[g] EXCEPT !.stale = TRUE]]

(* A request fails: an error page, or an error of the database.             *)
Reject(h) ==
    Finish(h) /\ UNCHANGED <<pool, rule, set, entry, source, content, queue, left, raced, unchecked>>

(* load_client_policy, first statement: the rows of the pools.              *)
SubmitPolicy(h) ==
    /\ Idle(h) /\ Spend("policy")
    /\ \E f \in PolicyForms :
          job' = [job EXCEPT ![h] =
                    [kind |-> "policy", form |-> f,
                     rows |-> [i \in Pools |-> IF pool[i] = None THEN None ELSE pool[i].on],
                     save |-> None, moved |-> None, torn |-> FALSE, stale |-> FALSE]]
    /\ UNCHANGED <<pool, rule, set, entry, source, content, queue, raced, unchecked>>

(* The other statements, of the members of those pools and of the rules:    *)
(* the policy that h believes to have loaded.                               *)
Loaded(h) ==
    [pool |-> [i \in Pools |->
                 IF job[h].rows[i] = None THEN None
                 ELSE [on      |-> job[h].rows[i],
                       members |-> IF pool[i] = None THEN {} ELSE pool[i].members]],
     rule |-> rule]

(* The policy h is going to save, and the pair of IDs rule sets follow.     *)
Keep(h, next, moved) ==
    /\ job' = [job EXCEPT ![h].save = next, ![h].moved = moved,
                          ![h].torn = @ \/ job[h].stale \/ unchecked]
    /\ UNCHANGED <<pool, rule, set, entry, source, content, queue, left, raced, unchecked>>

(* A form whose policy was submitted, and is loaded and edited now.         *)
Loading(h, form) ==
    ~Idle(h) /\ job[h].kind = "policy" /\ job[h].form.do = form /\ job[h].save = None

(* Mutant: only the IDs of a pool form are checked.                         *)
SavePoolUnchecked(h) ==
    /\ Loading(h, "save pool")
    /\ LET f == job[h].form
           p == Loaded(h)
           q == IF f.old = None THEN p ELSE Renamed(p, f.old, f.id)
           next == [q EXCEPT !.pool = [i \in Pools |->
                       IF i = f.id THEN f.row
                       ELSE IF i = f.old THEN None ELSE @[i]]]
       IN /\ f.old # None => p.pool[f.old] # None
          /\ f.id # f.old => p.pool[f.id] = None
          /\ Keep(h, next, IF f.old \in {None, f.id} THEN None ELSE <<f.old, f.id>>)

(* upsert_transport_pool_inner: create, edit or rename.                     *)
SavePool(h) ==
    /\ Loading(h, "save pool")
    /\ LET f == job[h].form
           p == Loaded(h)
           q == IF f.old = None THEN p ELSE Renamed(p, f.old, f.id)
           next == [q EXCEPT !.pool = [i \in Pools |->
                       IF i = f.id THEN f.row
                       ELSE IF i = f.old THEN None ELSE @[i]]]
       IN /\ f.old # None => p.pool[f.old] # None
          /\ f.id # f.old => p.pool[f.id] = None
          /\ Valid(next)
          /\ Keep(h, next, IF f.old \in {None, f.id} THEN None ELSE <<f.old, f.id>>)

(* delete_transport_pool_inner: what refers to the pool needs another one.  *)
DeletePool(h) ==
    /\ Loading(h, "delete pool")
    /\ LET f == job[h].form
           p == Loaded(h)
           used == Referenced(p, f.id)
           q == IF used THEN Renamed(p, f.id, f.to) ELSE p
           next == [q EXCEPT !.pool[f.id] = None]
       IN /\ p.pool[f.id] # None
          /\ used => f.to \notin {None, f.id} /\ p.pool[f.to] # None
          /\ Valid(next)
          /\ Keep(h, next, IF used THEN <<f.id, f.to>> ELSE None)

(* upsert_routing_policy_inner                                              *)
SaveRule(h) ==
    /\ Loading(h, "save rule")
    /\ LET f == job[h].form
           next == [Loaded(h) EXCEPT !.rule = [on |-> f.on, target |-> f.target]]
       IN Valid(next) /\ Keep(h, next, None)

(* delete_routing_policy_inner does not validate what it saves.             *)
DeleteRule(h) ==
    /\ Loading(h, "delete rule")
    /\ Loaded(h).rule # None
    /\ Keep(h, [Loaded(h) EXCEPT !.rule = None], None)

(* Mutant: the rule sets do not follow a pool.                              *)
CommitPolicyOnly(h) ==
    /\ ~Idle(h) /\ job[h].kind = "policy" /\ job[h].save # None
    /\ pool' = job[h].save.pool /\ rule' = job[h].save.rule
    /\ raced' = IF job[h].stale THEN Sets ELSE raced
    /\ unchecked' = (job[h].torn /\ job[h].form.do = "delete rule")
    /\ FinishAndOutdate(h)
    /\ UNCHANGED <<set, entry, source, content, queue, left>>

(* save_client_policy: all rows are deleted and written anew, and the rule  *)
(* sets follow a pool that was renamed or replaced.                         *)
CommitPolicy(h) ==
    /\ ~Idle(h) /\ job[h].kind = "policy" /\ job[h].save # None
    /\ pool' = job[h].save.pool /\ rule' = job[h].save.rule
    /\ set' = [s \in Sets |->
                 IF Row(set, s) /\ job[h].moved # None /\ set[s].target = job[h].moved[1]
                 THEN [set[s] EXCEPT !.target = job[h].moved[2]] ELSE set[s]]
    /\ raced' = IF job[h].stale THEN Sets ELSE raced
    /\ unchecked' = (job[h].torn /\ job[h].form.do = "delete rule")
    /\ FinishAndOutdate(h)
    /\ UNCHANGED <<entry, source, content, queue, left>>

-----------------------------------------------------------------------------
(* Rule sets *)

NoRows == [i \in {} |-> None]

(* A rule-set form of h passed its checks; late: of what it may not trust.  *)
Checked(h, late, kind, do, s, row, entries, sources) ==
    /\ Idle(h) /\ Spend(kind)
    /\ job' = [job EXCEPT ![h] = [kind |-> "set", do |-> do, slug |-> s, row |-> row,
                  entries |-> entries, sources |-> sources, stale |-> late]]
    /\ UNCHANGED <<pool, rule, set, entry, source, content, queue, raced, unchecked>>

Prepare(h, kind, do, s, row, entries, sources) ==
    Checked(h, FALSE, kind, do, s, row, entries, sources)

(* validate_rule_set_metadata                                               *)
TargetAllowed(s, t) ==
    /\ s = Custom => t = "DIRECT"
    /\ t \in {"DIRECT"} \cup BuiltIn \cup Enabled([pool |-> pool, rule |-> rule])

(* The check that entry and source forms make of an enabled set: what they  *)
(* are about to write leaves it something to compile.                       *)
StaysFilled(s, entries, sources) ==
    set[s].on => Compiles(s, set[s].raw, Override(entry, entries), Override(source, sources))

(* update_routing_rule_action, the form of custom-direct: an empty payload  *)
(* disables the set; for other sets the payload cannot be empty.            *)
UpdateForms ==
    {f \in [slug : Sets, row : Set] :
        IF f.slug = Custom THEN f.row.on = f.row.raw /\ f.row.target = "DIRECT"
        ELSE f.row.raw}

(* update_routing_rule_set_inner                                            *)
UpdateSet(h) ==
    \E f \in UpdateForms :
        /\ TargetAllowed(f.slug, f.row.target)
        /\ Prepare(h, "set", "update", f.slug, f.row, NoRows, NoRows)

(* save_routing_rule_set_inner                                              *)
SaveSet(h) ==
    \E s \in Sets, on, raw \in BOOLEAN, t \in Targets :
        /\ TargetAllowed(s, t)
        /\ on => Compiles(s, raw, entry, source)
        /\ Prepare(h, "set", "update", s, [on |-> on, target |-> t, raw |-> raw], NoRows, NoRows)

(* create_routing_rule_set_inner                                            *)
CreateSet(h) ==
    \E s \in Sets, on, raw \in BOOLEAN, t \in Targets :
        /\ TargetAllowed(s, t)
        /\ on => raw
        /\ Prepare(h, "set", "insert", s, [on |-> on, target |-> t, raw |-> raw], NoRows, NoRows)

(* delete_routing_rule_set_inner                                            *)
DeleteSet(h) ==
    \E s \in Sets \ {Custom} : Prepare(h, "set", "delete", s, None, NoRows, NoRows)

(* IDs that a row has or had, or that a request is about to insert.         *)
SetJobs == {job[h] : h \in {h \in Handlers : ~Idle(h) /\ job[h].kind = "set"}}
UsedEntries == {e \in Entries : entry[e] # None \/ \E j \in SetJobs : e \in DOMAIN j.entries}
UsedSources == {q \in Sources : source[q] # None \/ \E j \in SetJobs : q \in DOMAIN j.sources}

(* IDs a page can hold, of rows that may have been deleted since.           *)
KnownEntries == {e \in Entries : entry[e] # None}
KnownSources == {q \in Sources : source[q] # None}

Injections(S, T) == {f \in [S -> T] : \A x, y \in S : f[x] = f[y] => x = y}

(* The rows of one set under the new IDs, as rows of another set.           *)
Copies(t, s, r, ids) ==
    [i \in {ids[x] : x \in In(t, s)} |->
        [t[CHOOSE x \in In(t, s) : ids[x] = i] EXCEPT !.set = r]]

(* clone_routing_rule_set_inner copies what was read before it began, and   *)
(* does not compile it: what overlapping forms left of a set is copied too. *)
CloneSet(h) ==
    \E s, r \in Sets :
        /\ Row(set, s) /\ TargetAllowed(r, set[s].target)
        /\ \E ie \in Injections(In(entry, s), Entries \ UsedEntries),
              is \in Injections(In(source, s), Sources \ UsedSources) :
              Checked(h, s \in raced, "set", "insert", r, set[s],
                      Copies(entry, s, r, ie), Copies(source, s, r, is))

One(i, row) == [x \in {i} |-> row]

(* upsert_rule_entry_inner; the page sends the set of a row along with it.  *)
PutEntry(h) ==
    \E e \in KnownEntries \cup Fresh(Entries, UsedEntries), new \in Entry :
        /\ Row(entry, e) => new.set = entry[e].set
        /\ Row(set, new.set) /\ StaysFilled(new.set, One(e, new), NoRows)
        /\ Prepare(h, "set", "lists", new.set, None, One(e, new), NoRows)

(* delete_rule_entry_inner                                                  *)
DropEntry(h) ==
    \E e \in Entries :
        /\ Row(entry, e) /\ StaysFilled(entry[e].set, One(e, Gone), NoRows)
        /\ Prepare(h, "set", "lists", entry[e].set, None, One(e, Gone), NoRows)

(* bulk_add_rule_entries_inner with one line: a rule the set has already,   *)
(* enabled or not, is skipped.                                              *)
BulkAdd(h) ==
    \E s \in Sets, v \in Values, e \in Fresh(Entries, UsedEntries) :
        LET new == IF \E x \in In(entry, s) : entry[x].value = v THEN NoRows
                   ELSE One(e, [set |-> s, on |-> TRUE, value |-> v])
        IN /\ Row(set, s) /\ StaysFilled(s, new, NoRows)
           /\ Prepare(h, "set", "lists", s, None, new, NoRows)

(* deduplicate_rule_entries_inner keeps the first of each rule, whatever    *)
(* its state; the priorities decide which one is first.                     *)
Deduplicate(h) ==
    \E s \in Sets, keep \in SUBSET Entries :
        LET drop == [e \in In(entry, s) \ keep |-> Gone]
        IN /\ Row(set, s) /\ keep \subseteq In(entry, s)
           /\ \A e \in In(entry, s) :
                 Cardinality({k \in keep : entry[k].value = entry[e].value}) = 1
           /\ StaysFilled(s, drop, NoRows)
           /\ Prepare(h, "set", "lists", s, None, drop, NoRows)

(* ON CONFLICT(id) DO UPDATE leaves the cache and the validators alone.     *)
Merged(q, new) ==
    IF new = Gone \/ ~Row(source, q) THEN new
    ELSE [new EXCEPT !.cache = source[q].cache, !.tag = source[q].tag]

(* upsert_rule_source_inner: a row that exists keeps its cache and its      *)
(* validators, also for another address.                                    *)
PutSource(h) ==
    \E q \in KnownSources \cup Fresh(Sources, UsedSources), s \in Sets, u \in Urls, on \in BOOLEAN :
        LET new == [set |-> s, url |-> u, on |-> on, cache |-> None, tag |-> None]
        IN /\ Row(source, q) => s = source[q].set
           /\ Row(set, s) /\ StaysFilled(s, NoRows, One(q, Merged(q, new)))
           /\ Prepare(h, "source", "lists", s, None, NoRows, One(q, new))

(* delete_rule_source_inner                                                 *)
DropSource(h) ==
    \E q \in Sources :
        /\ Row(source, q) /\ StaysFilled(source[q].set, NoRows, One(q, Gone))
        /\ Prepare(h, "source", "lists", source[q].set, None, NoRows, One(q, Gone))

Cascade(t, s) == [i \in DOMAIN t |-> IF i \in In(t, s) THEN Gone ELSE t[i]]

(* The sets that a commit of h takes rows from, or gives rows to.           *)
Of(t, rows) == {t[i].set : i \in {i \in DOMAIN rows : Row(t, i)}}
Touched(j)  == {j.slug} \cup Of(entry, j.entries) \cup Of(source, j.sources)

(* The transaction of a rule-set form.  An UPDATE or DELETE of a set that   *)
(* finds no row, an INSERT that finds one and a row whose set is gone are   *)
(* errors; deleting a list row that is gone already changes nothing.        *)
CommitSet(h) ==
    /\ ~Idle(h) /\ job[h].kind = "set"
    /\ LET j == job[h] IN
       /\ IF j.do = "insert" THEN ~Row(set, j.slug) ELSE Row(set, j.slug)
       /\ set' = CASE j.do \in {"insert", "update"} -> [set EXCEPT ![j.slug] = j.row]
                   [] j.do = "delete" -> [set EXCEPT ![j.slug] = None]
                   [] OTHER -> set
       /\ entry' = IF j.do = "delete" THEN Cascade(entry, j.slug) ELSE Override(entry, j.entries)
       /\ source' = IF j.do = "delete" THEN Cascade(source, j.slug)
                    ELSE Override(source, [q \in DOMAIN j.sources |-> Merged(q, j.sources[q])])
       /\ raced' = IF j.stale THEN raced \cup Touched(j) ELSE raced
    /\ FinishAndOutdate(h)
    /\ UNCHANGED <<pool, rule, content, queue, left, unchecked>>

-----------------------------------------------------------------------------
(* Remote sources *)

(* get_rule_source: refresh_inner remembers the whole row it read.          *)
Begin(w, q) ==
    /\ Idle(w) /\ Row(source, q)
    /\ job' = [job EXCEPT ![w] = [kind |-> "refresh", id |-> q, seen |-> source[q], answer |-> None]]
    /\ UNCHANGED <<pool, rule, set, entry, source, content, raced, unchecked>>

(* A server compares an ETag, or else a Last-Modified date, with its own.   *)
NotModified(tag, url) ==
    /\ tag # None
    /\ IF tag.url \in Dated THEN content[url] <= tag.date
       ELSE url \notin Dated /\ tag = [url |-> url, date |-> content[url]]

Fetching(w) == ~Idle(w) /\ job[w].kind = "refresh" /\ job[w].answer = None

(* fetch(): the address and the validators are those of the row it read.    *)
Fetch(w) ==
    /\ Fetching(w)
    /\ LET seen == job[w].seen
       IN job' = [job EXCEPT ![w].answer =
                    IF NotModified(seen.tag, seen.url) THEN [status |-> "same"]
                    ELSE [status |-> "new",
                          list   |-> [url |-> seen.url, date |-> content[seen.url]]]]
    /\ UNCHANGED <<pool, rule, set, entry, source, content, queue, left, raced, unchecked>>

(* The network, a redirect, a limit or the parser refuses.                  *)
FetchFails(w) ==
    /\ Fetching(w) /\ Spend("failure")
    /\ job' = [job EXCEPT ![w].answer = [status |-> "failed"]]
    /\ UNCHANGED <<pool, rule, set, entry, source, content, queue, raced, unchecked>>

(* Mutant: after a 304 the payload is written back, the validators are not. *)
WriteBackPayload(w) ==
    /\ ~Idle(w) /\ job[w].kind = "refresh" /\ job[w].answer # None
    /\ LET q == job[w].id
           a == job[w].answer
           cache == IF a.status = "same" THEN job[w].seen.cache ELSE a.list
       IN source' = IF a.status = "failed" \/ ~Row(source, q) THEN source
                    ELSE [source EXCEPT ![q].cache = cache,
                                        ![q].tag = IF a.status = "same" THEN @ ELSE a.list]
    /\ Finish(w)
    /\ UNCHANGED <<pool, rule, set, entry, content, queue, left, raced, unchecked>>

(* update_rule_source_success writes payload and validators together, after *)
(* a 304 those it read earlier; update_rule_source_error only the message.  *)
WriteBack(w) ==
    /\ ~Idle(w) /\ job[w].kind = "refresh" /\ job[w].answer # None
    /\ LET q == job[w].id
           a == job[w].answer
           cache == IF a.status = "same" THEN job[w].seen.cache ELSE a.list
           tag   == IF a.status = "same" THEN job[w].seen.tag ELSE a.list
       IN source' = IF a.status = "failed" \/ ~Row(source, q) THEN source
                    ELSE [source EXCEPT ![q].cache = cache, ![q].tag = tag]
    /\ Finish(w)
    /\ UNCHANGED <<pool, rule, set, entry, content, queue, left, raced, unchecked>>

(* spawn_checker: a pass over the sources that source_is_due lets through;  *)
(* a source that was never fetched always is.                               *)
On == {q \in Sources : Row(source, q) /\ source[q].on}
Pass(Q) ==
    /\ Idle(Scheduler) /\ queue = {} /\ Q # {} /\ Q \subseteq On
    /\ \A q \in On : source[q].cache = None => q \in Q
    /\ queue' = Q
    /\ UNCHANGED <<pool, rule, set, entry, source, content, job, left, raced, unchecked>>

(* The next source of the pass; one that was deleted since is skipped.      *)
NextSource ==
    \E q \in queue :
        /\ Idle(Scheduler) /\ queue' = queue \ {q}
        /\ UNCHANGED left
        /\ \/ Begin(Scheduler, q)
           \/ ~Row(source, q) /\ UNCHANGED <<pool, rule, set, entry, source, content,
                                              job, raced, unchecked>>

(* The button "Refresh" of the page.                                        *)
AskRefresh(h) ==
    /\ Spend("source")
    /\ \E q \in Sources : Begin(h, q)
    /\ UNCHANGED queue

(* A server publishes another list at the same address.                     *)
Publish(u) ==
    /\ Spend("publish")
    /\ content' = [content EXCEPT ![u] = @ + 1]
    /\ UNCHANGED <<pool, rule, set, entry, source, job, queue, raced, unchecked>>

-----------------------------------------------------------------------------
(* Init: an installation with one filled rule set, custom-direct among the  *)
(* two, and a policy that was saved before.                                 *)
Init ==
    /\ \E i \in Scenarios :
          /\ pool = i.policy.pool /\ rule = i.policy.rule
          /\ set = [s \in Sets |->
                      IF s = i.home THEN [on |-> TRUE, target |-> i.target, raw |-> FALSE]
                      ELSE IF s = Custom THEN [on |-> FALSE, target |-> "DIRECT", raw |-> FALSE]
                      ELSE None]
          /\ \E e \in Fresh(Entries, {}), v \in Values :
                entry = [x \in Entries |->
                           IF x = e THEN [set |-> i.home, on |-> TRUE, value |-> v] ELSE None]
          /\ \E q \in Fresh(Sources, {}) :
                source \in IF i.urls = {} THEN {[x \in Sources |-> None]}
                           ELSE {[x \in Sources |->
                                    IF x = q THEN [set |-> i.home, url |-> u, on |-> TRUE,
                                                   cache |-> None, tag |-> None]
                                    ELSE None] : u \in i.urls}
          /\ left = i.left
    /\ content = [u \in Urls |-> 0]
    /\ job = [w \in Workers |-> None]
    /\ queue = {}
    /\ raced = {} /\ unchecked = FALSE

PolicyForm(h) ==
    \/ SubmitPolicy(h) \/ SavePool(h) \/ DeletePool(h) \/ SaveRule(h) \/ DeleteRule(h)
    \/ CommitPolicy(h)

SetForm(h) ==
    \/ UpdateSet(h) \/ SaveSet(h) \/ CreateSet(h) \/ DeleteSet(h) \/ CloneSet(h)
    \/ PutEntry(h) \/ DropEntry(h) \/ BulkAdd(h) \/ Deduplicate(h)
    \/ PutSource(h) \/ DropSource(h) \/ CommitSet(h)

Refresh(w) == Fetch(w) \/ FetchFails(w) \/ WriteBack(w)

Next ==
    \/ \E h \in Handlers : PolicyForm(h) \/ SetForm(h) \/ AskRefresh(h)
    \/ \E h \in Handlers : ~Idle(h) /\ job[h].kind # "refresh" /\ Reject(h)
    \/ \E w \in Workers : Refresh(w)
    \/ NextSource
    \/ \E Q \in SUBSET Sources : Pass(Q)
    \/ \E u \in Urls : Publish(u)

Spec == Init /\ [][Next]_vars

(* The scheduler runs, and a source whose interval has passed is due in one *)
(* pass after the other; requests of administrators may hang.               *)
FairSpec ==
    /\ Spec
    /\ WF_vars(NextSource)
    /\ WF_vars(Fetch(Scheduler) \/ WriteBack(Scheduler))
    /\ SF_vars(Pass(On))

-----------------------------------------------------------------------------
(* Properties *)

(* Every row and every request has its shape: the code reads the tables     *)
(* back into these structures.                                              *)
TypeOK ==
    /\ [pool |-> pool, rule |-> rule] \in Policy
    /\ set \in [Sets -> Set \cup {None}]
    /\ entry \in [Entries -> Entry \cup {None, Gone}]
    /\ source \in [Sources -> Source \cup {None, Gone}]
    /\ content \in [Urls -> Dates]
    /\ \A h \in Handlers :
          Idle(h) \/ PolicyRequest(job[h]) \/ SetRequest(job[h]) \/ Refreshing(job[h])
    /\ Idle(Scheduler) \/ Refreshing(job[Scheduler])
    /\ queue \subseteq Sources
    /\ left \in [Kinds -> 0..9]
    /\ raced \subseteq Sets /\ unchecked \in BOOLEAN

(* The pools and rules at rest satisfy each other as validate() demands:    *)
(* enabled pools have members, refer only to enabled pools and in no circle, *)
(* and an enabled rule leads to an enabled pool, whatever forms overlap and  *)
(* whichever half of a policy they loaded.  Deleting a rule validates        *)
(* nothing: done while another save falls between the two halves of its      *)
(* load, or of a policy that was left so, it may break this (unchecked); no  *)
(* later form saves anything until it is mended.                             *)
PolicyHolds == unchecked \/ Valid([pool |-> pool, rule |-> rule])

(* An enabled rule set has something to compile, or rule_provider answers   *)
(* with an error, and its target exists, or no client loads the RULE-SET    *)
(* line; except for forms that overlapped another save of what they read,   *)
(* (their sets and copies of those), and for targets accepted unseen.       *)
SetsAreServable ==
    \A s \in Sets \ raced :
        Row(set, s) /\ set[s].on =>
            /\ Compiles(s, set[s].raw, entry, source)
            /\ set[s].target \in {"DIRECT"} \cup BuiltIn \cup {i \in Pools : pool[i] # None}

(* A list brought by a date from an address that the source left.           *)
Misled(q) ==
    source[q].tag # None /\ source[q].tag.url \in Dated \ {source[q].url}

(* Once edits, publications and failures are over, the cache of an enabled  *)
(* source is what its address serves, whatever stale answers were written   *)
(* back meanwhile: payload and validators are written together, so a later  *)
(* pass finds out (refresh_inner).  Not so for a date of another address.   *)
SourceConverges ==
    <>[](\A q \in Sources : Row(source, q) /\ source[q].on /\ ~Misled(q)
            => source[q].cache = [url |-> source[q].url, date |-> content[source[q].url]])

=============================================================================
