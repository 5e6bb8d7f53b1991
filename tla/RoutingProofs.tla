---------------------------- MODULE RoutingProofs ----------------------------
(***************************************************************************)
(* Proofs about module Routing: what it is that a request which nobody     *)
(* overtook may rely on, and why saved policies validate and rule sets can *)
(* be served.  The conditions are stated of explicit tables, so that a     *)
(* step that leaves the tables alone leaves them alone.                    *)
(***************************************************************************)
EXTENDS Routing, TLAPS

-----------------------------------------------------------------------------
(* The inductive invariant *)

(* A source with validators has a payload, in the table and wherever a row  *)
(* of it was read to or is about to be written from.                        *)
Sound(row) == row.tag # None => row.cache # None
RowsSound  == \A q \in Sources : Row(source, q) => Sound(source[q])
AnswerSound(j) ==
    Sound(j.seen) /\ (j.answer # None /\ j.answer.status = "same" => j.seen.tag # None)

(* The rows that a set request writes are of its set.                       *)
WritesItsSet(j) ==
    /\ \A e \in DOMAIN j.entries : j.entries[e] # Gone => j.entries[e].set = j.slug
    /\ \A q \in DOMAIN j.sources :
          j.sources[q] # Gone => j.sources[q].set = j.slug /\ Sound(j.sources[q])

(* The rows of a table that are written are of set s, or new.               *)
Owned(t, rows, s) == \A i \in DOMAIN rows : Row(t, i) => t[i].set = s

(* The sources after those rows are merged into them.                       *)
Merge(so, q, new) ==
    IF new = Gone \/ ~Row(so, q) THEN new
    ELSE [new EXCEPT !.cache = so[q].cache, !.tag = so[q].tag]
MergeAll(so, rows) == Override(so, [q \in DOMAIN rows |-> Merge(so, q, rows[q])])

(* Where a client can be sent by a policy with the pools pl.                *)
Reaches(pl, target) == target \in {"DIRECT"} \cup BuiltIn \cup {i \in Pools : pl[i] # None}

(* What a set request that nobody overtook will leave of its set.           *)
SetFits(j, pl, st, en, so) ==
    /\ Owned(en, j.entries, j.slug) /\ Owned(so, j.sources, j.slug)
    /\ j.do \in {"insert", "update"} /\ j.row.on =>
           /\ Compiles(j.slug, j.row.raw, Override(en, j.entries), MergeAll(so, j.sources))
           /\ Reaches(pl, j.row.target)
    /\ j.do = "lists" /\ st[j.slug].on =>
           Compiles(j.slug, st[j.slug].raw, Override(en, j.entries), MergeAll(so, j.sources))

(* The rule sets as a commit of the policy request j moves them still have  *)
(* their targets.                                                           *)
MovedTarget(m, target) == IF m # None /\ target = m[1] THEN m[2] ELSE target
SetsFollow(j, st, rc) ==
    \A s \in Sets \ rc :
        Row(st, s) /\ st[s].on => Reaches(j.save.pool, MovedTarget(j.moved, st[s].target))

(* What was loaded is what there is unless somebody overtook the request,   *)
(* and what will be saved validates unless it was loaded in two halves and  *)
(* is not checked.                                                          *)
PolicyFits(j, pl, st, rc) ==
    /\ j.save = None /\ ~j.stale =>
           j.rows = [i \in Pools |-> IF pl[i] = None THEN None ELSE pl[i].on]
    /\ j.save # None => Valid(j.save) \/ (j.torn /\ j.form.do = "delete rule")
    /\ j.save # None /\ ~j.stale => SetsFollow(j, st, rc)

JobFits(w, j, pl, st, en, so, rc) ==
    \/ j = None
    \/ w \in Handlers /\ PolicyRequest(j) /\ PolicyFits(j, pl, st, rc)
    \/ /\ w \in Handlers /\ SetRequest(j) /\ WritesItsSet(j)
       /\ ~j.stale => SetFits(j, pl, st, en, so)
    \/ Refreshing(j) /\ AnswerSound(j)

JobOK(w, j) == JobFits(w, j, pool, set, entry, source, raced)

JobsOK ==
    /\ job = [w \in Workers |-> job[w]]
    /\ \A w \in Workers : JobOK(w, job[w])

(* No publication is beyond the dates.                                      *)
DatesLeft == \A u \in Urls : content[u] + left["publish"] <= 9

IInv ==
    /\ TypeOK /\ JobsOK
    /\ DatesLeft /\ RowsSound
    /\ PolicyHolds /\ SetsAreServable

-----------------------------------------------------------------------------
(* Facts about the constants and about requests *)

(* None and Gone are no rows, no policies' pools and no switches.           *)
LEMMA NoRow ==
    /\ \A x \in Pool \cup Set \cup Entry \cup Source : x # None /\ x # Gone
    /\ \A x \in Payload : x # None
    /\ \A a, b \in Pools : <<a, b>> # None
    /\ \A x \in BOOLEAN : x # None
    /\ "leaf" \notin Pools /\ "DIRECT" \notin Pools /\ None \notin Pools /\ None # Gone
    /\ Scheduler \notin Handlers
<1>1. \A x \in Pool \cup Set \cup Entry \cup Source \cup Payload \cup (Pools \X Pools) \cup BOOLEAN :
         x # None /\ x # Gone
  BY RowsAssumption, Zenon DEF RowsAssumption
<1>2. \A a, b \in Pools : <<a, b>> \in Pools \X Pools
  OBVIOUS
<1>3. /\ "leaf" \notin Pools /\ "DIRECT" \notin Pools /\ None \notin Pools /\ None # Gone
      /\ Scheduler \notin Handlers
  BY RoutingAssumption DEF RoutingAssumption
<1> QED
  BY <1>1, <1>2, <1>3, Zenon

(* A request is of one kind.                                                *)
LEMMA KindOf ==
    ASSUME NEW w, NEW j, JobOK(w, j), j # None
    PROVE  /\ j.kind = "policy" => w \in Handlers /\ PolicyRequest(j)
                                   /\ PolicyFits(j, pool, set, raced)
           /\ j.kind = "set" => w \in Handlers /\ SetRequest(j) /\ WritesItsSet(j)
                                /\ (~j.stale => SetFits(j, pool, set, entry, source))
           /\ j.kind = "refresh" => Refreshing(j) /\ AnswerSound(j)
           /\ j.kind \in {"policy", "set", "refresh"}
BY DEF JobFits, JobOK, PolicyRequest, SetRequest, Refreshing

(* The types of the requests follow from what is known of them.             *)
LEMMA JobsTyped ==
    ASSUME JobsOK
    PROVE  /\ \A h \in Handlers :
                  Idle(h) \/ PolicyRequest(job[h]) \/ SetRequest(job[h]) \/ Refreshing(job[h])
           /\ Idle(Scheduler) \/ Refreshing(job[Scheduler])
<1>1. Scheduler \notin Handlers
  BY NoRow
<1> QED
  BY <1>1 DEF JobsOK, JobFits, JobOK, Idle, Workers

(* A step that leaves the tables alone, and gives a worker at most a job    *)
(* that is in order.                                                        *)
LEMMA Framed ==
    ASSUME IInv, UNCHANGED <<pool, rule, set, entry, source, raced, unchecked>>,
           job' = [w \in Workers |-> job'[w]],
           \A w \in Workers : job'[w] = job[w] \/ JobOK(w, job'[w]),
           content' \in [Urls -> Dates], queue' \subseteq Sources,
           left' \in [Kinds -> 0..9], DatesLeft'
    PROVE  IInv'
<1>1. JobsOK'
  BY DEF IInv, JobsOK, JobFits, JobOK
<1>2. TypeOK'
  <2>1. /\ \A h \in Handlers :
               Idle(h)' \/ PolicyRequest(job'[h]) \/ SetRequest(job'[h]) \/ Refreshing(job'[h])
        /\ Idle(Scheduler)' \/ Refreshing(job'[Scheduler])
    <3>1. Scheduler \notin Handlers
      BY NoRow
    <3> QED
      BY <1>1, <3>1 DEF JobsOK, JobFits, JobOK, Idle, Workers
  <2> QED
    BY <2>1 DEF IInv, TypeOK
<1>3. RowsSound' /\ PolicyHolds' /\ SetsAreServable'
  BY DEF IInv, RowsSound, PolicyHolds, SetsAreServable, Row
<1> QED
  BY <1>1, <1>2, <1>3 DEF IInv

(* The same for one worker.                                                 *)
LEMMA OneJob ==
    ASSUME IInv, NEW w \in Workers, NEW j, JobOK(w, j), job' = [job EXCEPT ![w] = j],
           UNCHANGED <<pool, rule, set, entry, source, raced, unchecked>>,
           content' = content, queue' \subseteq Sources,
           left' = left \/ \E kind \in Kinds : Spend(kind)
    PROVE  IInv'
<1>1. job' = [v \in Workers |-> job'[v]] /\ \A v \in Workers : job'[v] = job[v] \/ JobOK(v, job'[v])
  BY DEF IInv, JobsOK
<1>2. left' \in [Kinds -> 0..9] /\ left'["publish"] <= left["publish"]
  BY DEF IInv, TypeOK, Kinds, Spend
<1>3. content' \in [Urls -> Dates] /\ DatesLeft'
  BY <1>2 DEF IInv, TypeOK, DatesLeft, Dates, Kinds
<1> QED
  BY <1>1, <1>2, <1>3, Framed

(* The shape of the tables.                                                 *)
LEMMA Shapes ==
    ASSUME IInv
    PROVE  /\ pool \in [Pools -> Pool \cup {None}] /\ rule \in Rule \cup {None}
           /\ set \in [Sets -> Set \cup {None}]
           /\ entry \in [Entries -> Entry \cup {None, Gone}]
           /\ source \in [Sources -> Source \cup {None, Gone}]
           /\ job = [w \in Workers |-> job[w]] /\ Handlers \subseteq Workers /\ Scheduler \in Workers
BY DEF IInv, TypeOK, JobsOK, Policy, Workers

-----------------------------------------------------------------------------
(* Steps that leave the tables alone *)

(* A form of the policy is submitted: it has loaded the rows of the pools.  *)
LEMMA SubmitPolicyStep ==
    ASSUME IInv, NEW h \in Handlers, SubmitPolicy(h)
    PROVE  IInv'
<1>1. PICK f \in PolicyForms :
          job' = [job EXCEPT ![h] =
                    [kind |-> "policy", form |-> f,
                     rows |-> [i \in Pools |-> IF pool[i] = None THEN None ELSE pool[i].on],
                     save |-> None, moved |-> None, torn |-> FALSE, stale |-> FALSE]]
  BY DEF SubmitPolicy
<1> DEFINE rows == [i \in Pools |-> IF pool[i] = None THEN None ELSE pool[i].on]
           j == [kind |-> "policy", form |-> f, rows |-> rows,
                 save |-> None, moved |-> None, torn |-> FALSE, stale |-> FALSE]
<1>2. rows \in [Pools -> BOOLEAN \cup {None}]
  BY Shapes DEF Pool
<1>3. j \in PolicyJob
  BY <1>2 DEF PolicyJob
<1>4. JobOK(h, j)
  BY <1>3 DEF JobFits, JobOK, PolicyRequest, PolicyFits
<1>5. h \in Workers /\ \E kind \in Kinds : Spend(kind)
  BY DEF Workers, Kinds, SubmitPolicy
<1> QED
  BY <1>1, <1>4, <1>5, OneJob DEF SubmitPolicy, IInv, TypeOK

(* A request fails.                                                         *)
LEMMA RejectStep ==
    ASSUME IInv, NEW h \in Handlers, Reject(h)
    PROVE  IInv'
<1>1. JobOK(h, None) /\ h \in Workers
  BY DEF JobFits, JobOK, Workers
<1> QED
  BY <1>1, OneJob DEF Reject, Finish, IInv, TypeOK

(* A refresh begins with a row of the table.                                *)
LEMMA BeginStep ==
    ASSUME IInv, NEW w \in Workers, NEW q \in Sources, Begin(w, q),
           queue' \subseteq Sources, left' = left \/ \E kind \in Kinds : Spend(kind)
    PROVE  IInv'
<1> DEFINE j == [kind |-> "refresh", id |-> q, seen |-> source[q], answer |-> None]
<1>1. source[q] \in Source /\ Sound(source[q])
  BY Shapes DEF Begin, Row, IInv, RowsSound
<1>2. j \in RefreshJob
  BY <1>1 DEF RefreshJob
<1>3. JobOK(w, j)
  BY <1>1, <1>2 DEF JobFits, JobOK, Refreshing, AnswerSound
<1> QED
  BY <1>3, OneJob DEF Begin

(* An answer of the network: after a 304 there were validators.             *)
LEMMA AnswerStep ==
    ASSUME IInv, NEW w \in Workers, NEW a \in Answers,
           Fetching(w), job' = [job EXCEPT ![w].answer = a],
           a.status = "same" => job[w].seen.tag # None,
           UNCHANGED <<pool, rule, set, entry, source, content, queue, raced, unchecked>>,
           left' = left \/ \E kind \in Kinds : Spend(kind)
    PROVE  IInv'
<1> DEFINE j == [job[w] EXCEPT !.answer = a]
<1>1. Refreshing(job[w]) /\ AnswerSound(job[w])
  BY KindOf DEF IInv, JobsOK, Fetching, Idle
<1>2. Refreshing(j) /\ j.seen = job[w].seen /\ j.answer = a
  BY <1>1 DEF Refreshing, RefreshJob
<1>3. JobOK(w, j)
  BY <1>1, <1>2 DEF JobFits, JobOK, AnswerSound
<1>4. job' = [job EXCEPT ![w] = j] /\ queue' \subseteq Sources
  BY DEF IInv, TypeOK
<1> QED
  BY <1>3, <1>4, OneJob

LEMMA FetchStep ==
    ASSUME IInv, NEW w \in Workers, Fetch(w)
    PROVE  IInv'
<1> DEFINE seen == job[w].seen
           a == IF NotModified(seen.tag, seen.url) THEN [status |-> "same"]
                ELSE [status |-> "new", list |-> [url |-> seen.url, date |-> content[seen.url]]]
<1>1. Refreshing(job[w])
  BY KindOf DEF IInv, JobsOK, Fetch, Fetching, Idle
<1>2. seen.url \in Urls
  BY <1>1 DEF Refreshing, RefreshJob, Source
<1>3. content[seen.url] \in Dates
  BY <1>2 DEF IInv, TypeOK
<1>4. a \in Answers
  BY <1>2, <1>3 DEF Answers, Payload
<1>5. a.status = "same" => seen.tag # None
  BY DEF NotModified
<1> HIDE DEF a
<1>6. Fetching(w) /\ job' = [job EXCEPT ![w].answer = a]
  BY DEF Fetch, a
<1> QED
  BY <1>4, <1>5, <1>6, AnswerStep DEF Fetch

LEMMA FetchFailsStep ==
    ASSUME IInv, NEW w \in Workers, FetchFails(w)
    PROVE  IInv'
<1>1. [status |-> "failed"] \in Answers
  BY DEF Answers
<1>2. \E kind \in Kinds : Spend(kind)
  BY DEF FetchFails, Kinds
<1> QED
  BY <1>1, <1>2, AnswerStep DEF FetchFails

(* A pass of the scheduler, a publication, or nothing.                      *)
LEMMA OtherSteps ==
    ASSUME IInv, (\E Q \in SUBSET Sources : Pass(Q)) \/ (\E u \in Urls : Publish(u)) \/ UNCHANGED vars
    PROVE  IInv'
<1>1. /\ UNCHANGED <<pool, rule, set, entry, source, raced, unchecked, job>>
      /\ queue' \subseteq Sources
  BY DEF IInv, TypeOK, Pass, Publish, vars
<1>2. content' \in [Urls -> Dates] /\ left' \in [Kinds -> 0..9] /\ DatesLeft'
  <2>1. CASE UNCHANGED <<content, left>>
    BY <2>1 DEF IInv, TypeOK, DatesLeft
  <2>2. CASE \E u \in Urls : Publish(u)
    <3>1. PICK u \in Urls : Publish(u)
      BY <2>2
    <3>2. content[u] + left["publish"] <= 9 /\ left["publish"] \in 1..9 /\ content[u] \in 0..9
      BY <3>1 DEF IInv, DatesLeft, TypeOK, Publish, Spend, Kinds, Dates
    <3>3. content[u] + 1 \in 0..9 /\ left["publish"] - 1 \in 0..9
      BY <3>2
    <3>4. content' = [content EXCEPT ![u] = @ + 1] /\ left' = [left EXCEPT !["publish"] = @ - 1]
      BY <3>1 DEF Publish, Spend
    <3>5. content' \in [Urls -> Dates] /\ left' \in [Kinds -> 0..9]
      BY <3>3, <3>4 DEF IInv, TypeOK, Dates, Kinds
    <3>6. DatesLeft'
      <4> SUFFICES ASSUME NEW v \in Urls PROVE content'[v] + left'["publish"] <= 9
        BY DEF DatesLeft
      <4>1. content[v] \in 0..9 /\ content[v] + left["publish"] <= 9
        BY DEF IInv, DatesLeft, TypeOK, Dates
      <4>2. content'[v] = IF v = u THEN content[u] + 1 ELSE content[v]
        BY <3>4 DEF IInv, TypeOK
      <4>3. left'["publish"] = left["publish"] - 1
        BY <3>4 DEF IInv, TypeOK, Kinds
      <4> QED
        BY <3>2, <4>1, <4>2, <4>3
    <3> QED
      BY <3>5, <3>6
  <2> QED
    BY <2>1, <2>2 DEF Pass, vars
<1>3. job' = [w \in Workers |-> job'[w]] /\ \A w \in Workers : job'[w] = job[w]
  BY <1>1, Shapes
<1> QED
  BY <1>1, <1>2, <1>3, Framed

-----------------------------------------------------------------------------
(* Forms of the policy *)

(* What a form believes to have loaded has the shape of a policy.           *)
LEMMA LoadedTyped ==
    ASSUME IInv, NEW h \in Handlers, ~Idle(h), job[h].kind = "policy"
    PROVE  /\ PolicyRequest(job[h]) /\ PolicyFits(job[h], pool, set, raced)
           /\ Loaded(h) \in Policy
<1>1. PolicyRequest(job[h]) /\ PolicyFits(job[h], pool, set, raced)
  BY KindOf DEF IInv, JobsOK, Idle, Workers
<1>2. job[h].rows \in [Pools -> BOOLEAN \cup {None}]
  BY <1>1 DEF PolicyRequest, PolicyJob
<1> DEFINE P == [i \in Pools |->
                   IF job[h].rows[i] = None THEN None
                   ELSE [on      |-> job[h].rows[i],
                         members |-> IF pool[i] = None THEN {} ELSE pool[i].members]]
<1>3. P \in [Pools -> Pool \cup {None}]
  BY <1>2, Shapes DEF Pool
<1>4. Loaded(h) = [pool |-> P, rule |-> rule]
  BY DEF Loaded
<1> HIDE DEF P
<1>5. Loaded(h) \in Policy
  BY <1>3, <1>4, Shapes DEF Policy
<1> QED
  BY <1>1, <1>5

(* When nobody overtook it, it is the policy.                               *)
LEMMA LoadedIsCurrent ==
    ASSUME IInv, NEW h \in Handlers, ~Idle(h), job[h].kind = "policy",
           job[h].save = None, ~job[h].stale
    PROVE  Loaded(h) = [pool |-> pool, rule |-> rule] /\ Loaded(h).pool = pool
<1>1. job[h].rows = [i \in Pools |-> IF pool[i] = None THEN None ELSE pool[i].on]
  BY LoadedTyped DEF PolicyFits
<1> DEFINE P == [i \in Pools |->
                   IF job[h].rows[i] = None THEN None
                   ELSE [on      |-> job[h].rows[i],
                         members |-> IF pool[i] = None THEN {} ELSE pool[i].members]]
<1>2. ASSUME NEW i \in Pools PROVE P[i] = pool[i]
  <2>1. CASE pool[i] = None
    BY <2>1, <1>1
  <2>2. CASE pool[i] # None
    <3>1. pool[i] \in Pool
      BY <2>2, Shapes
    <3>2. pool[i].on # None
      BY <3>1, NoRow DEF Pool
    <3>3. P[i] = [on |-> pool[i].on, members |-> pool[i].members]
      BY <1>1, <2>2, <3>2
    <3> QED
      BY <3>1, <3>3 DEF Pool
  <2> QED
    BY <2>1, <2>2
<1>3. P = pool
  BY <1>2, Shapes
<1>4. Loaded(h) = [pool |-> P, rule |-> rule]
  BY DEF Loaded
<1> HIDE DEF P
<1>5. Loaded(h).pool = P
  BY <1>4
<1> QED
  BY <1>3, <1>4, <1>5, Zenon

(* A form keeps the policy it is going to save.                             *)
LEMMA KeepStep ==
    ASSUME IInv, NEW h \in Handlers, ~Idle(h), job[h].kind = "policy", job[h].save = None,
           NEW next \in Policy, NEW moved \in (Pools \X Pools) \cup {None},
           Keep(h, next, moved),
           \/ Valid(next)
           \/ (job[h].stale \/ unchecked) /\ job[h].form.do = "delete rule",
           ~job[h].stale =>
               \A s \in Sets \ raced :
                   Row(set, s) /\ set[s].on => Reaches(next.pool, MovedTarget(moved, set[s].target))
    PROVE  IInv'
<1> DEFINE j == [job[h] EXCEPT !.save = next, !.moved = moved, !.torn = @ \/ job[h].stale \/ unchecked]
<1>1. PolicyRequest(job[h])
  BY LoadedTyped
<1>2. /\ j \in PolicyJob /\ j.kind = "policy" /\ j.save = next /\ j.moved = moved
      /\ j.torn = (job[h].torn \/ job[h].stale \/ unchecked) /\ j.stale = job[h].stale /\ j.form = job[h].form
  <2>1. (job[h].torn \/ job[h].stale \/ unchecked) \in BOOLEAN
    BY <1>1 DEF PolicyRequest, PolicyJob, IInv, TypeOK
  <2> QED
    BY <1>1, <2>1 DEF PolicyRequest, PolicyJob
<1> HIDE DEF j
<1>3. PolicyFits(j, pool, set, raced)
  <2>1. j.save = None /\ ~j.stale =>
            j.rows = [i \in Pools |-> IF pool[i] = None THEN None ELSE pool[i].on]
    <3>1. j.rows = job[h].rows
      BY <1>1 DEF PolicyRequest, PolicyJob, j
    <3> QED
      BY <1>2, <3>1, LoadedTyped DEF PolicyFits
  <2>2. Valid(next) \/ (j.torn /\ j.form.do = "delete rule")
    BY <1>2
  <2>3. ~j.stale => SetsFollow(j, set, raced)
    BY <1>2 DEF SetsFollow
  <2> QED
    BY <1>2, <2>1, <2>2, <2>3 DEF PolicyFits
<1>4. JobOK(h, j)
  BY <1>2, <1>3 DEF JobFits, JobOK, PolicyRequest
<1>5. job' = [job EXCEPT ![h] = j] /\ h \in Workers
  BY DEF Keep, Workers, j
<1> QED
  BY <1>4, <1>5, OneJob DEF Keep, IInv, TypeOK

(* The targets that sets have.                                              *)
LEMMA TargetsReach ==
    ASSUME IInv, NEW s \in Sets \ raced, Row(set, s), set[s].on
    PROVE  set[s] \in Set /\ Reaches(pool, set[s].target)
BY Shapes DEF IInv, SetsAreServable, Reaches, Row

(* A pool that is renamed stays what it is to everybody else.               *)
LEMMA RenamedKeeps ==
    ASSUME NEW p \in Policy, NEW old, NEW new \in Pools
    PROVE  /\ Renamed(p, old, new) \in Policy
           /\ \A i \in Pools : Renamed(p, old, new).pool[i] = None <=> p.pool[i] = None
<1> DEFINE P == [i \in Pools |->
                   IF p.pool[i] = None THEN None
                   ELSE [p.pool[i] EXCEPT !.members = {Replaced(m, old, new) : m \in @}]]
           R == IF p.rule = None THEN None
                ELSE [p.rule EXCEPT !.target = Replaced(@, old, new)]
<1>1. p.pool \in [Pools -> Pool \cup {None}] /\ p.rule \in Rule \cup {None}
  BY DEF Policy
<1>2. ASSUME NEW i \in Pools, p.pool[i] # None
      PROVE  [p.pool[i] EXCEPT !.members = {Replaced(m, old, new) : m \in @}] \in Pool
  <2>1. p.pool[i] \in Pool
    BY <1>1, <1>2
  <2>2. {Replaced(m, old, new) : m \in p.pool[i].members} \subseteq Pools \cup {"leaf"}
    BY <2>1 DEF Pool, Replaced
  <2> QED
    BY <2>1, <2>2 DEF Pool
<1>3. P \in [Pools -> Pool \cup {None}] /\ \A i \in Pools : P[i] = None <=> p.pool[i] = None
  BY <1>2, NoRow
<1>4. R \in Rule \cup {None}
  BY <1>1 DEF Rule, Replaced, Targets
<1>5. Renamed(p, old, new) = [pool |-> P, rule |-> R]
  BY DEF Renamed
<1> HIDE DEF P, R
<1> QED
  BY <1>3, <1>4, <1>5 DEF Policy

(* The form that a policy request carries.                                  *)
LEMMA FormsTyped ==
    ASSUME NEW f \in PolicyForms
    PROVE  /\ f.do = "save pool" => /\ f.old \in Pools \cup {None} /\ f.id \in Pools
                                    /\ f.row \in Pool
           /\ f.do = "delete pool" => f.id \in Pools /\ f.to \in Pools \cup {None}
           /\ f.do = "save rule" => f.on \in BOOLEAN /\ f.target \in Targets
<1>1. PostedPools \subseteq Pool
  BY RoutingAssumption DEF RoutingAssumption, PostedPools, Pool
<1> QED
  BY <1>1 DEF PolicyForms, PoolForms

LEMMA SavePoolStep ==
    ASSUME IInv, NEW h \in Handlers, SavePool(h)
    PROVE  IInv'
<1> DEFINE f == job[h].form
           p == Loaded(h)
           q == IF f.old = None THEN p ELSE Renamed(p, f.old, f.id)
           P == [i \in Pools |-> IF i = f.id THEN f.row
                                 ELSE IF i = f.old THEN None ELSE q.pool[i]]
           next == [q EXCEPT !.pool = P]
           moved == IF f.old \in {None, f.id} THEN None ELSE <<f.old, f.id>>
<1>1. /\ ~Idle(h) /\ job[h].kind = "policy" /\ f.do = "save pool" /\ job[h].save = None
      /\ Valid(next) /\ Keep(h, next, moved)
  BY DEF SavePool, Loading
<1>2. p \in Policy /\ PolicyRequest(job[h])
  BY <1>1, LoadedTyped
<1>3. f.old \in Pools \cup {None} /\ f.id \in Pools /\ f.row \in Pool
  BY <1>1, <1>2, FormsTyped DEF PolicyRequest, PolicyJob
<1>4. q \in Policy /\ \A i \in Pools : q.pool[i] = None <=> p.pool[i] = None
  BY <1>2, <1>3, RenamedKeeps
<1> HIDE DEF q
<1>5. P \in [Pools -> Pool \cup {None}]
  BY <1>3, <1>4 DEF Policy
<1>6. next \in Policy /\ next.pool = P
  BY <1>4, <1>5 DEF Policy
<1>7. moved \in (Pools \X Pools) \cup {None}
  BY <1>3
<1>8. ASSUME ~job[h].stale, NEW s \in Sets \ raced, Row(set, s), set[s].on
      PROVE  Reaches(next.pool, MovedTarget(moved, set[s].target))
  <2>1. p = [pool |-> pool, rule |-> rule]
    BY <1>1, <1>8, LoadedIsCurrent
  <2>2. Reaches(pool, set[s].target)
    BY <1>8, TargetsReach
  <2>3. f.row # None
    BY <1>3, NoRow
  <2>4. CASE f.old \notin {None, f.id} /\ set[s].target = f.old
    <3>1. moved = <<f.old, f.id>> /\ moved # None
      BY <1>3, <2>4, NoRow
    <3>2. MovedTarget(moved, set[s].target) = f.id
      BY <2>4, <3>1 DEF MovedTarget
    <3> QED
      BY <3>2, <2>3, <1>3, <1>6 DEF Reaches
  <2>5. CASE f.old \in {None, f.id} \/ set[s].target # f.old
    <3>1. MovedTarget(moved, set[s].target) = set[s].target
      BY <2>5 DEF MovedTarget
    <3>2. ASSUME set[s].target \in Pools, pool[set[s].target] # None
          PROVE  P[set[s].target] # None
      BY <3>2, <2>1, <2>3, <2>5, <1>3, <1>4, NoRow
    <3> QED
      BY <3>1, <3>2, <2>2, <1>6 DEF Reaches
  <2> QED
    BY <2>4, <2>5
<1> HIDE DEF next, moved, f, P
<1> QED
  BY <1>1, <1>6, <1>7, <1>8, KeepStep

LEMMA DeletePoolStep ==
    ASSUME IInv, NEW h \in Handlers, DeletePool(h)
    PROVE  IInv'
<1> DEFINE f == job[h].form
           p == Loaded(h)
           used == Referenced(p, f.id)
           q == IF used THEN Renamed(p, f.id, f.to) ELSE p
           next == [q EXCEPT !.pool[f.id] = None]
           moved == IF used THEN <<f.id, f.to>> ELSE None
<1>1. /\ ~Idle(h) /\ job[h].kind = "policy" /\ f.do = "delete pool" /\ job[h].save = None
      /\ used => f.to \notin {None, f.id} /\ p.pool[f.to] # None
      /\ Valid(next) /\ Keep(h, next, moved)
  BY DEF DeletePool, Loading
<1>2. p \in Policy /\ PolicyRequest(job[h])
  BY <1>1, LoadedTyped
<1>3. f.id \in Pools /\ f.to \in Pools \cup {None}
  BY <1>1, <1>2, FormsTyped DEF PolicyRequest, PolicyJob
<1>4. q \in Policy /\ \A i \in Pools : q.pool[i] = None <=> p.pool[i] = None
  <2>1. CASE used
    <3>1. f.to \in Pools /\ q = Renamed(p, f.id, f.to)
      BY <2>1, <1>1, <1>3
    <3> QED
      BY <1>2, <3>1, RenamedKeeps
  <2>2. CASE ~used
    BY <2>2, <1>2
  <2> QED
    BY <2>1, <2>2
<1> HIDE DEF q
<1>5. /\ next \in Policy
      /\ \A i \in Pools : next.pool[i] = IF i = f.id THEN None ELSE q.pool[i]
  BY <1>3, <1>4 DEF Policy
<1>6. moved \in (Pools \X Pools) \cup {None}
  BY <1>1, <1>3
<1>7. ASSUME ~job[h].stale, NEW s \in Sets \ raced, Row(set, s), set[s].on
      PROVE  Reaches(next.pool, MovedTarget(moved, set[s].target))
  <2>1. p = [pool |-> pool, rule |-> rule]
    BY <1>1, <1>7, LoadedIsCurrent
  <2>2. Reaches(pool, set[s].target)
    BY <1>7, TargetsReach
  <2>3. CASE set[s].target = f.id
    <3>1. used
      BY <1>7, <2>3 DEF Referenced
    <3>2. moved = <<f.id, f.to>> /\ moved # None /\ f.to \in Pools \ {f.id}
      BY <1>1, <1>3, <3>1, NoRow
    <3>3. MovedTarget(moved, set[s].target) = f.to
      BY <2>3, <3>2 DEF MovedTarget
    <3>4. next.pool[f.to] # None
      BY <3>1, <3>2, <1>1, <1>4, <1>5
    <3> QED
      BY <3>2, <3>3, <3>4 DEF Reaches
  <2>4. CASE set[s].target # f.id
    <3>1. MovedTarget(moved, set[s].target) = set[s].target
      BY <2>4 DEF MovedTarget
    <3> QED
      BY <3>1, <2>1, <2>2, <2>4, <1>4, <1>5 DEF Reaches
  <2> QED
    BY <2>3, <2>4
<1> HIDE DEF next, moved, f
<1> QED
  BY <1>1, <1>5, <1>6, <1>7, KeepStep

(* A form that leaves the pools alone.                                      *)
LEMMA KeepRule ==
    ASSUME IInv, NEW h \in Handlers, ~Idle(h), job[h].kind = "policy", job[h].save = None,
           NEW r \in Rule \cup {None}, Keep(h, [Loaded(h) EXCEPT !.rule = r], None),
           \/ Valid([Loaded(h) EXCEPT !.rule = r])
           \/ (job[h].stale \/ unchecked) /\ job[h].form.do = "delete rule"
    PROVE  IInv'
<1> DEFINE next == [Loaded(h) EXCEPT !.rule = r]
<1>1. next \in Policy /\ next.pool = Loaded(h).pool
  BY LoadedTyped DEF Policy
<1> HIDE DEF next
<1>2. ASSUME ~job[h].stale, NEW s \in Sets \ raced, Row(set, s), set[s].on
      PROVE  Reaches(next.pool, MovedTarget(None, set[s].target))
  <2>1. Loaded(h).pool = pool
    BY <1>2, LoadedIsCurrent
  <2> QED
    BY <1>1, <2>1, <1>2, TargetsReach DEF MovedTarget
<1> QED
  BY <1>1, <1>2, KeepStep DEF next

LEMMA SaveRuleStep ==
    ASSUME IInv, NEW h \in Handlers, SaveRule(h)
    PROVE  IInv'
<1>1. ~Idle(h) /\ job[h].kind = "policy" /\ job[h].form.do = "save rule" /\ job[h].save = None
  BY DEF SaveRule, Loading
<1>2. PolicyRequest(job[h])
  BY <1>1, LoadedTyped
<1>3. [on |-> job[h].form.on, target |-> job[h].form.target] \in Rule
  BY <1>1, <1>2, FormsTyped DEF PolicyRequest, PolicyJob, Rule
<1> QED
  BY <1>1, <1>3, KeepRule DEF SaveRule

(* Without its rule a policy that validates still does.                     *)
LEMMA DeleteRuleStep ==
    ASSUME IInv, NEW h \in Handlers, DeleteRule(h)
    PROVE  IInv'
<1> DEFINE next == [Loaded(h) EXCEPT !.rule = None]
<1>1. ~Idle(h) /\ job[h].kind = "policy" /\ job[h].form.do = "delete rule" /\ job[h].save = None
  BY DEF DeleteRule, Loading
<1>2. Valid(next) \/ job[h].stale \/ unchecked
  <2>1. CASE ~job[h].stale /\ ~unchecked
    <3>1. Loaded(h) = [pool |-> pool, rule |-> rule] /\ Valid(Loaded(h))
      BY <1>1, <2>1, LoadedIsCurrent DEF IInv, PolicyHolds
    <3>2. next.pool = Loaded(h).pool /\ next.rule = None
      BY <3>1
    <3> HIDE DEF next
    <3>3. Enabled(next) = Enabled(Loaded(h))
      BY <3>2 DEF Enabled
    <3>4. Acyclic(next)
      BY <3>1, <3>2, <3>3 DEF Valid, Acyclic
    <3> QED
      BY <3>1, <3>2, <3>3, <3>4 DEF Valid
  <2> QED
    BY <2>1
<1> HIDE DEF next
<1> QED
  BY <1>1, <1>2, KeepRule DEF DeleteRule, next

-----------------------------------------------------------------------------
(* Commits *)

(* Whoever was overtaken has nothing to rely on but what it writes.         *)
LEMMA OutdatedPolicy ==
    ASSUME NEW w \in Handlers, NEW j, PolicyRequest(j), PolicyFits(j, pool, set, raced)
    PROVE  JobFits(w, [j EXCEPT !.stale = TRUE], pool', set', entry', source', raced')
<1> DEFINE k == [j EXCEPT !.stale = TRUE]
<1>1. /\ k \in PolicyJob /\ k.kind = "policy" /\ k.stale = TRUE /\ k.save = j.save
      /\ k.form = j.form /\ k.torn = j.torn
  BY DEF PolicyRequest, PolicyJob
<1> HIDE DEF k
<1>2. k.save # None => Valid(k.save) \/ (k.torn /\ k.form.do = "delete rule")
  BY <1>1 DEF PolicyFits
<1>3. PolicyRequest(k) /\ PolicyFits(k, pool', set', raced')
  BY <1>1, <1>2 DEF PolicyRequest, PolicyFits
<1> QED
  BY <1>3 DEF JobFits, JobOK, k

LEMMA OutdatedSet ==
    ASSUME NEW w \in Handlers, NEW j, SetRequest(j), WritesItsSet(j)
    PROVE  JobFits(w, [j EXCEPT !.stale = TRUE], pool', set', entry', source', raced')
<1> DEFINE k == [j EXCEPT !.stale = TRUE]
<1>1. /\ k \in SetJob({j.entries}, {j.sources}) /\ k.kind = "set" /\ k.stale = TRUE
      /\ k.entries = j.entries /\ k.sources = j.sources /\ k.slug = j.slug
  BY DEF SetRequest, SetJob
<1> HIDE DEF k
<1>2. SetRequest(k) /\ WritesItsSet(k)
  BY <1>1 DEF SetRequest, WritesItsSet
<1> QED
  BY <1>1, <1>2 DEF JobFits, JobOK, k

LEMMA OutdateStep ==
    ASSUME IInv, NEW h \in Handlers, FinishAndOutdate(h)
    PROVE  JobsOK'
<1>1. job' = [w \in Workers |-> job'[w]]
  BY DEF FinishAndOutdate
<1>2. ASSUME NEW w \in Workers PROVE JobOK(w, job[w])
  BY DEF IInv, JobsOK
<1>3. ASSUME NEW w \in Workers PROVE JobFits(w, job'[w], pool', set', entry', source', raced')
  <2>1. CASE job'[w] = None
    BY <2>1 DEF JobFits, JobOK
  <2>2. CASE job'[w] # None /\ job[w] # None /\ job[w].kind = "refresh"
    <3>1. job'[w] = job[w] /\ Refreshing(job[w]) /\ AnswerSound(job[w])
      BY <2>2, <1>2, KindOf DEF FinishAndOutdate, Idle
    <3> QED
      BY <3>1 DEF JobFits, JobOK
  <2>3. CASE job'[w] # None /\ job[w] # None /\ job[w].kind # "refresh"
    <3>1. job'[w] = [job[w] EXCEPT !.stale = TRUE]
      BY <2>3 DEF FinishAndOutdate, Idle
    <3>2. CASE job[w].kind = "policy"
      <4>1. w \in Handlers /\ PolicyRequest(job[w]) /\ PolicyFits(job[w], pool, set, raced)
        BY <3>2, <2>3, <1>2, KindOf
      <4>2. JobFits(w, [job[w] EXCEPT !.stale = TRUE],
                   pool', set', entry', source', raced')
        BY <4>1, OutdatedPolicy
      <4> QED
        BY <4>2, <3>1
    <3>3. CASE job[w].kind = "set"
      <4>1. w \in Handlers /\ SetRequest(job[w]) /\ WritesItsSet(job[w])
        BY <3>3, <2>3, <1>2, KindOf
      <4>2. JobFits(w, [job[w] EXCEPT !.stale = TRUE],
                   pool', set', entry', source', raced')
        BY <4>1, OutdatedSet
      <4> QED
        BY <4>2, <3>1
    <3> QED
      BY <2>3, <3>2, <3>3, <1>2, KindOf
  <2> QED
    BY <2>1, <2>2, <2>3 DEF FinishAndOutdate, Idle
<1> QED
  BY <1>1, <1>3 DEF JobsOK, JobOK

(* A policy is committed, and the sets follow a pool that moved.            *)
LEMMA CommitPolicyStep ==
    ASSUME IInv, NEW h \in Handlers, CommitPolicy(h)
    PROVE  IInv'
<1> DEFINE j == job[h]
           Moves(s) == Row(set, s) /\ j.moved # None /\ set[s].target = j.moved[1]
<1>1. j # None /\ j.kind = "policy" /\ j.save # None
  BY DEF CommitPolicy, Idle
<1>2. PolicyRequest(j) /\ PolicyFits(j, pool, set, raced)
  BY <1>1, LoadedTyped DEF Idle
<1>3. /\ j.save \in Policy /\ j.moved \in (Pools \X Pools) \cup {None}
      /\ j.stale \in BOOLEAN /\ j.torn \in BOOLEAN
  BY <1>1, <1>2 DEF PolicyRequest, PolicyJob
<1>4. /\ pool' = j.save.pool /\ rule' = j.save.rule
      /\ set' = [s \in Sets |-> IF Moves(s) THEN [set[s] EXCEPT !.target = j.moved[2]] ELSE set[s]]
      /\ raced' = IF j.stale THEN Sets ELSE raced
      /\ unchecked' = (j.torn /\ j.form.do = "delete rule")
      /\ FinishAndOutdate(h)
      /\ UNCHANGED <<entry, source, content, queue, left>>
  BY DEF CommitPolicy
<1>5. unchecked' \in BOOLEAN
  BY <1>3, <1>4
<1>6. JobsOK'
  BY <1>4, OutdateStep
<1>7. ASSUME NEW s \in Sets PROVE set'[s] \in Set \cup {None}
  <2>1. CASE Moves(s)
    <3>1. set[s] \in Set /\ j.moved[2] \in Pools
      BY <2>1, <1>3, Shapes DEF Row
    <3> QED
      BY <2>1, <3>1, <1>4 DEF Set, Targets
  <2>2. CASE ~Moves(s)
    BY <2>2, <1>4, Shapes
  <2> QED
    BY <2>1, <2>2
<1>8. TypeOK'
  <2>1. [pool |-> pool', rule |-> rule'] \in Policy
    BY <1>3, <1>4 DEF Policy
  <2>2. set' \in [Sets -> Set \cup {None}]
    BY <1>4, <1>7
  <2>3. raced' \subseteq Sets
    BY <1>3, <1>4 DEF IInv, TypeOK
  <2>4. /\ \A g \in Handlers :
               (Idle(g) \/ PolicyRequest(job[g]) \/ SetRequest(job[g]) \/ Refreshing(job[g]))'
        /\ (Idle(Scheduler) \/ Refreshing(job[Scheduler]))'
    BY <1>6, NoRow DEF JobsOK, JobFits, JobOK, Idle, Workers
  <2> QED
    BY <1>4, <1>5, <2>1, <2>2, <2>3, <2>4 DEF IInv, TypeOK
<1>9. DatesLeft' /\ RowsSound'
  BY <1>4 DEF IInv, DatesLeft, RowsSound, Row, Sound
<1>10. PolicyHolds'
  <2>1. unchecked' \/ Valid(j.save)
    BY <1>1, <1>2, <1>4 DEF PolicyFits
  <2>2. [pool |-> pool', rule |-> rule'] = j.save
    BY <1>3, <1>4 DEF Policy
  <2> QED
    BY <2>1, <2>2 DEF PolicyHolds
<1>11. SetsAreServable'
  <2> SUFFICES ASSUME NEW s \in Sets \ raced', Row(set', s), set'[s].on
               PROVE  /\ Compiles(s, set'[s].raw, entry, source)
                      /\ Reaches(pool', set'[s].target)
    BY <1>4 DEF SetsAreServable, Reaches
  <2>1. ~j.stale /\ s \in Sets \ raced
    BY <1>3, <1>4
  <2>2. Row(set, s)
    BY <1>4 DEF Row
  <2>3. set[s] \in Set
    BY <2>2, Shapes DEF Row
  <2>4. /\ set'[s].on = set[s].on /\ set'[s].raw = set[s].raw
        /\ set'[s].target = MovedTarget(j.moved, set[s].target)
    BY <2>2, <2>3, <1>4 DEF Set, MovedTarget
  <2>5. Compiles(s, set[s].raw, entry, source)
    BY <2>1, <2>2, <2>4 DEF IInv, SetsAreServable
  <2>6. Reaches(j.save.pool, MovedTarget(j.moved, set[s].target))
    BY <2>1, <2>2, <2>4, <1>1, <1>2 DEF PolicyFits, SetsFollow
  <2> QED
    BY <2>4, <2>5, <2>6, <1>4
<1> QED
  BY <1>6, <1>8, <1>9, <1>10, <1>11 DEF IInv

-----------------------------------------------------------------------------
(* Payloads that arrive *)

(* The same sources, of which some have a payload that they had not.        *)
Fuller(so, more) ==
    \A q \in Sources :
        /\ Row(more, q) <=> Row(so, q)
        /\ Row(so, q) => /\ more[q].set = so[q].set /\ more[q].on = so[q].on
                         /\ so[q].cache # None => more[q].cache # None

SourceTables == [Sources -> Source \cup {None, Gone}]

(* What compiles compiles with more.                                        *)
LEMMA CompilesFuller ==
    ASSUME NEW so \in SourceTables, NEW more \in SourceTables, Fuller(so, more),
           NEW s, NEW raw, NEW en, Compiles(s, raw, en, so)
    PROVE  Compiles(s, raw, en, more)
<1>1. ASSUME NEW q \in In(so, s), so[q].on, so[q].cache # None
      PROVE  q \in In(more, s) /\ more[q].on /\ more[q].cache # None
  BY <1>1 DEF Fuller, In, SourceTables
<1>2. CASE raw \/ \E e \in In(en, s) : en[e].on
  BY <1>2 DEF Compiles
<1>3. CASE \E q \in In(so, s) : so[q].on /\ so[q].cache # None
  BY <1>1, <1>3 DEF Compiles
<1> QED
  BY <1>2, <1>3 DEF Compiles

(* Rows that are merged into a table make a table.                          *)
LEMMA MergedTyped ==
    ASSUME NEW so \in SourceTables, NEW q \in Sources, NEW new \in Source \cup {Gone}
    PROVE  Merge(so, q, new) \in Source \cup {Gone}
<1>1. CASE new = Gone \/ ~Row(so, q)
  BY <1>1 DEF Merge
<1>2. CASE new # Gone /\ Row(so, q)
  <2>1. so[q] \in Source /\ new \in Source
    BY <1>2 DEF Row, SourceTables
  <2> QED
    BY <1>2, <2>1 DEF Merge, Source
<1> QED
  BY <1>1, <1>2

LEMMA MergeAllIs ==
    ASSUME NEW so \in SourceTables, NEW rows, DOMAIN rows \subseteq Sources,
           \A q \in DOMAIN rows : rows[q] \in Source \cup {Gone}
    PROVE  /\ MergeAll(so, rows) \in SourceTables
           /\ \A q \in Sources :
                 MergeAll(so, rows)[q] =
                     IF q \in DOMAIN rows THEN Merge(so, q, rows[q]) ELSE so[q]
<1> DEFINE M(q) == IF q \in DOMAIN rows THEN Merge(so, q, rows[q]) ELSE so[q]
<1>1. MergeAll(so, rows) = [q \in Sources |-> M(q)]
  BY DEF MergeAll, Override, SourceTables
<1>2. ASSUME NEW q \in Sources PROVE M(q) \in Source \cup {None, Gone}
  BY MergedTyped DEF SourceTables
<1> HIDE DEF M
<1>3. MergeAll(so, rows) \in SourceTables /\ \A q \in Sources : MergeAll(so, rows)[q] = M(q)
  BY <1>1, <1>2 DEF SourceTables
<1> QED
  BY <1>3 DEF M

(* A request that fits still fits when payloads arrive.                     *)
LEMMA FitsFuller ==
    ASSUME NEW so \in SourceTables, NEW more \in SourceTables, Fuller(so, more),
           NEW j, SetRequest(j), NEW pl, NEW st, NEW en, SetFits(j, pl, st, en, so)
    PROVE  SetFits(j, pl, st, en, more)
<1>1. DOMAIN j.sources \subseteq Sources /\ \A q \in DOMAIN j.sources : j.sources[q] \in Source \cup {Gone}
  BY DEF SetRequest
<1>2. MergeAll(so, j.sources) \in SourceTables /\ MergeAll(more, j.sources) \in SourceTables
  BY <1>1, MergeAllIs
<1>3. Fuller(MergeAll(so, j.sources), MergeAll(more, j.sources))
  <2> DEFINE A == MergeAll(so, j.sources)
             B == MergeAll(more, j.sources)
  <2> SUFFICES ASSUME NEW q \in Sources
               PROVE  /\ Row(B, q) <=> Row(A, q)
                      /\ Row(A, q) => /\ B[q].set = A[q].set /\ B[q].on = A[q].on
                                      /\ A[q].cache # None => B[q].cache # None
    BY DEF Fuller
  <2>1. /\ A[q] = IF q \in DOMAIN j.sources THEN Merge(so, q, j.sources[q]) ELSE so[q]
        /\ B[q] = IF q \in DOMAIN j.sources THEN Merge(more, q, j.sources[q]) ELSE more[q]
    BY <1>1, MergeAllIs
  <2> HIDE DEF A, B
  <2>2. CASE q \notin DOMAIN j.sources
    BY <2>1, <2>2 DEF Fuller, Row
  <2>3. CASE q \in DOMAIN j.sources /\ (j.sources[q] = Gone \/ ~Row(so, q))
    <3>1. A[q] = j.sources[q] /\ B[q] = j.sources[q]
      BY <2>1, <2>3 DEF Fuller, Merge
    <3> QED
      BY <3>1 DEF Row
  <2>4. CASE q \in DOMAIN j.sources /\ j.sources[q] # Gone /\ Row(so, q)
    <3>1. Row(more, q) /\ j.sources[q] \in Source /\ so[q] \in Source /\ more[q] \in Source
      BY <1>1, <2>4 DEF Fuller, Row, SourceTables
    <3>2. /\ A[q] = [j.sources[q] EXCEPT !.cache = so[q].cache, !.tag = so[q].tag]
          /\ B[q] = [j.sources[q] EXCEPT !.cache = more[q].cache, !.tag = more[q].tag]
      BY <2>1, <2>4, <3>1 DEF Merge
    <3>3. /\ A[q] \in Source /\ A[q].set = j.sources[q].set /\ A[q].on = j.sources[q].on
          /\ A[q].cache = so[q].cache
      BY <3>1, <3>2 DEF Source
    <3>4. /\ B[q] \in Source /\ B[q].set = j.sources[q].set /\ B[q].on = j.sources[q].on
          /\ B[q].cache = more[q].cache
      BY <3>1, <3>2 DEF Source
    <3>5. so[q].cache # None => more[q].cache # None
      BY <2>4 DEF Fuller
    <3> QED
      BY <3>3, <3>4, <3>5, NoRow DEF Row
  <2> QED
    BY <2>2, <2>3, <2>4
<1>4. ASSUME NEW raw, NEW ee, Compiles(j.slug, raw, ee, MergeAll(so, j.sources))
      PROVE  Compiles(j.slug, raw, ee, MergeAll(more, j.sources))
  BY <1>2, <1>3, <1>4, CompilesFuller
<1>5. Owned(more, j.sources, j.slug)
  BY <1>1 DEF SetFits, Owned, Fuller
<1> QED
  BY <1>4, <1>5 DEF SetFits

(* A payload is written back, and nothing is taken away by it.              *)
LEMMA WriteBackStep ==
    ASSUME IInv, NEW w \in Workers, WriteBack(w)
    PROVE  IInv'
<1> DEFINE q == job[w].id
           a == job[w].answer
           seen == job[w].seen
           cache == IF a.status = "same" THEN seen.cache ELSE a.list
           tag   == IF a.status = "same" THEN seen.tag ELSE a.list
           row   == [source[q] EXCEPT !.cache = cache, !.tag = tag]
           idle  == a.status = "failed" \/ ~Row(source, q)
<1>1. /\ job[w] # None /\ job[w].kind = "refresh" /\ a # None
      /\ source' = IF idle THEN source ELSE [source EXCEPT ![q].cache = cache, ![q].tag = tag]
      /\ job' = [job EXCEPT ![w] = None]
      /\ UNCHANGED <<pool, rule, set, entry, content, queue, left, raced, unchecked>>
  BY DEF WriteBack, Idle, Finish
<1>2. Refreshing(job[w]) /\ AnswerSound(job[w])
  BY <1>1, KindOf DEF IInv, JobsOK
<1>3. q \in Sources /\ seen \in Source /\ a \in Answers
  BY <1>1, <1>2 DEF Refreshing, RefreshJob
<1>4. source \in SourceTables
  BY Shapes DEF SourceTables
<1>5. ASSUME ~idle
      PROVE  source' \in SourceTables /\ Fuller(source, source') /\ RowsSound'
  <2>1. /\ cache \in Payload \cup {None} /\ tag \in Payload \cup {None}
        /\ cache # None
    <3>1. CASE a.status = "same"
      BY <3>1, <1>1, <1>2, <1>3 DEF AnswerSound, Sound, Source
    <3>2. CASE a.status # "same"
      <4>1. a.list \in Payload
        BY <3>2, <1>3, <1>5 DEF Answers
      <4> QED
        BY <4>1, <3>2, NoRow
    <3> QED
      BY <3>1, <3>2
  <2> HIDE DEF cache, tag
  <2>2. source[q] \in Source
    BY <1>3, <1>4, <1>5 DEF Row, SourceTables
  <2>3. /\ row \in Source /\ row.cache = cache /\ row.tag = tag
        /\ row.set = source[q].set /\ row.on = source[q].on
    BY <2>1, <2>2 DEF Source
  <2>4. source' = [source EXCEPT ![q] = row]
    BY <1>1, <1>5
  <2> HIDE DEF row
  <2>5. /\ source' \in SourceTables
        /\ \A r \in Sources : source'[r] = IF r = q THEN row ELSE source[r]
    BY <2>3, <2>4, <1>3, <1>4 DEF SourceTables
  <2>6. Fuller(source, source')
    BY <2>1, <2>3, <2>5, <1>5, NoRow DEF Fuller, Row
  <2>7. RowsSound'
    BY <2>1, <2>3, <2>5 DEF IInv, RowsSound, Row, Sound
  <2> QED
    BY <2>5, <2>6, <2>7
<1>6. ASSUME idle
      PROVE  source' \in SourceTables /\ Fuller(source, source') /\ RowsSound'
  <2>1. source' = source
    BY <1>1, <1>6
  <2> QED
    BY <2>1, <1>4 DEF Fuller, IInv, RowsSound, Row
<1>7. source' \in SourceTables /\ Fuller(source, source') /\ RowsSound'
  BY <1>5, <1>6
<1> HIDE DEF q, a, seen, cache, tag, row, idle
<1>8. JobsOK'
  <2>1. ASSUME NEW v \in Workers
        PROVE  JobFits(v, job'[v], pool', set', entry', source', raced')
    <3>1. CASE v = w
      BY <3>1, <1>1, Shapes DEF JobFits
    <3>2. CASE v # w
      <4>1. job'[v] = job[v] /\ JobFits(v, job[v], pool, set, entry, source, raced)
        BY <3>2, <1>1 DEF IInv, JobsOK, JobOK
      <4>2. ASSUME SetRequest(job[v]), SetFits(job[v], pool, set, entry, source)
            PROVE  SetFits(job[v], pool, set, entry, source')
        BY <4>2, <1>4, <1>7, FitsFuller
      <4> QED
        BY <4>1, <4>2, <1>1 DEF JobFits
    <3> QED
      BY <3>1, <3>2
  <2> QED
    BY <2>1, <1>1, Shapes DEF JobsOK, JobOK
<1>9. TypeOK'
  <2>1. /\ \A g \in Handlers :
               (Idle(g) \/ PolicyRequest(job[g]) \/ SetRequest(job[g]) \/ Refreshing(job[g]))'
        /\ (Idle(Scheduler) \/ Refreshing(job[Scheduler]))'
    BY <1>8, NoRow DEF JobsOK, JobFits, JobOK, Idle, Workers
  <2> QED
    BY <1>1, <1>7, <2>1 DEF IInv, TypeOK, SourceTables
<1>10. SetsAreServable'
  BY <1>1, <1>4, <1>7, CompilesFuller DEF IInv, SetsAreServable, Row
<1>11. DatesLeft' /\ PolicyHolds'
  BY <1>1 DEF IInv, DatesLeft, PolicyHolds
<1> QED
  BY <1>7, <1>8, <1>9, <1>10, <1>11 DEF IInv

-----------------------------------------------------------------------------
(* Forms of rule sets *)

(* A form passed its checks, and nothing is in the way of its commit.       *)
LEMMA CheckedStep ==
    ASSUME IInv, NEW h \in Handlers, NEW late \in BOOLEAN, NEW kind \in Kinds,
           NEW do \in {"insert", "update", "delete", "lists"}, NEW s \in Sets,
           NEW row \in Set \cup {None}, NEW entries, NEW sources,
           Checked(h, late, kind, do, s, row, entries, sources),
           DOMAIN entries \subseteq Entries, DOMAIN sources \subseteq Sources,
           \A e \in DOMAIN entries :
               entries[e] \in Entry \cup {Gone} /\ (entries[e] # Gone => entries[e].set = s),
           \A q \in DOMAIN sources :
               /\ sources[q] \in Source \cup {Gone}
               /\ sources[q] # Gone => sources[q].set = s /\ Sound(sources[q]),
           ~late =>
               /\ Owned(entry, entries, s) /\ Owned(source, sources, s)
               /\ do \in {"insert", "update"} /\ row.on =>
                      /\ Compiles(s, row.raw, Override(entry, entries), MergeAll(source, sources))
                      /\ Reaches(pool, row.target)
               /\ do = "lists" /\ set[s].on =>
                      Compiles(s, set[s].raw, Override(entry, entries), MergeAll(source, sources))
    PROVE  IInv'
<1> DEFINE j == [kind |-> "set", do |-> do, slug |-> s, row |-> row,
                 entries |-> entries, sources |-> sources, stale |-> late]
<1>1. job' = [job EXCEPT ![h] = j]
  BY DEF Checked
<1>2. /\ j \in SetJob({j.entries}, {j.sources}) /\ j.kind = "set" /\ j.do = do /\ j.slug = s
      /\ j.row = row /\ j.entries = entries /\ j.sources = sources /\ j.stale = late
  BY DEF SetJob
<1> HIDE DEF j
<1>3. SetRequest(j)
  BY <1>2 DEF SetRequest
<1>4. WritesItsSet(j)
  BY <1>2 DEF WritesItsSet
<1>5. ~j.stale => SetFits(j, pool, set, entry, source)
  BY <1>2 DEF SetFits
<1>6. JobOK(h, j)
  BY <1>3, <1>4, <1>5 DEF JobFits, JobOK
<1>7. /\ h \in Workers /\ Spend(kind) /\ queue' \subseteq Sources
      /\ UNCHANGED <<pool, rule, set, entry, source, content, raced, unchecked>>
  BY DEF Checked, Workers, IInv, TypeOK
<1> QED
  BY <1>1, <1>6, <1>7, OneJob

(* Tables under no rows and under one.                                      *)
LEMMA UnderNoRows ==
    ASSUME IInv
    PROVE  /\ DOMAIN NoRows = {}
           /\ Override(entry, NoRows) = entry
           /\ Override(source, NoRows) = source /\ MergeAll(source, NoRows) = source
<1>1. DOMAIN NoRows = {}
  BY DEF NoRows
<1>2. Override(entry, NoRows) = entry /\ Override(source, NoRows) = source
  BY <1>1, Shapes DEF Override
<1>3. MergeAll(source, NoRows) = source
  BY <1>1, Shapes DEF MergeAll, Override
<1> QED
  BY <1>1, <1>2, <1>3

LEMMA UnderOneRow ==
    ASSUME NEW q, NEW new
    PROVE  MergeAll(source, One(q, new)) = Override(source, One(q, Merged(q, new)))
<1>1. Merge(source, q, new) = Merged(q, new)
  BY DEF Merge, Merged
<1>2. [x \in DOMAIN One(q, new) |-> Merge(source, x, One(q, new)[x])] = One(q, Merge(source, q, new))
  BY DEF One
<1> QED
  BY <1>1, <1>2 DEF MergeAll

(* A set is written without its lists.                                      *)
LEMMA MetadataStep ==
    ASSUME IInv, NEW h \in Handlers, NEW kind \in Kinds, NEW do \in {"insert", "update"},
           NEW s \in Sets, NEW row \in Set, Prepare(h, kind, do, s, row, NoRows, NoRows),
           TargetAllowed(s, row.target),
           row.on => Compiles(s, row.raw, entry, source)
    PROVE  IInv'
<1>1. Reaches(pool, row.target)
  BY DEF TargetAllowed, Reaches, Enabled
<1>2. Owned(entry, NoRows, s) /\ Owned(source, NoRows, s)
  BY UnderNoRows DEF Owned
<1>3. row.on => Compiles(s, row.raw, Override(entry, NoRows), MergeAll(source, NoRows))
  BY UnderNoRows
<1>4. do \in {"insert", "update", "delete", "lists"} /\ do # "lists" /\ FALSE \in BOOLEAN
  OBVIOUS
<1>5. Checked(h, FALSE, kind, do, s, row, NoRows, NoRows) /\ DOMAIN NoRows = {}
  BY UnderNoRows DEF Prepare
<1> QED
  BY <1>1, <1>2, <1>3, <1>4, <1>5, CheckedStep

LEMMA UpdateSetStep ==
    ASSUME IInv, NEW h \in Handlers, UpdateSet(h)
    PROVE  IInv'
<1>1. PICK f \in UpdateForms :
          /\ TargetAllowed(f.slug, f.row.target)
          /\ Prepare(h, "set", "update", f.slug, f.row, NoRows, NoRows)
  BY DEF UpdateSet
<1>2. f.slug \in Sets /\ f.row \in Set /\ (f.row.on => f.row.raw)
  BY DEF UpdateForms, Set
<1>3. f.row.on => Compiles(f.slug, f.row.raw, entry, source)
  BY <1>2 DEF Compiles
<1> QED
  BY <1>1, <1>2, <1>3, MetadataStep DEF Kinds

LEMMA SaveOrCreateStep ==
    ASSUME IInv, NEW h \in Handlers, SaveSet(h) \/ CreateSet(h)
    PROVE  IInv'
<1>1. PICK s \in Sets, on \in BOOLEAN, raw \in BOOLEAN, t \in Targets, do \in {"insert", "update"} :
          /\ TargetAllowed(s, t)
          /\ on => Compiles(s, raw, entry, source)
          /\ Prepare(h, "set", do, s, [on |-> on, target |-> t, raw |-> raw], NoRows, NoRows)
  BY DEF SaveSet, CreateSet, Compiles
<1> DEFINE row == [on |-> on, target |-> t, raw |-> raw]
<1>2. row \in Set /\ row.on = on /\ row.target = t /\ row.raw = raw
  BY DEF Set
<1> HIDE DEF row
<1>3. Prepare(h, "set", do, s, row, NoRows, NoRows)
  BY <1>1 DEF row
<1> QED
  BY <1>1, <1>2, <1>3, MetadataStep DEF Kinds

LEMMA DeleteSetStep ==
    ASSUME IInv, NEW h \in Handlers, DeleteSet(h)
    PROVE  IInv'
<1>1. PICK s \in Sets : Checked(h, FALSE, "set", "delete", s, None, NoRows, NoRows)
  BY DEF DeleteSet, Prepare
<1>2. Owned(entry, NoRows, s) /\ Owned(source, NoRows, s) /\ DOMAIN NoRows = {}
  BY UnderNoRows DEF Owned
<1>3. "set" \in Kinds /\ FALSE \in BOOLEAN /\ None \in Set \cup {None}
  BY DEF Kinds
<1> QED
  BY <1>1, <1>2, <1>3, CheckedStep

(* Rows of a set are written, and leave it filled.                          *)
LEMMA EntriesStep ==
    ASSUME IInv, NEW h \in Handlers, NEW kind \in Kinds, NEW s \in Sets, NEW entries,
           Prepare(h, kind, "lists", s, None, entries, NoRows),
           StaysFilled(s, entries, NoRows), DOMAIN entries \subseteq Entries,
           \A e \in DOMAIN entries :
               /\ entries[e] \in Entry \cup {Gone} /\ (entries[e] # Gone => entries[e].set = s)
               /\ Row(entry, e) => entry[e].set = s
    PROVE  IInv'
<1>1. Owned(entry, entries, s) /\ Owned(source, NoRows, s)
  BY UnderNoRows DEF Owned
<1>2. set[s].on => Compiles(s, set[s].raw, Override(entry, entries), MergeAll(source, NoRows))
  BY UnderNoRows DEF StaysFilled
<1> QED
  BY <1>1, <1>2, UnderNoRows, CheckedStep DEF Prepare

LEMMA PutEntryStep ==
    ASSUME IInv, NEW h \in Handlers, PutEntry(h)
    PROVE  IInv'
<1>1. PICK e \in KnownEntries \cup Fresh(Entries, UsedEntries), new \in Entry :
          /\ Row(entry, e) => new.set = entry[e].set
          /\ Row(set, new.set) /\ StaysFilled(new.set, One(e, new), NoRows)
          /\ Prepare(h, "set", "lists", new.set, None, One(e, new), NoRows)
  BY DEF PutEntry
<1>2. e \in Entries /\ new.set \in Sets
  BY DEF KnownEntries, Fresh, Entry
<1>3. DOMAIN One(e, new) = {e} /\ One(e, new)[e] = new
  BY DEF One
<1> QED
  BY <1>1, <1>2, <1>3, EntriesStep DEF Kinds

LEMMA DropEntryStep ==
    ASSUME IInv, NEW h \in Handlers, DropEntry(h)
    PROVE  IInv'
<1>1. PICK e \in Entries :
          /\ Row(entry, e) /\ StaysFilled(entry[e].set, One(e, Gone), NoRows)
          /\ Prepare(h, "set", "lists", entry[e].set, None, One(e, Gone), NoRows)
  BY DEF DropEntry
<1>2. entry[e].set \in Sets
  BY <1>1, Shapes DEF Row, Entry
<1>3. DOMAIN One(e, Gone) = {e} /\ One(e, Gone)[e] = Gone
  BY DEF One
<1> QED
  BY <1>1, <1>2, <1>3, EntriesStep DEF Kinds

LEMMA BulkAddStep ==
    ASSUME IInv, NEW h \in Handlers, BulkAdd(h)
    PROVE  IInv'
<1>0. PICK s \in Sets, v \in Values, e \in Fresh(Entries, UsedEntries) :
          \E new \in {NoRows, One(e, [set |-> s, on |-> TRUE, value |-> v])} :
              StaysFilled(s, new, NoRows) /\ Prepare(h, "set", "lists", s, None, new, NoRows)
  BY DEF BulkAdd
<1>1. PICK new \in {NoRows, One(e, [set |-> s, on |-> TRUE, value |-> v])} :
          StaysFilled(s, new, NoRows) /\ Prepare(h, "set", "lists", s, None, new, NoRows)
  BY <1>0
<1>2. e \in Entries /\ ~Row(entry, e)
  BY DEF Fresh, UsedEntries, Row
<1>3. CASE new = NoRows
  BY <1>1, <1>3, UnderNoRows, EntriesStep DEF Kinds
<1>4. CASE new = One(e, [set |-> s, on |-> TRUE, value |-> v])
  <2> DEFINE row == [set |-> s, on |-> TRUE, value |-> v]
  <2>1. row \in Entry /\ row.set = s
    BY DEF Entry
  <2>2. DOMAIN new = {e} /\ new[e] = row
    BY <1>4 DEF One
  <2> HIDE DEF row
  <2> QED
    BY <1>1, <1>2, <2>1, <2>2, EntriesStep DEF Kinds
<1> QED
  BY <1>3, <1>4

LEMMA DeduplicateStep ==
    ASSUME IInv, NEW h \in Handlers, Deduplicate(h)
    PROVE  IInv'
<1>1. PICK s \in Sets, keep \in SUBSET Entries :
          LET drop == [e \in In(entry, s) \ keep |-> Gone]
          IN  StaysFilled(s, drop, NoRows) /\ Prepare(h, "set", "lists", s, None, drop, NoRows)
  BY DEF Deduplicate
<1> DEFINE drop == [e \in In(entry, s) \ keep |-> Gone]
<1>2. /\ DOMAIN drop \subseteq Entries
      /\ \A e \in DOMAIN drop : drop[e] = Gone /\ entry[e].set = s
  BY Shapes DEF In
<1>3. StaysFilled(s, drop, NoRows) /\ Prepare(h, "set", "lists", s, None, drop, NoRows)
  BY <1>1
<1> HIDE DEF drop
<1> QED
  BY <1>2, <1>3, EntriesStep DEF Kinds

(* A source of a set is written, and leaves it filled.                      *)
LEMMA SourceRowStep ==
    ASSUME IInv, NEW h \in Handlers, NEW s \in Sets, NEW q \in Sources, NEW new \in Source \cup {Gone},
           Prepare(h, "source", "lists", s, None, NoRows, One(q, new)),
           StaysFilled(s, NoRows, One(q, Merged(q, new))),
           new # Gone => new.set = s /\ Sound(new),
           Row(source, q) => source[q].set = s
    PROVE  IInv'
<1>1. DOMAIN One(q, new) = {q} /\ One(q, new)[q] = new
  BY DEF One
<1>2. Owned(source, One(q, new), s) /\ Owned(entry, NoRows, s)
  BY <1>1, UnderNoRows DEF Owned
<1>3. set[s].on => Compiles(s, set[s].raw, Override(entry, NoRows), MergeAll(source, One(q, new)))
  BY UnderOneRow DEF StaysFilled
<1>4. "source" \in Kinds /\ FALSE \in BOOLEAN /\ None \in Set \cup {None} /\ DOMAIN NoRows = {}
  BY UnderNoRows DEF Kinds
<1>5. Checked(h, FALSE, "source", "lists", s, None, NoRows, One(q, new))
  BY DEF Prepare
<1>6. \A x \in DOMAIN One(q, new) :
         /\ One(q, new)[x] \in Source \cup {Gone}
         /\ One(q, new)[x] # Gone => One(q, new)[x].set = s /\ Sound(One(q, new)[x])
  BY <1>1
<1> DEFINE rows == One(q, new)
<1>7. DOMAIN rows \subseteq Sources
  BY <1>1
<1> HIDE DEF rows
<1> QED
  BY <1>2, <1>3, <1>4, <1>5, <1>6, <1>7, CheckedStep DEF rows

LEMMA PutSourceStep ==
    ASSUME IInv, NEW h \in Handlers, PutSource(h)
    PROVE  IInv'
<1>1. PICK q \in KnownSources \cup Fresh(Sources, UsedSources), s \in Sets, u \in Urls, on \in BOOLEAN :
          LET new == [set |-> s, url |-> u, on |-> on, cache |-> None, tag |-> None]
          IN  /\ Row(source, q) => s = source[q].set
              /\ StaysFilled(s, NoRows, One(q, Merged(q, new)))
              /\ Prepare(h, "source", "lists", s, None, NoRows, One(q, new))
  BY DEF PutSource
<1> DEFINE new == [set |-> s, url |-> u, on |-> on, cache |-> None, tag |-> None]
<1>2. new \in Source /\ new.set = s /\ Sound(new)
  BY DEF Source, Sound
<1>3. q \in Sources
  BY DEF KnownSources, Fresh
<1>4. /\ Row(source, q) => source[q].set = s
      /\ StaysFilled(s, NoRows, One(q, Merged(q, new)))
      /\ Prepare(h, "source", "lists", s, None, NoRows, One(q, new))
  BY <1>1
<1> HIDE DEF new
<1> QED
  BY <1>2, <1>3, <1>4, SourceRowStep

LEMMA DropSourceStep ==
    ASSUME IInv, NEW h \in Handlers, DropSource(h)
    PROVE  IInv'
<1>1. PICK q \in Sources :
          /\ Row(source, q) /\ StaysFilled(source[q].set, NoRows, One(q, Gone))
          /\ Prepare(h, "source", "lists", source[q].set, None, NoRows, One(q, Gone))
  BY DEF DropSource
<1>2. source[q].set \in Sets
  BY <1>1, Shapes DEF Row, Source
<1>3. Merged(q, Gone) = Gone
  BY DEF Merged
<1> QED
  BY <1>1, <1>2, <1>3, SourceRowStep

(* The copies of the rows of a set are those rows, under other IDs.         *)
LEMMA CopiesAre ==
    ASSUME NEW t, NEW s, NEW r, NEW T, NEW ids \in Injections(In(t, s), T)
    PROVE  /\ DOMAIN Copies(t, s, r, ids) \subseteq T
           /\ \A x \in In(t, s) :
                 /\ ids[x] \in DOMAIN Copies(t, s, r, ids)
                 /\ Copies(t, s, r, ids)[ids[x]] = [t[x] EXCEPT !.set = r]
           /\ \A i \in DOMAIN Copies(t, s, r, ids) :
                 \E x \in In(t, s) : Copies(t, s, r, ids)[i] = [t[x] EXCEPT !.set = r]
<1> DEFINE D == {ids[x] : x \in In(t, s)}
           origin(i) == CHOOSE x \in In(t, s) : ids[x] = i
<1>1. DOMAIN Copies(t, s, r, ids) = D
  BY DEF Copies
<1>2. \A i \in D : Copies(t, s, r, ids)[i] = [t[origin(i)] EXCEPT !.set = r]
  BY DEF Copies
<1>3. \A i \in D : origin(i) \in In(t, s) /\ ids[origin(i)] = i
  OBVIOUS
<1> HIDE DEF origin
<1>4. \A x \in In(t, s) : ids[x] \in D /\ origin(ids[x]) = x
  BY <1>3 DEF Injections
<1>5. D \subseteq T
  BY DEF Injections
<1> HIDE DEF D
<1> QED
  BY <1>1, <1>2, <1>3, <1>4, <1>5

(* A copy of a set that compiles compiles.                                  *)
LEMMA CopyCompiles ==
    ASSUME IInv, NEW s \in Sets, NEW r \in Sets, NEW raw, Compiles(s, raw, entry, source),
           NEW ie \in Injections(In(entry, s), Entries \ UsedEntries),
           NEW is \in Injections(In(source, s), Sources \ UsedSources)
    PROVE  Compiles(r, raw, Override(entry, Copies(entry, s, r, ie)),
                    MergeAll(source, Copies(source, s, r, is)))
<1> DEFINE E == Copies(entry, s, r, ie)
           S == Copies(source, s, r, is)
<1>1. /\ DOMAIN E \subseteq Entries \ UsedEntries
      /\ \A x \in In(entry, s) : ie[x] \in DOMAIN E /\ E[ie[x]] = [entry[x] EXCEPT !.set = r]
  BY CopiesAre
<1>2. /\ DOMAIN S \subseteq Sources \ UsedSources
      /\ \A x \in In(source, s) : is[x] \in DOMAIN S /\ S[is[x]] = [source[x] EXCEPT !.set = r]
  BY CopiesAre
<1> HIDE DEF E, S
<1>3. CASE raw
  BY <1>3 DEF Compiles
<1>4. CASE \E e \in In(entry, s) : entry[e].on
  <2>1. PICK e \in In(entry, s) : entry[e].on
    BY <1>4
  <2> DEFINE A == Override(entry, E)
  <2>2. entry[e] \in Entry /\ e \in Entries /\ ie[e] \in Entries
    BY <1>1, Shapes DEF In, Row
  <2>3. A[ie[e]] = [entry[e] EXCEPT !.set = r] /\ ie[e] \in DOMAIN A
    BY <1>1, <2>2, Shapes DEF Override
  <2> HIDE DEF A
  <2>4. A[ie[e]] \in Entry /\ A[ie[e]].set = r /\ A[ie[e]].on
    BY <2>1, <2>2, <2>3 DEF Entry
  <2>5. ie[e] \in In(A, r)
    BY <2>3, <2>4, NoRow DEF In, Row
  <2> QED
    BY <2>4, <2>5 DEF A, E, Compiles
<1>5. CASE \E q \in In(source, s) : source[q].on /\ source[q].cache # None
  <2>1. PICK q \in In(source, s) : source[q].on /\ source[q].cache # None
    BY <1>5
  <2> DEFINE A == MergeAll(source, S)
  <2>2. source[q] \in Source /\ q \in Sources /\ is[q] \in Sources /\ source[is[q]] = None
    BY <1>2, Shapes DEF In, Row, UsedSources
  <2>3. A[is[q]] = Merge(source, is[q], S[is[q]]) /\ is[q] \in DOMAIN A
    BY <1>2, <2>2, Shapes DEF MergeAll, Override
  <2>4. A[is[q]] = [source[q] EXCEPT !.set = r]
    BY <1>2, <2>2, <2>3 DEF Merge, Row
  <2> HIDE DEF A
  <2>5. A[is[q]] \in Source /\ A[is[q]].set = r /\ A[is[q]].on /\ A[is[q]].cache # None
    BY <2>1, <2>2, <2>4 DEF Source
  <2>6. is[q] \in In(A, r)
    BY <2>3, <2>5, NoRow DEF In, Row
  <2> QED
    BY <2>5, <2>6 DEF A, S, Compiles
<1> QED
  BY <1>3, <1>4, <1>5 DEF Compiles

LEMMA CloneSetStep ==
    ASSUME IInv, NEW h \in Handlers, CloneSet(h)
    PROVE  IInv'
<1>1. PICK s \in Sets, r \in Sets :
          /\ Row(set, s) /\ TargetAllowed(r, set[s].target)
          /\ \E ie \in Injections(In(entry, s), Entries \ UsedEntries),
                is \in Injections(In(source, s), Sources \ UsedSources) :
                Checked(h, s \in raced, "set", "insert", r, set[s],
                        Copies(entry, s, r, ie), Copies(source, s, r, is))
  BY DEF CloneSet
<1>2. PICK ie \in Injections(In(entry, s), Entries \ UsedEntries),
           is \in Injections(In(source, s), Sources \ UsedSources) :
          Checked(h, s \in raced, "set", "insert", r, set[s],
                  Copies(entry, s, r, ie), Copies(source, s, r, is))
  BY <1>1
<1> DEFINE E == Copies(entry, s, r, ie)
           S == Copies(source, s, r, is)
<1>3. /\ DOMAIN E \subseteq Entries \ UsedEntries
      /\ \A i \in DOMAIN E : \E x \in In(entry, s) : E[i] = [entry[x] EXCEPT !.set = r]
  BY CopiesAre
<1>4. /\ DOMAIN S \subseteq Sources \ UsedSources
      /\ \A i \in DOMAIN S : \E x \in In(source, s) : S[i] = [source[x] EXCEPT !.set = r]
  BY CopiesAre
<1>5. ASSUME s \notin raced, set[s].on
      PROVE  Compiles(r, set[s].raw, Override(entry, E), MergeAll(source, S))
  <2>1. Compiles(s, set[s].raw, entry, source)
    BY <1>1, <1>5 DEF IInv, SetsAreServable
  <2> QED
    BY <2>1, CopyCompiles
<1>6. Checked(h, s \in raced, "set", "insert", r, set[s], E, S)
  BY <1>2
<1> HIDE DEF E, S
<1>7. \A e \in DOMAIN E : E[e] \in Entry \cup {Gone} /\ (E[e] # Gone => E[e].set = r)
  <2> SUFFICES ASSUME NEW e \in DOMAIN E PROVE E[e] \in Entry /\ E[e].set = r
    OBVIOUS
  <2>1. PICK x \in In(entry, s) : E[e] = [entry[x] EXCEPT !.set = r]
    BY <1>3
  <2>2. entry[x] \in Entry
    BY Shapes DEF In, Row
  <2> QED
    BY <2>1, <2>2 DEF Entry
<1>8. \A q \in DOMAIN S :
         /\ S[q] \in Source \cup {Gone}
         /\ S[q] # Gone => S[q].set = r /\ Sound(S[q])
  <2> SUFFICES ASSUME NEW q \in DOMAIN S PROVE S[q] \in Source /\ S[q].set = r /\ Sound(S[q])
    OBVIOUS
  <2>1. PICK x \in In(source, s) : S[q] = [source[x] EXCEPT !.set = r]
    BY <1>4
  <2>2. source[x] \in Source /\ Sound(source[x])
    BY Shapes DEF In, Row, IInv, RowsSound
  <2> QED
    BY <2>1, <2>2 DEF Source, Sound
<1>9. Owned(entry, E, r) /\ Owned(source, S, r)
  BY <1>3, <1>4 DEF Owned, Row, UsedEntries, UsedSources
<1>10. Reaches(pool, set[s].target) /\ set[s] \in Set \cup {None}
  BY <1>1, Shapes DEF TargetAllowed, Reaches, Enabled
<1>11. "set" \in Kinds /\ DOMAIN E \subseteq Entries /\ DOMAIN S \subseteq Sources
  BY <1>3, <1>4 DEF Kinds
<1> DEFINE late == s \in raced
<1>12. Checked(h, late, "set", "insert", r, set[s], E, S) /\ late \in BOOLEAN
  BY <1>6
<1>13. ~late /\ set[s].on =>
           Compiles(r, set[s].raw, Override(entry, E), MergeAll(source, S))
  BY <1>5
<1> HIDE DEF late
<1>14. ~late =>
           /\ Owned(entry, E, r) /\ Owned(source, S, r)
           /\ "insert" \in {"insert", "update"} /\ set[s].on =>
                  /\ Compiles(r, set[s].raw, Override(entry, E), MergeAll(source, S))
                  /\ Reaches(pool, set[s].target)
           /\ "insert" = "lists" /\ set[r].on =>
                  Compiles(r, set[r].raw, Override(entry, E), MergeAll(source, S))
  BY <1>9, <1>10, <1>13
<1> QED
  BY <1>7, <1>8, <1>10, <1>11, <1>12, <1>14, CheckedStep

(* A set whose rows are all still there compiles as before.                 *)
LEMMA CompilesKept ==
    ASSUME NEW s, NEW raw, NEW en, NEW so, NEW en2, NEW so2, Compiles(s, raw, en, so),
           \A e \in In(en, s) : e \in DOMAIN en2 /\ en2[e] = en[e],
           \A q \in In(so, s) : q \in DOMAIN so2 /\ so2[q] = so[q]
    PROVE  Compiles(s, raw, en2, so2)
<1>1. \A e \in In(en, s) : e \in In(en2, s)
  BY DEF In, Row
<1>2. \A q \in In(so, s) : q \in In(so2, s)
  BY DEF In, Row
<1> QED
  BY <1>1, <1>2 DEF Compiles

(* The tables that a commit of j leaves.                                    *)
LEMMA CommittedTables ==
    ASSUME IInv, NEW h \in Handlers, CommitSet(h), NEW j, j = job[h]
    PROVE  /\ SetRequest(j) /\ WritesItsSet(j) /\ (~j.stale => SetFits(j, pool, set, entry, source))
           /\ entry' = IF j.do = "delete" THEN Cascade(entry, j.slug) ELSE Override(entry, j.entries)
           /\ source' = IF j.do = "delete" THEN Cascade(source, j.slug) ELSE MergeAll(source, j.sources)
           /\ entry' \in [Entries -> Entry \cup {None, Gone}]
           /\ source' \in SourceTables
<1>1. /\ j # None /\ j.kind = "set"
      /\ entry' = IF j.do = "delete" THEN Cascade(entry, j.slug) ELSE Override(entry, j.entries)
      /\ source' = IF j.do = "delete" THEN Cascade(source, j.slug)
                   ELSE Override(source, [q \in DOMAIN j.sources |-> Merged(q, j.sources[q])])
  BY DEF CommitSet, Idle
<1>2. JobOK(h, j)
  BY DEF IInv, JobsOK, Workers
<1>3. SetRequest(j) /\ WritesItsSet(j) /\ (~j.stale => SetFits(j, pool, set, entry, source))
  BY <1>1, <1>2, KindOf
<1>4. [q \in DOMAIN j.sources |-> Merged(q, j.sources[q])]
          = [q \in DOMAIN j.sources |-> Merge(source, q, j.sources[q])]
  BY DEF Merge, Merged
<1>5. source' = IF j.do = "delete" THEN Cascade(source, j.slug) ELSE MergeAll(source, j.sources)
  BY <1>1, <1>4 DEF MergeAll
<1>6. /\ Cascade(entry, j.slug) \in [Entries -> Entry \cup {None, Gone}]
      /\ Cascade(source, j.slug) \in SourceTables
  BY Shapes DEF Cascade, SourceTables
<1>7. Override(entry, j.entries) \in [Entries -> Entry \cup {None, Gone}]
  <2>1. \A e \in DOMAIN j.entries : j.entries[e] \in Entry \cup {Gone}
    BY <1>3 DEF SetRequest
  <2> QED
    BY <2>1, Shapes DEF Override
<1>8. MergeAll(source, j.sources) \in SourceTables
  <2>1. /\ DOMAIN j.sources \subseteq Sources
        /\ \A q \in DOMAIN j.sources : j.sources[q] \in Source \cup {Gone}
    BY <1>3 DEF SetRequest
  <2>2. source \in SourceTables
    BY Shapes DEF SourceTables
  <2> QED
    BY <2>1, <2>2, MergeAllIs
<1> QED
  BY <1>1, <1>3, <1>5, <1>6, <1>7, <1>8

(* Validators that are written have their payload.                          *)
LEMMA CommitKeepsRowsSound ==
    ASSUME IInv, NEW h \in Handlers, CommitSet(h)
    PROVE  RowsSound'
<1> DEFINE j == job[h]
<1>1. /\ SetRequest(j) /\ WritesItsSet(j)
      /\ source' = IF j.do = "delete" THEN Cascade(source, j.slug) ELSE MergeAll(source, j.sources)
  BY CommittedTables
<1> HIDE DEF j
<1> SUFFICES ASSUME NEW q \in Sources, Row(source', q) PROVE Sound(source'[q])
  BY DEF RowsSound
<1>2. Row(source, q) => Sound(source[q]) /\ source[q] \in Source
  BY Shapes DEF IInv, RowsSound, Row
<1>3. CASE j.do = "delete"
  BY <1>1, <1>2, <1>3, Shapes DEF Cascade, Row
<1>4. CASE j.do # "delete"
  <2>1. /\ DOMAIN j.sources \subseteq Sources
        /\ \A r \in DOMAIN j.sources : j.sources[r] \in Source \cup {Gone}
    BY <1>1 DEF SetRequest
  <2>2. source'[q] = IF q \in DOMAIN j.sources THEN Merge(source, q, j.sources[q]) ELSE source[q]
    BY <1>1, <1>4, <2>1, MergeAllIs, Shapes DEF SourceTables
  <2>3. CASE q \notin DOMAIN j.sources
    BY <1>2, <2>2, <2>3 DEF Row
  <2>4. CASE q \in DOMAIN j.sources
    <3>1. j.sources[q] # Gone /\ j.sources[q] \in Source /\ Sound(j.sources[q])
      BY <1>1, <2>1, <2>2, <2>4 DEF Merge, WritesItsSet, Row
    <3>2. CASE ~Row(source, q)
      BY <3>1, <3>2, <2>2, <2>4 DEF Merge
    <3>3. CASE Row(source, q)
      <4>1. source'[q] = [j.sources[q] EXCEPT !.cache = source[q].cache, !.tag = source[q].tag]
        BY <3>1, <3>3, <2>2, <2>4 DEF Merge
      <4>2. source'[q].cache = source[q].cache /\ source'[q].tag = source[q].tag
        BY <4>1, <3>1 DEF Source
      <4> QED
        BY <4>2, <1>2, <3>3 DEF Sound
    <3> QED
      BY <3>2, <3>3
  <2> QED
    BY <2>3, <2>4
<1> QED
  BY <1>3, <1>4

(* Sets of which no row was touched keep theirs.                            *)
LEMMA CommitKeepsOthers ==
    ASSUME IInv, NEW h \in Handlers, CommitSet(h), NEW s \in Sets \ raced', s # job[h].slug
    PROVE  /\ s \notin raced /\ set'[s] = set[s]
           /\ \A e \in In(entry, s) : e \in DOMAIN entry' /\ entry'[e] = entry[e]
           /\ \A q \in In(source, s) : q \in DOMAIN source' /\ source'[q] = source[q]
<1> DEFINE j == job[h]
<1>1. /\ SetRequest(j) /\ (~j.stale => SetFits(j, pool, set, entry, source))
      /\ entry' = IF j.do = "delete" THEN Cascade(entry, j.slug) ELSE Override(entry, j.entries)
      /\ source' = IF j.do = "delete" THEN Cascade(source, j.slug) ELSE MergeAll(source, j.sources)
  BY CommittedTables
<1>2. /\ raced' = IF j.stale THEN raced \cup Touched(j) ELSE raced
      /\ set' = CASE j.do \in {"insert", "update"} -> [set EXCEPT ![j.slug] = j.row]
                  [] j.do = "delete" -> [set EXCEPT ![j.slug] = None]
                  [] OTHER -> set
  BY DEF CommitSet
<1>3. j.do \in {"insert", "update", "delete", "lists"} /\ j.slug \in Sets
  BY <1>1 DEF SetRequest, SetJob
<1> HIDE DEF j
<1>4. s \notin raced /\ (j.stale => s \notin Touched(j))
  BY <1>2
<1>5. set'[s] = set[s]
  BY <1>2, <1>3, Shapes DEF j
<1>6. ASSUME NEW e \in In(entry, s) PROVE e \in DOMAIN entry' /\ entry'[e] = entry[e]
  <2>1. e \in Entries /\ Row(entry, e) /\ entry[e].set = s /\ s # j.slug
    BY Shapes DEF In, j
  <2>2. CASE j.do = "delete"
    BY <2>1, <2>2, <1>1, Shapes DEF Cascade, In
  <2>3. CASE j.do # "delete"
    <3>1. e \notin DOMAIN j.entries
      BY <2>1, <1>1, <1>4 DEF SetFits, Owned, Touched, Of
    <3> QED
      BY <3>1, <2>1, <2>3, <1>1, Shapes DEF Override
  <2> QED
    BY <2>2, <2>3
<1>7. ASSUME NEW q \in In(source, s) PROVE q \in DOMAIN source' /\ source'[q] = source[q]
  <2>1. q \in Sources /\ Row(source, q) /\ source[q].set = s /\ s # j.slug
    BY Shapes DEF In, j
  <2>2. CASE j.do = "delete"
    BY <2>1, <2>2, <1>1, Shapes DEF Cascade, In
  <2>3. CASE j.do # "delete"
    <3>1. q \notin DOMAIN j.sources
      BY <2>1, <1>1, <1>4 DEF SetFits, Owned, Touched, Of
    <3> QED
      BY <3>1, <2>1, <2>3, <1>1, Shapes DEF MergeAll, Override
  <2> QED
    BY <2>2, <2>3
<1> QED
  BY <1>4, <1>5, <1>6, <1>7

(* The transaction of a form of a rule set.                                 *)
LEMMA CommitSetStep ==
    ASSUME IInv, NEW h \in Handlers, CommitSet(h)
    PROVE  IInv'
<1> DEFINE j == job[h]
<1>1. /\ SetRequest(j) /\ WritesItsSet(j) /\ (~j.stale => SetFits(j, pool, set, entry, source))
      /\ entry' = IF j.do = "delete" THEN Cascade(entry, j.slug) ELSE Override(entry, j.entries)
      /\ source' = IF j.do = "delete" THEN Cascade(source, j.slug) ELSE MergeAll(source, j.sources)
      /\ entry' \in [Entries -> Entry \cup {None, Gone}]
      /\ source' \in SourceTables
  BY CommittedTables
<1>2. /\ raced' = IF j.stale THEN raced \cup Touched(j) ELSE raced
      /\ set' = CASE j.do \in {"insert", "update"} -> [set EXCEPT ![j.slug] = j.row]
                  [] j.do = "delete" -> [set EXCEPT ![j.slug] = None]
                  [] OTHER -> set
      /\ FinishAndOutdate(h)
      /\ UNCHANGED <<pool, rule, content, queue, left, unchecked>>
  BY DEF CommitSet
<1>3. /\ j.do \in {"insert", "update", "delete", "lists"} /\ j.slug \in Sets
      /\ j.row \in Set \cup {None}
  BY <1>1 DEF SetRequest, SetJob
<1>4. JobsOK'
  BY <1>2, OutdateStep
<1>5. RowsSound'
  BY CommitKeepsRowsSound
<1>6. TypeOK'
  <2>1. set' \in [Sets -> Set \cup {None}]
    BY <1>2, <1>3, Shapes
  <2>2. Touched(j) \subseteq Sets
    <3>1. DOMAIN j.entries \subseteq Entries /\ DOMAIN j.sources \subseteq Sources
      BY <1>1 DEF SetRequest
    <3> HIDE DEF j
    <3>2. Of(entry, j.entries) \subseteq Sets
      BY <3>1, Shapes DEF Of, Row, Entry
    <3>3. Of(source, j.sources) \subseteq Sets
      BY <3>1, Shapes DEF Of, Row, Source
    <3> QED
      BY <1>3, <3>2, <3>3 DEF Touched
  <2>3. raced' \subseteq Sets
    BY <1>2, <2>2 DEF IInv, TypeOK
  <2>4. /\ \A g \in Handlers :
               (Idle(g) \/ PolicyRequest(job[g]) \/ SetRequest(job[g]) \/ Refreshing(job[g]))'
        /\ (Idle(Scheduler) \/ Refreshing(job[Scheduler]))'
    BY <1>4, NoRow DEF JobsOK, JobFits, JobOK, Idle, Workers
  <2> QED
    BY <1>1, <1>2, <2>1, <2>3, <2>4 DEF IInv, TypeOK, SourceTables
<1>7. DatesLeft' /\ PolicyHolds'
  BY <1>2 DEF IInv, DatesLeft, PolicyHolds
<1>8. SetsAreServable'
  <2> SUFFICES ASSUME NEW s \in Sets \ raced', Row(set', s), set'[s].on
               PROVE  /\ Compiles(s, set'[s].raw, entry', source')
                      /\ Reaches(pool, set'[s].target)
    BY <1>2 DEF SetsAreServable, Reaches
  <2>1. CASE s # j.slug
    <3>1. /\ s \notin raced /\ set'[s] = set[s]
          /\ \A e \in In(entry, s) : e \in DOMAIN entry' /\ entry'[e] = entry[e]
          /\ \A q \in In(source, s) : q \in DOMAIN source' /\ source'[q] = source[q]
      BY <2>1, CommitKeepsOthers
    <3>2. Row(set, s) /\ set[s].on
      BY <3>1 DEF Row
    <3>3. Compiles(s, set[s].raw, entry, source) /\ Reaches(pool, set[s].target)
      BY <3>1, <3>2, TargetsReach DEF IInv, SetsAreServable
    <3> QED
      BY <3>1, <3>3, CompilesKept
  <2>2. CASE s = j.slug
    <3>1. ~j.stale /\ s \notin raced /\ SetFits(j, pool, set, entry, source)
      BY <2>2, <1>1, <1>2 DEF Touched
    <3>2. CASE j.do \in {"insert", "update"}
      <4>1. set'[s] = j.row
        BY <2>2, <3>2, <1>2, <1>3, Shapes
      <4>2. entry' = Override(entry, j.entries) /\ source' = MergeAll(source, j.sources)
        BY <1>1, <3>2
      <4> QED
        BY <4>1, <4>2, <3>1, <3>2, <2>2 DEF SetFits
    <3>3. CASE j.do = "delete"
      <4>1. set'[s] = None
        BY <2>2, <3>3, <1>2, <1>3, Shapes
      <4> QED
        BY <4>1 DEF Row
    <3>4. CASE j.do = "lists"
      <4>1. set' = set
        BY <3>4, <1>2
      <4>2. entry' = Override(entry, j.entries) /\ source' = MergeAll(source, j.sources)
        BY <1>1, <3>4
      <4>3. Row(set, s) /\ set[s].on
        BY <4>1 DEF Row
      <4>4. Reaches(pool, set[s].target)
        BY <4>3, <3>1, TargetsReach
      <4> QED
        BY <4>1, <4>2, <4>3, <4>4, <3>1, <3>4, <2>2 DEF SetFits
    <3> QED
      BY <3>2, <3>3, <3>4, <1>3
  <2> QED
    BY <2>1, <2>2
<1> QED
  BY <1>4, <1>5, <1>6, <1>7, <1>8 DEF IInv

-----------------------------------------------------------------------------
(* The theorems *)

(* An installation to start with: its set is filled by one entry, and leads *)
(* where the policy leads.                                                  *)
LEMMA InitOK ==
    ASSUME Init
    PROVE  IInv
<1>1. PICK i \in Scenarios :
          /\ pool = i.policy.pool /\ rule = i.policy.rule
          /\ set = [s \in Sets |->
                      IF s = i.home THEN [on |-> TRUE, target |-> i.target, raw |-> FALSE]
                      ELSE IF s = Custom THEN [on |-> FALSE, target |-> "DIRECT", raw |-> FALSE]
                      ELSE None]
          /\ \E e \in Fresh(Entries, {}), v \in Values :
                entry = [x \in Entries |->
                           IF x = e THEN [set |-> i.home, on |-> TRUE, value |-> v] ELSE None]
          /\ \E q \in Fresh(Sources, {}) :
                source \in IF i.urls = {} THEN {[x \in Sources |-> None]}
                           ELSE {[x \in Sources |->
                                    IF x = q THEN [set |-> i.home, url |-> u, on |-> TRUE,
                                                   cache |-> None, tag |-> None]
                                    ELSE None] : u \in i.urls}
          /\ left = i.left
  BY DEF Init
<1>2. /\ i.policy \in Policy /\ Valid(i.policy) /\ i.home \in Sets
      /\ i.target \in {"DIRECT"} \cup Enabled(i.policy)
      /\ i.urls \subseteq Urls /\ i.left \in [Kinds -> 0..9]
  BY <1>1, ScenariosAssumption DEF ScenariosAssumption
<1>3. PICK e \in Fresh(Entries, {}), v \in Values :
          entry = [x \in Entries |->
                     IF x = e THEN [set |-> i.home, on |-> TRUE, value |-> v] ELSE None]
  BY <1>1
<1>4. e \in Entries /\ [set |-> i.home, on |-> TRUE, value |-> v] \in Entry
  BY <1>2 DEF Fresh, Entry
<1>5. entry \in [Entries -> Entry \cup {None, Gone}]
  BY <1>3, <1>4
<1>6. source \in [Sources -> Source \cup {None, Gone}] /\ RowsSound
  <2>1. PICK q \in Fresh(Sources, {}) :
            source \in IF i.urls = {} THEN {[x \in Sources |-> None]}
                       ELSE {[x \in Sources |->
                                IF x = q THEN [set |-> i.home, url |-> u, on |-> TRUE,
                                               cache |-> None, tag |-> None]
                                ELSE None] : u \in i.urls}
    BY <1>1
  <2>2. CASE source = [x \in Sources |-> None]
    BY <2>2 DEF RowsSound, Row
  <2>3. CASE source # [x \in Sources |-> None]
    <3>1. PICK u \in i.urls :
              source = [x \in Sources |->
                          IF x = q THEN [set |-> i.home, url |-> u, on |-> TRUE,
                                         cache |-> None, tag |-> None]
                          ELSE None]
      BY <2>1, <2>3
    <3> DEFINE row == [set |-> i.home, url |-> u, on |-> TRUE, cache |-> None, tag |-> None]
    <3>2. row \in Source /\ row.tag = None
      BY <1>2 DEF Source
    <3>3. source = [x \in Sources |-> IF x = q THEN row ELSE None]
      BY <3>1
    <3> HIDE DEF row
    <3> QED
      BY <3>2, <3>3 DEF RowsSound, Row, Sound
  <2> QED
    BY <2>2, <2>3
<1>7. i.target \in Targets /\ Custom \in Sets
  BY <1>2, RoutingAssumption DEF RoutingAssumption, Targets, Enabled
<1>8. set \in [Sets -> Set \cup {None}]
  BY <1>1, <1>7 DEF Set, Targets
<1>9. job = [w \in Workers |-> None] /\ JobsOK
  BY DEF Init, JobsOK, JobFits, JobOK
<1>10. [pool |-> pool, rule |-> rule] = i.policy
  BY <1>1, <1>2 DEF Policy
<1>11. TypeOK
  <2>1. content \in [Urls -> Dates]
    BY DEF Init, Dates
  <2> QED
    BY <1>1, <1>2, <1>5, <1>6, <1>8, <1>9, <1>10, <2>1 DEF Init, TypeOK, Idle, Workers
<1>12. DatesLeft
  <2>1. left["publish"] \in 0..9 /\ \A u \in Urls : content[u] = 0
    BY <1>1, <1>2 DEF Init, Kinds
  <2> QED
    BY <2>1 DEF DatesLeft
<1>13. PolicyHolds
  BY <1>2, <1>10 DEF PolicyHolds
<1>14. SetsAreServable
  <2> SUFFICES ASSUME NEW s \in Sets, Row(set, s), set[s].on
               PROVE  Compiles(s, set[s].raw, entry, source) /\ Reaches(pool, set[s].target)
    BY DEF SetsAreServable, Reaches
  <2>1. s = i.home /\ set[s].target = i.target
    BY <1>1 DEF Row
  <2>2. e \in In(entry, s) /\ entry[e].on
    BY <2>1, <1>3, <1>4, NoRow DEF In, Row
  <2>3. Reaches(pool, set[s].target)
    BY <2>1, <1>1, <1>2 DEF Reaches, Enabled
  <2> QED
    BY <2>2, <2>3 DEF Compiles
<1> QED
  BY <1>6, <1>9, <1>11, <1>12, <1>13, <1>14 DEF IInv

LEMMA NextOK ==
    ASSUME IInv, [Next]_vars
    PROVE  IInv'
<1>1. CASE \E h \in Handlers : PolicyForm(h)
  BY <1>1, SubmitPolicyStep, SavePoolStep, DeletePoolStep, SaveRuleStep, DeleteRuleStep,
     CommitPolicyStep DEF PolicyForm
<1>2. CASE \E h \in Handlers : SetForm(h)
  BY <1>2, UpdateSetStep, SaveOrCreateStep, DeleteSetStep, CloneSetStep, PutEntryStep,
     DropEntryStep, BulkAddStep, DeduplicateStep, PutSourceStep, DropSourceStep, CommitSetStep
     DEF SetForm
<1>3. CASE \E h \in Handlers : AskRefresh(h)
  <2>1. PICK h \in Handlers, q \in Sources : Spend("source") /\ Begin(h, q) /\ UNCHANGED queue
    BY <1>3 DEF AskRefresh
  <2> QED
    BY <2>1, BeginStep DEF Workers, Kinds, IInv, TypeOK
<1>4. CASE \E h \in Handlers : Reject(h)
  BY <1>4, RejectStep
<1>5. CASE \E w \in Workers : Refresh(w)
  BY <1>5, FetchStep, FetchFailsStep, WriteBackStep DEF Refresh
<1>6. CASE NextSource
  <2>1. PICK q \in queue :
            /\ queue' = queue \ {q} /\ UNCHANGED left
            /\ \/ Begin(Scheduler, q)
               \/ UNCHANGED <<pool, rule, set, entry, source, content, job, raced, unchecked>>
    BY <1>6 DEF NextSource
  <2>2. q \in Sources /\ queue' \subseteq Sources
    BY <2>1 DEF IInv, TypeOK
  <2>3. CASE Begin(Scheduler, q)
    BY <2>1, <2>2, <2>3, BeginStep DEF Workers
  <2>4. CASE UNCHANGED <<pool, rule, set, entry, source, content, job, raced, unchecked>>
    <3>1. job' = [w \in Workers |-> job'[w]] /\ \A w \in Workers : job'[w] = job[w]
      BY <2>4, Shapes
    <3>2. content' \in [Urls -> Dates] /\ left' \in [Kinds -> 0..9] /\ DatesLeft'
      BY <2>1, <2>4 DEF IInv, TypeOK, DatesLeft
    <3> QED
      BY <2>2, <2>4, <3>1, <3>2, Framed
  <2> QED
    BY <2>1, <2>3, <2>4
<1>7. CASE (\E Q \in SUBSET Sources : Pass(Q)) \/ (\E u \in Urls : Publish(u)) \/ UNCHANGED vars
  BY <1>7, OtherSteps
<1> QED
  BY <1>1, <1>2, <1>3, <1>4, <1>5, <1>6, <1>7 DEF Next

(* Whatever forms, refreshes and publications overlap.                      *)
THEOREM Invariance == Spec => []IInv
<1>1. Init => IInv
  BY InitOK
<1>2. IInv /\ [Next]_vars => IInv'
  BY NextOK
<1> QED
  BY <1>1, <1>2, PTL DEF Spec

(* Rows and requests have the shapes that the code reads them back into.    *)
THEOREM Typing == Spec => []TypeOK
<1>1. IInv => TypeOK
  BY DEF IInv
<1> QED
  BY <1>1, Invariance, PTL

(* load_client_policy and save_client_policy: no overlap of forms saves a   *)
(* policy that a subscription would refuse, but for a rule that was deleted *)
(* from a policy loaded in two halves, which nothing checks.                *)
THEOREM SavedPoliciesValidate == Spec => []PolicyHolds
<1>1. IInv => PolicyHolds
  BY DEF IInv
<1> QED
  BY <1>1, Invariance, PTL

(* Every enabled rule set compiles and has its target, unless a form that   *)
(* was overtaken wrote it, took rows of it, or was copied from such a set.  *)
THEOREM SetsStayServable == Spec => []SetsAreServable
<1>1. IInv => SetsAreServable
  BY DEF IInv
<1> QED
  BY <1>1, Invariance, PTL

=============================================================================
