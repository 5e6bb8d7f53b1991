---------------------------- MODULE ProfilesProofs ----------------------------
(* Theorems about the forms of profiles, for every set of profiles, tabs,     *)
(* secrets, ports and builds, and any number of events.                       *)
EXTENDS Profiles, TLAPS

-----------------------------------------------------------------------------
(* Types *)

LEMMA ShippedIsRow ==
    ASSUME NEW p \in Profiles, NEW on \in BOOLEAN, NEW b \in 1..Builds
    PROVE  Shipped(p, on, b) \in Row
<1>1. Factory[p] \in [title : Titles, port : Ports, cfg : Secrets]
  BY ProfilesAssumption
<1>2. Schema[b] \in Versions
  BY DEF Versions
<1>3. QED
  BY <1>1, <1>2 DEF Shipped, Row

LEMMA SpendKeepsBudget ==
    ASSUME left \in [Kinds -> Nat], NEW kind \in Kinds, Spend(kind)
    PROVE  left' \in [Kinds -> Nat]
  BY DEF Spend

LEMMA StampTypes ==
    ASSUME TypeOK, NEW ps \in SUBSET Profiles, NEW t \in 0..clock + 1, Stamp(ps, t)
    PROVE  /\ rev' \in [Profiles -> Nat] /\ clock' \in Nat
           /\ left' \in [Kinds -> Nat] /\ stood' \subseteq Profiles
<1>1. t \in Nat
  BY DEF TypeOK
<1>2. left' \in [Kinds -> Nat]
  BY SpendKeepsBudget DEF Stamp, Reading, TypeOK, Kinds
<1>3. QED
  BY <1>1, <1>2 DEF Stamp, Reading, TypeOK

LEMMA TypeInitially == Init => TypeOK
<1> SUFFICES ASSUME Init PROVE TypeOK
  OBVIOUS
<1>1. build \in 1..Builds /\ Builds \in 1..Builds /\ marks \subseteq 1..Builds
  BY ProfilesAssumption DEF Init
<1>2. row \in [Profiles -> Row \cup {None}]
  <2>1. PICK on \in SUBSET (Brought(build) \cup Lacks[build]), kept \in SUBSET Lacks[build] :
             row = [p \in Profiles |->
                      IF p \in Lacks[build]
                      THEN IF p \in kept THEN Shipped(p, p \in on, Builds) ELSE None
                      ELSE IF p \in Brought(build) THEN Shipped(p, p \in on, build) ELSE None]
    BY DEF Init
  <2>2. \A p \in Profiles : (p \in on) \in BOOLEAN
    OBVIOUS
  <2>3. \A p \in Profiles :
           Shipped(p, p \in on, Builds) \in Row /\ Shipped(p, p \in on, build) \in Row
    BY <1>1, <2>2, ShippedIsRow
  <2>4. QED
    BY <2>1, <2>3
<1>3. domain \in Domains
  BY ProfilesAssumption DEF Init
<1>4. QED
  BY <1>1, <1>2, <1>3, ProfilesAssumption DEF Init, TypeOK, Phases

LEMMA TypePreserved == ASSUME TypeOK, [Next]_vars PROVE TypeOK'
<1>1. ASSUME NEW s \in Sessions, NEW p \in Profiles, Open(s, p) PROVE TypeOK'
  <2>1. [p |-> p, row |-> row[p], rev |-> rev[p]] \in Page
    BY <1>1 DEF Open, TypeOK, Exists, Page
  <2>2. left' \in [Kinds -> Nat]
    BY <1>1, SpendKeepsBudget DEF Open, TypeOK, Kinds
  <2>3. QED
    BY <1>1, <2>1, <2>2 DEF Open, TypeOK, store, times, start
<1>2. ASSUME NEW s \in Sessions,
             NEW pc \in {"listeners", "commit"}, NEW verb \in Verbs,
             NEW p \in Profiles, NEW new \in Row \cup {None}, NEW revision \in Nat,
             Mutation(s, pc, verb, p, new, revision)
      PROVE  TypeOK'
  <2>1. [pc |-> pc, verb |-> verb, p |-> p, row |-> new, rev |-> revision] \in Handler
    BY DEF Handler
  <2>2. left' \in [Kinds -> Nat]
    BY <1>2, SpendKeepsBudget DEF Mutation, TypeOK, Kinds
  <2>3. QED
    BY <1>2, <2>1, <2>2 DEF Mutation, TypeOK, store, times, start
<1>3. ASSUME NEW s \in Sessions, Submit(s) PROVE TypeOK'
  <2>1. ASSUME NEW p \in Profiles, NEW new \in Row, SubmitCreate(s, p, new) PROVE TypeOK'
    BY <1>2, <2>1 DEF SubmitCreate, Verbs
  <2>2. page[s] # None => page[s] \in Page
    BY DEF TypeOK
  <2>3. ASSUME NEW new \in Row, SubmitUpdate(s, new) PROVE TypeOK'
    <3> DEFINE old == row[page[s].p]
               candidate == [new EXCEPT !.ver = old.ver,
                                        !.cfg = IF Missing(page[s].p) THEN old.cfg ELSE @]
    <3>1. page[s].p \in Profiles /\ page[s].rev \in Nat /\ old \in Row
      BY <2>2, <2>3 DEF SubmitUpdate, Exists, TypeOK, Page
    <3>2. candidate \in Row
      BY <3>1 DEF Row
    <3>3. \E pc \in {"listeners", "commit"} :
             Mutation(s, pc, "update", page[s].p, candidate, page[s].rev)
      BY <2>3 DEF SubmitUpdate
    <3>4. QED
      BY <1>2, <3>1, <3>2, <3>3 DEF Verbs
  <2>4. ASSUME NEW on \in BOOLEAN, SubmitEnabled(s, on) PROVE TypeOK'
    <3> DEFINE old == row[page[s].p]
    <3>1. page[s].p \in Profiles /\ page[s].rev \in Nat /\ old \in Row
      BY <2>2, <2>4 DEF SubmitEnabled, Exists, TypeOK, Page
    <3>2. [old EXCEPT !.on = on] \in Row
      BY <3>1 DEF Row
    <3>3. \E pc \in {"listeners", "commit"} :
             Mutation(s, pc, "enable", page[s].p, [old EXCEPT !.on = on], page[s].rev)
      BY <2>4 DEF SubmitEnabled
    <3>4. QED
      BY <1>2, <3>1, <3>2, <3>3 DEF Verbs
  <2>5. ASSUME SubmitDelete(s) PROVE TypeOK'
    BY <1>2, <2>2, <2>5 DEF SubmitDelete, Page, Verbs
  <2>6. QED
    BY <1>3, <2>1, <2>3, <2>4, <2>5 DEF Submit
<1>4. ASSUME NEW s \in Sessions, CheckListeners(s) \/ CheckSecrets(s) \/ Refuse(s) PROVE TypeOK'
  <2>1. req[s] # None /\ req[s] \in Handler
    BY <1>4 DEF CheckListeners, CheckSecrets, Refuse, Working, TypeOK
  <2>2. \A pc \in {"secrets", "commit"} : [req[s] EXCEPT !.pc = pc] \in Handler
    BY <2>1 DEF Handler
  <2>3. req' \in [Sessions -> Handler \cup {None}] /\ lock' \in Sessions \cup {None}
    BY <1>4, <2>2 DEF CheckListeners, CheckSecrets, Refuse, Continue, Answer, TypeOK
  <2>4. blind' \subseteq Profiles \X Profiles
    BY <1>4, <2>1 DEF CheckListeners, CheckSecrets, Refuse, Skipped, TypeOK, Handler
  <2>5. QED
    BY <1>4, <2>3, <2>4 DEF CheckListeners, CheckSecrets, Refuse, TypeOK, store, times, start
<1>5. ASSUME NEW p \in Profiles, NEW value \in Row \cup {None}, Write(p, value)
      PROVE  /\ row' \in [Profiles -> Row \cup {None}]
             /\ rev' \in [Profiles -> Nat] /\ clock' \in Nat
             /\ left' \in [Kinds -> Nat] /\ stood' \subseteq Profiles
  <2>1. row' \in [Profiles -> Row \cup {None}]
    BY <1>5 DEF Write, TypeOK
  <2>2. PICK t \in 0..clock + 1 : Stamp({p}, t)
    BY <1>5 DEF Write
  <2>3. QED
    BY <2>1, <2>2, StampTypes
<1>6. ASSUME NEW change \in BOOLEAN, Bump(change) PROVE generation' \in Nat
  BY <1>6 DEF Bump, TypeOK
<1>7. ASSUME NEW s \in Sessions, CommitCreate(s) \/ CommitUpdate(s) \/ CommitDelete(s)
      PROVE  TypeOK'
  <2>1. req[s] \in Handler
    BY <1>7 DEF CommitCreate, CommitUpdate, CommitDelete, Working, TypeOK
  <2>2. req' \in [Sessions -> Handler \cup {None}] /\ lock' \in Sessions \cup {None}
    BY <1>7 DEF CommitCreate, CommitUpdate, CommitDelete, Answer, TypeOK
  <2>3. /\ row' \in [Profiles -> Row \cup {None}]
        /\ rev' \in [Profiles -> Nat] /\ clock' \in Nat
        /\ left' \in [Kinds -> Nat] /\ stood' \subseteq Profiles
    <3>1. CASE UNCHANGED <<row, times, left>>
      BY <3>1 DEF times, TypeOK
    <3>2. CASE \E value \in Row \cup {None} : Write(req[s].p, value)
      BY <1>5, <2>1, <3>2 DEF Handler
    <3>3. CASE row' = [row EXCEPT ![req[s].p] = None] /\ UNCHANGED <<times, left>>
      BY <2>1, <3>3 DEF times, TypeOK
    <3>4. QED
      BY <1>7, <2>1, <3>1, <3>2, <3>3
         DEF CommitCreate, CommitUpdate, CommitDelete, Unwritten, Handler
  <2>4. generation' \in Nat
    BY <1>7 DEF CommitCreate, CommitUpdate, CommitDelete, Unwritten, Bump, TypeOK
  <2>5. QED
    BY <1>7, <2>2, <2>3, <2>4 DEF CommitCreate, CommitUpdate, CommitDelete, TypeOK, start
<1>8. ASSUME Administer PROVE TypeOK'
  <2>1. left' \in [Kinds -> Nat]
    BY <1>8, SpendKeepsBudget DEF Administer, SaveSecret, DeleteSecret, SaveSettings, Route,
       TypeOK, Kinds
  <2>2. generation' \in Nat
    BY <1>8 DEF Administer, SaveSecret, DeleteSecret, SaveSettings, Route, UpsertSecret,
       RemoveSecret, UpsertSettings, Bump, TypeOK, store, times
  <2>3. secret' \in [Secrets -> Nat]
    <3>1. ASSUME NEW n \in Secrets, UpsertSecret(n) PROVE secret' \in [Secrets -> Nat]
      BY <3>1 DEF UpsertSecret, TypeOK
    <3>2. ASSUME NEW n \in Secrets, RemoveSecret(n) PROVE secret' \in [Secrets -> Nat]
      BY <3>2 DEF RemoveSecret, TypeOK
    <3>3. UNCHANGED secret => secret' \in [Secrets -> Nat]
      BY DEF TypeOK
    <3>4. QED
      BY <1>8, <3>1, <3>2, <3>3 DEF Administer, SaveSecret, DeleteSecret, SaveSettings, Route,
         UpsertSettings, store, times
  <2>4. domain' \in Domains
    BY <1>8 DEF Administer, SaveSecret, DeleteSecret, SaveSettings, Route, UpsertSettings,
       TypeOK, store, times
  <2>5. refs' \subseteq Profiles
    BY <1>8 DEF Administer, SaveSecret, DeleteSecret, SaveSettings, Route, TypeOK
  <2>6. QED
    BY <1>8, <2>1, <2>2, <2>3, <2>4, <2>5 DEF Administer, SaveSecret, DeleteSecret, SaveSettings, Route,
       TypeOK, store, times, browser, start
<1>9. ASSUME Stop PROVE TypeOK'
  <2>1. left' \in [Kinds -> Nat]
    BY <1>9, SpendKeepsBudget DEF Stop, TypeOK, Kinds
  <2>2. QED
    BY <1>9, <2>1 DEF Stop, Stopped, TypeOK, store, times, Phases
<1>10. ASSUME \/ Start \/ MarkBatch \/ Bootstrapped
              \/ \E b \in 1..Builds : Replace(b)
       PROVE  TypeOK'
  <2>1. CASE Start \/ Bootstrapped
    BY <2>1 DEF Start, Bootstrapped, TypeOK, store, times, browser, Phases
  <2>2. CASE \E b \in 1..Builds : Replace(b)
    BY <2>2 DEF Replace, TypeOK, store, times, browser
  <2>3. CASE MarkBatch
    <3>1. Due \subseteq 1..Builds
      BY ProfilesAssumption DEF Due, TypeOK
    <3>2. marks' \subseteq 1..Builds
      BY <2>3, <3>1 DEF MarkBatch, TypeOK
    <3>3. QED
      BY <2>3, <3>2 DEF MarkBatch, TypeOK, store, times, browser
  <2>4. QED
    BY <1>10, <2>1, <2>2, <2>3
<1>11. ASSUME NEW p \in Profiles, InsertDefault(p) PROVE TypeOK'
  <2>1. Shipped(p, FALSE, build) \in Row
    BY ShippedIsRow DEF TypeOK
  <2>2. QED
    BY <1>11, <1>5, <2>1 DEF InsertDefault, TypeOK, browser, start
<1>12. ASSUME Migrate PROVE TypeOK'
  <2>1. \A p \in Older : [row[p] EXCEPT !.ver = Schema[build]] \in Row
    BY DEF Older, Exists, TypeOK, Row, Versions
  <2>2. row' \in [Profiles -> Row \cup {None}]
    BY <1>12, <2>1 DEF Migrate, TypeOK
  <2>3. /\ rev' \in [Profiles -> Nat] /\ clock' \in Nat
        /\ left' \in [Kinds -> Nat] /\ stood' \subseteq Profiles
    <3>1. CASE UNCHANGED <<times, left>>
      BY <3>1 DEF times, TypeOK
    <3>2. CASE \E t \in 0..clock + 1 : Stamp(Older, t)
      <4>1. Older \in SUBSET Profiles
        BY DEF Older
      <4>2. QED
        BY <3>2, <4>1, StampTypes
    <3>3. QED
      BY <1>12, <3>1, <3>2 DEF Migrate
  <2>4. QED
    BY <1>12, <2>2, <2>3 DEF Migrate, TypeOK, browser, Phases
<1>13. CASE UNCHANGED vars
  BY <1>13 DEF vars, TypeOK
<1>14. QED
  BY <1>1, <1>3, <1>4, <1>7, <1>8, <1>9, <1>10, <1>11, <1>12, <1>13
     DEF Next, Handle, Life

(* Rows, pages, handlers and what a start writes always have their types.     *)
THEOREM ProfilesTypeCorrect == Spec => []TypeOK
  BY TypeInitially, TypePreserved, PTL DEF Spec

-----------------------------------------------------------------------------
(* The semaphore                                                              *)

(* A handler that works on a form holds the semaphore, and there is none      *)
(* while the panel is down or starts.                                         *)
Alone ==
    /\ \A s \in Sessions : req[s] # None => lock = s
    /\ boot # "up" => \A s \in Sessions : req[s] = None

LEMMA AloneInitially == Init => Alone
  BY DEF Init, Alone

LEMMA MutationKeepsAlone ==
    ASSUME TypeOK, Alone, NEW s \in Sessions, NEW pc, NEW verb, NEW p, NEW new, NEW revision,
           Mutation(s, pc, verb, p, new, revision)
    PROVE  Alone'
  BY ProfilesAssumption DEF Mutation, Alone, TypeOK, Idle, start

(* The forms of a tab all go through Mutation.                                *)
LEMMA SubmitMutates ==
    ASSUME NEW s \in Sessions, Submit(s)
    PROVE  \E pc, verb, p, new, revision : Mutation(s, pc, verb, p, new, revision)
<1>1. ASSUME NEW p \in Profiles, NEW new \in Row, SubmitCreate(s, p, new)
      PROVE  Mutation(s, "listeners", "create", p, new, 0)
  BY <1>1 DEF SubmitCreate
<1>2. ASSUME NEW new \in Row, SubmitUpdate(s, new)
      PROVE  \E pc, p, row2 : Mutation(s, pc, "update", p, row2, page[s].rev)
  BY <1>2 DEF SubmitUpdate
<1>3. ASSUME NEW on \in BOOLEAN, SubmitEnabled(s, on)
      PROVE  \E pc, p, row2 : Mutation(s, pc, "enable", p, row2, page[s].rev)
  BY <1>3 DEF SubmitEnabled
<1>4. SubmitDelete(s) => Mutation(s, "commit", "delete", page[s].p, None, page[s].rev)
  BY DEF SubmitDelete
<1>5. QED
  BY <1>1, <1>2, <1>3, <1>4 DEF Submit

LEMMA AloneStep == ASSUME TypeOK, Alone, [Next]_vars PROVE Alone'
<1>1. ASSUME NEW s \in Sessions, Submit(s) PROVE Alone'
  BY <1>1, SubmitMutates, MutationKeepsAlone
<1>2. ASSUME NEW s \in Sessions, NEW p \in Profiles, Open(s, p) PROVE Alone'
  BY <1>2 DEF Open, Alone, start
<1>3. ASSUME NEW s \in Sessions, Handle(s) PROVE Alone'
  <2>1. /\ boot' = boot /\ boot = "up"
        /\ \A t \in Sessions \ {s} : req'[t] = req[t]
        /\ req[s] # None
        /\ lock' = lock \/ req'[s] = None
    BY <1>3 DEF Handle, CheckListeners, CheckSecrets, Refuse, CommitCreate, CommitUpdate,
       CommitDelete, Working, Continue, Answer, TypeOK, start
  <2>2. QED
    BY <2>1 DEF Alone
<1>4. ASSUME Administer PROVE Alone'
  BY <1>4 DEF Administer, SaveSecret, DeleteSecret, SaveSettings, Route, Alone, browser, start
<1>5. ASSUME Life PROVE Alone'
  BY <1>5 DEF Life, Stop, Stopped, Start, MarkBatch, Bootstrapped, Migrate, Replace,
     InsertDefault, Alone, browser, start
<1>6. CASE UNCHANGED vars
  BY <1>6 DEF vars, Alone
<1>7. QED
  BY <1>1, <1>2, <1>3, <1>4, <1>5, <1>6 DEF Next

-----------------------------------------------------------------------------
(* Revisions                                                                  *)

(* Of a profile that was never written at a time before or at the last, the   *)
(* revision of the row tells what a page shows: no page is from the future,   *)
(* and a page with the revision of the row shows that row.                    *)
SeenFor(s) ==
    LET p == page[s].p IN
    p \notin stood =>
        /\ page[s].rev <= rev[p]
        /\ Exists(p) /\ page[s].rev = rev[p] => row[p] = page[s].row
Seen == \A s \in Sessions : page[s] # None => SeenFor(s)

LEMMA SeenInitially == Init => Seen
  BY DEF Init, Seen

(* Rows of one transaction are stamped with one time, and no other row is     *)
(* written.                                                                   *)
LEMMA StampKeepsSeen ==
    ASSUME TypeOK, Seen, NEW ps \in SUBSET Profiles, NEW t \in 0..clock + 1, Stamp(ps, t),
           \A q \in Profiles \ ps : row'[q] = row[q], page' = page
    PROVE  Seen'
<1>1. /\ t \in Nat /\ stood' = stood \cup {q \in ps : t <= rev[q]}
      /\ \A q \in Profiles : rev[q] \in Nat /\ rev'[q] = (IF q \in ps THEN t ELSE rev[q])
  BY DEF Stamp, TypeOK
<1>2. SUFFICES ASSUME NEW s \in Sessions, page[s] # None PROVE SeenFor(s)'
  BY DEF Seen
<1>3. page[s].p \in Profiles /\ page[s].rev \in Nat /\ SeenFor(s)
  BY <1>2 DEF TypeOK, Page, Seen
<1>4. CASE page[s].p \in ps
  BY <1>1, <1>3, <1>4 DEF SeenFor
<1>5. CASE page[s].p \notin ps
  BY <1>1, <1>3, <1>5 DEF SeenFor, Exists
<1>6. QED
  BY <1>4, <1>5

LEMMA WriteKeepsSeen ==
    ASSUME TypeOK, Seen, NEW p \in Profiles, NEW value, Write(p, value), page' = page
    PROVE  Seen'
<1>1. PICK t \in 0..clock + 1 : Stamp({p}, t)
  BY DEF Write
<1>2. \A q \in Profiles \ {p} : row'[q] = row[q]
  BY DEF Write, TypeOK
<1>3. QED
  BY <1>1, <1>2, StampKeepsSeen

(* The row of a deleted profile is gone, and its time remains.                *)
LEMMA DeleteKeepsSeen ==
    ASSUME TypeOK, Seen, NEW p \in Profiles, row' = [row EXCEPT ![p] = None],
           UNCHANGED <<times, page>>
    PROVE  Seen'
<1>1. \A q \in Profiles : row'[q] = IF q = p THEN None ELSE row[q]
  BY DEF TypeOK
<1>2. \A s \in Sessions : page[s] # None => page[s].p \in Profiles
  BY DEF TypeOK, Page
<1>3. QED
  BY <1>1, <1>2 DEF Seen, SeenFor, Exists, times

LEMMA SeenStep == ASSUME TypeOK, Seen, [Next]_vars PROVE Seen'
<1>1. ASSUME UNCHANGED <<row, times, page>> PROVE Seen'
  BY <1>1 DEF Seen, SeenFor, Exists, times
<1>2. ASSUME NEW s \in Sessions, Submit(s) PROVE Seen'
  BY <1>1, <1>2, SubmitMutates DEF Mutation, store
<1>3. ASSUME NEW s \in Sessions, NEW p \in Profiles, Open(s, p) PROVE Seen'
  <2>1. page' = [page EXCEPT ![s] = [p |-> p, row |-> row[p], rev |-> rev[p]]]
        /\ UNCHANGED <<row, rev, stood>>
    BY <1>3 DEF Open, store, times
  <2>2. \A t \in Sessions : page'[t] = (IF t = s THEN [p |-> p, row |-> row[p], rev |-> rev[p]]
                                        ELSE page[t])
    BY <2>1 DEF TypeOK
  <2>3. rev[p] <= rev[p]
    BY DEF TypeOK
  <2>4. QED
    BY <2>1, <2>2, <2>3 DEF Seen, SeenFor, Exists
<1>4. ASSUME NEW s \in Sessions, Handle(s) PROVE Seen'
  <2>1. CASE CheckListeners(s) \/ CheckSecrets(s) \/ Refuse(s)
    BY <1>1, <2>1 DEF CheckListeners, CheckSecrets, Refuse, store
  <2>2. CASE CommitCreate(s) \/ CommitUpdate(s) \/ CommitDelete(s)
    <3>1. page' = page /\ req[s].p \in Profiles
      BY <2>2 DEF CommitCreate, CommitUpdate, CommitDelete, Working, TypeOK, Handler
    <3>2. \/ UNCHANGED <<row, times>>
          \/ \E value : Write(req[s].p, value)
          \/ row' = [row EXCEPT ![req[s].p] = None] /\ UNCHANGED times
      BY <2>2 DEF CommitCreate, CommitUpdate, CommitDelete, Unwritten
    <3>3. QED
      BY <1>1, <3>1, <3>2, WriteKeepsSeen, DeleteKeepsSeen
  <2>3. QED
    BY <1>4, <2>1, <2>2 DEF Handle
<1>5. ASSUME Administer PROVE Seen'
  BY <1>1, <1>5 DEF Administer, SaveSecret, DeleteSecret, SaveSettings, Route, browser, store
<1>6. ASSUME NEW p \in Profiles, InsertDefault(p) PROVE Seen'
  BY <1>6, WriteKeepsSeen DEF InsertDefault, browser
<1>7. ASSUME Migrate PROVE Seen'
  <2>1. page' = page
    BY <1>7 DEF Migrate, browser
  <2>2. \A q \in Profiles \ Older : row'[q] = row[q]
    BY <1>7 DEF Migrate
  <2>3. CASE Newer # {} \/ Older = {}
    <3>1. UNCHANGED <<row, times>>
      BY <1>7, <2>3 DEF Migrate, TypeOK
    <3>2. QED
      BY <1>1, <2>1, <3>1
  <2>4. CASE \E t \in 0..clock + 1 : Stamp(Older, t)
    <3>1. Older \in SUBSET Profiles
      BY DEF Older
    <3>2. QED
      BY <2>1, <2>2, <2>4, <3>1, StampKeepsSeen
  <2>5. QED
    BY <1>7, <2>3, <2>4 DEF Migrate
<1>8. ASSUME \/ Stop \/ Start \/ MarkBatch \/ Bootstrapped
             \/ \E b \in 1..Builds : Replace(b)
             \/ UNCHANGED vars
      PROVE  Seen'
  BY <1>1, <1>8 DEF Stop, Start, MarkBatch, Bootstrapped, Replace, browser, store, times, vars
<1>9. QED
  BY <1>2, <1>3, <1>4, <1>5, <1>6, <1>7, <1>8 DEF Next, Life

-----------------------------------------------------------------------------
(* Candidates                                                                 *)

(* What a form is about to write: it is for the row the page of its tab       *)
(* shows, and a row of the same schema as the one it is built upon.           *)
BuiltFor(s) ==
    /\ req[s].verb # "create" =>
          page[s] # None /\ req[s].p = page[s].p /\ req[s].rev = page[s].rev
    /\ req[s].verb # "delete" => req[s].row \in Row
    /\ req[s].verb \in {"update", "enable"} =>
          row[req[s].p] # None /\ req[s].row.ver = row[req[s].p].ver
Built == \A s \in Sessions : req[s] # None => BuiltFor(s)

Skips(p, q) == <<p, q>> \in blind \/ <<q, p>> \in blind

(* A candidate that was checked still is free to listen.                      *)
Fits(r) == \A q \in Profiles : Clash(r.p, r.row.port, q) => Skips(r.p, q)
CheckedFor(s) ==
    req[s].pc \in {"secrets", "commit"} /\ req[s].verb # "delete" /\ req[s].row.on => Fits(req[s])
Checked == \A s \in Sessions : req[s] # None => CheckedFor(s)

LEMMA CandidatesInitially == Init => Built /\ Checked
  BY DEF Init, Built, Checked

(* A form of a tab that was submitted in a step, and the candidate of it.     *)
Candidate(s, pc, verb, p, new, revision) ==
    /\ Mutation(s, pc, verb, p, new, revision)
    /\ verb # "create" => page[s] # None /\ p = page[s].p /\ revision = page[s].rev
    /\ verb # "delete" => new \in Row
    /\ verb \in {"update", "enable"} => Exists(p) /\ new.ver = row[p].ver
    /\ pc = "commit" /\ verb # "delete" =>
          Exists(p) /\ (new.on => row[p].on /\ new.port = row[p].port)

LEMMA SubmitBuilds ==
    ASSUME TypeOK, NEW s \in Sessions, Submit(s)
    PROVE  \E pc \in {"listeners", "commit"}, verb \in Verbs, p \in Profiles :
              \E new, revision : Candidate(s, pc, verb, p, new, revision)
<1> USE DEF Verbs
<1>1. page[s] # None => page[s].p \in Profiles /\ page[s].rev \in Nat
  BY DEF TypeOK, Page
<1>2. ASSUME NEW p \in Profiles, NEW new \in Row, SubmitCreate(s, p, new)
      PROVE  Candidate(s, "listeners", "create", p, new, 0)
  BY <1>2 DEF SubmitCreate, Candidate
<1>3. ASSUME NEW new \in Row, SubmitUpdate(s, new)
      PROVE  \E pc \in {"listeners", "commit"}, p \in Profiles :
                \E cand : Candidate(s, pc, "update", p, cand, page[s].rev)
  <2> DEFINE p == page[s].p
             old == row[p]
             cand == [new EXCEPT !.ver = old.ver, !.cfg = IF Missing(p) THEN old.cfg ELSE @]
             check == ConfigurationChanged(old, cand) \/ (~old.on /\ cand.on)
  <2>1. page[s] # None /\ Exists(p)
        /\ Mutation(s, IF check THEN "listeners" ELSE "commit", "update", p, cand, page[s].rev)
    BY <1>3 DEF SubmitUpdate
  <2>2. p \in Profiles /\ old \in Row
    BY <1>1, <2>1 DEF Exists, TypeOK
  <2>3. cand \in Row /\ cand.ver = old.ver
    BY <2>2 DEF Row
  <2>4. ~check => (cand.on => old.on /\ cand.port = old.port)
    BY <2>2, <2>3 DEF ConfigurationChanged, Row
  <2>5. CASE check
    <3>1. Candidate(s, "listeners", "update", p, cand, page[s].rev)
      BY <2>1, <2>3, <2>5 DEF Candidate
    <3>2. QED
      BY <2>2, <3>1
  <2>6. CASE ~check
    <3>1. Candidate(s, "commit", "update", p, cand, page[s].rev)
      BY <2>1, <2>3, <2>4, <2>6 DEF Candidate
    <3>2. QED
      BY <2>2, <3>1
  <2>7. QED
    BY <2>5, <2>6
<1>4. ASSUME NEW on \in BOOLEAN, SubmitEnabled(s, on)
      PROVE  \E pc \in {"listeners", "commit"}, p \in Profiles :
                \E cand : Candidate(s, pc, "enable", p, cand, page[s].rev)
  <2> DEFINE p == page[s].p
             old == row[p]
             cand == [old EXCEPT !.on = on]
             check == on /\ ~old.on
  <2>1. page[s] # None /\ Exists(p)
        /\ Mutation(s, IF check THEN "listeners" ELSE "commit", "enable", p, cand, page[s].rev)
    BY <1>4 DEF SubmitEnabled
  <2>2. p \in Profiles /\ old \in Row
    BY <1>1, <2>1 DEF Exists, TypeOK
  <2>3. cand \in Row /\ cand.ver = old.ver /\ cand.port = old.port /\ cand.on = on
    BY <2>2 DEF Row
  <2>4. CASE check
    <3>1. Candidate(s, "listeners", "enable", p, cand, page[s].rev)
      BY <2>1, <2>3, <2>4 DEF Candidate
    <3>2. QED
      BY <2>2, <3>1
  <2>5. CASE ~check
    <3>1. Candidate(s, "commit", "enable", p, cand, page[s].rev)
      BY <2>1, <2>3, <2>5 DEF Candidate
    <3>2. QED
      BY <2>2, <3>1
  <2>6. QED
    BY <2>4, <2>5
<1>5. SubmitDelete(s) => page[s] # None /\ Candidate(s, "commit", "delete", page[s].p, None, page[s].rev)
  BY DEF SubmitDelete, Candidate
<1>6. QED
  BY <1>1, <1>2, <1>3, <1>4, <1>5 DEF Submit

(* What a step does to a form that is worked on when it ends: nothing; or it  *)
(* has just been submitted, or passed one of its two checks.                  *)
LEMMA FormSteps ==
    ASSUME TypeOK, Alone, [Next]_vars, NEW s \in Sessions, req'[s] # None
    PROVE  /\ row' = row /\ blind \subseteq blind' /\ page'[s] = page[s]
           /\ \/ req'[s] = req[s]
              \/ Submit(s)
              \/ CheckListeners(s) /\ req'[s] = [req[s] EXCEPT !.pc = "secrets"]
                                   /\ blind' = blind \cup Skipped(req[s].p, req[s].row)
              \/ req[s] # None /\ req[s].pc = "secrets" /\ req'[s] = [req[s] EXCEPT !.pc = "commit"]
<1> DEFINE Goal == /\ row' = row /\ blind \subseteq blind' /\ page'[s] = page[s]
                   /\ \/ req'[s] = req[s]
                      \/ Submit(s)
                      \/ CheckListeners(s) /\ req'[s] = [req[s] EXCEPT !.pc = "secrets"]
                                   /\ blind' = blind \cup Skipped(req[s].p, req[s].row)
                      \/ req[s] # None /\ req[s].pc = "secrets"
                            /\ req'[s] = [req[s] EXCEPT !.pc = "commit"]
<1>1. ASSUME NEW t \in Sessions, NEW p \in Profiles, Open(t, p) PROVE Goal
  BY <1>1 DEF Open, Idle, TypeOK, store
<1>2. ASSUME NEW t \in Sessions, Submit(t) PROVE Goal
  BY <1>2, SubmitMutates DEF Mutation, TypeOK, store
<1>3. ASSUME NEW t \in Sessions, CheckListeners(t) \/ CheckSecrets(t) \/ Refuse(t) PROVE Goal
  <2>1. row' = row /\ page' = page /\ blind \subseteq blind'
        /\ \A u \in Sessions \ {t} : req'[u] = req[u]
    BY <1>3 DEF CheckListeners, CheckSecrets, Refuse, Continue, Answer, TypeOK, store
  <2>2. t = s => \/ CheckListeners(s) /\ req'[s] = [req[s] EXCEPT !.pc = "secrets"]
                                   /\ blind' = blind \cup Skipped(req[s].p, req[s].row)
                 \/ req[s] # None /\ req[s].pc = "secrets"
                       /\ req'[s] = [req[s] EXCEPT !.pc = "commit"]
    BY <1>3 DEF CheckListeners, CheckSecrets, Refuse, Continue, Answer, Working, TypeOK
  <2>3. QED
    BY <2>1, <2>2
<1>4. ASSUME NEW t \in Sessions, CommitCreate(t) \/ CommitUpdate(t) \/ CommitDelete(t) PROVE FALSE
  <2>1. req[t] # None /\ req'[t] = None /\ \A u \in Sessions \ {t} : req'[u] = req[u]
    BY <1>4 DEF CommitCreate, CommitUpdate, CommitDelete, Answer, Working, TypeOK
  <2>2. QED
    BY <2>1 DEF Alone
<1>5. ASSUME Administer PROVE Goal
  BY <1>5 DEF Administer, SaveSecret, DeleteSecret, SaveSettings, Route, store, browser
<1>6. ASSUME Life PROVE Goal
  <2>1. ~Stop
    BY DEF Stop, Stopped
  <2>2. ~Migrate /\ ~(\E p \in Profiles : InsertDefault(p))
    BY DEF Migrate, InsertDefault, Alone, browser
  <2>3. QED
    BY <1>6, <2>1, <2>2 DEF Life, Start, MarkBatch, Bootstrapped, Replace, store, browser
<1>7. CASE UNCHANGED vars
  BY <1>7 DEF vars
<1>8. QED
  BY <1>1, <1>2, <1>3, <1>4, <1>5, <1>6, <1>7 DEF Next, Handle

LEMMA CandidatesStep ==
    ASSUME TypeOK, TypeOK', Alone, Built, Checked, NoListenerConflict, [Next]_vars
    PROVE  Built' /\ Checked'
<1> SUFFICES ASSUME NEW s \in Sessions, req'[s] # None
             PROVE  BuiltFor(s)' /\ CheckedFor(s)'
  BY DEF Built, Checked
<1>1. row' = row /\ blind \subseteq blind' /\ page'[s] = page[s]
  BY FormSteps
<1>2. CASE req'[s] = req[s]
  <2>1. BuiltFor(s)'
    BY <1>1, <1>2 DEF Built, BuiltFor
  <2>2. CheckedFor(s)'
    BY <1>1, <1>2 DEF Checked, CheckedFor, Fits, Clash, Skips, Exists
  <2>3. QED
    BY <2>1, <2>2
<1>3. CASE Submit(s)
  <2>1. PICK pc \in {"listeners", "commit"}, verb \in Verbs, p \in Profiles :
                \E new, revision : Candidate(s, pc, verb, p, new, revision)
    BY <1>3, SubmitBuilds
  <2>2. PICK new, revision : Candidate(s, pc, verb, p, new, revision)
    BY <2>1
  <2>3. req'[s] = [pc |-> pc, verb |-> verb, p |-> p, row |-> new, rev |-> revision]
    BY <2>2 DEF Candidate, Mutation, TypeOK
  <2>4. pc = "commit" /\ verb # "delete" /\ new.on =>
           \A q \in Profiles : Clash(p, new.port, q) => Skips(p, q)
    BY <2>2 DEF Candidate, NoListenerConflict, Skips
  <2>5. BuiltFor(s)'
    BY <1>1, <2>2, <2>3 DEF Candidate, Exists, BuiltFor
  <2>6. CheckedFor(s)'
    BY <1>1, <2>2, <2>3, <2>4 DEF CheckedFor, Fits, Clash, Skips, Exists
  <2>7. QED
    BY <2>5, <2>6
<1>4. CASE CheckListeners(s) /\ req'[s] = [req[s] EXCEPT !.pc = "secrets"]
           /\ blind' = blind \cup Skipped(req[s].p, req[s].row)
  <2>1. req[s] # None /\ req[s] \in Handler
    BY <1>4 DEF CheckListeners, Working, TypeOK
  <2>2. /\ req'[s].verb = req[s].verb /\ req'[s].p = req[s].p
        /\ req'[s].row = req[s].row /\ req'[s].rev = req[s].rev
    BY <1>4, <2>1 DEF Handler
  <2>3. req[s].row.on => \A q \in Profiles :
           Clash(req[s].p, req[s].row.port, q) => <<req[s].p, q>> \in blind'
    BY <1>4 DEF Skipped
  <2>4. BuiltFor(s)'
    BY <1>1, <2>1, <2>2 DEF Built, BuiltFor
  <2>5. CheckedFor(s)'
    BY <1>1, <2>2, <2>3 DEF CheckedFor, Fits, Clash, Skips, Exists
  <2>6. QED
    BY <2>4, <2>5
<1>5. CASE req[s] # None /\ req[s].pc = "secrets" /\ req'[s] = [req[s] EXCEPT !.pc = "commit"]
  <2>1. req[s] \in Handler
    BY <1>5 DEF TypeOK
  <2>2. /\ req'[s].verb = req[s].verb /\ req'[s].p = req[s].p
        /\ req'[s].row = req[s].row /\ req'[s].rev = req[s].rev
    BY <1>5, <2>1 DEF Handler
  <2>3. BuiltFor(s)'
    BY <1>1, <1>5, <2>2 DEF Built, BuiltFor
  <2>4. CheckedFor(s)'
    BY <1>1, <1>5, <2>2 DEF Checked, CheckedFor, Fits, Clash, Skips, Exists
  <2>5. QED
    BY <2>3, <2>4
<1>6. QED
  BY <1>2, <1>3, <1>4, <1>5, FormSteps

-----------------------------------------------------------------------------
(* Listeners                                                                  *)

LEMMA ConflictInitially == Init => NoListenerConflict
  BY DEF Init, NoListenerConflict, Clash

(* Rows whose listener or switch differ from before are written by a commit;  *)
(* a start inserts disabled rows and touches no listener.                     *)
LEMMA WriteKeepsListeners ==
    ASSUME TypeOK, NoListenerConflict, NEW p \in Profiles, NEW value,
           row' = [row EXCEPT ![p] = value], blind \subseteq blind',
           value # None /\ value.on => \A q \in Profiles : Clash(p, value.port, q) => Skips(p, q)
    PROVE  NoListenerConflict'
<1>1. \A q \in Profiles : row'[q] = (IF q = p THEN value ELSE row[q])
  BY DEF TypeOK
<1>2. SUFFICES ASSUME NEW a \in Profiles, NEW b \in Profiles,
                      row'[a] # None /\ row'[a].on, a # b,
                      row'[b] # None /\ row'[b].on, row'[b].port = row'[a].port,
                      Network[a] = Network[b]
               PROVE  Skips(a, b)
  BY DEF NoListenerConflict, Clash, Exists, Skips
<1>3. CASE a = p
  BY <1>1, <1>2, <1>3 DEF Clash, Exists, Skips
<1>4. CASE b = p
  BY <1>1, <1>2, <1>4 DEF Clash, Exists, Skips
<1>5. CASE a # p /\ b # p
  BY <1>1, <1>2, <1>5 DEF NoListenerConflict, Clash, Exists, Skips
<1>6. QED
  BY <1>3, <1>4, <1>5

LEMMA ConflictStep ==
    ASSUME TypeOK, Alone, Built, Checked, NoListenerConflict, [Next]_vars
    PROVE  NoListenerConflict'
<1>1. ASSUME row' = row, blind \subseteq blind' PROVE NoListenerConflict'
  BY <1>1 DEF NoListenerConflict, Clash, Exists
<1>2. ASSUME NEW s \in Sessions, Submit(s) PROVE NoListenerConflict'
  BY <1>1, <1>2, SubmitMutates DEF Mutation, store
<1>3. ASSUME \/ \E s \in Sessions, p \in Profiles : Open(s, p)
             \/ \E s \in Sessions : CheckListeners(s) \/ CheckSecrets(s) \/ Refuse(s)
             \/ Administer
             \/ Stop \/ Start \/ MarkBatch \/ Bootstrapped
             \/ \E b \in 1..Builds : Replace(b)
             \/ UNCHANGED vars
      PROVE  NoListenerConflict'
  BY <1>1, <1>3 DEF Open, CheckListeners, CheckSecrets, Refuse, Administer, SaveSecret,
     DeleteSecret, SaveSettings, Route, Stop, Start, MarkBatch, Bootstrapped, Replace, vars, store
<1>4. ASSUME NEW s \in Sessions, CommitCreate(s) \/ CommitUpdate(s) \/ CommitDelete(s)
      PROVE  NoListenerConflict'
  <2>1. req[s] # None /\ req[s] \in Handler /\ blind' = blind /\ req[s].pc = "commit"
    BY <1>4 DEF CommitCreate, CommitUpdate, CommitDelete, Working, TypeOK
  <2>2. req[s].verb # "delete" /\ req[s].row.on => Fits(req[s])
    BY <2>1 DEF Checked, CheckedFor
  <2>3. \/ row' = row
        \/ row' = [row EXCEPT ![req[s].p] = req[s].row] /\ req[s].verb # "delete"
        \/ row' = [row EXCEPT ![req[s].p] = None]
    BY <1>4 DEF CommitCreate, CommitUpdate, CommitDelete, Unwritten, Write
  <2>4. req[s].p \in Profiles
    BY <2>1 DEF Handler
  <2>5. CASE row' = row
    BY <1>1, <2>1, <2>5
  <2>6. CASE row' = [row EXCEPT ![req[s].p] = req[s].row] /\ req[s].verb # "delete"
    BY <2>1, <2>2, <2>4, <2>6, WriteKeepsListeners DEF Fits
  <2>7. CASE row' = [row EXCEPT ![req[s].p] = None]
    BY <2>1, <2>4, <2>7, WriteKeepsListeners
  <2>8. QED
    BY <2>3, <2>5, <2>6, <2>7
<1>5. ASSUME NEW p \in Profiles, InsertDefault(p) PROVE NoListenerConflict'
  <2>1. /\ row' = [row EXCEPT ![p] = Shipped(p, FALSE, build)]
        /\ blind' = blind /\ ~Shipped(p, FALSE, build).on
    BY <1>5 DEF InsertDefault, Shipped, Write
  <2>2. QED
    BY <2>1, WriteKeepsListeners
<1>6. ASSUME Migrate PROVE NoListenerConflict'
  <2>1. \A p \in Profiles : row'[p] # None =>
           row[p] # None /\ row'[p].on = row[p].on /\ row'[p].port = row[p].port
    <3>1. CASE Newer # {}
      BY <1>6, <3>1 DEF Migrate
    <3>2. CASE Newer = {}
      <4>1. \A p \in Older : /\ row[p] # None
                             /\ [row[p] EXCEPT !.ver = Schema[build]].on = row[p].on
                             /\ [row[p] EXCEPT !.ver = Schema[build]].port = row[p].port
        BY DEF Older, Exists, TypeOK, Row
      <4>2. QED
        BY <1>6, <3>2, <4>1 DEF Migrate
    <3>3. QED
      BY <3>1, <3>2
  <2>2. blind' = blind
    BY <1>6 DEF Migrate
  <2>3. QED
    BY <2>1, <2>2 DEF NoListenerConflict, Clash, Exists
<1>7. QED
  BY <1>2, <1>3, <1>4, <1>5, <1>6 DEF Next, Handle, Life

-----------------------------------------------------------------------------
(* The invariant and the theorems                                             *)

ProfilesInv == TypeOK /\ Alone /\ Seen /\ Built /\ Checked /\ NoListenerConflict

LEMMA InvInitially == Init => ProfilesInv
  BY TypeInitially, AloneInitially, SeenInitially, CandidatesInitially, ConflictInitially
     DEF ProfilesInv

LEMMA InvPreserved == ASSUME ProfilesInv, [Next]_vars PROVE ProfilesInv'
<1>1. TypeOK'
  BY TypePreserved DEF ProfilesInv
<1>2. QED
  BY <1>1, AloneStep, SeenStep, CandidatesStep, ConflictStep DEF ProfilesInv

LEMMA ProfilesInvariant == Spec => []ProfilesInv
  BY InvInitially, InvPreserved, PTL DEF Spec

(* However forms overlap, the semaphore keeps the check of listeners and the  *)
(* commit of profiles together: no two enabled profiles on one listener.      *)
THEOREM ListenersAreUnique == Spec => []NoListenerConflict
<1>1. ProfilesInv => NoListenerConflict
  BY DEF ProfilesInv
<1>2. QED
  BY <1>1, ProfilesInvariant, PTL

LEMMA SavesReplaceStep ==
    ASSUME ProfilesInv, [Next]_vars, NEW s \in Sessions, Committing(s), req'[s] = None
    PROVE  row[page[s].p] = page[s].row \/ page[s].p \in stood
<1>1. /\ req[s] # None /\ req[s].pc = "commit" /\ row' # row
      /\ page[s] # None /\ req[s].p = page[s].p /\ req[s].rev = page[s].rev
  BY DEF Committing, ProfilesInv, Built, BuiltFor
<1>2. CommitUpdate(s) \/ CommitDelete(s)
  <2>1. \A t \in Sessions : \A p \in Profiles : ~Open(t, p)
    BY <1>1 DEF Open, store
  <2>2. \A t \in Sessions : ~Submit(t) /\ ~CheckListeners(t) /\ ~CheckSecrets(t) /\ ~Refuse(t)
    BY <1>1, SubmitMutates DEF Mutation, CheckListeners, CheckSecrets, Refuse, store
  <2>3. ~Administer /\ ~UNCHANGED vars
    BY <1>1 DEF Administer, SaveSecret, DeleteSecret, SaveSettings, Route, vars, store
  <2>4. ~Life
    <3>1. boot = "up"
      BY <1>1 DEF ProfilesInv, Alone
    <3>2. QED
      BY <1>1, <3>1 DEF Life, Stop, Start, MarkBatch, Bootstrapped, Migrate, Replace,
         InsertDefault, store
  <2>5. PICK t \in Sessions : CommitCreate(t) \/ CommitUpdate(t) \/ CommitDelete(t)
    BY <2>1, <2>2, <2>3, <2>4 DEF Next, Handle
  <2>6. req[t] # None
    BY <2>5 DEF CommitCreate, CommitUpdate, CommitDelete, Working
  <2>7. t = s
    BY <1>1, <2>6 DEF ProfilesInv, Alone
  <2>8. ~CommitCreate(s)
    BY DEF CommitCreate, Committing
  <2>9. QED
    BY <2>5, <2>7, <2>8
<1>3. Current(req[s])
  BY <1>1, <1>2 DEF CommitUpdate, CommitDelete, Unwritten
<1>4. QED
  BY <1>1, <1>3 DEF Current, ProfilesInv, Seen, SeenFor

(* Whatever happens between the load of a page and its save or its deletion,  *)
(* the row that is replaced is the row the page showed, unless a profile of   *)
(* that name was ever written at a time not later than the write before.      *)
THEOREM OldTabsOverwriteNothing == Spec => SavesReplaceWhatWasSeen
<1>1. ProfilesInv /\ [Next]_vars =>
         [\A s \in Sessions : Committing(s) /\ req'[s] = None
             => row[page[s].p] = page[s].row \/ page[s].p \in stood]_vars
  BY SavesReplaceStep
<1>2. QED
  BY <1>1, ProfilesInvariant, PTL DEF Spec, SavesReplaceWhatWasSeen

-----------------------------------------------------------------------------
(* Generations                                                                *)

AnyTitle == CHOOSE t \in Titles : TRUE
Untitled(r) == [r EXCEPT !.title = AnyTitle]

LEMMA UntitledSame ==
    ASSUME NEW a \in Row, NEW b \in Row, a.ver = b.ver, a.on, b.on
    PROVE  Untitled(a) = Untitled(b) <=> ~RuntimeChanged(a, b)
<1>1. AnyTitle \in Titles
  BY DEF AnyTitle, Row
<1>2. ASSUME NEW r \in Row
      PROVE  /\ Untitled(r) \in Row /\ Untitled(r).title = AnyTitle /\ Untitled(r).on = r.on
             /\ Untitled(r).port = r.port /\ Untitled(r).cfg = r.cfg /\ Untitled(r).ver = r.ver
  BY <1>1 DEF Untitled, Row
<1>3. ASSUME NEW r \in Row, NEW q \in Row
      PROVE  r = q <=> /\ r.title = q.title /\ r.on = q.on /\ r.port = q.port
                       /\ r.cfg = q.cfg /\ r.ver = q.ver
  BY DEF Row
<1>4. a.on = b.on
  BY DEF Row
<1>5. Untitled(a) = Untitled(b) <=> a.port = b.port /\ a.cfg = b.cfg
  <2>1. Untitled(a) = Untitled(b) => a.port = b.port /\ a.cfg = b.cfg
    <3>1. a.port = Untitled(a).port /\ b.port = Untitled(b).port
      BY <1>2
    <3>2. a.cfg = Untitled(a).cfg /\ b.cfg = Untitled(b).cfg
      BY <1>2
    <3>3. QED
      BY <3>1, <3>2
  <2>2. ASSUME a.port = b.port, a.cfg = b.cfg PROVE Untitled(a) = Untitled(b)
    <3>1. Untitled(a) \in Row /\ Untitled(b) \in Row
      BY <1>2
    <3>2. Untitled(a).title = Untitled(b).title /\ Untitled(a).ver = Untitled(b).ver
      BY <1>2
    <3>3. Untitled(a).port = Untitled(b).port /\ Untitled(a).cfg = Untitled(b).cfg
      BY <1>2, <2>2
    <3>4. Untitled(a).on = Untitled(b).on
      BY <1>2, <1>4
    <3>5. QED
      BY <1>3, <3>1, <3>2, <3>3, <3>4
  <2>3. QED
    BY <2>1, <2>2
<1>6. QED
  BY <1>4, <1>5 DEF RuntimeChanged, ConfigurationChanged

(* Whether a written row is part of a changed desired state.                  *)
Changes(old, new) ==
    IF new = None THEN old # None /\ old.on
    ELSE IF old = None THEN new.on ELSE RuntimeChanged(old, new)

LEMMA WriteTellsRuntime ==
    ASSUME TypeOK, NEW p \in Profiles, NEW value \in Row \cup {None},
           row' = [row EXCEPT ![p] = value], UNCHANGED <<domain, secret>>,
           value # None /\ row[p] # None => value.ver = row[p].ver
    PROVE  Runtime' = Runtime <=> ~Changes(row[p], value)
<1> DEFINE face  == [q \in Published |-> Untitled(row[q])]
           face2 == [q \in Published' |-> Untitled(row'[q])]
<1>1. row[p] \in Row \cup {None} /\ \A q \in Profiles : row'[q] = IF q = p THEN value ELSE row[q]
  BY DEF TypeOK
<1>2. Runtime' = Runtime <=> face2 = face
  BY DEF Runtime, Untitled, AnyTitle
<1>3. p \in Published <=> row[p] # None /\ row[p].on
  BY DEF Published, Exists
<1>4. p \in Published' <=> value # None /\ value.on
  BY <1>1 DEF Published, Exists
<1>5. \A q \in Profiles \ {p} : (q \in Published' <=> q \in Published) /\ row'[q] = row[q]
  BY <1>1 DEF Published, Exists
<1>6. Published \subseteq Profiles /\ Published' \subseteq Profiles
  BY DEF Published
<1>7. CASE (p \in Published) # (p \in Published')
  <2>1. Published # Published'
    BY <1>7
  <2>2. DOMAIN face = Published /\ DOMAIN face2 = Published'
    OBVIOUS
  <2>3. face # face2
    BY <2>1, <2>2
  <2>4. Changes(row[p], value)
    BY <1>1, <1>3, <1>4, <1>7 DEF Changes, RuntimeChanged, Row
  <2>5. QED
    BY <1>2, <2>3, <2>4
<1>8. CASE p \notin Published /\ p \notin Published'
  <2>1. Published' = Published
    BY <1>5, <1>6, <1>8
  <2>2. \A q \in Published : row'[q] = row[q]
    BY <1>5, <1>6, <1>8
  <2>3. face2 = face
    BY <2>1, <2>2
  <2>4. ~Changes(row[p], value)
    BY <1>1, <1>3, <1>4, <1>8 DEF Changes, RuntimeChanged, Row
  <2>5. QED
    BY <1>2, <2>3, <2>4
<1>9. CASE p \in Published /\ p \in Published'
  <2>1. Published' = Published
    BY <1>5, <1>6, <1>9
  <2>2. row[p] \in Row /\ value \in Row /\ row[p].on /\ value.on /\ value.ver = row[p].ver
    BY <1>1, <1>3, <1>4, <1>9
  <2>3. face2 = face <=> Untitled(value) = Untitled(row[p])
    <3>1. face2[p] = Untitled(value) /\ face[p] = Untitled(row[p])
      BY <1>1, <1>9
    <3>2. ASSUME Untitled(value) = Untitled(row[p])
          PROVE  \A q \in Published : Untitled(row'[q]) = Untitled(row[q])
      BY <1>1, <1>6, <3>2
    <3>3. QED
      BY <2>1, <3>1, <3>2
  <2>4. Untitled(row[p]) = Untitled(value) <=> ~RuntimeChanged(row[p], value)
    BY <2>2, UntitledSame
  <2>5. Changes(row[p], value) = RuntimeChanged(row[p], value)
    BY <1>3, <1>4, <1>9 DEF Changes
  <2>6. QED
    BY <1>2, <2>3, <2>4, <2>5
<1>10. QED
  BY <1>7, <1>8, <1>9

Told == generation' = generation + (IF Runtime' = Runtime THEN 0 ELSE 1)

LEMMA GenerationStep ==
    ASSUME ProfilesInv, [Next]_vars, boot = "up"
    PROVE  Told
<1> USE DEF ProfilesInv
<1>1. generation \in Nat /\ secret \in [Secrets -> Nat]
  BY DEF TypeOK
<1>2. ASSUME UNCHANGED <<row, domain, secret, generation>> PROVE Told
  BY <1>1, <1>2 DEF Told, Runtime, Published, Exists
<1>3. ASSUME NEW s \in Sessions, Submit(s) PROVE Told
  BY <1>2, <1>3, SubmitMutates DEF Mutation, store
<1>4. ASSUME \/ \E s \in Sessions, p \in Profiles : Open(s, p)
             \/ \E s \in Sessions : CheckListeners(s) \/ CheckSecrets(s) \/ Refuse(s)
             \/ \E p \in Profiles : Route(p)
             \/ Stop \/ UNCHANGED vars
      PROVE  Told
  BY <1>2, <1>4 DEF Open, CheckListeners, CheckSecrets, Refuse, Route, Stop, vars, store
<1>5. ASSUME NEW s \in Sessions, CommitCreate(s) \/ CommitUpdate(s) \/ CommitDelete(s)
      PROVE  Told
  <2> DEFINE r == req[s]
             old == row[r.p]
  <2>1. r # None /\ r \in Handler /\ r.p \in Profiles /\ BuiltFor(s) /\ old \in Row \cup {None}
    BY <1>5 DEF CommitCreate, CommitUpdate, CommitDelete, Working, TypeOK, Built, Handler
  <2>2. UNCHANGED <<domain, secret>>
    BY <1>5 DEF CommitCreate, CommitUpdate, CommitDelete
  <2>3. ASSUME NEW value \in Row \cup {None}, row' = [row EXCEPT ![r.p] = value],
               Bump(Changes(old, value)),
               value # None /\ old # None => value.ver = old.ver
        PROVE  Told
    <3>1. Runtime' = Runtime <=> ~Changes(old, value)
      BY <2>1, <2>2, <2>3, WriteTellsRuntime
    <3>2. QED
      BY <1>1, <2>3, <3>1 DEF Told, Bump
  <2>4. CASE Unwritten
    BY <1>2, <2>2, <2>4 DEF Unwritten
  <2>5. CASE CommitCreate(s) /\ ~Unwritten
    <3>1. /\ old = None /\ row' = [row EXCEPT ![r.p] = r.row]
          /\ Bump(r.row.on) /\ r.row \in Row
      BY <2>1, <2>5 DEF CommitCreate, Exists, BuiltFor, Write
    <3>2. Changes(old, r.row) = r.row.on
      BY <3>1, NoneIsNoRow DEF Changes
    <3>3. QED
      BY <2>3, <3>1, <3>2
  <2>6. CASE CommitUpdate(s) /\ ~Unwritten
    <3>1. /\ old # None /\ row' = [row EXCEPT ![r.p] = r.row]
          /\ Bump(RuntimeChanged(old, r.row))
          /\ r.row \in Row /\ r.row.ver = old.ver
      BY <2>1, <2>6 DEF CommitUpdate, Current, Exists, BuiltFor, Write
    <3>2. Changes(old, r.row) = RuntimeChanged(old, r.row)
      BY <3>1, NoneIsNoRow DEF Changes
    <3>3. QED
      BY <2>3, <3>1, <3>2
  <2>7. CASE CommitDelete(s) /\ ~Unwritten
    <3>1. old # None /\ row' = [row EXCEPT ![r.p] = None] /\ Bump(old.on)
      BY <2>7 DEF CommitDelete, Current, Exists
    <3>2. Changes(old, None) = old.on
      BY <2>1, <3>1 DEF Changes, Row
    <3>3. QED
      BY <2>3, <3>1, <3>2
  <2>8. QED
    BY <1>5, <2>4, <2>5, <2>6, <2>7
<1>6. ASSUME NEW n \in Secrets, SaveSecret(n) \/ DeleteSecret(n) PROVE Told
  <2>1. secret'[n] # secret[n]
    <3>1. CASE SaveSecret(n)
      BY <1>1, <3>1 DEF SaveSecret, UpsertSecret
    <3>2. CASE DeleteSecret(n)
      BY <1>1, <3>2 DEF DeleteSecret, RemoveSecret
    <3>3. QED
      BY <1>6, <3>1, <3>2
  <2>2. generation' = generation + 1
    BY <1>6 DEF SaveSecret, DeleteSecret, UpsertSecret, RemoveSecret, Bump
  <2>3. QED
    BY <2>1, <2>2 DEF Told, Runtime
<1>7. ASSUME NEW d \in Domains, SaveSettings(d) PROVE Told
  <2>1. UNCHANGED <<row, secret>> /\ domain' = d /\ Bump(d # domain)
    BY <1>7 DEF SaveSettings, UpsertSettings
  <2>2. CASE d = domain
    BY <1>2, <2>1, <2>2, <1>1 DEF Bump
  <2>3. CASE d # domain
    BY <2>1, <2>3 DEF Bump, Told, Runtime
  <2>4. QED
    BY <2>2, <2>3
<1>8. ~Start /\ ~MarkBatch /\ ~Bootstrapped /\ ~Migrate
      /\ ~(\E b \in 1..Builds : Replace(b)) /\ ~(\E p \in Profiles : InsertDefault(p))
  BY DEF Start, MarkBatch, Bootstrapped, Migrate, Replace, InsertDefault
<1>9. QED
  BY <1>3, <1>4, <1>5, <1>6, <1>7, <1>8 DEF Next, Handle, Administer, Life

(* Every change of the desired state of a running panel is one generation,    *)
(* and every generation is a change of it: no repeated click, display name or *)
(* disabled profile makes the worker run.                                     *)
THEOREM GenerationsTellRuntime == Spec => GenerationTellsRuntime
<1>1. ProfilesInv /\ [Next]_vars =>
         [boot = "up" => generation' = generation + (IF Runtime' = Runtime THEN 0 ELSE 1)]_vars
  BY GenerationStep DEF Told
<1>2. QED
  BY <1>1, ProfilesInvariant, PTL DEF Spec, GenerationTellsRuntime
=============================================================================
